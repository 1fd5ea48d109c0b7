--------------------------- MODULE Runner_proofs ---------------------------
(***************************************************************************)
(* Proofs about Runner, for any number of executions, instances, slots and *)
(* crashes.                                                                *)
(***************************************************************************)
EXTENDS Runner, FiniteSetTheorems, TLAPS

-----------------------------------------------------------------------------
(***************************************************************************)
(* Type correctness.  That a slot is only given back by an execution that  *)
(* has one needs the count: len(sem) is the number of executions between   *)
(* Acquire and Release.                                                    *)
(***************************************************************************)

\* Where an execution has no instance, and where it has a slot.
Outside == {"idle", "returned", "dead"}
WithSlot == PC \ (Outside \cup {"wait"})

Holders(s) == {r \in Run : at[r] = s /\ pc[r] \in WithSlot}

Placed == \A r \in Run : pc[r] \in Outside <=> at[r] = None

SlotsCounted == \A s \in Server : sem[s] = Cardinality(Holders(s))

TInv == TypeOK /\ Placed /\ SlotsCounted

\* Neither an instance nor a status is None.
LEMMA Distinct ==
  /\ \A s \in Server : s # None
  /\ None \notin {"available", "withdrawn", "running", "failed", "success", "timeout"}
BY NoneIsNoValue

\* The executions that hold a slot of an instance can be counted.
LEMMA HoldersFinite ==
  ASSUME NEW s \in Server
  PROVE  IsFiniteSet(Holders(s)) /\ Cardinality(Holders(s)) \in Nat
<1>1. Holders(s) \subseteq Run
  BY DEF Holders
<1>2. IsFiniteSet(Holders(s))
  BY <1>1, RunsFinite, FS_Subset
<1>3. QED
  BY <1>2, FS_CardinalityType

\* A step that moves one execution without its slot keeps the count.
LEMMA CountKept ==
  ASSUME TInv, sem' = sem, \A s \in Server : Holders(s)' = Holders(s)
  PROVE  SlotsCounted'
BY DEF TInv, SlotsCounted

\* TInv holds initially.
LEMMA TInvInit == Init => TInv
<1> SUFFICES ASSUME Init PROVE TInv
  OBVIOUS
<1>1. TypeOK /\ Placed
  <2>1. 0 \in 0 .. MaxConcurrentExecs /\ 0 \in 0 .. MaxCrashes
    BY SlotsExist, CrashesBounded
  <2>2. TypeOK
    BY <2>1 DEF Init, TypeOK, PC
  <2>3. QED
    BY <2>2 DEF Init, Placed, Outside
<1>2. \A s \in Server : Holders(s) = {}
  BY DEF Init, Holders, WithSlot, Outside
<1>3. QED
  BY <1>1, <1>2, FS_EmptySet DEF Init, TInv, SlotsCounted

\* Taking a slot preserves TInv.
LEMMA TInvAcquire ==
  ASSUME TInv, NEW r \in Run, Acquire(r)
  PROVE  TInv'
<1>1. PICK s \in Server : s = at[r]
  BY DEF Acquire, TInv, TypeOK, Placed, Outside
<1>2. Holders(s)' = Holders(s) \cup {r} /\ r \notin Holders(s)
  BY <1>1 DEF Acquire, Goto, Holders, WithSlot, Outside, PC, TInv, TypeOK
<1>3. \A t \in Server \ {s} : Holders(t)' = Holders(t)
  BY <1>1 DEF Acquire, Goto, Holders, WithSlot, Outside, PC, TInv, TypeOK
<1>4. Cardinality(Holders(s)') = Cardinality(Holders(s)) + 1
  BY <1>1, <1>2, HoldersFinite, FS_AddElement
<1>5. TypeOK' /\ Placed'
  BY <1>1, SlotsExist DEF Acquire, Goto, TInv, TypeOK, Placed, PC, Outside, serverVars, skillVars
<1>6. SlotsCounted'
  BY <1>1, <1>3, <1>4 DEF Acquire, TInv, SlotsCounted, TypeOK
<1>7. QED
  BY <1>5, <1>6 DEF TInv

\* Giving a slot back preserves TInv.
LEMMA TInvRelease ==
  ASSUME TInv, NEW r \in Run, Release(r)
  PROVE  TInv'
<1>1. PICK s \in Server : s = at[r] /\ r \in Holders(s)
  BY DEF Release, TInv, TypeOK, Placed, Outside, Holders, WithSlot, PC
<1>2. Holders(s)' = Holders(s) \ {r}
  BY Distinct, <1>1 DEF Release, Leave, Holders, WithSlot, Outside
<1>3. \A t \in Server \ {s} : Holders(t)' = Holders(t)
  BY Distinct, <1>1 DEF Release, Leave, Holders, WithSlot, Outside
<1>4. Cardinality(Holders(s)') = Cardinality(Holders(s)) - 1
  BY <1>1, <1>2, HoldersFinite, FS_RemoveElement
<1>5. sem[s] \in 1 .. MaxConcurrentExecs
  <2>1. Holders(s) # {}
    BY <1>1
  <2>2. Cardinality(Holders(s)) # 0
    BY <1>1, <2>1, HoldersFinite, FS_EmptySet
  <2>3. QED
    BY <1>1, <2>2, HoldersFinite, SlotsExist DEF TInv, SlotsCounted, TypeOK
<1>6. TypeOK' /\ Placed'
  BY <1>1, <1>5, SlotsExist
     DEF Release, Leave, TInv, TypeOK, Placed, PC, Outside, serverVars, skillVars
<1>7. SlotsCounted'
  BY <1>1, <1>3, <1>4 DEF Release, TInv, SlotsCounted, TypeOK
<1>8. QED
  BY <1>6, <1>7 DEF TInv

\* The death of an instance, with its executions and its semaphore, preserves
\* TInv.
LEMMA TInvCrash ==
  ASSUME TInv, NEW s \in Server, Crash(s)
  PROVE  TInv'
<1>1. TypeOK' /\ Placed'
  BY Distinct, SlotsExist, CrashesBounded
     DEF Crash, Leave, TInv, TypeOK, Placed, PC, Outside, skillVars
<1>2. Holders(s)' = {}
  BY Distinct DEF Crash, Leave, Holders, WithSlot, Outside
<1>3. \A t \in Server \ {s} : Holders(t)' = Holders(t)
  BY Distinct DEF Crash, Leave, Holders, WithSlot, Outside
<1>4. Cardinality(Holders(s)') = 0
  BY <1>2, FS_EmptySet
<1>5. SlotsCounted'
  BY <1>3, <1>4 DEF Crash, TInv, SlotsCounted, TypeOK
<1>6. QED
  BY <1>1, <1>5 DEF TInv

\* A step that leaves the semaphores alone, and every execution with its slot,
\* preserves TInv as long as it preserves the types.
Quiet == sem' = sem /\ \A t \in Server : Holders(t)' = Holders(t)

\* Every other step of an execution preserves TInv.
LEMMA TInvRun ==
  ASSUME TInv, NEW r \in Run,
         \/ \E s \in Server : Arrive(r, s)
         \/ ContextEnds(r) \/ GiveUp(r) \/ Resolve(r) \/ Gate(r) \/ CreateRecord(r)
         \/ Execute(r) \/ DeleteSandbox(r) \/ UpdateRecord(r) \/ Expire(r)
  PROVE  TInv'
<1> DEFINE Goal == TypeOK' /\ Placed' /\ Quiet
<1> SUFFICES Goal
  BY CountKept DEF TInv, Quiet
<1> USE Distinct DEF TInv, TypeOK, Placed, Quiet, Holders, WithSlot, Outside, PC, Goto,
        Leave, serverVars, skillVars
<1>1. ASSUME NEW s \in Server, Arrive(r, s) PROVE Goal
  BY <1>1 DEF Arrive
<1>2. CASE ContextEnds(r)
  BY <1>2 DEF ContextEnds
<1>3. CASE GiveUp(r)
  BY <1>3 DEF GiveUp
<1>4. CASE Resolve(r)
  BY <1>4 DEF Resolve
<1>5. CASE Gate(r)
  BY <1>5 DEF Gate
<1>6. CASE CreateRecord(r)
  BY <1>6 DEF CreateRecord
<1>7. CASE Load(r)
  BY <1>7 DEF Load
<1>8. CASE CreateSandbox(r)
  BY <1>8 DEF CreateSandbox
<1>9. CASE Prepare(r)
  BY <1>9 DEF Prepare
<1>10. CASE Command(r)
  BY <1>10 DEF Command
<1>11. CASE Collect(r)
  BY <1>11 DEF Collect
<1>12. CASE DeleteSandbox(r)
  BY <1>12 DEF DeleteSandbox
<1>13. CASE UpdateRecord(r)
  BY <1>13 DEF UpdateRecord
<1>14. CASE Expire(r)
  BY <1>14 DEF Expire
<1> HIDE DEF Goal
<1>15. QED
  BY <1>1, <1>2, <1>3, <1>4, <1>5, <1>6, <1>7, <1>8, <1>9, <1>10, <1>11, <1>12,
     <1>13, <1>14 DEF Execute

\* The steps of an instance that lives, and of the version, preserve TInv.
LEMMA TInvOthers ==
  ASSUME TInv, (\E s \in Server : ServerStep(s)) \/ SkillStep
  PROVE  TInv'
<1> DEFINE Goal == TypeOK' /\ Placed' /\ Quiet
<1> SUFFICES Goal
  BY CountKept DEF TInv, Quiet
<1> USE DEF TInv, TypeOK, Placed, Quiet, Holders, serverVars, skillVars
<1>1. ASSUME NEW s \in Server, Boot(s) PROVE Goal
  BY <1>1 DEF Boot
<1>2. ASSUME NEW s \in Server, ListOrphans(s) PROVE Goal
  BY <1>2 DEF ListOrphans
<1>3. ASSUME NEW s \in Server, NEW r \in Run, DeleteOrphan(s, r) PROVE Goal
  BY <1>3 DEF DeleteOrphan
<1>4. ASSUME NEW s \in Server, Serve(s) PROVE Goal
  BY <1>4 DEF Serve
<1>5. CASE Withdraw
  BY <1>5 DEF Withdraw
<1>6. CASE Upload
  BY <1>6 DEF Upload
<1>7. CASE Publish
  BY <1>7 DEF Publish
<1>8. CASE EraseArchive
  BY <1>8 DEF EraseArchive
<1>9. CASE DeleteRows
  BY <1>9 DEF DeleteRows
<1> HIDE DEF Goal
<1>10. QED
  BY <1>1, <1>2, <1>3, <1>4, <1>5, <1>6, <1>7, <1>8, <1>9 DEF ServerStep, SkillStep

\* Every step preserves TInv.
LEMMA TInvStep == TInv /\ [Next]_vars => TInv'
<1> SUFFICES ASSUME TInv, [Next]_vars PROVE TInv'
  OBVIOUS
<1>1. ASSUME NEW r \in Run, NEW s \in Server, Arrive(r, s) PROVE TInv'
  BY <1>1, TInvRun
<1>2. ASSUME NEW r \in Run, RunStep(r) \/ ContextEnds(r) \/ Expire(r) PROVE TInv'
  BY <1>2, TInvRun, TInvAcquire, TInvRelease DEF RunStep, Admit, Defers
<1>3. ASSUME NEW s \in Server, Crash(s) PROVE TInv'
  BY <1>3, TInvCrash
<1>4. CASE (\E s \in Server : ServerStep(s)) \/ SkillStep
  BY <1>4, TInvOthers
<1>5. CASE UNCHANGED vars
  BY <1>5 DEF vars, serverVars, skillVars, TInv, TypeOK, Placed, SlotsCounted, Holders
<1>6. QED
  BY <1>1, <1>2, <1>3, <1>4, <1>5 DEF Next

\* The variables keep their types, and len(sem) counts the executions that hold a
\* slot: Run gives back exactly what it took, on every path, and the death of an
\* instance loses both.
THEOREM SlotsAreHeld == Spec => [](TypeOK /\ SlotsCounted)
<1>1. Init => TInv
  BY TInvInit
<1>2. TInv /\ [Next]_vars => TInv'
  BY TInvStep
<1>3. TInv => TypeOK /\ SlotsCounted
  BY DEF TInv
<1>4. QED
  BY <1>1, <1>2, <1>3, PTL DEF Spec

\* TInv, to be used by the theorems that follow.
LEMMA Types == Spec => []TInv
BY TInvInit, TInvStep, PTL DEF Spec

\* The variables keep their types.
THEOREM TypesHold == Spec => []TypeOK
<1>1. TInv => TypeOK
  BY DEF TInv
<1>2. QED
  BY <1>1, Types, PTL

-----------------------------------------------------------------------------
(***************************************************************************)
(* Sandboxes and records.                                                  *)
(***************************************************************************)

\* An execution has no record before the insert, and none that is finished
\* before its update.
RecordFollows ==
  \A r \in Run :
    /\ pc[r] \in {"idle", "wait", "resolve", "gate", "record"} => record[r] = None
    /\ pc[r] \in {"load", "create", "prepare", "command", "collect", "delete", "update"}
         => record[r] \in {"running", None}

OwnInv == LiveSandboxIsOwned /\ RunningIsTracked /\ RecordFollows

\* OwnInv holds initially.
LEMMA OwnInit == Init => OwnInv
BY Distinct DEF Init, OwnInv, LiveSandboxIsOwned, RunningIsTracked, RecordFollows

\* The steps of an execution preserve OwnInv.
LEMMA OwnRun ==
  ASSUME TypeOK, OwnInv, NEW r \in Run,
         \/ \E s \in Server : Arrive(r, s)
         \/ ContextEnds(r) \/ Expire(r) \/ RunStep(r)
  PROVE  OwnInv'
<1> USE Distinct DEF TypeOK, OwnInv, LiveSandboxIsOwned, RunningIsTracked, RecordFollows,
        PC, Goto, Leave, serverVars, skillVars
<1>1. ASSUME NEW s \in Server, Arrive(r, s) PROVE OwnInv'
  BY <1>1 DEF Arrive
<1>2. CASE ContextEnds(r)
  BY <1>2 DEF ContextEnds
<1>3. CASE Expire(r)
  BY <1>3 DEF Expire
<1>4. CASE Acquire(r)
  BY <1>4 DEF Acquire
<1>5. CASE GiveUp(r)
  BY <1>5 DEF GiveUp
<1>6. CASE Resolve(r)
  BY <1>6 DEF Resolve
<1>7. CASE Gate(r)
  BY <1>7 DEF Gate
<1>8. CASE CreateRecord(r)
  BY <1>8 DEF CreateRecord
<1>9. CASE Load(r)
  BY <1>9 DEF Load
<1>10. CASE CreateSandbox(r)
  BY <1>10 DEF CreateSandbox
<1>11. CASE Prepare(r)
  BY <1>11 DEF Prepare
<1>12. CASE Command(r)
  BY <1>12 DEF Command
<1>13. CASE Collect(r)
  BY <1>13 DEF Collect
<1>14. CASE DeleteSandbox(r)
  BY <1>14 DEF DeleteSandbox
<1>15. CASE UpdateRecord(r)
  BY <1>15 DEF UpdateRecord
<1>16. CASE Release(r)
  BY <1>16 DEF Release
<1>17. QED
  BY <1>1, <1>2, <1>3, <1>4, <1>5, <1>6, <1>7, <1>8, <1>9, <1>10, <1>11, <1>12, <1>13,
     <1>14, <1>15, <1>16 DEF RunStep, Admit, Execute, Defers

\* So do those of an instance, its death included, and of the version.
LEMMA OwnOthers ==
  ASSUME TypeOK, OwnInv, (\E s \in Server : ServerStep(s) \/ Crash(s)) \/ SkillStep
  PROVE  OwnInv'
<1> USE Distinct DEF TypeOK, OwnInv, LiveSandboxIsOwned, RunningIsTracked, RecordFollows,
        PC, serverVars, skillVars
<1>1. ASSUME NEW s \in Server, Boot(s) PROVE OwnInv'
  BY <1>1 DEF Boot
<1>2. ASSUME NEW s \in Server, ListOrphans(s) PROVE OwnInv'
  BY <1>2 DEF ListOrphans
<1>3. ASSUME NEW s \in Server, NEW r \in Run, DeleteOrphan(s, r) PROVE OwnInv'
  BY <1>3 DEF DeleteOrphan
<1>4. ASSUME NEW s \in Server, Serve(s) PROVE OwnInv'
  BY <1>4 DEF Serve
<1>5. ASSUME NEW s \in Server, Crash(s) PROVE OwnInv'
  BY <1>5 DEF Crash, Leave
<1>6. CASE Withdraw
  BY <1>6 DEF Withdraw
<1>7. CASE Upload
  BY <1>7 DEF Upload
<1>8. CASE Publish
  BY <1>8 DEF Publish
<1>9. CASE EraseArchive
  BY <1>9 DEF EraseArchive
<1>10. CASE DeleteRows
  BY <1>10 DEF DeleteRows
<1>11. QED
  BY <1>1, <1>2, <1>3, <1>4, <1>5, <1>6, <1>7, <1>8, <1>9, <1>10 DEF ServerStep, SkillStep

\* Every step preserves OwnInv.
LEMMA OwnStep == TypeOK /\ OwnInv /\ [Next]_vars => OwnInv'
<1> SUFFICES ASSUME TypeOK, OwnInv, [Next]_vars PROVE OwnInv'
  OBVIOUS
<1>1. CASE UNCHANGED vars
  BY <1>1 DEF vars, skillVars, OwnInv, LiveSandboxIsOwned, RunningIsTracked, RecordFollows
<1>2. CASE Next
  BY <1>2, OwnRun, OwnOthers DEF Next
<1>3. QED
  BY <1>1, <1>2

\* OwnInv, to be used by the theorems that follow.
LEMMA Ownership == Spec => []OwnInv
BY OwnInit, OwnStep, TypesHold, PTL DEF Spec

\* No path of Run leaks a sandbox: a live one has an execution that will delete
\* it, unless its id or its deletion was lost or its server died.
THEOREM NoSandboxLeaks == Spec => []LiveSandboxIsOwned
<1>1. OwnInv => LiveSandboxIsOwned
  BY DEF OwnInv
<1>2. QED
  BY <1>1, Ownership, PTL

\* No path of Run forgets its record: one that says running belongs to an
\* execution that will update it, unless the insert's answer or the update was
\* lost or the server died.
THEOREM RecordsAreUpdated == Spec => []RunningIsTracked
<1>1. OwnInv => RunningIsTracked
  BY DEF OwnInv
<1>2. QED
  BY <1>1, Ownership, PTL

\* The record of an execution is finished only after its sandbox was deleted.
THEOREM FinishedAfterDeletion == Spec => []FinishedHasNoSandbox
<1>1. TypeOK /\ OwnInv => FinishedHasNoSandbox
  BY Distinct DEF TypeOK, PC, OwnInv, LiveSandboxIsOwned, RecordFollows, FinishedHasNoSandbox
<1>2. QED
  BY <1>1, Ownership, TypesHold, PTL

\* An instance has no more sandboxes alive than slots, apart from those it lost.
THEOREM SlotsBoundSandboxes == Spec => []SandboxesBounded
<1>1. TInv /\ OwnInv => SandboxesBounded
  <2> SUFFICES ASSUME TInv, OwnInv, NEW s \in Server
               PROVE  Cardinality({r \in Run \ left : at[r] = s /\ sandbox[r] = "live"})
                        <= MaxConcurrentExecs
    BY DEF SandboxesBounded
  <2> DEFINE Live == {r \in Run \ left : at[r] = s /\ sandbox[r] = "live"}
  <2>1. Live \subseteq Holders(s)
    BY DEF OwnInv, LiveSandboxIsOwned, Holders, WithSlot, Outside, PC
  <2>2. /\ IsFiniteSet(Holders(s))
        /\ Cardinality(Holders(s)) \in Nat
        /\ Cardinality(Live) \in Nat
        /\ Cardinality(Live) <= Cardinality(Holders(s))
    BY <2>1, HoldersFinite, FS_Subset, FS_CardinalityType
  <2>3. Cardinality(Holders(s)) <= MaxConcurrentExecs
    BY SlotsExist DEF TInv, TypeOK, SlotsCounted
  <2>4. QED
    BY <2>2, <2>3, SlotsExist
<1>2. QED
  BY <1>1, Types, Ownership, PTL

-----------------------------------------------------------------------------
(***************************************************************************)
(* The execution gate.                                                     *)
(***************************************************************************)

\* While the version is available nobody is barred; once it is gone, nobody is or
\* there is no archive to run.
NobodyBarred ==
  /\ skill = "available" => barred = {}
  /\ skill = None => barred = {} \/ ~archive

\* A barred execution that passed the gate, because its status could not be read
\* or there was no row, will not find its archive.
BarredFails ==
  \A r \in barred :
    /\ pc[r] \notin {"create", "prepare", "command", "collect"}
    /\ pc[r] \in {"record", "load"} => r \in over \/ ~archive

GateInv == NobodyBarred /\ BarredFails

\* The steps of an execution preserve GateInv when the database answers.
LEMMA GateRun ==
  ASSUME "db" \notin Faults, TypeOK, GateInv, NEW r \in Run,
         \/ \E s \in Server : Arrive(r, s)
         \/ ContextEnds(r) \/ Expire(r) \/ RunStep(r)
  PROVE  GateInv'
<1> USE Distinct DEF TypeOK, GateInv, NobodyBarred, BarredFails, PC, Goto, Leave,
        serverVars, skillVars
<1>1. ASSUME NEW s \in Server, Arrive(r, s) PROVE GateInv'
  BY <1>1 DEF Arrive
<1>2. CASE ContextEnds(r)
  BY <1>2 DEF ContextEnds
<1>3. CASE Expire(r)
  BY <1>3 DEF Expire
<1>4. CASE Acquire(r)
  BY <1>4 DEF Acquire
<1>5. CASE GiveUp(r)
  BY <1>5 DEF GiveUp
<1>6. CASE Resolve(r)
  BY <1>6 DEF Resolve
<1>7. CASE Gate(r)
  BY <1>7 DEF Gate
<1>8. CASE CreateRecord(r)
  BY <1>8 DEF CreateRecord
<1>9. CASE Load(r)
  BY <1>9 DEF Load
<1>10. CASE CreateSandbox(r)
  BY <1>10 DEF CreateSandbox
<1>11. CASE Prepare(r)
  BY <1>11 DEF Prepare
<1>12. CASE Command(r)
  BY <1>12 DEF Command
<1>13. CASE Collect(r)
  BY <1>13 DEF Collect
<1>14. CASE DeleteSandbox(r)
  BY <1>14 DEF DeleteSandbox
<1>15. CASE UpdateRecord(r)
  BY <1>15 DEF UpdateRecord
<1>16. CASE Release(r)
  BY <1>16 DEF Release
<1>17. QED
  BY <1>1, <1>2, <1>3, <1>4, <1>5, <1>6, <1>7, <1>8, <1>9, <1>10, <1>11, <1>12, <1>13,
     <1>14, <1>15, <1>16 DEF RunStep, Admit, Execute, Defers

\* So do those of an instance, its death included, and of the version.
LEMMA GateOthers ==
  ASSUME TypeOK, GateInv, (\E s \in Server : ServerStep(s) \/ Crash(s)) \/ SkillStep
  PROVE  GateInv'
<1> USE Distinct DEF TypeOK, GateInv, NobodyBarred, BarredFails, serverVars, skillVars
<1>1. ASSUME NEW s \in Server, ServerStep(s) PROVE GateInv'
  BY <1>1 DEF ServerStep, Boot, ListOrphans, DeleteOrphan, Serve
<1>2. ASSUME NEW s \in Server, Crash(s) PROVE GateInv'
  BY <1>2 DEF Crash, Leave
<1>3. CASE Withdraw
  BY <1>3 DEF Withdraw
<1>4. CASE Upload
  BY <1>4 DEF Upload
<1>5. CASE Publish
  BY <1>5 DEF Publish
<1>6. CASE EraseArchive
  BY <1>6 DEF EraseArchive
<1>7. CASE DeleteRows
  BY <1>7 DEF DeleteRows
<1>8. QED
  BY <1>1, <1>2, <1>3, <1>4, <1>5, <1>6, <1>7 DEF SkillStep

\* When the database answers, an execution asked for while the version is
\* withdrawn does not get to its sandbox unless the version became available in
\* between: not by a deletion that removes the row the gate reads, not by a
\* context that ends while the gate reads it.
THEOREM GateHolds ==
  ASSUME "db" \notin Faults
  PROVE  Spec => []WithdrawnNeverRuns
<1>1. Init => GateInv
  BY Distinct DEF Init, GateInv, NobodyBarred, BarredFails
<1>2. TypeOK /\ GateInv /\ [Next]_vars => GateInv'
  <2> SUFFICES ASSUME TypeOK, GateInv, [Next]_vars PROVE GateInv'
    OBVIOUS
  <2>1. CASE UNCHANGED vars
    BY <2>1 DEF vars, skillVars, GateInv, NobodyBarred, BarredFails
  <2>2. CASE Next
    BY <2>2, GateRun, GateOthers DEF Next
  <2>3. QED
    BY <2>1, <2>2
<1>3. GateInv => WithdrawnNeverRuns
  BY DEF GateInv, BarredFails, WithdrawnNeverRuns
<1>4. QED
  BY <1>1, <1>2, <1>3, TypesHold, PTL DEF Spec
=============================================================================
