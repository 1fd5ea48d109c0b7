------------------------ MODULE SkillLifecycle_proofs ------------------------
(***************************************************************************)
(* Proofs about SkillLifecycle, for any number of requests, archives,      *)
(* versions and crashes and any capacity of the channel.                   *)
(***************************************************************************)
EXTENDS SkillLifecycle, FiniteSetTheorems, SequenceTheorems, TLAPS

-----------------------------------------------------------------------------
(***************************************************************************)
(* Type correctness.                                                       *)
(***************************************************************************)

\* Where a goroutine works on a version.
Busy == PC \ {"idle", "erase", "off", "recover", "wait"}

\* The locals a goroutine has where it is.
Located ==
  \A g \in Goroutine :
    /\ pc[g] \in Busy => ver[g] \in Version
    /\ pc[g] \in {"submit", "scan"} => arc[g] \in Content
    /\ pc[g] = "update" => act[g] \in ReviewAction

LocalsInv == LocalsOK /\ Located

TInv == LocalsInv /\ DataOK

\* The worker is a goroutine and every request is another one.
LEMMA Goroutines == Worker \in Goroutine /\ \A r \in Request : r \in Goroutine /\ r # Worker
BY WorkerIsNoRequest DEF Goroutine

\* None is no version, archive or status.
LEMMA NoneDistinct ==
  /\ \A v \in Version : v # None
  /\ \A x \in Content : x # None
  /\ \A s \in Status : s # None
BY NoneIsFresh

\* A goroutine that returns keeps the types of the locals.
LEMMA ReturnKeepsLocals ==
  ASSUME LocalsInv, NEW g \in Goroutine, Return(g)
  PROVE  LocalsInv'
<1>1. LocalsOK'
  BY DEF LocalsInv, LocalsOK, Return, Goto, PC
<1>2. Located'
  BY DEF LocalsInv, LocalsOK, Located, Return, Goto, Busy, PC
<1>3. QED
  BY <1>1, <1>2 DEF LocalsInv

\* So does one that only moves on.
LEMMA GotoKeepsLocals ==
  ASSUME LocalsInv, NEW g \in Goroutine, NEW l \in PC, Goto(g, l),
         UNCHANGED <<ver, arc, act>>,
         l \in Busy => pc[g] \in Busy,
         l \notin {"submit", "scan", "update"}
  PROVE  LocalsInv'
<1>1. LocalsOK'
  BY DEF LocalsInv, LocalsOK, Goto
<1>2. Located'
  BY DEF LocalsInv, LocalsOK, Located, Goto
<1>3. QED
  BY <1>1, <1>2 DEF LocalsInv

\* So does a request that begins.
LEMMA BeginKeepsLocals ==
  ASSUME LocalsInv, NEW r \in Request, NEW v \in Version \cup {None}, NEW op, NEW l \in PC,
         Begin(r, v, op, l),
         l \in Busy => v \in Version,
         l \notin {"submit", "scan"},
         l = "update" => op \in ReviewAction
  PROVE  LocalsInv'
<1>1. LocalsOK'
  BY Goroutines DEF LocalsInv, LocalsOK, Begin, Goto
<1>2. Located'
  BY Goroutines DEF LocalsInv, LocalsOK, Located, Begin, Goto
<1>3. QED
  BY <1>1, <1>2 DEF LocalsInv

\* TInv holds initially.
LEMMA TInvInit == Init => TInv
<1> SUFFICES ASSUME Init PROVE TInv
  OBVIOUS
<1>1. 0 \in 0 .. MaxCrashes /\ <<>> \in Seq(Version) /\ Len(<<>>) = 0
  BY CrashesBounded
<1>2. LocalsOK /\ DataOK
  BY <1>1, QueueHolds DEF Init, LocalsOK, DataOK, PC
<1>3. QED
  BY <1>2 DEF Init, TInv, LocalsInv, Located, Busy, PC

\* The steps of a request preserve TInv.
LEMMA TInvRequest ==
  ASSUME TInv, NEW r \in Request,
         Arrive(r) \/ IntakeStep(r) \/ ReviewStep(r) \/ DeleteStep(r)
  PROVE  TInv'
<1> USE Goroutines, NoneDistinct, QueueHolds, CrashesBounded
    DEF TInv, PC, Status, ReviewAction, Verdict, rows, objects, locals, history
<1>1. ASSUME NEW x \in Content, NEW op \in Ops, Mint(r, x, op) PROVE TInv'
  <2>1. DataOK'
    BY <1>1 DEF Mint, UploadVersion, EditVersion, NextFreeVersion, DataOK,
       LocalsInv, Located, Busy
  <2>2. LocalsInv'
    BY <1>1 DEF Mint, UploadVersion, EditVersion, NextFreeVersion, LocalsInv,
       LocalsOK, Located, Goto, Busy
  <2>3. QED
    BY <2>1, <2>2 DEF TInv
<1>2. ASSUME NEW v \in Version, NEW a \in Ops, Review(r, v, a) PROVE TInv'
  <2>1. DataOK'
    BY <1>2 DEF Review, Begin, DataOK, LocalsInv, Located, Busy
  <2>2. LocalsInv'
    BY <1>2, BeginKeepsLocals DEF Review, Busy
  <2>3. QED
    BY <2>1, <2>2 DEF TInv
<1>3. ASSUME NEW v \in Version, Activate(r, v) PROVE TInv'
  <2>1. DataOK'
    BY <1>3 DEF Activate, Begin, DataOK, LocalsInv, Located, Busy
  <2>2. LocalsInv'
    BY <1>3, BeginKeepsLocals DEF Activate, Busy
  <2>3. QED
    BY <2>1, <2>2 DEF TInv
<1>4. ASSUME NEW v \in Version, Delete(r, v) PROVE TInv'
  <2>1. DataOK'
    BY <1>4 DEF Delete, Begin, DataOK, LocalsInv, Located, Busy
  <2>2. LocalsInv'
    BY <1>4, BeginKeepsLocals DEF Delete, Busy
  <2>3. QED
    BY <2>1, <2>2 DEF TInv
<1>5. CASE DeleteAll(r)
  <2>1. DataOK'
    BY <1>5 DEF DeleteAll, Begin, Rows, DataOK, LocalsInv, Located, Busy
  <2>2. LocalsInv'
    BY <1>5, BeginKeepsLocals DEF DeleteAll, Busy
  <2>3. QED
    BY <2>1, <2>2 DEF TInv
<1>6. CASE Submit(r)
  <2>1. DataOK'
    <3>1. ver[r] \in Version /\ arc[r] \in Content
      BY <1>6 DEF Submit, LocalsInv, Located, Busy
    <3>2. pending' \in [Version -> Content \cup {None}] /\ contested' \subseteq Version
      BY <1>6, <3>1 DEF Submit, DataOK
    <3>3. QED
      BY <1>6, <3>2 DEF Submit, DataOK
  <2>2. LocalsInv'
    BY <1>6, ReturnKeepsLocals DEF Submit, LocalsInv, LocalsOK, Located, Goto, Busy
  <2>3. QED
    BY <2>1, <2>2 DEF TInv
<1>7. CASE Upsert(r)
  <2>1. DataOK'
    <3>1. Now \subseteq Nat
      BY FS_CardinalityType, ArchivesFinite DEF Now
    <3>2. status' \in [Version -> Status \cup {None}]
      BY <1>7 DEF Upsert, DataOK
    <3>3. uploaded' \in [Version -> Nat]
      <4>1. CASE uploaded' = uploaded
        BY <4>1 DEF DataOK
      <4>2. ASSUME NEW t \in Now, uploaded' = [uploaded EXCEPT ![ver[r]] = t]
            PROVE  uploaded' \in [Version -> Nat]
        BY <3>1, <4>2 DEF DataOK
      <4>3. QED
        BY <1>7, <4>1, <4>2 DEF Upsert
    <3>4. QED
      BY <1>7, <3>2, <3>3 DEF Upsert, DataOK
  <2>2. LocalsInv'
    BY <1>7, GotoKeepsLocals, ReturnKeepsLocals DEF Upsert, Busy
  <2>3. QED
    BY <2>1, <2>2 DEF TInv
<1>8. CASE Enqueue(r)
  <2>1. DataOK'
    <3>1. ver[r] \in Version
      BY <1>8 DEF Enqueue, LocalsInv, Located, Busy
    <3>2. queue' \in Seq(Version) /\ Len(queue') <= QueueCap
      <4>1. queue \in Seq(Version) /\ Len(queue) \in Nat /\ Len(queue) <= QueueCap
        BY DEF DataOK
      <4>2. /\ Append(queue, ver[r]) \in Seq(Version)
            /\ Len(Append(queue, ver[r])) = Len(queue) + 1
        BY <3>1, <4>1, AppendProperties
      <4>3. queue' = queue \/ (Len(queue) < QueueCap /\ queue' = Append(queue, ver[r]))
        BY <1>8 DEF Enqueue
      <4>4. QED
        BY <4>1, <4>2, <4>3
    <3>3. dropped' \subseteq Version /\ lost' \subseteq Version
      BY <1>8, <3>1 DEF Enqueue, DataOK
    <3>4. QED
      BY <1>8, <3>2, <3>3 DEF Enqueue, DataOK
  <2>2. LocalsInv'
    BY <1>8, GotoKeepsLocals, ReturnKeepsLocals DEF Enqueue, Busy
  <2>3. QED
    BY <2>1, <2>2 DEF TInv
<1>9. CASE ReviewUpdate(r)
  <2>1. DataOK'
    <3>1. ver[r] \in Version
      BY <1>9 DEF ReviewUpdate, LocalsInv, Located, Busy
    <3>2. ReviewedStatus(act[r]) \in Status
      BY DEF ReviewedStatus
    <3>3. status' \in [Version -> Status \cup {None}]
      BY <1>9, <3>2 DEF ReviewUpdate, DataOK
    <3>4. cleared' \subseteq Content /\ hollow' \subseteq Version
      BY <1>9, <3>1 DEF ReviewUpdate, DataOK
    <3>5. QED
      BY <1>9, <3>3, <3>4 DEF ReviewUpdate, DataOK
  <2>2. LocalsInv'
    BY <1>9, GotoKeepsLocals, ReturnKeepsLocals DEF ReviewUpdate, Busy
  <2>3. QED
    BY <2>1, <2>2 DEF TInv
<1>10. CASE ClearActive(r)
  <2>1. DataOK'
    BY <1>10 DEF ClearActive, DataOK, LocalsInv, Located, Busy
  <2>2. LocalsInv'
    BY <1>10, GotoKeepsLocals, ReturnKeepsLocals DEF ClearActive, AfterClear, Busy
  <2>3. QED
    BY <2>1, <2>2 DEF TInv
<1>11. CASE Repoint(r)
  <2>1. DataOK'
    BY <1>11 DEF Repoint, Newest, Having, DataOK, LocalsInv, Located, Busy
  <2>2. LocalsInv'
    BY <1>11, GotoKeepsLocals, ReturnKeepsLocals DEF Repoint, AfterClear, Busy
  <2>3. QED
    BY <2>1, <2>2 DEF TInv
<1>12. CASE WriteBlock(r)
  <2>1. DataOK'
    BY <1>12 DEF WriteBlock, DataOK, LocalsInv, Located, Busy
  <2>2. LocalsInv'
    BY <1>12, GotoKeepsLocals, ReturnKeepsLocals DEF WriteBlock, Busy
  <2>3. QED
    BY <2>1, <2>2 DEF TInv
<1>13. ASSUME NEW v \in Version, Erase(r, v) PROVE TInv'
  <2>1. DataOK'
    <3>1. main' \in [Version -> Content \cup {None}] /\ hollow' \subseteq Version
      BY <1>13 DEF Erase, DataOK
    <3>2. todo' \in [Request -> SUBSET Version]
      BY <1>13 DEF Erase, DataOK
    <3>3. QED
      BY <1>13, <3>1, <3>2 DEF Erase, DataOK
  <2>2. LocalsInv'
    BY <1>13, ReturnKeepsLocals DEF Erase, LocalsInv, LocalsOK, Located, Goto, Busy
  <2>3. QED
    BY <2>1, <2>2 DEF TInv
<1>14. CASE ErasePending(r)
  <2>1. DataOK'
    <3>1. pending' \in [Version -> Content \cup {None}]
      BY <1>14 DEF ErasePending, DataOK
    <3>2. todo' \in [Request -> SUBSET Version]
      <4>1. todo \in [Request -> SUBSET Version]
        BY DEF DataOK
      <4>2. todo' = [todo EXCEPT ![r] = @ \ {ver[r]}] \/ todo' = [todo EXCEPT ![r] = {}]
        BY <1>14 DEF ErasePending
      <4>3. QED
        BY <4>1, <4>2
    <3>3. QED
      BY <1>14, <3>1, <3>2 DEF ErasePending, DataOK
  <2>2. LocalsInv'
    BY <1>14, GotoKeepsLocals, ReturnKeepsLocals DEF ErasePending, Busy
  <2>3. QED
    BY <2>1, <2>2 DEF TInv
<1>15. CASE DeleteRows(r)
  <2>1. DataOK'
    BY <1>15 DEF DeleteRows, Rows, DataOK, LocalsInv, Located, Busy
  <2>2. LocalsInv'
    BY <1>15, GotoKeepsLocals, ReturnKeepsLocals DEF DeleteRows, Busy
  <2>3. QED
    BY <2>1, <2>2 DEF TInv
<1>16. QED
  BY <1>1, <1>2, <1>3, <1>4, <1>5, <1>6, <1>7, <1>8, <1>9, <1>10, <1>11, <1>12,
     <1>13, <1>14, <1>15 DEF Arrive, IntakeStep, ReviewStep, DeleteStep

\* So do those of the worker, a promotion, a crash and a restart.
LEMMA TInvWorker ==
  ASSUME TInv, WorkerStep \/ (\E g \in Goroutine : PublishStep(g)) \/ Crash \/ Restart
  PROVE  TInv'
<1> USE Goroutines, NoneDistinct, QueueHolds, CrashesBounded
    DEF TInv, PC, Status, ReviewAction, Verdict, rows, objects, locals, history
<1>1. CASE Recover
  <2>1. DataOK'
    <3>1. Waiting \subseteq Version
      BY DEF Waiting, Having
    <3>2. queue' \in Seq(Version) /\ Len(queue') <= QueueCap
      <4>1. CASE queue' = queue
        BY <4>1 DEF DataOK
      <4>2. ASSUME NEW n \in 0 .. QueueCap - Len(queue), NEW jobs \in Jobs(n, Waiting),
                   queue' = queue \o jobs
            PROVE  queue' \in Seq(Version) /\ Len(queue') <= QueueCap
        <5>1. n \in Nat /\ jobs \in [1 .. n -> Version]
          BY <3>1, <4>2 DEF DataOK, Jobs
        <5>2. jobs \in Seq(Version) /\ Len(jobs) = n
          BY <5>1
        <5>3. QED
          BY <4>2, <5>1, <5>2, ConcatProperties DEF DataOK
      <4>3. QED
        BY <1>1, <4>1, <4>2 DEF Recover
    <3>3. dropped' \subseteq Version /\ lost' \subseteq Version
      BY <1>1, <3>1 DEF Recover, DataOK
    <3>4. QED
      BY <1>1, <3>2, <3>3 DEF Recover, DataOK
  <2>2. LocalsInv'
    BY <1>1, GotoKeepsLocals, ReturnKeepsLocals DEF Recover, Busy
  <2>3. QED
    BY <2>1, <2>2 DEF TInv
<1>2. CASE Take
  <2>1. DataOK'
    BY <1>2 DEF Take, DataOK, LocalsInv, Located, Busy
  <2>2. LocalsInv'
    <3>1. Head(queue) \in Version
      BY <1>2, HeadTailProperties DEF Take, DataOK
    <3>2. QED
      BY <1>2, <3>1 DEF Take, LocalsInv, LocalsOK, Located, Goto, Busy
  <2>3. QED
    BY <2>1, <2>2 DEF TInv
<1>3. CASE Mark
  <2>1. DataOK'
    <3>1. ver[Worker] \in Version
      BY <1>3 DEF Mark, LocalsInv, Located, Busy
    <3>2. status' \in [Version -> Status \cup {None}] /\ lost' \subseteq Version
      BY <1>3, <3>1 DEF Mark, UpdateSkillStatus, DataOK
    <3>3. QED
      BY <1>3, <3>2 DEF Mark, DataOK
  <2>2. LocalsInv'
    BY <1>3, GotoKeepsLocals, ReturnKeepsLocals DEF Mark, Busy
  <2>3. QED
    BY <2>1, <2>2 DEF TInv
<1>4. CASE Download
  <2>1. DataOK'
    BY <1>4 DEF Download, DataOK, LocalsInv, Located, Busy
  <2>2. LocalsInv'
    <3>1. ver[Worker] \in Version
      BY <1>4 DEF Download, LocalsInv, Located, Busy
    <3>2. pending[ver[Worker]] \in Content \cup {None}
      BY <3>1 DEF DataOK
    <3>3. LocalsOK'
      BY <1>4, <3>2 DEF Download, LocalsInv, LocalsOK, Goto
    <3>4. Located'
      BY <1>4, <3>1, <3>2 DEF Download, LocalsInv, LocalsOK, Located, Goto, Busy
    <3>5. QED
      BY <3>3, <3>4 DEF LocalsInv
  <2>3. QED
    BY <2>1, <2>2 DEF TInv
<1>5. CASE Scan
  <2>1. DataOK'
    BY <1>5 DEF Scan, DataOK, LocalsInv, Located, Busy
  <2>2. LocalsInv'
    BY <1>5 DEF Scan, LocalsInv, LocalsOK, Located, Goto, Busy
  <2>3. QED
    BY <2>1, <2>2 DEF TInv
<1>6. CASE Settle
  <2>1. DataOK'
    <3>1. ver[Worker] \in Version
      BY <1>6 DEF Settle, LocalsInv, Located, Busy
    <3>2. SettledStatus(act[Worker]) \in Status
      BY DEF SettledStatus
    <3>3. status' \in [Version -> Status \cup {None}]
      BY <1>6, <3>2 DEF Settle, UpdateSkillStatus, DataOK
    <3>4. lost' \subseteq Version
      BY <1>6, <3>1 DEF Settle, DataOK
    <3>5. QED
      BY <1>6, <3>3, <3>4 DEF Settle, DataOK
  <2>2. LocalsInv'
    BY <1>6, GotoKeepsLocals, ReturnKeepsLocals DEF Settle, Busy
  <2>3. QED
    BY <2>1, <2>2 DEF TInv
<1>7. CASE Discard
  <2>1. DataOK'
    BY <1>7 DEF Discard, DataOK, LocalsInv, Located, Busy
  <2>2. LocalsInv'
    BY <1>7, GotoKeepsLocals, ReturnKeepsLocals DEF Discard, Busy
  <2>3. QED
    BY <2>1, <2>2 DEF TInv
<1>8. ASSUME NEW g \in Goroutine, Copy(g) PROVE TInv'
  <2>1. DataOK'
    BY <1>8 DEF Copy, DataOK, LocalsInv, Located, Busy
  <2>2. LocalsInv'
    BY <1>8 DEF Copy, LocalsInv, LocalsOK, Located, Goto, Busy
  <2>3. QED
    BY <2>1, <2>2 DEF TInv
<1>9. ASSUME NEW g \in Goroutine, Unpend(g) PROVE TInv'
  <2>1. DataOK'
    BY <1>9 DEF Unpend, DataOK, LocalsInv, Located, Busy
  <2>2. LocalsInv'
    BY <1>9, GotoKeepsLocals, ReturnKeepsLocals DEF Unpend, Busy
  <2>3. QED
    BY <2>1, <2>2 DEF TInv
<1>10. ASSUME NEW g \in Goroutine, CheckAvailable(g) PROVE TInv'
  <2>1. DataOK'
    BY <1>10 DEF CheckAvailable, DataOK, LocalsInv, Located, Busy
  <2>2. LocalsInv'
    BY <1>10, GotoKeepsLocals, ReturnKeepsLocals DEF CheckAvailable, Busy
  <2>3. QED
    BY <2>1, <2>2 DEF TInv
<1>11. ASSUME NEW g \in Goroutine, SetActiveVersion(g) PROVE TInv'
  <2>1. DataOK'
    BY <1>11 DEF SetActiveVersion, DataOK, LocalsInv, Located, Busy
  <2>2. LocalsInv'
    BY <1>11, GotoKeepsLocals, ReturnKeepsLocals DEF SetActiveVersion, Busy
  <2>3. QED
    BY <2>1, <2>2 DEF TInv
<1>12. CASE Crash
  <2>1. DataOK'
    BY <1>12 DEF Crash, DataOK, LocalsInv, Located, Busy
  <2>2. LocalsInv'
    BY <1>12 DEF Crash, LocalsInv, LocalsOK, Located, Goto, Busy
  <2>3. QED
    BY <2>1, <2>2 DEF TInv
<1>13. CASE Restart
  <2>1. DataOK'
    BY <1>13 DEF Restart, NewestUsable, Newest, Rows, Having, DataOK, LocalsInv,
       Located, Busy
  <2>2. LocalsInv'
    BY <1>13, GotoKeepsLocals, ReturnKeepsLocals DEF Restart, Busy
  <2>3. QED
    BY <2>1, <2>2 DEF TInv
<1>14. QED
  BY <1>1, <1>2, <1>3, <1>4, <1>5, <1>6, <1>7, <1>8, <1>9, <1>10, <1>11, <1>12,
     <1>13, Goroutines DEF WorkerStep, PublishStep

\* Every step preserves TInv.
LEMMA TInvStep == TInv /\ [Next]_vars => TInv'
<1> SUFFICES ASSUME TInv, [Next]_vars PROVE TInv'
  OBVIOUS
<1>1. CASE UNCHANGED vars
  BY <1>1 DEF vars, rows, objects, locals, history, TInv, LocalsInv, LocalsOK,
     Located, DataOK
<1>2. ASSUME NEW r \in Request, RequestStep(r) \/ Arrive(r) PROVE TInv'
  BY <1>2, TInvRequest, TInvWorker, Goroutines DEF RequestStep
<1>3. CASE WorkerStep \/ Crash \/ Restart
  BY <1>3, TInvWorker
<1>4. QED
  BY <1>1, <1>2, <1>3 DEF Next

\* TInv, to be used by the theorems that follow.
LEMMA Types == Spec => []TInv
BY TInvInit, TInvStep, PTL DEF Spec

\* The variables keep their types: a channel is never filled beyond its capacity,
\* whatever the handlers and the recovery at startup put into it.
THEOREM TypesHold == Spec => []TypeOK
<1>1. TInv => TypeOK
  BY DEF TInv, LocalsInv, TypeOK
<1>2. QED
  BY <1>1, Types, PTL

-----------------------------------------------------------------------------
(***************************************************************************)
(* What the proofs below use of TInv and of the steps.                     *)
(***************************************************************************)

\* The arrays, and the version at hand.
LEMMA TInvShapes ==
  ASSUME TInv
  PROVE  /\ status \in [Version -> Status \cup {None}]
         /\ pending \in [Version -> Content \cup {None}]
         /\ main \in [Version -> Content \cup {None}]
         /\ arc \in [Goroutine -> Content \cup {None}]
         /\ ver \in [Goroutine -> Version \cup {None}]
         /\ act \in [Goroutine -> Ops \cup Verdict \cup {None}]
         /\ \A g \in Goroutine :
              /\ pc[g] \notin {"idle", "erase", "off", "recover", "wait"} => ver[g] \in Version
              /\ pc[g] \in {"submit", "scan"} => arc[g] \in Content
              /\ pc[g] = "update" => act[g] \in ReviewAction
BY DEF TInv, LocalsInv, LocalsOK, Located, Busy, DataOK

\* Where a step leads.
LEMMA GotoMoves ==
  ASSUME TInv, NEW g \in Goroutine, NEW l, Goto(g, l)
  PROVE  pc'[g] = l /\ \A h \in Goroutine : h # g => pc'[h] = pc[h]
BY DEF TInv, LocalsInv, LocalsOK, Goto

\* Returning touches the locals of nobody else.
LEMMA ReturnMoves ==
  ASSUME TInv, NEW g \in Goroutine, Return(g)
  PROVE  /\ pc'[g] \in {"idle", "wait"}
         /\ \A h \in Goroutine : h # g =>
              pc'[h] = pc[h] /\ ver'[h] = ver[h] /\ arc'[h] = arc[h] /\ act'[h] = act[h]
BY DEF TInv, LocalsInv, LocalsOK, Goto, Return

-----------------------------------------------------------------------------
(***************************************************************************)
(* What is promoted was cleared.                                           *)
(***************************************************************************)

\* The archive that a promotion of v would copy was scanned clean or approved.
Vouched(v) == pending[v] \in cleared \cup {None} \/ v \in contested

\* Whoever is about to promote a version has seen its archive cleared, and the
\* worker scans the archive that is pending.
ClearInv ==
  /\ PromotedIsCleared
  /\ \A g \in Goroutine :
       /\ pc[g] = "copy" => Vouched(ver[g])
       /\ pc[g] = "block" /\ act[g] = "approve" => Vouched(ver[g])
  /\ pc[Worker] = "scan" =>
       pending[ver[Worker]] \in {None, arc[Worker]} \/ ver[Worker] \in contested

\* The steps of a request preserve ClearInv.
LEMMA ClearInvRequest ==
  ASSUME TInv, ClearInv, NEW r \in Request,
         Arrive(r) \/ IntakeStep(r) \/ ReviewStep(r) \/ DeleteStep(r)
  PROVE  ClearInv'
<1> USE TInvShapes, GotoMoves, ReturnMoves, Goroutines, NoneDistinct
    DEF ClearInv, PromotedIsCleared, Vouched, Status, rows, objects, locals, history
<1>1. ASSUME NEW x \in Content, NEW op \in Ops, Mint(r, x, op) PROVE ClearInv'
  BY <1>1 DEF Mint
<1>2. ASSUME NEW v \in Version, NEW a \in Ops, Review(r, v, a) PROVE ClearInv'
  BY <1>2 DEF Review, Begin
<1>3. ASSUME NEW v \in Version, Activate(r, v) PROVE ClearInv'
  BY <1>3 DEF Activate, Begin
<1>4. ASSUME NEW v \in Version, Delete(r, v) PROVE ClearInv'
  BY <1>4 DEF Delete, Begin
<1>5. CASE DeleteAll(r)
  BY <1>5 DEF DeleteAll, Begin, Rows
<1>6. CASE Submit(r)
  BY <1>6 DEF Submit, InHand
<1>7. CASE Upsert(r)
  BY <1>7 DEF Upsert
<1>8. CASE Enqueue(r)
  BY <1>8 DEF Enqueue
<1>9. CASE ReviewUpdate(r)
  BY <1>9 DEF ReviewUpdate, AllowedFrom, ReviewedStatus
<1>10. CASE ClearActive(r)
  BY <1>10 DEF ClearActive, AfterClear
<1>11. CASE Repoint(r)
  BY <1>11 DEF Repoint, AfterClear
<1>12. CASE WriteBlock(r)
  BY <1>12 DEF WriteBlock
<1>13. ASSUME NEW v \in Version, Erase(r, v) PROVE ClearInv'
  BY <1>13 DEF Erase
<1>14. CASE ErasePending(r)
  BY <1>14 DEF ErasePending
<1>15. CASE DeleteRows(r)
  BY <1>15 DEF DeleteRows, Rows
<1>16. QED
  BY <1>1, <1>2, <1>3, <1>4, <1>5, <1>6, <1>7, <1>8, <1>9, <1>10, <1>11, <1>12,
     <1>13, <1>14, <1>15 DEF Arrive, IntakeStep, ReviewStep, DeleteStep

\* So do those of the worker, a promotion, a crash and a restart.
LEMMA ClearInvWorker ==
  ASSUME TInv, ClearInv,
         WorkerStep \/ (\E g \in Goroutine : PublishStep(g)) \/ Crash \/ Restart
  PROVE  ClearInv'
<1> USE TInvShapes, GotoMoves, ReturnMoves, Goroutines, NoneDistinct
    DEF ClearInv, PromotedIsCleared, Vouched, Status, rows, objects, locals, history
<1>1. CASE Recover
  BY <1>1 DEF Recover, Waiting, Having, Jobs
<1>2. CASE Take
  BY <1>2 DEF Take
<1>3. CASE Mark
  BY <1>3 DEF Mark, UpdateSkillStatus
<1>4. CASE Download
  BY <1>4 DEF Download
<1>5. CASE Scan
  BY <1>5 DEF Scan
<1>6. CASE Settle
  BY <1>6 DEF Settle, UpdateSkillStatus, SettledStatus
<1>7. CASE Discard
  BY <1>7 DEF Discard
<1>8. ASSUME NEW g \in Goroutine, Copy(g) PROVE ClearInv'
  BY <1>8 DEF Copy
<1>9. ASSUME NEW g \in Goroutine, Unpend(g) PROVE ClearInv'
  BY <1>9 DEF Unpend
<1>10. ASSUME NEW g \in Goroutine, CheckAvailable(g) PROVE ClearInv'
  BY <1>10 DEF CheckAvailable
<1>11. ASSUME NEW g \in Goroutine, SetActiveVersion(g) PROVE ClearInv'
  BY <1>11 DEF SetActiveVersion
<1>12. CASE Crash
  BY <1>12 DEF Crash
<1>13. CASE Restart
  BY <1>13 DEF Restart
<1>14. QED
  BY <1>1, <1>2, <1>3, <1>4, <1>5, <1>6, <1>7, <1>8, <1>9, <1>10, <1>11, <1>12,
     <1>13, Goroutines DEF WorkerStep, PublishStep

\* Every step preserves ClearInv.
LEMMA ClearInvStep == TInv /\ ClearInv /\ [Next]_vars => ClearInv'
<1> SUFFICES ASSUME TInv, ClearInv, [Next]_vars PROVE ClearInv'
  OBVIOUS
<1>1. CASE UNCHANGED vars
  BY <1>1 DEF vars, rows, objects, locals, history, ClearInv, PromotedIsCleared,
     Vouched
<1>2. ASSUME NEW r \in Request, RequestStep(r) \/ Arrive(r) PROVE ClearInv'
  BY <1>2, ClearInvRequest, ClearInvWorker, Goroutines DEF RequestStep
<1>3. CASE WorkerStep \/ Crash \/ Restart
  BY <1>3, ClearInvWorker
<1>4. QED
  BY <1>1, <1>2, <1>3 DEF Next

\* Nothing is promoted without a clean scan or an approval, but for a version that
\* was submitted again while the worker or an approval had it in hand.
THEOREM NothingUnclearedIsPromoted == Spec => []PromotedIsCleared
<1>1. Init => ClearInv
  BY Goroutines DEF Init, ClearInv, PromotedIsCleared, Vouched
<1>2. ClearInv => PromotedIsCleared
  BY DEF ClearInv
<1>3. QED
  BY <1>1, <1>2, Types, ClearInvStep, PTL DEF Spec

-----------------------------------------------------------------------------
(***************************************************************************)
(* What is available can be run.                                           *)
(***************************************************************************)

\* Version v has its archive, or one of the named exceptions happened to it.
Runnable(v) == main[v] # None \/ v \in hollow \/ v \in contested

\* What the worker is about to call available can be run.
RunInv ==
  /\ AvailableHasArchive
  /\ pc[Worker] = "unpend" \/ (pc[Worker] = "settle" /\ act[Worker] = "clear") =>
       Runnable(ver[Worker])

\* The steps of a request preserve RunInv.
LEMMA RunInvRequest ==
  ASSUME TInv, RunInv, NEW r \in Request,
         Arrive(r) \/ IntakeStep(r) \/ ReviewStep(r) \/ DeleteStep(r)
  PROVE  RunInv'
<1> USE TInvShapes, GotoMoves, ReturnMoves, Goroutines, NoneDistinct
    DEF RunInv, AvailableHasArchive, Runnable, Status, rows, objects, locals, history
<1>1. ASSUME NEW x \in Content, NEW op \in Ops, Mint(r, x, op) PROVE RunInv'
  BY <1>1 DEF Mint
<1>2. ASSUME NEW v \in Version, NEW a \in Ops, Review(r, v, a) PROVE RunInv'
  BY <1>2 DEF Review, Begin
<1>3. ASSUME NEW v \in Version, Activate(r, v) PROVE RunInv'
  BY <1>3 DEF Activate, Begin
<1>4. ASSUME NEW v \in Version, Delete(r, v) PROVE RunInv'
  BY <1>4 DEF Delete, Begin
<1>5. CASE DeleteAll(r)
  BY <1>5 DEF DeleteAll, Begin, Rows
<1>6. CASE Submit(r)
  BY <1>6 DEF Submit, InHand
<1>7. CASE Upsert(r)
  BY <1>7 DEF Upsert
<1>8. CASE Enqueue(r)
  BY <1>8 DEF Enqueue
<1>9. CASE ReviewUpdate(r)
  BY <1>9 DEF ReviewUpdate, AllowedFrom, ReviewedStatus
<1>10. CASE ClearActive(r)
  BY <1>10 DEF ClearActive, AfterClear
<1>11. CASE Repoint(r)
  BY <1>11 DEF Repoint, AfterClear
<1>12. CASE WriteBlock(r)
  BY <1>12 DEF WriteBlock
<1>13. ASSUME NEW v \in Version, Erase(r, v) PROVE RunInv'
  BY <1>13 DEF Erase
<1>14. CASE ErasePending(r)
  BY <1>14 DEF ErasePending
<1>15. CASE DeleteRows(r)
  BY <1>15 DEF DeleteRows, Rows
<1>16. QED
  BY <1>1, <1>2, <1>3, <1>4, <1>5, <1>6, <1>7, <1>8, <1>9, <1>10, <1>11, <1>12,
     <1>13, <1>14, <1>15 DEF Arrive, IntakeStep, ReviewStep, DeleteStep

\* So do those of the worker, a promotion, a crash and a restart.
LEMMA RunInvWorker ==
  ASSUME TInv, RunInv,
         WorkerStep \/ (\E g \in Goroutine : PublishStep(g)) \/ Crash \/ Restart
  PROVE  RunInv'
<1> USE TInvShapes, GotoMoves, ReturnMoves, Goroutines, NoneDistinct
    DEF RunInv, AvailableHasArchive, Runnable, Status, rows, objects, locals, history
<1>1. CASE Recover
  BY <1>1 DEF Recover, Waiting, Having, Jobs
<1>2. CASE Take
  BY <1>2 DEF Take
<1>3. CASE Mark
  BY <1>3 DEF Mark, UpdateSkillStatus
<1>4. CASE Download
  BY <1>4 DEF Download
<1>5. CASE Scan
  BY <1>5 DEF Scan
<1>6. CASE Settle
  BY <1>6 DEF Settle, UpdateSkillStatus, SettledStatus
<1>7. CASE Discard
  BY <1>7 DEF Discard
<1>8. ASSUME NEW g \in Goroutine, Copy(g) PROVE RunInv'
  BY <1>8 DEF Copy
<1>9. ASSUME NEW g \in Goroutine, Unpend(g) PROVE RunInv'
  BY <1>9 DEF Unpend
<1>10. ASSUME NEW g \in Goroutine, CheckAvailable(g) PROVE RunInv'
  BY <1>10 DEF CheckAvailable
<1>11. ASSUME NEW g \in Goroutine, SetActiveVersion(g) PROVE RunInv'
  BY <1>11 DEF SetActiveVersion
<1>12. CASE Crash
  BY <1>12 DEF Crash
<1>13. CASE Restart
  BY <1>13 DEF Restart
<1>14. QED
  BY <1>1, <1>2, <1>3, <1>4, <1>5, <1>6, <1>7, <1>8, <1>9, <1>10, <1>11, <1>12,
     <1>13, Goroutines DEF WorkerStep, PublishStep

\* Every step preserves RunInv.
LEMMA RunInvStep == TInv /\ RunInv /\ [Next]_vars => RunInv'
<1> SUFFICES ASSUME TInv, RunInv, [Next]_vars PROVE RunInv'
  OBVIOUS
<1>1. CASE UNCHANGED vars
  BY <1>1 DEF vars, rows, objects, locals, history, RunInv, AvailableHasArchive,
     Runnable
<1>2. ASSUME NEW r \in Request, RequestStep(r) \/ Arrive(r) PROVE RunInv'
  BY <1>2, RunInvRequest, RunInvWorker, Goroutines DEF RequestStep
<1>3. CASE WorkerStep \/ Crash \/ Restart
  BY <1>3, RunInvWorker
<1>4. QED
  BY <1>1, <1>2, <1>3 DEF Next

\* An available version has its archive, but for the named exceptions.
THEOREM AvailableCanRun == Spec => []AvailableHasArchive
<1>1. Init => RunInv
  BY Goroutines, NoneDistinct DEF Init, RunInv, AvailableHasArchive, Runnable, Status
<1>2. RunInv => AvailableHasArchive
  BY DEF RunInv
<1>3. QED
  BY <1>1, <1>2, Types, RunInvStep, PTL DEF Spec

-----------------------------------------------------------------------------
(***************************************************************************)
(* What waits for its scan is not forgotten.                               *)
(***************************************************************************)

\* An append keeps the elements and adds one.
LEMMA AppendFinds ==
  ASSUME NEW s \in Seq(Version), NEW v \in Version
  PROVE  /\ \E i \in 1 .. Len(Append(s, v)) : Append(s, v)[i] = v
         /\ \A i \in 1 .. Len(s) : \E k \in 1 .. Len(Append(s, v)) : Append(s, v)[k] = s[i]
<1>1. /\ Len(Append(s, v)) = Len(s) + 1
      /\ \A i \in 1 .. Len(s) : Append(s, v)[i] = s[i]
      /\ Append(s, v)[Len(s) + 1] = v
  BY AppendProperties
<1>2. Len(s) \in Nat
  OBVIOUS
<1>3. QED
  BY <1>1, <1>2

\* What the first of two sequences leaves out, the second has.
LEMMA ConcatFinds ==
  ASSUME NEW s \in Seq(Version), NEW t \in Seq(Version), NEW i \in 1 .. Len(t)
  PROVE  /\ Len(s \o t) \in Nat /\ Len(s) + i \in 1 .. Len(s \o t)
         /\ (s \o t)[Len(s) + i] = t[i]
<1>1. Len(s) \in Nat /\ Len(t) \in Nat
  OBVIOUS
<1>2. /\ Len(s) + i \in 1 .. Len(s) + Len(t)
      /\ ~(Len(s) + i <= Len(s)) /\ (Len(s) + i) - Len(s) = i
  BY <1>1
<1>3. QED
  BY <1>1, <1>2, ConcatProperties

\* An element of a sequence is its head or in its tail.
LEMMA TailFinds ==
  ASSUME NEW s \in Seq(Version), s # <<>>, NEW i \in 1 .. Len(s)
  PROVE  s[i] = Head(s) \/ \E k \in 1 .. Len(Tail(s)) : Tail(s)[k] = s[i]
<1>1. Head(s) = s[1] /\ Len(s) \in Nat
  OBVIOUS
<1>2. /\ Len(Tail(s)) = Len(s) - 1
      /\ \A k \in 1 .. Len(Tail(s)) : Tail(s)[k] = s[k + 1]
  BY HeadTailProperties
<1>3. CASE i # 1
  <2>1. i - 1 \in 1 .. Len(Tail(s)) /\ (i - 1) + 1 = i
  BY <1>1, <1>2, <1>3
  <2>2. QED
    BY <1>2, <2>1
<1>4. QED
  BY <1>1, <1>3

\* The steps of a request preserve WaitingIsTracked.
LEMMA WaitingIsTrackedRequest ==
  ASSUME TInv, WaitingIsTracked, NEW r \in Request,
         Arrive(r) \/ IntakeStep(r) \/ ReviewStep(r) \/ DeleteStep(r)
  PROVE  WaitingIsTracked'
<1> USE TInvShapes, GotoMoves, ReturnMoves, Goroutines, NoneDistinct
    DEF WaitingIsTracked, Status, rows, objects, locals, history
<1>1. ASSUME NEW x \in Content, NEW op \in Ops, Mint(r, x, op) PROVE WaitingIsTracked'
  BY <1>1 DEF Mint
<1>2. ASSUME NEW v \in Version, NEW a \in Ops, Review(r, v, a) PROVE WaitingIsTracked'
  BY <1>2 DEF Review, Begin
<1>3. ASSUME NEW v \in Version, Activate(r, v) PROVE WaitingIsTracked'
  BY <1>3 DEF Activate, Begin
<1>4. ASSUME NEW v \in Version, Delete(r, v) PROVE WaitingIsTracked'
  BY <1>4 DEF Delete, Begin
<1>5. CASE DeleteAll(r)
  BY <1>5 DEF DeleteAll, Begin, Rows
<1>6. CASE Submit(r)
  BY <1>6 DEF Submit, InHand
<1>7. CASE Upsert(r)
  BY <1>7 DEF Upsert
<1>8. CASE Enqueue(r)
  <2>0. PICK v \in Version : v = ver[r]
    BY <1>8 DEF Enqueue
  <2>1. queue \in Seq(Version)
    BY DEF TInv, DataOK
  <2>2. /\ \E i \in 1 .. Len(Append(queue, v)) : Append(queue, v)[i] = v
        /\ \A i \in 1 .. Len(queue) :
             \E k \in 1 .. Len(Append(queue, v)) : Append(queue, v)[k] = queue[i]
    BY ONLY v \in Version, <2>1, AppendFinds
  <2>3. queue' = queue \/ queue' = Append(queue, v)
    BY <1>8, <2>0 DEF Enqueue
  <2>4. \A u \in Version : (\E i \in 1 .. Len(queue) : queue[i] = u)
                           => (\E i \in 1 .. Len(queue') : queue'[i] = u)
    BY <2>2, <2>3
  <2>5. v \in dropped' \/ \E i \in 1 .. Len(queue') : queue'[i] = v
    <3>1. CASE queue' = Append(queue, v)
      BY <2>2, <3>1
    <3>2. CASE queue' # Append(queue, v)
      BY <1>8, <2>0, <3>2 DEF Enqueue
    <3>3. QED
      BY <3>1, <3>2
  <2>6. \A u \in Version \ {v} : u \in dropped \cup lost => u \in dropped' \cup lost'
    BY <1>8, <2>0 DEF Enqueue
  <2>7. \A g \in Goroutine \ {r} : pc'[g] = pc[g] /\ ver'[g] = ver[g]
    BY <1>8, <2>0 DEF Enqueue
  <2>8. status' = status
    BY <1>8, <2>0 DEF Enqueue
  <2>9. QED
    BY <2>0, <2>4, <2>5, <2>6, <2>7, <2>8
<1>9. CASE ReviewUpdate(r)
  BY <1>9 DEF ReviewUpdate, AllowedFrom, ReviewedStatus
<1>10. CASE ClearActive(r)
  BY <1>10 DEF ClearActive, AfterClear
<1>11. CASE Repoint(r)
  BY <1>11 DEF Repoint, AfterClear
<1>12. CASE WriteBlock(r)
  BY <1>12 DEF WriteBlock
<1>13. ASSUME NEW v \in Version, Erase(r, v) PROVE WaitingIsTracked'
  BY <1>13 DEF Erase
<1>14. CASE ErasePending(r)
  BY <1>14 DEF ErasePending
<1>15. CASE DeleteRows(r)
  BY <1>15 DEF DeleteRows, Rows
<1>16. QED
  BY <1>1, <1>2, <1>3, <1>4, <1>5, <1>6, <1>7, <1>8, <1>9, <1>10, <1>11, <1>12,
     <1>13, <1>14, <1>15 DEF Arrive, IntakeStep, ReviewStep, DeleteStep

\* So do those of the worker, a promotion, a crash and a restart.
LEMMA WaitingIsTrackedWorker ==
  ASSUME TInv, WaitingIsTracked,
         WorkerStep \/ (\E g \in Goroutine : PublishStep(g)) \/ Crash \/ Restart
  PROVE  WaitingIsTracked'
<1> USE TInvShapes, GotoMoves, ReturnMoves, Goroutines, NoneDistinct
    DEF WaitingIsTracked, Status, rows, objects, locals, history
<1>1. CASE Recover
  <2>1. queue \in Seq(Version) /\ Len(queue) \in Nat /\ Len(queue) <= QueueCap /\ QueueCap \in Nat
    BY QueueHolds DEF TInv, DataOK
  <2>2. Waiting \subseteq Version /\ status' = status
    BY <1>1 DEF Recover, Waiting, Having
  <2>3. \A v \in Waiting :
          v \in dropped' \cup lost' \/ \E i \in 1 .. Len(queue') : queue'[i] = v
    <3>1. CASE lost' = lost \cup Waiting
      BY <3>1
    <3>2. ASSUME NEW n \in 0 .. QueueCap - Len(queue), NEW jobs \in Jobs(n, Waiting),
                 queue' = queue \o jobs,
                 dropped' = dropped \cup (Waiting \ {jobs[i] : i \in 1 .. n}),
                 NEW v \in Waiting, v \notin dropped'
          PROVE  \E i \in 1 .. Len(queue') : queue'[i] = v
      <4>1. n \in Nat /\ jobs \in [1 .. n -> Version]
        BY <2>1, <2>2, <3>2 DEF Jobs
      <4>2. jobs \in Seq(Version) /\ Len(jobs) = n
        BY <4>1
      <4>3. PICK i \in 1 .. n : jobs[i] = v
        BY <3>2
      <4>4. Len(queue \o jobs) \in Nat /\ Len(queue) + i \in 1 .. Len(queue \o jobs)
            /\ (queue \o jobs)[Len(queue) + i] = jobs[i]
        BY <2>1, <4>2, <4>3, ConcatFinds
      <4>5. QED
        BY <3>2, <4>3, <4>4
    <3>3. QED
      BY <1>1, <3>1, <3>2 DEF Recover
  <2>4. QED
    BY <2>2, <2>3 DEF Waiting, Having
<1>2. CASE Take
  <2>1. queue \in Seq(Version) /\ queue # <<>>
    <3>1. queue # <<>>
      BY <1>2 DEF Take
    <3>2. QED
      BY <3>1 DEF TInv, DataOK
  <2>2. \A i \in 1 .. Len(queue) :
          queue[i] = Head(queue) \/ \E k \in 1 .. Len(Tail(queue)) : Tail(queue)[k] = queue[i]
    BY <2>1, TailFinds
  <2>3. queue' = Tail(queue) /\ status' = status /\ dropped' = dropped /\ lost' = lost
    BY <1>2 DEF Take
  <2>4. /\ pc[Worker] = "wait" /\ pc'[Worker] = "mark" /\ ver'[Worker] = Head(queue)
        /\ \A r \in Request : pc'[r] = pc[r] /\ ver'[r] = ver[r]
    BY <1>2 DEF Take
  <2>5. SUFFICES ASSUME NEW v \in Version, status[v] \in {"pending", "scanning"}
                 PROVE  \/ \E i \in 1 .. Len(queue') : queue'[i] = v
                        \/ \E r \in Request : ver'[r] = v /\ pc'[r] = "enqueue"
                        \/ ver'[Worker] = v /\ pc'[Worker] = "mark"
                        \/ v \in dropped' \cup lost'
    BY <2>3
  <2>6. \/ \E i \in 1 .. Len(queue) : queue[i] = v
        \/ \E r \in Request : ver[r] = v /\ pc[r] = "enqueue"
        \/ v \in dropped \cup lost
    BY <2>4, <2>5
  <2>7. ASSUME NEW i \in 1 .. Len(queue), queue[i] = v
        PROVE  v = Head(queue) \/ \E k \in 1 .. Len(queue') : queue'[k] = v
    BY <2>2, <2>3, <2>7
  <2>8. QED
    BY <2>3, <2>4, <2>6, <2>7
<1>3. CASE Mark
  BY <1>3 DEF Mark, UpdateSkillStatus
<1>4. CASE Download
  BY <1>4 DEF Download
<1>5. CASE Scan
  BY <1>5 DEF Scan
<1>6. CASE Settle
  BY <1>6 DEF Settle, UpdateSkillStatus, SettledStatus
<1>7. CASE Discard
  BY <1>7 DEF Discard
<1>8. ASSUME NEW g \in Goroutine, Copy(g) PROVE WaitingIsTracked'
  BY <1>8 DEF Copy
<1>9. ASSUME NEW g \in Goroutine, Unpend(g) PROVE WaitingIsTracked'
  BY <1>9 DEF Unpend
<1>10. ASSUME NEW g \in Goroutine, CheckAvailable(g) PROVE WaitingIsTracked'
  BY <1>10 DEF CheckAvailable
<1>11. ASSUME NEW g \in Goroutine, SetActiveVersion(g) PROVE WaitingIsTracked'
  BY <1>11 DEF SetActiveVersion
<1>12. CASE Crash
  BY <1>12 DEF Crash
<1>13. CASE Restart
  BY <1>13 DEF Restart
<1>14. QED
  BY <1>1, <1>2, <1>3, <1>4, <1>5, <1>6, <1>7, <1>8, <1>9, <1>10, <1>11, <1>12,
     <1>13, Goroutines DEF WorkerStep, PublishStep

\* Every step preserves WaitingIsTracked.
LEMMA WaitingIsTrackedStep == TInv /\ WaitingIsTracked /\ [Next]_vars => WaitingIsTracked'
<1> SUFFICES ASSUME TInv, WaitingIsTracked, [Next]_vars PROVE WaitingIsTracked'
  OBVIOUS
<1>1. CASE UNCHANGED vars
  BY <1>1 DEF vars, rows, objects, locals, history, WaitingIsTracked
<1>2. ASSUME NEW r \in Request, RequestStep(r) \/ Arrive(r) PROVE WaitingIsTracked'
  BY <1>2, WaitingIsTrackedRequest, WaitingIsTrackedWorker, Goroutines DEF RequestStep
<1>3. CASE WorkerStep \/ Crash \/ Restart
  BY <1>3, WaitingIsTrackedWorker
<1>4. QED
  BY <1>1, <1>2, <1>3 DEF Next

\* A version that waits for its scan has a job, or will get one, unless the job met
\* a full channel or a failed status write.
THEOREM NoJobForgotten == Spec => []WaitingIsTracked
<1>1. Init => WaitingIsTracked
  BY NoneDistinct DEF Init, WaitingIsTracked, Status
<1>2. QED
  BY <1>1, Types, WaitingIsTrackedStep, PTL DEF Spec

-----------------------------------------------------------------------------
(***************************************************************************)
(* An edit is a new version.  With several requests it need not be (the    *)
(* run skill_overwrite): the number is chosen from rows another intake is  *)
(* about to write.  That is the only way, next to a listing that failed:   *)
(* a request that is alone, over a database that answers, never finds a    *)
(* row under the number it chose, whatever the worker, the crashes and the *)
(* restarts do in between.                                                 *)
(***************************************************************************)

\* One goroutine serves requests, and every statement it sends is answered.
Alone == (\A r, s \in Request : r = s) /\ "db" \notin Faults

\* From the choice of its number to the write of its row, an edit has no row.
Unwritten ==
  \A r \in Request :
    pc[r] \in {"submit", "upsert"} /\ act[r] = "edit" => status[ver[r]] = None

\* The versions an edit may choose have no row.
LEMMA EditChoosesFree ==
  ASSUME Alone, NEW v \in EditVersion
  PROVE  v \in Version /\ status[v] = None
BY DEF Alone, EditVersion, NextFreeVersion, Rows

\* What one goroutine does to the status of a version that has no row: nothing, unless
\* it is the write of an intake.
LEMMA RowlessStays ==
  ASSUME TInv, NEW v \in Version, status[v] = None,
         \/ \E r \in Request : Arrive(r) \/ Submit(r) \/ Enqueue(r) \/ ReviewStep(r) \/ DeleteStep(r)
         \/ WorkerStep \/ (\E g \in Goroutine : PublishStep(g)) \/ Crash \/ Restart
  PROVE  status'[v] = None
<1> USE NoneDistinct DEF rows, objects, locals, history
<1>1. \A a \in ReviewAction : None \notin AllowedFrom(a)
  BY DEF ReviewAction, AllowedFrom, Status
<1>2. ASSUME NEW r \in Request, Arrive(r) PROVE status' = status
  BY <1>2 DEF Arrive, Mint, Review, Activate, Delete, DeleteAll, Begin
<1>3. ASSUME NEW r \in Request, Submit(r) \/ Enqueue(r) PROVE status' = status
  BY <1>3 DEF Submit, Enqueue
<1>4. ASSUME NEW r \in Request, ReviewStep(r) PROVE status'[v] = None
  <2>1. CASE ReviewUpdate(r)
    <3>1. act[r] \in ReviewAction /\ ver[r] \in Version
      BY <2>1, Goroutines DEF ReviewUpdate, TInv, LocalsInv, Located, Busy, PC
    <3>2. status[ver[r]] = None => status' = status
      BY <1>1, <2>1, <3>1 DEF ReviewUpdate
    <3>3. QED
      BY <2>1, <3>1, <3>2 DEF ReviewUpdate, TInv, DataOK
  <2>2. CASE ClearActive(r) \/ Repoint(r) \/ WriteBlock(r)
    BY <2>2 DEF ClearActive, Repoint, WriteBlock
  <2>3. QED
    BY <1>4, <2>1, <2>2 DEF ReviewStep
<1>5. ASSUME NEW r \in Request, DeleteStep(r) PROVE status'[v] = None
  BY <1>5 DEF DeleteStep, Erase, ErasePending, DeleteRows
<1>6. CASE WorkerStep
  <2>1. ASSUME NEW u, NEW st, UpdateSkillStatus(u, st) PROVE status'[v] = None
    BY <2>1 DEF UpdateSkillStatus, TInv, DataOK
  <2>2. CASE Mark
    BY <2>1, <2>2 DEF Mark
  <2>3. CASE Settle
    BY <2>1, <2>3 DEF Settle
  <2>4. CASE Recover \/ Take \/ Download \/ Scan \/ Discard
    BY <2>4 DEF Recover, Take, Download, Scan, Discard
  <2>5. CASE PublishStep(Worker)
    BY <2>5 DEF PublishStep, Copy, Unpend, CheckAvailable, SetActiveVersion
  <2>6. QED
    BY <1>6, <2>2, <2>3, <2>4, <2>5 DEF WorkerStep
<1>7. ASSUME NEW g \in Goroutine, PublishStep(g) PROVE status' = status
  BY <1>7 DEF PublishStep, Copy, Unpend, CheckAvailable, SetActiveVersion
<1>8. CASE Crash \/ Restart
  BY <1>8 DEF Crash, Restart
<1>9. QED
  BY <1>2, <1>3, <1>4, <1>5, <1>6, <1>7, <1>8

\* A step that is neither a write of an intake nor the choice of a number leaves an
\* edit in hand where it was, or takes it on from "submit" to "upsert".
LEMMA EditInHand ==
  ASSUME TInv, NEW r \in Request, Alone,
         pc'[r] \in {"submit", "upsert"}, act'[r] = "edit",
         [Next]_vars, \A x \in Content : \A op \in Ops : ~Mint(r, x, op)
  PROVE  pc[r] \in {"submit", "upsert"} /\ act[r] = "edit" /\ ver'[r] = ver[r]
<1> USE Goroutines DEF rows, objects, locals, history, TInv, LocalsInv, LocalsOK
<1>1. CASE UNCHANGED vars
  BY <1>1 DEF vars
<1>2. ASSUME NEW s \in Request, Arrive(s) PROVE FALSE
  <2>1. s = r
    BY DEF Alone
  <2>2. ASSUME NEW v, NEW op, NEW l \in {"update", "activate", "erase"}, Begin(s, v, op, l)
        PROVE  FALSE
    BY <2>1, <2>2 DEF Begin, Goto
  <2>3. QED
    BY <1>2, <2>1, <2>2 DEF Arrive, Review, Activate, Delete, DeleteAll
<1>3. ASSUME NEW s \in Request, IntakeStep(s)
      PROVE  pc[r] \in {"submit", "upsert"} /\ act[r] = "edit" /\ ver'[r] = ver[r]
  <2>1. s = r
    BY DEF Alone
  <2>2. QED
    BY <1>3, <2>1 DEF IntakeStep, Submit, Upsert, Enqueue, Goto, Return
<1>4. ASSUME NEW s \in Request, ReviewStep(s) PROVE FALSE
  <2>1. s = r
    BY DEF Alone
  <2>2. QED
    BY <1>4, <2>1 DEF ReviewStep, ReviewUpdate, ClearActive, Repoint, WriteBlock,
       AfterClear, Goto, Return
<1>5. ASSUME NEW s \in Request, DeleteStep(s) PROVE FALSE
  <2>1. s = r
    BY DEF Alone
  <2>2. QED
    BY <1>5, <2>1 DEF DeleteStep, Erase, ErasePending, DeleteRows, Goto, Return
<1>6. ASSUME NEW g \in Goroutine, PublishStep(g)
      PROVE  pc[r] \in {"submit", "upsert"} /\ act[r] = "edit" /\ ver'[r] = ver[r]
  <2>1. CASE g = r
    BY <1>6, <2>1 DEF PublishStep, Copy, Unpend, CheckAvailable, SetActiveVersion,
       Goto, Return
  <2>2. CASE g # r
    BY <1>6, <2>2 DEF PublishStep, Copy, Unpend, CheckAvailable, SetActiveVersion,
       Goto, Return
  <2>3. QED
    BY <2>1, <2>2
<1>7. CASE Recover \/ Take \/ Mark \/ Download \/ Scan \/ Settle \/ Discard
  BY <1>7 DEF Recover, Take, Mark, Download, Scan, Settle, Discard, Goto, Return
<1>8. CASE Crash \/ Restart
  BY <1>8 DEF Crash, Restart, Goto
<1>9. QED
  BY <1>1, <1>2, <1>3, <1>4, <1>5, <1>6, <1>7, <1>8 DEF Next, RequestStep, WorkerStep

\* Every step preserves Unwritten.
LEMMA UnwrittenStep ==
  ASSUME Alone
  PROVE  TInv /\ Unwritten /\ [Next]_vars => Unwritten'
<1> SUFFICES ASSUME TInv, Unwritten, [Next]_vars, NEW r \in Request,
                    pc'[r] \in {"submit", "upsert"}, act'[r] = "edit"
             PROVE  status'[ver'[r]] = None
  BY DEF Unwritten
<1> USE Goroutines DEF rows, objects, locals, history
<1>1. ASSUME NEW x \in Content, NEW op \in Ops, Mint(r, x, op)
      PROVE  status'[ver'[r]] = None
  <2>1. op = "edit"
    BY <1>1 DEF Mint, TInv, LocalsInv, LocalsOK
  <2>2. PICK v \in EditVersion : ver' = [ver EXCEPT ![r] = v]
    BY <1>1, <2>1 DEF Mint
  <2>3. status[v] = None /\ status' = status
    BY <1>1, <2>2, EditChoosesFree DEF Mint
  <2>4. QED
    BY <2>2, <2>3 DEF TInv, LocalsInv, LocalsOK
<1>2. CASE \A x \in Content : \A op \in Ops : ~Mint(r, x, op)
  <2>1. pc[r] \in {"submit", "upsert"} /\ act[r] = "edit" /\ ver'[r] = ver[r]
    BY <1>2, EditInHand
  <2>2. status[ver[r]] = None /\ ver[r] \in Version
    BY <2>1 DEF Unwritten, TInv, LocalsInv, Located, Busy, PC
  <2>3. \A s \in Request : ~Upsert(s)
    <3>1. ASSUME NEW s \in Request, Upsert(s) PROVE FALSE
      <4>1. s = r
        BY DEF Alone
      <4>2. QED
        BY <3>1, <4>1 DEF Upsert, Goto, TInv, LocalsInv, LocalsOK
    <3>2. QED
      BY <3>1
  <2>4. CASE UNCHANGED vars
    BY <2>1, <2>2, <2>4 DEF vars
  <2>5. CASE Next
    <3>1. \/ \E s \in Request : Arrive(s) \/ Submit(s) \/ Enqueue(s) \/ ReviewStep(s) \/ DeleteStep(s)
          \/ WorkerStep \/ (\E g \in Goroutine : PublishStep(g)) \/ Crash \/ Restart
      BY <2>3, <2>5 DEF Next, RequestStep, IntakeStep
    <3>2. QED
      BY <2>1, <2>2, <3>1, RowlessStays
  <2>6. QED
    BY <2>4, <2>5
<1>3. QED
  BY <1>1, <1>2

\* A request that is alone, over a database that answers, edits no version twice: an
\* edit never finds a row under the number it chose.
THEOREM EditsAreNewAlone ==
  ASSUME Alone
  PROVE  Spec => EditsAreNewVersions
<1>1. Init => Unwritten
  BY Goroutines DEF Init, Unwritten
<1>2. TInv /\ Unwritten /\ [Next]_vars =>
        [\A r \in Request :
           pc[r] = "upsert" /\ pc'[r] = "enqueue" /\ act[r] = "edit" => status[ver[r]] = None]_vars
  BY DEF Unwritten
<1>3. TInv /\ Unwritten /\ [Next]_vars => Unwritten'
  BY UnwrittenStep
<1>4. QED
  BY <1>1, <1>2, <1>3, Types, PTL DEF Spec, EditsAreNewVersions
=============================================================================
