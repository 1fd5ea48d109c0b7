------------------------ MODULE SessionManager_proofs ------------------------
(***************************************************************************)
(* Proofs about SessionManager, for any number of requests, sessions and   *)
(* sandboxes.                                                              *)
(***************************************************************************)
EXTENDS SessionManager, FiniteSetTheorems, TLAPS

-----------------------------------------------------------------------------
(***************************************************************************)
(* Type correctness, strengthened with where each goroutine can be and     *)
(* what its locals hold there.                                             *)
(***************************************************************************)

ReaperPC == {"idle", "next", "sync", "remove", "delete", "done"}

\* Where a goroutine has no request, and so no key.
Resting == {"idle", "next", "done"}

\* Where a goroutine certainly holds a sandbox, and where it holds none.
Holding == {"ping", "ready", "insert", "use", "call", "delete"}
EmptyHanded == {"lookup", "do", "recheck", "provision"}

LocalsOK ==
  \A a \in Agent :
    /\ a \in Reaper => pc[a] \in ReaperPC
    /\ pc[a] \notin Resting => req[a] \in Key
    /\ pc[a] \in Resting => held[a] = None
    /\ pc[a] \in Holding => held[a] \in Sandbox
    /\ pc[a] \in EmptyHanded => held[a] = None

TInv == TypeOK /\ LocalsOK

\* A caller is no reaper, and None is no key, sandbox or caller.
LEMMA Distinct ==
  /\ \A c \in Caller : c \in Agent /\ c \notin Reaper /\ c # None
  /\ \A r \in Reaper : r \in Agent /\ r \notin Caller
  /\ None \notin Key /\ None \notin Sandbox
BY ReaperNames, ReapersAreNotCallers, NoneIsNoValue DEF Agent

\* TInv holds initially.
LEMMA TInvInit == Init => TInv
BY Distinct DEF Init, TInv, TypeOK, LocalsOK, PC, ReaperPC, Resting, Holding, EmptyHanded

\* GetOrCreate up to the flight preserves the type invariant.
LEMMA TInvLookup ==
  ASSUME TInv, NEW c \in Caller,
         \/ \E k \in Key : Arrive(c, k)
         \/ LookupHit(c) \/ LookupMiss(c) \/ LookupFull(c)
         \/ PingOk(c) \/ PingFail(c) \/ Evict(c) \/ DoLead(c) \/ DoJoin(c)
  PROVE  TInv'
<1> USE Distinct DEF TInv, TypeOK, LocalsOK, PC, ReaperPC, Resting, Holding, EmptyHanded, Goto
<1>1. ASSUME NEW k \in Key, Arrive(c, k) PROVE TInv'
  BY <1>1 DEF Arrive
<1>2. CASE LookupHit(c)
  BY <1>2 DEF LookupHit
<1>3. CASE LookupMiss(c)
  BY <1>3 DEF LookupMiss
<1>4. CASE LookupFull(c)
  BY <1>4 DEF LookupFull, Return
<1>5. CASE PingOk(c)
  BY <1>5 DEF PingOk
<1>6. CASE PingFail(c)
  BY <1>6 DEF PingFail
<1>7. CASE Evict(c)
  BY <1>7 DEF Evict, Drop, Forsake
<1>8. CASE DoLead(c)
  BY <1>8 DEF DoLead
<1>9. CASE DoJoin(c)
  BY <1>9 DEF DoJoin
<1>10. QED
  BY <1>1, <1>2, <1>3, <1>4, <1>5, <1>6, <1>7, <1>8, <1>9

\* So does the creation ...
LEMMA TInvCreate ==
  ASSUME TInv, NEW c \in Caller, CreateStep(c)
  PROVE  TInv'
<1> USE Distinct DEF TInv, TypeOK, LocalsOK, PC, ReaperPC, Resting, Holding, EmptyHanded, Goto
<1>1. CASE Recheck(c)
  BY <1>1 DEF Recheck
<1>2. ASSUME NEW s \in Sandbox, Provision(c, s) PROVE TInv'
  BY <1>2 DEF Provision
<1>3. CASE ProvisionFail(c)
  BY <1>3 DEF ProvisionFail
<1>4. CASE Ready(c)
  BY <1>4 DEF Ready
<1>5. CASE ReadyFail(c)
  BY <1>5 DEF ReadyFail, DeleteSandbox, Forsake
<1>6. CASE Insert(c)
  BY <1>6 DEF Insert
<1>7. CASE Finish(c)
  BY <1>7 DEF Finish, Passengers
<1>8. QED
  BY <1>1, <1>2, <1>3, <1>4, <1>5, <1>6, <1>7 DEF CreateStep

\* ... the use of a sandbox ...
LEMMA TInvUse ==
  ASSUME TInv, NEW c \in Caller, UseStep(c)
  PROVE  TInv'
<1> USE Distinct DEF TInv, TypeOK, LocalsOK, PC, ReaperPC, Resting, Holding, EmptyHanded, Goto
<1>1. CASE GetSession(c)
  BY <1>1 DEF GetSession, Return
<1>2. CASE CallReturns(c)
  BY <1>2 DEF CallReturns, Return
<1>3. CASE EvictStale(c)
  BY <1>3 DEF EvictStale, Return, Drop, Forsake
<1>4. QED
  BY <1>1, <1>2, <1>3 DEF UseStep

\* ... the removal of one ...
LEMMA TInvRemove ==
  ASSUME TInv, NEW a \in Agent, RemoveStep(a)
  PROVE  TInv'
<1> USE Distinct DEF TInv, TypeOK, LocalsOK, PC, ReaperPC, Resting, Holding, EmptyHanded, Goto
<1>1. CASE SyncSessionFiles(a)
  BY <1>1 DEF SyncSessionFiles
<1>2. CASE Remove(a)
  BY <1>2 DEF Remove, Return, Drop
<1>3. CASE Delete(a)
  BY <1>3 DEF Delete, Return, DeleteSandbox, Forsake
<1>4. QED
  BY <1>1, <1>2, <1>3 DEF RemoveStep

\* ... and the loops of the reapers.
LEMMA TInvReaper ==
  ASSUME TInv, NEW r \in Reaper, ReaperStep(r)
  PROVE  TInv'
<1> USE Distinct DEF TInv, TypeOK, LocalsOK, PC, ReaperPC, Resting, Holding, EmptyHanded, Goto
<1>1. CASE Collect(r)
  BY <1>1 DEF Collect, Cached
<1>2. ASSUME NEW k \in Key, NextKey(r, k) PROVE TInv'
  BY <1>2 DEF NextKey
<1>3. CASE LoopEnds(r)
  BY <1>3 DEF LoopEnds
<1>4. QED
  BY <1>1, <1>2, <1>3 DEF ReaperStep

\* A request, an idle TTL or the death of a sandbox preserves TInv.
LEMMA TInvEnvironment ==
  ASSUME TInv, NEW s \in Sandbox, BecomeIdle(s) \/ Die(s)
  PROVE  TInv'
BY DEF TInv, TypeOK, LocalsOK, BecomeIdle, Die, local

\* Every step preserves TInv.
LEMMA TInvStep == TInv /\ [Next]_vars => TInv'
<1> SUFFICES ASSUME TInv, [Next]_vars PROVE TInv'
  OBVIOUS
<1>1. CASE UNCHANGED vars
  BY <1>1 DEF vars, TInv, TypeOK, LocalsOK
<1>2. ASSUME NEW c \in Caller,
             (\E k \in Key : Arrive(c, k)) \/ GetOrCreateStep(c) \/ UseStep(c)
      PROVE  TInv'
  BY <1>2, TInvLookup, TInvCreate, TInvUse DEF GetOrCreateStep
<1>3. QED
  BY <1>1, <1>2, TInvRemove, TInvReaper, TInvEnvironment DEF Next

\* Every reachable state is well typed.
THEOREM TypeCorrect == Spec => []TypeOK
<1>1. Spec => []TInv
  BY TInvInit, TInvStep, PTL DEF Spec
<1>2. TInv => TypeOK
  BY DEF TInv
<1>3. QED
  BY <1>1, <1>2, PTL
-----------------------------------------------------------------------------
(***************************************************************************)
(* Single flight: whoever is inside createSandbox is the registered leader *)
(* of its key's flight, so there is at most one, and only it inserts.      *)
(***************************************************************************)

Leading == {"recheck", "provision", "ready", "insert", "finish"}

LeadersRegistered ==
  \A c \in Caller : pc[c] \in Leading => flight[req[c]] = c

FInv == LeadersRegistered /\ InsertNeverOverwrites

\* The steps of a request through GetOrCreate, up to the flight, preserve FInv.
LEMMA FInvLookup ==
  ASSUME TInv, TInv', FInv, NEW c \in Caller,
         \/ \E k \in Key : Arrive(c, k)
         \/ LookupHit(c) \/ LookupMiss(c) \/ LookupFull(c)
         \/ PingOk(c) \/ PingFail(c) \/ Evict(c) \/ DoLead(c) \/ DoJoin(c)
  PROVE  FInv'
<1> USE Distinct DEF FInv, LeadersRegistered, InsertNeverOverwrites, Leading,
           TInv, TypeOK, LocalsOK, ReaperPC, Resting, Holding, EmptyHanded, Goto
<1>1. ASSUME NEW k \in Key, Arrive(c, k) PROVE FInv'
  BY <1>1 DEF Arrive
<1>2. CASE LookupHit(c)
  BY <1>2 DEF LookupHit
<1>3. CASE LookupMiss(c)
  BY <1>3 DEF LookupMiss
<1>4. CASE LookupFull(c)
  BY <1>4 DEF LookupFull, Return
<1>5. CASE PingOk(c)
  BY <1>5 DEF PingOk
<1>6. CASE PingFail(c)
  BY <1>6 DEF PingFail
<1>7. CASE Evict(c)
  BY <1>7 DEF Evict, Drop, Forsake
<1>8. CASE DoLead(c)
  BY <1>8 DEF DoLead
<1>9. CASE DoJoin(c)
  BY <1>9 DEF DoJoin
<1>10. QED
  BY <1>1, <1>2, <1>3, <1>4, <1>5, <1>6, <1>7, <1>8, <1>9

\* The steps of createSandbox, run by the leader of a flight, preserve FInv.
LEMMA FInvCreate ==
  ASSUME TInv, TInv', FInv, NEW c \in Caller, CreateStep(c)
  PROVE  FInv'
<1> USE Distinct DEF FInv, LeadersRegistered, InsertNeverOverwrites, Leading,
           TInv, TypeOK, LocalsOK, ReaperPC, Resting, Holding, EmptyHanded, Goto
<1>1. CASE Recheck(c)
  BY <1>1 DEF Recheck
<1>2. ASSUME NEW s \in Sandbox, Provision(c, s) PROVE FInv'
  BY <1>2 DEF Provision
<1>3. CASE ProvisionFail(c)
  BY <1>3 DEF ProvisionFail
<1>4. CASE Ready(c)
  BY <1>4 DEF Ready
<1>5. CASE ReadyFail(c)
  BY <1>5 DEF ReadyFail, DeleteSandbox, Forsake
<1>6. CASE Insert(c)
  BY <1>6 DEF Insert
<1>7. CASE Finish(c)
  BY <1>7 DEF Finish, Passengers
<1>8. QED
  BY <1>1, <1>2, <1>3, <1>4, <1>5, <1>6, <1>7 DEF CreateStep

\* The operations on a session's sandbox preserve FInv.
LEMMA FInvUse ==
  ASSUME TInv, TInv', FInv, NEW c \in Caller, UseStep(c)
  PROVE  FInv'
<1> USE Distinct DEF FInv, LeadersRegistered, InsertNeverOverwrites, Leading,
           TInv, TypeOK, LocalsOK, ReaperPC, Resting, Holding, EmptyHanded, Goto
<1>1. CASE GetSession(c)
  BY <1>1 DEF GetSession, Return
<1>2. CASE CallReturns(c)
  BY <1>2 DEF CallReturns, Return
<1>3. CASE EvictStale(c)
  BY <1>3 DEF EvictStale, Return, Drop, Forsake
<1>4. QED
  BY <1>1, <1>2, <1>3 DEF UseStep

\* Destroy and syncAndRemove preserve FInv.
LEMMA FInvRemove ==
  ASSUME TInv, TInv', FInv, NEW a \in Agent, RemoveStep(a)
  PROVE  FInv'
<1> USE Distinct DEF FInv, LeadersRegistered, InsertNeverOverwrites, Leading,
           TInv, TypeOK, LocalsOK, ReaperPC, Resting, Holding, EmptyHanded, Goto
<1>1. CASE SyncSessionFiles(a)
  BY <1>1 DEF SyncSessionFiles
<1>2. CASE Remove(a)
  BY <1>2 DEF Remove, Return, Drop
<1>3. CASE Delete(a)
  BY <1>3 DEF Delete, Return, DeleteSandbox, Forsake
<1>4. QED
  BY <1>1, <1>2, <1>3 DEF RemoveStep

\* The loops of Cleanup and Shutdown preserve FInv.
LEMMA FInvReaper ==
  ASSUME TInv, TInv', FInv, NEW r \in Reaper, ReaperStep(r)
  PROVE  FInv'
<1> USE Distinct DEF FInv, LeadersRegistered, InsertNeverOverwrites, Leading,
           TInv, TypeOK, LocalsOK, ReaperPC, Resting, Holding, EmptyHanded, Goto
<1>1. CASE Collect(r)
  BY <1>1 DEF Collect
<1>2. ASSUME NEW k \in Key, NextKey(r, k) PROVE FInv'
  BY <1>2 DEF NextKey
<1>3. CASE LoopEnds(r)
  BY <1>3 DEF LoopEnds
<1>4. QED
  BY <1>1, <1>2, <1>3 DEF ReaperStep

\* A request, an idle TTL or the death of a sandbox preserves FInv.
LEMMA FInvEnvironment ==
  ASSUME TInv, TInv', FInv, NEW s \in Sandbox, BecomeIdle(s) \/ Die(s)
  PROVE  FInv'
BY DEF FInv, LeadersRegistered, InsertNeverOverwrites, Leading,
           TInv, TypeOK, LocalsOK, ReaperPC, Resting, Holding, EmptyHanded, BecomeIdle, Die, local

\* Every step preserves FInv.
LEMMA FInvStep == TInv /\ TInv' /\ FInv /\ [Next]_vars => FInv'
<1> SUFFICES ASSUME TInv, TInv', FInv, [Next]_vars PROVE FInv'
  OBVIOUS
<1>1. CASE UNCHANGED vars
  BY <1>1 DEF vars, FInv, LeadersRegistered, InsertNeverOverwrites, Leading,
           TInv, TypeOK, LocalsOK, ReaperPC, Resting, Holding, EmptyHanded
<1>2. ASSUME NEW c \in Caller,
             (\E k \in Key : Arrive(c, k)) \/ GetOrCreateStep(c) \/ UseStep(c)
      PROVE  FInv'
  BY <1>2, FInvLookup, FInvCreate, FInvUse DEF GetOrCreateStep
<1>3. QED
  BY <1>1, <1>2, FInvRemove, FInvReaper, FInvEnvironment DEF Next

\* An insertion never overwrites a cached sandbox.
THEOREM NeverOverwrites == Spec => []InsertNeverOverwrites
<1>1. Init => TInv /\ FInv
  BY TInvInit, Distinct DEF Init, FInv, LeadersRegistered, InsertNeverOverwrites, Leading
<1>2. TInv /\ FInv /\ [Next]_vars => (TInv /\ FInv)'
  BY TInvStep, FInvStep
<1>3. TInv /\ FInv => InsertNeverOverwrites
  BY DEF FInv
<1>4. QED
  BY <1>1, <1>2, <1>3, PTL DEF Spec

-----------------------------------------------------------------------------
(***************************************************************************)
(* Whose sandbox it is: a goroutine that got a sandbox for a key got one   *)
(* created for that key, and a sandbox belongs to no key until it exists.  *)
(***************************************************************************)

Serving == {"ping", "ready", "insert", "finish", "use", "call"}

OInv ==
  /\ \A k \in Key : sessions[k] # None => owner[sessions[k]] = k
  /\ \A c \in Caller :
       pc[c] \in Serving /\ held[c] # None => owner[held[c]] = req[c]
  /\ \A s \in Sandbox : remote[s] = "unborn" => owner[s] = None
  /\ \A a \in Agent : pc[a] = "delete" => remote[held[a]] # "unborn"

\* The steps of a request through GetOrCreate, up to the flight, preserve OInv.
LEMMA OInvLookup ==
  ASSUME TInv, TInv', OInv, NEW c \in Caller,
         \/ \E k \in Key : Arrive(c, k)
         \/ LookupHit(c) \/ LookupMiss(c) \/ LookupFull(c)
         \/ PingOk(c) \/ PingFail(c) \/ Evict(c) \/ DoLead(c) \/ DoJoin(c)
  PROVE  OInv'
<1> USE Distinct DEF OInv, Serving,
           TInv, TypeOK, LocalsOK, ReaperPC, Resting, Holding, EmptyHanded, Goto
<1>1. ASSUME NEW k \in Key, Arrive(c, k) PROVE OInv'
  BY <1>1 DEF Arrive
<1>2. CASE LookupHit(c)
  BY <1>2 DEF LookupHit
<1>3. CASE LookupMiss(c)
  BY <1>3 DEF LookupMiss
<1>4. CASE LookupFull(c)
  BY <1>4 DEF LookupFull, Return
<1>5. CASE PingOk(c)
  BY <1>5 DEF PingOk
<1>6. CASE PingFail(c)
  BY <1>6 DEF PingFail
<1>7. CASE Evict(c)
  BY <1>7 DEF Evict, Drop, Forsake
<1>8. CASE DoLead(c)
  BY <1>8 DEF DoLead
<1>9. CASE DoJoin(c)
  BY <1>9 DEF DoJoin
<1>10. QED
  BY <1>1, <1>2, <1>3, <1>4, <1>5, <1>6, <1>7, <1>8, <1>9

\* The steps of createSandbox, run by the leader of a flight, preserve OInv.
LEMMA OInvCreate ==
  ASSUME TInv, TInv', OInv, NEW c \in Caller, CreateStep(c)
  PROVE  OInv'
<1> USE Distinct DEF OInv, Serving,
           TInv, TypeOK, LocalsOK, ReaperPC, Resting, Holding, EmptyHanded, Goto
<1>1. CASE Recheck(c)
  BY <1>1 DEF Recheck
<1>2. ASSUME NEW s \in Sandbox, Provision(c, s) PROVE OInv'
  BY <1>2 DEF Provision
<1>3. CASE ProvisionFail(c)
  BY <1>3 DEF ProvisionFail
<1>4. CASE Ready(c)
  BY <1>4 DEF Ready
<1>5. CASE ReadyFail(c)
  BY <1>5 DEF ReadyFail, DeleteSandbox, Forsake
<1>6. CASE Insert(c)
  BY <1>6 DEF Insert
<1>7. CASE Finish(c)
  BY <1>7 DEF Finish, Passengers
<1>8. QED
  BY <1>1, <1>2, <1>3, <1>4, <1>5, <1>6, <1>7 DEF CreateStep

\* The operations on a session's sandbox preserve OInv.
LEMMA OInvUse ==
  ASSUME TInv, TInv', OInv, NEW c \in Caller, UseStep(c)
  PROVE  OInv'
<1> USE Distinct DEF OInv, Serving,
           TInv, TypeOK, LocalsOK, ReaperPC, Resting, Holding, EmptyHanded, Goto
<1>1. CASE GetSession(c)
  BY <1>1 DEF GetSession, Return
<1>2. CASE CallReturns(c)
  BY <1>2 DEF CallReturns, Return
<1>3. CASE EvictStale(c)
  BY <1>3 DEF EvictStale, Return, Drop, Forsake
<1>4. QED
  BY <1>1, <1>2, <1>3 DEF UseStep

\* Destroy and syncAndRemove preserve OInv.
LEMMA OInvRemove ==
  ASSUME TInv, TInv', OInv, NEW a \in Agent, RemoveStep(a)
  PROVE  OInv'
<1> USE Distinct DEF OInv, Serving,
           TInv, TypeOK, LocalsOK, ReaperPC, Resting, Holding, EmptyHanded, Goto
<1>1. CASE SyncSessionFiles(a)
  BY <1>1 DEF SyncSessionFiles
<1>2. CASE Remove(a)
  BY <1>2 DEF Remove, Return, Drop
<1>3. CASE Delete(a)
  BY <1>3 DEF Delete, Return, DeleteSandbox, Forsake
<1>4. QED
  BY <1>1, <1>2, <1>3 DEF RemoveStep

\* The loops of Cleanup and Shutdown preserve OInv.
LEMMA OInvReaper ==
  ASSUME TInv, TInv', OInv, NEW r \in Reaper, ReaperStep(r)
  PROVE  OInv'
<1> USE Distinct DEF OInv, Serving,
           TInv, TypeOK, LocalsOK, ReaperPC, Resting, Holding, EmptyHanded, Goto
<1>1. CASE Collect(r)
  BY <1>1 DEF Collect
<1>2. ASSUME NEW k \in Key, NextKey(r, k) PROVE OInv'
  BY <1>2 DEF NextKey
<1>3. CASE LoopEnds(r)
  BY <1>3 DEF LoopEnds
<1>4. QED
  BY <1>1, <1>2, <1>3 DEF ReaperStep

\* A request, an idle TTL or the death of a sandbox preserves OInv.
LEMMA OInvEnvironment ==
  ASSUME TInv, TInv', OInv, NEW s \in Sandbox, BecomeIdle(s) \/ Die(s)
  PROVE  OInv'
BY DEF OInv, Serving,
           TInv, TypeOK, LocalsOK, ReaperPC, Resting, Holding, EmptyHanded, BecomeIdle, Die, local

\* Every step preserves OInv.
LEMMA OInvStep == TInv /\ TInv' /\ OInv /\ [Next]_vars => OInv'
<1> SUFFICES ASSUME TInv, TInv', OInv, [Next]_vars PROVE OInv'
  OBVIOUS
<1>1. CASE UNCHANGED vars
  BY <1>1 DEF vars, OInv, Serving,
           TInv, TypeOK, LocalsOK, ReaperPC, Resting, Holding, EmptyHanded
<1>2. ASSUME NEW c \in Caller,
             (\E k \in Key : Arrive(c, k)) \/ GetOrCreateStep(c) \/ UseStep(c)
      PROVE  OInv'
  BY <1>2, OInvLookup, OInvCreate, OInvUse DEF GetOrCreateStep
<1>3. QED
  BY <1>1, <1>2, OInvRemove, OInvReaper, OInvEnvironment DEF Next

\* No request is handed, and no key caches, another session's sandbox.
THEOREM SandboxesStayWithTheirSession == Spec => []SandboxBelongsToSession
<1>1. Init => TInv /\ OInv
  BY TInvInit, Distinct DEF Init, OInv, Serving
<1>2. TInv /\ OInv /\ [Next]_vars => (TInv /\ OInv)'
  BY TInvStep, OInvStep
<1>3. TInv /\ OInv => SandboxBelongsToSession
  BY Distinct DEF TInv, LocalsOK, OInv, SandboxBelongsToSession, Serving, Holding
<1>4. QED
  BY <1>1, <1>2, <1>3, PTL DEF Spec

-----------------------------------------------------------------------------
(***************************************************************************)
(* Nothing leaks but through the paths that forsake a sandbox.             *)
(***************************************************************************)

\* The steps of a request through GetOrCreate, up to the flight, preserve LiveSandboxAccountedFor.
LEMMA LInvLookup ==
  ASSUME TInv, TInv', FInv, LiveSandboxAccountedFor, NEW c \in Caller,
         \/ \E k \in Key : Arrive(c, k)
         \/ LookupHit(c) \/ LookupMiss(c) \/ LookupFull(c)
         \/ PingOk(c) \/ PingFail(c) \/ Evict(c) \/ DoLead(c) \/ DoJoin(c)
  PROVE  LiveSandboxAccountedFor'
<1> USE Distinct DEF LiveSandboxAccountedFor, Cache, Creating, Deleting, FInv, InsertNeverOverwrites,
           TInv, TypeOK, LocalsOK, ReaperPC, Resting, Holding, EmptyHanded, Goto
<1>1. ASSUME NEW k \in Key, Arrive(c, k) PROVE LiveSandboxAccountedFor'
  BY <1>1 DEF Arrive
<1>2. CASE LookupHit(c)
  BY <1>2 DEF LookupHit
<1>3. CASE LookupMiss(c)
  BY <1>3 DEF LookupMiss
<1>4. CASE LookupFull(c)
  BY <1>4 DEF LookupFull, Return
<1>5. CASE PingOk(c)
  BY <1>5 DEF PingOk
<1>6. CASE PingFail(c)
  BY <1>6 DEF PingFail
<1>7. CASE Evict(c)
  BY <1>7 DEF Evict, Drop, Forsake
<1>8. CASE DoLead(c)
  BY <1>8 DEF DoLead
<1>9. CASE DoJoin(c)
  BY <1>9 DEF DoJoin
<1>10. QED
  BY <1>1, <1>2, <1>3, <1>4, <1>5, <1>6, <1>7, <1>8, <1>9

\* The steps of createSandbox, run by the leader of a flight, preserve LiveSandboxAccountedFor.
LEMMA LInvCreate ==
  ASSUME TInv, TInv', FInv, LiveSandboxAccountedFor, NEW c \in Caller, CreateStep(c)
  PROVE  LiveSandboxAccountedFor'
<1> USE Distinct DEF LiveSandboxAccountedFor, Cache, Creating, Deleting, FInv, InsertNeverOverwrites,
           TInv, TypeOK, LocalsOK, ReaperPC, Resting, Holding, EmptyHanded, Goto
<1>1. CASE Recheck(c)
  BY <1>1 DEF Recheck
<1>2. ASSUME NEW s \in Sandbox, Provision(c, s) PROVE LiveSandboxAccountedFor'
  BY <1>2 DEF Provision
<1>3. CASE ProvisionFail(c)
  BY <1>3 DEF ProvisionFail
<1>4. CASE Ready(c)
  BY <1>4 DEF Ready
<1>5. CASE ReadyFail(c)
  BY <1>5 DEF ReadyFail, DeleteSandbox, Forsake
<1>6. CASE Insert(c)
  BY <1>6 DEF Insert
<1>7. CASE Finish(c)
  BY <1>7 DEF Finish, Passengers
<1>8. QED
  BY <1>1, <1>2, <1>3, <1>4, <1>5, <1>6, <1>7 DEF CreateStep

\* The operations on a session's sandbox preserve LiveSandboxAccountedFor.
LEMMA LInvUse ==
  ASSUME TInv, TInv', FInv, LiveSandboxAccountedFor, NEW c \in Caller, UseStep(c)
  PROVE  LiveSandboxAccountedFor'
<1> USE Distinct DEF LiveSandboxAccountedFor, Cache, Creating, Deleting, FInv, InsertNeverOverwrites,
           TInv, TypeOK, LocalsOK, ReaperPC, Resting, Holding, EmptyHanded, Goto
<1>1. CASE GetSession(c)
  BY <1>1 DEF GetSession, Return
<1>2. CASE CallReturns(c)
  BY <1>2 DEF CallReturns, Return
<1>3. CASE EvictStale(c)
  BY <1>3 DEF EvictStale, Return, Drop, Forsake
<1>4. QED
  BY <1>1, <1>2, <1>3 DEF UseStep

\* Destroy and syncAndRemove preserve LiveSandboxAccountedFor.
LEMMA LInvRemove ==
  ASSUME TInv, TInv', FInv, LiveSandboxAccountedFor, NEW a \in Agent, RemoveStep(a)
  PROVE  LiveSandboxAccountedFor'
<1> USE Distinct DEF LiveSandboxAccountedFor, Cache, Creating, Deleting, FInv, InsertNeverOverwrites,
           TInv, TypeOK, LocalsOK, ReaperPC, Resting, Holding, EmptyHanded, Goto
<1>1. CASE SyncSessionFiles(a)
  BY <1>1 DEF SyncSessionFiles
<1>2. CASE Remove(a)
  BY <1>2 DEF Remove, Return, Drop
<1>3. CASE Delete(a)
  BY <1>3 DEF Delete, Return, DeleteSandbox, Forsake
<1>4. QED
  BY <1>1, <1>2, <1>3 DEF RemoveStep

\* The loops of Cleanup and Shutdown preserve LiveSandboxAccountedFor.
LEMMA LInvReaper ==
  ASSUME TInv, TInv', FInv, LiveSandboxAccountedFor, NEW r \in Reaper, ReaperStep(r)
  PROVE  LiveSandboxAccountedFor'
<1> USE Distinct DEF LiveSandboxAccountedFor, Cache, Creating, Deleting, FInv, InsertNeverOverwrites,
           TInv, TypeOK, LocalsOK, ReaperPC, Resting, Holding, EmptyHanded, Goto
<1>1. CASE Collect(r)
  BY <1>1 DEF Collect
<1>2. ASSUME NEW k \in Key, NextKey(r, k) PROVE LiveSandboxAccountedFor'
  BY <1>2 DEF NextKey
<1>3. CASE LoopEnds(r)
  BY <1>3 DEF LoopEnds
<1>4. QED
  BY <1>1, <1>2, <1>3 DEF ReaperStep

\* A request, an idle TTL or the death of a sandbox preserves LiveSandboxAccountedFor.
LEMMA LInvEnvironment ==
  ASSUME TInv, TInv', FInv, LiveSandboxAccountedFor, NEW s \in Sandbox, BecomeIdle(s) \/ Die(s)
  PROVE  LiveSandboxAccountedFor'
BY DEF LiveSandboxAccountedFor, Cache, Creating, Deleting, FInv, InsertNeverOverwrites,
           TInv, TypeOK, LocalsOK, ReaperPC, Resting, Holding, EmptyHanded, BecomeIdle, Die, local

\* Every step preserves LiveSandboxAccountedFor.
LEMMA LInvStep == TInv /\ TInv' /\ FInv /\ LiveSandboxAccountedFor /\ [Next]_vars => LiveSandboxAccountedFor'
<1> SUFFICES ASSUME TInv, TInv', FInv, LiveSandboxAccountedFor, [Next]_vars PROVE LiveSandboxAccountedFor'
  OBVIOUS
<1>1. CASE UNCHANGED vars
  BY <1>1 DEF vars, LiveSandboxAccountedFor, Cache, Creating, Deleting, FInv, InsertNeverOverwrites,
           TInv, TypeOK, LocalsOK, ReaperPC, Resting, Holding, EmptyHanded
<1>2. ASSUME NEW c \in Caller,
             (\E k \in Key : Arrive(c, k)) \/ GetOrCreateStep(c) \/ UseStep(c)
      PROVE  LiveSandboxAccountedFor'
  BY <1>2, LInvLookup, LInvCreate, LInvUse DEF GetOrCreateStep
<1>3. QED
  BY <1>1, <1>2, LInvRemove, LInvReaper, LInvEnvironment DEF Next

\* A live sandbox that is neither cached, nor being created, nor about to be
\* deleted was dropped by an eviction, a failed delete or a lost answer.
THEOREM NoOtherLeak == Spec => []LiveSandboxAccountedFor
<1>1. Init => TInv /\ FInv /\ LiveSandboxAccountedFor
  BY TInvInit, Distinct DEF Init, FInv, LeadersRegistered, InsertNeverOverwrites,
     Leading, LiveSandboxAccountedFor
<1>2. TInv /\ FInv /\ LiveSandboxAccountedFor /\ [Next]_vars
      => (TInv /\ FInv /\ LiveSandboxAccountedFor)'
  BY TInvStep, FInvStep, LInvStep
<1>3. QED
  BY <1>1, <1>2, PTL DEF Spec

-----------------------------------------------------------------------------
(***************************************************************************)
(* Capacity.  Call a key claimed when it is cached or when a request for   *)
(* it may still insert it without passing the capacity check again.  Only  *)
(* LookupMiss claims a new key, and it does so with fewer than             *)
(* MaxSessionSandboxes cached; every other claim is of one of the requests *)
(* in flight.                                                              *)
(***************************************************************************)

Claiming == {"ping", "evict", "do", "recheck", "provision", "ready", "insert"}

Claimants == {c \in Caller : pc[c] \in Claiming}

Claimed == Cached \cup {req[c] : c \in Claimants}

ClaimBound == MaxSessionSandboxes - 1 + Cardinality(Caller)

CInv == IsFiniteSet(Claimed) /\ Cardinality(Claimed) <= ClaimBound

\* The bound on claims is a number.
LEMMA BoundIsNat == ClaimBound \in Nat
BY CapacityPositive, CallersFinite, FS_CardinalityType DEF ClaimBound

\* Passing the capacity check is the only step that claims a key.
LEMMA OnlyMissClaims ==
  ASSUME TInv, TInv', [Next]_vars, \A c \in Caller : ~LookupMiss(c)
  PROVE  Claimed' \subseteq Claimed
<1> USE Distinct DEF Claimed, Claimants, Claiming, Cached,
           TInv, TypeOK, LocalsOK, ReaperPC, Resting, Holding, EmptyHanded, Goto
<1>1. CASE UNCHANGED vars
  BY <1>1 DEF vars
<1>2. ASSUME NEW c \in Caller, NEW k \in Key, Arrive(c, k)
      PROVE  Claimed' \subseteq Claimed
  BY <1>2 DEF Arrive
<1>3. ASSUME NEW c \in Caller, GetOrCreateStep(c), ~CreateStep(c)
      PROVE  Claimed' \subseteq Claimed
  <2>1. CASE LookupHit(c)
    BY <2>1 DEF LookupHit
  <2>2. CASE LookupFull(c)
    BY <2>2 DEF LookupFull, Return
  <2>3. CASE PingOk(c)
    BY <2>3 DEF PingOk
  <2>4. CASE PingFail(c)
    BY <2>4 DEF PingFail
  <2>5. CASE Evict(c)
    BY <2>5 DEF Evict, Drop
  <2>6. CASE DoLead(c)
    BY <2>6 DEF DoLead
  <2>7. CASE DoJoin(c)
    BY <2>7 DEF DoJoin
  <2>8. QED
    BY <1>3, <2>1, <2>2, <2>3, <2>4, <2>5, <2>6, <2>7 DEF GetOrCreateStep
<1>4. ASSUME NEW c \in Caller, CreateStep(c)
      PROVE  Claimed' \subseteq Claimed
  <2>1. CASE Recheck(c)
    BY <2>1 DEF Recheck
  <2>2. ASSUME NEW s \in Sandbox, Provision(c, s) PROVE Claimed' \subseteq Claimed
    BY <2>2 DEF Provision
  <2>3. CASE ProvisionFail(c)
    BY <2>3 DEF ProvisionFail
  <2>4. CASE Ready(c)
    BY <2>4 DEF Ready
  <2>5. CASE ReadyFail(c)
    BY <2>5 DEF ReadyFail
  <2>6. CASE Insert(c)
    BY <2>6 DEF Insert
  <2>7. CASE Finish(c)
    BY <2>7 DEF Finish, Passengers
  <2>8. QED
    BY <1>4, <2>1, <2>2, <2>3, <2>4, <2>5, <2>6, <2>7 DEF CreateStep
<1>5. ASSUME NEW c \in Caller, UseStep(c)
      PROVE  Claimed' \subseteq Claimed
  <2>1. CASE GetSession(c)
    BY <2>1 DEF GetSession, Return
  <2>2. CASE CallReturns(c)
    BY <2>2 DEF CallReturns, Return
  <2>3. CASE EvictStale(c)
    BY <2>3 DEF EvictStale, Return, Drop
  <2>4. QED
    BY <1>5, <2>1, <2>2, <2>3 DEF UseStep
<1>6. ASSUME NEW a \in Agent, RemoveStep(a)
      PROVE  Claimed' \subseteq Claimed
  <2>1. CASE SyncSessionFiles(a)
    BY <2>1 DEF SyncSessionFiles
  <2>2. CASE Remove(a)
    BY <2>2 DEF Remove, Return, Drop
  <2>3. CASE Delete(a)
    BY <2>3 DEF Delete, Return
  <2>4. QED
    BY <1>6, <2>1, <2>2, <2>3 DEF RemoveStep
<1>7. ASSUME NEW r \in Reaper, ReaperStep(r)
      PROVE  Claimed' \subseteq Claimed
  BY <1>7 DEF ReaperStep, Collect, NextKey, LoopEnds
<1>8. ASSUME NEW s \in Sandbox, BecomeIdle(s) \/ Die(s)
      PROVE  Claimed' \subseteq Claimed
  BY <1>8 DEF BecomeIdle, Die, local
<1>9. QED
  BY <1>1, <1>2, <1>3, <1>4, <1>5, <1>6, <1>7, <1>8 DEF Next

\* When it does, the claims that are not cached are those of the requests.
LEMMA MissClaimsWithinBound ==
  ASSUME TInv, TInv', CInv, NEW c \in Caller, LookupMiss(c)
  PROVE  CInv'
<1> DEFINE Asked == {req[d] : d \in Caller}
<1>1. IsFiniteSet(Cached) /\ Cardinality(Cached) <= MaxSessionSandboxes - 1
  <2>1. IsFiniteSet(Cached)
    BY FS_Subset DEF CInv, Claimed
  <2>2. QED
    BY <2>1, FS_CardinalityType, CapacityPositive DEF LookupMiss
<1>2. IsFiniteSet(Asked) /\ Cardinality(Asked) <= Cardinality(Caller)
  <2> DEFINE ask == [d \in Caller |-> req[d]]
  <2>1. ask \in Surjection(Caller, Asked)
    BY DEF Surjection
  <2>2. QED
    BY <2>1, CallersFinite, FS_Surjection
<1>3. IsFiniteSet(Cached \cup Asked) /\ Cardinality(Cached \cup Asked) <= ClaimBound
  <2>1. /\ IsFiniteSet(Cached \cup Asked)
        /\ Cardinality(Cached \cup Asked)
             = Cardinality(Cached) + Cardinality(Asked) - Cardinality(Cached \cap Asked)
    BY <1>1, <1>2, FS_Union
  <2>2. Cardinality(Cached \cap Asked) \in Nat
    BY <1>1, FS_Intersection, FS_CardinalityType
  <2>3. Cardinality(Cached) \in Nat /\ Cardinality(Asked) \in Nat /\ Cardinality(Caller) \in Nat
    BY <1>1, <1>2, CallersFinite, FS_CardinalityType
  <2>4. QED
    BY <1>1, <1>2, <2>1, <2>2, <2>3, CapacityPositive DEF ClaimBound
<1>4. Claimed' \subseteq Cached \cup Asked
  BY DEF LookupMiss, Claimed, Claimants, Cached
<1>5. QED
  <2>1. IsFiniteSet(Claimed') /\ Cardinality(Claimed') <= Cardinality(Cached \cup Asked)
    BY <1>3, <1>4, FS_Subset
  <2>2. Cardinality(Claimed') \in Nat /\ Cardinality(Cached \cup Asked) \in Nat
    BY <1>3, <2>1, FS_CardinalityType
  <2>3. QED
    BY <1>3, <2>1, <2>2, BoundIsNat DEF CInv, ClaimBound

\* Every step preserves CInv.
LEMMA CInvStep == TInv /\ TInv' /\ CInv /\ [Next]_vars => CInv'
<1> SUFFICES ASSUME TInv, TInv', CInv, [Next]_vars PROVE CInv'
  OBVIOUS
<1>1. CASE \E c \in Caller : LookupMiss(c)
  BY <1>1, MissClaimsWithinBound
<1>2. CASE \A c \in Caller : ~LookupMiss(c)
  <2>1. Claimed' \subseteq Claimed
    BY <1>2, OnlyMissClaims
  <2>2. IsFiniteSet(Claimed') /\ Cardinality(Claimed') <= Cardinality(Claimed)
    BY <2>1, FS_Subset DEF CInv
  <2>3. Cardinality(Claimed') \in Nat /\ Cardinality(Claimed) \in Nat
    BY <2>2, FS_CardinalityType DEF CInv
  <2>4. QED
    BY <2>2, <2>3, BoundIsNat DEF CInv, ClaimBound
<1>3. QED
  BY <1>1, <1>2

\* However many sessions compete, the map overshoots the limit by less than
\* the number of concurrent requests.
THEOREM OvershootBounded == Spec => []CapacityOvershootBounded
<1>1. Init => TInv /\ CInv
  <2> SUFFICES ASSUME Init PROVE CInv
    BY TInvInit
  <2>1. Claimed = {}
    BY Distinct DEF Init, Claimed, Claimants, Claiming, Cached
  <2>2. QED
    BY <2>1, FS_EmptySet, BoundIsNat DEF CInv
<1>2. TInv /\ CInv /\ [Next]_vars => (TInv /\ CInv)'
  BY TInvStep, CInvStep
<1>3. CInv => CapacityOvershootBounded
  <2> SUFFICES ASSUME CInv PROVE CapacityOvershootBounded
    OBVIOUS
  <2>1. Cached \subseteq Claimed
    BY DEF Claimed
  <2>2. IsFiniteSet(Cached) /\ Cardinality(Cached) <= Cardinality(Claimed)
    BY <2>1, FS_Subset DEF CInv
  <2>3. Cardinality(Cached) \in Nat /\ Cardinality(Claimed) \in Nat
    BY <2>2, FS_CardinalityType DEF CInv
  <2>4. QED
    BY <2>2, <2>3, BoundIsNat DEF CInv, CapacityOvershootBounded, ClaimBound
<1>4. QED
  BY <1>1, <1>2, <1>3, PTL DEF Spec

-----------------------------------------------------------------------------
(***************************************************************************)
(* Refinement: the manager implements the abstract pool.                   *)
(***************************************************************************)

RInv == FInv /\ OInv

AllStages == [s \in Sandbox |-> Stage(s)]

\* Every step preserves RInv.
LEMMA RInvStep == TInv /\ TInv' /\ RInv /\ [Next]_vars => RInv'
BY FInvStep, OInvStep DEF RInv

\* A step that changes the stage of one sandbox changes that function only.
LEMMA OneStageChanges ==
  ASSUME NEW s \in Sandbox, NEW g, Stage(s)' = g,
         \A t \in Sandbox \ {s} : Stage(t)' = Stage(t)
  PROVE  AllStages' = [AllStages EXCEPT ![s] = g]
BY DEF AllStages

\* A sandbox is being created by one goroutine, and for an empty key.
LEMMA CreatorIsAlone ==
  ASSUME TInv, RInv, NEW c \in Caller, pc[c] \in {"ready", "insert"}
  PROVE  /\ held[c] \in Sandbox
         /\ ~Cache(held[c])
         /\ \A d \in Caller : pc[d] \in {"ready", "insert"} /\ held[d] = held[c] => d = c
         /\ remote[held[c]] # "unborn"
<1> USE Distinct DEF TInv, TypeOK, LocalsOK, Resting, Holding, EmptyHanded, RInv, FInv, OInv,
           LeadersRegistered, Leading, InsertNeverOverwrites, Serving, Cache
<1>1. held[c] \in Sandbox /\ req[c] \in Key /\ owner[held[c]] = req[c]
  OBVIOUS
<1>2. ~Cache(held[c])
  BY <1>1
<1>3. \A d \in Caller : pc[d] \in {"ready", "insert"} /\ held[d] = held[c] => d = c
  BY <1>1
<1>4. QED
  BY <1>1, <1>2, <1>3

\* A sandbox starts when OpenSandbox creates it, unless its id is lost.
LEMMA ProvisionAsks ==
  ASSUME TInv, RInv, NEW c \in Caller, NEW s \in Sandbox, Provision(c, s)
  PROVE  Pool!Ask(req[c], s)
<1> USE Distinct DEF TInv, TypeOK, LocalsOK, Resting, Holding, EmptyHanded, RInv, FInv, OInv,
           LeadersRegistered, Leading, InsertNeverOverwrites, Serving,
           Provision, Goto, Cache, Creating
<1>1. req[c] \in Key /\ ~Cache(s) /\ ~Creating(s) /\ remote[s] = "unborn"
  OBVIOUS
<1>2. \A t \in Sandbox : owner[t] = req[c] => ~Cache(t) /\ ~Creating(t)
  OBVIOUS
<1>3. /\ \A t \in Sandbox \ {s} : Creating(t)' = Creating(t)
      /\ \A t \in Sandbox : Cache(t)' = Cache(t)
      /\ remote'[s] = "live"
      /\ \A t \in Sandbox \ {s} : remote'[t] = remote[t]
      /\ owner' = [owner EXCEPT ![s] = req[c]]
  OBVIOUS
<1> HIDE DEF Cache, Creating
<1>4. Stage(s) = "free" /\ Stage(s)' \in {"starting", "retired"}
  BY <1>1, <1>3 DEF Stage
<1>5. \A t \in Sandbox \ {s} : Stage(t)' = Stage(t)
  BY <1>3 DEF Stage
<1>6. AllStages' = [AllStages EXCEPT ![s] = Stage(s)']
  BY <1>5, OneStageChanges
<1>7. ~Pool!Busy(req[c])
  BY <1>2 DEF Pool!Busy, Stage
<1>8. QED
  BY <1>1, <1>3, <1>4, <1>6, <1>7 DEF Pool!Ask, AllStages

\* It serves once it is inserted.
LEMMA InsertServes ==
  ASSUME TInv, RInv, NEW c \in Caller, NEW s \in Sandbox, held[c] = s, Insert(c)
  PROVE  Pool!Serve(s)
<1>1. Stage(s) = "starting"
  BY CreatorIsAlone DEF Insert, Stage, Creating
<1>2. /\ \A t \in Sandbox \ {s} : Cache(t)' = Cache(t) /\ Creating(t)' = Creating(t)
      /\ Cache(s)'
      /\ UNCHANGED <<remote, owner>>
  BY Distinct DEF TInv, TypeOK, LocalsOK, Resting, RInv, FInv, InsertNeverOverwrites,
     Insert, Goto, Cache, Creating
<1>3. Stage(s)' = "serving" /\ \A t \in Sandbox \ {s} : Stage(t)' = Stage(t)
  BY <1>2 DEF Stage
<1>4. AllStages' = [AllStages EXCEPT ![s] = "serving"]
  BY <1>3, OneStageChanges
<1>5. QED
  BY <1>1, <1>2, <1>4 DEF Pool!Serve, AllStages

\* A step that drops the entry of a key retires the sandbox cached there.
LEMMA DropRetires ==
  ASSUME TInv, TInv', RInv, NEW k \in Key, NEW s \in Sandbox, sessions[k] = s,
         sessions' = [sessions EXCEPT ![k] = None],
         \A t \in Sandbox : Creating(t)' = Creating(t),
         UNCHANGED <<remote, owner>>
  PROVE  Pool!Retire(s)
<1>1. Cache(s) /\ Stage(s) = "serving"
  BY DEF Cache, Stage
<1>2. ~Creating(s)
  BY <1>1, CreatorIsAlone DEF Creating
<1>3. remote[s] # "unborn" /\ \A j \in Key : sessions[j] = s => j = k
  BY Distinct DEF RInv, OInv
<1>4. ~Cache(s)' /\ \A t \in Sandbox \ {s} : Cache(t)' = Cache(t)
  BY <1>3, Distinct DEF TInv, TypeOK, Cache
<1>5. Stage(s)' = "retired" /\ \A t \in Sandbox \ {s} : Stage(t)' = Stage(t)
  BY <1>2, <1>3, <1>4 DEF Stage
<1>6. AllStages' = [AllStages EXCEPT ![s] = "retired"]
  BY <1>5, OneStageChanges
<1>7. QED
  BY <1>1, <1>6 DEF Pool!Retire, AllStages

\* So does a creation that gives up.
LEMMA ReadyFailRetires ==
  ASSUME TInv, RInv, NEW c \in Caller, NEW s \in Sandbox, held[c] = s, ReadyFail(c)
  PROVE  Pool!Retire(s)
<1>1. Stage(s) = "starting" /\ ~Cache(s) /\ remote[s] # "unborn"
  BY CreatorIsAlone DEF ReadyFail, Stage, Creating
<1>2. ~Creating(s)' /\ \A t \in Sandbox \ {s} : Creating(t)' = Creating(t)
  BY CreatorIsAlone, Distinct DEF TInv, TypeOK, ReadyFail, Goto, Creating
<1>3. /\ UNCHANGED <<sessions, owner>>
      /\ remote'[s] # "unborn"
      /\ \A t \in Sandbox \ {s} : remote'[t] = remote[t]
  BY <1>1 DEF TInv, TypeOK, ReadyFail, DeleteSandbox
<1>4. \A t \in Sandbox : Cache(t)' = Cache(t)
  BY <1>3 DEF Cache
<1>5. Stage(s)' = "retired" /\ \A t \in Sandbox \ {s} : Stage(t)' = Stage(t)
  BY <1>1, <1>2, <1>3, <1>4 DEF Stage
<1>6. AllStages' = [AllStages EXCEPT ![s] = "retired"]
  BY <1>5, OneStageChanges
<1>7. QED
  BY <1>1, <1>3, <1>6 DEF Pool!Retire, AllStages

\* Every other step leaves the stages alone.
LEMMA StageFrame ==
  ASSUME TInv, TInv', UNCHANGED <<sessions, owner>>,
         \A s \in Sandbox : Creating(s)' = Creating(s),
         \A s \in Sandbox : remote'[s] = "unborn" <=> remote[s] = "unborn"
  PROVE  UNCHANGED Pool!poolVars
BY DEF Pool!poolVars, Stage, Cache

\* Steps of a request that is not creating anything.
LEMMA CallerSimulates ==
  ASSUME TInv, TInv', RInv, NEW c \in Caller,
         \/ \E k \in Key : Arrive(c, k)
         \/ LookupHit(c) \/ LookupMiss(c) \/ LookupFull(c)
         \/ PingOk(c) \/ PingFail(c) \/ Evict(c) \/ DoLead(c) \/ DoJoin(c)
         \/ UseStep(c)
  PROVE  [Pool!PoolNext]_(Pool!poolVars)
<1> USE Distinct DEF TInv, TypeOK, LocalsOK, Resting, Holding, EmptyHanded, Goto
<1>1. CASE Evict(c)
  <2>1. \A s \in Sandbox : Creating(s)' = Creating(s)
    BY <1>1 DEF Evict, Creating
  <2>2. CASE sessions[req[c]] = None
    BY <1>1, <2>1, <2>2, StageFrame DEF Evict
  <2>3. CASE sessions[req[c]] # None
    BY <1>1, <2>1, <2>3, DropRetires DEF Evict, Drop, Pool!PoolNext
  <2>4. QED
    BY <2>2, <2>3
<1>2. CASE EvictStale(c)
  <2>1. \A s \in Sandbox : Creating(s)' = Creating(s)
    BY <1>2 DEF EvictStale, Return, Creating
  <2>2. CASE sessions[req[c]] # held[c]
    BY <1>2, <2>1, <2>2, StageFrame DEF EvictStale
  <2>3. CASE sessions[req[c]] = held[c]
    BY <1>2, <2>1, <2>3, DropRetires DEF EvictStale, Drop, Pool!PoolNext
  <2>4. QED
    BY <2>2, <2>3
<1>3. CASE ~Evict(c) /\ ~EvictStale(c)
  <2>1. UNCHANGED <<sessions, owner, remote>>
    BY <1>3 DEF Arrive, LookupHit, LookupMiss, LookupFull, PingOk, PingFail, DoLead,
       DoJoin, UseStep, GetSession, CallReturns
  <2>2. \A s \in Sandbox : Creating(s)' = Creating(s)
    BY <1>3 DEF Creating, Arrive, LookupHit, LookupMiss, LookupFull, PingOk, PingFail,
       DoLead, DoJoin, UseStep, GetSession, CallReturns, Return
  <2>3. QED
    BY <2>1, <2>2, StageFrame
<1>4. QED
  BY <1>1, <1>2, <1>3

\* Steps of a creation.
LEMMA CreationSimulates ==
  ASSUME TInv, TInv', RInv, NEW c \in Caller, CreateStep(c)
  PROVE  [Pool!PoolNext]_(Pool!poolVars)
<1> USE Distinct DEF TInv, TypeOK, LocalsOK, Resting, Holding, EmptyHanded, Goto
<1>1. ASSUME NEW s \in Sandbox, Provision(c, s)
      PROVE  [Pool!PoolNext]_(Pool!poolVars)
  BY <1>1, ProvisionAsks DEF Provision, Pool!PoolNext
<1>2. CASE Insert(c)
  BY <1>2, InsertServes DEF Insert, Pool!PoolNext
<1>3. CASE ReadyFail(c)
  BY <1>3, ReadyFailRetires DEF ReadyFail, Pool!PoolNext
<1>4. CASE Recheck(c) \/ ProvisionFail(c) \/ Ready(c) \/ Finish(c)
  <2>1. UNCHANGED <<sessions, owner, remote>>
    BY <1>4 DEF Recheck, ProvisionFail, Ready, Finish
  <2>2. \A s \in Sandbox : Creating(s)' = Creating(s)
    BY <1>4 DEF Creating, Recheck, ProvisionFail, Ready, Finish, Passengers
  <2>3. QED
    BY <2>1, <2>2, StageFrame
<1>5. QED
  BY <1>1, <1>2, <1>3, <1>4 DEF CreateStep

\* Steps that remove sandboxes, and the environment's.
LEMMA OthersSimulate ==
  ASSUME TInv, TInv', RInv,
         \/ \E a \in Agent : RemoveStep(a)
         \/ \E r \in Reaper : ReaperStep(r)
         \/ \E s \in Sandbox : BecomeIdle(s) \/ Die(s)
  PROVE  [Pool!PoolNext]_(Pool!poolVars)
<1> USE Distinct DEF TInv, TypeOK, LocalsOK, Resting, Holding, EmptyHanded, Goto
<1>1. ASSUME NEW a \in Agent, Remove(a)
      PROVE  [Pool!PoolNext]_(Pool!poolVars)
  <2>1. \A s \in Sandbox : Creating(s)' = Creating(s)
    BY <1>1 DEF Remove, Return, Creating
  <2>2. CASE sessions[req[a]] = None
    BY <1>1, <2>1, <2>2, StageFrame DEF Remove
  <2>3. CASE sessions[req[a]] # None
    BY <1>1, <2>1, <2>3, DropRetires DEF Remove, Drop, Pool!PoolNext
  <2>4. QED
    BY <2>2, <2>3
<1>2. ASSUME NEW a \in Agent, SyncSessionFiles(a) \/ Delete(a)
      PROVE  [Pool!PoolNext]_(Pool!poolVars)
  <2>1. UNCHANGED <<sessions, owner>>
    BY <1>2 DEF SyncSessionFiles, Delete
  <2>2. \A s \in Sandbox : Creating(s)' = Creating(s)
    BY <1>2 DEF Creating, SyncSessionFiles, Delete, Return
  <2>3. \A s \in Sandbox : remote'[s] = "unborn" <=> remote[s] = "unborn"
    BY <1>2 DEF SyncSessionFiles, Delete, DeleteSandbox, RInv, OInv
  <2>4. QED
    BY <2>1, <2>2, <2>3, StageFrame
<1>3. ASSUME NEW r \in Reaper, ReaperStep(r)
      PROVE  [Pool!PoolNext]_(Pool!poolVars)
  <2>1. UNCHANGED <<sessions, owner, remote>>
    BY <1>3 DEF ReaperStep, Collect, NextKey, LoopEnds
  <2>2. \A s \in Sandbox : Creating(s)' = Creating(s)
    BY <1>3 DEF Creating, ReaperStep, Collect, NextKey, LoopEnds
  <2>3. QED
    BY <2>1, <2>2, StageFrame
<1>4. ASSUME NEW s \in Sandbox, BecomeIdle(s) \/ Die(s)
      PROVE  [Pool!PoolNext]_(Pool!poolVars)
  <2>1. UNCHANGED <<sessions, owner>>
    BY <1>4 DEF BecomeIdle, Die
  <2>2. \A t \in Sandbox : Creating(t)' = Creating(t)
    BY <1>4 DEF Creating, BecomeIdle, Die, local
  <2>3. \A t \in Sandbox : remote'[t] = "unborn" <=> remote[t] = "unborn"
    BY <1>4 DEF BecomeIdle, Die
  <2>4. QED
    BY <2>1, <2>2, <2>3, StageFrame
<1>5. QED
  BY <1>1, <1>2, <1>3, <1>4 DEF RemoveStep

\* A session's sandboxes go one at a time, and a removed one never comes back.
THEOREM RefinesPool == Spec => ImplementsPoolSafety
<1>1. Init => TInv /\ RInv
  BY TInvInit, Distinct DEF Init, RInv, OInv, Serving, FInv, LeadersRegistered,
     InsertNeverOverwrites, Leading
<1>2. TInv /\ RInv /\ [Next]_vars => (TInv /\ RInv)'
  BY TInvStep, RInvStep
<1>3. Init => Pool!PoolInit
  <2> SUFFICES ASSUME Init PROVE Pool!PoolInit
    OBVIOUS
  <2>1. \A s \in Sandbox : Stage(s) = "free"
    BY Distinct DEF Init, Stage, Cache, Creating
  <2>2. QED
    BY <2>1 DEF Init, Pool!PoolInit
<1>4. TInv /\ TInv' /\ RInv /\ [Next]_vars => [Pool!PoolNext]_(Pool!poolVars)
  <2> SUFFICES ASSUME TInv, TInv', RInv, [Next]_vars
               PROVE  [Pool!PoolNext]_(Pool!poolVars)
    OBVIOUS
  <2>1. CASE UNCHANGED vars
    <3>1. \A s \in Sandbox : Creating(s)' = Creating(s)
      BY <2>1 DEF vars, Creating
    <3>2. QED
      BY <2>1, <3>1, StageFrame DEF vars
  <2>2. CASE Next
    BY <2>2, CallerSimulates, CreationSimulates, OthersSimulate DEF Next, GetOrCreateStep
  <2>3. QED
    BY <2>1, <2>2
<1>5. QED
  BY <1>1, <1>2, <1>3, <1>4, PTL DEF Spec, ImplementsPoolSafety, Pool!PoolSafety

=============================================================================
