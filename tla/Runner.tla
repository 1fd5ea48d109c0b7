------------------------------- MODULE Runner -------------------------------
(***************************************************************************)
(* One-shot executions of one skill version: Runner.Run                    *)
(* (internal/runner/runner.go) on every server instance, the clean-up of   *)
(* orphaned sandboxes at startup (internal/runner/cleanup.go), and the     *)
(* withdrawal, deletion and return of the version meanwhile.               *)
(*                                                                         *)
(* One step is one call to PostgreSQL, the object store or OpenSandbox, or *)
(* one channel operation.  The deferred calls of Run are steps of their    *)
(* own, last deferred first.                                               *)
(***************************************************************************)
EXTENDS Naturals, FiniteSets

CONSTANTS
  Run,                  \* executions; each makes at most one sandbox
  Server,               \* instances of skillbox-server, sharing all services
  MaxConcurrentExecs,   \* capacity of Runner.sem, per instance
  MaxCrashes,           \* bounds the crashes
  Faults,               \* services whose calls may fail: a subset of
                        \* {"db", "s3", "os"}
  None

ASSUME SlotsExist == MaxConcurrentExecs \in Nat \ {0}
ASSUME CrashesBounded == MaxCrashes \in Nat
ASSUME FaultNames == Faults \subseteq {"db", "s3", "os"}
ASSUME RunsFinite == IsFiniteSet(Run)
ASSUME NoneIsNoValue ==
  None \notin Run \cup Server \cup {"available", "withdrawn", "running", "failed",
                                    "success", "timeout"}

VARIABLES
  server,   \* what each instance is doing
  todo,     \* the sandboxes CleanupOrphans listed and has yet to delete
  sem,      \* len(Runner.sem) of each instance
  pc,       \* where each execution is
  at,       \* the instance that serves it
  over,     \* executions whose context is cancelled or timed out
  outcome,  \* result.Status
  record,   \* executions.status; None when there is no row
  filed,    \* executions with rows in sandbox.files
  sandbox,  \* OpenSandbox: "unborn", "live" or "gone"
  skill,    \* the version: "available", "withdrawn" (any other status), None
  archive,  \* whether its promoted archive exists
  erasing,  \* whether a DELETE of it is between the archive and the rows
  crashes,  \* how often an instance died
  left,     \* history: live sandboxes that no execution will delete any more
  stuck,    \* history: running records that no execution will finish any more
  barred    \* history: executions asked for since the version was last available,
            \* unless a deletion left its archive behind without a row

skillVars == <<skill, archive, erasing>>
serverVars == <<server, todo, crashes>>
vars == <<serverVars, sem, pc, at, over, outcome, record, filed, sandbox,
          skillVars, left, stuck, barred>>

PC == {"idle", "wait", "resolve", "gate", "record", "load", "create", "prepare",
       "command", "collect", "delete", "update", "release", "returned", "dead"}

TypeOK ==
  /\ server \in [Server -> {"down", "starting", "cleaning", "up"}]
  /\ todo \in [Server -> SUBSET Run]
  /\ sem \in [Server -> 0 .. MaxConcurrentExecs]
  /\ pc \in [Run -> PC]
  /\ at \in [Run -> Server \cup {None}]
  /\ over \subseteq Run
  /\ outcome \in [Run -> {None, "failed", "success", "timeout"}]
  /\ record \in [Run -> {None, "running", "failed", "success", "timeout"}]
  /\ filed \subseteq Run
  /\ sandbox \in [Run -> {"unborn", "live", "gone"}]
  /\ skill \in {"available", "withdrawn", None}
  /\ archive \in BOOLEAN /\ erasing \in BOOLEAN
  /\ crashes \in 0 .. MaxCrashes
  /\ left \cup stuck \cup barred \subseteq Run

\* The version was approved and promoted; nothing is running yet.
Init ==
  /\ server = [s \in Server |-> "down"]
  /\ todo = [s \in Server |-> {}]
  /\ sem = [s \in Server |-> 0]
  /\ pc = [r \in Run |-> "idle"]
  /\ at = [r \in Run |-> None]
  /\ over = {}
  /\ outcome = [r \in Run |-> None]
  /\ record = [r \in Run |-> None]
  /\ filed = {}
  /\ sandbox = [r \in Run |-> "unborn"]
  /\ skill = "available" /\ archive = TRUE /\ erasing = FALSE
  /\ crashes = 0
  /\ left = {} /\ stuck = {} /\ barred = {}

Goto(r, l) == pc' = [pc EXCEPT ![r] = l]

\* The executions of R end at l: their locals go out of scope.
Leave(R, l) ==
  /\ pc' = [r \in Run |-> IF r \in R THEN l ELSE pc[r]]
  /\ at' = [r \in Run |-> IF r \in R THEN None ELSE at[r]]
  /\ outcome' = [r \in Run |-> IF r \in R THEN None ELSE outcome[r]]
  /\ over' = over \ R
  /\ barred' = barred \ R

-----------------------------------------------------------------------------
\* Runner.Run.

\* POST /v1/executions at an instance that serves.
Arrive(r, s) ==
  /\ pc[r] = "idle"
  /\ server[s] = "up"
  /\ at' = [at EXCEPT ![r] = s]
  /\ barred' = IF skill = "withdrawn" THEN barred \cup {r} ELSE barred
  /\ Goto(r, "wait")
  /\ UNCHANGED <<serverVars, sem, over, outcome, record, filed, sandbox,
                 skillVars, left, stuck>>

\* The client disconnects, or the timeout of the execution expires.
ContextEnds(r) ==
  /\ pc[r] \in PC \ {"idle", "delete", "update", "release", "returned", "dead"}
  /\ over' = over \cup {r}
  /\ UNCHANGED <<serverVars, sem, pc, at, outcome, record, filed, sandbox,
                 skillVars, left, stuck, barred>>

\* The select on the semaphore: a slot ...
Acquire(r) ==
  /\ pc[r] = "wait"
  /\ sem[at[r]] < MaxConcurrentExecs
  /\ sem' = [sem EXCEPT ![at[r]] = @ + 1]
  /\ Goto(r, "resolve")
  /\ UNCHANGED <<serverVars, at, over, outcome, record, filed, sandbox,
                 skillVars, left, stuck, barred>>

\* ... or the end of the context.
GiveUp(r) ==
  /\ pc[r] = "wait"
  /\ r \in over
  /\ Leave({r}, "returned")
  /\ UNCHANGED <<serverVars, sem, record, filed, sandbox, skillVars, left, stuck>>

\* "latest" is the newest promoted archive; a request may also name the version.
Resolve(r) ==
  /\ pc[r] = "resolve"
  /\ \/ Goto(r, "gate")
     \/ /\ ~archive \/ r \in over \/ "s3" \in Faults
        /\ Goto(r, "release")
  /\ UNCHANGED <<serverVars, sem, at, over, outcome, record, filed, sandbox,
                 skillVars, left, stuck, barred>>

\* Mutant: only a missing version is refused.
GateOpen(r) ==
  /\ pc[r] = "gate"
  /\ Goto(r, "record")
  /\ UNCHANGED <<serverVars, sem, at, over, outcome, record, filed, sandbox,
                 skillVars, left, stuck, barred>>

\* Mutant: a refused execution returns without freeing its slot.
GateKeepsSlot(r) ==
  /\ pc[r] = "gate"
  /\ Goto(r, IF skill = "withdrawn" THEN "returned" ELSE "record")
  /\ UNCHANGED <<serverVars, sem, at, over, outcome, record, filed, sandbox,
                 skillVars, left, stuck, barred>>

\* The execution gate.  A version that is not available is refused; when the
\* status cannot be read, or there is no row, the execution goes on.
Gate(r) ==
  /\ pc[r] = "gate"
  /\ \/ /\ r \notin over
        /\ Goto(r, IF skill = "withdrawn" THEN "release" ELSE "record")
     \/ /\ r \in over \/ "db" \in Faults
        /\ Goto(r, "record")
  /\ UNCHANGED <<serverVars, sem, at, over, outcome, record, filed, sandbox,
                 skillVars, left, stuck, barred>>

\* CreateExecution: the row is inserted, or not, or it is and the answer is
\* lost because the context ends during the call.
CreateRecord(r) ==
  /\ pc[r] = "record"
  /\ \/ /\ r \notin over
        /\ record' = [record EXCEPT ![r] = "running"]
        /\ outcome' = [outcome EXCEPT ![r] = "failed"]
        /\ Goto(r, "load")
        /\ UNCHANGED <<over, stuck>>
     \/ /\ r \in over \/ "db" \in Faults
        /\ Goto(r, "release")
        /\ UNCHANGED <<over, outcome, record, stuck>>
     \/ /\ r \notin over
        /\ over' = over \cup {r}
        /\ record' = [record EXCEPT ![r] = "running"]
        /\ stuck' = stuck \cup {r}
        /\ Goto(r, "release")
        /\ UNCHANGED outcome
  /\ UNCHANGED <<serverVars, sem, at, filed, sandbox, skillVars, left, barred>>

\* Mutant: the deferred update of the record is registered too late.
LoadNoUpdate(r) ==
  /\ pc[r] = "load"
  /\ \E l \in {"create", "release"} : Goto(r, l)
  /\ UNCHANGED <<serverVars, sem, at, over, outcome, record, filed, sandbox,
                 skillVars, left, stuck, barred>>

\* LoadSkill and the checks of the image and the environment, any of which may
\* refuse the execution.
Load(r) ==
  /\ pc[r] = "load"
  /\ \/ /\ archive /\ r \notin over
        /\ Goto(r, "create")
     \/ Goto(r, "update")
  /\ UNCHANGED <<serverVars, sem, at, over, outcome, record, filed, sandbox,
                 skillVars, left, stuck, barred>>

\* CreateSandbox: it is created, or not, or it is and the answer is lost.
CreateSandbox(r) ==
  /\ pc[r] = "create"
  /\ \/ /\ r \notin over
        /\ sandbox' = [sandbox EXCEPT ![r] = "live"]
        /\ Goto(r, "prepare")
        /\ UNCHANGED left
     \/ /\ Goto(r, "update")
        /\ UNCHANGED <<sandbox, left>>
     \/ /\ r \notin over
        /\ sandbox' = [sandbox EXCEPT ![r] = "live"]
        /\ left' = left \cup {r}
        /\ Goto(r, "update")
  /\ UNCHANGED <<serverVars, sem, at, over, outcome, record, filed, skillVars,
                 stuck, barred>>

\* Mutant: the deferred deletion is registered after WaitReady.
PrepareNoDelete(r) ==
  /\ pc[r] = "prepare"
  /\ \/ r \notin over /\ Goto(r, "command")
     \/ Goto(r, "update")
  /\ UNCHANGED <<serverVars, sem, at, over, outcome, record, filed, sandbox,
                 skillVars, left, stuck, barred>>

\* WaitReady, DiscoverExecD, pollExecD and the uploads.
Prepare(r) ==
  /\ pc[r] = "prepare"
  /\ \/ /\ r \notin over /\ sandbox[r] = "live"
        /\ Goto(r, "command")
     \/ Goto(r, "delete")
  /\ UNCHANGED <<serverVars, sem, at, over, outcome, record, filed, sandbox,
                 skillVars, left, stuck, barred>>

\* RunCommand: an error counts as a timeout when the context is over by then,
\* as a failure otherwise (the HTTP client of the sandbox gives up after 30s).
Command(r) ==
  /\ pc[r] = "command"
  /\ \/ /\ r \notin over /\ sandbox[r] = "live"
        /\ Goto(r, "collect")
        /\ UNCHANGED outcome
     \/ /\ outcome' = [outcome EXCEPT ![r] = IF r \in over THEN "timeout" ELSE "failed"]
        /\ Goto(r, "delete")
  /\ UNCHANGED <<serverVars, sem, at, over, record, filed, sandbox, skillVars,
                 left, stuck, barred>>

\* Output, artifacts and session files, whose errors are only logged; a file
\* row needs the row of its execution.  The exit code decides.
Collect(r) ==
  /\ pc[r] = "collect"
  /\ \E status \in {"success", "failed"} : outcome' = [outcome EXCEPT ![r] = status]
  /\ \/ filed' = IF r \notin over /\ record[r] # None THEN filed \cup {r} ELSE filed
     \/ UNCHANGED filed
  /\ Goto(r, "delete")
  /\ UNCHANGED <<serverVars, sem, at, over, record, sandbox, skillVars, left,
                 stuck, barred>>

\* Mutant: the slot is given back before the sandbox is deleted.
DeleteAfterRelease(r) ==
  /\ pc[r] = "delete"
  /\ sem' = [sem EXCEPT ![at[r]] = @ - 1]
  /\ Goto(r, "update")
  /\ UNCHANGED <<serverVars, at, over, outcome, record, filed, sandbox,
                 skillVars, left, stuck, barred>>

\* The deferred DeleteSandbox.
DeleteSandbox(r) ==
  /\ pc[r] = "delete"
  /\ \/ /\ sandbox' = [sandbox EXCEPT ![r] = "gone"]
        /\ UNCHANGED left
     \/ /\ "os" \in Faults
        /\ left' = left \cup {x \in {r} : sandbox[x] = "live"}
        /\ UNCHANGED sandbox
  /\ Goto(r, "update")
  /\ UNCHANGED <<serverVars, sem, at, over, outcome, record, filed, skillVars,
                 stuck, barred>>

\* The deferred UpdateExecution, of a row that still says running.
UpdateRecord(r) ==
  /\ pc[r] = "update"
  /\ \/ /\ record' = [record EXCEPT ![r] = IF @ = "running" THEN outcome[r] ELSE @]
        /\ UNCHANGED stuck
     \/ /\ "db" \in Faults
        /\ stuck' = stuck \cup {x \in {r} : record[x] = "running"}
        /\ UNCHANGED record
  /\ Goto(r, "release")
  /\ UNCHANGED <<serverVars, sem, at, over, outcome, filed, sandbox, skillVars,
                 left, barred>>

Release(r) ==
  /\ pc[r] = "release"
  /\ sem' = [sem EXCEPT ![at[r]] = @ - 1]
  /\ Leave({r}, "returned")
  /\ UNCHANGED <<serverVars, record, filed, sandbox, skillVars, left, stuck>>

-----------------------------------------------------------------------------
\* A server instance: startup clean-up, serving, death.

Boot(s) ==
  /\ server[s] = "down"
  /\ server' = [server EXCEPT ![s] = "starting"]
  /\ UNCHANGED <<todo, crashes, sem, pc, at, over, outcome, record, filed,
                 sandbox, skillVars, left, stuck, barred>>

\* Mutant: the sandboxes are looked up under the wrong label.
ListNothing(s) ==
  /\ server[s] = "starting"
  /\ todo' = [todo EXCEPT ![s] = {}]
  /\ server' = [server EXCEPT ![s] = "cleaning"]
  /\ UNCHANGED <<crashes, sem, pc, at, over, outcome, record, filed, sandbox,
                 skillVars, left, stuck, barred>>

\* CleanupOrphans lists the sandboxes labelled managed-by=skillbox, whichever
\* instance made them; when that fails the server starts all the same.
ListOrphans(s) ==
  /\ server[s] = "starting"
  /\ \/ todo' = [todo EXCEPT ![s] = {r \in Run : sandbox[r] = "live"}]
     \/ "os" \in Faults /\ UNCHANGED todo
  /\ server' = [server EXCEPT ![s] = "cleaning"]
  /\ UNCHANGED <<crashes, sem, pc, at, over, outcome, record, filed, sandbox,
                 skillVars, left, stuck, barred>>

\* It deletes them one after the other; an error is logged.
DeleteOrphan(s, r) ==
  /\ server[s] = "cleaning"
  /\ r \in todo[s]
  /\ todo' = [todo EXCEPT ![s] = @ \ {r}]
  /\ \/ /\ sandbox' = [sandbox EXCEPT ![r] = "gone"]
        /\ left' = left \ {r}
     \/ /\ "os" \in Faults
        /\ UNCHANGED <<sandbox, left>>
  /\ UNCHANGED <<server, crashes, sem, pc, at, over, outcome, record, filed,
                 skillVars, stuck, barred>>

Serve(s) ==
  /\ server[s] = "cleaning"
  /\ todo[s] = {}
  /\ server' = [server EXCEPT ![s] = "up"]
  /\ UNCHANGED <<todo, crashes, sem, pc, at, over, outcome, record, filed,
                 sandbox, skillVars, left, stuck, barred>>

\* The instance crashes, or stops before its executions are over: the shutdown
\* waits 30 seconds, an execution may take minutes.
Crash(s) ==
  LET lives == {r \in Run : at[r] = s} IN
  /\ server[s] # "down"
  /\ crashes < MaxCrashes
  /\ crashes' = crashes + 1
  /\ server' = [server EXCEPT ![s] = "down"]
  /\ todo' = [todo EXCEPT ![s] = {}]
  /\ sem' = [sem EXCEPT ![s] = 0]
  /\ Leave(lives, "dead")
  /\ left' = left \cup {r \in lives : sandbox[r] = "live"}
  /\ stuck' = stuck \cup {r \in lives : record[r] = "running"}
  /\ UNCHANGED <<record, filed, sandbox, skillVars>>

-----------------------------------------------------------------------------
\* The version, in the hands of reviewers and of its owner (module
\* SkillLifecycle has the details).

\* Declined, or uploaded again: the promoted archive stays.
Withdraw ==
  /\ skill = "available"
  /\ skill' = "withdrawn"
  /\ UNCHANGED <<serverVars, sem, pc, at, over, outcome, record, filed, sandbox,
                 archive, erasing, left, stuck, barred>>

\* Uploaded after a deletion.
Upload ==
  /\ skill = None
  /\ skill' = "withdrawn"
  /\ UNCHANGED <<serverVars, sem, pc, at, over, outcome, record, filed, sandbox,
                 archive, erasing, left, stuck, barred>>

\* Scanned clean or approved, and promoted.
Publish ==
  /\ skill = "withdrawn"
  /\ skill' = "available"
  /\ archive' = TRUE
  /\ barred' = {}
  /\ UNCHANGED <<serverVars, sem, pc, at, over, outcome, record, filed, sandbox,
                 erasing, left, stuck>>

\* DELETE of the version: first the archive ...
EraseArchive ==
  /\ skill # None /\ ~erasing
  /\ archive' = FALSE
  /\ erasing' = TRUE
  /\ UNCHANGED <<serverVars, sem, pc, at, over, outcome, record, filed, sandbox,
                 skill, left, stuck, barred>>

\* ... then its executions, running or not, and its row, in one transaction.
\* A file row refers to its execution without a cascade, so the transaction
\* fails when an execution has files; the handler drops the error.
DeleteRows ==
  /\ erasing
  /\ erasing' = FALSE
  /\ \/ /\ filed = {}
        /\ record' = [r \in Run |-> None]
        /\ skill' = None
        /\ stuck' = {}
        /\ barred' = IF archive THEN {} ELSE barred
     \/ /\ filed # {} \/ "db" \in Faults
        /\ UNCHANGED <<record, skill, stuck, barred>>
  /\ UNCHANGED <<serverVars, sem, pc, at, over, outcome, filed, sandbox, archive,
                 left>>

\* The sandbox reaches its own expiry, or its container dies.
Expire(r) ==
  /\ sandbox[r] = "live"
  /\ sandbox' = [sandbox EXCEPT ![r] = "gone"]
  /\ left' = left \ {r}
  /\ UNCHANGED <<serverVars, sem, pc, at, over, outcome, record, filed,
                 skillVars, stuck, barred>>

-----------------------------------------------------------------------------
Admit(r) == Acquire(r) \/ GiveUp(r) \/ Resolve(r) \/ Gate(r) \/ CreateRecord(r)

Execute(r) == Load(r) \/ CreateSandbox(r) \/ Prepare(r) \/ Command(r) \/ Collect(r)

Defers(r) == DeleteSandbox(r) \/ UpdateRecord(r) \/ Release(r)

RunStep(r) == Admit(r) \/ Execute(r) \/ Defers(r)

ServerStep(s) ==
  \/ Boot(s) \/ ListOrphans(s) \/ Serve(s)
  \/ \E r \in Run : DeleteOrphan(s, r)

SkillStep == Withdraw \/ Upload \/ Publish \/ EraseArchive \/ DeleteRows

Next ==
  \/ \E r \in Run : \/ \E s \in Server : Arrive(r, s)
                   \/ ContextEnds(r)
                   \/ RunStep(r)
                   \/ Expire(r)
  \/ \E s \in Server : ServerStep(s) \/ Crash(s)
  \/ SkillStep

\* Every call has a deadline and the waiters of a channel are served in order,
\* so an execution moves on; the platform restarts a dead instance.  Nobody has
\* to send a request, withdraw a version, or let a sandbox expire.
Fairness ==
  /\ \A r \in Run : WF_vars(RunStep(r))
  /\ \A s \in Server : WF_vars(ServerStep(s))

Spec == Init /\ [][Next]_vars

FairSpec == Spec /\ Fairness

-----------------------------------------------------------------------------
(***************************************************************************)
(* Properties.                                                             *)
(***************************************************************************)

\* A live sandbox has an execution that will delete it, unless its id or its
\* deletion was lost or its server died: no early return of Run leaks one.
LiveSandboxIsOwned ==
  \A r \in Run :
    sandbox[r] = "live" =>
      pc[r] \in {"prepare", "command", "collect", "delete"} \/ r \in left

\* The semaphore bounds the sandboxes and not only the calls: a slot is given
\* back after the sandbox is deleted, so an instance never has more sandboxes
\* alive than slots, apart from those it lost.
SandboxesBounded ==
  \A s \in Server :
    Cardinality({r \in Run \ left : at[r] = s /\ sandbox[r] = "live"})
      <= MaxConcurrentExecs

\* "Ensure we always update the execution record in the database, even if we
\* return early" (runner.go): a record says running only while its execution
\* runs, unless the insert's answer or the update was lost or the server died.
RunningIsTracked ==
  \A r \in Run :
    record[r] = "running" =>
      \/ pc[r] \in {"load", "create", "prepare", "command", "collect", "delete", "update"}
      \/ r \in stuck

\* Whoever reads a finished record can rely on the sandbox being gone, unless
\* it was lost: the record is written after the sandbox is deleted.
FinishedHasNoSandbox ==
  \A r \in Run :
    record[r] \in {"success", "failed", "timeout"} =>
      sandbox[r] # "live" \/ r \in left

\* The gate "is fail-closed" (runner.go): an execution asked for while the
\* version is withdrawn does not get to its sandbox unless the version became
\* available in between, not even across a deletion of the version (unless it was
\* published while being deleted, which leaves an archive without a row).
WithdrawnNeverRuns ==
  \A r \in Run :
    pc[r] \in {"prepare", "command", "collect"} => r \notin barred

\* Every execution is answered unless its server dies: no path keeps a slot.
RunsReturn ==
  \A r \in Run : pc[r] = "wait" ~> pc[r] \in {"returned", "dead"}

\* The sandbox of an execution whose server died is deleted when an instance
\* starts, without waiting for the sandbox's own expiry.
OrphansCollected ==
  \A r \in Run : pc[r] = "dead" /\ sandbox[r] = "live" ~> sandbox[r] # "live"
=============================================================================
