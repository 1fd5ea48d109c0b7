--------------------------- MODULE SkillLifecycle ---------------------------
(***************************************************************************)
(* The versions of one skill of one tenant: the intake handlers            *)
(* (internal/api/handlers), the background scan worker                     *)
(* (internal/scanner/worker.go), the admin's review, the active-version    *)
(* pointer and deletion, over the metadata rows of internal/store and the  *)
(* archives of internal/registry.                                          *)
(*                                                                         *)
(* One step is one SQL statement or transaction, one object-store call or  *)
(* one channel operation; what happens between two of them is anybody's.   *)
(* Each may fail when its service is in Faults, and the server may crash   *)
(* and restart between any two.                                            *)
(***************************************************************************)
EXTENDS Naturals, Sequences, FiniteSets

CONSTANTS
  Request,      \* goroutines serving HTTP requests
  Content,      \* archives clients send or build by an edit (bounds intakes)
  MaxVersion,   \* versions are 1 .. MaxVersion (bounds the version numbers)
  QueueCap,     \* capacity of Worker.scanCh
  MaxCrashes,   \* bounds the crashes
  Faults,       \* services whose calls may fail: a subset of {"db", "s3"}
  Ops,          \* kinds of request that arrive
  None

Version == 1 .. MaxVersion
Worker == "worker"
Goroutine == Request \cup {Worker}
ReviewAction == {"approve", "decline", "decline_forever", "reopen"}
Status == {"pending", "scanning", "review", "available", "declined", "quarantined"}

ASSUME VersionsExist == MaxVersion \in Nat \ {0}
ASSUME QueueHolds == QueueCap \in Nat \ {0}
ASSUME CrashesBounded == MaxCrashes \in Nat
ASSUME FaultNames == Faults \subseteq {"db", "s3"}
ASSUME OpNames ==
  Ops \subseteq ReviewAction \cup {"upload", "edit", "activate", "delete", "delete_all"}
ASSUME WorkerIsNoRequest == Worker \notin Request
ASSUME NoneIsFresh ==
  /\ None \notin Version /\ None \notin Content /\ None \notin Status
  /\ None \notin Goroutine
ASSUME ArchivesFinite == IsFiniteSet(Content)

VARIABLES
  status,    \* skills.status of each version; None when there is no row
  uploaded,  \* skills.uploaded_at, as a counter
  active,    \* the version with is_active; the unique index allows one
  blocked,   \* tenant_blocked_skills: the versions declined forever
  pending,   \* object store: the archive under .pending
  main,      \* object store: the promoted archive, the one that is run
  queue,     \* Worker.scanCh
  pc,        \* where each goroutine is
  ver,       \* the version it works on
  arc,       \* the archive it read or received
  act,       \* what it was asked for, or the worker's verdict
  todo,      \* versions a deletion still has to erase
  crashes,   \* how often the server crashed
  made,      \* history: archives clients have sent
  cleared,   \* history: archives that passed a scan or were approved
  contested, \* history: versions submitted again while being processed
  hollow,    \* history: versions whose approval or deletion did not finish, or
             \* whose deletion overlapped other work on them
  dropped,   \* history: versions whose job met a full channel
  lost       \* history: versions whose job died of a failed status write

rows == <<status, uploaded, active, blocked>>
objects == <<pending, main>>
locals == <<pc, ver, arc, act, todo>>
history == <<made, cleared, contested, hollow, dropped, lost>>
vars == <<rows, objects, queue, locals, crashes, history>>

PC == {"idle", "submit", "upsert", "enqueue", "update", "clear", "repoint",
       "block", "copy", "unpend", "activate", "commit", "erase",
       "erase_pending",
       "off", "recover", "wait", "mark", "download", "scan", "settle", "discard"}

Verdict == {"failed", "blocked", "review", "clear"}

LocalsOK ==
  /\ pc \in [Goroutine -> PC]
  /\ ver \in [Goroutine -> Version \cup {None}]
  /\ arc \in [Goroutine -> Content \cup {None}]
  /\ act \in [Goroutine -> Ops \cup Verdict \cup {None}]

DataOK ==
  /\ status \in [Version -> Status \cup {None}]
  /\ uploaded \in [Version -> Nat]
  /\ active \in Version \cup {None}
  /\ blocked \subseteq Version
  /\ pending \in [Version -> Content \cup {None}]
  /\ main \in [Version -> Content \cup {None}]
  /\ queue \in Seq(Version) /\ Len(queue) <= QueueCap
  /\ todo \in [Request -> SUBSET Version]
  /\ crashes \in 0 .. MaxCrashes
  /\ made \cup cleared \subseteq Content
  /\ contested \cup hollow \cup dropped \cup lost \subseteq Version

TypeOK == LocalsOK /\ DataOK

Init ==
  /\ status = [v \in Version |-> None]
  /\ uploaded = [v \in Version |-> 0]
  /\ active = None
  /\ blocked = {}
  /\ pending = [v \in Version |-> None]
  /\ main = [v \in Version |-> None]
  /\ queue = <<>>
  /\ pc = [g \in Goroutine |-> IF g = Worker THEN "recover" ELSE "idle"]
  /\ ver = [g \in Goroutine |-> None]
  /\ arc = [g \in Goroutine |-> None]
  /\ act = [g \in Goroutine |-> None]
  /\ todo = [r \in Request |-> {}]
  /\ crashes = 0
  /\ made = {} /\ cleared = {}
  /\ contested = {} /\ hollow = {} /\ dropped = {} /\ lost = {}

-----------------------------------------------------------------------------
\* Helpers.

Goto(g, l) == pc' = [pc EXCEPT ![g] = l]

\* The request is answered, or the worker goes back to its channel.
Return(g) ==
  /\ Goto(g, IF g = Worker THEN "wait" ELSE "idle")
  /\ ver' = [ver EXCEPT ![g] = None]
  /\ arc' = [arc EXCEPT ![g] = None]
  /\ act' = [act EXCEPT ![g] = None]

Rows == {v \in Version : status[v] # None}
Having(st) == {v \in Version : status[v] = st}

\* now(), later than the upload of every row.
Now == {t \in 1 .. Cardinality(Content) :
          /\ \A u \in Version : uploaded[u] < t
          /\ t = 1 \/ \E u \in Version : uploaded[u] = t - 1}

\* ORDER BY uploaded_at DESC LIMIT 1: the one newest, none when there is no row.
Newest(S) == {v \in S : \A u \in S : uploaded[u] <= uploaded[v]}

\* The newest available version, else the newest.
NewestUsable ==
  Newest(IF Having("available") # {} THEN Having("available") ELSE Rows)

\* The active version if it is available, else the newest usable one.
ResolveActiveVersion ==
  IF active # None /\ status[active] = "available" THEN {active} ELSE NewestUsable

\* Mutant: the bump does not look at the versions that exist.
NextFreeVersionBlind(base, taken) == {v \in Version : v = base + 1}

\* The versions NextEditVersion reaches from base over the taken ones.
NextFreeVersion(base, taken) ==
  {v \in Version : /\ v > base
                   /\ v \notin taken
                   /\ \A u \in base + 1 .. v - 1 : u \in taken}

\* A block freezes its version and every later one.
VersionFrozen(v) == \E b \in blocked : v >= b

\* Somebody is between reading and acting on version v.
InHand(v) ==
  \E g \in Goroutine :
    /\ ver[g] = v
    /\ pc[g] \in {"scan", "block", "copy", "unpend", "settle", "discard"}

-----------------------------------------------------------------------------
\* Intake: POST /skills, /skills/from-fields, /github/install (upload) and
\* PUT /skills/:name/files, /files-batch (edit).

\* The version an upload gets: the one its SKILL.md names if every version of
\* the skill is declined, else the next free one.  A failed query of the
\* active version falls back to the named one, and a failed listing makes
\* every version look free.
UploadVersion ==
  IF Rows \subseteq Having("declined") THEN Version
  ELSE UNION {NextFreeVersion(b, t) :
         b \in ResolveActiveVersion \cup {v \in Version : "db" \in Faults},
         t \in {Rows} \cup {T \in {{}} : "db" \in Faults}}

EditVersion ==
  UNION {NextFreeVersion(b, t) :
         b \in ResolveActiveVersion, t \in {Rows} \cup {T \in {{}} : "db" \in Faults}}

\* The checks and the choice of the version: reads that only feed the choice,
\* so they are one step.  Nothing is reserved, and a block that cannot be read
\* does not block.
Mint(r, x, op) ==
  /\ pc[r] = "idle" /\ pc[Worker] # "off"
  /\ op \in Ops \cap {"upload", "edit"}
  /\ x \in Content \ made
  /\ blocked = {} \/ "db" \in Faults
  /\ op = "edit" => Rows # {}
  /\ \E v \in IF op = "upload" THEN UploadVersion ELSE EditVersion :
       ver' = [ver EXCEPT ![r] = v]
  /\ made' = made \cup {x}
  /\ arc' = [arc EXCEPT ![r] = x]
  /\ act' = [act EXCEPT ![r] = op]
  /\ Goto(r, "submit")
  /\ UNCHANGED <<rows, objects, queue, todo, crashes, cleared, contested,
                 hollow, dropped, lost>>

\* Registry.Submit
Submit(r) ==
  LET v == ver[r] IN
  /\ pc[r] = "submit"
  /\ \/ /\ pending' = [pending EXCEPT ![v] = arc[r]]
        /\ contested' = IF pending[v] # None \/ InHand(v)
                          THEN contested \cup {v} ELSE contested
        /\ arc' = [arc EXCEPT ![r] = None]
        /\ Goto(r, "upsert")
        /\ UNCHANGED <<ver, act>>
     \/ /\ "s3" \in Faults
        /\ Return(r)
        /\ UNCHANGED <<pending, contested>>
  /\ UNCHANGED <<rows, main, queue, todo, crashes, made, cleared, hollow,
                 dropped, lost>>

\* UpsertSkill: a conflicting row goes back to pending and keeps is_active.
\* An error is recorded and the handler goes on.
Upsert(r) ==
  LET v == ver[r] IN
  /\ pc[r] = "upsert"
  /\ \/ /\ status' = [status EXCEPT ![v] = "pending"]
        /\ \E t \in Now : uploaded' = [uploaded EXCEPT ![v] = t]
     \/ /\ "db" \in Faults
        /\ UNCHANGED <<status, uploaded>>
  /\ Goto(r, "enqueue")
  /\ UNCHANGED <<active, blocked, objects, queue, ver, arc, act, todo, crashes, history>>

\* Worker.Submit never blocks: a full channel drops the job.
Enqueue(r) ==
  LET v == ver[r] IN
  /\ pc[r] = "enqueue"
  /\ IF Len(queue) < QueueCap
       THEN /\ queue' = Append(queue, v)
            /\ dropped' = dropped \ {v}
            /\ lost' = lost \ {v}
       ELSE /\ dropped' = dropped \cup {v}
            /\ UNCHANGED <<queue, lost>>
  /\ Return(r)
  /\ UNCHANGED <<rows, objects, todo, crashes, made, cleared, contested, hollow>>

-----------------------------------------------------------------------------
\* The scan worker, one goroutine.

\* The first n jobs for the versions of S, ORDER BY uploaded_at.
Jobs(n, S) ==
  {jobs \in [1 .. n -> S] :
     \A i \in 1 .. n :
       /\ \A k \in i + 1 .. n : uploaded[jobs[i]] < uploaded[jobs[k]]
       /\ \A v \in S : (\A k \in 1 .. n : jobs[k] # v) => uploaded[jobs[i]] < uploaded[v]}

\* Mutant: a version that was being scanned when the server died is forgotten.
WaitingIsPending == Having("pending")

\* The versions ListPendingSkills finds.
Waiting == Having("pending") \cup Having("scanning")

\* Startup recovery.  It re-queues in the order of upload until the channel
\* is full; a version it does not get to keeps waiting for the next start.
Recover ==
  /\ pc[Worker] = "recover"
  /\ \/ /\ \E n \in 0 .. QueueCap - Len(queue) : \E jobs \in Jobs(n, Waiting) :
             LET taken == {jobs[i] : i \in 1 .. n} IN
             /\ n = QueueCap - Len(queue) \/ taken = Waiting
             /\ queue' = queue \o jobs
             /\ dropped' = dropped \cup (Waiting \ taken)
        /\ UNCHANGED lost
     \/ /\ "db" \in Faults
        /\ lost' = lost \cup Waiting
        /\ UNCHANGED <<queue, dropped>>
  /\ Goto(Worker, "wait")
  /\ UNCHANGED <<rows, objects, ver, arc, act, todo, crashes, made, cleared,
                 contested, hollow>>

Take ==
  /\ pc[Worker] = "wait"
  /\ queue # <<>>
  /\ ver' = [ver EXCEPT ![Worker] = Head(queue)]
  /\ queue' = Tail(queue)
  /\ Goto(Worker, "mark")
  /\ UNCHANGED <<rows, objects, arc, act, todo, crashes, history>>

\* UpdateSkillStatus: whatever the status was.
UpdateSkillStatus(v, st) ==
  /\ status[v] # None
  /\ status' = [status EXCEPT ![v] = st]

Mark ==
  LET v == ver[Worker] IN
  /\ pc[Worker] = "mark"
  /\ \/ /\ UpdateSkillStatus(v, "scanning")
        /\ Goto(Worker, "download")
        /\ UNCHANGED <<ver, arc, act, lost>>
     \/ /\ status[v] = None \/ "db" \in Faults
        /\ lost' = lost \cup {v}
        /\ Return(Worker)
        /\ UNCHANGED status
  /\ UNCHANGED <<uploaded, active, blocked, objects, queue, todo, crashes, made,
                 cleared, contested, hollow, dropped>>

Download ==
  LET v == ver[Worker] IN
  /\ pc[Worker] = "download"
  /\ \/ /\ pending[v] # None
        /\ arc' = [arc EXCEPT ![Worker] = pending[v]]
        /\ Goto(Worker, "scan")
        /\ UNCHANGED act
     \/ /\ pending[v] = None \/ "s3" \in Faults
        /\ act' = [act EXCEPT ![Worker] = "failed"]
        /\ Goto(Worker, "settle")
        /\ UNCHANGED arc
  /\ UNCHANGED <<rows, objects, queue, ver, todo, crashes, history>>

\* Mutant: a failing scanner lets the archive through.
ScanFailsOpen ==
  /\ pc[Worker] = "scan"
  /\ act' = [act EXCEPT ![Worker] = "clear"]
  /\ Goto(Worker, "copy")
  /\ UNCHANGED <<rows, objects, queue, ver, arc, todo, crashes, history>>

\* The safety check, the scan and the tenant's approval policy: the archive
\* is blocked (an unsafe zip, a blocking finding, a scanner failure), sent to
\* review, or cleared.
Scan ==
  /\ pc[Worker] = "scan"
  /\ \E verdict \in {"blocked", "review", "clear"} :
       /\ act' = [act EXCEPT ![Worker] = verdict]
       /\ Goto(Worker, IF verdict = "clear" THEN "copy" ELSE "settle")
       /\ cleared' = IF verdict = "clear" THEN cleared \cup {arc[Worker]} ELSE cleared
  /\ arc' = [arc EXCEPT ![Worker] = None]
  /\ UNCHANGED <<rows, objects, queue, ver, todo, crashes, made, contested,
                 hollow, dropped, lost>>

\* The status that goes with the verdict.
SettledStatus(verdict) ==
  IF verdict = "clear" THEN "available"
  ELSE IF verdict = "review" THEN "review"
  ELSE "quarantined"

\* The write of the outcome; an error is ignored.
Settle ==
  LET v == ver[Worker] IN
  /\ pc[Worker] = "settle"
  /\ \/ /\ UpdateSkillStatus(v, SettledStatus(act[Worker]))
        /\ UNCHANGED lost
     \/ /\ status[v] = None \/ "db" \in Faults
        /\ lost' = lost \cup {v}
        /\ UNCHANGED status
  /\ CASE act[Worker] = "clear" -> Goto(Worker, "activate") /\ UNCHANGED <<ver, arc, act>>
       [] act[Worker] = "blocked" -> Goto(Worker, "discard") /\ UNCHANGED <<ver, arc, act>>
       [] OTHER -> Return(Worker)
  /\ UNCHANGED <<uploaded, active, blocked, objects, queue, todo, crashes, made,
                 cleared, contested, hollow, dropped>>

\* Registry.Quarantine
Discard ==
  /\ pc[Worker] = "discard"
  /\ \/ pending' = [pending EXCEPT ![ver[Worker]] = None]
     \/ "s3" \in Faults /\ UNCHANGED pending
  /\ Return(Worker)
  /\ UNCHANGED <<rows, main, queue, todo, crashes, history>>

-----------------------------------------------------------------------------
\* Registry.Promote and Store.SetActiveVersion, run by the worker and by the
\* approve handler.

\* Mutant: the error of the copy is ignored.
CopyErrorIgnored(g) ==
  /\ pc[g] = "copy"
  /\ IF pending[ver[g]] # None
       THEN \/ main' = [main EXCEPT ![ver[g]] = pending[ver[g]]]
            \/ "s3" \in Faults /\ UNCHANGED main
       ELSE UNCHANGED main
  /\ hollow' = hollow \ {ver[g]}
  /\ Goto(g, "unpend")
  /\ UNCHANGED <<rows, pending, queue, ver, arc, act, todo, crashes, made, cleared,
                 contested, dropped, lost>>

\* Copy the pending archive, whatever it is by now.  When that fails, the
\* worker falls back to review, the approve handler goes on.
Copy(g) ==
  LET v == ver[g] IN
  /\ pc[g] = "copy"
  /\ \/ /\ pending[v] # None
        /\ main' = [main EXCEPT ![v] = pending[v]]
        /\ hollow' = hollow \ {v}
        /\ Goto(g, "unpend")
        /\ UNCHANGED act
     \/ /\ pending[v] = None \/ "s3" \in Faults
        /\ IF g = Worker
             THEN /\ act' = [act EXCEPT ![g] = "review"]
                  /\ Goto(g, "settle")
             ELSE /\ Goto(g, "activate")
                  /\ UNCHANGED act
        /\ UNCHANGED <<main, hollow>>
  /\ UNCHANGED <<rows, pending, queue, ver, arc, todo, crashes, made, cleared,
                 contested, dropped, lost>>

Unpend(g) ==
  /\ pc[g] = "unpend"
  /\ \/ pending' = [pending EXCEPT ![ver[g]] = None]
     \/ "s3" \in Faults /\ UNCHANGED pending
  /\ Goto(g, IF g = Worker THEN "settle" ELSE "activate")
  /\ UNCHANGED <<rows, main, queue, ver, arc, act, todo, crashes, history>>

\* The transaction reads the status ...
CheckAvailable(g) ==
  /\ pc[g] = "activate"
  /\ \/ /\ status[ver[g]] = "available"
        /\ Goto(g, "commit")
        /\ UNCHANGED <<ver, arc, act>>
     \/ /\ status[ver[g]] # "available" \/ "db" \in Faults
        /\ Return(g)
  /\ UNCHANGED <<rows, objects, queue, todo, crashes, history>>

\* ... and, at READ COMMITTED, moves the pointer whatever the status is by now.
SetActiveVersion(g) ==
  /\ pc[g] = "commit"
  /\ \/ active' = IF status[ver[g]] # None THEN ver[g] ELSE None
     \/ "db" \in Faults /\ UNCHANGED active
  /\ Return(g)
  /\ UNCHANGED <<status, uploaded, blocked, objects, queue, todo, crashes, history>>

-----------------------------------------------------------------------------
\* Requests about an existing version.

\* A request about version v arrives and goes to its first step.
Begin(r, v, op, l) ==
  /\ pc[r] = "idle" /\ pc[Worker] # "off"
  /\ op \in Ops
  /\ ver' = [ver EXCEPT ![r] = v]
  /\ act' = [act EXCEPT ![r] = op]
  /\ Goto(r, l)
  /\ UNCHANGED <<rows, objects, queue, arc, crashes, history>>

\* ReviewSkill: refused when the version is frozen, unless the check itself
\* fails or the action is a reopen.
Review(r, v, a) ==
  /\ a \in ReviewAction
  /\ a = "reopen" \/ ~VersionFrozen(v) \/ "db" \in Faults
  /\ Begin(r, v, a, "update")
  /\ UNCHANGED todo

Activate(r, v) == Begin(r, v, "activate", "activate") /\ UNCHANGED todo

Delete(r, v) == Begin(r, v, "delete", "erase") /\ todo' = [todo EXCEPT ![r] = {v}]

\* DeleteSkillVersions lists the versions first.
DeleteAll(r) ==
  /\ Begin(r, None, "delete_all", "erase")
  /\ todo' = [todo EXCEPT ![r] = Rows]

AllowedFrom(a) ==
  CASE a = "approve" -> {"review", "declined"}
    [] a = "decline" -> {"review", "available"}
    [] a = "decline_forever" ->
         {"review", "available", "declined", "pending", "scanning"}
    [] a = "reopen" -> {"declined"}

ReviewedStatus(a) ==
  CASE a = "approve" -> "available"
    [] a = "reopen" -> "review"
    [] OTHER -> "declined"

\* The conditional UPDATE.  Approving vouches for the archive under review.
ReviewUpdate(r) ==
  LET v == ver[r]
      a == act[r]
  IN
  /\ pc[r] = "update"
  /\ \/ /\ status[v] \in AllowedFrom(a)
        /\ status' = [status EXCEPT ![v] = ReviewedStatus(a)]
        /\ cleared' = IF a = "approve" THEN cleared \cup ({pending[v]} \ {None}) ELSE cleared
        /\ hollow' = IF a = "approve" THEN hollow \cup {v} ELSE hollow
        /\ Goto(r, IF a \in {"decline", "decline_forever"} THEN "clear" ELSE "block")
        /\ UNCHANGED <<ver, arc, act>>
     \/ /\ status[v] \notin AllowedFrom(a) \/ "db" \in Faults
        /\ Return(r)
        /\ UNCHANGED <<status, cleared, hollow>>
  /\ UNCHANGED <<uploaded, active, blocked, objects, queue, todo, crashes, made,
                 contested, dropped, lost>>

\* After the pointer: a block to record, or done.
AfterClear(r) ==
  IF act[r] = "decline_forever"
    THEN Goto(r, "block") /\ UNCHANGED <<ver, arc, act>>
    ELSE Return(r)

ClearActive(r) ==
  /\ pc[r] = "clear"
  /\ \/ /\ active = ver[r]
        /\ active' = None
        /\ Goto(r, "repoint")
        /\ UNCHANGED <<ver, arc, act>>
     \/ /\ active # ver[r]
        /\ AfterClear(r)
        /\ UNCHANGED active
     \/ /\ "db" \in Faults
        /\ Return(r)
        /\ UNCHANGED active
  /\ UNCHANGED <<status, uploaded, blocked, objects, queue, todo, crashes, history>>

\* The unique index refuses a second active version.
Repoint(r) ==
  LET fallback == Newest(Having("available")) IN
  /\ pc[r] = "repoint"
  /\ \/ /\ active' \in IF Having("available") # {} THEN fallback ELSE {active}
        /\ active \in {None, active'}
        /\ AfterClear(r)
     \/ /\ "db" \in Faults \/ \E v \in fallback : active \notin {None, v}
        /\ Return(r)
        /\ UNCHANGED active
  /\ UNCHANGED <<status, uploaded, blocked, objects, queue, todo, crashes, history>>

WriteBlock(r) ==
  /\ pc[r] = "block"
  /\ \/ /\ blocked' = CASE act[r] = "reopen" -> {}
                        [] act[r] = "approve" -> blocked \ {ver[r]}
                        [] OTHER -> blocked \cup {ver[r]}
        /\ IF act[r] = "approve"
             THEN Goto(r, "copy") /\ UNCHANGED <<ver, arc, act>>
             ELSE Return(r)
     \/ /\ "db" \in Faults
        /\ Return(r)
        /\ UNCHANGED blocked
  /\ UNCHANGED <<status, uploaded, active, objects, queue, todo, crashes, history>>

\* Registry.Delete of the next version: the promoted archive ...
Erase(r, v) ==
  /\ pc[r] = "erase"
  /\ v \in todo[r]
  /\ \/ /\ main' = [main EXCEPT ![v] = None]
        /\ hollow' = hollow \cup {v}
        /\ ver' = [ver EXCEPT ![r] = v]
        /\ Goto(r, "erase_pending")
        /\ UNCHANGED <<arc, act, todo>>
     \/ /\ "s3" \in Faults
        /\ todo' = [todo EXCEPT ![r] = {}]
        /\ Return(r)
        /\ UNCHANGED <<main, hollow>>
  /\ UNCHANGED <<rows, pending, queue, crashes, made, cleared, contested, dropped, lost>>

\* ... and the pending one.
ErasePending(r) ==
  /\ pc[r] = "erase_pending"
  /\ \/ /\ pending' = [pending EXCEPT ![ver[r]] = None]
        /\ todo' = [todo EXCEPT ![r] = @ \ {ver[r]}]
        /\ Goto(r, "erase")
        /\ UNCHANGED <<ver, arc, act>>
     \/ /\ "s3" \in Faults
        /\ todo' = [todo EXCEPT ![r] = {}]
        /\ Return(r)
        /\ UNCHANGED pending
  /\ UNCHANGED <<rows, main, queue, crashes, history>>

\* DeleteSkill or DeleteSkillAllVersions, a transaction whose error is ignored;
\* it fails whenever an execution of a version has files (module Runner).
\* Without rows left, the blocks of the name go too.
DeleteRows(r) ==
  LET goner == IF act[r] = "delete" THEN {ver[r]} ELSE Version IN
  /\ pc[r] = "erase" /\ todo[r] = {}
  /\ \/ /\ status' = [v \in Version |-> IF v \in goner THEN None ELSE status[v]]
        /\ uploaded' = [v \in Version |-> IF v \in goner THEN 0 ELSE uploaded[v]]
        /\ active' = IF active \in goner THEN None ELSE active
        /\ blocked' = IF Rows \subseteq goner THEN {} ELSE blocked
        /\ hollow' = {v \in hollow : v \in goner => \E g \in Goroutine \ {r} : ver[g] = v}
     \/ UNCHANGED <<rows, hollow>>
  /\ Return(r)
  /\ UNCHANGED <<objects, queue, todo, crashes, made, cleared, contested, dropped, lost>>

-----------------------------------------------------------------------------
\* The server dies: the channel and every goroutine are gone.
Crash ==
  /\ crashes < MaxCrashes
  /\ pc[Worker] # "off"
  /\ crashes' = crashes + 1
  /\ queue' = <<>>
  /\ pc' = [g \in Goroutine |-> IF g = Worker THEN "off" ELSE "idle"]
  /\ ver' = [g \in Goroutine |-> None]
  /\ arc' = [g \in Goroutine |-> None]
  /\ act' = [g \in Goroutine |-> None]
  /\ todo' = [r \in Request |-> {}]
  /\ dropped' = {} /\ lost' = {}
  /\ UNCHANGED <<rows, objects, made, cleared, contested, hollow>>

\* It starts again: BackfillActiveVersions gives a skill without an active
\* version its newest available one, else its newest.
Restart ==
  /\ pc[Worker] = "off"
  /\ \/ active' \in IF active = None /\ Rows # {} THEN NewestUsable ELSE {active}
     \/ "db" \in Faults /\ UNCHANGED active
  /\ Goto(Worker, "recover")
  /\ UNCHANGED <<status, uploaded, blocked, objects, queue, ver, arc, act, todo,
                 crashes, history>>

-----------------------------------------------------------------------------
IntakeStep(r) == Submit(r) \/ Upsert(r) \/ Enqueue(r)

PublishStep(g) == Copy(g) \/ Unpend(g) \/ CheckAvailable(g) \/ SetActiveVersion(g)

ReviewStep(r) == ReviewUpdate(r) \/ ClearActive(r) \/ Repoint(r) \/ WriteBlock(r)

DeleteStep(r) == (\E v \in Version : Erase(r, v)) \/ ErasePending(r) \/ DeleteRows(r)

RequestStep(r) == IntakeStep(r) \/ ReviewStep(r) \/ DeleteStep(r) \/ PublishStep(r)

WorkerStep ==
  Recover \/ Take \/ Mark \/ Download \/ Scan \/ Settle \/ Discard \/ PublishStep(Worker)

Arrive(r) ==
  \/ \E x \in Content, op \in Ops : Mint(r, x, op)
  \/ \E v \in Version : \/ \E a \in Ops : Review(r, v, a)
                        \/ Activate(r, v)
                        \/ Delete(r, v)
  \/ DeleteAll(r)

Next ==
  \/ \E r \in Request : Arrive(r) \/ RequestStep(r)
  \/ WorkerStep
  \/ Crash
  \/ Restart

\* Every call has a deadline, so a handler and the worker move on; a crashed
\* server is started again.  Nobody has to send a request.
Fairness ==
  /\ \A r \in Request : WF_vars(RequestStep(r))
  /\ WF_vars(WorkerStep)
  /\ WF_vars(Restart)

Spec == Init /\ [][Next]_vars

FairSpec == Spec /\ Fairness

-----------------------------------------------------------------------------
(***************************************************************************)
(* Properties.                                                             *)
(***************************************************************************)

\* Nothing reaches the promoted prefix without a clean scan or an approval,
\* with one exception: a version that was submitted again while the worker or
\* an approval had it in hand, because two intakes chose the same number or a
\* deletion freed it.
PromotedIsCleared ==
  \A v \in Version :
    main[v] # None => main[v] \in cleared \/ v \in contested

\* An available version can be run: its archive is in the promoted prefix,
\* unless an approval or a deletion stopped half-way, or the version was
\* submitted again while in hand.
AvailableHasArchive ==
  \A v \in Version :
    status[v] = "available" => main[v] # None \/ v \in hollow \/ v \in contested

\* A version waiting for its scan is in the channel, in the hands of the worker
\* or of a handler about to queue it, or will be found by the recovery; only a
\* full channel or a failed status write lets it fall out.
WaitingIsTracked ==
  \A v \in Version :
    status[v] \in {"pending", "scanning"} =>
      \/ \E i \in 1 .. Len(queue) : queue[i] = v
      \/ \E r \in Request : ver[r] = v /\ pc[r] = "enqueue"
      \/ /\ ver[Worker] = v
         /\ pc[Worker] \in {"mark", "download", "scan", "copy", "unpend", "settle"}
      \/ pc[Worker] \in {"off", "recover"}
      \/ v \in dropped \cup lost

\* A version waiting for its scan gets an outcome, across crashes, unless its
\* job met a full channel or a failed status write since the last start.
WaitingIsSettled ==
  \A v \in Version :
    status[v] \in {"pending", "scanning"}
      ~> (status[v] \notin {"pending", "scanning"} \/ v \in dropped \cup lost)

\* "an intake or edit always mints a new increasing version and never
\* overwrites a prior one" (store/skills.go): an edit never finds a row.
EditsAreNewVersions ==
  [][\A r \in Request :
       pc[r] = "upsert" /\ pc'[r] = "enqueue" /\ act[r] = "edit" => status[ver[r]] = None]_vars
=============================================================================
