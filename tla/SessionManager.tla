--------------------------- MODULE SessionManager ---------------------------
(***************************************************************************)
(* The session sandbox manager of skillbox                                 *)
(* (internal/sandbox/session_manager.go), together with the HTTP handlers  *)
(* that call it, the idle cleanup ticker and the shutdown sequence of      *)
(* cmd/skillbox-server/main.go.                                            *)
(*                                                                         *)
(* One step is one critical section of sm.mu or one remote call: what a    *)
(* goroutine read under the lock may be stale when it acts on it.  Every   *)
(* remote call may fail, and a sandbox may die at any time.                *)
(***************************************************************************)
EXTENDS Naturals, FiniteSets

CONSTANTS
  Caller,                \* request goroutines of the HTTP server
  Key,                   \* "{tenantID}:{externalID}"
  Sandbox,               \* ids OpenSandbox hands out (bounds the creations)
  Reaper,                \* which of the goroutines that remove in bulk run
  MaxSessionSandboxes,   \* config.MaxSessionSandboxes
  None                   \* nil

Agent == Caller \cup Reaper

ASSUME ReaperNames == Reaper \subseteq {"cleanup", "shutdown"}
ASSUME ReapersAreNotCallers == Caller \cap {"cleanup", "shutdown"} = {}
ASSUME NoneIsNoValue == None \notin Key \cup Sandbox \cup Agent
ASSUME CapacityPositive == MaxSessionSandboxes \in Nat \ {0}
ASSUME CallersFinite == IsFiniteSet(Caller)

VARIABLES
  sessions,  \* sm.sessions: the sandbox cached for a key
  idle,      \* cached sandboxes whose LastUsedAt is older than the idle TTL
  flight,    \* createGroup: the goroutine running createSandbox for a key
  pc,        \* where each goroutine is
  req,       \* the key its request (or loop iteration) is about
  held,      \* the *ManagedSandbox it holds in a local variable
  todo,      \* the reapers' local slices of keys still to remove
  remote,    \* OpenSandbox: "unborn", "live" or "gone"
  owner,     \* OpenSandbox metadata: the key a sandbox was created for
  forsaken   \* history: live, and dropped without being deleted

vars == <<sessions, idle, flight, pc, req, held, todo, remote, owner, forsaken>>

local == <<pc, req, held>>

PC == {"idle", "lookup", "ping", "evict", "do", "wait", "recheck", "provision",
       "ready", "insert", "finish", "use", "call", "sync", "remove", "delete",
       "next", "done"}

TypeOK ==
  /\ sessions \in [Key -> Sandbox \cup {None}]
  /\ idle \subseteq Sandbox
  /\ flight \in [Key -> Caller \cup {None}]
  /\ pc \in [Agent -> PC]
  /\ req \in [Agent -> Key \cup {None}]
  /\ held \in [Agent -> Sandbox \cup {None}]
  /\ todo \in [Reaper -> SUBSET Key]
  /\ remote \in [Sandbox -> {"unborn", "live", "gone"}]
  /\ owner \in [Sandbox -> Key \cup {None}]
  /\ forsaken \subseteq Sandbox

Cached == {k \in Key : sessions[k] # None}

Init ==
  /\ sessions = [k \in Key |-> None]
  /\ idle = {}
  /\ flight = [k \in Key |-> None]
  /\ pc = [a \in Agent |-> "idle"]
  /\ req = [a \in Agent |-> None]
  /\ held = [a \in Agent |-> None]
  /\ todo = [r \in Reaper |-> {}]
  /\ remote = [s \in Sandbox |-> "unborn"]
  /\ owner = [s \in Sandbox |-> None]
  /\ forsaken = {}

-----------------------------------------------------------------------------
\* Helpers: moving a goroutine.

Goto(a, l) == pc' = [pc EXCEPT ![a] = l]

\* The goroutine returns: its locals go out of scope.
Return(a) ==
  /\ Goto(a, IF a \in Reaper THEN "next" ELSE "idle")
  /\ req' = [req EXCEPT ![a] = None]
  /\ held' = [held EXCEPT ![a] = None]

\* delete(sm.sessions, k)
Drop(k) ==
  /\ sessions' = [sessions EXCEPT ![k] = None]
  /\ idle' = idle \ {sessions[k]}

\* s is dropped and nobody will delete it.
Forsake(s) == forsaken' = forsaken \cup {x \in {s} : remote[x] = "live"}

\* DeleteSandbox of s: done, already gone (404), or failed with s left behind.
DeleteSandbox(s) ==
  \/ /\ remote' = [remote EXCEPT ![s] = "gone"]
     /\ forsaken' = forsaken \ {s}
  \/ /\ Forsake(s)
     /\ UNCHANGED remote

-----------------------------------------------------------------------------
\* Requests.  Every sandbox endpoint except DELETE first calls GetOrCreate
\* (handlers/sandbox.go resolveSessionKey) and then one manager operation.
\* The server stops accepting requests once the manager has shut down.

StoppedServing == "shutdown" \in Reaper /\ pc["shutdown"] = "done"

Arrive(c, k) ==
  /\ pc[c] = "idle"
  /\ ~StoppedServing
  /\ \E l \in {"lookup", "sync"} : Goto(c, l)
  /\ req' = [req EXCEPT ![c] = k]
  /\ UNCHANGED <<sessions, idle, flight, held, todo, remote, owner, forsaken>>

\* GetOrCreate, cache hit: touch it, then check its health.
LookupHit(c) ==
  LET s == sessions[req[c]] IN
  /\ pc[c] = "lookup"
  /\ s # None
  /\ idle' = idle \ {s}
  /\ held' = [held EXCEPT ![c] = s]
  /\ Goto(c, "ping")
  /\ UNCHANGED <<sessions, flight, req, todo, remote, owner, forsaken>>

\* Mutant: an off-by-one in the capacity check.
LookupMissOffByOne(c) ==
  /\ pc[c] = "lookup"
  /\ sessions[req[c]] = None
  /\ Cardinality(Cached) <= MaxSessionSandboxes
  /\ Goto(c, "do")
  /\ UNCHANGED <<sessions, idle, flight, req, held, todo, remote, owner, forsaken>>

\* GetOrCreate, cache miss: the capacity check is made under the lock, the
\* lock is then released and the creation starts without a reservation.
LookupMiss(c) ==
  /\ pc[c] = "lookup"
  /\ sessions[req[c]] = None
  /\ Cardinality(Cached) < MaxSessionSandboxes
  /\ Goto(c, "do")
  /\ UNCHANGED <<sessions, idle, flight, req, held, todo, remote, owner, forsaken>>

LookupFull(c) ==
  /\ pc[c] = "lookup"
  /\ sessions[req[c]] = None
  /\ Cardinality(Cached) >= MaxSessionSandboxes
  /\ Return(c)
  /\ UNCHANGED <<sessions, idle, flight, todo, remote, owner, forsaken>>

PingOk(c) ==
  /\ pc[c] = "ping"
  /\ remote[held[c]] = "live"
  /\ Goto(c, "use")
  /\ UNCHANGED <<sessions, idle, flight, req, held, todo, remote, owner, forsaken>>

\* The ping times out (2s), is refused, or the client disconnected: the files
\* are synced on a best-effort basis before the entry is dropped.
PingFail(c) ==
  /\ pc[c] = "ping"
  /\ Goto(c, "evict")
  /\ UNCHANGED <<sessions, idle, flight, req, held, todo, remote, owner, forsaken>>

\* The stale path deletes whatever the key maps to by now.
Evict(c) ==
  /\ pc[c] = "evict"
  /\ IF sessions[req[c]] # None
       THEN Drop(req[c]) /\ Forsake(sessions[req[c]])
       ELSE UNCHANGED <<sessions, idle, forsaken>>
  /\ held' = [held EXCEPT ![c] = None]
  /\ Goto(c, "do")
  /\ UNCHANGED <<flight, req, todo, remote, owner>>

\* createGroup.Do: the first goroutine of a key runs createSandbox ...
DoLead(c) ==
  /\ pc[c] = "do"
  /\ flight[req[c]] = None
  /\ flight' = [flight EXCEPT ![req[c]] = c]
  /\ Goto(c, "recheck")
  /\ UNCHANGED <<sessions, idle, req, held, todo, remote, owner, forsaken>>

\* ... and the others wait for its result.
DoJoin(c) ==
  /\ pc[c] = "do"
  /\ flight[req[c]] # None
  /\ Goto(c, "wait")
  /\ UNCHANGED <<sessions, idle, flight, req, held, todo, remote, owner, forsaken>>

-----------------------------------------------------------------------------
\* createSandbox, run by the leader of the flight.

\* Mutant: the cache is not looked at again inside the flight.
RecheckSkipped(c) ==
  /\ pc[c] = "recheck"
  /\ Goto(c, "provision")
  /\ UNCHANGED <<sessions, idle, flight, req, held, todo, remote, owner, forsaken>>

Recheck(c) ==
  LET s == sessions[req[c]] IN
  /\ pc[c] = "recheck"
  /\ \/ /\ s # None
        /\ idle' = idle \ {s}
        /\ held' = [held EXCEPT ![c] = s]
        /\ Goto(c, "finish")
     \/ /\ s = None
        /\ Goto(c, "provision")
        /\ UNCHANGED <<idle, held>>
  /\ UNCHANGED <<sessions, flight, req, todo, remote, owner, forsaken>>

\* OpenSandbox creates the sandbox; its answer arrives, or is lost (timeout,
\* undecodable body) and nobody knows the id.
Provision(c, s) ==
  /\ pc[c] = "provision"
  /\ remote[s] = "unborn"
  /\ remote' = [remote EXCEPT ![s] = "live"]
  /\ owner' = [owner EXCEPT ![s] = req[c]]
  /\ \/ /\ held' = [held EXCEPT ![c] = s]
        /\ Goto(c, "ready")
        /\ UNCHANGED forsaken
     \/ /\ forsaken' = forsaken \cup {s}
        /\ Goto(c, "finish")
        /\ UNCHANGED held
  /\ UNCHANGED <<sessions, idle, flight, req, todo>>

\* GetOrCreateSession or CreateSandbox fails and nothing was created.
ProvisionFail(c) ==
  /\ pc[c] = "provision"
  /\ Goto(c, "finish")
  /\ UNCHANGED <<sessions, idle, flight, req, held, todo, remote, owner, forsaken>>

\* WaitReady and DiscoverExecD; the later set-up steps only warn.
Ready(c) ==
  /\ pc[c] = "ready"
  /\ remote[held[c]] = "live"
  /\ Goto(c, "insert")
  /\ UNCHANGED <<sessions, idle, flight, req, held, todo, remote, owner, forsaken>>

\* Mutant: the sandbox that never got ready is left behind.
ReadyFailKeeps(c) ==
  /\ pc[c] = "ready"
  /\ held' = [held EXCEPT ![c] = None]
  /\ Goto(c, "finish")
  /\ UNCHANGED <<sessions, idle, flight, req, todo, remote, owner, forsaken>>

\* Mutant: WaitReady polls a sandbox in a terminal state for ever.
ReadyFailNever(c) == pc[c] = "ready" /\ FALSE /\ UNCHANGED vars

ReadyFail(c) ==
  /\ pc[c] = "ready"
  /\ DeleteSandbox(held[c])
  /\ held' = [held EXCEPT ![c] = None]
  /\ Goto(c, "finish")
  /\ UNCHANGED <<sessions, idle, flight, req, todo, owner>>

Insert(c) ==
  /\ pc[c] = "insert"
  /\ sessions' = [sessions EXCEPT ![req[c]] = held[c]]
  /\ Goto(c, "finish")
  /\ UNCHANGED <<idle, flight, req, held, todo, remote, owner, forsaken>>

\* Mutant: the result is not handed to the goroutines that waited.
NoPassengers(k) == {a \in {} : req[a] = k}

\* The goroutines whose createGroup.Do returns when the flight of k lands.
Passengers(k) == {a \in Caller : req[a] = k /\ pc[a] = "wait"}

\* The flight lands: the leader and everybody who waited get its result.
Finish(c) ==
  LET k == req[c]
      got == {c} \cup Passengers(k)
      ok == held[c] # None
  IN
  /\ pc[c] = "finish"
  /\ flight' = [flight EXCEPT ![k] = None]
  /\ pc' = [a \in Agent |-> IF a \in got THEN IF ok THEN "use" ELSE "idle" ELSE pc[a]]
  /\ held' = [a \in Agent |-> IF a \in got THEN held[c] ELSE held[a]]
  /\ req' = [a \in Agent |-> IF a \in got /\ ~ok THEN None ELSE req[a]]
  /\ UNCHANGED <<sessions, idle, todo, remote, owner, forsaken>>

-----------------------------------------------------------------------------
\* Execute, ReadFile, WriteFile, UploadFiles, ListDir: getSession, the remote
\* call, and evictStale on a connection error.

\* Mutant: the cache is keyed by less than tenant and session.
GetSessionOfAnyKey(c) ==
  /\ pc[c] = "use"
  /\ \E k \in Cached :
       /\ idle' = idle \ {sessions[k]}
       /\ held' = [held EXCEPT ![c] = sessions[k]]
  /\ Goto(c, "call")
  /\ UNCHANGED <<sessions, flight, req, todo, remote, owner, forsaken>>

\* The request also ends here when its body is malformed, when the key has no
\* sandbox any more, and for POST /sandbox/sync, which only reads.  (An append
\* gets the session twice, once to read and once to write; the second time
\* finds nothing that the first could not.)
GetSession(c) ==
  LET s == sessions[req[c]] IN
  /\ pc[c] = "use"
  /\ \/ /\ s # None
        /\ idle' = idle \ {s}
        /\ held' = [held EXCEPT ![c] = s]
        /\ Goto(c, "call")
        /\ UNCHANGED req
     \/ /\ Return(c)
        /\ UNCHANGED idle
  /\ UNCHANGED <<sessions, flight, todo, remote, owner, forsaken>>

\* The call succeeds, or fails with an error that is not a connection error.
CallReturns(c) ==
  /\ pc[c] = "call"
  /\ Return(c)
  /\ UNCHANGED <<sessions, idle, flight, todo, remote, owner, forsaken>>

\* evictStale drops the entry only if it still is the sandbox that failed.
EvictStale(c) ==
  /\ pc[c] = "call"
  /\ IF sessions[req[c]] = held[c]
       THEN Drop(req[c]) /\ Forsake(held[c])
       ELSE UNCHANGED <<sessions, idle, forsaken>>
  /\ Return(c)
  /\ UNCHANGED <<flight, todo, remote, owner>>

-----------------------------------------------------------------------------
\* Destroy and syncAndRemove: sync the files of the sandbox cached now, remove
\* the entry cached then, delete that sandbox.

SyncSessionFiles(a) ==
  /\ pc[a] = "sync"
  /\ held' = [held EXCEPT ![a] = sessions[req[a]]]
  /\ Goto(a, "remove")
  /\ UNCHANGED <<sessions, idle, flight, req, todo, remote, owner, forsaken>>

Remove(a) ==
  LET s == sessions[req[a]] IN
  /\ pc[a] = "remove"
  /\ \/ /\ s # None
        /\ Drop(req[a])
        /\ held' = [held EXCEPT ![a] = s]
        /\ Goto(a, "delete")
        /\ UNCHANGED req
     \/ /\ s = None
        /\ Return(a)
        /\ UNCHANGED <<sessions, idle>>
  /\ UNCHANGED <<flight, todo, remote, owner, forsaken>>

Delete(a) ==
  /\ pc[a] = "delete"
  /\ DeleteSandbox(held[a])
  /\ Return(a)
  /\ UNCHANGED <<sessions, idle, flight, todo, owner>>

\* Cleanup collects the idle keys, Shutdown (run once) all of them.
Collect(r) ==
  /\ pc[r] = "idle"
  /\ todo' = [todo EXCEPT ![r] =
                {k \in Cached : r = "cleanup" => sessions[k] \in idle}]
  /\ Goto(r, "next")
  /\ UNCHANGED <<sessions, idle, flight, req, held, remote, owner, forsaken>>

NextKey(r, k) ==
  /\ pc[r] = "next"
  /\ k \in todo[r]
  /\ todo' = [todo EXCEPT ![r] = @ \ {k}]
  /\ req' = [req EXCEPT ![r] = k]
  /\ Goto(r, "sync")
  /\ UNCHANGED <<sessions, idle, flight, held, remote, owner, forsaken>>

LoopEnds(r) ==
  /\ pc[r] = "next"
  /\ todo[r] = {}
  /\ Goto(r, IF r = "cleanup" THEN "idle" ELSE "done")
  /\ UNCHANGED <<sessions, idle, flight, req, held, todo, remote, owner, forsaken>>

-----------------------------------------------------------------------------
\* Environment.

\* Nobody touched a cached sandbox for longer than the idle TTL (30m), far
\* longer than the request that touched it last holds it (2s to ping it, 30s
\* for a call).
BecomeIdle(s) ==
  /\ \E k \in Key : sessions[k] = s
  /\ \A c \in Caller : held[c] = s => pc[c] \in {"remove", "delete"}
  /\ s \notin idle
  /\ idle' = idle \cup {s}
  /\ UNCHANGED <<sessions, flight, local, todo, remote, owner, forsaken>>

\* The container's own TTL expires, or it crashes.
Die(s) ==
  /\ remote[s] = "live"
  /\ remote' = [remote EXCEPT ![s] = "gone"]
  /\ forsaken' = forsaken \ {s}
  /\ UNCHANGED <<sessions, idle, flight, local, todo, owner>>

-----------------------------------------------------------------------------
CreateStep(c) ==
  \/ Recheck(c)
  \/ \E s \in Sandbox : Provision(c, s)
  \/ ProvisionFail(c)
  \/ Ready(c)
  \/ ReadyFail(c)
  \/ Insert(c)
  \/ Finish(c)

GetOrCreateStep(c) ==
  \/ LookupHit(c)
  \/ LookupMiss(c)
  \/ LookupFull(c)
  \/ PingOk(c)
  \/ PingFail(c)
  \/ Evict(c)
  \/ DoLead(c)
  \/ DoJoin(c)
  \/ CreateStep(c)

UseStep(c) == GetSession(c) \/ CallReturns(c) \/ EvictStale(c)

RemoveStep(a) == SyncSessionFiles(a) \/ Remove(a) \/ Delete(a)

ReaperStep(r) ==
  \/ Collect(r)
  \/ \E k \in Key : NextKey(r, k)
  \/ LoopEnds(r)

Next ==
  \/ \E c \in Caller : \/ \E k \in Key : Arrive(c, k)
                       \/ GetOrCreateStep(c)
                       \/ UseStep(c)
  \/ \E a \in Agent : RemoveStep(a)
  \/ \E r \in Reaper : ReaperStep(r)
  \/ \E s \in Sandbox : BecomeIdle(s) \/ Die(s)

\* Every remote call has a deadline (2s ping, 2min creation, http client
\* timeouts), so a goroutine that is not blocked in createGroup.Do moves on.
\* Nothing forces a request to arrive, a sandbox to die or the server to stop.
Fairness ==
  /\ \A c \in Caller : WF_vars(GetOrCreateStep(c) \/ UseStep(c))
  /\ \A a \in Agent : WF_vars(RemoveStep(a))

Spec == Init /\ [][Next]_vars

FairSpec == Spec /\ Fairness
-----------------------------------------------------------------------------
(***************************************************************************)
(* Properties.                                                             *)
(***************************************************************************)

Cache(s) == \E k \in Key : sessions[k] = s
Creating(s) == \E c \in Caller : pc[c] \in {"ready", "insert"} /\ held[c] = s
Deleting(s) == \E a \in Agent : pc[a] = "delete" /\ held[a] = s

\* createSandbox re-checks the cache inside the flight, so from then until it
\* inserts, the key stays empty: an insertion never overwrites (and so never
\* loses track of) a sandbox that is in use.
InsertNeverOverwrites ==
  \A c \in Caller :
    pc[c] \in {"provision", "ready", "insert"} => sessions[req[c]] = None

\* No request is ever handed, and no key ever caches, a sandbox that was
\* created for another session, whoever led the flight that created it.
SandboxBelongsToSession ==
  /\ \A k \in Key : sessions[k] # None => owner[sessions[k]] = k
  /\ \A c \in Caller :
       pc[c] \in {"ping", "use", "call"} => owner[held[c]] = req[c]

\* A live sandbox is cached, being created, or about to be deleted, unless one
\* of the paths that drop it without deleting it ran: the two evictions, a
\* failed DeleteSandbox, a lost answer to CreateSandbox.  No other step leaks.
LiveSandboxAccountedFor ==
  \A s \in Sandbox :
    remote[s] = "live" =>
      Cache(s) \/ Creating(s) \/ Deleting(s) \/ s \in forsaken

\* The capacity check reserves nothing, so concurrent creations may overshoot
\* the limit, but at most by one sandbox for every other request in flight,
\* however long the server runs: the health-check path, which recreates
\* without any check, does not add to it.
CapacityOvershootBounded ==
  Cardinality(Cached) <= MaxSessionSandboxes - 1 + Cardinality(Caller)

\* The abstract pool, seen through the manager's state.
Stage(s) ==
  IF Cache(s) THEN "serving"
  ELSE IF Creating(s) THEN "starting"
  ELSE IF remote[s] = "unborn" THEN "free"
  ELSE "retired"

Pool == INSTANCE SandboxPool
          WITH stage <- [s \in Sandbox |-> Stage(s)], key <- owner

\* A session's sandboxes go one at a time and a removed one never comes back.
ImplementsPoolSafety == Pool!PoolSafety

\* ... and a sandbox that was started ends up serving or retired.
ImplementsPool == Pool!PoolSpec

\* Every request is answered: nobody waits for a flight that never lands.
RequestsAnswered ==
  \A c \in Caller : (pc[c] # "idle") ~> (pc[c] = "idle")

=============================================================================
