---------------------------- MODULE SessionFiles ----------------------------
(***************************************************************************)
(* The files of one session: in its sandbox, in the object store under     *)
(* tenant/sessions/session/name, and in sandbox.files, where every sync    *)
(* adds a row.  A sandbox is filled from the rows when it is created and   *)
(* written back by a sync, before it is removed or when asked.  Creation   *)
(* and eviction of the sandbox are those of SessionManager, here one step  *)
(* each; the content of a file is the sequence of the pieces written.      *)
(***************************************************************************)
EXTENDS FileTable

CONSTANTS Request, Name,
          Stored,        \* names with an object and a row at the start
          ListLimit,     \* the most rows ListSessionFiles returns (200)
          Faults,        \* the services that may fail: "db", "s3", "sandbox"
          MaxDeaths      \* bound: sandboxes that expire

ASSUME SessionFilesAssumption ==
  /\ ListLimit \in Nat \ {0} /\ MaxDeaths \in Nat
  /\ Stored \subseteq Name /\ IsFiniteSet(Stored)
  /\ Faults \subseteq {"db", "s3", "sandbox"}
  /\ {None, "s0"} \cap Request = {} /\ None \notin Name \cup {"s0"}

VARIABLES table, objects,
          session,    \* id of the row in sandbox.sessions, or None
          box,        \* the cached sandbox, or None
          pc, req,    \* the next call of a request, and what it has at hand
          deaths,
          acked,      \* history: what the last completed sync stored
          raced,      \* history: names two writers of the object overlapped on
          written,    \* history: pieces acknowledged in the sandbox
          blurred,    \* history: names an append wrote back stale
          unmounted,  \* history: names the last mount left out after a failure
          outlived    \* history: sessions deleted while in use or incompletely

stores == <<table, objects, session>>
synced == <<acked, raced, outlived>>
edited == <<written, blurred, unmounted>>
vars == <<stores, box, pc, req, deaths, synced, edited>>

Op == {"write", "append", "rm", "sync", "destroy", "persist", "delete_file", "delete_session"}
InSandbox == {"write", "append", "rm", "sync"}
Fails(service) == service \in Faults
Pieces(content) == ToSet(content)
NoFile == [n \in Name |-> <<>>]

(* op and name; the id of the sandbox and of the session it has looked up; *)
(* the content it has read; the names found, or the rows listed; and, for  *)
(* the history, what was stored when it listed them.                       *)
Blank == [op |-> None, name |-> None, box |-> None, session |-> None,
          held |-> <<>>, names |-> {}, todo |-> <<>>, known |-> NoFile]

Goto(r, label, with) ==
  /\ pc' = [pc EXCEPT ![r] = label]
  /\ req' = [req EXCEPT ![r] = IF label = "done" THEN Blank ELSE with]
Finish(r) == Goto(r, "done", Blank)

FileRow(id, s, n) ==
  [id |-> id, tenant |-> "t", session |-> s, execution |-> None, name |-> n,
   key |-> n, version |-> 1, parent |-> None]

\* Mutant: the limit is left at a default that is smaller.
SessionRowsPage(s) ==
  ListFiles(table, [tenant |-> "t", session |-> s, execution |-> None, limit |-> 0,
                    offset |-> 0, default |-> 1, most |-> ListLimit])

SessionRows(s) ==
  ListFiles(table, [tenant |-> "t", session |-> s, execution |-> None, limit |-> ListLimit,
                    offset |-> 0, default |-> ListLimit, most |-> ListLimit])

Init ==
  /\ table = SetToSeq({FileRow(<<"s0", n>>, "s0", n) : n \in Stored})
  /\ objects = [n \in Stored |-> <<"s0">>]
  /\ session = "s0"
  /\ box = None
  /\ pc = [r \in Request |-> "idle"]
  /\ req = [r \in Request |-> Blank]
  /\ deaths = 0
  /\ acked = [n \in Name |-> IF n \in Stored THEN <<"s0">> ELSE <<>>]
  /\ raced = {} /\ blurred = {} /\ outlived = {} /\ unmounted = {}
  /\ written = [n \in Name |-> {}]

\* resolveSessionKey, Destroy, the session handlers and the end of a run.
Arrive(r) ==
  /\ pc[r] = "idle"
  /\ \E o \in Op, n \in Name :
       Goto(r, CASE o \in InSandbox -> "lookup" [] o = "destroy" -> "search"
                 [] o = "persist" -> "persist" [] OTHER -> "find",
            [Blank EXCEPT !.op = o, !.name = n])
  /\ UNCHANGED <<stores, box, deaths, synced, edited>>

Entry(r) ==
  CASE req[r].op = "append" -> "read" [] req[r].op = "sync" -> "search" [] OTHER -> "write"
Answers == box # None /\ box.alive

(* GetOrCreate: a sandbox that does not answer is evicted, a missing one   *)
(* is created by one request at a time, the others wait.                   *)
UseCached(r) ==
  /\ pc[r] = "lookup" /\ Answers
  /\ Goto(r, Entry(r), req[r])
  /\ UNCHANGED <<stores, box, deaths, synced, edited>>

EvictDead(r) ==
  /\ pc[r] = "lookup" /\ box # None /\ ~Answers
  /\ box' = None
  /\ UNCHANGED <<stores, pc, req, deaths, synced, edited>>

\* GetOrCreateSession, then the list of files to mount.
CreateBox(r) ==
  LET s == IF session = None THEN r ELSE session IN
  /\ pc[r] = "lookup" /\ box = None /\ \A q \in Request : pc[q] # "mount"
  /\ session' = s
  /\ \/ Goto(r, "mount", [req[r] EXCEPT !.session = s, !.todo = SessionRows(s), !.known = acked])
     \/ Fails("db") /\ Goto(r, "mount", [req[r] EXCEPT !.session = s])
  /\ UNCHANGED <<table, objects, box, deaths, synced, edited>>

(* What the rows of the list are mounted as without the files left out; a  *)
(* row without an object is skipped, rows of one name have the same key.   *)
Loaded(rows, left) ==
  [n \in Name |->
     IF (\E i \in DOMAIN rows : rows[i].name = n) /\ n \in DOMAIN objects \ left
     THEN objects[n] ELSE <<>>]

(* The files a failure can keep out of a mount: each one whose object is   *)
(* not downloaded or not read to its end, all of a refused upload.         *)
MayLeaveOut(r) ==
  LET listed == {n \in Name : \E row \in Rows(req[r].todo) : row.name = n} IN
  (IF Fails("s3") THEN SUBSET listed ELSE {{}})
    \cup (IF Fails("sandbox") THEN {listed} ELSE {})

Appending(n) == {q \in Request : pc[q] = "append" /\ req[q].name = n}

\* mountSessionFiles, then the insertion in the map; a failure only warns.
Mount(r) ==
  /\ pc[r] = "mount"
  /\ \E left \in MayLeaveOut(r) :
       LET files == Loaded(req[r].todo, left) IN
       /\ box' = [id |-> r, session |-> req[r].session, files |-> files, alive |-> TRUE]
       /\ written' = [n \in Name |-> Pieces(files[n])]
       /\ unmounted' = left
  /\ blurred' = blurred \cup {n \in Name : Appending(n) # {}}
  /\ Goto(r, Entry(r), [Blank EXCEPT !.op = req[r].op, !.name = req[r].name])
  /\ UNCHANGED <<stores, deaths, synced>>

\* getSession and a call to a sandbox that is gone: error and eviction.
Unreachable(r) ==
  /\ pc[r] \in {"write", "append"} /\ ~Answers
  /\ box' = None
  /\ Finish(r)
  /\ UNCHANGED <<stores, deaths, synced, edited>>

Change(r, content, pieces) ==
  LET n == req[r].name IN
  /\ box' = [box EXCEPT !.files[n] = content]
  /\ written' = [written EXCEPT ![n] = pieces]
  /\ blurred' = IF Appending(n) \subseteq {r} THEN blurred ELSE blurred \cup {n}
  /\ UNCHANGED unmounted

\* WriteFile replaces the content; a command may remove the file.
Write(r) ==
  /\ pc[r] = "write" /\ Answers
  /\ IF req[r].op = "rm" THEN Change(r, <<>>, {}) ELSE Change(r, <<r>>, {r})
  /\ Finish(r)
  /\ UNCHANGED <<stores, deaths, synced>>

(* Appending reads the file.  Any error counts as an empty file and the    *)
(* write goes on; a sandbox that is gone is evicted first.                 *)
AppendRead(r) ==
  LET n == req[r].name IN
  /\ pc[r] = "read"
  /\ \/ /\ Answers
        /\ Goto(r, "append", [req[r] EXCEPT !.held = box.files[n]])
        /\ UNCHANGED <<box, blurred>>
     \/ /\ ~Answers \/ Fails("sandbox")
        /\ Goto(r, "append", req[r])
        /\ box' = IF Answers THEN box ELSE None
        /\ blurred' = blurred \cup {n}
  /\ UNCHANGED <<stores, deaths, synced, written, unmounted>>

\* Mutant: what was read is not put before the new piece.
AppendedAlone(r) == <<r>>

Appended(r) == Append(req[r].held, r)

AppendWrite(r) ==
  /\ pc[r] = "append" /\ Answers
  /\ Change(r, Appended(r), written[req[r].name] \cup {r})
  /\ Finish(r)
  /\ UNCHANGED <<stores, deaths, synced>>

(***************************************************************************)
(* SyncSessionFiles, on the sandbox cached when it starts.                 *)
(***************************************************************************)
AfterSync(r) == IF req[r].op = "destroy" THEN "remove" ELSE "done"

Search(r) ==
  /\ pc[r] = "search"
  /\ IF box = None THEN Goto(r, AfterSync(r), req[r])
     ELSE Goto(r, "download",
               [req[r] EXCEPT !.box = box.id, !.session = box.session,
                  !.names = IF Answers THEN {n \in Name : box.files[n] # <<>>} ELSE {}])
  /\ UNCHANGED <<stores, box, deaths, synced, edited>>

\* One file after the other, in the order the sandbox found them; one that is
\* empty by now or cannot be read is skipped.
DownloadFile(r) ==
  /\ pc[r] = "download"
  /\ \/ req[r].names = {} /\ Goto(r, AfterSync(r), req[r])
     \/ \E n \in req[r].names :
          LET next == [req[r] EXCEPT !.names = @ \ {n}]
              same == Answers /\ box.id = req[r].box
          IN
          \/ /\ same /\ box.files[n] # <<>>
             /\ Goto(r, "upload", [next EXCEPT !.name = n, !.held = box.files[n]])
          \/ /\ ~(same /\ box.files[n] # <<>>) \/ Fails("sandbox")
             /\ Goto(r, "download", next)
  /\ UNCHANGED <<stores, box, deaths, synced, edited>>

\* GetOrCreateSession and a downloaded output file, at the end of a run.
Persist(r) ==
  LET s == IF session = None THEN r ELSE session IN
  /\ pc[r] = "persist"
  /\ session' = s
  /\ Goto(r, "upload", [req[r] EXCEPT !.session = s, !.held = <<r>>])
  /\ UNCHANGED <<table, objects, box, deaths, synced, edited>>

AfterFile(r) == IF req[r].op = "persist" THEN "done" ELSE "download"
Race(r, n) ==
  raced' = IF \E q \in Request \ {r} : pc[q] \in {"upload", "record"} /\ req[q].name = n
           THEN raced \cup {n} ELSE raced

UploadObject(r) ==
  LET n == req[r].name IN
  /\ pc[r] = "upload"
  /\ \/ /\ objects' = [m \in DOMAIN objects \cup {n} |->
                         IF m = n THEN req[r].held ELSE objects[m]]
        /\ acked' = [acked EXCEPT ![n] = <<>>]
        /\ Race(r, n)
        /\ Goto(r, "record", req[r])
     \/ /\ Fails("s3")
        /\ Goto(r, AfterFile(r), req[r])
        /\ UNCHANGED <<objects, acked, raced>>
  /\ UNCHANGED <<table, session, box, deaths, outlived, edited>>

\* The session, if a deletion of it is under way.
Deleting(s) ==
  {t \in {s} : \E q \in Request : pc[q] \in {"erase", "delete", "forget"} /\ req[q].session = t}

(* CreateFile; the history notes what is stored for the session there is.  *)
Record(r) ==
  LET n == req[r].name IN
  /\ pc[r] = "record"
  /\ \/ /\ table' = CreateFile(table, FileRow(<<r, n>>, req[r].session, n))
        /\ acked' = IF req[r].session = session THEN [acked EXCEPT ![n] = req[r].held] ELSE acked
        /\ outlived' = outlived \cup Deleting(req[r].session)
     \/ Fails("db") /\ UNCHANGED <<table, acked, outlived>>
  /\ Goto(r, AfterFile(r), req[r])
  /\ UNCHANGED <<objects, session, box, deaths, raced, edited>>

\* Destroy, Cleanup and Shutdown remove the sandbox whatever the sync did.
RemoveBox(r) ==
  /\ pc[r] = "remove"
  /\ box' = None
  /\ Finish(r)
  /\ UNCHANGED <<stores, deaths, synced, edited>>

\* The sandbox expires or its container dies.
Die ==
  /\ Answers /\ deaths < MaxDeaths
  /\ deaths' = deaths + 1
  /\ box' = [box EXCEPT !.alive = FALSE]
  /\ UNCHANGED <<stores, pc, req, synced, edited>>

(***************************************************************************)
(* The session handlers.                                                   *)
(***************************************************************************)
\* Mutant: deleting a session deletes one row of it.
ToDeleteFirst(r, rows) == IF rows = <<>> THEN <<>> ELSE <<Head(rows)>>

\* DeleteFile takes the newest row of the name, Delete every row listed.
ToDelete(r, rows) ==
  LET named == {i \in DOMAIN rows : rows[i].name = req[r].name} IN
  CASE req[r].op = "delete_session" -> rows
    [] req[r].op # "delete_session" /\ named = {} -> <<>>
    [] OTHER -> <<rows[CHOOSE i \in named : \A j \in named : i <= j]>>

Find(r) ==
  LET rows == ToDelete(r, SessionRows(session)) IN
  /\ pc[r] = "find"
  /\ IF session = None \/ (req[r].op = "delete_file" /\ rows = <<>>) THEN Finish(r)
     ELSE Goto(r, "erase", [req[r] EXCEPT !.session = session, !.todo = rows])
  /\ outlived' = IF Cardinality({i \in DOMAIN table : table[i].session = session}) > ListLimit
                 THEN outlived \cup {session} ELSE outlived
  /\ UNCHANGED <<stores, box, deaths, acked, raced, edited>>

\* DeleteObject, best effort.
Erase(r) ==
  LET n == Head(req[r].todo).name IN
  /\ pc[r] = "erase"
  /\ IF req[r].todo = <<>> THEN Goto(r, "forget", req[r]) /\ UNCHANGED <<objects, acked, raced>>
     ELSE /\ \/ objects' = [m \in DOMAIN objects \ {n} |-> objects[m]]
             \/ Fails("s3") /\ UNCHANGED objects
          /\ acked' = [acked EXCEPT ![n] = <<>>]
          /\ Race(r, n)
          /\ Goto(r, "delete", req[r])
  /\ UNCHANGED <<table, session, box, deaths, outlived, edited>>

\* DeleteFile of the row.  Deleting the session goes on after a failure.
DeleteRow(r) ==
  /\ pc[r] = "delete"
  /\ \/ table' = DeleteFile(table, Head(req[r].todo).id) /\ UNCHANGED outlived
     \/ /\ Fails("db") /\ UNCHANGED table
        /\ outlived' = outlived \cup {req[r].session}
  /\ Goto(r, IF req[r].op = "delete_file" THEN "done" ELSE "erase", [req[r] EXCEPT !.todo = Tail(@)])
  /\ UNCHANGED <<objects, session, box, deaths, acked, raced, edited>>

\* A cached sandbox that knows the session, or a request that will write for it.
StillUsed(s) ==
  \/ box # None /\ box.session = s
  \/ \E q \in Request : /\ pc[q] \in {"mount", "download", "upload", "record"}
                        /\ req[q].session = s

(* DeleteSession, by external id: the row of the moment, which may be that *)
(* of a session created since.                                             *)
Forget(r) ==
  /\ pc[r] = "forget"
  /\ \/ /\ session' = None
        /\ acked' = NoFile
        /\ outlived' = outlived \cup
             {s \in {session} \ {None} : s # req[r].session \/ StillUsed(s)}
     \/ Fails("db") /\ UNCHANGED <<session, acked, outlived>>
  /\ Finish(r)
  /\ UNCHANGED <<table, objects, box, deaths, raced, edited>>

AllDone == (\A r \in Request : pc[r] = "done") /\ UNCHANGED vars

UseStep(r) ==
  \/ UseCached(r) \/ EvictDead(r) \/ CreateBox(r) \/ Mount(r)
  \/ Unreachable(r) \/ Write(r) \/ AppendRead(r) \/ AppendWrite(r)
SyncStep(r) ==
  \/ Search(r) \/ DownloadFile(r) \/ Persist(r) \/ UploadObject(r) \/ Record(r) \/ RemoveBox(r)
DeleteStep(r) == Find(r) \/ Erase(r) \/ DeleteRow(r) \/ Forget(r)

Next ==
  \/ \E r \in Request : Arrive(r) \/ UseStep(r) \/ SyncStep(r) \/ DeleteStep(r)
  \/ Die
  \/ AllDone

Spec == Init /\ [][Next]_vars
-----------------------------------------------------------------------------
(* The list a mount works from is full without a row of this name: newer   *)
(* rows have displaced it.                                                 *)
Displaced(r, n) ==
  Len(req[r].todo) = ListLimit /\ \A row \in Rows(req[r].todo) : row.name # n

(* What the last sync of a file stored is in the next sandbox, unless two  *)
(* writers of the object overlapped, newer rows have displaced the file    *)
(* from the list, or this very mount met a failure that left the file out. *)
RestoresSynced ==
  [][\A r \in Request :
       pc[r] = "mount" /\ pc'[r] # "mount" =>
         \A n \in Name \ raced :
           acked[n] # <<>> /\ acked[n] = req[r].known[n] =>
             \/ box'.files[n] = acked[n]
             \/ Displaced(r, n)
             \/ n \in unmounted']_vars

(* An acknowledged write or append is in the file as long as the sandbox   *)
(* lives, unless an append overlapped another write or its read failed.    *)
AppendsKept ==
  box # None => \A n \in Name \ blurred : written[n] \subseteq Pieces(box.files[n])

(* What the history calls stored is what the object store has and the list *)
(* shows, unless two writers of the object overlapped; and the rows of a   *)
(* deleted session are gone, unless it was in use while it was deleted,    *)
(* had more rows than the list holds, or the database failed.              *)
RowsFollowSession ==
  /\ \A row \in Rows(table) : row.session \in {session} \cup outlived
  /\ \A n \in Name \ raced : acked[n] # <<>> =>
       /\ n \in DOMAIN objects /\ objects[n] = acked[n]
       /\ \E row \in Rows(table) : row.name = n /\ row.session = session
=============================================================================
