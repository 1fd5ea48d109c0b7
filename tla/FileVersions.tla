---------------------------- MODULE FileVersions ----------------------------
(***************************************************************************)
(* The endpoints of /v1/files (handlers/files.go): rows in the database,   *)
(* objects in the store, and requests that change the two in separate      *)
(* calls.  The object of an upload has a key of its own; that of an update *)
(* is derived from tenant, execution, version and name, so two updates may *)
(* derive the same one.  What an object holds is named by the request that *)
(* wrote it, and a request writes one row, whose id is the request's.      *)
(***************************************************************************)
EXTENDS FileTable

CONSTANTS Request, Tenant, Name,
          Harvest,        \* the rows executions left before, with their objects
          Faults,         \* the services that may fail: a subset of {"db", "s3"}
          MaxCrashes      \* bound: crashes of the server

ASSUME FileAssumption ==
  /\ Faults \subseteq {"db", "s3"}
  /\ MaxCrashes \in Nat
  /\ None \notin Request \cup Name
  /\ Harvest \in Seq(Rows(Harvest))
  /\ \A row \in Rows(Harvest) :
       row.parent = None /\ row.id \notin Request \cup {None} /\ row.version \in Nat
  /\ \A i, j \in DOMAIN Harvest :
       Harvest[i].key = Harvest[j].key \/ Harvest[i].id = Harvest[j].id => i = j

VARIABLES table,      \* sandbox.files
          objects,    \* the object store: key -> who wrote the content
          pc,         \* the next call of a request
          tenant,     \* the tenant of a request
          op,         \* the endpoint
          held,       \* the row a request has read or is about to write
          contested,  \* history: keys written while somebody used them
          forsaken,   \* history: keys of objects a failure left behind
          severed,    \* history: rows written by a call whose answer was lost
          crashes

vars == <<table, objects, pc, tenant, op, held, contested, forsaken, severed, crashes>>
history == <<contested, forsaken, severed>>

Op == {"upload", "update", "delete", "download"}
Fails(service) == service \in Faults

\* A row of Upload, and the next version of a row by Update.
UploadKey(r, t, n) == <<t, "files", r, n>>
Uploaded(r, t, n) ==
  [id |-> r, tenant |-> t, session |-> None, execution |-> None, name |-> n,
   key |-> UploadKey(r, t, n), version |-> 1, parent |-> None]

VersionKey(row) == <<row.tenant, row.execution, row.version + 1, row.name>>
RootOf(row) == IF row.parent = None THEN row.id ELSE row.parent

NextVersion(r, row) ==
  [id |-> r, tenant |-> row.tenant, session |-> row.session, execution |-> row.execution,
   name |-> row.name, key |-> VersionKey(row), version |-> row.version + 1,
   parent |-> RootOf(row)]

Init ==
  /\ table = Harvest
  /\ objects = [k \in {row.key : row \in Rows(Harvest)} |->
                  (CHOOSE row \in Rows(Harvest) : row.key = k).id]
  /\ pc = [r \in Request |-> "idle"]
  /\ tenant = [r \in Request |-> None]
  /\ op = [r \in Request |-> None]
  /\ held = [r \in Request |-> None]
  /\ contested = {} /\ forsaken = {} /\ severed = {}
  /\ crashes = 0

Goto(r, label) == pc' = [pc EXCEPT ![r] = label]

\* A request to upload starts with its object, every other with its row.
ArriveUpload(r) ==
  /\ pc[r] = "idle"
  /\ \E t \in Tenant, n \in Name :
       /\ tenant' = [tenant EXCEPT ![r] = t]
       /\ held' = [held EXCEPT ![r] = Uploaded(r, t, n)]
  /\ op' = [op EXCEPT ![r] = "upload"]
  /\ Goto(r, "put")
  /\ UNCHANGED <<table, objects, history, crashes>>

(* GetFile, scoped to the tenant; an unknown id is answered 404, which     *)
(* changes nothing.  The row is used after it may have changed.            *)
Read(r) ==
  /\ pc[r] = "idle"
  /\ \E t \in Tenant, o \in Op \ {"upload"} :
       \E id \in Ids(table) : \E row \in GetFile(table, id, t) :
         /\ tenant' = [tenant EXCEPT ![r] = t]
         /\ op' = [op EXCEPT ![r] = o]
         /\ held' = [held EXCEPT ![r] = IF o = "update" THEN NextVersion(r, row) ELSE row]
         /\ Goto(r, CASE o = "update" -> "put" [] o = "delete" -> "delete" [] o = "download" -> "load")
  /\ UNCHANGED <<table, objects, history, crashes>>

\* Somebody has a row with this key, or will write or delete its object.
InUse(k, r) ==
  \/ \E row \in Rows(table) : row.key = k
  \/ \E q \in Request \ {r} : pc[q] \in {"create", "undo", "erase"} /\ held[q].key = k

(* UploadObject; a failed call may have stored the object all the same,    *)
(* and is answered with an error.                                          *)
PutObject(r) ==
  LET k == held[r].key IN
  /\ pc[r] = "put"
  /\ \/ /\ objects' = [key \in DOMAIN objects \cup {k} |-> IF key = k THEN r ELSE objects[key]]
        /\ contested' = IF InUse(k, r) THEN contested \cup {k} ELSE contested
        /\ \/ Goto(r, "create") /\ UNCHANGED forsaken
           \/ Fails("s3") /\ Goto(r, "done") /\ forsaken' = forsaken \cup {k}
     \/ Fails("s3") /\ Goto(r, "done") /\ UNCHANGED <<objects, contested, forsaken>>
  /\ UNCHANGED <<table, tenant, op, held, severed, crashes>>

\* Mutant: a row that could not be written keeps its object.
CreateRowNoUndo(r) ==
  /\ pc[r] = "create"
  /\ \/ MayInsert(table, held[r]) /\ table' = CreateFile(table, held[r])
     \/ (~MayInsert(table, held[r]) \/ Fails("db")) /\ UNCHANGED table
  /\ Goto(r, "done")
  /\ UNCHANGED <<objects, tenant, op, held, history, crashes>>

(* CreateFile.  The insertion fails when the parent has gone meanwhile; a  *)
(* call may fail before or after the row was written.                      *)
CreateRow(r) ==
  /\ pc[r] = "create"
  /\ \/ /\ MayInsert(table, held[r])
        /\ table' = CreateFile(table, held[r])
        /\ \/ Goto(r, "done") /\ UNCHANGED severed
           \/ Fails("db") /\ Goto(r, "undo") /\ severed' = severed \cup {r}
     \/ /\ ~MayInsert(table, held[r]) \/ Fails("db")
        /\ Goto(r, "undo")
        /\ UNCHANGED <<table, severed>>
  /\ UNCHANGED <<objects, tenant, op, held, contested, forsaken, crashes>>

\* DeleteObject at the end of a failed write or of a deletion: best effort.
EraseObject(r) ==
  LET k == held[r].key IN
  /\ pc[r] \in {"undo", "erase"}
  /\ \/ /\ objects' = [key \in DOMAIN objects \ {k} |-> objects[key]]
        /\ UNCHANGED forsaken
     \/ /\ Fails("s3")
        /\ forsaken' = forsaken \cup {k}
        /\ UNCHANGED objects
  /\ Goto(r, "done")
  /\ UNCHANGED <<table, tenant, op, held, contested, severed, crashes>>

\* Mutant: the object is deleted although its row could not be.
DeleteRowRegardless(r) ==
  /\ pc[r] = "delete"
  /\ table' = IF HasChild(table, held[r].id) THEN table ELSE DeleteFile(table, held[r].id)
  /\ Goto(r, "erase")
  /\ UNCHANGED <<objects, tenant, op, held, history, crashes>>

(* DeleteFile: the row may have gone, or have become a parent, since it    *)
(* was read; a call may fail before or after the row was deleted.          *)
DeleteRow(r) ==
  LET gone == GetFile(table, held[r].id, tenant[r]) = {}
      kept == HasChild(table, held[r].id)
  IN
  /\ pc[r] = "delete"
  /\ \/ /\ ~gone /\ ~kept
        /\ table' = DeleteFile(table, held[r].id)
        /\ \/ Goto(r, "erase") /\ UNCHANGED forsaken
           \/ Fails("db") /\ Goto(r, "done") /\ forsaken' = forsaken \cup {held[r].key}
     \/ /\ gone \/ kept \/ Fails("db")
        /\ Goto(r, "done")
        /\ UNCHANGED <<table, forsaken>>
  /\ UNCHANGED <<objects, tenant, op, held, contested, severed, crashes>>

\* DownloadObject: answers what the key holds by now, or an error.
Download(r) ==
  /\ pc[r] = "load"
  /\ Goto(r, "done")
  /\ UNCHANGED <<table, objects, tenant, op, held, history, crashes>>

\* The server dies; what its requests had not finished stays as it is.
Crash ==
  /\ crashes < MaxCrashes
  /\ crashes' = crashes + 1
  /\ forsaken' = forsaken \cup
       {held[r].key : r \in {q \in Request : pc[q] \in {"create", "undo", "erase"}}}
  /\ pc' = [r \in Request |-> IF pc[r] = "idle" THEN "idle" ELSE "done"]
  /\ UNCHANGED <<table, objects, tenant, op, held, contested, severed>>

AllDone == (\A r \in Request : pc[r] = "done") /\ UNCHANGED vars

RequestStep(r) ==
  \/ ArriveUpload(r) \/ Read(r) \/ PutObject(r) \/ CreateRow(r)
  \/ EraseObject(r) \/ DeleteRow(r) \/ Download(r)

Next == (\E r \in Request : RequestStep(r)) \/ Crash \/ AllDone

Spec == Init /\ [][Next]_vars
-----------------------------------------------------------------------------
(* A row can be downloaded, and is answered with what was uploaded for it, *)
(* as long as nobody wrote its key while another used it and no answer was *)
(* lost: objects are written before their row and deleted after it.        *)
RowHasItsObject ==
  \A row \in Rows(table) :
    \/ row.key \in DOMAIN objects /\ objects[row.key] = row.id
    \/ row.key \in contested
    \/ row.id \in severed

(* No object is left behind: it has a row, or a request that will write    *)
(* its row or delete it, or one of the recorded failures left it.          *)
ObjectAccountedFor ==
  \A k \in DOMAIN objects :
    \/ \E row \in Rows(table) : row.key = k
    \/ \E r \in Request : pc[r] \in {"create", "undo", "erase"} /\ held[r].key = k
    \/ k \in forsaken \cup contested

(* The versions of a file hang under its first version, which exists as    *)
(* long as any of them does and has the same name, tenant and execution;   *)
(* so whichever version one asks for, ListFileVersions returns every       *)
(* version of the file and nothing else.                                   *)
VersionsTree ==
  \A row \in Rows(table) :
    /\ row.parent # None =>
         \E root \in Rows(table) :
           /\ root.id = row.parent /\ root.parent = None
           /\ root.version < row.version
           /\ <<root.tenant, root.name, root.execution>> = <<row.tenant, row.name, row.execution>>
    /\ ListFileVersions(table, row.id, row.tenant) = {f \in Rows(table) : RootOf(f) = RootOf(row)}
=============================================================================
