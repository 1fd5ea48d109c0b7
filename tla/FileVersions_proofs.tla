------------------------ MODULE FileVersions_proofs ------------------------
(***************************************************************************)
(* Proofs about FileVersions, for any number of requests and files, any    *)
(* faults and any number of crashes.                                       *)
(***************************************************************************)
EXTENDS FileVersions, SequenceTheorems, TLAPS

-----------------------------------------------------------------------------
(***************************************************************************)
(* The table: its ids are distinct, so a deletion takes one row.           *)
(***************************************************************************)
IsTable(t) ==
  /\ t \in Seq(Rows(t))
  /\ \A i, j \in DOMAIN t : t[i].id = t[j].id => i = j

\* A sequence is a sequence of its own elements.
LEMMA OwnElements ==
  ASSUME NEW S, NEW t \in Seq(S)
  PROVE  t \in Seq(Rows(t)) /\ Rows(t) \subseteq S
BY DEF Rows, ToSet

\* Rows with one id are one row.
LEMMA OneRowPerId ==
  ASSUME NEW t, IsTable(t), NEW a \in Rows(t), NEW b \in Rows(t), a.id = b.id
  PROVE  a = b
BY DEF IsTable, Rows, ToSet

\* CreateFile adds its row.
LEMMA CreateAdds ==
  ASSUME NEW t, IsTable(t), NEW row, row.id \notin Ids(t)
  PROVE  IsTable(CreateFile(t, row)) /\ Rows(CreateFile(t, row)) = Rows(t) \cup {row}
<1>1. CreateFile(t, row) \in Seq(Rows(t) \cup {row})
  BY DEF IsTable, CreateFile
<1>2. /\ Len(CreateFile(t, row)) = Len(t) + 1 /\ DOMAIN t = 1 .. Len(t) /\ Len(t) \in Nat
      /\ DOMAIN CreateFile(t, row) = 1 .. Len(t) + 1
      /\ \A i \in 1 .. Len(t) : CreateFile(t, row)[i] = t[i]
      /\ CreateFile(t, row)[Len(t) + 1] = row
  BY DEF IsTable, CreateFile
<1>3. Rows(CreateFile(t, row)) = Rows(t) \cup {row}
  BY <1>2 DEF Rows, ToSet
<1>4. \A i \in 1 .. Len(t) : t[i].id # row.id
  BY <1>2 DEF Ids, Rows, ToSet
<1>5. \A i, j \in DOMAIN CreateFile(t, row) :
        CreateFile(t, row)[i].id = CreateFile(t, row)[j].id => i = j
  BY <1>2, <1>4 DEF IsTable
<1>6. QED
  BY <1>1, <1>3, <1>5 DEF IsTable

\* The places that are left when the k-th is taken out.
Skip(k, i) == IF i < k THEN i ELSE i + 1

AllButOne(n, k) ==
  /\ \A i \in 1 .. n - 1 : Skip(k, i) \in (1 .. n) \ {k}
  /\ \A j \in (1 .. n) \ {k} : \E i \in 1 .. n - 1 : Skip(k, i) = j
  /\ \A i, j \in 1 .. n - 1 : Skip(k, i) = Skip(k, j) => i = j

\* They are all but the k-th, each once.
LEMMA Skipping ==
  ASSUME NEW n \in Nat, NEW k \in 1 .. n
  PROVE  AllButOne(n, k)
<1>1. ASSUME NEW j \in (1 .. n) \ {k}
      PROVE  \E i \in 1 .. n - 1 : Skip(k, i) = j
  <2>1. CASE j < k
    <3>1. j \in 1 .. n - 1 /\ Skip(k, j) = j
      BY <2>1 DEF Skip
    <3>2. QED
      BY <3>1
  <2>2. CASE j > k
    <3>1. j - 1 \in 1 .. n - 1 /\ Skip(k, j - 1) = j
      BY <2>2 DEF Skip
    <3>2. QED
      BY <3>1
  <2>3. QED
    BY <2>1, <2>2
<1>2. QED
  BY <1>1 DEF Skip, AllButOne

\* A sequence without its k-th element.
LEMMA WithoutOne ==
  ASSUME NEW S, NEW t \in Seq(S), NEW k \in 1 .. Len(t)
  PROVE  /\ RemoveAt(t, k) \in Seq(S) /\ Len(RemoveAt(t, k)) = Len(t) - 1
         /\ DOMAIN RemoveAt(t, k) = 1 .. Len(t) - 1
         /\ \A i \in 1 .. Len(t) - 1 : RemoveAt(t, k)[i] = t[Skip(k, i)]
<1>1. Len(t) \in Nat /\ k \in Nat /\ 1 <= k /\ k <= Len(t)
  OBVIOUS
<1>2. PICK a \in Seq(S) : /\ a = SubSeq(t, 1, k - 1) /\ Len(a) = k - 1
                         /\ \A i \in 1 .. k - 1 : a[i] = t[i]
  <2>1. /\ SubSeq(t, 1, k - 1) \in Seq(S) /\ Len(SubSeq(t, 1, k - 1)) = k - 1
        /\ \A i \in 1 .. k - 1 : SubSeq(t, 1, k - 1)[i] = t[i]
    BY <1>1
  <2>2. QED
    BY <2>1
<1>3. PICK b \in Seq(S) : /\ b = SubSeq(t, k + 1, Len(t)) /\ Len(b) = Len(t) - k
                         /\ \A i \in 1 .. Len(t) - k : b[i] = t[i + k]
  <2>1. /\ SubSeq(t, k + 1, Len(t)) \in Seq(S) /\ Len(SubSeq(t, k + 1, Len(t))) = Len(t) - k
        /\ \A i \in 1 .. Len(t) - k : SubSeq(t, k + 1, Len(t))[i] = t[i + k]
    BY <1>1
  <2>2. QED
    BY <2>1
<1>4. PICK u : u = RemoveAt(t, k) /\ u = a \o b
  BY <1>2, <1>3 DEF RemoveAt
<1>5. /\ u \in Seq(S) /\ Len(u) = Len(a) + Len(b)
      /\ \A i \in 1 .. Len(a) + Len(b) : u[i] = IF i <= Len(a) THEN a[i] ELSE b[i - Len(a)]
  BY ONLY <1>4, ConcatProperties, a \in Seq(S), b \in Seq(S)
<1>6. PICK n \in Nat : n = Len(t) /\ k <= n /\ Len(a) = k - 1 /\ Len(b) = n - k
  BY <1>1, <1>2, <1>3
<1>7. Len(u) = n - 1 /\ DOMAIN u = 1 .. n - 1
  <2>1. Len(u) = n - 1
    BY ONLY <1>1, <1>5, <1>6
  <2>2. QED
    BY ONLY <2>1, <1>5
<1>8. \A i \in 1 .. n - 1 : u[i] = IF i <= k - 1 THEN a[i] ELSE b[i - (k - 1)]
  <2>1. Len(a) + Len(b) = n - 1 /\ Len(a) = k - 1
    BY ONLY <1>1, <1>6
  <2>2. \A i \in 1 .. Len(a) + Len(b) : u[i] = IF i <= Len(a) THEN a[i] ELSE b[i - Len(a)]
    BY ONLY <1>5
  <2>3. QED
    BY ONLY <2>1, <2>2
<1>9. \A i \in k .. n - 1 : u[i] = t[i + 1]
  <2>1. SUFFICES ASSUME NEW i \in k .. n - 1 PROVE u[i] = t[i + 1]
    OBVIOUS
  <2>2. /\ i \in 1 .. n - 1 /\ ~(i <= k - 1)
        /\ i - (k - 1) \in 1 .. n - k /\ (i - (k - 1)) + k = i + 1
    BY ONLY <1>1, <1>6, i \in k .. n - 1
  <2>3. b[i - (k - 1)] = t[i + 1]
    BY ONLY <1>3, <1>6, <2>2
  <2>4. QED
    BY ONLY <1>8, <2>2, <2>3
<1>10. \A i \in 1 .. k - 1 : u[i] = t[i]
  <2>1. \A i \in 1 .. k - 1 : i \in 1 .. n - 1 /\ i <= k - 1
    BY ONLY <1>1, <1>6
  <2>2. QED
    BY ONLY <1>2, <1>8, <2>1
<1>11. \A i \in 1 .. n - 1 : u[i] = t[Skip(k, i)]
  <2>1. \A i \in 1 .. n - 1 : IF i < k THEN i \in 1 .. k - 1 ELSE i \in k .. n - 1
    BY ONLY <1>1, <1>6
  <2>2. QED
    BY ONLY <1>9, <1>10, <2>1 DEF Skip
<1>12. QED
  BY ONLY <1>4, <1>5, <1>6, <1>7, <1>11

\* DeleteFile takes the rows with the id away.
LEMMA DeleteRemoves ==
  ASSUME NEW t, IsTable(t), NEW id
  PROVE  /\ IsTable(DeleteFile(t, id))
         /\ Rows(DeleteFile(t, id)) = {row \in Rows(t) : row.id # id}
<1>1. CASE id \notin Ids(t)
  BY <1>1 DEF DeleteFile, Ids
<1>2. CASE id \in Ids(t)
  <2>1. \E i \in DOMAIN t : t[i].id = id
    BY <1>2 DEF Ids, Rows, ToSet
  <2>2. PICK k \in DOMAIN t : t[k].id = id /\ DeleteFile(t, id) = RemoveAt(t, k)
    BY <1>2, <2>1 DEF DeleteFile
  <2>3. /\ DOMAIN t = 1 .. Len(t) /\ Len(t) \in Nat /\ t \in Seq(Rows(t))
        /\ k \in Nat /\ 1 <= k /\ k <= Len(t)
    BY <2>2 DEF IsTable
  <2>6. PICK u : u = RemoveAt(t, k)
    OBVIOUS
  <2>7. PICK n : n \in Nat /\ n = Len(t) /\ k \in 1 .. n /\ DOMAIN t = 1 .. n
    BY ONLY <2>3
  <2>8. /\ u \in Seq(Rows(t)) /\ DOMAIN u = 1 .. n - 1
        /\ \A i \in 1 .. n - 1 : u[i] = t[Skip(k, i)]
    BY ONLY <2>3, <2>6, <2>7, WithoutOne
  <2>9. /\ \A i \in 1 .. n - 1 : Skip(k, i) \in (1 .. n) \ {k}
        /\ \A j \in (1 .. n) \ {k} : \E i \in 1 .. n - 1 : Skip(k, i) = j
        /\ \A i, j \in 1 .. n - 1 : Skip(k, i) = Skip(k, j) => i = j
    <3>1. AllButOne(n, k)
      BY ONLY <2>7, Skipping
    <3>2. QED
      BY ONLY <3>1 DEF AllButOne
  <2>10. \A i, j \in 1 .. n : t[i].id = t[j].id => i = j
    BY <2>7 DEF IsTable
  <2>11. Rows(u) = {row \in Rows(t) : row.id # id}
    <3>1. \A j \in 1 .. n : t[j].id = id <=> j = k
      BY ONLY <2>2, <2>7, <2>10
    <3>2. \A i \in DOMAIN u : u[i] \in Rows(t) /\ u[i].id # id
      <4>1. \A i \in DOMAIN u : \E j \in 1 .. n : j # k /\ u[i] = t[j]
        BY ONLY <2>8, <2>9
      <4>2. QED
        BY ONLY <2>7, <3>1, <4>1 DEF Rows, ToSet
    <3>3. \A j \in DOMAIN t : t[j].id # id => t[j] \in Rows(u)
      <4>1. \A j \in 1 .. n : j # k => \E i \in DOMAIN u : u[i] = t[j]
        BY ONLY <2>8, <2>9
      <4>2. QED
        BY ONLY <2>7, <3>1, <4>1 DEF Rows, ToSet
    <3>4. QED
      BY ONLY <3>2, <3>3 DEF Rows, ToSet
  <2>12. \A i, j \in DOMAIN u : u[i].id = u[j].id => i = j
    BY ONLY <2>8, <2>9, <2>10
  <2>13. u \in Seq(Rows(u))
    BY <2>8, OwnElements
  <2>14. IsTable(u) /\ u = DeleteFile(t, id)
    BY <2>2, <2>6, <2>12, <2>13 DEF IsTable
  <2>15. QED
    BY ONLY <2>11, <2>14
<1>3. QED
  BY <1>1, <1>2

-----------------------------------------------------------------------------
(***************************************************************************)
(* Requests.  One that has not written its row yet is unborn: no row has   *)
(* its id.                                                                 *)
(***************************************************************************)
Labels == {"idle", "put", "create", "undo", "delete", "erase", "load", "done"}
Unborn == {r \in Request : pc[r] \in {"idle", "put", "create"}}

\* A request that has the object of this key in hand.
Using(r, k) == pc[r] \in {"create", "undo", "erase"} /\ held[r].key = k

Typed ==
  /\ pc \in [Request -> Labels]
  /\ DOMAIN tenant = Request /\ DOMAIN op = Request /\ DOMAIN held = Request

\* A request goes to a label and the others stay where they are.
LEMMA Moves ==
  ASSUME Typed, NEW r \in Request, NEW label \in Labels, Goto(r, label)
  PROVE  /\ pc' \in [Request -> Labels] /\ pc'[r] = label
         /\ \A q \in Request \ {r} : pc'[q] = pc[q]
BY DEF Typed, Goto

\* Who moves where: what a step of a request does to pc and held.
LEMMA StepMoves ==
  ASSUME Typed, NEW r \in Request, RequestStep(r)
  PROVE  /\ \/ pc[r] = "idle" /\ pc'[r] \in {"put", "delete", "load"}
            \/ pc[r] = "put" /\ pc'[r] \in {"create", "done"} /\ PutObject(r)
            \/ pc[r] = "create" /\ pc'[r] \in {"undo", "done"} /\ CreateRow(r)
            \/ pc[r] = "delete" /\ pc'[r] \in {"erase", "done"} /\ DeleteRow(r)
            \/ pc[r] \in {"undo", "erase"} /\ pc'[r] = "done" /\ EraseObject(r)
            \/ pc[r] = "load" /\ pc'[r] = "done" /\ Download(r)
         /\ pc[r] # "idle" => held' = held
         /\ \A q \in Request \ {r} : pc'[q] = pc[q] /\ held'[q] = held[q]
         /\ Typed'
<1>1. CASE ArriveUpload(r)
  <2>1. Goto(r, "put") /\ pc[r] = "idle"
    BY <1>1 DEF ArriveUpload
  <2>2. QED
    BY <1>1, <2>1, Moves DEF ArriveUpload, Typed, Labels
<1>2. CASE Read(r)
  <2>1. PICK t \in Tenant, o \in Op \ {"upload"} :
          /\ tenant' = [tenant EXCEPT ![r] = t] /\ op' = [op EXCEPT ![r] = o]
          /\ DOMAIN held' = Request /\ \A q \in Request \ {r} : held'[q] = held[q]
          /\ Goto(r, CASE o = "update" -> "put" [] o = "delete" -> "delete" [] o = "download" -> "load")
    BY <1>2 DEF Read, Typed
  <2>2. PICK label \in {"put", "delete", "load"} : Goto(r, label)
    BY <2>1 DEF Op
  <2>3. pc[r] = "idle"
    BY <1>2 DEF Read
  <2>4. QED
    BY <2>1, <2>2, <2>3, Moves DEF Typed, Labels
<1>3. CASE PutObject(r)
  <2>1. PICK label \in {"create", "done"} : Goto(r, label)
    BY <1>3 DEF PutObject
  <2>2. QED
    BY <1>3, <2>1, Moves DEF PutObject, Typed, Labels
<1>4. CASE CreateRow(r)
  <2>1. PICK label \in {"undo", "done"} : Goto(r, label)
    BY <1>4 DEF CreateRow
  <2>2. QED
    BY <1>4, <2>1, Moves DEF CreateRow, Typed, Labels
<1>5. CASE DeleteRow(r)
  <2>1. PICK label \in {"erase", "done"} : Goto(r, label)
    BY <1>5 DEF DeleteRow
  <2>2. QED
    BY <1>5, <2>1, Moves DEF DeleteRow, Typed, Labels
<1>6. CASE EraseObject(r)
  BY <1>6, Moves DEF EraseObject, Typed, Labels
<1>7. CASE Download(r)
  BY <1>7, Moves DEF Download, Typed, Labels
<1>8. QED
  BY <1>1, <1>2, <1>3, <1>4, <1>5, <1>6, <1>7 DEF RequestStep

\* A crash ends every request that had begun.
LEMMA CrashMoves ==
  ASSUME Typed, Crash
  PROVE  /\ \A r \in Request : pc'[r] = (IF pc[r] = "idle" THEN "idle" ELSE "done")
         /\ Typed' /\ UNCHANGED <<table, objects, held, contested, severed>>
         /\ Unborn' \subseteq Unborn
BY DEF Crash, Typed, Labels, Unborn

\* Nobody's row is taken back before it is written.
LEMMA UnbornShrinks ==
  ASSUME Typed, NEW r \in Request, RequestStep(r)
  PROVE  Unborn' \subseteq Unborn
BY StepMoves DEF Unborn

\* The types are kept.
LEMMA TypedStep ==
  ASSUME Typed, [Next]_vars
  PROVE  Typed'
<1>1. CASE UNCHANGED vars
  BY <1>1 DEF vars, Typed
<1>2. QED
  BY <1>1, StepMoves, CrashMoves DEF Next, AllDone

-----------------------------------------------------------------------------
(***************************************************************************)
(* Rows and what requests hold of them.                                    *)
(***************************************************************************)
IdsInv ==
  /\ IsTable(table)
  /\ \A row \in Rows(table) : row.id \notin Unborn \cup {None}
  /\ \A r \in Request : pc[r] \in {"put", "create"} => held[r].id = r
  /\ \A r \in Request : pc[r] = "delete" =>
       /\ held[r].id \notin Unborn
       /\ \A row \in Rows(table) : row.id = held[r].id => row = held[r]

\* What a step does to the table: it adds one row, takes one away, or neither.
LEMMA TableSteps ==
  ASSUME Typed, IdsInv, NEW r \in Request, RequestStep(r)
  PROVE  \/ UNCHANGED table
         \/ /\ CreateRow(r) /\ pc[r] = "create" /\ MayInsert(table, held[r])
            /\ table' = CreateFile(table, held[r])
            /\ IsTable(table') /\ Rows(table') = Rows(table) \cup {held[r]}
         \/ /\ DeleteRow(r) /\ pc[r] = "delete" /\ ~HasChild(table, held[r].id)
            /\ held[r] \in Rows(table)
            /\ IsTable(table') /\ Rows(table') = {row \in Rows(table) : row.id # held[r].id}
<1>1. CASE CreateRow(r) /\ MayInsert(table, held[r]) /\ table' = CreateFile(table, held[r])
  <2>1. pc[r] = "create" /\ held[r].id = r /\ r \in Unborn
    BY <1>1 DEF CreateRow, IdsInv, Unborn
  <2>2. held[r].id \notin Ids(table)
    BY <2>1 DEF IdsInv, Ids
  <2>3. QED
    BY <1>1, <2>1, <2>2, CreateAdds DEF IdsInv
<1>2. CASE /\ DeleteRow(r) /\ GetFile(table, held[r].id, tenant[r]) # {}
           /\ ~HasChild(table, held[r].id) /\ table' = DeleteFile(table, held[r].id)
  <2>1. pc[r] = "delete"
    BY <1>2 DEF DeleteRow
  <2>2. held[r] \in Rows(table)
    BY <1>2, <2>1 DEF GetFile, IdsInv
  <2>3. QED
    BY <1>2, <2>1, <2>2, DeleteRemoves DEF IdsInv
<1>3. CASE UNCHANGED table
  BY <1>3
<1>4. QED
  BY <1>1, <1>2, <1>3
     DEF RequestStep, ArriveUpload, Read, PutObject, CreateRow, EraseObject, DeleteRow, Download

\* What a request holds when it has started.
LEMMA Holds ==
  ASSUME Typed, IdsInv, NEW r \in Request, RequestStep(r), pc[r] = "idle"
  PROVE  /\ UNCHANGED <<table, objects, history>>
         /\ \/ \E t \in Tenant, n \in Name : held'[r] = Uploaded(r, t, n) /\ pc'[r] = "put"
            \/ \E row \in Rows(table) :
                 \/ held'[r] = NextVersion(r, row) /\ pc'[r] = "put"
                 \/ held'[r] = row /\ pc'[r] \in {"delete", "load"}
<1>1. CASE ArriveUpload(r)
  BY <1>1, StepMoves DEF ArriveUpload, Typed, Goto
<1>2. CASE Read(r)
  <2>1. PICK o \in Op \ {"upload"}, row \in Rows(table) :
          /\ held' = [held EXCEPT ![r] = IF o = "update" THEN NextVersion(r, row) ELSE row]
          /\ Goto(r, CASE o = "update" -> "put" [] o = "delete" -> "delete" [] o = "download" -> "load")
    BY <1>2 DEF Read, GetFile
  <2>2. CASE o = "update"
    BY <1>2, <2>1, <2>2, Moves DEF Read, Typed, Labels
  <2>3. CASE o \in {"delete", "download"}
    <3>1. \E label \in {"delete", "load"} : Goto(r, label)
      BY <2>1, <2>3
    <3>2. QED
      BY <1>2, <2>1, <2>3, <3>1, Moves DEF Read, Typed, Labels
  <2>4. QED
    BY <2>2, <2>3 DEF Op
<1>3. QED
  BY <1>1, <1>2
     DEF RequestStep, PutObject, CreateRow, EraseObject, DeleteRow, Download

\* A step of a request keeps the ids.
LEMMA IdsRequest ==
  ASSUME Typed, IdsInv, NEW r \in Request, RequestStep(r)
  PROVE  IdsInv'
<1>1. IsTable(table')
  BY TableSteps DEF IdsInv
<1>2. Unborn' \subseteq Unborn
  BY UnbornShrinks
<1>3. ASSUME NEW row \in Rows(table')
      PROVE  row.id \notin Unborn' \cup {None}
  <2>1. CASE row \in Rows(table)
    BY <1>2, <2>1 DEF IdsInv
  <2>2. CASE row = held[r] /\ CreateRow(r) /\ pc[r] = "create"
    <3>1. row.id = r /\ pc'[r] \in {"undo", "done"}
      BY <2>2, StepMoves DEF IdsInv
    <3>2. QED
      BY <3>1, FileAssumption DEF Unborn
  <2>3. QED
    BY <2>1, <2>2, TableSteps
<1>4. ASSUME NEW q \in Request, pc'[q] \in {"put", "create"}
      PROVE  held'[q].id = q
  <2>1. CASE q # r
    BY <1>4, <2>1, StepMoves DEF IdsInv
  <2>2. CASE q = r /\ pc[r] = "idle"
    <3>1. \/ \E t \in Tenant, n \in Name : held'[r] = Uploaded(r, t, n)
          \/ \E row \in Rows(table) : held'[r] = NextVersion(r, row)
      BY <1>4, <2>2, Holds
    <3>2. CASE \E t \in Tenant, n \in Name : held'[r] = Uploaded(r, t, n)
      BY <2>2, <3>2 DEF Uploaded
    <3>3. CASE \E row \in Rows(table) : held'[r] = NextVersion(r, row)
      BY <2>2, <3>3 DEF NextVersion
    <3>4. QED
      BY <3>1, <3>2, <3>3
  <2>3. CASE q = r /\ pc[r] # "idle"
    BY <1>4, <2>3, StepMoves DEF IdsInv
  <2>4. QED
    BY <2>1, <2>2, <2>3
<1>5. ASSUME NEW q \in Request, pc'[q] = "delete"
      PROVE  held'[q].id \notin Unborn' /\ \A row \in Rows(table') : row.id = held'[q].id => row = held'[q]
  <2>1. CASE q # r
    <3>1. pc[q] = "delete" /\ held'[q] = held[q]
      BY <1>5, <2>1, StepMoves
    <3>2. held[q].id \notin Unborn /\ \A row \in Rows(table) : row.id = held[q].id => row = held[q]
      BY <3>1 DEF IdsInv
    <3>3. pc[r] = "create" => held[r].id \in Unborn
      BY DEF IdsInv, Unborn
    <3>4. QED
      BY <1>2, <3>1, <3>2, <3>3, TableSteps
  <2>2. CASE q = r
    <3>1. pc[r] = "idle"
      BY <1>5, <2>2, StepMoves
    <3>2. held'[r] \in Rows(table) /\ UNCHANGED table
      BY <1>5, <2>2, <3>1, Holds
    <3>3. held'[r].id \notin Unborn
      BY <3>2 DEF IdsInv
    <3>4. \A row \in Rows(table) : row.id = held'[r].id => row = held'[r]
      BY <3>2, OneRowPerId DEF IdsInv
    <3>5. QED
      BY <1>2, <2>2, <3>2, <3>3, <3>4
  <2>3. QED
    BY <2>1, <2>2
<1>6. QED
  BY <1>1, <1>3, <1>4, <1>5 DEF IdsInv

\* So does every step.
LEMMA IdsStep ==
  ASSUME Typed, IdsInv, [Next]_vars
  PROVE  IdsInv'
<1>1. CASE UNCHANGED vars
  BY <1>1 DEF vars, IdsInv, Unborn
<1>2. CASE Crash
  BY <1>2, CrashMoves DEF IdsInv
<1>3. QED
  BY <1>1, <1>2, IdsRequest DEF Next, AllDone

-----------------------------------------------------------------------------
(***************************************************************************)
(* Keys.  Whenever two users of a key are not in the record of contested   *)
(* ones, they are the same request, or a row whose request has lost the    *)
(* answer.                                                                 *)
(***************************************************************************)
KeysInv ==
  /\ \A a, b \in Rows(table) : a.key = b.key => a = b \/ a.key \in contested
  /\ \A r \in Request, row \in Rows(table) :
       Using(r, row.key) => row.key \in contested \/ (row.id = r /\ r \in severed)
  /\ \A r, q \in Request :
       pc[r] = "create" /\ r # q /\ Using(q, held[r].key) => held[r].key \in contested
  /\ \A r \in Request : pc[r] = "create" =>
       \/ held[r].key \in DOMAIN objects /\ objects[held[r].key] = r
       \/ held[r].key \in contested

\* Only PutObject and EraseObject touch the store, and only their key.
LEMMA ObjectSteps ==
  ASSUME NEW r \in Request, RequestStep(r)
  PROVE  /\ contested \subseteq contested' /\ severed \subseteq severed'
         /\ \/ UNCHANGED objects
            \/ /\ PutObject(r) /\ held[r].key \in DOMAIN objects' /\ objects'[held[r].key] = r
               /\ InUse(held[r].key, r) => held[r].key \in contested'
            \/ EraseObject(r) /\ pc[r] \in {"undo", "erase"}
         /\ \A k \in DOMAIN objects : k # held[r].key => k \in DOMAIN objects' /\ objects'[k] = objects[k]
<1>1. CASE PutObject(r)
  <2>1. CASE UNCHANGED <<objects, contested>>
    BY <1>1, <2>1 DEF PutObject
  <2>2. CASE /\ objects' = [key \in DOMAIN objects \cup {held[r].key} |->
                              IF key = held[r].key THEN r ELSE objects[key]]
             /\ contested' = IF InUse(held[r].key, r) THEN contested \cup {held[r].key}
                             ELSE contested
    BY <1>1, <2>2 DEF PutObject
  <2>3. QED
    BY <1>1, <2>1, <2>2 DEF PutObject
<1>2. CASE EraseObject(r)
  BY <1>2 DEF EraseObject
<1>3. CASE CreateRow(r)
  BY <1>3 DEF CreateRow
<1>4. CASE ArriveUpload(r) \/ Read(r) \/ DeleteRow(r) \/ Download(r)
  BY <1>4 DEF ArriveUpload, Read, DeleteRow, Download, history
<1>5. QED
  BY <1>1, <1>2, <1>3, <1>4 DEF RequestStep

\* What InUse promises to those who use the key.
LEMMA InUseOf ==
  ASSUME NEW r \in Request, NEW k, ~InUse(k, r)
  PROVE  /\ \A row \in Rows(table) : row.key # k
         /\ \A q \in Request \ {r} : ~Using(q, k)
BY DEF InUse, Using

\* A new row whose writing is answered otherwise is severed.
LEMMA CreateOutcome ==
  ASSUME Typed, NEW r \in Request, CreateRow(r)
  PROVE  /\ UNCHANGED <<objects, held, contested>>
         /\ table' = table \/ pc'[r] = "done" \/ r \in severed'
BY Moves DEF CreateRow, Labels

\* A key is contested from the moment it has two users.
LEMMA KeysUsers ==
  ASSUME Typed, IdsInv, KeysInv, NEW r \in Request, RequestStep(r)
  PROVE  /\ \A a, b \in Rows(table') : a.key = b.key => a = b \/ a.key \in contested'
         /\ \A q \in Request, row \in Rows(table') :
              Using(q, row.key)' => row.key \in contested' \/ (row.id = q /\ q \in severed')
<1>1. contested \subseteq contested' /\ severed \subseteq severed'
  BY ObjectSteps
<1>2. CASE UNCHANGED table
  <2>1. \A a, b \in Rows(table) : a.key = b.key => a = b \/ a.key \in contested'
    BY <1>1 DEF KeysInv
  <2>2. ASSUME NEW q \in Request, NEW row \in Rows(table), Using(q, row.key)'
        PROVE  row.key \in contested' \/ (row.id = q /\ q \in severed')
    <3>1. CASE Using(q, row.key)
      BY <1>1, <2>2, <3>1 DEF KeysInv
    <3>2. CASE ~Using(q, row.key)
      <4>1. q = r /\ held' = held /\ held[r].key = row.key
            /\ \/ PutObject(r) /\ pc'[r] = "create" /\ pc[r] = "put"
               \/ DeleteRow(r) /\ pc'[r] = "erase" /\ pc[r] = "delete"
        BY <2>2, <3>2, StepMoves DEF Using
      <4>2. CASE PutObject(r) /\ pc'[r] = "create" /\ pc[r] = "put"
        <5>1. contested' = IF InUse(held[r].key, r) THEN contested \cup {held[r].key} ELSE contested
          BY <4>2, Moves DEF PutObject, Labels
        <5>2. InUse(held[r].key, r)
          BY <4>1 DEF InUse
        <5>3. QED
          BY <4>1, <5>1, <5>2
      <4>3. CASE DeleteRow(r) /\ pc'[r] = "erase" /\ pc[r] = "delete"
        <5>1. PICK row2 \in Rows(table) : row2.id = held[r].id
          BY <1>2, <4>3, Moves DEF DeleteRow, Labels, GetFile
        <5>2. held[r].id \notin Ids(table')
          <6>1. table' = DeleteFile(table, held[r].id)
            BY <4>3, Moves DEF DeleteRow, Labels
          <6>2. QED
            BY <6>1, DeleteRemoves DEF IdsInv, Ids
        <5>3. QED
          BY <1>2, <5>1, <5>2 DEF Ids
      <4>4. QED
        BY <4>1, <4>2, <4>3
    <3>3. QED
      BY <3>1, <3>2
  <2>3. QED
    BY <1>2, <2>1, <2>2
<1>3. CASE /\ CreateRow(r) /\ pc[r] = "create" /\ Rows(table') = Rows(table) \cup {held[r]}
  <2>1. /\ held[r].id = r /\ \A row \in Rows(table) : row.id # r
        /\ UNCHANGED <<held, contested>>
    BY <1>3, CreateOutcome DEF IdsInv, Unborn
  <2>2. \A row \in Rows(table) : row.key = held[r].key => row.key \in contested
    BY <1>3, <2>1 DEF KeysInv, Using
  <2>3. \A a, b \in Rows(table') : a.key = b.key => a = b \/ a.key \in contested'
    BY <1>3, <2>1, <2>2 DEF KeysInv
  <2>4. ASSUME NEW q \in Request, NEW row \in Rows(table'), Using(q, row.key)'
        PROVE  row.key \in contested' \/ (row.id = q /\ q \in severed')
    <3>1. CASE row \in Rows(table)
      <4>1. Using(q, row.key)
        BY <1>3, <2>1, <2>4, StepMoves DEF Using
      <4>2. QED
        BY <1>1, <3>1, <4>1 DEF KeysInv
    <3>2. CASE row = held[r] /\ q # r
      <4>1. Using(q, held[r].key)
        BY <2>4, <3>2, StepMoves DEF Using
      <4>2. QED
        BY <1>1, <1>3, <3>2, <4>1 DEF KeysInv
    <3>3. CASE row = held[r] /\ q = r
      <4>1. pc'[r] # "done"
        BY <2>4, <3>3 DEF Using
      <4>2. table' # table
        BY <1>3, <2>1
      <4>3. QED
        BY <1>3, <2>1, <3>3, <4>1, <4>2, CreateOutcome
    <3>4. QED
      BY <1>3, <3>1, <3>2, <3>3
  <2>5. QED
    BY <2>3, <2>4
<1>4. CASE /\ DeleteRow(r) /\ pc[r] = "delete" /\ held[r] \in Rows(table)
           /\ Rows(table') = {row \in Rows(table) : row.id # held[r].id}
  <2>1. \A a, b \in Rows(table') : a.key = b.key => a = b \/ a.key \in contested'
    BY <1>1, <1>4 DEF KeysInv
  <2>2. ASSUME NEW q \in Request, NEW row \in Rows(table'), Using(q, row.key)'
        PROVE  row.key \in contested' \/ (row.id = q /\ q \in severed')
    <3>1. CASE q # r
      <4>1. Using(q, row.key)
        BY <2>2, <3>1, StepMoves DEF Using
      <4>2. QED
        BY <1>1, <1>4, <4>1 DEF KeysInv
    <3>2. CASE q = r
      <4>1. held[r].key = row.key /\ row # held[r] /\ row \in Rows(table)
        BY <1>4, <2>2, <3>2, StepMoves DEF Using
      <4>2. QED
        BY <1>1, <1>4, <4>1 DEF KeysInv
    <3>3. QED
      BY <3>1, <3>2
  <2>3. QED
    BY <2>1, <2>2
<1>5. QED
  BY <1>2, <1>3, <1>4, TableSteps

\* A write of an object that somebody uses makes its key contested.
LEMMA PutContests ==
  ASSUME Typed, NEW r \in Request, PutObject(r), pc'[r] = "create"
  PROVE  /\ contested' = IF InUse(held[r].key, r) THEN contested \cup {held[r].key} ELSE contested
         /\ held[r].key \in DOMAIN objects' /\ objects'[held[r].key] = r /\ pc[r] = "put"
         /\ held' = held
BY Moves DEF PutObject, Labels

\* One about to write its row shares its key with no other, uncontested.
LEMMA KeysCreating ==
  ASSUME Typed, IdsInv, KeysInv, NEW r \in Request, RequestStep(r)
  PROVE  \A p, q \in Request :
           pc'[p] = "create" /\ p # q /\ Using(q, held[p].key)' => held'[p].key \in contested'
<1>1. SUFFICES ASSUME NEW p \in Request, NEW q \in Request, pc'[p] = "create", p # q,
                      Using(q, held[p].key)'
               PROVE  held'[p].key \in contested'
  OBVIOUS
<1>2. contested \subseteq contested'
  BY ObjectSteps
<1>3. held'[p] = held[p] /\ pc'[q] \in {"create", "undo", "erase"} /\ held'[q].key = held[p].key
      /\ held'[q] = held[q]
  BY <1>1, StepMoves DEF Using
<1>4. CASE p = r
  <2>1. PutObject(r) /\ Using(q, held[r].key)
    BY <1>1, <1>3, <1>4, StepMoves DEF Using
  <2>2. InUse(held[r].key, r)
    BY <1>1, <1>4, <2>1 DEF InUse, Using
  <2>3. QED
    BY <1>1, <1>3, <1>4, <2>1, <2>2, PutContests
<1>5. CASE p # r
  <2>1. pc[p] = "create"
    BY <1>1, <1>5, StepMoves
  <2>2. CASE Using(q, held[p].key)
    BY <1>1, <1>2, <1>3, <2>1, <2>2 DEF KeysInv
  <2>3. CASE ~Using(q, held[p].key)
    <3>1. q = r /\ held[r].key = held[p].key
      BY <1>3, <2>3, StepMoves DEF Using
    <3>2. CASE PutObject(r) /\ pc'[r] = "create"
      <4>1. InUse(held[r].key, r)
        BY <1>5, <2>1, <3>1 DEF InUse
      <4>2. QED
        BY <1>3, <3>1, <3>2, <4>1, PutContests
    <3>3. CASE DeleteRow(r) /\ pc[r] = "delete" /\ pc'[r] = "erase"
      <4>1. PICK row \in Rows(table) : row.id = held[r].id
        BY <3>3, Moves DEF DeleteRow, Labels, GetFile
      <4>2. row = held[r] /\ row.id \notin Unborn /\ p \in Unborn
        BY <2>1, <3>3, <4>1 DEF IdsInv, Unborn
      <4>3. Using(p, row.key)
        BY <2>1, <3>1, <4>2 DEF Using
      <4>4. QED
        BY <1>2, <1>3, <3>1, <4>2, <4>3 DEF KeysInv
    <3>4. QED
      BY <1>3, <2>3, <3>1, <3>2, <3>3, StepMoves DEF Using
  <2>4. QED
    BY <2>2, <2>3
<1>6. QED
  BY <1>4, <1>5

\* Its object is there.
LEMMA KeysStored ==
  ASSUME Typed, IdsInv, KeysInv, NEW r \in Request, RequestStep(r)
  PROVE  \A p \in Request : pc'[p] = "create" =>
           \/ held'[p].key \in DOMAIN objects' /\ objects'[held'[p].key] = p
           \/ held'[p].key \in contested'
<1>1. SUFFICES ASSUME NEW p \in Request, pc'[p] = "create", held'[p].key \notin contested'
               PROVE  held'[p].key \in DOMAIN objects' /\ objects'[held'[p].key] = p
  OBVIOUS
<1>2. CASE p = r
  BY <1>1, <1>2, StepMoves, PutContests
<1>3. CASE p # r
  <2>1. pc[p] = "create" /\ held'[p] = held[p] /\ held[p].key \notin contested
    BY <1>1, <1>3, StepMoves, ObjectSteps
  <2>2. held[p].key \in DOMAIN objects /\ objects[held[p].key] = p
    BY <2>1 DEF KeysInv
  <2>3. CASE UNCHANGED objects
    BY <2>1, <2>2, <2>3
  <2>4. CASE held[r].key # held[p].key
    BY <2>1, <2>2, <2>4, ObjectSteps
  <2>5. ASSUME held[r].key = held[p].key, PutObject(r), InUse(held[r].key, r) => held[r].key \in contested'
        PROVE  FALSE
    BY <1>1, <1>3, <2>1, <2>5 DEF InUse
  <2>6. ASSUME held[r].key = held[p].key, EraseObject(r), pc[r] \in {"undo", "erase"}
        PROVE  FALSE
    BY <1>1, <1>3, <2>1, <2>6 DEF KeysInv, Using
  <2>7. QED
    BY <2>3, <2>4, <2>5, <2>6, ObjectSteps
<1>4. QED
  BY <1>2, <1>3

\* Every step keeps the keys.
LEMMA KeysStep ==
  ASSUME Typed, IdsInv, KeysInv, [Next]_vars
  PROVE  KeysInv'
<1>1. CASE UNCHANGED vars
  BY <1>1 DEF vars, KeysInv, Using
<1>2. CASE Crash
  <2>1. \A p \in Request : pc'[p] \in {"idle", "done"}
    BY <1>2, CrashMoves
  <2>2. QED
    BY <1>2, <2>1, CrashMoves DEF KeysInv, Using
<1>3. ASSUME NEW r \in Request, RequestStep(r)
      PROVE  KeysInv'
  BY <1>3, KeysUsers, KeysCreating, KeysStored DEF KeysInv
<1>4. QED
  BY <1>1, <1>2, <1>3 DEF Next, AllDone

\* A row keeps the object it was written for.
LEMMA ContentStep ==
  ASSUME Typed, IdsInv, KeysInv, RowHasItsObject, [Next]_vars
  PROVE  RowHasItsObject'
<1>1. CASE UNCHANGED vars
  BY <1>1 DEF vars, RowHasItsObject
<1>2. CASE Crash
  BY <1>2, CrashMoves DEF RowHasItsObject, Crash
<1>3. ASSUME NEW r \in Request, RequestStep(r)
      PROVE  RowHasItsObject'
  <2>1. contested \subseteq contested' /\ severed \subseteq severed'
    BY <1>3, ObjectSteps
  <2>2. ASSUME NEW row \in Rows(table)
        PROVE  \/ row.key \in DOMAIN objects' /\ objects'[row.key] = row.id
               \/ row.key \in contested'
               \/ row.id \in severed'
    <3>1. CASE row.key \in contested \/ row.id \in severed
      BY <2>1, <3>1
    <3>2. CASE row.key \in DOMAIN objects /\ objects[row.key] = row.id
      <4>1. CASE UNCHANGED objects
        BY <3>2, <4>1
      <4>2. CASE held[r].key # row.key
        BY <1>3, <3>2, <4>2, ObjectSteps
      <4>3. CASE held[r].key = row.key /\ (InUse(held[r].key, r) => held[r].key \in contested')
        BY <4>3 DEF InUse
      <4>4. CASE held[r].key = row.key /\ pc[r] \in {"undo", "erase"}
        BY <2>1, <4>4 DEF KeysInv, Using
      <4>5. QED
        BY <1>3, <4>1, <4>2, <4>3, <4>4, ObjectSteps
    <3>3. QED
      BY <3>1, <3>2 DEF RowHasItsObject
  <2>3. CASE Rows(table') \subseteq Rows(table)
    BY <2>2, <2>3 DEF RowHasItsObject
  <2>4. CASE CreateRow(r) /\ pc[r] = "create" /\ Rows(table') = Rows(table) \cup {held[r]}
    <3>1. held[r].id = r /\ UNCHANGED <<objects, contested>>
      BY <2>4, CreateOutcome DEF IdsInv
    <3>2. \/ held[r].key \in DOMAIN objects /\ objects[held[r].key] = r
          \/ held[r].key \in contested
      BY <2>4 DEF KeysInv
    <3>3. QED
      BY <2>2, <2>4, <3>1, <3>2 DEF RowHasItsObject
  <2>5. QED
    BY <1>3, <2>3, <2>4, TableSteps
<1>4. QED
  BY <1>1, <1>2, <1>3 DEF Next, AllDone

-----------------------------------------------------------------------------
(***************************************************************************)
(* Objects that are left behind.                                           *)
(***************************************************************************)
Accounted(k) ==
  \/ \E row \in Rows(table) : row.key = k
  \/ \E r \in Request : Using(r, k)
  \/ k \in forsaken \cup contested

\* Every step keeps account of the objects there are.
LEMMA AccountStep ==
  ASSUME Typed, IdsInv, ObjectAccountedFor, [Next]_vars
  PROVE  ObjectAccountedFor'
<1> DEFINE Good == \A k \in DOMAIN objects : Accounted(k)
<1>1. ObjectAccountedFor <=> Good
  BY DEF ObjectAccountedFor, Accounted, Using
<1>2. ObjectAccountedFor' <=> Good'
  BY DEF ObjectAccountedFor, Accounted, Using
<1>3. CASE UNCHANGED vars
  BY <1>3 DEF vars, ObjectAccountedFor
<1>4. CASE Crash
  <2>1. \A r \in Request : pc[r] \in {"create", "undo", "erase"} => held[r].key \in forsaken'
    BY <1>4 DEF Crash
  <2>2. forsaken \subseteq forsaken' /\ UNCHANGED <<table, objects, contested>>
    BY <1>4 DEF Crash
  <2>3. QED
    BY <1>1, <1>2, <2>1, <2>2 DEF Accounted, Using
<1>5. ASSUME NEW r \in Request, RequestStep(r)
      PROVE  Good'
  <2>1. SUFFICES ASSUME NEW k \in DOMAIN objects' PROVE Accounted(k)'
    OBVIOUS
  <2>2. contested \subseteq contested'
    BY <1>5, ObjectSteps
  <2>3. forsaken \subseteq forsaken'
    BY <1>5 DEF RequestStep, ArriveUpload, Read, PutObject, CreateRow, EraseObject, DeleteRow,
                Download, history
  <2>4. \A q \in Request \ {r} : Using(q, k) => Using(q, k)'
    BY <1>5, StepMoves DEF Using
  <2>5. CASE PutObject(r)
    <3>1. UNCHANGED <<table, held>>
      BY <2>5 DEF PutObject
    <3>2. CASE k = held[r].key
      <4>1. Using(r, k)' \/ k \in forsaken' \/ k \in DOMAIN objects
        BY <2>1, <2>5, <3>1, <3>2, Moves DEF PutObject, Using, Labels
      <4>2. ~Using(r, k)
        BY <2>5 DEF PutObject, Using
      <4>3. QED
        BY <1>1, <2>2, <2>3, <2>4, <3>1, <4>1, <4>2 DEF Accounted
    <3>3. CASE k # held[r].key
      <4>1. k \in DOMAIN objects
        BY <2>1, <2>5, <3>3 DEF PutObject
      <4>2. ~Using(r, k)
        BY <2>5 DEF PutObject, Using
      <4>3. QED
        BY <1>1, <2>2, <2>3, <2>4, <3>1, <4>1, <4>2 DEF Accounted
    <3>4. QED
      BY <3>2, <3>3
  <2>6. CASE CreateRow(r)
    <3>1. k \in DOMAIN objects
      BY <2>1, <2>6, CreateOutcome
    <3>2. CASE Rows(table') = Rows(table) \cup {held[r]}
      BY <1>1, <2>2, <2>3, <2>4, <3>1, <3>2 DEF Accounted, Using
    <3>3. CASE UNCHANGED table
      <4>1. pc'[r] = "undo" /\ held' = held
        <5>1. CASE table' = CreateFile(table, held[r])
          BY <1>5, <2>6, <3>3, <5>1, CreateAdds DEF IdsInv, CreateRow, CreateFile, IsTable
        <5>2. CASE Goto(r, "undo") /\ held' = held
          BY <5>2, Moves DEF Labels
        <5>3. QED
          BY <2>6, <5>1, <5>2 DEF CreateRow
      <4>2. QED
        BY <1>1, <2>2, <2>3, <2>4, <3>1, <3>3, <4>1 DEF Accounted, Using
    <3>4. pc[r] = "create"
      BY <2>6 DEF CreateRow
    <3>5. QED
      BY <1>5, <3>2, <3>3, <3>4, TableSteps
  <2>7. CASE EraseObject(r)
    <3>1. UNCHANGED <<table, held>> /\ k \in DOMAIN objects
          /\ (k = held[r].key => k \in forsaken')
      BY <2>1, <2>7 DEF EraseObject
    <3>2. QED
      BY <1>1, <2>2, <2>3, <2>4, <3>1 DEF Accounted, Using
  <2>8. CASE DeleteRow(r)
    <3>1. k \in DOMAIN objects /\ held' = held /\ ~Using(r, k)
      BY <2>1, <2>8 DEF DeleteRow, Using
    <3>2. CASE UNCHANGED table
      BY <1>1, <2>2, <2>3, <2>4, <3>1, <3>2 DEF Accounted
    <3>3. CASE /\ held[r] \in Rows(table) /\ table' # table
               /\ Rows(table') = {row \in Rows(table) : row.id # held[r].id}
      <4>1. pc'[r] = "erase" \/ held[r].key \in forsaken'
        BY <2>8, <3>3, Moves DEF DeleteRow, Labels
      <4>2. k = held[r].key => Accounted(k)'
        BY <3>1, <4>1 DEF Accounted, Using
      <4>3. \A row \in Rows(table) : row.key = k => row \in Rows(table') \/ row = held[r]
        BY <3>3, OneRowPerId DEF IdsInv
      <4>4. QED
        BY <1>1, <2>2, <2>3, <2>4, <3>1, <4>2, <4>3 DEF Accounted
    <3>4. pc[r] = "delete"
      BY <2>8 DEF DeleteRow
    <3>5. QED
      BY <1>5, <3>2, <3>3, <3>4, TableSteps
  <2>9. CASE ArriveUpload(r) \/ Read(r) \/ Download(r)
    <3>1. UNCHANGED <<table, objects>> /\ ~Using(r, k)
      BY <2>9 DEF ArriveUpload, Read, Download, Using
    <3>2. QED
      BY <1>1, <2>1, <2>2, <2>3, <2>4, <3>1 DEF Accounted
  <2>10. QED
    BY <1>5, <2>5, <2>6, <2>7, <2>8, <2>9 DEF RequestStep
<1>6. QED
  BY <1>1, <1>2, <1>3, <1>4, <1>5 DEF Next, AllDone

-----------------------------------------------------------------------------
(***************************************************************************)
(* The tree.  Every version hangs directly under the first one.            *)
(***************************************************************************)
SameFile(a, b) == a.tenant = b.tenant /\ a.name = b.name /\ a.execution = b.execution
Under(root, f) == root.parent = None /\ root.version < f.version /\ SameFile(root, f)

TreeInv ==
  /\ \A row \in Rows(table) : row.version \in Nat
  /\ \A row \in Rows(table) : row.parent # None =>
       \E root \in Rows(table) : root.id = row.parent /\ Under(root, row)
  /\ \A r \in Request : pc[r] \in {"put", "create"} =>
       /\ held[r].version \in Nat
       /\ held[r].parent # None =>
            /\ held[r].parent \notin Unborn
            /\ \A row \in Rows(table) : row.id = held[r].parent => Under(row, held[r])

\* What an upload and an update are about to write.
LEMMA TreeHolds ==
  ASSUME Typed, IdsInv, TreeInv, NEW r \in Request, RequestStep(r), pc[r] = "idle",
         pc'[r] = "put"
  PROVE  /\ held'[r].version \in Nat
         /\ held'[r].parent # None =>
              /\ held'[r].parent \notin Unborn
              /\ \A row \in Rows(table) : row.id = held'[r].parent => Under(row, held'[r])
<1>1. CASE \E t \in Tenant, n \in Name : held'[r] = Uploaded(r, t, n)
  <2>1. held'[r].version = 1 /\ held'[r].parent = None
    BY <1>1 DEF Uploaded
  <2>2. QED
    BY <2>1
<1>2. ASSUME NEW row \in Rows(table), held'[r] = NextVersion(r, row)
      PROVE  /\ held'[r].version \in Nat
             /\ held'[r].parent \notin Unborn
             /\ \A a \in Rows(table) : a.id = held'[r].parent => Under(a, held'[r])
  <2>1. /\ held'[r].version = row.version + 1 /\ held'[r].parent = RootOf(row)
        /\ SameFile(row, held'[r]) /\ row.version \in Nat
    BY <1>2 DEF NextVersion, SameFile, TreeInv
  <2>2. PICK root \in Rows(table) : /\ root.id = RootOf(row) /\ root.parent = None
                                    /\ root.version <= row.version /\ SameFile(root, row)
    <3>1. CASE row.parent = None
      <4>1. row.id = RootOf(row) /\ SameFile(row, row) /\ row.version <= row.version
        BY <2>1, <3>1 DEF RootOf, SameFile
      <4>2. QED
        BY <1>2, <3>1, <4>1
    <3>2. CASE row.parent # None
      <4>1. PICK root \in Rows(table) : root.id = row.parent /\ Under(root, row)
        BY <1>2, <3>2 DEF TreeInv
      <4>2. root.version <= row.version
        BY <2>1, <4>1 DEF Under, TreeInv
      <4>3. QED
        BY <3>2, <4>1, <4>2 DEF Under, RootOf
    <3>3. QED
      BY <3>1, <3>2
  <2>3. root.version \in Nat /\ root.id \notin Unborn
    BY <2>2 DEF TreeInv, IdsInv
  <2>4. root.version < held'[r].version
    BY <2>1, <2>2, <2>3
  <2>5. Under(root, held'[r])
    BY <2>1, <2>2, <2>4 DEF Under, SameFile
  <2>6. \A a \in Rows(table) : a.id = held'[r].parent => a = root
    BY <2>1, <2>2, OneRowPerId DEF IdsInv
  <2>7. QED
    BY <2>1, <2>2, <2>3, <2>5, <2>6
<1>3. QED
  BY <1>1, <1>2, Holds

\* Every step keeps the tree.
LEMMA TreeStep ==
  ASSUME Typed, IdsInv, TreeInv, [Next]_vars
  PROVE  TreeInv'
<1>1. CASE UNCHANGED vars
  BY <1>1 DEF vars, TreeInv, Unborn
<1>2. CASE Crash
  <2>1. \A r \in Request : pc'[r] \in {"idle", "done"}
    BY <1>2, CrashMoves
  <2>2. QED
    BY <1>2, <2>1, CrashMoves DEF TreeInv
<1>3. ASSUME NEW r \in Request, RequestStep(r)
      PROVE  TreeInv'
  <2>1. /\ pc[r] = "create" => /\ held[r].version \in Nat /\ held[r].id \in Unborn
                               /\ held[r].parent # None =>
                                    \A row \in Rows(table) :
                                      row.id = held[r].parent => Under(row, held[r])
        /\ pc[r] = "create" /\ MayInsert(table, held[r]) /\ held[r].parent # None =>
             \E root \in Rows(table) : root.id = held[r].parent /\ Under(root, held[r])
    BY DEF TreeInv, IdsInv, MayInsert, Ids, Unborn
  <2>2. \A row \in Rows(table') : row.version \in Nat
    BY <1>3, <2>1, TableSteps DEF TreeInv
  <2>3. ASSUME NEW row \in Rows(table'), row.parent # None
        PROVE  \E root \in Rows(table') : root.id = row.parent /\ Under(root, row)
    <3>1. CASE row \in Rows(table)
      <4>1. PICK root \in Rows(table) : root.id = row.parent /\ Under(root, row)
        BY <2>3, <3>1 DEF TreeInv
      <4>2. root \in Rows(table')
        BY <1>3, <3>1, <4>1, TableSteps DEF HasChild
      <4>3. QED
        BY <4>1, <4>2
    <3>2. CASE row \notin Rows(table)
      <4>1. /\ row = held[r] /\ pc[r] = "create" /\ MayInsert(table, held[r])
            /\ Rows(table') = Rows(table) \cup {held[r]}
        BY <1>3, <2>3, <3>2, TableSteps
      <4>2. QED
        BY <2>1, <2>3, <4>1
    <3>3. QED
      BY <3>1, <3>2
  <2>4. ASSUME NEW q \in Request, pc'[q] \in {"put", "create"}
        PROVE  /\ held'[q].version \in Nat
               /\ held'[q].parent # None =>
                    /\ held'[q].parent \notin Unborn'
                    /\ \A row \in Rows(table') : row.id = held'[q].parent => Under(row, held'[q])
    <3>1. /\ held'[q].version \in Nat
          /\ held'[q].parent # None =>
               /\ held'[q].parent \notin Unborn
               /\ \A row \in Rows(table) : row.id = held'[q].parent => Under(row, held'[q])
      <4>1. CASE q = r /\ pc[r] = "idle"
        BY <1>3, <2>4, <4>1, TreeHolds, StepMoves
      <4>2. CASE ~(q = r /\ pc[r] = "idle")
        <5>1. pc[q] \in {"put", "create"} /\ held'[q] = held[q]
          BY <1>3, <2>4, <4>2, StepMoves
        <5>2. QED
          BY <5>1 DEF TreeInv
      <4>3. QED
        BY <4>1, <4>2
    <3>2. Unborn' \subseteq Unborn
      BY <1>3, UnbornShrinks
    <3>3. QED
      BY <1>3, <2>1, <3>1, <3>2, TableSteps
  <2>5. QED
    BY <2>2, <2>3, <2>4 DEF TreeInv
<1>4. QED
  BY <1>1, <1>2, <1>3 DEF Next, AllDone

\* The query up the parents ends at the first version.
LEMMA AncestryOf ==
  ASSUME IdsInv, TreeInv, NEW row \in Rows(table), NEW root \in Rows(table),
         root.parent = None, root.id = RootOf(row), root.tenant = row.tenant
  PROVE  {a \in Ancestry(table, row.id, row.tenant) : a.parent = None} = {root}
<1>1. \A a, b \in Rows(table) : a.id = b.id => a = b
  BY OneRowPerId DEF IdsInv
<1>2. GetFile(table, row.id, row.tenant) = {row}
  BY <1>1 DEF GetFile
<1>3. root \in Ancestry(table, row.id, row.tenant)
  <2>1. SUFFICES ASSUME NEW S \in SUBSET Rows(table), {row} \subseteq S,
                        \A p \in Rows(table) :
                          p.tenant = row.tenant /\ (\E a \in S : a.parent = p.id) => p \in S
                 PROVE  root \in S
    BY <1>2 DEF Ancestry
  <2>2. CASE row.parent = None
    <3>1. root = row
      BY <1>1, <2>2 DEF RootOf
    <3>2. QED
      BY <2>1, <3>1
  <2>3. CASE row.parent # None
    <3>1. row.parent = root.id /\ row \in S
      BY <2>1, <2>3 DEF RootOf
    <3>2. QED
      BY <2>1, <3>1
  <2>4. QED
    BY <2>2, <2>3
<1>4. Ancestry(table, row.id, row.tenant) \subseteq {row, root}
  <2>1. {row, root} \in SUBSET Rows(table)
    OBVIOUS
  <2>2. \A p \in Rows(table) : (\E a \in {row, root} : a.parent = p.id) => p \in {row, root}
    <3>1. SUFFICES ASSUME NEW p \in Rows(table), NEW a \in {row, root}, a.parent = p.id
                   PROVE  p = root
      OBVIOUS
    <3>2. p.id # None
      BY DEF IdsInv
    <3>3. a = row /\ row.parent # None
      BY <3>1, <3>2
    <3>4. QED
      BY <1>1, <3>1, <3>3 DEF RootOf
  <2>3. QED
    BY <1>2, <2>1, <2>2 DEF Ancestry
<1>5. row.parent = None => row = root
  BY <1>1 DEF RootOf
<1>6. QED
  BY <1>3, <1>4, <1>5

\* The query down from it finds the rows under it.
LEMMA DescentOf ==
  ASSUME IdsInv, TreeInv, NEW root \in Rows(table), root.parent = None
  PROVE  Descent(table, {root}, root.tenant) = {f \in Rows(table) : RootOf(f) = root.id}
<1>1. \A a, b \in Rows(table) : a.id = b.id => a = b
  BY OneRowPerId DEF IdsInv
<1>2. ASSUME NEW f \in Rows(table), RootOf(f) = root.id
      PROVE  f \in Descent(table, {root}, root.tenant)
  <2>1. SUFFICES ASSUME NEW S \in SUBSET Rows(table), {root} \subseteq S,
                        \A g \in Rows(table) :
                          g.tenant = root.tenant /\ (\E a \in S : g.parent = a.id) => g \in S
                 PROVE  f \in S
    BY DEF Descent
  <2>2. CASE f.parent = None
    <3>1. f = root
      BY <1>1, <1>2, <2>2 DEF RootOf
    <3>2. QED
      BY <2>1, <3>1
  <2>3. CASE f.parent # None
    <3>1. f.parent = root.id
      BY <1>2, <2>3 DEF RootOf
    <3>2. PICK a \in Rows(table) : a.id = f.parent /\ Under(a, f)
      BY <2>3 DEF TreeInv
    <3>3. f.tenant = root.tenant
      BY <1>1, <3>1, <3>2 DEF Under, SameFile
    <3>4. QED
      BY <2>1, <3>1, <3>3
  <2>4. QED
    BY <2>2, <2>3
<1>3. Descent(table, {root}, root.tenant) \subseteq {f \in Rows(table) : RootOf(f) = root.id}
  <2>1. PICK T : T = {f \in Rows(table) : RootOf(f) = root.id}
    OBVIOUS
  <2>2. T \in SUBSET Rows(table) /\ {root} \subseteq T
    BY <2>1 DEF RootOf
  <2>3. ASSUME NEW g \in Rows(table), NEW a \in T, g.parent = a.id
        PROVE  g \in T
    <3>1. a \in Rows(table) /\ a.id # None /\ RootOf(a) = root.id
      BY <2>1, <2>3 DEF IdsInv
    <3>2. PICK b \in Rows(table) : b.id = g.parent /\ Under(b, g)
      BY <2>3, <3>1 DEF TreeInv
    <3>3. a = b
      BY <1>1, <2>3, <3>1, <3>2
    <3>4. a.id = root.id
      BY <3>1, <3>2, <3>3 DEF Under, RootOf
    <3>5. RootOf(g) = root.id
      BY <2>3, <3>1, <3>4 DEF RootOf
    <3>6. QED
      BY <2>1, <3>5
  <2>4. QED
    BY <2>1, <2>2, <2>3 DEF Descent
<1>4. QED
  BY <1>2, <1>3 DEF Descent

\* So the answer of ListFileVersions is the file, whole.
LEMMA TreeListed ==
  ASSUME IdsInv, TreeInv
  PROVE  VersionsTree
<1>1. SUFFICES ASSUME NEW row \in Rows(table)
               PROVE  /\ row.parent # None =>
                           \E root \in Rows(table) :
                             /\ root.id = row.parent /\ root.parent = None
                             /\ root.version < row.version
                             /\ <<root.tenant, root.name, root.execution>>
                                  = <<row.tenant, row.name, row.execution>>
                      /\ ListFileVersions(table, row.id, row.tenant)
                           = {f \in Rows(table) : RootOf(f) = RootOf(row)}
  BY DEF VersionsTree
<1>2. row.parent # None =>
        \E root \in Rows(table) : root.id = row.parent /\ Under(root, row)
  BY DEF TreeInv
<1>3. PICK root \in Rows(table) : /\ root.parent = None /\ root.id = RootOf(row)
                                  /\ root.tenant = row.tenant
  <2>1. CASE row.parent = None
    BY <2>1 DEF RootOf
  <2>2. CASE row.parent # None
    BY <1>2, <2>2 DEF RootOf, Under, SameFile
  <2>3. QED
    BY <2>1, <2>2
<1>4. ListFileVersions(table, row.id, row.tenant) = Descent(table, {root}, root.tenant)
  BY <1>3, AncestryOf DEF ListFileVersions
<1>5. ListFileVersions(table, row.id, row.tenant) = {f \in Rows(table) : RootOf(f) = RootOf(row)}
  BY <1>3, <1>4, DescentOf
<1>6. QED
  BY <1>2, <1>5 DEF Under, SameFile

-----------------------------------------------------------------------------
(***************************************************************************)
(* The invariant, and what it is for.                                      *)
(***************************************************************************)
FilesInv ==
  /\ Typed /\ IdsInv /\ KeysInv
  /\ RowHasItsObject /\ ObjectAccountedFor
  /\ TreeInv

\* A server that has just started, with what executions left.
LEMMA InvariantInit ==
  ASSUME Init
  PROVE  FilesInv
<1>1. table = Harvest /\ \A r \in Request : pc[r] = "idle"
  BY DEF Init
<1>2. Typed
  BY DEF Init, Typed, Labels
<1>3. /\ Harvest \in Seq(Rows(Harvest))
      /\ \A row \in Rows(Harvest) :
           row.parent = None /\ row.id \notin Request \cup {None} /\ row.version \in Nat
      /\ \A i, j \in DOMAIN Harvest :
           Harvest[i].key = Harvest[j].key \/ Harvest[i].id = Harvest[j].id => i = j
  BY FileAssumption
<1>4. IsTable(table)
  BY <1>1, <1>3 DEF IsTable
<1>5. IdsInv
  BY <1>1, <1>3, <1>4 DEF IdsInv, Unborn
<1>6. \A a, b \in Rows(Harvest) : a.key = b.key => a = b
  BY <1>3 DEF Rows, ToSet
<1>7. KeysInv
  BY <1>1, <1>6 DEF KeysInv, Using
<1>8. \A row \in Rows(table) : row.key \in DOMAIN objects /\ objects[row.key] = row.id
  <2>1. SUFFICES ASSUME NEW row \in Rows(Harvest)
                 PROVE  row.key \in DOMAIN objects /\ objects[row.key] = row.id
    BY <1>1
  <2>2. (CHOOSE a \in Rows(Harvest) : a.key = row.key) = row
    BY <1>6
  <2>3. QED
    BY <2>2 DEF Init
<1>9. RowHasItsObject
  BY <1>8 DEF RowHasItsObject
<1>10. ObjectAccountedFor
  BY <1>1 DEF Init, ObjectAccountedFor
<1>11. TreeInv
  BY <1>1, <1>3 DEF TreeInv
<1>12. QED
  BY <1>2, <1>5, <1>7, <1>9, <1>10, <1>11 DEF FilesInv

\* The invariant holds in every reachable state.
THEOREM Invariance == Spec => []FilesInv
<1>1. Init => FilesInv
  BY InvariantInit
<1>2. FilesInv /\ [Next]_vars => FilesInv'
  BY TypedStep, IdsStep, KeysStep, ContentStep, AccountStep, TreeStep DEF FilesInv
<1>3. QED
  BY <1>1, <1>2, PTL DEF Spec

\* Download answers what was uploaded for the row (handlers/files.go), while
\* no key was written by two and no answer of the database was lost.
THEOREM DownloadsWhatWasUploaded == Spec => []RowHasItsObject
<1>1. FilesInv => RowHasItsObject
  BY DEF FilesInv
<1>2. QED
  BY <1>1, Invariance, PTL

\* Upload, Update and Delete leave no object without a row but by a failure
\* that is recorded or under a key that two requests wrote.
THEOREM NothingLeftBehind == Spec => []ObjectAccountedFor
<1>1. FilesInv => ObjectAccountedFor
  BY DEF FilesInv
<1>2. QED
  BY <1>1, Invariance, PTL

\* ListFileVersions (store/files.go) returns every version of the file and
\* nothing else, whichever version it is asked for.
THEOREM VersionsListed == Spec => []VersionsTree
<1>1. FilesInv => VersionsTree
  BY TreeListed DEF FilesInv
<1>2. QED
  BY <1>1, Invariance, PTL
=============================================================================
