------------------------ MODULE SessionFiles_proofs ------------------------
(***************************************************************************)
(* Proofs about SessionFiles, for any number of requests, names and        *)
(* deaths, any faults and any length of the list.                          *)
(***************************************************************************)
EXTENDS SessionFiles, FiniteSetTheorems, SequenceTheorems, TLAPS

-----------------------------------------------------------------------------
(***************************************************************************)
(* The table: its ids are distinct, so a deletion takes one row.  (The     *)
(* same facts as in FileVersions_proofs.)                                  *)
(***************************************************************************)
IsTable(t) ==
  /\ t \in Seq(Rows(t))
  /\ \A i, j \in DOMAIN t : t[i].id = t[j].id => i = j

\* A sequence is a sequence of its own elements.
LEMMA OwnElements ==
  ASSUME NEW S, NEW t \in Seq(S)
  PROVE  t \in Seq(Rows(t)) /\ Rows(t) \subseteq S
BY DEF Rows, ToSet

\* Rows with one id are one row.
LEMMA OneRowPerId ==
  ASSUME NEW t, IsTable(t), NEW a \in Rows(t), NEW b \in Rows(t), a.id = b.id
  PROVE  a = b
BY DEF IsTable, Rows, ToSet

\* CreateFile adds its row.
LEMMA CreateAdds ==
  ASSUME NEW t, IsTable(t), NEW row, row.id \notin Ids(t)
  PROVE  IsTable(CreateFile(t, row)) /\ Rows(CreateFile(t, row)) = Rows(t) \cup {row}
<1>1. CreateFile(t, row) \in Seq(Rows(t) \cup {row})
  BY DEF IsTable, CreateFile
<1>2. /\ Len(CreateFile(t, row)) = Len(t) + 1 /\ DOMAIN t = 1 .. Len(t) /\ Len(t) \in Nat
      /\ DOMAIN CreateFile(t, row) = 1 .. Len(t) + 1
      /\ \A i \in 1 .. Len(t) : CreateFile(t, row)[i] = t[i]
      /\ CreateFile(t, row)[Len(t) + 1] = row
  BY DEF IsTable, CreateFile
<1>3. Rows(CreateFile(t, row)) = Rows(t) \cup {row}
  BY <1>2 DEF Rows, ToSet
<1>4. \A i \in 1 .. Len(t) : t[i].id # row.id
  BY <1>2 DEF Ids, Rows, ToSet
<1>5. \A i, j \in DOMAIN CreateFile(t, row) :
        CreateFile(t, row)[i].id = CreateFile(t, row)[j].id => i = j
  BY <1>2, <1>4 DEF IsTable
<1>6. QED
  BY <1>1, <1>3, <1>5 DEF IsTable

\* The places that are left when the k-th is taken out.
Skip(k, i) == IF i < k THEN i ELSE i + 1

AllButOne(n, k) ==
  /\ \A i \in 1 .. n - 1 : Skip(k, i) \in (1 .. n) \ {k}
  /\ \A j \in (1 .. n) \ {k} : \E i \in 1 .. n - 1 : Skip(k, i) = j
  /\ \A i, j \in 1 .. n - 1 : Skip(k, i) = Skip(k, j) => i = j

\* They are all but the k-th, each once.
LEMMA Skipping ==
  ASSUME NEW n \in Nat, NEW k \in 1 .. n
  PROVE  AllButOne(n, k)
<1>1. ASSUME NEW j \in (1 .. n) \ {k}
      PROVE  \E i \in 1 .. n - 1 : Skip(k, i) = j
  <2>1. CASE j < k
    <3>1. j \in 1 .. n - 1 /\ Skip(k, j) = j
      BY <2>1 DEF Skip
    <3>2. QED
      BY <3>1
  <2>2. CASE j > k
    <3>1. j - 1 \in 1 .. n - 1 /\ Skip(k, j - 1) = j
      BY <2>2 DEF Skip
    <3>2. QED
      BY <3>1
  <2>3. QED
    BY <2>1, <2>2
<1>2. QED
  BY <1>1 DEF Skip, AllButOne

\* A sequence without its k-th element.
LEMMA WithoutOne ==
  ASSUME NEW S, NEW t \in Seq(S), NEW k \in 1 .. Len(t)
  PROVE  /\ RemoveAt(t, k) \in Seq(S) /\ Len(RemoveAt(t, k)) = Len(t) - 1
         /\ DOMAIN RemoveAt(t, k) = 1 .. Len(t) - 1
         /\ \A i \in 1 .. Len(t) - 1 : RemoveAt(t, k)[i] = t[Skip(k, i)]
<1>1. Len(t) \in Nat /\ k \in Nat /\ 1 <= k /\ k <= Len(t)
  OBVIOUS
<1>2. PICK a \in Seq(S) : /\ a = SubSeq(t, 1, k - 1) /\ Len(a) = k - 1
                         /\ \A i \in 1 .. k - 1 : a[i] = t[i]
  <2>1. /\ SubSeq(t, 1, k - 1) \in Seq(S) /\ Len(SubSeq(t, 1, k - 1)) = k - 1
        /\ \A i \in 1 .. k - 1 : SubSeq(t, 1, k - 1)[i] = t[i]
    BY <1>1
  <2>2. QED
    BY <2>1
<1>3. PICK b \in Seq(S) : /\ b = SubSeq(t, k + 1, Len(t)) /\ Len(b) = Len(t) - k
                         /\ \A i \in 1 .. Len(t) - k : b[i] = t[i + k]
  <2>1. /\ SubSeq(t, k + 1, Len(t)) \in Seq(S) /\ Len(SubSeq(t, k + 1, Len(t))) = Len(t) - k
        /\ \A i \in 1 .. Len(t) - k : SubSeq(t, k + 1, Len(t))[i] = t[i + k]
    BY <1>1
  <2>2. QED
    BY <2>1
<1>4. PICK u : u = RemoveAt(t, k) /\ u = a \o b
  BY <1>2, <1>3 DEF RemoveAt
<1>5. /\ u \in Seq(S) /\ Len(u) = Len(a) + Len(b)
      /\ \A i \in 1 .. Len(a) + Len(b) : u[i] = IF i <= Len(a) THEN a[i] ELSE b[i - Len(a)]
  BY ONLY <1>4, ConcatProperties, a \in Seq(S), b \in Seq(S)
<1>6. PICK n \in Nat : n = Len(t) /\ k <= n /\ Len(a) = k - 1 /\ Len(b) = n - k
  BY <1>1, <1>2, <1>3
<1>7. Len(u) = n - 1 /\ DOMAIN u = 1 .. n - 1
  <2>1. Len(u) = n - 1
    BY ONLY <1>1, <1>5, <1>6
  <2>2. QED
    BY ONLY <2>1, <1>5
<1>8. \A i \in 1 .. n - 1 : u[i] = IF i <= k - 1 THEN a[i] ELSE b[i - (k - 1)]
  <2>1. Len(a) + Len(b) = n - 1 /\ Len(a) = k - 1
    BY ONLY <1>1, <1>6
  <2>2. \A i \in 1 .. Len(a) + Len(b) : u[i] = IF i <= Len(a) THEN a[i] ELSE b[i - Len(a)]
    BY ONLY <1>5
  <2>3. QED
    BY ONLY <2>1, <2>2
<1>9. \A i \in k .. n - 1 : u[i] = t[i + 1]
  <2>1. SUFFICES ASSUME NEW i \in k .. n - 1 PROVE u[i] = t[i + 1]
    OBVIOUS
  <2>2. /\ i \in 1 .. n - 1 /\ ~(i <= k - 1)
        /\ i - (k - 1) \in 1 .. n - k /\ (i - (k - 1)) + k = i + 1
    BY ONLY <1>1, <1>6, i \in k .. n - 1
  <2>3. b[i - (k - 1)] = t[i + 1]
    BY ONLY <1>3, <1>6, <2>2
  <2>4. QED
    BY ONLY <1>8, <2>2, <2>3
<1>10. \A i \in 1 .. k - 1 : u[i] = t[i]
  <2>1. \A i \in 1 .. k - 1 : i \in 1 .. n - 1 /\ i <= k - 1
    BY ONLY <1>1, <1>6
  <2>2. QED
    BY ONLY <1>2, <1>8, <2>1
<1>11. \A i \in 1 .. n - 1 : u[i] = t[Skip(k, i)]
  <2>1. \A i \in 1 .. n - 1 : IF i < k THEN i \in 1 .. k - 1 ELSE i \in k .. n - 1
    BY ONLY <1>1, <1>6
  <2>2. QED
    BY ONLY <1>9, <1>10, <2>1 DEF Skip
<1>12. QED
  BY ONLY <1>4, <1>5, <1>6, <1>7, <1>11

\* DeleteFile takes the rows with the id away.
LEMMA DeleteRemoves ==
  ASSUME NEW t, IsTable(t), NEW id
  PROVE  /\ IsTable(DeleteFile(t, id))
         /\ Rows(DeleteFile(t, id)) = {row \in Rows(t) : row.id # id}
<1>1. CASE id \notin Ids(t)
  BY <1>1 DEF DeleteFile, Ids
<1>2. CASE id \in Ids(t)
  <2>1. \E i \in DOMAIN t : t[i].id = id
    BY <1>2 DEF Ids, Rows, ToSet
  <2>2. PICK k \in DOMAIN t : t[k].id = id /\ DeleteFile(t, id) = RemoveAt(t, k)
    BY <1>2, <2>1 DEF DeleteFile
  <2>3. /\ DOMAIN t = 1 .. Len(t) /\ Len(t) \in Nat /\ t \in Seq(Rows(t))
        /\ k \in Nat /\ 1 <= k /\ k <= Len(t)
    BY <2>2 DEF IsTable
  <2>6. PICK u : u = RemoveAt(t, k)
    OBVIOUS
  <2>7. PICK n : n \in Nat /\ n = Len(t) /\ k \in 1 .. n /\ DOMAIN t = 1 .. n
    BY ONLY <2>3
  <2>8. /\ u \in Seq(Rows(t)) /\ DOMAIN u = 1 .. n - 1
        /\ \A i \in 1 .. n - 1 : u[i] = t[Skip(k, i)]
    BY ONLY <2>3, <2>6, <2>7, WithoutOne
  <2>9. /\ \A i \in 1 .. n - 1 : Skip(k, i) \in (1 .. n) \ {k}
        /\ \A j \in (1 .. n) \ {k} : \E i \in 1 .. n - 1 : Skip(k, i) = j
        /\ \A i, j \in 1 .. n - 1 : Skip(k, i) = Skip(k, j) => i = j
    <3>1. AllButOne(n, k)
      BY ONLY <2>7, Skipping
    <3>2. QED
      BY ONLY <3>1 DEF AllButOne
  <2>10. \A i, j \in 1 .. n : t[i].id = t[j].id => i = j
    BY <2>7 DEF IsTable
  <2>11. Rows(u) = {row \in Rows(t) : row.id # id}
    <3>1. \A j \in 1 .. n : t[j].id = id <=> j = k
      BY ONLY <2>2, <2>7, <2>10
    <3>2. \A i \in DOMAIN u : u[i] \in Rows(t) /\ u[i].id # id
      <4>1. \A i \in DOMAIN u : \E j \in 1 .. n : j # k /\ u[i] = t[j]
        BY ONLY <2>8, <2>9
      <4>2. QED
        BY ONLY <2>7, <3>1, <4>1 DEF Rows, ToSet
    <3>3. \A j \in DOMAIN t : t[j].id # id => t[j] \in Rows(u)
      <4>1. \A j \in 1 .. n : j # k => \E i \in DOMAIN u : u[i] = t[j]
        BY ONLY <2>8, <2>9
      <4>2. QED
        BY ONLY <2>7, <3>1, <4>1 DEF Rows, ToSet
    <3>4. QED
      BY ONLY <3>2, <3>3 DEF Rows, ToSet
  <2>12. \A i, j \in DOMAIN u : u[i].id = u[j].id => i = j
    BY ONLY <2>8, <2>9, <2>10
  <2>13. u \in Seq(Rows(u))
    BY <2>8, OwnElements
  <2>14. IsTable(u) /\ u = DeleteFile(t, id)
    BY <2>2, <2>6, <2>12, <2>13 DEF IsTable
  <2>15. QED
    BY ONLY <2>11, <2>14
<1>3. QED
  BY <1>1, <1>2

-----------------------------------------------------------------------------
(***************************************************************************)
(* The list of the rows of a session.                                      *)
(***************************************************************************)
Since(places, i) == {j \in places : i <= j}
Rank(places, i) == Cardinality(Since(places, i))

\* An older place has a greater rank.
LEMMA OlderRanksHigher ==
  ASSUME NEW P \in SUBSET Nat, IsFiniteSet(P), NEW i \in P, NEW k \in P, i < k
  PROVE  Rank(P, k) < Rank(P, i)
<1>1. Since(P, k) \in SUBSET Since(P, i) /\ Since(P, i) \in SUBSET P
  <2>1. \A j \in P : j \in Nat /\ (k <= j => i <= j)
    OBVIOUS
  <2>2. QED
    BY <2>1 DEF Since
<1>2. i \in Since(P, i) /\ i \notin Since(P, k)
  BY DEF Since
<1>3. IsFiniteSet(Since(P, i)) /\ IsFiniteSet(Since(P, k))
  BY <1>1, FS_Subset
<1>4. /\ Rank(P, k) <= Rank(P, i) /\ Rank(P, k) # Rank(P, i)
      /\ Rank(P, k) \in Nat /\ Rank(P, i) \in Nat
  BY <1>1, <1>2, <1>3, FS_Subset, FS_CardinalityType DEF Rank
<1>5. QED
  BY <1>4

\* The ranks are the numbers up to the number of places.
LEMMA RankRange ==
  ASSUME NEW P \in SUBSET Nat, IsFiniteSet(P), NEW i \in P
  PROVE  Rank(P, i) \in 1 .. Cardinality(P)
<1>1. Since(P, i) \in SUBSET P /\ i \in Since(P, i)
  BY DEF Since
<1>2. /\ IsFiniteSet(Since(P, i)) /\ Cardinality(Since(P, i)) <= Cardinality(P)
      /\ Cardinality(P) \in Nat
  BY <1>1, FS_Subset, FS_CardinalityType
<1>3. Cardinality(Since(P, i)) \in Nat /\ Cardinality(Since(P, i)) # 0
  BY <1>1, <1>2, FS_EmptySet, FS_CardinalityType
<1>4. QED
  BY <1>2, <1>3 DEF Rank

\* Each of them belongs to one place, which Newest finds.
LEMMA EveryRank ==
  ASSUME NEW P \in SUBSET Nat, IsFiniteSet(P)
  PROVE  /\ Cardinality(P) \in Nat
         /\ \A k \in 1 .. Cardinality(P) : Newest(P, k) \in P /\ Rank(P, Newest(P, k)) = k
         /\ \A i \in P : Newest(P, Rank(P, i)) = i
<1> DEFINE f == [i \in P |-> Rank(P, i)]
<1>1. Cardinality(P) \in Nat
  BY FS_CardinalityType
<1>2. \A i, j \in P : Rank(P, i) = Rank(P, j) => i = j
  <2>1. SUFFICES ASSUME NEW i \in P, NEW j \in P, i # j PROVE Rank(P, i) # Rank(P, j)
    OBVIOUS
  <2>2. i < j \/ j < i
    BY <2>1
  <2>3. Rank(P, i) \in Nat /\ Rank(P, j) \in Nat
    BY RankRange, <1>1
  <2>4. QED
    BY <2>2, <2>3, OlderRanksHigher
<1>3. f \in Injection(P, 1 .. Cardinality(P))
  BY <1>2, RankRange DEF Injection, IsInjective
<1>4. IsFiniteSet(1 .. Cardinality(P)) /\ Cardinality(1 .. Cardinality(P)) = Cardinality(P)
  BY <1>1, FS_Interval
<1>5. f \in Surjection(P, 1 .. Cardinality(P))
  BY <1>3, <1>4, FS_Injection
<1>6. \A k \in 1 .. Cardinality(P) : \E i \in P : Rank(P, i) = k
  BY <1>5 DEF Surjection
<1>7. \A k : Newest(P, k) = CHOOSE i \in P : Rank(P, i) = k
  BY DEF Newest, Rank, Since
<1>8. QED
  BY <1>1, <1>2, <1>6, <1>7

\* A set of places has a first one.
LEMMA FirstPlace ==
  ASSUME NEW P \in SUBSET Nat, IsFiniteSet(P), P # {}
  PROVE  \E i \in P : \A j \in P : i <= j
<1>1. Cardinality(P) \in 1 .. Cardinality(P)
  BY FS_EmptySet, FS_CardinalityType
<1>2. PICK i \in P : Rank(P, i) = Cardinality(P)
  BY <1>1, EveryRank
<1>3. Since(P, i) = P
  BY <1>2, FS_Subset DEF Rank, Since
<1>4. QED
  BY <1>3 DEF Since

-----------------------------------------------------------------------------
(***************************************************************************)
(* Types, and what a request has at hand at each label.                    *)
(***************************************************************************)
Sid == Request \cup {"s0"}
Content == Seq(Sid)

\* The id of a row has its name in it.
RowType ==
  {row \in [id : Sid \X Name, tenant : {"t"}, session : Sid, execution : {None}, name : Name,
            key : Name, version : {1}, parent : {None}] : row.id[2] = row.name}

ReqType ==
  [op : Op \cup {None}, name : Name \cup {None}, box : Request \cup {None},
   session : Sid \cup {None}, held : Content, names : SUBSET Name, todo : Seq(RowType),
   known : [Name -> Content]]

BoxType == [id : Request, session : Sid, files : [Name -> Content], alive : BOOLEAN]

Labels == {"idle", "lookup", "mount", "read", "append", "write", "search", "download",
           "persist", "upload", "record", "remove", "find", "erase", "delete", "forget", "done"}

\* The labels at which a request has a session at hand.
Inside == {"mount", "download", "upload", "record", "erase", "delete", "forget"}

Stage(label, q) ==
  /\ label \notin {"idle", "done"} => q.op \in Op /\ q.name \in Name
  /\ label \in Inside => q.session \in Sid
  /\ label \in {"find", "erase", "delete"} => q.op \in {"delete_file", "delete_session"}
  /\ label = "persist" => q.op = "persist"
  /\ label \in {"upload", "record"} => q.op = "persist" \/ q.name \notin q.names
  /\ label = "delete" => q.todo # <<>>
  /\ label = "erase" => q.op = "delete_session" \/ q.todo # <<>>
  /\ label = "forget" => q.op = "delete_session" /\ q.todo = <<>>

RequestsTyped ==
  /\ pc \in [Request -> Labels]
  /\ req \in [Request -> ReqType]
  /\ \A r \in Request : Stage(pc[r], req[r])

StoresTyped ==
  /\ table \in Seq(RowType)
  /\ DOMAIN objects \subseteq Name
  /\ \A n \in DOMAIN objects : objects[n] \in Content
  /\ session \in Sid \cup {None}
  /\ acked \in [Name -> Content]
  /\ box # None => box \in BoxType

Typed == RequestsTyped /\ StoresTyped

\* A row of a session.
LEMMA FileRowTyped ==
  ASSUME NEW r \in Sid, NEW n \in Name, NEW s \in Sid
  PROVE  FileRow(<<r, n>>, s, n) \in RowType
BY DEF FileRow, RowType

\* A list is one of rows of the session, and of all of them unless it is full.
LEMMA Listed ==
  ASSUME table \in Seq(RowType), NEW s \in Sid
  PROVE  /\ SessionRows(s) \in Seq(RowType)
         /\ \A row \in Rows(SessionRows(s)) : row \in Rows(table) /\ row.session = s
         /\ \/ Len(SessionRows(s)) = ListLimit
            \/ \A row \in Rows(table) : row.session = s => row \in Rows(SessionRows(s))
         /\ Cardinality({i \in DOMAIN table : table[i].session = s}) <= ListLimit =>
              \A row \in Rows(table) : row.session = s => row \in Rows(SessionRows(s))
<1> DEFINE P == {i \in DOMAIN table : table[i].session = s}
           filter == [tenant |-> "t", session |-> s, execution |-> None, limit |-> ListLimit,
                      offset |-> 0, default |-> ListLimit, most |-> ListLimit]
           places == {i \in DOMAIN table : /\ table[i].tenant = filter.tenant
                                           /\ filter.session \in {None, table[i].session}
                                           /\ filter.execution \in {None, table[i].execution}}
           len == IF Cardinality(P) < ListLimit THEN Cardinality(P) ELSE ListLimit
<1>1. /\ DOMAIN table = 1 .. Len(table) /\ Len(table) \in Nat
      /\ \A i \in DOMAIN table : table[i] \in RowType
  OBVIOUS
<1>2. s # None /\ ListLimit \in Nat /\ ListLimit > 0
  BY SessionFilesAssumption DEF Sid
<1>3. places = P
  <2>1. \A i \in DOMAIN table : table[i].tenant = "t" /\ table[i].execution = None
    BY <1>1 DEF RowType
  <2>2. QED
    BY <1>2, <2>1
<1>4. P \in SUBSET Nat /\ IsFiniteSet(P)
  <2>1. P \in SUBSET (1 .. Len(table)) /\ IsFiniteSet(1 .. Len(table))
    BY <1>1, FS_Interval
  <2>2. QED
    BY <2>1, FS_Subset
<1>5. Cardinality(P) \in Nat
  BY <1>4, FS_CardinalityType
<1> HIDE DEF P
<1>6. Offset(0) = 0 /\ Limit(ListLimit, ListLimit, ListLimit) = ListLimit
  BY <1>2 DEF Offset, Limit
<1>7. PageLength(Cardinality(P), 0, ListLimit) = len
  BY <1>2, <1>5 DEF PageLength
<1>8. SessionRows(s) = [k \in 1 .. len |-> table[Newest(P, 0 + k)]]
  <2>1. SessionRows(s) = ListFiles(table, filter)
    BY DEF SessionRows
  <2>2. ListFiles(table, filter) =
          [k \in 1 .. PageLength(Cardinality(places), Offset(filter.offset),
                                 Limit(filter.limit, filter.default, filter.most)) |->
             table[Newest(places, Offset(filter.offset) + k)]]
    BY DEF ListFiles
  <2>3. /\ filter.offset = 0 /\ filter.limit = ListLimit /\ filter.default = ListLimit
        /\ filter.most = ListLimit
    OBVIOUS
  <2> HIDE DEF filter, places, len
  <2>4. /\ Offset(filter.offset) = 0
        /\ Limit(filter.limit, filter.default, filter.most) = ListLimit
    BY <1>6, <2>3
  <2>5. QED
    BY <1>3, <1>7, <2>1, <2>2, <2>4
<1>9. len \in Nat /\ len <= Cardinality(P)
  BY <1>2, <1>5
<1> HIDE DEF len
<1>10. \A k \in 1 .. len : /\ 0 + k = k /\ k \in 1 .. Cardinality(P)
                           /\ Newest(P, k) \in P
  BY <1>4, <1>5, <1>9, EveryRank
<1>11. \A k \in 1 .. len : /\ SessionRows(s)[k] = table[Newest(P, k)]
                           /\ Newest(P, k) \in DOMAIN table
                           /\ table[Newest(P, k)].session = s
  BY <1>8, <1>10 DEF P
<1>12. SessionRows(s) \in Seq(RowType) /\ Len(SessionRows(s)) = len
       /\ DOMAIN SessionRows(s) = 1 .. len
  <2>1. \A k \in 1 .. len : table[Newest(P, 0 + k)] \in RowType
    BY <1>1, <1>10, <1>11
  <2>2. [k \in 1 .. len |-> table[Newest(P, 0 + k)]] \in Seq(RowType)
    BY <1>9, <2>1
  <2>3. QED
    BY <1>8, <1>9, <2>2
<1>13. \A row \in Rows(SessionRows(s)) : row \in Rows(table) /\ row.session = s
  BY <1>11, <1>12 DEF Rows, ToSet
<1>14. ASSUME len = Cardinality(P), NEW row \in Rows(table), row.session = s
       PROVE  row \in Rows(SessionRows(s))
  <2>1. PICK i \in P : table[i] = row
    BY <1>14 DEF P, Rows, ToSet
  <2>2. Rank(P, i) \in 1 .. len /\ Newest(P, Rank(P, i)) = i
    BY <1>4, <1>14, RankRange, EveryRank
  <2>3. SessionRows(s)[Rank(P, i)] = row /\ Rank(P, i) \in DOMAIN SessionRows(s)
    BY <1>11, <1>12, <2>1, <2>2
  <2>4. QED
    BY <2>3 DEF Rows, ToSet
<1>15. len = ListLimit \/ len = Cardinality(P)
  BY DEF len
<1>16. Cardinality(P) <= ListLimit => len = Cardinality(P)
  BY <1>2, <1>5 DEF len
<1>17. QED
  BY <1>12, <1>13, <1>14, <1>15, <1>16 DEF P

\* What a deletion takes from a list.
LEMMA ToDeleteListed ==
  ASSUME RequestsTyped, NEW r \in Request, NEW rows \in Seq(RowType)
  PROVE  /\ ToDelete(r, rows) \in Seq(RowType)
         /\ Rows(ToDelete(r, rows)) \subseteq Rows(rows)
         /\ req[r].op = "delete_session" => ToDelete(r, rows) = rows
<1> DEFINE named == {i \in DOMAIN rows : rows[i].name = req[r].name}
<1>1. CASE req[r].op = "delete_session"
  BY <1>1 DEF ToDelete
<1>2. CASE req[r].op # "delete_session" /\ named = {}
  <2>1. ToDelete(r, rows) = <<>>
    BY <1>2 DEF ToDelete
  <2>2. QED
    BY <1>2, <2>1 DEF Rows, ToSet
<1>3. CASE req[r].op # "delete_session" /\ named # {}
  <2>1. DOMAIN rows = 1 .. Len(rows) /\ Len(rows) \in Nat
    OBVIOUS
  <2>2. named \in SUBSET Nat /\ IsFiniteSet(named)
    <3>1. IsFiniteSet(1 .. Len(rows))
      BY <2>1, FS_Interval
    <3>2. named \in SUBSET (1 .. Len(rows))
      BY <2>1
    <3>3. QED
      BY <3>1, <3>2, FS_Subset
  <2>3. PICK i \in named : i = CHOOSE k \in named : \A j \in named : k <= j
    <3> HIDE DEF named
    <3>1. QED
      BY <1>3, <2>2, FirstPlace
  <2>4. ToDelete(r, rows) = <<rows[i]>>
    BY <1>3, <2>3 DEF ToDelete
  <2>5. rows[i] \in RowType /\ i \in DOMAIN rows
    BY <2>1
  <2>6. Rows(<<rows[i]>>) = {rows[i]}
    BY <2>5 DEF Rows, ToSet
  <2>7. QED
    BY <1>3, <2>4, <2>5, <2>6 DEF Rows, ToSet
<1>4. QED
  BY <1>1, <1>2, <1>3

-----------------------------------------------------------------------------
(***************************************************************************)
(* The steps of a request keep the types.                                  *)
(***************************************************************************)
RequestStep(r) == Arrive(r) \/ UseStep(r) \/ SyncStep(r) \/ DeleteStep(r)

\* A request in its beginning.
LEMMA BlankTyped == NoFile \in [Name -> Content] /\ Blank \in ReqType
<1>1. <<>> \in Content /\ <<>> \in Seq(RowType)
  BY DEF Content
<1>2. NoFile \in [Name -> Content]
  BY <1>1 DEF NoFile
<1>3. QED
  BY <1>1, <1>2 DEF Blank, ReqType

Stays(r) == \A q \in Request \ {r} : pc'[q] = pc[q] /\ req'[q] = req[q]

\* A request goes to a label and the others stay where they are.
LEMMA Goes ==
  ASSUME RequestsTyped, NEW r \in Request, NEW label \in Labels, NEW with \in ReqType,
         Stage(label, with), Goto(r, label, with)
  PROVE  /\ RequestsTyped' /\ Stays(r) /\ pc'[r] = label
         /\ req'[r] = IF label = "done" THEN Blank ELSE with
<1>1. /\ pc' \in [Request -> Labels] /\ req' \in [Request -> ReqType] /\ Stays(r)
      /\ pc'[r] = label /\ req'[r] = IF label = "done" THEN Blank ELSE with
  BY BlankTyped DEF Goto, RequestsTyped, Stays
<1>2. Stage(pc'[r], req'[r])
  BY <1>1 DEF Stage, Inside
<1>3. QED
  BY <1>1, <1>2 DEF RequestsTyped, Stays

\* So does a request that is answered.
LEMMA Finishes ==
  ASSUME RequestsTyped, NEW r \in Request, Finish(r)
  PROVE  RequestsTyped' /\ Stays(r) /\ pc'[r] = "done" /\ req'[r] = Blank
BY Goes, BlankTyped DEF Finish, Stage, Inside, Labels

\* A request arrives.
LEMMA Arrives ==
  ASSUME RequestsTyped, NEW r \in Request, Arrive(r)
  PROVE  /\ RequestsTyped' /\ Stays(r) /\ UNCHANGED <<stores, box, synced, edited>>
         /\ pc'[r] \in {"lookup", "search", "persist", "find"}
<1>1. PICK o \in Op, n \in Name, label \in {"lookup", "search", "persist", "find"} :
        /\ Goto(r, label, [Blank EXCEPT !.op = o, !.name = n])
        /\ label = "find" => o \in {"delete_file", "delete_session"}
        /\ label = "persist" => o = "persist"
  BY DEF Arrive, Op, InSandbox
<1>2. [Blank EXCEPT !.op = o, !.name = n] \in ReqType
  BY BlankTyped DEF ReqType
<1>3. Stage(label, [Blank EXCEPT !.op = o, !.name = n])
  BY <1>1 DEF Stage, Blank, Inside
<1>4. QED
  BY <1>1, <1>2, <1>3, Goes DEF Arrive, Labels

\* The content of the sandbox of a step on a file.
LEMMA Changes ==
  ASSUME Typed, box # None, NEW r \in Request, req[r].name \in Name, NEW content \in Content,
         NEW pieces, Change(r, content, pieces)
  PROVE  /\ box' \in BoxType
         /\ box'.session = box.session /\ box'.id = box.id /\ box'.alive = box.alive
         /\ box'.files = [box.files EXCEPT ![req[r].name] = content]
<1>1. PICK b \in BoxType, n \in Name :
        b = box /\ n = req[r].name /\ box' = [b EXCEPT !.files[n] = content]
  BY DEF Change, Typed, StoresTyped
<1>2. PICK f \in [Name -> Content] : f = b.files
  BY <1>1 DEF BoxType
<1>3. PICK g \in [Name -> Content] : g = [f EXCEPT ![n] = content]
  BY <1>2
<1>4. box' = [b EXCEPT !.files = g]
  BY <1>1, <1>2, <1>3
<1>5. /\ box' \in BoxType /\ box'.files = g
      /\ box'.session = b.session /\ box'.id = b.id /\ box'.alive = b.alive
  BY <1>4 DEF BoxType
<1>6. QED
  BY <1>1, <1>2, <1>3, <1>5

\* Contents are sequences of pieces.
LEMMA Contents ==
  /\ <<>> \in Content
  /\ \A r \in Request : <<r>> \in Content
  /\ \A c \in Content, r \in Request : Append(c, r) \in Content
BY DEF Content, Sid

\* A step of GetOrCreate or on a file keeps the types.
LEMMA UseTyped ==
  ASSUME Typed, NEW r \in Request, UseStep(r)
  PROVE  Typed' /\ Stays(r)
<1>1. RequestsTyped /\ StoresTyped /\ req[r] \in ReqType /\ pc[r] \in Labels /\ Stage(pc[r], req[r])
  BY DEF Typed, RequestsTyped
<1>2. Entry(r) \in {"read", "search", "write"}
  BY DEF Entry
<1>3. CASE UseCached(r)
  <2>1. Stage(Entry(r), req[r])
    BY <1>1, <1>2, <1>3 DEF UseCached, Stage, Inside
  <2>2. QED
    BY <1>1, <1>2, <1>3, <2>1, Goes DEF UseCached, Typed, StoresTyped, Labels, stores, synced
<1>4. CASE EvictDead(r)
  BY <1>4 DEF EvictDead, Typed, RequestsTyped, StoresTyped, stores, synced, Stays
<1>5. CASE CreateBox(r)
  <2>1. PICK s \in Sid : /\ session' = s
                         /\ \/ Goto(r, "mount", [req[r] EXCEPT !.session = s, !.todo = SessionRows(s),
                                                              !.known = acked])
                            \/ Goto(r, "mount", [req[r] EXCEPT !.session = s])
    BY <1>1, <1>5 DEF CreateBox, StoresTyped, Sid
  <2>2. /\ SessionRows(s) \in Seq(RowType) /\ acked \in [Name -> Content]
    BY <1>1, Listed DEF StoresTyped
  <2>3. /\ [req[r] EXCEPT !.session = s, !.todo = SessionRows(s), !.known = acked] \in ReqType
        /\ [req[r] EXCEPT !.session = s] \in ReqType
    BY <1>1, <2>2 DEF ReqType
  <2>4. /\ Stage("mount", [req[r] EXCEPT !.session = s, !.todo = SessionRows(s), !.known = acked])
        /\ Stage("mount", [req[r] EXCEPT !.session = s])
    BY <1>1, <1>5 DEF CreateBox, Stage, ReqType
  <2>5. RequestsTyped' /\ Stays(r)
    BY <1>1, <2>1, <2>3, <2>4, Goes DEF Labels
  <2>6. StoresTyped'
    BY <1>1, <1>5, <2>1 DEF CreateBox, StoresTyped, synced
  <2>7. QED
    BY <2>5, <2>6 DEF Typed
<1>6. CASE Mount(r)
  <2>1. \A n \in Name : n \in DOMAIN objects => objects[n] \in Content
    BY <1>1 DEF StoresTyped
  <2>2. \A left : Loaded(req[r].todo, left) \in [Name -> Content]
    BY <2>1, Contents DEF Loaded
  <2>3. PICK files \in [Name -> Content] :
          box' = [id |-> r, session |-> req[r].session, files |-> files, alive |-> TRUE]
    BY <1>6, <2>2 DEF Mount
  <2>4. box' \in BoxType
    BY <1>1, <1>6, <2>3 DEF Mount, BoxType, Stage, Inside
  <2>5. [Blank EXCEPT !.op = req[r].op, !.name = req[r].name] \in ReqType
    BY <1>1, BlankTyped DEF ReqType
  <2>6. Stage(Entry(r), [Blank EXCEPT !.op = req[r].op, !.name = req[r].name])
    BY <1>1, <1>2, <1>6 DEF Mount, Stage, Inside, Blank
  <2>7. RequestsTyped' /\ Stays(r)
    BY <1>1, <1>2, <1>6, <2>5, <2>6, Goes DEF Mount, Labels
  <2>8. StoresTyped'
    BY <1>1, <1>6, <2>4 DEF Mount, StoresTyped, stores, synced
  <2>9. QED
    BY <2>7, <2>8 DEF Typed
<1>7. CASE Unreachable(r)
  BY <1>1, <1>7, Finishes DEF Unreachable, Typed, StoresTyped, stores, synced
<1>8. CASE Write(r)
  <2>1. req[r].name \in Name /\ box # None
    BY <1>1, <1>8 DEF Write, Stage, Answers
  <2>2. \E content \in Content, pieces \in {{}, {r}} : Change(r, content, pieces)
    BY <1>8, Contents DEF Write
  <2>3. box' \in BoxType
    BY <2>1, <2>2, Changes
  <2>4. QED
    BY <1>1, <1>8, <2>3, Finishes DEF Write, Typed, StoresTyped, stores, synced
<1>9. CASE AppendRead(r)
  <2>1. req[r].name \in Name /\ (Answers => box \in BoxType)
    BY <1>1, <1>9 DEF AppendRead, Stage, Answers, StoresTyped
  <2>2. Answers => box.files[req[r].name] \in Content
    BY <2>1 DEF BoxType
  <2>3. PICK with \in ReqType : Goto(r, "append", with) /\ Stage("append", with)
    <3>1. Answers => [req[r] EXCEPT !.held = box.files[req[r].name]] \in ReqType
      BY <1>1, <2>2 DEF ReqType
    <3>2. /\ Stage("append", [req[r] EXCEPT !.held = box.files[req[r].name]])
          /\ Stage("append", req[r])
      BY <1>1, <1>9 DEF AppendRead, Stage, Inside, ReqType
    <3>3. QED
      BY <1>1, <1>9, <3>1, <3>2 DEF AppendRead
  <2>4. box' = None \/ box' = box
    BY <1>9 DEF AppendRead
  <2>5. QED
    BY <1>1, <1>9, <2>3, <2>4, Goes DEF AppendRead, Typed, StoresTyped, stores, synced, Labels
<1>10. CASE AppendWrite(r)
  <2>1. req[r].name \in Name /\ box # None /\ req[r].held \in Content
    BY <1>1, <1>10 DEF AppendWrite, Stage, Answers, ReqType
  <2>2. Appended(r) \in Content
    BY <2>1, Contents DEF Appended
  <2>3. box' \in BoxType
    BY <1>10, <2>1, <2>2, Changes DEF AppendWrite
  <2>4. QED
    BY <1>1, <1>10, <2>3, Finishes DEF AppendWrite, Typed, StoresTyped, stores, synced
<1>11. QED
  BY <1>3, <1>4, <1>5, <1>6, <1>7, <1>8, <1>9, <1>10 DEF UseStep

\* A step of a sync, or of the end of a run, keeps the types.
LEMMA SyncTyped ==
  ASSUME Typed, NEW r \in Request, SyncStep(r)
  PROVE  Typed' /\ Stays(r)
<1>1. RequestsTyped /\ StoresTyped /\ req[r] \in ReqType /\ pc[r] \in Labels /\ Stage(pc[r], req[r])
  BY DEF Typed, RequestsTyped
<1>2. AfterSync(r) \in {"remove", "done"} /\ AfterFile(r) \in {"done", "download"}
  BY DEF AfterSync, AfterFile
<1>3. CASE Search(r)
  <2>1. PICK label \in Labels, with \in ReqType : Goto(r, label, with) /\ Stage(label, with)
    <3>1. CASE box = None
      <4>1. Stage(AfterSync(r), req[r])
        BY <1>1, <1>2, <1>3 DEF Search, Stage, Inside
      <4>2. QED
        BY <1>1, <1>2, <1>3, <3>1, <4>1 DEF Search, Labels
    <3>2. CASE box # None
      <4>1. box \in BoxType
        BY <1>1, <3>2 DEF StoresTyped
      <4>2. box.id \in Request /\ box.session \in Sid
        BY <4>1 DEF BoxType
      <4>3. PICK found \in SUBSET Name :
              found = IF Answers THEN {n \in Name : box.files[n] # <<>>} ELSE {}
        OBVIOUS
      <4>4. PICK with : with = [req[r] EXCEPT !.box = box.id, !.session = box.session, !.names = found]
        OBVIOUS
      <4>5. with \in ReqType /\ with.op = req[r].op /\ with.name = req[r].name
            /\ with.session = box.session
        BY <1>1, <4>2, <4>3, <4>4 DEF ReqType
      <4>6. Stage("download", with)
        BY <1>1, <1>3, <4>2, <4>5 DEF Search, Stage, Inside
      <4>7. Goto(r, "download", with)
        BY <1>3, <3>2, <4>3, <4>4 DEF Search
      <4>8. QED
        BY <4>5, <4>6, <4>7 DEF Labels
    <3>3. QED
      BY <3>1, <3>2
  <2>2. QED
    BY <1>1, <1>3, <2>1, Goes DEF Search, Typed, StoresTyped, stores, synced
<1>4. CASE DownloadFile(r)
  <2>1. req[r].op \in Op /\ req[r].name \in Name /\ req[r].session \in Sid
    BY <1>1, <1>4 DEF DownloadFile, Stage, Inside
  <2>2. PICK label \in Labels, with \in ReqType : Goto(r, label, with) /\ Stage(label, with)
    <3>1. CASE req[r].names = {} /\ Goto(r, AfterSync(r), req[r])
      <4>1. Stage(AfterSync(r), req[r])
        BY <1>1, <1>2, <1>4 DEF DownloadFile, Stage, Inside
      <4>2. QED
        BY <1>1, <1>2, <3>1, <4>1 DEF Labels
    <3>2. ASSUME NEW n \in req[r].names, Answers, box.files[n] # <<>>,
                 Goto(r, "upload", [[req[r] EXCEPT !.names = @ \ {n}]
                                      EXCEPT !.name = n, !.held = box.files[n]])
          PROVE  \E label \in Labels, with \in ReqType : Goto(r, label, with) /\ Stage(label, with)
      <4>1. n \in Name /\ box \in BoxType
        BY <1>1, <3>2 DEF ReqType, StoresTyped, Answers
      <4>2. box.files[n] \in Content
        BY <4>1 DEF BoxType
      <4>3. PICK with : with = [[req[r] EXCEPT !.names = @ \ {n}] EXCEPT !.name = n, !.held = box.files[n]]
        OBVIOUS
      <4>4. with \in ReqType /\ with.op = req[r].op /\ with.name = n /\ with.session = req[r].session
            /\ n \notin with.names
        BY <1>1, <4>1, <4>2, <4>3 DEF ReqType
      <4>5. Stage("upload", with)
        BY <2>1, <4>1, <4>4 DEF Stage
      <4>6. QED
        BY <3>2, <4>3, <4>4, <4>5 DEF Labels
    <3>3. ASSUME NEW n \in req[r].names, Goto(r, "download", [req[r] EXCEPT !.names = @ \ {n}])
          PROVE  \E label \in Labels, with \in ReqType : Goto(r, label, with) /\ Stage(label, with)
      <4>1. PICK with : with = [req[r] EXCEPT !.names = @ \ {n}]
        OBVIOUS
      <4>2. /\ with \in ReqType /\ with.op = req[r].op /\ with.name = req[r].name
            /\ with.session = req[r].session
        BY <1>1, <4>1 DEF ReqType
      <4>3. Stage("download", with)
        BY <2>1, <4>2 DEF Stage
      <4>4. QED
        BY <3>3, <4>1, <4>2, <4>3 DEF Labels
    <3>4. QED
      BY <1>4, <3>1, <3>2, <3>3 DEF DownloadFile
  <2>3. QED
    BY <1>1, <1>4, <2>2, Goes DEF DownloadFile, Typed, StoresTyped, stores, synced
<1>5. CASE Persist(r)
  <2>1. PICK s \in Sid : session' = s /\ Goto(r, "upload", [req[r] EXCEPT !.session = s, !.held = <<r>>])
    BY <1>1, <1>5 DEF Persist, StoresTyped, Sid
  <2>2. [req[r] EXCEPT !.session = s, !.held = <<r>>] \in ReqType
    BY <1>1, Contents DEF ReqType
  <2>3. Stage("upload", [req[r] EXCEPT !.session = s, !.held = <<r>>])
    BY <1>1, <1>5 DEF Persist, Stage, ReqType
  <2>4. RequestsTyped' /\ Stays(r)
    BY <1>1, <2>1, <2>2, <2>3, Goes DEF Labels
  <2>5. QED
    BY <1>1, <1>5, <2>1, <2>4 DEF Persist, Typed, StoresTyped, synced
<1>6. CASE UploadObject(r)
  <2>1. req[r].op \in Op /\ req[r].name \in Name /\ req[r].session \in Sid /\ req[r].held \in Content
    BY <1>1, <1>6 DEF UploadObject, Stage, Inside, ReqType
  <2>2. Stage("record", req[r]) /\ Stage(AfterFile(r), req[r])
    BY <1>1, <1>2, <1>6, <2>1 DEF UploadObject, Stage, Inside
  <2>3. RequestsTyped' /\ Stays(r)
    BY <1>1, <1>2, <1>6, <2>2, Goes DEF UploadObject, Labels
  <2>4. /\ DOMAIN objects' \subseteq Name /\ \A n \in DOMAIN objects' : objects'[n] \in Content
    BY <1>1, <1>6, <2>1 DEF UploadObject, StoresTyped
  <2>5. acked' \in [Name -> Content]
    BY <1>1, <1>6, Contents DEF UploadObject, StoresTyped
  <2>6. QED
    BY <1>1, <1>6, <2>3, <2>4, <2>5 DEF UploadObject, Typed, StoresTyped
<1>7. CASE Record(r)
  <2>1. req[r].op \in Op /\ req[r].name \in Name /\ req[r].session \in Sid /\ req[r].held \in Content
    BY <1>1, <1>7 DEF Record, Stage, Inside, ReqType
  <2>2. Stage(AfterFile(r), req[r])
    BY <1>2, <2>1 DEF Stage, Inside
  <2>3. RequestsTyped' /\ Stays(r)
    BY <1>1, <1>2, <1>7, <2>2, Goes DEF Record, Labels
  <2>4. FileRow(<<r, req[r].name>>, req[r].session, req[r].name) \in RowType
    BY <2>1, FileRowTyped DEF Sid
  <2>5. table' \in Seq(RowType)
    BY <1>1, <1>7, <2>4 DEF Record, CreateFile, StoresTyped
  <2>6. acked' \in [Name -> Content]
    BY <1>1, <1>7, <2>1 DEF Record, StoresTyped
  <2>7. QED
    BY <1>1, <1>7, <2>3, <2>5, <2>6 DEF Record, Typed, StoresTyped
<1>8. CASE RemoveBox(r)
  BY <1>1, <1>8, Finishes DEF RemoveBox, Typed, StoresTyped, stores, synced
<1>9. QED
  BY <1>3, <1>4, <1>5, <1>6, <1>7, <1>8 DEF SyncStep

\* A deletion leaves a sequence of rows, all of them old.
LEMMA DeleteTypedRows ==
  ASSUME NEW t \in Seq(RowType), NEW id
  PROVE  DeleteFile(t, id) \in Seq(RowType)
<1>1. CASE id \notin Ids(t)
  BY <1>1 DEF DeleteFile
<1>2. CASE id \in Ids(t)
  <2>1. \E i \in DOMAIN t : t[i].id = id
    BY <1>2 DEF Ids, Rows, ToSet
  <2>2. PICK k \in DOMAIN t : DeleteFile(t, id) = RemoveAt(t, k)
    BY <1>2, <2>1 DEF DeleteFile
  <2>3. k \in 1 .. Len(t)
    OBVIOUS
  <2>4. QED
    BY <2>2, <2>3, WithoutOne
<1>3. QED
  BY <1>1, <1>2

\* The head and the tail of a list of rows.
LEMMA HeadTail ==
  ASSUME NEW rows \in Seq(RowType), rows # <<>>
  PROVE  /\ Head(rows) \in RowType /\ Head(rows) \in Rows(rows)
         /\ Tail(rows) \in Seq(RowType)
         /\ Rows(rows) = {Head(rows)} \cup Rows(Tail(rows))
<1>1. /\ DOMAIN rows = 1 .. Len(rows) /\ Len(rows) \in Nat /\ Len(rows) > 0
      /\ Head(rows) = rows[1] /\ Tail(rows) \in Seq(RowType)
      /\ DOMAIN Tail(rows) = 1 .. Len(rows) - 1
      /\ \A i \in 1 .. Len(rows) - 1 : Tail(rows)[i] = rows[i + 1]
  OBVIOUS
<1>2. \A i \in DOMAIN rows : i = 1 \/ (i - 1 \in DOMAIN Tail(rows) /\ rows[i] = Tail(rows)[i - 1])
  BY <1>1
<1>3. \A i \in DOMAIN Tail(rows) : i + 1 \in DOMAIN rows /\ rows[i + 1] = Tail(rows)[i]
  BY <1>1
<1>4. 1 \in DOMAIN rows /\ Head(rows) \in RowType
  BY <1>1
<1>5. Rows(rows) = {rows[i] : i \in DOMAIN rows} /\ Rows(Tail(rows)) = {Tail(rows)[i] : i \in DOMAIN Tail(rows)}
  BY DEF Rows, ToSet
<1>6. Rows(rows) = {Head(rows)} \cup Rows(Tail(rows))
  <2>1. ASSUME NEW x \in Rows(rows) PROVE x \in {Head(rows)} \cup Rows(Tail(rows))
    <3>1. PICK i \in DOMAIN rows : x = rows[i]
      BY <1>5, <2>1
    <3>2. QED
      BY <1>1, <1>2, <1>5, <3>1
  <2>2. ASSUME NEW x \in Rows(Tail(rows)) PROVE x \in Rows(rows)
    <3>1. PICK i \in DOMAIN Tail(rows) : x = Tail(rows)[i]
      BY <1>5, <2>2
    <3>2. QED
      BY <1>3, <1>5, <3>1
  <2>3. Head(rows) \in Rows(rows)
    BY <1>1, <1>4, <1>5
  <2>4. QED
    BY <2>1, <2>2, <2>3
<1>7. QED
  BY <1>1, <1>4, <1>6

\* A step of a deletion keeps the types.
LEMMA DeleteTyped ==
  ASSUME Typed, NEW r \in Request, DeleteStep(r)
  PROVE  Typed' /\ Stays(r)
<1>1. RequestsTyped /\ StoresTyped /\ req[r] \in ReqType /\ pc[r] \in Labels /\ Stage(pc[r], req[r])
  BY DEF Typed, RequestsTyped
<1>2. CASE Find(r)
  <2> DEFINE rows == ToDelete(r, SessionRows(session))
             with == [req[r] EXCEPT !.session = session, !.todo = rows]
  <2>1. CASE Finish(r)
    BY <1>1, <1>2, <2>1, Finishes DEF Find, Typed, StoresTyped, stores
  <2>2. CASE /\ session # None /\ ~(req[r].op = "delete_file" /\ rows = <<>>)
             /\ Goto(r, "erase", with)
    <3>1. session \in Sid /\ table \in Seq(RowType)
      BY <1>1, <2>2 DEF StoresTyped
    <3>2. rows \in Seq(RowType)
      BY <1>1, <3>1, Listed, ToDeleteListed
    <3>3. with \in ReqType /\ with.op = req[r].op /\ with.name = req[r].name
          /\ with.session = session /\ with.todo = rows
      <4> HIDE DEF rows
      <4>1. QED
        BY <1>1, <3>1, <3>2 DEF ReqType
    <3>4. with.op = "delete_session" \/ with.todo # <<>>
      <4>1. req[r].op \notin {"delete_session", "delete_file"} => FALSE
        BY <1>1, <1>2 DEF Find, Stage
      <4>2. QED
        BY <2>2, <3>3, <4>1
    <3>5. Stage("erase", with)
      <4>1. /\ req[r].op \in Op /\ req[r].name \in Name
            /\ req[r].op \in {"delete_file", "delete_session"}
        BY <1>1, <1>2 DEF Find, Stage
      <4> HIDE DEF with
      <4>2. QED
        BY <3>1, <3>3, <3>4, <4>1 DEF Stage
    <3>6. RequestsTyped' /\ Stays(r)
      BY <1>1, <2>2, <3>3, <3>5, Goes DEF Labels
    <3>7. QED
      BY <1>1, <1>2, <3>6 DEF Find, Typed, StoresTyped, stores
  <2>3. QED
    BY <1>2, <2>1, <2>2 DEF Find
<1>3. CASE Erase(r)
  <2>1. /\ req[r].op \in Op /\ req[r].name \in Name /\ req[r].session \in Sid
        /\ req[r].op \in {"delete_file", "delete_session"}
    BY <1>1, <1>3 DEF Erase, Stage, Inside
  <2>2. CASE req[r].todo = <<>>
    <3>1. Stage("forget", req[r])
      BY <1>1, <1>3, <2>1, <2>2 DEF Erase, Stage
    <3>2. QED
      BY <1>1, <1>3, <2>2, <3>1, Goes DEF Erase, Labels, Typed, StoresTyped
  <2>3. CASE req[r].todo # <<>>
    <3>1. Stage("delete", req[r])
      BY <2>1, <2>3 DEF Stage
    <3>2. RequestsTyped' /\ Stays(r)
      BY <1>1, <1>3, <2>3, <3>1, Goes DEF Erase, Labels
    <3>3. DOMAIN objects' \subseteq Name /\ \A n \in DOMAIN objects' : objects'[n] \in Content
      BY <1>1, <1>3, <2>3 DEF Erase, StoresTyped
    <3>4. acked' \in [Name -> Content]
      BY <1>1, <1>3, <2>3, Contents DEF Erase, StoresTyped
    <3>5. QED
      BY <1>1, <1>3, <3>2, <3>3, <3>4 DEF Erase, Typed, StoresTyped
  <2>4. QED
    BY <2>2, <2>3
<1>4. CASE DeleteRow(r)
  <2>1. /\ req[r].op \in Op /\ req[r].name \in Name /\ req[r].session \in Sid
        /\ req[r].todo # <<>> /\ req[r].todo \in Seq(RowType)
    BY <1>1, <1>4 DEF DeleteRow, Stage, Inside, ReqType
  <2>2. PICK with : with = [req[r] EXCEPT !.todo = Tail(@)]
    OBVIOUS
  <2>3. Tail(req[r].todo) \in Seq(RowType)
    BY <2>1
  <2>4. /\ with \in ReqType /\ with.op = req[r].op /\ with.name = req[r].name
        /\ with.session = req[r].session
    BY <1>1, <2>2, <2>3 DEF ReqType
  <2>5. PICK label \in {"done", "erase"} :
          Goto(r, label, with) /\ (label = "erase" => req[r].op # "delete_file")
    BY <1>4, <2>2 DEF DeleteRow
  <2>6. Stage(label, with)
    <3>1. req[r].op \in {"delete_file", "delete_session"}
      BY <1>1, <1>4 DEF DeleteRow, Stage
    <3>2. QED
      BY <2>1, <2>4, <2>5, <3>1 DEF Stage, Inside
  <2>7. RequestsTyped' /\ Stays(r)
    BY <1>1, <2>4, <2>5, <2>6, Goes DEF Labels
  <2>8. table' \in Seq(RowType)
    BY <1>1, <1>4, DeleteTypedRows DEF DeleteRow, StoresTyped
  <2>9. QED
    BY <1>1, <1>4, <2>7, <2>8 DEF DeleteRow, Typed, StoresTyped
<1>5. CASE Forget(r)
  BY <1>1, <1>5, Finishes, BlankTyped DEF Forget, Typed, StoresTyped
<1>6. QED
  BY <1>2, <1>3, <1>4, <1>5 DEF DeleteStep

\* The table of the start.
LEMMA FirstRows ==
  ASSUME Init
  PROVE  /\ IsTable(table) /\ table \in Seq(RowType)
         /\ \A row \in Rows(table) :
              \E n \in Stored : row.id = <<"s0", n>> /\ row.name = n /\ row.session = "s0"
         /\ \A n \in Stored : \E row \in Rows(table) : row.name = n /\ row.session = "s0"
<1> DEFINE S == {FileRow(<<"s0", n>>, "s0", n) : n \in Stored}
<1>1. IsFiniteSet(Stored) /\ Stored \subseteq Name
  BY SessionFilesAssumption
<1>2. PICK g : g = [n \in Stored |-> FileRow(<<"s0", n>>, "s0", n)]
  OBVIOUS
<1>3. S = {g[n] : n \in Stored} /\ g \in [Stored -> S] /\ g \in Surjection(Stored, S)
  BY <1>2 DEF Surjection
<1>4. \A n \in Stored : /\ g[n] \in RowType /\ g[n].id = <<"s0", n>> /\ g[n].name = n
                        /\ g[n].session = "s0"
  <2>1. SUFFICES ASSUME NEW n \in Stored
                 PROVE  /\ g[n] \in RowType /\ g[n].id = <<"s0", n>> /\ g[n].name = n
                        /\ g[n].session = "s0"
    OBVIOUS
  <2>2. g[n] = FileRow(<<"s0", n>>, "s0", n)
    BY <1>2
  <2>3. g[n] \in RowType
    BY <1>1, <2>2, FileRowTyped DEF Sid
  <2>4. QED
    BY <2>2, <2>3 DEF FileRow
<1>5. table = SetToSeq(S)
  BY DEF Init
<1> HIDE DEF S
<1>6. IsFiniteSet(S)
  BY <1>1, <1>3, FS_Surjection
<1>7. S \subseteq RowType
  BY <1>3, <1>4
<1>8. \A a, b \in S : a.id = b.id => a = b
  <2>1. SUFFICES ASSUME NEW n \in Stored, NEW m \in Stored, g[n].id = g[m].id
                 PROVE  g[n] = g[m]
    BY <1>3
  <2>2. <<"s0", n>> = <<"s0", m>>
    BY <1>4, <2>1
  <2>3. n = m
    BY <2>2
  <2>4. QED
    BY <2>3
<1>9. Cardinality(S) \in Nat /\ ExistsBijection(1 .. Cardinality(S), S)
  BY <1>6, FS_CardinalityType
<1>10. PICK f \in Bijection(1 .. Cardinality(S), S) : TRUE
  BY <1>9 DEF ExistsBijection
<1>11. f \in [1 .. Cardinality(S) -> S] /\ IsInjective(f)
  BY <1>10 DEF Bijection, Injection
<1>12. table \in [1 .. Cardinality(S) -> S] /\ IsInjective(table)
  BY <1>5, <1>11 DEF SetToSeq
<1>13. table \in Injection(1 .. Cardinality(S), S)
  BY <1>12 DEF Injection
<1>14. IsFiniteSet(1 .. Cardinality(S)) /\ Cardinality(1 .. Cardinality(S)) = Cardinality(S)
  BY <1>9, FS_Interval
<1>15. table \in Surjection(1 .. Cardinality(S), S)
  BY <1>6, <1>13, <1>14, FS_Injection
<1>16. Rows(table) = S
  BY <1>12, <1>15 DEF Surjection, Rows, ToSet
<1>17. table \in Seq(S)
  BY <1>9, <1>12
<1>18. \A i, j \in DOMAIN table : table[i].id = table[j].id => i = j
  BY <1>8, <1>12 DEF IsInjective
<1>19. table \in Seq(RowType)
  BY <1>7, <1>17
<1>20. IsTable(table)
  BY <1>16, <1>17, <1>18 DEF IsTable
<1>21. \A row \in S : \E n \in Stored : row.id = <<"s0", n>> /\ row.name = n /\ row.session = "s0"
  BY <1>3, <1>4
<1>22. \A n \in Stored : g[n] \in S /\ g[n].name = n /\ g[n].session = "s0"
  BY <1>3, <1>4
<1>23. QED
  BY <1>16, <1>19, <1>20, <1>21, <1>22

\* The initial states have the types.
LEMMA InitTyped ==
  ASSUME Init
  PROVE  Typed
<1>1. RequestsTyped
  BY BlankTyped DEF Init, RequestsTyped, Stage, Inside, Labels
<1>2. /\ <<"s0">> \in Content /\ "s0" \in Sid /\ Stored \subseteq Name /\ <<>> \in Content
  BY Contents, SessionFilesAssumption DEF Content, Sid
<1>3. StoresTyped
  BY <1>2, FirstRows DEF Init, StoresTyped
<1>4. QED
  BY <1>1, <1>3 DEF Typed

\* The sandbox dies.
LEMMA DieTyped ==
  ASSUME Typed, Die
  PROVE  Typed' /\ box' = [box EXCEPT !.alive = FALSE] /\ box \in BoxType
<1>1. box \in BoxType
  BY DEF Typed, StoresTyped, Die, Answers
<1>2. box' \in BoxType
  BY <1>1 DEF Die, BoxType
<1>3. QED
  BY <1>1, <1>2 DEF Die, Typed, RequestsTyped, StoresTyped, stores, synced

\* A step of a request keeps the types and the other requests.
LEMMA RequestTyped ==
  ASSUME Typed, NEW r \in Request, RequestStep(r)
  PROVE  Typed' /\ Stays(r)
<1>1. CASE Arrive(r)
  BY <1>1, Arrives DEF Typed, StoresTyped, stores, synced
<1>2. QED
  BY <1>1, UseTyped, SyncTyped, DeleteTyped DEF RequestStep

-----------------------------------------------------------------------------
(***************************************************************************)
(* Appends: what an append has read has every acknowledged piece, unless   *)
(* the history calls the name blurred.                                     *)
(***************************************************************************)
HeldKept ==
  \A q \in Request : pc[q] = "append" /\ req[q].name \notin blurred =>
    written[req[q].name] \subseteq Pieces(req[q].held)

PerName == written = [n \in Name |-> written[n]]

Edits == PerName /\ AppendsKept /\ HeldKept

\* Where a step puts its request.
LEMMA Moves ==
  ASSUME RequestsTyped, NEW r \in Request, NEW label, NEW with, Goto(r, label, with)
  PROVE  /\ pc'[r] = label /\ req'[r] = IF label = "done" THEN Blank ELSE with
         /\ Stays(r)
BY DEF Goto, RequestsTyped, Stays

\* A change of a file with all pieces the history knows keeps the appends.
LEMMA ChangeKeepsEdits ==
  ASSUME Typed, Edits, box # None, NEW r \in Request, req[r].name \in Name,
         NEW content \in Content, NEW pieces, Change(r, content, pieces), Finish(r),
         req[r].name \notin blurred => pieces \subseteq Pieces(content)
  PROVE  Edits'
<1>1. PICK n \in Name : n = req[r].name
  OBVIOUS
<1>2. /\ written' = [written EXCEPT ![n] = pieces]
      /\ blurred' = IF Appending(n) \subseteq {r} THEN blurred ELSE blurred \cup {n}
      /\ box'.files = [box.files EXCEPT ![n] = content]
  BY <1>1, Changes DEF Change
<1>3. Stays(r) /\ pc'[r] = "done"
  BY Moves DEF Finish, Typed
<1>4. box.files \in [Name -> Content]
  BY DEF Typed, StoresTyped, BoxType
<1>5. AppendsKept'
  <2>1. SUFFICES ASSUME NEW m \in Name \ blurred'
                 PROVE  written'[m] \subseteq Pieces(box'.files[m])
    BY DEF AppendsKept
  <2>2. m \notin blurred
    BY <1>2
  <2>3. QED
    BY <1>1, <1>2, <1>4, <2>2 DEF Edits, PerName, AppendsKept
<1>6. HeldKept'
  <2>1. SUFFICES ASSUME NEW q \in Request, pc'[q] = "append", req'[q].name \notin blurred'
                 PROVE  written'[req'[q].name] \subseteq Pieces(req'[q].held)
    BY DEF HeldKept
  <2>2. q # r /\ pc[q] = "append" /\ req'[q] = req[q] /\ req[q].name \notin blurred
    BY <1>2, <1>3, <2>1 DEF Stays
  <2>3. req[q].name # n
    BY <1>2, <2>1, <2>2 DEF Appending
  <2>4. QED
    BY <1>2, <2>2, <2>3 DEF Edits, PerName, HeldKept
<1>7. PerName'
  BY <1>1, <1>2 DEF Edits, PerName
<1>8. QED
  BY <1>5, <1>6, <1>7 DEF Edits

\* A step that leaves the history of the edits and the files, and starts no append.
LEMMA NoEdit ==
  ASSUME Typed, Edits, NEW r \in Request, Stays(r), pc'[r] # "append",
         UNCHANGED edited, box' = None \/ box' = box
  PROVE  Edits'
BY DEF Edits, PerName, AppendsKept, HeldKept, Stays, edited

\* A step of GetOrCreate or on a file.
LEMMA UseKeepsEdits ==
  ASSUME Typed, Edits, NEW r \in Request, UseStep(r)
  PROVE  Edits'
<1>1. RequestsTyped /\ StoresTyped /\ req[r] \in ReqType /\ Stage(pc[r], req[r])
  BY DEF Typed, RequestsTyped
<1>2. Entry(r) \in {"read", "search", "write"}
  BY DEF Entry
<1>3. Stays(r)
  BY UseTyped
<1>4. CASE UseCached(r)
  <2>1. pc'[r] # "append"
    BY <1>1, <1>2, <1>4, Moves DEF UseCached
  <2>2. QED
    BY <1>3, <1>4, <2>1, NoEdit DEF UseCached
<1>5. CASE EvictDead(r)
  BY <1>3, <1>5, NoEdit DEF EvictDead
<1>6. CASE CreateBox(r)
  <2>1. pc'[r] = "mount"
    BY <1>1, <1>6, Moves DEF CreateBox
  <2>2. QED
    BY <1>3, <1>6, <2>1, NoEdit DEF CreateBox
<1>7. CASE Mount(r)
  <2>1. PICK files : /\ box' = [id |-> r, session |-> req[r].session, files |-> files, alive |-> TRUE]
                     /\ written' = [n \in Name |-> Pieces(files[n])]
    BY <1>7 DEF Mount
  <2>2. AppendsKept'
    BY <2>1 DEF AppendsKept
  <2>3. pc'[r] # "append"
    BY <1>1, <1>2, <1>7, Moves DEF Mount
  <2>4. HeldKept'
    <3>1. SUFFICES ASSUME NEW q \in Request, pc'[q] = "append", req'[q].name \notin blurred'
                   PROVE  FALSE
      BY DEF HeldKept
    <3>2. pc[q] = "append" /\ req'[q].name = req[q].name
      BY <1>3, <2>3, <3>1 DEF Stays
    <3>3. req[q].name \in Name
      BY <3>2 DEF Typed, RequestsTyped, Stage
    <3>4. QED
      BY <1>7, <3>1, <3>2, <3>3 DEF Mount, Appending
  <2>5. PerName'
    BY <2>1 DEF PerName
  <2>6. QED
    BY <2>2, <2>4, <2>5 DEF Edits
<1>8. CASE Unreachable(r)
  <2>1. pc'[r] = "done"
    BY <1>1, <1>8, Moves DEF Unreachable, Finish
  <2>2. QED
    BY <1>3, <1>8, <2>1, NoEdit DEF Unreachable
<1>9. CASE Write(r)
  <2>1. req[r].name \in Name /\ box # None
    BY <1>1, <1>9 DEF Write, Stage, Answers
  <2>2. {r} \subseteq Pieces(<<r>>)
    BY DEF Pieces, ToSet
  <2>3. QED
    BY <1>9, <2>1, <2>2, Contents, ChangeKeepsEdits DEF Write
<1>10. CASE AppendRead(r)
  <2>1. /\ req[r].name \in Name /\ pc'[r] = "append" /\ UNCHANGED written
        /\ box' = None \/ box' = box
        /\ blurred \subseteq blurred'
    BY <1>1, <1>10, Moves DEF AppendRead, Stage
  <2>2. AppendsKept'
    BY <2>1 DEF Edits, AppendsKept
  <2>3. /\ req'[r].name = req[r].name
        /\ req[r].name \notin blurred' => box # None /\ req'[r].held = box.files[req[r].name]
    BY <1>1, <1>10, Moves DEF AppendRead, ReqType, Answers
  <2>4. HeldKept'
    BY <1>3, <2>1, <2>3 DEF Edits, AppendsKept, HeldKept, Stays
  <2>5. QED
    BY <2>1, <2>2, <2>4 DEF Edits, PerName
<1>11. CASE AppendWrite(r)
  <2>1. req[r].name \in Name /\ box # None /\ req[r].held \in Content /\ pc[r] = "append"
    BY <1>1, <1>11 DEF AppendWrite, Stage, Answers, ReqType
  <2>2. /\ Appended(r) \in Content
        /\ Pieces(Appended(r)) = Pieces(req[r].held) \cup {r}
    <3>1. PICK c \in Content : c = req[r].held
      BY <2>1
    <3>2. Append(c, r) \in Content /\ Len(Append(c, r)) = Len(c) + 1 /\ Len(c) \in Nat
          /\ DOMAIN c = 1 .. Len(c) /\ DOMAIN Append(c, r) = 1 .. Len(c) + 1
          /\ \A i \in 1 .. Len(c) : Append(c, r)[i] = c[i]
          /\ Append(c, r)[Len(c) + 1] = r
      BY Contents DEF Content
    <3>3. Pieces(Append(c, r)) = Pieces(c) \cup {r}
      BY <3>2 DEF Pieces, ToSet
    <3>4. QED
      BY <3>1, <3>2, <3>3 DEF Appended
  <2>3. req[r].name \notin blurred => written[req[r].name] \cup {r} \subseteq Pieces(Appended(r))
    BY <2>1, <2>2 DEF Edits, HeldKept
  <2>4. QED
    BY <1>11, <2>1, <2>2, <2>3, ChangeKeepsEdits DEF AppendWrite
<1>12. QED
  BY <1>4, <1>5, <1>6, <1>7, <1>8, <1>9, <1>10, <1>11 DEF UseStep

\* Every step.
LEMMA KeepEdits ==
  ASSUME Typed, Edits, NEW r \in Request, RequestStep(r)
  PROVE  Edits'
<1>1. RequestsTyped
  BY DEF Typed
<1>2. Stays(r)
  BY RequestTyped
<1>3. CASE Arrive(r)
  BY <1>2, <1>3, <1>1, Arrives, NoEdit
<1>4. CASE SyncStep(r)
  <2>1. AfterSync(r) \in {"remove", "done"} /\ AfterFile(r) \in {"done", "download"}
    BY DEF AfterSync, AfterFile
  <2>2. UNCHANGED edited /\ (box' = None \/ box' = box)
    BY <1>4 DEF SyncStep, Search, DownloadFile, Persist, UploadObject, Record, RemoveBox
  <2>3. \E label \in {"remove", "done", "download", "upload", "record"} : \E with : Goto(r, label, with)
    BY <1>4, <2>1 DEF SyncStep, Search, DownloadFile, Persist, UploadObject, Record, RemoveBox, Finish
  <2>4. pc'[r] # "append"
    BY <1>1, <2>3, Moves
  <2>5. QED
    BY <1>2, <2>2, <2>4, NoEdit
<1>5. CASE DeleteStep(r)
  <2>1. UNCHANGED edited /\ (box' = None \/ box' = box)
    BY <1>5 DEF DeleteStep, Find, Erase, DeleteRow, Forget
  <2>2. \E label \in {"erase", "delete", "forget", "done"} : \E with : Goto(r, label, with)
    BY <1>5 DEF DeleteStep, Find, Erase, DeleteRow, Forget, Finish
  <2>3. pc'[r] # "append"
    BY <1>1, <2>2, Moves
  <2>4. QED
    BY <1>2, <2>1, <2>3, NoEdit
<1>6. QED
  BY <1>3, <1>4, <1>5, UseKeepsEdits DEF RequestStep

-----------------------------------------------------------------------------
(***************************************************************************)
(* Ids of rows: a row that a request may still insert is neither in the    *)
(* table nor in a list a request has at hand.                              *)
(***************************************************************************)
MayWrite(r, n) ==
  \/ pc[r] \in {"idle", "lookup", "mount", "search", "persist"}
  \/ pc[r] \in {"download", "upload", "record"} /\ n \in req[r].names
  \/ pc[r] \in {"upload", "record"} /\ n = req[r].name

Unborn ==
  \A r \in Request, n \in Name : MayWrite(r, n) =>
    /\ <<r, n>> \notin Ids(table)
    /\ \A q \in Request : \A row \in Rows(req[q].todo) : row.id # <<r, n>>

OneRowEach == IsTable(table) /\ Unborn

\* No rows.
LEMMA NoRows == Rows(<<>>) = {} /\ Rows(Blank.todo) = {}
BY DEF Rows, ToSet, Blank

(* What a step does that leaves the stores alone: the request goes on with *)
(* the rows it has or none, and with the session it has or the sandbox's.  *)
QuietStep(r) ==
  \/ Arrive(r) \/ UseCached(r) \/ EvictDead(r) \/ Mount(r) \/ Unreachable(r)
  \/ Write(r) \/ AppendRead(r) \/ AppendWrite(r) \/ Search(r) \/ DownloadFile(r) \/ RemoveBox(r)

Storing == {"persist", "upload", "record"}
Erasing == {"erase", "delete", "forget"}

Quiet(r) ==
  /\ UNCHANGED <<stores, synced>>
  /\ pc[r] \notin Storing \cup Erasing
  /\ pc'[r] \notin {"mount", "record"} \cup Erasing
  /\ pc'[r] \in {"idle", "lookup", "persist"} => pc[r] \in {"idle", "lookup"}
  /\ req'[r].todo \in {req[r].todo, <<>>}
  /\ pc'[r] \in {"download", "upload"} =>
       \/ pc[r] = "download" /\ req'[r].session = req[r].session
       \/ box # None /\ req'[r].session = box.session
  /\ pc'[r] = "lookup" => req'[r].known = NoFile \/ (pc[r] = "lookup" /\ req'[r] = req[r])
  /\ \A n \in Name : MayWrite(r, n)' => MayWrite(r, n)
  /\ box' # None =>
       \/ box # None /\ box'.session = box.session
       \/ pc[r] = "mount" /\ box'.session = req[r].session

LEMMA QuietSteps ==
  ASSUME Typed, NEW r \in Request, QuietStep(r)
  PROVE  Quiet(r)
<1>1. RequestsTyped /\ StoresTyped /\ req[r] \in ReqType /\ Stage(pc[r], req[r])
  BY DEF Typed, RequestsTyped
<1>2. Blank.todo = <<>> /\ Blank.known = NoFile
  BY DEF Blank
<1>3. CASE Arrive(r)
  <2>1. PICK o \in Op, n \in Name, label \in {"lookup", "search", "persist", "find"} :
          Goto(r, label, [Blank EXCEPT !.op = o, !.name = n])
    BY <1>3 DEF Arrive, Op, InSandbox
  <2>2. /\ pc'[r] \in {"lookup", "search", "persist", "find"}
        /\ req'[r].todo = <<>> /\ req'[r].known = NoFile
    <3>1. PICK with : with = [Blank EXCEPT !.op = o, !.name = n]
      OBVIOUS
    <3>2. with.todo = <<>> /\ with.known = NoFile
      BY <3>1 DEF Blank
    <3>3. Goto(r, label, with)
      BY <2>1, <3>1
    <3>4. QED
      BY <1>1, <3>2, <3>3, Moves
  <2>3. \A m \in Name : MayWrite(r, m)
    BY <1>3 DEF Arrive, MayWrite
  <2>4. QED
    BY <1>3, <2>2, <2>3 DEF Arrive, Quiet, Storing, Erasing, stores, synced
<1>4. CASE UseCached(r)
  <2>1. pc'[r] \in {"read", "search", "write"} /\ req'[r] = req[r]
    BY <1>1, <1>4, Moves DEF UseCached, Entry
  <2>2. \A m \in Name : MayWrite(r, m)
    BY <1>4 DEF UseCached, MayWrite
  <2>3. QED
    BY <1>4, <2>1, <2>2 DEF UseCached, Quiet, Storing, Erasing, stores, synced
<1>5. CASE EvictDead(r)
  BY <1>5 DEF EvictDead, MayWrite, Quiet, Storing, Erasing, stores, synced
<1>6. CASE Mount(r)
  <2>1. pc'[r] \in {"read", "search", "write"} /\ req'[r].todo = <<>>
    <3>1. PICK with : with = [Blank EXCEPT !.op = req[r].op, !.name = req[r].name]
      OBVIOUS
    <3>2. with.todo = <<>>
      BY <3>1 DEF Blank
    <3>3. PICK label \in {"read", "search", "write"} : Goto(r, label, with)
      BY <1>6, <3>1 DEF Mount, Entry
    <3>4. QED
      BY <1>1, <3>2, <3>3, Moves
  <2>2. \A m \in Name : MayWrite(r, m)
    BY <1>6 DEF Mount, MayWrite
  <2>3. PICK files :
          box' = [id |-> r, session |-> req[r].session, files |-> files, alive |-> TRUE]
    BY <1>6 DEF Mount
  <2>4. QED
    BY <1>6, <2>1, <2>2, <2>3 DEF Mount, Quiet, Storing, Erasing, stores, synced
<1>7. CASE Unreachable(r)
  <2>1. pc'[r] = "done" /\ req'[r] = Blank
    BY <1>1, <1>7, Moves DEF Unreachable, Finish
  <2>2. \A m \in Name : ~MayWrite(r, m)'
    BY <2>1 DEF MayWrite
  <2>3. QED
    BY <1>2, <1>7, <2>1, <2>2 DEF Unreachable, Quiet, Storing, Erasing, stores, synced
<1>8. CASE Write(r) \/ AppendWrite(r)
  <2>1. pc'[r] = "done" /\ req'[r] = Blank
    BY <1>1, <1>8, Moves DEF Write, AppendWrite, Finish
  <2>2. \A m \in Name : ~MayWrite(r, m)'
    BY <2>1 DEF MayWrite
  <2>3. req[r].name \in Name /\ box # None
    BY <1>1, <1>8 DEF Write, AppendWrite, Stage, Answers
  <2>4. req[r].held \in Content
    BY <1>1 DEF ReqType
  <2>5. Appended(r) \in Content
    BY <2>4, Contents DEF Appended
  <2>6. \E content \in Content : \E pieces : Change(r, content, pieces)
    BY <1>8, <2>5, Contents DEF Write, AppendWrite
  <2>7. box'.session = box.session
    BY <2>3, <2>6, Changes
  <2>8. QED
    BY <1>2, <1>8, <2>1, <2>2, <2>3, <2>7
       DEF Write, AppendWrite, Quiet, Storing, Erasing, stores, synced
<1>9. CASE AppendRead(r)
  <2>1. \E c : Goto(r, "append", [req[r] EXCEPT !.held = c]) \/ Goto(r, "append", req[r])
    BY <1>9 DEF AppendRead
  <2>2. pc'[r] = "append" /\ req'[r].todo = req[r].todo
    BY <1>1, <2>1, Moves DEF ReqType
  <2>3. \A m \in Name : ~MayWrite(r, m)'
    BY <2>2 DEF MayWrite
  <2>4. QED
    BY <1>9, <2>2, <2>3 DEF AppendRead, Quiet, Storing, Erasing, stores, synced
<1>10. CASE Search(r)
  <2>1. \A m \in Name : MayWrite(r, m)
    BY <1>10 DEF Search, MayWrite
  <2>2. CASE box = None
    <3>1. pc'[r] \in {"remove", "done"} /\ req'[r] \in {req[r], Blank}
      BY <1>1, <1>10, <2>2, Moves DEF Search, AfterSync
    <3>2. QED
      BY <1>2, <1>10, <2>1, <3>1 DEF Search, Quiet, Storing, Erasing, stores, synced
  <2>3. CASE box # None
    <3>1. PICK names : Goto(r, "download", [req[r] EXCEPT !.box = box.id, !.session = box.session,
                                                          !.names = names])
      BY <1>10, <2>3 DEF Search
    <3>2. /\ pc'[r] = "download" /\ req'[r].todo = req[r].todo
          /\ req'[r].session = box.session
      <4>1. PICK with : with = [req[r] EXCEPT !.box = box.id, !.session = box.session, !.names = names]
        OBVIOUS
      <4>2. with.todo = req[r].todo /\ with.session = box.session
        BY <1>1, <4>1 DEF ReqType
      <4>3. Goto(r, "download", with)
        BY <3>1, <4>1
      <4>4. QED
        BY <1>1, <4>2, <4>3, Moves
    <3>3. QED
      BY <1>10, <2>1, <2>3, <3>2 DEF Search, Quiet, Storing, Erasing, stores, synced
  <2>4. QED
    BY <2>2, <2>3
<1>11. CASE DownloadFile(r)
  <2>1. CASE Goto(r, AfterSync(r), req[r])
    <3>1. pc'[r] \in {"remove", "done"} /\ req'[r] \in {req[r], Blank}
      BY <1>1, <2>1, Moves DEF AfterSync
    <3>2. \A m \in Name : ~MayWrite(r, m)'
      BY <3>1 DEF MayWrite
    <3>3. QED
      BY <1>2, <1>11, <3>1, <3>2 DEF DownloadFile, Quiet, Storing, Erasing, stores, synced
  <2>2. ASSUME NEW n \in req[r].names, NEW c,
               \/ Goto(r, "upload", [[req[r] EXCEPT !.names = @ \ {n}] EXCEPT !.name = n, !.held = c])
               \/ Goto(r, "download", [req[r] EXCEPT !.names = @ \ {n}])
        PROVE  Quiet(r)
    <3>1. /\ pc'[r] \in {"download", "upload"} /\ req'[r].todo = req[r].todo
          /\ req'[r].session = req[r].session /\ req'[r].names = req[r].names \ {n}
          /\ pc'[r] = "upload" => req'[r].name = n
      <4>1. PICK next : next = [req[r] EXCEPT !.names = @ \ {n}]
        OBVIOUS
      <4>2. next.todo = req[r].todo /\ next.session = req[r].session
            /\ next.names = req[r].names \ {n}
        BY <1>1, <4>1 DEF ReqType
      <4>3. PICK full : full = [next EXCEPT !.name = n, !.held = c]
        OBVIOUS
      <4>4. /\ full.todo = req[r].todo /\ full.session = req[r].session
            /\ full.names = req[r].names \ {n} /\ full.name = n
        BY <1>1, <4>1, <4>3 DEF ReqType
      <4>5. Goto(r, "upload", full) \/ Goto(r, "download", next)
        BY <2>2, <4>1, <4>3
      <4>6. QED
        BY <1>1, <4>2, <4>4, <4>5, Moves
    <3>2. \A m \in Name : MayWrite(r, m)' => m \in req[r].names
      BY <2>2, <3>1 DEF MayWrite
    <3>3. \A m \in Name : MayWrite(r, m)' => MayWrite(r, m)
      BY <1>11, <3>2 DEF MayWrite, DownloadFile
    <3>4. QED
      BY <1>11, <3>1, <3>3 DEF DownloadFile, Quiet, Storing, Erasing, stores, synced
  <2>3. QED
    BY <1>11, <2>1, <2>2 DEF DownloadFile
<1>12. CASE RemoveBox(r)
  <2>1. pc'[r] = "done" /\ req'[r] = Blank
    BY <1>1, <1>12, Moves DEF RemoveBox, Finish
  <2>2. \A m \in Name : ~MayWrite(r, m)'
    BY <2>1 DEF MayWrite
  <2>3. QED
    BY <1>2, <1>12, <2>1, <2>2 DEF RemoveBox, Quiet, Storing, Erasing, stores, synced
<1>13. QED
  BY <1>3, <1>4, <1>5, <1>6, <1>7, <1>8, <1>9, <1>10, <1>11, <1>12 DEF QuietStep

(* What the other steps do with their request.                             *)
Session(r) == IF session = None THEN r ELSE session

\* CreateBox lists the rows of the session, or goes on without a list.
LEMMA CreateBoxDoes ==
  ASSUME Typed, NEW r \in Request, CreateBox(r)
  PROVE  /\ pc[r] = "lookup" /\ pc'[r] = "mount" /\ session' = Session(r) /\ session' \in Sid
         /\ req'[r].session = session'
         /\ \/ req'[r].todo = SessionRows(session') /\ req'[r].known = acked
            \/ req'[r].todo = req[r].todo /\ req'[r].known = req[r].known
         /\ UNCHANGED <<table, objects, box, synced>>
<1>1. RequestsTyped /\ req[r] \in ReqType /\ Session(r) \in Sid
  BY DEF Typed, RequestsTyped, StoresTyped, Session, Sid
<1>2. PICK s : s = Session(r)
  OBVIOUS
<1>3. PICK full : full = [req[r] EXCEPT !.session = s, !.todo = SessionRows(s), !.known = acked]
  OBVIOUS
<1>4. PICK bare : bare = [req[r] EXCEPT !.session = s]
  OBVIOUS
<1>5. /\ full.session = s /\ full.todo = SessionRows(s) /\ full.known = acked
      /\ bare.session = s /\ bare.todo = req[r].todo /\ bare.known = req[r].known
  BY <1>1, <1>3, <1>4 DEF ReqType
<1>6. Goto(r, "mount", full) \/ Goto(r, "mount", bare)
  BY <1>2, <1>3, <1>4 DEF CreateBox, Session
<1>7. pc'[r] = "mount" /\ req'[r] \in {full, bare}
  BY <1>1, <1>6, Moves
<1>8. session' = s /\ pc[r] = "lookup" /\ UNCHANGED <<table, objects, box, synced>>
  BY <1>2 DEF CreateBox, Session
<1>9. QED
  BY <1>1, <1>2, <1>5, <1>7, <1>8

\* Persist has a session.
LEMMA PersistDoes ==
  ASSUME Typed, NEW r \in Request, Persist(r)
  PROVE  /\ pc[r] = "persist" /\ pc'[r] = "upload" /\ session' = Session(r) /\ session' \in Sid
         /\ req'[r].session = session' /\ req'[r].todo = req[r].todo
         /\ UNCHANGED <<table, objects, box, synced>>
<1>1. RequestsTyped /\ req[r] \in ReqType /\ Session(r) \in Sid
  BY DEF Typed, RequestsTyped, StoresTyped, Session, Sid
<1>2. PICK with : with = [req[r] EXCEPT !.session = Session(r), !.held = <<r>>]
  OBVIOUS
<1>3. with.session = Session(r) /\ with.todo = req[r].todo
  BY <1>1, <1>2 DEF ReqType
<1>4. Goto(r, "upload", with)
  BY <1>2 DEF Persist, Session
<1>5. pc'[r] = "upload" /\ req'[r] = with
  BY <1>1, <1>4, Moves
<1>6. session' = Session(r) /\ pc[r] = "persist" /\ UNCHANGED <<table, objects, box, synced>>
  BY DEF Persist, Session
<1>7. QED
  BY <1>1, <1>3, <1>5, <1>6

\* UploadObject goes on to the row, or to the next file when it fails.
LEMMA UploadObjectDoes ==
  ASSUME Typed, NEW r \in Request, UploadObject(r)
  PROVE  /\ pc[r] = "upload" /\ req[r].name \in Name /\ req[r].held \in Content
         /\ UNCHANGED <<table, session, box, outlived>>
         /\ \/ /\ pc'[r] = "record" /\ req'[r] = req[r]
               /\ objects' = [m \in DOMAIN objects \cup {req[r].name} |->
                                IF m = req[r].name THEN req[r].held ELSE objects[m]]
               /\ acked' = [acked EXCEPT ![req[r].name] = <<>>]
               /\ Race(r, req[r].name)
            \/ /\ pc'[r] \in {"download", "done"} /\ req'[r] \in {req[r], Blank}
               /\ UNCHANGED <<objects, acked, raced>>
<1>1. RequestsTyped /\ req[r] \in ReqType /\ Stage(pc[r], req[r])
  BY DEF Typed, RequestsTyped
<1>2. AfterFile(r) \in {"download", "done"}
  BY DEF AfterFile
<1>3. /\ pc[r] = "upload" /\ req[r].name \in Name /\ req[r].held \in Content
      /\ UNCHANGED <<table, session, box, outlived>>
  BY <1>1 DEF UploadObject, Stage, ReqType
<1>4. CASE /\ objects' = [m \in DOMAIN objects \cup {req[r].name} |->
                            IF m = req[r].name THEN req[r].held ELSE objects[m]]
           /\ acked' = [acked EXCEPT ![req[r].name] = <<>>]
           /\ Race(r, req[r].name) /\ Goto(r, "record", req[r])
  <2>1. pc'[r] = "record" /\ req'[r] = req[r]
    BY <1>1, <1>4, Moves
  <2>2. QED
    BY <1>3, <1>4, <2>1
<1>5. CASE Goto(r, AfterFile(r), req[r]) /\ UNCHANGED <<objects, acked, raced>>
  <2>1. pc'[r] \in {"download", "done"} /\ req'[r] \in {req[r], Blank}
    BY <1>1, <1>2, <1>5, Moves
  <2>2. QED
    BY <1>3, <1>5, <2>1
<1>6. QED
  BY <1>4, <1>5 DEF UploadObject

\* Record goes on to the next file, whether it has added its row or not.
LEMMA RecordDoes ==
  ASSUME Typed, NEW r \in Request, Record(r)
  PROVE  /\ pc[r] = "record" /\ req[r].name \in Name /\ req[r].session \in Sid
         /\ pc'[r] \in {"download", "done"} /\ req'[r] \in {req[r], Blank}
         /\ (\A n \in Name : n = req[r].name => ~MayWrite(r, n)')
         /\ UNCHANGED <<objects, session, box, raced>>
         /\ \/ /\ table' = CreateFile(table, FileRow(<<r, req[r].name>>, req[r].session, req[r].name))
               /\ acked' = IF req[r].session = session THEN [acked EXCEPT ![req[r].name] = req[r].held]
                           ELSE acked
               /\ outlived' = outlived \cup Deleting(req[r].session)
            \/ UNCHANGED <<table, acked, outlived>>
<1>1. RequestsTyped /\ req[r] \in ReqType /\ Stage(pc[r], req[r])
  BY DEF Typed, RequestsTyped
<1>2. CASE req[r].op = "persist"
  <2>1. pc'[r] = "done" /\ req'[r] = Blank
    BY <1>1, <1>2, Moves DEF Record, AfterFile
  <2>2. (\A n \in Name : n = req[r].name => ~MayWrite(r, n)')
    BY <2>1 DEF MayWrite
  <2>3. QED
    BY <1>1, <2>1, <2>2 DEF Record, Stage, Inside
<1>3. CASE req[r].op # "persist"
  <2>1. pc'[r] = "download" /\ req'[r] = req[r]
    BY <1>1, <1>3, Moves DEF Record, AfterFile
  <2>2. req[r].name \notin req[r].names
    BY <1>1, <1>3 DEF Record, Stage
  <2>3. (\A n \in Name : n = req[r].name => ~MayWrite(r, n)')
    BY <2>1, <2>2 DEF MayWrite
  <2>4. QED
    BY <1>1, <2>1, <2>3 DEF Record, Stage, Inside
<1>4. QED
  BY <1>2, <1>3

\* Find has the rows to delete at hand; for a session, those of its list.
LEMMA FindDoes ==
  ASSUME Typed, NEW r \in Request, Find(r)
  PROVE  /\ pc[r] = "find" /\ UNCHANGED <<stores, box, acked, raced>> /\ outlived \subseteq outlived'
         /\ \/ pc'[r] = "done" /\ req'[r] = Blank
            \/ /\ pc'[r] = "erase" /\ session \in Sid /\ req'[r].session = session
               /\ req'[r].op = req[r].op
               /\ Rows(req'[r].todo) \subseteq Rows(table)
               /\ req[r].op = "delete_session" /\ session \notin outlived' =>
                    \A row \in Rows(table) : row.session = session => row \in Rows(req'[r].todo)
<1>1. RequestsTyped /\ StoresTyped /\ req[r] \in ReqType
  BY DEF Typed, RequestsTyped
<1>2. CASE Finish(r)
  BY <1>1, <1>2, Moves DEF Find, Finish
<1>3. CASE /\ session # None
           /\ Goto(r, "erase", [req[r] EXCEPT !.session = session,
                                              !.todo = ToDelete(r, SessionRows(session))])
  <2>1. session \in Sid /\ table \in Seq(RowType)
    BY <1>1, <1>3 DEF StoresTyped
  <2>2. PICK rows \in Seq(RowType) : rows = SessionRows(session)
    BY <2>1, Listed
  <2>3. PICK todo \in Seq(RowType) :
          /\ todo = ToDelete(r, rows) /\ Rows(todo) \subseteq Rows(rows)
          /\ req[r].op = "delete_session" => todo = rows
    BY <1>1, ToDeleteListed
  <2>4. PICK with : with = [req[r] EXCEPT !.session = session, !.todo = todo]
    OBVIOUS
  <2>5. with.session = session /\ with.todo = todo /\ with.op = req[r].op
    BY <1>1, <2>4 DEF ReqType
  <2>6. Goto(r, "erase", with)
    BY <1>3, <2>2, <2>3, <2>4
  <2>7. pc'[r] = "erase" /\ req'[r] = with
    BY <1>1, <2>6, Moves
  <2>8. Rows(rows) \subseteq Rows(table)
    BY <2>1, <2>2, Listed
  <2>9. session \notin outlived' => \A row \in Rows(table) : row.session = session => row \in Rows(rows)
    <3>1. session \notin outlived' =>
            Cardinality({i \in DOMAIN table : table[i].session = session}) <= ListLimit
      <4> DEFINE P == {i \in DOMAIN table : table[i].session = session}
      <4>1. IsFiniteSet(1 .. Len(table)) /\ Len(table) \in Nat /\ P \in SUBSET (1 .. Len(table))
        BY <2>1, FS_Interval
      <4>2. Cardinality(P) \in Nat
        BY <4>1, FS_Subset, FS_CardinalityType
      <4>3. session \notin outlived' => ~(Cardinality(P) > ListLimit)
        BY DEF Find
      <4> HIDE DEF P
      <4>4. session \notin outlived' => Cardinality(P) <= ListLimit
        BY <4>2, <4>3, SessionFilesAssumption
      <4>5. QED
        BY <4>4 DEF P
    <3>2. QED
      BY <2>1, <2>2, <3>1, Listed
  <2>10. QED
    BY <2>1, <2>3, <2>5, <2>7, <2>8, <2>9 DEF Find
<1>4. QED
  BY <1>2, <1>3 DEF Find

\* Erase takes the object of the next row away, or ends the deletions.
LEMMA EraseDoes ==
  ASSUME Typed, NEW r \in Request, Erase(r)
  PROVE  /\ pc[r] = "erase" /\ req'[r] = req[r] /\ UNCHANGED <<table, session, box, outlived>>
         /\ \/ pc'[r] = "forget" /\ UNCHANGED <<objects, acked, raced>>
            \/ /\ pc'[r] = "delete" /\ req[r].todo # <<>> /\ Head(req[r].todo).name \in Name
               /\ objects' \in {objects, [m \in DOMAIN objects \ {Head(req[r].todo).name} |-> objects[m]]}
               /\ acked' = [acked EXCEPT ![Head(req[r].todo).name] = <<>>]
               /\ Race(r, Head(req[r].todo).name)
<1>1. RequestsTyped /\ req[r] \in ReqType
  BY DEF Typed, RequestsTyped
<1>2. CASE req[r].todo = <<>>
  BY <1>1, <1>2, Moves DEF Erase
<1>3. CASE req[r].todo # <<>>
  <2>1. Head(req[r].todo).name \in Name
    BY <1>1, <1>3, HeadTail DEF ReqType, RowType
  <2>2. pc'[r] = "delete" /\ req'[r] = req[r]
    BY <1>1, <1>3, Moves DEF Erase
  <2>3. QED
    BY <1>3, <2>1, <2>2 DEF Erase
<1>4. QED
  BY <1>2, <1>3

\* DeleteRow goes on with the other rows.
LEMMA DeleteRowDoes ==
  ASSUME Typed, NEW r \in Request, DeleteRow(r)
  PROVE  /\ pc[r] = "delete" /\ req[r].todo # <<>> /\ UNCHANGED <<objects, session, box, acked, raced>>
         /\ \/ pc'[r] = "done" /\ req'[r] = Blank
            \/ /\ pc'[r] = "erase" /\ req'[r].todo = Tail(req[r].todo)
               /\ req'[r].session = req[r].session /\ req'[r].op = req[r].op
         /\ \/ table' = DeleteFile(table, Head(req[r].todo).id) /\ UNCHANGED outlived
            \/ UNCHANGED table /\ outlived' = outlived \cup {req[r].session}
<1>1. RequestsTyped /\ req[r] \in ReqType /\ Stage(pc[r], req[r])
  BY DEF Typed, RequestsTyped
<1>2. PICK with : with = [req[r] EXCEPT !.todo = Tail(@)]
  OBVIOUS
<1>3. with.todo = Tail(req[r].todo) /\ with.session = req[r].session /\ with.op = req[r].op
  BY <1>1, <1>2 DEF ReqType
<1>4. Goto(r, "done", with) \/ Goto(r, "erase", with)
  BY <1>2 DEF DeleteRow
<1>5. \/ pc'[r] = "done" /\ req'[r] = Blank
      \/ pc'[r] = "erase" /\ req'[r] = with
  BY <1>1, <1>4, Moves
<1>6. QED
  BY <1>1, <1>3, <1>5 DEF DeleteRow, Stage

\* Forget ends the deletion of a session.
LEMMA ForgetDoes ==
  ASSUME Typed, NEW r \in Request, Forget(r)
  PROVE  /\ pc[r] = "forget" /\ req[r].op = "delete_session" /\ req[r].todo = <<>>
         /\ pc'[r] = "done" /\ req'[r] = Blank /\ UNCHANGED <<table, objects, box, raced>>
         /\ \/ /\ session' = None /\ acked' = NoFile
               /\ outlived' = outlived \cup
                    {s \in {session} \ {None} : s # req[r].session \/ StillUsed(s)}
            \/ UNCHANGED <<session, acked, outlived>>
<1>1. RequestsTyped /\ Stage(pc[r], req[r])
  BY DEF Typed, RequestsTyped
<1>2. pc'[r] = "done" /\ req'[r] = Blank
  BY <1>1, Moves DEF Forget, Finish
<1>3. QED
  BY <1>1, <1>2 DEF Forget, Stage

\* The rows at hand come from those at hand and the table, and what a
\* request may write from what it might.
LEMMA AtHand ==
  ASSUME Typed, NEW r \in Request, RequestStep(r)
  PROVE  /\ Rows(req'[r].todo) \subseteq Rows(req[r].todo) \cup Rows(table)
         /\ \A n \in Name : MayWrite(r, n)' => MayWrite(r, n)
<1>1. StoresTyped /\ req[r].todo \in Seq(RowType)
  BY DEF Typed, RequestsTyped, ReqType
<1>2. CASE QuietStep(r)
  BY <1>2, QuietSteps, NoRows DEF Quiet
<1>3. CASE CreateBox(r)
  <2>1. Rows(SessionRows(session')) \subseteq Rows(table)
    BY <1>1, <1>3, CreateBoxDoes, Listed DEF StoresTyped
  <2>2. Rows(req'[r].todo) \subseteq Rows(req[r].todo) \cup Rows(table) /\ pc[r] = "lookup"
    BY <1>3, <2>1, CreateBoxDoes
  <2>3. QED
    BY <2>2 DEF MayWrite
<1>4. CASE Persist(r)
  <2>1. req'[r].todo = req[r].todo /\ pc[r] = "persist"
    BY <1>4, PersistDoes
  <2>2. QED
    BY <2>1 DEF MayWrite
<1>5. CASE UploadObject(r)
  <2>1. pc[r] = "upload" /\ pc'[r] \in {"record", "download", "done"} /\ req'[r] \in {req[r], Blank}
        /\ (pc'[r] = "record" => req'[r] = req[r])
    BY <1>5, UploadObjectDoes
  <2>2. Blank.names = {}
    BY DEF Blank
  <2>3. \A n \in Name : MayWrite(r, n)' => MayWrite(r, n)
    BY <2>1, <2>2 DEF MayWrite
  <2>4. QED
    BY <2>1, <2>3, NoRows
<1>6. CASE Record(r)
  <2>1. pc[r] = "record" /\ pc'[r] \in {"download", "done"} /\ req'[r] \in {req[r], Blank}
    BY <1>6, RecordDoes
  <2>2. Blank.names = {}
    BY DEF Blank
  <2>3. \A n \in Name : MayWrite(r, n)' => MayWrite(r, n)
    BY <2>1, <2>2 DEF MayWrite
  <2>4. QED
    BY <2>1, <2>3, NoRows
<1>7. CASE Find(r)
  <2>1. pc'[r] \in {"done", "erase"} /\ Rows(req'[r].todo) \subseteq Rows(table)
    BY <1>7, FindDoes, NoRows
  <2>2. QED
    BY <2>1 DEF MayWrite
<1>8. CASE Erase(r)
  <2>1. pc'[r] \in {"forget", "delete"} /\ req'[r] = req[r]
    BY <1>8, EraseDoes
  <2>2. QED
    BY <2>1 DEF MayWrite
<1>9. CASE DeleteRow(r)
  <2>1. pc'[r] \in {"done", "erase"} /\ Rows(req'[r].todo) \subseteq Rows(req[r].todo)
    BY <1>1, <1>9, DeleteRowDoes, HeadTail, NoRows
  <2>2. QED
    BY <2>1 DEF MayWrite
<1>10. CASE Forget(r)
  <2>1. pc'[r] = "done" /\ req'[r] = Blank
    BY <1>10, ForgetDoes
  <2>2. QED
    BY <2>1, NoRows DEF MayWrite
<1>11. QED
  BY <1>2, <1>3, <1>4, <1>5, <1>6, <1>7, <1>8, <1>9, <1>10
     DEF RequestStep, UseStep, SyncStep, DeleteStep, QuietStep

\* The table changes by the row of a record or a deletion.
LEMMA TableChanges ==
  ASSUME Typed, NEW r \in Request, RequestStep(r)
  PROVE  \/ table' = table
         \/ \E id : table' = DeleteFile(table, id)
         \/ /\ pc[r] = "record" /\ req[r].name \in Name /\ (\A n \in Name : n = req[r].name => ~MayWrite(r, n)')
            /\ table' = CreateFile(table, FileRow(<<r, req[r].name>>, req[r].session, req[r].name))
<1>1. CASE QuietStep(r)
  BY <1>1, QuietSteps DEF Quiet, stores
<1>2. CASE CreateBox(r) \/ Persist(r)
  BY <1>2, CreateBoxDoes, PersistDoes
<1>3. CASE UploadObject(r)
  BY <1>3, UploadObjectDoes
<1>4. CASE Record(r)
  BY <1>4, RecordDoes
<1>5. CASE Find(r)
  BY <1>5, FindDoes DEF stores
<1>6. CASE Erase(r)
  BY <1>6, EraseDoes
<1>7. CASE DeleteRow(r)
  BY <1>7, DeleteRowDoes
<1>8. CASE Forget(r)
  BY <1>8, ForgetDoes
<1>9. QED
  BY <1>1, <1>2, <1>3, <1>4, <1>5, <1>6, <1>7, <1>8
     DEF RequestStep, UseStep, SyncStep, DeleteStep, QuietStep

\* There is one row for each id, and none that is still to be inserted.
LEMMA KeepOneRowEach ==
  ASSUME Typed, OneRowEach, NEW r \in Request, RequestStep(r)
  PROVE  OneRowEach'
<1>1. Stays(r)
  BY RequestTyped
<1>2. \A q \in Request : Rows(req'[q].todo) \subseteq Rows(req[q].todo) \cup Rows(table)
  BY <1>1, AtHand DEF Stays
<1>3. \A q \in Request, n \in Name : MayWrite(q, n)' => MayWrite(q, n)
  BY <1>1, AtHand DEF Stays, MayWrite
<1>4. \A q \in Request, n \in Name : MayWrite(q, n)' =>
        \A p \in Request : \A row \in Rows(req'[p].todo) : row.id # <<q, n>>
  BY <1>2, <1>3 DEF OneRowEach, Unborn, Ids
<1>5. CASE table' = table
  BY <1>3, <1>4, <1>5 DEF OneRowEach, Unborn
<1>6. ASSUME NEW id, table' = DeleteFile(table, id)
      PROVE  OneRowEach'
  <2>1. IsTable(table') /\ Ids(table') \subseteq Ids(table)
    BY <1>6, DeleteRemoves DEF OneRowEach, Ids
  <2>2. QED
    BY <1>3, <1>4, <2>1 DEF OneRowEach, Unborn
<1>7. CASE /\ pc[r] = "record" /\ req[r].name \in Name /\ (\A n \in Name : n = req[r].name => ~MayWrite(r, n)')
           /\ table' = CreateFile(table, FileRow(<<r, req[r].name>>, req[r].session, req[r].name))
  <2>1. PICK row : row = FileRow(<<r, req[r].name>>, req[r].session, req[r].name)
    OBVIOUS
  <2>2. row.id = <<r, req[r].name>>
    BY <2>1 DEF FileRow
  <2>3. MayWrite(r, req[r].name)
    BY <1>7 DEF MayWrite
  <2>4. row.id \notin Ids(table)
    BY <1>7, <2>2, <2>3 DEF OneRowEach, Unborn
  <2>5. IsTable(table') /\ Rows(table') = Rows(table) \cup {row}
    BY <1>7, <2>1, <2>4, CreateAdds DEF OneRowEach
  <2>6. Ids(table') = Ids(table) \cup {<<r, req[r].name>>}
    BY <2>2, <2>5 DEF Ids
  <2>7. \A q \in Request, n \in Name : <<q, n>> = <<r, req[r].name>> => q = r /\ n = req[r].name
    OBVIOUS
  <2>8. Unborn'
    <3>1. ASSUME NEW q \in Request, NEW n \in Name, MayWrite(q, n)'
          PROVE  <<q, n>> \notin Ids(table')
      <4>1. <<q, n>> \notin Ids(table)
        BY <1>3, <3>1 DEF OneRowEach, Unborn
      <4>2. ~(q = r /\ n = req[r].name)
        BY <1>7, <3>1
      <4>3. QED
        BY <2>6, <2>7, <4>1, <4>2
    <3>2. QED
      BY <1>4, <3>1 DEF Unborn
  <2>9. QED
    BY <2>5, <2>8 DEF OneRowEach
<1>8. QED
  BY <1>5, <1>6, <1>7, TableChanges

-----------------------------------------------------------------------------
(***************************************************************************)
(* What the history calls stored: the object is there and a row that no    *)
(* deletion under way will take; and an object that is about to get its    *)
(* row has not changed since it was uploaded.                              *)
(***************************************************************************)
RecordHeld ==
  \A r \in Request : pc[r] = "record" /\ req[r].name \notin raced =>
    req[r].name \in DOMAIN objects /\ objects[req[r].name] = req[r].held

\* No request is about to delete this row for its name.
Safe(row) ==
  \A q \in Request : pc[q] = "delete" /\ Head(req[q].todo).name = row.name =>
    row.id # Head(req[q].todo).id

HasRow(n) == \E row \in Rows(table) : row.name = n /\ row.session = session /\ Safe(row)

AckedStored ==
  \A n \in Name \ raced : acked[n] # <<>> =>
    n \in DOMAIN objects /\ objects[n] = acked[n] /\ HasRow(n)

NoneAcked == session = None => acked = NoFile

HistoryTrue == RecordHeld /\ AckedStored /\ NoneAcked

\* A step that neither begins a record or a deletion nor takes anything away.
LEMMA NothingLost ==
  ASSUME Typed, HistoryTrue, NEW r \in Request, Stays(r),
         pc'[r] \notin {"record", "delete"}, UNCHANGED <<objects, acked, session>>,
         raced \subseteq raced', Rows(table) \subseteq Rows(table')
  PROVE  HistoryTrue'
<1>1. RecordHeld'
  BY DEF HistoryTrue, RecordHeld, Stays
<1>2. \A row : Safe(row) => Safe(row)'
  BY DEF Safe, Stays
<1>3. \A n : HasRow(n) => HasRow(n)'
  BY <1>2 DEF HasRow
<1>4. AckedStored'
  BY <1>3 DEF HistoryTrue, AckedStored
<1>5. QED
  BY <1>1, <1>4 DEF HistoryTrue, NoneAcked

\* A session that is found or created.
LEMMA SessionFound ==
  ASSUME Typed, HistoryTrue, NEW r \in Request, Stays(r), session' = Session(r),
         pc'[r] \notin {"record", "delete"}, UNCHANGED <<objects, acked, raced, table>>
  PROVE  HistoryTrue'
<1>1. CASE session' = session
  BY <1>1, NothingLost
<1>2. CASE session = None /\ session' # session
  <2>1. \A n \in Name : acked'[n] = <<>>
    BY <1>2 DEF HistoryTrue, NoneAcked, NoFile
  <2>2. RecordHeld'
    BY DEF HistoryTrue, RecordHeld, Stays
  <2>3. AckedStored'
    BY <2>1 DEF AckedStored
  <2>4. QED
    BY <1>2, <2>2, <2>3 DEF HistoryTrue, NoneAcked, Session
<1>3. QED
  BY <1>1, <1>2 DEF Session

\* Race notes every writer of the object that is between upload and row.
LEMMA Races ==
  ASSUME NEW r \in Request, NEW n, Race(r, n)
  PROVE  /\ raced \subseteq raced' /\ \A m : m # n /\ m \in raced' => m \in raced
         /\ \A q \in Request \ {r} : pc[q] = "record" /\ req[q].name = n => n \in raced'
BY DEF Race

\* UploadObject.
LEMMA UploadKeeps ==
  ASSUME Typed, HistoryTrue, NEW r \in Request, UploadObject(r)
  PROVE  HistoryTrue'
<1>1. Stays(r)
  BY SyncTyped DEF SyncStep
<1>2. CASE UNCHANGED <<objects, acked, raced>> /\ pc'[r] \in {"download", "done"}
  <2>1. UNCHANGED <<table, session>>
    BY UploadObjectDoes
  <2>2. QED
    BY <1>1, <1>2, <2>1, NothingLost
<1>3. CASE /\ pc'[r] = "record" /\ req'[r] = req[r]
           /\ objects' = [m \in DOMAIN objects \cup {req[r].name} |->
                            IF m = req[r].name THEN req[r].held ELSE objects[m]]
           /\ acked' = [acked EXCEPT ![req[r].name] = <<>>]
           /\ Race(r, req[r].name)
  <2>1. PICK n \in Name : n = req[r].name
    BY UploadObjectDoes
  <2>2. UNCHANGED <<table, session>> /\ pc[r] = "upload" /\ acked \in [Name -> Content]
    BY UploadObjectDoes DEF Typed, StoresTyped
  <2>3. raced \subseteq raced' /\ \A m : m # n /\ m \in raced' => m \in raced
    BY <1>3, <2>1, Races
  <2>4. RecordHeld'
    <3>1. SUFFICES ASSUME NEW q \in Request, pc'[q] = "record", req'[q].name \notin raced'
                   PROVE  req'[q].name \in DOMAIN objects' /\ objects'[req'[q].name] = req'[q].held
      BY DEF RecordHeld
    <3>2. CASE q = r
      BY <1>3, <3>2
    <3>3. CASE q # r
      <4>1. pc[q] = "record" /\ req'[q] = req[q] /\ req[q].name \notin raced
        BY <1>1, <2>3, <3>1, <3>3 DEF Stays
      <4>2. req[q].name # n
        BY <1>3, <2>1, <3>1, <3>3, <4>1, Races
      <4>3. req[q].name \in DOMAIN objects /\ objects[req[q].name] = req[q].held
        BY <4>1 DEF HistoryTrue, RecordHeld
      <4>4. QED
        BY <1>3, <2>1, <4>1, <4>2, <4>3
    <3>4. QED
      BY <3>2, <3>3
  <2>5. \A row : Safe(row) => Safe(row)'
    BY <1>1, <1>3 DEF Safe, Stays
  <2>6. \A m : HasRow(m) => HasRow(m)'
    BY <2>2, <2>5 DEF HasRow
  <2>7. AckedStored'
    <3>1. SUFFICES ASSUME NEW m \in Name \ raced', acked'[m] # <<>>
                   PROVE  m \in DOMAIN objects' /\ objects'[m] = acked'[m] /\ HasRow(m)'
      BY DEF AckedStored
    <3>2. m # n /\ acked'[m] = acked[m] /\ m \notin raced
      BY <1>3, <2>1, <2>2, <2>3, <3>1
    <3>3. m \in DOMAIN objects /\ objects[m] = acked[m] /\ HasRow(m)
      BY <3>1, <3>2 DEF HistoryTrue, AckedStored
    <3>4. QED
      BY <1>3, <2>1, <2>6, <3>2, <3>3
  <2>8. NoneAcked'
    BY <1>3, <2>1, <2>2 DEF HistoryTrue, NoneAcked, NoFile
  <2>9. QED
    BY <2>4, <2>7, <2>8 DEF HistoryTrue
<1>4. QED
  BY <1>2, <1>3, UploadObjectDoes

\* Record.
LEMMA RecordKeeps ==
  ASSUME Typed, OneRowEach, HistoryTrue, NEW r \in Request, Record(r)
  PROVE  HistoryTrue'
<1>1. Stays(r)
  BY SyncTyped DEF SyncStep
<1>2. /\ pc[r] = "record" /\ pc'[r] \in {"download", "done"} /\ UNCHANGED <<objects, session, raced>>
      /\ req[r].session \in Sid
  BY RecordDoes
<1>3. CASE UNCHANGED <<table, acked, outlived>>
  BY <1>1, <1>2, <1>3, NothingLost
<1>4. CASE /\ table' = CreateFile(table, FileRow(<<r, req[r].name>>, req[r].session, req[r].name))
           /\ acked' = IF req[r].session = session THEN [acked EXCEPT ![req[r].name] = req[r].held]
                       ELSE acked
  <2>1. PICK n \in Name : n = req[r].name
    BY RecordDoes
  <2>2. PICK row : row = FileRow(<<r, n>>, req[r].session, n)
    OBVIOUS
  <2>3. row.id = <<r, n>> /\ row.name = n /\ row.session = req[r].session
    BY <2>2 DEF FileRow
  <2>4. /\ row.id \notin Ids(table)
        /\ \A q \in Request : \A other \in Rows(req[q].todo) : other.id # row.id
    <3>1. MayWrite(r, n)
      BY <1>2, <2>1 DEF MayWrite
    <3>2. QED
      BY <2>3, <3>1 DEF OneRowEach, Unborn
  <2>5. Rows(table') = Rows(table) \cup {row}
    BY <1>4, <2>1, <2>2, <2>4, CreateAdds DEF OneRowEach
  <2>6. Safe(row)'
    <3>1. SUFFICES ASSUME NEW q \in Request, pc'[q] = "delete"
                   PROVE  row.id # Head(req'[q].todo).id
      BY DEF Safe
    <3>2. pc[q] = "delete" /\ req'[q] = req[q]
      BY <1>1, <1>2, <3>1 DEF Stays
    <3>3. req[q].todo \in Seq(RowType) /\ req[q].todo # <<>>
      BY <3>2 DEF Typed, RequestsTyped, Stage, ReqType
    <3>4. QED
      BY <2>4, <3>2, <3>3, HeadTail
  <2>7. \A other : Safe(other) => Safe(other)'
    BY <1>1, <1>2 DEF Safe, Stays
  <2>8. \A m : HasRow(m) => HasRow(m)'
    BY <1>2, <2>5, <2>7 DEF HasRow
  <2>9. RecordHeld'
    BY <1>1, <1>2 DEF HistoryTrue, RecordHeld, Stays
  <2>10. AckedStored'
    <3>1. SUFFICES ASSUME NEW m \in Name \ raced', acked'[m] # <<>>
                   PROVE  m \in DOMAIN objects' /\ objects'[m] = acked'[m] /\ HasRow(m)'
      BY DEF AckedStored
    <3>2. CASE acked'[m] = acked[m]
      BY <1>2, <2>8, <3>1, <3>2 DEF HistoryTrue, AckedStored
    <3>3. CASE acked'[m] # acked[m]
      <4>1. m = n /\ req[r].session = session /\ acked'[m] = req[r].held
        BY <1>4, <2>1, <3>3 DEF Typed, StoresTyped
      <4>2. m \in DOMAIN objects /\ objects[m] = req[r].held
        BY <1>2, <2>1, <3>1, <4>1 DEF HistoryTrue, RecordHeld
      <4>3. HasRow(m)'
        BY <1>2, <2>3, <2>5, <2>6, <4>1 DEF HasRow
      <4>4. QED
        BY <1>2, <4>1, <4>2, <4>3
    <3>4. QED
      BY <3>2, <3>3
  <2>11. NoneAcked'
    <3>1. session # None \/ req[r].session # session
      BY <1>2, SessionFilesAssumption DEF Sid
    <3>2. session = None => acked' = acked
      BY <1>4, <3>1
    <3>3. QED
      BY <1>2, <3>2 DEF HistoryTrue, NoneAcked
  <2>12. QED
    BY <2>9, <2>10, <2>11 DEF HistoryTrue
<1>5. QED
  BY <1>3, <1>4, RecordDoes

\* Erase: its file is no longer called stored.
LEMMA EraseKeeps ==
  ASSUME Typed, HistoryTrue, NEW r \in Request, Erase(r)
  PROVE  HistoryTrue'
<1>1. Stays(r)
  BY DeleteTyped DEF DeleteStep
<1>2. UNCHANGED <<table, session>> /\ pc[r] = "erase" /\ req'[r] = req[r]
  BY EraseDoes
<1>3. CASE pc'[r] = "forget" /\ UNCHANGED <<objects, acked, raced>>
  BY <1>1, <1>2, <1>3, NothingLost
<1>4. CASE /\ pc'[r] = "delete" /\ Head(req[r].todo).name \in Name
           /\ objects' \in {objects, [m \in DOMAIN objects \ {Head(req[r].todo).name} |-> objects[m]]}
           /\ acked' = [acked EXCEPT ![Head(req[r].todo).name] = <<>>]
           /\ Race(r, Head(req[r].todo).name)
  <2>1. PICK n \in Name : n = Head(req[r].todo).name
    BY <1>4
  <2>2. /\ objects' \in {objects, [m \in DOMAIN objects \ {n} |-> objects[m]]}
        /\ acked' = [acked EXCEPT ![n] = <<>>] /\ Race(r, n)
    BY <1>4, <2>1
  <2>3. /\ raced \subseteq raced' /\ \A m : m # n /\ m \in raced' => m \in raced
        /\ acked \in [Name -> Content]
    BY <2>2, Races DEF Typed, StoresTyped
  <2>4. \A m : m # n /\ m \in DOMAIN objects => m \in DOMAIN objects' /\ objects'[m] = objects[m]
    BY <2>2
  <2>5. RecordHeld'
    <3>1. SUFFICES ASSUME NEW q \in Request, pc'[q] = "record", req'[q].name \notin raced'
                   PROVE  req'[q].name \in DOMAIN objects' /\ objects'[req'[q].name] = req'[q].held
      BY DEF RecordHeld
    <3>2. q # r /\ pc[q] = "record" /\ req'[q] = req[q] /\ req[q].name \notin raced
      BY <1>1, <1>4, <2>3, <3>1 DEF Stays
    <3>3. req[q].name # n
      BY <2>2, <3>1, <3>2, Races
    <3>4. req[q].name \in DOMAIN objects /\ objects[req[q].name] = req[q].held
      BY <3>2 DEF HistoryTrue, RecordHeld
    <3>5. QED
      BY <2>4, <3>2, <3>3, <3>4
  <2>6. \A row : row.name # n /\ Safe(row) => Safe(row)'
    BY <1>1, <1>2, <2>1 DEF Safe, Stays
  <2>7. AckedStored'
    <3>1. SUFFICES ASSUME NEW m \in Name \ raced', acked'[m] # <<>>
                   PROVE  m \in DOMAIN objects' /\ objects'[m] = acked'[m] /\ HasRow(m)'
      BY DEF AckedStored
    <3>2. m # n /\ acked'[m] = acked[m] /\ m \notin raced
      BY <2>2, <2>3, <3>1
    <3>3. m \in DOMAIN objects /\ objects[m] = acked[m] /\ HasRow(m)
      BY <3>1, <3>2 DEF HistoryTrue, AckedStored
    <3>4. HasRow(m)'
      BY <1>2, <2>6, <3>2, <3>3 DEF HasRow
    <3>5. QED
      BY <2>4, <3>2, <3>3, <3>4
  <2>8. NoneAcked'
    BY <1>2, <2>2, <2>3 DEF HistoryTrue, NoneAcked, NoFile
  <2>9. QED
    BY <2>5, <2>7, <2>8 DEF HistoryTrue
<1>5. QED
  BY <1>3, <1>4, EraseDoes

\* DeleteRow: it takes no row that a stored file needs.
LEMMA DeleteRowKeeps ==
  ASSUME Typed, OneRowEach, HistoryTrue, NEW r \in Request, DeleteRow(r)
  PROVE  HistoryTrue'
<1>1. Stays(r)
  BY DeleteTyped DEF DeleteStep
<1>2. /\ UNCHANGED <<objects, session, acked, raced>> /\ pc[r] = "delete"
      /\ pc'[r] \in {"done", "erase"} /\ req[r].todo # <<>>
  BY DeleteRowDoes
<1>3. CASE UNCHANGED table
  BY <1>1, <1>2, <1>3, NothingLost
<1>4. CASE table' = DeleteFile(table, Head(req[r].todo).id)
  <2>1. PICK head \in RowType : head = Head(req[r].todo)
    BY <1>2, HeadTail DEF Typed, RequestsTyped, ReqType
  <2>2. Rows(table') = {row \in Rows(table) : row.id # head.id}
    BY <1>4, <2>1, DeleteRemoves DEF OneRowEach
  <2>3. \A row \in Rows(table) : row \in RowType
    BY DEF Typed, StoresTyped, Rows, ToSet
  <2>4. \A row \in Rows(table) : Safe(row) => row.id # head.id
    <3>1. SUFFICES ASSUME NEW row \in Rows(table), Safe(row), row.id = head.id
                   PROVE  FALSE
      OBVIOUS
    <3>2. row.name = head.name
      BY <2>3, <3>1 DEF RowType
    <3>3. QED
      BY <1>2, <2>1, <3>1, <3>2 DEF Safe
  <2>5. \A row : Safe(row) => Safe(row)'
    BY <1>1, <1>2 DEF Safe, Stays
  <2>6. \A n : HasRow(n) => HasRow(n)'
    BY <1>2, <2>2, <2>4, <2>5 DEF HasRow
  <2>7. RecordHeld'
    BY <1>1, <1>2 DEF HistoryTrue, RecordHeld, Stays
  <2>8. AckedStored'
    BY <1>2, <2>6 DEF HistoryTrue, AckedStored
  <2>9. QED
    BY <1>2, <2>7, <2>8 DEF HistoryTrue, NoneAcked
<1>5. QED
  BY <1>3, <1>4, DeleteRowDoes

\* Forget: nothing is called stored any more.
LEMMA ForgetKeeps ==
  ASSUME Typed, HistoryTrue, NEW r \in Request, Forget(r)
  PROVE  HistoryTrue'
<1>1. Stays(r)
  BY DeleteTyped DEF DeleteStep
<1>2. UNCHANGED <<table, objects, raced>> /\ pc'[r] = "done"
  BY ForgetDoes
<1>3. CASE UNCHANGED <<session, acked, outlived>>
  BY <1>1, <1>2, <1>3, NothingLost
<1>4. CASE session' = None /\ acked' = NoFile
  <2>1. RecordHeld'
    BY <1>1, <1>2 DEF HistoryTrue, RecordHeld, Stays
  <2>2. AckedStored'
    BY <1>4 DEF AckedStored, NoFile
  <2>3. QED
    BY <1>4, <2>1, <2>2 DEF HistoryTrue, NoneAcked, NoFile
<1>5. QED
  BY <1>3, <1>4, ForgetDoes

\* Every step.
LEMMA KeepHistory ==
  ASSUME Typed, OneRowEach, HistoryTrue, NEW r \in Request, RequestStep(r)
  PROVE  HistoryTrue'
<1>1. Stays(r)
  BY RequestTyped
<1>2. CASE QuietStep(r)
  <2>1. Quiet(r)
    BY <1>2, QuietSteps
  <2>2. QED
    BY <1>1, <2>1, NothingLost DEF Quiet, stores, synced, Erasing
<1>3. CASE CreateBox(r) \/ Persist(r)
  <2>1. /\ pc'[r] \in {"mount", "upload"} /\ session' = Session(r)
        /\ UNCHANGED <<table, objects, synced>>
    BY <1>3, CreateBoxDoes, PersistDoes
  <2>2. QED
    BY <1>1, <2>1, SessionFound DEF synced
<1>4. CASE Find(r)
  <2>1. pc'[r] \in {"done", "erase"} /\ UNCHANGED <<stores, acked, raced>>
    BY <1>4, FindDoes
  <2>2. QED
    BY <1>1, <2>1, NothingLost DEF stores
<1>5. QED
  BY <1>2, <1>3, <1>4, UploadKeeps, RecordKeeps, EraseKeeps, DeleteRowKeeps, ForgetKeeps
     DEF RequestStep, UseStep, SyncStep, DeleteStep, QuietStep

-----------------------------------------------------------------------------
(***************************************************************************)
(* Sessions: rows, the sandbox and the requests that will write know the   *)
(* session there is or one the history calls outlived, and a deletion has  *)
(* every row of its session at hand.                                       *)
(***************************************************************************)
Live == {session} \cup outlived
Writers == {"mount", "download", "upload", "record"}
Early == {"idle", "lookup", "persist"}

RowsLive == \A row \in Rows(table) : row.session \in Live
BoxLive == box # None => box.session \in Live
WritersLive == \A q \in Request : pc[q] \in Writers => req[q].session \in Live

\* No one knows the session a request may still create.
Unmade ==
  \A s \in Request : pc[s] \in Early =>
    session # s /\ \A q \in Request : pc[q] \in Erasing => req[q].session # s

DeletesAll ==
  \A q \in Request :
    /\ pc[q] \in Erasing /\ req[q].op = "delete_session"
    /\ req[q].session = session /\ session \notin outlived
    => \A row \in Rows(table) : row.session = session => row.id \in Ids(req[q].todo)

Known == RowsLive /\ BoxLive /\ WritersLive /\ Unmade
Sessions == Known /\ DeletesAll

\* What keeps the sessions known.
LEMMA KnownKept ==
  ASSUME Typed, Typed', Known, NEW r \in Request, Stays(r),
         \A s \in Sid : s \in Live => s \in Live',
         \A row \in Rows(table') : row \in Rows(table) \/ row.session \in Live',
         box' # None => box'.session \in Live',
         pc'[r] \in Writers => req'[r].session \in Live',
         pc'[r] \in Early => pc[r] \in Early,
         \/ session' \in {session, None}
         \/ session' = r /\ pc'[r] \notin Early,
         pc'[r] \in Erasing => \/ pc[r] \in Erasing /\ req'[r].session = req[r].session
                               \/ req'[r].session = session
  PROVE  Known'
<1>1. RowsLive'
  <2>1. \A row \in Rows(table) : row.session \in Sid
    BY DEF Typed, StoresTyped, Rows, ToSet, RowType
  <2>2. QED
    BY <2>1 DEF Known, RowsLive
<1>2. BoxLive'
  BY DEF BoxLive
<1>3. WritersLive'
  <2>1. \A q \in Request : pc[q] \in Writers => req[q].session \in Sid
    BY DEF Typed, RequestsTyped, Stage, Inside, Writers
  <2>2. QED
    BY <2>1 DEF Known, WritersLive, Stays
<1>4. Unmade'
  <2>1. SUFFICES ASSUME NEW s \in Request, pc'[s] \in Early
                 PROVE  /\ session' # s
                        /\ \A q \in Request : pc'[q] \in Erasing => req'[q].session # s
    BY DEF Unmade
  <2>2. pc[s] \in Early
    BY <2>1 DEF Stays
  <2>3. session # s /\ \A q \in Request : pc[q] \in Erasing => req[q].session # s
    BY <2>2 DEF Known, Unmade
  <2>4. session' # s
    BY <2>1, <2>3, SessionFilesAssumption
  <2>5. \A q \in Request : pc'[q] \in Erasing => req'[q].session # s
    BY <2>3 DEF Stays
  <2>6. QED
    BY <2>4, <2>5
<1>5. QED
  BY <1>1, <1>2, <1>3, <1>4 DEF Known

\* A step that begins no deletion and adds no row.
LEMMA DeletesKept ==
  ASSUME DeletesAll, NEW r \in Request, Stays(r), session' = session, outlived \subseteq outlived',
         Rows(table') \subseteq Rows(table),
         pc'[r] \in Erasing => pc[r] \in Erasing /\ req'[r] = req[r]
  PROVE  DeletesAll'
BY DEF DeletesAll, Stays

\* A step that leaves the stores alone.
LEMMA QuietSessions ==
  ASSUME Typed, Sessions, NEW r \in Request, QuietStep(r), Stays(r), Typed'
  PROVE  Sessions'
<1>1. Quiet(r)
  BY QuietSteps
<1>2. UNCHANGED <<table, session, outlived>>
  BY <1>1 DEF Quiet, stores, synced
<1>3. Live' = Live
  BY <1>2 DEF Live
<1>4. box' # None => box'.session \in Live'
  BY <1>1, <1>3 DEF Quiet, Sessions, Known, BoxLive, WritersLive, Writers
<1>5. pc'[r] \in Writers => req'[r].session \in Live'
  BY <1>1, <1>3 DEF Quiet, Sessions, Known, BoxLive, WritersLive, Writers
<1>6. pc'[r] \in Early => pc[r] \in Early
  BY <1>1 DEF Quiet, Early
<1>7. pc'[r] \notin Erasing
  BY <1>1 DEF Quiet
<1>8. Known'
  BY <1>2, <1>3, <1>4, <1>5, <1>6, <1>7, KnownKept DEF Sessions
<1>9. DeletesAll'
  BY <1>2, <1>7, DeletesKept DEF Sessions
<1>10. QED
  BY <1>8, <1>9 DEF Sessions

\* A session that is found or created.
LEMMA SessionKnown ==
  ASSUME Typed, Sessions, NEW r \in Request, Stays(r), Typed', session' = Session(r),
         session' \in Sid, req'[r].session = session', pc[r] \in Early,
         pc'[r] \in {"mount", "upload"}, UNCHANGED <<table, box, outlived>>
  PROVE  Sessions'
<1>1. \A s \in Sid : s \in Live => s \in Live'
  BY SessionFilesAssumption DEF Live, Session, Sid
<1>2. box' # None => box'.session \in Live'
  <2>1. box # None => box.session \in Sid
    BY DEF Typed, StoresTyped, BoxType
  <2>2. QED
    BY <1>1, <2>1 DEF Sessions, Known, BoxLive
<1>3. pc'[r] \notin Early \cup Erasing /\ req'[r].session \in Live'
  BY DEF Early, Erasing, Live
<1>4. session' = session \/ session' = r
  BY DEF Session
<1>5. Known'
  BY <1>1, <1>2, <1>3, <1>4, KnownKept DEF Sessions
<1>6. DeletesAll'
  <2>1. CASE session' = session
    BY <1>3, <2>1, DeletesKept DEF Sessions
  <2>2. CASE session' = r
    BY <1>3, <2>2 DEF Sessions, Known, Unmade, DeletesAll, Stays
  <2>3. QED
    BY <1>4, <2>1, <2>2
<1>7. QED
  BY <1>5, <1>6 DEF Sessions

\* UploadObject and Erase.
LEMMA ObjectSessions ==
  ASSUME Typed, Sessions, NEW r \in Request, UploadObject(r) \/ Erase(r), Stays(r), Typed'
  PROVE  Sessions'
<1>1. UNCHANGED <<table, session, box, outlived>>
  BY UploadObjectDoes, EraseDoes
<1>2. \/ pc[r] = "upload" /\ pc'[r] \in {"record", "download"} /\ req'[r].session = req[r].session
      \/ pc'[r] = "done"
      \/ pc[r] = "erase" /\ pc'[r] \in {"forget", "delete"} /\ req'[r] = req[r]
  <2>1. CASE UploadObject(r)
    <3>1. RequestsTyped
      BY DEF Typed
    <3>2. AfterFile(r) \in {"done", "download"}
      BY DEF AfterFile
    <3>3. PICK label \in {"record", "done", "download"} : Goto(r, label, req[r])
      BY <2>1, <3>2 DEF UploadObject
    <3>4. pc'[r] = label /\ (label # "done" => req'[r] = req[r])
      BY <3>1, <3>3, Moves
    <3>5. QED
      BY <2>1, <3>4, UploadObjectDoes
  <2>2. CASE Erase(r)
    BY <2>2, EraseDoes
  <2>3. QED
    BY <2>1, <2>2
<1>3. Live' = Live
  BY <1>1 DEF Live
<1>4. /\ box' # None => box'.session \in Live'
      /\ pc'[r] \in Writers => req'[r].session \in Live'
      /\ pc'[r] \notin Early
      /\ pc'[r] \in Erasing => pc[r] \in Erasing /\ req'[r] = req[r]
  BY <1>1, <1>2, <1>3 DEF Sessions, Known, BoxLive, WritersLive, Writers, Early, Erasing
<1>5. Known'
  BY <1>1, <1>3, <1>4, KnownKept DEF Sessions
<1>6. DeletesAll'
  BY <1>1, <1>4, DeletesKept DEF Sessions
<1>7. QED
  BY <1>5, <1>6 DEF Sessions

\* Record: a row added while its session is deleted is noted.
LEMMA RecordSessions ==
  ASSUME Typed, OneRowEach, Sessions, NEW r \in Request, Record(r), Stays(r), Typed'
  PROVE  Sessions'
<1>1. /\ pc[r] = "record" /\ pc'[r] \in {"download", "done"} /\ UNCHANGED <<session, box>>
      /\ req[r].session \in Sid /\ req[r].name \in Name
  BY RecordDoes
<1>2. pc'[r] = "done" \/ req'[r] = req[r]
  <2>1. RequestsTyped
    BY DEF Typed
  <2>2. Goto(r, AfterFile(r), req[r])
    BY DEF Record
  <2>3. QED
    BY <2>1, <2>2, Moves
<1>3. outlived \subseteq outlived'
  BY RecordDoes
<1>4. /\ \A s \in Sid : s \in Live => s \in Live'
      /\ box' # None => box'.session \in Live'
      /\ req[r].session \in Live'
      /\ pc'[r] \notin Early \cup Erasing
  BY <1>1, <1>3 DEF Live, Sessions, Known, BoxLive, WritersLive, Writers, Early, Erasing
<1>5. pc'[r] \in Writers => req'[r].session \in Live'
  BY <1>2, <1>4 DEF Writers
<1>6. CASE UNCHANGED <<table, acked, outlived>>
  <2>1. Known'
    BY <1>1, <1>4, <1>5, <1>6, KnownKept DEF Sessions
  <2>2. DeletesAll'
    BY <1>1, <1>4, <1>6, DeletesKept DEF Sessions
  <2>3. QED
    BY <2>1, <2>2 DEF Sessions
<1>7. CASE /\ table' = CreateFile(table, FileRow(<<r, req[r].name>>, req[r].session, req[r].name))
           /\ outlived' = outlived \cup Deleting(req[r].session)
  <2>1. PICK row : row = FileRow(<<r, req[r].name>>, req[r].session, req[r].name)
    OBVIOUS
  <2>2. row.id = <<r, req[r].name>> /\ row.session = req[r].session
    BY <2>1 DEF FileRow
  <2>3. row.id \notin Ids(table)
    <3>1. MayWrite(r, req[r].name)
      BY <1>1 DEF MayWrite
    <3>2. QED
      BY <1>1, <2>2, <3>1 DEF OneRowEach, Unborn
  <2>4. Rows(table') = Rows(table) \cup {row}
    BY <1>7, <2>1, <2>3, CreateAdds DEF OneRowEach
  <2>5. Known'
    BY <1>1, <1>4, <1>5, <2>2, <2>4, KnownKept DEF Sessions
  <2>6. DeletesAll'
    <3>1. SUFFICES ASSUME NEW q \in Request, pc'[q] \in Erasing, req'[q].op = "delete_session",
                          req'[q].session = session', session' \notin outlived',
                          NEW other \in Rows(table'), other.session = session'
                   PROVE  other.id \in Ids(req'[q].todo)
      BY DEF DeletesAll
    <3>2. q # r /\ pc[q] \in Erasing /\ req'[q] = req[q] /\ session' = session
      BY <1>1, <1>4, <3>1 DEF Stays
    <3>3. session \notin outlived /\ session \notin Deleting(req[r].session)
      BY <1>7, <3>1, <3>2
    <3>4. req[q].session # req[r].session
      BY <3>1, <3>2, <3>3 DEF Deleting, Erasing
    <3>5. other \in Rows(table)
      BY <2>2, <2>4, <3>1, <3>2, <3>4
    <3>6. QED
      BY <3>1, <3>2, <3>3, <3>5 DEF Sessions, DeletesAll
  <2>7. QED
    BY <2>5, <2>6 DEF Sessions
<1>8. QED
  BY <1>6, <1>7, RecordDoes

\* Find: a deletion has all rows at hand or is noted.
LEMMA FindSessions ==
  ASSUME Typed, Sessions, NEW r \in Request, Find(r), Stays(r), Typed'
  PROVE  Sessions'
<1>1. UNCHANGED <<table, session, box>> /\ outlived \subseteq outlived'
  BY FindDoes DEF stores
<1>2. \/ pc'[r] = "done"
      \/ pc'[r] = "erase" /\ req'[r].session = session
  BY FindDoes
<1>3. /\ \A s \in Sid : s \in Live => s \in Live'
      /\ box' # None => box'.session \in Live'
      /\ pc'[r] \notin Early \cup Writers
      /\ pc'[r] \in Erasing => req'[r].session = session
  BY <1>1, <1>2 DEF Live, Sessions, Known, BoxLive, Writers, Early, Erasing
<1>4. Known'
  BY <1>1, <1>3, KnownKept DEF Sessions
<1>5. DeletesAll'
  <2>1. SUFFICES ASSUME NEW q \in Request, pc'[q] \in Erasing, req'[q].op = "delete_session",
                        req'[q].session = session', session' \notin outlived',
                        NEW row \in Rows(table'), row.session = session'
                 PROVE  row.id \in Ids(req'[q].todo)
    BY DEF DeletesAll
  <2>2. CASE q = r
    <3>1. row \in Rows(req'[r].todo)
      BY <1>1, <2>1, <2>2, FindDoes DEF Erasing
    <3>2. QED
      BY <2>2, <3>1 DEF Ids
  <2>3. CASE q # r
    BY <1>1, <2>1, <2>3 DEF Sessions, DeletesAll, Stays
  <2>4. QED
    BY <2>2, <2>3
<1>6. QED
  BY <1>4, <1>5 DEF Sessions

\* DeleteRow: the row is gone, or the failure is noted.
LEMMA DeleteRowSessions ==
  ASSUME Typed, OneRowEach, Sessions, NEW r \in Request, DeleteRow(r), Stays(r), Typed'
  PROVE  Sessions'
<1>1. /\ UNCHANGED <<session, box>> /\ outlived \subseteq outlived' /\ pc[r] = "delete"
      /\ req[r].todo # <<>> /\ req[r].todo \in Seq(RowType)
  BY DeleteRowDoes DEF Typed, RequestsTyped, ReqType
<1>2. \/ pc'[r] = "done"
      \/ /\ pc'[r] = "erase" /\ req'[r].session = req[r].session /\ req'[r].op = req[r].op
         /\ req'[r].todo = Tail(req[r].todo)
  BY DeleteRowDoes
<1>3. /\ \A s \in Sid : s \in Live => s \in Live'
      /\ box' # None => box'.session \in Live'
      /\ pc'[r] \notin Early \cup Writers
      /\ pc'[r] \in Erasing => pc[r] \in Erasing /\ req'[r].session = req[r].session
  BY <1>1, <1>2 DEF Live, Sessions, Known, BoxLive, Writers, Early, Erasing
<1>4. CASE table' = DeleteFile(table, Head(req[r].todo).id)
  <2>1. Rows(table') = {row \in Rows(table) : row.id # Head(req[r].todo).id}
    BY <1>4, DeleteRemoves DEF OneRowEach
  <2>2. Known'
    BY <1>1, <1>3, <2>1, KnownKept DEF Sessions
  <2>3. DeletesAll'
    <3>1. SUFFICES ASSUME NEW q \in Request, pc'[q] \in Erasing, req'[q].op = "delete_session",
                          req'[q].session = session', session' \notin outlived',
                          NEW row \in Rows(table'), row.session = session'
                   PROVE  row.id \in Ids(req'[q].todo)
      BY DEF DeletesAll
    <3>2. row \in Rows(table) /\ row.id # Head(req[r].todo).id /\ session \notin outlived
      BY <1>1, <2>1, <3>1
    <3>3. CASE q = r
      <4>1. row.id \in Ids(req[r].todo)
        BY <1>1, <1>2, <3>1, <3>2, <3>3 DEF Sessions, DeletesAll, Erasing
      <4>2. row.id \in Ids(Tail(req[r].todo))
        BY <1>1, <3>2, <4>1, HeadTail DEF Ids
      <4>3. QED
        BY <1>2, <3>1, <3>3, <4>2 DEF Erasing
    <3>4. CASE q # r
      BY <1>1, <3>1, <3>2, <3>4 DEF Sessions, DeletesAll, Stays
    <3>5. QED
      BY <3>3, <3>4
  <2>4. QED
    BY <2>2, <2>3 DEF Sessions
<1>5. CASE UNCHANGED table /\ outlived' = outlived \cup {req[r].session}
  <2>1. Known'
    BY <1>1, <1>3, <1>5, KnownKept DEF Sessions
  <2>2. DeletesAll'
    <3>1. SUFFICES ASSUME NEW q \in Request, pc'[q] \in Erasing, req'[q].op = "delete_session",
                          req'[q].session = session', session' \notin outlived',
                          NEW row \in Rows(table'), row.session = session'
                   PROVE  row.id \in Ids(req'[q].todo)
      BY DEF DeletesAll
    <3>2. q # r
      BY <1>3, <1>5, <3>1
    <3>3. QED
      BY <1>1, <1>5, <3>1, <3>2 DEF Sessions, DeletesAll, Stays
  <2>3. QED
    BY <2>1, <2>2 DEF Sessions
<1>6. QED
  BY <1>4, <1>5, DeleteRowDoes

\* Forget: a session with rows, a sandbox or a writer is noted.
LEMMA ForgetSessions ==
  ASSUME Typed, Sessions, NEW r \in Request, Forget(r), Stays(r), Typed'
  PROVE  Sessions'
<1>1. /\ UNCHANGED <<table, box>> /\ pc[r] = "forget" /\ pc'[r] = "done"
      /\ req[r].op = "delete_session" /\ req[r].todo = <<>>
  BY ForgetDoes
<1>2. pc'[r] \notin Early \cup Writers \cup Erasing
  BY <1>1 DEF Early, Writers, Erasing
<1>3. CASE UNCHANGED <<session, outlived>>
  <2>1. Live' = Live
    BY <1>3 DEF Live
  <2>2. Known'
    BY <1>1, <1>2, <1>3, <2>1, KnownKept DEF Sessions, Known, BoxLive
  <2>3. DeletesAll'
    BY <1>1, <1>2, <1>3, DeletesKept DEF Sessions
  <2>4. QED
    BY <2>2, <2>3 DEF Sessions
<1>4. CASE /\ session' = None
           /\ outlived' = outlived \cup
                {s \in {session} \ {None} : s # req[r].session \/ StillUsed(s)}
  <2>1. None \notin Sid
    BY SessionFilesAssumption DEF Sid
  <2>2. outlived \subseteq outlived'
    BY <1>4
  <2>3. ASSUME session # None, session \notin outlived'
        PROVE  /\ session = req[r].session /\ ~StillUsed(session)
               /\ \A row \in Rows(table) : row.session # session
    <3>1. session = req[r].session /\ ~StillUsed(session)
      BY <1>4, <2>3
    <3>2. session \notin outlived
      BY <2>2, <2>3
    <3>3. Ids(req[r].todo) = {}
      BY <1>1, NoRows DEF Ids
    <3>4. \A row \in Rows(table) : row.session # session
      BY <1>1, <3>1, <3>2, <3>3 DEF Sessions, DeletesAll, Erasing
    <3>5. QED
      BY <3>1, <3>4
  <2>4. RowsLive'
    <3>1. SUFFICES ASSUME NEW row \in Rows(table) PROVE row.session \in Live'
      BY <1>1 DEF RowsLive
    <3>2. row.session \in Sid /\ row.session \in Live
      BY <3>1 DEF Typed, StoresTyped, Rows, ToSet, RowType, Sessions, Known, RowsLive
    <3>3. QED
      BY <2>1, <2>2, <2>3, <3>2 DEF Live
  <2>5. BoxLive'
    <3>1. SUFFICES ASSUME box # None PROVE box.session \in Live'
      BY <1>1 DEF BoxLive
    <3>2. box.session \in Sid /\ box.session \in Live
      BY <3>1 DEF Typed, StoresTyped, BoxType, Sessions, Known, BoxLive
    <3>3. QED
      BY <2>1, <2>2, <2>3, <3>1, <3>2 DEF Live, StillUsed
  <2>6. WritersLive'
    <3>1. SUFFICES ASSUME NEW q \in Request, pc'[q] \in Writers PROVE req'[q].session \in Live'
      BY DEF WritersLive
    <3>2. pc[q] \in Writers /\ req'[q] = req[q]
      BY <1>2, <3>1 DEF Stays
    <3>3. req[q].session \in Sid /\ req[q].session \in Live
      BY <3>2 DEF Typed, RequestsTyped, Stage, Inside, Sessions, Known, WritersLive, Writers
    <3>4. QED
      BY <2>1, <2>2, <2>3, <3>2, <3>3 DEF Live, StillUsed, Writers
  <2>7. Unmade'
    BY <1>2, <1>4, SessionFilesAssumption DEF Sessions, Known, Unmade, Stays
  <2>8. DeletesAll'
    <3>1. \A q \in Request : pc'[q] \in Erasing => req'[q].session # None
      BY <1>2, <2>1 DEF Stays, Typed, RequestsTyped, Stage, Inside, Erasing
    <3>2. QED
      BY <1>4, <3>1 DEF DeletesAll
  <2>9. QED
    BY <2>4, <2>5, <2>6, <2>7, <2>8 DEF Sessions, Known
<1>5. QED
  BY <1>3, <1>4, ForgetDoes

\* Every step.
LEMMA KeepSessions ==
  ASSUME Typed, OneRowEach, Sessions, NEW r \in Request, RequestStep(r)
  PROVE  Sessions'
<1>1. Stays(r) /\ Typed'
  BY RequestTyped
<1>2. CASE QuietStep(r)
  BY <1>1, <1>2, QuietSessions
<1>3. CASE CreateBox(r)
  BY <1>1, <1>3, CreateBoxDoes, SessionKnown DEF Early, synced
<1>4. CASE Persist(r)
  BY <1>1, <1>4, PersistDoes, SessionKnown DEF Early, synced
<1>5. QED
  BY <1>1, <1>2, <1>3, <1>4, ObjectSessions, RecordSessions, FindSessions, DeleteRowSessions,
     ForgetSessions DEF RequestStep, UseStep, SyncStep, DeleteStep, QuietStep

-----------------------------------------------------------------------------
(***************************************************************************)
(* Mounts: a file that was stored when the rows were listed is in the      *)
(* list, or the list is full.                                              *)
(***************************************************************************)
Mounting(q, n) ==
  req[q].known[n] # <<>> =>
    (\E row \in Rows(req[q].todo) : row.name = n) \/ Len(req[q].todo) = ListLimit

Mounts ==
  \A q \in Request : pc[q] \in {"lookup", "mount"} => \A n \in Name \ raced : Mounting(q, n)

\* The history of overlaps only grows.
LEMMA RacedGrows ==
  ASSUME Typed, NEW r \in Request, RequestStep(r)
  PROVE  raced \subseteq raced'
<1>1. CASE QuietStep(r)
  BY <1>1, QuietSteps DEF Quiet, synced
<1>2. CASE CreateBox(r) \/ Persist(r)
  BY <1>2, CreateBoxDoes, PersistDoes DEF synced
<1>3. CASE UploadObject(r)
  <2>1. UNCHANGED raced \/ Race(r, req[r].name)
    BY <1>3, UploadObjectDoes
  <2>2. QED
    BY <2>1, Races
<1>4. CASE Erase(r)
  <2>1. UNCHANGED raced \/ Race(r, Head(req[r].todo).name)
    BY <1>4, EraseDoes
  <2>2. QED
    BY <2>1, Races
<1>5. CASE Record(r) \/ Find(r) \/ DeleteRow(r) \/ Forget(r)
  BY <1>5, RecordDoes, FindDoes, DeleteRowDoes, ForgetDoes
<1>6. QED
  BY <1>1, <1>2, <1>3, <1>4, <1>5
     DEF RequestStep, UseStep, SyncStep, DeleteStep, QuietStep

\* Every step.
LEMMA KeepMounts ==
  ASSUME Typed, HistoryTrue, Mounts, NEW r \in Request, RequestStep(r)
  PROVE  Mounts'
<1>1. Stays(r) /\ raced \subseteq raced'
  BY RequestTyped, RacedGrows
<1>2. SUFFICES ASSUME NEW n \in Name \ raced', pc'[r] \in {"lookup", "mount"}
               PROVE  Mounting(r, n)'
  BY <1>1 DEF Mounts, Mounting, Stays
<1>3. n \in Name \ raced
  BY <1>1
<1>4. CASE QuietStep(r)
  <2>1. Quiet(r)
    BY <1>4, QuietSteps
  <2>2. req'[r].known = NoFile \/ (pc[r] = "lookup" /\ req'[r] = req[r])
    BY <1>2, <2>1 DEF Quiet
  <2>3. CASE req'[r].known = NoFile
    BY <1>3, <2>3 DEF Mounting, NoFile
  <2>4. CASE pc[r] = "lookup" /\ req'[r] = req[r]
    BY <1>3, <2>4 DEF Mounts, Mounting
  <2>5. QED
    BY <2>2, <2>3, <2>4
<1>5. CASE CreateBox(r)
  <2>1. CASE req'[r].todo = req[r].todo /\ req'[r].known = req[r].known
    BY <1>3, <1>5, <2>1, CreateBoxDoes DEF Mounts, Mounting
  <2>2. CASE req'[r].todo = SessionRows(session') /\ req'[r].known = acked
    <3>1. session' = Session(r) /\ session' \in Sid
      BY <1>5, CreateBoxDoes
    <3>2. CASE session = None
      <4>1. acked[n] = <<>>
        BY <1>3, <3>2 DEF HistoryTrue, NoneAcked, NoFile
      <4>2. QED
        BY <2>2, <4>1 DEF Mounting
    <3>3. CASE session # None
      <4>1. session' = session /\ session \in Sid
        BY <3>1, <3>3 DEF Session
      <4>2. table \in Seq(RowType)
        BY DEF Typed, StoresTyped
      <4>3. \/ Len(SessionRows(session)) = ListLimit
            \/ \A row \in Rows(table) : row.session = session => row \in Rows(SessionRows(session))
        BY <4>1, <4>2, Listed
      <4>4. acked[n] # <<>> => HasRow(n)
        BY <1>3 DEF HistoryTrue, AckedStored
      <4>5. QED
        BY <2>2, <4>1, <4>3, <4>4 DEF Mounting, HasRow
    <3>4. QED
      BY <3>2, <3>3
  <2>3. QED
    BY <1>5, <2>1, <2>2, CreateBoxDoes
<1>6. pc'[r] \in {"lookup", "mount"} => QuietStep(r) \/ CreateBox(r)
  <2>1. SUFFICES ASSUME ~QuietStep(r), ~CreateBox(r)
                 PROVE  pc'[r] \notin {"lookup", "mount"}
    OBVIOUS
  <2>2. CASE Persist(r)
    BY <2>2, PersistDoes
  <2>3. CASE UploadObject(r)
    BY <2>3, UploadObjectDoes
  <2>4. CASE Record(r)
    BY <2>4, RecordDoes
  <2>5. CASE Find(r)
    BY <2>5, FindDoes
  <2>6. CASE Erase(r)
    BY <2>6, EraseDoes
  <2>7. CASE DeleteRow(r)
    BY <2>7, DeleteRowDoes
  <2>8. CASE Forget(r)
    BY <2>8, ForgetDoes
  <2>9. QED
    BY <2>1, <2>2, <2>3, <2>4, <2>5, <2>6, <2>7, <2>8
       DEF RequestStep, UseStep, SyncStep, DeleteStep, QuietStep
<1>7. QED
  BY <1>2, <1>4, <1>5, <1>6

-----------------------------------------------------------------------------
FilesInv == Typed /\ Edits /\ OneRowEach /\ HistoryTrue /\ Sessions /\ Mounts

\* The invariant holds at the start.
LEMMA InvariantInit == Init => FilesInv
<1> SUFFICES ASSUME Init PROVE FilesInv
  OBVIOUS
<1>1. Typed /\ IsTable(table)
  BY InitTyped, FirstRows
<1>2. /\ box = None /\ session = "s0" /\ raced = {} /\ outlived = {}
      /\ \A r \in Request : pc[r] = "idle" /\ req[r] = Blank
  BY DEF Init
<1>3. Edits
  BY <1>2 DEF Init, Edits, PerName, AppendsKept, HeldKept
<1>4. OneRowEach
  <2>1. \A r \in Request, n \in Name : <<r, n>> \notin Ids(table)
    <3>1. \A row \in Rows(table) : \E n \in Stored : row.id = <<"s0", n>>
      BY FirstRows
    <3>2. \A r \in Request : \A n, m : <<r, n>> # <<"s0", m>>
      BY SessionFilesAssumption
    <3>3. QED
      BY <3>1, <3>2 DEF Ids
  <2>2. \A q \in Request : Rows(req[q].todo) = {}
    BY <1>2, NoRows
  <2>3. QED
    BY <1>1, <2>1, <2>2 DEF OneRowEach, Unborn
<1>5. HistoryTrue
  <2>1. AckedStored
    <3>1. SUFFICES ASSUME NEW n \in Name, acked[n] # <<>>
                   PROVE  n \in DOMAIN objects /\ objects[n] = acked[n] /\ HasRow(n)
      BY DEF AckedStored
    <3>2. n \in Stored /\ n \in DOMAIN objects /\ objects[n] = acked[n]
      BY <3>1 DEF Init
    <3>3. \E row \in Rows(table) : row.name = n /\ row.session = "s0"
      BY <3>2, FirstRows
    <3>4. \A row : Safe(row)
      BY <1>2 DEF Safe
    <3>5. QED
      BY <1>2, <3>2, <3>3, <3>4 DEF HasRow
  <2>2. RecordHeld /\ NoneAcked
    BY <1>2, SessionFilesAssumption DEF RecordHeld, NoneAcked
  <2>3. QED
    BY <2>1, <2>2 DEF HistoryTrue
<1>6. Sessions
  <2>1. RowsLive
    <3>1. \A row \in Rows(table) : row.session = "s0"
      BY FirstRows
    <3>2. QED
      BY <1>2, <3>1 DEF RowsLive, Live
  <2>2. QED
    BY <1>2, <2>1, SessionFilesAssumption
       DEF Sessions, Known, BoxLive, WritersLive, Writers, Unmade, DeletesAll, Erasing
<1>7. Mounts
  BY <1>2 DEF Mounts
<1>8. QED
  BY <1>1, <1>3, <1>4, <1>5, <1>6, <1>7 DEF FilesInv

\* The death of the sandbox.
LEMMA DieKeeps ==
  ASSUME FilesInv, Die
  PROVE  FilesInv'
<1>1. Typed' /\ box' = [box EXCEPT !.alive = FALSE] /\ box \in BoxType
  BY DieTyped DEF FilesInv
<1>2. box'.files = box.files /\ box'.session = box.session
  BY <1>1 DEF BoxType
<1>3. UNCHANGED <<table, objects, session, pc, req, acked, raced, outlived, written, blurred>>
      /\ box # None
  BY DEF Die, Answers, stores, synced, edited
<1>4. Edits'
  BY <1>2, <1>3 DEF FilesInv, Edits, PerName, AppendsKept, HeldKept
<1>5. OneRowEach'
  BY <1>3 DEF FilesInv, OneRowEach, Unborn, MayWrite
<1>6. HistoryTrue'
  BY <1>3 DEF FilesInv, HistoryTrue, RecordHeld, AckedStored, HasRow, Safe, NoneAcked
<1>7. Sessions'
  BY <1>2, <1>3 DEF FilesInv, Sessions, Known, RowsLive, BoxLive, WritersLive, Unmade, DeletesAll, Live
<1>8. Mounts'
  BY <1>3 DEF FilesInv, Mounts, Mounting
<1>9. QED
  BY <1>1, <1>4, <1>5, <1>6, <1>7, <1>8 DEF FilesInv

\* A step that changes nothing.
LEMMA StutterKeeps ==
  ASSUME FilesInv, UNCHANGED vars
  PROVE  FilesInv'
<1>1. UNCHANGED <<table, objects, session, box, pc, req, acked, raced, outlived, written, blurred>>
  BY DEF vars, stores, synced, edited
<1>2. Typed'
  BY <1>1 DEF FilesInv, Typed, RequestsTyped, StoresTyped
<1>3. Edits' /\ OneRowEach'
  BY <1>1 DEF FilesInv, Edits, PerName, AppendsKept, HeldKept, OneRowEach, Unborn, MayWrite
<1>4. HistoryTrue' /\ Mounts'
  BY <1>1 DEF FilesInv, HistoryTrue, RecordHeld, AckedStored, HasRow, Safe, NoneAcked, Mounts, Mounting
<1>5. Sessions'
  BY <1>1 DEF FilesInv, Sessions, Known, RowsLive, BoxLive, WritersLive, Unmade, DeletesAll, Live
<1>6. QED
  BY <1>2, <1>3, <1>4, <1>5 DEF FilesInv

\* Every step.
LEMMA InvariantStep == FilesInv /\ [Next]_vars => FilesInv'
<1> SUFFICES ASSUME FilesInv, [Next]_vars PROVE FilesInv'
  OBVIOUS
<1>1. ASSUME NEW r \in Request, RequestStep(r)
      PROVE  FilesInv'
  BY <1>1, RequestTyped, KeepEdits, KeepOneRowEach, KeepHistory, KeepSessions, KeepMounts DEF FilesInv
<1>2. CASE AllDone \/ UNCHANGED vars
  BY <1>2, StutterKeeps DEF AllDone
<1>3. QED
  BY <1>1, <1>2, DieKeeps DEF Next, RequestStep

\* The invariant holds in every reachable state.
THEOREM Invariance == Spec => []FilesInv
BY InvariantInit, InvariantStep, PTL DEF Spec

\* Writing and appending (the file operations of the session manager): an
\* acknowledged write or append is in the file as long as the sandbox lives,
\* unless an append overlapped another write of the file or could not read it.
THEOREM AppendsAreKept == Spec => []AppendsKept
<1>1. FilesInv => AppendsKept
  BY DEF FilesInv, Edits
<1>2. QED
  BY <1>1, Invariance, PTL

\* SyncSessionFiles and the session handlers: a file whose sync is the last
\* word has its object and a row that is listed, and the rows of a deleted
\* session are gone, with the exceptions the history notes.
THEOREM RowsFollow == Spec => []RowsFollowSession
<1>1. FilesInv => RowsFollowSession
  <2>1. SUFFICES ASSUME FilesInv PROVE RowsFollowSession
    OBVIOUS
  <2>2. RowsLive /\ AckedStored
    BY <2>1 DEF FilesInv, Sessions, Known, HistoryTrue
  <2>3. QED
    BY <2>2 DEF RowsLive, Live, AckedStored, HasRow, RowsFollowSession
<1>2. QED
  BY <1>1, Invariance, PTL

\* What a mount puts into the sandbox.
LEMMA MountRestores ==
  ASSUME FilesInv, NEW r \in Request, Mount(r), NEW n \in Name \ raced,
         acked[n] # <<>>, acked[n] = req[r].known[n]
  PROVE  \/ box'.files[n] = acked[n]
         \/ Displaced(r, n)
         \/ n \in unmounted'
<1>1. PICK left \in MayLeaveOut(r) :
        /\ box' = [id |-> r, session |-> req[r].session, files |-> Loaded(req[r].todo, left),
                   alive |-> TRUE]
        /\ unmounted' = left
  BY DEF Mount
<1>2. n \in DOMAIN objects /\ objects[n] = acked[n]
  BY DEF FilesInv, HistoryTrue, AckedStored
<1>3. \/ \E row \in Rows(req[r].todo) : row.name = n
      \/ Len(req[r].todo) = ListLimit
  BY DEF FilesInv, Mounts, Mounting, Mount
<1>4. CASE n \in left
  BY <1>1, <1>4
<1>5. CASE n \notin left /\ \E row \in Rows(req[r].todo) : row.name = n
  <2>1. \E i \in DOMAIN req[r].todo : req[r].todo[i].name = n
    BY <1>5 DEF Rows, ToSet
  <2>2. Loaded(req[r].todo, left)[n] = objects[n]
    BY <1>2, <1>5, <2>1 DEF Loaded
  <2>3. QED
    BY <1>1, <1>2, <2>2
<1>6. CASE ~\E row \in Rows(req[r].todo) : row.name = n
  BY <1>3, <1>6 DEF Displaced
<1>7. QED
  BY <1>4, <1>5, <1>6

\* Only the mount itself leaves the label.
LEMMA OnlyMount ==
  ASSUME FilesInv, NEW r \in Request, pc[r] = "mount", pc'[r] # "mount", [Next]_vars
  PROVE  Mount(r)
<1>1. PICK q \in Request : RequestStep(q)
  BY DEF Next, RequestStep, AllDone, Die, vars
<1>2. q = r
  <2>1. Stays(q)
    BY <1>1, RequestTyped DEF FilesInv
  <2>2. QED
    BY <2>1 DEF Stays
<1>3. QED
  BY <1>1, <1>2
     DEF RequestStep, Arrive, UseStep, UseCached, EvictDead, CreateBox, Unreachable, Write, AppendRead,
         AppendWrite, SyncStep, Search, DownloadFile, Persist, UploadObject, Record, RemoveBox,
         DeleteStep, Find, Erase, DeleteRow, Forget

\* mountSessionFiles: what the last sync of a file stored is in the next
\* sandbox, unless two writers of the object overlapped, newer rows have
\* displaced the file from the list, or a failure of this very mount (one
\* download, one read, the upload) left the file out.
THEOREM SyncedIsRestored == Spec => RestoresSynced
<1>1. FilesInv /\ [Next]_vars =>
        [\A r \in Request :
           pc[r] = "mount" /\ pc'[r] # "mount" =>
             \A n \in Name \ raced :
               acked[n] # <<>> /\ acked[n] = req[r].known[n] =>
                 \/ box'.files[n] = acked[n]
                 \/ Displaced(r, n)
                 \/ n \in unmounted']_vars
  BY OnlyMount, MountRestores
<1>2. QED
  BY <1>1, Invariance, PTL DEF Spec, RestoresSynced

=============================================================================
