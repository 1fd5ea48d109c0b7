----------------------------- MODULE FileTable -----------------------------
(***************************************************************************)
(* The table sandbox.files (store/files.go) as operators on a sequence of  *)
(* rows in their order of creation, which is what created_at orders by.  A *)
(* row is a record with the fields id, tenant, session, execution, name,   *)
(* key, version and parent; parent is None for the first version.          *)
(***************************************************************************)
EXTENDS Integers, Sequences, FiniteSets, SequencesExt

CONSTANT None

Rows(table) == ToSet(table)
Ids(table) == {row.id : row \in Rows(table)}

\* The row with this id, if the tenant has it: a set of at most one row.
GetFile(table, id, tenant) ==
  {row \in Rows(table) : row.id = id /\ row.tenant = tenant}

(* parent_id references files(id) with neither cascade nor set null: a row *)
(* is only inserted under a parent that exists, a parent is not deleted.   *)
MayInsert(table, row) == row.parent # None => row.parent \in Ids(table)
HasChild(table, id) == \E row \in Rows(table) : row.parent = id

CreateFile(table, row) == Append(table, row)
DeleteFile(table, id) ==
  IF id \in Ids(table) THEN RemoveAt(table, CHOOSE i \in DOMAIN table : table[i].id = id)
  ELSE table

\* Limit and offset as ListFiles clamps them.
Limit(n, default, most) == IF n <= 0 THEN default ELSE IF n > most THEN most ELSE n
Offset(n) == IF n < 0 THEN 0 ELSE n

\* The place of the k-th newest of the rows at these places.
Newest(places, k) ==
  CHOOSE i \in places : Cardinality({j \in places : i <= j}) = k

\* How many of n rows a page has that begins after the first `from' of them.
PageLength(n, from, limit) ==
  IF n <= from THEN 0 ELSE IF n - from < limit THEN n - from ELSE limit

(* Newest first; an empty session or execution selects every row.          *)
ListFiles(table, filter) ==
  LET places == {i \in DOMAIN table : /\ table[i].tenant = filter.tenant
                                      /\ filter.session \in {None, table[i].session}
                                      /\ filter.execution \in {None, table[i].execution}}
      from   == Offset(filter.offset)
      limit  == Limit(filter.limit, filter.default, filter.most)
  IN  [k \in 1 .. PageLength(Cardinality(places), from, limit) |->
         table[Newest(places, from + k)]]

\* Mutant: the root is not looked for.
AncestryShallow(table, id, tenant) == GetFile(table, id, tenant)

(***************************************************************************)
(* The two recursive queries of ListFileVersions: the least sets closed    *)
(* under parents, from the row asked for, and under children, from the     *)
(* root.  The order of the answer, version descending, is left out.        *)
(***************************************************************************)
Ancestry(table, id, tenant) ==
  LET HasParents(S) == \A p \in Rows(table) :
                         p.tenant = tenant /\ (\E row \in S : row.parent = p.id) => p \in S
  IN {row \in Rows(table) : \A S \in SUBSET Rows(table) :
        GetFile(table, id, tenant) \subseteq S /\ HasParents(S) => row \in S}

Descent(table, roots, tenant) ==
  LET HasChildren(S) == \A f \in Rows(table) :
                          f.tenant = tenant /\ (\E row \in S : f.parent = row.id) => f \in S
  IN {row \in Rows(table) : \A S \in SUBSET Rows(table) :
        roots \subseteq S /\ HasChildren(S) => row \in S}

ListFileVersions(table, id, tenant) ==
  Descent(table, {row \in Ancestry(table, id, tenant) : row.parent = None}, tenant)
=============================================================================
