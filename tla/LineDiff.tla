------------------------------ MODULE LineDiff ------------------------------
(***************************************************************************)
(* The difference of two versions of a skill: handlers/skill_diff.go.  A   *)
(* text is the sequence of its lines (the empty text has none), an archive *)
(* a function from the paths of its files to their texts.                  *)
(***************************************************************************)
EXTENDS Integers, Sequences, FiniteSets

Line(op, text) == [op |-> op, text |-> text]

(* Row i of the table from the one below.                                  *)
CommonRow(a, b, below, i) ==
  LET row[j \in 1..Len(b) + 1] ==
        IF j > Len(b) THEN 0
        ELSE IF a[i] = b[j] THEN below[j + 1] + 1
        ELSE IF below[j] >= row[j + 1] THEN below[j] ELSE row[j + 1]
  IN row

(* The table of the longest common subsequences of a[i..] and b[j..].      *)
Common(a, b) ==
  LET lcs[i \in 1..Len(a) + 1] ==
        IF i > Len(a) THEN [j \in 1..Len(b) + 1 |-> 0] ELSE CommonRow(a, b, lcs[i + 1], i)
  IN lcs

Write(at, op, text, i, j) == [i |-> i, j |-> j, lines |-> Append(at.lines, Line(op, text))]

(* Mutant: the walk takes the shorter of the two ways on.                  *)
AdvanceAcross(a, b, lcs, at) ==
  LET i == at.i
      j == at.j
      old == i <= Len(a)
      new == j <= Len(b)
  IN CASE old /\ new /\ a[i] = b[j] -> Write(at, " ", a[i], i + 1, j + 1)
       [] old /\ (new => a[i] # b[j] /\ lcs[i + 1][j] < lcs[i][j + 1]) -> Write(at, "-", a[i], i + 1, j)
       [] new /\ (old => a[i] # b[j] /\ lcs[i + 1][j] >= lcs[i][j + 1]) -> Write(at, "+", b[j], i, j + 1)
       [] ~old /\ ~new -> at

(* One line of the walk through both texts, of the rest of either, or      *)
(* none when both are done.                                                *)
Advance(a, b, lcs, at) ==
  LET i == at.i
      j == at.j
      old == i <= Len(a)
      new == j <= Len(b)
  IN CASE old /\ new /\ a[i] = b[j] -> Write(at, " ", a[i], i + 1, j + 1)
       [] old /\ (new => a[i] # b[j] /\ lcs[i + 1][j] >= lcs[i][j + 1]) -> Write(at, "-", a[i], i + 1, j)
       [] new /\ (old => a[i] # b[j] /\ lcs[i + 1][j] < lcs[i][j + 1]) -> Write(at, "+", b[j], i, j + 1)
       [] ~old /\ ~new -> at

lineDiff(a, b) ==
  LET lcs == Common(a, b)
      walk[k \in 0..Len(a) + Len(b)] ==
        IF k = 0 THEN [i |-> 1, j |-> 1, lines |-> <<>>] ELSE Advance(a, b, lcs, walk[k - 1])
  IN walk[Len(a) + Len(b)].lines

(* SkillDiff.  A base version that cannot be read counts as empty.         *)
SkillDiff(old, new) ==
  [p \in DOMAIN old \cup DOMAIN new |->
     CASE p \notin DOMAIN new -> [status |-> "removed", lines |-> lineDiff(old[p], <<>>)]
       [] p \notin DOMAIN old -> [status |-> "added", lines |-> lineDiff(<<>>, new[p])]
       [] OTHER -> IF old[p] = new[p] THEN [status |-> "unchanged", lines |-> <<>>]
                   ELSE [status |-> "modified", lines |-> lineDiff(old[p], new[p])]]
-----------------------------------------------------------------------------
(* The text a difference reads as without the lines of one kind.           *)
Side(lines, drop) ==
  LET read[k \in 0..Len(lines)] ==
        IF k = 0 THEN <<>>
        ELSE IF lines[k].op = drop THEN read[k - 1] ELSE Append(read[k - 1], lines[k].text)
  IN read[Len(lines)]

(* Reading a difference forwards over the old archive gives the new one.   *)
Patched(old, diff) ==
  [p \in {q \in DOMAIN diff : diff[q].status # "removed"} |->
     IF diff[p].status = "unchanged" THEN old[p] ELSE Side(diff[p].lines, "-")]

(* The length of a longest common subsequence, by definition.              *)
Picks(w) ==
  UNION {{[i \in 1..n |-> w[f[i]]]
            : f \in {g \in [1..n -> DOMAIN w] : \A i, j \in 1..n : i < j => g[i] < g[j]}}
         : n \in 0..Len(w)}
LongestCommon(a, b) ==
  CHOOSE n \in 0..Len(a) :
    /\ \E w \in Picks(a) \cap Picks(b) : Len(w) = n
    /\ \A w \in Picks(a) \cap Picks(b) : Len(w) <= n

Kept(lines) == {k \in DOMAIN lines : lines[k].op = " "}

(* A line difference reads as both texts and keeps as much as can be kept. *)
DiffIsExact(a, b) ==
  LET lines == lineDiff(a, b) IN
  /\ Side(lines, "+") = a
  /\ Side(lines, "-") = b
  /\ Cardinality(Kept(lines)) = LongestCommon(a, b)
=============================================================================
