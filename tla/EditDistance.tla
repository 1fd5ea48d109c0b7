---------------------------- MODULE EditDistance ----------------------------
(***************************************************************************)
(* The edit distance by which the dependency stage of the scanner tells a  *)
(* misspelt package name from a popular one                                *)
(* (internal/scanner/stage_deps.go).  A name is the sequence of its bytes, *)
(* which is what the code indexes: an accented letter is two of them.      *)
(***************************************************************************)
EXTENDS Integers, Sequences

Least(S) == CHOOSE n \in S : \A m \in S : n <= m

(* Mutant: the substitution is charged although the characters agree.      *)
NextRowAlwaysSubstitutes(a, b, prev, j) ==
  LET curr[i \in 0..Len(a)] ==
        IF i = 0 THEN j
        ELSE Least({prev[i] + 1, curr[i - 1] + 1, prev[i - 1] + 1})
  IN curr

(* Row j of the table from row j - 1: prefixes of a against b[1..j].  The  *)
(* code keeps these two rows only.                                         *)
NextRow(a, b, prev, j) ==
  LET curr[i \in 0..Len(a)] ==
        IF i = 0 THEN j
        ELSE Least({prev[i] + 1, curr[i - 1] + 1,
                    prev[i - 1] + IF a[i] = b[j] THEN 0 ELSE 1})
  IN curr

Table(a, b) ==
  LET row[j \in 0..Len(b)] ==
        IF j = 0 THEN [i \in 0..Len(a) |-> i] ELSE NextRow(a, b, row[j - 1], j)
  IN row[Len(b)][Len(a)]

levenshtein(a, b) ==
  CASE a = b -> 0
    [] a # b /\ a = <<>> -> Len(b)
    [] a # b /\ b = <<>> -> Len(a)
    [] OTHER -> IF Len(a) > Len(b) THEN Table(b, a) ELSE Table(a, b)

(***************************************************************************)
(* The reference: the least number of single edits (a byte inserted,       *)
(* deleted or replaced) that leads from one name to the other.             *)
(***************************************************************************)

Without(w, i) == SubSeq(w, 1, i - 1) \o SubSeq(w, i + 1, Len(w))

Edits(w, alphabet) ==
  {Without(w, i) : i \in 1..Len(w)}
    \cup {[w EXCEPT ![i] = c] : i \in 1..Len(w), c \in alphabet}
    \cup {SubSeq(w, 1, i) \o <<c>> \o SubSeq(w, i + 1, Len(w))
            : i \in 0..Len(w), c \in alphabet}

Within(a, n, alphabet) ==
  LET reach[k \in 0..n] ==
        IF k = 0 THEN {a}
        ELSE reach[k - 1] \cup UNION {Edits(w, alphabet) : w \in reach[k - 1]}
  IN reach[n]
=============================================================================
