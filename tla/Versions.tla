------------------------------ MODULE Versions ------------------------------
(***************************************************************************)
(* The arithmetic of version numbers: internal/skill/skill.go and, on top  *)
(* of it, the choice of the next version and the freezing of versions in   *)
(* internal/store/skills.go.  A version has three numbers and may carry a  *)
(* prerelease suffix; what does not match versionRe is Malformed.  MaxInt  *)
(* is the greatest number an int holds, and Beyond stands for every number *)
(* the regular expression admits and an int does not hold.                 *)
(***************************************************************************)
EXTENDS Integers, FiniteSets

CONSTANTS MaxInt, Malformed

ASSUME VersionAssumption == MaxInt \in Nat /\ MaxInt > 1

Beyond == MaxInt + 1
Parsed == [nums : [1..3 -> 0..Beyond], pre : BOOLEAN]

(* A version string that does not match is no version. *)
ASSUME MalformedAssumption == Malformed \notin Parsed

Plain(a, b, c) == [nums |-> <<a, b, c>>, pre |-> FALSE]
DefaultVersion == Plain(1, 0, 0)

(* A patch number that does not fit leads back to the default version, and *)
(* the greatest that fits wraps to a negative one, which no longer matches.*)
NextEditVersion(base) ==
  IF base = Malformed THEN DefaultVersion
  ELSE LET patch == base.nums[3] IN
       CASE patch = Beyond -> DefaultVersion
         [] patch = MaxInt -> Malformed
         [] OTHER -> Plain(base.nums[1], base.nums[2], patch + 1)

(* Atoi answers the greatest int for a number beyond it; the prerelease    *)
(* suffix is ignored and a malformed version counts as 0.0.0.              *)
versionNums(v) ==
  [i \in 1..3 |-> IF v = Malformed THEN 0
                  ELSE IF v.nums[i] > MaxInt THEN MaxInt ELSE v.nums[i]]

CompareVersions(a, b) ==
  LET pa == versionNums(a)
      pb == versionNums(b)
      differ == {i \in 1..3 : pa[i] # pb[i]}
      first == CHOOSE i \in differ : \A j \in differ : i <= j
  IN IF differ = {} THEN 0 ELSE IF pa[first] < pb[first] THEN -1 ELSE 1

(* Mutant: the bump is checked against the taken versions once only.       *)
NextFreeOnce(active, taken) ==
  LET next == NextEditVersion(active) IN
  IF next \in taken THEN NextEditVersion(next) ELSE next

(* NextFreeVersion: bump until the version is not taken.  The loop ends    *)
(* within Cardinality(taken) + 1 rounds unless the bumps run in a circle   *)
(* of taken versions.                                                      *)
NextFreeVersion(active, taken) ==
  LET bumped[n \in 0..Cardinality(taken) + 1] ==
        IF n = 0 THEN active
        ELSE LET last == bumped[n - 1] IN
             IF n > 1 /\ last \notin taken THEN last ELSE NextEditVersion(last)
  IN bumped[Cardinality(taken) + 1]

versionFrozen(v, blocked) == \E b \in blocked : CompareVersions(v, b) >= 0
-----------------------------------------------------------------------------
(* An edit gets a version nobody has, above the one it starts from, and is *)
(* frozen when that one is: the freeze cannot be left by editing.  This    *)
(* holds as long as the patch number stays below the greatest int.         *)
EditsMoveUpFrom(active, taken, blocked) ==
  LET next == NextFreeVersion(active, taken) IN
  active.nums[3] + Cardinality(taken) < MaxInt =>
    /\ next \notin taken
    /\ CompareVersions(next, active) = 1
    /\ versionFrozen(active, blocked) => versionFrozen(next, blocked)
=============================================================================
