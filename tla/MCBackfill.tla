----------------------------- MODULE MCBackfill -----------------------------
(***************************************************************************)
(* Instance of Backfill for TLC.  The run also checks the version          *)
(* arithmetic (Versions) and the line difference (LineDiff), which have no *)
(* state: from the empty database a step picks an input for one of them,   *)
(* and the invariants below compare what it computes with a reference.     *)
(***************************************************************************)
EXTENDS Backfill, Versions, LineDiff, FiniteSetsExt, TLC

VARIABLE input

SomeRows ==
  {[status |-> "available", at |-> 1, active |-> FALSE],
   [status |-> "review", at |-> 2, active |-> FALSE]}

Symmetry == Permutations(Server) \cup Permutations(Skill)

Near == [nums : (0..1) \X (0..1) \X (0..2), pre : {FALSE}]
          \cup {[nums |-> <<1, 0, 1>>, pre |-> TRUE], Plain(Beyond, 0, 1)}
Text == UNION {[1..n -> {"x", "y"}] : n \in 0..3}

Inputs ==
  [kind : {"edit"}, active : Near, taken : UNION {kSubset(n, Near) : n \in 0..3}]
    \cup [kind : {"diff"}, old : Text, new : Text]

Pick ==
  /\ input = None /\ rows = <<>> /\ approvals = {} /\ \A m \in Server : pc[m] = "down"
  /\ input' \in Inputs
  /\ UNCHANGED vars

\* Bound: at most two approvals, of one skill.
FewApprovals == \E s \in Skill : approvals \in UNION {kSubset(n, Table \X {s} \X Approvable) : n \in 0..2}
MCInit == Init /\ FewApprovals /\ input = None
MCNext ==
  \/ input = None /\ Next /\ UNCHANGED input
  \/ Pick
  \/ input # None /\ UNCHANGED <<vars, input>>

MCSpec == MCInit /\ [][MCNext]_<<vars, input>>

(* An edit gets a version nobody has, above the one it starts from, and    *)
(* frozen when that one is, whichever versions are blocked.                *)
EditsMoveUp ==
  input # None /\ input.kind = "edit" =>
    \A b \in Near : EditsMoveUpFrom(input.active, input.taken, {b})

(* A line difference reads as both texts and keeps as much as can be kept, *)
(* and the difference of two archives leads from one to the other: here a  *)
(* file changed, one removed and one added.                                *)
DiffsAreExact ==
  input # None /\ input.kind = "diff" =>
    LET old == [p \in {"changed", "removed"} |-> input.old]
        new == [p \in {"changed", "added"} |-> input.new]
    IN /\ DiffIsExact(input.old, input.new)
       /\ Patched(old, SkillDiff(old, new)) = new
=============================================================================
