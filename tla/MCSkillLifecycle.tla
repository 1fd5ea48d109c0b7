-------------------------- MODULE MCSkillLifecycle --------------------------
(***************************************************************************)
(* Instances of SkillLifecycle for TLC.                                    *)
(***************************************************************************)
EXTENDS SkillLifecycle, TLC

\* Requests and archives are interchangeable.
Symmetric == Permutations(Request) \cup Permutations(Content)
=============================================================================
