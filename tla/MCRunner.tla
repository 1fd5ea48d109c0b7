------------------------------ MODULE MCRunner ------------------------------
(***************************************************************************)
(* Instances of Runner for TLC.                                            *)
(***************************************************************************)
EXTENDS Runner, TLC

\* Executions and instances are interchangeable.
Symmetric == Permutations(Run) \cup Permutations(Server)
=============================================================================
