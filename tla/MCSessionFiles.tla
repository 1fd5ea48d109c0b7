--------------------------- MODULE MCSessionFiles ---------------------------
(* Instance of SessionFiles for TLC: requests are interchangeable.         *)
EXTENDS SessionFiles, TLC

Symmetry == Permutations(Request)
=============================================================================
