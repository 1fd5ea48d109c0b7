-------------------------- MODULE MCSessionManager --------------------------
(***************************************************************************)
(* Instances of SessionManager for TLC.                                    *)
(***************************************************************************)
EXTENDS SessionManager, TLC

\* Keys, requests and sandbox ids are interchangeable.
Symmetric ==
  Permutations(Caller) \cup Permutations(Key) \cup Permutations(Sandbox)
=============================================================================
