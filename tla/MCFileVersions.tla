--------------------------- MODULE MCFileVersions ---------------------------
(***************************************************************************)
(* Instance of FileVersions for TLC: one file of an execution to start     *)
(* from, and requests that are interchangeable.                            *)
(***************************************************************************)
EXTENDS FileVersions, TLC

Artifact ==
  <<[id |-> "a", tenant |-> "t1", session |-> None, execution |-> "e1", name |-> "n",
     key |-> <<"t1", "executions", "e1", "n">>, version |-> 1, parent |-> None]>>

Symmetry == Permutations(Request)
=============================================================================
