---------------------------- MODULE SandboxPool ----------------------------
(***************************************************************************)
(* What the session manager promises about the sandboxes of a session,     *)
(* whatever it does to keep the promise: they go one at a time, each from  *)
(* starting to serving to retired and never back, and a session never has  *)
(* two that are starting or serving.                                       *)
(***************************************************************************)
CONSTANTS Key, Sandbox, None

VARIABLES
  stage,   \* "free", "starting", "serving" or "retired"
  key      \* the session a sandbox that is not free belongs to

poolVars == <<stage, key>>

Busy(k) ==
  \E s \in Sandbox : key[s] = k /\ stage[s] \in {"starting", "serving"}

PoolInit ==
  /\ stage = [s \in Sandbox |-> "free"]
  /\ key = [s \in Sandbox |-> None]

\* A sandbox is asked for: it starts, or its id is lost at once.
Ask(k, s) ==
  /\ stage[s] = "free"
  /\ ~Busy(k)
  /\ \E g \in {"starting", "retired"} : stage' = [stage EXCEPT ![s] = g]
  /\ key' = [key EXCEPT ![s] = k]

Serve(s) ==
  /\ stage[s] = "starting"
  /\ stage' = [stage EXCEPT ![s] = "serving"]
  /\ UNCHANGED key

Retire(s) ==
  /\ stage[s] \in {"starting", "serving"}
  /\ stage' = [stage EXCEPT ![s] = "retired"]
  /\ UNCHANGED key

PoolNext ==
  \E s \in Sandbox :
    \/ \E k \in Key : Ask(k, s)
    \/ Serve(s)
    \/ Retire(s)

\* Nothing stays starting for ever.
PoolFairness ==
  \A s \in Sandbox :
    WF_poolVars(stage[s] = "starting" /\ (Serve(s) \/ Retire(s)))

PoolSafety == PoolInit /\ [][PoolNext]_poolVars

PoolSpec == PoolSafety /\ PoolFairness
=============================================================================
