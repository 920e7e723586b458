---------------------------- MODULE MCWorkerService ----------------------------
(* The runs WorkerService is checked with. *)
EXTENDS WorkerService

Config(secure, policy, budget, rounds) ==
  [secure |-> secure, policy |-> policy, budget |-> budget, rounds |-> rounds]

(* Every policy, with a budget that ends in the middle of a task and one   *)
(* that allows no step at all, a secure cohort, and a second round, whose  *)
(* task ids are those of the first.                                        *)
EveryPolicy ==
  {Config(FALSE, policy, LocalSteps, 1) : policy \in Policies \ {"off", "WARN_ONLY"}}
    \cup {Config(FALSE, "STOP_BEFORE_EXCEEDING", 1, 1),
          Config(TRUE, "off", 1, 1), Config(FALSE, "WARN_ONLY", 1, 2)}
================================================================================
