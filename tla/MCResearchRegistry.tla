---- MODULE MCResearchRegistry ----
(* The runs ResearchRegistry is checked with. *)
EXTENDS ResearchRegistry, TLC

CONSTANTS t1, t2

TwoThreads == {t1, t2}
ThreadSymmetry == Permutations(TwoThreads)

Command(type, key, body, version) ==
  [type |-> type, key |-> key, body |-> body, version |-> version]

(* Two creates under one key, a start, a cancel with and without the       *)
(* version its sender saw, and the health probe.                           *)
EveryCommand ==
  {Command("create", 1, 1, 0), Command("create", 1, 2, 0),
   Command("start", 1, 1, 0),
   Command("cancel", 1, 1, 0), Command("cancel", 1, 1, 2), Command("health", 0, 0, 0)}

TwoOutcomes == {"completed", "failed"}
===================================
