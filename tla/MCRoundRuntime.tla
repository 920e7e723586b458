---------------------------- MODULE MCRoundRuntime ----------------------------
(* Small instances of RoundRuntime: who is selected when, and what may go wrong. *)
EXTENDS RoundRuntime, TLC

CONSTANTS w1, w2

NoWorkers == {}
OneWorker == {w1}
TwoWorkers == {w1, w2}
TwoClients == {1, 2}

(* The second round draws the same clients in the other order. *)
BothClients == <<<<1, 2>>, <<2, 1>>>>

WorkerSymmetry == Permutations(TwoWorkers)

AnyFault == {"crash", "aggregate", "pause", "cancel"}
OnlyCrash == {"crash"}
===============================================================================
