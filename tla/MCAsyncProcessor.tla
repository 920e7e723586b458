-------------------------- MODULE MCAsyncProcessor --------------------------
(* The instance AsyncProcessor is checked on: clients and deltas that may   *)
(* change places.                                                           *)
EXTENDS AsyncProcessor, TLC

CONSTANTS c1, c2, d1, d2

TwoClients == {c1, c2}
TwoDeltas == {d1, d2}

ProcessorSymmetry == Permutations(TwoClients) \cup Permutations(TwoDeltas)
=============================================================================
