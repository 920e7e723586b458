--------------------------- MODULE MCTaskDispatcher ---------------------------
(* Model values for checking TaskDispatcher. *)
EXTENDS TaskDispatcher

CONSTANTS c1, w1, w2

MCClients == {c1}
MCWorkers == {w1, w2}
===============================================================================
