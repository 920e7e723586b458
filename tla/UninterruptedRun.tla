--------------------------- MODULE UninterruptedRun ---------------------------
(***************************************************************************)
(* What a local execution promises whatever interrupts it: its round       *)
(* history is the one a run that was never paused writes.  Every round is  *)
(* logged once, in order, uses the next draws of the random generators,    *)
(* and reports an epsilon that charges every round so far.                 *)
(***************************************************************************)
EXTENDS Naturals, Sequences

CONSTANT
  Rounds     \* federation.rounds

VARIABLES
  private,   \* an accountant charges every round
  history,   \* the rows of run_<algorithm>.csv
  finished   \* the summary of the run is written

RowOf(n) == [round |-> n, draw |-> n - 1, steps |-> IF private THEN n ELSE 0]

HistoryOf(n) == [i \in 1..n |-> RowOf(i)]

(* A run starts with no history, or over one it refuses to touch. *)
Init ==
  /\ private \in BOOLEAN
  /\ \E n \in 0..Rounds : history = HistoryOf(n)
  /\ finished = FALSE

LogNextRound ==
  /\ Len(history) < Rounds
  /\ history' = Append(history, RowOf(Len(history) + 1))
  /\ UNCHANGED <<private, finished>>

Finish ==
  /\ ~finished
  /\ Len(history) = Rounds
  /\ finished' = TRUE
  /\ UNCHANGED <<private, history>>

Next == LogNextRound \/ Finish

Spec == Init /\ [][Next]_<<private, history, finished>>
===============================================================================
