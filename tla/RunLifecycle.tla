----------------------------- MODULE RunLifecycle -----------------------------
(***************************************************************************)
(* The life of one training run (RunInstance): its state machine, its      *)
(* round counter, the model it publishes, the privacy ledger it is charged *)
(* in, and the checkpoint it comes back from after a crash.  What happens  *)
(* inside a round is left open here: a waiting round ends in a release, in *)
(* a failure or in a pause; RoundRuntime.tla says which and when.          *)
(*                                                                         *)
(* A handler holds the run's mutex from entry to return, so handlers do    *)
(* not interleave.  But it saves a checkpoint at every transition it       *)
(* makes, and a crash may fall between any two: each transition is a step  *)
(* of its own, and `handler' says what the running handler does next.      *)
(*                                                                         *)
(* The run has user-level differential privacy on (without it nothing is   *)
(* charged and the budget policy never acts).  Epsilon grows with every    *)
(* charged round, so the ledger's length stands for it.                    *)
(***************************************************************************)
EXTENDS Integers, Sequences

CONSTANTS MaxRounds,  \* config.max_rounds
          Budget,     \* charged rounds whose epsilon first reaches epsilon_budget; 0: unset
          Faults      \* for every kind of run, the set of disturbances it may meet

ASSUME MaxRoundsAssumption == MaxRounds \in Nat
ASSUME BudgetAssumption == Budget \in Nat
ASSUME FaultsAssumption == Faults \subseteq SUBSET {"crash", "aggregate", "pause", "cancel"}

VARIABLES
  config,    \* the part of RunConfig that steers the run, and what it meets; never changes
  mem,       \* the RunInstance in memory, as far as a checkpoint records it
  disk,      \* the last checkpoint
  handler,   \* what the handler that holds the mutex does next; "none" when it is free
  requests   \* pause_requested_ and cancel_requested_

vars == <<config, mem, disk, handler, requests>>

Policy == {"STOP_BEFORE", "STOP_AFTER", "FAIL_RUN", "WARN_ONLY"}
Config == [policy: Policy, secure: BOOLEAN, faults: Faults]

(* The states of RunStateMachine and its transition table. *)
RunState == {"CREATED", "VALIDATING", "INITIALIZING", "READY", "QUEUED", "RUNNING", "WAITING",
             "AGGREGATING", "EVALUATING", "CHECKPOINTING", "PAUSING", "PAUSED", "CANCELING",
             "COMPLETED", "FAILED", "CANCELED"}

Terminal == {"COMPLETED", "FAILED", "CANCELED"}
MidRelease == {"AGGREGATING", "EVALUATING", "CHECKPOINTING"}

AllowedNext(s) ==
  CASE s = "CREATED"       -> {"VALIDATING", "FAILED", "CANCELED"}
    [] s = "VALIDATING"    -> {"INITIALIZING", "FAILED", "CANCELED"}
    [] s = "INITIALIZING"  -> {"READY", "FAILED", "CANCELED"}
    [] s = "READY"         -> {"QUEUED", "FAILED", "CANCELED"}
    [] s = "QUEUED"        -> {"RUNNING", "CANCELING", "FAILED"}
    [] s = "RUNNING"       -> {"WAITING", "PAUSING", "CANCELING", "FAILED"}
    [] s = "WAITING"       -> {"AGGREGATING", "PAUSING", "CANCELING", "FAILED"}
    [] s = "AGGREGATING"   -> {"EVALUATING", "CHECKPOINTING", "FAILED"}
    [] s = "EVALUATING"    -> {"CHECKPOINTING", "RUNNING", "COMPLETED", "FAILED"}
    [] s = "CHECKPOINTING" -> {"RUNNING", "PAUSED", "COMPLETED", "FAILED"}
    [] s = "PAUSING"       -> {"PAUSED", "FAILED"}
    [] s = "PAUSED"        -> {"QUEUED", "CANCELING", "FAILED"}
    [] s = "CANCELING"     -> {"CANCELED", "FAILED"}
    [] OTHER               -> {}

(* version r is the model "v<r>"; ledger lists the rounds charged, oldest first. *)
Durable == [state: RunState, round: Nat, version: Nat, ledger: Seq(Nat)]

Handler == {"none", "start", "pause", "cancel", "stop",
            "aggregate", "charge", "publish", "checkpoint", "settle",
            "secure_publish", "secure_charge", "secure_checkpoint", "secure_settle"}

Created == [state |-> "CREATED", round |-> 0, version |-> 0, ledger |-> <<>>]

(* create_run on an empty checkpoint directory: a restart would find nothing else. *)
Init ==
  /\ config \in Config
  /\ mem = Created
  /\ disk = Created
  /\ handler = "none"
  /\ requests = {}

Idle == handler = "none"

(* Epsilon after n charged rounds meets the budget. *)
ReachesBudget(n) == Budget > 0 /\ n >= Budget

(* Fault for Transition: the checkpoint leaves the ledger out. *)
TransitionWithoutLedger(next) ==
  /\ next \in AllowedNext(mem.state)
  /\ mem' = [mem EXCEPT !.state = next]
  /\ disk' = [mem EXCEPT !.state = next, !.ledger = disk.ledger]

(***************************************************************************)
(* transition: a legal move, checkpointed at once.  An illegal one throws  *)
(* before anything changes, so here it is not a step.                      *)
(***************************************************************************)
Transition(next) ==
  /\ next \in AllowedNext(mem.state)
  /\ mem' = [mem EXCEPT !.state = next]
  /\ disk' = mem'

-------------------------------------------------------------------------------
(* start: from CREATED through four preparatory states, otherwise straight to RUNNING. *)
StartRun ==
  /\ Idle
  /\ mem.state \notin {"RUNNING", "WAITING", "PAUSED"} \cup MidRelease \cup Terminal
  /\ IF mem.state = "CREATED"
     THEN Transition("VALIDATING") /\ handler' = "start"
     ELSE Transition("RUNNING") /\ UNCHANGED handler
  /\ UNCHANGED <<config, requests>>

(* resume: PAUSED, QUEUED, RUNNING; the last step is start's last. *)
ResumeRun ==
  /\ Idle
  /\ mem.state = "PAUSED"
  /\ Transition("QUEUED")
  /\ handler' = "start"
  /\ UNCHANGED <<config, requests>>

StartOrder ==
  [VALIDATING |-> "INITIALIZING", INITIALIZING |-> "READY", READY |-> "QUEUED",
   QUEUED |-> "RUNNING"]

StartStep ==
  /\ handler = "start"
  /\ Transition(StartOrder[mem.state])
  /\ handler' = IF mem.state = "QUEUED" THEN "none" ELSE "start"
  /\ UNCHANGED <<config, requests>>

(* pause: at once when no release is under way, otherwise only noted. *)
PauseRun ==
  /\ Idle /\ "pause" \in config.faults
  /\ \/ /\ mem.state \in {"RUNNING", "WAITING"}
        /\ Transition("PAUSING")
        /\ handler' = "pause"
        /\ UNCHANGED requests
     \/ /\ mem.state \in MidRelease
        /\ requests' = requests \cup {"pause"}
        /\ UNCHANGED <<mem, disk, handler>>
  /\ UNCHANGED config

PauseStep ==
  /\ handler = "pause"
  /\ IF mem.state = "PAUSING"
     THEN Transition("PAUSED") /\ handler' = "none"
     ELSE Transition("PAUSING") /\ UNCHANGED handler
  /\ UNCHANGED <<config, requests>>

(* cancel: directly before the run is queued, then through CANCELING; noted mid-release. *)
CancelRun ==
  /\ Idle /\ "cancel" \in config.faults
  /\ \/ /\ mem.state \in {"CREATED", "VALIDATING", "INITIALIZING", "READY"}
        /\ Transition("CANCELED")
        /\ UNCHANGED <<handler, requests>>
     \/ /\ mem.state \in {"QUEUED", "RUNNING", "WAITING", "PAUSED"}
        /\ Transition("CANCELING")
        /\ handler' = "cancel"
        /\ UNCHANGED requests
     \/ /\ mem.state \in MidRelease
        /\ requests' = requests \cup {"cancel"}
        /\ UNCHANGED <<mem, disk, handler>>
  /\ UNCHANGED config

CancelStep ==
  /\ handler = "cancel"
  /\ IF mem.state = "CANCELING"
     THEN Transition("CANCELED") /\ handler' = "none"
     ELSE Transition("CANCELING") /\ UNCHANGED handler
  /\ UNCHANGED <<config, requests>>
-------------------------------------------------------------------------------
(* Fault for BeginRound: the counter is not advanced. *)
BeginRoundAgain ==
  /\ Idle /\ mem.state = "RUNNING" /\ mem.round < MaxRounds
  /\ mem' = [mem EXCEPT !.state = "WAITING", !.round = IF @ = 0 THEN 1 ELSE @]
  /\ disk' = mem'
  /\ UNCHANGED <<config, handler, requests>>

(***************************************************************************)
(* advance in RUNNING: the next round.  Past max_rounds the code asks for  *)
(* COMPLETED, which the table does not allow from RUNNING: it throws, and  *)
(* nothing happens.                                                        *)
(***************************************************************************)
BeginRound ==
  /\ Idle
  /\ mem.state = "RUNNING"
  /\ mem.round < MaxRounds
  /\ mem' = [mem EXCEPT !.state = "WAITING", !.round = @ + 1]
  /\ disk' = mem'
  /\ UNCHANGED <<config, handler, requests>>

(* advance in WAITING, when the round cannot reach its quorum any more. *)
FailRound ==
  /\ Idle
  /\ mem.state = "WAITING"
  /\ Transition("FAILED")
  /\ UNCHANGED <<config, handler, requests>>

(* Fault for StopsBefore: looks at the epsilon spent, not at the projected one. *)
StopsBeforeTooLate ==
  config.policy = "STOP_BEFORE" /\ ReachesBudget(Len(mem.ledger))

(* kStopBeforeExceeding: one more release would meet the budget. *)
StopsBefore ==
  config.policy = "STOP_BEFORE" /\ ReachesBudget(Len(mem.ledger) + 1)

(* advance in WAITING, calling finalize_round: the quorum is there. *)
FinalizeRound ==
  /\ Idle
  /\ mem.state = "WAITING"
  /\ Transition("AGGREGATING")
  /\ handler' = IF StopsBefore THEN "stop" ELSE "aggregate"
  /\ UNCHANGED <<config, requests>>

(* Fault for StopStep: returns without the last transition. *)
StopStepHalfway ==
  /\ handler = "stop"
  /\ Transition("CHECKPOINTING")
  /\ handler' = "none"
  /\ UNCHANGED <<config, requests>>

(* finalize_round under StopsBefore: end the run without a release. *)
StopStep ==
  /\ handler = "stop"
  /\ IF mem.state = "AGGREGATING"
     THEN Transition("CHECKPOINTING") /\ UNCHANGED handler
     ELSE Transition("COMPLETED") /\ handler' = "none"
  /\ UNCHANGED <<config, requests>>

(* aggregate: the results are combined, or one of them is refused by throwing. *)
Aggregate ==
  /\ handler = "aggregate"
  /\ handler' \in {"charge"} \cup (IF "aggregate" \in config.faults THEN {"none"} ELSE {})
  /\ UNCHANGED <<config, mem, disk, requests>>

(* The accountant steps and the ledger gets its entry; in memory only. *)
Charge ==
  /\ handler \in {"charge", "secure_charge"}
  /\ mem' = [mem EXCEPT !.ledger = Append(@, mem.round)]
  /\ handler' = IF handler = "charge" THEN "publish" ELSE "secure_checkpoint"
  /\ UNCHANGED <<config, disk, requests>>

(* The delta goes into global_model_ and the model version moves on; in memory only. *)
Publish ==
  /\ handler \in {"publish", "secure_publish"}
  /\ mem' = [mem EXCEPT !.version = mem.round]
  /\ handler' = IF handler = "publish" THEN "checkpoint" ELSE "secure_charge"
  /\ UNCHANGED <<config, disk, requests>>

Checkpoint ==
  /\ handler \in {"checkpoint", "secure_checkpoint"}
  /\ Transition("CHECKPOINTING")
  /\ handler' = IF handler = "checkpoint" THEN "settle" ELSE "secure_settle"
  /\ UNCHANGED <<config, requests>>

(* The reactive budget policies, which the secure path does not consult. *)
BudgetEnds(policies) ==
  /\ handler = "settle"
  /\ config.policy \in policies
  /\ ReachesBudget(Len(mem.ledger))

AfterReleaseLate ==
  IF BudgetEnds({"FAIL_RUN"}) THEN "FAILED"
  ELSE IF mem.round > MaxRounds \/ BudgetEnds({"STOP_AFTER"}) THEN "COMPLETED"
  ELSE "RUNNING"

AfterRelease ==
  IF BudgetEnds({"FAIL_RUN"}) THEN "FAILED"
  ELSE IF mem.round >= MaxRounds \/ BudgetEnds({"STOP_AFTER", "STOP_BEFORE"}) THEN "COMPLETED"
  ELSE "RUNNING"

(***************************************************************************)
(* The end of finalize_round, with apply_deferred_safepoint_actions: a     *)
(* noted cancel goes before a noted pause, and clears both.                *)
(***************************************************************************)
Settle ==
  /\ handler \in {"settle", "secure_settle"}
  /\ Transition(AfterRelease)
  /\ IF AfterRelease = "RUNNING" /\ requests # {}
     THEN /\ handler' = IF "cancel" \in requests THEN "cancel" ELSE "pause"
          /\ requests' = {}
     ELSE handler' = "none" /\ UNCHANGED requests
  /\ UNCHANGED config

(***************************************************************************)
(* apply_secure_aggregate_and_advance for the current round: the service   *)
(* handed out no secure task unless the projected epsilon was in budget.   *)
(***************************************************************************)
SecureApply ==
  /\ Idle
  /\ config.secure
  /\ mem.state = "WAITING"
  /\ ~ReachesBudget(Len(mem.ledger) + 1)
  /\ Transition("AGGREGATING")
  /\ handler' = "secure_publish"
  /\ UNCHANGED <<config, requests>>
-------------------------------------------------------------------------------
(* Fault for Restore: the ledger is not read back. *)
RestoreWithoutLedger == [disk EXCEPT !.ledger = <<>>]

(* restore_from_checkpoint, into a freshly created run. *)
Restore == disk

(***************************************************************************)
(* The process dies, wherever its handler is, and comes back from the last *)
(* checkpoint.  Requests that were only noted are gone.                    *)
(***************************************************************************)
CrashAndRestore ==
  /\ "crash" \in config.faults
  /\ mem' = Restore
  /\ handler' = "none"
  /\ requests' = {}
  /\ UNCHANGED <<config, disk>>

HandlerStep ==
  \/ StartStep \/ PauseStep \/ CancelStep \/ StopStep
  \/ Aggregate \/ Charge \/ Publish \/ Checkpoint \/ Settle

RoundEnds == FinalizeRound \/ FailRound \/ SecureApply

Next ==
  \/ StartRun \/ ResumeRun \/ PauseRun \/ CancelRun
  \/ BeginRound \/ RoundEnds
  \/ HandlerStep
  \/ CrashAndRestore

Spec == Init /\ [][Next]_vars

(***************************************************************************)
(* A handler that runs runs on; the watchdog keeps calling advance, which  *)
(* begins rounds and, at the deadline at the latest, ends them; a paused   *)
(* run is resumed.                                                         *)
(***************************************************************************)
Fairness ==
  /\ WF_vars(HandlerStep)
  /\ WF_vars(BeginRound)
  /\ WF_vars(RoundEnds)
  /\ WF_vars(ResumeRun)

FairSpec == Spec /\ Fairness
-------------------------------------------------------------------------------
TypeOK ==
  /\ config \in Config
  /\ mem \in Durable
  /\ disk \in Durable
  /\ handler \in Handler
  /\ requests \subseteq {"pause", "cancel"}

LastCharged(r) == IF r.ledger = <<>> THEN 0 ELSE r.ledger[Len(r.ledger)]

(***************************************************************************)
(* No model without its privacy charge, and no charge without its model:   *)
(* the version a checkpoint would bring back is the last round in its      *)
(* ledger, at whatever point of finalize_round the process dies, and the   *)
(* same holds in memory whenever the mutex is free.                        *)
(***************************************************************************)
ReleaseIsCharged ==
  /\ disk.version = LastCharged(disk)
  /\ Idle => mem.version = LastCharged(mem)

(***************************************************************************)
(* A round is charged and released at most once, across crashes and        *)
(* retries too: the ledger's rounds ascend, none is beyond the current     *)
(* one, and a round still waiting for clients is not among them.           *)
(***************************************************************************)
Ascending(r) ==
  /\ \A i, j \in DOMAIN r.ledger : i < j => r.ledger[i] < r.ledger[j]
  /\ \A i \in DOMAIN r.ledger : r.ledger[i] <= r.round
  /\ r.state = "WAITING" => \A i \in DOMAIN r.ledger : r.ledger[i] < r.round

OneReleasePerRound == Ascending(mem) /\ Ascending(disk)

(***************************************************************************)
(* The budget policies: under STOP_BEFORE the budget is never met; under   *)
(* STOP_AFTER and FAIL_RUN the release that meets it is the last.          *)
(***************************************************************************)
WithinPolicy(r) ==
  /\ config.policy = "STOP_BEFORE" => ~ReachesBudget(Len(r.ledger))
  /\ config.policy \in {"STOP_AFTER", "FAIL_RUN"} => ~ReachesBudget(Len(r.ledger) - 1)

BudgetRespected == WithinPolicy(mem) /\ WithinPolicy(disk)

(***************************************************************************)
(* A run that completes went as far as it was asked to: its last round was *)
(* released, unless its budget policy ended it.                            *)
(***************************************************************************)
CompletedReleasedLastRound ==
  mem.state = "COMPLETED" =>
    \/ LastCharged(mem) = MaxRounds
    \/ config.policy = "STOP_BEFORE" /\ ReachesBudget(Len(mem.ledger) + 1)
    \/ config.policy = "STOP_AFTER" /\ ReachesBudget(Len(mem.ledger))

(* A run that has ended stays as it ended, also when its process is restarted. *)
TerminalIsFinal ==
  [][mem.state \in Terminal => mem'.state = mem.state /\ mem'.version = mem.version]_vars

(***************************************************************************)
(* What was released and charged on disk is never taken back, by a restart *)
(* or by anything the restarted run does later.                            *)
(***************************************************************************)
ReleasesSurvive ==
  [][/\ Len(disk.ledger) <= Len(disk'.ledger)
     /\ \A i \in DOMAIN disk.ledger : disk'.ledger[i] = disk.ledger[i]]_vars

(* No restart and no aggregate that throws comes between an operator and the run. *)
OnlyOperators == config.faults \cap {"crash", "aggregate"} = {}

(***************************************************************************)
(* When no handler is at work the run is in a state that start, resume,    *)
(* cancel or advance acts on, as long as only operators disturb it.        *)
(***************************************************************************)
RestsInStableState ==
  OnlyOperators /\ Idle => mem.state \notin MidRelease \cup {"PAUSING", "CANCELING"}

(* A run ends once it has been started and is not paused again and again. *)
StartedRunsEnd ==
  <>[](handler # "pause") => ((mem.state = "RUNNING") ~> (mem.state \in Terminal))

(***************************************************************************)
(* ... provided, as the code has it, that no pause falls into the last     *)
(* round: whatever the budget policy, whatever else is paused, resumed or  *)
(* noted for the safe point, the rounds go by and the run ends.            *)
(***************************************************************************)
EveryRunEnds ==
  OnlyOperators => ([](handler = "pause" => mem.round < MaxRounds) => StartedRunsEnd)
===============================================================================
