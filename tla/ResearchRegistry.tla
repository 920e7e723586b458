--------------------------- MODULE ResearchRegistry ---------------------------
(***************************************************************************)
(* The research registry's writer: the threads of ResearchCommandHTTPServer *)
(* that execute commands on one experiment (ResearchCommandService), the   *)
(* ExperimentRegistry they share with its lock, and the orchestrator that  *)
(* runs the experiment's seeds.  Everything but the threads and the lock   *)
(* is files, which outlive a crash; reads take no lock.  A listing of the  *)
(* runs, the two reads of a start and the two files of a stored answer are *)
(* one step each, a record that is replaced is never found half written,   *)
(* and an adapter reports an outcome (README, What is not modelled).       *)
(***************************************************************************)
EXTENDS Integers, Sequences, FiniteSetsExt

CONSTANTS
  NumSeeds,     \* declared seeds
  Threads,      \* threads of the server
  NoThread,     \* nobody holds the registry's lock
  Commands,     \* what clients send: type, idempotency key, body, version
  Outcomes,     \* what the SyntheticExecutionAdapter may report
  MaxCalls,     \* bound: commands received
  MaxExpired,   \* bound: commands received after their expiry
  MaxAttempts,  \* bound: attempts of a seed
  MaxCrashes    \* bound: crashes of the process

Seeds == 1..NumSeeds

ASSUME SeedsAssumption == NumSeeds \in Nat \ {0}
ASSUME OutcomesAssumption == Outcomes \subseteq {"completed", "failed", "blocked", "canceled"}
ASSUME ThreadsAssumption == NoThread \notin Threads
ASSUME CommandsAssumption ==
  \A c \in Commands : c.type \in {"create", "start", "cancel", "health"}

InFlight == {"PREPARING", "RUNNING", "EVALUATING"}

VARIABLES
  directory,  \* the experiment's directory exists
  experiment, \* registry.json: state and record_version, version 0 before
  runs,       \* run.json of each seed that has one: state and attempt
  createdBy,  \* idempotency/<key>.json of the registry: the command, {} before
  answers,    \* commands/idempotency: the last answer to a type and key
  lock,       \* who holds ExperimentRegistry._lock
  calls,      \* calls[t]: what thread t is about
  received, expired, crashes

files == <<directory, experiment, runs, createdBy, answers>>
bounds == <<received, expired, crashes>>
vars == <<files, lock, calls, bounds>>

NoExperiment == [state |-> "READY", version |-> 0]
NoRuns == [s \in {} |-> [state |-> "CREATED", attempt |-> 1]]

(* A thread between commands, and one that has just taken a command.  list *)
(* is the last list_run_records it made, record the last registry.json it  *)
(* read, seed the one its loop is at, attempt the one it executes.         *)
Idle == [step |-> "idle"]
Call(c) ==
  [step |-> "replay", command |-> c, record |-> NoExperiment, list |-> NoRuns,
   seed |-> 1, attempt |-> 0, status |-> "SUCCEEDED"]

At(t, step) == calls[t].step = step
Go(t, step) == calls' = [calls EXCEPT ![t].step = step]
Continue(t, step) == [Call(calls[t].command) EXCEPT !.step = step]
Answer(t, status) ==
  calls' = [calls EXCEPT ![t] = [Continue(t, "persist") EXCEPT !.status = status]]

(* No answer to keep: it was kept before, or an exception leaves execute. *)
End(t) == calls' = [calls EXCEPT ![t] = Idle]

Unlocked == lock = NoThread

-----------------------------------------------------------------------------
(***************************************************************************)
(* The state machines.                                                     *)
(***************************************************************************)

(* _ALLOWED_EXPERIMENT_TRANSITIONS, of the moves the writer asks for. *)
AllowedExperiment ==
  {<<"READY", "RUNNING">>, <<"READY", "CANCEL_REQUESTED">>, <<"RUNNING", "CANCEL_REQUESTED">>}

(* _ALLOWED_RUN_TRANSITIONS, of the moves the writer asks for. *)
RunMoves ==
  {<<"CREATED", "PREPARING">>, <<"CREATED", "CANCELED">>,
   <<"PREPARING", "RUNNING">>, <<"PREPARING", "CANCELED">>}
  \cup {"RUNNING"} \X {"EVALUATING", "FAILED", "CANCELED", "LOST"}
  \cup {"EVALUATING"} \X {"COMPLETED", "FAILED", "CANCELED"}

(* Fault for AllowedRun: a seed that was called off can still be started. *)
AllowedRunAfterCancel == RunMoves \cup {<<"CANCELED", "PREPARING">>}

(* Fault for AllowedRun: starting what runs is not refused. *)
AllowedRunTwice == RunMoves \cup {<<"RUNNING", "PREPARING">>}

AllowedRun == RunMoves

(* transition_experiment_state: the version is compared under the lock. *)
TransitionExperiment(t, next, version, after) ==
  /\ Unlocked
  /\ IF experiment.version # version
     THEN Answer(t, "CONFLICT") /\ UNCHANGED experiment
     ELSE IF <<experiment.state, next>> \notin AllowedExperiment
     THEN Answer(t, "VALIDATION_FAILED") /\ UNCHANGED experiment
     ELSE /\ experiment' = [state |-> next, version |-> version + 1]
          /\ Go(t, after)

(* transition_run_state *)
CanBecome(s, next) == <<runs[s].state, next>> \in AllowedRun
Become(s, next) == runs' = [runs EXCEPT ![s].state = next]

(* The orchestrator's use of it: an illegal transition ends the command. *)
TransitionRun(t, s, next, after) ==
  /\ Unlocked
  /\ IF CanBecome(s, next)
     THEN Become(s, next) /\ after
     ELSE Answer(t, "VALIDATION_FAILED") /\ UNCHANGED runs

-----------------------------------------------------------------------------
(***************************************************************************)
(* execute: expiry, then the answer kept for the key, then the command.    *)
(***************************************************************************)
Receive(t, c) ==
  /\ At(t, "idle") /\ received < MaxCalls
  /\ received' = received + 1
  /\ \/ calls' = [calls EXCEPT ![t] = Call(c)] /\ UNCHANGED expired
     \/ /\ expired < MaxExpired /\ expired' = expired + 1
        /\ calls' = [calls EXCEPT ![t] = [Call(c) EXCEPT !.step = "persist", !.status = "EXPIRED"]]
  /\ UNCHANGED <<files, lock, crashes>>

(* The answer kept for a command's type and key. *)
Kept(c) == {a \in answers : a.type = c.type /\ a.key = c.key}

(* _replay_idempotent_result: the answer that was kept, and for another body *)
(* an exception.                                                           *)
Replay(t) ==
  /\ At(t, "replay")
  /\ LET c == calls[t].command IN
       IF c.type = "health" \/ Kept(c) = {} THEN Go(t, c.type) ELSE End(t)
  /\ UNCHANGED <<files, lock, bounds>>

(* _persist_result: the result's own file, and the key's, which names it. *)
PersistResult(t) ==
  /\ At(t, "persist")
  /\ LET c == calls[t].command IN
       answers' = IF c.type = "health" THEN answers
                  ELSE (answers \ Kept(c)) \cup
                         {[type |-> c.type, key |-> c.key, body |-> c.body, status |-> calls[t].status]}
  /\ calls' = [calls EXCEPT ![t] = Idle]
  /\ UNCHANGED <<directory, experiment, runs, createdBy, lock, bounds>>

-----------------------------------------------------------------------------
(***************************************************************************)
(* create_experiment: the lock is held over all of it, but a crash may     *)
(* fall between two files, and readers see what is there.                  *)
(***************************************************************************)

(* Fault for CreateDirectory: a directory that is there will do. *)
CreateDirectoryExisting(t) ==
  /\ At(t, "create") /\ Unlocked
  /\ directory' = TRUE
  /\ IF directory THEN Answer(t, "SUCCEEDED") /\ UNCHANGED lock
     ELSE lock' = t /\ Go(t, "create_record")
  /\ UNCHANGED <<experiment, runs, createdBy, answers, bounds>>

CreateDirectory(t) ==
  /\ At(t, "create") /\ Unlocked
  /\ LET c == calls[t].command
         same == {d \in createdBy : d.key = c.key}
     IN  IF same # {}
         THEN /\ Answer(t, IF \E d \in same : d.body = c.body THEN "SUCCEEDED" ELSE "CONFLICT")
              /\ UNCHANGED <<directory, lock>>
         ELSE IF directory
         THEN Answer(t, "CONFLICT") /\ UNCHANGED <<directory, lock>>
         ELSE directory' = TRUE /\ lock' = t /\ Go(t, "create_record")
  /\ UNCHANGED <<experiment, runs, createdBy, answers, bounds>>

CreateRecord(t) ==
  /\ At(t, "create_record")
  /\ experiment' = [state |-> "READY", version |-> 1]
  /\ Go(t, "create_runs")
  /\ UNCHANGED <<directory, runs, createdBy, answers, lock, bounds>>

(* _initialize_run for the next seed. *)
CreateRun(t) ==
  /\ At(t, "create_runs")
  /\ runs' = [s \in 1..calls[t].seed |-> [state |-> "CREATED", attempt |-> 1]]
  /\ calls' = [calls EXCEPT ![t].seed = @ + 1,
                            ![t].step = IF calls[t].seed = NumSeeds THEN "create_key" ELSE @]
  /\ UNCHANGED <<directory, experiment, createdBy, answers, lock, bounds>>

CreateKey(t) ==
  /\ At(t, "create_key")
  /\ createdBy' = createdBy \cup {calls[t].command}
  /\ lock' = NoThread
  /\ Answer(t, "SUCCEEDED")
  /\ UNCHANGED <<directory, experiment, runs, answers, bounds>>

-----------------------------------------------------------------------------
(***************************************************************************)
(* start_synthetic_experiment and execute_experiment.                      *)
(***************************************************************************)
StartExperiment(t) ==
  /\ At(t, "start")
  /\ LET v == calls[t].command.version IN
       IF experiment = NoExperiment THEN Answer(t, "CORRUPTION_DETECTED")
       ELSE IF experiment.state \in {"COMPLETED", "CANCELED"} THEN Answer(t, "CONFLICT")
       ELSE IF v # 0 /\ v # experiment.version THEN Answer(t, "CONFLICT")
       ELSE IF experiment.state \notin {"READY", "RUNNING", "CANCEL_REQUESTED"}
       THEN Answer(t, "VALIDATION_FAILED")
       ELSE calls' = [calls EXCEPT ![t].record = experiment,
                        ![t].step = IF experiment.state = "READY" THEN "begin" ELSE "list"]
  /\ UNCHANGED <<files, lock, bounds>>

BeginExperiment(t) ==
  /\ At(t, "begin")
  /\ TransitionExperiment(t, "RUNNING", calls[t].record.version, "list")
  /\ UNCHANGED <<directory, runs, createdBy, answers, lock, bounds>>

(* list_run_records fails without a runs directory. *)
ListRuns(t) ==
  /\ At(t, "list") \/ At(t, "cancel_list") \/ At(t, "health_list")
  /\ IF runs # NoRuns
     THEN LET next == CASE At(t, "list") -> "seed"
                        [] At(t, "cancel_list") -> "cancel_run"
                        [] At(t, "health_list") -> "lose"
          IN  calls' = [calls EXCEPT ![t] = [Continue(t, next) EXCEPT !.list = runs]]
     ELSE IF At(t, "health_list") THEN End(t) ELSE Answer(t, "NOT_FOUND")
  /\ UNCHANGED <<files, lock, bounds>>

NextSeed(t, step) ==
  calls' = [calls EXCEPT ![t].seed = @ + 1, ![t].attempt = 0, ![t].step = step]
Listed(t) == calls[t].seed \in DOMAIN calls[t].list
ListedAs(t) == calls[t].list[calls[t].seed].state

(* The loop over the runs that were listed: a seed that was not CREATED    *)
(* then, or that an experiment to be cancelled has not begun, is passed by. *)
TakeSeed(t) ==
  /\ At(t, "seed")
  /\ IF ~Listed(t) THEN Go(t, "reconcile")
     ELSE IF ListedAs(t) # "CREATED" \/ experiment.state = "CANCEL_REQUESTED"
     THEN NextSeed(t, "seed")
     ELSE Go(t, "prepare")
  /\ UNCHANGED <<files, lock, bounds>>

PrepareRun(t) ==
  /\ At(t, "prepare")
  /\ TransitionRun(t, calls[t].seed, "PREPARING", Go(t, "run"))
  /\ UNCHANGED <<directory, experiment, createdBy, answers, lock, bounds>>

StartRun(t) ==
  /\ At(t, "run")
  /\ TransitionRun(t, calls[t].seed, "RUNNING",
       calls' = [calls EXCEPT ![t].attempt = runs[calls[t].seed].attempt, ![t].step = "adapter"])
  /\ UNCHANGED <<directory, experiment, createdBy, answers, lock, bounds>>

(* The adapter executes the run, and its outcome is written down. *)
ExecuteRun(t) ==
  /\ At(t, "adapter")
  /\ \E o \in Outcomes :
       LET s == calls[t].seed IN
         CASE o = "completed" -> TransitionRun(t, s, "EVALUATING", Go(t, "evaluate"))
           [] o = "failed" -> TransitionRun(t, s, "FAILED", NextSeed(t, "seed"))
           [] o = "blocked" -> TransitionRun(t, s, "BLOCKED", NextSeed(t, "seed"))
           [] o = "canceled" -> TransitionRun(t, s, "CANCELED", NextSeed(t, "seed"))
  /\ UNCHANGED <<directory, experiment, createdBy, answers, lock, bounds>>

(* Metrics, summary and artifacts are on disk. *)
CompleteRun(t) ==
  /\ At(t, "evaluate")
  /\ TransitionRun(t, calls[t].seed, "COMPLETED", NextSeed(t, "seed"))
  /\ UNCHANGED <<directory, experiment, createdBy, answers, lock, bounds>>

-----------------------------------------------------------------------------
(***************************************************************************)
(* _reconcile_experiment_state: read the record, read the runs, write the  *)
(* record, without the lock and without comparing versions.                *)
(***************************************************************************)
CountIn(list, states) == Cardinality({s \in DOMAIN list : list[s].state \in states})

Reconciled(record, list) ==
  LET all == Cardinality(DOMAIN list)
      completed == CountIn(list, {"COMPLETED"})
  IN  IF completed = all THEN "COMPLETED"
      ELSE IF completed > 0 /\ CountIn(list, {"FAILED", "CANCELED", "BLOCKED"}) > 0
      THEN "COMPLETED_WITH_PARTIAL_RUNS"
      ELSE IF CountIn(list, {"FAILED"}) = all THEN "FAILED"
      ELSE IF CountIn(list, {"BLOCKED"}) > 0 /\ completed = 0 THEN "BLOCKED"
      ELSE IF CountIn(list, {"CANCELED"}) = all \/ record.state = "CANCEL_REQUESTED"
      THEN "CANCELED"
      ELSE "RUNNING"

ReconcileRecord(t) ==
  /\ At(t, "reconcile")
  /\ calls' = [calls EXCEPT ![t] = [Continue(t, "reconcile_runs") EXCEPT !.record = experiment]]
  /\ UNCHANGED <<files, lock, bounds>>

ReconcileRuns(t) ==
  /\ At(t, "reconcile_runs")
  /\ calls' = [calls EXCEPT ![t].list = runs, ![t].step = "reconcile_write"]
  /\ UNCHANGED <<files, lock, bounds>>

ReconcileWrite(t) ==
  /\ At(t, "reconcile_write")
  /\ experiment' = [state |-> Reconciled(calls[t].record, calls[t].list),
                    version |-> calls[t].record.version + 1]
  /\ Answer(t, "SUCCEEDED")
  /\ UNCHANGED <<directory, runs, createdBy, answers, lock, bounds>>

-----------------------------------------------------------------------------
(***************************************************************************)
(* cancel_experiment and request_cancel.                                   *)
(***************************************************************************)
CancelExperiment(t) ==
  /\ At(t, "cancel")
  /\ IF experiment = NoExperiment THEN Answer(t, "CORRUPTION_DETECTED")
     ELSE IF experiment.state \in {"CANCELED", "COMPLETED", "COMPLETED_WITH_PARTIAL_RUNS",
                                   "CANCEL_REQUESTED"}
     THEN Answer(t, "SUCCEEDED")
     ELSE calls' = [calls EXCEPT ![t].record = experiment, ![t].step = "request"]
  /\ UNCHANGED <<files, lock, bounds>>

RequestCancel(t) ==
  /\ At(t, "request")
  /\ LET v == calls[t].command.version IN
       TransitionExperiment(t, "CANCEL_REQUESTED",
                            IF v # 0 THEN v ELSE calls[t].record.version, "cancel_list")
  /\ UNCHANGED <<directory, runs, createdBy, answers, lock, bounds>>

(* A run that was listed as CREATED is cancelled, whatever it is by now. *)
CancelListedRun(t) ==
  /\ At(t, "cancel_run")
  /\ IF ~Listed(t) THEN Go(t, "cancel_check") /\ UNCHANGED runs
     ELSE IF ListedAs(t) # "CREATED" THEN NextSeed(t, "cancel_run") /\ UNCHANGED runs
     ELSE TransitionRun(t, calls[t].seed, "CANCELED", NextSeed(t, "cancel_run"))
  /\ UNCHANGED <<directory, experiment, createdBy, answers, lock, bounds>>

CancelCheck(t) ==
  /\ At(t, "cancel_check")
  /\ IF \A s \in DOMAIN runs : runs[s].state \in {"CANCELED", "COMPLETED"}
     THEN Go(t, "reconcile")
     ELSE Answer(t, "SUCCEEDED")
  /\ UNCHANGED <<files, lock, bounds>>

-----------------------------------------------------------------------------
(***************************************************************************)
(* get_writer_health scans with recover: every run in flight is LOST, and  *)
(* one that cannot be ends the scan.  The files the scan for corruption    *)
(* reads are intact, and CORRUPTED is allowed from no state reached here.  *)
(***************************************************************************)
WriterHealth(t) ==
  /\ At(t, "health")
  /\ IF experiment # NoExperiment THEN Go(t, "health_list")
     ELSE IF directory THEN End(t)
     ELSE Answer(t, "SUCCEEDED")
  /\ UNCHANGED <<files, lock, bounds>>

LoseRun(t) ==
  /\ At(t, "lose")
  /\ IF ~Listed(t) THEN Answer(t, "SUCCEEDED") /\ UNCHANGED runs
     ELSE IF ListedAs(t) \notin InFlight THEN NextSeed(t, "lose") /\ UNCHANGED runs
     ELSE /\ Unlocked
          /\ IF CanBecome(calls[t].seed, "LOST")
             THEN Become(calls[t].seed, "LOST") /\ NextSeed(t, "lose")
             ELSE End(t) /\ UNCHANGED runs
  /\ UNCHANGED <<directory, experiment, createdBy, answers, lock, bounds>>

(* create_retry_attempt, which no command reaches yet. *)
RetryRun(s) ==
  /\ Unlocked
  /\ runs[s].state \in {"FAILED", "BLOCKED", "LOST"} /\ runs[s].attempt < MaxAttempts
  /\ runs' = [runs EXCEPT ![s] = [state |-> "CREATED", attempt |-> @.attempt + 1]]
  /\ UNCHANGED <<directory, experiment, createdBy, answers, lock, calls, bounds>>

(* The process dies, with its threads and its lock. *)
Crash ==
  /\ crashes < MaxCrashes
  /\ crashes' = crashes + 1
  /\ lock' = NoThread
  /\ calls' = [t \in Threads |-> Idle]
  /\ UNCHANGED <<files, received, expired>>

-----------------------------------------------------------------------------

Init ==
  /\ directory = FALSE /\ experiment = NoExperiment /\ runs = NoRuns
  /\ createdBy = {} /\ answers = {}
  /\ lock = NoThread
  /\ calls = [t \in Threads |-> Idle]
  /\ received = 0 /\ expired = 0 /\ crashes = 0

Create(t) == CreateDirectory(t) \/ CreateRecord(t) \/ CreateRun(t) \/ CreateKey(t)
Execute(t) ==
  \/ StartExperiment(t) \/ BeginExperiment(t) \/ ListRuns(t) \/ TakeSeed(t)
  \/ PrepareRun(t) \/ StartRun(t) \/ ExecuteRun(t) \/ CompleteRun(t)
Reconcile(t) == ReconcileRecord(t) \/ ReconcileRuns(t) \/ ReconcileWrite(t)
Cancel(t) == CancelExperiment(t) \/ RequestCancel(t) \/ CancelListedRun(t) \/ CancelCheck(t)
Health(t) == WriterHealth(t) \/ LoseRun(t)

Next ==
  \/ \E t \in Threads :
       \/ \E c \in Commands : Receive(t, c)
       \/ Replay(t) \/ Create(t) \/ Execute(t) \/ Reconcile(t) \/ Cancel(t) \/ Health(t)
       \/ PersistResult(t)
  \/ \E s \in DOMAIN runs : RetryRun(s)
  \/ Crash

Spec == Init /\ [][Next]_vars

-----------------------------------------------------------------------------

Executing(t, s) ==
  /\ At(t, "adapter") \/ At(t, "evaluate")
  /\ calls[t].seed = s

(* Of any number of starts only one executes an attempt of a seed, although *)
(* each picks its seeds from a list it read before.                        *)
OneExecutor ==
  \A t, u \in Threads, s \in Seeds :
    Executing(t, s) /\ Executing(u, s) /\ calls[t].attempt = calls[u].attempt => t = u

(* A cancel that got through its list has called off every seed it saw     *)
(* unstarted, also one that was being started meanwhile, and for good.     *)
CancelStopsUnstarted ==
  \A t \in Threads : At(t, "cancel_check") =>
    \A s \in DOMAIN calls[t].list :
      calls[t].list[s].state = "CREATED" => runs[s].state = "CANCELED"

(* A client that was told its experiment is created has all of it, over    *)
(* crashes in the middle of an earlier try included.                       *)
CreateAnswerIsDurable ==
  \A a \in answers : a.type = "create" /\ a.status = "SUCCEEDED" =>
    /\ directory /\ experiment # NoExperiment /\ DOMAIN runs = Seeds
    /\ \E c \in createdBy : c.key = a.key
=============================================================================
