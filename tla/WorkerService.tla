---------------------------- MODULE WorkerService ----------------------------
(***************************************************************************)
(* The Python worker (worker/service.py and what it is made of) against a  *)
(* coordinator reached by calls that may be lost, answered into the void,  *)
(* or answered with an earlier reply once more.  A worker acquires a task, *)
(* verifies it, shakes hands when the cohort aggregates securely, trains   *)
(* under a privacy budget and submits with retries; its journal and its    *)
(* replay store are files, everything else dies with the process.  The     *)
(* coordinator is what RoundRuntime makes of it for a worker: a dispatcher *)
(* per round (DispatcherOps), one result per client and round, accepted on *)
(* the client's current lease.                                             *)
(***************************************************************************)
EXTENDS DispatcherOps

CONSTANTS
  MinResults,     \* results a round needs
  LocalSteps,     \* optimizer steps of one task
  Configs,        \* the run configurations tried
  SubmitAttempts, \* WorkerLoopOptions.submission_retry_attempts
  RosterPolls,    \* WorkerLoopOptions.secure_aggregation_roster_poll_attempts
  MaxFaults,      \* bound: calls lost, unanswered or answered again
  MaxCrashes      \* bound: deaths of worker processes

ASSUME ClientsAssumption == IsFiniteSet(Clients)

ASSUME WorkerAssumption ==
  /\ {LocalSteps, SubmitAttempts, RosterPolls} \subseteq Nat \ {0}
  /\ {MinResults, MaxFaults, MaxCrashes} \subseteq Nat

(* SamplePrivacyBudgetPolicy; "off" is a run without sample-level privacy. *)
Policies == {"off", "WARN_ONLY", "STOP_BEFORE_EXCEEDING", "STOP_AFTER_CURRENT_TASK", "FAIL_TASK"}

ASSUME ConfigsAssumption ==
  Configs \subseteq [secure: BOOLEAN, policy: Policies, budget: 1..(LocalSteps + 1),
                     rounds: Nat \ {0}]

VARIABLES
  config,   \* secure aggregation, the sample-level budget and its policy, max_rounds
  run,      \* the coordinator's run
  proc,     \* proc[w]: the process of worker w, gone in a crash
  journal,  \* journal[w][id]: AcceptedTaskJournal, a file
  replay,   \* replay[w]: CoordinatorTaskReplayStore's last sequence, a file
  wire,     \* signed tasks that were sent, which may arrive once more
  trained,  \* history: the sequence numbers of the tasks whose training began
  taken,    \* history: those whose result the coordinator took
  faults, crashes

durable == <<journal, replay>>
history == <<trained, taken>>
vars == <<config, run, proc, durable, wire, history, faults, crashes>>

(* A signed task; its sequence number tells it from every other. *)
NoGrant == [worker |-> NoWorker, client |-> CHOOSE c \in Clients : TRUE, round |-> 0,
            id |-> NoTask, lease |-> NoLease, attempt |-> 0, sequence |-> 0]

NoEntry == [status |-> "none", attempt |-> 0, sequence |-> 0]
Done == {"RESULT_SUBMITTED", "COMPLETED"}
InFlight == {"PREPARING", "TRAINING"}

(* The memory of a process: where it is, its task, optimizer steps taken,  *)
(* submissions tried, and the clients its budget enforcers stopped.        *)
Down == [at |-> "down", grant |-> NoGrant, steps |-> 0, tries |-> 0, stopped |-> {}]

Ids == 1..Cardinality(Clients)

Goto(w, place) == proc' = [proc EXCEPT ![w].at = place]
NextTask(w) == proc' = [proc EXCEPT ![w] = [Down EXCEPT !.at = "acquire", !.stopped = proc[w].stopped]]
Journal(w, status) == journal' = [journal EXCEPT ![w][proc[w].grant.id].status = status]

(***************************************************************************)
(* The coordinator.  A lease's expires is the time it still has to run, so *)
(* that the clock stands at 0 and time takes from what is left.            *)
(***************************************************************************)

FreshDispatcher ==
  EnqueueAll(EmptyDispatcher, CHOOSE order \in Orders(Clients) : TRUE, [c \in Clients |-> 0])

FreshRun(round, sequence) ==
  [status |-> "open", round |-> round, dispatcher |-> FreshDispatcher,
   leases |-> [c \in Clients |-> NoGrant], results |-> {}, sequence |-> sequence]

LeaseRuns(g) == run.dispatcher.tasks[g.id].lease = g.lease /\ run.dispatcher.tasks[g.id].expires >= 0

(* advance: leases that ran out are taken back, and a round that heard of  *)
(* every client ends; the next one begins with a dispatcher of its own.    *)
Advanced(order) ==
  LET d == Sweep(run.dispatcher, 0, order)
      swept == [run EXCEPT !.dispatcher = d,
                  !.leases = [c \in Clients |->
                                IF run.leases[c] # NoGrant /\ ~LeaseRuns(run.leases[c])
                                THEN NoGrant ELSE run.leases[c]]]
  IN  IF Cardinality(run.results) + Cardinality(FailedClients(d)) < Cardinality(Clients)
      THEN swept
      ELSE IF Cardinality(run.results) < MinResults THEN [swept EXCEPT !.status = "failed"]
      ELSE IF run.round = config.rounds THEN [swept EXCEPT !.status = "done"]
      ELSE FreshRun(run.round + 1, run.sequence)

Requeues ==
  LET gone == Expired(run.dispatcher, 0) IN Orders(gone \ Spent(run.dispatcher, gone))

Watchdog ==
  /\ run.status = "open"
  /\ \E order \in Requeues : run' = Advanced(order)
  /\ run' # run
  /\ UNCHANGED <<config, proc, durable, wire, history, faults, crashes>>

(* A lease that still runs has a second less to run. *)
Shortened(task) ==
  IF task.state = "leased" /\ task.expires >= 0
  THEN [task EXCEPT !.expires = @ - 1] ELSE task

Later(d) == [d EXCEPT !.tasks = [i \in DOMAIN d.tasks |-> Shortened(d.tasks[i])]]

TimePasses ==
  /\ run.status = "open"
  /\ \E i \in InState(run.dispatcher, "leased") : run.dispatcher.tasks[i].expires >= 0
  /\ run' = [run EXCEPT !.dispatcher = Later(@)]
  /\ UNCHANGED <<config, proc, durable, wire, history, faults, crashes>>

(* The next task, signed under the next sequence number. *)
Granted(r, w) ==
  LET id == Head(r.dispatcher.queue)
      d == Acquire(r.dispatcher, w, 0)
  IN  [worker |-> w, client |-> d.tasks[id].client, round |-> r.round, id |-> id,
       lease |-> d.tasks[id].lease, attempt |-> d.tasks[id].attempt, sequence |-> r.sequence + 1]

(* AcquireTask on the server: the run it leaves. *)
AfterGrant(r, g) ==
  [r EXCEPT !.dispatcher = Acquire(@, g.worker, 0), !.leases[g.client] = g, !.sequence = g.sequence]

(* A result is taken once per client and round, on the lease it names. *)
Takes(g) ==
  /\ run.status = "open" /\ g.round = run.round
  /\ g.client \notin run.results
  /\ run.leases[g.client] = g /\ LeaseRuns(g)

AfterResult(g) ==
  IF Takes(g) THEN [run EXCEPT !.results = @ \cup {g.client}, !.leases[g.client] = NoGrant] ELSE run

-----------------------------------------------------------------------------
(***************************************************************************)
(* WorkerService.run                                                       *)
(***************************************************************************)

(* recover_on_startup: what a dead process was working on has failed. *)
RecoveredEntry(entry) ==
  IF entry.status \in InFlight THEN [entry EXCEPT !.status = "FAILED"] ELSE entry

(* The process starts, registers and looks at its journal.  A registration *)
(* that fails ends the process, which is to say that it starts later.      *)
Register(w) ==
  /\ proc[w].at = "down"
  /\ NextTask(w)
  /\ journal' = [journal EXCEPT ![w] = [id \in Ids |-> RecoveredEntry(@[id])]]
  /\ UNCHANGED <<config, run, replay, wire, history, faults, crashes>>

Receive(w, g) == proc' = [proc EXCEPT ![w].at = "verify", ![w].grant = g]

(* acquire_task, answered; no task and an unavailable coordinator both     *)
(* lead to the next iteration, and are no step.                            *)
AcquireTask(w) ==
  /\ proc[w].at = "acquire" /\ run.status = "open"
  /\ \E order \in Requeues :
       LET r == Advanced(order)
           g == Granted(r, w)
       IN  /\ r.status = "open" /\ CanAcquire(r.dispatcher, w)
           /\ run' = AfterGrant(r, g)
           /\ wire' = wire \cup {g}
           /\ \/ Receive(w, g) /\ UNCHANGED faults
              \/ faults < MaxFaults /\ faults' = faults + 1 /\ UNCHANGED proc
  /\ UNCHANGED <<config, durable, history, crashes>>

(* An earlier reply arrives again in the place of the one asked for. *)
ReceiveAgain(w) ==
  /\ proc[w].at = "acquire" /\ faults < MaxFaults
  /\ faults' = faults + 1
  /\ \E g \in wire : Receive(w, g)
  /\ UNCHANGED <<config, run, durable, wire, history, crashes>>

(* Fault for Replayed: the last task accepted may come again. *)
ReplayedStrictly(w, g) == g.sequence < replay[w]

(* CoordinatorTaskReplayStore.validate: sequence numbers only go up. *)
Replayed(w, g) == g.sequence <= replay[w]

(* verify_coordinator_task: signed for this worker, not seen before. *)
Valid(w, g) == g.worker = w /\ ~Replayed(w, g)

(* The replay store is written for a task that is valid and not expired.   *)
VerifyTask(w) ==
  /\ proc[w].at = "verify"
  /\ LET g == proc[w].grant IN
       IF Valid(w, g)
       THEN \/ replay' = [replay EXCEPT ![w] = g.sequence] /\ Goto(w, "record")
            \/ /\ g.round # run.round \/ ~LeaseRuns(g)
               /\ NextTask(w) /\ UNCHANGED replay
       ELSE NextTask(w) /\ UNCHANGED replay
  /\ UNCHANGED <<config, run, journal, wire, history, faults, crashes>>

(* record_accepted, which knows a task by its id and attempt. *)
RecordAccepted(w) ==
  /\ proc[w].at = "record"
  /\ LET g == proc[w].grant
         entry == journal[w][g.id]
     IN  IF entry.status \in Done /\ entry.attempt >= g.attempt
         THEN NextTask(w) /\ UNCHANGED journal
         ELSE /\ journal' = [journal EXCEPT ![w][g.id] =
                   [status |-> "ACCEPTED", attempt |-> g.attempt, sequence |-> g.sequence]]
              /\ Goto(w, "handshake")
  /\ UNCHANGED <<config, run, replay, wire, history, faults, crashes>>

(* _perform_secure_cohort_handshake, whose failures give the task up where *)
(* it is; a coordinator that cannot be reached, or that answers with an    *)
(* error status, is not caught there, and ends the process.                *)
Unreachable(w) ==
  /\ faults < MaxFaults /\ faults' = faults + 1
  /\ proc' = [proc EXCEPT ![w] = Down]

(* A task without a secure session needs none; else the key is advertised. *)
AdvertiseKey(w) ==
  /\ proc[w].at = "handshake"
  /\ \/ Goto(w, IF config.secure THEN "roster" ELSE "prepare") /\ UNCHANGED faults
     \/ config.secure /\ NextTask(w) /\ UNCHANGED faults
     \/ config.secure /\ Unreachable(w)
  /\ UNCHANGED <<config, run, durable, wire, history, crashes>>

(* The roster is asked for RosterPolls times, until the cohort is frozen,  *)
(* and has to verify.                                                      *)
PollRoster(w) ==
  /\ proc[w].at = "roster"
  /\ \/ /\ proc' = [proc EXCEPT ![w].at = "prepare", ![w].tries = 0]
        /\ UNCHANGED faults
     \/ /\ proc[w].tries + 1 < RosterPolls
        /\ proc' = [proc EXCEPT ![w].tries = @ + 1]
        /\ UNCHANGED faults
     \/ NextTask(w) /\ UNCHANGED faults
     \/ Unreachable(w)
  /\ UNCHANGED <<config, run, durable, wire, history, crashes>>

Prepare(w) ==
  /\ proc[w].at = "prepare"
  /\ Journal(w, "PREPARING")
  /\ Goto(w, "begin")
  /\ UNCHANGED <<config, run, replay, wire, history, faults, crashes>>

(* TRAINING is journaled, then refuse_if_already_stopped is asked. *)
BeginTraining(w) ==
  /\ proc[w].at = "begin"
  /\ Journal(w, "TRAINING")
  /\ IF proc[w].grant.client \in proc[w].stopped
     THEN Goto(w, "fail") /\ UNCHANGED trained
     ELSE /\ proc' = [proc EXCEPT ![w].at = "train", ![w].steps = 0]
          /\ trained' = trained \cup {proc[w].grant.sequence}
  /\ UNCHANGED <<config, run, replay, wire, taken, faults, crashes>>

(* check_before_step; one optimizer step costs one unit of epsilon. *)
StopsBefore(steps) ==
  config.policy = "STOP_BEFORE_EXCEEDING" /\ steps + 1 >= config.budget

(* check_after_step: the clients refused from now on, in this process. *)
StoppedAfter(w, steps) ==
  IF /\ config.policy \in {"STOP_AFTER_CURRENT_TASK", "FAIL_TASK", "STOP_BEFORE_EXCEEDING"}
     /\ steps >= config.budget
  THEN proc[w].stopped \cup {proc[w].grant.client} ELSE proc[w].stopped

(* Fault for FailsAfter: the budget has to be passed, not met. *)
FailsAfterPassing(steps) ==
  config.policy \in {"FAIL_TASK", "STOP_BEFORE_EXCEEDING"} /\ steps > config.budget

(* check_after_step: the policies that give the task up. *)
FailsAfter(steps) ==
  config.policy \in {"FAIL_TASK", "STOP_BEFORE_EXCEEDING"} /\ steps >= config.budget

(* One pass of the training loop, or its end.  Training may also fail or   *)
(* be cancelled on its own.                                                *)
TrainStep(w) ==
  /\ proc[w].at = "train"
  /\ LET steps == proc[w].steps IN
       \/ /\ steps < LocalSteps /\ ~StopsBefore(steps)
          /\ proc' = [proc EXCEPT ![w].steps = steps + 1,
                                  ![w].stopped = StoppedAfter(w, steps + 1),
                                  ![w].at = IF FailsAfter(steps + 1) THEN "fail" ELSE "train"]
       \/ /\ steps = LocalSteps \/ StopsBefore(steps)
          /\ Goto(w, IF steps = 0 THEN "fail" ELSE "ready")
       \/ Goto(w, "fail")
  /\ UNCHANGED <<config, run, durable, wire, history, faults, crashes>>

ResultReady(w) ==
  /\ proc[w].at = "ready"
  /\ Journal(w, "RESULT_READY")
  /\ proc' = [proc EXCEPT ![w].at = IF config.secure THEN "mask" ELSE "submit", ![w].tries = 0]
  /\ UNCHANGED <<config, run, replay, wire, history, faults, crashes>>

(* _encode_and_mask_local_update, which refuses an update or a weight out  *)
(* of its bounds; nothing is then sent in the clear instead.               *)
MaskUpdate(w) ==
  /\ proc[w].at = "mask"
  /\ Goto(w, "submit") \/ Goto(w, "fail")
  /\ UNCHANGED <<config, run, durable, wire, history, faults, crashes>>

(* Fault for Unanswered: no answer is as good as yes. *)
UnansweredIsTaken(w) == Goto(w, "accepted")

(* A call without an answer is tried again, SubmitAttempts times in all. *)
Unanswered(w) ==
  IF proc[w].tries + 1 < SubmitAttempts
  THEN proc' = [proc EXCEPT ![w].tries = @ + 1]
  ELSE Goto(w, "fail")

(* One call.  The request may be lost, or only its answer.  An error       *)
(* status (CoordinatorRejectedError) is not tried again and ends the       *)
(* process with RESULT_READY in the journal, as Crash does.                *)
Send(w, g) ==
  /\ \/ /\ faults < MaxFaults /\ faults' = faults + 1
        /\ Unanswered(w) /\ UNCHANGED <<run, taken>>
     \/ /\ run' = AfterResult(g)
        /\ taken' = IF Takes(g) THEN taken \cup {g.sequence} ELSE taken
        /\ \/ Goto(w, IF Takes(g) THEN "accepted" ELSE "fail") /\ UNCHANGED faults
           \/ faults < MaxFaults /\ faults' = faults + 1 /\ Unanswered(w)
  /\ UNCHANGED <<config, durable, wire, trained, crashes>>

(* _submit_with_retry *)
SubmitResult(w) ==
  /\ proc[w].at = "submit" /\ ~config.secure
  /\ Send(w, proc[w].grant)

(* _submit_masked_with_retry, the only way out of a secure task. *)
SubmitMasked(w) ==
  /\ proc[w].at = "submit" /\ config.secure
  /\ Send(w, proc[w].grant)

(* Two writes of the journal after an accepted submission. *)
RecordSubmitted(w) ==
  /\ proc[w].at = "accepted"
  /\ Journal(w, "RESULT_SUBMITTED")
  /\ Goto(w, "complete")
  /\ UNCHANGED <<config, run, replay, wire, history, faults, crashes>>

RecordCompleted(w) ==
  /\ proc[w].at = "complete"
  /\ Journal(w, "COMPLETED")
  /\ NextTask(w)
  /\ UNCHANGED <<config, run, replay, wire, history, faults, crashes>>

RecordFailed(w) ==
  /\ proc[w].at = "fail"
  /\ \E status \in {"FAILED", "CANCELED"} : Journal(w, status)
  /\ NextTask(w)
  /\ UNCHANGED <<config, run, replay, wire, history, faults, crashes>>

Crash(w) ==
  /\ proc[w].at # "down"
  /\ crashes < MaxCrashes
  /\ crashes' = crashes + 1
  /\ proc' = [proc EXCEPT ![w] = Down]
  /\ UNCHANGED <<config, run, durable, wire, history, faults>>

WorkerStep(w) ==
  \/ Register(w) \/ AcquireTask(w) \/ VerifyTask(w) \/ RecordAccepted(w) \/ AdvertiseKey(w)
  \/ PollRoster(w) \/ Prepare(w) \/ BeginTraining(w) \/ TrainStep(w) \/ ResultReady(w)
  \/ MaskUpdate(w) \/ SubmitResult(w) \/ SubmitMasked(w)
  \/ RecordSubmitted(w) \/ RecordCompleted(w) \/ RecordFailed(w)

-----------------------------------------------------------------------------

Init ==
  /\ config \in Configs
  /\ run = FreshRun(1, 0)
  /\ proc = [w \in Workers |-> Down]
  /\ journal = [w \in Workers |-> [id \in Ids |-> NoEntry]]
  /\ replay = [w \in Workers |-> 0]
  /\ wire = {} /\ trained = {} /\ taken = {}
  /\ faults = 0 /\ crashes = 0

Next ==
  \/ \E w \in Workers : WorkerStep(w) \/ ReceiveAgain(w) \/ Crash(w)
  \/ Watchdog \/ TimePasses

Spec == Init /\ [][Next]_vars

(* The watchdog ticks, time passes, and a worker goes on or is restarted.  *)
FairSpec ==
  /\ Spec
  /\ WF_vars(Watchdog) /\ WF_vars(TimePasses)
  /\ \A w \in Workers : WF_vars(WorkerStep(w))

-----------------------------------------------------------------------------

(* A signed task is trained at most once, by whichever crashes, repeated   *)
(* replies and retries: what was begun and lost is only begun again under  *)
(* a task the coordinator issued anew.                                     *)
EachTaskTrainsOnce ==
  [][\A w \in Workers :
       proc[w].at = "begin" /\ proc'[w].at = "train"
         => proc[w].grant.sequence \notin trained]_vars

(* A journal entry that says submitted or completed speaks of a result the *)
(* coordinator took.                                                       *)
SubmittedWasTaken ==
  \A w \in Workers, id \in Ids :
    journal[w][id].status \in Done => journal[w][id].sequence \in taken

(* Under the policies that promise it no result leaves the worker that was *)
(* trained at or past the budget.                                          *)
SubmissionsRespectBudget ==
  \A w \in Workers :
    /\ config.policy \in {"STOP_BEFORE_EXCEEDING", "FAIL_TASK"}
    /\ proc[w].at \in {"ready", "mask", "submit", "accepted"}
    => proc[w].steps \in 1..(config.budget - 1)

(* Whatever is lost or dies, every round ends, and so does the run. *)
RunEnds == <>(run.status # "open")

===============================================================================
