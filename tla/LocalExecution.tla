---------------------------- MODULE LocalExecution ----------------------------
(***************************************************************************)
(* One execution on the local backend: the control plane's driver, the     *)
(* Python child process it launches, and the artifact directory they talk  *)
(* through.  The driver launches the child, asks it to pause by a file,    *)
(* reaps it and relaunches it to resume; the child runs rounds and writes  *)
(* history, checkpoint, digest, marker and summary, one file at a time.    *)
(* The control plane may restart and the child may die between any two     *)
(* steps; a restarted control plane never reattaches to a living child.    *)
(***************************************************************************)
EXTENDS Naturals, Sequences

CONSTANTS
  Rounds,        \* federation.rounds
  Specs,         \* the execution specifications tried, a set of Spec records
  MaxRestarts,   \* bound: restarts of the control plane
  MaxDeaths      \* bound: deaths of a child, by a crash or by the OOM killer

ASSUME BoundsAssumption ==
  /\ Rounds \in Nat \ {0}
  /\ MaxRestarts \in Nat
  /\ MaxDeaths \in Nat

SpecRecords ==
  [algorithm: {"fedavg", "scaffold"}, weighting: {"uniform", "sample_count"},
   sampling: {"poisson", "fixed"}, dp: BOOLEAN, persist: BOOLEAN]

ASSUME SpecsAssumption == Specs \subseteq SpecRecords

VARIABLES
  spec,       \* the canonical execution spec
  status,     \* localRun.status in the control plane's memory
  persisted,  \* the status in the driver's state file
  attached,   \* localRun.command # nil: a waiter will reap the child
  canceling,  \* cancel_requested, with the kill still to be sent
  child,      \* the child process: program counter and what it knows
  files,      \* the artifact directory
  restarts, deaths

vars == <<spec, status, persisted, attached, canceling, child, files, restarts, deaths>>

Terminal == {"CANCELED", "FAILED", "COMPLETED"}

(* Where a child is; an exit status stands for a process that has ended.   *)
Exits == {"exit 0", "exit 75", "exit 1", "killed"}

Alive == child.at \notin Exits \cup {"none"}

NoCheckpoint == [rounds |-> 0, draws |-> 0, steps |-> 0, edited |-> FALSE]

NoChild == [at |-> "none", edited |-> FALSE, rounds |-> 0, draws |-> 0, steps |-> 0]

(***************************************************************************)
(* The layers a specification passes.                                      *)
(***************************************************************************)

(* validateLocalMapping, and build_root_config again in the child. *)
AcceptedByDriver(s) ==
  s.dp => /\ s.algorithm # "scaffold"
          /\ s.sampling = "poisson"
          /\ s.weighting = "uniform"

(* validate_config, _enforce_privacy_boundaries and the Server constructor. *)
AcceptedByRuntime(s) ==
  /\ s.dp => s.sampling = "poisson" /\ s.weighting = "uniform" /\ s.algorithm # "scaffold"
  /\ s.algorithm = "scaffold" => s.weighting = "uniform"

(* MomentsAccountant.step: one per round, when there is an accountant. *)
Charged(s, steps) == IF s.dp THEN steps + 1 ELSE 0

(***************************************************************************)
(* The child.                                                              *)
(***************************************************************************)

(* restore_runtime_checkpoint and _validate_resume_csv. *)
CanRestore ==
  LET saved == files.checkpoint IN
  /\ saved # NoCheckpoint
  /\ files.digest = saved.rounds
  /\ saved.edited = files.edited
  /\ saved.rounds <= Rounds
  /\ Len(files.history) = saved.rounds
  /\ \A n \in 1..saved.rounds : files.history[n].round = n

(* A fresh start refuses the leavings of another run. *)
CanStartFresh ==
  /\ spec.persist => files.checkpoint = NoCheckpoint
  /\ files.history = <<>>

(* Fault for Resumed: the random generators are seeded anew. *)
ResumedSeedingAnew(saved) ==
  [at |-> "train", edited |-> files.edited,
   rounds |-> saved.rounds, draws |-> 0, steps |-> saved.steps]

(* A process begins with what the checkpoint holds, and with nothing else. *)
Resumed(saved) ==
  [at |-> IF saved.rounds = Rounds THEN "summary" ELSE "train", edited |-> files.edited,
   rounds |-> saved.rounds, draws |-> saved.draws, steps |-> saved.steps]

(* From reading resume.request to the first round. *)
Boot ==
  /\ child.at = "boot"
  /\ LET resume == files.resumeRequest
         accepted == /\ AcceptedByRuntime(spec)
                     /\ resume => spec.persist
                     /\ IF resume THEN CanRestore ELSE CanStartFresh
     IN child' = IF accepted
                 THEN Resumed(IF resume THEN files.checkpoint ELSE NoCheckpoint)
                 ELSE [child EXCEPT !.at = "exit 1"]
  /\ UNCHANGED <<spec, status, persisted, attached, canceling, files, restarts, deaths>>

(* Sampling, client training, Server.aggregate and, after the last round,  *)
(* the final model it leaves for the evaluation.                           *)
TrainRound ==
  /\ child.at = "train"
  /\ child' = [child EXCEPT !.at = "log", !.rounds = @ + 1, !.draws = @ + 1,
                            !.steps = Charged(spec, @)]
  /\ files' = [files EXCEPT !.finalModel = @ \/ child.rounds + 1 = Rounds]
  /\ UNCHANGED <<spec, status, persisted, attached, canceling, restarts, deaths>>

(* logger.log, flushed row by row. *)
LogRound ==
  /\ child.at = "log"
  /\ files' = [files EXCEPT !.history = Append(@,
                 [round |-> child.rounds, draw |-> child.draws - 1, steps |-> child.steps])]
  /\ child' = [child EXCEPT !.at = IF spec.persist THEN "save" ELSE "poll"]
  /\ UNCHANGED <<spec, status, persisted, attached, canceling, restarts, deaths>>

(* save_runtime_checkpoint replaces the checkpoint, then its digest. *)
SaveCheckpoint ==
  /\ child.at = "save"
  /\ files' = [files EXCEPT !.checkpoint =
                 [rounds |-> child.rounds, draws |-> child.draws,
                  steps |-> child.steps, edited |-> child.edited]]
  /\ child' = [child EXCEPT !.at = "digest"]
  /\ UNCHANGED <<spec, status, persisted, attached, canceling, restarts, deaths>>

SaveDigest ==
  /\ child.at = "digest"
  /\ files' = [files EXCEPT !.digest = child.rounds]
  /\ child' = [child EXCEPT !.at = "poll"]
  /\ UNCHANGED <<spec, status, persisted, attached, canceling, restarts, deaths>>

(* The pause request is looked for once a round, the last one included. *)
PollPause ==
  /\ child.at = "poll"
  /\ \/ /\ files.pauseRequest /\ spec.persist
        /\ files' = [files EXCEPT !.marker = child.rounds]
        /\ child' = [child EXCEPT !.at = "exit 75"]
     \/ /\ files.pauseRequest /\ ~spec.persist
        /\ child' = [child EXCEPT !.at = "exit 1"]
        /\ UNCHANGED files
     \/ /\ ~files.pauseRequest
        /\ child' = [child EXCEPT !.at = IF child.rounds = Rounds THEN "summary" ELSE "train"]
        /\ UNCHANGED files
  /\ UNCHANGED <<spec, status, persisted, attached, canceling, restarts, deaths>>

(* run_resumable_cli, after the loop. *)
WriteSummary ==
  /\ child.at = "summary"
  /\ files' = [files EXCEPT !.summary = TRUE]
  /\ child' = [child EXCEPT !.at = "evaluate"]
  /\ UNCHANGED <<spec, status, persisted, attached, canceling, restarts, deaths>>

(* evaluate_completed_run, which reads the final model back. *)
Evaluate ==
  /\ child.at = "evaluate"
  /\ child' = [child EXCEPT !.at = IF files.finalModel THEN "exit 0" ELSE "exit 1"]
  /\ UNCHANGED <<spec, status, persisted, attached, canceling, files, restarts, deaths>>

ChildStep ==
  \/ Boot \/ TrainRound \/ LogRound \/ SaveCheckpoint \/ SaveDigest \/ PollPause
  \/ WriteSummary \/ Evaluate

ChildDies ==
  /\ Alive
  /\ deaths < MaxDeaths
  /\ deaths' = deaths + 1
  /\ child' = [child EXCEPT !.at = "killed"]
  /\ UNCHANGED <<spec, status, persisted, attached, canceling, files, restarts>>

(***************************************************************************)
(* The driver.  Its calls hold one mutex, Cancel but for the kill.         *)
(***************************************************************************)

(* readLocalPauseEvidence *)
PauseEvidence ==
  /\ files.marker \in 1..Rounds
  /\ files.checkpoint # NoCheckpoint
  /\ files.digest = files.checkpoint.rounds

(* launch: the process is started, then RUNNING is written. *)
Launch(controlFiles) ==
  /\ files' = controlFiles
  /\ child' = [NoChild EXCEPT !.at = "boot"]
  /\ status' = "RUNNING"
  /\ persisted' = "RUNNING"
  /\ attached' = TRUE
  /\ canceling' = FALSE
  /\ UNCHANGED <<spec, restarts, deaths>>

Start ==
  /\ status = "CREATED"
  /\ Launch([files EXCEPT !.resumeRequest = FALSE, !.pauseRequest = FALSE, !.marker = 0])

Resume ==
  /\ status = "PAUSED"
  /\ PauseEvidence
  /\ Launch([files EXCEPT !.resumeRequest = TRUE, !.pauseRequest = FALSE])

Pause ==
  /\ status = "RUNNING"
  /\ spec.persist
  /\ attached
  /\ files' = [files EXCEPT !.pauseRequest = TRUE]
  /\ status' = "PAUSING"
  /\ persisted' = "PAUSING"
  /\ UNCHANGED <<spec, attached, canceling, child, restarts, deaths>>

(* Cancel marks the run, lets go of the mutex and kills what it had seen. *)
Cancel ==
  /\ status \notin Terminal
  /\ IF attached
     THEN /\ canceling' = TRUE
          /\ UNCHANGED <<status, persisted>>
     ELSE /\ status' = "CANCELED"
          /\ persisted' = "CANCELED"
          /\ UNCHANGED canceling
  /\ UNCHANGED <<spec, attached, child, files, restarts, deaths>>

KillCanceled ==
  /\ canceling
  /\ child' = IF Alive THEN [child EXCEPT !.at = "killed"] ELSE child
  /\ status' = "CANCELED"
  /\ persisted' = "CANCELED"
  /\ canceling' = FALSE
  /\ UNCHANGED <<spec, attached, files, restarts, deaths>>

(* Fault for Outcome: a canceled run's waiter looks at the exit status. *)
OutcomeForgettingCancel ==
  CASE child.at = "exit 75" -> IF PauseEvidence THEN "PAUSED" ELSE "FAILED"
    [] child.at = "exit 0" -> IF files.summary THEN "COMPLETED" ELSE "FAILED"
    [] OTHER -> "FAILED"

(* What waitForRun makes of the way the child ended. *)
Outcome ==
  CASE canceling \/ status = "CANCELED" -> "CANCELED"
    [] ~(canceling \/ status = "CANCELED") /\ child.at = "exit 75"
         -> IF PauseEvidence THEN "PAUSED" ELSE "FAILED"
    [] ~(canceling \/ status = "CANCELED") /\ child.at = "exit 0"
         -> IF files.summary THEN "COMPLETED" ELSE "FAILED"
    [] OTHER -> "FAILED"

WaitForRun ==
  /\ attached
  /\ child.at \in Exits
  /\ attached' = FALSE
  /\ status' = Outcome
  /\ persisted' = status'
  /\ files' = IF status' = "COMPLETED" THEN [files EXCEPT !.pauseRequest = FALSE] ELSE files
  /\ UNCHANGED <<spec, canceling, child, restarts, deaths>>

(* Fault for Recovered: a marker is enough to show a run as paused. *)
RecoveredByMarker ==
  CASE persisted \in {"RUNNING", "PAUSING"} /\ PauseEvidence -> "PAUSED"
    [] OTHER -> persisted

(* Fault for Recovered: an in-flight run is left as it was. *)
RecoveredInFlight == persisted

(* reconcileRecoveredLocalRun *)
Recovered ==
  CASE persisted \in {"CREATED", "CANCELED", "FAILED"} -> persisted
    [] persisted = "COMPLETED" -> IF files.summary THEN "COMPLETED" ELSE "FAILED"
    [] persisted = "PAUSED" -> IF PauseEvidence THEN "PAUSED" ELSE "FAILED"
    [] persisted \in {"RUNNING", "PAUSING"} -> IF files.summary THEN "COMPLETED" ELSE "FAILED"

(* The control plane stops and starts again; its child, if any, lives on. *)
Restart ==
  /\ restarts < MaxRestarts
  /\ restarts' = restarts + 1
  /\ status' = Recovered
  /\ persisted' = Recovered
  /\ attached' = FALSE
  /\ canceling' = FALSE
  /\ UNCHANGED <<spec, child, files, deaths>>

(* Somebody edits config.yaml, which build_root_config starts from. *)
EditBaseConfig ==
  /\ ~files.edited
  /\ files' = [files EXCEPT !.edited = TRUE]
  /\ UNCHANGED <<spec, status, persisted, attached, canceling, child, restarts, deaths>>

-----------------------------------------------------------------------------

CleanFiles ==
  [history |-> <<>>, checkpoint |-> NoCheckpoint, digest |-> 0, marker |-> 0,
   resumeRequest |-> FALSE, pauseRequest |-> FALSE, finalModel |-> FALSE,
   summary |-> FALSE, edited |-> FALSE]

(* What an execution that died in its first round leaves in the root. *)
LeftoverFiles(s) ==
  [CleanFiles EXCEPT
     !.history = <<[round |-> 1, draw |-> 0, steps |-> Charged(s, 0)]>>]

Init ==
  /\ spec \in {s \in Specs : AcceptedByDriver(s)}
  /\ status = "CREATED"
  /\ persisted = "CREATED"
  /\ attached = FALSE
  /\ canceling = FALSE
  /\ child = NoChild
  /\ files \in {CleanFiles, LeftoverFiles(spec)}
  /\ restarts = 0
  /\ deaths = 0

Next ==
  \/ ChildStep \/ ChildDies
  \/ Start \/ Pause \/ Resume \/ Cancel \/ KillCanceled \/ WaitForRun
  \/ Restart \/ EditBaseConfig

Spec == Init /\ [][Next]_vars

(* A process that runs goes on running, and a waiter sees its end. *)
FairSpec == Spec /\ WF_vars(ChildStep) /\ WF_vars(WaitForRun) /\ WF_vars(KillCanceled)

-----------------------------------------------------------------------------

(* A run shown as PAUSED can be resumed: no process works in its directory *)
(* and history, checkpoint, digest and marker tell of the same round, so   *)
(* that only an edited base configuration makes the restore refuse.        *)
PausedIsResumable ==
  status = "PAUSED" =>
    /\ ~Alive
    /\ PauseEvidence
    /\ files.marker = files.checkpoint.rounds
    /\ files.checkpoint.edited = files.edited => CanRestore

(* The history is the one an uninterrupted run writes, whatever pauses,    *)
(* resumes, deaths and restarts come between, and a summary is only        *)
(* written of all the rounds.                                              *)
Uninterrupted == INSTANCE UninterruptedRun WITH
  Rounds <- Rounds,
  private <- spec.dp,
  history <- files.history,
  finished <- files.summary

RunsAsUninterrupted == Uninterrupted!Spec

(* What a caller was told is final stays so: no waiter, cancel or restart  *)
(* changes the outcome of a run that is over.                              *)
OutcomeIsFinal == [][(status \in Terminal) => (status' = status)]_vars

(* The call that asks for a pause waits without a deadline for an answer,  *)
(* and gets one: the run pauses, completes, fails or is canceled.          *)
PauseIsAnswered == (status = "PAUSING") ~> (status # "PAUSING")
===============================================================================
