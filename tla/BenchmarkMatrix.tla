-------------------------- MODULE BenchmarkMatrix --------------------------
(***************************************************************************)
(* scripts/run_benchmark_matrix.py: every algorithm is run with every seed *)
(* by a process of its own in a directory of its own, what the directories *)
(* hold is collected, and the algorithms are compared seed by seed.  One   *)
(* data set, one partition condition and one privacy condition stand for   *)
(* the rest of the plan.  Anything may be interrupted, and --resume keeps  *)
(* the cells that have a summary.  A summary is known by the training it   *)
(* comes from and, once evaluated, by the model and the partition it was   *)
(* evaluated with, which the code does not record.                         *)
(***************************************************************************)
EXTENDS Integers, FiniteSets, SequencesExt

CONSTANTS
    Algorithms,
    Baseline,           \* the algorithm the others are compared with
    Seeds,
    Configs,            \* base configurations, which divide the data differently
    Accuracies,         \* of trained models on the test set; different ones may agree
    Missing,            \* a file that is not there
    MinimumReplicates,
    MaxEdits,           \* how often somebody edits the base configuration
    MaxFaults,          \* how often a process is killed
    MaxLaunches         \* how many cells are run in all

ASSUME MatrixAssumption ==
    /\ IsFiniteSet(Algorithms) /\ IsFiniteSet(Seeds)
    /\ Baseline \in Algorithms
    /\ MinimumReplicates \in 1 .. Cardinality(Seeds)   \* BenchmarkPlan.validate
    /\ Missing \notin Configs

VARIABLES
    base,      \* config.yaml of the repository
    dirs,      \* the cells' directories
    run,       \* the invocation of the runner
    children,  \* the cells' processes, of this invocation or left by another
    output,    \* observations.json and comparisons.json
    edits, faults, launches

matrixVars == <<base, dirs, run, children, output, edits, faults, launches>>

Cells == [algorithm : Algorithms, seed : Seeds]
Metrics == {"global", "client"}

Nothing == [kind |-> "none"]
Torn == [kind |-> "torn"]

(***************************************************************************)
(* What a process trains: the configuration it read, which fixes the       *)
(* partition, and the accuracy it reaches.                                 *)
(***************************************************************************)
Untrained(id) == [id |-> id, config |-> Missing, accuracy |-> Missing]

EmptyDir == [config |-> Missing, partition |-> Missing, checkpoint |-> Untrained(0),
             summary |-> Nothing]

NoRun == [pc |-> "none"]

MatrixInit ==
    /\ base \in Configs
    /\ dirs = [cell \in Cells |-> EmptyDir]
    /\ run = NoRun
    /\ children = {}
    /\ output = [observations |-> {}, rows |-> {}]
    /\ edits = 0 /\ faults = 0 /\ launches = 0

Fault == faults < MaxFaults /\ faults' = faults + 1

-----------------------------------------------------------------------------
(* A cell's process.  It is alone as long as no other works in its cell.    *)

Live(child) == child.stage \notin {"done", "failed"}

Becomes(child, new) == children' = (children \ {child}) \cup {new}

ReadConfig(child) ==
    /\ child.stage = "boot"
    /\ Becomes(child, [child EXCEPT !.stage = "partition",
                           !.training.config = dirs[child.cell].config])
    /\ UNCHANGED <<dirs, faults>>

\* (Mistake: a partition that is there is used again.)
WritePartitionOnce(child) ==
    /\ child.stage = "partition"
    /\ dirs' = [dirs EXCEPT ![child.cell].partition =
                   IF @ = Missing THEN child.training.config ELSE @]
    /\ Becomes(child, [child EXCEPT !.stage = "training"])
    /\ UNCHANGED faults

\* write_partition_artifacts, long before the summary.
WritePartition(child) ==
    /\ child.stage = "partition"
    /\ dirs' = [dirs EXCEPT ![child.cell].partition = child.training.config]
    /\ Becomes(child, [child EXCEPT !.stage = "training"])
    /\ UNCHANGED faults

\* The last round's aggregate replaces the checkpoint.
Checkpoint(child) ==
    /\ child.stage = "training"
    /\ \E accuracy \in Accuracies :
           LET trained == [child.training EXCEPT !.accuracy = accuracy]
           IN /\ dirs' = [dirs EXCEPT ![child.cell].checkpoint = trained]
              /\ Becomes(child, [child EXCEPT !.stage = "summary", !.training = trained])
    /\ UNCHANGED faults

\* The summary is written in place, with the hash of the partition in memory.
WriteCellSummary(child) ==
    /\ child.stage = "summary"
    /\ dirs' = [dirs EXCEPT ![child.cell].summary =
                   [kind |-> "trained", of |-> child.training]]
    /\ Becomes(child, [child EXCEPT !.stage = "evaluation"])
    /\ UNCHANGED faults

\* The clients together must reach the accuracy the summary reports, on which
\* partition of the test set ever.
Reproduces(summary, checkpoint) ==
    /\ summary.kind \in {"trained", "evaluated"}
    /\ summary.of.accuracy = checkpoint.accuracy

(***************************************************************************)
(* evaluate_completed_run reads summary, partition and checkpoint back.    *)
(* They are read in one step: only a process that shares its directory     *)
(* could find them changed in between.                                     *)
(***************************************************************************)
EvaluateCell(child) ==
    /\ child.stage = "evaluation"
    /\ LET dir == dirs[child.cell]
       IN Becomes(child, IF Reproduces(dir.summary, dir.checkpoint)
                         THEN [child EXCEPT !.stage = "result",
                                   !.result = [kind |-> "evaluated", of |-> dir.summary.of,
                                               model |-> dir.checkpoint, on |-> dir.partition,
                                               alone |-> child.alone]]
                         ELSE [child EXCEPT !.stage = "failed"])
    /\ UNCHANGED <<dirs, faults>>

WriteEvaluation(child) ==
    /\ child.stage = "result"
    /\ dirs' = [dirs EXCEPT ![child.cell].summary = child.result]
    /\ Becomes(child, [child EXCEPT !.stage = "done"])
    /\ UNCHANGED faults

\* A process that is killed while it writes the summary leaves a torn file.
Killed(child) ==
    /\ Live(child)
    /\ Fault
    /\ Becomes(child, [child EXCEPT !.stage = "failed"])
    /\ \/ UNCHANGED dirs
       \/ /\ child.stage \in {"summary", "result"}
          /\ dirs' = [dirs EXCEPT ![child.cell].summary = Torn]

CellStep ==
    /\ \E child \in children :
           \/ ReadConfig(child) \/ WritePartition(child) \/ Checkpoint(child)
           \/ WriteCellSummary(child) \/ EvaluateCell(child) \/ WriteEvaluation(child)
           \/ Killed(child)
    /\ UNCHANGED <<base, run, output, edits, launches>>

-----------------------------------------------------------------------------
(* The runner.                                                              *)

\* expand: the order is the caller's.
Plan == SetToSeq(Cells)

Invoke(resume, keepGoing) ==
    /\ run.pc = "none"
    /\ run' = [pc |-> "cell", todo |-> Plan, config |-> base, resume |-> resume,
               keepGoing |-> keepGoing, waits |-> 0, failures |-> 0, observations |-> {}]
    /\ UNCHANGED <<base, dirs, children, output, edits, faults, launches>>

(***************************************************************************)
(* What a summary tells of its cell.  The hash of the partition is the     *)
(* summary's for every metric; clients were measured on the partition file *)
(* that was found.                                                         *)
(***************************************************************************)
Observation(cell, metric, hash, measured, alone) ==
    [cell |-> cell, metric |-> metric, partition |-> hash, measured |-> measured, alone |-> alone]

Observed(cell, summary, hash) ==
    LET global == Observation(cell, "global", hash, summary.of.config, TRUE)
        client == Observation(cell, "client", hash, summary.on, summary.alone)
    IN  IF summary.kind = "evaluated" THEN {global, client} ELSE {global}

\* (Mistake: the hash is that of the configuration the runner holds.)
ObservationsOfPlan(cell, summary) == Observed(cell, summary, run.config)

Observations(cell, summary) == Observed(cell, summary, summary.of.config)

\* The cell is left with its summary, which json.loads refuses when it is torn.
Collected(cell, summary) ==
    IF summary.kind = "torn"
    THEN [run EXCEPT !.pc = IF run.keepGoing THEN "cell" ELSE "failed",
                     !.failures = @ + 1, !.todo = Tail(@)]
    ELSE [run EXCEPT !.pc = "cell", !.todo = Tail(@),
                     !.observations = @ \cup Observations(cell, summary)]

\* Whoever is still at work in the cell is not alone any more.
Launched(cell) ==
    LET others == {child \in children : child.cell = cell /\ Live(child)}
    IN (children \ others) \cup {[child EXCEPT !.alone = FALSE] : child \in others} \cup
       {[cell |-> cell, stage |-> "boot", training |-> Untrained(launches + 1),
         alone |-> others = {}, result |-> Nothing]}

\* The configuration is written before the decision to keep the summary.
PrepareCell ==
    /\ run.pc = "cell" /\ run.todo # <<>>
    /\ LET cell == Head(run.todo)
           summary == dirs[cell].summary
       IN /\ dirs' = [dirs EXCEPT ![cell].config = run.config]
          /\ \/ /\ run.resume /\ summary # Nothing
                /\ run' = Collected(cell, summary)
                /\ UNCHANGED <<children, launches>>
             \/ /\ ~(run.resume /\ summary # Nothing)
                /\ launches < MaxLaunches
                /\ launches' = launches + 1
                /\ children' = Launched(cell)
                /\ run' = [run EXCEPT !.pc = "waiting", !.waits = launches + 1]
    /\ UNCHANGED <<base, output, edits, faults>>

CollectCell ==
    /\ run.pc = "waiting"
    /\ \E child \in children :
           /\ child.training.id = run.waits
           /\ ~Live(child)
           /\ children' = children \ {child}
           /\ run' = IF child.stage = "done"
                     THEN Collected(child.cell, dirs[child.cell].summary)
                     ELSE Collected(child.cell, Torn)
    /\ UNCHANGED <<base, dirs, output, edits, faults, launches>>

Of(observations, algorithm, metric) ==
    {o \in observations : o.cell.algorithm = algorithm /\ o.metric = metric}
SeedsOf(observations) == {o.cell.seed : o \in observations}

\* validate_observations.
EnoughReplicates(observations) ==
    \A a \in Algorithms, metric \in Metrics :
        LET group == Of(observations, a, metric)
        IN group = {} \/ Cardinality(SeedsOf(group)) >= MinimumReplicates

\* What compare_algorithms demands of two algorithms it compares.
Matched(baseline, candidate) ==
    /\ SeedsOf(baseline) = SeedsOf(candidate)
    /\ \A b \in baseline, c \in candidate :
           b.cell.seed = c.cell.seed => b.partition = c.partition

\* Every context has the baseline and every pair matches, or nothing is written.
Comparable(observations) ==
    \A metric \in Metrics, a \in Algorithms \ {Baseline} :
        LET candidate == Of(observations, a, metric)
        IN candidate # {} => Matched(Of(observations, Baseline, metric), candidate)

Rows(observations) ==
    {[baseline |-> Of(observations, Baseline, metric), candidate |-> Of(observations, a, metric)] :
        a \in Algorithms \ {Baseline}, metric \in Metrics}

\* The observations are written before they are validated.  A comparison that
\* raises leaves the earlier comparisons.json where it is.
Publish ==
    /\ run.pc = "cell" /\ run.todo = <<>>
    /\ output' =
          IF run.failures > 0 THEN output
          ELSE [observations |-> run.observations,
                rows |-> IF EnoughReplicates(run.observations) /\ Comparable(run.observations)
                         THEN {row \in Rows(run.observations) : row.candidate # {}}
                         ELSE output.rows]
    /\ run' = NoRun
    /\ UNCHANGED <<base, dirs, children, edits, faults, launches>>

\* Without --keep-going the first failed cell ends the runner.
Stop ==
    /\ run.pc = "failed"
    /\ run' = NoRun
    /\ UNCHANGED <<base, dirs, children, output, edits, faults, launches>>

\* The runner is killed; its cell's process goes on alone.
RunnerKilled ==
    /\ run.pc # "none"
    /\ Fault
    /\ run' = NoRun
    /\ UNCHANGED <<base, dirs, children, output, edits, launches>>

EditConfig ==
    /\ edits < MaxEdits
    /\ \E config \in Configs \ {base} : base' = config
    /\ edits' = edits + 1
    /\ UNCHANGED <<dirs, run, children, output, faults, launches>>

MatrixNext ==
    \/ CellStep
    \/ \E resume, keepGoing \in BOOLEAN : Invoke(resume, keepGoing)
    \/ PrepareCell \/ CollectCell \/ Publish \/ Stop \/ RunnerKilled \/ EditConfig

MatrixSpec == MatrixInit /\ [][MatrixNext]_matrixVars

-----------------------------------------------------------------------------
(***************************************************************************)
(* Properties.                                                             *)
(***************************************************************************)

(* An evaluated summary reports the clients' accuracies of the model it     *)
(* reports the global accuracy of, on the partition that model was trained  *)
(* on, though earlier processes of other configurations were killed at any  *)
(* point and left partition, checkpoint and summary in the directory, all   *)
(* of which the evaluation reads back.  Excepted is a process that shared   *)
(* its directory with another one: the code compares accuracies, which two  *)
(* trainings may have in common (README, Known deviations).                 *)
EvaluatedAsTrained ==
    \A cell \in Cells :
        LET summary == dirs[cell].summary
        IN summary.kind = "evaluated" /\ summary.alone =>
               summary.model = summary.of /\ summary.on = summary.of.config

(* Two algorithms are only compared on values that were, seed by seed, in   *)
(* truth measured on the same partition, whatever was edited, interrupted   *)
(* and resumed (RELEASE_NOTES_v2.0.0.md: "If the partition hash differs,    *)
(* the comparison fails").  The hash that is compared is the training's,    *)
(* client metrics are measured on a file.  Excepted are client metrics of a *)
(* process that shared its directory.                                       *)
ComparedLikeWithLike ==
    \A row \in output.rows : \A b \in row.baseline, c \in row.candidate :
        b.cell.seed = c.cell.seed /\ b.alone /\ c.alone => b.measured = c.measured

=============================================================================
