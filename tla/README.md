# Federated-learning platform: TLA+ models, model checking and proofs

The repository trains one model over many clients in rounds. A C++ coordinator (`cpp`) decides who
trains when, hands out tasks under leases, aggregates, charges the privacy accountant and survives
restarts. Python workers (`python/src/fl_platform`) train and submit. A Go control plane (`go`)
runs the in-process runtime (`main.py`, `experiment_runtime.py`) as a child process. Python programs register
experiments, run benchmark matrices and divide the data. This directory models the parts of it that keep
state, fail, race or count; checks them with TLC on small instances; and proves with TLAPS, for
every value of the parameters, every invariant and action property the runs check.

Paths are relative to the repository root (`src/` in `PROJECT.json`); Python ones without a directory are under
`python/src/fl_platform`. `run_manager_legacy.cpp` and `run_manager.cpp` implement one
class, `RunInstance`: the second wraps four entry points of the first.

- [Inventory](#inventory)
- [Modules and the code](#modules-and-the-code)
- [What the runs check](#what-the-runs-check)
- [Bounds](#bounds)
- [Fairness](#fairness)
- [What is proved](#what-is-proved)
- [Known deviations](#known-deviations)
- [What is not modelled](#what-is-not-modelled)
- [Plan](#plan)

## Inventory

| component | state | operations | meets |
|---|---|---|---|
| task dispatcher (`task_dispatcher.cpp`) | tasks with holder, lease, attempt; pending queue; a slot per worker | `enqueue`, `acquire`, `submit_result`, `sweep_expired_leases`, `cancel_lease_for_worker` | owned by a run, a new one every round |
| run (`run_manager*.cpp`, `core/src/coordinator.cpp`) | state machine, round, model, ledgers, results, checkpointed leases, noted pause and cancel; a checkpoint file and a sidecar file | `start`, `pause`, `resume`, `cancel`, `advance`, `acquire_task`, `submit_client_result`, `apply_secure_aggregate_and_advance` | service, CLI, watchdog thread |
| cohort selection, aggregation, privacy accountant | optimizer state, accountants | select, combine, step, project | run |
| event bus, worker registry, identities and signing keys | history per run; status per worker and key | publish, poll; register, suspend, revoke, rotate | service |
| replay, idempotency, monotonicity, sequence stores | tracks per sender, request records, marks, counters | validate, commit, purge | service handlers, several calls each |
| secure aggregation (C++ sessions, Python cryptography) | participants, keys, masked updates, shares, receipts | advertise, mask, submit, reveal, recover, aggregate | worker, coordinator, Go watchdog |
| Python worker (`worker/service.py`) | task journal and replay files; process state | handshake, acquire, verify, train, submit with retries | coordinator, over calls that fail |
| security events (`worker/security_event_queue.py` and others) | journal file, cursor, message numbers | emit, select, send, acknowledge | flush thread and coordinator handlers |
| local execution (`go/.../local*.go`, `experiment_runtime.py`) | driver status and state file; log, checkpoint, digest, marker, summary | create, start, pause, resume, cancel, recover; one round after another | driver and child, through files |
| research registry (`research/*.py`) | files of an experiment, its runs, its commands | create, start, cancel, retry, probe, execute | threads of one server |
| asynchronous processor (`v3/async_*.py`) | model, version, applied updates, checkpoint | apply, roll back, load | many clients |
| benchmarks (`scripts/run_benchmark_matrix.py`) | a directory per cell, observations, comparisons | run, resume, evaluate, compare | child processes |
| data partitioning (two runtimes) | counts per class and client | four strategies, held-out split, repair | every training program |
| Go execution service, HTTP API, desktop, older programs | execution records | plumbing and user interface | operators |

What makes them hard, and what makes them correct:

- *Several callers.* Handlers, watchdog, CLI, writer threads and orphaned processes touch the same state,
  often in several locked sections or without a lock. They must behave as if the gaps were not there.
- *Leases and retries.* A worker may be slow, silent, or answer after somebody else got its task. One result
  per client and round counts; a repeated message has one effect.
- *Crashes.* Nearly everything is files written one after the other. What was confirmed must be on disk,
  a model never comes back without its privacy charge, a resumed run is the run it would have been.
- *Termination.* Rounds, runs, pauses, recoveries and relays have to come to an end whoever stays away.
- *Boundaries.* Budgets, rings, shares, remainders: off-by-ones with consequences no exception reports.

`PROJECT.json` lists every component with what is modelled of it, and every hazard at its line.

## Modules and the code

```
DispatcherOps ─┬─ TaskDispatcher ── TaskDispatcherProofs
               ├─ RoundRuntime ──INSTANCE── RunLifecycle ── RunLifecycleProofs
               │       └─ RoundRuntimeProofs ───────INSTANCE────────┘
               └─ WorkerService ── WorkerServiceProofs ──INSTANCE── TaskDispatcherProofs
LocalExecution ──INSTANCE── UninterruptedRun
LocalExecution, AsyncProcessor, BenchmarkMatrix ── PythonRuntimeProofs
SecureRecovery, Partitioning ── ArithmeticProofs
ResearchRegistry ── ResearchRegistryProofs     SecurityEventRelay ── SecurityEventRelayProofs
```

`MC*.tla` give constants their values; each `.cfg` is one question. An operator whose comment begins with
*Mistake* or *Fault* is what a plausible slip at that place would look like. No specification uses them;
`mutants` in `PROJECT.json` names the definition each would replace and the property that notices.

**DispatcherOps** is the dispatcher as operators on a value: each C++ method holds the object's mutex
throughout. **TaskDispatcher** makes actions of them and adds a clock, every grant a worker ever got, which
it may submit any number of times, and revocations. The sweep visits tasks in the string order of
their ids; the model allows every order.

**RunLifecycle** is one run without the inside of its rounds. `mem` is the run in memory, `disk` the last
checkpoint. Handlers hold the mutex from entry to return, but each transition writes a checkpoint and a crash
may fall in between; so each transition is a step, and `handler` says which comes next. The secure path
charges after it publishes and consults no reactive policy, as in the code. Where `transition` throws,
nothing changes and the model has no step.

**RoundRuntime** is the run with its rounds: results, leases and failed clients (`live`, and `saved` in the
checkpoint), the dispatcher, the sidecar, the clock, and per worker the call in flight. `advance` in WAITING is
one step, because it holds the mutex (run_manager.cpp:309-498). `acquire_task` is `CallAcquire`, `AcquireTask`,
`RecordAttempt`; `submit_client_result` is `CallSubmit`, `CheckState`, `DeliverResult`. A call keeps the time
it came with, and an answer may arrive any time later, in the next round too. A crash inside an `advance` may
leave the sidecar written and the checkpoint not. Its steps are those of `RunLifecycle`, which it instantiates, where
rounds end at will; here dispatcher, deadline and quorum decide. By construction a run with rounds is therefore a run of
`RunLifecycle`; the proofs use that, and no run checks it.

**WorkerService** is `WorkerService.run`: acquire, verify against the replay store, accept in the journal,
handshake with roster polls when the cohort is secure, train step by step under a sample-level budget and its
policy, submit with retries. Journal and replay store are files, the rest dies with the process. Every
call to the coordinator may be lost on the way, lost on the way back, or answered by an earlier signed
task. The coordinator is the part of `RoundRuntime` a worker sees, on the same `DispatcherOps`.

**LocalExecution** puts the Go driver and its Python child together: the driver's status in memory and in its
state file, the waiter that reaps the child, `Pause` that waits for an answer, `Cancel` that lets go of the mutex
before it kills; and the child's round loop with each file write a step. What a round computes is one draw of
the random generators and one step of the accountant, recorded in its history row, so that a resume that seeds
anew or forgets a step shows. **UninterruptedRun** is what it implements: the run nobody touched.

**SecureRecovery** is a secure session as `fl_platform/secure_aggregation` computes it: fixed-point encoding,
pairwise masks, key shares as polynomials, recovery of one who dropped out, the collector with receipts that
outlive its restart. Ring and field are small, masks are any symmetric function, cryptography is ideal.

**ResearchRegistry** is the writer: a thread per command with a step per locked section and per file, the registry's
lock, the orchestrator that executes seeds from a list read earlier, retries of commands under idempotency keys.

**SecurityEventRelay** follows an event from `emit` to the coordinator's journal: rotation, cursor, durable
numbers, a flush whose call fails or is answered after the flush gave up, handlers that validate, commit and
record in separate steps, crashes of either side. `Record` takes up one event of the batch: it is recorded, or skipped
because the coordinator cannot parse or validate it, or lost by a write that fails, and the batch is accepted all the
same. `n` numbers events for the properties; the code knows `id`.

**AsyncProcessor** applies results one by one. A model is the sequence of updates applied to it: two models are
equal when the same updates came in the same order; `finite` says that no entry of it has overflowed. `SaveFails` is the
failed write that is taken back, `SaveRaises` what fails outside the `try` and stays in memory; `unsaved` and a
result's `durable` are history.

**BenchmarkMatrix** is the runner over its cells. A cell's process reads its configuration, writes the partition file,
replaces the checkpoint, writes the summary in place, and reads all three back to evaluate itself; processes that were killed
leave them behind, and those of a killed runner live on and write. `alone` and the model and partition a summary was
evaluated with are history. **Partitioning** deals samples by four strategies of two runtimes, where they
differ included, and the held-out samples with its repair; what depends on a floating-point draw is left open.

## What the runs check

| run | question | distinct states |
|---|---|---|
| `dispatcher` | do slots, leases and the retry budget agree whatever workers do, does only the last lease count, does every task settle? | 18 thousand |
| `lifecycle` | do model, ledger and checkpoint agree under all disturbances and policies; does every run end? | 2.5 thousand |
| `round_safety` | are leases exclusive, results kept and quorums met when calls, ticks, revocations and restarts interleave? | 1.5 million |
| `round_liveness` | does every round end, whatever the worker does and however often the coordinator restarts? | 1.5 million |
| `local_execution` | is a run that was paused, killed and resumed the run it would have been? | 66 thousand |
| `worker_service` | do journal, replay store and coordinator agree about what was trained and submitted? | 0.7 million |
| `secure_recovery` | is the aggregate exact, is a key hidden below the threshold, does recovery succeed? | 0.3 million |
| `research_registry` | has a run one executor, does a cancel hold, is an accepted create on disk? | 3.8 million |
| `event_relay` | does the cursor pass only events the coordinator took up, and does every event get there? | 0.4 million |
| `async_processor` | is a confirmed update durable, applied once, and to a descendant of its base? | 0.5 million |
| `benchmark_matrix` | is a model evaluated on its own partition among leftovers of others, and are only values of equal partitions compared? | 8.9 million |
| `partitioning` | is every sample dealt, and everyone tested in proportion? | 1.0 million |

The properties, by what would go wrong without them:

- `SlotsMatchLeases`, `RetryBudget`, `LatestLeaseWins`, `EveryTaskSettles`: a worker shut out, one retry too
  many, an overtaken worker's result counted, a task stuck.
- `ReleaseIsCharged`, `OneReleasePerRound`, `BudgetRespected`, `ReleasesSurvive`: a model released without its
  privacy charge or the reverse, a round charged twice, an overspent budget, a charge a crash forgot.
  `RestsInStableState`, `EveryRunEnds` (without crashes): a run that hangs.
- `LeasesDoNotOverlap`: after a restart a client is handed out although its lease still runs.
  `AcceptedResultsSurvive`: a worker is told its result counts, and it does not. `ReleaseMeetsQuorum`,
  `EveryRoundEnds`: a round released below its quorum, a round nobody ends.
- `SubmittedWasTaken`, `EachTaskTrainsOnce`, `SubmissionsRespectBudget`, `RunEnds`: a journal that claims what the
  coordinator never took, a replayed task trained again, a result past its budget, a round nobody ends.
- `PausedIsResumable`, `RunsAsUninterrupted`, `OutcomeIsFinal`, `PauseIsAnswered`.
- `AggregateIsExact`: masks that do not cancel, or a ring that wraps. `SharesHideTheKey`: a key determined by too
  few shares. `RecoverySucceeds`: a restart after which enough shares do not suffice.
- `OneExecutor`, `CancelStopsUnstarted`, `CreateAnswerIsDurable`.
- `AcknowledgedWasTakenUp`: the cursor passes an event the coordinator never came to. `EventsAreRelayed`: an event that
  waits for ever although the relay has not halted. An event a handler comes to may still be refused, or its write may fail. Both
  except what a rotation does to ids and cursor; see the deviations.
- `ConfirmedIsDurable`, `AppliedOnce`, `TrainedOnAncestor`: an answer ahead of the disk, a retry mixed in again, a
  version number that stands for two models after a rollback. The first and the last except what an exception outside
  the code's `try` leaves in memory.
- `EvaluatedAsTrained`, `ComparedLikeWithLike`: a summary of two trainings made of what killed processes left, algorithms
  compared on values measured on different data although the hashes agree. Both except processes that shared a
  directory; see the deviations.
- `TrainingIsDealt`, `TestedAsTrained`, `EveryoneIsTested`: a sample lost to rounding, a remainder given to the wrong
  client, a client with nothing to be tested on.

## Bounds

- `dispatcher`: two tasks, two workers, a lease of one tick, two attempts: every pair of holders, a first grant,
  a retry and exhaustion. The safety part is proved for any size.
- `lifecycle`: three rounds, the budget reached by the second: a round before, at and after it. All policies,
  secure or not, are initial states; faults are all of them, or only operators' (for the liveness properties).
- `round_safety`: two clients, two workers, one round, deadline two ticks, clock up to three: a lease can run
  out before and after the deadline. `round_liveness`: one worker, two rounds in opposite orders, every fault. The
  clock bound cuts nothing short: time only advances while a lease or deadline is pending. The safety properties
  also held once with a deadline and a clock of four ticks without revocations (7.3 million states), and their
  inductive invariant with a deadline of three (15.7 million); both take too long to be runs. One result of two is
  enough, so that partial rounds are released as well as failed.
- `worker_service`: two workers, one client, a tick as long as a lease (all that matters to a worker is whether its
  lease still runs), two local steps, two attempts to submit, two roster polls, one call that goes
  wrong and one crash. Every policy with a budget inside a task, one with a budget of nothing, a secure cohort, and
  a configuration of two rounds, because ids begin anew with the second.
- `local_execution`: three rounds (a pause after the first, in the middle, before the last), one death, two
  restarts; every specification a caller may ask for.
- `secure_recovery`: four participants, threshold two, a field of 5 and a ring of 128, in which the largest sum the
  code's check admits (configured weight 3 or 6) just fits or is refused; one death, relay lost and restart each.
  Updates and weights at and inside their bounds, of either sign.
- `research_registry`: two threads, two seeds, four commands of six kinds (two creates under one key with different
  bodies, cancels with and without a version), one expired, one crash.
- `event_relay`: three events, batches of two, rotation when there are two lines: a batch of one and of two, and an event
  after a rotation; the second event is one the coordinator refuses. Three faults, so that a late handler, a crash and a
  lost answer or a failed write can meet, and a gap limit of two, which they can use up. Only a relay that the
  gap has halted ever numbers an eighth message (checked as an invariant).
- `async_processor`: two clients, two payloads, two round ids, three results, staleness up to one, any number of failing
  saves and crashes.
- `benchmark_matrix`: two algorithms, one seed, two accuracies (equal for two trainings or not), one edit of the
  configuration, two kills of runners or cells, three launches: one cell is run twice, over what the first run left there
  and perhaps beside it.
- `partitioning`: three clients and classes, up to three samples of a class and seven in all, up to two held out:
  all small sets, under which shards, quotas and remainders fail to divide in every way three clients allow.

Symmetry is used in `round_safety`, `research_registry` and `async_processor`, which have no liveness property.
Deadlock checking is off everywhere: finished runs, exhausted bounds and final answers do stop.

## Fairness

- A handler, a call or a process that has begun goes on (`HandlerStep`, `CallStep`, LocalExecution's `ChildStep`, `WorkerStep`): a
  running thread is scheduled. A worker or control plane that died is restarted by its supervisor.
- `WatchdogTick`, `Watchdog`: `ensure_watchdog` (run_manager.cpp:253-278) calls `advance` for every run at each
  interval; the dispatcher's sweep is part of it. Time passes.
- In `dispatcher` some worker keeps polling: the dispatcher hands out nothing unasked. No worker is ever assumed
  to submit. In `worker_service` the faults are bounded, not unfair.
- In `RunLifecycle` rounds end (justified by `EveryRoundEnds` of the composed model) and a paused run is resumed.
- `secure_recovery`: a holder that is alive and has a share hands it in, and what can be aggregated is. No
  participant is assumed to send its update.
- `event_relay`: the flush thread's timer, and a network and coordinator that do not stand still; losses are faults.
- Crashes are never fair. The runs of registry, asynchronous processor, benchmarks and partitioning check safety only.

## What is proved

Every invariant and every action property of the runs, and the refinement `RunsAsUninterrupted`, are theorems: for any
set of workers, threads, commands and seeds (finite ones for `BenchmarkMatrix`), any number of clients and classes, lease length, deadline, retry limit, number of
rounds, budget, batch size, staleness limit, cohort, data set and number of faults. What they assume stands as a
named ASSUME next to the constants, and TLC evaluates it on every run:

- counts and bounds are naturals, `NoWorker` is no worker, a quorum is at most the cohort, a run of more than one round
  may meet an aggregate that throws;
- `SecureRecovery`: the field is larger than the cohort and what is not zero in it has an inverse
  (the code's field is a prime), the ring is even, keys are field elements other than zero, and a mask depends
  on the two keys and not on their order. Nothing else is assumed of the masks;
- `Partitioning`: there is data enough for every client's minimum and its drawn classes, and a held-out sample each. The
  root runtime's pathological strategy asks that of the classes (partitioner.py:217-219), its other strategies only of the
  minimum, and the platform's nothing before its deal: less data than that is outside the model;
- sets are finite where the code counts or lists them (the clients of `WorkerServiceProofs`, the plan of
  `BenchmarkMatrix`).

`TaskDispatcherProofs`: `TypeCorrect`, `QueueCorrect`, `SlotsCorrect`, `LeasesCorrect`, `BudgetCorrect`,
`LatestLeaseCorrect`, `SettledCorrect`. The inductive invariant conjoins the four consistency predicates of
`DispatcherOps` with typing and a history part. They need each other: that an accepted submission frees the right
slot needs slots and leases to agree; that the next lease is new needs leases to be below the counter; that the
queue's head is pending needs the queue to be exact. The history part relates `grants` to `tasks`: no grant is newer
than its task's lease while that is held, and accepted ones belong to completed tasks. One lemma per operator
(`EnqueueConsistent`, `AcquireConsistent`, ...) says it preserves consistency; the step lemma has a step per action.

`RunLifecycleProofs`: `TypeCorrect`, `ReleaseChargedCorrect`, `OneReleaseCorrect`, `BudgetCorrect`,
`CompletedCorrect`, `TerminalCorrect`, `SurviveCorrect`, `RestsCorrect`. `ReleaseIsCharged` is not inductive: in the middle of
`finalize_round` memory is charged and not published, or the reverse on the secure path. The invariant therefore says
that the checkpoint is always good, that its ledger begins the one in memory, and for every value of `handler`
in which state the run is and what of a good checkpoint memory already has (`MemoryPhase`). `TransitionGood` is the
lemma behind every transition; `ChargeAppends` says what a charge does to the ledger. `TerminalCorrect` needs in
addition that a terminal state in memory is on disk, or a restart would undo it. `RestsCorrect` needs `Settled`: each
handler's next step exists for the state it left, so whoever lets go of the mutex has come to a stable one.

`RoundRuntimeProofs`: the lemma `RefinesLife` records what holds by construction, that every action of
`RoundRuntime` is a step of `RunLifecycle` or leaves its variables alone. With it, `ReleasesCorrect` and `EndsAndReleasesStay` carry
the theorems above over to the composed run. `LeasesCorrect`, `QuorumCorrect`, `ResultsCorrect`, `CallsServed` and
`TypeCorrect` come from the invariant `RInv`. `LeasesDoNotOverlap` is not inductive alone: a sweep or an acquire could
break it through a queue or a slot that points outside the tasks (`Linked`), the expiry loop through what it
enqueues; so every helper of `advance` has a lemma that takes values that belong together (`Fits`) to such values. The
quorum needs that results in memory and in the checkpoint are the same; that `acquire_task` never has to build a
dispatcher itself needs that a call past its `advance` in a waiting run has one (`Served`), which a revocation or a crash must
not undo. The loops of `advance` are recursive functions over sequences. The library's induction theorems take
an operator, which the provers cannot instantiate; `SetInduction` states induction over a set of naturals instead and
is proved from the well-foundedness of `<`.

`ResearchRegistryProofs`: `OneExecutorCorrect`, `CancelCorrect`, `CreateCorrect`, `TypeCorrect`. The invariant has a
part for each hazard: `FilesOK` says what directory, record, runs and key say while a creation is unfinished, which it is from
the directory to the key, and for ever after a crash in between; `CallOK` what a thread may rely on at each of its steps, the
lists it read long ago included (a run's attempt only grows, and only a retry makes it startable again); `Apart`, that
two threads past the locked start of a run have different attempts. The lock carries the argument for the start, the
attempt number for everything after it.

`SecurityEventRelayProofs`: `AcknowledgedCorrect`. The cursor is moved by an answer, and the answer may come from a
handler of an earlier call. `Numbered` says why that is safe: a number belongs to one message, so a handler that answers
the flush has its batch, or has been through it. `Told` says of cursor, acknowledged id and end of the batch in flight that
everything of the file up to them is, or will be by then, taken up: recorded, refused, or lost by a write of the coordinator; `FileOK`, that ids grow, so that later lines
do not slip below them.

`PythonRuntimeProofs` holds three components that share nothing but their language.

- *Local execution*: `ExecutionInvariance`, `ExecutionTypeCorrect`, `RefinesUninterrupted`, `PausedCorrect`,
  `OutcomeCorrect`. The refinement needs to know that what is on disk is a beginning of the one history the spec
  allows, with the checkpoint of one of its rounds (`FilesOK`), and that the child, at each of its places, carries on from
  there or from the start with an empty log (`ChildOK`); then each save is the next step of the run without
  interruptions and everything else is a stutter. `PausedIsResumable` and `OutcomeIsFinal` need the driver's side
  (`DriverOK`): memory and state file agree, PAUSED is only said of a child that left with its pause code, and the only
  outcome somebody may yet report is the cancel that was already recorded.
- *Asynchronous processor*: `ProcessorTypeCorrect`, `ConfirmedCorrect`, `AppliedOnceCorrect`, `AncestorCorrect`,
  `GrowsCorrect`. The invariant (`Synchronized`, `Counted`, `ReadsPrecede`): the memory of a running process is the
  checkpoint or runs ahead of it only by `unsaved` updates; its version is the length of its model, which holds no update
  twice; and every result read while memory and disk agreed was trained on a beginning of the durable model, as long as its
  base version says. So a rollback or a crash only ever goes back to a model nobody has durably trained beyond.
- *Benchmarks*: `MatrixInvariance`, `EvaluatedCorrect`, `ComparedCorrect`. A process finds in its directory whatever others
  left. `OwnFiles` says from which of its writes on partition, checkpoint and summary are its own if it is alone, so
  that what it reads back for the evaluation is; `Separate`, that of two at work in one cell neither counts as alone, which is
  why a write of one never touches the files of a process that does. `Told` carries the truth of each
  summary into the observations collected from it, whatever the configuration has become since, and the comparison
  of hashes then is one of the data measured on.

`ArithmeticProofs` is about the two components that compute.

- *Sums*: `SumFunction` is a fold, which chooses an order of its set. `SubsetInduction` (induction on the
  cardinality of subsets of one finite set, stated over a set and not an operator) gives a table of all partial sums,
  so the fold is total and does not depend on the order (`SumRemove`, `SumUnion`, `SumPlus`, `SumSwap` ...).
- *Secure recovery*: `RecoveryInvariance`, `AggregateExact`, `KeyHidden`. The masks of a pair cancel because it
  is the same mask with both signs; those of one who is missing cancel because the key rebuilt is its key; what is
  left is the sum of the encoded updates modulo the ring, and the code's check of weight and magnitude makes it the sum
  itself (`NothingWraps`), positive and negative. `SharesHideTheKey` constructs for every key a polynomial through the
  shares seen: the one through them plus a multiple of the one that vanishes at all of them, which needs inverses.
- *Partitioning*: `PartitionInvariance`, `TrainingCorrect`, `TestedCorrect`, `EveryoneCorrect`. The invariant says
  of each phase what has been dealt (`Dealing`), allocated (`Allocating`) and moved (`Repairing`) up to the classes and
  clients visited. That largest remainders are nearest of all splits is an exchange argument made additive: one threshold
  separates the remainders that were rounded up, and the change of distance by any sample more or less is bounded
  with it (`OneMoreOrNot`, `Closest`). That a repair always finds a donor is counting: not fewer samples than clients and one
  client without (`DonorExists`). Shards cover each class exactly because their boundaries telescope (`ShardsCover`), and
  no shard reaches into a third class when no class is smaller than a shard (`ShardTouchesTwo`).

`WorkerServiceProofs`: `SubmittedCorrect`, `BudgetCorrect`, `TrainsOnceCorrect`, `RoundDispatcherCorrect`,
`TypeCorrect`. None of the three properties is inductive. `WorkerOK` says what a process may rely on past each of its
checks: beyond the replay store the last number of the file is its task's, beyond the journal the entry is, before
training the number was not trained, after an accepted submission it was taken, and steps are below the budget. A number
is trained at most once because it belongs to one signed task (`Issued`), a signed task to one worker, and what is trained
is no newer than that worker's replay store (`TrainedWasVerified`): a reply that comes again, after a crash too, finds
the store at its number. That the journal is addressed by a task of the round needs the round's dispatcher to be
consistent, which the lemmas of `TaskDispatcherProofs` give for any number of rounds. The clients are assumed finite in
number.

The theorems without a run of their own (queue, distinct leases, settled, completed, terminal, growing checkpoints,
and the inductive invariants with their types) were checked by TLC on the same instances before they were proved.

Only model-checked are the seven liveness properties: `EveryTaskSettles`, `EveryRunEnds`, `EveryRoundEnds`,
`PauseIsAnswered`, `RunEnds`, `RecoverySucceeds`, `EventsAreRelayed`. Their proofs would have to
reason from fairness, which is defined by ENABLED, and that is out of the prover's reach. No RECURSIVE operator is used: sums
and loops are folds or recursive functions.

## Known deviations

What the models show the code to do, where a document, a comment or a reader expects something else. The models have
this behaviour; where a property excepts it, its comment says so.

*Coordinator.*
- An answer of one round can match worker, task id and lease id of the next (run_manager_legacy.cpp:1446; the comment
  at 1440-1443 has it otherwise). It is accepted, the aggregator throws on its model version, and the run stays
  in AGGREGATING.
- docs/coordinator-recovery.md:11-14 says checkpoints are saved in stable states only. `transition` saves at each one;
  a restart from AGGREGATING, CHECKPOINTING, PAUSING or CANCELING brings back a run that no call moves on. A cancel noted
  during a release is forgotten by a crash.
- A run paused in its last round and resumed asks for RUNNING to COMPLETED, which the table forbids: it never ends
  (README.md:1479). `EveryRunEnds` excepts that pause.
- A result accepted on the checkpointed lease leaves the dispatcher's task leased. It expires, is retried and fails; its
  client counts as completed and failed, and the round may end early (docs/coordinator-runtime.md:39-42).
- The comment at run_manager_legacy.cpp:1433-1445 takes `active_leases_` for authoritative because ids restart with each
  dispatcher. Once a client's lease has expired and was erased, its answer is judged by the dispatcher all the same (1457),
  and after a restart its ids may be those of another client's task leased to the same worker: that task is completed with it.
  `LeasesDoNotOverlap` therefore allows a task that is completed.
- A client can be queued twice: its lease outlives one restart (it is deferred), expires before a second one, whose dispatcher
  queues it again (run_manager.cpp:375-382) without taking it off the deferred; an acquire that checkpoints the new lease after
  that has run out makes the expiry loop queue it once more (392). `LeasesDoNotOverlap` excepts such clients.
- `submit_client_result` checks the state, releases the mutex and stores the result; the watchdog may end the
  round in between (run_manager.cpp:534-535).
- The attempt count in the sidecar can fall behind what was handed out; after a restart a revocation cancels no lease.

*Worker.*
- Ids restart with each round, so a worker refuses a task of the second round as a duplicate of one of the first
  (task_journal.py:145, docs/accepted-task-journal.md:21-22). `RunEnds` holds because the lease expires.
- When the reply to an accepted submission is lost, the retry is a duplicate and the journal says FAILED.
- A refusal or an unavailable coordinator in the handshake, and a refused submission, end the process
  (service.py:356-410, 747). The budget enforcer's state dies with the process.

*Security events.*
- Once the journal has rotated, the acknowledged id is not in the active file any more and `list` never gets past it
  (security_event_journal.py:217-224): nothing is relayed again, new events included. The documents
  (docs/security-event-centralization.md:118-127, security_event_queue.py:15-25) only give up the unacknowledged backlog of the
  rotated file. `EventsAreRelayed` excepts a cursor that is lost for good.
- A process that dies between a rotation and its next line restarts its ids at 1, below the cursor; both
  properties except that.
- Every failed attempt uses up a number (coordinator_client.py:2648); after `max_sequence_gap` of them in a row all further
  ones are refused and the relay stops for good (sequence_state.py:77-79 calls skipped numbers harmless). `EventsAreRelayed`
  excepts it. Two handlers of one worker can lower `last_sequence`.
- Events the coordinator cannot parse or validate are skipped, its own failed writes are only logged
  (security_event_journal.cpp:202-217, 250-271), and the batch is acknowledged all the same
  (coordinator_service_legacy.cpp:3979-4022): against security_event_queue.py's "never silent loss" such events are
  gone. The properties speak of events taken up, not of events on the coordinator's disk.

*Local execution.*
- A control plane that dies between `command.Start()` and its state file leaves a child nobody knows.
- The driver accepts SCAFFOLD with sample-count weights, which the child's `validate_config` rejects: the run fails.
- The comment at local_state.go:162-163 takes `summary.json` for the end; the child writes it before its final evaluation.
- A base configuration edited between pause and resume makes the restore refuse.

*Secure aggregation.*
- A second sharing under the default generation mixes two polynomials (dropout_recovery.py:112).
- A bad share among the first threshold by index blocks recovery although enough good ones are there.
- `encode_weighted_delta` refuses weights above `max_input_magnitude` (masked_update.py:277), however large
  `max_client_weight` is.

*Research registry.*
- A health probe marks executing runs LOST (registry.py:1225; docs/experiment-registry-design.md:255-263), and `recover`
  raises for PREPARING and EVALUATING.
- `_reconcile_experiment_state` writes without lock and version (registry.py:1418; design document 202-212).
- A crash inside `create_experiment` leaves fewer seeds than declared, and every retry conflicts.
- An expired or concurrent duplicate overwrites the answer kept (command_service.py:527); a replay with another body raises
  out of `execute` (569).

*Asynchronous processor, benchmarks, partitioning.*
- A checkpoint directory that cannot be made (async_checkpoint.py:86) and a model that is not finite, which passes no
  snapshot (async_execution.py:167), raise outside what the save's `try` takes back (166-172). The update stays in memory, ahead
  of the disk; its retry is answered as a duplicate; a client may train on a version that a crash gives to another model.
  `ConfirmedIsDurable` and `TrainedOnAncestor` except exactly such updates and reads. Once the model has overflowed every
  further call raises until the process restarts.
- A process a killed runner left behind and the one a resumed runner starts share a directory. The evaluation reads
  summary, partition and checkpoint back and compares accuracies within 1e-12 only (client_evaluation.py:188-194), on the
  partition it finds, so files of two trainings pass when their accuracies agree. The hash of a summary is that of the partition
  in memory, and client metrics were measured on the file. The properties except processes that shared a directory.
- `--resume` stamps the present configuration on a summary it keeps (run_benchmark_matrix.py:249-256, 428-445); a torn or
  unevaluated summary is kept for ever; `comparisons.json` may be older than the observations beside it; a
  killed runner leaves its child running.
- The platform's pathological strategy gives a client fewer classes than drawn when a class has fewer samples than
  clients that drew it.

## What is not modelled

- In the modelled components: tensors and every floating-point rule, adaptive clipping's second budget, the shape of a
  submission, SCAFFOLD files, display counters, the migration of checkpoints older than the sidecar. A restart restores
  from the last checkpoint, as the CLI does on each call; the gRPC server never restores.
- Half-written lines and files: except in BenchmarkMatrix, where a summary is written in place, a file is
  written whole or not at all, as the temp-file-and-rename idiom of the code has it. The fixed name of the registry's
  temporary file (registry.py:167-169), on which two writers without the lock could collide, belongs here too.
- Registry: `StartExperiment` reads the record once, the code twice (command_service.py:319-339, registry.py:1271);
  `ListRuns` is one step, the code reads file by file without the lock (registry.py:1203-1206); `PersistResult` is one step,
  the code writes two files in place (command_service.py:533-552). Exceptions of the adapter, a refused
  `append_metric` and conflicts of `overwrite=False` (registry.py:163-166, 1323, 1356-1401), which fail the run, are left out.
- Worker: an error status in answer to a call of the handshake or to a submission (`CoordinatorRejectedError`,
  coordinator_client.py:891-893) ends the process: the first is `Unreachable`, for the second `Crash` stands. A revoked
  worker's submission is refused by the service (coordinator_service_legacy.cpp:2157-2161); `RoundRuntime` lets it through to the
  run, which is more than can happen.
- Secure recovery: shares are only ever handed in as they were relayed, by their holders; altered or foreign ones, which the
  binding checks refuse, are not submitted. Receipts and restore are the Python reference's; the C++ adapter that is
  live keeps the recovery in memory and loses it in a restart. A `max_client_weight` of 0, which switches the upper bound off
  (masked_update.py:175), is excluded by an assumption.
- Benchmarks: an evaluation reads its three files in one step, and another process's file cannot change between
  two of them; the configuration is read when the process starts. The bytes of a model are its training's identity and
  its accuracy.
- Pure functions of bytes: cryptography, encodings, signature and certificate checks, tensor and wire formats. They make
  up much of the Python code by line count (the coordinator client with its wire mapping alone is 2,800 lines), together
  with command-line front ends, the desktop application, reports, and the superseded runtime kept for reference. There is no
  state in them for a model checker to explore, which is why the definitions cover a sixth of the Python lines.
- C++ stores, identities, secure sessions, event bus, the Go execution service and its watchdog: stateful, and not modelled
  so far; see the plan.

## Plan

Done: dispatcher, run and round runtime on top of it; worker; local execution and its refinement; secure
recovery; research registry; event relay; asynchronous processor; benchmarks; partitioning; and for each of them the proof
of everything but liveness.

1. Idempotency, monotonicity and sequence stores beside the replay store of `SecurityEventRelay`: eviction, purge, restart.
   Worker identities and signing keys: rotation with a grace period, revocation composed with `RoundRuntime`'s.
2. The coordinator's secure session with its deadlines and the Go watchdog, composed with `SecureRecovery` and, through
   `SecureApply`, with `RunLifecycle`.
3. The Go execution service: records under compare-and-swap, reconciler and operator. The event bus with its pollers.
