----------------------------- MODULE RoundRuntime -----------------------------
(***************************************************************************)
(* A run and its rounds: RunInstance as workers and the watchdog drive it  *)
(* (cpp/coordinator/src/run_manager.cpp over run_manager_legacy.cpp).      *)
(*                                                                         *)
(* It composes the run's life (RunLifecycle, under the name Life) with the *)
(* dispatcher of the current round (DispatcherOps) and adds what RunInstance*)
(* keeps about the round: accepted results, checkpointed leases, failed    *)
(* clients, the .round-runtime file, and the calls in flight.              *)
(*                                                                         *)
(* acquire_task and submit_client_result take the run's mutex several      *)
(* times: first for advance, then for what they came for.  Each locked     *)
(* section is a step, and anything may happen in between.                  *)
(*                                                                         *)
(* Rounds are cleartext rounds of a run without budget policy; wording of  *)
(* rejections, events and the counters of the worker registry, which are   *)
(* only ever displayed, are left out.                                      *)
(***************************************************************************)
EXTENDS DispatcherOps, Functions

CONSTANTS
  MaxRounds, Budget, Faults,  \* of the run's life
  Cohort,        \* select_cohort: round -> the clients selected, in dispatch order
  MinResults,    \* config.minimum_valid_results
  RoundTimeout,  \* config.round_timeout_seconds; 0: no deadline
  Revocable,     \* bound: the workers that may be revoked
  MaxClock,      \* bound: the clock stops there
  NoDispatcher   \* the null dispatcher_ of a restored run

ASSUME LifeAssumption ==
  /\ MaxRounds \in Nat /\ Budget \in Nat
  /\ Faults \subseteq {"crash", "aggregate", "pause", "cancel"}
ASSUME ClientsAssumption ==   \* numbered in the order of their id strings
  IsFiniteSet(Clients) /\ Clients = 1..Cardinality(Clients)
ASSUME CohortAssumption ==
  \A r \in 1..MaxRounds : /\ Cohort[r] \in Seq(Clients) /\ Len(Cohort[r]) > 0
                          /\ \A i, j \in DOMAIN Cohort[r] : Cohort[r][i] = Cohort[r][j] => i = j
ASSUME MinResultsAssumption ==
  MinResults \in Nat \ {0} /\ \A r \in 1..MaxRounds : MinResults <= Len(Cohort[r])
ASSUME TimeAssumption == RoundTimeout \in Nat /\ MaxClock \in Nat
ASSUME FaultsAssumption == MaxRounds > 1 => "aggregate" \in Faults  \* late answers make it throw

ASSUME NoDispatcherAssumption == NoDispatcher \notin Dispatcher

VARIABLES
  config, mem, disk, handler, requests,  \* of the run's life
  live,        \* round_results_, active_leases_ and failed_clients_ in memory
  saved,       \* the same in the last checkpoint
  dispatcher,  \* dispatcher_, NoDispatcher after a restart
  sidecar,     \* the .round-runtime file, read again by every advance
  now,         \* the clock
  calls,       \* per worker, the call it has in flight
  granted,     \* the tasks workers were handed: what they may submit
  revoked      \* workers the service turns away when they ask for a task

Life == INSTANCE RunLifecycle WITH Faults <- {Faults}

lifeVars == <<config, mem, disk, handler, requests>>
roundVars == <<live, saved, dispatcher, sidecar, now, calls, granted, revoked>>
vars == <<lifeVars, roundVars>>

NoActiveLease == [worker |-> NoWorker, task |-> NoTask, lease |-> NoLease, expires |-> 0]

(* results: per client, the round the accepted update was trained in; 0 for none. *)
FreshLive == [results |-> [c \in Clients |-> 0], leases |-> [c \in Clients |-> NoActiveLease],
              failed |-> {}]

FreshSidecar(round, deadline) ==
  [round |-> round, deadline |-> deadline, attempts |-> [c \in Clients |-> 0], deferred |-> {}]

(***************************************************************************)
(* A call past its advance: what it does next, the now_unix_s it came      *)
(* with, and in grant, once it has one, its task: worker, client, round,   *)
(* task and lease.                                                         *)
(***************************************************************************)
NoCall == [step |-> "none", at |-> 0, attempt |-> 0, grant |-> {}]

Init ==
  /\ Life!Init
  /\ config = [policy |-> "WARN_ONLY", secure |-> FALSE, faults |-> Faults]
  /\ live = FreshLive /\ saved = FreshLive
  /\ dispatcher = NoDispatcher
  /\ sidecar = FreshSidecar(0, 0)
  /\ now = 0
  /\ calls = [w \in Workers |-> NoCall]
  /\ granted = {}
  /\ revoked = {}
-------------------------------------------------------------------------------
Idle == Life!Idle
Waiting == mem.state = "WAITING"
CurrentCohort == Range(Cohort[mem.round])
Held(l, c) == l.leases[c].worker # NoWorker
Completed(l) == {c \in Clients : l.results[c] # 0}
Unresolved(l) == CurrentCohort \ (Completed(l) \cup l.failed)
Erase(l, gone) ==
  [l EXCEPT !.leases = [c \in Clients |-> IF c \in gone THEN NoActiveLease ELSE l.leases[c]]]

(* What a loop over s picks out, in its order (a SelectSeq that can be reasoned about). *)
Select(s, set) ==
  LET picked[k \in 0..Len(s)] ==
        IF k = 0 THEN <<>>
        ELSE IF s[k] \in set THEN Append(picked[k - 1], s[k])
        ELSE picked[k - 1]
  IN  picked[Len(s)]

(* Loops over active_leases_ and over the dispatcher's tasks_. *)
ClientsInOrder(set) == Select([c \in 1..Cardinality(Clients) |-> c], set)
TasksInOrder(d, set) == Select([i \in TaskIds(d) |-> i], set)

(***************************************************************************)
(* What advance has worked out so far: d, l and s are the dispatcher, the  *)
(* live state and the sidecar; ckpt and file say whether a checkpoint and  *)
(* the sidecar file are due (checkpoint_changed, runtime_changed).         *)
(***************************************************************************)
Progress(d, l, s, ckpt, file) == [d |-> d, l |-> l, s |-> s, ckpt |-> ckpt, file |-> file]

(* Fault for Rebuild: leases from before the restart are not looked at. *)
RebuildIgnoringLeases(p) ==
  IF p.d # NoDispatcher THEN p
  ELSE Progress(EnqueueAll(EmptyDispatcher,
                           Select(Cohort[mem.round], Unresolved(p.l)),
                           p.s.attempts),
                p.l, p.s, p.ckpt, p.file)

(* Fault for Rebuild: the deadline is counted anew from the restart. *)
RebuildMovingDeadline(p) ==
  IF p.d # NoDispatcher THEN p
  ELSE Progress(EnqueueAll(EmptyDispatcher,
                           Select(Cohort[mem.round], Unresolved(p.l)),
                           p.s.attempts),
                Erase(p.l, Clients),
                [p.s EXCEPT !.deadline = IF @ = 0 THEN 0 ELSE now + RoundTimeout],
                TRUE, TRUE)

(***************************************************************************)
(* After a restart: a new dispatcher for the clients still to answer.  One *)
(* whose lease runs on is deferred until it ends, and counts as having     *)
(* used at least one attempt.                                              *)
(***************************************************************************)
Rebuild(p) ==
  LET open == Unresolved(p.l)
      deferred == {c \in open : Held(p.l, c) /\ now <= p.l.leases[c].expires}
      gone == {c \in open \ deferred : Held(p.l, c)}
      attempts == [c \in Clients |-> IF c \in deferred /\ p.s.attempts[c] = 0 THEN 1
                                     ELSE p.s.attempts[c]]
      queue == Select(Cohort[mem.round], open \ deferred)
  IN  IF p.d # NoDispatcher THEN p
      ELSE Progress(EnqueueAll(EmptyDispatcher, queue, attempts),
                    Erase(p.l, gone),
                    [p.s EXCEPT !.attempts = attempts, !.deferred = @ \cup deferred],
                    p.ckpt \/ gone # {},
                    p.file \/ deferred # {})

(* Leases that ran out are erased, and a deferred client is queued at last. *)
ExpireLeases(p) ==
  LET gone == {c \in Clients : Held(p.l, c) /\ now > p.l.leases[c].expires}
      back == (gone \cap p.s.deferred) \ (Completed(p.l) \cup p.l.failed)
  IN  Progress(EnqueueAll(p.d, ClientsInOrder(back), p.s.attempts),
               Erase(p.l, gone),
               [p.s EXCEPT !.deferred = @ \ gone],
               p.ckpt \/ gone # {},
               p.file \/ back # {})

(* The dispatcher's sweep, and what it says about failed clients. *)
SweepLeases(p) ==
  LET expired == Expired(p.d, now)
      spent == Spent(p.d, expired)
      failed == {p.d.tasks[i].client : i \in spent}
      swept == Sweep(p.d, now, TasksInOrder(p.d, expired \ spent))
  IN  Progress(swept,
               [Erase(p.l, failed) EXCEPT !.failed = @ \cup failed \cup FailedClients(swept)],
               p.s,
               p.ckpt \/ spent # {},
               p.file)

(* The one outcome of these three steps, in a set so that it can be named with \E. *)
Advanced ==
  {SweepLeases(q) : q \in {ExpireLeases(p) :
    p \in {Rebuild(Progress(dispatcher, live, sidecar, FALSE, FALSE))}}}

(* The deadline: whoever has not answered is given up. *)
GiveUp(l) == [Erase(l, Unresolved(l)) EXCEPT !.failed = @ \cup Unresolved(l)]

DeadlinePassed(s) == s.deadline > 0 /\ now >= s.deadline

(* Every client is accounted for, as a number: completed plus failed. *)
Settled(l) ==
  Cardinality(Completed(l)) + Cardinality(l.failed) >= Len(Cohort[mem.round])

(* Fault for EnoughResults: failed clients count as answers. *)
EnoughResultsOrFailures(l) == Cardinality(Completed(l)) + Cardinality(l.failed) >= MinResults

(* The quorum, which the full cohort always meets. *)
EnoughResults(l) == Cardinality(Completed(l)) >= MinResults

EndRound(l) == IF EnoughResults(l) THEN Life!FinalizeRound ELSE Life!FailRound

(* What advance then makes of the live state and of the sidecar file. *)
Closing(p) == ~Settled(p.l) /\ DeadlinePassed(p.s)
AdvancedLive(p) == IF Closing(p) THEN GiveUp(p.l) ELSE p.l
AdvancedSidecar(p) ==
  IF Closing(p) THEN [p.s EXCEPT !.deferred = @ \ Unresolved(p.l)]
  ELSE IF p.file THEN p.s
  ELSE sidecar

(***************************************************************************)
(* advance in WAITING.  Before the deadline the round ends once everybody  *)
(* is accounted for; at the deadline it ends in any case.                  *)
(***************************************************************************)
AdvanceWaiting ==
  /\ Idle /\ Waiting
  /\ \E p \in Advanced :
       /\ dispatcher' = p.d
       /\ live' = AdvancedLive(p)
       /\ sidecar' = AdvancedSidecar(p)
       /\ IF Settled(p.l) \/ Closing(p)
          THEN saved' = live' /\ EndRound(live')
          ELSE /\ saved' = IF p.ckpt THEN live' ELSE saved
               /\ UNCHANGED lifeVars
  /\ UNCHANGED <<now, granted, revoked>>

(* The sidecar that begin_round writes, before the checkpoint of its transition. *)
NextSidecar == FreshSidecar(mem.round + 1, IF RoundTimeout > 0 THEN now + RoundTimeout ELSE 0)

(* advance in RUNNING: the next round, with a dispatcher of its own. *)
AdvanceRunning ==
  /\ Life!BeginRound
  /\ live' = FreshLive /\ saved' = FreshLive
  /\ dispatcher' = EnqueueAll(EmptyDispatcher, Cohort[mem.round + 1], [c \in Clients |-> 0])
  /\ sidecar' = NextSidecar
  /\ UNCHANGED <<now, granted, revoked>>

(* Nothing to advance; past max_rounds the code throws, which ends a call too. *)
AdvanceNothing ==
  /\ Idle /\ ~Waiting
  /\ mem.state # "RUNNING" \/ mem.round >= MaxRounds
  /\ UNCHANGED <<lifeVars, live, saved, dispatcher, sidecar, now, granted, revoked>>

Advance == AdvanceWaiting \/ AdvanceRunning

(* The watchdog thread (or the CLI's explicit advance). *)
WatchdogTick == Advance /\ UNCHANGED calls
-------------------------------------------------------------------------------
(* acquire_task: first advance. *)
CallAcquire(w) ==
  /\ calls[w] = NoCall /\ w \notin revoked
  /\ Advance \/ AdvanceNothing
  /\ calls' = [calls EXCEPT ![w] = [NoCall EXCEPT !.step = "acquire", !.at = now]]

(* acquire_task_legacy: hands out the next task and checkpoints its lease. *)
AcquireTask(w) ==
  /\ Idle /\ calls[w].step = "acquire"
  /\ IF Waiting /\ CanAcquire(dispatcher, w)
     THEN LET id == Head(dispatcher.queue)
              c == dispatcher.tasks[id].client
              task == Acquire(dispatcher, w, calls[w].at).tasks[id]
          IN  /\ dispatcher' = Acquire(dispatcher, w, calls[w].at)
              /\ live' = [live EXCEPT !.leases[c] =
                             [worker |-> w, task |-> id, lease |-> task.lease,
                              expires |-> task.expires]]
              /\ saved' = live'
              /\ calls' = [calls EXCEPT ![w] =
                             [@ EXCEPT !.step = "record", !.attempt = task.attempt,
                                       !.grant = {[worker |-> w, client |-> c, task |-> id,
                                                   round |-> mem.round, lease |-> task.lease]}]]
     ELSE calls' = [calls EXCEPT ![w] = NoCall] /\ UNCHANGED <<live, saved, dispatcher>>
  /\ UNCHANGED <<lifeVars, sidecar, now, granted, revoked>>

(***************************************************************************)
(* The rest of acquire_task, under the mutex once more: the attempt goes   *)
(* into the sidecar of whatever round is current by now, and the worker    *)
(* gets its task.                                                          *)
(***************************************************************************)
RecordAttempt(w) ==
  /\ Idle /\ calls[w].step = "record"
  /\ LET g == CHOOSE g \in calls[w].grant : TRUE
     IN  /\ sidecar' = IF sidecar.round = mem.round
                       THEN [sidecar EXCEPT !.attempts[g.client] = calls[w].attempt,
                                            !.deferred = @ \ {g.client}]
                       ELSE sidecar
         /\ granted' = granted \cup {g}
  /\ calls' = [calls EXCEPT ![w] = NoCall]
  /\ UNCHANGED <<lifeVars, live, saved, dispatcher, now, revoked>>
-------------------------------------------------------------------------------
(* submit_client_result, of anything the worker was handed: first advance. *)
CallSubmit(g) ==
  /\ calls[g.worker] = NoCall
  /\ Advance \/ AdvanceNothing
  /\ calls' = [calls EXCEPT ![g.worker] =
                  [NoCall EXCEPT !.step = "check", !.at = now, !.grant = {g}]]

(* Then a look at the state, under the mutex for just that look. *)
CheckState(w) ==
  /\ Idle /\ calls[w].step = "check"
  /\ calls' = [calls EXCEPT ![w] = IF Waiting THEN [@ EXCEPT !.step = "deliver"] ELSE NoCall]
  /\ UNCHANGED <<lifeVars, live, saved, dispatcher, sidecar, now, granted, revoked>>

(* A submission that is accepted on the strength of the client's checkpointed lease ... *)
MatchesLease(g, at) ==
  LET lease == live.leases[g.client]
  IN  /\ lease.worker = g.worker /\ lease.task = g.task /\ lease.lease = g.lease
      /\ at <= lease.expires

(* ... or, when the client has none, on the dispatcher's word. *)
MatchesTask(g, at) ==
  ~Held(live, g.client) /\ Accepts(dispatcher, g.worker, g.task, g.lease, at)

Accepted(g, at) ==
  /\ live.results[g.client] = 0
  /\ MatchesLease(g, at) \/ MatchesTask(g, at)

(* Fault for DeliverResult: no checkpoint. *)
DeliverResultUnsaved(w) ==
  /\ Idle /\ calls[w].step = "deliver"
  /\ LET g == CHOOSE g \in calls[w].grant : TRUE
     IN  IF Accepted(g, calls[w].at)
         THEN /\ live' = [live EXCEPT !.results[g.client] = g.round,
                                      !.leases[g.client] = NoActiveLease]
              /\ dispatcher' = IF MatchesLease(g, calls[w].at) THEN dispatcher
                               ELSE Complete(dispatcher, w, g.task)
         ELSE UNCHANGED <<live, dispatcher>>
  /\ calls' = [calls EXCEPT ![w] = NoCall]
  /\ UNCHANGED <<lifeVars, saved, sidecar, now, granted, revoked>>

(***************************************************************************)
(* submit_client_result_legacy, which does not look at the state again.    *)
(* It checkpoints whether it accepts or not; with the mutex free the run's *)
(* life is as it was checkpointed last, so disk stays.                     *)
(***************************************************************************)
DeliverResult(w) ==
  /\ Idle /\ calls[w].step = "deliver"
  /\ LET g == CHOOSE g \in calls[w].grant : TRUE
     IN  IF Accepted(g, calls[w].at)
         THEN /\ live' = [live EXCEPT !.results[g.client] = g.round,
                                      !.leases[g.client] = NoActiveLease]
              /\ dispatcher' = IF MatchesLease(g, calls[w].at) THEN dispatcher
                               ELSE Complete(dispatcher, w, g.task)
         ELSE UNCHANGED <<live, dispatcher>>
  /\ saved' = live'
  /\ calls' = [calls EXCEPT ![w] = NoCall]
  /\ UNCHANGED <<lifeVars, sidecar, now, granted, revoked>>
-------------------------------------------------------------------------------
(***************************************************************************)
(* RevokeWorker: the worker gets no more tasks, and the dispatcher's lease *)
(* it holds is taken away.  A call it has in flight goes on.  The service  *)
(* refuses what it submits from then on; the model leaves that guard out,  *)
(* so what is shown of accepted results does not rest on it.               *)
(***************************************************************************)
RevokeWorker(w) ==
  /\ Idle /\ w \in Revocable \ revoked
  /\ revoked' = revoked \cup {w}
  /\ IF dispatcher = NoDispatcher \/ dispatcher.slot[w] = NoTask
     THEN UNCHANGED <<live, saved, dispatcher>>
     ELSE LET task == dispatcher.tasks[dispatcher.slot[w]]
          IN  /\ dispatcher' = CancelLease(dispatcher, w)
              /\ IF task.state = "leased"
                 THEN live' = Erase(live, {task.client}) /\ saved' = live'
                 ELSE UNCHANGED <<live, saved>>
  /\ UNCHANGED <<lifeVars, sidecar, now, calls, granted>>

(* aggregate refuses a cohort with an update trained on another round's model. *)
AllCurrent == \A c \in Completed(live) : live.results[c] = mem.round
AggregateResults == Life!Aggregate /\ (handler' = "charge" <=> AllCurrent)

(* Everything else in the run's life leaves the round alone, and saves it along. *)
RoundKept ==
  /\ saved' = IF disk' = disk THEN saved ELSE live
  /\ UNCHANGED <<live, dispatcher, sidecar, now, calls, granted, revoked>>

OperatorCall ==
  (Life!StartRun \/ Life!ResumeRun \/ Life!PauseRun \/ Life!CancelRun) /\ RoundKept

HandlerStep ==
  /\ \/ Life!StartStep \/ Life!PauseStep \/ Life!CancelStep
     \/ AggregateResults \/ Life!Charge \/ Life!Publish \/ Life!Checkpoint \/ Life!Settle
  /\ RoundKept

(***************************************************************************)
(* A crash.  An advance under way may have written the sidecar, but not    *)
(* the checkpoint that follows it.  A crash between the checkpoint of an   *)
(* advance and the transition that ends the round is no crash point of its *)
(* own: the next advance finds the same leases and results and ends it.    *)
(***************************************************************************)
CrashAndRestore ==
  /\ Life!CrashAndRestore
  /\ live' = saved
  /\ dispatcher' = NoDispatcher
  /\ sidecar' \in {sidecar} \cup
       (IF ~Idle THEN {}
        ELSE IF mem.state = "RUNNING" /\ mem.round < MaxRounds THEN {NextSidecar}
        ELSE IF Waiting THEN {AdvancedSidecar(p) : p \in Advanced}
        ELSE {})
  /\ calls' = [w \in Workers |-> NoCall]
  /\ UNCHANGED <<saved, now, granted, revoked>>

(***************************************************************************)
(* Time passes while it can make a difference: a lease or a deadline is    *)
(* still running.                                                          *)
(***************************************************************************)
Tick ==
  /\ now < MaxClock
  /\ \/ Waiting /\ now < sidecar.deadline
     \/ \E c \in Clients : Held(live, c) /\ now <= live.leases[c].expires
     \/ /\ dispatcher # NoDispatcher
        /\ \E i \in InState(dispatcher, "leased") : now <= dispatcher.tasks[i].expires
  /\ now' = now + 1
  /\ UNCHANGED <<lifeVars, live, saved, dispatcher, sidecar, calls, granted, revoked>>

CallStep(w) == AcquireTask(w) \/ RecordAttempt(w) \/ CheckState(w) \/ DeliverResult(w)

Next ==
  \/ WatchdogTick
  \/ \E w \in Workers : CallAcquire(w) \/ CallStep(w) \/ RevokeWorker(w)
  \/ \E g \in granted : CallSubmit(g)
  \/ OperatorCall
  \/ HandlerStep
  \/ CrashAndRestore
  \/ Tick

Spec == Init /\ [][Next]_vars

(***************************************************************************)
(* The watchdog ticks, time passes, and a handler or a call that has begun *)
(* goes on unless the process dies.  Workers owe nothing.                  *)
(***************************************************************************)
Fairness ==
  /\ WF_vars(WatchdogTick)
  /\ WF_vars(Tick)
  /\ WF_vars(HandlerStep)
  /\ \A w \in Workers : WF_vars(CallStep(w))

FairSpec == Spec /\ Fairness

-------------------------------------------------------------------------------
Lease == [worker: Workers \cup {NoWorker}, task: Nat, lease: Nat, expires: Int]
LiveState == [results: [Clients -> Nat], leases: [Clients -> Lease], failed: SUBSET Clients]
Sidecar == [round: Nat, deadline: Nat, attempts: [Clients -> Nat], deferred: SUBSET Clients]
Grant == [worker: Workers, client: Clients, task: Nat, round: Nat, lease: Nat]
Call == [step: {"none", "acquire", "record", "check", "deliver"}, at: Nat, attempt: Nat,
         grant: SUBSET Grant]

(* What the round's variables hold; those of the run's life are typed in RunLifecycle. *)
TypeOK ==
  /\ live \in LiveState /\ saved \in LiveState
  /\ dispatcher \in Dispatcher \cup {NoDispatcher}
  /\ sidecar \in Sidecar
  /\ now \in Nat
  /\ calls \in [Workers -> Call]
  /\ granted \subseteq Grant
  /\ revoked \subseteq Workers

(***************************************************************************)
(* A client that was told its result is accepted stays among the results   *)
(* until its round ends: no later call, and no restart, forgets it.        *)
(***************************************************************************)
AcceptedResultsSurvive ==
  [][Waiting /\ mem' = mem =>
       \A c \in Clients : live.results[c] # 0 => live'.results[c] = live.results[c]]_vars

(***************************************************************************)
(* A client whose lease is checkpointed is not queued for another worker,  *)
(* not even by the dispatcher a restart builds, which knows nothing of the *)
(* leases of the one before it: if the client has one task there, that     *)
(* task is the lease's, or somebody's answer completed it.  (A client that *)
(* is queued twice in one round is excepted; README, Known deviations.)    *)
(***************************************************************************)
TasksOf(d, c) == {i \in TaskIds(d) : d.tasks[i].client = c}

IsLease(task, lease) ==
  /\ task.state = "leased"
  /\ task.worker = lease.worker /\ task.lease = lease.lease /\ task.expires = lease.expires

Agree(d, l) ==
  \A c \in Clients : Held(l, c) =>
    \A i \in TasksOf(d, c) : TasksOf(d, c) = {i} =>
      IsLease(d.tasks[i], l.leases[c]) \/ d.tasks[i].state = "completed"

LeasesDoNotOverlap == dispatcher # NoDispatcher => Agree(dispatcher, live)

(* A round is never released with fewer results than minimum_valid_results. *)
ReleaseMeetsQuorum ==
  handler = "aggregate" => Cardinality(Completed(live)) >= MinResults

(***************************************************************************)
(* A round with a deadline ends, whatever workers do or leave undone and   *)
(* however often the coordinator restarts.                                 *)
(***************************************************************************)
EveryRoundEnds ==
  \A r \in 1..MaxRounds : (Waiting /\ mem.round = r) ~> ~(Waiting /\ mem.round = r)
===============================================================================
