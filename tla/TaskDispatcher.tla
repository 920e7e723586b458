---------------------------- MODULE TaskDispatcher ----------------------------
(***************************************************************************)
(* One round's TaskDispatcher and the parties that call it.  The run       *)
(* enqueues tasks; workers acquire them; the coordinator tick sweeps       *)
(* expired leases; revoking a worker takes its lease away; and whatever a  *)
(* worker was once handed it may submit at any later time, any number of   *)
(* times (a slow worker, a retried or delayed call).                       *)
(***************************************************************************)
EXTENDS DispatcherOps

CONSTANT MaxTasks        \* bound: how many tasks are enqueued

VARIABLES
  dispatcher,  \* the dispatcher value of DispatcherOps
  now,         \* the clock the callers pass as now_unix_s
  grants,      \* every (worker, task, lease) handed out: what workers may submit
  accepted     \* those of them whose submission was accepted

vars == <<dispatcher, now, grants, accepted>>

Grant == [worker: Workers, task: Nat, lease: Nat]

Init ==
  /\ dispatcher = EmptyDispatcher
  /\ now = 0
  /\ grants = {}
  /\ accepted = {}

(* enqueue, for a client that has used some of its attempts already. *)
EnqueueTask(c, used) ==
  /\ Len(dispatcher.tasks) < MaxTasks
  /\ dispatcher' = Enqueue(dispatcher, c, used)
  /\ UNCHANGED <<now, grants, accepted>>

AcquireTask(w) ==
  /\ CanAcquire(dispatcher, w)
  /\ dispatcher' = Acquire(dispatcher, w, now)
  /\ grants' = grants \cup
       {[worker |-> w, task |-> Head(dispatcher.queue), lease |-> dispatcher.leaseSeq + 1]}
  /\ UNCHANGED <<now, accepted>>

(* submit_result with a grant the worker was handed: the accepted calls. *)
SubmitResult(g) ==
  /\ Accepts(dispatcher, g.worker, g.task, g.lease, now)
  /\ dispatcher' = Complete(dispatcher, g.worker, g.task)
  /\ accepted' = accepted \cup {g}
  /\ UNCHANGED <<now, grants>>

(* sweep_expired_leases, when it has something to do. *)
SweepExpiredLeases ==
  /\ Expired(dispatcher, now) # {}
  /\ \E order \in Orders(Expired(dispatcher, now) \ Spent(dispatcher, Expired(dispatcher, now))) :
       dispatcher' = Sweep(dispatcher, now, order)
  /\ UNCHANGED <<now, grants, accepted>>

CancelLeaseForWorker(w) ==
  /\ dispatcher.slot[w] # NoTask
  /\ dispatcher' = CancelLease(dispatcher, w)
  /\ UNCHANGED <<now, grants, accepted>>

(***************************************************************************)
(* Time passes.  Only an unexpired lease can tell one instant from the     *)
(* next, so the clock moves only while there is one.                       *)
(***************************************************************************)
Tick ==
  /\ \E i \in InState(dispatcher, "leased") : now <= dispatcher.tasks[i].expires
  /\ now' = now + 1
  /\ UNCHANGED <<dispatcher, grants, accepted>>

Next ==
  \/ \E c \in Clients, used \in 0..AttemptBudget : EnqueueTask(c, used)
  \/ \E w \in Workers : AcquireTask(w)
  \/ \E g \in grants : SubmitResult(g)
  \/ SweepExpiredLeases
  \/ \E w \in Workers : CancelLeaseForWorker(w)
  \/ Tick

Spec == Init /\ [][Next]_vars

(***************************************************************************)
(* Time passes, the tick keeps sweeping (the watchdog of run_manager.cpp   *)
(* calls advance every interval) and some idle worker keeps polling.  No   *)
(* worker need ever submit.                                                *)
(***************************************************************************)
Fairness ==
  /\ WF_vars(Tick)
  /\ WF_vars(SweepExpiredLeases)
  /\ WF_vars(\E w \in Workers : AcquireTask(w))

FairSpec == Spec /\ Fairness
-------------------------------------------------------------------------------
(* Every component of the dispatcher has its declared type. *)
TypeOK ==
  /\ dispatcher \in Dispatcher
  /\ now \in Nat
  /\ grants \subseteq Grant
  /\ accepted \subseteq grants

(***************************************************************************)
(* pending_queue_ lists exactly the tasks in state PENDING, each once: no  *)
(* task is lost from the queue and none can be handed out twice, through   *)
(* every mix of expiry, revocation, retry and late submission.             *)
(***************************************************************************)
QueueHoldsPending == QueueIsPending(dispatcher)

(***************************************************************************)
(* worker_active_task_ and the task states agree: a worker has a slot for  *)
(* a task exactly when that task is leased to it.  A slot left behind      *)
(* would shut an idle worker out of the round (acquire refuses it); a      *)
(* missing one would let a worker hold two leases.                         *)
(***************************************************************************)
SlotsMatchLeases == SlotsAreLeases(dispatcher)

(***************************************************************************)
(* A leased task is held by a worker, no two under one lease id, and a     *)
(* task waiting in the queue belongs to nobody: an old holder's submission *)
(* cannot match it.                                                        *)
(***************************************************************************)
LeasesAreDistinct == LeasesDiffer(dispatcher)

(***************************************************************************)
(* The retry budget: no task is ever handed out more than max_retries_     *)
(* times (once when it is 0), whatever mix of expiry, revocation and late  *)
(* submission its leases meet, and a task still waiting has an attempt     *)
(* left.                                                                   *)
(***************************************************************************)
RetryBudget == WithinBudget(dispatcher)

(***************************************************************************)
(* The latest lease wins: the grant whose result was accepted is the last  *)
(* one its task ever had, and a task accepts one result.  A worker whose   *)
(* lease expired or was taken away can never get its result in after the   *)
(* task went to somebody else.                                             *)
(***************************************************************************)
LatestLeaseWins ==
  \A a \in accepted, g \in grants : g.task = a.task => g.lease <= a.lease

(* Completed and failed are final: no call touches such a task again. *)
SettledIsFinal ==
  [][\A i \in InState(dispatcher, "completed") \cup InState(dispatcher, "failed") :
       dispatcher'.tasks[i] = dispatcher.tasks[i]]_vars

(***************************************************************************)
(* Every task is settled in the end even if no worker ever answers: leases *)
(* expire, the queue is served in order and the retry budget is finite.    *)
(***************************************************************************)
EveryTaskSettles ==
  \A i \in 1..MaxTasks :
    (i \in TaskIds(dispatcher)) ~>
      (i \in InState(dispatcher, "completed") \cup InState(dispatcher, "failed"))
===============================================================================
