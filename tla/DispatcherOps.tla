---------------------------- MODULE DispatcherOps ----------------------------
(***************************************************************************)
(* The task dispatcher of one round (cpp/coordinator/src/                  *)
(* task_dispatcher.cpp) as operators on a dispatcher VALUE d.  The value   *)
(* is the object's private state:                                          *)
(*   d.tasks    tasks_, the i-th element being the task with id "task-i"   *)
(*              (so Len(d.tasks) is task_sequence_);                       *)
(*   d.queue    pending_queue_, a FIFO of task ids;                        *)
(*   d.slot     worker_active_task_, NoTask for a worker without an entry; *)
(*   d.leaseSeq lease_sequence_.                                           *)
(* Every method takes the object's mutex for its whole body, so each one   *)
(* is a single operator.  TaskDispatcher.tla turns them into actions;      *)
(* RoundRuntime.tla embeds the value in a run.                             *)
(***************************************************************************)
EXTENDS Integers, Sequences, FiniteSets

CONSTANTS Clients,       \* client ids that may be given a task
          Workers,       \* worker ids that may hold a lease
          NoWorker,      \* the empty worker_id of a task nobody holds
          LeaseSeconds,  \* lease_seconds_
          MaxRetries     \* max_retries_

ASSUME LeaseAssumption == LeaseSeconds \in Nat
ASSUME RetryAssumption == MaxRetries \in Nat
ASSUME NoWorkerAssumption == NoWorker \notin Workers

NoTask == 0      \* no entry in worker_active_task_
NoLease == 0     \* the empty lease_id

TaskState == {"pending", "leased", "completed", "failed"}

DispatchedTask ==
  [client: Clients, state: TaskState, worker: Workers \cup {NoWorker},
   lease: Nat, expires: Int, attempt: Nat]

Dispatcher ==
  [tasks: Seq(DispatchedTask), queue: Seq(Nat \ {0}), slot: [Workers -> Nat], leaseSeq: Nat]

EmptyDispatcher ==
  [tasks |-> <<>>, queue |-> <<>>, slot |-> [w \in Workers |-> NoTask], leaseSeq |-> 0]

TaskIds(d) == DOMAIN d.tasks
InState(d, s) == {i \in TaskIds(d) : d.tasks[i].state = s}

(***************************************************************************)
(* The most leases one task may be granted: the attempt counter is         *)
(* compared with max_retries_ only after a grant, so even max_retries_ = 0 *)
(* allows one.                                                             *)
(***************************************************************************)
AttemptBudget == IF MaxRetries = 0 THEN 1 ELSE MaxRetries

(***************************************************************************)
(* enqueue of one descriptor, with the attempts its client already used.   *)
(* A client whose budget is spent is recorded as failed and never queued.  *)
(***************************************************************************)
Enqueue(d, c, used) ==
  LET id == Len(d.tasks) + 1
      spent == used > 0 /\ used >= MaxRetries
      task == [client |-> c, state |-> IF spent THEN "failed" ELSE "pending",
               worker |-> NoWorker, lease |-> NoLease, expires |-> 0, attempt |-> used]
  IN  [tasks |-> Append(d.tasks, task),
       queue |-> IF spent THEN d.queue ELSE Append(d.queue, id),
       slot |-> d.slot,
       leaseSeq |-> d.leaseSeq]

(* enqueue of a list of clients: one after the other, under the one lock. *)
EnqueueAll(d, clients, used) ==
  LET after[k \in 0..Len(clients)] ==
        IF k = 0 THEN d ELSE Enqueue(after[k - 1], clients[k], used[clients[k]])
  IN  after[Len(clients)]

(* acquire hands out a task: the worker holds none and one is queued. *)
CanAcquire(d, w) == d.slot[w] = NoTask /\ d.queue # <<>>

(* acquire, when it hands out a task: the head of the queue. *)
Acquire(d, w, now) ==
  LET id == Head(d.queue)
      task == [client |-> d.tasks[id].client, state |-> "leased", worker |-> w,
               lease |-> d.leaseSeq + 1, expires |-> now + LeaseSeconds,
               attempt |-> d.tasks[id].attempt + 1]
  IN  [tasks |-> [d.tasks EXCEPT ![id] = task],
       queue |-> Tail(d.queue),
       slot |-> [d.slot EXCEPT ![w] = id],
       leaseSeq |-> d.leaseSeq + 1]

(* Faults for Accepts: no look at the lease; a failed task still counts as open. *)
AcceptsAnyLease(d, w, id, lease, now) ==
  id \in TaskIds(d) /\ d.tasks[id].state \notin {"completed", "failed"}

(***************************************************************************)
(* submit_result accepts: the task is known and open, worker and lease are *)
(* those of the task, and the lease has not run out (an expiry equal to    *)
(* now is still in time).                                                  *)
(***************************************************************************)
Accepts(d, w, id, lease, now) ==
  /\ id \in TaskIds(d)
  /\ d.tasks[id].state \notin {"completed", "failed"}
  /\ d.tasks[id].worker = w
  /\ d.tasks[id].lease = lease
  /\ now <= d.tasks[id].expires

(* submit_result, when it accepts; a rejected submission changes nothing. *)
Complete(d, w, id) ==
  [tasks |-> [d.tasks EXCEPT ![id] = [d.tasks[id] EXCEPT !.state = "completed"]],
   queue |-> d.queue,
   slot |-> [d.slot EXCEPT ![w] = NoTask],
   leaseSeq |-> d.leaseSeq]

(* The tasks sweep_expired_leases acts on, and how it splits them. *)
Expired(d, now) == {i \in TaskIds(d) : d.tasks[i].state = "leased" /\ now > d.tasks[i].expires}
Spent(d, ids) == {i \in ids : d.tasks[i].attempt >= MaxRetries}

(* Fault for Release: one attempt too many. *)
ReleaseOffByOne(d, i) ==
  IF d.tasks[i].attempt > MaxRetries
  THEN [d.tasks[i] EXCEPT !.state = "failed"]
  ELSE [d.tasks[i] EXCEPT !.state = "pending", !.worker = NoWorker, !.lease = NoLease]

(* A task whose lease ended without a result: failed for good or queued again. *)
Release(d, i) ==
  IF d.tasks[i].attempt >= MaxRetries
  THEN [d.tasks[i] EXCEPT !.state = "failed"]
  ELSE [d.tasks[i] EXCEPT !.state = "pending", !.worker = NoWorker, !.lease = NoLease]

(* Faults for Sweep: the holder keeps its slot; the task is not queued again. *)
SweepKeepingSlot(d, now, order) ==
  [d EXCEPT !.tasks = [i \in TaskIds(d) |-> IF i \in Expired(d, now) THEN Release(d, i) ELSE @[i]],
            !.queue = @ \o order]

SweepForgettingQueue(d, now, order) ==
  LET gone == Expired(d, now)
  IN  [d EXCEPT !.tasks = [i \in TaskIds(d) |-> IF i \in gone THEN Release(d, i) ELSE @[i]],
                !.slot = [w \in Workers |->
                            IF \E i \in gone : d.tasks[i].worker = w THEN NoTask ELSE @[w]]]

(***************************************************************************)
(* sweep_expired_leases.  order lists the tasks put back in the queue: the *)
(* code visits tasks_ in the string order of the ids ("task-10" before     *)
(* "task-2"), which callers of this operator choose or abstract.           *)
(***************************************************************************)
Sweep(d, now, order) ==
  LET gone == Expired(d, now)
  IN  [tasks |-> [i \in TaskIds(d) |-> IF i \in gone THEN Release(d, i) ELSE d.tasks[i]],
       queue |-> d.queue \o order,
       slot |-> [w \in Workers |->
                   IF \E i \in gone : d.tasks[i].worker = w THEN NoTask ELSE d.slot[w]],
       leaseSeq |-> d.leaseSeq]

(* The ways to list a finite set of task ids, each once. *)
Orders(ids) ==
  {o \in [1..Cardinality(ids) -> ids] :
     /\ \A j, k \in 1..Cardinality(ids) : o[j] = o[k] => j = k
     /\ \A i \in ids : \E k \in 1..Cardinality(ids) : o[k] = i}

(***************************************************************************)
(* cancel_lease_for_worker: a revoked worker's lease is taken away as if   *)
(* it had expired.  A slot whose task is not leased is only emptied.       *)
(***************************************************************************)
CancelLease(d, w) ==
  LET id == d.slot[w]
      slot == [d.slot EXCEPT ![w] = NoTask]
  IN  IF id = NoTask THEN d
      ELSE IF d.tasks[id].state # "leased" THEN [d EXCEPT !.slot = slot]
      ELSE [tasks |-> [d.tasks EXCEPT ![id] = Release(d, id)],
            queue |-> IF d.tasks[id].attempt >= MaxRetries THEN d.queue ELSE Append(d.queue, id),
            slot |-> slot,
            leaseSeq |-> d.leaseSeq]

(* failed_client_ids: the clients of the permanently failed tasks. *)
FailedClients(d) == {d.tasks[i].client : i \in InState(d, "failed")}

-------------------------------------------------------------------------------
(***************************************************************************)
(* What the private fields of a dispatcher owe each other.                 *)
(***************************************************************************)

(* The queue lists exactly the pending tasks, each once. *)
QueueIsPending(d) ==
  /\ \A k \in DOMAIN d.queue :
       d.queue[k] \in TaskIds(d) /\ d.tasks[d.queue[k]].state = "pending"
  /\ \A i \in InState(d, "pending") : \E k \in DOMAIN d.queue : d.queue[k] = i
  /\ \A j, k \in DOMAIN d.queue : d.queue[j] = d.queue[k] => j = k

(* A worker has a slot for a task exactly when the task is leased to it. *)
SlotsAreLeases(d) ==
  \A w \in Workers :
    /\ d.slot[w] # NoTask =>
         d.slot[w] \in InState(d, "leased") /\ d.tasks[d.slot[w]].worker = w
    /\ \A i \in InState(d, "leased") : d.tasks[i].worker = w => d.slot[w] = i

(* A leased task has a holder and a lease id of its own; a pending one has no holder. *)
LeasesDiffer(d) ==
  /\ \A i \in InState(d, "pending") : d.tasks[i].worker = NoWorker
  /\ \A i \in InState(d, "leased") :
       d.tasks[i].worker \in Workers /\ d.tasks[i].lease \in 1..d.leaseSeq
  /\ \A i, j \in InState(d, "leased") : d.tasks[i].lease = d.tasks[j].lease => i = j

(* No task was granted more often than allowed; a pending one may be again. *)
WithinBudget(d) ==
  /\ \A i \in TaskIds(d) : d.tasks[i].attempt <= AttemptBudget
  /\ \A i \in InState(d, "pending") : d.tasks[i].attempt < AttemptBudget
=============================================================================
