------------------------- MODULE WorkerServiceProofs -------------------------
(***************************************************************************)
(* Proofs for WorkerService, for any clients, workers, configurations and  *)
(* numbers of calls lost, replies repeated and processes killed: no signed *)
(* task is trained twice, a journal says submitted only of what was taken, *)
(* and no result leaves a worker against its budget policy.                *)
(***************************************************************************)
EXTENDS WorkerService, SequenceTheorems, FiniteSetTheorems, TLAPS

(* What is proved of a dispatcher value holds of the run's. *)
Disp == INSTANCE TaskDispatcherProofs
          WITH MaxTasks <- 0, dispatcher <- run.dispatcher, now <- 0, grants <- {}, accepted <- {}

(* A round's dispatcher is consistent, and has a task for every client. *)
Sound(d) ==
  /\ d \in Dispatcher
  /\ QueueIsPending(d) /\ SlotsAreLeases(d) /\ LeasesDiffer(d) /\ WithinBudget(d)
  /\ Len(d.tasks) = Cardinality(Clients)

Places == {"down", "acquire", "verify", "record", "handshake", "roster", "prepare", "begin",
           "train", "ready", "mask", "submit", "accepted", "complete", "fail"}

Verified == Places \ {"down", "acquire", "verify"}
BeforeTraining == {"record", "handshake", "roster", "prepare", "begin"}
Leaving == {"ready", "mask", "submit", "accepted"}
Promised == {"STOP_BEFORE_EXCEEDING", "FAIL_TASK"}

Statuses == {"none", "ACCEPTED", "RESULT_READY", "FAILED", "CANCELED"} \cup Done \cup InFlight

SignedTask ==
  [worker: Workers, client: Clients, round: Nat, id: Ids, lease: Nat, attempt: Nat,
   sequence: Nat \ {0}]

Run ==
  [status: {"open", "done", "failed"}, round: Nat, dispatcher: Dispatcher,
   leases: [Clients -> SignedTask \cup {NoGrant}], results: SUBSET Clients, sequence: Nat]

Process ==
  [at: Places, grant: SignedTask \cup {NoGrant}, steps: Nat, tries: Nat, stopped: SUBSET Clients]

Entry == [status: Statuses, attempt: Nat, sequence: Nat]

RunOK(r) == r \in Run /\ Sound(r.dispatcher)

TypeOK ==
  /\ config \in Configs
  /\ run \in Run
  /\ proc \in [Workers -> Process]
  /\ journal \in [Workers -> [Ids -> Entry]]
  /\ replay \in [Workers -> Nat]
  /\ wire \subseteq SignedTask
  /\ trained \subseteq Nat /\ taken \subseteq Nat
  /\ faults \in Nat /\ crashes \in Nat

(* A sequence number was given to one task, and none is still to come. *)
Issued ==
  /\ \A g \in wire : g.sequence <= run.sequence
  /\ \A g, h \in wire : g.sequence = h.sequence => g = h

(* A task that is trained passed the replay store of its worker. *)
TrainedWasVerified == \A s \in trained : \E g \in wire : g.sequence = s /\ s <= replay[g.worker]

(* What a process past each of its checks may rely on. *)
WorkerOK(w) ==
  /\ proc[w].at \notin {"down", "acquire"} => proc[w].grant \in wire
  /\ proc[w].at \in Verified => proc[w].grant.worker = w /\ proc[w].grant.sequence = replay[w]
  /\ proc[w].at \in BeforeTraining => proc[w].grant.sequence \notin trained
  /\ proc[w].at \in Verified \ {"record"} =>
       journal[w][proc[w].grant.id].sequence = proc[w].grant.sequence
  /\ proc[w].at \in {"accepted", "complete"} => proc[w].grant.sequence \in taken
  /\ config.policy \in Promised /\ proc[w].at = "train" => proc[w].steps < config.budget
  /\ config.policy \in Promised /\ proc[w].at \in Leaving => proc[w].steps \in 1..(config.budget - 1)

IInv ==
  /\ TypeOK
  /\ Sound(run.dispatcher)
  /\ Issued
  /\ TrainedWasVerified
  /\ SubmittedWasTaken
  /\ \A w \in Workers : WorkerOK(w)

-----------------------------------------------------------------------------
(* The dispatcher of the round. *)

LEMMA SameConsistent ==
  ASSUME NEW d
  PROVE  Disp!Consistent(d) <=>
           /\ d \in Dispatcher
           /\ QueueIsPending(d) /\ SlotsAreLeases(d) /\ LeasesDiffer(d) /\ WithinBudget(d)
<1>1. Disp!Dispatcher = Dispatcher
  BY DEF Disp!Dispatcher, Dispatcher, Disp!DispatchedTask, DispatchedTask, Disp!TaskState, TaskState
<1>2. Disp!TaskIds(d) = TaskIds(d) /\ \A s : Disp!InState(d, s) = InState(d, s)
  BY DEF Disp!TaskIds, TaskIds, Disp!InState, InState
<1>3. Disp!QueueIsPending(d) <=> QueueIsPending(d)
  BY <1>2 DEF Disp!QueueIsPending, QueueIsPending
<1>4. Disp!SlotsAreLeases(d) <=> SlotsAreLeases(d)
  BY <1>2 DEF Disp!SlotsAreLeases, SlotsAreLeases, Disp!NoTask, NoTask
<1>5. Disp!LeasesDiffer(d) <=> LeasesDiffer(d)
  BY <1>2 DEF Disp!LeasesDiffer, LeasesDiffer
<1>6. Disp!WithinBudget(d) <=> WithinBudget(d)
  BY <1>2 DEF Disp!WithinBudget, WithinBudget, Disp!AttemptBudget, AttemptBudget
<1> QED
  BY <1>1, <1>3, <1>4, <1>5, <1>6 DEF Disp!Consistent

(* A function on 1..n is a sequence. *)
LEMMA FunctionIsSequence ==
  ASSUME NEW S, NEW n \in Nat, NEW f \in [1..n -> S]
  PROVE  f \in Seq(S)
  BY SeqDef, Zenon

LEMMA SoundFacts ==
  ASSUME NEW d, Sound(d)
  PROVE  /\ d \in Dispatcher /\ d.tasks \in Seq(DispatchedTask)
         /\ TaskIds(d) = Ids /\ DOMAIN d.tasks = Ids
         /\ \A i \in Ids : d.tasks[i] \in DispatchedTask
         /\ d.queue # <<>> => Head(d.queue) \in Ids
<1>1. d \in Dispatcher /\ d.tasks \in Seq(DispatchedTask) /\ d.queue \in Seq(Nat \ {0})
  BY DEF Sound, Dispatcher
<1>2. DOMAIN d.tasks = Ids /\ TaskIds(d) = Ids
  BY <1>1, LenProperties DEF Sound, Ids, TaskIds
<1>3. \A i \in Ids : d.tasks[i] \in DispatchedTask
  BY <1>1, <1>2, ElementOfSeq, LenProperties
<1>4. ASSUME d.queue # <<>> PROVE Head(d.queue) \in Ids
  <2>1. Head(d.queue) = d.queue[1] /\ 1 \in DOMAIN d.queue
    BY <1>1, <1>4, HeadTailProperties, EmptySeq, LenProperties
  <2> QED
    BY <2>1, <1>2 DEF Sound, QueueIsPending
<1> QED
  BY <1>1, <1>2, <1>3, <1>4

(* A round begins with a sound dispatcher. *)
LEMMA FreshSound == Sound(FreshDispatcher)
<1> DEFINE N == Cardinality(Clients)
           order == CHOOSE o \in Orders(Clients) : TRUE
           used == [c \in Clients |-> 0]
<1>1. N \in Nat /\ ExistsBijection(1..N, Clients)
  BY ClientsAssumption, FS_CardinalityType
<1>2. Orders(Clients) # {}
  <2>1. PICK o \in Bijection(1..N, Clients) : TRUE
    BY <1>1 DEF ExistsBijection
  <2>2. /\ o \in [1..N -> Clients]
        /\ \A j, k \in 1..N : o[j] = o[k] => j = k
        /\ \A i \in Clients : \E k \in 1..N : o[k] = i
    BY <2>1 DEF Bijection, Injection, Surjection, IsInjective
  <2> QED
    BY <2>2 DEF Orders
<1>3. order \in [1..N -> Clients]
  BY <1>2 DEF Orders
<1>4. order \in Seq(Clients) /\ Len(order) = N
  BY <1>1, <1>3, FunctionIsSequence, LenProperties
<1>5. used \in [Clients -> 0..Disp!AttemptBudget]
  BY RetryAssumption DEF Disp!AttemptBudget
<1>6. Disp!Consistent(Disp!EmptyDispatcher) /\ Len(Disp!EmptyDispatcher.tasks) = 0
  BY Disp!EmptyConsistent, LeaseAssumption, RetryAssumption, NoWorkerAssumption
  DEF Disp!EmptyDispatcher
<1>7. FreshDispatcher = Disp!EnqueueAll(Disp!EmptyDispatcher, order, used)
  BY DEF FreshDispatcher, EnqueueAll, Disp!EnqueueAll, Enqueue, Disp!Enqueue, NoLease, Disp!NoLease,
         EmptyDispatcher, Disp!EmptyDispatcher, NoTask, Disp!NoTask
<1> HIDE DEF order, used, N
<1>8. /\ Disp!Consistent(FreshDispatcher)
      /\ Len(FreshDispatcher.tasks) = 0 + N
  BY <1>4, <1>5, <1>6, <1>7, Disp!EnqueueAllConsistent, LeaseAssumption, RetryAssumption,
     NoWorkerAssumption
  DEF Disp!Grown
<1> QED
  BY <1>1, <1>8, SameConsistent DEF Sound, N

LEMMA SweepSound ==
  ASSUME NEW d, Sound(d), NEW order \in Orders(Expired(d, 0) \ Spent(d, Expired(d, 0)))
  PROVE  Sound(Sweep(d, 0, order))
<1>1. Disp!Expired(d, 0) = Expired(d, 0) /\ Disp!TaskIds(d) = TaskIds(d)
  BY SMTT(60) DEF Disp!Expired, Expired, Disp!TaskIds, TaskIds
<1>2. \A ids : Disp!Spent(d, ids) = Spent(d, ids) /\ Disp!Orders(ids) = Orders(ids)
  BY DEF Disp!Spent, Spent, Disp!Orders, Orders, Disp!Cardinality, Cardinality
<1>3. Disp!Sweep(d, 0, order) = Sweep(d, 0, order)
  BY <1>1 DEF Disp!Sweep, Sweep, Disp!Release, Release, Disp!NoLease, NoLease, Disp!NoTask, NoTask
<1>4. Disp!Consistent(Sweep(d, 0, order))
  <2>1. Disp!Consistent(d)
    BY SameConsistent DEF Sound
  <2>2. order \in Disp!Orders(Disp!Expired(d, 0) \ Disp!Spent(d, Disp!Expired(d, 0)))
    BY <1>1, <1>2
  <2> QED
    BY <2>1, <2>2, <1>3, Disp!SweepConsistent, LeaseAssumption, RetryAssumption, NoWorkerAssumption
<1>5. Len(Sweep(d, 0, order).tasks) = Len(d.tasks)
  <2>1. Sweep(d, 0, order).tasks \in Seq(DispatchedTask)
    BY <1>4, SameConsistent DEF Dispatcher
  <2>2. DOMAIN Sweep(d, 0, order).tasks = DOMAIN d.tasks
    BY DEF Sweep, TaskIds
  <2> QED
    BY <2>1, <2>2, SoundFacts, LenProperties
<1> QED
  BY <1>4, <1>5, SameConsistent DEF Sound

LEMMA AcquireSound ==
  ASSUME NEW d, Sound(d), NEW w \in Workers, CanAcquire(d, w)
  PROVE  Sound(Acquire(d, w, 0))
<1>1. Disp!Acquire(d, w, 0) = Acquire(d, w, 0) /\ Disp!CanAcquire(d, w)
  BY DEF Disp!Acquire, Acquire, Disp!CanAcquire, CanAcquire, Disp!NoTask, NoTask
<1>2. Disp!Consistent(Acquire(d, w, 0))
  <2>1. Disp!Consistent(d)
    BY SameConsistent DEF Sound
  <2> QED
    BY <2>1, <1>1, Disp!AcquireConsistent, LeaseAssumption, RetryAssumption, NoWorkerAssumption
<1>3. Len(Acquire(d, w, 0).tasks) = Len(d.tasks)
  <2>1. Acquire(d, w, 0).tasks \in Seq(DispatchedTask)
    BY <1>2, SameConsistent DEF Dispatcher
  <2>2. DOMAIN Acquire(d, w, 0).tasks = DOMAIN d.tasks
    BY DEF Acquire
  <2> QED
    BY <2>1, <2>2, SoundFacts, LenProperties
<1> QED
  BY <1>2, <1>3, SameConsistent DEF Sound

(* Time takes from what leases have left to run, and from nothing else. *)
LEMMA LaterSound ==
  ASSUME NEW d, Sound(d)
  PROVE  Sound(Later(d))
<1> DEFINE e == Later(d)
<1>1. /\ e.queue = d.queue /\ e.slot = d.slot /\ e.leaseSeq = d.leaseSeq
      /\ DOMAIN e.tasks = Ids
      /\ e = [tasks |-> e.tasks, queue |-> d.queue, slot |-> d.slot, leaseSeq |-> d.leaseSeq]
      /\ \A i \in Ids : e.tasks[i] = Shortened(d.tasks[i])
      /\ e.tasks = [i \in Ids |-> e.tasks[i]]
  BY SoundFacts DEF Later, Dispatcher
<1>2. \A i \in Ids :
        /\ e.tasks[i] \in DispatchedTask
        /\ e.tasks[i].state = d.tasks[i].state /\ e.tasks[i].worker = d.tasks[i].worker
        /\ e.tasks[i].lease = d.tasks[i].lease /\ e.tasks[i].attempt = d.tasks[i].attempt
  <2> SUFFICES ASSUME NEW i \in Ids
               PROVE  /\ e.tasks[i] \in DispatchedTask
                      /\ e.tasks[i].state = d.tasks[i].state /\ e.tasks[i].worker = d.tasks[i].worker
                      /\ e.tasks[i].lease = d.tasks[i].lease /\ e.tasks[i].attempt = d.tasks[i].attempt
    OBVIOUS
  <2>1. d.tasks[i] \in DispatchedTask
    BY SoundFacts
  <2> HIDE DEF e
  <2>2. e.tasks[i] = d.tasks[i] \/ e.tasks[i] = [d.tasks[i] EXCEPT !.expires = @ - 1]
    BY <1>1 DEF Shortened
  <2> QED
    BY <2>1, <2>2, <1>1 DEF DispatchedTask
<1> HIDE DEF e
<1>3. e.tasks \in Seq(DispatchedTask) /\ Len(e.tasks) = Cardinality(Clients)
  <2>1. Cardinality(Clients) \in Nat
    BY ClientsAssumption, FS_CardinalityType
  <2>2. e.tasks \in [1..Cardinality(Clients) -> DispatchedTask]
    BY <1>1, <1>2 DEF Ids
  <2> QED
    BY <2>1, <2>2, FunctionIsSequence, LenProperties
<1>4. e \in Dispatcher
  BY <1>1, <1>3 DEF Sound, Dispatcher
<1>5. TaskIds(e) = TaskIds(d) /\ TaskIds(d) = Ids /\ \A s : InState(e, s) = InState(d, s)
  BY <1>1, <1>2, SoundFacts DEF TaskIds, InState
<1>6. \A s : InState(d, s) \subseteq Ids
  BY <1>5 DEF InState
<1>7. QueueIsPending(e)
  BY <1>1, <1>2, <1>5 DEF Sound, QueueIsPending
<1>8. SlotsAreLeases(e)
  BY <1>1, <1>2, <1>5, <1>6 DEF Sound, SlotsAreLeases
<1>9. LeasesDiffer(e)
  BY <1>1, <1>2, <1>5, <1>6 DEF Sound, LeasesDiffer
<1>10. WithinBudget(e)
  BY <1>1, <1>2, <1>5, <1>6 DEF Sound, WithinBudget
<1> QED
  BY <1>3, <1>4, <1>7, <1>8, <1>9, <1>10 DEF Sound, e

-----------------------------------------------------------------------------
(* The run of the coordinator. *)

LEMMA FreshRunOK ==
  ASSUME NEW round \in Nat, NEW sequence \in Nat
  PROVE  RunOK(FreshRun(round, sequence)) /\ FreshRun(round, sequence).sequence = sequence
<1>1. Sound(FreshDispatcher) /\ FreshDispatcher \in Dispatcher
  BY FreshSound DEF Sound
<1>2. [c \in Clients |-> NoGrant] \in [Clients -> SignedTask \cup {NoGrant}]
  OBVIOUS
<1> QED
  BY <1>1, <1>2 DEF RunOK, Run, FreshRun

(* Whatever advance finds expired or over, it leaves a proper run. *)
LEMMA AdvancedOK ==
  ASSUME RunOK(run), NEW order \in Requeues
  PROVE  RunOK(Advanced(order)) /\ Advanced(order).sequence = run.sequence
<1> DEFINE d == Sweep(run.dispatcher, 0, order)
           kept == [c \in Clients |->
                      IF run.leases[c] # NoGrant /\ ~LeaseRuns(run.leases[c])
                      THEN NoGrant ELSE run.leases[c]]
           swept == [run EXCEPT !.dispatcher = d, !.leases = kept]
           failed == [swept EXCEPT !.status = "failed"]
           done == [swept EXCEPT !.status = "done"]
           next == FreshRun(run.round + 1, run.sequence)
<1>1. run \in Run /\ Sound(run.dispatcher)
  BY DEF RunOK
<1>2. Sound(d) /\ d \in Dispatcher
  <2>1. Sound(d)
    BY <1>1, SweepSound DEF Requeues
  <2> QED
    BY <2>1 DEF Sound
<1>3. kept \in [Clients -> SignedTask \cup {NoGrant}]
  <2>1. \A c \in Clients : run.leases[c] \in SignedTask \cup {NoGrant}
    BY <1>1 DEF Run
  <2> QED
    BY <2>1
<1>4. Advanced(order) \in {swept, failed, done, next}
  BY DEF Advanced
<1> HIDE DEF d, kept
<1>5. RunOK(swept) /\ swept.sequence = run.sequence
  BY <1>1, <1>2, <1>3 DEF RunOK, Run
<1>6. RunOK(failed) /\ failed.sequence = run.sequence
  BY <1>1, <1>2, <1>3 DEF RunOK, Run
<1>7. RunOK(done) /\ done.sequence = run.sequence
  BY <1>1, <1>2, <1>3 DEF RunOK, Run
<1>8. RunOK(next) /\ next.sequence = run.sequence
  <2>1. run.round + 1 \in Nat /\ run.sequence \in Nat
    BY <1>1 DEF Run
  <2> QED
    BY <2>1, FreshRunOK
<1> HIDE DEF swept, failed, done, next
<1> QED
  BY <1>4, <1>5, <1>6, <1>7, <1>8

(* A task that is handed out is signed under a number of its own. *)
LEMMA GrantedOK ==
  ASSUME NEW r, RunOK(r), NEW w \in Workers, CanAcquire(r.dispatcher, w)
  PROVE  /\ Granted(r, w) \in SignedTask /\ Granted(r, w).worker = w
         /\ Granted(r, w).sequence = r.sequence + 1
         /\ RunOK(AfterGrant(r, Granted(r, w)))
         /\ AfterGrant(r, Granted(r, w)).sequence = r.sequence + 1
<1> DEFINE g == Granted(r, w)
           id == Head(r.dispatcher.queue)
           d == Acquire(r.dispatcher, w, 0)
<1>1. r \in Run /\ Sound(r.dispatcher)
  BY DEF RunOK
<1>2. id \in Ids
  BY <1>1, SoundFacts DEF CanAcquire
<1>3. Sound(d) /\ d \in Dispatcher /\ d.tasks[id] \in DispatchedTask
  <2>1. Sound(d)
    BY <1>1, AcquireSound
  <2> QED
    BY <2>1, <1>2, SoundFacts
<1>4. /\ g = [worker |-> w, client |-> d.tasks[id].client, round |-> r.round, id |-> id,
             lease |-> d.tasks[id].lease, attempt |-> d.tasks[id].attempt,
             sequence |-> r.sequence + 1]
      /\ AfterGrant(r, g) = [r EXCEPT !.dispatcher = Acquire(@, g.worker, 0),
                                     !.leases[g.client] = g, !.sequence = g.sequence]
  BY DEF Granted, AfterGrant
<1> HIDE DEF g, id, d
<1>5. r.sequence \in Nat /\ r.sequence + 1 \in Nat \ {0} /\ r.round \in Nat
  BY <1>1 DEF Run
<1>6. g \in SignedTask /\ g.worker = w /\ g.sequence = r.sequence + 1 /\ g.client \in Clients
  <2>1. d.tasks[id].client \in Clients /\ d.tasks[id].lease \in Nat /\ d.tasks[id].attempt \in Nat
    BY <1>3 DEF DispatchedTask
  <2> QED
    BY <2>1, <1>2, <1>4, <1>5 DEF SignedTask
<1>7. AfterGrant(r, g) = [status |-> r.status, round |-> r.round, dispatcher |-> d,
                          leases |-> [r.leases EXCEPT ![g.client] = g], results |-> r.results,
                          sequence |-> r.sequence + 1]
  BY <1>1, <1>4, <1>6 DEF Run, d
<1>8. [r.leases EXCEPT ![g.client] = g] \in [Clients -> SignedTask \cup {NoGrant}]
  BY <1>1, <1>6 DEF Run
<1>9. RunOK(AfterGrant(r, g)) /\ AfterGrant(r, g).sequence = r.sequence + 1
  BY <1>1, <1>3, <1>5, <1>7, <1>8 DEF RunOK, Run
<1> QED
  BY <1>6, <1>9 DEF g

LEMMA AfterResultOK ==
  ASSUME RunOK(run), NEW g \in SignedTask
  PROVE  RunOK(AfterResult(g)) /\ AfterResult(g).sequence = run.sequence
<1>1. run \in Run /\ Sound(run.dispatcher) /\ g.client \in Clients
  BY DEF RunOK, SignedTask
<1>2. CASE Takes(g)
  <2>1. AfterResult(g) = [status |-> run.status, round |-> run.round,
                          dispatcher |-> run.dispatcher,
                          leases |-> [run.leases EXCEPT ![g.client] = NoGrant],
                          results |-> run.results \cup {g.client}, sequence |-> run.sequence]
    BY <1>1, <1>2 DEF AfterResult, Run
  <2>2. [run.leases EXCEPT ![g.client] = NoGrant] \in [Clients -> SignedTask \cup {NoGrant}]
    BY <1>1 DEF Run
  <2>3. run.results \cup {g.client} \in SUBSET Clients
    BY <1>1 DEF Run
  <2> QED
    BY <1>1, <2>1, <2>2, <2>3 DEF RunOK, Run
<1>3. CASE ~Takes(g)
  BY <1>3 DEF AfterResult
<1> QED
  BY <1>2, <1>3

-----------------------------------------------------------------------------
(* The steps of a worker: one process moves, and one journal is written. *)

Moves(w) == proc' \in [Workers -> Process] /\ \A v \in Workers \ {w} : proc'[v] = proc[v]

Writes(w) ==
  /\ journal' \in [Workers -> [Ids -> Entry]]
  /\ \A v \in Workers \ {w} : journal'[v] = journal[v]
  /\ \A id \in Ids : journal'[w][id].status \in Done => journal'[w][id].sequence \in taken'

LEMMA Unwritten ==
  ASSUME IInv, NEW w \in Workers, journal' = journal, taken \subseteq taken'
  PROVE  Writes(w)
BY DEF IInv, TypeOK, Writes, SubmittedWasTaken

(* A status is only written to the entry of the task at hand. *)
LEMMA Written ==
  ASSUME IInv, NEW w \in Workers, proc[w].at \in Verified \ {"record"}, NEW status \in Statuses,
         Journal(w, status), taken' = taken, status \in Done => proc[w].grant.sequence \in taken
  PROVE  Writes(w) /\ journal'[w][proc[w].grant.id].sequence = proc[w].grant.sequence
<1> DEFINE id == proc[w].grant.id
           entry == [journal[w][id] EXCEPT !.status = status]
<1>1. /\ journal \in [Workers -> [Ids -> Entry]]
      /\ proc[w].grant \in wire /\ journal[w][id].sequence = proc[w].grant.sequence
  <2>1. proc[w].at \notin {"down", "acquire"}
    BY DEF Verified
  <2> QED
    BY <2>1 DEF IInv, TypeOK, WorkerOK
<1>2. id \in Ids
  BY <1>1 DEF IInv, TypeOK, SignedTask
<1>3. entry \in Entry /\ entry.status = status /\ entry.sequence = proc[w].grant.sequence
  <2>1. journal[w][id] \in Entry
    BY <1>1, <1>2
  <2> HIDE DEF id
  <2> QED
    BY <2>1, <1>1 DEF Entry
<1>4. journal' = [journal EXCEPT ![w] = [journal[w] EXCEPT ![id] = entry]]
  BY <1>1, <1>2 DEF Journal
<1> HIDE DEF id, entry
<1>5. journal' \in [Workers -> [Ids -> Entry]] /\ \A v \in Workers \ {w} : journal'[v] = journal[v]
  BY <1>1, <1>2, <1>3, <1>4
<1>6. \A i \in Ids : journal'[w][i] = IF i = id THEN entry ELSE journal[w][i]
  BY <1>1, <1>2, <1>4
<1>7. \A i \in Ids : journal'[w][i].status \in Done => journal'[w][i].sequence \in taken'
  BY <1>3, <1>6 DEF IInv, SubmittedWasTaken
<1> QED
  BY <1>2, <1>3, <1>5, <1>6, <1>7 DEF Writes, id

(* The other workers keep what they rely on. *)
LEMMA OthersKeep ==
  ASSUME IInv, NEW w \in Workers, Moves(w), Writes(w), config' = config,
         wire \subseteq wire', taken \subseteq taken',
         \A v \in Workers \ {w} : replay'[v] = replay[v],
         \A v \in Workers \ {w} :
           proc[v].at \in BeforeTraining => proc[v].grant.sequence \notin trained'
  PROVE  SubmittedWasTaken' /\ \A v \in Workers \ {w} : WorkerOK(v)'
<1>1. \A v \in Workers \ {w} :
        proc'[v] = proc[v] /\ journal'[v] = journal[v] /\ replay'[v] = replay[v]
  BY DEF Moves, Writes
<1>2. SubmittedWasTaken'
  <2> SUFFICES ASSUME NEW v \in Workers, NEW id \in Ids, journal'[v][id].status \in Done
               PROVE  journal'[v][id].sequence \in taken'
    BY DEF SubmittedWasTaken
  <2>1. CASE v = w
    BY <2>1 DEF Writes
  <2>2. CASE v # w
    BY <2>2, <1>1 DEF IInv, SubmittedWasTaken
  <2> QED
    BY <2>1, <2>2
<1>3. ASSUME NEW v \in Workers \ {w} PROVE WorkerOK(v)'
  <2>1. WorkerOK(v)
    BY DEF IInv
  <2> QED
    BY <2>1, <1>1 DEF WorkerOK
<1> QED
  BY <1>2, <1>3

(* A step that concerns its worker alone. *)
LEMMA LocalStep ==
  ASSUME IInv, NEW w \in Workers, Moves(w), Writes(w),
         UNCHANGED <<config, run, replay, wire, history>>, faults' \in Nat, crashes' \in Nat,
         WorkerOK(w)'
  PROVE  IInv'
<1>1. TypeOK'
  BY DEF IInv, TypeOK, Moves, Writes, history
<1>2. SubmittedWasTaken' /\ \A v \in Workers \ {w} : WorkerOK(v)'
  <2>1. \A v \in Workers : proc[v].at \in BeforeTraining => proc[v].grant.sequence \notin trained
    BY DEF IInv, WorkerOK
  <2> QED
    BY <2>1, OthersKeep DEF history
<1>3. Sound(run.dispatcher)' /\ Issued' /\ TrainedWasVerified'
  BY DEF IInv, Issued, TrainedWasVerified, history
<1> QED
  BY <1>1, <1>2, <1>3 DEF IInv

LEMMA IdleOK ==
  ASSUME NEW w \in Workers, proc'[w].at \in {"down", "acquire"}
  PROVE  WorkerOK(w)'
BY DEF WorkerOK, Verified, BeforeTraining, Leaving

(* A process that gives its task up, or dies, relies on nothing. *)
LEMMA Idles ==
  ASSUME IInv, NEW w \in Workers, NextTask(w) \/ proc' = [proc EXCEPT ![w] = Down], Writes(w),
         UNCHANGED <<config, run, replay, wire, history>>, faults' \in Nat, crashes' \in Nat
  PROVE  IInv'
<1>1. proc \in [Workers -> Process] /\ proc[w] \in Process
  BY DEF IInv, TypeOK
<1>2. PICK p \in Process : p.at \in {"down", "acquire"} /\ proc' = [proc EXCEPT ![w] = p]
  <2>1. Down \in Process /\ Down.at = "down"
    BY DEF Down, Process, Places
  <2>2. ASSUME NextTask(w) PROVE \E p \in Process : p.at \in {"down", "acquire"} /\ proc' = [proc EXCEPT ![w] = p]
    <3> DEFINE p == [Down EXCEPT !.at = "acquire", !.stopped = proc[w].stopped]
    <3>1. "acquire" \in Places /\ proc[w].stopped \in SUBSET Clients
      BY <1>1 DEF Process, Places
    <3>2. p \in Process /\ p.at = "acquire"
      BY <3>1 DEF Process, Down
    <3>3. proc' = [proc EXCEPT ![w] = p]
      BY <2>2 DEF NextTask
    <3> QED
      BY <3>2, <3>3
  <2> QED
    BY <2>1, <2>2
<1>3. Moves(w) /\ proc'[w] = p
  BY <1>1, <1>2 DEF Moves
<1>4. WorkerOK(w)'
  BY <1>2, <1>3, IdleOK
<1> QED
  BY <1>3, <1>4, LocalStep

(* A process goes on with a task it has journaled. *)
LEMMA CarriesOn ==
  ASSUME IInv, NEW w \in Workers, NEW p \in Process, proc' = [proc EXCEPT ![w] = p],
         proc[w].at \in Verified \ {"record"}, p.at \in Verified \ {"record"},
         p.grant = proc[w].grant,
         p.at \in BeforeTraining => proc[w].at \in BeforeTraining,
         p.at \in {"accepted", "complete"} => p.grant.sequence \in taken,
         config.policy \in Promised /\ p.at = "train" => p.steps < config.budget,
         config.policy \in Promised /\ p.at \in Leaving => p.steps \in 1..(config.budget - 1),
         \/ journal' = journal
         \/ \E status \in Statuses :
              Journal(w, status) /\ (status \in Done => proc[w].grant.sequence \in taken),
         UNCHANGED <<config, run, replay, wire, history>>, faults' \in Nat, crashes' = crashes
  PROVE  IInv'
<1>1. proc \in [Workers -> Process] /\ WorkerOK(w) /\ crashes \in Nat
  BY DEF IInv, TypeOK
<1>2. Moves(w) /\ proc'[w] = p
  BY <1>1 DEF Moves
<1>3. Writes(w) /\ journal'[w][p.grant.id].sequence = p.grant.sequence
  <2>1. CASE journal' = journal
    <3>1. Writes(w)
      BY <2>1, Unwritten DEF history
    <3>2. journal[w][p.grant.id].sequence = p.grant.sequence
      BY <1>1 DEF WorkerOK
    <3> QED
      BY <2>1, <3>1, <3>2
  <2>2. CASE \E status \in Statuses :
               Journal(w, status) /\ (status \in Done => proc[w].grant.sequence \in taken)
    <3>1. PICK status \in Statuses :
            Journal(w, status) /\ (status \in Done => proc[w].grant.sequence \in taken)
      BY <2>2
    <3>2. taken' = taken
      BY DEF history
    <3> QED
      BY <3>1, <3>2, Written
  <2> QED
    BY <2>1, <2>2
<1>4. WorkerOK(w)'
  <2>1. /\ proc[w].grant \in wire /\ proc[w].grant.worker = w /\ proc[w].grant.sequence = replay[w]
        /\ proc[w].at \in BeforeTraining => proc[w].grant.sequence \notin trained
    BY <1>1 DEF WorkerOK, Verified
  <2>2. config' = config /\ wire' = wire /\ replay' = replay /\ trained' = trained /\ taken' = taken
    BY DEF history
  <2> QED
    BY <1>2, <1>3, <2>1, <2>2 DEF WorkerOK
<1> QED
  BY <1>1, <1>2, <1>3, <1>4, LocalStep

(* What a change of place leaves of a process. *)
LEMMA PlaceMoves ==
  ASSUME TypeOK, NEW w \in Workers, NEW place \in Places, Goto(w, place)
  PROVE  \E p \in Process : /\ proc' = [proc EXCEPT ![w] = p]
                            /\ p.at = place /\ p.grant = proc[w].grant /\ p.steps = proc[w].steps
<1>1. proc \in [Workers -> Process] /\ proc[w] \in Process
  BY DEF TypeOK
<1> DEFINE p == [proc[w] EXCEPT !.at = place]
<1>2. p \in Process /\ p.at = place /\ p.grant = proc[w].grant /\ p.steps = proc[w].steps
  BY <1>1 DEF Process
<1>3. proc' = [proc EXCEPT ![w] = p]
  BY DEF Goto
<1> QED
  BY <1>2, <1>3

(* acquire_task: the coordinator hands out a task, and its reply arrives or not. *)
LEMMA AcquireStep ==
  ASSUME IInv, NEW w \in Workers, AcquireTask(w)
  PROVE  IInv'
<1>1. PICK order \in Requeues :
        /\ CanAcquire(Advanced(order).dispatcher, w)
        /\ run' = AfterGrant(Advanced(order), Granted(Advanced(order), w))
        /\ wire' = wire \cup {Granted(Advanced(order), w)}
        /\ \/ Receive(w, Granted(Advanced(order), w)) /\ faults' = faults
           \/ proc' = proc /\ faults' = faults + 1
  BY DEF AcquireTask
<1> DEFINE g == Granted(Advanced(order), w)
<1>2. /\ proc[w].at = "acquire"
      /\ config' = config /\ journal' = journal /\ replay' = replay
      /\ trained' = trained /\ taken' = taken /\ crashes' = crashes
  BY DEF AcquireTask, durable, history
<1>3. /\ RunOK(Advanced(order)) /\ Advanced(order).sequence = run.sequence
      /\ run.sequence \in Nat
  BY AdvancedOK DEF IInv, TypeOK, RunOK, Run
<1>4. /\ g \in SignedTask /\ g.sequence = run.sequence + 1
      /\ RunOK(run') /\ run'.sequence = run.sequence + 1
  BY <1>1, <1>3, GrantedOK
<1>5. /\ wire' = wire \cup {g}
      /\ \/ Receive(w, g) /\ faults' = faults
         \/ proc' = proc /\ faults' = faults + 1
  BY <1>1
<1> HIDE DEF g
<1>6. proc \in [Workers -> Process] /\ proc[w] \in Process
  BY DEF IInv, TypeOK
<1>7. Moves(w) /\ WorkerOK(w)'
  <2>1. CASE Receive(w, g)
    <3> DEFINE p == [proc[w] EXCEPT !.at = "verify", !.grant = g]
    <3>1. proc' = [proc EXCEPT ![w] = p]
      BY <2>1, <1>6 DEF Receive
    <3>2. p \in Process /\ p.at = "verify" /\ p.grant = g
      BY <1>4, <1>6 DEF Process, Places
    <3> HIDE DEF p
    <3>3. Moves(w) /\ proc'[w] = p
      BY <3>1, <3>2, <1>6 DEF Moves
    <3> QED
      BY <3>2, <3>3, <1>5 DEF WorkerOK, Verified, BeforeTraining, Leaving
  <2>2. CASE proc' = proc
    <3>1. WorkerOK(w)'
      BY <2>2, <1>2, IdleOK
    <3> QED
      BY <2>2, <3>1, <1>6 DEF Moves
  <2> QED
    BY <2>1, <2>2, <1>5
<1>8. Writes(w)
  BY <1>2, Unwritten
<1>9. SubmittedWasTaken' /\ \A v \in Workers \ {w} : WorkerOK(v)'
  <2>1. \A v \in Workers : proc[v].at \in BeforeTraining => proc[v].grant.sequence \notin trained
    BY DEF IInv, WorkerOK
  <2> QED
    BY <2>1, <1>2, <1>5, <1>7, <1>8, OthersKeep
<1>10. TypeOK'
  <2>1. faults' \in Nat
    BY <1>5 DEF IInv, TypeOK
  <2>2. wire' \subseteq SignedTask
    BY <1>4, <1>5 DEF IInv, TypeOK
  <2> QED
    BY <2>1, <2>2, <1>2, <1>4, <1>7, <1>8 DEF IInv, TypeOK, RunOK, Moves, Writes
<1>11. Issued'
  <2>1. \A h \in wire : h.sequence \in Nat /\ h.sequence <= run.sequence
    BY DEF IInv, TypeOK, Issued, SignedTask
  <2>2. \A h \in wire : h.sequence <= run.sequence + 1 /\ h.sequence # g.sequence
    BY <2>1, <1>3, <1>4
  <2> QED
    BY <2>2, <1>3, <1>4, <1>5 DEF IInv, Issued
<1>12. TrainedWasVerified'
  BY <1>2, <1>5 DEF IInv, TrainedWasVerified
<1> QED
  BY <1>4, <1>7, <1>9, <1>10, <1>11, <1>12 DEF IInv, RunOK

(* verify_coordinator_task: what passes was never trained, as its number is new. *)
LEMMA VerifyStep ==
  ASSUME IInv, NEW w \in Workers, VerifyTask(w)
  PROVE  IInv'
<1> DEFINE g == proc[w].grant
<1>1. /\ proc[w].at = "verify"
      /\ config' = config /\ run' = run /\ journal' = journal /\ wire' = wire
      /\ trained' = trained /\ taken' = taken /\ faults' = faults /\ crashes' = crashes
      /\ \/ Valid(w, g) /\ replay' = [replay EXCEPT ![w] = g.sequence] /\ Goto(w, "record")
         \/ NextTask(w) /\ replay' = replay
  BY DEF VerifyTask, history
<1>2. proc \in [Workers -> Process] /\ TypeOK /\ faults \in Nat /\ crashes \in Nat
  BY DEF IInv, TypeOK
<1>3. Writes(w)
  BY <1>1, Unwritten
<1>4. CASE NextTask(w) /\ replay' = replay
  BY <1>1, <1>2, <1>3, <1>4, Idles DEF history
<1>5. CASE Valid(w, g) /\ replay' = [replay EXCEPT ![w] = g.sequence] /\ Goto(w, "record")
  <2>1. g \in wire /\ g \in SignedTask /\ g.worker = w
    BY <1>1, <1>5 DEF IInv, TypeOK, WorkerOK, Valid
  <2>2. g.sequence \in Nat /\ replay[w] \in Nat /\ replay[w] < g.sequence
    <3>1. g.sequence \in Nat /\ replay[w] \in Nat
      BY <2>1 DEF IInv, TypeOK, SignedTask
    <3> QED
      BY <3>1, <1>5 DEF Valid, Replayed
  <2>3. g.sequence \notin trained
    <3> SUFFICES ASSUME g.sequence \in trained PROVE FALSE
      OBVIOUS
    <3>1. PICK h \in wire : h.sequence = g.sequence /\ g.sequence <= replay[h.worker]
      BY DEF IInv, TrainedWasVerified
    <3>2. h = g
      BY <3>1, <2>1 DEF IInv, Issued
    <3> QED
      BY <3>1, <3>2, <2>1, <2>2
  <2>4. PICK p \in Process : proc' = [proc EXCEPT ![w] = p] /\ p.at = "record" /\ p.grant = g
    <3>1. "record" \in Places
      BY DEF Places
    <3> QED
      BY <3>1, <1>2, <1>5, PlaceMoves
  <2>5. Moves(w) /\ proc'[w] = p /\ replay'[w] = g.sequence
    BY <2>4, <1>2, <1>5 DEF Moves, TypeOK
  <2>6. \A v \in Workers : replay'[v] \in Nat /\ replay[v] <= replay'[v]
    <3>1. \A v \in Workers : replay[v] \in Nat /\ replay'[v] = IF v = w THEN g.sequence ELSE replay[v]
      BY <1>5, <1>2 DEF TypeOK
    <3> HIDE DEF g
    <3> QED
      BY <3>1, <2>2
  <2>7. WorkerOK(w)'
    BY <1>1, <2>1, <2>3, <2>4, <2>5 DEF WorkerOK, Verified, BeforeTraining, Leaving
  <2>8. SubmittedWasTaken' /\ \A v \in Workers \ {w} : WorkerOK(v)'
    <3>1. \A v \in Workers : proc[v].at \in BeforeTraining => proc[v].grant.sequence \notin trained
      BY DEF IInv, WorkerOK
    <3>2. \A v \in Workers \ {w} : replay'[v] = replay[v]
      BY <1>5, <1>2 DEF TypeOK
    <3> QED
      BY <3>1, <3>2, <1>1, <1>3, <2>5, OthersKeep
  <2>9. TypeOK'
    <3>1. replay' \in [Workers -> Nat]
      BY <1>2, <1>5, <2>2 DEF TypeOK
    <3> QED
      BY <3>1, <1>1, <1>2, <2>5 DEF TypeOK, Moves
  <2>10. TrainedWasVerified'
    <3> SUFFICES ASSUME NEW s \in trained PROVE \E h \in wire : h.sequence = s /\ s <= replay'[h.worker]
      BY <1>1 DEF TrainedWasVerified
    <3>1. PICK h \in wire : h.sequence = s /\ s <= replay[h.worker]
      BY DEF IInv, TrainedWasVerified
    <3>2. h.worker \in Workers /\ s \in Nat /\ replay[h.worker] \in Nat
      BY <1>2, <3>1 DEF TypeOK, SignedTask
    <3>3. s <= replay'[h.worker]
      BY <3>1, <3>2, <2>6
    <3> QED
      BY <3>1, <3>3
  <2>11. Sound(run.dispatcher)' /\ Issued'
    BY <1>1 DEF IInv, Issued
  <2> QED
    BY <2>7, <2>8, <2>9, <2>10, <2>11 DEF IInv
<1> QED
  BY <1>1, <1>4, <1>5

(* Training begins on a task nobody else holds past verification. *)
LEMMA TrainingBegins ==
  ASSUME IInv, NEW w \in Workers, BeginTraining(w), proc[w].grant.client \notin proc[w].stopped
  PROVE  IInv'
<1> DEFINE g == proc[w].grant
<1>1. /\ proc[w].at = "begin" /\ Journal(w, "TRAINING")
      /\ proc' = [proc EXCEPT ![w].at = "train", ![w].steps = 0]
      /\ trained' = trained \cup {g.sequence}
      /\ config' = config /\ run' = run /\ replay' = replay /\ wire' = wire
      /\ taken' = taken /\ faults' = faults /\ crashes' = crashes
  BY DEF BeginTraining
<1>2. proc \in [Workers -> Process] /\ TypeOK /\ proc[w] \in Process
  BY DEF IInv, TypeOK
<1>3. g \in wire /\ g \in SignedTask /\ g.worker = w /\ g.sequence = replay[w] /\ g.sequence \in Nat
  <2>1. proc[w].at \in Verified
    BY <1>1 DEF Verified, Places
  <2>2. g \in wire /\ g.worker = w /\ g.sequence = replay[w]
    BY <2>1 DEF IInv, WorkerOK, Verified
  <2> QED
    BY <2>2, <1>2 DEF TypeOK, SignedTask
<1>4. Writes(w) /\ journal'[w][g.id].sequence = g.sequence
  <2>1. proc[w].at \in Verified \ {"record"} /\ "TRAINING" \in Statuses /\ "TRAINING" \notin Done
    BY <1>1 DEF Verified, Places, Statuses, InFlight, Done
  <2> QED
    BY <2>1, <1>1, Written
<1>5. PICK p \in Process :
        proc' = [proc EXCEPT ![w] = p] /\ p.at = "train" /\ p.grant = g /\ p.steps = 0
  <2> DEFINE p == [proc[w] EXCEPT !.at = "train", !.steps = 0]
  <2>1. p \in Process /\ p.at = "train" /\ p.grant = g /\ p.steps = 0
    BY <1>2 DEF Process, Places
  <2>2. proc' = [proc EXCEPT ![w] = p]
    BY <1>1, <1>2
  <2> QED
    BY <2>1, <2>2
<1>6. Moves(w) /\ proc'[w] = p
  BY <1>2, <1>5 DEF Moves
<1>7. WorkerOK(w)'
  <2>1. config.budget \in Nat /\ 0 < config.budget
    BY <1>2, ConfigsAssumption, WorkerAssumption DEF TypeOK
  <2> QED
    BY <2>1, <1>1, <1>3, <1>4, <1>5, <1>6 DEF WorkerOK, Verified, BeforeTraining, Leaving
<1>8. SubmittedWasTaken' /\ \A v \in Workers \ {w} : WorkerOK(v)'
  <2>1. ASSUME NEW v \in Workers \ {w}, proc[v].at \in BeforeTraining
        PROVE  proc[v].grant.sequence \notin trained'
    <3>1. /\ proc[v].grant \in wire /\ proc[v].grant.worker = v
          /\ proc[v].grant.sequence \notin trained
      <4>1. proc[v].at \in Verified
        BY <2>1 DEF Verified, BeforeTraining, Places
      <4> QED
        BY <4>1, <2>1 DEF IInv, WorkerOK, Verified
    <3>2. proc[v].grant.sequence # g.sequence
      BY <3>1, <1>3 DEF IInv, Issued
    <3> QED
      BY <3>1, <3>2, <1>1
  <2> QED
    BY <2>1, <1>1, <1>4, <1>6, OthersKeep
<1>9. TypeOK'
  BY <1>1, <1>2, <1>3, <1>4, <1>6 DEF TypeOK, Moves, Writes
<1>10. TrainedWasVerified'
  <2>1. g.sequence <= replay[g.worker]
    BY <1>3
  <2> QED
    BY <2>1, <1>1, <1>3 DEF IInv, TrainedWasVerified
<1>11. Sound(run.dispatcher)' /\ Issued'
  BY <1>1 DEF IInv, Issued
<1> QED
  BY <1>7, <1>8, <1>9, <1>10, <1>11 DEF IInv

(* One call with a result: lost, taken or refused, its answer heard or not. *)
LEMMA SendStep ==
  ASSUME IInv, NEW w \in Workers, proc[w].at = "submit", Send(w, proc[w].grant)
  PROVE  IInv'
<1> DEFINE g == proc[w].grant
<1>1. /\ config' = config /\ journal' = journal /\ replay' = replay /\ wire' = wire
      /\ trained' = trained /\ crashes' = crashes
      /\ \/ run' = run /\ taken' = taken
         \/ run' = AfterResult(g) /\ taken' = IF Takes(g) THEN taken \cup {g.sequence} ELSE taken
      /\ faults' = faults \/ faults' = faults + 1
      /\ \/ Unanswered(w) \/ Goto(w, "fail")
         \/ Goto(w, "accepted") /\ g.sequence \in taken'
  BY DEF Send, durable
<1>2. proc \in [Workers -> Process] /\ TypeOK /\ proc[w] \in Process
  BY DEF IInv, TypeOK
<1>3. g \in wire /\ g \in SignedTask /\ g.sequence \in Nat /\ WorkerOK(w)
  BY <1>2 DEF IInv, TypeOK, WorkerOK, SignedTask
<1>4. RunOK(run') /\ run'.sequence = run.sequence
  BY <1>1, <1>3, AfterResultOK DEF IInv, TypeOK, RunOK
<1>5. taken \subseteq taken' /\ taken' \subseteq Nat
  BY <1>1, <1>2, <1>3 DEF TypeOK
<1>6. PICK p \in Process :
        /\ proc' = [proc EXCEPT ![w] = p]
        /\ p.at \in {"submit", "fail", "accepted"} /\ p.grant = g /\ p.steps = proc[w].steps
        /\ p.at = "accepted" => g.sequence \in taken'
  <2>1. {"fail", "accepted"} \subseteq Places
    BY DEF Places
  <2>2. CASE Goto(w, "fail")
    BY <2>1, <2>2, <1>2, PlaceMoves
  <2>3. CASE Goto(w, "accepted") /\ g.sequence \in taken'
    BY <2>1, <2>3, <1>2, PlaceMoves
  <2>4. CASE proc' = [proc EXCEPT ![w].tries = @ + 1]
    <3> DEFINE p == [proc[w] EXCEPT !.tries = @ + 1]
    <3>1. p \in Process /\ p.at = "submit" /\ p.grant = g /\ p.steps = proc[w].steps
      BY <1>2 DEF Process
    <3>2. proc' = [proc EXCEPT ![w] = p]
      BY <2>4, <1>2
    <3> QED
      BY <3>1, <3>2
  <2> QED
    BY <2>2, <2>3, <2>4, <1>1 DEF Unanswered
<1>7. Moves(w) /\ proc'[w] = p
  BY <1>2, <1>6 DEF Moves
<1>8. Writes(w)
  BY <1>1, <1>5, Unwritten
<1>9. WorkerOK(w)'
  BY <1>1, <1>3, <1>6, <1>7 DEF WorkerOK, Verified, BeforeTraining, Leaving, Places
<1>10. SubmittedWasTaken' /\ \A v \in Workers \ {w} : WorkerOK(v)'
  <2>1. \A v \in Workers : proc[v].at \in BeforeTraining => proc[v].grant.sequence \notin trained
    BY DEF IInv, WorkerOK
  <2> QED
    BY <2>1, <1>1, <1>5, <1>7, <1>8, OthersKeep
<1>11. TypeOK'
  <2>1. faults' \in Nat
    BY <1>1, <1>2 DEF TypeOK
  <2> QED
    BY <2>1, <1>1, <1>2, <1>4, <1>5, <1>7 DEF TypeOK, RunOK, Moves
<1>12. Issued' /\ TrainedWasVerified'
  BY <1>1, <1>4 DEF IInv, Issued, TrainedWasVerified
<1> QED
  BY <1>4, <1>9, <1>10, <1>11, <1>12 DEF IInv, RunOK

-----------------------------------------------------------------------------
(* The invariant. *)

LEMMA InitIInv == Init => IInv
<1> SUFFICES ASSUME Init PROVE IInv
  OBVIOUS
<1>1. RunOK(run) /\ run.sequence = 0
  BY FreshRunOK DEF Init
<1>2. \A w \in Workers : proc[w].at = "down"
  BY DEF Init, Down
<1>3. TypeOK
  <2>1. Down \in Process
    BY DEF Down, Process, Places
  <2>2. NoEntry \in Entry
    BY DEF NoEntry, Entry, Statuses
  <2> QED
    BY <1>1, <2>1, <2>2 DEF Init, TypeOK, RunOK
<1>4. \A w \in Workers : WorkerOK(w)
  BY <1>2 DEF WorkerOK, Verified, BeforeTraining, Leaving
<1>5. Issued /\ TrainedWasVerified
  BY DEF Init, Issued, TrainedWasVerified
<1>6. SubmittedWasTaken
  BY DEF Init, SubmittedWasTaken, NoEntry, Done
<1> QED
  BY <1>1, <1>3, <1>4, <1>5, <1>6 DEF IInv, RunOK

(* The coordinator's own steps: the run changes, and no number is given. *)
LEMMA CoordinatorStep ==
  ASSUME IInv, UNCHANGED <<config, proc, durable, wire, history, faults, crashes>>,
         RunOK(run'), run'.sequence = run.sequence
  PROVE  IInv'
<1>1. /\ config' = config /\ proc' = proc /\ journal' = journal /\ replay' = replay
      /\ wire' = wire /\ trained' = trained /\ taken' = taken
      /\ faults' = faults /\ crashes' = crashes
  BY DEF durable, history
<1>2. TypeOK' /\ Sound(run.dispatcher)'
  BY <1>1 DEF IInv, TypeOK, RunOK
<1>3. Issued' /\ TrainedWasVerified' /\ SubmittedWasTaken'
  BY <1>1 DEF IInv, Issued, TrainedWasVerified, SubmittedWasTaken
<1>4. \A w \in Workers : WorkerOK(w)'
  BY <1>1 DEF IInv, WorkerOK
<1> QED
  BY <1>2, <1>3, <1>4 DEF IInv

LEMMA RegisterStep ==
  ASSUME IInv, NEW w \in Workers, Register(w)
  PROVE  IInv'
<1>1. journal \in [Workers -> [Ids -> Entry]] /\ faults \in Nat /\ crashes \in Nat
  BY DEF IInv, TypeOK
<1>2. \A id \in Ids : /\ RecoveredEntry(journal[w][id]) \in Entry
                      /\ RecoveredEntry(journal[w][id]).sequence = journal[w][id].sequence
                      /\ RecoveredEntry(journal[w][id]).status \in Done => journal[w][id].status \in Done
  <2> SUFFICES ASSUME NEW e \in Entry
               PROVE  /\ RecoveredEntry(e) \in Entry /\ RecoveredEntry(e).sequence = e.sequence
                      /\ RecoveredEntry(e).status \in Done => e.status \in Done
    BY <1>1
  <2>1. "FAILED" \in Statuses /\ "FAILED" \notin Done
    BY DEF Statuses, Done
  <2> QED
    BY <2>1 DEF RecoveredEntry, Entry
<1>3. journal' = [journal EXCEPT ![w] = [id \in Ids |-> RecoveredEntry(journal[w][id])]]
  BY DEF Register
<1>4. Writes(w)
  <2>1. journal' \in [Workers -> [Ids -> Entry]] /\ \A v \in Workers \ {w} : journal'[v] = journal[v]
    BY <1>1, <1>2, <1>3
  <2>2. \A id \in Ids : journal'[w][id] = RecoveredEntry(journal[w][id])
    BY <1>1, <1>3
  <2>3. taken' = taken
    BY DEF Register, history
  <2> QED
    BY <1>2, <2>1, <2>2, <2>3 DEF Writes, IInv, SubmittedWasTaken
<1> QED
  BY <1>1, <1>4, Idles DEF Register

LEMMA ReceiveAgainStep ==
  ASSUME IInv, NEW w \in Workers, ReceiveAgain(w)
  PROVE  IInv'
<1>1. PICK g \in wire : Receive(w, g)
  BY DEF ReceiveAgain
<1>2. proc \in [Workers -> Process] /\ proc[w] \in Process /\ g \in SignedTask
      /\ faults' \in Nat /\ crashes' \in Nat
  BY DEF IInv, TypeOK, ReceiveAgain
<1>3. UNCHANGED <<config, run, replay, wire, history>> /\ journal' = journal
  BY DEF ReceiveAgain, durable
<1> DEFINE p == [proc[w] EXCEPT !.at = "verify", !.grant = g]
<1>4. proc' = [proc EXCEPT ![w] = p]
  BY <1>1, <1>2 DEF Receive
<1>5. p \in Process /\ p.at = "verify" /\ p.grant = g
  BY <1>2 DEF Process, Places
<1> HIDE DEF p
<1>6. Moves(w) /\ proc'[w] = p
  BY <1>2, <1>4, <1>5 DEF Moves
<1>7. Writes(w)
  BY <1>3, Unwritten DEF history
<1>8. WorkerOK(w)'
  BY <1>3, <1>5, <1>6 DEF WorkerOK, Verified, BeforeTraining, Leaving
<1> QED
  BY <1>2, <1>3, <1>6, <1>7, <1>8, LocalStep

(* record_accepted: the entry is the task's from now on. *)
LEMMA RecordAcceptedStep ==
  ASSUME IInv, NEW w \in Workers, RecordAccepted(w)
  PROVE  IInv'
<1> DEFINE g == proc[w].grant
           entry == [status |-> "ACCEPTED", attempt |-> g.attempt, sequence |-> g.sequence]
<1>1. /\ proc[w].at = "record" /\ UNCHANGED <<config, run, replay, wire, history>>
      /\ faults' = faults /\ crashes' = crashes
      /\ \/ NextTask(w) /\ journal' = journal
         \/ journal' = [journal EXCEPT ![w][g.id] = entry] /\ Goto(w, "handshake")
  BY DEF RecordAccepted
<1>2. TypeOK /\ faults \in Nat /\ crashes \in Nat /\ WorkerOK(w)
      /\ proc \in [Workers -> Process] /\ journal \in [Workers -> [Ids -> Entry]]
  BY DEF IInv, TypeOK
<1>3. CASE NextTask(w) /\ journal' = journal
  <2>1. Writes(w)
    BY <1>1, <1>3, Unwritten DEF history
  <2> QED
    BY <1>1, <1>2, <1>3, <2>1, Idles
<1>4. CASE journal' = [journal EXCEPT ![w][g.id] = entry] /\ Goto(w, "handshake")
  <2>1. g \in wire /\ g \in SignedTask /\ g.worker = w /\ g.sequence = replay[w] /\ g.sequence \notin trained
    BY <1>1, <1>2 DEF TypeOK, WorkerOK, Verified, BeforeTraining, Places
  <2>2. entry \in Entry /\ entry.status \notin Done /\ entry.sequence = g.sequence /\ g.id \in Ids
    BY <2>1 DEF Entry, SignedTask, Statuses, Done
  <2> HIDE DEF entry
  <2>3. journal' \in [Workers -> [Ids -> Entry]] /\ \A v \in Workers \ {w} : journal'[v] = journal[v]
    BY <1>2, <1>4, <2>2
  <2>4. \A id \in Ids : journal'[w][id] = IF id = g.id THEN entry ELSE journal[w][id]
    BY <1>2, <1>4, <2>2
  <2>5. Writes(w)
    BY <1>1, <2>2, <2>3, <2>4 DEF Writes, IInv, SubmittedWasTaken, history
  <2>6. PICK p \in Process : proc' = [proc EXCEPT ![w] = p] /\ p.at = "handshake" /\ p.grant = g
    <3>1. "handshake" \in Places
      BY DEF Places
    <3> QED
      BY <3>1, <1>2, <1>4, PlaceMoves
  <2>7. Moves(w) /\ proc'[w] = p
    BY <2>6, <1>2 DEF Moves
  <2>8. WorkerOK(w)'
    <3>1. journal'[w][g.id].sequence = g.sequence
      BY <2>2, <2>4
    <3>2. wire' = wire /\ replay' = replay /\ trained' = trained
      BY <1>1 DEF history
    <3> QED
      BY <3>1, <3>2, <2>1, <2>6, <2>7 DEF WorkerOK, Verified, BeforeTraining, Leaving
  <2> QED
    BY <1>1, <1>2, <2>5, <2>7, <2>8, LocalStep
<1> QED
  BY <1>1, <1>3, <1>4

(* A worker goes to another place with its task; only the journal may change besides. *)
LEMMA GoesOn ==
  ASSUME IInv, NEW w \in Workers, NEW place \in Verified \ {"record", "train"}, Goto(w, place),
         proc[w].at \in Verified \ {"record"},
         place \in BeforeTraining => proc[w].at \in BeforeTraining,
         place \in {"accepted", "complete"} => proc[w].at \in {"accepted", "complete"},
         place \in Leaving => proc[w].at \in Leaving,
         \/ journal' = journal
         \/ \E status \in Statuses :
              Journal(w, status) /\ (status \in Done => proc[w].grant.sequence \in taken),
         UNCHANGED <<config, run, replay, wire, history>>, faults' = faults, crashes' = crashes
  PROVE  IInv'
<1>1. TypeOK /\ WorkerOK(w) /\ faults \in Nat
  BY DEF IInv, TypeOK
<1>2. PICK p \in Process :
        proc' = [proc EXCEPT ![w] = p] /\ p.at = place /\ p.grant = proc[w].grant
        /\ p.steps = proc[w].steps
  <2>1. place \in Places
    BY DEF Verified
  <2> QED
    BY <2>1, <1>1, PlaceMoves
<1>3. place \in {"accepted", "complete"} => proc[w].grant.sequence \in taken
  BY <1>1 DEF WorkerOK
<1>4. config.policy \in Promised /\ place \in Leaving => p.steps \in 1..(config.budget - 1)
  BY <1>1, <1>2 DEF WorkerOK
<1> QED
  BY <1>1, <1>2, <1>3, <1>4, CarriesOn

LEMMA GivesUp ==
  ASSUME IInv, NEW w \in Workers, NextTask(w) \/ proc' = [proc EXCEPT ![w] = Down],
         UNCHANGED <<config, run, replay, wire, history>>, journal' = journal,
         faults' \in Nat, crashes' \in Nat
  PROVE  IInv'
<1>1. Writes(w)
  BY Unwritten DEF history
<1> QED
  BY <1>1, Idles

(* The handshake goes on, gives the task up, or ends the process. *)
LEMMA HandshakeStep ==
  ASSUME IInv, NEW w \in Workers, AdvertiseKey(w) \/ PollRoster(w)
  PROVE  IInv'
<1>1. /\ proc[w].at \in {"handshake", "roster"}
      /\ UNCHANGED <<config, run, replay, wire, history>> /\ journal' = journal
      /\ crashes' = crashes /\ (faults' = faults \/ faults' = faults + 1)
  BY DEF AdvertiseKey, PollRoster, Unreachable, durable
<1>2. /\ proc \in [Workers -> Process] /\ proc[w] \in Process
      /\ faults \in Nat /\ faults' \in Nat /\ crashes \in Nat
  BY <1>1 DEF IInv, TypeOK
<1>3. proc[w].at \in BeforeTraining /\ proc[w].at \in Verified \ {"record"}
  BY <1>1 DEF BeforeTraining, Verified, Places
<1>4. CASE NextTask(w) \/ proc' = [proc EXCEPT ![w] = Down]
  BY <1>1, <1>2, <1>4, GivesUp
<1>5. CASE \E p \in Process : /\ proc' = [proc EXCEPT ![w] = p]
                              /\ p.at \in {"roster", "prepare"} /\ p.grant = proc[w].grant
  <2>1. PICK p \in Process : /\ proc' = [proc EXCEPT ![w] = p]
                             /\ p.at \in {"roster", "prepare"} /\ p.grant = proc[w].grant
    BY <1>5
  <2>2. /\ p.at \in Verified \ {"record"} /\ p.at \in BeforeTraining
        /\ p.at \notin {"accepted", "complete"} /\ p.at # "train" /\ p.at \notin Leaving
    BY <2>1 DEF Verified, Places, BeforeTraining, Leaving
  <2> QED
    BY <1>1, <1>2, <1>3, <2>1, <2>2, CarriesOn
<1>6. ASSUME AdvertiseKey(w), ~(NextTask(w) \/ proc' = [proc EXCEPT ![w] = Down])
      PROVE  \E p \in Process : /\ proc' = [proc EXCEPT ![w] = p]
                                /\ p.at \in {"roster", "prepare"} /\ p.grant = proc[w].grant
  <2>1. PICK place \in {"roster", "prepare"} : Goto(w, place)
    BY <1>6 DEF AdvertiseKey, Unreachable
  <2>2. place \in Places
    BY DEF Places
  <2> QED
    BY <2>1, <2>2, PlaceMoves DEF IInv
<1>7. ASSUME PollRoster(w), ~(NextTask(w) \/ proc' = [proc EXCEPT ![w] = Down])
      PROVE  \E p \in Process : /\ proc' = [proc EXCEPT ![w] = p]
                                /\ p.at \in {"roster", "prepare"} /\ p.grant = proc[w].grant
  <2>1. \/ proc' = [proc EXCEPT ![w].at = "prepare", ![w].tries = 0]
        \/ proc' = [proc EXCEPT ![w].tries = @ + 1] /\ proc[w].at = "roster"
    BY <1>7 DEF PollRoster, Unreachable
  <2>2. CASE proc' = [proc EXCEPT ![w].at = "prepare", ![w].tries = 0]
    <3> DEFINE p == [proc[w] EXCEPT !.at = "prepare", !.tries = 0]
    <3>1. p \in Process /\ p.at = "prepare" /\ p.grant = proc[w].grant
      BY <1>2 DEF Process, Places
    <3>2. proc' = [proc EXCEPT ![w] = p]
      BY <2>2, <1>2
    <3> QED
      BY <3>1, <3>2
  <2>3. CASE proc' = [proc EXCEPT ![w].tries = @ + 1] /\ proc[w].at = "roster"
    <3> DEFINE p == [proc[w] EXCEPT !.tries = @ + 1]
    <3>1. p \in Process /\ p.at = "roster" /\ p.grant = proc[w].grant
      BY <1>2, <2>3 DEF Process
    <3>2. proc' = [proc EXCEPT ![w] = p]
      BY <2>3, <1>2
    <3> QED
      BY <3>1, <3>2
  <2> QED
    BY <2>1, <2>2, <2>3
<1> QED
  BY <1>4, <1>5, <1>6, <1>7

(* An optimizer step under the budget leaves the task under it, or gives it up. *)
LEMMA TrainingStep ==
  ASSUME IInv, NEW w \in Workers, TrainStep(w)
  PROVE  IInv'
<1> DEFINE steps == proc[w].steps
<1>1. /\ proc[w].at = "train" /\ UNCHANGED <<config, run, replay, wire, history>>
      /\ journal' = journal /\ faults' = faults /\ crashes' = crashes
  BY DEF TrainStep, durable
<1>2. /\ proc \in [Workers -> Process] /\ proc[w] \in Process /\ WorkerOK(w) /\ TypeOK
      /\ faults \in Nat /\ crashes \in Nat
  BY DEF IInv, TypeOK
<1>3. steps \in Nat /\ config.budget \in Nat /\ config.budget # 0
  BY <1>2, ConfigsAssumption, WorkerAssumption DEF Process, TypeOK
<1>4. config.policy \in Promised => steps < config.budget
  BY <1>1, <1>2 DEF WorkerOK
<1>5. /\ proc[w].at \in Verified \ {"record"}
      /\ {"train", "ready", "fail"} \subseteq Verified \ {"record"}
      /\ {"train", "ready", "fail"} \subseteq Places
      /\ {"train", "ready", "fail"} \cap (BeforeTraining \cup {"accepted", "complete"}) = {}
      /\ {"train", "fail"} \cap Leaving = {}
  BY <1>1 DEF Verified, Places, BeforeTraining, Leaving
<1>6. PICK p \in Process :
        /\ proc' = [proc EXCEPT ![w] = p]
        /\ p.at \in {"train", "ready", "fail"} /\ p.grant = proc[w].grant
        /\ config.policy \in Promised /\ p.at = "train" => p.steps < config.budget
        /\ config.policy \in Promised /\ p.at = "ready" => p.steps \in 1..(config.budget - 1)
  <2>1. CASE proc' = [proc EXCEPT ![w].steps = steps + 1,
                                  ![w].stopped = StoppedAfter(w, steps + 1),
                                  ![w].at = IF FailsAfter(steps + 1) THEN "fail" ELSE "train"]
    <3> DEFINE at == IF FailsAfter(steps + 1) THEN "fail" ELSE "train"
               stopped == StoppedAfter(w, steps + 1)
               p == [proc[w] EXCEPT !.steps = steps + 1, !.stopped = stopped, !.at = at]
    <3>1. steps + 1 \in Nat
      BY <1>3
    <3>2. stopped \in SUBSET Clients
      <4>1. proc[w].grant.client \in Clients
        BY <1>1, <1>2 DEF WorkerOK, TypeOK, SignedTask
      <4>2. proc[w].stopped \in SUBSET Clients
        BY <1>2 DEF Process
      <4> QED
        BY <4>1, <4>2 DEF StoppedAfter
    <3>3. at \in {"train", "fail"} /\ at \in Places
      BY <1>5
    <3>4. config.policy \in Promised /\ at = "train" => steps + 1 < config.budget
      BY <1>3 DEF Promised, FailsAfter
    <3>5. proc' = [proc EXCEPT ![w] = p]
      BY <2>1, <1>2
    <3> HIDE DEF at, stopped, steps
    <3>6. p \in Process /\ p.at = at /\ p.steps = steps + 1 /\ p.grant = proc[w].grant
      BY <1>2, <3>1, <3>2, <3>3 DEF Process
    <3> HIDE DEF p
    <3> QED
      BY <3>3, <3>4, <3>5, <3>6
  <2>2. CASE Goto(w, IF steps = 0 THEN "fail" ELSE "ready")
    <3>1. PICK p \in Process : /\ proc' = [proc EXCEPT ![w] = p]
                               /\ p.at = IF steps = 0 THEN "fail" ELSE "ready"
                               /\ p.grant = proc[w].grant /\ p.steps = steps
      BY <2>2, <1>2, <1>5, PlaceMoves
    <3>2. config.policy \in Promised /\ p.at = "ready" => p.steps \in 1..(config.budget - 1)
      BY <3>1, <1>3, <1>4
    <3> QED
      BY <3>1, <3>2
  <2>3. CASE Goto(w, "fail")
    BY <2>3, <1>2, <1>5, PlaceMoves
  <2> QED
    BY <2>1, <2>2, <2>3 DEF TrainStep
<1>7. config.policy \in Promised /\ p.at \in Leaving => p.steps \in 1..(config.budget - 1)
  BY <1>5, <1>6
<1>8. p.at \in Verified \ {"record"} /\ p.at \notin BeforeTraining /\ p.at \notin {"accepted", "complete"}
  BY <1>5, <1>6
<1> HIDE DEF steps
<1> QED
  BY <1>1, <1>2, <1>5, <1>6, <1>7, <1>8, CarriesOn

LEMMA ResultReadyStep ==
  ASSUME IInv, NEW w \in Workers, ResultReady(w)
  PROVE  IInv'
<1>1. /\ proc[w].at = "ready" /\ Journal(w, "RESULT_READY")
      /\ UNCHANGED <<config, run, replay, wire, history>> /\ faults' = faults /\ crashes' = crashes
  BY DEF ResultReady
<1>2. /\ proc \in [Workers -> Process] /\ proc[w] \in Process /\ WorkerOK(w)
      /\ faults \in Nat
  BY DEF IInv, TypeOK
<1>3. PICK p \in Process : /\ proc' = [proc EXCEPT ![w] = p]
                           /\ p.at \in {"mask", "submit"} /\ p.grant = proc[w].grant
                           /\ p.steps = proc[w].steps
  <2> DEFINE place == IF config.secure THEN "mask" ELSE "submit"
             p == [proc[w] EXCEPT !.at = place, !.tries = 0]
  <2>1. place \in {"mask", "submit"} /\ place \in Places
    BY DEF Places
  <2>2. proc' = [proc EXCEPT ![w] = p]
    BY <1>2 DEF ResultReady
  <2> HIDE DEF place
  <2>3. p \in Process /\ p.at = place /\ p.grant = proc[w].grant /\ p.steps = proc[w].steps
    BY <1>2, <2>1 DEF Process
  <2> QED
    BY <2>1, <2>2, <2>3
<1>4. /\ proc[w].at \in Verified \ {"record"} /\ proc[w].at \in Leaving
      /\ p.at \in Verified \ {"record"} /\ p.at \notin BeforeTraining
      /\ p.at \notin {"accepted", "complete"} /\ p.at # "train"
      /\ "RESULT_READY" \in Statuses /\ "RESULT_READY" \notin Done
  BY <1>1, <1>3 DEF Verified, Places, BeforeTraining, Leaving, Statuses, Done
<1>5. config.policy \in Promised => p.steps \in 1..(config.budget - 1)
  BY <1>2, <1>3, <1>4 DEF WorkerOK
<1> QED
  BY <1>1, <1>2, <1>3, <1>4, <1>5, CarriesOn

LEMMA NextIInv == IInv /\ [Next]_vars => IInv'
<1> SUFFICES ASSUME IInv, [Next]_vars PROVE IInv'
  OBVIOUS
<1>0. run \in Run /\ RunOK(run) /\ faults \in Nat /\ crashes \in Nat
  BY DEF IInv, TypeOK, RunOK
<1>1. ASSUME NEW w \in Workers, Prepare(w) PROVE IInv'
  <2>1. /\ proc[w].at = "prepare" /\ Journal(w, "PREPARING") /\ Goto(w, "begin")
        /\ UNCHANGED <<config, run, replay, wire, history>> /\ faults' = faults /\ crashes' = crashes
    BY <1>1 DEF Prepare
  <2>2. /\ {"prepare", "begin"} \subseteq (Verified \ {"record", "train"}) \cap BeforeTraining
        /\ "begin" \notin {"accepted", "complete"} /\ "begin" \notin Leaving
        /\ "PREPARING" \in Statuses /\ "PREPARING" \notin Done
    BY DEF Verified, Places, BeforeTraining, Leaving, Statuses, InFlight, Done
  <2> QED
    BY <2>1, <2>2, GoesOn
<1>2. ASSUME NEW w \in Workers, BeginTraining(w) PROVE IInv'
  <2>1. CASE proc[w].grant.client \notin proc[w].stopped
    BY <1>2, <2>1, TrainingBegins
  <2>2. CASE proc[w].grant.client \in proc[w].stopped
    <3>1. /\ proc[w].at = "begin" /\ Journal(w, "TRAINING") /\ Goto(w, "fail")
          /\ UNCHANGED <<config, run, replay, wire, history>> /\ faults' = faults /\ crashes' = crashes
      BY <1>2, <2>2 DEF BeginTraining, history
    <3>2. /\ {"begin", "fail"} \subseteq Verified \ {"record", "train"}
          /\ "fail" \notin BeforeTraining \cup {"accepted", "complete"} \cup Leaving
          /\ "TRAINING" \in Statuses /\ "TRAINING" \notin Done
      BY DEF Verified, Places, BeforeTraining, Leaving, Statuses, InFlight, Done
    <3> QED
      BY <3>1, <3>2, GoesOn
  <2> QED
    BY <2>1, <2>2
<1>3. ASSUME NEW w \in Workers, MaskUpdate(w) PROVE IInv'
  <2>1. PICK place \in {"submit", "fail"} : Goto(w, place)
    BY <1>3 DEF MaskUpdate
  <2>2. /\ proc[w].at = "mask" /\ journal' = journal
        /\ UNCHANGED <<config, run, replay, wire, history>> /\ faults' = faults /\ crashes' = crashes
    BY <1>3 DEF MaskUpdate, durable
  <2>3. /\ {"mask", "submit", "fail"} \subseteq Verified \ {"record", "train"}
        /\ {"submit", "fail"} \cap (BeforeTraining \cup {"accepted", "complete"}) = {}
        /\ "mask" \in Leaving
    BY DEF Verified, Places, BeforeTraining, Leaving
  <2> QED
    BY <2>1, <2>2, <2>3, GoesOn
<1>4. ASSUME NEW w \in Workers, SubmitResult(w) \/ SubmitMasked(w) PROVE IInv'
  BY <1>4, SendStep DEF SubmitResult, SubmitMasked
<1>5. ASSUME NEW w \in Workers, RecordSubmitted(w) PROVE IInv'
  <2>1. /\ proc[w].at = "accepted" /\ Journal(w, "RESULT_SUBMITTED") /\ Goto(w, "complete")
        /\ UNCHANGED <<config, run, replay, wire, history>> /\ faults' = faults /\ crashes' = crashes
    BY <1>5 DEF RecordSubmitted
  <2>2. /\ {"accepted", "complete"} \subseteq Verified \ {"record", "train"}
        /\ "complete" \notin BeforeTraining \cup Leaving /\ "RESULT_SUBMITTED" \in Statuses
    BY DEF Verified, Places, BeforeTraining, Leaving, Statuses, Done
  <2>3. proc[w].grant.sequence \in taken
    BY <2>1 DEF IInv, WorkerOK
  <2> QED
    BY <2>1, <2>2, <2>3, GoesOn
<1>6. ASSUME NEW w \in Workers, RecordCompleted(w) \/ RecordFailed(w) PROVE IInv'
  <2>1. PICK status \in {"COMPLETED", "FAILED", "CANCELED"} :
          /\ Journal(w, status)
          /\ status = "COMPLETED" => proc[w].at = "complete"
    BY <1>6 DEF RecordCompleted, RecordFailed
  <2>2. /\ proc[w].at \in {"complete", "fail"} /\ NextTask(w)
        /\ UNCHANGED <<config, run, replay, wire, history>> /\ faults' = faults /\ crashes' = crashes
    BY <1>6 DEF RecordCompleted, RecordFailed
  <2>3. status \in Done => proc[w].grant.sequence \in taken
    <3>1. proc[w].at = "complete" => proc[w].grant.sequence \in taken
      BY DEF IInv, WorkerOK
    <3> QED
      BY <2>1, <3>1 DEF Done
  <2>4. Writes(w)
    <3>1. proc[w].at \in Verified \ {"record"} /\ status \in Statuses
      BY <2>2 DEF Verified, Places, Statuses, Done
    <3> QED
      BY <2>1, <2>2, <2>3, <3>1, Written DEF history
  <2> QED
    BY <1>0, <2>2, <2>4, Idles
<1>7. ASSUME NEW w \in Workers, Crash(w) PROVE IInv'
  <2>1. /\ proc' = [proc EXCEPT ![w] = Down] /\ journal' = journal
        /\ UNCHANGED <<config, run, replay, wire, history>> /\ faults' \in Nat /\ crashes' \in Nat
    BY <1>0, <1>7 DEF Crash, durable
  <2> QED
    BY <2>1, GivesUp
<1>8. CASE Watchdog
  <2>1. PICK order \in Requeues : run' = Advanced(order)
    BY <1>8 DEF Watchdog
  <2>2. UNCHANGED <<config, proc, durable, wire, history, faults, crashes>>
    BY <1>8 DEF Watchdog
  <2>3. RunOK(run') /\ run'.sequence = run.sequence
    BY <1>0, <2>1, AdvancedOK
  <2> QED
    BY <2>2, <2>3, CoordinatorStep
<1>9. CASE TimePasses
  <2>1. /\ run' = [run EXCEPT !.dispatcher = Later(run.dispatcher)]
        /\ UNCHANGED <<config, proc, durable, wire, history, faults, crashes>>
    BY <1>9 DEF TimePasses
  <2>2. Sound(Later(run.dispatcher)) /\ Later(run.dispatcher) \in Dispatcher
    <3>1. Sound(Later(run.dispatcher))
      BY <1>0, LaterSound DEF RunOK
    <3> QED
      BY <3>1 DEF Sound
  <2>3. RunOK(run') /\ run'.sequence = run.sequence
    BY <1>0, <2>1, <2>2 DEF RunOK, Run
  <2> QED
    BY <2>1, <2>3, CoordinatorStep
<1>10. CASE UNCHANGED vars
  <2>1. run' = run /\ UNCHANGED <<config, proc, durable, wire, history, faults, crashes>>
    BY <1>10 DEF vars
  <2> QED
    BY <1>0, <2>1, CoordinatorStep
<1> QED
  BY <1>1, <1>2, <1>3, <1>4, <1>5, <1>6, <1>7, <1>8, <1>9, <1>10, RegisterStep, AcquireStep,
     ReceiveAgainStep, VerifyStep, RecordAcceptedStep, HandshakeStep, TrainingStep, ResultReadyStep
  DEF Next, WorkerStep

-----------------------------------------------------------------------------
(* The theorems. *)

(* The inductive invariant holds throughout (all of worker/service.py and the coordinator it meets). *)
THEOREM Invariance == Spec => []IInv
BY InitIInv, NextIInv, PTL DEF Spec

(* Processes, journals, replay stores and the run keep their types. *)
THEOREM TypeCorrect == Spec => []TypeOK
<1>1. IInv => TypeOK
  BY DEF IInv
<1> QED
  BY <1>1, Invariance, PTL

(* A worker holds a slot exactly for the task leased to it, whatever it lost, repeated or forgot. *)
THEOREM RoundDispatcherCorrect == Spec => []Sound(run.dispatcher)
<1>1. IInv => Sound(run.dispatcher)
  BY DEF IInv
<1> QED
  BY <1>1, Invariance, PTL

(* The journal says submitted or completed only of results the coordinator took. *)
THEOREM SubmittedCorrect == Spec => []SubmittedWasTaken
<1>1. IInv => SubmittedWasTaken
  BY DEF IInv
<1> QED
  BY <1>1, Invariance, PTL

(* Under the policies that promise it no result leaves a worker at or past its budget. *)
THEOREM BudgetCorrect == Spec => []SubmissionsRespectBudget
<1>1. IInv => SubmissionsRespectBudget
  BY DEF IInv, WorkerOK, SubmissionsRespectBudget, Promised, Leaving
<1> QED
  BY <1>1, Invariance, PTL

(* A signed task is never trained a second time. *)
THEOREM TrainsOnceCorrect == Spec => EachTaskTrainsOnce
<1>1. ASSUME IInv, NEW w \in Workers, proc[w].at = "begin"
      PROVE  proc[w].grant.sequence \notin trained
  BY <1>1 DEF IInv, WorkerOK, BeforeTraining
<1>2. IInv => (\A w \in Workers : proc[w].at = "begin" /\ proc'[w].at = "train"
                                    => proc[w].grant.sequence \notin trained)
  BY <1>1
<1> QED
  BY <1>2, Invariance, PTL DEF EachTaskTrainsOnce

=============================================================================
