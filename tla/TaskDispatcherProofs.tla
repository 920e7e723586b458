------------------------- MODULE TaskDispatcherProofs -------------------------
(***************************************************************************)
(* Proofs, for any sets of clients and workers, any lease length, retry    *)
(* limit and number of tasks, of the safety properties of TaskDispatcher.  *)
(***************************************************************************)
EXTENDS TaskDispatcher, SequenceTheorems, FiniteSetTheorems, TLAPS

(* What holds of a dispatcher value after every method. *)
Consistent(d) ==
  /\ d \in Dispatcher
  /\ QueueIsPending(d)
  /\ SlotsAreLeases(d)
  /\ LeasesDiffer(d)
  /\ WithinBudget(d)

(* The budget is a positive natural number, and a spent task has used it up. *)
LEMMA BudgetFacts ==
  /\ AttemptBudget \in Nat /\ AttemptBudget >= 1 /\ AttemptBudget >= MaxRetries
  /\ \A n \in Nat : n < MaxRetries => n < AttemptBudget
  /\ \A n \in Nat : (n < AttemptBudget) => (n = 0 \/ n < MaxRetries)
BY RetryAssumption DEF AttemptBudget

(* A new dispatcher is consistent. *)
LEMMA EmptyConsistent == Consistent(EmptyDispatcher)
<1>1. EmptyDispatcher \in Dispatcher
  BY EmptySeq DEF EmptyDispatcher, Dispatcher, NoTask
<1>2. TaskIds(EmptyDispatcher) = {} /\ DOMAIN EmptyDispatcher.queue = {}
  BY DEF EmptyDispatcher, TaskIds
<1>3. \A w \in Workers : EmptyDispatcher.slot[w] = NoTask
  BY DEF EmptyDispatcher
<1> QED
  BY <1>1, <1>2, <1>3
  DEF Consistent, QueueIsPending, SlotsAreLeases, LeasesDiffer, WithinBudget, InState

(* enqueue keeps the dispatcher consistent, and adds one task. *)
LEMMA EnqueueConsistent ==
  ASSUME NEW d, Consistent(d), NEW c \in Clients, NEW used \in 0..AttemptBudget
  PROVE  Consistent(Enqueue(d, c, used)) /\ Len(Enqueue(d, c, used).tasks) = Len(d.tasks) + 1
<1> DEFINE e == Enqueue(d, c, used)
           n == Len(d.tasks) + 1
           spent == used > 0 /\ used >= MaxRetries
           task == [client |-> c, state |-> IF spent THEN "failed" ELSE "pending",
                    worker |-> NoWorker, lease |-> NoLease, expires |-> 0, attempt |-> used]
<1> USE RetryAssumption, BudgetFacts
<1>1. /\ d.tasks \in Seq(DispatchedTask) /\ d.queue \in Seq(Nat \ {0})
      /\ d.slot \in [Workers -> Nat] /\ d.leaseSeq \in Nat
  BY DEF Consistent, Dispatcher
<1>2. /\ e.tasks = Append(d.tasks, task)
      /\ e.queue = IF spent THEN d.queue ELSE Append(d.queue, n)
      /\ e.slot = d.slot /\ e.leaseSeq = d.leaseSeq
      /\ e = [tasks |-> e.tasks, queue |-> e.queue, slot |-> e.slot, leaseSeq |-> e.leaseSeq]
  BY DEF Enqueue
<1>3. task \in DispatchedTask /\ used \in Nat
  BY DEF DispatchedTask, TaskState, NoLease
<1>4. /\ TaskIds(d) = 1..Len(d.tasks) /\ TaskIds(e) = 1..n /\ n \in Nat \ {0}
      /\ e.tasks[n] = task
      /\ \A i \in TaskIds(d) : e.tasks[i] = d.tasks[i]
      /\ TaskIds(e) = TaskIds(d) \cup {n} /\ n \notin TaskIds(d)
      /\ Len(e.tasks) = Len(d.tasks) + 1
  <2>1. /\ Len(e.tasks) = n /\ DOMAIN e.tasks = 1..Len(e.tasks) /\ Len(d.tasks) \in Nat
        /\ DOMAIN d.tasks = 1..Len(d.tasks)
        /\ \A i \in 1..Len(d.tasks) : e.tasks[i] = d.tasks[i]
        /\ e.tasks[n] = task
    BY <1>1, <1>2, <1>3, AppendProperties, LenProperties
  <2> HIDE DEF e, task, n
  <2>2. n = Len(d.tasks) + 1
    BY DEF n
  <2> QED
    BY <2>1, <2>2 DEF TaskIds
<1> HIDE DEF e
<1>5. e \in Dispatcher
  <2>1. e.tasks \in Seq(DispatchedTask)
    BY <1>1, <1>2, <1>3, AppendProperties
  <2>2. e.queue \in Seq(Nat \ {0})
    BY <1>1, <1>2, <1>4, AppendProperties
  <2> QED
    BY <1>1, <1>2, <2>1, <2>2 DEF Dispatcher
<1>6. \A s : InState(e, s) = InState(d, s) \cup (IF task.state = s THEN {n} ELSE {})
  BY <1>4 DEF InState
<1>7. QueueIsPending(e)
  <2>0. QueueIsPending(d)
    BY DEF Consistent
  <2>1. CASE spent
    <3>1. InState(e, "pending") = InState(d, "pending") /\ e.queue = d.queue
      BY <1>2, <1>6, <2>1
    <3> QED
      BY <2>0, <3>1, <1>4 DEF QueueIsPending
  <2>2. CASE ~spent
    <3>1. e.queue = Append(d.queue, n) /\ InState(e, "pending") = InState(d, "pending") \cup {n}
      BY <1>2, <1>6, <2>2
    <3>2. /\ Len(d.queue) \in Nat /\ DOMAIN d.queue = 1..Len(d.queue)
          /\ DOMAIN e.queue = 1..(Len(d.queue) + 1)
          /\ \A k \in 1..Len(d.queue) : e.queue[k] = d.queue[k]
          /\ e.queue[Len(d.queue) + 1] = n
      BY <1>1, <1>4, <3>1, AppendProperties, LenProperties
    <3>3. task.state = "pending"
      BY <2>2
    <3> HIDE DEF n, task, spent
    <3>4. \A k \in DOMAIN e.queue : e.queue[k] \in TaskIds(e) /\ e.tasks[e.queue[k]].state = "pending"
      <4> SUFFICES ASSUME NEW k \in DOMAIN e.queue
                   PROVE  e.queue[k] \in TaskIds(e) /\ e.tasks[e.queue[k]].state = "pending"
        OBVIOUS
      <4>1. CASE k \in 1..Len(d.queue)
        <5>1. e.queue[k] = d.queue[k] /\ k \in DOMAIN d.queue
          BY <4>1, <3>2
        <5>2. d.queue[k] \in TaskIds(d) /\ d.tasks[d.queue[k]].state = "pending"
          BY <5>1, <2>0 DEF QueueIsPending
        <5> QED
          BY <5>1, <5>2, <1>4
      <4>2. CASE k = Len(d.queue) + 1
        BY <4>2, <3>2, <3>3, <1>4
      <4> QED
        BY <4>1, <4>2, <3>2
    <3>5. \A i \in InState(e, "pending") : \E k \in DOMAIN e.queue : e.queue[k] = i
      <4> SUFFICES ASSUME NEW i \in InState(e, "pending")
                   PROVE  \E k \in DOMAIN e.queue : e.queue[k] = i
        OBVIOUS
      <4>1. CASE i = n
        BY <4>1, <3>2
      <4>2. CASE i \in InState(d, "pending")
        <5>1. PICK k \in DOMAIN d.queue : d.queue[k] = i
          BY <4>2, <2>0 DEF QueueIsPending
        <5> QED
          BY <5>1, <3>2
      <4> QED
        BY <4>1, <4>2, <3>1
    <3>6. \A j, k \in DOMAIN e.queue : e.queue[j] = e.queue[k] => j = k
      <4>1. \A k \in 1..Len(d.queue) : e.queue[k] # n
        BY <3>2, <2>0, <1>4 DEF QueueIsPending
      <4> QED
        BY <4>1, <3>2, <2>0, SMTT(60) DEF QueueIsPending
    <3> QED
      BY <3>4, <3>5, <3>6 DEF QueueIsPending
  <2> QED
    BY <2>1, <2>2
<1>8. InState(e, "leased") = InState(d, "leased") /\ InState(d, "leased") \subseteq TaskIds(d)
  BY <1>6 DEF InState
<1>9. SlotsAreLeases(e)
  <2>1. SlotsAreLeases(d)
    BY DEF Consistent
  <2> HIDE DEF n, task, spent
  <2> QED
    BY <2>1, <1>2, <1>4, <1>8 DEF SlotsAreLeases
<1>10. LeasesDiffer(e)
  <2>1. LeasesDiffer(d) /\ InState(d, "pending") \subseteq TaskIds(d) /\ task.worker = NoWorker
    BY DEF Consistent, InState
  <2> HIDE DEF n, task, spent
  <2> QED
    BY <2>1, <1>2, <1>4, <1>6, <1>8, SMTT(60) DEF LeasesDiffer
<1>11. WithinBudget(e)
  <2>1. WithinBudget(d) /\ d.tasks \in Seq(DispatchedTask)
    BY DEF Consistent, Dispatcher
  <2>2. task.attempt <= AttemptBudget /\ (task.state = "pending" => task.attempt < AttemptBudget)
    BY <1>3 DEF AttemptBudget
  <2>3. InState(d, "pending") \subseteq TaskIds(d)
    BY DEF InState
  <2> HIDE DEF n, task, spent
  <2> QED
    BY <2>1, <2>2, <2>3, <1>4, <1>6 DEF WithinBudget
<1> QED
  BY <1>4, <1>5, <1>7, <1>9, <1>10, <1>11 DEF Consistent, e

(* Induction over the natural numbers of a set. *)
LEMMA SetInduction ==
  ASSUME NEW S, 0 \in S, \A n \in Nat : n \in S => n + 1 \in S
  PROVE  Nat \subseteq S
<1> DEFINE T == Nat \ S
<1> SUFFICES ASSUME T # {} PROVE FALSE
  OBVIOUS
<1>1. PICK x \in T : \A y \in T : ~(<<y, x>> \in OpToRel(<, Nat))
  <2>1. IsWellFoundedOn(OpToRel(<, Nat), Nat)
    BY NatLessThanWellFounded
  <2>2. T \subseteq Nat
    OBVIOUS
  <2> QED
    BY <2>1, <2>2, WFMin
<1>2. \A y \in T : ~(y < x)
  BY <1>1 DEF OpToRel
<1>3. x - 1 \in Nat /\ x - 1 < x
  OBVIOUS
<1>4. x - 1 \in S
  BY <1>2, <1>3
<1> QED
  BY <1>3, <1>4

(* What enqueue of a list leaves after its k-th client. *)
AddStep(f, d, s, used, k) == IF k = 0 THEN d ELSE Enqueue(f[k - 1], s[k], used[s[k]])

(* What comes of a consistent dispatcher with n more tasks. *)
Grown(d, e, n) == Consistent(e) /\ Len(e.tasks) = Len(d.tasks) + n

(* enqueue of a list of clients keeps the dispatcher consistent, and every one gets a task. *)
LEMMA EnqueueAllConsistent ==
  ASSUME NEW d, Consistent(d), NEW s \in Seq(Clients), NEW used \in [Clients -> 0..AttemptBudget]
  PROVE  Grown(d, EnqueueAll(d, s, used), Len(s))
<1> DEFINE Def(f, n) == f = [k \in 0..n |-> AddStep(f, d, s, used, k)]
           S == {n \in Nat : \E f : Def(f, n)}
<1>1. \A n \in Nat : n \in S => n + 1 \in S
  <2> SUFFICES ASSUME NEW n \in Nat, n \in S
               PROVE  \E f : Def(f, n + 1)
    OBVIOUS
  <2>1. PICK f : Def(f, n)
    OBVIOUS
  <2> DEFINE g == [k \in 0..(n + 1) |-> IF k = n + 1 THEN AddStep(f, d, s, used, k) ELSE f[k]]
  <2>2. \A k \in 0..n : g[k] = f[k] /\ f[k] = AddStep(f, d, s, used, k)
    <3>1. \A k \in 0..n : k \in 0..(n + 1) /\ k # n + 1
      OBVIOUS
    <3>2. \A k \in 0..n : g[k] = f[k]
      BY <3>1
    <3>3. \A k \in 0..n : f[k] = AddStep(f, d, s, used, k)
      BY <2>1, Zenon
    <3> QED
      BY <3>2, <3>3
  <2>3. \A k \in 0..(n + 1) : k # 0 => k - 1 \in 0..n
    OBVIOUS
  <2>4. \A k \in 0..(n + 1) : AddStep(f, d, s, used, k) = AddStep(g, d, s, used, k)
    BY <2>2, <2>3 DEF AddStep
  <2>5. \A k \in 0..(n + 1) : g[k] = AddStep(f, d, s, used, k)
    <3>1. g[n + 1] = AddStep(f, d, s, used, n + 1)
      OBVIOUS
    <3>2. \A k \in 0..(n + 1) : k = n + 1 \/ k \in 0..n
      OBVIOUS
    <3> HIDE DEF g
    <3> QED
      BY <3>1, <3>2, <2>2
  <2>6. \A k \in 0..(n + 1) : g[k] = AddStep(g, d, s, used, k)
    BY <2>4, <2>5
  <2>7. g = [k \in 0..(n + 1) |-> g[k]]
    OBVIOUS
  <2> HIDE DEF g
  <2> QED
    BY <2>6, <2>7
<1>2. 0 \in S
  <2>1. Def([k \in 0..0 |-> d], 0)
    BY DEF AddStep
  <2> QED
    BY <2>1
<1>3. Len(s) \in Nat /\ DOMAIN s = 1..Len(s)
  BY LenProperties
<1> HIDE DEF S
<1>4. Len(s) \in S
  BY <1>1, <1>2, <1>3, SetInduction
<1> DEFINE after == CHOOSE f : Def(f, Len(s))
<1>5. EnqueueAll(d, s, used) = after[Len(s)]
  BY DEF EnqueueAll, AddStep
<1>6. Def(after, Len(s))
  BY <1>4 DEF S
<1> HIDE DEF after
<1> DEFINE R == {n \in Nat : n <= Len(s) => Grown(d, after[n], n)}
<1>7. 0 \in R
  <2>1. after[0] = d
    BY <1>3, <1>6 DEF AddStep
  <2>2. Len(d.tasks) \in Nat
    BY LenProperties DEF Consistent, Dispatcher
  <2> QED
    BY <2>1, <2>2 DEF Grown
<1>8. ASSUME NEW n \in Nat, n \in R PROVE n + 1 \in R
  <2>1. ASSUME n + 1 <= Len(s)
        PROVE  Grown(d, after[n + 1], n + 1)
    <3>0. Len(d.tasks) \in Nat
      BY LenProperties DEF Consistent, Dispatcher
    <3>1. Consistent(after[n]) /\ Len(after[n].tasks) = Len(d.tasks) + n
      BY <2>1, <1>8, <1>3 DEF Grown
    <3>2. n + 1 \in 0..Len(s) /\ n + 1 # 0 /\ (n + 1) - 1 = n /\ n + 1 \in 1..Len(s)
      BY <2>1, <1>3
    <3>3. after[n + 1] = Enqueue(after[n], s[n + 1], used[s[n + 1]])
      BY <1>6, <3>2 DEF AddStep
    <3>4. s[n + 1] \in Clients /\ used[s[n + 1]] \in 0..AttemptBudget
      BY <3>2, <1>3, ElementOfSeq
    <3> HIDE DEF R
    <3>5. Consistent(after[n + 1]) /\ Len(after[n + 1].tasks) = Len(after[n].tasks) + 1
      <4> DEFINE b == after[n]
                 x == s[n + 1]
                 y == used[x]
      <4>1. Consistent(b) /\ x \in Clients /\ y \in 0..AttemptBudget /\ after[n + 1] = Enqueue(b, x, y)
        BY <3>1, <3>3, <3>4
      <4> HIDE DEF b, x, y
      <4>2. Consistent(Enqueue(b, x, y)) /\ Len(Enqueue(b, x, y).tasks) = Len(b.tasks) + 1
        BY <4>1, EnqueueConsistent
      <4> QED
        BY <4>1, <4>2 DEF b
    <3>6. (Len(d.tasks) + n) + 1 = Len(d.tasks) + (n + 1)
      <4>1. \A a \in Nat : (a + n) + 1 = a + (n + 1)
        OBVIOUS
      <4> QED
        BY <3>0, <4>1
    <3> QED
      BY <3>1, <3>5, <3>6 DEF Grown
  <2> QED
    BY <2>1
<1> HIDE DEF R
<1>9. Len(s) \in R
  BY <1>3, <1>7, <1>8, SetInduction
<1> QED
  BY <1>3, <1>5, <1>9 DEF R

(* acquire keeps the dispatcher consistent. *)
LEMMA AcquireConsistent ==
  ASSUME NEW d, Consistent(d), NEW w \in Workers, CanAcquire(d, w), NEW t \in Int
  PROVE  Consistent(Acquire(d, w, t))
<1> DEFINE e == Acquire(d, w, t)
           id == Head(d.queue)
<1> USE RetryAssumption, LeaseAssumption, BudgetFacts
<1>1. /\ d.tasks \in Seq(DispatchedTask) /\ d.queue \in Seq(Nat \ {0})
      /\ d.slot \in [Workers -> Nat] /\ d.leaseSeq \in Nat
      /\ d.queue # <<>> /\ d.slot[w] = NoTask
  BY DEF Consistent, Dispatcher, CanAcquire
<1>2. /\ Len(d.queue) \in Nat /\ Len(d.queue) >= 1 /\ DOMAIN d.queue = 1..Len(d.queue)
      /\ id = d.queue[1]
      /\ Len(Tail(d.queue)) = Len(d.queue) - 1
      /\ DOMAIN Tail(d.queue) = 1..(Len(d.queue) - 1)
      /\ \A k \in 1..(Len(d.queue) - 1) : Tail(d.queue)[k] = d.queue[k + 1]
      /\ Tail(d.queue) \in Seq(Nat \ {0})
  BY <1>1, HeadTailProperties, LenProperties, EmptySeq
<1>3. id \in TaskIds(d) /\ d.tasks[id].state = "pending" /\ id # NoTask /\ id \in Nat
  <2>1. 1 \in DOMAIN d.queue
    BY <1>2
  <2> QED
    BY <2>1, <1>1, <1>2, ElementOfSeq DEF Consistent, QueueIsPending, NoTask
<1>4. \A i \in TaskIds(d) : d.tasks[i] \in DispatchedTask
  BY <1>1, ElementOfSeq, LenProperties DEF TaskIds
<1>5. /\ e.tasks = [d.tasks EXCEPT ![id] = e.tasks[id]]
      /\ e.tasks[id] \in DispatchedTask
      /\ e.tasks[id].state = "leased" /\ e.tasks[id].worker = w
      /\ e.tasks[id].lease = d.leaseSeq + 1
      /\ e.tasks[id].attempt = d.tasks[id].attempt + 1
      /\ e.queue = Tail(d.queue) /\ e.slot = [d.slot EXCEPT ![w] = id]
      /\ e.leaseSeq = d.leaseSeq + 1
      /\ e = [tasks |-> e.tasks, queue |-> e.queue, slot |-> e.slot, leaseSeq |-> e.leaseSeq]
  <2> DEFINE new == [client |-> d.tasks[id].client, state |-> "leased", worker |-> w,
                     lease |-> d.leaseSeq + 1, expires |-> t + LeaseSeconds,
                     attempt |-> d.tasks[id].attempt + 1]
  <2>1. /\ e.tasks = [d.tasks EXCEPT ![id] = new]
        /\ e.queue = Tail(d.queue) /\ e.slot = [d.slot EXCEPT ![w] = id]
        /\ e.leaseSeq = d.leaseSeq + 1
        /\ e = [tasks |-> e.tasks, queue |-> e.queue, slot |-> e.slot, leaseSeq |-> e.leaseSeq]
    BY DEF Acquire
  <2>2. d.tasks[id] \in DispatchedTask
    BY <1>3, <1>4
  <2>3. d.leaseSeq + 1 \in Nat /\ t + LeaseSeconds \in Int
    BY <1>1
  <2>4. /\ new \in DispatchedTask
        /\ new.state = "leased" /\ new.worker = w /\ new.lease = d.leaseSeq + 1
        /\ new.attempt = d.tasks[id].attempt + 1
    BY <2>2, <2>3 DEF DispatchedTask, TaskState
  <2> HIDE DEF new, e, id
  <2>5. e.tasks[id] = new
    BY <2>1, <1>1, <1>3 DEF TaskIds
  <2>6. e.tasks = [d.tasks EXCEPT ![id] = e.tasks[id]]
    BY <2>1, <2>5
  <2> QED
    BY <2>1, <2>4, <2>5, <2>6
<1>6. /\ TaskIds(e) = TaskIds(d)
      /\ \A i \in TaskIds(d) : i # id => e.tasks[i] = d.tasks[i]
  BY <1>3, <1>5 DEF TaskIds
<1> HIDE DEF e, id
<1>7. /\ InState(e, "pending") = InState(d, "pending") \ {id}
      /\ InState(e, "leased") = InState(d, "leased") \cup {id}
      /\ id \notin InState(d, "leased")
      /\ \A s : InState(d, s) \subseteq TaskIds(d)
  BY <1>3, <1>5, <1>6 DEF InState
<1>8. e \in Dispatcher
  <2>1. e.tasks \in Seq(DispatchedTask)
    <3>1. id \in 1..Len(d.tasks)
      BY <1>1, <1>3, LenProperties DEF TaskIds
    <3>2. [d.tasks EXCEPT ![id] = e.tasks[id]] \in Seq(DispatchedTask)
      BY <3>1, <1>1, <1>5, ExceptSeq
    <3> QED
      BY <3>2, <1>5
  <2>2. e.slot \in [Workers -> Nat] /\ e.leaseSeq \in Nat
    BY <1>1, <1>3, <1>5, SMTT(60)
  <2>3. e.queue \in Seq(Nat \ {0})
    BY <1>2, <1>5
  <2> QED
    BY <1>5, <2>1, <2>2, <2>3 DEF Dispatcher
<1>9. QueueIsPending(e)
  <2>0. QueueIsPending(d)
    BY DEF Consistent
  <2>1. \A k \in DOMAIN e.queue : k + 1 \in DOMAIN d.queue /\ e.queue[k] = d.queue[k + 1] /\ k \in Nat
    <3>1. e.queue = Tail(d.queue)
      BY <1>5
    <3>2. DOMAIN e.queue = 1..(Len(d.queue) - 1)
      BY <3>1, <1>2
    <3>3. \A k \in 1..(Len(d.queue) - 1) : k + 1 \in 1..Len(d.queue) /\ k \in Nat
      BY <1>2
    <3> QED
      BY <3>1, <3>2, <3>3, <1>2
  <2>2. \A k \in DOMAIN e.queue : e.queue[k] # id
    <3> SUFFICES ASSUME NEW k \in DOMAIN e.queue, e.queue[k] = id PROVE FALSE
      OBVIOUS
    <3>1. 1 \in DOMAIN d.queue /\ k + 1 \in DOMAIN d.queue /\ d.queue[k + 1] = d.queue[1] /\ k + 1 # 1
      BY <2>1, <1>2, <1>5
    <3> QED
      BY <3>1, <2>0 DEF QueueIsPending
  <2>3. \A k \in DOMAIN e.queue : e.queue[k] \in TaskIds(e) /\ e.tasks[e.queue[k]].state = "pending"
    BY <2>0, <2>1, <2>2, <1>6 DEF QueueIsPending
  <2>4. \A i \in InState(e, "pending") : \E k \in DOMAIN e.queue : e.queue[k] = i
    <3> SUFFICES ASSUME NEW i \in InState(e, "pending")
                 PROVE  \E k \in DOMAIN e.queue : e.queue[k] = i
      OBVIOUS
    <3>1. PICK j \in DOMAIN d.queue : d.queue[j] = i
      BY <1>7, <2>0 DEF QueueIsPending
    <3>2. j # 1
      BY <3>1, <1>2, <1>7
    <3>3. j \in 2..Len(d.queue) /\ j - 1 \in 1..(Len(d.queue) - 1)
      BY <3>1, <3>2, <1>2
    <3>4. Tail(d.queue)[j - 1] = d.queue[(j - 1) + 1] /\ (j - 1) + 1 = j
      BY <3>3, <1>2, SMTT(60)
    <3>5. j - 1 \in DOMAIN e.queue /\ e.queue[j - 1] = i
      BY <3>1, <3>3, <3>4, <1>2, <1>5
    <3> QED
      BY <3>5
  <2>5. \A j, k \in DOMAIN e.queue : e.queue[j] = e.queue[k] => j = k
    <3> SUFFICES ASSUME NEW j \in DOMAIN e.queue, NEW k \in DOMAIN e.queue,
                        e.queue[j] = e.queue[k]
                 PROVE  j = k
      OBVIOUS
    <3>1. j + 1 = k + 1
      BY <2>1, <2>0 DEF QueueIsPending
    <3> QED
      BY <3>1, <2>1
  <2> QED
    BY <2>3, <2>4, <2>5 DEF QueueIsPending
<1>10. SlotsAreLeases(e)
  <2>0. SlotsAreLeases(d)
    BY DEF Consistent
  <2>1. \A v \in Workers : e.slot[v] = IF v = w THEN id ELSE d.slot[v]
    BY <1>1, <1>5
  <2>2. \A i \in InState(d, "leased") : d.tasks[i].worker # w
    <3> SUFFICES ASSUME NEW i \in InState(d, "leased"), d.tasks[i].worker = w PROVE FALSE
      OBVIOUS
    <3>1. d.slot[w] = i
      BY <2>0 DEF SlotsAreLeases
    <3>2. i \in 1..Len(d.tasks)
      BY <1>1, <1>7, LenProperties DEF TaskIds
    <3> QED
      BY <3>1, <3>2, <1>1, LenProperties DEF NoTask
  <2> QED
    BY <2>0, <2>1, <2>2, <1>3, <1>5, <1>6, <1>7 DEF SlotsAreLeases
<1>11. LeasesDiffer(e)
  <2>0. LeasesDiffer(d)
    BY DEF Consistent
  <2>1. \A i \in InState(d, "leased") : d.tasks[i].lease \in Nat /\ d.tasks[i].lease <= d.leaseSeq
    <3>1. \A i \in InState(d, "leased") : d.tasks[i].lease \in 1..d.leaseSeq
      BY <2>0 DEF LeasesDiffer
    <3> QED
      BY <3>1, <1>1
  <2>2. \A i \in InState(e, "leased") :
          e.tasks[i].worker \in Workers /\ e.tasks[i].lease \in 1..e.leaseSeq
    <3> SUFFICES ASSUME NEW i \in InState(e, "leased")
                 PROVE  e.tasks[i].worker \in Workers /\ e.tasks[i].lease \in 1..e.leaseSeq
      OBVIOUS
    <3>1. CASE i = id
      BY <3>1, <1>1, <1>5, SMTT(60)
    <3>2. CASE i # id
      <4>1. i \in InState(d, "leased") /\ e.tasks[i] = d.tasks[i]
        BY <3>2, <1>6, <1>7
      <4>2. d.tasks[i].worker \in Workers /\ d.tasks[i].lease \in 1..d.leaseSeq
        BY <4>1, <2>0 DEF LeasesDiffer
      <4> QED
        BY <4>1, <4>2, <1>1, <1>5, SMTT(60)
    <3> QED
      BY <3>1, <3>2
  <2>3. \A i, j \in InState(e, "leased") : e.tasks[i].lease = e.tasks[j].lease => i = j
    <3> SUFFICES ASSUME NEW i \in InState(e, "leased"), NEW j \in InState(e, "leased"),
                        e.tasks[i].lease = e.tasks[j].lease
                 PROVE  i = j
      OBVIOUS
    <3>1. CASE i # id /\ j # id
      BY <3>1, <2>0, <1>6, <1>7 DEF LeasesDiffer
    <3>2. CASE i = id /\ j # id
      BY <3>2, <2>1, <1>1, <1>5, <1>6, <1>7, SMTT(60)
    <3>3. CASE i # id /\ j = id
      BY <3>3, <2>1, <1>1, <1>5, <1>6, <1>7, SMTT(60)
    <3> QED
      BY <3>1, <3>2, <3>3
  <2>4. \A i \in InState(e, "pending") : e.tasks[i].worker = NoWorker
    BY <2>0, <1>6, <1>7 DEF LeasesDiffer
  <2> QED
    BY <2>2, <2>3, <2>4 DEF LeasesDiffer
<1>12. WithinBudget(e)
  <2>0. WithinBudget(d)
    BY DEF Consistent
  <2>1. d.tasks[id].attempt \in Nat /\ d.tasks[id].attempt < AttemptBudget
    BY <2>0, <1>3, <1>4 DEF WithinBudget, InState, DispatchedTask
  <2>2. e.tasks[id].attempt <= AttemptBudget
    BY <2>1, <1>5
  <2> QED
    BY <2>0, <2>2, <1>6, <1>7 DEF WithinBudget
<1> QED
  BY <1>8, <1>9, <1>10, <1>11, <1>12 DEF Consistent, e

(* submit_result, when it accepts, keeps the dispatcher consistent. *)
LEMMA CompleteConsistent ==
  ASSUME NEW d, Consistent(d), NEW w \in Workers, NEW id, NEW l, NEW t,
         Accepts(d, w, id, l, t)
  PROVE  /\ Consistent(Complete(d, w, id))
         /\ d.tasks[id].state = "leased"
         /\ Complete(d, w, id).tasks[id] = [d.tasks[id] EXCEPT !.state = "completed"]
         /\ \A i \in TaskIds(d) : i # id => Complete(d, w, id).tasks[i] = d.tasks[i]
         /\ TaskIds(Complete(d, w, id)) = TaskIds(d)
         /\ Complete(d, w, id).leaseSeq = d.leaseSeq
<1> DEFINE e == Complete(d, w, id)
           done == [d.tasks[id] EXCEPT !.state = "completed"]
<1>1. /\ d.tasks \in Seq(DispatchedTask) /\ d.queue \in Seq(Nat \ {0})
      /\ d.slot \in [Workers -> Nat] /\ d.leaseSeq \in Nat
      /\ d = [tasks |-> d.tasks, queue |-> d.queue, slot |-> d.slot, leaseSeq |-> d.leaseSeq]
      /\ QueueIsPending(d) /\ SlotsAreLeases(d) /\ LeasesDiffer(d) /\ WithinBudget(d)
  BY DEF Consistent, Dispatcher
<1>2. id \in TaskIds(d) /\ id \in 1..Len(d.tasks) /\ d.tasks[id] \in DispatchedTask
      /\ d.tasks[id].worker = w
  BY <1>1, ElementOfSeq, LenProperties DEF Accepts, TaskIds
<1>3. d.tasks[id].state = "leased" /\ d.slot[w] = id
  <2>1. d.tasks[id].state # "pending"
    BY <1>1, <1>2, NoWorkerAssumption DEF LeasesDiffer, InState
  <2>2. d.tasks[id].state = "leased"
    BY <2>1, <1>2 DEF Accepts, DispatchedTask, TaskState
  <2> QED
    BY <2>2, <1>1, <1>2 DEF SlotsAreLeases, InState
<1>4. done \in DispatchedTask /\ done.state = "completed" /\ done.attempt = d.tasks[id].attempt
  <2> DEFINE r == d.tasks[id]
  <2>1. r \in DispatchedTask
    BY <1>2
  <2> HIDE DEF r
  <2>2. LET x == [r EXCEPT !.state = "completed"]
        IN  x \in DispatchedTask /\ x.state = "completed" /\ x.attempt = r.attempt
    BY <2>1 DEF DispatchedTask, TaskState
  <2> QED
    BY <2>2 DEF r
<1>5. /\ e.tasks = [d.tasks EXCEPT ![id] = done]
      /\ e.queue = d.queue /\ e.slot = [d.slot EXCEPT ![w] = NoTask] /\ e.leaseSeq = d.leaseSeq
      /\ e = [tasks |-> e.tasks, queue |-> e.queue, slot |-> e.slot, leaseSeq |-> e.leaseSeq]
  BY <1>1 DEF Complete
<1> HIDE DEF e, done
<1>6. /\ TaskIds(e) = TaskIds(d) /\ e.tasks[id] = done
      /\ \A i \in TaskIds(d) : i # id => e.tasks[i] = d.tasks[i]
  BY <1>2, <1>5 DEF TaskIds
<1>7. /\ InState(e, "pending") = InState(d, "pending")
      /\ InState(e, "leased") = InState(d, "leased") \ {id}
      /\ \A s : InState(d, s) \subseteq TaskIds(d)
  BY <1>3, <1>4, <1>6 DEF InState
<1>8. e \in Dispatcher
  <2>1. e.tasks \in Seq(DispatchedTask)
    BY <1>1, <1>2, <1>4, <1>5, ExceptSeq
  <2>2. e.slot \in [Workers -> Nat]
    BY <1>1, <1>5 DEF NoTask
  <2> QED
    BY <1>1, <1>5, <2>1, <2>2 DEF Dispatcher
<1>9. QueueIsPending(e)
  <2>1. \A k \in DOMAIN e.queue : e.queue[k] \in TaskIds(e) /\ e.tasks[e.queue[k]].state = "pending"
    BY <1>1, <1>3, <1>5, <1>6 DEF QueueIsPending
  <2> QED
    BY <2>1, <1>1, <1>5, <1>7 DEF QueueIsPending
<1>10. SlotsAreLeases(e)
  <2>1. \A v \in Workers : e.slot[v] = IF v = w THEN NoTask ELSE d.slot[v]
    BY <1>1, <1>5
  <2>2. \A i \in InState(e, "leased") : d.tasks[i].worker # w
    BY <1>1, <1>3, <1>7 DEF SlotsAreLeases
  <2>3. \A v \in Workers : v # w => d.slot[v] # id
    <3> SUFFICES ASSUME NEW v \in Workers, v # w, d.slot[v] = id PROVE FALSE
      OBVIOUS
    <3>1. id # NoTask
      BY <1>1, <1>2, LenProperties DEF NoTask
    <3> QED
      BY <3>1, <1>1, <1>2 DEF SlotsAreLeases
  <2> QED
    BY <2>1, <2>2, <2>3, <1>1, <1>6, <1>7 DEF SlotsAreLeases
<1>11. LeasesDiffer(e)
  <2>1. \A i \in InState(e, "leased") \cup InState(e, "pending") : e.tasks[i] = d.tasks[i]
    BY <1>3, <1>6, <1>7 DEF InState
  <2> QED
    BY <2>1, <1>1, <1>5, <1>7 DEF LeasesDiffer
<1>12. WithinBudget(e)
  <2>1. \A i \in TaskIds(d) : e.tasks[i].attempt = d.tasks[i].attempt
    BY <1>4, <1>6
  <2> QED
    BY <2>1, <1>1, <1>6, <1>7 DEF WithinBudget
<1> QED
  BY <1>3, <1>5, <1>6, <1>8, <1>9, <1>10, <1>11, <1>12 DEF Consistent, e, done

(* What happens to a task whose lease ends without a result. *)
LEMMA ReleasedTask ==
  ASSUME NEW d, d \in Dispatcher, NEW i \in TaskIds(d), d.tasks[i].state = "leased",
         WithinBudget(d)
  PROVE  /\ Release(d, i) \in DispatchedTask
         /\ Release(d, i).attempt = d.tasks[i].attempt
         /\ d.tasks[i].attempt >= MaxRetries => Release(d, i).state = "failed"
         /\ d.tasks[i].attempt < MaxRetries =>
              /\ Release(d, i).state = "pending" /\ Release(d, i).worker = NoWorker
              /\ Release(d, i).attempt < AttemptBudget
         /\ d.tasks[i].attempt \in Nat
<1>1. d.tasks[i] \in DispatchedTask
  BY ElementOfSeq, LenProperties DEF Dispatcher, TaskIds
<1>2. d.tasks[i].attempt \in Nat
  BY <1>1 DEF DispatchedTask
<1>3. CASE d.tasks[i].attempt >= MaxRetries
  BY <1>1, <1>2, <1>3, RetryAssumption DEF Release, DispatchedTask, TaskState
<1>4. CASE d.tasks[i].attempt < MaxRetries
  <2>1. Release(d, i) = [d.tasks[i] EXCEPT !.state = "pending", !.worker = NoWorker, !.lease = NoLease]
    BY <1>2, <1>4, RetryAssumption DEF Release
  <2>2. d.tasks[i].attempt < AttemptBudget
    BY <1>2, <1>4, BudgetFacts
  <2> DEFINE r == d.tasks[i]
             q == [r EXCEPT !.state = "pending", !.worker = NoWorker, !.lease = NoLease]
  <2>3. r \in DispatchedTask /\ r.attempt \in Nat /\ r.attempt < MaxRetries /\ r.attempt < AttemptBudget
    BY <1>1, <1>2, <1>4, <2>2
  <2>4. Release(d, i) = q
    BY <2>1
  <2> HIDE DEF r
  <2>5. q \in DispatchedTask
    BY <2>3 DEF DispatchedTask, TaskState, NoLease
  <2>6. q.state = "pending" /\ q.worker = NoWorker /\ q.attempt = r.attempt
    BY <2>3 DEF DispatchedTask
  <2> HIDE DEF q
  <2>7. ~(r.attempt >= MaxRetries)
    BY <2>3, RetryAssumption
  <2> QED
    BY <2>3, <2>4, <2>5, <2>6, <2>7 DEF r
<1> QED
  BY <1>2, <1>3, <1>4, RetryAssumption

(* A listing of some of the tasks is a sequence of task ids. *)
LEMMA OrderIsSequence ==
  ASSUME NEW d, d \in Dispatcher, NEW ids, ids \subseteq TaskIds(d), NEW order \in Orders(ids)
  PROVE  /\ order \in Seq(Nat \ {0}) /\ Len(order) \in Nat
         /\ DOMAIN order = 1..Len(order)
         /\ \A k \in DOMAIN order : order[k] \in ids
         /\ \A i \in ids : \E k \in DOMAIN order : order[k] = i
         /\ \A j, k \in DOMAIN order : order[j] = order[k] => j = k
<1>1. TaskIds(d) = 1..Len(d.tasks) /\ Len(d.tasks) \in Nat
  BY LenProperties DEF Dispatcher, TaskIds
<1>2. Cardinality(ids) \in Nat
  <2>1. IsFiniteSet(1..Len(d.tasks))
    BY <1>1, FS_Interval
  <2> QED
    BY <1>1, <2>1, FS_Subset, FS_CardinalityType
<1>3. order \in [1..Cardinality(ids) -> ids] /\ ids \subseteq Nat \ {0}
  BY <1>1 DEF Orders
<1>4. order \in [1..Cardinality(ids) -> Nat \ {0}]
  BY <1>3
<1>5. order \in Seq(Nat \ {0}) /\ Len(order) = Cardinality(ids)
  BY <1>2, <1>4, IsASeq, LenProperties
<1> QED
  BY <1>2, <1>3, <1>5 DEF Orders

(* sweep_expired_leases keeps the dispatcher consistent. *)
LEMMA SweepConsistent ==
  ASSUME NEW d, Consistent(d), NEW t \in Int,
         NEW order \in Orders(Expired(d, t) \ Spent(d, Expired(d, t)))
  PROVE  Consistent(Sweep(d, t, order))
<1> DEFINE e == Sweep(d, t, order)
           gone == Expired(d, t)
           back == gone \ Spent(d, gone)
<1>1. /\ d.tasks \in Seq(DispatchedTask) /\ d.queue \in Seq(Nat \ {0})
      /\ d.slot \in [Workers -> Nat] /\ d.leaseSeq \in Nat /\ d \in Dispatcher
      /\ QueueIsPending(d) /\ SlotsAreLeases(d) /\ LeasesDiffer(d) /\ WithinBudget(d)
  BY DEF Consistent, Dispatcher
<1>2. /\ gone \subseteq InState(d, "leased") /\ back \subseteq gone
      /\ \A s : InState(d, s) \subseteq TaskIds(d)
  BY DEF Expired, InState
<1>3. \A i \in gone :
        /\ Release(d, i) \in DispatchedTask
        /\ Release(d, i).attempt = d.tasks[i].attempt
        /\ i \in back => /\ Release(d, i).state = "pending" /\ Release(d, i).worker = NoWorker
                         /\ Release(d, i).attempt < AttemptBudget
        /\ i \notin back => Release(d, i).state = "failed"
  <2> SUFFICES ASSUME NEW i \in gone
               PROVE  /\ Release(d, i) \in DispatchedTask
                      /\ Release(d, i).attempt = d.tasks[i].attempt
                      /\ i \in back => /\ Release(d, i).state = "pending"
                                       /\ Release(d, i).worker = NoWorker
                                       /\ Release(d, i).attempt < AttemptBudget
                      /\ i \notin back => Release(d, i).state = "failed"
    OBVIOUS
  <2>1. i \in TaskIds(d) /\ d.tasks[i].state = "leased"
    BY <1>2 DEF InState
  <2>2. i \in back <=> ~(d.tasks[i].attempt >= MaxRetries)
    BY DEF Spent
  <2>3. /\ Release(d, i) \in DispatchedTask
        /\ Release(d, i).attempt = d.tasks[i].attempt
        /\ d.tasks[i].attempt >= MaxRetries => Release(d, i).state = "failed"
        /\ d.tasks[i].attempt < MaxRetries =>
             /\ Release(d, i).state = "pending" /\ Release(d, i).worker = NoWorker
             /\ Release(d, i).attempt < AttemptBudget
        /\ d.tasks[i].attempt \in Nat
    BY <1>1, <2>1, ReleasedTask
  <2> QED
    BY <2>2, <2>3, RetryAssumption
<1>4. /\ e.tasks = [i \in TaskIds(d) |-> IF i \in gone THEN Release(d, i) ELSE d.tasks[i]]
      /\ e.queue = d.queue \o order
      /\ e.slot = [w \in Workers |->
                     IF \E i \in gone : d.tasks[i].worker = w THEN NoTask ELSE d.slot[w]]
      /\ e.leaseSeq = d.leaseSeq
      /\ e = [tasks |-> e.tasks, queue |-> e.queue, slot |-> e.slot, leaseSeq |-> e.leaseSeq]
  BY DEF Sweep
<1>5. /\ order \in Seq(Nat \ {0}) /\ Len(order) \in Nat /\ DOMAIN order = 1..Len(order)
      /\ \A k \in DOMAIN order : order[k] \in back
      /\ \A i \in back : \E k \in DOMAIN order : order[k] = i
      /\ \A j, k \in DOMAIN order : order[j] = order[k] => j = k
  <2>1. back \subseteq TaskIds(d) /\ order \in Orders(back)
    BY <1>2
  <2> HIDE DEF back, gone
  <2> QED
    BY <2>1, <1>1, OrderIsSequence
<1> HIDE DEF e, gone, back
<1>6. /\ TaskIds(e) = TaskIds(d)
      /\ \A i \in TaskIds(d) : e.tasks[i] = IF i \in gone THEN Release(d, i) ELSE d.tasks[i]
  BY <1>4 DEF TaskIds
<1>7. /\ InState(e, "pending") = InState(d, "pending") \cup back
      /\ InState(e, "leased") = InState(d, "leased") \ gone
      /\ InState(d, "pending") \cap gone = {}
  BY <1>2, <1>3, <1>6 DEF InState
<1>8. e \in Dispatcher
  <2>1. TaskIds(d) = 1..Len(d.tasks) /\ Len(d.tasks) \in Nat
        /\ \A i \in TaskIds(d) : d.tasks[i] \in DispatchedTask
    BY <1>1, LenProperties, ElementOfSeq DEF TaskIds
  <2>2. e.tasks \in [1..Len(d.tasks) -> DispatchedTask]
    BY <2>1, <1>3, <1>4
  <2>3. e.tasks \in Seq(DispatchedTask)
    BY <2>1, <2>2, IsASeq
  <2>4. e.queue \in Seq(Nat \ {0})
    BY <1>1, <1>4, <1>5, ConcatProperties
  <2>5. e.slot \in [Workers -> Nat]
    BY <1>1, <1>4 DEF NoTask
  <2> QED
    BY <1>1, <1>4, <2>3, <2>4, <2>5 DEF Dispatcher
<1>9. QueueIsPending(e)
  <2> DEFINE n == Len(d.queue)
             m == Len(order)
  <2>1. n \in Nat /\ m \in Nat /\ DOMAIN d.queue = 1..n /\ DOMAIN order = 1..m
    BY <1>1, <1>5, LenProperties
  <2>2. /\ DOMAIN e.queue = 1..(n + m)
        /\ \A k \in 1..(n + m) : e.queue[k] = IF k <= n THEN d.queue[k] ELSE order[k - n]
    BY <1>1, <1>4, <1>5, ConcatProperties, LenProperties
  <2> HIDE DEF n, m
  <2>3. \A k \in 1..(n + m) : \/ k \in DOMAIN d.queue /\ e.queue[k] = d.queue[k]
                              \/ k > n /\ k - n \in DOMAIN order /\ e.queue[k] = order[k - n]
    BY <2>1, <2>2
  <2>4. /\ \A k \in DOMAIN d.queue : d.queue[k] \in InState(d, "pending") /\ d.queue[k] \notin back
    BY <1>1, <1>2, <1>7 DEF QueueIsPending, InState
  <2>5. \A k \in DOMAIN e.queue : e.queue[k] \in InState(e, "pending")
    BY <2>2, <2>3, <2>4, <1>5, <1>7
  <2>6. \A i \in InState(e, "pending") : \E k \in DOMAIN e.queue : e.queue[k] = i
    <3> SUFFICES ASSUME NEW i \in InState(e, "pending")
                 PROVE  \E k \in DOMAIN e.queue : e.queue[k] = i
      OBVIOUS
    <3>1. CASE i \in back
      <4>1. PICK k \in 1..m : order[k] = i
        BY <3>1, <1>5, <2>1
      <4>2. k + n \in 1..(n + m) /\ ~(k + n <= n) /\ (k + n) - n = k
        BY <2>1
      <4> QED
        BY <4>1, <4>2, <2>2
    <3>2. CASE i \in InState(d, "pending")
      <4>1. PICK k \in 1..n : d.queue[k] = i
        BY <3>2, <1>1, <2>1 DEF QueueIsPending
      <4>2. k \in 1..(n + m) /\ k <= n
        BY <2>1
      <4> QED
        BY <4>1, <4>2, <2>2
    <3> QED
      BY <3>1, <3>2, <1>7
  <2>7. \A j, k \in DOMAIN e.queue : e.queue[j] = e.queue[k] => j = k
    <3> SUFFICES ASSUME NEW j \in 1..(n + m), NEW k \in 1..(n + m), e.queue[j] = e.queue[k]
                 PROVE  j = k
      BY <2>2
    <3>1. CASE j \in DOMAIN d.queue /\ e.queue[j] = d.queue[j]
      <4>1. e.queue[k] \notin back
        BY <3>1, <2>4
      <4>2. ~(k - n \in DOMAIN order /\ e.queue[k] = order[k - n])
        BY <4>1, <1>5
      <4>3. k \in DOMAIN d.queue /\ e.queue[k] = d.queue[k]
        BY <4>2, <2>3
      <4> QED
        BY <3>1, <4>3, <1>1 DEF QueueIsPending
    <3>2. CASE j > n /\ j - n \in DOMAIN order /\ e.queue[j] = order[j - n]
      <4>1. k > n /\ k - n \in DOMAIN order /\ e.queue[k] = order[k - n]
        BY <3>2, <2>3, <2>4, <1>5, ZenonT(60)
      <4>2. j - n = k - n
        BY <3>2, <4>1, <1>5
      <4> QED
        BY <4>2, <2>1
    <3> QED
      BY <3>1, <3>2, <2>3
  <2> QED
    BY <2>5, <2>6, <2>7 DEF QueueIsPending, InState
<1>10. SlotsAreLeases(e)
  <2> SUFFICES ASSUME NEW w \in Workers
               PROVE  /\ e.slot[w] # NoTask =>
                           e.slot[w] \in InState(e, "leased") /\ e.tasks[e.slot[w]].worker = w
                      /\ \A i \in InState(e, "leased") : e.tasks[i].worker = w => e.slot[w] = i
    BY DEF SlotsAreLeases
  <2>1. /\ d.slot[w] # NoTask =>
             d.slot[w] \in InState(d, "leased") /\ d.tasks[d.slot[w]].worker = w
        /\ \A i \in InState(d, "leased") : d.tasks[i].worker = w => d.slot[w] = i
    BY <1>1 DEF SlotsAreLeases
  <2>2. CASE \E i \in gone : d.tasks[i].worker = w
    <3>1. e.slot[w] = NoTask
      BY <1>4, <2>2
    <3>2. \A i \in InState(e, "leased") : e.tasks[i].worker # w
      BY <1>2, <1>6, <1>7, <2>1, <2>2
    <3> QED
      BY <3>1, <3>2
  <2>3. CASE ~ \E i \in gone : d.tasks[i].worker = w
    <3>1. e.slot[w] = d.slot[w]
      BY <1>4, <2>3
    <3> QED
      BY <1>2, <1>6, <1>7, <2>1, <2>3, <3>1
  <2> QED
    BY <2>2, <2>3
<1>11. LeasesDiffer(e)
  <2>1. \A i \in InState(e, "leased") : i \in InState(d, "leased") /\ e.tasks[i] = d.tasks[i]
    BY <1>2, <1>6, <1>7
  <2>2. \A i \in InState(e, "pending") : e.tasks[i].worker = NoWorker
    <3> SUFFICES ASSUME NEW i \in InState(e, "pending") PROVE e.tasks[i].worker = NoWorker
      OBVIOUS
    <3>1. CASE i \in back
      <4>1. i \in TaskIds(d) /\ i \in gone
        BY <3>1, <1>2
      <4> QED
        BY <3>1, <4>1, <1>3, <1>6
    <3>2. CASE i \in InState(d, "pending")
      <4>1. i \in TaskIds(d) /\ i \notin gone
        BY <3>2, <1>7 DEF InState
      <4>2. e.tasks[i] = d.tasks[i]
        BY <4>1, <1>6
      <4> QED
        BY <4>2, <3>2, <1>1 DEF LeasesDiffer
    <3> QED
      BY <3>1, <3>2, <1>7
  <2> QED
    BY <2>1, <2>2, <1>1, <1>4 DEF LeasesDiffer
<1>12. WithinBudget(e)
  <2>1. \A i \in TaskIds(d) : e.tasks[i].attempt = d.tasks[i].attempt
    BY <1>3, <1>6
  <2>2. \A i \in InState(e, "pending") : e.tasks[i].attempt < AttemptBudget
    BY <1>1, <1>2, <1>3, <1>6, <1>7 DEF WithinBudget
  <2> QED
    BY <2>1, <2>2, <1>1, <1>6 DEF WithinBudget
<1> QED
  BY <1>8, <1>9, <1>10, <1>11, <1>12 DEF Consistent, e

(* cancel_lease_for_worker keeps the dispatcher consistent. *)
LEMMA CancelConsistent ==
  ASSUME NEW d, Consistent(d), NEW w \in Workers
  PROVE  Consistent(CancelLease(d, w))
<1> DEFINE e == CancelLease(d, w)
           id == d.slot[w]
           spent == d.tasks[id].attempt >= MaxRetries
<1>1. /\ d.tasks \in Seq(DispatchedTask) /\ d.queue \in Seq(Nat \ {0})
      /\ d.slot \in [Workers -> Nat] /\ d.leaseSeq \in Nat /\ d \in Dispatcher
      /\ QueueIsPending(d) /\ SlotsAreLeases(d) /\ LeasesDiffer(d) /\ WithinBudget(d)
  BY DEF Consistent, Dispatcher
<1>2. CASE id = NoTask
  BY <1>2 DEF CancelLease
<1>3. CASE id # NoTask
  <2>1. id \in InState(d, "leased") /\ d.tasks[id].worker = w
    BY <1>1, <1>3 DEF SlotsAreLeases
  <2>2. /\ id \in TaskIds(d) /\ id \in 1..Len(d.tasks) /\ d.tasks[id].state = "leased"
        /\ id \in Nat \ {0}
    BY <2>1, <1>1, <1>3, LenProperties DEF InState, TaskIds, NoTask
  <2>3. /\ e.tasks = [d.tasks EXCEPT ![id] = Release(d, id)]
        /\ e.queue = IF spent THEN d.queue ELSE Append(d.queue, id)
        /\ e.slot = [d.slot EXCEPT ![w] = NoTask] /\ e.leaseSeq = d.leaseSeq
        /\ e = [tasks |-> e.tasks, queue |-> e.queue, slot |-> e.slot, leaseSeq |-> e.leaseSeq]
    BY <1>3, <2>2 DEF CancelLease
  <2>4. /\ Release(d, id) \in DispatchedTask
        /\ Release(d, id).attempt = d.tasks[id].attempt
        /\ spent => Release(d, id).state = "failed"
        /\ ~spent => /\ Release(d, id).state = "pending" /\ Release(d, id).worker = NoWorker
                     /\ Release(d, id).attempt < AttemptBudget
    <3>1. /\ Release(d, id) \in DispatchedTask
          /\ Release(d, id).attempt = d.tasks[id].attempt
          /\ d.tasks[id].attempt >= MaxRetries => Release(d, id).state = "failed"
          /\ d.tasks[id].attempt < MaxRetries =>
               /\ Release(d, id).state = "pending" /\ Release(d, id).worker = NoWorker
               /\ Release(d, id).attempt < AttemptBudget
          /\ d.tasks[id].attempt \in Nat
      BY <1>1, <2>2, ReleasedTask
    <3> QED
      BY <3>1, RetryAssumption
  <2> HIDE DEF e, id, spent
  <2>5. /\ TaskIds(e) = TaskIds(d) /\ e.tasks[id] = Release(d, id)
        /\ \A i \in TaskIds(d) : i # id => e.tasks[i] = d.tasks[i]
    BY <2>2, <2>3 DEF TaskIds
  <2>6. /\ InState(e, "pending") = InState(d, "pending") \cup (IF spent THEN {} ELSE {id})
        /\ InState(e, "leased") = InState(d, "leased") \ {id}
        /\ id \notin InState(d, "pending")
        /\ \A s : InState(d, s) \subseteq TaskIds(d)
    BY <2>2, <2>4, <2>5 DEF InState
  <2>7. e \in Dispatcher
    <3>1. e.tasks \in Seq(DispatchedTask)
      BY <1>1, <2>2, <2>3, <2>4, ExceptSeq
    <3>2. e.queue \in Seq(Nat \ {0})
      BY <1>1, <2>2, <2>3, AppendProperties
    <3>3. e.slot \in [Workers -> Nat]
      BY <1>1, <2>3 DEF NoTask
    <3> QED
      BY <1>1, <2>3, <3>1, <3>2, <3>3 DEF Dispatcher
  <2>8. QueueIsPending(e)
    <3>1. CASE spent
      BY <3>1, <1>1, <2>2, <2>3, <2>5, <2>6, SMTT(60) DEF QueueIsPending
    <3>2. CASE ~spent
      <4>1. /\ Len(d.queue) \in Nat /\ DOMAIN d.queue = 1..Len(d.queue)
            /\ DOMAIN e.queue = 1..(Len(d.queue) + 1)
            /\ \A k \in 1..Len(d.queue) : e.queue[k] = d.queue[k]
            /\ e.queue[Len(d.queue) + 1] = id
        BY <1>1, <2>2, <2>3, <3>2, AppendProperties, LenProperties
      <4>2. \A k \in 1..Len(d.queue) : e.queue[k] \in InState(d, "pending") /\ e.queue[k] # id
        <5>1. \A k \in 1..Len(d.queue) : d.queue[k] \in InState(d, "pending")
          BY <1>1, <4>1 DEF QueueIsPending, InState
        <5> QED
          BY <5>1, <2>6, <4>1
      <4>3. \A k \in DOMAIN e.queue : e.queue[k] \in InState(e, "pending")
        BY <2>6, <3>2, <4>1, <4>2
      <4>4. \A i \in InState(e, "pending") : \E k \in DOMAIN e.queue : e.queue[k] = i
        <5> SUFFICES ASSUME NEW i \in InState(e, "pending")
                     PROVE  \E k \in DOMAIN e.queue : e.queue[k] = i
          OBVIOUS
        <5>1. CASE i = id
          BY <4>1, <5>1
        <5>2. CASE i \in InState(d, "pending")
          <6>1. PICK k \in DOMAIN d.queue : d.queue[k] = i
            BY <1>1, <5>2 DEF QueueIsPending
          <6> QED
            BY <4>1, <6>1
        <5> QED
          BY <5>1, <5>2, <2>6, <3>2
      <4>5. \A j, k \in DOMAIN e.queue : e.queue[j] = e.queue[k] => j = k
        <5> SUFFICES ASSUME NEW j \in DOMAIN e.queue, NEW k \in DOMAIN e.queue,
                            e.queue[j] = e.queue[k]
                     PROVE  j = k
          OBVIOUS
        <5>1. CASE j = Len(d.queue) + 1 \/ k = Len(d.queue) + 1
          BY <5>1, <4>1, <4>2
        <5>2. CASE j \in 1..Len(d.queue) /\ k \in 1..Len(d.queue)
          <6>1. d.queue[j] = d.queue[k] /\ j \in DOMAIN d.queue /\ k \in DOMAIN d.queue
            BY <5>2, <4>1
          <6> QED
            BY <6>1, <1>1 DEF QueueIsPending
        <5> QED
          BY <5>1, <5>2, <4>1
      <4> QED
        BY <4>3, <4>4, <4>5 DEF QueueIsPending, InState
    <3> QED
      BY <3>1, <3>2
  <2>9. SlotsAreLeases(e)
    <3>1. \A v \in Workers : e.slot[v] = IF v = w THEN NoTask ELSE d.slot[v]
      BY <1>1, <2>3
    <3>2. \A i \in InState(e, "leased") : i \in InState(d, "leased") /\ e.tasks[i] = d.tasks[i] /\ d.tasks[i].worker # w
      BY <1>1, <2>5, <2>6 DEF SlotsAreLeases, id
    <3>3. \A v \in Workers : v # w => d.slot[v] # id
      BY <1>1, <1>3, <2>1 DEF SlotsAreLeases, id
    <3> SUFFICES ASSUME NEW v \in Workers
                 PROVE  /\ e.slot[v] # NoTask =>
                             e.slot[v] \in InState(e, "leased") /\ e.tasks[e.slot[v]].worker = v
                        /\ \A i \in InState(e, "leased") : e.tasks[i].worker = v => e.slot[v] = i
      BY DEF SlotsAreLeases
    <3>4. /\ d.slot[v] # NoTask =>
               d.slot[v] \in InState(d, "leased") /\ d.tasks[d.slot[v]].worker = v
          /\ \A i \in InState(d, "leased") : d.tasks[i].worker = v => d.slot[v] = i
      BY <1>1 DEF SlotsAreLeases
    <3>5. CASE v = w
      BY <3>1, <3>2, <3>5
    <3>6. CASE v # w
      BY <2>5, <2>6, <3>1, <3>2, <3>3, <3>4, <3>6
    <3> QED
      BY <3>5, <3>6
  <2>10. LeasesDiffer(e)
    <3>1. \A i \in InState(e, "leased") : i \in InState(d, "leased") /\ e.tasks[i] = d.tasks[i]
      BY <2>5, <2>6
    <3>2. \A i \in InState(e, "pending") : e.tasks[i].worker = NoWorker
      BY <1>1, <2>4, <2>5, <2>6 DEF LeasesDiffer
    <3> QED
      BY <1>1, <2>3, <3>1, <3>2 DEF LeasesDiffer
  <2>11. WithinBudget(e)
    <3>1. \A i \in TaskIds(d) : e.tasks[i].attempt = d.tasks[i].attempt
      BY <2>4, <2>5
    <3>2. \A i \in InState(e, "pending") : e.tasks[i].attempt < AttemptBudget
      BY <1>1, <2>4, <2>5, <2>6 DEF WithinBudget
    <3> QED
      BY <1>1, <2>5, <3>1, <3>2 DEF WithinBudget
  <2> QED
    BY <2>7, <2>8, <2>9, <2>10, <2>11 DEF Consistent, e
<1> QED
  BY <1>2, <1>3
-------------------------------------------------------------------------------
(***************************************************************************)
(* The history variables and the dispatcher agree.  LatestLeaseWins is not *)
(* inductive: that an accepted lease stays the newest needs that its task  *)
(* is completed under that very lease, and that no lease handed out is     *)
(* newer than the counter or, on a task leased or completed, than the      *)
(* task's own.                                                             *)
(***************************************************************************)
GrantHistory ==
  /\ \A g \in grants :
       /\ g.task \in TaskIds(dispatcher) /\ g.lease <= dispatcher.leaseSeq
       /\ dispatcher.tasks[g.task].state \in {"leased", "completed"} =>
            g.lease <= dispatcher.tasks[g.task].lease
  /\ \A a \in accepted :
       /\ dispatcher.tasks[a.task].state = "completed"
       /\ dispatcher.tasks[a.task].lease = a.lease

IInv ==
  /\ Consistent(dispatcher)
  /\ now \in Nat
  /\ grants \subseteq Grant
  /\ accepted \subseteq grants
  /\ GrantHistory

LEMMA InitIInv == Init => IInv
<1> SUFFICES ASSUME Init PROVE IInv
  OBVIOUS
<1>1. dispatcher = EmptyDispatcher /\ now = 0 /\ grants = {} /\ accepted = {}
  BY DEF Init
<1> QED
  BY <1>1, EmptyConsistent DEF IInv, GrantHistory

(* A step that grants and accepts nothing keeps the history, if it keeps   *)
(* the tasks that were leased or completed or makes them pending or failed *)
(* (accepted ones untouched).                                              *)
LEMMA HistoryKept ==
  ASSUME IInv, UNCHANGED <<grants, accepted>>,
         dispatcher'.leaseSeq = dispatcher.leaseSeq,
         TaskIds(dispatcher) \subseteq TaskIds(dispatcher)',
         \A i \in TaskIds(dispatcher) :
           \/ dispatcher'.tasks[i] = dispatcher.tasks[i]
           \/ /\ dispatcher.tasks[i].state = "leased"
              /\ dispatcher'.tasks[i].state \in {"pending", "failed"}
  PROVE  GrantHistory'
<1>1. \A g \in grants :
        /\ g.task \in TaskIds(dispatcher) /\ g.lease <= dispatcher.leaseSeq
        /\ dispatcher.tasks[g.task].state \in {"leased", "completed"} =>
             g.lease <= dispatcher.tasks[g.task].lease
  BY DEF IInv, GrantHistory
<1>2. \A a \in accepted : /\ a.task \in TaskIds(dispatcher)
                          /\ dispatcher.tasks[a.task].state = "completed"
                          /\ dispatcher.tasks[a.task].lease = a.lease
  BY <1>1 DEF IInv, GrantHistory
<1>3. \A g \in grants :
        /\ g.task \in TaskIds(dispatcher)' /\ g.lease <= dispatcher'.leaseSeq
        /\ dispatcher'.tasks[g.task].state \in {"leased", "completed"} =>
             g.lease <= dispatcher'.tasks[g.task].lease
  BY <1>1
<1>4. \A a \in accepted : /\ dispatcher'.tasks[a.task].state = "completed"
                          /\ dispatcher'.tasks[a.task].lease = a.lease
  BY <1>2
<1> QED
  BY <1>3, <1>4 DEF GrantHistory

LEMMA NextIInv == IInv /\ [Next]_vars => IInv'
<1> SUFFICES ASSUME IInv, [Next]_vars PROVE IInv'
  OBVIOUS
<1> USE RetryAssumption, LeaseAssumption
<1>0. /\ Consistent(dispatcher) /\ dispatcher \in Dispatcher
      /\ QueueIsPending(dispatcher) /\ SlotsAreLeases(dispatcher)
      /\ now \in Nat /\ grants \subseteq Grant /\ accepted \subseteq grants /\ GrantHistory
  BY DEF IInv, Consistent
<1>1. ASSUME NEW c \in Clients, NEW used \in 0..AttemptBudget, EnqueueTask(c, used)
      PROVE  IInv'
  <2>1. dispatcher' = Enqueue(dispatcher, c, used) /\ UNCHANGED <<now, grants, accepted>>
    BY <1>1 DEF EnqueueTask
  <2>2. Consistent(dispatcher)'
    BY <1>0, <2>1, EnqueueConsistent
  <2>3. /\ dispatcher'.leaseSeq = dispatcher.leaseSeq
        /\ TaskIds(dispatcher) \subseteq TaskIds(dispatcher)'
        /\ \A i \in TaskIds(dispatcher) : dispatcher'.tasks[i] = dispatcher.tasks[i]
    <3> DEFINE task == [client |-> c,
                        state |-> IF used > 0 /\ used >= MaxRetries THEN "failed" ELSE "pending",
                        worker |-> NoWorker, lease |-> NoLease, expires |-> 0, attempt |-> used]
    <3>1. dispatcher'.leaseSeq = dispatcher.leaseSeq /\ dispatcher'.tasks = Append(dispatcher.tasks, task)
      BY <2>1 DEF Enqueue
    <3>2. dispatcher.tasks \in Seq(DispatchedTask) /\ task \in DispatchedTask
      BY <1>0, BudgetFacts DEF Dispatcher, DispatchedTask, TaskState, NoLease
    <3> HIDE DEF task
    <3> QED
      BY <3>1, <3>2, AppendProperties, LenProperties DEF TaskIds
  <2> QED
    BY <1>0, <2>1, <2>2, <2>3, HistoryKept DEF IInv
<1>2. ASSUME NEW w \in Workers, AcquireTask(w)
      PROVE  IInv'
  <2> DEFINE id == Head(dispatcher.queue)
             l == dispatcher.leaseSeq + 1
             g0 == [worker |-> w, task |-> id, lease |-> l]
  <2>1. /\ CanAcquire(dispatcher, w) /\ dispatcher' = Acquire(dispatcher, w, now)
        /\ grants' = grants \cup {g0} /\ UNCHANGED <<now, accepted>>
    BY <1>2 DEF AcquireTask
  <2>2. Consistent(dispatcher)'
    BY <1>0, <2>1, AcquireConsistent
  <2>3. id \in TaskIds(dispatcher) /\ dispatcher.tasks[id].state = "pending" /\ id \in Nat
        /\ dispatcher.leaseSeq \in Nat
    <3>1. dispatcher.queue \in Seq(Nat \ {0}) /\ dispatcher.queue # <<>>
      BY <1>0, <2>1 DEF Dispatcher, CanAcquire
    <3>2. 1 \in DOMAIN dispatcher.queue /\ id = dispatcher.queue[1] /\ id \in Nat
      BY <3>1, HeadTailProperties, LenProperties, EmptySeq, ElementOfSeq
    <3> QED
      BY <1>0, <3>2 DEF QueueIsPending, Dispatcher
  <2>4. /\ dispatcher'.leaseSeq = l /\ TaskIds(dispatcher)' = TaskIds(dispatcher)
        /\ dispatcher'.tasks[id].state = "leased" /\ dispatcher'.tasks[id].lease = l
        /\ \A i \in TaskIds(dispatcher) : i # id => dispatcher'.tasks[i] = dispatcher.tasks[i]
    BY <2>1, <2>3 DEF Acquire, TaskIds
  <2>5. g0 \in Grant /\ g0.task = id /\ g0.lease = l /\ l \in Nat
    BY <2>3 DEF Grant
  <2> HIDE DEF id, g0
  <2>6. \A g \in grants : g.lease \in Nat /\ g.lease <= dispatcher.leaseSeq /\ g.task \in TaskIds(dispatcher)
    BY <1>0 DEF GrantHistory, Grant
  <2>7. \A g \in grants' :
          /\ g.task \in TaskIds(dispatcher)' /\ g.lease <= dispatcher'.leaseSeq
          /\ dispatcher'.tasks[g.task].state \in {"leased", "completed"} =>
               g.lease <= dispatcher'.tasks[g.task].lease
    <3> SUFFICES ASSUME NEW g \in grants'
                 PROVE  /\ g.task \in TaskIds(dispatcher)' /\ g.lease <= dispatcher'.leaseSeq
                        /\ dispatcher'.tasks[g.task].state \in {"leased", "completed"} =>
                             g.lease <= dispatcher'.tasks[g.task].lease
      OBVIOUS
    <3>1. CASE g = g0
      BY <2>3, <2>4, <2>5, <3>1
    <3>2. CASE g \in grants /\ g.task = id
      BY <2>3, <2>4, <2>6, <3>2
    <3>3. CASE g \in grants /\ g.task # id
      <4>1. /\ g.task \in TaskIds(dispatcher) /\ g.lease \in Nat /\ g.lease <= dispatcher.leaseSeq
            /\ dispatcher.tasks[g.task].state \in {"leased", "completed"} =>
                 g.lease <= dispatcher.tasks[g.task].lease
        BY <1>0, <2>6, <3>3 DEF GrantHistory
      <4>2. g.lease <= l
        BY <2>3, <4>1
      <4> HIDE DEF l
      <4>3. dispatcher'.tasks[g.task] = dispatcher.tasks[g.task]
        BY <2>4, <3>3, <4>1
      <4> QED
        BY <2>4, <4>1, <4>2, <4>3
    <3> QED
      BY <2>1, <3>1, <3>2, <3>3
  <2>8. \A a \in accepted : /\ dispatcher'.tasks[a.task].state = "completed"
                            /\ dispatcher'.tasks[a.task].lease = a.lease
    BY <1>0, <2>3, <2>4, <2>6 DEF GrantHistory
  <2>9. GrantHistory'
    BY <2>1, <2>7, <2>8 DEF GrantHistory
  <2> QED
    BY <1>0, <2>1, <2>2, <2>5, <2>9 DEF IInv
<1>3. ASSUME NEW g \in grants, SubmitResult(g)
      PROVE  IInv'
  <2> DEFINE id == g.task
  <2>1. /\ Accepts(dispatcher, g.worker, id, g.lease, now)
        /\ dispatcher' = Complete(dispatcher, g.worker, id)
        /\ accepted' = accepted \cup {g} /\ UNCHANGED <<now, grants>>
        /\ g.worker \in Workers
    BY <1>0, <1>3 DEF SubmitResult, Grant
  <2>2. /\ Consistent(dispatcher)'
        /\ dispatcher.tasks[id].state = "leased"
        /\ dispatcher'.tasks[id] = [dispatcher.tasks[id] EXCEPT !.state = "completed"]
        /\ \A i \in TaskIds(dispatcher) : i # id => dispatcher'.tasks[i] = dispatcher.tasks[i]
        /\ TaskIds(dispatcher)' = TaskIds(dispatcher)
        /\ dispatcher'.leaseSeq = dispatcher.leaseSeq
    BY <1>0, <2>1, CompleteConsistent
  <2>3. id \in TaskIds(dispatcher) /\ dispatcher.tasks[id].lease = g.lease
        /\ dispatcher.tasks[id] \in DispatchedTask
    BY <1>0, <2>1, ElementOfSeq, LenProperties DEF Accepts, TaskIds, Dispatcher
  <2>4. dispatcher'.tasks[id].state = "completed" /\ dispatcher'.tasks[id].lease = g.lease
    BY <2>2, <2>3 DEF DispatchedTask
  <2> HIDE DEF id
  <2>5. \A h \in grants :
          /\ h.task \in TaskIds(dispatcher)' /\ h.lease <= dispatcher'.leaseSeq
          /\ dispatcher'.tasks[h.task].state \in {"leased", "completed"} =>
               h.lease <= dispatcher'.tasks[h.task].lease
    BY <1>0, <2>2, <2>3, <2>4 DEF GrantHistory
  <2>6. \A a \in accepted : a.task # id
    BY <1>0, <2>2 DEF GrantHistory
  <2>7. \A a \in accepted : a.task \in TaskIds(dispatcher)
    BY <1>0 DEF GrantHistory
  <2>8. \A a \in accepted' : /\ dispatcher'.tasks[a.task].state = "completed"
                             /\ dispatcher'.tasks[a.task].lease = a.lease
    <3>1. \A a \in accepted : /\ dispatcher'.tasks[a.task].state = "completed"
                              /\ dispatcher'.tasks[a.task].lease = a.lease
      BY <1>0, <2>2, <2>6, <2>7 DEF GrantHistory
    <3> QED
      BY <2>1, <2>4, <3>1 DEF id
  <2>9. GrantHistory'
    BY <2>1, <2>5, <2>8 DEF GrantHistory
  <2> QED
    BY <1>0, <2>1, <2>2, <2>9 DEF IInv
<1>4. CASE SweepExpiredLeases
  <2>1. PICK order \in Orders(Expired(dispatcher, now) \ Spent(dispatcher, Expired(dispatcher, now))) :
          dispatcher' = Sweep(dispatcher, now, order)
    BY <1>4 DEF SweepExpiredLeases
  <2>2. UNCHANGED <<now, grants, accepted>>
    BY <1>4 DEF SweepExpiredLeases
  <2>3. Consistent(dispatcher)'
    BY <1>0, <2>1, SweepConsistent
  <2>4. /\ TaskIds(dispatcher)' = TaskIds(dispatcher) /\ dispatcher'.leaseSeq = dispatcher.leaseSeq
        /\ \A i \in TaskIds(dispatcher) :
             dispatcher'.tasks[i] = IF i \in Expired(dispatcher, now) THEN Release(dispatcher, i)
                                    ELSE dispatcher.tasks[i]
    BY <2>1 DEF Sweep, TaskIds
  <2>5. \A i \in Expired(dispatcher, now) :
          dispatcher.tasks[i].state = "leased" /\ Release(dispatcher, i).state \in {"pending", "failed"}
    <3> SUFFICES ASSUME NEW i \in Expired(dispatcher, now)
                 PROVE  /\ dispatcher.tasks[i].state = "leased"
                        /\ Release(dispatcher, i).state \in {"pending", "failed"}
      OBVIOUS
    <3>1. i \in TaskIds(dispatcher) /\ dispatcher.tasks[i].state = "leased"
      BY DEF Expired
    <3> QED
      BY <3>1, <1>0, ReleasedTask DEF Consistent
  <2> QED
    BY <1>0, <2>2, <2>3, <2>4, <2>5, HistoryKept DEF IInv
<1>5. ASSUME NEW w \in Workers, CancelLeaseForWorker(w)
      PROVE  IInv'
  <2> DEFINE id == dispatcher.slot[w]
  <2>1. /\ id # NoTask /\ dispatcher' = CancelLease(dispatcher, w)
        /\ UNCHANGED <<now, grants, accepted>>
    BY <1>5 DEF CancelLeaseForWorker
  <2>2. Consistent(dispatcher)'
    BY <1>0, <2>1, CancelConsistent
  <2>3. id \in TaskIds(dispatcher) /\ dispatcher.tasks[id].state = "leased"
    BY <1>0, <2>1 DEF SlotsAreLeases, InState
  <2>4. Release(dispatcher, id).state \in {"pending", "failed"}
    BY <1>0, <2>3, ReleasedTask DEF Consistent
  <2>5. /\ dispatcher'.tasks = [dispatcher.tasks EXCEPT ![id] = Release(dispatcher, id)]
        /\ dispatcher'.leaseSeq = dispatcher.leaseSeq
    BY <2>1, <2>3 DEF CancelLease
  <2>6. /\ TaskIds(dispatcher)' = TaskIds(dispatcher)
        /\ \A i \in TaskIds(dispatcher) :
             dispatcher'.tasks[i] = IF i = id THEN Release(dispatcher, id) ELSE dispatcher.tasks[i]
    BY <2>3, <2>5 DEF TaskIds
  <2> QED
    BY <1>0, <2>1, <2>2, <2>3, <2>4, <2>5, <2>6, HistoryKept DEF IInv
<1>6. CASE Tick
  <2>1. now' = now + 1 /\ UNCHANGED <<dispatcher, grants, accepted>>
    BY <1>6 DEF Tick
  <2> QED
    BY <1>0, <2>1 DEF IInv, GrantHistory
<1>7. CASE UNCHANGED vars
  BY <1>0, <1>7 DEF IInv, GrantHistory, vars
<1> QED
  BY <1>1, <1>2, <1>3, <1>4, <1>5, <1>6, <1>7 DEF Next

THEOREM Invariance == Spec => []IInv
BY InitIInv, NextIInv, PTL DEF Spec

(***************************************************************************)
(* The dispatcher of task_dispatcher.cpp keeps its fields well typed.      *)
(***************************************************************************)
THEOREM TypeCorrect == Spec => []TypeOK
<1>1. IInv => TypeOK
  BY DEF IInv, Consistent, TypeOK
<1> QED
  BY <1>1, Invariance, PTL

(***************************************************************************)
(* No pending task is ever missing from pending_queue_ or in it twice.     *)
(***************************************************************************)
THEOREM QueueCorrect == Spec => []QueueHoldsPending
<1>1. IInv => QueueHoldsPending
  BY DEF IInv, Consistent, QueueHoldsPending
<1> QED
  BY <1>1, Invariance, PTL

(***************************************************************************)
(* A worker has a slot exactly while it holds a lease, and holds at most   *)
(* one.                                                                    *)
(***************************************************************************)
THEOREM SlotsCorrect == Spec => []SlotsMatchLeases
<1>1. IInv => SlotsMatchLeases
  BY DEF IInv, Consistent, SlotsMatchLeases
<1> QED
  BY <1>1, Invariance, PTL

(***************************************************************************)
(* Live leases have holders and distinct ids; queued tasks have no holder. *)
(***************************************************************************)
THEOREM LeasesCorrect == Spec => []LeasesAreDistinct
<1>1. IInv => LeasesAreDistinct
  BY DEF IInv, Consistent, LeasesAreDistinct
<1> QED
  BY <1>1, Invariance, PTL

(***************************************************************************)
(* No task is leased more often than max_retries_ allows.                  *)
(***************************************************************************)
THEOREM BudgetCorrect == Spec => []RetryBudget
<1>1. IInv => RetryBudget
  BY DEF IInv, Consistent, RetryBudget
<1> QED
  BY <1>1, Invariance, PTL

(***************************************************************************)
(* Only the newest lease of a task can have its result accepted, and only  *)
(* once: submit_result never lets a superseded holder in.                  *)
(***************************************************************************)
THEOREM LatestLeaseCorrect == Spec => []LatestLeaseWins
<1>1. IInv => LatestLeaseWins
  <2> SUFFICES ASSUME IInv, NEW a \in accepted, NEW g \in grants, g.task = a.task
               PROVE  g.lease <= a.lease
    BY DEF LatestLeaseWins
  <2> QED
    BY DEF IInv, GrantHistory
<1> QED
  BY <1>1, Invariance, PTL

(***************************************************************************)
(* No method touches a task that is completed or permanently failed.       *)
(***************************************************************************)
THEOREM SettledCorrect == Spec => SettledIsFinal
<1> DEFINE Final == \A i \in InState(dispatcher, "completed") \cup InState(dispatcher, "failed") :
                      dispatcher'.tasks[i] = dispatcher.tasks[i]
<1>1. IInv /\ [Next]_vars => [Final]_vars
  <2> SUFFICES ASSUME IInv, Next,
                      NEW i \in TaskIds(dispatcher),
                      dispatcher.tasks[i].state \in {"completed", "failed"}
               PROVE  dispatcher'.tasks[i] = dispatcher.tasks[i]
    BY DEF InState
  <2>0. /\ Consistent(dispatcher) /\ dispatcher \in Dispatcher
        /\ QueueIsPending(dispatcher) /\ SlotsAreLeases(dispatcher)
        /\ now \in Nat /\ grants \subseteq Grant
    BY DEF IInv, Consistent
  <2>1. ASSUME NEW c \in Clients, NEW used \in 0..AttemptBudget, EnqueueTask(c, used)
        PROVE  dispatcher'.tasks[i] = dispatcher.tasks[i]
    <3> DEFINE task == [client |-> c,
                        state |-> IF used > 0 /\ used >= MaxRetries THEN "failed" ELSE "pending",
                        worker |-> NoWorker, lease |-> NoLease, expires |-> 0, attempt |-> used]
    <3>1. dispatcher'.tasks = Append(dispatcher.tasks, task)
      BY <2>1 DEF EnqueueTask, Enqueue
    <3>2. dispatcher.tasks \in Seq(DispatchedTask) /\ task \in DispatchedTask
      BY <2>0, BudgetFacts DEF Dispatcher, DispatchedTask, TaskState, NoLease
    <3> HIDE DEF task
    <3> QED
      BY <3>1, <3>2, AppendProperties, LenProperties DEF TaskIds
  <2>2. ASSUME NEW w \in Workers, AcquireTask(w)
        PROVE  dispatcher'.tasks[i] = dispatcher.tasks[i]
    <3>1. dispatcher.queue \in Seq(Nat \ {0}) /\ dispatcher.queue # <<>>
      BY <2>0, <2>2 DEF Dispatcher, CanAcquire, AcquireTask
    <3>2. 1 \in DOMAIN dispatcher.queue /\ Head(dispatcher.queue) = dispatcher.queue[1]
      BY <3>1, HeadTailProperties, LenProperties, EmptySeq
    <3>3. i # Head(dispatcher.queue)
      BY <2>0, <3>2 DEF QueueIsPending
    <3> DEFINE id == Head(dispatcher.queue)
               task == [client |-> dispatcher.tasks[id].client, state |-> "leased", worker |-> w,
                        lease |-> dispatcher.leaseSeq + 1, expires |-> now + LeaseSeconds,
                        attempt |-> dispatcher.tasks[id].attempt + 1]
    <3>4. dispatcher'.tasks = [dispatcher.tasks EXCEPT ![id] = task]
      BY <2>2 DEF AcquireTask, Acquire
    <3>5. i # id
      BY <3>3
    <3>6. dispatcher.tasks \in Seq(DispatchedTask)
      BY <2>0 DEF Dispatcher
    <3> HIDE DEF id, task
    <3> QED
      BY <3>4, <3>5, <3>6, LenProperties DEF TaskIds
  <2>3. ASSUME NEW g \in grants, SubmitResult(g)
        PROVE  dispatcher'.tasks[i] = dispatcher.tasks[i]
    <3>1. /\ Accepts(dispatcher, g.worker, g.task, g.lease, now) /\ g.worker \in Workers
          /\ dispatcher' = Complete(dispatcher, g.worker, g.task)
      BY <2>0, <2>3 DEF SubmitResult, Grant
    <3>2. i # g.task
      BY <3>1 DEF Accepts
    <3> DEFINE id == g.task
               task == [dispatcher.tasks[id] EXCEPT !.state = "completed"]
    <3>3. dispatcher'.tasks = [dispatcher.tasks EXCEPT ![id] = task]
      BY <3>1 DEF Complete
    <3>4. i # id /\ dispatcher.tasks \in Seq(DispatchedTask)
      BY <2>0, <3>2 DEF Dispatcher
    <3> HIDE DEF id, task
    <3> QED
      BY <3>3, <3>4, LenProperties DEF TaskIds
  <2>4. CASE SweepExpiredLeases
    BY <2>4 DEF SweepExpiredLeases, Sweep, Expired
  <2>5. ASSUME NEW w \in Workers, CancelLeaseForWorker(w)
        PROVE  dispatcher'.tasks[i] = dispatcher.tasks[i]
    <3>1. /\ dispatcher.slot[w] \in TaskIds(dispatcher)
          /\ dispatcher.tasks[dispatcher.slot[w]].state = "leased"
          /\ dispatcher.slot[w] # NoTask /\ dispatcher' = CancelLease(dispatcher, w)
      BY <2>0, <2>5 DEF SlotsAreLeases, InState, CancelLeaseForWorker
    <3>2. dispatcher'.tasks =
            [dispatcher.tasks EXCEPT ![dispatcher.slot[w]] = Release(dispatcher, dispatcher.slot[w])]
      BY <3>1 DEF CancelLease
    <3> QED
      BY <3>1, <3>2 DEF TaskIds
  <2>6. CASE Tick
    BY <2>6 DEF Tick
  <2> QED
    BY <2>1, <2>2, <2>3, <2>4, <2>5, <2>6 DEF Next
<1> QED
  BY <1>1, Invariance, PTL DEF Spec, SettledIsFinal
===============================================================================
