-------------------------- MODULE RoundRuntimeProofs --------------------------
(***************************************************************************)
(* Proofs for RoundRuntime: for any cohorts, workers, clocks, retry limits *)
(* and rounds, a run with its rounds is a run (so what RunLifecycleProofs  *)
(* shows of a run is true of it), and the safety properties its runs check *)
(* hold.                                                                   *)
(*                                                                         *)
(* Loops of the code are recursive functions here (EnqueueAll, Select).    *)
(* What they return is shown by induction on the numbers in a SET          *)
(* (SetInduction), which needs no operator as a parameter.                 *)
(***************************************************************************)
EXTENDS RoundRuntime, SequenceTheorems, FiniteSetTheorems, WellFoundedInduction, TLAPS

(* What RunLifecycleProofs shows, for the faults this run may meet. *)
LifeProofs == INSTANCE RunLifecycleProofs WITH Faults <- {Faults}

(* Queue and slots of a dispatcher point at its tasks. *)
Linked(d) ==
  /\ \A k \in DOMAIN d.queue : d.queue[k] \in TaskIds(d)
  /\ \A w \in Workers : d.slot[w] # NoTask => d.slot[w] \in TaskIds(d)

(* A dispatcher value and a live state that belong together. *)
Fits(d, l) == d \in Dispatcher /\ Linked(d) /\ l \in LiveState /\ Agree(d, l)

(* A waiting run is in a round. *)
InRound(r) == r.state = "WAITING" => r.round \in 1..MaxRounds

(* A call past its advance is served by a dispatcher. *)
Served ==
  dispatcher = NoDispatcher =>
    \A w \in Workers : calls[w] = NoCall \/ (~Waiting /\ calls[w].step \in {"acquire", "check"})

(* A call that is about something says about what. *)
CallsHaveGrants ==
  \A w \in Workers : calls[w].step \in {"record", "check", "deliver"} => calls[w].grant # {}

RInv ==
  /\ TypeOK
  /\ InRound(mem) /\ InRound(disk)
  /\ dispatcher # NoDispatcher => Fits(dispatcher, live)
  /\ Served
  /\ CallsHaveGrants
  /\ saved.results = live.results
  /\ handler = "aggregate" => EnoughResults(live)

-------------------------------------------------------------------------------
(* Induction over the natural numbers of a set. *)
LEMMA SetInduction ==
  ASSUME NEW S, 0 \in S, \A n \in Nat : n \in S => n + 1 \in S
  PROVE  Nat \subseteq S
<1> DEFINE T == Nat \ S
<1> SUFFICES ASSUME T # {} PROVE FALSE
  OBVIOUS
<1>1. PICK x \in T : \A y \in T : ~(<<y, x>> \in OpToRel(<, Nat))
  <2>1. IsWellFoundedOn(OpToRel(<, Nat), Nat)
    BY NatLessThanWellFounded
  <2>2. T \subseteq Nat
    OBVIOUS
  <2> QED
    BY <2>1, <2>2, WFMin
<1>2. \A y \in T : ~(y < x)
  BY <1>1 DEF OpToRel
<1>3. x - 1 \in Nat /\ x - 1 < x
  OBVIOUS
<1>4. x - 1 \in S
  BY <1>2, <1>3
<1> QED
  BY <1>3, <1>4

(***************************************************************************)
(* Select goes through s element by element, and returns elements of s     *)
(* that are in the set.                                                    *)
(***************************************************************************)
PickStep(f, s, set, k) ==
  IF k = 0 THEN <<>> ELSE IF s[k] \in set THEN Append(f[k - 1], s[k]) ELSE f[k - 1]

LEMMA SelectInSeq ==
  ASSUME NEW V, NEW s \in Seq(V), NEW set
  PROVE  Select(s, set) \in Seq(V \cap set)
<1> DEFINE Def(f, n) == f = [k \in 0..n |-> PickStep(f, s, set, k)]
           S == {n \in Nat : \E f : Def(f, n)}
<1>1. \A n \in Nat : n \in S => n + 1 \in S
  <2> SUFFICES ASSUME NEW n \in Nat, n \in S
               PROVE  \E f : Def(f, n + 1)
    OBVIOUS
  <2>1. PICK f : Def(f, n)
    OBVIOUS
  <2> DEFINE g == [k \in 0..(n + 1) |-> IF k = n + 1 THEN PickStep(f, s, set, k) ELSE f[k]]
  <2>2. \A k \in 0..n : g[k] = f[k] /\ f[k] = PickStep(f, s, set, k)
    <3>1. \A k \in 0..n : k \in 0..(n + 1) /\ k # n + 1
      OBVIOUS
    <3>2. \A k \in 0..n : g[k] = f[k]
      BY <3>1
    <3>3. \A k \in 0..n : f[k] = PickStep(f, s, set, k)
      BY <2>1, Zenon
    <3> QED
      BY <3>2, <3>3
  <2>3. \A k \in 0..(n + 1) : k # 0 => k - 1 \in 0..n
    OBVIOUS
  <2>4. \A k \in 0..(n + 1) : PickStep(f, s, set, k) = PickStep(g, s, set, k)
    BY <2>2, <2>3 DEF PickStep
  <2>5. \A k \in 0..(n + 1) : g[k] = PickStep(f, s, set, k)
    BY <2>2
  <2>6. \A k \in 0..(n + 1) : g[k] = PickStep(g, s, set, k)
    BY <2>4, <2>5
  <2>7. g = [k \in 0..(n + 1) |-> g[k]]
    OBVIOUS
  <2> HIDE DEF g
  <2> QED
    BY <2>6, <2>7
<1>2. 0 \in S
  <2>1. Def([k \in 0..0 |-> <<>>], 0)
    BY DEF PickStep
  <2> QED
    BY <2>1
<1>3. Len(s) \in Nat /\ DOMAIN s = 1..Len(s)
  BY LenProperties
<1> HIDE DEF S
<1>4. Len(s) \in S
  BY <1>1, <1>2, <1>3, SetInduction
<1> DEFINE picked == CHOOSE f : Def(f, Len(s))
<1>5. Select(s, set) = picked[Len(s)]
  BY DEF Select, PickStep
<1>6. Def(picked, Len(s))
  BY <1>4 DEF S
<1> HIDE DEF picked
<1> DEFINE R == {n \in Nat : n <= Len(s) => picked[n] \in Seq(V \cap set)}
<1>7. 0 \in R
  BY <1>3, <1>6, EmptySeq DEF PickStep
<1>8. \A n \in Nat : n \in R => n + 1 \in R
  <2> SUFFICES ASSUME NEW n \in Nat, n \in R, n + 1 <= Len(s)
               PROVE  picked[n + 1] \in Seq(V \cap set)
    OBVIOUS
  <2>1. picked[n] \in Seq(V \cap set)
    BY <1>3
  <2>2. n + 1 \in 0..Len(s) /\ n + 1 # 0 /\ (n + 1) - 1 = n /\ n + 1 \in 1..Len(s)
    BY <1>3
  <2>3. picked[n + 1] = IF s[n + 1] \in set THEN Append(picked[n], s[n + 1]) ELSE picked[n]
    BY <1>6, <2>2 DEF PickStep
  <2>4. s[n + 1] \in V
    BY <2>2, <1>3, ElementOfSeq
  <2> QED
    BY <2>1, <2>3, <2>4, AppendProperties
<1> HIDE DEF R
<1>9. Len(s) \in R
  BY <1>3, <1>7, <1>8, SetInduction
<1> QED
  BY <1>3, <1>5, <1>9 DEF R

(***************************************************************************)
(* e is d with tasks added for clients of the set who: what was there is   *)
(* as it was.                                                              *)
(***************************************************************************)
Extended(d, e, who) ==
  /\ e \in Dispatcher /\ Linked(e)
  /\ TaskIds(d) \subseteq TaskIds(e)
  /\ \A i \in TaskIds(d) : e.tasks[i] = d.tasks[i]
  /\ \A i \in TaskIds(e) \ TaskIds(d) : e.tasks[i].client \in who

LEMMA EnqueueExtends ==
  ASSUME NEW who \in SUBSET Clients, NEW d, NEW b, Extended(d, b, who),
         NEW c \in who, NEW used \in Nat
  PROVE  Extended(d, Enqueue(b, c, used), who)
<1> DEFINE e == Enqueue(b, c, used)
           n == Len(b.tasks) + 1
           spent == used > 0 /\ used >= MaxRetries
           task == [client |-> c, state |-> IF spent THEN "failed" ELSE "pending",
                    worker |-> NoWorker, lease |-> NoLease, expires |-> 0, attempt |-> used]
<1>1. /\ b.tasks \in Seq(DispatchedTask) /\ b.queue \in Seq(Nat \ {0})
      /\ b.slot \in [Workers -> Nat] /\ b.leaseSeq \in Nat
  BY DEF Extended, Dispatcher
<1>2. /\ e.tasks = Append(b.tasks, task)
      /\ e.queue = IF spent THEN b.queue ELSE Append(b.queue, n)
      /\ e.slot = b.slot /\ e.leaseSeq = b.leaseSeq
      /\ e = [tasks |-> e.tasks, queue |-> e.queue, slot |-> e.slot, leaseSeq |-> e.leaseSeq]
  BY DEF Enqueue
<1>3. task \in DispatchedTask /\ task.client = c
  BY DEF DispatchedTask, TaskState, NoLease
<1> HIDE DEF e, task
<1>4. /\ TaskIds(b) = 1..Len(b.tasks) /\ TaskIds(e) = TaskIds(b) \cup {n} /\ n \notin TaskIds(b)
      /\ n \in Nat \ {0} /\ e.tasks[n] = task
      /\ \A i \in TaskIds(b) : e.tasks[i] = b.tasks[i]
  BY <1>1, <1>2, <1>3, AppendProperties, LenProperties DEF TaskIds
<1> HIDE DEF n, spent
<1>5. e \in Dispatcher
  <2>1. e.tasks \in Seq(DispatchedTask)
    BY <1>1, <1>2, <1>3, AppendProperties
  <2>2. e.queue \in Seq(Nat \ {0})
    BY <1>1, <1>2, <1>4, AppendProperties
  <2> QED
    BY <1>1, <1>2, <2>1, <2>2 DEF Dispatcher
<1>6. Linked(e)
  <2>1. \A k \in DOMAIN e.queue : e.queue[k] \in TaskIds(b) \cup {n}
    <3>1. CASE spent
      BY <1>2, <3>1 DEF Extended, Linked
    <3>2. CASE ~spent
      BY <1>1, <1>2, <1>4, <3>2, AppendProperties, LenProperties, SMTT(60) DEF Extended, Linked
    <3> QED
      BY <3>1, <3>2
  <2> QED
    BY <1>2, <1>4, <2>1 DEF Extended, Linked
<1> QED
  BY <1>3, <1>4, <1>5, <1>6 DEF Extended, e

(* EnqueueAll adds a task for each client listed, and changes nothing else. *)
AddStep(f, d, s, used, k) ==
  IF k = 0 THEN d ELSE Enqueue(f[k - 1], s[k], used[s[k]])

LEMMA EnqueueAllExtends ==
  ASSUME NEW d \in Dispatcher, Linked(d), NEW who \in SUBSET Clients, NEW s \in Seq(who),
         NEW used \in [Clients -> Nat]
  PROVE  Extended(d, EnqueueAll(d, s, used), who)
<1> DEFINE Def(f, n) == f = [k \in 0..n |-> AddStep(f, d, s, used, k)]
           S == {n \in Nat : \E f : Def(f, n)}
<1>1. \A n \in Nat : n \in S => n + 1 \in S
  <2> SUFFICES ASSUME NEW n \in Nat, n \in S
               PROVE  \E f : Def(f, n + 1)
    OBVIOUS
  <2>1. PICK f : Def(f, n)
    OBVIOUS
  <2> DEFINE g == [k \in 0..(n + 1) |-> IF k = n + 1 THEN AddStep(f, d, s, used, k) ELSE f[k]]
  <2>2. \A k \in 0..n : g[k] = f[k] /\ f[k] = AddStep(f, d, s, used, k)
    <3>1. \A k \in 0..n : k \in 0..(n + 1) /\ k # n + 1
      OBVIOUS
    <3>2. \A k \in 0..n : g[k] = f[k]
      BY <3>1
    <3>3. \A k \in 0..n : f[k] = AddStep(f, d, s, used, k)
      BY <2>1, Zenon
    <3> QED
      BY <3>2, <3>3
  <2>3. \A k \in 0..(n + 1) : k # 0 => k - 1 \in 0..n
    OBVIOUS
  <2>4. \A k \in 0..(n + 1) : AddStep(f, d, s, used, k) = AddStep(g, d, s, used, k)
    BY <2>2, <2>3 DEF AddStep
  <2>5. \A k \in 0..(n + 1) : g[k] = AddStep(f, d, s, used, k)
    <3> SUFFICES ASSUME NEW k \in 0..(n + 1) PROVE g[k] = AddStep(f, d, s, used, k)
      OBVIOUS
    <3>1. CASE k = n + 1
      BY <3>1
    <3>2. CASE k # n + 1
      <4>1. k \in 0..n
        BY <3>2
      <4> QED
        BY <2>2, <4>1
    <3> QED
      BY <3>1, <3>2
  <2>6. \A k \in 0..(n + 1) : g[k] = AddStep(g, d, s, used, k)
    BY <2>4, <2>5
  <2>7. g = [k \in 0..(n + 1) |-> g[k]]
    OBVIOUS
  <2> HIDE DEF g
  <2> QED
    BY <2>6, <2>7
<1>2. 0 \in S
  <2>1. Def([k \in 0..0 |-> d], 0)
    BY DEF AddStep
  <2> QED
    BY <2>1
<1>3. Len(s) \in Nat /\ DOMAIN s = 1..Len(s)
  BY LenProperties
<1> HIDE DEF S
<1>4. Len(s) \in S
  BY <1>1, <1>2, <1>3, SetInduction
<1> DEFINE after == CHOOSE f : Def(f, Len(s))
<1>5. EnqueueAll(d, s, used) = after[Len(s)]
  BY DEF EnqueueAll, AddStep
<1>6. Def(after, Len(s))
  BY <1>4 DEF S
<1> HIDE DEF after
<1> DEFINE R == {n \in Nat : n <= Len(s) => Extended(d, after[n], who)}
<1>7. 0 \in R
  <2>1. after[0] = d
    BY <1>3, <1>6 DEF AddStep
  <2> QED
    BY <2>1 DEF Extended
<1>8. \A n \in Nat : n \in R => n + 1 \in R
  <2> SUFFICES ASSUME NEW n \in Nat, n \in R, n + 1 <= Len(s)
               PROVE  Extended(d, after[n + 1], who)
    OBVIOUS
  <2>1. Extended(d, after[n], who)
    BY <1>3
  <2>2. n + 1 \in 0..Len(s) /\ n + 1 # 0 /\ (n + 1) - 1 = n /\ n + 1 \in 1..Len(s)
    BY <1>3
  <2>3. after[n + 1] = Enqueue(after[n], s[n + 1], used[s[n + 1]])
    BY <1>6, <2>2 DEF AddStep
  <2>4. s[n + 1] \in who /\ used[s[n + 1]] \in Nat
    BY <2>2, <1>3, ElementOfSeq
  <2> QED
    BY <2>1, <2>3, <2>4, EnqueueExtends
<1> HIDE DEF R
<1>9. Len(s) \in R
  BY <1>3, <1>7, <1>8, SetInduction
<1> QED
  BY <1>3, <1>5, <1>9 DEF R

-------------------------------------------------------------------------------
(* A function on 1..n is a sequence. *)
LEMMA FunctionIsSequence ==
  ASSUME NEW S, NEW n \in Nat, NEW f \in [1..n -> S]
  PROVE  f \in Seq(S)
  BY SeqDef, Zenon

(* Erase takes away the leases of some clients, and nothing else. *)
LEMMA Erased ==
  ASSUME NEW l \in LiveState, NEW gone
  PROVE  /\ Erase(l, gone) \in LiveState
         /\ Erase(l, gone).results = l.results /\ Erase(l, gone).failed = l.failed
         /\ \A c \in Clients : Held(Erase(l, gone), c) =>
              c \notin gone /\ Held(l, c) /\ Erase(l, gone).leases[c] = l.leases[c]
<1> DEFINE leases == [c \in Clients |-> IF c \in gone THEN NoActiveLease ELSE l.leases[c]]
<1>1. Erase(l, gone) = [l EXCEPT !.leases = leases]
  BY DEF Erase
<1>2. NoActiveLease \in Lease /\ NoActiveLease.worker = NoWorker
  BY DEF NoActiveLease, Lease, NoTask, NoLease
<1>3. leases \in [Clients -> Lease]
  BY <1>2 DEF LiveState
<1>4. \A c \in Clients : leases[c].worker # NoWorker => c \notin gone /\ leases[c] = l.leases[c]
  BY <1>2
<1> HIDE DEF leases
<1>5. /\ Erase(l, gone) \in LiveState /\ Erase(l, gone).leases = leases
      /\ Erase(l, gone).results = l.results /\ Erase(l, gone).failed = l.failed
  BY <1>1, <1>3 DEF LiveState
<1> QED
  BY <1>4, <1>5 DEF Held

(***************************************************************************)
(* Dispatcher and leases agree as before if tasks were added only for      *)
(* clients without a lease ...                                             *)
(***************************************************************************)
LEMMA ExtendedFits ==
  ASSUME NEW d, NEW l, Fits(d, l), NEW who, NEW e, Extended(d, e, who), NEW m \in LiveState,
         \A c \in Clients : Held(m, c) => c \notin who /\ Held(l, c) /\ m.leases[c] = l.leases[c]
  PROVE  Fits(e, m)
<1> SUFFICES ASSUME NEW c \in Clients, Held(m, c), NEW i \in TasksOf(e, c), TasksOf(e, c) = {i}
             PROVE  IsLease(e.tasks[i], m.leases[c]) \/ e.tasks[i].state = "completed"
  BY DEF Fits, Agree, Extended
<1>1. TasksOf(d, c) = {i} /\ e.tasks[i] = d.tasks[i]
  BY DEF TasksOf, Extended
<1> QED
  BY <1>1 DEF Fits, Agree

(***************************************************************************)
(* ... or if no task that is alone with its client's lease was touched,    *)
(* other than by completing it.                                            *)
(***************************************************************************)
Kept(d, e, l) ==
  /\ TaskIds(e) = TaskIds(d)
  /\ \A i \in TaskIds(d) : e.tasks[i].client = d.tasks[i].client
  /\ \A c \in Clients : Held(l, c) =>
       \A i \in TasksOf(d, c) : TasksOf(d, c) = {i} =>
         e.tasks[i] = d.tasks[i] \/ e.tasks[i].state = "completed"

LEMMA KeptFits ==
  ASSUME NEW d, NEW l, Fits(d, l), NEW e \in Dispatcher, Linked(e), NEW m \in LiveState,
         Kept(d, e, m),
         \A c \in Clients : Held(m, c) => Held(l, c) /\ m.leases[c] = l.leases[c]
  PROVE  Fits(e, m)
<1> SUFFICES ASSUME NEW c \in Clients, Held(m, c), NEW i \in TasksOf(e, c), TasksOf(e, c) = {i}
             PROVE  IsLease(e.tasks[i], m.leases[c]) \/ e.tasks[i].state = "completed"
  BY DEF Fits, Agree
<1>1. TasksOf(d, c) = {i} /\ i \in TasksOf(d, c)
  BY DEF TasksOf, Kept
<1>2. e.tasks[i] = d.tasks[i] \/ e.tasks[i].state = "completed"
  BY <1>1 DEF Kept
<1> QED
  BY <1>1, <1>2 DEF Fits, Agree

(* A task whose lease ended is a task of the same client. *)
LEMMA ReleasedTask ==
  ASSUME NEW d \in Dispatcher, NEW i \in TaskIds(d)
  PROVE  /\ d.tasks[i] \in DispatchedTask
         /\ Release(d, i) \in DispatchedTask /\ Release(d, i).client = d.tasks[i].client
<1>1. d.tasks[i] \in DispatchedTask
  BY ElementOfSeq, LenProperties DEF Dispatcher, TaskIds
<1> QED
  BY <1>1 DEF Release, DispatchedTask, TaskState, NoLease

(***************************************************************************)
(* The sweep leaves alone whatever has not expired, in particular a task   *)
(* that is somebody's running lease.                                       *)
(***************************************************************************)
LEMMA SweepFits ==
  ASSUME NEW d, NEW l, Fits(d, l), NEW t \in Int, NEW order \in Seq(TaskIds(d)),
         NEW m \in LiveState,
         \A c \in Clients : Held(m, c) =>
           Held(l, c) /\ m.leases[c] = l.leases[c] /\ t <= l.leases[c].expires
  PROVE  Fits(Sweep(d, t, order), m)
<1> DEFINE e == Sweep(d, t, order)
           gone == Expired(d, t)
<1>1. /\ d \in Dispatcher /\ Linked(d)
      /\ d.tasks \in Seq(DispatchedTask) /\ d.queue \in Seq(Nat \ {0})
      /\ d.slot \in [Workers -> Nat] /\ d.leaseSeq \in Nat
      /\ TaskIds(d) = 1..Len(d.tasks) /\ Len(d.tasks) \in Nat
  BY LenProperties DEF Fits, Dispatcher, TaskIds
<1>2. /\ e.tasks = [i \in TaskIds(d) |-> IF i \in gone THEN Release(d, i) ELSE d.tasks[i]]
      /\ e.queue = d.queue \o order
      /\ e.slot = [w \in Workers |-> IF \E i \in gone : d.tasks[i].worker = w
                                     THEN NoTask ELSE d.slot[w]]
      /\ e.leaseSeq = d.leaseSeq
      /\ e = [tasks |-> e.tasks, queue |-> e.queue, slot |-> e.slot, leaseSeq |-> e.leaseSeq]
  BY DEF Sweep
<1> HIDE DEF e
<1>3. TaskIds(e) = TaskIds(d)
  BY <1>2 DEF TaskIds
<1>4. \A i \in TaskIds(d) : /\ e.tasks[i] \in DispatchedTask
                            /\ e.tasks[i].client = d.tasks[i].client
                            /\ i \notin gone => e.tasks[i] = d.tasks[i]
  BY <1>1, <1>2, ReleasedTask
<1>5. /\ order \in Seq(Nat \ {0}) /\ Len(order) \in Nat /\ Len(d.queue) \in Nat
      /\ e.queue \in Seq(Nat \ {0})
      /\ \A k \in DOMAIN e.queue : e.queue[k] \in TaskIds(d)
  <2>1. TaskIds(d) \subseteq Nat \ {0}
    BY <1>1
  <2>2. order \in Seq(Nat \ {0})
    BY <2>1, SeqDef
  <2>3. d.queue \in Seq(TaskIds(d))
    <3>1. d.queue \in [1..Len(d.queue) -> TaskIds(d)] /\ Len(d.queue) \in Nat
      BY <1>1, LenProperties DEF Linked
    <3> QED
      BY <3>1, FunctionIsSequence
  <2>4. d.queue \o order \in Seq(TaskIds(d))
    BY <2>3, ConcatProperties
  <2>5. e.queue \in Seq(Nat \ {0})
    BY <1>1, <1>2, <2>2, ConcatProperties
  <2>6. Len(order) \in Nat /\ Len(d.queue) \in Nat
    BY <2>2, <2>3, LenProperties
  <2>7. e.queue \in Seq(TaskIds(d))
    BY <1>2, <2>4
  <2>8. \A k \in DOMAIN e.queue : e.queue[k] \in TaskIds(d)
    <3>1. DOMAIN e.queue = 1..Len(e.queue)
      BY <2>7, LenProperties
    <3> QED
      BY <2>7, <3>1, ElementOfSeq
  <2> QED
    BY <2>2, <2>5, <2>6, <2>8
<1>6. e \in Dispatcher
  <2>1. e.tasks \in [1..Len(d.tasks) -> DispatchedTask]
    BY <1>1, <1>2, <1>4
  <2>2. e.tasks \in Seq(DispatchedTask)
    BY <1>1, <2>1, FunctionIsSequence
  <2>3. e.slot \in [Workers -> Nat]
    BY <1>1, <1>2 DEF NoTask
  <2> QED
    BY <1>1, <1>2, <1>5, <2>2, <2>3 DEF Dispatcher
<1>7. Linked(e)
  <2>1. \A w \in Workers : e.slot[w] = NoTask \/ e.slot[w] = d.slot[w]
    BY <1>2
  <2>2. \A w \in Workers : d.slot[w] = NoTask \/ d.slot[w] \in TaskIds(d)
    BY <1>1 DEF Linked
  <2> QED
    BY <1>3, <1>5, <2>1, <2>2 DEF Linked
<1>8. Kept(d, e, m)
  <2> SUFFICES ASSUME NEW c \in Clients, Held(m, c), NEW i \in TasksOf(d, c), TasksOf(d, c) = {i}
               PROVE  e.tasks[i] = d.tasks[i]
    BY <1>3, <1>4 DEF Kept
  <2>1. IsLease(d.tasks[i], l.leases[c]) \/ d.tasks[i].state = "completed"
    BY DEF Fits, Agree
  <2>2. i \in TaskIds(d) /\ d.tasks[i].expires \in Int
    BY ReleasedTask DEF TasksOf, Fits, DispatchedTask
  <2>3. i \notin gone
    BY <2>1, <2>2 DEF IsLease, Expired
  <2> QED
    BY <1>4, <2>2, <2>3
<1> QED
  BY <1>6, <1>7, <1>8, KeptFits DEF e

(* A dispatcher is one when its fields are what they should be. *)
LEMMA DispatcherFields ==
  ASSUME NEW e, e = [tasks |-> e.tasks, queue |-> e.queue, slot |-> e.slot,
                     leaseSeq |-> e.leaseSeq],
         e.tasks \in Seq(DispatchedTask), e.queue \in Seq(Nat \ {0}),
         e.slot \in [Workers -> Nat], e.leaseSeq \in Nat
  PROVE  e \in Dispatcher
  BY SMTT(60) DEF Dispatcher

(* A task leaves the head of the queue for the slot of a worker. *)
LEMMA TakenLinked ==
  ASSUME NEW d, NEW e, NEW w, NEW id, id \in TaskIds(d), Linked(d), TaskIds(e) = TaskIds(d),
         \A k \in DOMAIN e.queue : k + 1 \in DOMAIN d.queue /\ e.queue[k] = d.queue[k + 1],
         e.slot[w] = id, \A v \in Workers : v # w => e.slot[v] = d.slot[v]
  PROVE  Linked(e)
<1>1. \A k \in DOMAIN e.queue : e.queue[k] \in TaskIds(e)
  BY DEF Linked
<1>2. \A v \in Workers : e.slot[v] # NoTask => e.slot[v] \in TaskIds(e)
  BY DEF Linked
<1> QED
  BY <1>1, <1>2 DEF Linked

(* One client's task and lease change together, the others' not at all. *)
LEMMA TakenAgrees ==
  ASSUME NEW d, NEW l, NEW e, NEW m, NEW id, NEW c, c \in Clients, Agree(d, l),
         \A k \in Clients : TasksOf(e, k) = TasksOf(d, k), id \in TasksOf(d, c),
         \A i \in TaskIds(d) : i # id => e.tasks[i] = d.tasks[i],
         IsLease(e.tasks[id], m.leases[c]),
         \A k \in Clients : k # c => m.leases[k] = l.leases[k]
  PROVE  Agree(e, m)
<1> SUFFICES ASSUME NEW k \in Clients, Held(m, k), NEW i \in TasksOf(e, k), TasksOf(e, k) = {i}
             PROVE  IsLease(e.tasks[i], m.leases[k]) \/ e.tasks[i].state = "completed"
  BY DEF Agree
<1>1. i \in TasksOf(d, k) /\ TasksOf(d, k) = {i}
  OBVIOUS
<1>2. CASE k = c
  BY <1>1, <1>2
<1>3. CASE k # c
  <2>1. m.leases[k] = l.leases[k] /\ Held(l, k)
    BY <1>3 DEF Held
  <2>2. i \in TaskIds(d) /\ i # id
    BY <1>1, <1>3 DEF TasksOf
  <2>3. e.tasks[i] = d.tasks[i]
    BY <2>2
  <2> QED
    BY <1>1, <2>1, <2>3 DEF Agree
<1> QED
  BY <1>2, <1>3

(* acquire: the new lease is the one that goes into the live state. *)
LeaseOn(w, id, task) ==
  [worker |-> w, task |-> id, lease |-> task.lease, expires |-> task.expires]

WithLease(l, c, lease) == [l EXCEPT !.leases[c] = lease]

Acquired(d, l, w, t) ==
  LET id == Head(d.queue)
      c == d.tasks[id].client
      e == Acquire(d, w, t)
      m == WithLease(l, c, LeaseOn(w, id, e.tasks[id]))
  IN  /\ Fits(e, m) /\ m.results = l.results
      /\ id \in Nat /\ c \in Clients
      /\ e.tasks[id].lease \in Nat /\ e.tasks[id].attempt \in Nat

LEMMA AcquireFits ==
  ASSUME NEW d, NEW l, Fits(d, l), NEW w \in Workers, CanAcquire(d, w), NEW t \in Nat
  PROVE  Acquired(d, l, w, t)
<1> DEFINE e == Acquire(d, w, t)
           id == Head(d.queue)
           c == d.tasks[id].client
           task == e.tasks[id]
           lease == LeaseOn(w, id, task)
           m == WithLease(l, c, lease)
           new == [client |-> c, state |-> "leased", worker |-> w, lease |-> d.leaseSeq + 1,
                   expires |-> t + LeaseSeconds, attempt |-> d.tasks[id].attempt + 1]
<1> SUFFICES /\ Fits(e, m) /\ m.results = l.results
             /\ id \in Nat /\ c \in Clients /\ task.lease \in Nat /\ task.attempt \in Nat
  BY Zenon DEF Acquired
<1>0. /\ e.tasks = [d.tasks EXCEPT ![id] = new] /\ e.queue = Tail(d.queue)
      /\ e.slot = [d.slot EXCEPT ![w] = id] /\ e.leaseSeq = d.leaseSeq + 1
      /\ e = [tasks |-> e.tasks, queue |-> e.queue, slot |-> e.slot, leaseSeq |-> e.leaseSeq]
  BY DEF Acquire
<1> HIDE DEF e, id, c, task, lease, m, new
<1>1. /\ d \in Dispatcher /\ Linked(d) /\ l \in LiveState
      /\ d.tasks \in Seq(DispatchedTask) /\ d.queue \in Seq(Nat \ {0})
      /\ d.slot \in [Workers -> Nat] /\ d.leaseSeq \in Nat /\ d.queue # <<>>
      /\ TaskIds(d) = 1..Len(d.tasks) /\ Len(d.tasks) \in Nat
  BY LenProperties DEF Fits, Dispatcher, TaskIds, CanAcquire
<1>2. /\ Len(d.queue) \in Nat /\ Len(d.queue) >= 1 /\ DOMAIN d.queue = 1..Len(d.queue)
      /\ id = d.queue[1]
      /\ DOMAIN Tail(d.queue) = 1..(Len(d.queue) - 1)
      /\ \A k \in 1..(Len(d.queue) - 1) : Tail(d.queue)[k] = d.queue[k + 1]
      /\ Tail(d.queue) \in Seq(Nat \ {0})
  BY <1>1, HeadTailProperties, LenProperties, EmptySeq DEF id
<1>3. id \in TaskIds(d) /\ id \in Nat /\ d.tasks[id] \in DispatchedTask
  <2>1. 1 \in DOMAIN d.queue
    BY <1>2
  <2>2. id \in TaskIds(d)
    BY <1>1, <1>2, <2>1 DEF Linked
  <2> QED
    BY <1>1, <2>2, ReleasedTask
<1>4. c \in Clients /\ new \in DispatchedTask
  <2>1. c \in Clients /\ d.tasks[id].attempt + 1 \in Nat
    BY <1>3 DEF DispatchedTask, c
  <2>2. t + LeaseSeconds \in Int /\ d.leaseSeq + 1 \in Nat
    BY <1>1, LeaseAssumption
  <2> QED
    BY <2>1, <2>2 DEF DispatchedTask, TaskState, new
<1>5. e.tasks[id] = new /\ \A i \in TaskIds(d) : i # id => e.tasks[i] = d.tasks[i]
  BY <1>0, <1>1, <1>3 DEF TaskIds
<1>6. TaskIds(e) = TaskIds(d) /\ task = new
  BY <1>0, <1>5 DEF TaskIds, task
<1>7. task.lease \in Nat /\ task.attempt \in Nat /\ task.expires \in Int
  BY <1>4, <1>6 DEF DispatchedTask
<1>8. e \in Dispatcher
  <2>1. e.tasks \in Seq(DispatchedTask)
    BY <1>0, <1>1, <1>3, <1>4, ExceptSeq
  <2>2. e.queue \in Seq(Nat \ {0}) /\ e.slot \in [Workers -> Nat] /\ e.leaseSeq \in Nat
    BY <1>0, <1>1, <1>2, <1>3
  <2> QED
    BY <1>0, <2>1, <2>2, DispatcherFields
<1>9. id \in TasksOf(d, c) /\ \A k \in Clients : TasksOf(e, k) = TasksOf(d, k)
  <2>1. d.tasks[id].client = c /\ e.tasks[id].client = c
    BY <1>5 DEF new, c
  <2>2. \A i \in TaskIds(d) : e.tasks[i].client = d.tasks[i].client
    BY <1>3, <1>5, <2>1
  <2> QED
    BY <1>3, <1>6, <2>1, <2>2 DEF TasksOf
<1>10. Linked(e)
  <2>1. \A k \in DOMAIN e.queue : k + 1 \in DOMAIN d.queue /\ e.queue[k] = d.queue[k + 1]
    <3>1. e.queue = Tail(d.queue) /\ DOMAIN e.queue = 1..(Len(d.queue) - 1)
      BY <1>0, <1>2
    <3>2. \A k \in 1..(Len(d.queue) - 1) : k + 1 \in 1..Len(d.queue)
      BY <1>2
    <3> QED
      BY <1>2, <3>1, <3>2
  <2>2. e.slot[w] = id /\ \A v \in Workers : v # w => e.slot[v] = d.slot[v]
    BY <1>0, <1>1
  <2>3. Linked(d) /\ TaskIds(e) = TaskIds(d) /\ id \in TaskIds(d)
    BY <1>1, <1>3, <1>6
  <2> QED
    BY <2>1, <2>2, <2>3, TakenLinked
<1>11. /\ m \in LiveState /\ m.results = l.results
       /\ m.leases = [l.leases EXCEPT ![c] = lease]
  <2>1. lease \in Lease
    BY <1>3, <1>7 DEF Lease, LeaseOn, lease
  <2> QED
    BY <1>1, <1>4, <2>1 DEF LiveState, WithLease, m
<1>12. Agree(e, m)
  <2>1. m.leases[c] = lease /\ \A k \in Clients : k # c => m.leases[k] = l.leases[k]
    BY <1>1, <1>4, <1>11 DEF LiveState
  <2>2. IsLease(task, lease)
    BY <1>6 DEF IsLease, new, LeaseOn, lease
  <2>3. IsLease(e.tasks[id], m.leases[c])
    BY <2>1, <2>2 DEF task
  <2>4. Agree(d, l) /\ \A i \in TaskIds(d) : i # id => e.tasks[i] = d.tasks[i]
    BY <1>5 DEF Fits
  <2> QED
    BY <1>4, <1>9, <2>1, <2>3, <2>4, TakenAgrees
<1> QED
  BY <1>3, <1>4, <1>7, <1>8, <1>10, <1>11, <1>12 DEF Fits

(* submit_result completes a task, be it the lease's or not. *)
LEMMA CompleteFits ==
  ASSUME NEW d, NEW l, Fits(d, l), NEW w \in Workers, NEW id \in TaskIds(d), NEW m \in LiveState,
         \A c \in Clients : Held(m, c) => Held(l, c) /\ m.leases[c] = l.leases[c]
  PROVE  Fits(Complete(d, w, id), m)
<1> DEFINE e == Complete(d, w, id)
           new == [d.tasks[id] EXCEPT !.state = "completed"]
<1>1. /\ d \in Dispatcher /\ Linked(d)
      /\ d.tasks \in Seq(DispatchedTask) /\ d.queue \in Seq(Nat \ {0})
      /\ d.slot \in [Workers -> Nat] /\ d.leaseSeq \in Nat
      /\ TaskIds(d) = 1..Len(d.tasks) /\ Len(d.tasks) \in Nat
  BY LenProperties DEF Fits, Dispatcher, TaskIds
<1>2. /\ e.tasks = [d.tasks EXCEPT ![id] = new] /\ e.queue = d.queue
      /\ e.slot = [d.slot EXCEPT ![w] = NoTask] /\ e.leaseSeq = d.leaseSeq
      /\ e = [tasks |-> e.tasks, queue |-> e.queue, slot |-> e.slot, leaseSeq |-> e.leaseSeq]
  BY DEF Complete
<1>3. /\ new \in DispatchedTask /\ new.client = d.tasks[id].client /\ new.state = "completed"
  <2>1. d.tasks[id] \in DispatchedTask
    BY <1>1, ReleasedTask
  <2> QED
    BY <2>1 DEF DispatchedTask, TaskState
<1> HIDE DEF e, new
<1>4. /\ TaskIds(e) = TaskIds(d) /\ e.tasks[id] = new
      /\ \A i \in TaskIds(d) : i # id => e.tasks[i] = d.tasks[i]
  BY <1>2 DEF TaskIds
<1>5. e \in Dispatcher
  <2>1. e.tasks \in Seq(DispatchedTask)
    BY <1>1, <1>2, <1>3, ExceptSeq
  <2>2. e.slot \in [Workers -> Nat]
    BY <1>1, <1>2 DEF NoTask
  <2> QED
    BY <1>1, <1>2, <2>1, <2>2, DispatcherFields
<1>6. Linked(e)
  BY <1>1, <1>2, <1>4 DEF Linked
<1>7. Kept(d, e, m)
  BY <1>3, <1>4, SMTT(60) DEF Kept, TasksOf
<1> QED
  BY <1>5, <1>6, <1>7, KeptFits DEF e

(* A revoked worker's lease is taken away on both sides. *)
Without(l, task) == IF task.state = "leased" THEN Erase(l, {task.client}) ELSE l

LEMMA CancelFits ==
  ASSUME NEW d, NEW l, Fits(d, l), NEW w \in Workers, d.slot[w] # NoTask,
         NEW task, task = d.tasks[d.slot[w]],
         NEW m, m = Without(l, task)
  PROVE  Fits(CancelLease(d, w), m) /\ m.results = l.results
<1> DEFINE e == CancelLease(d, w)
           id == d.slot[w]
<1>1. /\ d \in Dispatcher /\ Linked(d) /\ l \in LiveState
      /\ d.tasks \in Seq(DispatchedTask) /\ d.queue \in Seq(Nat \ {0})
      /\ d.slot \in [Workers -> Nat] /\ d.leaseSeq \in Nat
      /\ TaskIds(d) = 1..Len(d.tasks) /\ Len(d.tasks) \in Nat
      /\ id \in TaskIds(d) /\ id \in Nat \ {0}
  <2>1. /\ d \in Dispatcher /\ Linked(d) /\ l \in LiveState
        /\ d.tasks \in Seq(DispatchedTask) /\ d.queue \in Seq(Nat \ {0})
        /\ d.slot \in [Workers -> Nat] /\ d.leaseSeq \in Nat
        /\ TaskIds(d) = 1..Len(d.tasks) /\ Len(d.tasks) \in Nat
    BY LenProperties DEF Fits, Dispatcher, TaskIds
  <2>2. id \in TaskIds(d)
    BY <2>1 DEF Linked
  <2> QED
    BY <2>1, <2>2
<1>2. /\ m \in LiveState /\ m.results = l.results
      /\ \A c \in Clients : Held(m, c) => Held(l, c) /\ m.leases[c] = l.leases[c]
      /\ task.state = "leased" => \A c \in Clients : Held(m, c) => c # task.client
  <2>1. CASE task.state # "leased"
    BY <1>1, <2>1 DEF Without
  <2>2. CASE task.state = "leased"
    <3> DEFINE gone == {task.client}
    <3>1. m = Erase(l, gone)
      BY <2>2 DEF Without
    <3>2. task.client \in gone
      OBVIOUS
    <3> HIDE DEF gone, id, e
    <3>3. l \in LiveState
      BY <1>1
    <3> QED
      BY <3>1, <3>2, <3>3, Erased
  <2> QED
    BY <2>1, <2>2
<1>3. CASE task.state # "leased"
  <2>1. e = [d EXCEPT !.slot = [d.slot EXCEPT ![w] = NoTask]]
    BY <1>3 DEF CancelLease
  <2>2. [d.slot EXCEPT ![w] = NoTask] \in [Workers -> Nat]
    BY <1>1 DEF NoTask
  <2> HIDE DEF e
  <2>3. /\ e.tasks = d.tasks /\ e.queue = d.queue /\ e.slot = [d.slot EXCEPT ![w] = NoTask]
        /\ e \in Dispatcher
    BY <1>1, <2>1, <2>2 DEF Dispatcher
  <2>4. Linked(e) /\ Kept(d, e, m)
    BY <1>1, <2>3 DEF Linked, Kept, TaskIds
  <2> QED
    <3>1. e \in Dispatcher /\ Linked(e) /\ m \in LiveState /\ Kept(d, e, m)
      BY <1>2, <2>3, <2>4
    <3>2. \A c \in Clients : Held(m, c) => Held(l, c) /\ m.leases[c] = l.leases[c]
      BY <1>2
    <3>3. Fits(e, m)
      BY <3>1, <3>2, KeptFits
    <3> QED
      BY <1>2, <3>3 DEF e
<1>4. CASE task.state = "leased"
  <2>1. /\ e.tasks = [d.tasks EXCEPT ![id] = Release(d, id)]
        /\ e.queue \in {d.queue, Append(d.queue, id)}
        /\ e.slot = [d.slot EXCEPT ![w] = NoTask] /\ e.leaseSeq = d.leaseSeq
        /\ e = [tasks |-> e.tasks, queue |-> e.queue, slot |-> e.slot, leaseSeq |-> e.leaseSeq]
    BY <1>4 DEF CancelLease
  <2>2. Release(d, id) \in DispatchedTask /\ Release(d, id).client = task.client
    BY <1>1, ReleasedTask
  <2>0. id \in TaskIds(d) /\ id \in Nat \ {0} /\ d.tasks[id] = task
    BY <1>1
  <2> HIDE DEF e, id
  <2>3. /\ TaskIds(e) = TaskIds(d) /\ e.tasks[id] = Release(d, id)
        /\ \A i \in TaskIds(d) : i # id => e.tasks[i] = d.tasks[i]
    BY <1>1, <2>1 DEF TaskIds
  <2>4. e \in Dispatcher
    <3>1. e.tasks \in Seq(DispatchedTask)
      BY <1>1, <2>1, <2>2, ExceptSeq
    <3>2. e.queue \in Seq(Nat \ {0})
      <4>1. Append(d.queue, id) \in Seq(Nat \ {0})
        BY <1>1, <2>0, AppendProperties
      <4> QED
        BY <1>1, <2>1, <4>1
    <3>3. e.slot \in [Workers -> Nat]
      BY <1>1, <2>1 DEF NoTask
    <3> QED
      BY <1>1, <2>1, <3>1, <3>2, <3>3, DispatcherFields
  <2>5. Linked(e)
    <3>1. \A k \in DOMAIN e.queue : e.queue[k] \in TaskIds(d)
      <4>1. \A k \in DOMAIN d.queue : d.queue[k] \in TaskIds(d)
        BY <1>1 DEF Linked
      <4>2. \A k \in DOMAIN Append(d.queue, id) : Append(d.queue, id)[k] \in TaskIds(d)
        BY <1>1, <2>0, <4>1, AppendProperties, LenProperties, SMTT(60)
      <4> QED
        BY <2>1, <4>1, <4>2
    <3> QED
      BY <1>1, <2>1, <2>3, <3>1 DEF Linked
  <2>6. Kept(d, e, m)
    BY <1>2, <1>4, <2>0, <2>2, <2>3 DEF Kept, TasksOf
  <2> QED
    BY <1>2, <2>4, <2>5, <2>6, KeptFits DEF e
<1> QED
  BY <1>2, <1>3, <1>4

-------------------------------------------------------------------------------
(***************************************************************************)
(* advance.  Every intermediate result of it fits, and none of its steps   *)
(* touches the accepted results.                                           *)
(***************************************************************************)
Sane(p) == Fits(p.d, p.l) /\ p.s \in Sidecar /\ p.l.results = live.results

LEMMA SelectWithin ==
  ASSUME NEW V, NEW s \in Seq(V), NEW set
  PROVE  Select(s, set) \in Seq(V)
<1> DEFINE r == Select(s, set)
<1>1. r \in Seq(V \cap set)
  BY SelectInSeq
<1> HIDE DEF r
<1>2. r \in [1..Len(r) -> V] /\ Len(r) \in Nat
  BY <1>1, LenProperties
<1> QED
  BY <1>2, FunctionIsSequence DEF r

LEMMA CohortFacts ==
  ASSUME mem.round \in 1..MaxRounds
  PROVE  /\ Cohort[mem.round] \in Seq(Clients)
         /\ \A l : Unresolved(l) \subseteq Clients
<1>1. Cohort[mem.round] \in Seq(Clients)
  BY CohortAssumption
<1> QED
  BY <1>1, LenProperties DEF Unresolved, CurrentCohort, Range

(* A dispatcher that has no tasks fits whatever is leased. *)
LEMMA EmptyFits ==
  ASSUME NEW l \in LiveState
  PROVE  Fits(EmptyDispatcher, l) /\ TaskIds(EmptyDispatcher) = {}
<1> DEFINE e == EmptyDispatcher
<1>1. /\ e.tasks = <<>> /\ e.queue = <<>> /\ e.slot = [w \in Workers |-> NoTask]
      /\ e.leaseSeq = 0
      /\ e = [tasks |-> e.tasks, queue |-> e.queue, slot |-> e.slot, leaseSeq |-> e.leaseSeq]
  BY DEF EmptyDispatcher
<1> HIDE DEF e
<1>2. e \in Dispatcher
  <2>1. e.slot \in [Workers -> Nat]
    BY <1>1 DEF NoTask
  <2>2. e.tasks \in Seq(DispatchedTask) /\ e.queue \in Seq(Nat \ {0})
    <3>1. <<>> \in Seq(DispatchedTask) /\ <<>> \in Seq(Nat \ {0})
      BY EmptySeq
    <3> QED
      BY <1>1, <3>1
  <2>3. e.leaseSeq \in Nat
    BY <1>1
  <2>4. e = [tasks |-> e.tasks, queue |-> e.queue, slot |-> e.slot, leaseSeq |-> e.leaseSeq]
    BY <1>1
  <2> QED
    BY <2>1, <2>2, <2>3, <2>4, DispatcherFields
<1>3. TaskIds(e) = {} /\ DOMAIN e.queue = {}
  BY <1>1, EmptySeq DEF TaskIds
<1> QED
  BY <1>1, <1>2, <1>3 DEF Fits, Linked, Agree, TasksOf, e

LEMMA RebuildFits ==
  ASSUME RInv, Waiting
  PROVE  Sane(Rebuild(Progress(dispatcher, live, sidecar, FALSE, FALSE)))
<1> DEFINE p == Progress(dispatcher, live, sidecar, FALSE, FALSE)
           open == Unresolved(p.l)
           deferred == {c \in open : Held(p.l, c) /\ now <= p.l.leases[c].expires}
           gone == {c \in open \ deferred : Held(p.l, c)}
           attempts == [c \in Clients |-> IF c \in deferred /\ p.s.attempts[c] = 0 THEN 1
                                          ELSE p.s.attempts[c]]
           queue == Select(Cohort[mem.round], open \ deferred)
           e == EnqueueAll(EmptyDispatcher, queue, attempts)
           who == Clients \cap (open \ deferred)
<1>1. /\ p.d = dispatcher /\ p.l = live /\ p.s = sidecar
      /\ live \in LiveState /\ sidecar \in Sidecar /\ mem.round \in 1..MaxRounds
  BY DEF Progress, RInv, TypeOK, InRound, Waiting
<1>2. CASE dispatcher # NoDispatcher
  <2> HIDE DEF p, open, deferred, gone, attempts, queue, e, who
  <2>1. Rebuild(p) = p
    BY <1>1, <1>2, Zenon DEF Rebuild
  <2>2. p.d # NoDispatcher /\ Fits(p.d, p.l) /\ p.s \in Sidecar
    BY <1>1, <1>2 DEF RInv
  <2> QED
    BY <1>1, <2>1, <2>2 DEF Sane, p
<1>3. CASE dispatcher = NoDispatcher
  <2>1. Rebuild(p) = Progress(e, Erase(p.l, gone),
                              [p.s EXCEPT !.attempts = attempts, !.deferred = @ \cup deferred],
                              p.ckpt \/ gone # {}, p.file \/ deferred # {})
    BY <1>1, <1>3 DEF Rebuild
  <2>2. attempts \in [Clients -> Nat]
    BY <1>1 DEF Sidecar
  <2>3. deferred \subseteq Clients /\ queue \in Seq(who)
    BY <1>1, CohortFacts, SelectInSeq
  <2> HIDE DEF attempts, queue
  <2>4. Extended(EmptyDispatcher, e, who)
    BY <1>1, <2>2, <2>3, EmptyFits, EnqueueAllExtends DEF Fits
  <2> HIDE DEF e, open, deferred
  <2>5. /\ Erase(live, gone) \in LiveState /\ Erase(live, gone).results = live.results
        /\ \A c \in Clients : Held(Erase(live, gone), c) =>
             c \notin who /\ Held(live, c) /\ Erase(live, gone).leases[c] = live.leases[c]
    <3>1. \A c \in Clients : Held(live, c) /\ c \in who => c \in gone
      BY <1>1
    <3> HIDE DEF gone, who
    <3> QED
      BY <1>1, <3>1, Erased
  <2>6. Fits(e, Erase(live, gone))
    BY <1>1, <2>4, <2>5, EmptyFits, ExtendedFits
  <2>7. [sidecar EXCEPT !.attempts = attempts, !.deferred = @ \cup deferred] \in Sidecar
    BY <1>1, <2>2, <2>3 DEF Sidecar
  <2> HIDE DEF gone
  <2> QED
    BY <1>1, <2>1, <2>5, <2>6, <2>7 DEF Progress, Sane
<1> QED
  BY <1>2, <1>3, ZenonT(60)

LEMMA ExpireFits ==
  ASSUME RInv, NEW p, Sane(p)
  PROVE  /\ Sane(ExpireLeases(p))
         /\ \A c \in Clients : Held(ExpireLeases(p).l, c) =>
              now <= ExpireLeases(p).l.leases[c].expires
<1> DEFINE gone == {c \in Clients : Held(p.l, c) /\ now > p.l.leases[c].expires}
           back == (gone \cap p.s.deferred) \ (Completed(p.l) \cup p.l.failed)
           e == EnqueueAll(p.d, ClientsInOrder(back), p.s.attempts)
           who == Clients \cap back
<1>1. /\ Fits(p.d, p.l) /\ p.s \in Sidecar /\ p.l.results = live.results
      /\ p.l \in LiveState /\ p.d \in Dispatcher /\ Linked(p.d)
      /\ p.s.attempts \in [Clients -> Nat] /\ now \in Nat
  BY DEF Sane, Fits, Sidecar, RInv, TypeOK
<1>2. ClientsInOrder(back) \in Seq(who)
  <2>1. Cardinality(Clients) \in Nat /\ Clients = 1..Cardinality(Clients)
    BY ClientsAssumption, FS_CardinalityType
  <2>2. [c \in 1..Cardinality(Clients) |-> c] \in Seq(Clients)
    BY <2>1, FunctionIsSequence
  <2> QED
    BY <2>2, SelectInSeq DEF ClientsInOrder
<1>3. ExpireLeases(p) = Progress(e, Erase(p.l, gone), [p.s EXCEPT !.deferred = @ \ gone],
                                 p.ckpt \/ gone # {}, p.file \/ back # {})
  BY DEF ExpireLeases
<1>4. Extended(p.d, e, who)
  BY <1>1, <1>2, EnqueueAllExtends
<1> HIDE DEF e
<1>5. /\ Erase(p.l, gone) \in LiveState /\ Erase(p.l, gone).results = p.l.results
      /\ \A c \in Clients : Held(Erase(p.l, gone), c) =>
           /\ c \notin gone /\ c \notin who /\ Held(p.l, c)
           /\ Erase(p.l, gone).leases[c] = p.l.leases[c]
  BY <1>1, Erased
<1>6. Fits(e, Erase(p.l, gone))
  BY <1>1, <1>4, <1>5, ExtendedFits
<1>7. \A c \in Clients : Held(Erase(p.l, gone), c) => now <= Erase(p.l, gone).leases[c].expires
  <2>1. \A c \in Clients : p.l.leases[c].expires \in Int
    BY <1>1 DEF LiveState, Lease
  <2> QED
    BY <1>1, <1>5, <2>1
<1>8. [p.s EXCEPT !.deferred = @ \ gone] \in Sidecar
  BY <1>1 DEF Sidecar
<1> HIDE DEF gone, back
<1> QED
  BY <1>1, <1>3, <1>5, <1>6, <1>7, <1>8 DEF Progress, Sane

LEMMA SweepLeasesFits ==
  ASSUME RInv, NEW p, Sane(p),
         \A c \in Clients : Held(p.l, c) => now <= p.l.leases[c].expires
  PROVE  Sane(SweepLeases(p))
<1> DEFINE expired == Expired(p.d, now)
           spent == Spent(p.d, expired)
           failed == {p.d.tasks[i].client : i \in spent}
           order == TasksInOrder(p.d, expired \ spent)
           swept == Sweep(p.d, now, order)
           m == [Erase(p.l, failed) EXCEPT !.failed = @ \cup failed \cup FailedClients(swept)]
<1>1. /\ Fits(p.d, p.l) /\ p.s \in Sidecar /\ p.l.results = live.results
      /\ p.l \in LiveState /\ p.d \in Dispatcher /\ now \in Nat
  BY DEF Sane, Fits, RInv, TypeOK
<1>2. SweepLeases(p) = Progress(swept, m, p.s, p.ckpt \/ spent # {}, p.file)
  BY DEF SweepLeases
<1>3. order \in Seq(TaskIds(p.d))
  <2>1. TaskIds(p.d) = 1..Len(p.d.tasks) /\ Len(p.d.tasks) \in Nat
    BY <1>1, LenProperties DEF Dispatcher, TaskIds
  <2>2. [i \in TaskIds(p.d) |-> i] \in Seq(TaskIds(p.d))
    BY <2>1, FunctionIsSequence
  <2> QED
    BY <2>2, SelectWithin DEF TasksInOrder
<1>4. failed \subseteq Clients
  <2>1. \A i \in TaskIds(p.d) : p.d.tasks[i].client \in Clients
    BY <1>1, ReleasedTask DEF DispatchedTask
  <2>2. spent \subseteq TaskIds(p.d)
    BY DEF Spent, Expired
  <2> QED
    BY <2>1, <2>2
<1> HIDE DEF order, failed
<1>5. /\ Erase(p.l, failed) \in LiveState /\ Erase(p.l, failed).results = p.l.results
      /\ \A c \in Clients : Held(Erase(p.l, failed), c) =>
           Held(p.l, c) /\ Erase(p.l, failed).leases[c] = p.l.leases[c]
  BY <1>1, Erased
<1>6. Fits(swept, Erase(p.l, failed))
  BY <1>1, <1>3, <1>5, SweepFits
<1> HIDE DEF swept
<1>7. FailedClients(swept) \subseteq Clients
  BY <1>6, ReleasedTask DEF FailedClients, InState, Fits, DispatchedTask
<1>8. /\ m \in LiveState /\ m.results = live.results
      /\ m.leases = Erase(p.l, failed).leases
  BY <1>1, <1>4, <1>5, <1>7 DEF LiveState
<1> HIDE DEF m
<1>9. Fits(swept, m)
  BY <1>6, <1>8 DEF Fits, Agree, Held
<1> QED
  BY <1>1, <1>2, <1>8, <1>9 DEF Progress, Sane

LEMMA AdvancedFits ==
  ASSUME RInv, Waiting, NEW p \in Advanced
  PROVE  /\ Sane(p)
         /\ Fits(p.d, AdvancedLive(p)) /\ AdvancedLive(p).results = live.results
         /\ AdvancedSidecar(p) \in Sidecar
<1> DEFINE o == Progress(dispatcher, live, sidecar, FALSE, FALSE)
<1>1. p = SweepLeases(ExpireLeases(Rebuild(o)))
  BY DEF Advanced
<1>2. Sane(p)
  BY <1>1, RebuildFits, ExpireFits, SweepLeasesFits
<1> DEFINE open == Unresolved(p.l)
<1>3. /\ p.l \in LiveState /\ Fits(p.d, p.l) /\ p.d \in Dispatcher /\ Linked(p.d)
      /\ p.s \in Sidecar /\ sidecar \in Sidecar /\ p.l.results = live.results
      /\ open \subseteq Clients
  BY <1>2, CohortFacts DEF Sane, Fits, RInv, TypeOK, InRound, Waiting
<1>4. /\ Erase(p.l, open) \in LiveState /\ Erase(p.l, open).results = p.l.results
      /\ \A c \in Clients : Held(Erase(p.l, open), c) =>
           Held(p.l, c) /\ Erase(p.l, open).leases[c] = p.l.leases[c]
  BY <1>3, Erased
<1>5. GiveUp(p.l) = [Erase(p.l, open) EXCEPT !.failed = @ \cup open]
  BY DEF GiveUp
<1> HIDE DEF open
<1>6. /\ GiveUp(p.l) \in LiveState /\ GiveUp(p.l).results = live.results
      /\ GiveUp(p.l).leases = Erase(p.l, open).leases
  BY <1>3, <1>4, <1>5 DEF LiveState
<1>7. Fits(p.d, GiveUp(p.l))
  <2>1. \A c \in Clients : Held(GiveUp(p.l), c) =>
          Held(p.l, c) /\ GiveUp(p.l).leases[c] = p.l.leases[c]
    BY <1>4, <1>6 DEF Held
  <2>2. Kept(p.d, p.d, GiveUp(p.l))
    BY DEF Kept
  <2> QED
    BY <1>3, <1>6, <2>1, <2>2, KeptFits
<1>8. AdvancedSidecar(p) \in Sidecar
  BY <1>3 DEF AdvancedSidecar, Sidecar
<1> QED
  BY <1>2, <1>3, <1>6, <1>7, <1>8 DEF AdvancedLive

-------------------------------------------------------------------------------
(***************************************************************************)
(* A run with its rounds is a run.  LifeProofs instantiates RunLifecycle   *)
(* once more, so its definitions are compared with those of Life first.    *)
(***************************************************************************)
LEMMA SameInit == Life!Init => LifeProofs!Init
  BY SMTT(60) DEF Life!Init, Life!Config, Life!Created, Life!Policy,
         LifeProofs!Init, LifeProofs!Config, LifeProofs!Created, LifeProofs!Policy

LEMMA SameStep == [Life!Next]_(Life!vars) => [LifeProofs!Next]_(LifeProofs!vars)
  BY DEF Life!Next, Life!vars, Life!StartRun, Life!ResumeRun, Life!PauseRun, Life!CancelRun,
         Life!BeginRound, Life!RoundEnds, Life!HandlerStep, Life!CrashAndRestore,
         Life!FinalizeRound, Life!FailRound, Life!SecureApply, Life!StartStep, Life!PauseStep,
         Life!CancelStep, Life!StopStep, Life!Aggregate, Life!Charge, Life!Publish,
         Life!Checkpoint, Life!Settle, Life!Idle, Life!MidRelease, Life!Terminal,
         Life!Transition, Life!AllowedNext, Life!StartOrder, Life!StopsBefore,
         Life!ReachesBudget, Life!BudgetEnds, Life!AfterRelease, Life!Restore,
         LifeProofs!Next, LifeProofs!vars, LifeProofs!StartRun, LifeProofs!ResumeRun,
         LifeProofs!PauseRun, LifeProofs!CancelRun, LifeProofs!BeginRound,
         LifeProofs!RoundEnds, LifeProofs!HandlerStep, LifeProofs!CrashAndRestore,
         LifeProofs!FinalizeRound, LifeProofs!FailRound, LifeProofs!SecureApply,
         LifeProofs!StartStep, LifeProofs!PauseStep, LifeProofs!CancelStep,
         LifeProofs!StopStep, LifeProofs!Aggregate, LifeProofs!Charge, LifeProofs!Publish,
         LifeProofs!Checkpoint, LifeProofs!Settle, LifeProofs!Idle, LifeProofs!MidRelease,
         LifeProofs!Terminal, LifeProofs!Transition, LifeProofs!AllowedNext,
         LifeProofs!StartOrder, LifeProofs!StopsBefore, LifeProofs!ReachesBudget,
         LifeProofs!BudgetEnds, LifeProofs!AfterRelease, LifeProofs!Restore

LEMMA LifeAssumptions ==
  /\ MaxRounds \in Nat /\ Budget \in Nat
  /\ {Faults} \subseteq SUBSET {"crash", "aggregate", "pause", "cancel"}
  BY LifeAssumption

(* Whatever advance does, to the run it is a new round, the end of one, or nothing. *)
LEMMA AdvanceIsLife ==
  ASSUME Advance \/ AdvanceNothing
  PROVE  Life!BeginRound \/ Life!FinalizeRound \/ Life!FailRound \/ UNCHANGED lifeVars
<1>1. CASE AdvanceWaiting
  BY <1>1 DEF AdvanceWaiting, EndRound
<1>2. CASE AdvanceRunning
  BY <1>2 DEF AdvanceRunning
<1>3. CASE AdvanceNothing
  BY <1>3 DEF AdvanceNothing, lifeVars
<1> QED
  BY <1>1, <1>2, <1>3 DEF Advance

LEMMA StepIsLife == [Next]_vars => [Life!Next]_(Life!vars)
<1> SUFFICES ASSUME [Next]_vars PROVE Life!Next \/ UNCHANGED lifeVars
  BY DEF lifeVars, Life!vars
<1>1. CASE Advance \/ AdvanceNothing
  BY <1>1, AdvanceIsLife, SMTT(60) DEF Life!Next, Life!RoundEnds
<1>2. ASSUME NEW w \in Workers, CallStep(w) \/ RevokeWorker(w) PROVE UNCHANGED lifeVars
  BY <1>2 DEF CallStep, RevokeWorker, AcquireTask, RecordAttempt, CheckState, DeliverResult
<1>3. CASE OperatorCall
  BY <1>3 DEF OperatorCall, Life!Next
<1>4. CASE HandlerStep
  BY <1>4 DEF HandlerStep, AggregateResults, Life!Next, Life!HandlerStep
<1>5. CASE CrashAndRestore
  BY <1>5 DEF CrashAndRestore, Life!Next
<1>6. CASE Tick \/ UNCHANGED vars
  BY <1>6 DEF Tick, vars
<1> QED
  BY <1>1, <1>2, <1>3, <1>4, <1>5, <1>6 DEF Next, WatchdogTick, CallAcquire, CallSubmit

(* Every step of RoundRuntime is one of RunLifecycle or none of its business, by the way it is built. *)
LEMMA RefinesLife == Spec => Life!Spec
<1>1. Init => Life!Init
  BY DEF Init
<1> QED
  BY <1>1, StepIsLife, PTL DEF Spec, Life!Spec

LEMMA LifeSpecProved == Spec => LifeProofs!Spec
  BY RefinesLife, SameInit, SameStep, PTL DEF Life!Spec, LifeProofs!Spec

LEMMA LifeInvariance == Spec => []LifeProofs!IInv
<1>1. LifeProofs!Spec => []LifeProofs!IInv
  BY LifeAssumptions, LifeProofs!Invariance
<1> QED
  BY <1>1, LifeSpecProved, PTL

(***************************************************************************)
(* What RunLifecycleProofs shows of a run holds while workers and watchdog *)
(* drive it: no release without its charge and no charge without its       *)
(* release, none twice, and no completion before the last round.           *)
(***************************************************************************)
THEOREM ReleasesCorrect ==
  Spec => [](/\ Life!ReleaseIsCharged /\ Life!OneReleasePerRound
             /\ Life!CompletedReleasedLastRound)
<1>1. LifeProofs!Spec => [](/\ LifeProofs!ReleaseIsCharged /\ LifeProofs!OneReleasePerRound
                            /\ LifeProofs!CompletedReleasedLastRound)
  <2>1. LifeProofs!Spec => []LifeProofs!ReleaseIsCharged
    BY LifeAssumptions, LifeProofs!ReleaseChargedCorrect
  <2>2. LifeProofs!Spec => []LifeProofs!OneReleasePerRound
    BY LifeAssumptions, LifeProofs!OneReleaseCorrect
  <2>3. LifeProofs!Spec => []LifeProofs!CompletedReleasedLastRound
    BY LifeAssumptions, LifeProofs!CompletedCorrect
  <2> QED
    BY <2>1, <2>2, <2>3, PTL
<1>2. LifeProofs!ReleaseIsCharged => Life!ReleaseIsCharged
  BY DEF Life!ReleaseIsCharged, LifeProofs!ReleaseIsCharged, Life!LastCharged,
         LifeProofs!LastCharged, Life!Idle, LifeProofs!Idle
<1>3. LifeProofs!OneReleasePerRound => Life!OneReleasePerRound
  BY DEF Life!OneReleasePerRound, LifeProofs!OneReleasePerRound, Life!Ascending,
         LifeProofs!Ascending
<1>4. LifeProofs!CompletedReleasedLastRound => Life!CompletedReleasedLastRound
  BY DEF Life!CompletedReleasedLastRound, LifeProofs!CompletedReleasedLastRound,
         Life!LastCharged, LifeProofs!LastCharged, Life!ReachesBudget, LifeProofs!ReachesBudget
<1> QED
  BY <1>1, <1>2, <1>3, <1>4, LifeSpecProved, PTL

(* A run that has ended stays ended, and what it released is never taken back. *)
THEOREM EndsAndReleasesStay == Spec => Life!TerminalIsFinal /\ Life!ReleasesSurvive
<1>1. LifeProofs!Spec => LifeProofs!TerminalIsFinal
  BY LifeAssumptions, LifeProofs!TerminalCorrect
<1>2. LifeProofs!Spec => LifeProofs!ReleasesSurvive
  BY LifeAssumptions, LifeProofs!SurviveCorrect
<1>3. [mem.state \in LifeProofs!Terminal =>
         mem'.state = mem.state /\ mem'.version = mem.version]_(LifeProofs!vars)
      => [mem.state \in Life!Terminal =>
            mem'.state = mem.state /\ mem'.version = mem.version]_(Life!vars)
  BY DEF Life!Terminal, LifeProofs!Terminal, Life!vars, LifeProofs!vars
<1>4. [/\ Len(disk.ledger) <= Len(disk'.ledger)
       /\ \A i \in DOMAIN disk.ledger : disk'.ledger[i] = disk.ledger[i]]_(LifeProofs!vars)
      => [/\ Len(disk.ledger) <= Len(disk'.ledger)
          /\ \A i \in DOMAIN disk.ledger : disk'.ledger[i] = disk.ledger[i]]_(Life!vars)
  BY DEF Life!vars, LifeProofs!vars
<1>5. LifeProofs!TerminalIsFinal => Life!TerminalIsFinal
  BY <1>3, PTL DEF Life!TerminalIsFinal, LifeProofs!TerminalIsFinal
<1>6. LifeProofs!ReleasesSurvive => Life!ReleasesSurvive
  BY <1>4, PTL DEF Life!ReleasesSurvive, LifeProofs!ReleasesSurvive
<1> QED
  BY <1>1, <1>2, <1>5, <1>6, LifeSpecProved, PTL
-------------------------------------------------------------------------------
(***************************************************************************)
(* What operators and handlers may do to a run: they neither begin a round *)
(* nor start to aggregate one.                                             *)
(***************************************************************************)
LEMMA QuietLifeStep ==
  ASSUME LifeProofs!IInv,
         OperatorCall \/ HandlerStep
  PROVE  /\ mem'.state = "WAITING" => mem.state = "WAITING" /\ mem'.round = mem.round
         /\ disk' = disk \/ disk' = mem'
         /\ handler' # "aggregate"
<1>1. mem \in LifeProofs!Durable
  BY DEF LifeProofs!IInv, LifeProofs!TypeOK
<1>2. ASSUME NEW next, Life!Transition(next), next # "WAITING"
      PROVE  mem'.state # "WAITING" /\ disk' = mem'
  BY <1>1, <1>2 DEF Life!Transition, LifeProofs!Durable
<1>3. CASE OperatorCall
  BY <1>2, <1>3
  DEF OperatorCall, Life!StartRun, Life!ResumeRun, Life!PauseRun, Life!CancelRun, Life!Idle,
      Life!MidRelease
<1>4. CASE HandlerStep
  <2>1. CASE Life!StartStep
    <3>1. Life!StartOrder[mem.state] # "WAITING"
      BY <2>1 DEF Life!StartStep, Life!StartOrder, LifeProofs!IInv, LifeProofs!MemoryPhase
    <3> QED
      BY <1>2, <2>1, <3>1 DEF Life!StartStep
  <2>2. CASE Life!PauseStep \/ Life!CancelStep
    BY <1>2, <2>2 DEF Life!PauseStep, Life!CancelStep
  <2>3. CASE AggregateResults
    BY <2>3 DEF AggregateResults, Life!Aggregate
  <2>4. CASE Life!Charge \/ Life!Publish
    BY <1>1, <2>4 DEF Life!Charge, Life!Publish, LifeProofs!Durable
  <2>5. CASE Life!Checkpoint
    BY <1>2, <2>5 DEF Life!Checkpoint
  <2>6. CASE Life!Settle
    BY <1>2, <2>6 DEF Life!Settle, Life!AfterRelease
  <2> QED
    BY <1>4, <2>1, <2>2, <2>3, <2>4, <2>5, <2>6 DEF HandlerStep
<1> QED
  BY <1>3, <1>4

LEMMA FreshFacts ==
  /\ FreshLive \in LiveState /\ \A c \in Clients : ~Held(FreshLive, c)
  /\ \A r, t \in Nat : FreshSidecar(r, t) \in Sidecar
<1>1. NoActiveLease \in Lease /\ NoActiveLease.worker = NoWorker
  BY DEF NoActiveLease, Lease, NoTask, NoLease
<1>2. /\ FreshLive.results = [c \in Clients |-> 0]
      /\ FreshLive.leases = [c \in Clients |-> NoActiveLease] /\ FreshLive.failed = {}
      /\ FreshLive = [results |-> FreshLive.results, leases |-> FreshLive.leases,
                      failed |-> FreshLive.failed]
  BY DEF FreshLive
<1>3. FreshLive.results \in [Clients -> Nat] /\ FreshLive.leases \in [Clients -> Lease]
  BY <1>1, <1>2
<1>4. FreshLive \in LiveState
  BY <1>2, <1>3 DEF LiveState
<1>5. \A c \in Clients : ~Held(FreshLive, c)
  BY <1>1, <1>2 DEF Held
<1>6. \A r, t \in Nat : FreshSidecar(r, t) \in Sidecar
  BY DEF FreshSidecar, Sidecar
<1> QED
  BY <1>4, <1>5, <1>6

LEMMA InitRInv == Init => RInv
<1> SUFFICES ASSUME Init PROVE RInv
  OBVIOUS
<1>1. FreshLive \in LiveState /\ FreshSidecar(0, 0) \in Sidecar
  BY FreshFacts
<1>2. NoCall \in Call
  BY DEF NoCall, Call
<1>3. calls \in [Workers -> Call] /\ \A w \in Workers : calls[w] = NoCall
  BY <1>2 DEF Init
<1>4. TypeOK
  BY <1>1, <1>3 DEF Init, TypeOK
<1>5. InRound(mem) /\ InRound(disk) /\ handler # "aggregate"
  BY DEF Init, Life!Init, Life!Created, InRound
<1>6. Served /\ CallsHaveGrants
  BY <1>3 DEF Served, CallsHaveGrants, NoCall
<1> QED
  BY <1>4, <1>5, <1>6 DEF RInv, Init

(***************************************************************************)
(* advance, whoever calls it, leaves everything but the calls as it should *)
(* be, and puts a dispatcher where the run waits.                          *)
(***************************************************************************)
RInvButCalls ==
  /\ live \in LiveState /\ saved \in LiveState
  /\ dispatcher \in Dispatcher \cup {NoDispatcher}
  /\ sidecar \in Sidecar
  /\ InRound(mem) /\ InRound(disk)
  /\ dispatcher # NoDispatcher => Fits(dispatcher, live)
  /\ saved.results = live.results
  /\ handler = "aggregate" => EnoughResults(live)

LEMMA AdvanceKeeps ==
  ASSUME RInv, LifeProofs!IInv, Advance \/ AdvanceNothing
  PROVE  /\ RInvButCalls'
         /\ dispatcher' = NoDispatcher => dispatcher = NoDispatcher /\ ~Waiting'
         /\ UNCHANGED <<now, granted, revoked>>
<1>0. /\ mem \in LifeProofs!Durable /\ disk \in LifeProofs!Durable /\ mem.round \in Nat
      /\ TypeOK /\ InRound(mem) /\ InRound(disk) /\ saved \in LiveState
      /\ MaxRounds \in Nat /\ MinResults \in Nat /\ now \in Nat /\ RoundTimeout \in Nat
  BY LifeAssumption, MinResultsAssumption, TimeAssumption
  DEF RInv, TypeOK, LifeProofs!IInv, LifeProofs!TypeOK, LifeProofs!Durable
<1>1. CASE AdvanceWaiting
  <2>1. Waiting /\ Idle /\ UNCHANGED <<now, granted, revoked>>
    BY <1>1 DEF AdvanceWaiting
  <2>2. PICK p \in Advanced :
          /\ dispatcher' = p.d /\ live' = AdvancedLive(p) /\ sidecar' = AdvancedSidecar(p)
          /\ IF Settled(p.l) \/ Closing(p)
             THEN saved' = live' /\ EndRound(live')
             ELSE /\ saved' = IF p.ckpt THEN live' ELSE saved
                  /\ UNCHANGED lifeVars
    BY <1>1 DEF AdvanceWaiting
  <2>3. /\ Fits(dispatcher', live') /\ live'.results = live.results /\ sidecar' \in Sidecar
        /\ dispatcher' \in Dispatcher /\ live' \in LiveState
    BY <2>1, <2>2, AdvancedFits DEF Fits
  <2>4. dispatcher' # NoDispatcher
    BY <2>3, NoDispatcherAssumption
  <2>5. saved' \in LiveState /\ saved'.results = live'.results
    BY <1>0, <2>2, <2>3 DEF RInv
  <2>6. /\ InRound(mem') /\ InRound(disk')
        /\ handler' = "aggregate" => EnoughResults(live')
    <3>1. CASE UNCHANGED lifeVars
      BY <1>0, <2>1, <3>1 DEF lifeVars, Idle, Life!Idle
    <3>2. CASE EnoughResults(live') /\ Life!FinalizeRound
      BY <1>0, <3>2 DEF Life!FinalizeRound, Life!Transition, InRound, LifeProofs!Durable
    <3>3. CASE Life!FailRound
      BY <1>0, <2>1, <3>3
      DEF Life!FailRound, Life!Transition, InRound, LifeProofs!Durable, Idle, Life!Idle
    <3> QED
      BY <2>2, <3>1, <3>2, <3>3 DEF EndRound
  <2> QED
    BY <2>1, <2>3, <2>4, <2>5, <2>6 DEF RInvButCalls, InRound, EnoughResults, Completed
<1>2. CASE AdvanceRunning
  <2> DEFINE zeros == [c \in Clients |-> 0]
  <2>1. /\ Idle /\ mem.round < MaxRounds /\ live' = FreshLive /\ saved' = FreshLive
        /\ mem' = [mem EXCEPT !.state = "WAITING", !.round = @ + 1] /\ disk' = mem'
        /\ handler' = handler /\ UNCHANGED <<now, granted, revoked>>
        /\ sidecar' = NextSidecar
        /\ dispatcher' = EnqueueAll(EmptyDispatcher, Cohort[mem.round + 1], zeros)
    BY <1>2 DEF AdvanceRunning, Life!BeginRound, Idle
  <2>2. mem.round + 1 \in 1..MaxRounds /\ InRound(mem') /\ InRound(disk')
    BY <1>0, <2>1 DEF InRound, LifeProofs!Durable
  <2>3. Extended(EmptyDispatcher, dispatcher', Clients)
    <3>1. Cohort[mem.round + 1] \in Seq(Clients)
      BY <2>2, CohortAssumption
    <3>2. EmptyDispatcher \in Dispatcher /\ Linked(EmptyDispatcher)
      BY FreshFacts, EmptyFits DEF Fits
    <3>3. zeros \in [Clients -> Nat]
      OBVIOUS
    <3> QED
      BY <2>1, <3>1, <3>2, <3>3, EnqueueAllExtends
  <2>4. Fits(dispatcher', FreshLive)
    BY <2>3, FreshFacts, EmptyFits, ExtendedFits
  <2>5. sidecar' \in Sidecar
    <3>1. mem.round + 1 \in Nat /\ (IF RoundTimeout > 0 THEN now + RoundTimeout ELSE 0) \in Nat
      BY <1>0
    <3> QED
      BY <2>1, <3>1, FreshFacts DEF NextSidecar
  <2>6. dispatcher' \in Dispatcher /\ dispatcher' # NoDispatcher
    BY <2>4, NoDispatcherAssumption DEF Fits
  <2> QED
    BY <2>1, <2>2, <2>4, <2>5, <2>6, FreshFacts DEF RInvButCalls, InRound, Idle, Life!Idle
<1>3. CASE AdvanceNothing
  BY <1>0, <1>3
  DEF AdvanceNothing, lifeVars, RInv, RInvButCalls, TypeOK, InRound, EnoughResults, Completed,
      Fits, Linked, Agree, Waiting
<1> QED
  BY <1>1, <1>2, <1>3 DEF Advance

(* A step that sets one call to one that has its grant, and needs no dispatcher it has not. *)
LEMMA OneCallSet ==
  ASSUME RInv, NEW w \in Workers, NEW k \in Call, calls' = [calls EXCEPT ![w] = k],
         k.step \in {"record", "check", "deliver"} => k.grant # {},
         dispatcher' = NoDispatcher => dispatcher = NoDispatcher /\ (Waiting' => Waiting),
         dispatcher' = NoDispatcher => k = NoCall \/ (~Waiting' /\ k.step \in {"acquire", "check"})
  PROVE  calls' \in [Workers -> Call] /\ Served' /\ CallsHaveGrants'
<1>1. calls \in [Workers -> Call] /\ Served /\ CallsHaveGrants
  BY DEF RInv, TypeOK
<1>2. /\ calls' \in [Workers -> Call] /\ calls'[w] = k
      /\ \A v \in Workers : v # w => calls'[v] = calls[v]
  BY <1>1
<1>3. CallsHaveGrants'
  BY <1>1, <1>2 DEF CallsHaveGrants
<1>4. Served'
  BY <1>1, <1>2 DEF Served
<1> QED
  BY <1>2, <1>3, <1>4

LEMMA NextRInv == RInv /\ LifeProofs!IInv /\ [Next]_vars => RInv'
<1> SUFFICES ASSUME RInv, LifeProofs!IInv, [Next]_vars PROVE RInv'
  OBVIOUS
<1>0. /\ TypeOK /\ InRound(mem) /\ InRound(disk) /\ Served /\ CallsHaveGrants
      /\ live \in LiveState /\ saved \in LiveState /\ saved.results = live.results
      /\ dispatcher \in Dispatcher \cup {NoDispatcher} /\ sidecar \in Sidecar
      /\ dispatcher # NoDispatcher => Fits(dispatcher, live)
      /\ now \in Nat /\ calls \in [Workers -> Call] /\ granted \subseteq Grant
      /\ revoked \subseteq Workers
      /\ handler = "aggregate" => EnoughResults(live)
  BY DEF RInv, TypeOK
<1>1. CASE WatchdogTick
  <2>1. RInvButCalls' /\ UNCHANGED <<now, granted, revoked, calls>>
    BY <1>1, AdvanceKeeps DEF WatchdogTick
  <2>2. dispatcher' = NoDispatcher => dispatcher = NoDispatcher /\ ~Waiting'
    BY <1>1, AdvanceKeeps DEF WatchdogTick
  <2>3. Served' /\ CallsHaveGrants'
    BY <1>0, <2>1, <2>2 DEF Served, CallsHaveGrants
  <2> QED
    BY <1>0, <2>1, <2>3 DEF RInv, TypeOK, RInvButCalls
<1>2. ASSUME NEW w \in Workers, CallAcquire(w) PROVE RInv'
  <2> DEFINE k == [NoCall EXCEPT !.step = "acquire", !.at = now]
  <2>1. /\ RInvButCalls' /\ UNCHANGED <<now, granted, revoked>>
        /\ dispatcher' = NoDispatcher => dispatcher = NoDispatcher /\ ~Waiting'
    BY <1>2, AdvanceKeeps DEF CallAcquire
  <2>2. k \in Call /\ k.step = "acquire" /\ calls' = [calls EXCEPT ![w] = k]
    BY <1>0, <1>2 DEF CallAcquire, NoCall, Call
  <2> HIDE DEF k
  <2>3. calls' \in [Workers -> Call] /\ Served' /\ CallsHaveGrants'
    BY <2>1, <2>2, OneCallSet
  <2> QED
    BY <1>0, <2>1, <2>3 DEF RInv, TypeOK, RInvButCalls
<1>3. ASSUME NEW g \in granted, CallSubmit(g) PROVE RInv'
  <2> DEFINE k == [NoCall EXCEPT !.step = "check", !.at = now, !.grant = {g}]
  <2>1. /\ RInvButCalls' /\ UNCHANGED <<now, granted, revoked>>
        /\ dispatcher' = NoDispatcher => dispatcher = NoDispatcher /\ ~Waiting'
    BY <1>3, AdvanceKeeps DEF CallSubmit
  <2>2. g \in Grant /\ g.worker \in Workers
    BY <1>0 DEF Grant
  <2>3. k \in Call /\ k.step = "check" /\ k.grant = {g} /\ calls' = [calls EXCEPT ![g.worker] = k]
    BY <1>0, <1>3, <2>2 DEF CallSubmit, NoCall, Call
  <2> HIDE DEF k
  <2>4. calls' \in [Workers -> Call] /\ Served' /\ CallsHaveGrants'
    BY <2>1, <2>2, <2>3, OneCallSet
  <2> QED
    BY <1>0, <2>1, <2>4 DEF RInv, TypeOK, RInvButCalls
<1>4. ASSUME NEW w \in Workers, AcquireTask(w) PROVE RInv'
  <2> DEFINE id == Head(dispatcher.queue)
             c == dispatcher.tasks[id].client
             task == Acquire(dispatcher, w, calls[w].at).tasks[id]
             g == [worker |-> w, client |-> c, task |-> id, round |-> mem.round,
                   lease |-> task.lease]
             k == [calls[w] EXCEPT !.step = "record", !.attempt = task.attempt, !.grant = {g}]
             lease == [worker |-> w, task |-> id, lease |-> task.lease, expires |-> task.expires]
  <2>1. /\ Idle /\ calls[w].step = "acquire" /\ calls[w] \in Call
        /\ UNCHANGED <<lifeVars, sidecar, now, granted, revoked>>
    BY <1>0, <1>4 DEF AcquireTask
  <2>2. CASE Waiting /\ CanAcquire(dispatcher, w)
    <3>1. dispatcher # NoDispatcher /\ Fits(dispatcher, live) /\ calls[w].at \in Nat
      <4>1. calls[w].step = "acquire" /\ calls[w] \in Call
        BY <2>1
      <4>2. calls[w] # NoCall
        BY <4>1 DEF NoCall
      <4> QED
        BY <1>0, <2>2, <4>1, <4>2 DEF Served, Call
    <3>2. calls' = [calls EXCEPT ![w] = k]
      BY <1>4, <2>2 DEF AcquireTask
    <3> HIDE DEF k
    <3>3. dispatcher' = Acquire(dispatcher, w, calls[w].at)
      BY <1>4, <2>2 DEF AcquireTask
    <3>4. live' = [live EXCEPT !.leases[c] = lease] /\ saved' = live'
      BY <1>4, <2>2 DEF AcquireTask
    <3>5. live' = WithLease(live, c, LeaseOn(w, id, dispatcher'.tasks[id]))
      <4> HIDE DEF id, c, task, k
      <4>1. lease = LeaseOn(w, id, task)
        BY Zenon DEF LeaseOn
      <4> HIDE DEF lease
      <4>2. task = dispatcher'.tasks[id]
        BY <3>3 DEF task
      <4> QED
        BY <3>4, <4>1, <4>2, Zenon DEF WithLease
    <3>6. /\ Fits(dispatcher', live') /\ live'.results = live.results
          /\ id \in Nat /\ c \in Clients /\ task.lease \in Nat /\ task.attempt \in Nat
      <4>1. Acquired(dispatcher, live, w, calls[w].at)
        BY <2>2, <3>1, AcquireFits, Zenon
      <4> QED
        BY <3>3, <3>5, <4>1 DEF Acquired
    <3> HIDE DEF id, c, task, lease
    <3>7. dispatcher' \in Dispatcher /\ dispatcher' # NoDispatcher /\ live' \in LiveState
      BY <3>6, NoDispatcherAssumption DEF Fits
    <3>8. k \in Call /\ k.step = "record" /\ k.grant = {g}
      <4>1. mem.round \in Nat
        BY DEF LifeProofs!IInv, LifeProofs!TypeOK, LifeProofs!Durable
      <4>2. g \in Grant
        BY <3>6, <4>1 DEF Grant
      <4> QED
        BY <2>1, <3>6, <4>2 DEF Call, k
    <3>9. calls' \in [Workers -> Call] /\ Served' /\ CallsHaveGrants'
      BY <3>2, <3>7, <3>8, OneCallSet
    <3> QED
      BY <1>0, <2>1, <3>4, <3>6, <3>7, <3>9
      DEF RInv, TypeOK, lifeVars, InRound, Idle, Life!Idle
  <2>3. CASE ~(Waiting /\ CanAcquire(dispatcher, w))
    <3>1. calls' = [calls EXCEPT ![w] = NoCall] /\ UNCHANGED <<live, saved, dispatcher>>
      BY <1>4, <2>3 DEF AcquireTask
    <3>2. NoCall \in Call /\ NoCall.step = "none"
      BY DEF NoCall, Call
    <3>3. calls' \in [Workers -> Call] /\ Served' /\ CallsHaveGrants'
      BY <2>1, <3>1, <3>2, OneCallSet DEF Waiting, lifeVars
    <3> QED
      BY <1>0, <2>1, <3>1, <3>3
      DEF RInv, TypeOK, lifeVars, InRound, Idle, Life!Idle, Fits, Linked, Agree
  <2> QED
    BY <2>2, <2>3
<1>5. ASSUME NEW w \in Workers, RecordAttempt(w) \/ CheckState(w) PROVE RInv'
  <2>1. /\ UNCHANGED <<lifeVars, live, saved, dispatcher, now, revoked>>
        /\ calls[w].step \in {"record", "check"} /\ calls[w] \in Call /\ calls[w].grant # {}
    BY <1>0, <1>5 DEF RecordAttempt, CheckState, CallsHaveGrants
  <2>2. PICK k \in {NoCall, [calls[w] EXCEPT !.step = "deliver"]} :
          /\ calls' = [calls EXCEPT ![w] = k]
          /\ k # NoCall => Waiting
    BY <1>5 DEF RecordAttempt, CheckState
  <2>3. /\ k \in Call /\ NoCall.step = "none"
        /\ k # NoCall => k.step = "deliver" /\ k.grant # {}
    BY <2>1, <2>2 DEF NoCall, Call
  <2>4. dispatcher = NoDispatcher => k = NoCall
    <3>1. calls[w] # NoCall
      BY <2>1, <2>3
    <3> QED
      BY <1>0, <2>2, <3>1 DEF Served
  <2>5. calls' \in [Workers -> Call] /\ Served' /\ CallsHaveGrants'
    BY <2>1, <2>2, <2>3, <2>4, OneCallSet DEF Waiting, lifeVars
  <2>6. sidecar' \in Sidecar /\ granted' \subseteq Grant
    <3>1. CASE RecordAttempt(w)
      <4> DEFINE g == CHOOSE g \in calls[w].grant : TRUE
      <4>1. g \in Grant /\ calls[w].attempt \in Nat
        BY <2>1 DEF Call
      <4>2. /\ sidecar' = IF sidecar.round = mem.round
                          THEN [sidecar EXCEPT !.attempts[g.client] = calls[w].attempt,
                                               !.deferred = @ \ {g.client}]
                          ELSE sidecar
            /\ granted' = granted \cup {g}
        BY <3>1 DEF RecordAttempt
      <4> HIDE DEF g
      <4> QED
        BY <1>0, <4>1, <4>2 DEF Sidecar, Grant
    <3>2. CASE CheckState(w)
      BY <1>0, <3>2 DEF CheckState
    <3> QED
      BY <1>5, <3>1, <3>2
  <2> QED
    BY <1>0, <2>1, <2>5, <2>6
    DEF RInv, TypeOK, lifeVars, InRound, EnoughResults, Completed, Fits, Linked, Agree
<1>6. ASSUME NEW w \in Workers, DeliverResult(w) PROVE RInv'
  <2> DEFINE g == CHOOSE g \in calls[w].grant : TRUE
             at == calls[w].at
             m == [live EXCEPT !.results[g.client] = g.round, !.leases[g.client] = NoActiveLease]
  <2>1. /\ Idle /\ calls[w].step = "deliver" /\ calls[w] \in Call /\ saved' = live'
        /\ calls' = [calls EXCEPT ![w] = NoCall]
        /\ UNCHANGED <<lifeVars, sidecar, now, granted, revoked>>
    BY <1>0, <1>6 DEF DeliverResult
  <2>2. NoCall \in Call /\ NoCall.step = "none"
    BY DEF NoCall, Call
  <2>3. dispatcher # NoDispatcher /\ Fits(dispatcher, live) /\ g \in Grant
    BY <1>0, <2>1, <2>2 DEF Served, CallsHaveGrants, Call
  <2>4. IF Accepted(g, at)
        THEN /\ live' = m
             /\ dispatcher' = IF MatchesLease(g, at) THEN dispatcher
                              ELSE Complete(dispatcher, w, g.task)
        ELSE UNCHANGED <<live, dispatcher>>
    BY <1>6 DEF DeliverResult
  <2> HIDE DEF g, at
  <2>5. /\ m \in LiveState
        /\ \A c \in Clients : Held(m, c) => Held(live, c) /\ m.leases[c] = live.leases[c]
    <3>1. NoActiveLease \in Lease /\ NoActiveLease.worker = NoWorker
      BY DEF NoActiveLease, Lease, NoTask, NoLease
    <3>2. g.round \in Nat /\ g.client \in Clients
      BY <2>3 DEF Grant
    <3> QED
      BY <1>0, <3>1, <3>2 DEF LiveState, Held
  <2> HIDE DEF m
  <2>6. Fits(dispatcher', live')
    <3>1. CASE Accepted(g, at) /\ MatchesLease(g, at)
      <4>1. dispatcher \in Dispatcher /\ Linked(dispatcher) /\ Kept(dispatcher, dispatcher, m)
        BY <2>3 DEF Fits, Kept
      <4> QED
        BY <2>3, <2>4, <2>5, <3>1, <4>1, KeptFits
    <3>2. CASE Accepted(g, at) /\ ~MatchesLease(g, at)
      <4>1. g.task \in TaskIds(dispatcher)
        BY <3>2 DEF Accepted, MatchesTask, Accepts
      <4> QED
        BY <2>3, <2>4, <2>5, <3>2, <4>1, CompleteFits
    <3>3. CASE ~Accepted(g, at)
      BY <2>3, <2>4, <3>3
    <3> QED
      BY <3>1, <3>2, <3>3
  <2>7. dispatcher' \in Dispatcher /\ dispatcher' # NoDispatcher /\ live' \in LiveState
    BY <2>6, NoDispatcherAssumption DEF Fits
  <2>8. calls' \in [Workers -> Call] /\ Served' /\ CallsHaveGrants'
    BY <2>1, <2>2, <2>7, OneCallSet
  <2> QED
    BY <1>0, <2>1, <2>6, <2>7, <2>8 DEF RInv, TypeOK, lifeVars, InRound, Idle, Life!Idle
<1>7. ASSUME NEW w \in Workers, RevokeWorker(w) PROVE RInv'
  <2>1. /\ Idle /\ UNCHANGED <<lifeVars, sidecar, now, calls, granted>>
        /\ revoked' = revoked \cup {w}
    BY <1>7 DEF RevokeWorker
  <2>2. CASE dispatcher = NoDispatcher \/ dispatcher.slot[w] = NoTask
    <3>1. UNCHANGED <<live, saved, dispatcher>>
      BY <1>7, <2>2 DEF RevokeWorker
    <3> QED
      BY <1>0, <2>1, <3>1
      DEF RInv, TypeOK, lifeVars, InRound, Served, CallsHaveGrants, Waiting, Idle, Life!Idle,
          Fits, Linked, Agree
  <2>3. CASE ~(dispatcher = NoDispatcher \/ dispatcher.slot[w] = NoTask)
    <3> DEFINE task == dispatcher.tasks[dispatcher.slot[w]]
               m == Without(live, task)
    <3>1. /\ dispatcher' = CancelLease(dispatcher, w) /\ live' = m
          /\ saved' = live' \/ UNCHANGED <<live, saved>>
      BY <1>7, <2>3 DEF RevokeWorker, Without
    <3>2. Fits(dispatcher', live') /\ live'.results = live.results
      BY <1>0, <2>3, <3>1, CancelFits
    <3> HIDE DEF m
    <3>3. dispatcher' \in Dispatcher /\ dispatcher' # NoDispatcher /\ live' \in LiveState
      BY <3>2, NoDispatcherAssumption DEF Fits
    <3>4. saved' \in LiveState /\ saved'.results = live'.results
      BY <1>0, <3>1, <3>3
    <3> QED
      BY <1>0, <2>1, <3>2, <3>3, <3>4
      DEF RInv, TypeOK, lifeVars, InRound, Served, CallsHaveGrants, Idle, Life!Idle
  <2> QED
    BY <2>2, <2>3
<1>8. CASE OperatorCall \/ HandlerStep
  <2>1. /\ mem'.state = "WAITING" => mem.state = "WAITING" /\ mem'.round = mem.round
        /\ disk' = disk \/ disk' = mem'
        /\ handler' # "aggregate"
    BY <1>8, QuietLifeStep
  <2>2. /\ saved' \in {saved, live}
        /\ UNCHANGED <<live, dispatcher, sidecar, now, calls, granted, revoked>>
    BY <1>8 DEF OperatorCall, HandlerStep, RoundKept
  <2> QED
    BY <1>0, <2>1, <2>2
    DEF RInv, TypeOK, InRound, Served, CallsHaveGrants, Waiting, Fits, Linked, Agree
<1>9. CASE CrashAndRestore
  <2>1. /\ live' = saved /\ dispatcher' = NoDispatcher /\ calls' = [w \in Workers |-> NoCall]
        /\ UNCHANGED <<saved, now, granted, revoked>>
        /\ mem' = disk /\ disk' = disk /\ handler' = "none"
    BY <1>9 DEF CrashAndRestore, Life!CrashAndRestore, Life!Restore
  <2>2. sidecar' \in Sidecar
    <3>1. mem.round + 1 \in Nat /\ (IF RoundTimeout > 0 THEN now + RoundTimeout ELSE 0) \in Nat
      BY <1>0, TimeAssumption DEF LifeProofs!IInv, LifeProofs!TypeOK, LifeProofs!Durable
    <3>2. NextSidecar \in Sidecar
      BY <3>1, FreshFacts DEF NextSidecar
    <3>3. Waiting => \A p \in Advanced : AdvancedSidecar(p) \in Sidecar
      BY AdvancedFits
    <3> QED
      BY <1>0, <1>9, <3>2, <3>3 DEF CrashAndRestore
  <2>3. NoCall \in Call /\ NoCall.step = "none"
    BY DEF NoCall, Call
  <2>4. calls' \in [Workers -> Call] /\ Served' /\ CallsHaveGrants'
    BY <2>1, <2>3 DEF Served, CallsHaveGrants
  <2> QED
    BY <1>0, <2>1, <2>2, <2>4 DEF RInv, TypeOK, InRound
<1>10. CASE Tick \/ UNCHANGED vars
  <2>1. /\ now' \in Nat
        /\ UNCHANGED <<lifeVars, live, saved, dispatcher, sidecar, calls, granted, revoked>>
    BY <1>0, <1>10 DEF Tick, vars, roundVars
  <2> QED
    BY <1>0, <2>1
    DEF RInv, TypeOK, lifeVars, InRound, Served, CallsHaveGrants, Waiting, EnoughResults,
        Completed, Fits, Linked, Agree
<1> QED
  BY <1>1, <1>2, <1>3, <1>4, <1>5, <1>6, <1>7, <1>8, <1>9, <1>10 DEF Next, CallStep

(* RInv holds throughout, with the invariant of the run's life it leans on. *)
THEOREM Invariance == Spec => []RInv
  BY InitRInv, NextRInv, LifeInvariance, PTL DEF Spec

(* Type correctness of what the rounds add to a run. *)
THEOREM TypeCorrect == Spec => []TypeOK
<1>1. RInv => TypeOK
  BY DEF RInv
<1> QED
  BY <1>1, Invariance, PTL

(***************************************************************************)
(* No call gets past its advance in a waiting run that has no dispatcher:  *)
(* the rebuild that acquire_task_legacy makes on its own is never needed.  *)
(***************************************************************************)
THEOREM CallsServed == Spec => []Served
<1>1. RInv => Served
  BY DEF RInv
<1> QED
  BY <1>1, Invariance, PTL

(***************************************************************************)
(* A checkpointed lease is never undercut: however leases expire, are      *)
(* revoked or outlive a restart, a client's only task is the one its lease *)
(* is for, or has been answered.                                           *)
(***************************************************************************)
THEOREM LeasesCorrect == Spec => []LeasesDoNotOverlap
<1>1. RInv => LeasesDoNotOverlap
  BY DEF RInv, Fits, LeasesDoNotOverlap
<1> QED
  BY <1>1, Invariance, PTL

(***************************************************************************)
(* While a round is aggregated its quorum is there: nothing that may       *)
(* happen between the decision and the aggregate takes a result away.      *)
(***************************************************************************)
THEOREM QuorumCorrect == Spec => []ReleaseMeetsQuorum
<1>1. RInv => ReleaseMeetsQuorum
  BY DEF RInv, EnoughResults, ReleaseMeetsQuorum
<1> QED
  BY <1>1, Invariance, PTL

(* No call, crash or restart within a round forgets a result that was accepted. *)
THEOREM ResultsCorrect == Spec => AcceptedResultsSurvive
<1>1. RInv /\ LifeProofs!IInv /\ [Next]_vars
      => [Waiting /\ mem' = mem =>
            \A c \in Clients : live.results[c] # 0 => live'.results[c] = live.results[c]]_vars
  <2> SUFFICES ASSUME RInv, LifeProofs!IInv, Next, Waiting, mem' = mem,
                      NEW c \in Clients, live.results[c] # 0
               PROVE  live'.results[c] = live.results[c]
    OBVIOUS
  <2>1. CASE Advance \/ AdvanceNothing
    <3>1. CASE AdvanceWaiting
      BY <3>1, AdvancedFits DEF AdvanceWaiting
    <3>2. ~AdvanceRunning /\ ~AdvanceNothing
      BY DEF AdvanceRunning, AdvanceNothing, Life!BeginRound, Waiting
    <3> QED
      BY <2>1, <3>1, <3>2 DEF Advance
  <2>2. ASSUME NEW w \in Workers, AcquireTask(w) PROVE live'.results = live.results
    <3>1. live \in LiveState
      BY DEF RInv, TypeOK
    <3> QED
      BY <2>2, <3>1 DEF AcquireTask, LiveState
  <2>3. ASSUME NEW w \in Workers, DeliverResult(w) PROVE live'.results[c] = live.results[c]
    <3> DEFINE g == CHOOSE g \in calls[w].grant : TRUE
    <3>1. live \in LiveState
      BY DEF RInv, TypeOK
    <3>2. CASE Accepted(g, calls[w].at)
      <4>1. g.client # c
        BY <3>2 DEF Accepted
      <4>2. live' = [live EXCEPT !.results[g.client] = g.round,
                                 !.leases[g.client] = NoActiveLease]
        BY <2>3, <3>2 DEF DeliverResult
      <4> HIDE DEF g
      <4> QED
        BY <3>1, <4>1, <4>2 DEF LiveState
    <3>3. CASE ~Accepted(g, calls[w].at)
      BY <2>3, <3>3 DEF DeliverResult
    <3> QED
      BY <3>2, <3>3
  <2>4. ASSUME NEW w \in Workers, RevokeWorker(w) PROVE live'.results = live.results
    <3>1. live \in LiveState
      BY DEF RInv, TypeOK
    <3> QED
      BY <2>4, <3>1, Erased DEF RevokeWorker
  <2>5. CASE CrashAndRestore
    BY <2>5, SMTT(60) DEF CrashAndRestore, RInv
  <2>6. ASSUME \/ \E w \in Workers : RecordAttempt(w) \/ CheckState(w)
               \/ OperatorCall \/ HandlerStep \/ Tick
        PROVE  live' = live
    BY <2>6 DEF RecordAttempt, CheckState, OperatorCall, HandlerStep, RoundKept, Tick
  <2> QED
    BY <2>1, <2>2, <2>3, <2>4, <2>5, <2>6
    DEF Next, CallStep, WatchdogTick, CallAcquire, CallSubmit
<1> QED
  BY <1>1, Invariance, LifeInvariance, PTL DEF Spec, AcceptedResultsSurvive
===============================================================================
