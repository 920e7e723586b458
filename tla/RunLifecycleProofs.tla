-------------------------- MODULE RunLifecycleProofs --------------------------
(***************************************************************************)
(* Proofs for RunLifecycle: every safety property its runs check holds for *)
(* any number of rounds, any budget and any disturbances.                  *)
(*                                                                         *)
(* The inductive invariant says, besides the types, that the checkpoint is *)
(* always Good, that the memory is Good whenever no release is half done,  *)
(* and at which point of finalize_round each half-done handler is          *)
(* (MemoryPhase).                                                          *)
(***************************************************************************)
EXTENDS RunLifecycle, SequenceTheorems, TLAPS

Closed == MidRelease \cup Terminal

(* STOP_AFTER and FAIL_RUN let a run go on only while its budget is not met. *)
MayGoOn(r) == config.policy \in {"STOP_AFTER", "FAIL_RUN"} => ~ReachesBudget(Len(r.ledger))

Completed(r) ==
  r.state = "COMPLETED" =>
    \/ LastCharged(r) = MaxRounds
    \/ config.policy = "STOP_BEFORE" /\ ReachesBudget(Len(r.ledger) + 1)
    \/ config.policy = "STOP_AFTER" /\ ReachesBudget(Len(r.ledger))

Sound(r) ==
  /\ r \in Durable
  /\ r.round <= MaxRounds
  /\ Ascending(r)
  /\ WithinPolicy(r)

Good(r) ==
  /\ Sound(r)
  /\ r.version = LastCharged(r)
  /\ r.state \notin Closed => MayGoOn(r)
  /\ Completed(r)

Uncharged(r) == \A i \in DOMAIN r.ledger : r.ledger[i] < r.round

MemoryPhase ==
  /\ handler \in {"none", "start", "pause", "cancel", "stop", "aggregate", "charge",
                  "checkpoint", "settle", "secure_publish", "secure_checkpoint", "secure_settle"}
       => Good(mem)
  /\ handler = "start" => mem.state \in {"VALIDATING", "INITIALIZING", "READY", "QUEUED"}
  /\ handler \in {"pause", "cancel"} => mem.state \notin Closed
  /\ handler = "stop" => StopsBefore /\ mem.state \in {"AGGREGATING", "CHECKPOINTING"}
  /\ handler \in {"aggregate", "charge"} =>
       mem.state = "AGGREGATING" /\ Uncharged(mem) /\ MayGoOn(mem) /\ ~StopsBefore
  /\ handler = "publish" =>
       Sound(mem) /\ mem.state = "AGGREGATING" /\ LastCharged(mem) = mem.round
  /\ handler \in {"checkpoint", "settle", "secure_checkpoint", "secure_settle"} =>
       LastCharged(mem) = mem.round
  /\ handler \in {"checkpoint", "secure_checkpoint"} => mem.state = "AGGREGATING"
  /\ handler \in {"settle", "secure_settle"} => mem.state = "CHECKPOINTING"
  /\ handler = "secure_publish" =>
       mem.state = "AGGREGATING" /\ Uncharged(mem) /\ ~ReachesBudget(Len(mem.ledger) + 1)
  /\ handler = "secure_charge" =>
       /\ Sound(mem) /\ mem.state = "AGGREGATING" /\ Uncharged(mem) /\ mem.version = mem.round
       /\ ~ReachesBudget(Len(mem.ledger) + 1)
  /\ handler \in {"secure_checkpoint", "secure_settle"} => ~ReachesBudget(Len(mem.ledger))

(* s is an initial part of t. *)
Begins(s, t) == Len(s) <= Len(t) /\ \A i \in DOMAIN s : t[i] = s[i]

IInv ==
  /\ TypeOK
  /\ Good(disk)
  /\ MemoryPhase
  /\ Begins(disk.ledger, mem.ledger)

-------------------------------------------------------------------------------
(* A charge appends the round: what stood in the ledger stays, and it comes last. *)
LEMMA ChargeAppends ==
  ASSUME NEW s \in Seq(Nat), NEW r \in Nat
  PROVE  /\ Append(s, r) \in Seq(Nat) /\ Append(s, r) # <<>>
         /\ Len(Append(s, r)) = Len(s) + 1 /\ Len(s) \in Nat
         /\ DOMAIN s = 1..Len(s) /\ DOMAIN Append(s, r) = 1..(Len(s) + 1)
         /\ Append(s, r)[Len(s) + 1] = r
         /\ \A i \in 1..Len(s) : Append(s, r)[i] = s[i]
  BY AppendProperties, LenProperties, EmptySeq

(***************************************************************************)
(* A transition keeps a Good memory Good and makes the checkpoint equal to *)
(* it, if it does not open a closed run and earns its COMPLETED.           *)
(***************************************************************************)
LEMMA TransitionGood ==
  ASSUME Good(mem), NEW next \in RunState, Transition(next), config' = config,
         next # "WAITING",
         next \notin Closed => MayGoOn(mem),
         next = "COMPLETED" => Completed([mem EXCEPT !.state = "COMPLETED"])
  PROVE  /\ Good(mem)' /\ Good(disk)'
         /\ mem'.state = next /\ mem'.round = mem.round /\ mem'.ledger = mem.ledger
         /\ Begins(disk'.ledger, mem'.ledger)
<1>1. /\ mem' = [mem EXCEPT !.state = next] /\ disk' = mem' /\ mem \in Durable
  BY DEF Transition, Good, Sound
<1>2. /\ mem'.state = next /\ mem'.round = mem.round /\ mem'.version = mem.version
      /\ mem'.ledger = mem.ledger /\ mem' \in Durable
  BY <1>1 DEF Durable
<1>3. Sound(mem)'
  BY <1>1, <1>2 DEF Good, Sound, Ascending, WithinPolicy, ReachesBudget
<1>4. mem'.version = LastCharged(mem')
  BY <1>2 DEF Good, LastCharged
<1>5. mem'.state \notin Closed => MayGoOn(mem)'
  BY <1>2 DEF MayGoOn, ReachesBudget
<1>6. Completed(mem)'
  BY <1>1, <1>2 DEF Completed, ReachesBudget, LastCharged
<1>7. Begins(disk'.ledger, mem'.ledger)
  BY <1>1, <1>2, LenProperties DEF Begins, Durable
<1> QED
  BY <1>1, <1>2, <1>3, <1>4, <1>5, <1>6, <1>7 DEF Good

LEMMA InitIInv == Init => IInv
<1> SUFFICES ASSUME Init PROVE IInv
  OBVIOUS
<1>1. /\ Created \in Durable /\ Created.ledger = <<>> /\ Created.round = 0
      /\ Created.version = 0 /\ Created.state = "CREATED"
  BY EmptySeq DEF Created, Durable, RunState
<1>2. Good(mem) /\ Good(disk)
  BY <1>1, MaxRoundsAssumption, BudgetAssumption
  DEF Init, Good, Sound, Ascending, WithinPolicy, MayGoOn, Completed, LastCharged,
      ReachesBudget, Closed
<1>3. TypeOK
  BY <1>1 DEF Init, TypeOK, Handler
<1> QED
  BY <1>1, <1>2, <1>3 DEF Init, IInv, MemoryPhase, Begins

(***************************************************************************)
(* Each action keeps the invariant.  Those that move the run with one      *)
(* transition share TransitionGood; a charge and a publication change the  *)
(* memory only.                                                            *)
(***************************************************************************)
LEMMA NextIInv == IInv /\ [Next]_vars => IInv'
<1> SUFFICES ASSUME IInv, [Next]_vars PROVE IInv'
  OBVIOUS
<1>0. /\ TypeOK /\ Good(disk) /\ MemoryPhase /\ Begins(disk.ledger, mem.ledger)
      /\ mem \in Durable /\ disk \in Durable /\ config \in Config /\ handler \in Handler
      /\ mem.state \in RunState /\ mem.ledger \in Seq(Nat) /\ mem.round \in Nat
  BY DEF IInv, TypeOK, Durable
<1>1. CASE StartRun
  <2>1. Good(mem) /\ config' = config /\ requests' = requests
    BY <1>0, <1>1 DEF StartRun, Idle, MemoryPhase
  <2>2. CASE mem.state = "CREATED"
    <3>1. Transition("VALIDATING") /\ handler' = "start" /\ MayGoOn(mem)
      BY <1>1, <2>1, <2>2 DEF StartRun, Good, Closed, MidRelease, Terminal
    <3>2. /\ Good(mem)' /\ Good(disk)' /\ mem'.state = "VALIDATING"
          /\ Begins(disk'.ledger, mem'.ledger)
      BY <2>1, <3>1, TransitionGood DEF RunState
    <3> QED
      BY <1>0, <2>1, <3>1, <3>2
      DEF IInv, TypeOK, MemoryPhase, Good, Sound, Handler
  <2>3. CASE mem.state # "CREATED"
    <3>1. Transition("RUNNING") /\ handler' = "none" /\ MayGoOn(mem)
      BY <1>1, <2>1, <2>3 DEF StartRun, Good, Closed, Idle
    <3>2. /\ Good(mem)' /\ Good(disk)' /\ Begins(disk'.ledger, mem'.ledger)
      BY <2>1, <3>1, TransitionGood DEF RunState
    <3> QED
      BY <1>0, <2>1, <3>1, <3>2
      DEF IInv, TypeOK, MemoryPhase, Good, Sound, Handler
  <2> QED
    BY <2>2, <2>3
<1>2. CASE ResumeRun
  <2>1. /\ Good(mem) /\ config' = config /\ requests' = requests
        /\ Transition("QUEUED") /\ handler' = "start" /\ MayGoOn(mem)
    BY <1>0, <1>2 DEF ResumeRun, Idle, MemoryPhase, Good, Closed, MidRelease, Terminal
  <2>2. /\ Good(mem)' /\ Good(disk)' /\ mem'.state = "QUEUED"
        /\ Begins(disk'.ledger, mem'.ledger)
    BY <2>1, TransitionGood DEF RunState
  <2> QED
    BY <1>0, <2>1, <2>2 DEF IInv, TypeOK, MemoryPhase, Good, Sound, Handler
<1>3. CASE StartStep
  <2> DEFINE next == StartOrder[mem.state]
  <2>1. /\ Good(mem) /\ config' = config /\ requests' = requests
        /\ mem.state \in {"VALIDATING", "INITIALIZING", "READY", "QUEUED"}
        /\ Transition(next) /\ MayGoOn(mem)
        /\ handler' = IF mem.state = "QUEUED" THEN "none" ELSE "start"
    BY <1>0, <1>3 DEF StartStep, MemoryPhase, Good, Closed, MidRelease, Terminal
  <2>2. /\ next \in {"INITIALIZING", "READY", "QUEUED", "RUNNING"}
        /\ mem.state # "QUEUED" => next # "RUNNING"
    BY <2>1 DEF StartOrder
  <2> HIDE DEF next
  <2>3. /\ Good(mem)' /\ Good(disk)' /\ mem'.state = next /\ Begins(disk'.ledger, mem'.ledger)
    BY <2>1, <2>2, TransitionGood DEF RunState
  <2> QED
    BY <1>0, <2>1, <2>2, <2>3 DEF IInv, TypeOK, MemoryPhase, Good, Sound, Handler
<1>4. CASE PauseRun
  <2>1. Good(mem) /\ config' = config
    BY <1>0, <1>4 DEF PauseRun, Idle, MemoryPhase
  <2>2. CASE mem.state \in {"RUNNING", "WAITING"}
    <3>1. /\ Transition("PAUSING") /\ handler' = "pause" /\ requests' = requests
          /\ MayGoOn(mem)
      BY <1>4, <2>1, <2>2 DEF PauseRun, Good, Closed, MidRelease, Terminal
    <3>2. /\ Good(mem)' /\ Good(disk)' /\ mem'.state = "PAUSING"
          /\ Begins(disk'.ledger, mem'.ledger)
      BY <2>1, <3>1, TransitionGood DEF RunState
    <3> QED
      BY <1>0, <2>1, <3>1, <3>2
      DEF IInv, TypeOK, MemoryPhase, Good, Sound, Handler, Closed, MidRelease, Terminal
  <2>3. CASE mem.state \notin {"RUNNING", "WAITING"}
    <3>1. /\ requests' = requests \cup {"pause"} /\ handler = "none"
          /\ UNCHANGED <<config, mem, disk, handler>>
      BY <1>4, <2>3 DEF PauseRun, Idle
    <3> QED
      BY <1>0, <2>1, <3>1
      DEF IInv, TypeOK, MemoryPhase, Good, Sound, Completed, MayGoOn, WithinPolicy, Ascending
  <2> QED
    BY <2>2, <2>3
<1>5. CASE PauseStep
  <2>1. Good(mem) /\ config' = config /\ requests' = requests /\ MayGoOn(mem)
    BY <1>0, <1>5 DEF PauseStep, MemoryPhase, Good
  <2>2. CASE mem.state = "PAUSING"
    <3>1. Transition("PAUSED") /\ handler' = "none"
      BY <1>5, <2>2 DEF PauseStep
    <3>2. Good(mem)' /\ Good(disk)' /\ Begins(disk'.ledger, mem'.ledger)
      BY <2>1, <3>1, TransitionGood DEF RunState
    <3> QED
      BY <1>0, <2>1, <3>1, <3>2 DEF IInv, TypeOK, MemoryPhase, Good, Sound, Handler
  <2>3. CASE mem.state # "PAUSING"
    <3>1. Transition("PAUSING") /\ handler' = "pause"
      BY <1>5, <2>3 DEF PauseStep
    <3>2. /\ Good(mem)' /\ Good(disk)' /\ mem'.state = "PAUSING"
          /\ Begins(disk'.ledger, mem'.ledger)
      BY <2>1, <3>1, TransitionGood DEF RunState
    <3> QED
      BY <1>0, <2>1, <3>1, <3>2
      DEF IInv, TypeOK, MemoryPhase, Good, Sound, Handler, Closed, MidRelease, Terminal
  <2> QED
    BY <2>2, <2>3
<1>6. CASE CancelRun
  <2>1. Good(mem) /\ config' = config
    BY <1>0, <1>6 DEF CancelRun, Idle, MemoryPhase
  <2>2. CASE mem.state \in {"CREATED", "VALIDATING", "INITIALIZING", "READY"}
    <3>1. /\ Transition("CANCELED") /\ handler' = handler /\ handler = "none"
          /\ requests' = requests
      BY <1>6, <2>2 DEF CancelRun, Idle, MidRelease
    <3>2. Good(mem)' /\ Good(disk)' /\ Begins(disk'.ledger, mem'.ledger)
      BY <2>1, <3>1, TransitionGood DEF RunState, Closed, Terminal
    <3> QED
      BY <1>0, <2>1, <3>1, <3>2 DEF IInv, TypeOK, MemoryPhase, Good, Sound, Handler
  <2>3. CASE mem.state \in {"QUEUED", "RUNNING", "WAITING", "PAUSED"}
    <3>1. /\ Transition("CANCELING") /\ handler' = "cancel" /\ requests' = requests
          /\ MayGoOn(mem)
      BY <1>6, <2>1, <2>3 DEF CancelRun, Good, Closed, MidRelease, Terminal
    <3>2. /\ Good(mem)' /\ Good(disk)' /\ mem'.state = "CANCELING"
          /\ Begins(disk'.ledger, mem'.ledger)
      BY <2>1, <3>1, TransitionGood DEF RunState
    <3> QED
      BY <1>0, <2>1, <3>1, <3>2
      DEF IInv, TypeOK, MemoryPhase, Good, Sound, Handler, Closed, MidRelease, Terminal
  <2>4. CASE mem.state \in MidRelease
    <3>1. /\ requests' = requests \cup {"cancel"} /\ handler = "none"
          /\ UNCHANGED <<config, mem, disk, handler>>
      BY <1>6, <2>4 DEF CancelRun, Idle, MidRelease
    <3> QED
      BY <1>0, <2>1, <3>1
      DEF IInv, TypeOK, MemoryPhase, Good, Sound, Completed, MayGoOn, WithinPolicy, Ascending
  <2> QED
    BY <1>6, <2>2, <2>3, <2>4 DEF CancelRun
<1>7. CASE CancelStep
  <2>1. Good(mem) /\ config' = config /\ requests' = requests /\ MayGoOn(mem)
    BY <1>0, <1>7 DEF CancelStep, MemoryPhase, Good
  <2>2. CASE mem.state = "CANCELING"
    <3>1. Transition("CANCELED") /\ handler' = "none"
      BY <1>7, <2>2 DEF CancelStep
    <3>2. Good(mem)' /\ Good(disk)' /\ Begins(disk'.ledger, mem'.ledger)
      BY <2>1, <3>1, TransitionGood DEF RunState
    <3> QED
      BY <1>0, <2>1, <3>1, <3>2 DEF IInv, TypeOK, MemoryPhase, Good, Sound, Handler
  <2>3. CASE mem.state # "CANCELING"
    <3>1. Transition("CANCELING") /\ handler' = "cancel"
      BY <1>7, <2>3 DEF CancelStep
    <3>2. /\ Good(mem)' /\ Good(disk)' /\ mem'.state = "CANCELING"
          /\ Begins(disk'.ledger, mem'.ledger)
      BY <2>1, <3>1, TransitionGood DEF RunState
    <3> QED
      BY <1>0, <2>1, <3>1, <3>2
      DEF IInv, TypeOK, MemoryPhase, Good, Sound, Handler, Closed, MidRelease, Terminal
  <2> QED
    BY <2>2, <2>3
<1>8. CASE BeginRound
  <2>1. /\ Good(mem) /\ handler = "none" /\ mem.state = "RUNNING" /\ mem.round < MaxRounds
        /\ mem' = [mem EXCEPT !.state = "WAITING", !.round = @ + 1] /\ disk' = mem'
        /\ UNCHANGED <<config, handler, requests>>
    BY <1>0, <1>8 DEF BeginRound, Idle, MemoryPhase
  <2>2. /\ mem'.state = "WAITING" /\ mem'.round = mem.round + 1 /\ mem'.ledger = mem.ledger
        /\ mem'.version = mem.version /\ mem' \in Durable
    <3> DEFINE opened == [mem EXCEPT !.state = "WAITING"]
    <3>1. /\ opened \in Durable /\ opened.state = "WAITING" /\ opened.round = mem.round
          /\ opened.version = mem.version /\ opened.ledger = mem.ledger
      BY <1>0 DEF Durable, RunState
    <3>2. mem' = [opened EXCEPT !.round = mem.round + 1]
      BY <1>0, <2>1 DEF Durable
    <3>3. mem.round + 1 \in Nat
      BY <1>0
    <3> HIDE DEF opened
    <3> QED
      BY <3>1, <3>2, <3>3 DEF Durable
  <2>3. \A i \in DOMAIN mem.ledger : mem.ledger[i] \in Nat
    BY <1>0, LenProperties
  <2>4. Sound(mem)'
    BY <1>0, <2>1, <2>2, <2>3, MaxRoundsAssumption
    DEF Good, Sound, Ascending, WithinPolicy, ReachesBudget
  <2>5. Good(mem)'
    BY <2>1, <2>2, <2>4
    DEF Good, MayGoOn, ReachesBudget, LastCharged, Completed, Closed, MidRelease, Terminal
  <2>6. Good(disk)' /\ Begins(disk'.ledger, mem'.ledger)
    BY <2>1, <2>2, <2>5, LenProperties DEF Begins, Durable
  <2> QED
    BY <1>0, <2>1, <2>2, <2>5, <2>6 DEF IInv, TypeOK, MemoryPhase, Good, Sound
<1>9. CASE FailRound
  <2>1. /\ Good(mem) /\ handler = "none" /\ Transition("FAILED")
        /\ UNCHANGED <<config, handler, requests>>
    BY <1>0, <1>9 DEF FailRound, Idle, MemoryPhase
  <2>2. Good(mem)' /\ Good(disk)' /\ Begins(disk'.ledger, mem'.ledger)
    BY <2>1, TransitionGood DEF RunState, Closed, Terminal
  <2> QED
    BY <1>0, <2>1, <2>2 DEF IInv, TypeOK, MemoryPhase, Good, Sound, Handler
<1>10. CASE FinalizeRound
  <2>1. /\ Good(mem) /\ mem.state = "WAITING" /\ Transition("AGGREGATING")
        /\ config' = config /\ requests' = requests /\ MayGoOn(mem) /\ Uncharged(mem)
        /\ handler' = IF StopsBefore THEN "stop" ELSE "aggregate"
    BY <1>0, <1>10
    DEF FinalizeRound, Idle, MemoryPhase, Good, Sound, Ascending, Uncharged, Closed,
        MidRelease, Terminal
  <2>2. /\ Good(mem)' /\ Good(disk)' /\ mem'.state = "AGGREGATING" /\ mem'.round = mem.round
        /\ mem'.ledger = mem.ledger /\ Begins(disk'.ledger, mem'.ledger)
    BY <2>1, TransitionGood DEF RunState
  <2>3. /\ (StopsBefore)' <=> StopsBefore
        /\ MayGoOn(mem)' /\ Uncharged(mem)'
    BY <2>1, <2>2 DEF StopsBefore, MayGoOn, ReachesBudget, Uncharged
  <2> QED
    BY <1>0, <2>1, <2>2, <2>3 DEF IInv, TypeOK, MemoryPhase, Good, Sound, Handler
<1>11. CASE StopStep
  <2>1. Good(mem) /\ StopsBefore /\ config' = config /\ requests' = requests
    BY <1>0, <1>11 DEF StopStep, MemoryPhase
  <2>2. CASE mem.state = "AGGREGATING"
    <3>1. Transition("CHECKPOINTING") /\ handler' = handler /\ handler = "stop"
      BY <1>11, <2>2 DEF StopStep
    <3>2. /\ Good(mem)' /\ Good(disk)' /\ mem'.state = "CHECKPOINTING"
          /\ mem'.ledger = mem.ledger /\ Begins(disk'.ledger, mem'.ledger)
      BY <2>1, <3>1, TransitionGood DEF RunState, Closed, MidRelease
    <3>3. (StopsBefore)'
      BY <2>1, <3>2 DEF StopsBefore, ReachesBudget
    <3> QED
      BY <1>0, <2>1, <3>1, <3>2, <3>3 DEF IInv, TypeOK, MemoryPhase, Good, Sound, Handler
  <2>3. CASE mem.state # "AGGREGATING"
    <3>1. Transition("COMPLETED") /\ handler' = "none"
      BY <1>11, <2>3 DEF StopStep
    <3>2. Completed([mem EXCEPT !.state = "COMPLETED"])
      BY <1>0, <2>1 DEF Completed, StopsBefore, Durable
    <3>3. Good(mem)' /\ Good(disk)' /\ Begins(disk'.ledger, mem'.ledger)
      BY <2>1, <3>1, <3>2, TransitionGood DEF RunState, Closed, Terminal
    <3> QED
      BY <1>0, <2>1, <3>1, <3>3 DEF IInv, TypeOK, MemoryPhase, Good, Sound, Handler
  <2> QED
    BY <2>2, <2>3
<1>12. CASE Aggregate
  <2>1. /\ handler = "aggregate" /\ handler' \in {"charge", "none"}
        /\ UNCHANGED <<config, mem, disk, requests>>
    BY <1>12 DEF Aggregate
  <2> QED
    BY <1>0, <2>1
    DEF IInv, TypeOK, Handler, MemoryPhase, Good, Sound, Completed, MayGoOn, WithinPolicy,
        Ascending, Uncharged, StopsBefore
<1>13. CASE Charge
  <2> DEFINE n == Len(mem.ledger)
  <2>1. /\ mem' = [mem EXCEPT !.ledger = Append(mem.ledger, mem.round)]
        /\ UNCHANGED <<config, disk, requests>>
        /\ handler \in {"charge", "secure_charge"}
        /\ handler' = IF handler = "charge" THEN "publish" ELSE "secure_checkpoint"
    BY <1>0, <1>13 DEF Charge, Durable
  <2>2. /\ mem'.ledger = Append(mem.ledger, mem.round) /\ mem'.round = mem.round
        /\ mem'.state = mem.state /\ mem'.version = mem.version
    BY <1>0, <2>1 DEF Durable
  <2>3. /\ mem'.ledger \in Seq(Nat) /\ mem'.ledger # <<>> /\ Len(mem'.ledger) = n + 1
        /\ n \in Nat /\ DOMAIN mem.ledger = 1..n /\ DOMAIN mem'.ledger = 1..(n + 1)
        /\ mem'.ledger[n + 1] = mem.round
        /\ \A i \in 1..n : mem'.ledger[i] = mem.ledger[i]
    BY <1>0, <2>2, ChargeAppends, SMTT(60)
  <2>4. Sound(mem) /\ Uncharged(mem) /\ mem.state = "AGGREGATING"
    BY <1>0, <2>1 DEF MemoryPhase, Good
  <2> HIDE DEF n
  <2>5. mem' \in Durable
    BY <1>0, <2>1, <2>3 DEF Durable
  <2>6. Ascending(mem)'
    <3>1. \A i \in 1..n : mem'.ledger[i] < mem.round /\ mem.ledger[i] \in Nat
      BY <1>0, <2>3, <2>4, LenProperties DEF Uncharged
    <3>2. \A i, j \in 1..(n + 1) : i < j => mem'.ledger[i] < mem'.ledger[j]
      <4> SUFFICES ASSUME NEW i \in 1..(n + 1), NEW j \in 1..(n + 1), i < j
                   PROVE  mem'.ledger[i] < mem'.ledger[j]
        OBVIOUS
      <4>1. CASE j = n + 1
        BY <2>3, <3>1, <4>1
      <4>2. CASE j # n + 1
        <5>1. i \in 1..n /\ j \in 1..n
          BY <2>3, <4>2
        <5>2. mem.ledger[i] < mem.ledger[j]
          BY <2>3, <2>4, <5>1 DEF Sound, Ascending
        <5> QED
          BY <2>3, <5>1, <5>2
      <4> QED
        BY <4>1, <4>2
    <3>3. \A i \in 1..(n + 1) : mem'.ledger[i] <= mem.round
      BY <1>0, <2>3, <3>1, SMTT(60)
    <3> QED
      BY <2>2, <2>3, <2>4, <3>2, <3>3 DEF Ascending
  <2>7. LastCharged(mem)' = mem.round
    BY <2>3 DEF LastCharged
  <2>8. Begins(disk.ledger, mem'.ledger)
    <3>1. DOMAIN disk.ledger = 1..Len(disk.ledger) /\ Len(disk.ledger) \in Nat
      BY <1>0, LenProperties DEF Durable
    <3>2. Len(disk.ledger) <= n /\ \A i \in DOMAIN disk.ledger : mem.ledger[i] = disk.ledger[i]
      BY <1>0 DEF Begins, n
    <3>3. \A i \in DOMAIN disk.ledger : i \in 1..n
      BY <2>3, <3>1, <3>2
    <3> QED
      BY <2>3, <3>1, <3>2, <3>3, SMTT(60) DEF Begins
  <2>9. CASE handler = "charge"
    <3>1. MayGoOn(mem) /\ ~StopsBefore /\ handler' = "publish"
      BY <1>0, <2>1, <2>9 DEF MemoryPhase
    <3>2. WithinPolicy(mem)'
      <4>1. Len(mem'.ledger) = n + 1 /\ Len(mem'.ledger) - 1 = n
        BY <2>3
      <4>2. config.policy = "STOP_BEFORE" => ~ReachesBudget(n + 1)
        BY <3>1 DEF StopsBefore, n
      <4>3. config.policy \in {"STOP_AFTER", "FAIL_RUN"} => ~ReachesBudget(n)
        BY <3>1 DEF MayGoOn, n
      <4> QED
        BY <2>1, <4>1, <4>2, <4>3 DEF WithinPolicy, ReachesBudget
    <3>3. Sound(mem)'
      BY <2>2, <2>4, <2>5, <2>6, <3>2 DEF Sound
    <3> QED
      BY <1>0, <2>1, <2>2, <2>4, <2>7, <2>8, <3>1, <3>3, <2>5
      DEF IInv, TypeOK, Handler, MemoryPhase, Good, Sound, Completed, MayGoOn, WithinPolicy,
          Ascending
  <2>10. CASE handler = "secure_charge"
    <3>1. ~ReachesBudget(n + 1) /\ mem.version = mem.round /\ handler' = "secure_checkpoint"
      BY <1>0, <2>1, <2>10 DEF MemoryPhase, n
    <3>2. WithinPolicy(mem)' /\ MayGoOn(mem)'
      <4>1. Len(mem'.ledger) = n + 1 /\ Len(mem'.ledger) - 1 = n
        BY <2>3
      <4>2. ~ReachesBudget(n) /\ ~ReachesBudget(n + 1)
        BY <2>3, <3>1, BudgetAssumption DEF ReachesBudget
      <4> QED
        BY <2>1, <4>1, <4>2 DEF WithinPolicy, MayGoOn, ReachesBudget
    <3>3. Good(mem)'
      BY <2>2, <2>4, <2>5, <2>6, <2>7, <3>1, <3>2 DEF Sound, Good, Completed
    <3>4. ~ReachesBudget(Len(mem'.ledger))
      BY <2>3, <3>1
    <3> QED
      BY <1>0, <2>1, <2>2, <2>4, <2>7, <2>8, <3>1, <3>3, <3>4, <2>5
      DEF IInv, TypeOK, Handler, MemoryPhase, Good, Sound, Completed, MayGoOn, WithinPolicy,
          Ascending, ReachesBudget
  <2> QED
    BY <2>1, <2>9, <2>10
<1>14. CASE Publish
  <2>1. /\ mem' = [mem EXCEPT !.version = mem.round] /\ UNCHANGED <<config, disk, requests>>
        /\ handler \in {"publish", "secure_publish"}
        /\ handler' = IF handler = "publish" THEN "checkpoint" ELSE "secure_charge"
    BY <1>0, <1>14 DEF Publish, Durable
  <2>2. /\ mem'.ledger = mem.ledger /\ mem'.round = mem.round /\ mem' \in Durable
        /\ mem'.state = mem.state /\ mem'.version = mem.round
    BY <1>0, <2>1 DEF Durable
  <2>3. Sound(mem) /\ mem.state = "AGGREGATING"
    BY <1>0, <2>1 DEF MemoryPhase, Good
  <2>4. Sound(mem)'
    BY <2>1, <2>2, <2>3 DEF Sound, Ascending, WithinPolicy, ReachesBudget
  <2>5. CASE handler = "publish"
    <3>1. handler' = "checkpoint" /\ LastCharged(mem) = mem.round
      BY <1>0, <2>1, <2>5 DEF MemoryPhase
    <3>2. Good(mem)' /\ LastCharged(mem)' = mem'.round
      BY <2>2, <2>3, <2>4, <3>1 DEF Good, LastCharged, Completed, Closed, MidRelease
    <3> QED
      BY <1>0, <2>1, <2>2, <2>3, <3>1, <3>2
      DEF IInv, TypeOK, Handler, MemoryPhase, Good, Sound, Completed, MayGoOn, WithinPolicy,
          Ascending
  <2>6. CASE handler = "secure_publish"
    <3>1. /\ handler' = "secure_charge" /\ Uncharged(mem)
          /\ ~ReachesBudget(Len(mem.ledger) + 1)
      BY <1>0, <2>1, <2>6 DEF MemoryPhase
    <3>2. Uncharged(mem)' /\ ~ReachesBudget(Len(mem'.ledger) + 1)
      BY <2>2, <3>1 DEF Uncharged
    <3> QED
      BY <1>0, <2>1, <2>2, <2>3, <2>4, <3>1, <3>2
      DEF IInv, TypeOK, Handler, MemoryPhase, Good, Sound, Completed, MayGoOn, WithinPolicy,
          Ascending, ReachesBudget
  <2> QED
    BY <2>1, <2>5, <2>6
<1>15. CASE Checkpoint
  <2>1. /\ Good(mem) /\ Transition("CHECKPOINTING") /\ LastCharged(mem) = mem.round
        /\ config' = config /\ requests' = requests
        /\ handler \in {"checkpoint", "secure_checkpoint"}
        /\ handler' = IF handler = "checkpoint" THEN "settle" ELSE "secure_settle"
    BY <1>0, <1>15 DEF Checkpoint, MemoryPhase
  <2>2. /\ Good(mem)' /\ Good(disk)' /\ mem'.state = "CHECKPOINTING" /\ mem'.round = mem.round
        /\ mem'.ledger = mem.ledger /\ Begins(disk'.ledger, mem'.ledger)
    BY <2>1, TransitionGood DEF RunState, Closed, MidRelease
  <2>3. LastCharged(mem)' = mem'.round
    BY <2>1, <2>2 DEF LastCharged
  <2>4. handler = "secure_checkpoint" => ~ReachesBudget(Len(mem'.ledger))
    BY <1>0, <2>2 DEF MemoryPhase
  <2> QED
    BY <1>0, <2>1, <2>2, <2>3, <2>4
    DEF IInv, TypeOK, Handler, MemoryPhase, Good, Sound, ReachesBudget
<1>16. CASE Settle
  <2> DEFINE next == AfterRelease
  <2>1. /\ Good(mem) /\ Transition(next) /\ LastCharged(mem) = mem.round
        /\ mem.state = "CHECKPOINTING" /\ config' = config /\ requests' \subseteq requests
        /\ handler \in {"settle", "secure_settle"}
        /\ handler' \in {"none", "cancel", "pause"}
        /\ handler' \in {"cancel", "pause"} => next = "RUNNING"
    BY <1>0, <1>16 DEF Settle, MemoryPhase
  <2>2. next \in {"COMPLETED", "FAILED", "RUNNING"}
    BY DEF AfterRelease
  <2>3. next = "RUNNING" => MayGoOn(mem)
    BY <1>0, <2>1 DEF AfterRelease, BudgetEnds, MayGoOn, MemoryPhase
  <2>4. ASSUME next = "COMPLETED"
        PROVE  Completed([mem EXCEPT !.state = "COMPLETED"])
    <3>1. mem.round >= MaxRounds \/ BudgetEnds({"STOP_AFTER", "STOP_BEFORE"})
      BY <2>4 DEF AfterRelease
    <3>2. CASE mem.round >= MaxRounds
      BY <1>0, <2>1, <3>2, MaxRoundsAssumption
      DEF Completed, LastCharged, Good, Sound, Durable
    <3>3. CASE BudgetEnds({"STOP_AFTER", "STOP_BEFORE"})
      BY <1>0, <2>1, <3>3
      DEF BudgetEnds, Completed, Good, Sound, WithinPolicy, ReachesBudget, Durable
    <3> QED
      BY <3>1, <3>2, <3>3
  <2> HIDE DEF next
  <2>5. /\ Good(mem)' /\ Good(disk)' /\ mem'.state = next
        /\ Begins(disk'.ledger, mem'.ledger)
    BY <2>1, <2>2, <2>3, <2>4, TransitionGood DEF RunState, Closed, Terminal
  <2>6. handler' \in {"cancel", "pause"} => mem'.state \notin Closed
    BY <2>1, <2>5 DEF Closed, MidRelease, Terminal
  <2> QED
    BY <1>0, <2>1, <2>5, <2>6 DEF IInv, TypeOK, Handler, MemoryPhase, Good, Sound
<1>17. CASE SecureApply
  <2>1. /\ Good(mem) /\ mem.state = "WAITING" /\ Transition("AGGREGATING")
        /\ config' = config /\ requests' = requests /\ Uncharged(mem)
        /\ handler' = "secure_publish" /\ ~ReachesBudget(Len(mem.ledger) + 1)
    BY <1>0, <1>17
    DEF SecureApply, Idle, MemoryPhase, Good, Sound, Ascending, Uncharged
  <2>2. /\ Good(mem)' /\ Good(disk)' /\ mem'.state = "AGGREGATING" /\ mem'.round = mem.round
        /\ mem'.ledger = mem.ledger /\ Begins(disk'.ledger, mem'.ledger)
    BY <2>1, TransitionGood DEF RunState, Closed, MidRelease
  <2>3. Uncharged(mem)' /\ ~ReachesBudget(Len(mem'.ledger) + 1)
    BY <2>1, <2>2 DEF Uncharged
  <2> QED
    BY <1>0, <2>1, <2>2, <2>3 DEF IInv, TypeOK, MemoryPhase, Good, Sound, Handler, ReachesBudget
<1>18. CASE CrashAndRestore
  <2>1. /\ mem' = disk /\ disk' = disk /\ handler' = "none" /\ requests' = {}
        /\ config' = config
    BY <1>18 DEF CrashAndRestore, Restore
  <2>2. Begins(disk.ledger, disk.ledger)
    BY <1>0, LenProperties DEF Begins, Durable
  <2> QED
    BY <1>0, <2>1, <2>2
    DEF IInv, TypeOK, Handler, MemoryPhase, Good, Sound, Completed, MayGoOn, WithinPolicy,
        Ascending
<1>19. CASE UNCHANGED vars
  BY <1>0, <1>19
  DEF vars, IInv, TypeOK, MemoryPhase, Good, Sound, Completed, MayGoOn, WithinPolicy,
      Ascending, Uncharged, StopsBefore
<1> QED
  BY <1>1, <1>2, <1>3, <1>4, <1>5, <1>6, <1>7, <1>8, <1>9, <1>10, <1>11, <1>12, <1>13,
     <1>14, <1>15, <1>16, <1>17, <1>18, <1>19 DEF Next, RoundEnds, HandlerStep

-------------------------------------------------------------------------------
(* The strengthened invariant holds in every reachable state. *)
THEOREM Invariance == Spec => []IInv
  BY InitIInv, NextIInv, PTL DEF Spec

(* Type correctness. *)
THEOREM TypeCorrect == Spec => []TypeOK
<1>1. IInv => TypeOK
  BY DEF IInv
<1> QED
  BY <1>1, Invariance, PTL

(* At whatever point the process dies, model version and ledger agree. *)
THEOREM ReleaseChargedCorrect == Spec => []ReleaseIsCharged
<1>1. IInv => ReleaseIsCharged
  BY DEF IInv, MemoryPhase, Good, ReleaseIsCharged, Idle
<1> QED
  BY <1>1, Invariance, PTL

(* No round is released or charged twice. *)
THEOREM OneReleaseCorrect == Spec => []OneReleasePerRound
<1>1. IInv => OneReleasePerRound
  BY DEF IInv, TypeOK, Handler, MemoryPhase, Good, Sound, OneReleasePerRound
<1> QED
  BY <1>1, Invariance, PTL

(* No budget policy is overstepped. *)
THEOREM BudgetCorrect == Spec => []BudgetRespected
<1>1. IInv => BudgetRespected
  BY DEF IInv, TypeOK, Handler, MemoryPhase, Good, Sound, BudgetRespected
<1> QED
  BY <1>1, Invariance, PTL

(* A completed run released its last round or was stopped by its policy. *)
THEOREM CompletedCorrect == Spec => []CompletedReleasedLastRound
<1>1. IInv => CompletedReleasedLastRound
  BY DEF IInv, TypeOK, Handler, MemoryPhase, Good, Completed, CompletedReleasedLastRound
<1> QED
  BY <1>1, Invariance, PTL

(***************************************************************************)
(* A run that ended stays ended.  The checkpoint has to agree that it      *)
(* ended, or a crash would take it back: that is TerminalSaved.            *)
(***************************************************************************)
TerminalSaved == mem.state \in Terminal => disk.state = mem.state /\ disk.version = mem.version

LEMMA TerminalSavedKept == IInv /\ TerminalSaved /\ [Next]_vars => TerminalSaved'
  BY DEF IInv, TypeOK, Durable, MemoryPhase, TerminalSaved, Next, RoundEnds, HandlerStep, vars,
         StartRun, ResumeRun, StartStep, PauseRun, PauseStep, CancelRun, CancelStep, BeginRound,
         FailRound, FinalizeRound, StopStep, Aggregate, Charge, Publish, Checkpoint, Settle,
         SecureApply, CrashAndRestore, Restore, Transition, Terminal

THEOREM TerminalCorrect == Spec => TerminalIsFinal
<1>1. Init => TerminalSaved
  BY DEF Init, Created, TerminalSaved, Terminal
<1>2. \A s \in Terminal : AllowedNext(s) = {}
  BY DEF Terminal, AllowedNext
<1>3. IInv /\ TerminalSaved /\ [Next]_vars
        => [mem.state \in Terminal => mem'.state = mem.state /\ mem'.version = mem.version]_vars
  <2> SUFFICES ASSUME IInv, TerminalSaved, Next, mem.state \in Terminal
               PROVE  mem'.state = mem.state /\ mem'.version = mem.version
    OBVIOUS
  <2>1. ASSUME NEW next, Transition(next) PROVE FALSE
    BY <1>2, <2>1 DEF Transition
  <2>2. ~(handler \in {"charge", "secure_charge", "publish", "secure_publish"})
    BY DEF IInv, MemoryPhase, Terminal
  <2> QED
    BY <2>1, <2>2
    DEF TerminalSaved, Next, RoundEnds, HandlerStep, StartRun, ResumeRun, StartStep, PauseRun,
        PauseStep, CancelRun, CancelStep, BeginRound, FailRound, FinalizeRound, StopStep,
        Aggregate, Charge, Publish, Checkpoint, Settle, SecureApply, CrashAndRestore, Restore,
        Terminal
<1> QED
  BY <1>1, <1>3, TerminalSavedKept, Invariance, PTL DEF Spec, TerminalIsFinal

(* The durable ledger only ever grows at its end. *)
THEOREM SurviveCorrect == Spec => ReleasesSurvive
<1>1. IInv /\ [Next]_vars
        => [/\ Len(disk.ledger) <= Len(disk'.ledger)
            /\ \A i \in DOMAIN disk.ledger : disk'.ledger[i] = disk.ledger[i]]_vars
  <2> SUFFICES ASSUME IInv, Next PROVE Begins(disk.ledger, disk'.ledger)
    BY DEF Begins
  <2>1. /\ mem \in Durable /\ Begins(disk.ledger, mem.ledger)
        /\ Begins(disk.ledger, disk.ledger)
    BY LenProperties DEF IInv, TypeOK, Begins, Durable
  <2>2. ASSUME NEW next, Transition(next) PROVE disk'.ledger = mem.ledger
    BY <2>1, <2>2 DEF Transition, Durable
  <2>3. CASE BeginRound
    BY <2>1, <2>3 DEF BeginRound, Durable
  <2>4. \/ disk' = disk
        \/ \E next \in RunState : Transition(next)
        \/ BeginRound
    BY DEF Next, RoundEnds, HandlerStep, StartRun, ResumeRun, StartStep, PauseRun, PauseStep,
           CancelRun, CancelStep, FailRound, FinalizeRound, StopStep, Aggregate, Charge,
           Publish, Checkpoint, Settle, SecureApply, CrashAndRestore, RunState, StartOrder,
           AfterRelease, IInv, MemoryPhase
  <2> QED
    BY <2>1, <2>2, <2>3, <2>4
<1> QED
  BY <1>1, Invariance, PTL DEF Spec, ReleasesSurvive

(***************************************************************************)
(* An operator finds the run at rest: where the handlers for pause and     *)
(* cancel stand in the state machine (Settled) is all that IInv lacks.     *)
(***************************************************************************)
Settled ==
  OnlyOperators =>
    /\ Idle => mem.state \notin MidRelease \cup {"PAUSING", "CANCELING"}
    /\ handler = "pause" => mem.state \in {"RUNNING", "PAUSING"}
    /\ handler = "cancel" => mem.state \in {"RUNNING", "CANCELING"}

LEMMA SettledKept == IInv /\ Settled /\ [Next]_vars => Settled'
<1> SUFFICES ASSUME IInv, Settled, [Next]_vars, OnlyOperators PROVE Settled'
  BY DEF Settled, OnlyOperators, Next, RoundEnds, HandlerStep, vars, StartRun, ResumeRun, StartStep,
         PauseRun, PauseStep, CancelRun, CancelStep, BeginRound, FailRound, FinalizeRound, StopStep,
         Aggregate, Charge, Publish, Checkpoint, Settle, SecureApply, CrashAndRestore
<1>1. mem \in Durable /\ MemoryPhase
  BY DEF IInv, TypeOK
<1>2. "crash" \notin config.faults /\ "aggregate" \notin config.faults
  BY DEF OnlyOperators
<1>3. ASSUME NEW next, Transition(next) PROVE mem'.state = next
  BY <1>1, <1>3 DEF Transition, Durable
<1>4. CASE StartRun \/ ResumeRun \/ StartStep
  BY <1>1, <1>3, <1>4
  DEF StartRun, ResumeRun, StartStep, StartOrder, MemoryPhase, Settled, Idle, MidRelease
<1>5. CASE PauseRun \/ PauseStep \/ CancelRun \/ CancelStep
  BY <1>3, <1>5 DEF PauseRun, PauseStep, CancelRun, CancelStep, Settled, Idle, MidRelease
<1>6. CASE BeginRound \/ RoundEnds \/ StopStep
  BY <1>1, <1>3, <1>6
  DEF BeginRound, RoundEnds, FinalizeRound, FailRound, SecureApply, StopStep, Durable, MemoryPhase,
      Settled, Idle, MidRelease
<1>7. CASE Aggregate \/ Charge \/ Publish \/ Checkpoint
  BY <1>2, <1>7 DEF Aggregate, Charge, Publish, Checkpoint, Settled, Idle
<1>8. CASE Settle
  BY <1>3, <1>8 DEF Settle, AfterRelease, Settled, Idle, MidRelease
<1>9. CASE CrashAndRestore \/ UNCHANGED vars
  BY <1>2, <1>9 DEF CrashAndRestore, vars, Settled, Idle
<1> QED
  BY <1>4, <1>5, <1>6, <1>7, <1>8, <1>9 DEF Next, HandlerStep

(***************************************************************************)
(* Unless a crash or an aggregate that throws comes between, a run whose   *)
(* mutex is free can be acted on: no handler leaves it in PAUSING,         *)
(* CANCELING or in the middle of a release.                                *)
(***************************************************************************)
THEOREM RestsCorrect == Spec => []RestsInStableState
<1>1. Init => Settled
  BY DEF Init, Created, Settled, MidRelease
<1>2. Settled => RestsInStableState
  BY DEF Settled, RestsInStableState
<1> QED
  BY <1>1, <1>2, SettledKept, Invariance, PTL DEF Spec
===============================================================================
