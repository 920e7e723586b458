------------------------ MODULE ResearchRegistryProofs ------------------------
(***************************************************************************)
(* Proofs for ResearchRegistry: for any number of threads, seeds, commands *)
(* and crashes, one executor per attempt, cancels that hold, and creates   *)
(* that are durable once answered.                                         *)
(*                                                                         *)
(* The invariant says of every call, at whichever step it is, what it may  *)
(* rely on (CallOK) although the other threads work on the same files.     *)
(***************************************************************************)
EXTENDS ResearchRegistry, SequenceTheorems, TLAPS

RunState == {"CREATED", "PREPARING", "RUNNING", "EVALUATING", "COMPLETED", "FAILED", "BLOCKED",
             "CANCELED", "LOST"}
Experiments == [state: {"READY", "RUNNING", "CANCEL_REQUESTED", "COMPLETED", "CANCELED",
                        "COMPLETED_WITH_PARTIAL_RUNS", "FAILED", "BLOCKED"},
                version: Nat]
RunTables == Seq([state: RunState, attempt: Nat])

Building == {"create_record", "create_runs", "create_key"}
Steps == {"replay", "persist", "create", "start", "begin", "list", "seed", "prepare", "run",
          "adapter", "evaluate", "reconcile", "reconcile_runs", "reconcile_write", "cancel",
          "request", "cancel_list", "cancel_run", "cancel_check", "health", "health_list",
          "lose"} \cup Building

(* Steps of a call that needs no experiment yet, and of one that touches no run. *)
First == {"replay", "persist", "create", "create_record", "start", "cancel", "health"}
Early == First \cup Building \cup {"begin", "request", "health_list", "lose"}

CallRecords ==
  [step: Steps, command: Commands, record: Experiments, list: RunTables, seed: Nat \ {0},
   attempt: Nat, status: {"SUCCEEDED", "EXPIRED", "CONFLICT", "VALIDATION_FAILED", "NOT_FOUND",
                          "CORRUPTION_DETECTED"}]

TypeOK ==
  /\ directory \in BOOLEAN
  /\ experiment \in Experiments
  /\ runs \in RunTables
  /\ lock \in Threads \cup {NoThread}
  /\ \A t \in Threads : calls[t] = Idle \/ calls[t] \in CallRecords
  /\ DOMAIN calls = Threads /\ calls = [t \in Threads |-> calls[t]]

(* Whoever can create the experiment now, or is creating it, is alone with it. *)
Unfinished == ~directory \/ ~Unlocked

FilesOK ==
  /\ ~directory => Unlocked /\ experiment = NoExperiment /\ runs = NoRuns
  /\ Unfinished =>
       /\ createdBy = {}
       /\ experiment \in {NoExperiment, [state |-> "READY", version |-> 1]}
       /\ \A s \in DOMAIN runs : runs[s] = [state |-> "CREATED", attempt |-> 1]
  /\ createdBy # {} => experiment # NoExperiment /\ DOMAIN runs = Seeds
  /\ \A a \in answers : a.type = "create" /\ a.status = "SUCCEEDED" =>
       \E c \in createdBy : c.key = a.key

(* What the creator has already done when it is at its step. *)
Built(k) ==
  /\ k.step \in {"create_record", "create_runs"} =>
       k.seed \in Seeds /\ DOMAIN runs = 1..(k.seed - 1)
  /\ k.step \in {"replay", "create", "create_record"} => k.seed = 1
  /\ k.step = "create_record" => experiment = NoExperiment
  /\ k.step = "create_key" => DOMAIN runs = Seeds

Stopped(list, before) ==
  \A s \in DOMAIN list : s < before /\ list[s].state = "CREATED" => runs[s].state = "CANCELED"

CallOK(t, k) ==
  /\ k.step \in Building <=> lock = t
  /\ k # Idle =>
       /\ Unfinished => k.step \in Early
       /\ k.step \notin First => experiment # NoExperiment
       /\ k.step \notin {"replay", "persist"} =>
            (k.command.type = "create" <=> k.step \in {"create"} \cup Building)
       /\ k.step = "persist" /\ k.status = "SUCCEEDED" /\ k.command.type = "create" =>
            \E c \in createdBy : c.key = k.command.key
       /\ Built(k)
       /\ DOMAIN k.list \subseteq DOMAIN runs
       /\ k.step \in {"prepare", "run", "adapter", "evaluate"} => k.seed \in DOMAIN k.list
       /\ k.step = "run" => runs[k.seed].state \in {"PREPARING", "CANCELED"}
       /\ k.step \in {"adapter", "evaluate"} =>
            /\ k.attempt <= runs[k.seed].attempt
            /\ k.attempt = runs[k.seed].attempt =>
                 runs[k.seed].state \notin {"CREATED", "PREPARING"}
       /\ k.step = "cancel_run" => Stopped(k.list, k.seed)
       /\ k.step = "cancel_check" => Stopped(k.list, Len(k.list) + 1)

(* Two calls are not about to start, and not executing, the same attempt. *)
Apart(k, m) ==
  k # Idle /\ m # Idle /\ k.seed = m.seed =>
    /\ ~(k.step = "run" /\ m.step = "run")
    /\ k.step \in {"adapter", "evaluate"} /\ m.step \in {"adapter", "evaluate"} =>
         k.attempt # m.attempt

IInv ==
  /\ TypeOK /\ FilesOK
  /\ \A t \in Threads : CallOK(t, calls[t])
  /\ \A t, u \in Threads : t # u => Apart(calls[t], calls[u])
-------------------------------------------------------------------------------
LEMMA NoRunsIsEmpty == NoRuns \in RunTables /\ DOMAIN NoRuns = {} /\ Len(NoRuns) = 0
<1>1. NoRuns = <<>>
  BY DEF NoRuns
<1> QED
  BY <1>1, EmptySeq DEF RunTables

(* What a call is before its step. *)
LEMMA CallBefore ==
  ASSUME IInv, NEW t \in Threads, calls[t].step # "idle"
  PROVE  /\ calls[t] \in CallRecords /\ calls[t] # Idle /\ CallOK(t, calls[t])
         /\ calls = [u \in Threads |-> calls[u]]
         /\ calls[t].step \in Steps /\ calls[t].command \in Commands
         /\ calls[t].record \in Experiments /\ calls[t].list \in RunTables
         /\ calls[t].seed \in Nat \ {0} /\ calls[t].attempt \in Nat
<1>1. calls[t] # Idle
  BY DEF Idle
<1>2. calls[t] \in CallRecords
  BY <1>1 DEF IInv, TypeOK
<1> QED
  BY <1>1, <1>2 DEF IInv, TypeOK, CallRecords

(* A step of one call that leaves the runs and the creation alone. *)
LEMMA CallMoves ==
  ASSUME IInv, NEW t \in Threads, NEW k \in CallRecords \cup {Idle},
         calls' = [calls EXCEPT ![t] = k],
         UNCHANGED <<directory, runs, createdBy, lock>>,
         \/ experiment' = experiment
         \/ ~Unfinished /\ experiment' \in Experiments /\ experiment' # NoExperiment,
         \A a \in answers' : a.type = "create" /\ a.status = "SUCCEEDED" =>
           \E c \in createdBy : c.key = a.key,
         CallOK(t, k),
         k.step \notin {"run", "adapter", "evaluate"}
  PROVE  IInv'
<1>1. /\ TypeOK /\ FilesOK
      /\ calls'[t] = k /\ \A u \in Threads : u # t => calls'[u] = calls[u]
      /\ \A u \in Threads : CallOK(u, calls[u])
  BY DEF IInv, TypeOK
<1>2. TypeOK'
  <2>1. calls' = [u \in Threads |-> calls'[u]] /\ DOMAIN calls' = Threads
    BY <1>1 DEF TypeOK
  <2>2. \A u \in Threads : calls'[u] = Idle \/ calls'[u] \in CallRecords
    BY <1>1 DEF TypeOK
  <2> QED
    BY <1>1, <2>1, <2>2 DEF TypeOK
<1>3. FilesOK'
  BY <1>1 DEF FilesOK, Unfinished, Unlocked
<1>4. \A u \in Threads : CallOK(u, calls'[u])
  BY <1>1
<1>5. \A u \in Threads : CallOK(u, calls[u])'
  <2> SUFFICES ASSUME NEW u \in Threads PROVE CallOK(u, calls[u])'
    OBVIOUS
  <2>1. CallOK(u, calls'[u])
    BY <1>4
  <2>2. Unfinished' = Unfinished
    BY DEF Unfinished, Unlocked
  <2>3. experiment' # experiment => calls'[u] = Idle \/ calls'[u].step # "create_record"
    BY <2>1, ThreadsAssumption DEF CallOK, Building, Unfinished, Unlocked
  <2> QED
    BY <2>1, <2>2, <2>3 DEF CallOK, Built, Stopped
<1>6. \A u, v \in Threads : u # v => Apart(calls[u], calls[v])'
  BY <1>1 DEF IInv, Apart
<1> QED
  BY <1>2, <1>3, <1>5, <1>6 DEF IInv

(* A step that gives the call a new step and otherwise keeps or forgets what it knew. *)
LEMMA RecordsKept ==
  ASSUME NEW k \in CallRecords, NEW step \in Steps
  PROVE  /\ [k EXCEPT !.step = step] \in CallRecords
         /\ [Call(k.command) EXCEPT !.step = step] \in CallRecords
         /\ [Call(k.command) EXCEPT !.step = step].list = NoRuns
         /\ [Call(k.command) EXCEPT !.step = step].seed = 1
<1>1. NoExperiment \in Experiments
  BY DEF NoExperiment, Experiments
<1> QED
  BY <1>1, NoRunsIsEmpty DEF CallRecords, Call, Steps

(* A call that answers has something to show for a create that succeeded. *)
LEMMA Answers ==
  ASSUME IInv, NEW t \in Threads, calls[t].step \notin {"idle", "replay", "persist"} \cup Building,
         NEW status, Answer(t, status),
         status \in {"SUCCEEDED", "CONFLICT", "VALIDATION_FAILED", "NOT_FOUND",
                     "CORRUPTION_DETECTED"},
         status = "SUCCEEDED" =>
           \/ calls[t].step # "create"
           \/ \E c \in createdBy : c.key = calls[t].command.key,
         UNCHANGED <<directory, experiment, runs, createdBy, answers, lock>>
  PROVE  IInv'
<1> DEFINE k == [Continue(t, "persist") EXCEPT !.status = status]
<1>1. calls[t] \in CallRecords /\ calls[t] # Idle /\ CallOK(t, calls[t])
  BY CallBefore
<1>2. /\ k \in CallRecords /\ k.step = "persist" /\ k.status = status
      /\ k.command = calls[t].command /\ DOMAIN k.list = {} /\ k # Idle
  <2>2. [Call(calls[t].command) EXCEPT !.step = "persist"] \in CallRecords
    BY <1>1, RecordsKept DEF Steps
  <2>3. Continue(t, "persist") \in CallRecords
    BY <2>2 DEF Continue
  <2>4. k.step = "persist" /\ k.command = calls[t].command /\ k.list = NoRuns /\ k.status = status
    BY DEF Continue, Call
  <2>5. k \in CallRecords
    BY <2>3 DEF CallRecords
  <2>6. k # Idle
    BY <2>4 DEF Idle
  <2> QED
    BY <2>4, <2>5, <2>6, NoRunsIsEmpty
<1>3. calls' = [calls EXCEPT ![t] = k]
  BY DEF Answer
<1> HIDE DEF k
<1>4. CallOK(t, k)
  BY <1>1, <1>2 DEF CallOK, Built, Building, Early, First
<1> QED
  BY <1>2, <1>3, <1>4, CallMoves DEF IInv, FilesOK

(* A call that ends without an answer. *)
LEMMA Ends ==
  ASSUME IInv, NEW t \in Threads, calls[t].step \notin Building, End(t),
         UNCHANGED <<directory, experiment, runs, createdBy, lock>>,
         \A a \in answers' : a.type = "create" /\ a.status = "SUCCEEDED" =>
           \E c \in createdBy : c.key = a.key
  PROVE  IInv'
<1>1. CallOK(t, Idle)
  BY DEF CallOK, IInv, Idle, Building
<1>2. Idle.step = "idle"
  BY DEF Idle
<1> QED
  BY <1>1, <1>2, CallMoves DEF End

(***************************************************************************)
(* A run that moves along a legal transition is still what the other calls *)
(* rely on.                                                                *)
(***************************************************************************)
LEMMA RunMoved ==
  ASSUME runs \in RunTables, NEW s \in DOMAIN runs, NEW next, CanBecome(s, next), Become(s, next)
  PROVE  /\ runs' \in RunTables /\ DOMAIN runs' = DOMAIN runs
         /\ runs'[s].state = next /\ runs'[s].attempt = runs[s].attempt
         /\ runs[s].attempt \in Nat
         /\ \A u \in DOMAIN runs : u # s => runs'[u] = runs[u]
         /\ next = "PREPARING" => runs[s].state = "CREATED"
         /\ runs[s].state = "PREPARING" => next \in {"RUNNING", "CANCELED"}
         /\ runs[s].state # "CANCELED" /\ next # "CREATED"
         /\ next = "RUNNING" => runs[s].state = "PREPARING"
<1>1. <<runs[s].state, next>> \in AllowedRun
  BY DEF CanBecome
<1>2. /\ next \in RunState
      /\ next = "PREPARING" => runs[s].state = "CREATED"
      /\ runs[s].state = "PREPARING" => next \in {"RUNNING", "CANCELED"}
      /\ runs[s].state # "CANCELED" /\ next # "CREATED"
      /\ next = "RUNNING" => runs[s].state = "PREPARING"
  BY <1>1 DEF AllowedRun, RunMoves, RunState
<1>3. runs[s] \in [state: RunState, attempt: Nat]
  BY ElementOfSeq, LenProperties DEF RunTables
<1>4. [runs[s] EXCEPT !.state = next] \in [state: RunState, attempt: Nat]
  BY <1>2, <1>3
<1>5. runs' = [runs EXCEPT ![s] = [runs[s] EXCEPT !.state = next]]
  BY DEF Become
<1>6. runs' \in RunTables
  BY <1>4, <1>5, ExceptSeq DEF RunTables
<1> QED
  BY <1>2, <1>3, <1>5, <1>6

LEMMA RunSteps ==
  ASSUME IInv, ~Unfinished, NEW t \in Threads, NEW k \in CallRecords,
         calls' = [calls EXCEPT ![t] = k],
         UNCHANGED <<directory, experiment, createdBy, answers, lock>>,
         NEW s \in DOMAIN runs, NEW next, CanBecome(s, next), Become(s, next),
         next = "RUNNING" => calls[t].step = "run" /\ calls[t].seed = s,
         CallOK(t, calls[t])',
         \A u \in Threads : u # t => Apart(k, calls[u])
  PROVE  IInv'
<1>1. /\ TypeOK /\ FilesOK /\ runs \in RunTables
      /\ calls'[t] = k /\ \A u \in Threads : u # t => calls'[u] = calls[u]
      /\ \A u \in Threads : CallOK(u, calls[u])
  BY DEF IInv, TypeOK
<1>2. TypeOK'
  <2>1. calls' = [u \in Threads |-> calls'[u]] /\ DOMAIN calls' = Threads
    BY <1>1 DEF TypeOK
  <2>2. \A u \in Threads : calls'[u] = Idle \/ calls'[u] \in CallRecords
    BY <1>1 DEF TypeOK
  <2> QED
    BY <1>1, <2>1, <2>2, RunMoved DEF TypeOK
<1>3. FilesOK'
  BY <1>1, RunMoved DEF FilesOK, Unfinished, Unlocked
<1>4. ASSUME NEW u \in Threads, u # t PROVE CallOK(u, calls[u])'
  <2>1. CallOK(u, calls[u]) /\ calls'[u] = calls[u]
    BY <1>1, <1>4
  <2>2. Unfinished' = Unfinished
    BY DEF Unfinished, Unlocked
  <2>3. CASE calls[u] = Idle
    BY <2>1, <2>3 DEF CallOK
  <2>4. CASE calls[u] # Idle
    <3>1. calls[u] \in CallRecords /\ DOMAIN calls[u].list \subseteq DOMAIN runs
      BY <1>1, <2>1, <2>4 DEF TypeOK, CallOK
    <3>2. calls[u].step = "run" /\ calls[u].seed = s => next # "RUNNING"
      BY <1>4, <2>4 DEF IInv, Apart, Idle
    <3>3. calls[u].step = "run" => runs'[calls[u].seed].state \in {"PREPARING", "CANCELED"}
      BY <1>1, <2>1, <2>4, <3>1, <3>2, RunMoved DEF CallOK
    <3>4. calls[u].step \in {"adapter", "evaluate"} =>
            /\ calls[u].attempt <= runs'[calls[u].seed].attempt
            /\ calls[u].attempt = runs'[calls[u].seed].attempt =>
                 runs'[calls[u].seed].state \notin {"CREATED", "PREPARING"}
      BY <1>1, <2>1, <2>4, <3>1, RunMoved DEF CallOK
    <3>5. ASSUME NEW before, Stopped(calls[u].list, before)
          PROVE  Stopped(calls[u].list, before)'
      BY <1>1, <2>1, <3>1, <3>5, RunMoved DEF Stopped
    <3>6. Built(calls[u])'
      BY <1>1, <2>1, <2>4, RunMoved DEF CallOK, Built
    <3> QED
      BY <1>1, <2>1, <2>2, <2>4, <3>3, <3>4, <3>5, <3>6, RunMoved DEF CallOK
  <2> QED
    BY <2>3, <2>4
<1>5. \A u, v \in Threads : u # v => Apart(calls[u], calls[v])'
  BY <1>1 DEF IInv, Apart
<1> QED
  BY <1>2, <1>3, <1>4, <1>5 DEF IInv
-------------------------------------------------------------------------------
(* A step of one call, in four forms: what the call knows afterwards. *)
LEMMA Moves ==
  ASSUME IInv, NEW t \in Threads, NEW k \in CallRecords, calls' = [calls EXCEPT ![t] = k],
         UNCHANGED <<directory, experiment, runs, createdBy, answers, lock>>,
         CallOK(t, k), k.step \notin {"run", "adapter", "evaluate"}
  PROVE  IInv'
  BY CallMoves DEF IInv, FilesOK

LEMMA Stepped ==
  ASSUME NEW k \in CallRecords, NEW step \in Steps, NEW m, m = [k EXCEPT !.step = step]
  PROVE  /\ m \in CallRecords /\ m.step = step /\ m # Idle /\ m.command = k.command
         /\ m.record = k.record /\ m.list = k.list /\ m.seed = k.seed /\ m.attempt = k.attempt
<1>1. /\ m.step = step /\ m.command = k.command
      /\ m.record = k.record /\ m.list = k.list /\ m.seed = k.seed /\ m.attempt = k.attempt
      /\ m \in CallRecords
  BY DEF CallRecords
<1>2. m # Idle
  BY <1>1 DEF Idle, Steps, Building
<1> QED
  BY <1>1, <1>2

(* Its step and its list, after a read: whatever it knew else is forgotten. *)
LEMMA Reread ==
  ASSUME IInv, NEW k \in CallRecords, NEW step \in Steps, NEW list \in {NoRuns, runs},
         NEW record \in {NoExperiment, experiment},
         NEW m, m = [step |-> step, command |-> k.command, record |-> record, list |-> list,
                     seed |-> 1, attempt |-> 0, status |-> "SUCCEEDED"]
  PROVE  /\ m \in CallRecords /\ m.step = step /\ m # Idle /\ m.command = k.command
         /\ m.list = list /\ m.seed = 1 /\ DOMAIN m.list \subseteq DOMAIN runs
<1>1. NoExperiment \in Experiments /\ experiment \in Experiments /\ runs \in RunTables
  BY DEF NoExperiment, Experiments, IInv, TypeOK
<1>2. k.command \in Commands
  BY DEF CallRecords
<1>3. /\ m.step = step /\ m.command = k.command /\ m.list = list /\ m.seed = 1
  OBVIOUS
<1>4. m \in CallRecords
  BY <1>1, <1>2, NoRunsIsEmpty DEF CallRecords
<1>5. m # Idle
  BY <1>3 DEF Idle, Steps, Building
<1> QED
  BY <1>3, <1>4, <1>5, NoRunsIsEmpty

LEMMA Continued ==
  ASSUME NEW t \in Threads, NEW step
  PROVE  Continue(t, step) = [step |-> step, command |-> calls[t].command,
                              record |-> NoExperiment, list |-> NoRuns, seed |-> 1,
                              attempt |-> 0, status |-> "SUCCEEDED"]
  BY DEF Continue, Call

-------------------------------------------------------------------------------
(* Every action keeps the invariant. *)
LEMMA ReceiveKeeps ==
  ASSUME IInv, NEW t \in Threads, NEW c \in Commands, Receive(t, c)
  PROVE  IInv'
<1>1. PICK k \in {Call(c), [Call(c) EXCEPT !.step = "persist", !.status = "EXPIRED"]} :
        calls' = [calls EXCEPT ![t] = k]
  BY DEF Receive
<1>2. calls[t] = Idle /\ CallOK(t, calls[t])
  BY DEF Receive, At, IInv, TypeOK, CallRecords, Steps, Building
<1>3. NoExperiment \in Experiments
  BY DEF NoExperiment, Experiments
<1>4. /\ k \in CallRecords /\ k.command = c /\ k.list = NoRuns /\ k.seed = 1
      /\ \/ k.step = "replay"
         \/ k.step = "persist" /\ k.status = "EXPIRED"
  <2>1. /\ Call(c).step = "replay" /\ Call(c).command = c /\ Call(c).list = NoRuns
        /\ Call(c).seed = 1
    BY DEF Call
  <2>2. Call(c) \in CallRecords
    BY <1>3, NoRunsIsEmpty DEF Call, CallRecords, Steps
  <2> DEFINE e == [Call(c) EXCEPT !.step = "persist", !.status = "EXPIRED"]
  <2>3. /\ e.step = "persist" /\ e.command = c /\ e.list = NoRuns /\ e.seed = 1
        /\ e.status = "EXPIRED"
    BY DEF Call
  <2>4. e \in CallRecords
    BY <2>2 DEF CallRecords, Steps
  <2> HIDE DEF e
  <2>5. k = Call(c) \/ k = e
    BY DEF e
  <2> QED
    BY <2>1, <2>2, <2>3, <2>4, <2>5
<1>5. CallOK(t, k)
  BY <1>2, <1>4, NoRunsIsEmpty DEF CallOK, Built, Building, Early, First, Idle
<1> QED
  BY <1>1, <1>4, <1>5, Moves DEF Receive, files

LEMMA ReplayKeeps ==
  ASSUME IInv, NEW t \in Threads, Replay(t)
  PROVE  IInv'
<1> DEFINE k == [calls[t] EXCEPT !.step = calls[t].command.type]
<1>1. /\ calls[t].step = "replay" /\ UNCHANGED <<directory, experiment, runs, createdBy, answers, lock>>
      /\ calls' = [calls EXCEPT ![t] = k] \/ End(t)
  BY DEF Replay, At, Go, files
<1>2. /\ calls[t] \in CallRecords /\ CallOK(t, calls[t]) /\ calls[t] # Idle
      /\ calls[t].command.type \in {"create", "start", "cancel", "health"}
  BY <1>1, CallBefore, CommandsAssumption
<1>3. CASE calls' = [calls EXCEPT ![t] = k]
  <2>1. /\ k \in CallRecords /\ k.step = k.command.type /\ k.command = calls[t].command
        /\ k.list = calls[t].list /\ k.seed = calls[t].seed
    BY <1>2, Stepped DEF Steps
  <2> HIDE DEF k
  <2>2. CallOK(t, k)
    BY <1>1, <1>2, <2>1 DEF CallOK, Built, Building, Early, First
  <2> QED
    BY <1>1, <1>2, <1>3, <2>1, <2>2, Moves
<1>4. CASE End(t)
  BY <1>1, <1>4, Ends DEF IInv, FilesOK, Building
<1> QED
  BY <1>1, <1>3, <1>4

LEMMA PersistKeeps ==
  ASSUME IInv, NEW t \in Threads, PersistResult(t)
  PROVE  IInv'
<1> DEFINE c == calls[t].command
           new == [type |-> c.type, key |-> c.key, body |-> c.body, status |-> calls[t].status]
<1>1. /\ calls[t].step = "persist" /\ End(t)
      /\ UNCHANGED <<directory, experiment, runs, createdBy, lock>>
      /\ answers' \subseteq answers \cup {new}
  BY DEF PersistResult, At, End
<1>2. CallOK(t, calls[t]) /\ calls[t] # Idle
  BY <1>1, CallBefore
<1>3. \A a \in answers' : a.type = "create" /\ a.status = "SUCCEEDED" =>
        \E d \in createdBy : d.key = a.key
  BY <1>1, <1>2 DEF IInv, FilesOK, CallOK
<1> QED
  BY <1>1, <1>3, Ends DEF Building

LEMMA StartExperimentKeeps ==
  ASSUME IInv, NEW t \in Threads, StartExperiment(t)
  PROVE  IInv'
<1>1. /\ calls[t].step = "start"
      /\ UNCHANGED <<directory, experiment, runs, createdBy, answers, lock>>
  BY DEF StartExperiment, At, files
<1>2. CallOK(t, calls[t]) /\ calls[t] \in CallRecords /\ calls[t] # Idle
  BY <1>1, CallBefore
<1>3. ASSUME NEW status \in {"CONFLICT", "VALIDATION_FAILED", "CORRUPTION_DETECTED"},
             Answer(t, status)
      PROVE  IInv'
  BY <1>1, <1>3, Answers DEF Building
<1>4. ASSUME NEW k, experiment # NoExperiment,
             k = [calls[t] EXCEPT !.record = experiment,
                    !.step = IF experiment.state = "READY" THEN "begin" ELSE "list"],
             calls' = [calls EXCEPT ![t] = k]
      PROVE  IInv'
  <2>1. experiment \in Experiments
    BY DEF IInv, TypeOK
  <2>2. /\ k \in CallRecords /\ k.command = calls[t].command /\ k.list = calls[t].list
        /\ k.step = IF experiment.state = "READY" THEN "begin" ELSE "list"
        /\ k.step \in {"begin", "list"}
    BY <1>2, <1>4, <2>1 DEF CallRecords, Steps
  <2>3. Unfinished => experiment.state = "READY"
    BY DEF IInv, FilesOK, NoExperiment
  <2>4. CallOK(t, k)
    BY <1>1, <1>2, <1>4, <2>2, <2>3 DEF CallOK, Built, Building, Early, First
  <2> QED
    BY <1>1, <1>4, <2>2, <2>4, Moves
<1> QED
  BY <1>3, <1>4 DEF StartExperiment

LEMMA ExperimentMoves ==
  ASSUME IInv, NEW t \in Threads,
         calls[t].step \in {"begin", "request"}, NEW version,
         NEW next \in {"RUNNING", "CANCEL_REQUESTED"}, NEW after \in {"list", "cancel_list"},
         TransitionExperiment(t, next, version, after),
         UNCHANGED <<directory, runs, createdBy, answers, lock>>
  PROVE  IInv'
<1>1. CallOK(t, calls[t]) /\ calls[t] \in CallRecords /\ calls[t] # Idle
  BY CallBefore
<1>2. ASSUME NEW status \in {"CONFLICT", "VALIDATION_FAILED"}, Answer(t, status),
             experiment' = experiment
      PROVE  IInv'
  BY <1>2, Answers DEF Building
<1>3. CASE /\ experiment.version = version
           /\ experiment' = [state |-> next, version |-> version + 1] /\ Go(t, after)
  <2>0. PICK k : k = [calls[t] EXCEPT !.step = after] /\ calls' = [calls EXCEPT ![t] = k]
    BY <1>3 DEF Go
  <2>1. /\ k \in CallRecords /\ k.step = after /\ k.command = calls[t].command
        /\ k.list = calls[t].list /\ k.seed = calls[t].seed
    BY <1>1, <2>0, Stepped DEF Steps
  <2>2. experiment # NoExperiment /\ ~Unfinished
    <3>1. experiment # NoExperiment /\ Unlocked
      BY <1>1 DEF CallOK, First, TransitionExperiment
    <3> QED
      BY <3>1 DEF IInv, FilesOK, Unfinished
  <2>3. experiment' \in Experiments /\ experiment' # NoExperiment
    <3>1. version \in Nat
      BY <1>3 DEF IInv, TypeOK, Experiments
    <3> QED
      BY <1>3, <3>1 DEF Experiments, NoExperiment
  <2>4. CallOK(t, k)
    BY <1>1, <2>1, <2>2 DEF CallOK, Built, Building, First
  <2>5. \A a \in answers' : a.type = "create" /\ a.status = "SUCCEEDED" =>
          \E c \in createdBy : c.key = a.key
    BY DEF IInv, FilesOK
  <2> QED
    BY <2>0, <2>1, <2>2, <2>3, <2>4, <2>5, CallMoves
<1> QED
  BY <1>2, <1>3 DEF TransitionExperiment

LEMMA ListKeeps ==
  ASSUME IInv, NEW t \in Threads, ListRuns(t)
  PROVE  IInv'
<1>1. /\ calls[t].step \in {"list", "cancel_list", "health_list"}
      /\ UNCHANGED <<directory, experiment, runs, createdBy, answers, lock>>
  BY DEF ListRuns, At, files
<1>2. CallOK(t, calls[t]) /\ calls[t] \in CallRecords /\ calls[t] # Idle
  BY <1>1, CallBefore
<1>3. ASSUME NEW step \in {"seed", "cancel_run", "lose"},
             step = "lose" <=> calls[t].step = "health_list",
             calls' = [calls EXCEPT ![t] = [Continue(t, step) EXCEPT !.list = runs]]
      PROVE  IInv'
  <2>0. PICK k : k = [Continue(t, step) EXCEPT !.list = runs] /\ calls' = [calls EXCEPT ![t] = k]
    BY <1>3
  <2>1. k = [step |-> step, command |-> calls[t].command, record |-> NoExperiment, list |-> runs,
             seed |-> 1, attempt |-> 0, status |-> "SUCCEEDED"]
    BY <2>0, Continued
  <2>2. /\ k \in CallRecords /\ k.step = step /\ k.command = calls[t].command
        /\ k.list = runs /\ k.seed = 1
    BY <1>2, <2>1, Reread DEF Steps
  <2>3. Stopped(runs, 1)
    BY LenProperties DEF Stopped, IInv, TypeOK, RunTables
  <2>4. CallOK(t, k)
    BY <1>1, <1>2, <1>3, <2>2, <2>3 DEF CallOK, Built, Building, Early, First
  <2> QED
    BY <1>1, <2>0, <2>2, <2>4, Moves
<1>4. CASE End(t) \/ Answer(t, "NOT_FOUND")
  BY <1>1, <1>4, Ends, Answers DEF Building, IInv, FilesOK
<1> QED
  BY <1>1, <1>3, <1>4 DEF ListRuns, At

(* A call whose step is set, and perhaps its seed moved on, by reading alone. *)
LEMMA TakeSeedKeeps ==
  ASSUME IInv, NEW t \in Threads, TakeSeed(t)
  PROVE  IInv'
<1>1. /\ calls[t].step = "seed"
      /\ UNCHANGED <<directory, experiment, runs, createdBy, answers, lock>>
  BY DEF TakeSeed, At, files
<1>2. CallOK(t, calls[t]) /\ calls[t] \in CallRecords /\ calls[t] # Idle
      /\ calls[t].seed \in Nat
  BY <1>1, CallBefore
<1>3. PICK step \in {"seed", "prepare", "reconcile"}, s \in {calls[t].seed, calls[t].seed + 1},
           a \in {calls[t].attempt, 0} :
        /\ calls' = [calls EXCEPT ![t] = [calls[t] EXCEPT !.seed = s, !.attempt = a, !.step = step]]
        /\ step = "prepare" => Listed(t) /\ s = calls[t].seed
  <2>1. CASE Go(t, "reconcile") \/ (Go(t, "prepare") /\ Listed(t))
    BY <1>2, <2>1 DEF Go, CallRecords
  <2>2. CASE NextSeed(t, "seed")
    BY <2>2 DEF NextSeed
  <2> QED
    BY <2>1, <2>2 DEF TakeSeed
<1>5. PICK k : /\ k = [calls[t] EXCEPT !.seed = s, !.attempt = a, !.step = step]
               /\ calls' = [calls EXCEPT ![t] = k]
  BY <1>3
<1>4. /\ k \in CallRecords /\ k.step = step /\ k.command = calls[t].command
      /\ k.list = calls[t].list /\ k.seed = s
  <2>1. step \in Steps
    BY DEF Steps
  <2>2. s \in Nat \ {0} /\ a \in Nat
    BY <1>1, CallBefore
  <2> QED
    BY <1>2, <1>5, <2>1, <2>2 DEF CallRecords
<1>6. CallOK(t, k)
  BY <1>1, <1>2, <1>3, <1>4 DEF CallOK, Built, Building, Early, First, Listed
<1> QED
  BY <1>1, <1>4, <1>5, <1>6, Moves

(***************************************************************************)
(* The orchestrator's transitions: each step of a seed goes from one state *)
(* of the run to the next, or the command ends.                            *)
(***************************************************************************)
LEMMA TransitionKeeps ==
  ASSUME IInv, NEW t \in Threads, calls[t].step \in {"prepare", "run", "adapter", "evaluate"},
         UNCHANGED <<directory, experiment, createdBy, answers, lock>>,
         NEW next, next = "RUNNING" => calls[t].step = "run",
         NEW k \in CallRecords, k # Idle, k.command = calls[t].command, k.list = calls[t].list,
         k.step \in {"seed", "run", "adapter", "evaluate"},
         k.step # "seed" => k.seed = calls[t].seed,
         k.step = "run" => next = "PREPARING",
         k.step = "adapter" => next = "RUNNING" /\ k.attempt = runs[k.seed].attempt,
         k.step = "evaluate" => calls[t].step = "adapter" /\ k.attempt = calls[t].attempt,
         TransitionRun(t, calls[t].seed, next, calls' = [calls EXCEPT ![t] = k])
  PROVE  IInv'
<1> DEFINE s == calls[t].seed
<1>1. /\ CallOK(t, calls[t]) /\ calls[t] \in CallRecords /\ calls[t] # Idle
      /\ s \in Nat \ {0} /\ s \in DOMAIN runs /\ ~Unfinished
      /\ DOMAIN calls[t].list \subseteq DOMAIN runs /\ runs \in RunTables
  BY CallBefore DEF CallOK, Early, First, Building, IInv, TypeOK
<1>2. CASE ~CanBecome(s, next)
  BY <1>1, <1>2, Answers DEF TransitionRun, Building
<1>3. CASE CanBecome(s, next)
  <2>1. Become(s, next) /\ calls' = [calls EXCEPT ![t] = k] /\ calls'[t] = k
    BY <1>1, <1>3 DEF TransitionRun, IInv, TypeOK
  <2>2. /\ DOMAIN runs' = DOMAIN runs
        /\ runs'[s].state = next /\ runs'[s].attempt = runs[s].attempt
        /\ runs[s].attempt \in Nat
        /\ next = "PREPARING" => runs[s].state = "CREATED"
        /\ next # "CREATED"
        /\ next = "RUNNING" => runs[s].state = "PREPARING"
        /\ runs[s].state = "PREPARING" => next \in {"RUNNING", "CANCELED"}
    BY <1>1, <1>3, <2>1, RunMoved
  <2> HIDE DEF s
  <2>3. CallOK(t, calls[t])'
    <3>1. k.step = "run" => runs'[k.seed].state \in {"PREPARING", "CANCELED"}
      BY <2>2 DEF s
    <3>2. k.step \in {"adapter", "evaluate"} =>
            /\ k.attempt <= runs'[k.seed].attempt
            /\ k.attempt = runs'[k.seed].attempt =>
                 runs'[k.seed].state \notin {"CREATED", "PREPARING"}
      BY <1>1, <2>2 DEF s, CallOK
    <3>3. k.step # "seed" => k.seed \in DOMAIN k.list
      BY <1>1 DEF s, CallOK
    <3> QED
      BY <1>1, <2>1, <2>2, <3>1, <3>2, <3>3
      DEF CallOK, Built, Building, Early, First, Unfinished, Unlocked
  <2>4. ASSUME NEW u \in Threads, u # t PROVE Apart(k, calls[u])
    <3>1. Apart(calls[t], calls[u]) /\ CallOK(u, calls[u])
      BY <2>4 DEF IInv
    <3>2. CASE k.step = "run" /\ calls[u].step = "run"
      BY <1>1, <2>2, <3>1, <3>2 DEF Apart, CallOK, s
    <3>3. CASE k.step \in {"adapter", "evaluate"} /\ calls[u].step \in {"adapter", "evaluate"}
      BY <1>1, <2>2, <3>1, <3>3 DEF Apart, CallOK, s
    <3> QED
      BY <3>2, <3>3 DEF Apart
  <2> QED
    BY <1>1, <1>3, <2>1, <2>3, <2>4, RunSteps DEF s
<1> QED
  BY <1>2, <1>3

LEMMA RunsKeep ==
  ASSUME IInv, NEW t \in Threads, PrepareRun(t) \/ StartRun(t) \/ ExecuteRun(t) \/ CompleteRun(t)
  PROVE  IInv'
<1> DEFINE s == calls[t].seed
<1>0. /\ calls[t].step \in {"prepare", "run", "adapter", "evaluate"}
      /\ UNCHANGED <<directory, experiment, createdBy, answers, lock>>
  BY DEF PrepareRun, StartRun, ExecuteRun, CompleteRun, At
<1>1. /\ calls[t] \in CallRecords /\ calls[t] # Idle /\ s \in Nat \ {0} /\ s + 1 \in Nat \ {0}
      /\ calls[t].attempt \in Nat /\ s \in DOMAIN runs /\ runs[s].attempt \in Nat
  <2>1. /\ calls[t] \in CallRecords /\ calls[t] # Idle /\ s \in Nat \ {0}
        /\ calls[t].attempt \in Nat /\ s \in DOMAIN runs /\ runs \in RunTables
    BY <1>0, CallBefore DEF CallOK, IInv, TypeOK
  <2>2. runs[s] \in [state: RunState, attempt: Nat]
    BY <2>1, ElementOfSeq, LenProperties DEF RunTables
  <2> QED
    BY <2>1, <2>2
<1>2. PICK k : k = [calls[t] EXCEPT !.seed = s + 1, !.attempt = 0, !.step = "seed"]
  OBVIOUS
<1>3. /\ k \in CallRecords /\ k # Idle /\ k.command = calls[t].command
      /\ k.list = calls[t].list /\ k.step = "seed"
  <2>1. "seed" \in Steps
    BY DEF Steps
  <2>2. /\ k \in CallRecords /\ k.command = calls[t].command
        /\ k.list = calls[t].list /\ k.step = "seed"
    BY <1>1, <1>2, <2>1 DEF CallRecords
  <2> QED
    BY <2>2 DEF Idle
<1>4. ASSUME NEW next, next # "RUNNING", TransitionRun(t, s, next, NextSeed(t, "seed"))
      PROVE  IInv'
  <2>1. NextSeed(t, "seed") <=> calls' = [calls EXCEPT ![t] = k]
    BY <1>2 DEF NextSeed
  <2>2. TransitionRun(t, s, next, calls' = [calls EXCEPT ![t] = k])
    BY <1>4, <2>1 DEF TransitionRun
  <2> QED
    BY <1>0, <1>3, <1>4, <2>2, TransitionKeeps
<1>5. ASSUME NEW next, NEW step, TransitionRun(t, s, next, Go(t, step)),
             <<calls[t].step, next, step>> \in
               {<<"prepare", "PREPARING", "run">>, <<"adapter", "EVALUATING", "evaluate">>}
      PROVE  IInv'
  <2>1. PICK m : m = [calls[t] EXCEPT !.step = step]
    OBVIOUS
  <2>2. /\ m \in CallRecords /\ m # Idle /\ m.command = calls[t].command
        /\ m.list = calls[t].list /\ m.step = step /\ m.seed = s /\ m.attempt = calls[t].attempt
    <3>1. step \in Steps
      BY <1>5 DEF Steps
    <3> QED
      BY <1>1, <2>1, <3>1, Stepped
  <2>3. TransitionRun(t, s, next, calls' = [calls EXCEPT ![t] = m])
    BY <1>5, <2>1 DEF TransitionRun, Go
  <2> QED
    BY <1>0, <1>5, <2>2, <2>3, TransitionKeeps
<1>6. CASE PrepareRun(t)
  BY <1>5, <1>6 DEF PrepareRun, At
<1>7. CASE StartRun(t)
  <2>1. PICK m : m = [calls[t] EXCEPT !.attempt = runs[s].attempt, !.step = "adapter"]
    OBVIOUS
  <2>2. /\ m \in CallRecords /\ m.command = calls[t].command
        /\ m.list = calls[t].list /\ m.step = "adapter" /\ m.seed = s
        /\ m.attempt = runs[s].attempt
    <3>1. "adapter" \in Steps
      BY DEF Steps
    <3> QED
      BY <1>1, <2>1, <3>1 DEF CallRecords
  <2>3. m # Idle
    BY <2>2 DEF Idle
  <2>4. TransitionRun(t, s, "RUNNING", calls' = [calls EXCEPT ![t] = m])
    BY <1>7, <2>1 DEF StartRun, TransitionRun
  <2>5. calls[t].step = "run"
    BY <1>7 DEF StartRun, At
  <2> QED
    BY <1>0, <2>2, <2>3, <2>4, <2>5, TransitionKeeps
<1>8. CASE ExecuteRun(t)
  <2>1. PICK o \in Outcomes :
          \/ o = "completed" /\ TransitionRun(t, s, "EVALUATING", Go(t, "evaluate"))
          \/ o = "failed" /\ TransitionRun(t, s, "FAILED", NextSeed(t, "seed"))
          \/ o = "blocked" /\ TransitionRun(t, s, "BLOCKED", NextSeed(t, "seed"))
          \/ o = "canceled" /\ TransitionRun(t, s, "CANCELED", NextSeed(t, "seed"))
    BY <1>8, OutcomesAssumption DEF ExecuteRun
  <2>2. calls[t].step = "adapter"
    BY <1>8 DEF ExecuteRun, At
  <2> QED
    BY <1>4, <1>5, <2>1, <2>2
<1>9. CASE CompleteRun(t)
  BY <1>4, <1>9 DEF CompleteRun
<1> QED
  BY <1>6, <1>7, <1>8, <1>9

LEMMA ReconcileKeeps ==
  ASSUME IInv, NEW t \in Threads, Reconcile(t)
  PROVE  IInv'
<1>0. /\ calls[t].step \in {"reconcile", "reconcile_runs", "reconcile_write"}
      /\ UNCHANGED <<directory, runs, createdBy, answers, lock>>
  BY DEF Reconcile, ReconcileRecord, ReconcileRuns, ReconcileWrite, At, files
<1>1. /\ CallOK(t, calls[t]) /\ calls[t] \in CallRecords /\ calls[t] # Idle
      /\ experiment # NoExperiment /\ ~Unfinished
      /\ experiment \in Experiments /\ runs \in RunTables
  BY <1>0, CallBefore DEF CallOK, Early, First, Building, IInv, TypeOK
<1>2. CASE ReconcileRecord(t)
  <2>1. PICK k : /\ k = [Continue(t, "reconcile_runs") EXCEPT !.record = experiment]
                 /\ calls' = [calls EXCEPT ![t] = k]
    BY <1>2 DEF ReconcileRecord
  <2>2. k = [step |-> "reconcile_runs", command |-> calls[t].command, record |-> experiment,
             list |-> NoRuns, seed |-> 1, attempt |-> 0, status |-> "SUCCEEDED"]
    BY <2>1, Continued
  <2>3. /\ k \in CallRecords /\ k.step = "reconcile_runs" /\ k # Idle
        /\ k.command = calls[t].command /\ DOMAIN k.list \subseteq DOMAIN runs
    <3>1. "reconcile_runs" \in Steps
      BY DEF Steps
    <3> QED
      BY <1>1, <2>2, <3>1, Reread
  <2>4. CallOK(t, k)
    BY <1>0, <1>1, <2>3 DEF CallOK, Built, Building
  <2> QED
    BY <1>2, <2>1, <2>3, <2>4, Moves DEF ReconcileRecord, files
<1>3. CASE ReconcileRuns(t)
  <2>1. PICK k : /\ k = [calls[t] EXCEPT !.list = runs, !.step = "reconcile_write"]
                 /\ calls' = [calls EXCEPT ![t] = k]
    BY <1>3 DEF ReconcileRuns
  <2>2. /\ k \in CallRecords /\ k.step = "reconcile_write"
        /\ k.command = calls[t].command /\ k.list = runs
    <3>1. "reconcile_write" \in Steps
      BY DEF Steps
    <3> QED
      BY <1>1, <2>1, <3>1 DEF CallRecords
  <2>4. CallOK(t, k)
    BY <1>0, <1>1, <2>2 DEF CallOK, Built, Building
  <2> QED
    BY <1>3, <2>1, <2>2, <2>4, Moves DEF ReconcileRuns, files
<1>4. CASE ReconcileWrite(t)
  <2>1. /\ Answer(t, "SUCCEEDED")
        /\ experiment' = [state |-> Reconciled(calls[t].record, calls[t].list),
                          version |-> calls[t].record.version + 1]
    BY <1>4 DEF ReconcileWrite
  <2>2. PICK k : /\ k = [Continue(t, "persist") EXCEPT !.status = "SUCCEEDED"]
                 /\ calls' = [calls EXCEPT ![t] = k]
    BY <2>1 DEF Answer
  <2>3. k = [step |-> "persist", command |-> calls[t].command, record |-> NoExperiment,
             list |-> NoRuns, seed |-> 1, attempt |-> 0, status |-> "SUCCEEDED"]
    BY <2>2, Continued
  <2>4. /\ k \in CallRecords /\ k.step = "persist" /\ k # Idle
        /\ k.command = calls[t].command /\ DOMAIN k.list \subseteq DOMAIN runs
    <3>1. "persist" \in Steps
      BY DEF Steps
    <3> QED
      BY <1>1, <2>3, <3>1, Reread
  <2>5. CallOK(t, k)
    BY <1>0, <1>1, <2>4 DEF CallOK, Built, Building
  <2>6. experiment' \in Experiments /\ experiment' # NoExperiment
    <3>1. calls[t].record.version \in Nat
      BY <1>1 DEF CallRecords, Experiments
    <3>2. Reconciled(calls[t].record, calls[t].list) \in
            {"COMPLETED", "COMPLETED_WITH_PARTIAL_RUNS", "FAILED", "BLOCKED", "CANCELED", "RUNNING"}
      BY DEF Reconciled
    <3> QED
      BY <2>1, <3>1, <3>2 DEF Experiments, NoExperiment
  <2>7. \A a \in answers' : a.type = "create" /\ a.status = "SUCCEEDED" =>
          \E c \in createdBy : c.key = a.key
    BY <1>0 DEF IInv, FilesOK
  <2> QED
    BY <1>0, <1>1, <2>2, <2>4, <2>5, <2>6, <2>7, CallMoves
<1> QED
  BY <1>2, <1>3, <1>4 DEF Reconcile

LEMMA CancelKeeps ==
  ASSUME IInv, NEW t \in Threads, CancelExperiment(t) \/ CancelCheck(t)
  PROVE  IInv'
<1>1. /\ calls[t].step \in {"cancel", "cancel_check"}
      /\ UNCHANGED <<directory, experiment, runs, createdBy, answers, lock>>
  BY DEF CancelExperiment, CancelCheck, At, files
<1>2. CallOK(t, calls[t]) /\ calls[t] \in CallRecords /\ calls[t] # Idle
      /\ experiment \in Experiments
  BY <1>1, CallBefore DEF IInv, TypeOK
<1>3. ASSUME NEW status \in {"SUCCEEDED", "CORRUPTION_DETECTED"}, Answer(t, status)
      PROVE  IInv'
  BY <1>1, <1>3, Answers DEF Building
<1>4. ASSUME NEW k, calls' = [calls EXCEPT ![t] = k],
             \/ /\ calls[t].step = "cancel_check"
                /\ k = [calls[t] EXCEPT !.step = "reconcile"]
             \/ /\ calls[t].step = "cancel" /\ experiment # NoExperiment
                /\ k = [calls[t] EXCEPT !.record = experiment, !.step = "request"]
      PROVE  IInv'
  <2>1. "reconcile" \in Steps /\ "request" \in Steps
    BY DEF Steps
  <2>2. /\ k \in CallRecords /\ k.command = calls[t].command /\ k.list = calls[t].list
        /\ \/ k.step = "reconcile" /\ calls[t].step = "cancel_check"
           \/ k.step = "request" /\ calls[t].step = "cancel" /\ experiment # NoExperiment
    <3>1. CASE calls[t].step = "cancel_check"
      BY <1>2, <1>4, <2>1, <3>1 DEF CallRecords
    <3>2. CASE calls[t].step = "cancel"
      BY <1>2, <1>4, <2>1, <3>2 DEF CallRecords
    <3> QED
      BY <1>1, <3>1, <3>2
  <2>3. CallOK(t, k)
    BY <1>2, <2>2 DEF CallOK, Built, Building, Early, First
  <2> QED
    BY <1>1, <1>4, <2>2, <2>3, Moves
<1>5. CASE CancelExperiment(t)
  BY <1>3, <1>4, <1>5 DEF CancelExperiment, At
<1>6. CASE CancelCheck(t)
  BY <1>3, <1>4, <1>6 DEF CancelCheck, At, Go
<1> QED
  BY <1>5, <1>6

LEMMA CancelListedKeeps ==
  ASSUME IInv, NEW t \in Threads, CancelListedRun(t)
  PROVE  IInv'
<1>0. PICK s, list : s = calls[t].seed /\ list = calls[t].list
  OBVIOUS
<1>1. /\ calls[t].step = "cancel_run"
      /\ UNCHANGED <<directory, experiment, createdBy, answers, lock>>
  BY DEF CancelListedRun, At
<1>2. /\ CallOK(t, calls[t]) /\ calls[t] \in CallRecords /\ calls[t] # Idle
      /\ s \in Nat \ {0} /\ s + 1 \in Nat \ {0} /\ ~Unfinished /\ runs \in RunTables
      /\ list \in RunTables /\ DOMAIN list = 1..Len(list) /\ Len(list) \in Nat
      /\ DOMAIN list \subseteq DOMAIN runs /\ Stopped(list, s)
      /\ experiment # NoExperiment /\ calls[t].command.type # "create"
      /\ lock # t
  <2>1. /\ CallOK(t, calls[t]) /\ calls[t] \in CallRecords /\ calls[t] # Idle
        /\ s \in Nat \ {0} /\ runs \in RunTables /\ list \in RunTables
    BY <1>0, <1>1, CallBefore DEF IInv, TypeOK
  <2>2. DOMAIN list = 1..Len(list) /\ Len(list) \in Nat
    BY <2>1, LenProperties DEF RunTables
  <2>3. ~Unfinished /\ experiment # NoExperiment
    BY <1>1, <2>1 DEF CallOK, Early, First, Building
  <2>4. calls[t].command.type # "create" /\ lock # t
    BY <1>1, <2>1 DEF CallOK, Building
  <2>5. DOMAIN list \subseteq DOMAIN runs /\ Stopped(list, s)
    BY <1>0, <1>1, <2>1 DEF CallOK
  <2> QED
    BY <2>1, <2>2, <2>3, <2>4, <2>5
<1>3. CASE ~Listed(t)
  <2>1. PICK k : k = [calls[t] EXCEPT !.step = "cancel_check"] /\ calls' = [calls EXCEPT ![t] = k]
    BY <1>3 DEF CancelListedRun, Go
  <2>2. "cancel_check" \in Steps
    BY DEF Steps
  <2>3. /\ k \in CallRecords /\ k.step = "cancel_check" /\ k.command = calls[t].command
        /\ k.list = list /\ k.seed = s
    BY <1>0, <1>2, <2>1, <2>2, Stepped
  <2>4. Stopped(list, Len(list) + 1)
    BY <1>0, <1>2, <1>3 DEF Stopped, Listed
  <2>5. CallOK(t, k)
    BY <1>2, <2>3, <2>4 DEF CallOK, Built, Building
  <2> QED
    BY <1>1, <1>3, <2>1, <2>3, <2>5, Moves DEF CancelListedRun
<1>4. PICK k : k = [calls[t] EXCEPT !.seed = s + 1, !.attempt = 0, !.step = "cancel_run"]
  OBVIOUS
<1>5. /\ k \in CallRecords /\ k.step = "cancel_run" /\ k.command = calls[t].command
      /\ k.list = list /\ k.seed = s + 1 /\ k # Idle
  <2>1. "cancel_run" \in Steps
    BY DEF Steps
  <2>2. /\ k \in CallRecords /\ k.step = "cancel_run" /\ k.command = calls[t].command
        /\ k.list = list /\ k.seed = s + 1
    BY <1>0, <1>2, <1>4, <2>1 DEF CallRecords
  <2> QED
    BY <2>2 DEF Idle
<1>6. CASE Listed(t) /\ ListedAs(t) # "CREATED"
  <2>1. calls' = [calls EXCEPT ![t] = k] /\ runs' = runs
    BY <1>0, <1>4, <1>6 DEF CancelListedRun, NextSeed
  <2>2. Stopped(list, s + 1)
    BY <1>0, <1>2, <1>6 DEF Stopped, ListedAs
  <2>3. CallOK(t, k)
    BY <1>2, <1>5, <2>2 DEF CallOK, Built, Building
  <2> QED
    BY <1>1, <1>5, <2>1, <2>3, Moves
<1>7. CASE Listed(t) /\ ListedAs(t) = "CREATED" /\ ~CanBecome(s, "CANCELED")
  BY <1>0, <1>1, <1>7, Answers DEF CancelListedRun, TransitionRun, Building
<1>8. CASE Listed(t) /\ ListedAs(t) = "CREATED" /\ CanBecome(s, "CANCELED")
  <2>1. /\ Become(s, "CANCELED") /\ calls' = [calls EXCEPT ![t] = k] /\ calls'[t] = k
        /\ s \in DOMAIN runs
    BY <1>0, <1>2, <1>4, <1>8 DEF CancelListedRun, TransitionRun, NextSeed, Listed, IInv, TypeOK
  <2>2. /\ DOMAIN runs' = DOMAIN runs /\ runs'[s].state = "CANCELED"
        /\ \A u \in DOMAIN runs : u # s => runs'[u] = runs[u]
    BY <1>2, <1>8, <2>1, RunMoved
  <2>3. Stopped(list, s + 1)'
    BY <1>2, <2>2 DEF Stopped
  <2>4. CallOK(t, calls[t])'
    BY <1>1, <1>2, <1>5, <2>1, <2>2, <2>3
    DEF CallOK, Built, Building, Unfinished, Unlocked
  <2>5. \A u \in Threads : u # t => Apart(k, calls[u])
    BY <1>5 DEF Apart
  <2> QED
    BY <1>1, <1>2, <1>5, <1>8, <2>1, <2>4, <2>5, RunSteps
<1> QED
  BY <1>3, <1>6, <1>7, <1>8

LEMMA HealthKeeps ==
  ASSUME IInv, NEW t \in Threads, Health(t)
  PROVE  IInv'
<1>0. PICK s : s = calls[t].seed
  OBVIOUS
<1>1. /\ calls[t].step \in {"health", "lose"}
      /\ UNCHANGED <<directory, experiment, createdBy, answers, lock>>
  BY DEF Health, WriterHealth, LoseRun, At, files
<1>2. /\ CallOK(t, calls[t]) /\ calls[t] \in CallRecords /\ calls[t] # Idle
      /\ s \in Nat \ {0} /\ s + 1 \in Nat \ {0} /\ calls[t].command.type # "create"
      /\ DOMAIN calls[t].list \subseteq DOMAIN runs /\ lock # t /\ runs \in RunTables
  BY <1>0, <1>1, CallBefore DEF CallOK, Building, IInv, TypeOK
<1>3. CASE runs' = runs /\ Go(t, "health_list") /\ experiment # NoExperiment
  <2>1. PICK k : k = [calls[t] EXCEPT !.step = "health_list"] /\ calls' = [calls EXCEPT ![t] = k]
    BY <1>3 DEF Go
  <2>2. "health_list" \in Steps
    BY DEF Steps
  <2>3. /\ k \in CallRecords /\ k.step = "health_list" /\ k.command = calls[t].command
        /\ k.list = calls[t].list
    BY <1>2, <2>1, <2>2, Stepped
  <2>4. CallOK(t, k)
    BY <1>2, <1>3, <2>3 DEF CallOK, Built, Building, Early
  <2> QED
    BY <1>1, <1>3, <2>1, <2>3, <2>4, Moves
<1>4. CASE runs' = runs /\ (End(t) \/ Answer(t, "SUCCEEDED"))
  BY <1>1, <1>4, Ends, Answers DEF Building, IInv, FilesOK
<1>5. PICK k : k = [calls[t] EXCEPT !.seed = s + 1, !.attempt = 0, !.step = "lose"]
  OBVIOUS
<1>6. /\ k \in CallRecords /\ k.step = "lose" /\ k.command = calls[t].command
      /\ k.list = calls[t].list /\ k # Idle
  <2>1. "lose" \in Steps
    BY DEF Steps
  <2>2. /\ k \in CallRecords /\ k.step = "lose" /\ k.command = calls[t].command
        /\ k.list = calls[t].list
    BY <1>0, <1>2, <1>5, <2>1 DEF CallRecords
  <2> QED
    BY <2>2 DEF Idle
<1>7. CASE calls[t].step = "lose" /\ runs' = runs /\ NextSeed(t, "lose")
  <2>1. calls' = [calls EXCEPT ![t] = k]
    BY <1>0, <1>5, <1>7 DEF NextSeed
  <2>2. CallOK(t, k)
    BY <1>2, <1>6, <1>7 DEF CallOK, Built, Building, Early, First
  <2> QED
    BY <1>1, <1>6, <1>7, <2>1, <2>2, Moves
<1>8. CASE /\ calls[t].step = "lose" /\ Listed(t) /\ CanBecome(s, "LOST")
           /\ Become(s, "LOST") /\ NextSeed(t, "lose")
  <2>1. /\ calls' = [calls EXCEPT ![t] = k] /\ calls'[t] = k /\ s \in DOMAIN runs
    BY <1>0, <1>2, <1>5, <1>8 DEF NextSeed, Listed, IInv, TypeOK
  <2>2. ~Unfinished /\ experiment # NoExperiment
    <3>1. runs[s].state # "CREATED"
      BY <1>8 DEF CanBecome, AllowedRun, RunMoves
    <3>2. ~Unfinished
      BY <2>1, <3>1 DEF IInv, FilesOK
    <3> QED
      BY <1>2, <1>8, <3>2 DEF CallOK, First
  <2>3. DOMAIN runs' = DOMAIN runs
    BY <1>2, <1>8, <2>1, RunMoved
  <2>4. CallOK(t, calls[t])'
    BY <1>1, <1>2, <1>6, <2>1, <2>2, <2>3
    DEF CallOK, Built, Building, Unfinished, Unlocked
  <2>5. \A u \in Threads : u # t => Apart(k, calls[u])
    BY <1>6 DEF Apart
  <2> QED
    BY <1>1, <1>2, <1>6, <1>8, <2>1, <2>2, <2>4, <2>5, RunSteps
<1> QED
  BY <1>0, <1>1, <1>3, <1>4, <1>7, <1>8 DEF Health, WriterHealth, LoseRun, At, files

-------------------------------------------------------------------------------
(***************************************************************************)
(* Creating the experiment: as long as it is unfinished nobody but the     *)
(* creator is past looking whether there is one.                           *)
(***************************************************************************)
LEMMA CreateSteps ==
  ASSUME IInv, Unfinished, NEW t \in Threads, lock = t \/ Unlocked,
         NEW k \in CallRecords, calls' = [calls EXCEPT ![t] = k],
         k.step \notin {"idle", "run", "adapter", "evaluate"},
         directory' = TRUE, answers' = answers, lock' \in {t, NoThread},
         experiment' \in Experiments,
         experiment # NoExperiment => experiment' # NoExperiment,
         runs' \in RunTables, DOMAIN runs \subseteq DOMAIN runs',
         FilesOK', CallOK(t, calls[t])'
  PROVE  IInv'
<1>1. /\ TypeOK /\ FilesOK
      /\ calls'[t] = k /\ \A u \in Threads : u # t => calls'[u] = calls[u]
      /\ \A u \in Threads : CallOK(u, calls[u])
  BY DEF IInv, TypeOK
<1>2. TypeOK'
  <2>1. calls' = [u \in Threads |-> calls'[u]] /\ DOMAIN calls' = Threads
    BY <1>1 DEF TypeOK
  <2>2. \A u \in Threads : calls'[u] = Idle \/ calls'[u] \in CallRecords
    BY <1>1 DEF TypeOK
  <2> QED
    BY <1>1, <2>1, <2>2 DEF TypeOK
<1>3. ASSUME NEW u \in Threads, u # t PROVE CallOK(u, calls[u])' /\ Apart(k, calls[u])
  <2>1. CallOK(u, calls[u]) /\ calls'[u] = calls[u]
    BY <1>1, <1>3
  <2>2. calls[u].step \notin Building /\ lock' # u
    BY <1>3, <2>1, ThreadsAssumption DEF CallOK, Unlocked
  <2>3. CASE calls[u] = Idle
    BY <2>1, <2>2, <2>3 DEF CallOK, Apart
  <2>4. CASE calls[u] # Idle
    <3>1. calls[u].step \in Early
      BY <2>1, <2>4 DEF CallOK
    <3>2. calls[u].step \notin {"prepare", "run", "adapter", "evaluate", "cancel_run", "cancel_check"}
      BY <3>1 DEF Early, First, Building
    <3>3. calls[u].step = "persist" /\ calls[u].status = "SUCCEEDED"
            /\ calls[u].command.type = "create" => FALSE
      BY <1>1, <2>1, <2>4 DEF CallOK, FilesOK
    <3>4. Built(calls[u])'
      BY <2>1, <2>2, <2>4 DEF CallOK, Built, Building
    <3>5. DOMAIN calls[u].list \subseteq DOMAIN runs'
      BY <2>1, <2>4 DEF CallOK
    <3>6. calls[u].step \notin First => experiment' # NoExperiment
      BY <2>1, <2>4 DEF CallOK
    <3>7. /\ calls[u].step \notin {"replay", "persist"} =>
               (calls[u].command.type = "create" <=> calls[u].step \in {"create"} \cup Building)
      BY <2>1, <2>4 DEF CallOK
    <3> QED
      BY <2>1, <2>2, <3>1, <3>2, <3>3, <3>4, <3>5, <3>6, <3>7 DEF CallOK, Apart
  <2> QED
    BY <2>3, <2>4
<1>4. CallOK(t, calls[t])'
  OBVIOUS
<1>5. \A u, v \in Threads : u # v => Apart(calls[u], calls[v])'
  <2>1. ASSUME NEW u \in Threads, u # t PROVE Apart(calls'[u], k)
    BY <1>1, <2>1 DEF Apart
  <2> QED
    BY <1>1, <1>3, <2>1 DEF IInv, Apart
<1> QED
  BY <1>2, <1>3, <1>4, <1>5 DEF IInv

LEMMA CreateDirectoryKeeps ==
  ASSUME IInv, NEW t \in Threads, CreateDirectory(t)
  PROVE  IInv'
<1> DEFINE c == calls[t].command
           same == {d \in createdBy : d.key = c.key}
<1>1. /\ calls[t].step = "create" /\ Unlocked
      /\ UNCHANGED <<experiment, runs, createdBy, answers>>
  BY DEF CreateDirectory, At
<1>2. /\ CallOK(t, calls[t]) /\ calls[t] \in CallRecords /\ calls[t] # Idle
      /\ FilesOK /\ TypeOK
  BY <1>1, CallBefore DEF IInv
<1>3. CASE same # {}
  <2>1. PICK status \in {"SUCCEEDED", "CONFLICT"} : Answer(t, status)
    BY <1>3 DEF CreateDirectory
  <2>2. UNCHANGED <<directory, lock>>
    BY <1>3 DEF CreateDirectory
  <2>3. \E d \in createdBy : d.key = c.key
    BY <1>3
  <2> QED
    BY <1>1, <2>1, <2>2, <2>3, Answers DEF Building
<1>4. CASE same = {} /\ directory
  <2>1. Answer(t, "CONFLICT") /\ UNCHANGED <<directory, lock>>
    BY <1>4 DEF CreateDirectory
  <2> QED
    BY <1>1, <2>1, Answers DEF Building
<1>5. CASE same = {} /\ ~directory
  <2>1. directory' = TRUE /\ lock' = t /\ Go(t, "create_record")
    BY <1>5 DEF CreateDirectory
  <2>2. PICK k : k = [calls[t] EXCEPT !.step = "create_record"] /\ calls' = [calls EXCEPT ![t] = k]
    BY <2>1 DEF Go
  <2>3. "create_record" \in Steps
    BY DEF Steps, Building
  <2>4. /\ k \in CallRecords /\ k.step = "create_record" /\ k.command = c
        /\ k.list = calls[t].list /\ k.seed = calls[t].seed /\ k # Idle
    BY <1>2, <2>2, <2>3, Stepped
  <2>5. Unfinished
    BY <1>5 DEF Unfinished
  <2>6. experiment = NoExperiment /\ runs = NoRuns /\ DOMAIN runs = {} /\ createdBy = {}
    BY <1>2, <1>5, <2>5, NoRunsIsEmpty DEF FilesOK
  <2>7. calls'[t] = k
    BY <1>2, <2>2 DEF TypeOK
  <2>8. CallOK(t, calls[t])'
    <3>1. k.seed = 1 /\ 1 \in Seeds
      BY <1>1, <1>2, <2>4, SeedsAssumption DEF CallOK, Built, Seeds
    <3>2. Built(k)'
      BY <1>1, <2>4, <2>6, <3>1 DEF Built
    <3>3. /\ k.step \in Building /\ k.step \in First /\ k.step \in Early
          /\ k.step \notin {"persist", "prepare", "run", "adapter", "evaluate", "cancel_run",
                            "cancel_check"}
      BY <2>4 DEF Building, First, Early
    <3>4. k.command.type = "create" /\ DOMAIN k.list \subseteq DOMAIN runs'
      BY <1>1, <1>2, <2>4 DEF CallOK
    <3> QED
      BY <2>1, <2>7, <3>2, <3>3, <3>4 DEF CallOK
  <2>9. FilesOK'
    <3>1. experiment' = NoExperiment /\ runs' = runs /\ createdBy' = {}
      BY <1>1, <2>6
    <3> QED
      BY <1>1, <1>2, <2>1, <2>5, <2>6, <3>1 DEF FilesOK
  <2>10. experiment' \in Experiments /\ runs' \in RunTables /\ DOMAIN runs \subseteq DOMAIN runs'
    BY <1>1, <1>2 DEF TypeOK
  <2> QED
    BY <1>1, <2>1, <2>2, <2>4, <2>5, <2>8, <2>9, <2>10, CreateSteps
<1> QED
  BY <1>3, <1>4, <1>5

(* The creator at its later steps. *)
LEMMA CreatorBefore ==
  ASSUME IInv, NEW t \in Threads, calls[t].step \in Building
  PROVE  /\ lock = t /\ Unfinished /\ directory /\ ~Unlocked /\ CallOK(t, calls[t])
         /\ calls[t] \in CallRecords /\ calls[t] # Idle /\ calls[t].command.type = "create"
         /\ FilesOK /\ TypeOK /\ createdBy = {} /\ calls[t].command \in Commands
         /\ calls[t].list \in RunTables /\ calls[t].seed \in Nat \ {0}
<1>1. /\ calls[t].step \notin {"idle", "replay", "persist"}
  BY DEF Building
<1>2. /\ CallOK(t, calls[t]) /\ calls[t] \in CallRecords /\ calls[t] # Idle
      /\ FilesOK /\ TypeOK /\ calls[t].command \in Commands
      /\ calls[t].list \in RunTables /\ calls[t].seed \in Nat \ {0}
  BY <1>1, CallBefore DEF IInv
<1>3. lock = t /\ calls[t].command.type = "create"
  BY <1>1, <1>2 DEF CallOK
<1>4. ~Unlocked
  BY <1>3, ThreadsAssumption DEF Unlocked
<1> QED
  BY <1>2, <1>3, <1>4 DEF FilesOK, Unfinished

LEMMA CreateRecordKeeps ==
  ASSUME IInv, NEW t \in Threads, CreateRecord(t)
  PROVE  IInv'
<1>1. /\ calls[t].step = "create_record" /\ UNCHANGED <<directory, runs, createdBy, answers, lock>>
      /\ experiment' = [state |-> "READY", version |-> 1]
  BY DEF CreateRecord, At
<1>2. /\ lock = t /\ Unfinished /\ directory /\ ~Unlocked /\ CallOK(t, calls[t])
      /\ calls[t] \in CallRecords /\ calls[t] # Idle /\ calls[t].command.type = "create"
      /\ FilesOK /\ TypeOK /\ createdBy = {}
  BY <1>1, CreatorBefore DEF Building
<1>3. PICK k : k = [calls[t] EXCEPT !.step = "create_runs"] /\ calls' = [calls EXCEPT ![t] = k]
  BY DEF CreateRecord, Go
<1>4. "create_runs" \in Steps
  BY DEF Steps, Building
<1>5. /\ k \in CallRecords /\ k.step = "create_runs" /\ k.command = calls[t].command
      /\ k.list = calls[t].list /\ k.seed = calls[t].seed /\ k # Idle
  BY <1>2, <1>3, <1>4, Stepped
<1>6. calls'[t] = k
  BY <1>2, <1>3 DEF TypeOK
<1>7. experiment' \in Experiments /\ experiment' # NoExperiment
  BY <1>1 DEF Experiments, NoExperiment
<1>8. FilesOK'
  BY <1>1, <1>2, <1>7 DEF FilesOK, Unfinished, Unlocked
<1>9. CallOK(t, calls[t])'
  <2>1. Built(k)'
    BY <1>1, <1>2, <1>5 DEF CallOK, Built
  <2>2. k.step \in Building /\ k.step \in Early /\ DOMAIN k.list \subseteq DOMAIN runs'
    BY <1>1, <1>2, <1>5 DEF Building, Early, CallOK
  <2> QED
    BY <1>1, <1>2, <1>5, <1>6, <1>7, <2>1, <2>2 DEF CallOK
<1> QED
  BY <1>1, <1>2, <1>3, <1>5, <1>7, <1>8, <1>9, CreateSteps DEF TypeOK

LEMMA CreateRunKeeps ==
  ASSUME IInv, NEW t \in Threads, CreateRun(t)
  PROVE  IInv'
<1> DEFINE s == calls[t].seed
           step == IF s = NumSeeds THEN "create_key" ELSE "create_runs"
<1>1. /\ calls[t].step = "create_runs" /\ UNCHANGED <<directory, experiment, createdBy, answers, lock>>
      /\ runs' = [u \in 1..s |-> [state |-> "CREATED", attempt |-> 1]]
  BY DEF CreateRun, At
<1>2. /\ lock = t /\ Unfinished /\ directory /\ ~Unlocked /\ CallOK(t, calls[t])
      /\ calls[t] \in CallRecords /\ calls[t] # Idle /\ calls[t].command.type = "create"
      /\ FilesOK /\ TypeOK /\ createdBy = {} /\ s \in Nat \ {0} /\ s + 1 \in Nat \ {0}
  BY <1>1, CreatorBefore DEF Building
<1>3. PICK k : /\ k = [calls[t] EXCEPT !.seed = s + 1, !.step = step]
               /\ calls' = [calls EXCEPT ![t] = k]
  BY <1>1 DEF CreateRun
<1>4. step \in Steps
  BY DEF Steps, Building
<1>5. /\ k \in CallRecords /\ k.step = step /\ k.command = calls[t].command
      /\ k.list = calls[t].list /\ k.seed = s + 1
  BY <1>2, <1>3, <1>4 DEF CallRecords
<1>6. calls'[t] = k /\ k # Idle
  BY <1>2, <1>3, <1>5 DEF TypeOK, Idle
<1>7. s \in Seeds /\ DOMAIN runs = 1..(s - 1) /\ DOMAIN runs' = 1..s
  BY <1>1, <1>2 DEF CallOK, Built
<1>8. runs' \in RunTables
  <2>1. [state |-> "CREATED", attempt |-> 1] \in [state: RunState, attempt: Nat]
    BY DEF RunState
  <2>2. ASSUME NEW S, NEW e \in S, NEW n \in Nat PROVE [u \in 1..n |-> e] \in Seq(S)
    OBVIOUS
  <2>3. runs' \in Seq([state: RunState, attempt: Nat])
    BY <1>1, <1>2, <2>1, <2>2
  <2> QED
    BY <2>3 DEF RunTables
<1>9. FilesOK'
  <2>1. \A u \in DOMAIN runs' : runs'[u] = [state |-> "CREATED", attempt |-> 1]
    BY <1>1
  <2> QED
    BY <1>1, <1>2, <2>1 DEF FilesOK, Unfinished, Unlocked
<1>10. CallOK(t, calls[t])'
  <2>1. Built(k)'
    <3>1. CASE s = NumSeeds
      BY <1>5, <1>7, <3>1 DEF Built, Seeds
    <3>2. CASE s # NumSeeds
      <4>1. s + 1 \in Seeds /\ (s + 1) - 1 = s
        BY <1>2, <1>7, <3>2, SeedsAssumption DEF Seeds
      <4> QED
        BY <1>5, <1>7, <3>2, <4>1 DEF Built
    <3> QED
      BY <3>1, <3>2
  <2>2. k.step \in Building /\ k.step \in Early
    BY <1>5 DEF Building, Early
  <2>3. DOMAIN k.list \subseteq DOMAIN runs'
    BY <1>2, <1>5, <1>7 DEF CallOK
  <2>4. k.step \notin {"replay", "persist", "prepare", "run", "adapter", "evaluate", "cancel_run",
                       "cancel_check"}
    BY <1>5
  <2>5. experiment' # NoExperiment
    BY <1>1, <1>2 DEF CallOK, First
  <2> QED
    BY <1>1, <1>2, <1>5, <1>6, <2>1, <2>2, <2>3, <2>4, <2>5 DEF CallOK
<1>11. DOMAIN runs \subseteq DOMAIN runs'
  BY <1>2, <1>7
<1>12. /\ k.step \notin {"idle", "run", "adapter", "evaluate"}
       /\ directory' = TRUE /\ lock' = t /\ experiment' = experiment /\ experiment \in Experiments
  BY <1>1, <1>2, <1>5 DEF TypeOK
<1> HIDE DEF s, step
<1> QED
  BY <1>1, <1>2, <1>3, <1>5, <1>8, <1>9, <1>10, <1>11, <1>12, CreateSteps

LEMMA CreateKeyKeeps ==
  ASSUME IInv, NEW t \in Threads, CreateKey(t)
  PROVE  IInv'
<1>1. /\ calls[t].step = "create_key" /\ UNCHANGED <<directory, experiment, runs, answers>>
      /\ createdBy' = createdBy \cup {calls[t].command}
      /\ lock' = NoThread /\ Answer(t, "SUCCEEDED")
  BY DEF CreateKey, At
<1>2. /\ lock = t /\ Unfinished /\ directory /\ ~Unlocked /\ CallOK(t, calls[t])
      /\ calls[t] \in CallRecords /\ calls[t] # Idle /\ calls[t].command.type = "create"
      /\ FilesOK /\ TypeOK /\ createdBy = {}
  BY <1>1, CreatorBefore DEF Building
<1>3. PICK k : /\ k = [Continue(t, "persist") EXCEPT !.status = "SUCCEEDED"]
               /\ calls' = [calls EXCEPT ![t] = k]
  BY <1>1 DEF Answer
<1>4. k = [step |-> "persist", command |-> calls[t].command, record |-> NoExperiment,
           list |-> NoRuns, seed |-> 1, attempt |-> 0, status |-> "SUCCEEDED"]
  BY <1>3, Continued
<1>5. /\ k \in CallRecords /\ k.step = "persist" /\ k # Idle
      /\ k.command = calls[t].command /\ DOMAIN k.list \subseteq DOMAIN runs
  <2>1. "persist" \in Steps
    BY DEF Steps
  <2> QED
    BY <1>2, <1>4, <2>1, Reread
<1>6. calls'[t] = k
  BY <1>2, <1>3 DEF TypeOK
<1>7. experiment # NoExperiment /\ DOMAIN runs = Seeds
  BY <1>1, <1>2 DEF CallOK, First, Built
<1>8. FilesOK'
  BY <1>1, <1>2, <1>7 DEF FilesOK, Unfinished, Unlocked
<1>9. CallOK(t, calls[t])'
  <2>1. Built(k)'
    BY <1>5 DEF Built
  <2>2. lock' # t /\ ~Unfinished'
    BY <1>1, <1>2, ThreadsAssumption DEF Unfinished, Unlocked
  <2> QED
    BY <1>1, <1>5, <1>6, <1>7, <2>1, <2>2 DEF CallOK, Building
<1> QED
  BY <1>1, <1>2, <1>3, <1>5, <1>7, <1>8, <1>9, CreateSteps DEF TypeOK

-------------------------------------------------------------------------------
(* A retry is a new attempt: whoever executes the old one has lost the seed. *)
LEMMA RetryKeeps ==
  ASSUME IInv, NEW s \in DOMAIN runs, RetryRun(s)
  PROVE  IInv'
<1>1. /\ Unlocked /\ runs[s].state \in {"FAILED", "BLOCKED", "LOST"}
      /\ runs' = [runs EXCEPT ![s] = [state |-> "CREATED", attempt |-> runs[s].attempt + 1]]
      /\ UNCHANGED <<directory, experiment, createdBy, answers, lock, calls>>
  BY DEF RetryRun
<1>2. TypeOK /\ FilesOK /\ runs \in RunTables
  BY DEF IInv, TypeOK
<1>3. ~Unfinished
  BY <1>1, <1>2 DEF FilesOK
<1>4. runs[s].attempt \in Nat
  <2>1. runs[s] \in [state: RunState, attempt: Nat]
    BY <1>2, ElementOfSeq, LenProperties DEF RunTables
  <2> QED
    BY <2>1
<1>5. runs' \in RunTables /\ DOMAIN runs' = DOMAIN runs
  <2>1. [state |-> "CREATED", attempt |-> runs[s].attempt + 1] \in [state: RunState, attempt: Nat]
    BY <1>4 DEF RunState
  <2> QED
    BY <1>1, <1>2, <2>1, ExceptSeq DEF RunTables
<1>6. /\ runs'[s].state = "CREATED" /\ runs'[s].attempt = runs[s].attempt + 1
      /\ \A u \in DOMAIN runs : u # s => runs'[u] = runs[u]
  BY <1>1
<1>7. TypeOK'
  BY <1>1, <1>2, <1>5 DEF TypeOK
<1>8. FilesOK' /\ ~Unfinished'
  BY <1>1, <1>2, <1>3, <1>5 DEF FilesOK, Unfinished, Unlocked
<1>9. ASSUME NEW u \in Threads PROVE CallOK(u, calls[u])'
  <2>1. CallOK(u, calls[u]) /\ calls' = calls
    BY <1>1 DEF IInv
  <2>2. CASE calls[u] = Idle
    BY <1>1, <2>1, <2>2 DEF CallOK
  <2>3. CASE calls[u] # Idle
    <3>1. calls[u] \in CallRecords /\ DOMAIN calls[u].list \subseteq DOMAIN runs
          /\ calls[u].attempt \in Nat
      BY <1>2, <2>1, <2>3 DEF TypeOK, CallOK, CallRecords
    <3>2. calls[u].step = "run" => runs'[calls[u].seed].state \in {"PREPARING", "CANCELED"}
      BY <1>1, <1>6, <2>1, <2>3, <3>1 DEF CallOK
    <3>3. calls[u].step \in {"adapter", "evaluate"} =>
            /\ calls[u].attempt <= runs'[calls[u].seed].attempt
            /\ calls[u].attempt = runs'[calls[u].seed].attempt =>
                 runs'[calls[u].seed].state \notin {"CREATED", "PREPARING"}
      BY <1>4, <1>6, <2>1, <2>3, <3>1 DEF CallOK
    <3>4. ASSUME NEW before, Stopped(calls[u].list, before)
          PROVE  Stopped(calls[u].list, before)'
      BY <1>1, <1>6, <3>1, <3>4 DEF Stopped
    <3>5. Built(calls[u])'
      BY <1>1, <1>5, <2>1, <2>3 DEF CallOK, Built
    <3> QED
      BY <1>1, <1>5, <1>8, <2>1, <2>3, <3>1, <3>2, <3>3, <3>4, <3>5 DEF CallOK
  <2> QED
    BY <2>2, <2>3
<1>10. \A u, v \in Threads : u # v => Apart(calls[u], calls[v])'
  BY <1>1 DEF IInv, Apart
<1> QED
  BY <1>7, <1>8, <1>9, <1>10 DEF IInv

(* A crash leaves files that may be half an experiment, and no creator. *)
LEMMA CrashKeeps ==
  ASSUME IInv, Crash
  PROVE  IInv'
<1>1. /\ UNCHANGED <<directory, experiment, runs, createdBy, answers>>
      /\ lock' = NoThread /\ calls' = [t \in Threads |-> Idle]
  BY DEF Crash, files
<1>2. Idle.step \notin Building
  BY DEF Idle, Building
<1>3. TypeOK'
  BY <1>1 DEF IInv, TypeOK
<1>4. FilesOK'
  BY <1>1 DEF IInv, FilesOK, Unfinished, Unlocked
<1>5. \A t \in Threads : CallOK(t, calls[t])'
  BY <1>1, <1>2, ThreadsAssumption DEF CallOK
<1> QED
  BY <1>1, <1>3, <1>4, <1>5 DEF IInv, Apart

LEMMA InitIInv == Init => IInv
<1> SUFFICES ASSUME Init PROVE IInv
  OBVIOUS
<1>1. NoExperiment \in Experiments
  BY DEF NoExperiment, Experiments
<1>2. Idle.step \notin Building
  BY DEF Idle, Building
<1>3. TypeOK
  BY <1>1, NoRunsIsEmpty DEF Init, TypeOK
<1>4. FilesOK
  BY NoRunsIsEmpty DEF Init, FilesOK, Unlocked
<1>5. \A t \in Threads : CallOK(t, calls[t])
  BY <1>2, ThreadsAssumption DEF Init, CallOK
<1> QED
  BY <1>3, <1>4, <1>5 DEF Init, IInv, Apart

LEMMA NextIInv == IInv /\ [Next]_vars => IInv'
<1> SUFFICES ASSUME IInv, [Next]_vars PROVE IInv'
  OBVIOUS
<1>1. ASSUME NEW t \in Threads, NEW c \in Commands, Receive(t, c) PROVE IInv'
  BY <1>1, ReceiveKeeps
<1>2. ASSUME NEW t \in Threads, Replay(t) \/ PersistResult(t) PROVE IInv'
  BY <1>2, ReplayKeeps, PersistKeeps
<1>3. ASSUME NEW t \in Threads, Create(t) PROVE IInv'
  BY <1>3, CreateDirectoryKeeps, CreateRecordKeeps, CreateRunKeeps, CreateKeyKeeps DEF Create
<1>4. ASSUME NEW t \in Threads, Execute(t) PROVE IInv'
  <2>1. CASE StartExperiment(t) \/ ListRuns(t) \/ TakeSeed(t)
    BY <2>1, StartExperimentKeeps, ListKeeps, TakeSeedKeeps
  <2>2. CASE BeginExperiment(t)
    BY <2>2, ExperimentMoves DEF BeginExperiment, At
  <2>3. CASE PrepareRun(t) \/ StartRun(t) \/ ExecuteRun(t) \/ CompleteRun(t)
    BY <2>3, RunsKeep
  <2> QED
    BY <1>4, <2>1, <2>2, <2>3 DEF Execute
<1>5. ASSUME NEW t \in Threads, Reconcile(t) \/ Health(t) PROVE IInv'
  BY <1>5, ReconcileKeeps, HealthKeeps
<1>6. ASSUME NEW t \in Threads, Cancel(t) PROVE IInv'
  <2>1. CASE RequestCancel(t)
    BY <2>1, ExperimentMoves DEF RequestCancel, At
  <2> QED
    BY <1>6, <2>1, CancelKeeps, CancelListedKeeps DEF Cancel
<1>7. ASSUME NEW s \in DOMAIN runs, RetryRun(s) PROVE IInv'
  BY <1>7, RetryKeeps
<1>8. CASE Crash
  BY <1>8, CrashKeeps
<1>9. CASE UNCHANGED vars
  BY <1>9 DEF vars, files, IInv, TypeOK, FilesOK, CallOK, Built, Stopped, Apart, Unfinished, Unlocked
<1> QED
  BY <1>1, <1>2, <1>3, <1>4, <1>5, <1>6, <1>7, <1>8, <1>9 DEF Next

-------------------------------------------------------------------------------
(* The invariant of every behaviour, for any number of threads and seeds. *)
THEOREM Invariance == Spec => []IInv
<1>1. Init => IInv
  BY InitIInv
<1>2. IInv /\ [Next]_vars => IInv'
  BY NextIInv
<1> QED
  BY <1>1, <1>2, PTL DEF Spec

(***************************************************************************)
(* Of any number of start commands only one executes an attempt of a seed, *)
(* although each picked its seeds from a list it read before, without the  *)
(* lock (execute_experiment).                                              *)
(***************************************************************************)
THEOREM OneExecutorCorrect == Spec => []OneExecutor
<1>1. IInv => OneExecutor
  BY DEF IInv, Apart, OneExecutor, Executing, At, Idle
<1> QED
  BY <1>1, Invariance, PTL

(***************************************************************************)
(* A cancel that got through its list (cancel_experiment) has called off   *)
(* every seed it saw unstarted, and nothing starts one again.              *)
(***************************************************************************)
THEOREM CancelCorrect == Spec => []CancelStopsUnstarted
<1>1. ASSUME IInv, NEW t \in Threads, At(t, "cancel_check"), NEW s \in DOMAIN calls[t].list,
             calls[t].list[s].state = "CREATED"
      PROVE  runs[s].state = "CANCELED"
  <2>1. calls[t].step = "cancel_check"
    BY <1>1 DEF At
  <2>2. Stopped(calls[t].list, Len(calls[t].list) + 1) /\ calls[t].list \in RunTables
    BY <1>1, <2>1, CallBefore DEF CallOK
  <2>3. Len(calls[t].list) \in Nat /\ s \in 1..Len(calls[t].list)
    BY <1>1, <2>2, LenProperties DEF RunTables
  <2> QED
    BY <1>1, <2>2, <2>3 DEF Stopped
<1>2. IInv => CancelStopsUnstarted
  BY <1>1 DEF CancelStopsUnstarted
<1> QED
  BY <1>2, Invariance, PTL

(***************************************************************************)
(* Whoever is told that an experiment is created has its record, every one *)
(* of its seeds and the file of its key (create_experiment), although a    *)
(* crash may have cut an earlier create in half.                           *)
(***************************************************************************)
THEOREM CreateCorrect == Spec => []CreateAnswerIsDurable
<1>1. IInv => CreateAnswerIsDurable
  BY DEF IInv, FilesOK, CreateAnswerIsDurable
<1> QED
  BY <1>1, Invariance, PTL

(* The files and the calls keep their types: what the registry can be in. *)
THEOREM TypeCorrect == Spec => []TypeOK
<1>1. IInv => TypeOK
  BY DEF IInv
<1> QED
  BY <1>1, Invariance, PTL
=============================================================================
