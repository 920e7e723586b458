-------------------------- MODULE PythonRuntimeProofs --------------------------
(***************************************************************************)
(* Proofs for the Python programs that run as processes of their own:      *)
(* LocalExecution (one execution and its child), AsyncProcessor (results   *)
(* applied without rounds) and BenchmarkMatrix (the runner of a matrix of  *)
(* executions).                                                            *)
(***************************************************************************)
EXTENDS LocalExecution, AsyncProcessor, BenchmarkMatrix, SequenceTheorems,
        FiniteSetTheorems, TLAPS

(***************************************************************************)
(* LocalExecution: for any number of rounds, restarts and deaths, a run    *)
(* shown as paused can be resumed, an outcome is final, and the run does   *)
(* to its history what an uninterrupted one does.                          *)
(***************************************************************************)


Row == [round: Nat, draw: Nat, steps: Nat]

Files ==
  [history: Seq(Row),
   checkpoint: [rounds: Nat, draws: Nat, steps: Nat, edited: BOOLEAN],
   digest: Nat, marker: Nat, resumeRequest: BOOLEAN, pauseRequest: BOOLEAN,
   finalModel: BOOLEAN, summary: BOOLEAN, edited: BOOLEAN]

(* Places of a child in its round loop, and of one that has left it. *)
InLoop == {"train", "log", "save", "digest", "poll"}
AfterLoop == {"summary", "evaluate"}

Child ==
  [at: {"none", "boot"} \cup InLoop \cup AfterLoop \cup Exits,
   edited: BOOLEAN, rounds: Nat, draws: Nat, steps: Nat]

ExecutionTypeOK ==
  /\ spec \in SpecRecords
  /\ status \in {"CREATED", "RUNNING", "PAUSING", "PAUSED"} \cup Terminal
  /\ attached \in BOOLEAN /\ canceling \in BOOLEAN
  /\ child \in Child /\ files \in Files

(* What a run knows after n rounds: draws of its generators and accountant steps. *)
After(n, r) == r.rounds = n /\ r.draws = n /\ r.steps = Uninterrupted!RowOf(n).steps

Logged == Len(files.history)

(* The log holds the first rounds of the run, and the checkpoint one of them. *)
FilesOK ==
  /\ Logged <= Rounds
  /\ files.history = Uninterrupted!HistoryOf(Logged)
  /\ files.checkpoint.rounds <= Rounds
  /\ After(files.checkpoint.rounds, files.checkpoint)
  /\ files.checkpoint.rounds = 0 => files.checkpoint = NoCheckpoint

(* Checkpoint and digest are of the round logged last. *)
Saved == files.checkpoint.rounds = Logged /\ files.digest = Logged

(* A child knows the rounds in the log, and at "log" one more. *)
ChildOK ==
  /\ child.at \in InLoop \cup AfterLoop => After(child.rounds, child) /\ child.rounds <= Rounds
  /\ child.at \in (InLoop \cup AfterLoop) \ {"log"} => child.rounds = Logged
  /\ child.at = "train" => child.rounds < Rounds
  /\ child.at = "log" => child.rounds = Logged + 1
  /\ child.at \in {"save", "digest", "poll"} => child.rounds # 0
  /\ child.at = "digest" => files.checkpoint.rounds = Logged
  /\ child.at = "poll" /\ spec.persist => Saved
  /\ child.at \in AfterLoop => child.rounds = Rounds
  /\ child.at = "exit 75" => Saved /\ Logged # 0 /\ files.marker = Logged

(* What the driver may rely on: PAUSED is the answer of a child that left  *)
(* by way of a pause; whoever may still report an outcome reports the one  *)
(* that is final already.                                                  *)
DriverOK ==
  /\ persisted = status
  /\ status = "CREATED" => child = NoChild /\ ~attached
  /\ status = "PAUSED" => child.at = "exit 75" /\ ~attached
  /\ status = "COMPLETED" => files.summary
  /\ status \in Terminal /\ (attached \/ canceling) => status = "CANCELED"

ExecutionInv == ExecutionTypeOK /\ FilesOK /\ ChildOK /\ DriverOK

UVars == <<spec.dp, files.history, files.summary>>

-----------------------------------------------------------------------------
(* A log with one more row is the log of an uninterrupted run if the row is the next one. *)
LEMMA NextRow ==
  ASSUME ExecutionTypeOK, NEW n \in Nat, files.history = Uninterrupted!HistoryOf(n)
  PROVE  /\ Len(files.history) = n
         /\ Append(files.history, Uninterrupted!RowOf(n + 1)) = Uninterrupted!HistoryOf(n + 1)
<1>1. files.history \in Seq(Row) /\ files.history = [i \in 1..n |-> Uninterrupted!RowOf(i)]
  BY DEF ExecutionTypeOK, Files, Uninterrupted!HistoryOf
<1>2. Len(files.history) = n
  BY <1>1
<1>3. \A i \in 1..(n + 1) : Append(files.history, Uninterrupted!RowOf(n + 1))[i] = Uninterrupted!RowOf(i)
  BY <1>1, <1>2
<1>4. /\ Append(files.history, Uninterrupted!RowOf(n + 1))
           = [i \in 1..(n + 1) |-> Append(files.history, Uninterrupted!RowOf(n + 1))[i]]
  BY <1>1, <1>2
<1> QED
  BY <1>2, <1>3, <1>4 DEF Uninterrupted!HistoryOf

(* A run not yet started is an uninterrupted one not yet started.           *)
LEMMA InitExecutionInv == Init => ExecutionInv /\ Uninterrupted!Init
<1> SUFFICES ASSUME Init PROVE ExecutionInv /\ Uninterrupted!Init
  OBVIOUS
<1>1. spec \in SpecRecords /\ spec.dp \in BOOLEAN /\ Rounds \in Nat /\ Rounds >= 1
  BY SpecsAssumption, BoundsAssumption DEF Init, SpecRecords
<1>2. /\ files \in Files /\ files.checkpoint = NoCheckpoint /\ files.summary = FALSE
      /\ \E n \in 0..1 : files.history = Uninterrupted!HistoryOf(n) /\ Logged = n
  <2>1. CleanFiles \in Files
    BY DEF CleanFiles, Files, NoCheckpoint
  <2>2. CASE files = CleanFiles
    <3>1. files.history = Uninterrupted!HistoryOf(0) /\ Logged = 0
      BY <2>2 DEF CleanFiles, Uninterrupted!HistoryOf, Logged
    <3> QED
      BY <2>1, <2>2, <3>1 DEF CleanFiles
  <2>3. CASE files = LeftoverFiles(spec)
    <3>1. PICK row : row = [round |-> 1, draw |-> 0, steps |-> Charged(spec, 0)]
      OBVIOUS
    <3>2. row = Uninterrupted!RowOf(1) /\ row \in Row
      BY <3>1, <1>1 DEF Charged, Uninterrupted!RowOf, Row
    <3>3. files = [CleanFiles EXCEPT !.history = <<row>>] /\ <<row>> \in Seq(Row)
      BY <2>3, <3>1, <3>2 DEF LeftoverFiles
    <3>4. files.history = <<row>> /\ files.checkpoint = NoCheckpoint /\ files.summary = FALSE
      BY <3>3 DEF CleanFiles
    <3>5. files \in Files
      BY <2>1, <3>3 DEF Files
    <3>6. <<row>> = Uninterrupted!HistoryOf(1) /\ Logged = 1
      BY <3>2, <3>4 DEF Uninterrupted!HistoryOf, Logged
    <3> QED
      BY <3>4, <3>5, <3>6
  <2> QED
    BY <2>2, <2>3 DEF Init
<1>3. ExecutionTypeOK
  BY <1>1, <1>2 DEF Init, ExecutionTypeOK, NoChild, Child
<1>4. FilesOK
  BY <1>1, <1>2 DEF FilesOK, After, NoCheckpoint, Uninterrupted!RowOf
<1>5. ChildOK /\ DriverOK
  BY DEF Init, ChildOK, DriverOK, NoChild, InLoop, AfterLoop, Terminal
<1>6. Uninterrupted!Init
  BY <1>1, <1>2 DEF Uninterrupted!Init
<1> QED
  BY <1>3, <1>4, <1>5, <1>6 DEF ExecutionInv

-----------------------------------------------------------------------------
(* A step that leaves the log and the checkpoint alone has little to show. *)
LEMMA SameLog ==
  ASSUME FilesOK, spec' = spec, files'.history = files.history,
         files'.checkpoint = files.checkpoint
  PROVE  FilesOK' /\ Logged' = Logged
BY DEF FilesOK, Logged, After, Uninterrupted!HistoryOf, Uninterrupted!RowOf

(* While a child lives the driver waits or has given it up, and none of its steps changes that. *)
LEMMA ChildMoves ==
  ASSUME ExecutionInv, Alive, UNCHANGED <<spec, status, persisted, attached, canceling>>,
         child' \in Child, files' \in Files, files.summary => files'.summary
  PROVE  ExecutionTypeOK' /\ DriverOK'
<1>1. ExecutionTypeOK'
  BY DEF ExecutionInv, ExecutionTypeOK
<1>2. status # "CREATED" /\ status # "PAUSED"
  <2>1. child.at # "none" /\ child.at # "exit 75"
    BY DEF Alive, Exits
  <2>2. NoChild.at = "none"
    BY DEF NoChild
  <2> QED
    BY <2>1, <2>2 DEF ExecutionInv, DriverOK
<1> QED
  BY <1>1, <1>2 DEF ExecutionInv, DriverOK

(* The child's steps, one by one. *)
LEMMA BootKeeps == ExecutionInv /\ Boot => ExecutionInv' /\ UNCHANGED UVars
<1> SUFFICES ASSUME ExecutionInv, Boot PROVE ExecutionInv' /\ UNCHANGED UVars
  OBVIOUS
<1>0. ExecutionTypeOK /\ FilesOK /\ DriverOK /\ child \in Child /\ files \in Files /\ Rounds \in Nat \ {0}
  BY BoundsAssumption DEF ExecutionInv, ExecutionTypeOK
<1>1. FilesOK' /\ Logged' = Logged /\ UNCHANGED UVars
  BY <1>0, SameLog DEF Boot, UVars
<1>2. Alive /\ UNCHANGED <<spec, files, status, persisted, attached, canceling>>
  BY DEF Boot, Alive, Exits
<1>3. CASE child' = [child EXCEPT !.at = "exit 1"]
  <2>1. child' \in Child /\ child'.at = "exit 1"
    BY <1>0, <1>3 DEF Child, Exits
  <2>2. ChildOK'
    BY <2>1 DEF ChildOK, InLoop, AfterLoop
  <2> QED
    BY <1>0, <1>2, <1>1, <2>1, <2>2, ChildMoves DEF ExecutionInv
<1>4. ASSUME NEW saved, saved \in {files.checkpoint, NoCheckpoint}, child' = Resumed(saved),
             saved.rounds = Logged
      PROVE  ExecutionInv'
  <2>1. /\ saved.rounds \in Nat /\ saved.rounds <= Rounds /\ After(saved.rounds, saved)
        /\ saved.draws \in Nat /\ saved.steps \in Nat
    BY <1>0, <1>4 DEF FilesOK, Files, NoCheckpoint, After, Uninterrupted!RowOf
  <2>2. /\ child' \in Child /\ child'.at \in {"train", "summary"} /\ child'.rounds = Logged
        /\ After(child'.rounds, child') /\ child'.rounds <= Rounds
        /\ child'.at = "train" => child'.rounds < Rounds
        /\ child'.at = "summary" => child'.rounds = Rounds
    BY <1>0, <1>4, <2>1 DEF Resumed, Child, InLoop, AfterLoop, Files, After
  <2>3. After(child.rounds, child)' <=> After(child'.rounds, child')
    BY DEF Boot, After, Uninterrupted!RowOf
  <2>4. ChildOK'
    BY <1>1, <2>2, <2>3 DEF ChildOK, InLoop, AfterLoop
  <2> QED
    BY <1>0, <1>2, <1>1, <2>2, <2>4, ChildMoves DEF ExecutionInv
<1>5. CASE files.resumeRequest /\ CanRestore /\ child' = Resumed(files.checkpoint)
  BY <1>1, <1>4, <1>5 DEF CanRestore, Logged
<1>6. CASE CanStartFresh /\ child' = Resumed(NoCheckpoint)
  BY <1>1, <1>4, <1>6 DEF CanStartFresh, NoCheckpoint, Logged
<1> QED
  BY <1>3, <1>5, <1>6 DEF Boot

(* Writing a row of the history keeps the invariant and is a step of the uninterrupted run. *)
LEMMA LogKeeps == ExecutionInv /\ LogRound => ExecutionInv' /\ [Uninterrupted!Next]_UVars
<1> SUFFICES ASSUME ExecutionInv, LogRound PROVE ExecutionInv' /\ Uninterrupted!Next
  OBVIOUS
<1> DEFINE row == [round |-> child.rounds, draw |-> child.draws - 1, steps |-> child.steps]
           place == IF spec.persist THEN "save" ELSE "poll"
<1>0. /\ ExecutionTypeOK /\ FilesOK /\ DriverOK /\ child \in Child /\ files \in Files
      /\ spec \in SpecRecords /\ Rounds \in Nat \ {0} /\ Logged \in Nat
  BY BoundsAssumption DEF ExecutionInv, ExecutionTypeOK, Files, Logged
<1>1. /\ child.rounds = Logged + 1 /\ child.rounds <= Rounds /\ After(child.rounds, child)
  BY DEF ExecutionInv, ChildOK, LogRound, InLoop
<1>2. row = Uninterrupted!RowOf(Logged + 1) /\ row \in Row
  BY <1>0, <1>1 DEF After, Uninterrupted!RowOf, Row, Child
<1>3. files' = [files EXCEPT !.history = Append(@, row)] /\ child' = [child EXCEPT !.at = place]
      /\ spec' = spec
  BY DEF LogRound
<1> HIDE DEF row
<1>4. /\ files' \in Files /\ files'.history = Append(files.history, row)
      /\ files'.checkpoint = files.checkpoint /\ files'.summary = files.summary
  <2>1. Append(files.history, row) \in Seq(Row)
    BY <1>0, <1>2 DEF Files
  <2> QED
    BY <1>0, <1>3, <2>1 DEF Files
<1>5. /\ Logged' = Logged + 1
      /\ files'.history = Uninterrupted!HistoryOf(Logged + 1)
  <2>1. files.history = Uninterrupted!HistoryOf(Logged)
    BY <1>0 DEF FilesOK
  <2> QED
    BY <1>0, <1>2, <1>4, <2>1, NextRow DEF Logged, Files
<1>6. FilesOK'
  BY <1>0, <1>1, <1>3, <1>4, <1>5
  DEF FilesOK, After, Uninterrupted!HistoryOf, Uninterrupted!RowOf
<1>7. /\ child' \in Child /\ child'.at \in {"save", "poll"} /\ child'.rounds = child.rounds
      /\ child'.at = "poll" => ~spec.persist
  BY <1>0, <1>3 DEF Child, InLoop
<1>8. After(child.rounds, child)'
  BY <1>1, <1>3, <1>0 DEF After, Uninterrupted!RowOf, Child
<1>9. ExecutionInv'
  <2>1. ChildOK'
    BY <1>0, <1>1, <1>3, <1>5, <1>7, <1>8 DEF ChildOK, InLoop, AfterLoop
  <2>2. Alive /\ UNCHANGED <<spec, status, persisted, attached, canceling>>
    BY DEF LogRound, Alive, Exits
  <2> QED
    BY <1>4, <1>6, <1>7, <2>1, <2>2, ChildMoves DEF ExecutionInv
<1>10. Uninterrupted!LogNextRound
  BY <1>0, <1>1, <1>2, <1>3, <1>4 DEF Uninterrupted!LogNextRound, Logged
<1> QED
  BY <1>9, <1>10 DEF Uninterrupted!Next

(* The rest of a round keeps the invariant and does not show in the uninterrupted run. *)
LEMMA RoundKeeps ==
  ExecutionInv /\ (TrainRound \/ SaveCheckpoint \/ SaveDigest \/ PollPause) => ExecutionInv' /\ UNCHANGED UVars
<1> SUFFICES ASSUME ExecutionInv, TrainRound \/ SaveCheckpoint \/ SaveDigest \/ PollPause
             PROVE  ExecutionInv' /\ UNCHANGED UVars
  OBVIOUS
<1>0. /\ ExecutionTypeOK /\ FilesOK /\ ChildOK /\ child \in Child /\ files \in Files
      /\ spec \in SpecRecords /\ Rounds \in Nat \ {0} /\ Logged \in Nat
  BY BoundsAssumption DEF ExecutionInv, ExecutionTypeOK, Files, Logged
<1>1. Alive /\ UNCHANGED <<spec, status, persisted, attached, canceling>>
  BY DEF TrainRound, SaveCheckpoint, SaveDigest, PollPause, Alive, Exits
<1>2. /\ child.rounds \in Nat /\ child.draws \in Nat /\ child.steps \in Nat /\ child.edited \in BOOLEAN
      /\ After(child.rounds, child)
  BY <1>0 DEF TrainRound, SaveCheckpoint, SaveDigest, PollPause, ChildOK, InLoop, Child
<1>3. CASE TrainRound
  <2>1. child.rounds = Logged /\ child.rounds < Rounds
    BY <1>0, <1>3 DEF TrainRound, ChildOK, InLoop
  <2>2. PICK done \in BOOLEAN : files' = [files EXCEPT !.finalModel = done]
    <3>1. files.finalModel \in BOOLEAN
      BY <1>0 DEF Files
    <3>2. (files.finalModel \/ child.rounds + 1 = Rounds) \in BOOLEAN
      OBVIOUS
    <3> QED
      BY <1>3, <3>2 DEF TrainRound
  <2>3. /\ files' \in Files /\ files'.history = files.history
        /\ files'.checkpoint = files.checkpoint /\ files'.summary = files.summary
    BY <1>0, <2>2 DEF Files
  <2>4. /\ child'.rounds = child.rounds + 1 /\ child'.draws = child.draws + 1
        /\ child'.steps = Charged(spec, child.steps) /\ child'.at = "log"
    BY <1>0, <1>3 DEF TrainRound, Child
  <2>5. child' \in Child
    <3>1. PICK steps \in Nat : steps = Charged(spec, child.steps)
      BY <1>2 DEF Charged
    <3>2. child' = [child EXCEPT !.at = "log", !.rounds = @ + 1, !.draws = @ + 1, !.steps = steps]
      BY <1>3, <3>1 DEF TrainRound
    <3>3. child.rounds + 1 \in Nat /\ child.draws + 1 \in Nat /\ "log" \in InLoop
      BY <1>2 DEF InLoop
    <3> QED
      BY <1>0, <3>2, <3>3 DEF Child
  <2>6. After(child.rounds, child)'
    BY <1>1, <1>2, <2>4 DEF After, Charged, Uninterrupted!RowOf
  <2>7. FilesOK' /\ Logged' = Logged
    BY <1>0, <1>1, <2>3, SameLog
  <2>8. ChildOK'
    <3>1. child'.rounds = Logged' + 1 /\ child'.rounds <= Rounds
      BY <1>0, <1>2, <2>1, <2>4, <2>7
    <3> QED
      BY <2>4, <2>6, <3>1 DEF ChildOK, InLoop, AfterLoop
  <2> QED
    BY <1>1, <2>3, <2>5, <2>7, <2>8, ChildMoves DEF ExecutionInv, UVars
<1>4. CASE SaveCheckpoint
  <2>1. child.rounds = Logged /\ child.rounds <= Rounds /\ child.rounds # 0
    BY <1>0, <1>4 DEF SaveCheckpoint, ChildOK, InLoop
  <2>2. PICK saved : /\ saved = [rounds |-> child.rounds, draws |-> child.draws,
                                 steps |-> child.steps, edited |-> child.edited]
                     /\ files' = [files EXCEPT !.checkpoint = saved]
    BY <1>4 DEF SaveCheckpoint
  <2>3. /\ files' \in Files /\ files'.history = files.history /\ files'.checkpoint = saved
        /\ files'.summary = files.summary
    BY <1>0, <1>2, <2>2 DEF Files
  <2>4. child' \in Child /\ child'.at = "digest" /\ child'.rounds = child.rounds /\ After(child.rounds, child)'
    BY <1>0, <1>1, <1>2, <1>4 DEF SaveCheckpoint, Child, InLoop, After, Uninterrupted!RowOf
  <2>5. saved.rounds = Logged /\ After(saved.rounds, saved)
    BY <1>2, <2>1, <2>2 DEF After
  <2>6. Logged' = Logged
    BY <2>3 DEF Logged
  <2>7. FilesOK'
    BY <1>0, <1>1, <2>1, <2>3, <2>5, <2>6
    DEF FilesOK, After, Uninterrupted!HistoryOf, Uninterrupted!RowOf
  <2>8. ChildOK'
    BY <1>0, <2>1, <2>3, <2>4, <2>5, <2>6 DEF ChildOK, InLoop, AfterLoop
  <2> QED
    BY <1>1, <2>3, <2>4, <2>7, <2>8, ChildMoves DEF ExecutionInv, UVars
<1>5. CASE SaveDigest
  <2>1. /\ child.rounds = Logged /\ child.rounds <= Rounds /\ child.rounds # 0
        /\ files.checkpoint.rounds = Logged
    BY <1>0, <1>5 DEF SaveDigest, ChildOK, InLoop
  <2>2. /\ files' \in Files /\ files'.history = files.history /\ files'.checkpoint = files.checkpoint
        /\ files'.summary = files.summary /\ files'.digest = Logged
    BY <1>0, <1>2, <1>5, <2>1 DEF SaveDigest, Files
  <2>3. child' \in Child /\ child'.at = "poll" /\ child'.rounds = child.rounds /\ After(child.rounds, child)'
    BY <1>0, <1>1, <1>2, <1>5 DEF SaveDigest, Child, InLoop, After, Uninterrupted!RowOf
  <2>4. FilesOK' /\ Logged' = Logged
    BY <1>0, <1>1, <2>2, SameLog
  <2>5. ChildOK'
    BY <1>0, <2>1, <2>2, <2>3, <2>4 DEF ChildOK, Saved, InLoop, AfterLoop
  <2> QED
    BY <1>1, <2>2, <2>3, <2>4, <2>5, ChildMoves DEF ExecutionInv, UVars
<1>6. CASE PollPause
  <2>1. /\ child.rounds = Logged /\ child.rounds <= Rounds /\ child.rounds # 0
        /\ spec.persist => Saved
    BY <1>0, <1>6 DEF PollPause, ChildOK, InLoop
  <2>2. /\ files' \in Files /\ files'.history = files.history /\ files'.checkpoint = files.checkpoint
        /\ files'.summary = files.summary /\ files'.digest = files.digest
    BY <1>0, <1>2, <1>6 DEF PollPause, Files
  <2>3. FilesOK' /\ Logged' = Logged
    BY <1>0, <1>1, <2>2, SameLog
  <2>4. child'.rounds = child.rounds /\ After(child.rounds, child)'
    BY <1>0, <1>1, <1>2, <1>6, ZenonT(60) DEF PollPause, Child, After, Uninterrupted!RowOf
  <2>5. child' \in Child /\ ChildOK'
    <3>1. CASE child'.at = "exit 75"
      <4>1. Saved' /\ files'.marker = Logged' /\ Logged' # 0
        BY <1>0, <1>6, <2>1, <2>2, <2>3, <3>1 DEF PollPause, Saved, Files, Child
      <4> QED
        BY <1>0, <1>6, <3>1, <4>1 DEF PollPause, Child, Exits, ChildOK, InLoop, AfterLoop
    <3>2. CASE child' = [child EXCEPT !.at = "exit 1"]
      BY <1>0, <3>2 DEF Child, Exits, ChildOK, InLoop, AfterLoop
    <3>3. CASE child.rounds = Rounds /\ child' = [child EXCEPT !.at = "summary"]
      BY <1>0, <2>1, <2>3, <2>4, <3>3 DEF Child, ChildOK, InLoop, AfterLoop
    <3>4. CASE child.rounds # Rounds /\ child' = [child EXCEPT !.at = "train"]
      <4>1. child.rounds < Rounds
        BY <1>0, <1>2, <2>1, <3>4
      <4> QED
        BY <1>0, <2>1, <2>3, <2>4, <3>4, <4>1 DEF Child, ChildOK, InLoop, AfterLoop
    <3> QED
      BY <1>0, <1>6, <3>1, <3>2, <3>3, <3>4 DEF PollPause, Child
  <2> QED
    BY <1>1, <2>2, <2>3, <2>5, ChildMoves DEF ExecutionInv, UVars
<1> QED
  BY <1>3, <1>4, <1>5, <1>6

(* Finishing keeps the invariant and is the uninterrupted run's finish.     *)
LEMMA EndKeeps == ExecutionInv /\ (WriteSummary \/ Evaluate) => ExecutionInv' /\ [Uninterrupted!Next]_UVars
<1> SUFFICES ASSUME ExecutionInv, WriteSummary \/ Evaluate PROVE ExecutionInv' /\ [Uninterrupted!Next]_UVars
  OBVIOUS
<1>0. /\ ExecutionTypeOK /\ FilesOK /\ ChildOK /\ child \in Child /\ files \in Files /\ Logged \in Nat
  BY DEF ExecutionInv, ExecutionTypeOK, Files, Logged
<1>1. /\ Alive /\ UNCHANGED <<spec, status, persisted, attached, canceling>>
      /\ child.rounds = Rounds /\ Logged = Rounds /\ child.rounds <= Rounds
      /\ After(child.rounds, child)
  BY <1>0 DEF WriteSummary, Evaluate, Alive, Exits, ChildOK, InLoop, AfterLoop
<1>2. PICK place \in {"evaluate", "exit 0", "exit 1"} : child' = [child EXCEPT !.at = place]
  BY DEF WriteSummary, Evaluate
<1>3. /\ files' \in Files /\ files'.history = files.history /\ files'.checkpoint = files.checkpoint
      /\ files' = files \/ files'.summary = TRUE
  BY <1>0 DEF WriteSummary, Evaluate, Files
<1>4. child' \in Child /\ child'.at = place /\ child'.rounds = child.rounds /\ After(child.rounds, child)'
  BY <1>0, <1>1, <1>2 DEF Child, InLoop, AfterLoop, Exits, After, Uninterrupted!RowOf
<1>5. FilesOK' /\ Logged' = Logged
  BY <1>0, <1>1, <1>3, SameLog
<1>6. ChildOK'
  BY <1>0, <1>1, <1>4, <1>5 DEF ChildOK, InLoop, AfterLoop
<1>7. ExecutionInv'
  BY <1>1, <1>3, <1>4, <1>5, <1>6, ChildMoves DEF ExecutionInv
<1>8. CASE files.summary \/ files' = files
  <2>1. UNCHANGED UVars
    BY <1>0, <1>1, <1>3, <1>8 DEF UVars, Files
  <2> QED
    BY <1>7, <2>1
<1>9. CASE ~files.summary /\ files' # files
  <2>1. Uninterrupted!Finish
    BY <1>1, <1>3, <1>9 DEF Uninterrupted!Finish, Logged
  <2> QED
    BY <1>7, <2>1 DEF Uninterrupted!Next
<1> QED
  BY <1>8, <1>9

(* The driver's steps leave log, checkpoint and summary to the child.      *)
LEMMA DriverKeeps ==
  ExecutionInv /\ (ChildDies \/ Pause \/ Cancel \/ KillCanceled \/ WaitForRun \/ Restart \/ EditBaseConfig)
    => ExecutionInv' /\ UNCHANGED UVars
<1> SUFFICES ASSUME ExecutionInv, ChildDies \/ Pause \/ Cancel \/ KillCanceled \/ WaitForRun \/ Restart
                            \/ EditBaseConfig
             PROVE  ExecutionInv' /\ UNCHANGED UVars
  OBVIOUS
<1>0. /\ ExecutionTypeOK /\ FilesOK /\ ChildOK /\ DriverOK /\ child \in Child /\ files \in Files
  BY DEF ExecutionInv, ExecutionTypeOK
<1>1. /\ spec' = spec /\ files' \in Files /\ files'.history = files.history
      /\ files'.checkpoint = files.checkpoint /\ files'.summary = files.summary
      /\ files'.digest = files.digest /\ files'.marker = files.marker
  BY <1>0 DEF ChildDies, Pause, Cancel, KillCanceled, WaitForRun, Restart, EditBaseConfig, Files
<1>2. FilesOK' /\ Logged' = Logged
  BY <1>0, <1>1, SameLog
<1>3. child' \in Child /\ (child' = child \/ (Alive /\ child'.at = "killed"))
  BY <1>0 DEF ChildDies, Pause, Cancel, KillCanceled, WaitForRun, Restart, EditBaseConfig, Child, Exits
<1>4. ChildOK'
  <2>1. CASE child' = child
    BY <1>0, <1>1, <1>2, <2>1 DEF ChildOK, Saved, After, Uninterrupted!RowOf
  <2>2. CASE child'.at = "killed"
    BY <2>2 DEF ChildOK, InLoop, AfterLoop
  <2> QED
    BY <1>3, <2>1, <2>2
<1>5. ExecutionTypeOK' /\ DriverOK'
  <2>1. CASE ChildDies \/ Pause \/ EditBaseConfig
    <3>1. ChildDies => status # "CREATED" /\ status # "PAUSED"
      <4>1. Alive => child.at # "none" /\ child.at # "exit 75"
        BY DEF Alive, Exits
      <4>2. NoChild.at = "none"
        BY DEF NoChild
      <4> QED
        BY <1>0, <4>1, <4>2 DEF DriverOK, ChildDies
    <3>2. CASE Pause
      BY <1>0, <1>1, <1>3, <3>2 DEF Pause, ExecutionTypeOK, DriverOK, Terminal
    <3>3. CASE ChildDies \/ EditBaseConfig
      <4>1. UNCHANGED <<spec, status, persisted, attached, canceling>>
        BY <3>3 DEF ChildDies, EditBaseConfig
      <4>2. status = "CREATED" \/ status = "PAUSED" => child' = child
        BY <3>1, <3>3 DEF ChildDies, EditBaseConfig
      <4> QED
        BY <1>0, <1>1, <1>3, <4>1, <4>2 DEF ExecutionTypeOK, DriverOK
    <3> QED
      BY <2>1, <3>2, <3>3
  <2>2. CASE Cancel
    BY <1>0, <1>1, <1>3, <2>2 DEF Cancel, ExecutionTypeOK, DriverOK, Terminal
  <2>3. CASE KillCanceled
    BY <1>0, <1>1, <1>3, <2>3 DEF KillCanceled, ExecutionTypeOK, DriverOK, Terminal
  <2>4. CASE WaitForRun
    <3>1. /\ Outcome \in {"CANCELED", "PAUSED", "FAILED", "COMPLETED"}
          /\ canceling \/ status = "CANCELED" => Outcome = "CANCELED"
          /\ Outcome = "PAUSED" => child.at = "exit 75"
          /\ Outcome = "COMPLETED" => files.summary
      BY DEF Outcome
    <3> QED
      BY <1>0, <1>1, <1>3, <2>4, <3>1 DEF WaitForRun, ExecutionTypeOK, DriverOK, Terminal
  <2>5. CASE Restart
    <3>1. /\ Recovered \in {"CREATED", "PAUSED"} \cup Terminal
          /\ Recovered \in {"CREATED", "PAUSED"} => Recovered = status
          /\ Recovered = "COMPLETED" => files.summary
      BY <1>0 DEF Recovered, ExecutionTypeOK, DriverOK, Terminal
    <3> QED
      BY <1>0, <1>1, <1>3, <2>5, <3>1 DEF Restart, ExecutionTypeOK, DriverOK, Terminal
  <2> QED
    BY <2>1, <2>2, <2>3, <2>4, <2>5
<1> QED
  BY <1>1, <1>2, <1>4, <1>5 DEF ExecutionInv, UVars

(* Starting and resuming a child keep the invariant.                        *)
LEMMA LaunchKeeps == ExecutionInv /\ (Start \/ Resume) => ExecutionInv' /\ UNCHANGED UVars
<1> SUFFICES ASSUME ExecutionInv, Start \/ Resume PROVE ExecutionInv' /\ UNCHANGED UVars
  OBVIOUS
<1>0. ExecutionTypeOK /\ FilesOK /\ DriverOK /\ child \in Child /\ files \in Files
  BY DEF ExecutionInv, ExecutionTypeOK
<1>1. /\ spec' = spec /\ files' \in Files /\ files'.history = files.history
      /\ files'.checkpoint = files.checkpoint /\ files'.summary = files.summary
  <2>1. CASE Start
    BY <1>0, <2>1 DEF Start, Launch, Files
  <2>2. CASE Resume
    BY <1>0, <2>2 DEF Resume, Launch, Files
  <2> QED
    BY <2>1, <2>2
<1>2. FilesOK' /\ Logged' = Logged
  BY <1>0, <1>1, SameLog
<1>3. child' \in Child /\ child'.at = "boot"
  <2>1. child' = [NoChild EXCEPT !.at = "boot"]
    BY DEF Start, Resume, Launch
  <2> QED
    BY <2>1 DEF NoChild, Child
<1>4. ChildOK'
  BY <1>3 DEF ChildOK, InLoop, AfterLoop
<1>5. ExecutionTypeOK' /\ DriverOK'
  BY <1>0, <1>1, <1>3 DEF Start, Resume, Launch, ExecutionTypeOK, DriverOK, Terminal
<1> QED
  BY <1>1, <1>2, <1>4, <1>5 DEF ExecutionInv, UVars

(* Every step keeps the invariant and is a step of the uninterrupted run, or none. *)
LEMMA NextExecutionInv == ExecutionInv /\ [Next]_vars => ExecutionInv' /\ [Uninterrupted!Next]_UVars
<1>1. CASE UNCHANGED vars
  <2>1. ExecutionInv => ExecutionInv'
    <3>1. ExecutionTypeOK /\ DriverOK => ExecutionTypeOK' /\ DriverOK'
      BY <1>1 DEF vars, ExecutionTypeOK, DriverOK
    <3>2. FilesOK => FilesOK' /\ Logged' = Logged
      BY <1>1, SameLog DEF vars
    <3>3. ChildOK /\ Logged' = Logged => ChildOK'
      BY <1>1 DEF vars, ChildOK, Saved, After, Uninterrupted!RowOf
    <3> QED
      BY <3>1, <3>2, <3>3 DEF ExecutionInv
  <2> QED
    BY <1>1, <2>1 DEF vars, UVars
<1>2. CASE Next
  BY <1>2, BootKeeps, LogKeeps, RoundKeeps, EndKeeps, DriverKeeps, LaunchKeeps DEF Next, ChildStep
<1> QED
  BY <1>1, <1>2

-----------------------------------------------------------------------------
(* The invariant of every behaviour, for any number of rounds, restarts and deaths. *)
THEOREM ExecutionInvariance == Spec => []ExecutionInv
<1>1. ExecutionInv /\ [Next]_vars => ExecutionInv'
  BY NextExecutionInv
<1> QED
  BY InitExecutionInv, <1>1, PTL DEF Spec

(* Control plane, child and files keep their types: what an execution can be in. *)
THEOREM ExecutionTypeCorrect == Spec => []ExecutionTypeOK
<1>1. ExecutionInv => ExecutionTypeOK
  BY DEF ExecutionInv
<1> QED
  BY <1>1, ExecutionInvariance, PTL

(***************************************************************************)
(* Whatever is paused, killed, restarted and resumed, the log grows as     *)
(* that of a run nobody touched: no round twice, none skipped, each with   *)
(* its own draws of the generators and the charges of the rounds before    *)
(* (run_resumable_experiment).                                             *)
(***************************************************************************)
THEOREM RefinesUninterrupted == Spec => RunsAsUninterrupted
<1>1. Init => Uninterrupted!Init
  BY InitExecutionInv
<1>2. ExecutionInv /\ [Next]_vars => [Uninterrupted!Next]_<<spec.dp, files.history, files.summary>>
  BY NextExecutionInv DEF UVars
<1> QED
  BY <1>1, <1>2, ExecutionInvariance, PTL DEF Spec, RunsAsUninterrupted, Uninterrupted!Spec

(***************************************************************************)
(* A run shown as PAUSED has its evidence, no process in its directory,    *)
(* and files of one round, so a resume finds what it checks for            *)
(* (restore_runtime_checkpoint) unless the configuration was edited.       *)
(***************************************************************************)
THEOREM PausedCorrect == Spec => []PausedIsResumable
<1>1. ExecutionInv => PausedIsResumable
  <2> SUFFICES ASSUME ExecutionInv, status = "PAUSED"
               PROVE  /\ ~Alive /\ PauseEvidence /\ files.marker = files.checkpoint.rounds
                      /\ files.checkpoint.edited = files.edited => CanRestore
    BY DEF PausedIsResumable
  <2>1. /\ child.at = "exit 75" /\ FilesOK /\ files \in Files /\ Rounds \in Nat
        /\ files.checkpoint.rounds = Logged /\ files.digest = Logged
        /\ files.marker = Logged /\ Logged # 0 /\ Logged \in Nat
    BY BoundsAssumption DEF ExecutionInv, DriverOK, ChildOK, Saved, ExecutionTypeOK, Files, Logged
  <2>2. files.checkpoint # NoCheckpoint /\ Logged <= Rounds
    <3>1. NoCheckpoint.rounds = 0
      BY DEF NoCheckpoint
    <3>2. Logged # 0
      BY <2>1
    <3>3. files.checkpoint.rounds # 0
      BY <2>1, <3>2
    <3> QED
      BY <2>1, <3>1, <3>3 DEF FilesOK
  <2>3. \A n \in 1..Logged : files.history[n].round = n
    <3>1. files.history = [i \in 1..Logged |-> Uninterrupted!RowOf(i)]
      BY <2>1 DEF FilesOK, Uninterrupted!HistoryOf
    <3> QED
      BY <3>1 DEF Uninterrupted!RowOf
  <2>4. ~Alive /\ PauseEvidence
    <3>1. ~Alive
      BY <2>1 DEF Alive, Exits
    <3>2. Logged \in Nat /\ Rounds \in Nat /\ Logged # 0 /\ Logged <= Rounds
      BY <2>1, <2>2
    <3>3. Logged \in 1..Rounds
      BY <3>2
    <3> QED
      BY <2>1, <2>2, <3>1, <3>3 DEF PauseEvidence
  <2>5. files.checkpoint.edited = files.edited => CanRestore
    BY <2>1, <2>2, <2>3 DEF CanRestore, Logged
  <2> QED
    BY <2>1, <2>4, <2>5
<1> QED
  BY <1>1, ExecutionInvariance, PTL

(***************************************************************************)
(* An outcome once reported stays: the waiter, a cancel's kill after the   *)
(* mutex was let go, and a restart all agree with it (waitForRun, Cancel,  *)
(* reconcileRecoveredLocalRun).                                            *)
(***************************************************************************)
THEOREM OutcomeCorrect == Spec => OutcomeIsFinal
<1>1. ExecutionInv /\ [Next]_vars => [(status \in Terminal) => (status' = status)]_vars
  <2> SUFFICES ASSUME ExecutionInv, Next, status \in Terminal PROVE status' = status
    OBVIOUS
  <2>1. DriverOK
    BY DEF ExecutionInv
  <2>2. CASE ChildStep \/ ChildDies \/ EditBaseConfig
    BY <2>2 DEF ChildStep, Boot, TrainRound, LogRound, SaveCheckpoint, SaveDigest, PollPause,
                WriteSummary, Evaluate, ChildDies, EditBaseConfig
  <2>3. CASE Start \/ Pause \/ Resume \/ Cancel
    BY <2>3 DEF Start, Pause, Resume, Cancel, Terminal
  <2>4. CASE KillCanceled \/ WaitForRun
    BY <2>1, <2>4 DEF KillCanceled, WaitForRun, DriverOK, Outcome
  <2>5. CASE Restart
    BY <2>1, <2>5 DEF Restart, Recovered, DriverOK, Terminal
  <2> QED
    BY <2>2, <2>3, <2>4, <2>5 DEF Next
<1> QED
  BY <1>1, ExecutionInvariance, PTL DEF Spec, OutcomeIsFinal

-----------------------------------------------------------------------------
(***************************************************************************)
(* AsyncProcessor: what it promises, for any clients, payloads and         *)
(* staleness limit and any number of results.                              *)
(***************************************************************************)


(***************************************************************************)
(* A state counts: its version is the length of its model, which holds no  *)
(* update twice and whose updates its replay table lists.                  *)
(***************************************************************************)
Counted(state) ==
    /\ state.version = Len(state.model)
    /\ state.applied = {state.model[i] : i \in 1 .. Len(state.model)}
    /\ \A i, j \in 1 .. Len(state.model) : state.model[i].id = state.model[j].id => i = j

(***************************************************************************)
(* A state in the memory may be ahead of the disk, by updates whose save   *)
(* raised and stayed there.                                                *)
(***************************************************************************)
Ahead(state) ==
    /\ Counted(state)
    /\ Precedes(disk.model, state.model)
    /\ state.applied \subseteq disk.applied \cup unsaved

Synchronized ==
    /\ memory = Down => call = Idle
    /\ Running => Ahead(memory)
    /\ call.stage = "applied" =>
           /\ Ahead(call.before)
           /\ Accepts(call.before, call.result.update)
           /\ \E finite \in BOOLEAN :
                  memory = Applied(call.before, call.result.update, finite)
           /\ call.result \in results
    /\ call.stage = "saved" =>
           /\ Counted(call.before)
           /\ Accepts(call.before, call.result.update)
           /\ disk = Applied(call.before, call.result.update, disk.finite)
           /\ memory = disk
           /\ call.result \in results

(***************************************************************************)
(* Who trained on a model that was on disk trained on the beginning of     *)
(* what the checkpoint holds.                                              *)
(***************************************************************************)
ReadsPrecede ==
    \A r \in results :
        r.durable => Precedes(r.read, disk.model) /\ Len(r.read) = r.update.id.base

ProcessorInv ==
    /\ TypeOK
    /\ Counted(disk)
    /\ ConfirmedIsDurable
    /\ Synchronized
    /\ ReadsPrecede

-----------------------------------------------------------------------------
(* Applying an accepted update to a state in order leaves one in order,     *)
(* which holds what was there before and the update.                       *)
LEMMA AppliedCounted ==
    ASSUME NEW state \in State, NEW u \in Update, NEW finite \in BOOLEAN,
           Counted(state), Accepts(state, u)
    PROVE  /\ Applied(state, u, finite) \in State
           /\ Counted(Applied(state, u, finite))
           /\ Applied(state, u, finite).applied = state.applied \cup {u}
           /\ Precedes(state.model, Applied(state, u, finite).model)
  <1> DEFINE new == Applied(state, u, finite)
  <1>1. /\ state.version \in Nat /\ state.model \in Seq(Update)
        /\ state.applied \in SUBSET Update
    BY DEF State
  <1>2. /\ new.version = state.version + 1
        /\ new.model = Append(state.model, u)
        /\ new.applied = state.applied \cup {u}
    BY DEF Applied
  <1>3. new \in State
    BY <1>1 DEF State, Applied
  <1>4. /\ Len(new.model) = Len(state.model) + 1
        /\ \A i \in 1 .. Len(state.model) : new.model[i] = state.model[i]
        /\ new.model[Len(state.model) + 1] = u
    BY <1>1, <1>2
  <1>5. Precedes(state.model, new.model)
    BY <1>1, <1>4 DEF Precedes
  <1>6. new.applied = {new.model[i] : i \in 1 .. Len(new.model)}
    BY <1>1, <1>2, <1>4 DEF Counted
  <1>7. \A i \in 1 .. Len(state.model) : state.model[i].id # u.id
    BY <1>1 DEF Accepts, Replayed, Counted
  <1>8. \A i, j \in 1 .. Len(new.model) : new.model[i].id = new.model[j].id => i = j
    <2> DEFINE n == Len(state.model)
    <2> HIDE DEF new
    <2> SUFFICES ASSUME NEW i \in 1 .. n + 1, NEW j \in 1 .. n + 1,
                        new.model[i].id = new.model[j].id
                 PROVE  i = j
      BY <1>4
    <2>1. n \in Nat BY <1>1
    <2>2. CASE i \in 1 .. n /\ j \in 1 .. n BY <1>4, <2>2 DEF Counted
    <2>3. CASE i = n + 1 /\ j \in 1 .. n BY <1>4, <1>7, <2>3
    <2>4. CASE i \in 1 .. n /\ j = n + 1 BY <1>4, <1>7, <2>4
    <2>5. CASE i = n + 1 /\ j = n + 1 BY <2>5
    <2> QED BY <2>1, <2>2, <2>3, <2>4, <2>5
  <1>9. Counted(new)
    BY <1>1, <1>2, <1>4, <1>6, <1>8 DEF Counted
  <1> QED BY <1>2, <1>3, <1>5, <1>9

(* What precedes a sequence precedes every longer one.                      *)
LEMMA PrecedesTransitive ==
    ASSUME NEW r \in Seq(Update), NEW s \in Seq(Update), NEW t \in Seq(Update),
           Precedes(r, s), Precedes(s, t)
    PROVE  Precedes(r, t)
  BY DEF Precedes

(* Two beginnings of one sequence: the shorter precedes the longer.         *)
LEMMA PrecedesShorter ==
    ASSUME NEW r \in Seq(Update), NEW s \in Seq(Update), NEW t \in Seq(Update),
           Precedes(r, t), Precedes(s, t), Len(r) <= Len(s)
    PROVE  Precedes(r, s)
  BY DEF Precedes

(* A longer model has a longer replay table.                                *)
LEMMA PrecedesApplied ==
    ASSUME NEW s \in State, NEW t \in State, Counted(s), Counted(t), Precedes(s.model, t.model)
    PROVE  s.applied \subseteq t.applied
  <1>1. /\ Len(s.model) \in Nat /\ Len(t.model) \in Nat
    BY DEF State
  <1> QED BY <1>1 DEF Counted, Precedes

(* The invariant holds before the first result.                             *)
LEMMA InitProcessorInv == ProcessorInit => ProcessorInv
  <1> SUFFICES ASSUME ProcessorInit PROVE ProcessorInv OBVIOUS
  <1>1. InitialState \in State /\ Len(InitialState.model) = 0
    BY DEF State, InitialState
  <1>2. TypeOK BY <1>1 DEF ProcessorInit, TypeOK
  <1>3. Counted(disk) BY <1>1 DEF ProcessorInit, Counted, InitialState
  <1>4. Ahead(memory) BY <1>1, <1>3 DEF ProcessorInit, Ahead, Precedes
  <1>5. Synchronized /\ ReadsPrecede /\ ConfirmedIsDurable
    BY <1>4 DEF ProcessorInit, Synchronized, Idle, ReadsPrecede, ConfirmedIsDurable
  <1> QED BY <1>2, <1>3, <1>5 DEF ProcessorInv

(* What the invariant says of a call whose update is applied.               *)
LEMMA AppliedStage ==
    ASSUME ProcessorInv, call.stage = "applied"
    PROVE  /\ call \in AtWork /\ call.result \in Result /\ call.result \in results
           /\ call.before \in State /\ call.result.update \in Update
           /\ Ahead(call.before) /\ Accepts(call.before, call.result.update)
           /\ memory \in State /\ Counted(memory)
           /\ memory = Applied(call.before, call.result.update, memory.finite)
           /\ memory.applied = call.before.applied \cup {call.result.update}
           /\ Precedes(call.before.model, memory.model)
           /\ Precedes(disk.model, memory.model)
  <1>1. call \in AtWork BY DEF ProcessorInv, TypeOK, Idle
  <1>2. /\ call.result \in Result /\ call.before \in State /\ call.result.update \in Update
    BY <1>1 DEF AtWork, Result
  <1>3. /\ Ahead(call.before) /\ Accepts(call.before, call.result.update)
        /\ call.result \in results /\ disk \in State
    BY DEF ProcessorInv, Synchronized, TypeOK
  <1>4. PICK finite \in BOOLEAN : memory = Applied(call.before, call.result.update, finite)
    BY DEF ProcessorInv, Synchronized
  <1>5. memory.finite = finite BY <1>4 DEF Applied
  <1>6. /\ memory \in State /\ Counted(memory)
        /\ memory.applied = call.before.applied \cup {call.result.update}
        /\ Precedes(call.before.model, memory.model)
    BY <1>2, <1>3, <1>4, AppliedCounted DEF Ahead
  <1>7. disk.model \in Seq(Update) /\ memory.model \in Seq(Update) /\ call.before.model \in Seq(Update)
    BY <1>2, <1>3, <1>6 DEF State
  <1>8. Precedes(disk.model, memory.model)
    BY <1>3, <1>6, <1>7, PrecedesTransitive DEF Ahead
  <1> QED BY <1>1, <1>2, <1>3, <1>4, <1>5, <1>6, <1>8

(* Replay table, counter and uniqueness of the checkpoint survive a step,   *)
(* and the checkpoint only grows.                                          *)
LEMMA CheckpointGrowsStep ==
    ASSUME ProcessorInv, [ProcessorNext]_processorVars
    PROVE  /\ disk' \in State
           /\ Counted(disk')
           /\ disk.applied \subseteq disk'.applied
           /\ Precedes(disk.model, disk'.model)
  <1>1. disk \in State /\ Counted(disk) BY DEF ProcessorInv, TypeOK
  <1>2. CASE disk' = disk
    BY <1>1, <1>2 DEF State, Precedes
  <1>3. CASE Save
    BY <1>1, <1>3, AppliedStage, PrecedesApplied DEF Save
  <1>4. CASE ~Save
    BY <1>2, <1>4 DEF ProcessorNext, processorVars, Train, AnswerDuplicate, ApplyResult,
                      SaveFails, SaveRaises, Answer, Crash, LoadOrCreate
  <1> QED BY <1>3, <1>4

(* Results stay results, and the models they were computed from stay in the model's history. *)
LEMMA ReadsStep == ProcessorInv /\ [ProcessorNext]_processorVars => ReadsPrecede' /\ results' \subseteq Result
  <1> SUFFICES ASSUME ProcessorInv, [ProcessorNext]_processorVars PROVE ReadsPrecede' /\ results' \subseteq Result
    OBVIOUS
  <1> DEFINE Good(r) == r.durable => Precedes(r.read, disk'.model) /\ Len(r.read) = r.update.id.base
  <1>1. /\ disk \in State /\ disk' \in State /\ Counted(disk) /\ results \subseteq Result
        /\ memory \in State \cup {Down}
        /\ Precedes(disk.model, disk'.model)
    BY CheckpointGrowsStep DEF ProcessorInv, TypeOK
  <1>2. /\ disk.model \in Seq(Update) /\ disk'.model \in Seq(Update)
        /\ disk.version = Len(disk.model) /\ disk.version \in Nat
    BY <1>1 DEF State, Counted
  <1>3. \A r \in results : Good(r)
    <2> TAKE r \in results
    <2>1. r.read \in Seq(Update) BY <1>1 DEF Result
    <2>2. r.durable => Precedes(r.read, disk.model) /\ Len(r.read) = r.update.id.base
      BY DEF ProcessorInv, ReadsPrecede
    <2> QED BY <1>1, <1>2, <2>1, <2>2, PrecedesTransitive
  <1>4. CASE Train
    <2>1. memory \in State /\ disk' = disk BY <1>1, <1>4 DEF Train, Running
    <2>2. PICK c \in Clients, k \in RoundIds, d \in Deltas :
             results' = results \cup
               {[update |-> [id |-> [client |-> c, round |-> k, base |-> memory.version],
                             delta |-> d],
                 read |-> memory.model, durable |-> (memory = disk)]}
      BY <1>4 DEF Train
    <2> DEFINE new == [update |-> [id |-> [client |-> c, round |-> k, base |-> memory.version],
                                   delta |-> d],
                       read |-> memory.model, durable |-> (memory = disk)]
    <2>3. memory.model \in Seq(Update) /\ memory.version \in Nat BY <2>1 DEF State
    <2>4. new \in Result BY <2>3 DEF Result, Update, UpdateId
    <2>5. Good(new)
      <3>1. CASE memory = disk
        <4>1. new.read = disk.model /\ new.update.id.base = disk.version BY <3>1
        <4> QED BY <1>2, <2>1, <4>1 DEF Precedes
      <3>2. CASE memory # disk
        BY <3>2, Zenon
      <3> QED BY <3>1, <3>2
    <2> HIDE DEF Good
    <2>6. results' = results \cup {new} BY <2>2
    <2>7. \A r \in results' : Good(r) BY <1>3, <2>5, <2>6
    <2> QED BY <1>1, <2>4, <2>6, <2>7 DEF ReadsPrecede, Good
  <1>5. CASE ~Train
    <2>1. results' = results
      BY <1>5 DEF ProcessorNext, processorVars, AnswerDuplicate, ApplyResult, Save, SaveFails,
                  SaveRaises, Answer, Crash, LoadOrCreate
    <2> QED BY <1>1, <1>3, <2>1 DEF ReadsPrecede
  <1> QED BY <1>4, <1>5

(* Every step of the processor keeps the invariant.                         *)
LEMMA StepProcessorInv == ProcessorInv /\ [ProcessorNext]_processorVars => ProcessorInv'
  <1> SUFFICES ASSUME ProcessorInv, [ProcessorNext]_processorVars PROVE ProcessorInv' OBVIOUS
  <1>1. /\ memory \in State \cup {Down} /\ disk \in State
        /\ call = Idle \/ call \in AtWork
        /\ results \subseteq Result /\ confirmed \subseteq Update /\ unsaved \subseteq Update
        /\ Counted(disk) /\ ConfirmedIsDurable /\ Synchronized
    BY DEF ProcessorInv, TypeOK
  <1>2. /\ disk' \in State /\ Counted(disk') /\ disk.applied \subseteq disk'.applied
        /\ Precedes(disk.model, disk'.model)
    BY CheckpointGrowsStep
  <1>3. ReadsPrecede' /\ results' \subseteq Result BY ReadsStep
  <1>4. Counted(disk)' BY <1>2 DEF Counted
  <1> SUFFICES /\ (memory \in State \cup {Down})' /\ (call = Idle \/ call \in AtWork)'
               /\ (confirmed \subseteq Update)' /\ (unsaved \subseteq Update)'
               /\ ConfirmedIsDurable' /\ Synchronized'
    BY <1>2, <1>3, <1>4 DEF ProcessorInv, TypeOK
  <1>5. CASE Train
    <2>1. /\ UNCHANGED <<memory, disk, call, confirmed, unsaved>> /\ call = Idle
      BY <1>5 DEF Train, Running
    <2>2. Synchronized' BY <1>1, <2>1 DEF Synchronized, Running, Ahead, Counted, Idle
    <2> QED BY <1>1, <2>1, <2>2 DEF ConfirmedIsDurable
  <1>6. CASE AnswerDuplicate
    <2>1. /\ Running /\ Ahead(memory) /\ UNCHANGED <<memory, disk, call, results, unsaved>>
      BY <1>1, <1>6 DEF AnswerDuplicate, Ready, Synchronized
    <2>2. PICK r \in results : /\ r.update \in memory.applied
                               /\ confirmed' = confirmed \cup {r.update}
      BY <1>6 DEF AnswerDuplicate
    <2>3. ConfirmedIsDurable' BY <1>1, <2>1, <2>2 DEF ConfirmedIsDurable, Ahead
    <2>4. r.update \in Update BY <1>1 DEF Result
    <2>5. Synchronized' BY <1>1, <2>1 DEF Synchronized, Idle, Running, Ahead, Counted
    <2> QED BY <1>1, <2>1, <2>2, <2>3, <2>4, <2>5
  <1>7. CASE ApplyResult
    <2>1. Running /\ Ahead(memory) /\ UNCHANGED <<disk, results, confirmed, unsaved>>
      BY <1>1, <1>7 DEF ApplyResult, Ready, Synchronized
    <2>2. PICK r \in results, finite \in BOOLEAN :
             /\ Accepts(memory, r.update)
             /\ memory' = Applied(memory, r.update, finite)
             /\ call' = [stage |-> "applied", result |-> r, before |-> memory]
      BY <1>7 DEF ApplyResult
    <2>3. /\ r \in Result /\ r.update \in Update /\ memory \in State
      BY <1>1, <2>1 DEF Result, Running
    <2>4. memory' \in State BY <2>1, <2>2, <2>3, AppliedCounted DEF Ahead
    <2>5. /\ call' \in AtWork /\ call'.stage = "applied"
          /\ call'.result = r /\ call'.before = memory
      BY <1>1, <2>2, <2>3 DEF AtWork
    <2>6. memory' # Down BY <2>4, ProcessorAssumption
    <2>7. Ahead(call.before)'
      BY <2>1, <2>5 DEF Ahead, Counted
    <2>8. Accepts(call.before, call.result.update)' BY <2>2, <2>5 DEF Accepts, Replayed, Staleness
    <2>9. (memory = Applied(call.before, call.result.update, finite))'
      BY <2>2, <2>5 DEF Applied
    <2>10. ~Running' BY <2>5 DEF Running, Idle
    <2>11. Synchronized'
      BY <2>1, <2>2, <2>5, <2>6, <2>7, <2>8, <2>9, <2>10 DEF Synchronized
    <2> QED BY <1>1, <2>1, <2>4, <2>5, <2>11 DEF ConfirmedIsDurable
  <1>8. CASE Save
    <2>1. /\ call.stage = "applied" /\ disk' = memory
          /\ call' = [call EXCEPT !.stage = "saved"]
          /\ unsaved' = unsaved \ memory.applied
          /\ UNCHANGED <<memory, results, confirmed>>
      BY <1>8 DEF Save
    <2>2. /\ call \in AtWork /\ call.result \in results
          /\ Counted(call.before) /\ Accepts(call.before, call.result.update)
          /\ memory \in State
          /\ memory = Applied(call.before, call.result.update, memory.finite)
      BY <2>1, AppliedStage DEF Ahead
    <2>3. /\ call' \in AtWork /\ call'.stage = "saved"
          /\ call'.before = call.before /\ call'.result = call.result
      BY <2>1, <2>2 DEF AtWork
    <2>4. Counted(call.before)' BY <2>2, <2>3 DEF Counted
    <2>5. Accepts(call.before, call.result.update)'
      BY <2>2, <2>3 DEF Accepts, Replayed, Staleness
    <2>6. (disk = Applied(call.before, call.result.update, disk.finite) /\ memory = disk)'
      BY <2>1, <2>2, <2>3 DEF Applied
    <2>7. memory' # Down /\ ~Running'
      BY <2>1, <2>2, <2>3, ProcessorAssumption DEF Running, Idle
    <2>8. Synchronized'
      BY <2>1, <2>2, <2>3, <2>4, <2>5, <2>6, <2>7 DEF Synchronized
    <2>9. ConfirmedIsDurable' BY <1>1, <1>2, <2>1 DEF ConfirmedIsDurable
    <2> QED BY <1>1, <2>1, <2>3, <2>8, <2>9
  <1>9. CASE SaveFails
    <2>1. /\ call.stage = "applied" /\ memory' = call.before /\ call' = Idle
          /\ UNCHANGED <<disk, results, confirmed, unsaved>>
      BY <1>9 DEF SaveFails
    <2>2. call.before \in State /\ Ahead(call.before) BY <2>1, AppliedStage
    <2>3. Ahead(memory)' BY <2>1, <2>2 DEF Ahead, Counted
    <2>4. Synchronized' BY <2>1, <2>3 DEF Synchronized, Idle
    <2> QED BY <1>1, <2>1, <2>2, <2>4 DEF ConfirmedIsDurable
  <1>10. CASE SaveRaises
    <2>1. /\ call.stage = "applied" /\ unsaved' = unsaved \cup {call.result.update}
          /\ call' = Idle
          /\ UNCHANGED <<memory, disk, results, confirmed>>
      BY <1>10 DEF SaveRaises
    <2>2. /\ call.result.update \in Update /\ Ahead(call.before) /\ memory \in State
          /\ Counted(memory) /\ Precedes(disk.model, memory.model)
          /\ memory.applied = call.before.applied \cup {call.result.update}
      BY <2>1, AppliedStage
    <2>3. Ahead(memory)'
      <3>1. Counted(memory)' BY <2>1, <2>2 DEF Counted
      <3>2. (memory.applied \subseteq disk.applied \cup unsaved)'
        BY <2>1, <2>2 DEF Ahead
      <3>3. Precedes(disk.model, memory.model)' BY <2>1, <2>2 DEF Precedes
      <3> QED BY <3>1, <3>2, <3>3 DEF Ahead
    <2>4. memory # Down BY <2>2, ProcessorAssumption
    <2>5. Synchronized' BY <2>1, <2>3, <2>4 DEF Synchronized, Idle
    <2> QED BY <1>1, <2>1, <2>2, <2>5 DEF ConfirmedIsDurable
  <1>11. CASE Answer
    <2>1. /\ call.stage = "saved" /\ confirmed' = confirmed \cup {call.result.update}
          /\ call' = Idle /\ UNCHANGED <<memory, disk, results, unsaved>>
      BY <1>11 DEF Answer
    <2>2. call \in AtWork /\ call.result.update \in Update
      BY <1>1, <2>1 DEF Idle, AtWork, Result
    <2>3. memory = disk /\ call.result.update \in disk.applied
      BY <1>1, <2>1 DEF Synchronized, Applied
    <2>4. Ahead(memory)' BY <1>1, <2>1, <2>3 DEF Ahead, Counted, Precedes, State
    <2>5. memory # Down BY <1>1, <2>3, ProcessorAssumption
    <2>6. Synchronized' BY <2>1, <2>4, <2>5 DEF Synchronized, Idle
    <2> QED BY <1>1, <2>1, <2>2, <2>3, <2>6 DEF ConfirmedIsDurable
  <1>12. CASE Crash
    BY <1>1, <1>12 DEF Crash, Synchronized, Running, Idle, ConfirmedIsDurable
  <1>13. CASE LoadOrCreate
    <2>1. /\ memory' = disk /\ call = Idle /\ UNCHANGED <<disk, call, results, confirmed, unsaved>>
      BY <1>1, <1>13 DEF LoadOrCreate, Synchronized
    <2>2. Ahead(memory)' BY <1>1, <2>1 DEF Ahead, Counted, Precedes, State
    <2>3. memory' # Down BY <1>1, <2>1, ProcessorAssumption
    <2>4. Synchronized' BY <2>1, <2>2, <2>3 DEF Synchronized, Idle
    <2> QED BY <1>1, <2>1, <2>4 DEF ConfirmedIsDurable
  <1>14. CASE UNCHANGED processorVars
    BY <1>1, <1>14 DEF processorVars, Synchronized, Running, Ahead, Counted, ConfirmedIsDurable, AtWork
  <1> QED
    BY <1>5, <1>6, <1>7, <1>8, <1>9, <1>10, <1>11, <1>12, <1>13, <1>14 DEF ProcessorNext

(* The invariant of the processor.                                          *)
LEMMA ProcessorInvCorrect == ProcessorSpec => []ProcessorInv
  BY InitProcessorInv, StepProcessorInv, PTL DEF ProcessorSpec

-----------------------------------------------------------------------------
(* The processor, its checkpoint and its calls keep their types, for any    *)
(* number of results.                                                      *)
THEOREM ProcessorTypeCorrect == ProcessorSpec => []TypeOK
  <1>1. ProcessorInv => TypeOK BY DEF ProcessorInv
  <1> QED BY <1>1, ProcessorInvCorrect, PTL

(* A confirmed update is in the checkpoint, whatever write failed and       *)
(* whenever the process died, but for the updates the memory kept although  *)
(* saving them raised: none else is ever confirmed ahead of the disk.       *)
THEOREM ConfirmedCorrect == ProcessorSpec => []ConfirmedIsDurable
  <1>1. ProcessorInv => ConfirmedIsDurable BY DEF ProcessorInv
  <1> QED BY <1>1, ProcessorInvCorrect, PTL

(* No update identity is in the durable model twice, and the replay table   *)
(* beside it lists exactly what the model holds.                           *)
THEOREM AppliedOnceCorrect == ProcessorSpec => []AppliedOnce
  <1>1. ProcessorInv => AppliedOnce BY DEF ProcessorInv, Counted, AppliedOnce
  <1> QED BY <1>1, ProcessorInvCorrect, PTL

(* The staleness of an accepted update is the number of updates between the *)
(* model it was trained on and the one it is applied to, if the model it    *)
(* was trained on was on disk: then no rollback and no crash, and nothing   *)
(* the memory gathered ahead of the disk, comes between the two.            *)
THEOREM AncestorCorrect == ProcessorSpec => []TrainedOnAncestor
  <1>1. ProcessorInv => TrainedOnAncestor
    <2> SUFFICES ASSUME ProcessorInv, call # Idle, call.result.durable PROVE
          /\ Precedes(call.result.read, call.before.model)
          /\ Len(call.before.model) - Len(call.result.read)
                 = Staleness(call.before, call.result.update)
      BY DEF TrainedOnAncestor
    <2> DEFINE read == call.result.read
               before == call.before
               u == call.result.update
    <2>1. call \in AtWork /\ disk \in State BY DEF ProcessorInv, TypeOK
    <2>2. /\ before \in State /\ before.model \in Seq(Update) /\ before.version \in Nat
          /\ read \in Seq(Update) /\ u \in Update /\ u.id.base \in Nat
          /\ disk.model \in Seq(Update)
      BY <2>1 DEF AtWork, State, Result, Update, UpdateId
    <2>3. /\ Counted(before) /\ Accepts(before, u) /\ call.result \in results
      BY <2>1 DEF ProcessorInv, Synchronized, AtWork, Ahead
    <2>4. before.version = Len(before.model) BY <2>3 DEF Counted
    <2>5. Precedes(read, disk.model) /\ Len(read) = u.id.base
      BY <2>3 DEF ProcessorInv, ReadsPrecede
    <2>6. Len(read) <= Len(before.model)
      BY <2>2, <2>3, <2>4, <2>5, ProcessorAssumption, SMTT(60) DEF Accepts, Staleness
    <2>7. Precedes(read, before.model)
      <3>1. CASE call.stage = "applied"
        <4>1. Precedes(disk.model, before.model) BY <3>1, AppliedStage DEF Ahead
        <4> QED BY <2>2, <2>5, <4>1, PrecedesTransitive
      <3>2. CASE call.stage = "saved"
        <4>1. /\ disk.finite \in BOOLEAN /\ disk = Applied(before, u, disk.finite)
          BY <2>1, <3>2 DEF ProcessorInv, Synchronized, State
        <4>2. Precedes(before.model, disk.model)
          BY <2>2, <2>3, <4>1, AppliedCounted
        <4> QED BY <2>2, <2>5, <2>6, <4>2, PrecedesShorter
      <3> QED BY <2>1, <3>1, <3>2 DEF AtWork
    <2>8. Len(before.model) - Len(read) = Staleness(before, u)
      BY <2>2, <2>4, <2>5 DEF Staleness
    <2> QED BY <2>7, <2>8
  <1> QED BY <1>1, ProcessorInvCorrect, PTL

(* No checkpoint takes back what an earlier one holds.                      *)
THEOREM GrowsCorrect == ProcessorSpec => CheckpointGrows
  <1>1. ProcessorInv /\ [ProcessorNext]_processorVars => [Precedes(disk.model, disk'.model)]_processorVars
    BY CheckpointGrowsStep
  <1> QED BY <1>1, ProcessorInvCorrect, PTL DEF ProcessorSpec, CheckpointGrows

-----------------------------------------------------------------------------
(***************************************************************************)
(* BenchmarkMatrix: for any plan and any number of edits, interruptions    *)
(* and launches.                                                           *)
(***************************************************************************)


(* What an evaluated summary of a process that was alone has to report.       *)
Faithful(summary) ==
    summary.kind = "evaluated" /\ summary.alone =>
        summary.model = summary.of /\ summary.on = summary.of.config

Dir(dir) ==
    dir = [config |-> dir.config, partition |-> dir.partition,
           checkpoint |-> dir.checkpoint, summary |-> dir.summary]

DirsOK == dirs = [cell \in Cells |-> dirs[cell]] /\ \A cell \in Cells : Dir(dirs[cell])

Trained(training) ==
    training = [id |-> training.id, config |-> training.config, accuracy |-> training.accuracy]

Process(process) ==
    /\ process.cell \in Cells
    /\ process.alone \in BOOLEAN
    /\ process = [cell |-> process.cell, stage |-> process.stage, training |-> process.training,
                  alone |-> process.alone, result |-> process.result]
    /\ Trained(process.training)

(* A process that is alone finds in its directory what it wrote itself, from  *)
(* the moment it wrote it.                                                    *)
OwnFiles(process, dir) ==
    process.alone =>
        /\ process.stage \in {"training", "summary", "evaluation"} =>
               dir.partition = process.training.config
        /\ process.stage \in {"summary", "evaluation"} => dir.checkpoint = process.training
        /\ process.stage = "evaluation" =>
               dir.summary.kind = "trained" /\ dir.summary.of = process.training

ResultOK(process) == process.stage = "result" => Faithful(process.result)

ProcessesOK ==
    \A process \in children :
        Process(process) /\ OwnFiles(process, dirs[process.cell]) /\ ResultOK(process)

(* Of two processes at work in one directory neither counts as alone.         *)
Separate ==
    \A a, b \in children :
        a # b /\ a.cell = b.cell /\ Live(a) /\ Live(b) => ~a.alone /\ ~b.alone

(* The hash of a partition is that of the data the metric was measured on.    *)
Told(observations) == \A o \in observations : o.alone => o.partition = o.measured

RunShape ==
    run = [pc |-> run.pc, todo |-> run.todo, config |-> run.config, resume |-> run.resume,
           keepGoing |-> run.keepGoing, waits |-> run.waits, failures |-> run.failures,
           observations |-> run.observations]

RunOK ==
    run.pc # "none" =>
        /\ RunShape
        /\ run.todo \in Seq(Cells)
        /\ run.pc = "waiting" => run.todo # <<>>
        /\ Told(run.observations)

MatrixInvariant ==
    DirsOK /\ ProcessesOK /\ Separate /\ RunOK /\ EvaluatedAsTrained /\ ComparedLikeWithLike

(* The plan is a sequence of the cells.                                       *)
LEMMA PlanIsSequence == Plan \in Seq(Cells)
<1>1. IsFiniteSet(Algorithms \X Seeds)
  BY MatrixAssumption, FS_Product
<1>2. [cell \in Cells |-> <<cell.algorithm, cell.seed>>] \in Injection(Cells, Algorithms \X Seeds)
  <2>1. [cell \in Cells |-> <<cell.algorithm, cell.seed>>] \in [Cells -> Algorithms \X Seeds]
    BY DEF Cells
  <2>2. ASSUME NEW a \in Cells, NEW b \in Cells,
               <<a.algorithm, a.seed>> = <<b.algorithm, b.seed>>
        PROVE  a = b
    BY <2>2 DEF Cells
  <2> QED
    BY <2>1, <2>2 DEF Injection, IsInjective
<1>3. IsFiniteSet(Cells)
  BY <1>1, <1>2, FS_Injection
<1>4. /\ Cardinality(Cells) \in Nat
      /\ \E f \in [1 .. Cardinality(Cells) -> Cells] : IsInjective(f)
  <2>1. Cardinality(Cells) \in Nat /\ ExistsBijection(1 .. Cardinality(Cells), Cells)
    BY <1>3, FS_CardinalityType
  <2> QED
    BY <2>1 DEF ExistsBijection, Bijection, Injection
<1>5. Plan \in [1 .. Cardinality(Cells) -> Cells]
  BY <1>4 DEF Plan, SetToSeq
<1> QED
  BY <1>4, <1>5

(* The invariant holds before a matrix is run.                              *)
LEMMA MatrixInitial == MatrixInit => MatrixInvariant
<1> SUFFICES ASSUME MatrixInit PROVE MatrixInvariant
  OBVIOUS
<1>1. \A cell \in Cells : dirs[cell] = EmptyDir
  BY DEF MatrixInit
<1>2. DirsOK /\ EvaluatedAsTrained
  BY <1>1 DEF MatrixInit, DirsOK, Dir, EvaluatedAsTrained, EmptyDir, Nothing
<1>3. ProcessesOK /\ Separate /\ RunOK /\ ComparedLikeWithLike
  BY SMTT(60) DEF MatrixInit, ProcessesOK, Separate, RunOK, NoRun, ComparedLikeWithLike
<1> QED
  BY <1>2, <1>3 DEF MatrixInvariant

(* The process that another one becomes when it trained ...                   *)
WithTraining(process, stage, training) ==
    [process EXCEPT !.stage = stage, !.training = training]

LEMMA TrainingSet ==
    ASSUME NEW process, Process(process), NEW stage, NEW training, Trained(training)
    PROVE  LET new == WithTraining(process, stage, training)
           IN  /\ Process(new)
               /\ new.stage = stage /\ new.cell = process.cell /\ new.alone = process.alone
               /\ new.training = training
<1>0. PICK new : new = WithTraining(process, stage, training)
  OBVIOUS
<1>1. new = [cell |-> new.cell, stage |-> new.stage, training |-> new.training,
             alone |-> new.alone, result |-> new.result]
  BY <1>0 DEF Process, WithTraining
<1>2. /\ new.stage = stage /\ new.cell = process.cell /\ new.alone = process.alone
      /\ new.training = training
  BY <1>0 DEF Process, WithTraining
<1> QED
  BY <1>0, <1>1, <1>2 DEF Process

(* ... or evaluated ...                                                       *)
WithResult(process, stage, result) ==
    [process EXCEPT !.stage = stage, !.result = result]

LEMMA ResultSet ==
    ASSUME NEW process, Process(process), NEW stage, NEW result
    PROVE  LET new == WithResult(process, stage, result)
           IN  /\ Process(new)
               /\ new.stage = stage /\ new.cell = process.cell /\ new.alone = process.alone
               /\ new.result = result
<1>0. PICK new : new = WithResult(process, stage, result)
  OBVIOUS
<1>1. new = [cell |-> new.cell, stage |-> new.stage, training |-> new.training,
             alone |-> new.alone, result |-> new.result]
  BY <1>0 DEF Process, WithResult
<1>2. /\ new.stage = stage /\ new.cell = process.cell /\ new.alone = process.alone
      /\ new.training = process.training /\ new.result = result
  BY <1>0 DEF Process, WithResult
<1> QED
  BY <1>0, <1>1, <1>2 DEF Process

(* ... or learns that it is not alone.                                        *)
LEMMA CompanySet ==
    ASSUME NEW process, Process(process), NEW new, new = [process EXCEPT !.alone = FALSE]
    PROVE  /\ Process(new)
           /\ new.alone = FALSE /\ new.cell = process.cell /\ new.stage = process.stage
           /\ new.result = process.result
<1>1. new = [cell |-> new.cell, stage |-> new.stage, training |-> new.training,
             alone |-> new.alone, result |-> new.result]
  BY DEF Process
<1>2. /\ new.alone = FALSE /\ new.cell = process.cell /\ new.stage = process.stage
      /\ new.training = process.training /\ new.result = process.result
  BY DEF Process
<1> QED
  BY <1>1, <1>2 DEF Process

(* A process changes its stage, and knows what it knew.                       *)
LEMMA StageSet ==
    ASSUME NEW process, Process(process), NEW stage, NEW new,
           new = [process EXCEPT !.stage = stage]
    PROVE  /\ Process(new)
           /\ new.stage = stage /\ new.cell = process.cell /\ new.alone = process.alone
           /\ new.training = process.training /\ new.result = process.result
<1>1. new = [cell |-> process.cell, stage |-> stage, training |-> process.training,
             alone |-> process.alone, result |-> process.result]
  BY DEF Process
<1> QED
  BY <1>1 DEF Process

(* A live process writes to its own directory: no other process that is alone *)
(* sees it.                                                                   *)
LEMMA ProcessStep ==
    ASSUME DirsOK, ProcessesOK, Separate, EvaluatedAsTrained,
           NEW process \in children, Live(process), NEW new, NEW dir,
           Becomes(process, new), new.cell = process.cell, new.alone = process.alone,
           Process(new), OwnFiles(new, dir), ResultOK(new),
           Dir(dir), Faithful(dir.summary), dirs' = [dirs EXCEPT ![process.cell] = dir]
    PROVE  DirsOK' /\ ProcessesOK' /\ Separate' /\ EvaluatedAsTrained'
<1>0. process.cell \in Cells /\ Process(process)
  BY DEF ProcessesOK, Process
<1>1. /\ dirs' = [cell \in Cells |-> dirs'[cell]]
      /\ \A cell \in Cells : dirs'[cell] = IF cell = process.cell THEN dir ELSE dirs[cell]
  BY DEF DirsOK
<1>2. DirsOK'
  BY <1>1 DEF DirsOK
<1>3. EvaluatedAsTrained'
  BY <1>1 DEF EvaluatedAsTrained, Faithful
<1>4. children' = (children \ {process}) \cup {new}
  BY DEF Becomes
<1>5. Separate'
  <2> SUFFICES ASSUME NEW a \in children', NEW b \in children',
                      a # b, a.cell = b.cell, Live(a), Live(b)
               PROVE  ~a.alone /\ ~b.alone
    BY DEF Separate, Live
  <2>1. CASE a \in children \ {process} /\ b \in children \ {process}
    BY <2>1 DEF Separate
  <2>2. CASE a = new /\ b \in children \ {process}
    BY <2>2 DEF Separate
  <2>3. CASE a \in children \ {process} /\ b = new
    BY <2>3 DEF Separate
  <2> QED
    BY <1>4, <2>1, <2>2, <2>3
<1>6. ASSUME NEW other \in children \ {process}
      PROVE  OwnFiles(other, dirs'[other.cell])
  <2>0. other.cell \in Cells /\ OwnFiles(other, dirs[other.cell])
    BY DEF ProcessesOK, Process
  <2>1. CASE other.cell # process.cell
    BY <1>1, <2>0, <2>1
  <2>2. CASE other.cell = process.cell /\ Live(other)
    <3>1. ~other.alone
      BY <2>2 DEF Separate
    <3> QED
      BY <3>1 DEF OwnFiles
  <2>3. CASE ~Live(other)
    BY <2>3 DEF OwnFiles, Live
  <2> QED
    BY <2>1, <2>2, <2>3
<1>7. dirs'[new.cell] = dir
  BY <1>0, <1>1
<1>8. ProcessesOK'
  BY <1>4, <1>6, <1>7 DEF ProcessesOK
<1> QED
  BY <1>2, <1>3, <1>5, <1>8

(* What a process reads back when it is alone is what it trained.             *)
LEMMA EvaluationFaithful ==
    ASSUME NEW process, NEW dir, process.stage = "evaluation", OwnFiles(process, dir),
           NEW result, result = [kind |-> "evaluated", of |-> dir.summary.of,
                                 model |-> dir.checkpoint, on |-> dir.partition,
                                 alone |-> process.alone]
    PROVE  Faithful(result)
  BY DEF OwnFiles, Faithful

(* What the processes write keeps their part of the invariant.              *)
LEMMA ProcessesStep ==
    ASSUME MatrixInvariant, CellStep
    PROVE  DirsOK' /\ ProcessesOK' /\ Separate' /\ EvaluatedAsTrained'
<1>1. PICK process \in children :
         \/ ReadConfig(process) \/ WritePartition(process) \/ Checkpoint(process)
         \/ WriteCellSummary(process) \/ EvaluateCell(process)
         \/ WriteEvaluation(process) \/ Killed(process)
  BY DEF CellStep
<1> DEFINE mine == dirs[process.cell]
<1>2. /\ DirsOK /\ ProcessesOK /\ Separate /\ EvaluatedAsTrained
      /\ Process(process) /\ OwnFiles(process, mine) /\ ResultOK(process)
  BY DEF MatrixInvariant, ProcessesOK
<1>3. /\ process.cell \in Cells /\ Dir(mine) /\ Faithful(mine.summary)
      /\ dirs = [dirs EXCEPT ![process.cell] = mine]
  BY <1>2 DEF Process, DirsOK, EvaluatedAsTrained, Faithful
<1>4. Live(process)
  BY <1>1 DEF Live, ReadConfig, WritePartition, Checkpoint, WriteCellSummary, EvaluateCell,
              WriteEvaluation, Killed
<1>5. CASE ReadConfig(process)
  <2> DEFINE read == [process.training EXCEPT !.config = mine.config]
             new == WithTraining(process, "partition", read)
  <2>1. Becomes(process, new) /\ UNCHANGED dirs
    BY <1>5 DEF ReadConfig, WithTraining
  <2>2. Trained(read)
    BY <1>2 DEF Process, Trained
  <2> HIDE DEF read
  <2>3. /\ Process(new) /\ new.stage = "partition" /\ new.cell = process.cell
        /\ new.alone = process.alone
    BY <1>2, <2>2, TrainingSet
  <2> HIDE DEF new
  <2>4. OwnFiles(new, mine) /\ ResultOK(new)
    BY <2>3 DEF OwnFiles, ResultOK
  <2> QED
    BY <1>2, <1>3, <1>4, <2>1, <2>3, <2>4, ProcessStep
<1>6. CASE WritePartition(process)
  <2> DEFINE new == [process EXCEPT !.stage = "training"]
             dir == [mine EXCEPT !.partition = process.training.config]
  <2>1. Becomes(process, new) /\ dirs' = [dirs EXCEPT ![process.cell] = dir]
    BY <1>6 DEF WritePartition
  <2>2. Dir(dir) /\ dir.summary = mine.summary /\ dir.partition = process.training.config
    BY <1>3 DEF Dir
  <2> HIDE DEF dir
  <2>3. Process(new) /\ new.stage = "training" /\ new.cell = process.cell
        /\ new.alone = process.alone /\ new.training = process.training
    BY <1>2, StageSet
  <2> HIDE DEF new
  <2>4. OwnFiles(new, dir) /\ ResultOK(new)
    BY <2>2, <2>3 DEF OwnFiles, ResultOK
  <2> QED
    BY <1>2, <1>3, <1>4, <2>1, <2>2, <2>3, <2>4, ProcessStep
<1>7. CASE Checkpoint(process)
  <2>1. PICK accuracy :
           LET trained == [process.training EXCEPT !.accuracy = accuracy]
           IN /\ dirs' = [dirs EXCEPT ![process.cell].checkpoint = trained]
              /\ Becomes(process, [process EXCEPT !.stage = "summary", !.training = trained])
    BY <1>7 DEF Checkpoint
  <2> DEFINE trained == [process.training EXCEPT !.accuracy = accuracy]
             new == WithTraining(process, "summary", trained)
             dir == [mine EXCEPT !.checkpoint = trained]
  <2>2. Becomes(process, new) /\ dirs' = [dirs EXCEPT ![process.cell] = dir]
    BY <2>1 DEF WithTraining
  <2>3. Trained(trained) /\ trained.config = process.training.config
    BY <1>2 DEF Process, Trained
  <2> HIDE DEF trained
  <2>4. /\ Dir(dir) /\ dir.summary = mine.summary /\ dir.partition = mine.partition
        /\ dir.checkpoint = trained
    BY <1>3 DEF Dir
  <2> HIDE DEF dir
  <2>5. /\ Process(new) /\ new.stage = "summary" /\ new.cell = process.cell
        /\ new.alone = process.alone /\ new.training = trained
    BY <1>2, <2>3, TrainingSet
  <2> HIDE DEF new
  <2>6. new.training.config = process.training.config
    BY <2>3, <2>5
  <2>7. process.stage = "training"
    BY <1>7 DEF Checkpoint
  <2>8. OwnFiles(new, dir) /\ ResultOK(new)
    BY <1>2, <2>4, <2>5, <2>6, <2>7 DEF OwnFiles, ResultOK
  <2> QED
    BY <1>2, <1>3, <1>4, <2>2, <2>4, <2>5, <2>8, ProcessStep
<1>8. CASE WriteCellSummary(process)
  <2> DEFINE new == [process EXCEPT !.stage = "evaluation"]
             summary == [kind |-> "trained", of |-> process.training]
             dir == [mine EXCEPT !.summary = summary]
  <2>1. /\ process.stage = "summary" /\ Becomes(process, new)
        /\ dirs' = [dirs EXCEPT ![process.cell] = dir]
    BY <1>8 DEF WriteCellSummary
  <2>2. summary.kind = "trained" /\ summary.of = process.training /\ Faithful(summary)
    BY DEF Faithful
  <2> HIDE DEF summary
  <2>3. /\ Dir(dir) /\ dir.summary = summary /\ dir.partition = mine.partition
        /\ dir.checkpoint = mine.checkpoint
    BY <1>3 DEF Dir
  <2> HIDE DEF dir
  <2>4. Process(new) /\ new.stage = "evaluation" /\ new.cell = process.cell
        /\ new.alone = process.alone /\ new.training = process.training
    BY <1>2, StageSet
  <2> HIDE DEF new
  <2>5. OwnFiles(new, dir) /\ ResultOK(new)
    BY <1>2, <2>1, <2>2, <2>3, <2>4 DEF OwnFiles, ResultOK
  <2> QED
    BY <1>2, <1>3, <1>4, <2>1, <2>2, <2>3, <2>4, <2>5, ProcessStep
<1>9. CASE EvaluateCell(process)
  <2> DEFINE result == [kind |-> "evaluated", of |-> mine.summary.of, model |-> mine.checkpoint,
                        on |-> mine.partition, alone |-> process.alone]
             done == WithResult(process, "result", result)
             failed == [process EXCEPT !.stage = "failed"]
  <2>1. /\ process.stage = "evaluation" /\ UNCHANGED dirs
        /\ Becomes(process, IF Reproduces(mine.summary, mine.checkpoint) THEN done ELSE failed)
    BY <1>9 DEF EvaluateCell, WithResult
  <2>2. Faithful(result)
    BY <1>2, <2>1, EvaluationFaithful
  <2> HIDE DEF result
  <2>3. /\ Process(done) /\ done.stage = "result" /\ done.cell = process.cell
        /\ done.alone = process.alone /\ done.result = result
    BY <1>2, ResultSet
  <2>4. Process(failed) /\ failed.stage = "failed" /\ failed.cell = process.cell
        /\ failed.alone = process.alone
    BY <1>2, StageSet
  <2> HIDE DEF done, failed
  <2>6. OwnFiles(done, mine) /\ ResultOK(done) /\ OwnFiles(failed, mine) /\ ResultOK(failed)
    BY <2>2, <2>3, <2>4 DEF OwnFiles, ResultOK
  <2>7. dirs' = [dirs EXCEPT ![process.cell] = mine]
    BY <1>3, <2>1
  <2>8. CASE Becomes(process, done)
    BY <1>2, <1>3, <1>4, <2>3, <2>6, <2>7, <2>8, ProcessStep
  <2>9. CASE Becomes(process, failed)
    BY <1>2, <1>3, <1>4, <2>4, <2>6, <2>7, <2>9, ProcessStep
  <2> QED
    BY <2>1, <2>8, <2>9
<1>10. CASE WriteEvaluation(process)
  <2> DEFINE new == [process EXCEPT !.stage = "done"]
             dir == [mine EXCEPT !.summary = process.result]
  <2>1. /\ process.stage = "result" /\ Becomes(process, new)
        /\ dirs' = [dirs EXCEPT ![process.cell] = dir]
    BY <1>10 DEF WriteEvaluation
  <2>2. Dir(dir) /\ dir.summary = process.result /\ Faithful(process.result)
    BY <1>2, <1>3, <2>1 DEF Dir, ResultOK
  <2> HIDE DEF dir
  <2>3. Process(new) /\ new.stage = "done" /\ new.cell = process.cell
        /\ new.alone = process.alone
    BY <1>2, StageSet
  <2> HIDE DEF new
  <2>4. OwnFiles(new, dir) /\ ResultOK(new)
    BY <2>3 DEF OwnFiles, ResultOK
  <2> QED
    BY <1>2, <1>3, <1>4, <2>1, <2>2, <2>3, <2>4, ProcessStep
<1>11. CASE Killed(process)
  <2> DEFINE new == [process EXCEPT !.stage = "failed"]
             torn == [mine EXCEPT !.summary = Torn]
  <2>1. /\ Becomes(process, new)
        /\ UNCHANGED dirs \/ dirs' = [dirs EXCEPT ![process.cell] = torn]
    BY <1>11 DEF Killed
  <2>2. Dir(torn) /\ Faithful(torn.summary)
    BY <1>3 DEF Dir, Torn, Faithful
  <2> HIDE DEF torn
  <2>3. Process(new) /\ new.stage = "failed" /\ new.cell = process.cell
        /\ new.alone = process.alone
    BY <1>2, StageSet
  <2> HIDE DEF new
  <2>4. ResultOK(new) /\ \A dir : OwnFiles(new, dir)
    BY <2>3 DEF OwnFiles, ResultOK
  <2>5. CASE UNCHANGED dirs
    BY <1>2, <1>3, <1>4, <2>1, <2>3, <2>4, <2>5, ProcessStep
  <2>6. CASE dirs' = [dirs EXCEPT ![process.cell] = torn]
    BY <1>2, <1>4, <2>1, <2>2, <2>3, <2>4, <2>6, ProcessStep
  <2> QED
    BY <2>1, <2>5, <2>6
<1> QED
  BY <1>1, <1>5, <1>6, <1>7, <1>8, <1>9, <1>10, <1>11


(* What the processes know stays true while what they wrote stays.            *)
LEMMA ProcessesKept ==
    ASSUME ProcessesOK, children' \subseteq children,
           \A c \in Cells : /\ dirs'[c].partition = dirs[c].partition
                            /\ dirs'[c].checkpoint = dirs[c].checkpoint
                            /\ dirs'[c].summary = dirs[c].summary
    PROVE  ProcessesOK'
<1> SUFFICES ASSUME NEW process \in children'
             PROVE  /\ Process(process) /\ OwnFiles(process, dirs'[process.cell])
                    /\ ResultOK(process)
  BY DEF ProcessesOK
<1>1. /\ Process(process) /\ OwnFiles(process, dirs[process.cell]) /\ ResultOK(process)
      /\ process.cell \in Cells
  BY DEF ProcessesOK, Process
<1> QED
  BY <1>1 DEF OwnFiles

(* Preparing a cell writes a configuration nobody but its new process reads. *)
LEMMA ConfigWritten ==
    ASSUME DirsOK, EvaluatedAsTrained, NEW cell, NEW config,
           dirs' = [dirs EXCEPT ![cell].config = config]
    PROVE  /\ DirsOK' /\ EvaluatedAsTrained'
           /\ \A c \in Cells : /\ dirs'[c].partition = dirs[c].partition
                               /\ dirs'[c].checkpoint = dirs[c].checkpoint
                               /\ dirs'[c].summary = dirs[c].summary
<1>1. /\ dirs' = [c \in Cells |-> dirs'[c]]
      /\ \A c \in Cells :
             dirs'[c] = IF c = cell THEN [dirs[c] EXCEPT !.config = config] ELSE dirs[c]
  BY DEF DirsOK
<1>2. ASSUME NEW c \in Cells
      PROVE  /\ Dir(dirs'[c]) /\ dirs'[c].partition = dirs[c].partition
             /\ dirs'[c].checkpoint = dirs[c].checkpoint
             /\ dirs'[c].summary = dirs[c].summary
  <2>1. Dir(dirs[c])
    BY DEF DirsOK
  <2>2. CASE c = cell
    <3>1. dirs'[c] = [dirs[c] EXCEPT !.config = config]
      BY <1>1, <2>2
    <3> QED
      BY <2>1, <3>1 DEF Dir
  <2>3. CASE c # cell
    BY <1>1, <2>1, <2>3
  <2> QED
    BY <2>2, <2>3
<1>3. DirsOK'
  BY <1>1, <1>2 DEF DirsOK
<1>4. EvaluatedAsTrained'
  BY <1>2 DEF EvaluatedAsTrained
<1> QED
  BY <1>2, <1>3, <1>4

(* A new process is alone only if nobody is at work in its cell, and whoever *)
(* is at work there is not alone any more.                                   *)
LEMMA LaunchedOK ==
    ASSUME ProcessesOK, Separate, NEW cell \in Cells, children' = Launched(cell),
           \A c \in Cells : /\ dirs'[c].partition = dirs[c].partition
                            /\ dirs'[c].checkpoint = dirs[c].checkpoint
                            /\ dirs'[c].summary = dirs[c].summary
    PROVE  ProcessesOK' /\ Separate'
<1> DEFINE others == {process \in children : process.cell = cell /\ Live(process)}
           Company(process) == [process EXCEPT !.alone = FALSE]
           new == [cell |-> cell, stage |-> "boot", training |-> Untrained(launches + 1),
                   alone |-> others = {}, result |-> Nothing]
<1>1. children' = (children \ others) \cup {Company(process) : process \in others} \cup {new}
  BY DEF Launched
<1>2. ASSUME NEW process \in others
      PROVE  /\ Process(Company(process)) /\ Company(process).alone = FALSE
             /\ Company(process).stage = process.stage /\ Company(process).cell = process.cell
             /\ Company(process).result = process.result
  <2>1. Process(process)
    BY DEF ProcessesOK
  <2> QED
    BY <2>1, CompanySet
<1>3. /\ Process(new) /\ new.stage = "boot" /\ new.cell = cell
      /\ new.alone = (others = {})
  BY DEF Process, Trained, Untrained
<1> HIDE DEF new, Company
<1>4. ASSUME NEW process \in children \ others
      PROVE  Process(process) /\ OwnFiles(process, dirs'[process.cell]) /\ ResultOK(process)
  BY DEF ProcessesOK, OwnFiles, Process
<1>5. ASSUME NEW process \in others, NEW dir
      PROVE  OwnFiles(Company(process), dir) /\ ResultOK(Company(process))
  BY <1>2 DEF ProcessesOK, OwnFiles, ResultOK
<1>6. ASSUME NEW dir PROVE OwnFiles(new, dir) /\ ResultOK(new)
  BY <1>3 DEF OwnFiles, ResultOK
<1>7. ProcessesOK'
  <2> SUFFICES ASSUME NEW process \in children'
               PROVE  /\ Process(process) /\ OwnFiles(process, dirs'[process.cell])
                      /\ ResultOK(process)
    BY DEF ProcessesOK
  <2>1. CASE process \in children \ others
    BY <1>4, <2>1
  <2>2. CASE process \in {Company(p) : p \in others}
    BY <1>2, <1>5, <2>2
  <2>3. CASE process = new
    BY <1>3, <1>6, <2>3
  <2> QED
    BY <1>1, <2>1, <2>2, <2>3
<1>8. \A process \in children \ others : ~(process.cell = cell /\ Live(process))
  OBVIOUS
<1>9. Separate'
  <2> SUFFICES ASSUME NEW a \in children', NEW b \in children',
                      a # b, a.cell = b.cell, Live(a), Live(b)
               PROVE  ~a.alone /\ ~b.alone
    BY DEF Separate, Live
  <2>1. ASSUME NEW process \in children', process.cell = cell, Live(process)
        PROVE  process = new \/ process.alone = FALSE
    <3>1. process \notin children \ others
      BY <1>8, <2>1
    <3>2. process \in {Company(p) : p \in others} \/ process = new
      BY <1>1, <3>1
    <3>3. \A p \in others : Company(p).alone = FALSE
      BY <1>2
    <3> QED
      BY <3>2, <3>3
  <2>2. ASSUME NEW process \in children', process # new, process.cell = cell, Live(process)
        PROVE  others # {}
    BY <1>1, <1>8, <2>2
  <2>3. CASE a.cell = cell
    <3>1. others # {}
      BY <2>2, <2>3
    <3>2. new.alone = FALSE
      BY <1>3, <3>1
    <3>3. a.alone = FALSE /\ b.alone = FALSE
      BY <2>1, <2>3, <3>2
    <3> QED
      BY <3>3
  <2>4. CASE a.cell # cell
    <3>1. ASSUME NEW process \in children', process.cell # cell
          PROVE  process \in children
      <4>1. \A p \in others : Company(p).cell = cell
        BY <1>2
      <4>2. new.cell = cell
        BY <1>3
      <4> QED
        BY <1>1, <3>1, <4>1, <4>2
    <3>2. a \in children /\ b \in children
      BY <2>4, <3>1
    <3> QED
      BY <3>2 DEF Separate
  <2> QED
    BY <2>3, <2>4
<1> QED
  BY <1>7, <1>9

(* Whatever a cell is left with, the runner tells of it what it is.           *)
LEMMA CollectedOK ==
    ASSUME RunOK, run.pc # "none", run.todo # <<>>, NEW cell, NEW summary, Faithful(summary),
           run' = Collected(cell, summary)
    PROVE  RunOK'
<1>1. RunShape /\ run.todo \in Seq(Cells) /\ Told(run.observations)
  BY DEF RunOK
<1>2. Told(Observations(cell, summary))
  <2> DEFINE hash == summary.of.config
             global == Observation(cell, "global", hash, hash, TRUE)
             client == Observation(cell, "client", hash, summary.on, summary.alone)
  <2>1. global.partition = global.measured
    BY DEF Observation
  <2>2. /\ client.partition = hash /\ client.measured = summary.on
        /\ client.alone = summary.alone
    BY DEF Observation
  <2>3. \A o \in Observations(cell, summary) :
           o = global \/ (summary.kind = "evaluated" /\ o = client)
    BY DEF Observations, Observed
  <2> HIDE DEF global, client
  <2>4. summary.kind = "evaluated" /\ client.alone => client.partition = client.measured
    <3> SUFFICES ASSUME summary.kind = "evaluated", client.alone
                 PROVE  client.partition = client.measured
      OBVIOUS
    <3>1. summary.on = hash
      BY <2>2 DEF Faithful
    <3> QED
      BY <2>2, <3>1
  <2> QED
    BY <2>1, <2>3, <2>4 DEF Told
<1>3. Tail(run.todo) \in Seq(Cells)
  BY <1>1, HeadTailProperties
<1>4. CASE summary.kind = "torn"
  <2> DEFINE pc == IF run.keepGoing THEN "cell" ELSE "failed"
  <2>1. run' = [run EXCEPT !.pc = pc, !.failures = @ + 1, !.todo = Tail(@)]
    BY <1>4 DEF Collected
  <2>2. pc # "waiting"
    OBVIOUS
  <2> HIDE DEF pc
  <2>3. run' = [pc |-> pc, todo |-> Tail(run.todo), config |-> run.config,
                resume |-> run.resume, keepGoing |-> run.keepGoing, waits |-> run.waits,
                failures |-> run.failures + 1, observations |-> run.observations]
    BY <1>1, <2>1 DEF RunShape
  <2> QED
    BY <1>1, <1>3, <2>2, <2>3 DEF RunOK, RunShape
<1>5. CASE summary.kind # "torn"
  <2>1. run' = [run EXCEPT !.pc = "cell", !.todo = Tail(@),
                     !.observations = @ \cup Observations(cell, summary)]
    BY <1>5 DEF Collected
  <2>2. run' = [pc |-> "cell", todo |-> Tail(run.todo), config |-> run.config,
                resume |-> run.resume, keepGoing |-> run.keepGoing, waits |-> run.waits,
                failures |-> run.failures,
                observations |-> run.observations \cup Observations(cell, summary)]
    BY <1>1, <2>1 DEF RunShape
  <2>3. Told(run.observations \cup Observations(cell, summary))
    BY <1>1, <1>2 DEF Told
  <2> HIDE DEF Told
  <2> QED
    BY <1>3, <2>2, <2>3 DEF RunOK, RunShape
<1> QED
  BY <1>4, <1>5

(* What is published compares metrics measured on the same partition.       *)
LEMMA PublishedLikeWithLike ==
    ASSUME MatrixInvariant, Publish
    PROVE  ComparedLikeWithLike'
<1> DEFINE obs == run.observations
<1>1. Told(obs) /\ ComparedLikeWithLike
  BY DEF MatrixInvariant, RunOK, Publish
<1>2. CASE output'.rows = output.rows
  BY <1>1, <1>2 DEF ComparedLikeWithLike
<1>3. CASE /\ EnoughReplicates(obs) /\ Comparable(obs)
           /\ output'.rows = {row \in Rows(obs) : row.candidate # {}}
  <2> SUFFICES ASSUME NEW row \in output'.rows,
                      NEW b \in row.baseline, NEW c \in row.candidate,
                      b.cell.seed = c.cell.seed, b.alone, c.alone
               PROVE  b.measured = c.measured
    BY DEF ComparedLikeWithLike
  <2>1. PICK a \in Algorithms \ {Baseline}, metric \in Metrics :
           row = [baseline |-> Of(obs, Baseline, metric), candidate |-> Of(obs, a, metric)]
    BY <1>3 DEF Rows
  <2>2. /\ row.baseline = Of(obs, Baseline, metric) /\ row.candidate = Of(obs, a, metric)
        /\ row.candidate # {}
    BY <1>3, <2>1
  <2>3. Matched(row.baseline, row.candidate)
    BY <1>3, <2>2 DEF Comparable
  <2>4. b.partition = b.measured /\ c.partition = c.measured
    BY <1>1, <2>2 DEF Told, Of
  <2> QED
    BY <2>3, <2>4 DEF Matched
<1> QED
  BY <1>2, <1>3 DEF Publish

(* Every step of the matrix keeps the invariant.                            *)
LEMMA MatrixStep == MatrixInvariant /\ [MatrixNext]_matrixVars => MatrixInvariant'
<1> SUFFICES ASSUME MatrixInvariant, [MatrixNext]_matrixVars PROVE MatrixInvariant'
  OBVIOUS
<1>0. DirsOK /\ ProcessesOK /\ Separate /\ RunOK /\ EvaluatedAsTrained /\ ComparedLikeWithLike
  BY DEF MatrixInvariant
<1>1. children' \subseteq children /\ UNCHANGED dirs => ProcessesOK' /\ Separate'
  <2> SUFFICES ASSUME children' \subseteq children, UNCHANGED dirs
               PROVE  ProcessesOK' /\ Separate'
    OBVIOUS
  <2>1. Separate'
    BY <1>0 DEF Separate, Live
  <2>2. ProcessesOK'
    BY <1>0, ProcessesKept
  <2> QED
    BY <2>1, <2>2
<1>2. UNCHANGED run => RunOK'
  BY <1>0 DEF RunOK, RunShape, Told
<1>3. run' = NoRun => RunOK'
  BY DEF RunOK, NoRun
<1>4. UNCHANGED output => ComparedLikeWithLike'
  BY <1>0 DEF ComparedLikeWithLike
<1>5. UNCHANGED dirs => DirsOK' /\ EvaluatedAsTrained'
  BY <1>0 DEF DirsOK, Dir, EvaluatedAsTrained
<1>6. CASE CellStep
  <2>1. UNCHANGED run /\ UNCHANGED output
    BY <1>6 DEF CellStep
  <2> QED
    BY <1>2, <1>4, <1>6, <2>1, ProcessesStep DEF MatrixInvariant
<1>7. ASSUME NEW resume \in BOOLEAN, NEW keepGoing \in BOOLEAN, Invoke(resume, keepGoing)
      PROVE  MatrixInvariant'
  <2>1. RunOK'
    BY <1>7, PlanIsSequence DEF Invoke, RunOK, RunShape, Told
  <2> QED
    BY <1>1, <1>4, <1>5, <1>7, <2>1 DEF Invoke, MatrixInvariant
<1>8. CASE PrepareCell
  <2> DEFINE cell == Head(run.todo)
  <2>1. /\ dirs' = [dirs EXCEPT ![cell].config = run.config]
        /\ UNCHANGED output /\ run.pc = "cell" /\ run.todo # <<>>
    BY <1>8 DEF PrepareCell
  <2>2. run.todo \in Seq(Cells) /\ RunShape /\ Told(run.observations)
    BY <1>0, <2>1 DEF RunOK
  <2>3. cell \in Cells
    BY <2>1, <2>2
  <2> HIDE DEF cell
  <2>4. /\ DirsOK' /\ EvaluatedAsTrained'
        /\ \A c \in Cells : /\ dirs'[c].partition = dirs[c].partition
                            /\ dirs'[c].checkpoint = dirs[c].checkpoint
                            /\ dirs'[c].summary = dirs[c].summary
    BY <1>0, <2>1, ConfigWritten
  <2>5. CASE run' = Collected(cell, dirs[cell].summary) /\ UNCHANGED children
    <3>1. Faithful(dirs[cell].summary)
      BY <1>0, <2>3 DEF EvaluatedAsTrained, Faithful
    <3>2. RunOK'
      BY <1>0, <2>1, <2>5, <3>1, CollectedOK
    <3>3. Separate'
      BY <1>0, <2>5 DEF Separate, Live
    <3>4. ProcessesOK'
      BY <1>0, <2>4, <2>5, ProcessesKept
    <3> QED
      BY <1>4, <2>1, <2>4, <3>2, <3>3, <3>4 DEF MatrixInvariant
  <2>6. CASE /\ children' = Launched(cell)
             /\ run' = [run EXCEPT !.pc = "waiting", !.waits = launches + 1]
    <3>1. ProcessesOK' /\ Separate'
      BY <1>0, <2>3, <2>4, <2>6, LaunchedOK
    <3>2. run' = [pc |-> "waiting", todo |-> run.todo, config |-> run.config,
                  resume |-> run.resume, keepGoing |-> run.keepGoing, waits |-> launches + 1,
                  failures |-> run.failures, observations |-> run.observations]
      BY <2>2, <2>6 DEF RunShape
    <3>3. RunOK'
      BY <2>1, <2>2, <3>2 DEF RunOK, RunShape
    <3> QED
      BY <1>4, <2>1, <2>4, <3>1, <3>3 DEF MatrixInvariant
  <2> QED
    BY <1>8, <2>5, <2>6 DEF PrepareCell, cell
<1>9. CASE CollectCell
  <2>1. PICK process \in children :
           /\ children' = children \ {process}
           /\ run' = IF process.stage = "done"
                     THEN Collected(process.cell, dirs[process.cell].summary)
                     ELSE Collected(process.cell, Torn)
    BY <1>9 DEF CollectCell
  <2>2. run.pc = "waiting" /\ UNCHANGED dirs /\ UNCHANGED output /\ run.todo # <<>>
    BY <1>0, <1>9 DEF CollectCell, RunOK
  <2>3. Faithful(dirs[process.cell].summary) /\ Faithful(Torn)
    BY <1>0 DEF ProcessesOK, Process, EvaluatedAsTrained, Faithful, Torn
  <2>4. RunOK'
    BY <1>0, <2>1, <2>2, <2>3, CollectedOK
  <2> QED
    BY <1>1, <1>4, <1>5, <2>1, <2>2, <2>4 DEF MatrixInvariant
<1>10. CASE Publish
  BY <1>1, <1>3, <1>5, <1>10, PublishedLikeWithLike DEF Publish, MatrixInvariant
<1>11. CASE Stop \/ RunnerKilled
  BY <1>1, <1>3, <1>4, <1>5, <1>11 DEF Stop, RunnerKilled, MatrixInvariant
<1>12. CASE EditConfig
  BY <1>1, <1>2, <1>4, <1>5, <1>12 DEF EditConfig, MatrixInvariant
<1>13. CASE UNCHANGED matrixVars
  BY <1>1, <1>2, <1>4, <1>5, <1>13 DEF matrixVars, MatrixInvariant
<1> QED
  BY <1>6, <1>7, <1>8, <1>9, <1>10, <1>11, <1>12, <1>13 DEF MatrixNext

(* The invariant of the matrix: a process that is alone in its directory finds *)
(* there what it wrote, whatever others left behind, two processes at work in  *)
(* one directory know of it, and the hash an observation tells is that of the  *)
(* partition its metric was measured on.                                       *)
THEOREM MatrixInvariance == MatrixSpec => []MatrixInvariant
  BY MatrixInitial, MatrixStep, PTL DEF MatrixSpec

(* EvaluatedAsTrained of any plan, with any number of edits, interruptions and *)
(* launches: what a process that is alone reads back for its evaluation is     *)
(* what it trained.                                                            *)
THEOREM EvaluatedCorrect == MatrixSpec => []EvaluatedAsTrained
<1>1. MatrixInvariant => EvaluatedAsTrained
  BY DEF MatrixInvariant
<1> QED
  BY <1>1, MatrixInvariance, PTL

(* ComparedLikeWithLike of any plan, with any number of edits, interruptions   *)
(* and launches: equal hashes mean that the values were measured on the same   *)
(* partition.                                                                  *)
THEOREM ComparedCorrect == MatrixSpec => []ComparedLikeWithLike
<1>1. MatrixInvariant => ComparedLikeWithLike
  BY DEF MatrixInvariant
<1> QED
  BY <1>1, MatrixInvariance, PTL
================================================================================
