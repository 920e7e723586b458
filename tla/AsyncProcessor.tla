--------------------------- MODULE AsyncProcessor ---------------------------
(***************************************************************************)
(* DurableAsyncResultProcessor of the v3 runtime: results are applied to   *)
(* the model one by one, without rounds, and every accepted one is         *)
(* checkpointed before its answer.  A model is the sequence of the updates *)
(* applied to it, whose arithmetic is left out: two models are equal when  *)
(* the same updates were applied in the same order.  apply_result runs to  *)
(* its end before the next call or the next read of the model, unless the  *)
(* process dies.                                                           *)
(***************************************************************************)
EXTENDS Integers, Sequences, FiniteSets

CONSTANTS
    Clients,
    RoundIds,      \* round_ids a result may carry
    Deltas,        \* model_updates, told apart by their digests
    MaxStaleness,  \* max_staleness
    MaxResults,    \* how many results the clients train
    Down           \* the processor while its process is dead

VARIABLES
    memory,    \* the AsyncModelState of the running process
    disk,      \* the last checkpoint
    call,      \* apply_result at work: its update and the state before it
    results,   \* results the clients trained; each may be sent many times
    confirmed, \* updates whose sender was told that they are applied
    unsaved    \* updates the memory kept though saving them raised, till they are on disk

processorVars == <<memory, disk, call, results, confirmed, unsaved>>

(***************************************************************************)
(* An update is identified by its client, round and base version; its      *)
(* payload digest stands for its delta.  A result also knows the model its *)
(* client read, and whether that was on disk, which the code does not.     *)
(* finite says that no entry of a model has overflowed.                    *)
(***************************************************************************)
UpdateId == [client : Clients, round : RoundIds, base : Nat]
Update == [id : UpdateId, delta : Deltas]
Result == [update : Update, read : Seq(Update), durable : BOOLEAN]

State == [version : Nat, model : Seq(Update), applied : SUBSET Update, finite : BOOLEAN]
InitialState == [version |-> 0, model |-> <<>>, applied |-> {}, finite |-> TRUE]

ASSUME ProcessorAssumption ==
    /\ MaxStaleness \in Nat
    /\ MaxResults \in Nat
    /\ Down \notin State

Idle == [stage |-> "idle"]
AtWork == [stage : {"applied", "saved"}, result : Result, before : State]

ProcessorInit ==
    /\ memory = InitialState
    /\ disk = InitialState   \* no file yet, which load_or_create reads the same
    /\ call = Idle
    /\ results = {}
    /\ confirmed = {}
    /\ unsaved = {}

-----------------------------------------------------------------------------
Running == memory # Down /\ call = Idle

\* (Mistake: the base version is the one before the model that was read.)
TrainFromPrevious ==
    /\ Running
    /\ Cardinality(results) < MaxResults
    /\ \E c \in Clients, k \in RoundIds, d \in Deltas :
           results' = results \cup
               {[update |-> [id |-> [client |-> c, round |-> k, base |-> memory.version - 1],
                             delta |-> d],
                 read |-> memory.model, durable |-> (memory = disk)]}
    /\ UNCHANGED <<memory, disk, call, confirmed, unsaved>>

\* A client reads the model and trains on it.
Train ==
    /\ Running
    /\ Cardinality(results) < MaxResults
    /\ \E c \in Clients, k \in RoundIds, d \in Deltas :
           results' = results \cup
               {[update |-> [id |-> [client |-> c, round |-> k, base |-> memory.version],
                             delta |-> d],
                 read |-> memory.model, durable |-> (memory = disk)]}
    /\ UNCHANGED <<memory, disk, call, confirmed, unsaved>>

\* (Mistake: only an update with the same payload counts as a replay.)
ReplayedExactly(state, u) == u \in state.applied

Replayed(state, u) == \E v \in state.applied : v.id = u.id

Staleness(state, u) == state.version - u.id.base

\* What AsyncModelState.apply accepts ...
Accepts(state, u) ==
    /\ ~Replayed(state, u)
    /\ Staleness(state, u) \in 0 .. MaxStaleness

\* ... and makes of it: a sum that may overflow.
Applied(state, u, finite) ==
    [version |-> state.version + 1,
     model |-> Append(state.model, u),
     applied |-> state.applied \cup {u},
     finite |-> finite]

(***************************************************************************)
(* apply_result begins with a snapshot of the state, which a model that is *)
(* not finite does not pass: every call raises until the process restarts. *)
(***************************************************************************)
Ready == Running /\ memory.finite

\* An update that was applied before is answered as a duplicate.
AnswerDuplicate ==
    /\ Ready
    /\ \E r \in results :
           /\ r.update \in memory.applied
           /\ confirmed' = confirmed \cup {r.update}
    /\ UNCHANGED <<memory, disk, call, results, unsaved>>

\* Every other update of a future version, too stale, or with another payload
\* under an id that was applied is refused, which changes nothing.
ApplyResult ==
    /\ Ready
    /\ \E r \in results, finite \in BOOLEAN :
           /\ Accepts(memory, r.update)
           /\ memory' = Applied(memory, r.update, finite)
           /\ call' = [stage |-> "applied", result |-> r, before |-> memory]
    /\ UNCHANGED <<disk, results, confirmed, unsaved>>

Save ==
    /\ call.stage = "applied" /\ memory.finite
    /\ disk' = memory
    /\ call' = [call EXCEPT !.stage = "saved"]
    /\ unsaved' = unsaved \ memory.applied
    /\ UNCHANGED <<memory, results, confirmed>>

\* (Mistake: the update stays applied although its checkpoint was not written.)
SaveFailsSilently ==
    /\ call.stage = "applied" /\ memory.finite
    /\ call' = Idle
    /\ UNCHANGED <<memory, disk, results, confirmed, unsaved>>

\* The file cannot be written or replaced: the update is taken back and the call raises.
SaveFails ==
    /\ call.stage = "applied" /\ memory.finite
    /\ memory' = call.before
    /\ call' = Idle
    /\ UNCHANGED <<disk, results, confirmed, unsaved>>

(***************************************************************************)
(* What goes wrong before the file is opened is not caught: the directory  *)
(* cannot be made, or the new model, not finite, passes no snapshot.  The  *)
(* call raises and the update stays in memory.                             *)
(***************************************************************************)
SaveRaises ==
    /\ call.stage = "applied"
    /\ unsaved' = unsaved \cup {call.result.update}
    /\ call' = Idle
    /\ UNCHANGED <<memory, disk, results, confirmed>>

Answer ==
    /\ call.stage = "saved"
    /\ confirmed' = confirmed \cup {call.result.update}
    /\ call' = Idle
    /\ UNCHANGED <<memory, disk, results, unsaved>>

Crash ==
    /\ memory # Down
    /\ memory' = Down
    /\ call' = Idle
    /\ UNCHANGED <<disk, results, confirmed, unsaved>>

\* load_or_create.
LoadOrCreate ==
    /\ memory = Down
    /\ memory' = disk
    /\ UNCHANGED <<disk, call, results, confirmed, unsaved>>

ProcessorNext ==
    \/ Train \/ AnswerDuplicate \/ ApplyResult
    \/ Save \/ SaveFails \/ SaveRaises \/ Answer \/ Crash \/ LoadOrCreate

ProcessorSpec == ProcessorInit /\ [][ProcessorNext]_processorVars

-----------------------------------------------------------------------------
(***************************************************************************)
(* Properties.                                                             *)
(***************************************************************************)

\* The sequence s comes before t, or is t.
Precedes(s, t) == Len(s) <= Len(t) /\ \A i \in 1 .. Len(s) : s[i] = t[i]

(* Processor, checkpoint, calls and answers are what they are meant to be.  *)
TypeOK ==
    /\ memory \in State \cup {Down}
    /\ disk \in State
    /\ call = Idle \/ call \in AtWork
    /\ results \subseteq Result
    /\ confirmed \subseteq Update
    /\ unsaved \subseteq Update

(* Whoever was told that an update is applied, by the answer to it or by    *)
(* the one to a retry, finds it in the checkpoint, whatever write failed    *)
(* and whenever the process died ("checkpoint every accepted update").      *)
(* Excepted is an update whose save raised outside the code's try: a retry  *)
(* is told "duplicate" of what only the memory holds (README, Known         *)
(* deviations).                                                             *)
ConfirmedIsDurable == confirmed \subseteq disk.applied \cup unsaved

(* No update enters the durable model twice, not under another payload and  *)
(* not after a restart: the snapshot's replay table and its model agree.    *)
AppliedOnce ==
    /\ \A i, j \in 1 .. Len(disk.model) : disk.model[i].id = disk.model[j].id => i = j
    /\ disk.applied = {disk.model[i] : i \in 1 .. Len(disk.model)}

(* An accepted update was trained on a model the one it is applied to grew  *)
(* from, base_version updates long: the staleness the code computes from    *)
(* two version numbers is the number of updates its client has not seen.    *)
(* A version number never stands for two models, before or after a crash,   *)
(* except one read while the memory was ahead of the disk, because a save   *)
(* had raised outside the code's try.                                       *)
TrainedOnAncestor ==
    call # Idle /\ call.result.durable =>
        /\ Precedes(call.result.read, call.before.model)
        /\ Len(call.before.model) - Len(call.result.read)
               = Staleness(call.before, call.result.update)

(* What a checkpoint holds is never taken back by a later one.              *)
CheckpointGrows == [][Precedes(disk.model, disk'.model)]_processorVars

=============================================================================
