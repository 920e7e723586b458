------------------------- MODULE SecurityEventRelay -------------------------
(***************************************************************************)
(* How a worker's security events reach the coordinator: the worker's      *)
(* journal file with its rotation, the queue's acknowledgement cursor, the *)
(* durable message numbers, the flush thread, and the coordinator's        *)
(* handler with its replay store.  An event is [id, n]: the id the journal *)
(* gives it, which may come again, and its place n among all events ever   *)
(* emitted, which the code does not know.  A crash falls between two       *)
(* lines of the journal file: half-written lines are not modelled.  What   *)
(* the coordinator takes up it may refuse on its own account or fail to    *)
(* write, and answers all the same.                                        *)
(***************************************************************************)
EXTENDS Integers, FiniteSets, SequencesExt

CONSTANTS
    MaxEvents,      \* how many events the worker emits
    BatchSize,      \* max_batch_size of a flush
    RotateAt,       \* max_bytes_before_rotation, counted in events
    Malformed,      \* events the coordinator cannot parse, or finds invalid
    MaxSequenceGap, \* max_sequence_gap of the coordinator's replay store
    MaxSequence,    \* bound: how many messages the worker numbers
    MaxFaults       \* how often something below goes wrong

ASSUME BatchSizeAssumption == BatchSize \in Nat \ {0}
ASSUME MalformedAssumption == Malformed \subseteq 1 .. MaxEvents

VARIABLES
    file,      \* the journal file that is being written
    rotated,   \* has_rotated: a rotated file lies beside it
    next,      \* the journal's _next_sequence, 0 while the worker is down
    cursor,    \* acknowledged_up_to_event_id in the cursor file, 0 for none
    acked,     \* the same in the memory of the running worker
    sequence,  \* the number of the last message, in the sequence-state file
    flush,     \* the flush thread: what it selected, and the call it waits in
    net,       \* requests on the way
    handlers,  \* the coordinator's handlers at work
    last,      \* last_sequence_number of the worker's track, on disk
    recorded,  \* the events in the coordinator's journal
    unwritten, \* history: the events a failed write kept out of it
    emitted,   \* how many events were ever emitted
    renumbered, \* history: the ids started again behind a cursor
    faults     \* how much went wrong so far

worker == <<file, rotated, next, cursor, acked, sequence, flush, emitted, renumbered>>
coordinator == <<handlers, last, recorded, unwritten>>
vars == <<worker, net, coordinator, faults>>

Idle == [pc |-> "idle", batch |-> <<>>, number |-> 0]
Up == next > 0
Fault == faults < MaxFaults /\ faults' = faults + 1

Events(batch) == {batch[i].n : i \in DOMAIN batch}

RotationIsDue == Len(file) >= RotateAt

\* What an interrupted emit leaves: a rotation comes before the line.
InterruptedEmit ==
    \/ UNCHANGED <<file, rotated>>
    \/ RotationIsDue /\ file' = <<>> /\ rotated' = TRUE

\* (Mistake: a restarted journal numbers its events from 1 again.)
NextIdFromOne == 1

(***************************************************************************)
(* The ids start after the largest one in the file the process finds.      *)
(***************************************************************************)
NextIdAfterLoad == Max({file[i].id : i \in DOMAIN file} \cup {0}) + 1

(***************************************************************************)
(* list: nothing precedes an empty cursor, and of a cursor that names no   *)
(* event in the file the loop never gets past.                            *)
(***************************************************************************)
Pending ==
    LET at == SelectInSeq(file, LAMBDA e : e.id = acked)
    IN CASE acked = 0 -> file
         [] acked # 0 /\ at > 0 -> SubSeq(file, at + 1, Len(file))
         [] OTHER -> <<>>

SelectPending == SubSeq(Pending, 1, Min({BatchSize, Len(Pending)}))

Init ==
    /\ file = <<>> /\ rotated = FALSE /\ next = 1 /\ cursor = 0 /\ acked = 0
    /\ sequence = 0 /\ flush = Idle /\ emitted = 0 /\ renumbered = FALSE
    /\ net = {} /\ handlers = {} /\ last = 0 /\ recorded = {} /\ unwritten = {}
    /\ faults = 0

(***************************************************************************)
(* The worker.                                                             *)
(***************************************************************************)

\* emit: rotation, if the file has grown enough, and the new line.
Emit ==
    /\ Up /\ emitted < MaxEvents
    /\ LET kept == IF RotationIsDue THEN <<>> ELSE file
       IN file' = Append(kept, [id |-> next, n |-> emitted + 1])
    /\ rotated' = (rotated \/ RotationIsDue)
    /\ next' = next + 1
    /\ emitted' = emitted + 1
    /\ UNCHANGED <<cursor, acked, sequence, flush, renumbered, net, coordinator, faults>>

\* emit swallows an OSError: the id is used up and the event dropped, before
\* or after a rotation that was due.
EmitFails ==
    /\ Up /\ emitted < MaxEvents /\ Fault
    /\ InterruptedEmit
    /\ next' = next + 1
    /\ emitted' = emitted + 1
    /\ UNCHANGED <<cursor, acked, sequence, flush, renumbered, net, coordinator>>

\* The process dies, perhaps between a rotation and the line after it.
WorkerCrash ==
    /\ Up /\ Fault
    /\ InterruptedEmit
    /\ next' = 0 /\ acked' = 0 /\ flush' = Idle
    /\ UNCHANGED <<cursor, sequence, emitted, renumbered, net, coordinator>>

WorkerRestart ==
    /\ ~Up
    /\ next' = NextIdAfterLoad
    /\ acked' = cursor
    /\ renumbered' = (renumbered \/ (file = <<>> /\ cursor > 0))
    /\ UNCHANGED <<file, rotated, cursor, sequence, flush, emitted, net, coordinator, faults>>

\* submit_security_events: what is pending now ...
Select ==
    /\ Up /\ flush.pc = "idle" /\ SelectPending # <<>>
    /\ flush' = [Idle EXCEPT !.pc = "selected", !.batch = SelectPending]
    /\ UNCHANGED <<file, rotated, next, cursor, acked, sequence, emitted, renumbered, net, coordinator, faults>>

\* ... goes out under a number that is on disk before the call.
Send ==
    /\ Up /\ flush.pc = "selected" /\ sequence < MaxSequence
    /\ sequence' = sequence + 1
    /\ flush' = [flush EXCEPT !.pc = "sent", !.number = sequence + 1]
    /\ net' = net \cup {[number |-> sequence + 1, batch |-> flush.batch]}
    /\ UNCHANGED <<file, rotated, next, cursor, acked, emitted, renumbered, coordinator, faults>>

WaitsFor(number) == flush.pc = "sent" /\ flush.number = number

\* The call raises, and the flush thread goes back to its timer.
GiveUp ==
    /\ flush' = Idle
    /\ UNCHANGED <<file, rotated, next, cursor, acked, sequence, emitted, renumbered, net, coordinator>>

\* The connection breaks while the request is on its way or being handled ...
CallFails == flush.pc = "sent" /\ Fault /\ GiveUp

\* ... or nobody is left to answer it.
CallUnanswered ==
    /\ flush.pc = "sent"
    /\ flush.number \notin {m.number : m \in net \cup handlers}
    /\ GiveUp
    /\ UNCHANGED faults

Lose ==
    /\ \E m \in net : net' = net \ {m}
    /\ Fault
    /\ UNCHANGED <<worker, coordinator>>

(***************************************************************************)
(* The coordinator: validate and commit are two calls of the replay store, *)
(* and the events are written after them one by one.                       *)
(***************************************************************************)

IsFresh(number) == number > last /\ number - last <= MaxSequenceGap

Validate ==
    \E m \in net :
        /\ IsFresh(m.number)
        /\ handlers' = handlers \cup
               {[number |-> m.number, batch |-> m.batch, step |-> "validated"]}
        /\ net' = net \ {m}
        /\ UNCHANGED <<worker, last, recorded, unwritten, faults>>

Refuse ==
    \E m \in net :
        /\ ~IsFresh(m.number)
        /\ net' = net \ {m}
        /\ flush' = IF WaitsFor(m.number) THEN Idle ELSE flush
        /\ UNCHANGED <<file, rotated, next, cursor, acked, sequence, emitted, renumbered, coordinator, faults>>

Commit ==
    \E h \in handlers :
        /\ h.step = "validated"
        /\ last' = h.number
        /\ handlers' = (handlers \ {h}) \cup {[h EXCEPT !.step = "recording"]}
        /\ UNCHANGED <<worker, net, recorded, unwritten, faults>>

(***************************************************************************)
(* One event of the batch after the other; the handler keeps the rest.  An *)
(* event that does not parse or validate is skipped, and a write that      *)
(* fails is only logged: the batch is accepted either way.                 *)
(***************************************************************************)
Record ==
    \E h \in handlers :
        /\ h.step = "recording" /\ h.batch # <<>>
        /\ LET n == Head(h.batch).n
           IN \/ n \in Malformed /\ UNCHANGED <<recorded, unwritten, faults>>
              \/ /\ n \notin Malformed
                 /\ recorded' = recorded \cup {n}
                 /\ UNCHANGED <<unwritten, faults>>
              \/ /\ n \notin Malformed /\ Fault
                 /\ unwritten' = unwritten \cup {n}
                 /\ UNCHANGED recorded
        /\ handlers' = (handlers \ {h}) \cup {[h EXCEPT !.batch = Tail(h.batch)]}
        /\ UNCHANGED <<worker, net, last>>

\* The events the handler has come to, whatever became of them.
Handled == recorded \cup unwritten \cup Malformed

\* (Mistake: the handler answers as soon as the number is committed.)
AnswerEarly ==
    \E h \in handlers :
        /\ h.step = "recording"
        /\ WaitsFor(h.number)
        /\ acked' = Last(flush.batch).id /\ cursor' = acked' /\ flush' = Idle
        /\ UNCHANGED <<file, rotated, next, sequence, emitted, renumbered, net, coordinator, faults>>

\* The answer; mark_acknowledged moves the cursor to the batch's last event, in
\* memory and, unless the write fails, on disk.
Answer ==
    \E h \in handlers :
        /\ h.step = "recording" /\ h.batch = <<>>
        /\ handlers' = handlers \ {h}
        /\ IF WaitsFor(h.number)
           THEN /\ acked' = Last(flush.batch).id
                /\ flush' = Idle
                /\ \/ cursor' = acked' /\ UNCHANGED faults
                   \/ UNCHANGED cursor /\ Fault
           ELSE UNCHANGED <<acked, flush, cursor, faults>>
        /\ UNCHANGED <<file, rotated, next, sequence, emitted, renumbered, net, last, recorded,
                   unwritten>>

CoordinatorCrash ==
    /\ Fault
    /\ handlers' = {}
    /\ UNCHANGED <<worker, net, last, recorded, unwritten>>

WorkerNext ==
    Emit \/ EmitFails \/ WorkerCrash \/ WorkerRestart \/ Select \/ Send
        \/ CallFails \/ CallUnanswered

CoordinatorNext ==
    Lose \/ Validate \/ Refuse \/ Commit \/ Record \/ Answer \/ CoordinatorCrash

Next == WorkerNext \/ CoordinatorNext

Spec == Init /\ [][Next]_vars

(***************************************************************************)
(* The flush thread's timer, the worker's restart policy, and a network    *)
(* and a coordinator that do not stand still.                              *)
(***************************************************************************)
FairSpec ==
    /\ Spec
    /\ WF_vars(WorkerRestart) /\ WF_vars(Select) /\ WF_vars(Send)
    /\ WF_vars(CallUnanswered)
    /\ WF_vars(Validate) /\ WF_vars(Refuse) /\ WF_vars(Commit)
    /\ WF_vars(Record) /\ WF_vars(Answer)

-----------------------------------------------------------------------------
(***************************************************************************)
(* Properties.                                                             *)
(***************************************************************************)

(* The cursor only passes events the coordinator has taken up one by one:   *)
(* whatever was emitted up to the acknowledged event of the file is in the  *)
(* coordinator's journal, unless its own checks refused that event or its   *)
(* own write of it failed.  No event gets past unseen, though the           *)
(* coordinator dies between the commit of the number and the events, calls  *)
(* fail late, several handlers work on overlapping batches and the file     *)
(* rotates (mark_acknowledged after an accepted answer).  Ids that start    *)
(* again once a process died right after a rotation are below the cursor    *)
(* unsent: of those it says nothing.                                        *)
AcknowledgedWasTakenUp ==
    ~renumbered =>
        \A i \in DOMAIN file : file[i].id <= cursor => file[i].n \in Handled

\* Every further message would skip too many numbers.
OutOfReach == sequence + 1 - last > MaxSequenceGap

\* The acknowledged event is not in the file any more: list finds nothing.
CursorIsLost == acked # 0 /\ acked \notin {file[i].id : i \in DOMAIN file}

(* Every event in the worker's journal file is taken up by the coordinator  *)
(* or rotated away, whatever restarts, gets lost or is answered late        *)
(* (WorkerSecurityEventQueue: "at-least-once delivery, never silent loss"), *)
(* or the relay has come to a halt for good: because too many failed calls  *)
(* used up the numbers, or because a rotation took the acknowledged event   *)
(* away and nothing it could be found under came again.                     *)
EventsAreRelayed ==
    \A n \in 1 .. MaxEvents :
        n \in Events(file) ~>
            \/ n \in Handled \/ n \notin Events(file) \/ renumbered
            \/ []OutOfReach \/ []CursorIsLost

=============================================================================
