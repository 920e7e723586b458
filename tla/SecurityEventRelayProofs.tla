----------------------- MODULE SecurityEventRelayProofs -----------------------
(***************************************************************************)
(* Proofs for SecurityEventRelay: for any number of events, any batch and  *)
(* rotation size and any number of faults, what is acknowledged was taken  *)
(* up.                                                                     *)
(***************************************************************************)
EXTENDS SecurityEventRelay, SequenceTheorems, TLAPS

Event == [id: Nat \ {0}, n: Nat]
Batch == Seq(Event)

TypeOK ==
  /\ file \in Seq(Event) /\ rotated \in BOOLEAN /\ renumbered \in BOOLEAN
  /\ next \in Nat /\ cursor \in Nat /\ acked \in Nat /\ sequence \in Nat
  /\ emitted \in Nat /\ last \in Nat /\ faults \in Nat
  /\ flush \in [pc: {"idle", "selected", "sent"}, batch: Batch, number: Nat]
  /\ net \subseteq [number: Nat, batch: Batch]
  /\ handlers \subseteq [number: Nat, batch: Batch, step: {"validated", "recording"}]
  /\ recorded \subseteq Nat /\ unwritten \subseteq Nat

(* The ids of the file grow, and the next one is larger than all of them. *)
FileOK ==
  /\ \A i, j \in DOMAIN file : i < j => file[i].id < file[j].id
  /\ Up => \A i \in DOMAIN file : file[i].id < next

(* A number is given to one message only, so a handler that answers the    *)
(* flush thread's call has that call's batch, or has taken up all of it.   *)
Numbered ==
  /\ \A m \in net \cup handlers : m.number <= sequence
  /\ flush.pc = "sent" => flush.number <= sequence
  /\ \A m \in net : WaitsFor(m.number) => m.batch = flush.batch
  /\ \A h \in handlers : WaitsFor(h.number) => Events(flush.batch) \subseteq Handled \cup Events(h.batch)

(* An id that was given out before the file's last, and before the next. *)
GivenOut(id) ==
  /\ Up => id < next
  /\ file # <<>> => id <= file[Len(file)].id

UpTo(id, known) == \A i \in DOMAIN file : file[i].id <= id => file[i].n \in known

(* The cursor, in memory and on disk, and where the flush may move it. *)
Told ==
  /\ flush.pc # "idle" => Up /\ flush.batch # <<>>
  /\ ~Up => acked = 0
  /\ ~renumbered =>
       /\ GivenOut(cursor) /\ UpTo(cursor, Handled)
       /\ GivenOut(acked) /\ UpTo(acked, Handled)
       /\ flush.pc # "idle" =>
            /\ GivenOut(Last(flush.batch).id)
            /\ UpTo(Last(flush.batch).id, Handled \cup Events(flush.batch))

IInv == TypeOK /\ FileOK /\ Numbered /\ Told
-------------------------------------------------------------------------------
(* Batches and files. *)
LEMMA FileFacts ==
  ASSUME TypeOK
  PROVE  /\ Len(file) \in Nat /\ DOMAIN file = 1..Len(file)
         /\ \A i \in DOMAIN file : file[i] \in Event /\ file[i].id \in Nat \ {0} /\ file[i].n \in Nat
         /\ file # <<>> => Len(file) \in DOMAIN file
         /\ \A i \in DOMAIN file : file # <<>>
<1>1. file \in Seq(Event)
  BY DEF TypeOK
<1>2. Len(file) \in Nat /\ DOMAIN file = 1..Len(file)
  BY <1>1, LenProperties
<1>3. \A i \in DOMAIN file : file[i] \in Event
  BY <1>1, <1>2, ElementOfSeq
<1>4. file # <<>> => Len(file) # 0
  BY <1>1, EmptySeq
<1>5. file = <<>> => DOMAIN file = {}
  OBVIOUS
<1> QED
  BY <1>2, <1>3, <1>4, <1>5 DEF Event

LEMMA BatchFacts ==
  ASSUME NEW batch \in Batch
  PROVE  /\ batch = <<>> => Events(batch) = {}
         /\ batch # <<>> =>
              /\ Head(batch) \in Event /\ Tail(batch) \in Batch /\ Head(batch).n \in Nat
              /\ Events(batch) \subseteq {Head(batch).n} \cup Events(Tail(batch))
              /\ Last(batch) \in Event /\ Last(batch).id \in Nat \ {0}
<1>1. batch = <<>> => Events(batch) = {}
  BY DEF Events
<1>2. ASSUME batch # <<>>
      PROVE  /\ Head(batch) \in Event /\ Tail(batch) \in Batch /\ Head(batch).n \in Nat
             /\ Last(batch) \in Event /\ Last(batch).id \in Nat \ {0}
  <2>1. Len(batch) \in DOMAIN batch /\ batch \in Seq(Event)
    BY <1>2 DEF Batch
  <2>2. Last(batch) \in Event
    BY <2>1, ElementOfSeq DEF Last
  <2>3. Head(batch) \in Event /\ Tail(batch) \in Seq(Event)
    BY <1>2, <2>1
  <2> QED
    BY <2>2, <2>3 DEF Batch, Event
<1>3. ASSUME batch # <<>>, NEW i \in DOMAIN batch, i # 1
      PROVE  i - 1 \in DOMAIN Tail(batch) /\ Tail(batch)[i - 1] = batch[i]
  BY <1>3 DEF Batch
<1>4. batch # <<>> => batch[1] = Head(batch)
  BY DEF Batch
<1>5. batch # <<>> => Events(batch) \subseteq {Head(batch).n} \cup Events(Tail(batch))
  BY <1>3, <1>4 DEF Events
<1> QED
  BY <1>1, <1>2, <1>5

LEMMA MinOfTwo ==
  ASSUME NEW a \in Nat, NEW b \in Nat
  PROVE  Min({a, b}) \in {a, b} /\ Min({a, b}) <= a /\ Min({a, b}) <= b
<1>1. \E x \in {a, b} : \A y \in {a, b} : x <= y
  <2>1. CASE a <= b
    BY <2>1
  <2>2. CASE b <= a
    BY <2>2
  <2> QED
    BY <2>1, <2>2
<1> QED
  BY <1>1 DEF Min

(* The ids after a restart come after those of the file it finds. *)
LEMMA NextIdIsNew ==
  ASSUME TypeOK, FileOK
  PROVE  /\ NextIdAfterLoad \in Nat \ {0}
         /\ \A i \in DOMAIN file : file[i].id < NextIdAfterLoad
<1> DEFINE ids == {file[i].id : i \in DOMAIN file} \cup {0}
           Largest(x) == x \in ids /\ \A y \in ids : x >= y
<1>1. \E x : Largest(x)
  <2>1. CASE file = <<>>
    BY <2>1, FileFacts
  <2>2. CASE file # <<>>
    <3>1. Len(file) \in DOMAIN file /\ \A i \in DOMAIN file : i # Len(file) => i < Len(file)
      BY <2>2, FileFacts
    <3>2. \A i \in DOMAIN file : file[Len(file)].id >= file[i].id
      BY <3>1, FileFacts DEF FileOK
    <3>3. Largest(file[Len(file)].id)
      BY <3>1, <3>2, FileFacts
    <3> QED
      BY <3>3
  <2> QED
    BY <2>1, <2>2
<1>2. Largest(Max(ids))
  BY <1>1 DEF Max
<1>3. ids \subseteq Nat
  BY FileFacts
<1>4. NextIdAfterLoad = Max(ids) + 1
  BY DEF NextIdAfterLoad
<1>5. Max(ids) \in Nat /\ \A i \in DOMAIN file : file[i].id <= Max(ids)
  <2>1. \A i \in DOMAIN file : file[i].id \in ids
    OBVIOUS
  <2> HIDE DEF ids
  <2> QED
    BY <1>2, <1>3, <2>1
<1> HIDE DEF ids
<1> QED
  BY <1>4, <1>5, FileFacts

(* What a flush selects follows in the file what was acknowledged. *)
LEMMA SelectFollows ==
  ASSUME TypeOK, FileOK, SelectPending # <<>>
  PROVE  /\ SelectPending \in Batch
         /\ \E j \in DOMAIN file : Last(SelectPending) = file[j]
         /\ UpTo(acked, Handled) =>
              UpTo(Last(SelectPending).id, Handled \cup Events(SelectPending))
<1>1. PICK at \in 0..Len(file) :
        /\ Pending # <<>> => Pending = SubSeq(file, at + 1, Len(file))
        /\ at > 0 => file[at].id = acked
  <2>1. CASE acked = 0
    <3>1. Pending = file
      BY <2>1 DEF Pending
    <3>2. file = SubSeq(file, 0 + 1, Len(file))
      BY DEF TypeOK
    <3> QED
      BY <3>1, <3>2, FileFacts
  <2>2. CASE acked # 0
    <3> DEFINE I == {i \in 1..Len(file) : file[i].id = acked}
               first == SelectInSeq(file, LAMBDA e : e.id = acked)
    <3>1. first = IF I # {} THEN Min(I) ELSE 0
      BY DEF SelectInSeq
    <3>2. Pending = IF first > 0 THEN SubSeq(file, first + 1, Len(file)) ELSE <<>>
      BY <2>2 DEF Pending
    <3>3. ASSUME I # {} PROVE Min(I) \in I
      <4>1. PICK i \in I : TRUE
        BY <3>3
      <4>2. I = {i}
        BY <4>1, FileFacts DEF FileOK
      <4> QED
        BY <4>2 DEF Min
    <3>4. first \in 0..Len(file) /\ (first > 0 => file[first].id = acked)
      BY <3>1, <3>3, FileFacts
    <3> HIDE DEF first
    <3> QED
      BY <3>2, <3>4
  <2> QED
    BY <2>1, <2>2
<1>2. Pending # <<>> /\ Pending \in Seq(Event) /\ file \in Seq(Event)
  <2>1. file \in Seq(Event)
    BY DEF TypeOK
  <2>2. Pending \in Seq(Event)
    <3>1. \A i \in (at + 1)..Len(file) : file[i] \in Event
      BY <1>1, FileFacts
    <3>2. SubSeq(file, at + 1, Len(file)) \in Seq(Event)
      BY <1>1, <3>1, FileFacts, SubSeqProperties
    <3>3. Pending = <<>> \/ Pending = SubSeq(file, at + 1, Len(file))
      BY <1>1
    <3>4. <<>> \in Seq(Event)
      OBVIOUS
    <3> QED
      BY <3>2, <3>3, <3>4
  <2>3. SubSeq(<<>>, 1, Min({BatchSize, 0})) = <<>>
    BY BatchSizeAssumption, MinOfTwo
  <2> QED
    BY <2>1, <2>2, <2>3 DEF SelectPending
<1>3. Len(Pending) \in Nat \ {0} /\ Len(Pending) = Len(file) - at
  BY <1>1, <1>2
<1>4. PICK k \in 1..Len(Pending) : SelectPending = SubSeq(Pending, 1, k)
  BY <1>3, BatchSizeAssumption, MinOfTwo, SMTT(60) DEF SelectPending
<1>5. SelectPending \in Batch /\ Len(SelectPending) = k /\ DOMAIN SelectPending = 1..k
  BY <1>2, <1>3, <1>4 DEF Batch
<1>6. \A i \in 1..k : SelectPending[i] = file[at + i] /\ at + i \in DOMAIN file
  BY <1>1, <1>2, <1>3, <1>4, FileFacts, SMTT(60)
<1>7. Last(SelectPending) = file[at + k] /\ at + k \in DOMAIN file
  BY <1>3, <1>5, <1>6 DEF Last
<1>8. ASSUME UpTo(acked, Handled), NEW i \in DOMAIN file, file[i].id <= file[at + k].id
      PROVE  file[i].n \in Handled \cup Events(SelectPending)
  <2>1. i <= at + k
    BY <1>3, <1>7, <1>8, FileFacts, SMTT(60) DEF FileOK
  <2>2. CASE i <= at
    <3>1. at > 0 /\ at \in DOMAIN file /\ file[at].id = acked
      BY <1>1, <2>2, FileFacts
    <3>2. i = at \/ i < at
      BY <1>1, <2>2, FileFacts
    <3>3. file[i].id <= acked
      BY <3>1, <3>2, FileFacts DEF FileOK
    <3> QED
      BY <1>8, <3>3 DEF UpTo, Handled
  <2>3. CASE i > at
    <3>1. i - at \in 1..k /\ SelectPending[i - at] = file[at + (i - at)] /\ at + (i - at) = i
      BY <1>6, <2>1, <2>3, FileFacts
    <3> QED
      BY <1>5, <3>1 DEF Events
  <2> QED
    BY <2>2, <2>3, FileFacts
<1> QED
  BY <1>5, <1>7, <1>8 DEF UpTo, Handled
-------------------------------------------------------------------------------
(* The file does not change, or a rotation moves all of it away. *)
LEMMA CutKeeps ==
  ASSUME TypeOK, FileOK, file' \in {file, <<>>}
  PROVE  /\ file' \in Seq(Event)
         /\ \A i, j \in DOMAIN file' : i < j => file'[i].id < file'[j].id
         /\ \A i \in DOMAIN file' : i \in DOMAIN file /\ file'[i] = file[i]
         /\ file' # <<>> => file' = file
<1>1. file \in Seq(Event) /\ <<>> \in Seq(Event)
  BY DEF TypeOK
<1>2. CASE file' = file
  BY <1>1, <1>2 DEF FileOK
<1>3. CASE file' = <<>>
  <2>1. DOMAIN file' = {}
    BY <1>3
  <2> QED
    BY <1>1, <1>3, <2>1
<1> QED
  BY <1>2, <1>3

(* What was known of the file's beginning is known of what is left of it. *)
LEMMA KnownKept ==
  ASSUME TypeOK, FileOK, file' \in {file, <<>>}, NEW id, NEW known, NEW more,
         UpTo(id, known), known \subseteq more
  PROVE  UpTo(id, more)'
  BY CutKeeps DEF UpTo, Handled

(* emit that writes its line, and emit that fails. *)
LEMMA EmitKeeps ==
  ASSUME IInv, Emit
  PROVE  IInv'
<1>1. /\ Up /\ next' = next + 1 /\ emitted' = emitted + 1
      /\ rotated' = (rotated \/ RotationIsDue)
      /\ UNCHANGED <<cursor, acked, sequence, flush, renumbered, net, handlers, last, recorded, unwritten, faults>>
  BY DEF Emit, coordinator
<1>2. /\ TypeOK /\ FileOK /\ next \in Nat \ {0} /\ next' \in Nat \ {0} /\ emitted' \in Nat
  BY <1>1 DEF IInv, TypeOK, Up
<1> DEFINE e == [id |-> next, n |-> emitted + 1]
<1>3. e \in Event
  BY <1>2 DEF Event, TypeOK
<1>4. PICK kept \in {file, <<>>} : file' = Append(kept, e)
  BY DEF Emit
<1>5. kept \in Seq(Event) /\ Len(kept) \in Nat /\ DOMAIN kept = 1..Len(kept)
      /\ \A i \in DOMAIN kept : i \in DOMAIN file /\ kept[i] = file[i]
  <2>1. file \in Seq(Event) /\ <<>> \in Seq(Event) /\ DOMAIN <<>> = {}
    BY <1>2 DEF TypeOK
  <2>2. kept \in Seq(Event)
    BY <1>4, <2>1
  <2>3. Len(kept) \in Nat /\ DOMAIN kept = 1..Len(kept)
    BY <2>2, LenProperties
  <2> QED
    BY <1>4, <2>1, <2>2, <2>3
<1>6. /\ file' \in Seq(Event) /\ Len(file') = Len(kept) + 1 /\ DOMAIN file' = 1..(Len(kept) + 1)
      /\ file'[Len(kept) + 1] = e
      /\ \A i \in 1..Len(kept) : file'[i] = file[i] /\ i \in DOMAIN file
  <2> HIDE DEF e
  <2> QED
    BY <1>3, <1>4, <1>5
<1>7. \A i \in DOMAIN file : file[i].id \in Nat /\ file[i].id < next
  BY <1>1, <1>2, FileFacts DEF FileOK
<1>8. TypeOK'
  <2>1. rotated' \in BOOLEAN
    BY <1>1
  <2> QED
    BY <1>1, <1>2, <1>6, <2>1 DEF TypeOK
<1>9. FileOK'
  <2>1. \A i \in DOMAIN file' : i \in 1..Len(kept) \/ i = Len(kept) + 1
    BY <1>5, <1>6
  <2>2. e.id = next
    OBVIOUS
  <2> HIDE DEF e
  <2>3. \A i \in DOMAIN file' : file'[i].id < next'
    BY <1>1, <1>2, <1>6, <1>7, <2>1, <2>2
  <2>4. ASSUME NEW i \in DOMAIN file', NEW j \in DOMAIN file', i < j
        PROVE  file'[i].id < file'[j].id
    <3>1. i \in 1..Len(kept)
      BY <1>5, <2>1, <2>4
    <3>2. CASE j = Len(kept) + 1
      BY <1>6, <1>7, <2>2, <3>1, <3>2
    <3>3. CASE j \in 1..Len(kept)
      BY <1>2, <1>6, <2>4, <3>1, <3>3 DEF FileOK
    <3> QED
      BY <2>1, <3>2, <3>3
  <2> QED
    BY <2>3, <2>4 DEF FileOK
<1>10. Numbered'
  BY <1>1 DEF IInv, Numbered, WaitsFor, Events, Handled
<1>11. ASSUME NEW id \in Nat, GivenOut(id), NEW known, UpTo(id, known)
       PROVE  GivenOut(id)' /\ UpTo(id, known)'
  <2>1. id < next
    BY <1>1, <1>11 DEF GivenOut
  <2>2. GivenOut(id)'
    BY <1>1, <1>2, <1>6, <2>1 DEF GivenOut, Up
  <2>3. UpTo(id, known)'
    BY <1>2, <1>5, <1>6, <1>11, <2>1 DEF UpTo, Handled
  <2> QED
    BY <2>2, <2>3
<1>12. Told'
  <2>1. Up'
    BY <1>2 DEF Up
  <2>2. flush.pc # "idle" => flush.batch # <<>> /\ Last(flush.batch).id \in Nat
    BY <1>2, BatchFacts DEF IInv, Told, TypeOK
  <2>3. cursor \in Nat /\ acked \in Nat
    BY <1>2 DEF TypeOK
  <2>4. ASSUME ~renumbered, flush.pc # "idle"
        PROVE  /\ GivenOut(Last(flush.batch).id)'
               /\ UpTo(Last(flush.batch).id, Handled \cup Events(flush.batch))'
    <3>1. PICK id, known : /\ id \in Nat /\ id = Last(flush.batch).id
                           /\ known = Handled \cup Events(flush.batch)
      BY <2>2, <2>4
    <3>2. id = (Last(flush.batch).id)' /\ known = (Handled \cup Events(flush.batch))'
      BY <1>1, <3>1 DEF Events, Last, Handled
    <3>3. GivenOut(id)' /\ UpTo(id, known)'
      BY <1>11, <2>4, <3>1 DEF IInv, Told
    <3> QED
      BY <3>2, <3>3 DEF GivenOut, UpTo, Handled
  <2> QED
    BY <1>1, <1>11, <2>1, <2>2, <2>3, <2>4 DEF IInv, Told, GivenOut, UpTo, Handled
<1> QED
  BY <1>8, <1>9, <1>10, <1>12 DEF IInv

LEMMA EmitFailsKeeps ==
  ASSUME IInv, EmitFails
  PROVE  IInv'
<1>1. /\ Up /\ next' = next + 1 /\ emitted' = emitted + 1 /\ faults' = faults + 1
      /\ file' \in {file, <<>>} /\ rotated' \in {rotated, TRUE}
      /\ UNCHANGED <<cursor, acked, sequence, flush, renumbered, net, handlers, last, recorded, unwritten>>
  BY DEF EmitFails, InterruptedEmit, Fault, coordinator
<1>2. TypeOK /\ FileOK /\ next \in Nat \ {0} /\ Up'
  BY <1>1 DEF IInv, TypeOK, Up
<1>3. TypeOK'
  <2>1. rotated' \in BOOLEAN /\ file' \in Seq(Event)
    BY <1>1, <1>2, CutKeeps DEF TypeOK
  <2>2. next' \in Nat /\ emitted' \in Nat /\ faults' \in Nat
    BY <1>1, <1>2 DEF TypeOK
  <2> QED
    BY <1>1, <1>2, <2>1, <2>2 DEF TypeOK
<1>4. FileOK'
  <2>1. \A i \in DOMAIN file : file[i].id \in Nat
    BY <1>2, FileFacts
  <2> QED
    BY <1>1, <1>2, <2>1, CutKeeps DEF FileOK
<1>5. Numbered'
  BY <1>1 DEF IInv, Numbered, WaitsFor, Events, Handled
<1>6. \A id \in Nat : GivenOut(id) => GivenOut(id)'
  BY <1>1, <1>2, CutKeeps DEF GivenOut
<1>7. flush.pc # "idle" => flush.batch # <<>> /\ Last(flush.batch).id \in Nat
  BY <1>2, BatchFacts DEF IInv, Told, TypeOK
<1>8. ASSUME ~renumbered, flush.pc # "idle"
      PROVE  /\ GivenOut(Last(flush.batch).id)'
             /\ UpTo(Last(flush.batch).id, Handled \cup Events(flush.batch))'
  BY <1>1, <1>2, <1>6, <1>7, <1>8, KnownKept, SMTT(60) DEF IInv, Told, GivenOut, UpTo, Events, Last, Handled
<1>9. Told'
  BY <1>1, <1>2, <1>6, <1>8, KnownKept DEF IInv, Told, TypeOK, GivenOut, UpTo, Handled
<1> QED
  BY <1>3, <1>4, <1>5, <1>9 DEF IInv

LEMMA WorkerCrashKeeps ==
  ASSUME IInv, WorkerCrash
  PROVE  IInv'
<1>1. /\ Up /\ next' = 0 /\ acked' = 0 /\ flush' = Idle /\ faults' = faults + 1
      /\ file' \in {file, <<>>} /\ rotated' \in {rotated, TRUE}
      /\ UNCHANGED <<cursor, sequence, emitted, renumbered, net, handlers, last, recorded, unwritten>>
  BY DEF WorkerCrash, InterruptedEmit, Fault, coordinator
<1>2. TypeOK /\ FileOK /\ ~Up'
  BY <1>1 DEF IInv, Up
<1>3. TypeOK'
  <2>1. rotated' \in BOOLEAN /\ file' \in Seq(Event)
    BY <1>1, <1>2, CutKeeps DEF TypeOK
  <2>2. faults' \in Nat /\ <<>> \in Batch
    BY <1>1, <1>2 DEF TypeOK, Batch
  <2>3. flush' \in [pc: {"idle", "selected", "sent"}, batch: Batch, number: Nat]
    BY <1>1, <2>2 DEF Idle
  <2> QED
    BY <1>1, <1>2, <2>1, <2>2, <2>3 DEF TypeOK
<1>4. FileOK'
  BY <1>1, <1>2, CutKeeps DEF FileOK
<1>5. flush'.pc = "idle"
  BY <1>1 DEF Idle
<1>6. Numbered'
  BY <1>1, <1>5 DEF IInv, Numbered, WaitsFor, Handled
<1>7. Told'
  <2>1. ASSUME ~renumbered PROVE GivenOut(cursor)' /\ UpTo(cursor, Handled)'
    BY <1>1, <1>2, <2>1, CutKeeps, KnownKept DEF IInv, Told, GivenOut, UpTo, Handled
  <2>2. GivenOut(0)' /\ UpTo(0, Handled)'
    <3>1. \A i \in DOMAIN file : file[i].id \in Nat \ {0}
      BY <1>2, FileFacts
    <3>2. file # <<>> => Len(file) \in DOMAIN file
      BY <1>2, FileFacts
    <3> QED
      BY <1>1, <1>2, <3>1, <3>2, CutKeeps DEF GivenOut, UpTo, Handled
  <2> QED
    BY <1>1, <1>2, <1>5, <2>1, <2>2 DEF Told, GivenOut, UpTo, Handled
<1> QED
  BY <1>3, <1>4, <1>6, <1>7 DEF IInv

LEMMA WorkerRestartKeeps ==
  ASSUME IInv, WorkerRestart
  PROVE  IInv'
<1>1. /\ ~Up /\ next' = NextIdAfterLoad /\ acked' = cursor
      /\ renumbered' = (renumbered \/ (file = <<>> /\ cursor > 0))
      /\ UNCHANGED <<file, rotated, cursor, sequence, flush, emitted, net, handlers, last, recorded, unwritten, faults>>
  BY DEF WorkerRestart, coordinator
<1>2. TypeOK /\ FileOK /\ flush.pc = "idle"
  BY <1>1 DEF IInv, Told
<1>3. next' \in Nat \ {0} /\ \A i \in DOMAIN file : file[i].id < next'
  BY <1>1, <1>2, NextIdIsNew
<1>4. Up'
  BY <1>3 DEF Up
<1>5. TypeOK'
  <2>1. renumbered' \in BOOLEAN
    BY <1>1
  <2> QED
    BY <1>1, <1>2, <1>3, <2>1 DEF TypeOK
<1>6. FileOK'
  BY <1>1, <1>2, <1>3 DEF FileOK
<1>7. Numbered'
  BY <1>1 DEF IInv, Numbered, WaitsFor, Events, Handled
<1>8. Told'
  <2>1. ASSUME ~renumbered' PROVE GivenOut(cursor)' /\ UpTo(cursor, Handled)'
    <3>1. ~renumbered /\ cursor \in Nat /\ (file = <<>> => cursor = 0)
      <4>1. ~renumbered /\ ~(file = <<>> /\ cursor > 0)
        BY <1>1, <2>1
      <4> QED
        BY <1>2, <4>1 DEF TypeOK
    <3>2. UpTo(cursor, Handled) /\ GivenOut(cursor)
      BY <3>1 DEF IInv, Told
    <3>3. file # <<>> => Len(file) \in DOMAIN file /\ file[Len(file)].id \in Nat
      BY <1>2, FileFacts
    <3>4. cursor < next'
      BY <1>3, <3>1, <3>2, <3>3 DEF GivenOut
    <3> QED
      BY <1>1, <3>2, <3>4 DEF UpTo, GivenOut, Handled
  <2> QED
    BY <1>1, <1>2, <1>4, <2>1 DEF Told, GivenOut, UpTo, Handled
<1> QED
  BY <1>5, <1>6, <1>7, <1>8 DEF IInv

(* The flush thread alone: the file and what is known of it stay. *)
LEMMA FlushKeeps ==
  ASSUME IInv, UNCHANGED <<file, rotated, next, cursor, acked, emitted, renumbered, handlers, last,
                           recorded, unwritten>>,
         sequence' \in Nat, faults' \in Nat,
         flush' \in [pc: {"idle", "selected", "sent"}, batch: Batch, number: Nat],
         net' \subseteq [number: Nat, batch: Batch],
         Numbered',
         flush'.pc # "idle" =>
           /\ Up /\ flush'.batch # <<>>
           /\ ~renumbered => /\ GivenOut(Last(flush'.batch).id)
                             /\ UpTo(Last(flush'.batch).id, Handled \cup Events(flush'.batch))
  PROVE  IInv'
<1>1. TypeOK'
  BY DEF IInv, TypeOK
<1>2. FileOK'
  BY DEF IInv, FileOK, Up
<1>3. Told'
  BY DEF IInv, Told, GivenOut, UpTo, Up, Events, Last, Handled
<1> QED
  BY <1>1, <1>2, <1>3 DEF IInv

LEMMA SelectKeeps ==
  ASSUME IInv, Select
  PROVE  IInv'
<1> DEFINE batch == SelectPending
<1>1. /\ Up /\ batch # <<>> /\ flush' = [Idle EXCEPT !.pc = "selected", !.batch = batch]
      /\ UNCHANGED <<file, rotated, next, cursor, acked, sequence, emitted, renumbered, net, handlers,
                     last, recorded, unwritten, faults>>
  BY DEF Select, coordinator
<1>2. TypeOK /\ FileOK
  BY DEF IInv
<1>3. /\ batch \in Batch /\ \E j \in DOMAIN file : Last(batch) = file[j]
      /\ UpTo(acked, Handled) => UpTo(Last(batch).id, Handled \cup Events(batch))
  BY <1>1, <1>2, SelectFollows
<1> HIDE DEF batch
<1>4. /\ flush'.pc = "selected" /\ flush'.batch = batch
      /\ flush' \in [pc: {"idle", "selected", "sent"}, batch: Batch, number: Nat]
  BY <1>1, <1>3 DEF Idle
<1>5. GivenOut(Last(batch).id)
  <2>1. PICK j \in DOMAIN file : Last(batch) = file[j]
    BY <1>3
  <2>2. /\ Len(file) \in Nat /\ j \in 1..Len(file) /\ Len(file) \in DOMAIN file
        /\ \A i \in DOMAIN file : file[i].id \in Nat
    BY <1>2, <2>1, FileFacts
  <2>3. file[j].id < next
    BY <1>1, <1>2, <2>1 DEF FileOK
  <2>4. file[j].id <= file[Len(file)].id
    <3>1. j = Len(file) \/ j < Len(file)
      BY <2>2
    <3> QED
      BY <1>2, <2>1, <2>2, <3>1 DEF FileOK
  <2> QED
    BY <2>1, <2>3, <2>4 DEF GivenOut
<1>6. Numbered'
  BY <1>1, <1>4 DEF IInv, Numbered, WaitsFor, Handled
<1>7. ~renumbered => UpTo(acked, Handled)
  BY DEF IInv, Told
<1>8. sequence' \in Nat /\ faults' \in Nat /\ net' \subseteq [number: Nat, batch: Batch]
  BY <1>1, <1>2 DEF TypeOK
<1> QED
  BY <1>1, <1>3, <1>4, <1>5, <1>6, <1>7, <1>8, FlushKeeps

LEMMA SendKeeps ==
  ASSUME IInv, Send
  PROVE  IInv'
<1>1. PICK message : /\ message = [number |-> sequence + 1, batch |-> flush.batch]
                     /\ net' = net \cup {message}
  BY DEF Send
<1>2. /\ Up /\ flush.pc = "selected" /\ sequence' = sequence + 1
      /\ flush' = [flush EXCEPT !.pc = "sent", !.number = sequence + 1]
      /\ UNCHANGED <<file, rotated, next, cursor, acked, emitted, renumbered, handlers, last, recorded, unwritten,
                     faults>>
  BY DEF Send, coordinator
<1>3. /\ TypeOK /\ sequence \in Nat /\ sequence' \in Nat /\ flush.batch \in Batch
  BY <1>2 DEF IInv, TypeOK
<1>4. /\ flush'.pc = "sent" /\ flush'.number = sequence + 1 /\ flush'.batch = flush.batch
      /\ flush' \in [pc: {"idle", "selected", "sent"}, batch: Batch, number: Nat]
  BY <1>2, <1>3 DEF TypeOK
<1>5. message \in [number: Nat, batch: Batch] /\ net' \subseteq [number: Nat, batch: Batch]
  BY <1>1, <1>3 DEF TypeOK
<1>6. \A m \in net \cup handlers : m.number \in Nat /\ m.number <= sequence
  BY <1>3 DEF IInv, Numbered, TypeOK, Handled
<1>7. Numbered'
  BY <1>1, <1>2, <1>3, <1>4, <1>6 DEF Numbered, WaitsFor, Handled
<1>8. ~renumbered => /\ GivenOut(Last(flush.batch).id)
                     /\ UpTo(Last(flush.batch).id, Handled \cup Events(flush.batch))
  BY <1>2 DEF IInv, Told
<1>9. flush.batch # <<>> /\ faults' \in Nat
  BY <1>2 DEF IInv, Told, TypeOK
<1> QED
  BY <1>2, <1>3, <1>4, <1>5, <1>7, <1>8, <1>9, FlushKeeps

(* The flush thread goes back to its timer, as far as it got. *)
LEMMA IdleKeeps ==
  ASSUME IInv, flush' = Idle, net' \subseteq net, faults' \in Nat,
         UNCHANGED <<file, rotated, next, cursor, acked, sequence, emitted, renumbered, handlers, last,
                     recorded, unwritten>>
  PROVE  IInv'
<1>1. <<>> \in Batch
  BY DEF Batch
<1>2. /\ flush'.pc = "idle"
      /\ flush' \in [pc: {"idle", "selected", "sent"}, batch: Batch, number: Nat]
  BY <1>1 DEF Idle
<1>3. Numbered'
  BY <1>2 DEF IInv, Numbered, WaitsFor, Handled
<1>4. sequence' \in Nat /\ net' \subseteq [number: Nat, batch: Batch]
  BY DEF IInv, TypeOK
<1> QED
  BY <1>2, <1>3, <1>4, FlushKeeps

LEMMA GiveUpKeeps ==
  ASSUME IInv, CallFails \/ CallUnanswered
  PROVE  IInv'
<1>1. faults' \in Nat
  BY DEF CallFails, CallUnanswered, Fault, IInv, TypeOK
<1>2. /\ flush' = Idle
      /\ UNCHANGED <<file, rotated, next, cursor, acked, sequence, emitted, renumbered, net, handlers,
                     last, recorded, unwritten>>
  BY DEF CallFails, CallUnanswered, GiveUp, coordinator
<1> QED
  BY <1>1, <1>2, IdleKeeps

(***************************************************************************)
(* The coordinator: the worker is as it was, and the handler that answers  *)
(* the flush thread still has its batch or has taken up all of it.          *)
(***************************************************************************)
LEMMA CoordinatorKeeps ==
  ASSUME IInv, UNCHANGED <<file, rotated, next, cursor, acked, sequence, emitted, renumbered, flush>>,
         last' \in Nat, faults' \in Nat, Handled \subseteq Handled', recorded' \subseteq Nat, unwritten' \subseteq Nat,
         net' \subseteq net,
         NEW h \in [number: Nat, batch: Batch, step: {"validated", "recording"}],
         handlers' \subseteq handlers \cup {h},
         h \in handlers' =>
           /\ h.number <= sequence
           /\ WaitsFor(h.number) => Events(flush.batch) \subseteq Handled' \cup Events(h.batch)
  PROVE  IInv'
<1>1. TypeOK'
  BY DEF IInv, TypeOK
<1>2. FileOK'
  BY DEF IInv, FileOK, Up
<1>3. Numbered'
  <2>1. \A number : WaitsFor(number)' <=> WaitsFor(number)
    BY DEF WaitsFor
  <2>2. Events(flush.batch)' = Events(flush.batch)
    BY DEF Events
  <2>3. ASSUME NEW g \in handlers', WaitsFor(g.number)
        PROVE  Events(flush.batch) \subseteq Handled' \cup Events(g.batch)
    <3>1. CASE g = h
      BY <2>3, <3>1
    <3>2. CASE g # h
      BY <2>3, <3>2 DEF IInv, Numbered, Handled
    <3> QED
      BY <3>1, <3>2
  <2>4. \A m \in net' \cup handlers' : m.number <= sequence'
    BY DEF IInv, Numbered, Handled
  <2>5. \A m \in net' : WaitsFor(m.number) => m.batch = flush.batch
    BY DEF IInv, Numbered, Handled
  <2>6. flush.pc = "sent" => flush.number <= sequence
    BY DEF IInv, Numbered, Handled
  <2>7. \A g \in handlers' : (WaitsFor(g.number) => Events(flush.batch) \subseteq Handled \cup Events(g.batch))'
    BY <2>1, <2>2, <2>3 DEF Events
  <2> QED
    BY <2>1, <2>4, <2>5, <2>6, <2>7 DEF Numbered, Handled
<1>4. Told'
  <2>1. Told /\ Up' = Up /\ renumbered' = renumbered /\ cursor' = cursor /\ acked' = acked /\ flush' = flush
    BY DEF IInv, Up
  <2>2. Last(flush.batch)' = Last(flush.batch) /\ Events(flush.batch)' = Events(flush.batch)
    BY DEF Last, Events
  <2>3. /\ GivenOut(cursor) => GivenOut(cursor)'
        /\ GivenOut(acked) => GivenOut(acked)'
        /\ GivenOut(Last(flush.batch).id) => GivenOut(Last(flush.batch).id)'
    BY DEF GivenOut, Up, Last
  <2>4. /\ UpTo(cursor, Handled) => UpTo(cursor, Handled)'
        /\ UpTo(acked, Handled) => UpTo(acked, Handled)'
    BY DEF UpTo, Handled
  <2>5. UpTo(Last(flush.batch).id, Handled \cup Events(flush.batch))
          => UpTo(Last(flush.batch).id, Handled \cup Events(flush.batch))'
    BY <2>2 DEF UpTo, Last, Handled
  <2> QED
    BY <2>1, <2>2, <2>3, <2>4, <2>5 DEF Told
<1> QED
  BY <1>1, <1>2, <1>3, <1>4 DEF IInv

LEMMA FewerKeeps ==
  ASSUME IInv, UNCHANGED <<file, rotated, next, cursor, acked, sequence, emitted, renumbered, flush,
                           last, recorded, unwritten>>,
         faults' \in Nat, net' \subseteq net, handlers' \subseteq handlers
  PROVE  IInv'
<1>1. TypeOK'
  BY DEF IInv, TypeOK
<1>2. FileOK'
  BY DEF IInv, FileOK, Up
<1>3. Numbered'
  BY DEF IInv, Numbered, WaitsFor, Events, Handled
<1>4. Told'
  BY DEF IInv, Told, GivenOut, UpTo, Up, Events, Last, Handled
<1> QED
  BY <1>1, <1>2, <1>3, <1>4 DEF IInv

LEMMA LossKeeps ==
  ASSUME IInv, Lose \/ CoordinatorCrash
  PROVE  IInv'
<1>1. faults' \in Nat
  BY DEF Lose, CoordinatorCrash, Fault, IInv, TypeOK
<1>2. /\ UNCHANGED <<file, rotated, next, cursor, acked, sequence, emitted, renumbered, flush, last,
                     recorded, unwritten>>
      /\ net' \subseteq net /\ handlers' \subseteq handlers
  BY DEF Lose, CoordinatorCrash, worker, coordinator
<1> QED
  BY <1>1, <1>2, FewerKeeps

LEMMA ValidateKeeps ==
  ASSUME IInv, Validate
  PROVE  IInv'
<1>1. PICK m \in net :
        /\ handlers' = handlers \cup {[number |-> m.number, batch |-> m.batch, step |-> "validated"]}
        /\ net' = net \ {m}
        /\ UNCHANGED <<worker, last, recorded, unwritten, faults>>
  BY DEF Validate
<1>2. PICK h : h = [number |-> m.number, batch |-> m.batch, step |-> "validated"]
  OBVIOUS
<1>3. /\ h \in [number: Nat, batch: Batch, step: {"validated", "recording"}]
      /\ h.number = m.number /\ h.batch = m.batch
  BY <1>2 DEF IInv, TypeOK
<1>4. /\ h.number <= sequence
      /\ WaitsFor(h.number) => Events(flush.batch) \subseteq Handled' \cup Events(h.batch)
  BY <1>3 DEF IInv, Numbered, Handled
<1>5. last' \in Nat /\ faults' \in Nat /\ recorded' = recorded /\ recorded \subseteq Nat
      /\ unwritten' = unwritten /\ unwritten \subseteq Nat /\ Handled' = Handled
  BY <1>1 DEF IInv, TypeOK, Handled
<1> QED
  BY <1>1, <1>2, <1>3, <1>4, <1>5, CoordinatorKeeps DEF worker

LEMMA RefuseKeeps ==
  ASSUME IInv, Refuse
  PROVE  IInv'
<1>1. /\ net' \subseteq net /\ flush' \in {Idle, flush}
      /\ UNCHANGED <<file, rotated, next, cursor, acked, sequence, emitted, renumbered, handlers, last,
                     recorded, unwritten, faults>>
  BY DEF Refuse, coordinator
<1>2. faults' \in Nat
  BY <1>1 DEF IInv, TypeOK
<1> QED
  BY <1>1, <1>2, IdleKeeps, FewerKeeps

LEMMA CommitKeeps ==
  ASSUME IInv, Commit
  PROVE  IInv'
<1>1. PICK g \in handlers :
        /\ last' = g.number
        /\ handlers' = (handlers \ {g}) \cup {[g EXCEPT !.step = "recording"]}
        /\ UNCHANGED <<worker, net, recorded, unwritten, faults>>
  BY DEF Commit
<1>2. PICK h : h = [g EXCEPT !.step = "recording"]
  OBVIOUS
<1>3. /\ h \in [number: Nat, batch: Batch, step: {"validated", "recording"}]
      /\ h.number = g.number /\ h.batch = g.batch /\ g.number \in Nat
  BY <1>2 DEF IInv, TypeOK
<1>4. /\ h.number <= sequence
      /\ WaitsFor(h.number) => Events(flush.batch) \subseteq Handled' \cup Events(h.batch)
  BY <1>1, <1>3 DEF IInv, Numbered, Handled
<1>5. last' \in Nat /\ faults' \in Nat /\ recorded' = recorded /\ recorded \subseteq Nat
      /\ unwritten' = unwritten /\ unwritten \subseteq Nat /\ Handled' = Handled
  BY <1>1, <1>3 DEF IInv, TypeOK, Handled
<1> QED
  BY <1>1, <1>2, <1>3, <1>4, <1>5, CoordinatorKeeps DEF worker

LEMMA RecordKeeps ==
  ASSUME IInv, Record
  PROVE  IInv'
<1>1. PICK g \in handlers :
        /\ g.batch # <<>>
        /\ \/ /\ Head(g.batch).n \in Malformed
              /\ UNCHANGED <<recorded, unwritten, faults>>
           \/ recorded' = recorded \cup {Head(g.batch).n} /\ UNCHANGED <<unwritten, faults>>
           \/ Fault /\ unwritten' = unwritten \cup {Head(g.batch).n} /\ UNCHANGED recorded
        /\ handlers' = (handlers \ {g}) \cup {[g EXCEPT !.batch = Tail(g.batch)]}
        /\ UNCHANGED <<worker, net, last>>
  BY DEF Record
<1>2. g \in [number: Nat, batch: Batch, step: {"validated", "recording"}]
  BY DEF IInv, TypeOK
<1>3. /\ Tail(g.batch) \in Batch /\ Head(g.batch).n \in Nat
      /\ Events(g.batch) \subseteq {Head(g.batch).n} \cup Events(Tail(g.batch))
  BY <1>1, <1>2, BatchFacts
<1>4. PICK h : h = [g EXCEPT !.batch = Tail(g.batch)]
  OBVIOUS
<1>5. /\ h \in [number: Nat, batch: Batch, step: {"validated", "recording"}]
      /\ h.number = g.number /\ h.batch = Tail(g.batch)
  BY <1>2, <1>3, <1>4
<1>6. Handled \subseteq Handled' /\ Head(g.batch).n \in Handled'
  BY <1>1 DEF Handled
<1>7. /\ h.number <= sequence
      /\ WaitsFor(h.number) => Events(flush.batch) \subseteq Handled' \cup Events(h.batch)
  BY <1>1, <1>3, <1>5, <1>6 DEF IInv, Numbered
<1>8. last' \in Nat /\ faults' \in Nat /\ recorded' \subseteq Nat /\ unwritten' \subseteq Nat
  BY <1>1, <1>3 DEF IInv, TypeOK, Fault
<1> QED
  BY <1>1, <1>4, <1>5, <1>6, <1>7, <1>8, CoordinatorKeeps DEF worker

(* The answer: all of the batch was taken up, and the cursor moves behind it. *)
LEMMA AnswerKeeps ==
  ASSUME IInv, Answer
  PROVE  IInv'
<1>1. PICK h \in handlers :
        /\ h.batch = <<>> /\ handlers' = handlers \ {h}
        /\ IF WaitsFor(h.number)
           THEN /\ acked' = Last(flush.batch).id /\ flush' = Idle
                /\ \/ cursor' = acked' /\ UNCHANGED faults
                   \/ UNCHANGED cursor /\ Fault
           ELSE UNCHANGED <<acked, flush, cursor, faults>>
        /\ UNCHANGED <<file, rotated, next, sequence, emitted, renumbered, net, last, recorded, unwritten>>
  BY DEF Answer
<1>2. TypeOK /\ FileOK
  BY DEF IInv
<1>3. CASE ~WaitsFor(h.number)
  <2>1. faults' \in Nat
    BY <1>1, <1>2, <1>3 DEF TypeOK
  <2> QED
    BY <1>1, <1>3, <2>1, FewerKeeps
<1>4. CASE WaitsFor(h.number)
  <2>1. PICK id : id = Last(flush.batch).id
    OBVIOUS
  <2>2. /\ acked' = id /\ cursor' \in {cursor, id} /\ faults' \in Nat /\ flush' = Idle
        /\ Idle.pc = "idle"
    BY <1>1, <1>2, <1>4, <2>1 DEF Fault, TypeOK, Idle
  <2>3. flush.pc # "idle" /\ flush.batch # <<>> /\ Up /\ id \in Nat
    BY <1>2, <1>4, <2>1, BatchFacts DEF WaitsFor, IInv, Told, TypeOK
  <2>4. Events(flush.batch) \subseteq Handled
    <3>1. Events(h.batch) = {}
      BY <1>1 DEF Events
    <3> QED
      BY <1>1, <1>4, <3>1 DEF IInv, Numbered, Handled
  <2>5. ~renumbered => GivenOut(id) /\ UpTo(id, Handled)
    BY <2>1, <2>3, <2>4 DEF IInv, Told, UpTo, Handled
  <2>6. TypeOK'
    <3>1. <<>> \in Batch
      BY DEF Batch
    <3>2. flush' \in [pc: {"idle", "selected", "sent"}, batch: Batch, number: Nat]
      BY <2>2, <3>1 DEF Idle
    <3> QED
      BY <1>1, <1>2, <2>2, <2>3, <3>2 DEF TypeOK
  <2>7. FileOK'
    BY <1>1, <1>2 DEF FileOK, Up
  <2>8. Numbered'
    BY <1>1, <2>2 DEF IInv, Numbered, WaitsFor, Handled
  <2>9. Told'
    BY <1>1, <2>2, <2>3, <2>5 DEF IInv, Told, GivenOut, UpTo, Up, Handled
  <2> QED
    BY <2>6, <2>7, <2>8, <2>9 DEF IInv
<1> QED
  BY <1>3, <1>4

LEMMA InitIInv == Init => IInv
<1> SUFFICES ASSUME Init PROVE IInv
  OBVIOUS
<1>1. <<>> \in Seq(Event) /\ DOMAIN <<>> = {}
  OBVIOUS
<1>2. TypeOK
  BY <1>1 DEF Init, TypeOK, Idle, Batch
<1>3. FileOK /\ Numbered /\ Told
  BY <1>1 DEF Init, FileOK, Numbered, WaitsFor, Told, GivenOut, UpTo, Up, Idle, Handled
<1> QED
  BY <1>2, <1>3 DEF IInv

LEMMA NextIInv == IInv /\ [Next]_vars => IInv'
<1> SUFFICES ASSUME IInv, [Next]_vars PROVE IInv'
  OBVIOUS
<1>1. CASE WorkerNext
  BY <1>1, EmitKeeps, EmitFailsKeeps, WorkerCrashKeeps, WorkerRestartKeeps, SelectKeeps, SendKeeps,
     GiveUpKeeps DEF WorkerNext
<1>2. CASE CoordinatorNext
  BY <1>2, LossKeeps, ValidateKeeps, RefuseKeeps, CommitKeeps, RecordKeeps, AnswerKeeps
  DEF CoordinatorNext
<1>3. CASE UNCHANGED vars
  <2>1. faults' \in Nat
    BY <1>3 DEF vars, IInv, TypeOK
  <2> QED
    BY <1>3, <2>1, FewerKeeps DEF vars, worker, coordinator
<1> QED
  BY <1>1, <1>2, <1>3 DEF Next

-------------------------------------------------------------------------------
(* The invariant of every behaviour, for every batch size and number of faults. *)
THEOREM Invariance == Spec => []IInv
<1>1. Init => IInv
  BY InitIInv
<1>2. IInv /\ [Next]_vars => IInv'
  BY NextIInv
<1> QED
  BY <1>1, <1>2, PTL DEF Spec

(***************************************************************************)
(* The acknowledgement cursor only passes events that are in the           *)
(* coordinator's journal, or that its checks refused or its own write      *)
(* failed for (mark_acknowledged), whatever crashes, is lost or comes      *)
(* late, until a crash right after a rotation starts the ids again.        *)
(***************************************************************************)
THEOREM AcknowledgedCorrect == Spec => []AcknowledgedWasTakenUp
<1>1. IInv => AcknowledgedWasTakenUp
  BY DEF IInv, Told, UpTo, AcknowledgedWasTakenUp
<1> QED
  BY <1>1, Invariance, PTL
=============================================================================
