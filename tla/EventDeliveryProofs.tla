------------------------ MODULE EventDeliveryProofs ------------------------
(***************************************************************************)
(* Proofs about EventDelivery, for any set of events and any bounds on the *)
(* failures: the types; that no routed event is lost; that a rewound       *)
(* counter is repaired before it is used, without losing rows; that the    *)
(* consumer first sees events in the order they were routed; and how often *)
(* it can see one.                                                         *)
(***************************************************************************)
EXTENDS EventDelivery, FiniteSetTheorems, SequenceTheorems, TLAPS

---------------------------------------------------------------------------
(* Types.  The tables are finite, which the repair of a counter relies on.  *)

FiniteQueues == IsFiniteSet(queue) /\ IsFiniteSet(backup.queue)

TInv == TypeOK /\ FiniteQueues

\* What reconcileDeviceSeq returns is a queue and a counter.
LEMMA ReconcileType ==
    ASSUME NEW rows \in SUBSET Row, IsFiniteSet(rows), NEW next \in Nat, NEW acked \in Nat
    PROVE  /\ ReconcileSeq(rows, next, acked).queue \in SUBSET Row
           /\ IsFiniteSet(ReconcileSeq(rows, next, acked).queue)
           /\ ReconcileSeq(rows, next, acked).next \in Nat
<1> DEFINE victims == {r \in PendingRows(rows) : r.seq <= acked}
           Rank(r) == Cardinality({v \in victims : v.seq < r.seq})
           move == [r \in victims |-> [seq |-> acked + 1 + Rank(r), ev |-> r.ev]]
           moved == {[seq |-> acked + 1 + Rank(r), ev |-> r.ev] : r \in victims}
<1>1. CASE next > acked
  BY <1>1 DEF ReconcileSeq
<1>2. CASE ~ (next > acked)
  <2>1. victims \in SUBSET rows
    BY DEF PendingRows
  <2>2. IsFiniteSet(victims) /\ Cardinality(victims) \in Nat
    BY <2>1, FS_Subset, FS_CardinalityType
  <2>3. \A r \in victims : Rank(r) \in Nat
    <3>1. TAKE r \in victims
    <3>2. {v \in victims : v.seq < r.seq} \in SUBSET victims
      OBVIOUS
    <3>3. QED
      BY <2>2, <3>2, FS_Subset, FS_CardinalityType
  <2>4. moved \in SUBSET Row
    <3>1. SUFFICES ASSUME NEW r \in victims
                   PROVE  [seq |-> acked + 1 + Rank(r), ev |-> r.ev] \in Row
      OBVIOUS
    <3>2. r \in Row /\ Rank(r) \in Nat
      BY <2>1, <2>3
    <3> HIDE DEF Rank, victims
    <3>3. QED
      BY <3>2 DEF Row
  <2>5. IsFiniteSet(moved)
    <3>1. move \in Surjection(victims, moved)
      <4> HIDE DEF Rank, victims
      <4>1. QED
        BY DEF Surjection
    <3> HIDE DEF move, moved, victims
    <3>2. QED
      BY <2>2, <3>1, FS_Surjection
  <2>6. IsFiniteSet((rows \ victims) \cup moved)
    <3>1. IsFiniteSet(rows \ victims)
      BY FS_Subset
    <3>2. QED
      BY <2>5, <3>1, FS_Union
  <2>7. ReconcileSeq(rows, next, acked) =
            [queue |-> (rows \ victims) \cup moved,
             next |-> acked + 1 + Cardinality(victims)]
    BY <1>2 DEF ReconcileSeq
  <2> HIDE DEF moved, victims
  <2>8. QED
    BY <2>2, <2>4, <2>6, <2>7
<1>3. QED
  BY <1>1, <1>2

\* deliverPending puts rows on the wire.
LEMMA DeliverType ==
    ASSUME NEW rows \in SUBSET Row, NEW batches \in Seq(SUBSET Row), NEW s
    PROVE  Deliver(s, rows, batches) \in Seq(SUBSET Row)
<1>1. PendingRows(rows) \in SUBSET Row
  BY DEF PendingRows
<1>2. QED
  BY <1>1 DEF Deliver

\* Taking a frame off the wire leaves batches of rows on it.
LEMMA TakeFrameType ==
    ASSUME TypeOK, NEW f, NextFrame(f), TakeFrame(f)
    PROVE  f \in Row /\ toDevice' \in Seq(SUBSET Row)
<1>1. toDevice \in Seq(SUBSET Row) /\ toDevice # <<>>
  BY DEF TypeOK, NextFrame
<1>2. Head(toDevice) \in SUBSET Row /\ Tail(toDevice) \in Seq(SUBSET Row)
  BY <1>1
<1>3. <<Head(toDevice) \ {f}>> \in Seq(SUBSET Row)
  BY <1>2
<1>4. <<Head(toDevice) \ {f}>> \o Tail(toDevice) \in Seq(SUBSET Row)
  BY <1>2, <1>3
<1>5. QED
  BY <1>2, <1>4 DEF NextFrame, TakeFrame

\* An enrolled device with nothing queued is well typed.
LEMMA InitTInv == Init => TInv
BY FS_EmptySet DEF Init, TInv, TypeOK, FiniteQueues, Steps

\* One step per router action: webhooks, clock, hello, ack, backup, restart.
LEMMA RouterKeepsTInv ==
    ASSUME TInv, RouterNext
    PROVE  TInv'
<1> USE DEF TInv
<1>1. ASSUME NEW e \in Events, Enqueue(e) PROVE TInv'
  <2>1. queue' \in SUBSET Row /\ nextSeq' \in Nat
    BY <1>1 DEF Enqueue, TypeOK, Row
  <2>2. IsFiniteSet(queue')
    BY <1>1, FS_AddElement DEF Enqueue, FiniteQueues
  <2>3. toDevice' \in Seq(SUBSET Row)
    BY <1>1, <2>1, DeliverType DEF Enqueue, TypeOK
  <2>4. routed' \in Seq(Events)
    BY <1>1 DEF Enqueue, TypeOK
  <2>5. QED
    BY <1>1, <2>1, <2>2, <2>3, <2>4 DEF Enqueue, TypeOK, FiniteQueues, deviceVars, countVars
<1>2. CASE TtlPasses
  BY <1>2 DEF TtlPasses, PendingRows, TypeOK, Row, FiniteQueues, wireVars, deviceVars,
              countVars
<1>3. CASE SweepExpired
  <2>1. queue' \in SUBSET queue
    BY <1>3 DEF SweepExpired, PendingRows
  <2>2. IsFiniteSet(queue')
    BY <2>1, FS_Subset DEF FiniteQueues
  <2>3. QED
    BY <1>3, <2>1, <2>2 DEF SweepExpired, TypeOK, FiniteQueues, EvsOf, wireVars, deviceVars,
                            countVars
<1>4. ASSUME NEW h \in hellos, HandleHello(h) PROVE TInv'
  <2> DEFINE fixed == ReconcileSeq(queue, nextSeq, h.acked)
  <2>1. h \in Hello /\ h.acked \in Nat /\ h.sock \in Nat
    BY DEF TypeOK, Hello
  <2>2. fixed.queue \in SUBSET Row /\ IsFiniteSet(fixed.queue) /\ fixed.next \in Nat
    BY <2>1, ReconcileType DEF TypeOK, FiniteQueues
  <2>3. queue' \in SUBSET fixed.queue /\ nextSeq' \in Nat
    BY <1>4, <2>2 DEF HandleHello, PurgeAcked
  <2>4. queue' \in SUBSET Row /\ IsFiniteSet(queue')
    BY <2>2, <2>3, FS_Subset
  <2>5. toDevice' \in Seq(SUBSET Row)
    BY <1>4, <2>4, DeliverType DEF HandleHello, TypeOK
  <2>6. QED
    BY <1>4, <2>1, <2>3, <2>4, <2>5 DEF HandleHello, TypeOK, FiniteQueues, deviceVars,
                                      countVars
<1>5. CASE HandleAck
  <2>1. queue' \in SUBSET queue
    BY <1>5 DEF HandleAck, AckRows
  <2>2. IsFiniteSet(queue')
    BY <2>1, FS_Subset DEF FiniteQueues
  <2>3. acks' \in Seq(Nat)
    BY <1>5 DEF HandleAck, TypeOK
  <2>4. QED
    BY <1>5, <2>1, <2>2, <2>3 DEF HandleAck, TypeOK, FiniteQueues, deviceVars, countVars
<1>6. CASE SocketClosed
  BY <1>6 DEF SocketClosed, TypeOK, FiniteQueues, deviceVars
<1>7. CASE BackupFlush
  BY <1>7 DEF BackupFlush, TypeOK, FiniteQueues, wireVars, deviceVars, countVars
<1>8. CASE RouterRestart
  BY <1>8 DEF RouterRestart, TypeOK, FiniteQueues, deviceVars
<1>9. CASE RouterRestore
  <2>1. lost' \subseteq Events
    BY <1>9 DEF RouterRestore, TypeOK, EvsOf, Row
  <2>2. QED
    BY <1>9, <2>1 DEF RouterRestore, TypeOK, FiniteQueues, deviceVars
<1>10. CASE Reenroll
  <2>1. lost' \subseteq Events
    BY <1>10 DEF Reenroll, TypeOK, EvsOf, Row
  <2>2. QED
    BY <1>10, <2>1, FS_EmptySet DEF Reenroll, TypeOK, FiniteQueues, Steps
<1>11. QED
  BY <1>1, <1>2, <1>3, <1>4, <1>5, <1>6, <1>7, <1>8, <1>9, <1>10 DEF RouterNext

\* sendAck puts a sequence number on the wire.
LEMMA SendAckType ==
    ASSUME TypeOK, NEW n \in Nat
    PROVE  SendAck(n) \in Seq(Nat)
BY DEF SendAck, TypeOK

\* One step per device action: dialling, onEvent, replayInbox, crash.
LEMMA DeviceKeepsTInv ==
    ASSUME TInv, DeviceNext
    PROVE  TInv'
<1> USE DEF TInv, FiniteQueues
<1>1. CASE Dial
  BY <1>1 DEF Dial, TypeOK, Hello, routerVars
<1>2. CASE Disconnect
  BY <1>2 DEF Disconnect, TypeOK, routerVars
<1>3. CASE LoseHello
  BY <1>3 DEF LoseHello, TypeOK, routerVars, deviceVars, countVars
<1>4. ASSUME NEW b \in RangeOf(toDevice), NEW f \in b, OnDuplicate(f) PROVE TInv'
  <2>1. f \in Row /\ toDevice' \in Seq(SUBSET Row)
    BY <1>4, TakeFrameType DEF OnDuplicate
  <2>2. acks' \in Seq(Nat)
    BY <1>4, <2>1, SendAckType DEF OnDuplicate, Row
  <2>3. QED
    BY <1>4, <2>1, <2>2 DEF OnDuplicate, TypeOK, routerVars, deviceVars, countVars
<1>5. ASSUME NEW b \in RangeOf(toDevice), NEW f \in b, OnEvent(f) PROVE TInv'
  <2>1. f \in Row /\ toDevice' \in Seq(SUBSET Row)
    BY <1>5, TakeFrameType DEF OnEvent
  <2>2. QED
    BY <1>5, <2>1 DEF OnEvent, TypeOK, Steps, routerVars, countVars
<1>6. CASE OnEventAck
  <2>1. frame \in Row /\ frame.seq \in Nat
    BY <1>6 DEF OnEventAck, TypeOK, Row
  <2>2. acks' \in Seq(Nat)
    BY <1>6, <2>1, SendAckType DEF OnEventAck
  <2>3. QED
    BY <1>6, <2>1, <2>2 DEF OnEventAck, TypeOK, Steps, routerVars, countVars
<1>7. CASE OnEventPersist
  BY <1>7 DEF OnEventPersist, TypeOK, Steps, Row, routerVars, wireVars, countVars
<1>8. CASE OnEventEmit
  <2>1. dispatched' \in Seq(Events)
    BY <1>8 DEF OnEventEmit, TypeOK, Row
  <2>2. QED
    BY <1>8, <2>1 DEF OnEventEmit, TypeOK, Steps, routerVars, wireVars, countVars
<1>9. CASE MarkProcessed
  BY <1>9 DEF MarkProcessed, TypeOK, Steps, routerVars, wireVars, countVars
<1>10. CASE Start
  BY <1>10 DEF Start, TypeOK, Steps, routerVars, wireVars, countVars
<1>11. CASE ReplayEmit
  <2>1. frame' \in Row /\ dispatched' \in Seq(Events)
    BY <1>11 DEF ReplayEmit, TypeOK, Row
  <2>2. QED
    BY <1>11, <2>1 DEF ReplayEmit, TypeOK, Steps, routerVars, wireVars, countVars
<1>12. CASE ReplayDone
  BY <1>12 DEF ReplayDone, TypeOK, Steps, routerVars, wireVars, countVars
<1>13. CASE Crash
  BY <1>13 DEF Crash, TypeOK, Steps, routerVars
<1>14. QED
  BY <1>1, <1>2, <1>3, <1>4, <1>5, <1>6, <1>7, <1>8, <1>9, <1>10, <1>11, <1>12, <1>13
  DEF DeviceNext, OnEventStep, BootStep

\* A step that changes nothing keeps it.
LEMMA StutterKeepsTInv ==
    ASSUME TInv, UNCHANGED vars
    PROVE  TInv'
BY DEF TInv, TypeOK, FiniteQueues, vars, routerVars, wireVars, deviceVars, countVars

\* Types hold throughout, and the queue and its backup stay finite.
LEMMA TInvHolds == Spec => []TInv
<1>1. ASSUME TInv, [Next]_vars PROVE TInv'
  BY <1>1, RouterKeepsTInv, DeviceKeepsTInv, StutterKeepsTInv DEF Next
<1>2. QED
  BY InitTInv, <1>1, PTL DEF Spec

\* Queue, wire, files and histories stay well typed (TypeOK), a repaired counter
\* and its renumbered rows included.
THEOREM TypeCorrect == Spec => []TypeOK
<1>1. TInv => TypeOK
  BY DEF TInv
<1>2. QED
  BY <1>1, TInvHolds, PTL

---------------------------------------------------------------------------
(* No loss.  While the router keeps its disk, sequence number k is the k-th   *)
(* routed event for good, so every number in flight can be read as a claim    *)
(* about a prefix of the routed events.                                       *)

\* The device has the k-th event, or nobody has to deliver it any more.
Safe(k) == Held(routed[k]) \/ routed[k] \in expired

\* A row, frame or inbox entry carries the event its number stands for.
Honest(x) == x.seq \in 1..Len(routed) /\ x.ev = routed[x.seq]

\* A mark is only ever as high as the prefix that is safe.
Below(m) == m \in 0..Len(routed) /\ \A k \in 1..m : Safe(k)

Busy == {"replayed", "appended", "acked", "persisted", "emitted"}

AllHonest ==
    /\ \A r \in queue : Honest(r)
    /\ \A i \in 1..Len(toDevice) : \A f \in toDevice[i] : Honest(f)
    /\ \A x \in inbox : Honest(x)
    /\ pc \in Busy => Honest(frame)

MarksBelow ==
    /\ Below(lastAcked) /\ Below(disk)
    /\ \A i \in 1..Len(acks) : Below(acks[i])
    /\ \A h \in hellos : Below(h.acked)
    /\ pc \in {"appended", "acked", "persisted"} => Below(frame.seq)

\* A row leaves the queue only when its event is safe.
QueuedOrSafe == \A k \in 1..Len(routed) : (\E r \in queue : r.seq = k) \/ Safe(k)

\* A frame on the wire has no gap before it: every lower number is safe or is
\* in the same batch or an earlier one.
NoGap ==
    \A i \in 1..Len(toDevice) : \A f \in toDevice[i] : \A k \in 1..(f.seq - 1) :
        Safe(k) \/ \E j \in 1..i : \E g \in toDevice[j] : g.seq = k

Emitted == pc \in {"emitted", "replayed"} => frame.ev \in RangeOf(dispatched)

LInv ==
    restores = 0 =>
        /\ nextSeq = Len(routed) + 1
        /\ AllHonest /\ MarksBelow /\ QueuedOrSafe /\ NoGap /\ Emitted

\* What was routed stays where it is, and what is safe stays safe.
Grows ==
    /\ Len(routed) <= Len(routed')
    /\ \A k \in 1..Len(routed) : routed'[k] = routed[k] /\ (Safe(k) => Safe(k)')

\* Appending to a history keeps what it held.
LEMMA RangeAppend ==
    ASSUME NEW S, NEW s \in Seq(S), NEW e \in S
    PROVE  /\ RangeOf(s) \subseteq RangeOf(Append(s, e))
           /\ e \in RangeOf(Append(s, e))
BY DEF RangeOf

\* A step that keeps what the device holds and what has expired loses no safe event.
LEMMA GrowsIfHeldGrows ==
    ASSUME TypeOK,
           routed' = routed \/ \E e \in Events : routed' = Append(routed, e),
           expired \subseteq expired', \A e \in Events : Held(e) => Held(e)'
    PROVE  Grows
<1>1. routed \in Seq(Events) /\ Len(routed) \in Nat
  BY DEF TypeOK
<1>2. Len(routed) <= Len(routed') /\ \A k \in 1..Len(routed) : routed'[k] = routed[k]
  BY <1>1
<1>3. \A k \in 1..Len(routed) : routed[k] \in Events
  BY <1>1
<1>4. ASSUME NEW k \in 1..Len(routed), Safe(k) PROVE Safe(k)'
  BY <1>2, <1>3, <1>4 DEF Safe, Held
<1>5. QED
  BY <1>2, <1>4 DEF Grows

\* A step that only adds inbox entries and dispatches keeps what the device holds.
LEMMA HeldGrows ==
    ASSUME inbox \subseteq inbox', RangeOf(dispatched) \subseteq RangeOf(dispatched')
    PROVE  \A e : Held(e) => Held(e)'
BY DEF Held, EvsOf

\* Steps that add no row, frame or entry.
LEMMA HonestCarries ==
    ASSUME TypeOK, AllHonest, Grows, queue' \subseteq queue,
           toDevice' = toDevice \/ toDevice' = <<>>, inbox' \subseteq inbox,
           pc' \in Busy => (pc \in Busy /\ frame' = frame)
    PROVE  AllHonest'
<1>1. \A k \in 1..Len(routed) : k \in 1..Len(routed') /\ routed'[k] = routed[k]
  BY DEF Grows, TypeOK
<1>2. QED
  BY <1>1 DEF AllHonest, Honest

\* The lengths of the histories and of the wire are naturals.
LEMMA Lengths ==
    ASSUME TypeOK
    PROVE  /\ Len(routed) \in Nat /\ Len(toDevice) \in Nat /\ Len(acks) \in Nat
           /\ \A i \in 1..Len(acks) : acks[i] \in Nat
           /\ \A i \in 1..Len(toDevice) : toDevice[i] \in SUBSET Row
<1>1. routed \in Seq(Events) /\ toDevice \in Seq(SUBSET Row) /\ acks \in Seq(Nat)
  BY DEF TypeOK
<1>2. QED
  BY <1>1

\* The same after a step.
LEMMA NextLengths ==
    ASSUME TypeOK'
    PROVE  Len(routed') \in Nat /\ Len(toDevice') \in Nat /\ Len(acks') \in Nat
<1>1. routed' \in Seq(Events) /\ toDevice' \in Seq(SUBSET Row) /\ acks' \in Seq(Nat)
  BY DEF TypeOK
<1>2. QED
  BY <1>1

\* A mark that was below the safe prefix still is.
LEMMA BelowCarries ==
    ASSUME TypeOK, TypeOK', Grows, NEW m \in Nat, Below(m)
    PROVE  m \in 0..Len(routed') /\ \A k \in 1..m : Safe(k)'
<1>1. Len(routed) \in Nat /\ Len(routed') \in Nat
  BY Lengths, NextLengths
<1>2. QED
  BY <1>1 DEF Grows, Below

\* Steps that put no new mark anywhere (a start reads the one on disk).
LEMMA MarksCarry ==
    ASSUME TypeOK, TypeOK', MarksBelow, Grows,
           lastAcked' \in {lastAcked, disk}, disk' = disk,
           acks' \in {acks, <<>>}, hellos' \subseteq hellos,
           pc' \in {"appended", "acked", "persisted"} => (pc' = pc /\ frame' = frame)
    PROVE  MarksBelow'
<1>1. Below(lastAcked)' /\ Below(disk)'
  BY BelowCarries DEF MarksBelow, Below, TypeOK
<1>2. ASSUME NEW i \in 1..Len(acks') PROVE Below(acks[i])'
  <2>1. acks' = acks /\ i \in 1..Len(acks) /\ acks[i] \in Nat
    BY <1>2, Lengths
  <2>2. Below(acks[i])
    BY <2>1 DEF MarksBelow
  <2>3. QED
    BY <2>1, <2>2, BelowCarries DEF Below
<1>3. ASSUME NEW h \in hellos' PROVE Below(h.acked)'
  <2>1. h \in hellos /\ h.acked \in Nat
    BY DEF TypeOK, Hello
  <2>2. QED
    BY <2>1, BelowCarries DEF MarksBelow, Below
<1>4. ASSUME pc' \in {"appended", "acked", "persisted"} PROVE Below(frame.seq)'
  <2>1. frame.seq \in Nat /\ Below(frame.seq) /\ frame' = frame
    BY <1>4 DEF TypeOK, Row, MarksBelow
  <2>2. QED
    BY <2>1, BelowCarries DEF Below
<1>5. QED
  BY <1>1, <1>2, <1>3, <1>4 DEF MarksBelow

\* Steps that touch no row whose event is not safe.
LEMMA QueuedCarries ==
    ASSUME TypeOK, QueuedOrSafe, Grows, Len(routed') = Len(routed),
           \A r \in queue : r \in queue' \/ Safe(r.seq)
    PROVE  QueuedOrSafe'
BY DEF QueuedOrSafe, Grows, TypeOK

\* A step that leaves the wire alone or empties it opens no gap.
LEMMA GapCarries ==
    ASSUME TypeOK, AllHonest, NoGap, Grows, toDevice' \in {toDevice, <<>>}
    PROVE  NoGap'
<1>1. CASE toDevice' = <<>>
  BY <1>1 DEF NoGap
<1>2. CASE toDevice' = toDevice
  <2>1. SUFFICES ASSUME NEW i \in 1..Len(toDevice), NEW f \in toDevice[i],
                        NEW k \in 1..(f.seq - 1)
                 PROVE  Safe(k)' \/ \E j \in 1..i : \E g \in toDevice[j] : g.seq = k
    BY <1>2 DEF NoGap
  <2>2. f.seq \in 1..Len(routed) /\ Len(routed) \in Nat
    BY Lengths DEF AllHonest, Honest
  <2>3. k \in 1..Len(routed)
    BY <2>2
  <2>4. QED
    BY <2>3 DEF NoGap, Grows
<1>3. QED
  BY <1>1, <1>2

\* deliverPending sends every live row at once, so it opens no gap.
LEMMA DeliverNoGap ==
    ASSUME TypeOK, TypeOK', AllHonest, NoGap, Grows, QueuedOrSafe', expired' = expired,
           \A r \in queue' : Honest(r)', NEW s, toDevice' = Deliver(s, queue', toDevice)
    PROVE  /\ NoGap'
           /\ \A i \in 1..Len(toDevice') : \A f \in toDevice'[i] :
                 f.seq \in 1..Len(routed') /\ f.ev = routed'[f.seq]
<1>1. Len(routed) \in Nat /\ Len(routed') \in Nat /\ Len(toDevice) \in Nat
  BY Lengths, NextLengths
<1>2. CASE toDevice' = toDevice
  <2>1. NoGap'
    BY <1>2, GapCarries
  <2>2. QED
    BY <1>1, <1>2, <2>1 DEF AllHonest, Honest, Grows
<1>3. CASE toDevice' # toDevice
  <2> DEFINE batch == PendingRows(queue')
  <2>1. toDevice' = Append(toDevice, batch)
    BY <1>3 DEF Deliver
  <2>2. /\ Len(toDevice') = Len(toDevice) + 1
        /\ toDevice'[Len(toDevice) + 1] = batch
        /\ \A i \in 1..Len(toDevice) : toDevice'[i] = toDevice[i]
    <3>1. toDevice \in Seq(SUBSET Row) /\ batch \in SUBSET Row
      BY DEF TypeOK, PendingRows
    <3> HIDE DEF batch
    <3>2. QED
      BY <2>1, <3>1
  <2>3. \A f \in batch : f.seq \in 1..Len(routed') /\ f.ev = routed'[f.seq]
    BY DEF PendingRows, Honest
  <2>4. \A i \in 1..Len(toDevice) : \A f \in toDevice[i] :
            f.seq \in 1..Len(routed) /\ f.ev = routed[f.seq]
    BY DEF AllHonest, Honest
  <2>5. \A i \in 1..Len(toDevice') : \A f \in toDevice'[i] :
            f.seq \in 1..Len(routed') /\ f.ev = routed'[f.seq]
    <3> HIDE DEF batch
    <3>1. SUFFICES ASSUME NEW i \in 1..Len(toDevice'), NEW f \in toDevice'[i]
                   PROVE  f.seq \in 1..Len(routed') /\ f.ev = routed'[f.seq]
      OBVIOUS
    <3>2. CASE i \in 1..Len(toDevice)
      BY <1>1, <2>2, <2>4, <3>2 DEF Grows
    <3>3. CASE i = Len(toDevice) + 1
      BY <2>2, <2>3, <3>3
    <3>4. QED
      BY <1>1, <2>2, <3>2, <3>3
  <2>6. NoGap'
    <3>1. SUFFICES ASSUME NEW i \in 1..Len(toDevice'), NEW f \in toDevice'[i],
                          NEW k \in 1..(f.seq - 1)
                   PROVE  Safe(k)' \/ \E j \in 1..i : \E g \in toDevice'[j] : g.seq = k
      BY DEF NoGap
    <3>2. CASE i \in 1..Len(toDevice)
      <4>1. f \in toDevice[i] /\ k \in 1..Len(routed)
        BY <1>1, <2>2, <2>4, <3>2
      <4>2. Safe(k) \/ \E j \in 1..i : \E g \in toDevice[j] : g.seq = k
        BY <3>2, <4>1 DEF NoGap
      <4> HIDE DEF batch
      <4>3. QED
        BY <1>1, <2>2, <3>2, <4>1, <4>2 DEF Grows
    <3>3. CASE i = Len(toDevice) + 1
      <4>1. f \in batch /\ k \in 1..Len(routed')
        BY <1>1, <2>2, <2>5, <3>3
      <4>2. CASE Safe(k)'
        BY <4>2
      <4>3. CASE \E r \in queue' : r.seq = k
        <5>1. PICK r \in queue' : r.seq = k
          BY <4>3
        <5>2. r.ev = routed'[k]
          BY <5>1 DEF Honest
        <5>3. CASE r.ev \in expired
          BY <5>2, <5>3 DEF Safe
        <5>4. CASE r.ev \notin expired
          <6>1. r \in batch
            BY <5>4 DEF PendingRows
          <6> HIDE DEF batch
          <6>2. QED
            BY <1>1, <2>2, <3>3, <5>1, <6>1
        <5>5. QED
          BY <5>3, <5>4
      <4>4. QED
        BY <4>1, <4>2, <4>3 DEF QueuedOrSafe
    <3>4. QED
      BY <1>1, <2>2, <3>2, <3>3
  <2>7. QED
    BY <2>5, <2>6
<1>4. QED
  BY <1>2, <1>3

\* The next frame on the wire carries the lowest number that is not safe, or a
\* safe one: everything before it is safe.
LEMMA NextFramePrefix ==
    ASSUME TypeOK, AllHonest, NoGap, NEW f, NextFrame(f)
    PROVE  /\ f \in toDevice[1] /\ 1 \in 1..Len(toDevice)
           /\ f.seq \in 1..Len(routed) /\ f.ev = routed[f.seq]
           /\ \A k \in 1..(f.seq - 1) : Safe(k)
<1>1. toDevice \in Seq(SUBSET Row) /\ toDevice # <<>>
  BY DEF TypeOK, NextFrame
<1>2. Head(toDevice) = toDevice[1] /\ 1 \in 1..Len(toDevice)
  BY <1>1
<1>3. f \in toDevice[1] /\ \A x \in toDevice[1] : f.seq <= x.seq
  BY <1>2 DEF NextFrame
<1>4. f.seq \in 1..Len(routed) /\ f.ev = routed[f.seq]
  BY <1>2, <1>3 DEF AllHonest, Honest
<1>5. ASSUME NEW k \in 1..(f.seq - 1) PROVE Safe(k)
  <2>1. Safe(k) \/ \E j \in 1..1 : \E g \in toDevice[j] : g.seq = k
    BY <1>2, <1>3, <1>5 DEF NoGap
  <2>2. Safe(k) \/ \E g \in toDevice[1] : g.seq = k
    BY <2>1
  <2>3. QED
    BY <1>3, <1>4, <2>2
<1>6. QED
  BY <1>2, <1>3, <1>4, <1>5

\* The histories are sequences of events, the wire one of sets of rows.
LEMMA Histories ==
    ASSUME TypeOK
    PROVE  /\ routed \in Seq(Events) /\ dispatched \in Seq(Events)
           /\ Len(routed) \in Nat /\ Len(dispatched) \in Nat /\ Len(toDevice) \in Nat
           /\ \A k \in 1..Len(routed) : routed[k] \in Events
           /\ \A i \in 1..Len(toDevice) : toDevice[i] \in SUBSET Row
           /\ PendingRows(queue) \in SUBSET Row
<1>1. routed \in Seq(Events) /\ dispatched \in Seq(Events) /\ toDevice \in Seq(SUBSET Row)
  BY DEF TypeOK
<1>2. PendingRows(queue) \in SUBSET Row
  BY DEF TypeOK, PendingRows
<1>3. QED
  BY <1>1, <1>2

\* Taking a frame moves the batches up by one, if it was alone in its batch, and
\* removes nothing else from the wire.
LEMMA TakeShape ==
    ASSUME TypeOK, NEW f, NextFrame(f), TakeFrame(f)
    PROVE  \E d \in {0, 1} :
              /\ Len(toDevice') = Len(toDevice) - d
              /\ \A i \in 1..Len(toDevice') :
                    i + d \in 1..Len(toDevice) /\ toDevice'[i] \subseteq toDevice[i + d]
              /\ \A j \in 1..Len(toDevice) : \A g \in toDevice[j] :
                    g = f \/ (j - d \in 1..Len(toDevice') /\ g \in toDevice'[j - d])
<1>1. toDevice \in Seq(SUBSET Row) /\ toDevice # <<>> /\ Len(toDevice) \in Nat
  BY Histories DEF TypeOK, NextFrame
<1>2. Head(toDevice) = toDevice[1] /\ Tail(toDevice) \in Seq(SUBSET Row)
  BY <1>1
<1>3. /\ Len(Tail(toDevice)) = Len(toDevice) - 1
      /\ \A i \in 1..(Len(toDevice) - 1) : Tail(toDevice)[i] = toDevice[i + 1]
  BY <1>1
<1>4. CASE Head(toDevice) = {f}
  <2>1. toDevice' = Tail(toDevice)
    BY <1>4 DEF TakeFrame
  <2>2. \A i \in 1..Len(toDevice') : i + 1 \in 1..Len(toDevice) /\ toDevice'[i] = toDevice[i + 1]
    BY <1>1, <1>3, <2>1
  <2>3. ASSUME NEW j \in 1..Len(toDevice), NEW g \in toDevice[j], g # f
        PROVE  j - 1 \in 1..Len(toDevice') /\ g \in toDevice'[j - 1]
    <3>1. j # 1
      BY <1>2, <1>4, <2>3
    <3>2. j - 1 \in 1..(Len(toDevice) - 1) /\ (j - 1) + 1 = j
      BY <1>1, <3>1
    <3>3. QED
      BY <1>3, <2>1, <2>3, <3>2
  <2>4. QED
    BY <1>3, <2>1, <2>2, <2>3
<1>5. CASE Head(toDevice) # {f}
  <2>1. toDevice' = <<Head(toDevice) \ {f}>> \o Tail(toDevice)
    BY <1>5 DEF TakeFrame
  <2>2. /\ <<Head(toDevice) \ {f}>> \in Seq(SUBSET Row)
        /\ Len(<<Head(toDevice) \ {f}>>) = 1
        /\ <<Head(toDevice) \ {f}>>[1] = Head(toDevice) \ {f}
    BY <1>1
  <2>3. /\ Len(toDevice') = 1 + Len(Tail(toDevice))
        /\ \A i \in 1..(1 + Len(Tail(toDevice))) :
              toDevice'[i] = IF i <= 1 THEN <<Head(toDevice) \ {f}>>[i]
                             ELSE Tail(toDevice)[i - 1]
    BY <1>2, <2>1, <2>2, ConcatProperties
  <2>4. Len(toDevice') = Len(toDevice) /\ 1 \in 1..Len(toDevice)
    BY <1>1, <1>3, <2>3
  <2>5. toDevice'[1] = toDevice[1] \ {f}
    BY <1>2, <2>2, <2>3, <2>4
  <2>6. ASSUME NEW i \in 1..Len(toDevice), i # 1 PROVE toDevice'[i] = toDevice[i]
    <3>1. i \in 1..(1 + Len(Tail(toDevice))) /\ ~ (i <= 1)
          /\ i - 1 \in 1..(Len(toDevice) - 1) /\ (i - 1) + 1 = i
      BY <1>1, <1>3, <2>6
    <3>2. QED
      BY <1>3, <2>3, <3>1
  <2>7. \A i \in 1..Len(toDevice') : i + 0 = i /\ i - 0 = i /\ i \in 1..Len(toDevice)
    BY <1>1, <2>4
  <2>8. \A i \in 1..Len(toDevice) :
            toDevice'[i] \subseteq toDevice[i] /\ toDevice[i] \subseteq toDevice'[i] \cup {f}
    BY <2>5, <2>6
  <2>9. Len(toDevice') = Len(toDevice) - 0
    BY <1>1, <2>4
  <2>10. \A j \in 1..Len(toDevice) : \A g \in toDevice[j] :
            g = f \/ (j - 0 \in 1..Len(toDevice') /\ g \in toDevice'[j - 0])
    BY <2>4, <2>7, <2>8
  <2>11. QED
    BY <2>7, <2>8, <2>9, <2>10
<1>6. QED
  BY <1>4, <1>5

\* Taking a frame whose event is now safe off the wire opens no gap.
LEMMA TakeNoGap ==
    ASSUME TypeOK, TypeOK', AllHonest, NoGap, Grows, NEW f, NextFrame(f), TakeFrame(f),
           Safe(f.seq)'
    PROVE  /\ NoGap'
           /\ \A i \in 1..Len(toDevice') : \A g \in toDevice'[i] :
                 g.seq \in 1..Len(routed') /\ g.ev = routed'[g.seq]
<1>1. /\ Len(routed) \in Nat /\ Len(routed') \in Nat /\ Len(toDevice) \in Nat
      /\ Len(toDevice') \in Nat
  BY Lengths, NextLengths
<1>2. PICK d \in {0, 1} :
          /\ Len(toDevice') = Len(toDevice) - d
          /\ \A i \in 1..Len(toDevice') :
                i + d \in 1..Len(toDevice) /\ toDevice'[i] \subseteq toDevice[i + d]
          /\ \A j \in 1..Len(toDevice) : \A g \in toDevice[j] :
                g = f \/ (j - d \in 1..Len(toDevice') /\ g \in toDevice'[j - d])
  BY TakeShape
<1>3. \A i \in 1..Len(toDevice) : \A g \in toDevice[i] :
          g.seq \in 1..Len(routed) /\ g.ev = routed[g.seq]
  BY DEF AllHonest, Honest
<1>4. ASSUME NEW i \in 1..Len(toDevice'), NEW g \in toDevice'[i]
      PROVE  /\ i + d \in 1..Len(toDevice) /\ g \in toDevice[i + d]
             /\ g.seq \in 1..Len(routed) /\ g.ev = routed[g.seq]
  BY <1>2, <1>3
<1>5. ASSUME NEW i \in 1..Len(toDevice'), NEW g \in toDevice'[i], NEW k \in 1..(g.seq - 1)
      PROVE  Safe(k)' \/ \E j \in 1..i : \E x \in toDevice'[j] : x.seq = k
  <2>1. Safe(k) \/ \E j \in 1..(i + d) : \E x \in toDevice[j] : x.seq = k
    BY <1>4 DEF NoGap
  <2>2. CASE Safe(k)
    <3>1. k \in 1..Len(routed)
      BY <1>1, <1>4
    <3>2. QED
      BY <2>2, <3>1 DEF Grows
  <2>3. ASSUME NEW j \in 1..(i + d), NEW x \in toDevice[j], x.seq = k, x # f
        PROVE  \E j2 \in 1..i : \E x2 \in toDevice'[j2] : x2.seq = k
    <3>1. j \in 1..Len(toDevice) /\ j \in Nat /\ j - d <= i
      BY <1>1, <1>2, <1>4
    <3>2. j - d \in 1..Len(toDevice') /\ x \in toDevice'[j - d]
      BY <1>2, <2>3, <3>1
    <3>3. j - d \in 1..i
      BY <1>1, <3>1, <3>2
    <3>4. QED
      BY <2>3, <3>2, <3>3
  <2>4. QED
    BY <2>1, <2>2, <2>3
<1>6. NoGap'
  BY <1>5 DEF NoGap
<1>7. QED
  BY <1>1, <1>4, <1>6 DEF Grows

\* The parts of LInv that hold while the router has never lost its disk.
Parts ==
    /\ nextSeq = Len(routed) + 1
    /\ AllHonest /\ MarksBelow /\ QueuedOrSafe /\ NoGap /\ Emitted

\* An enrolled device with nothing queued satisfies the loss invariant.
LEMMA InitLInv == Init => LInv
<1>1. SUFFICES ASSUME Init PROVE Parts
  BY DEF LInv, Parts
<1>2. Len(routed) = 0 /\ Len(toDevice) = 0 /\ Len(acks) = 0
  BY <1>1 DEF Init
<1>3. QED
  BY <1>1, <1>2 DEF Init, Parts, AllHonest, MarksBelow, QueuedOrSafe, NoGap, Emitted, Below,
                    Busy

\* Steps that neither deliver, ack, enqueue nor hand anything over.
LEMMA QuietStep ==
    ASSUME TInv, TInv', Parts,
           UNCHANGED <<nextSeq, routed, inbox, dispatched, disk>>,
           expired \subseteq expired',
           queue' \subseteq queue, \A r \in queue \ queue' : Safe(r.seq),
           toDevice' \in {toDevice, <<>>}, acks' \in {acks, <<>>},
           hellos' \subseteq hellos, lastAcked' \in {lastAcked, disk},
           pc' \in Busy => (pc' = pc /\ frame' = frame)
    PROVE  Parts'
<1>1. TypeOK /\ TypeOK'
  BY DEF TInv
<1>2. Grows
  BY <1>1, HeldGrows, GrowsIfHeldGrows
<1>3. AllHonest'
  BY <1>1, <1>2, HonestCarries DEF Parts
<1>4. MarksBelow'
  BY <1>1, <1>2, MarksCarry DEF Parts, Busy
<1>5. QueuedOrSafe'
  BY <1>1, <1>2, QueuedCarries DEF Parts
<1>6. NoGap'
  BY <1>1, <1>2, GapCarries DEF Parts
<1>7. Emitted'
  BY DEF Parts, Emitted, Busy
<1>8. QED
  BY <1>3, <1>4, <1>5, <1>6, <1>7 DEF Parts

\* A row at or below a mark that holds is safe, and an expired one is.
LEMMA RowsBelowAreSafe ==
    ASSUME TInv, Parts, NEW r \in queue,
           r.ev \in expired \/ \E m \in Nat : Below(m) /\ r.seq <= m
    PROVE  Safe(r.seq)
<1>1. r.seq \in 1..Len(routed) /\ r.ev = routed[r.seq] /\ Len(routed) \in Nat
  BY Lengths DEF Parts, AllHonest, Honest, TInv
<1>2. CASE r.ev \in expired
  BY <1>1, <1>2 DEF Safe
<1>3. CASE \E m \in Nat : Below(m) /\ r.seq <= m
  BY <1>1, <1>3 DEF Below
<1>4. QED
  BY <1>2, <1>3

\* deliverOrNotify: the new row takes the next number and is sent last.
LEMMA EnqueueKeepsParts ==
    ASSUME TInv, TInv', Parts, NEW e \in Events, Enqueue(e)
    PROVE  Parts'
<1>1. TypeOK /\ TypeOK' /\ Len(routed) \in Nat /\ routed \in Seq(Events)
  BY Lengths DEF TInv, TypeOK
<1>2. Len(routed') = Len(routed) + 1 /\ routed'[Len(routed) + 1] = e
  BY <1>1 DEF Enqueue
<1>3. Grows
  BY <1>1, HeldGrows, GrowsIfHeldGrows DEF Enqueue, deviceVars
<1>4. \A r \in queue' : r.seq \in 1..Len(routed') /\ r.ev = routed'[r.seq]
  BY <1>1, <1>2, <1>3 DEF Enqueue, Parts, AllHonest, Honest, Grows
<1>5. QueuedOrSafe'
  <2>1. SUFFICES ASSUME NEW k \in 1..(Len(routed) + 1)
                 PROVE  (\E r \in queue' : r.seq = k) \/ Safe(k)'
    BY <1>2 DEF QueuedOrSafe
  <2>2. CASE k \in 1..Len(routed)
    BY <1>3, <2>2 DEF Enqueue, Parts, QueuedOrSafe, Grows
  <2>3. CASE k = Len(routed) + 1
    <3>1. [seq |-> nextSeq, ev |-> e] \in queue' /\ nextSeq = k
      BY <2>3 DEF Enqueue, Parts
    <3>2. [seq |-> nextSeq, ev |-> e].seq = k
      BY <3>1
    <3>3. QED
      BY <3>1, <3>2
  <2>4. QED
    BY <1>1, <2>2, <2>3
<1>6. /\ NoGap'
      /\ \A i \in 1..Len(toDevice') : \A f \in toDevice'[i] :
            f.seq \in 1..Len(routed') /\ f.ev = routed'[f.seq]
  <2>1. /\ AllHonest /\ NoGap /\ expired' = expired
        /\ toDevice' = Deliver(reg, queue', toDevice)
    BY DEF Enqueue, Parts
  <2>2. \A r \in queue' : Honest(r)'
    BY <1>4 DEF Honest
  <2>3. QED
    BY <1>1, <1>3, <1>5, <2>1, <2>2, DeliverNoGap
<1>7. AllHonest'
  <2>1. inbox' = inbox /\ pc' = pc /\ frame' = frame
    BY DEF Enqueue, deviceVars
  <2>2. \A k \in 1..Len(routed) : k \in 1..Len(routed') /\ routed'[k] = routed[k]
    BY <1>1, <1>2, <1>3 DEF Grows
  <2>3. QED
    BY <1>4, <1>6, <2>1, <2>2 DEF Parts, AllHonest, Honest
<1>8. MarksBelow'
  BY <1>1, <1>3, MarksCarry DEF Enqueue, Parts, deviceVars
<1>9. QED
  BY <1>2, <1>5, <1>6, <1>7, <1>8 DEF Enqueue, Parts, Emitted, deviceVars

\* handleHello: what it purges lies below a mark, hence is safe.
LEMMA HelloKeepsParts ==
    ASSUME TInv, TInv', Parts, NEW h \in hellos, HandleHello(h)
    PROVE  Parts'
<1>1. TypeOK /\ TypeOK' /\ Len(routed) \in Nat /\ h.acked \in Nat
  BY Lengths DEF TInv, TypeOK, Hello
<1>2. Below(h.acked)
  BY DEF Parts, MarksBelow
<1>3. ReconcileSeq(queue, nextSeq, h.acked) = [queue |-> queue, next |-> nextSeq]
  BY <1>1, <1>2 DEF ReconcileSeq, Parts, Below
<1>4. queue' = PurgeAcked(queue, h.acked) /\ nextSeq' = nextSeq
  BY <1>3 DEF HandleHello
<1>5. routed' = routed /\ Grows
  BY <1>1, HeldGrows, GrowsIfHeldGrows DEF HandleHello, deviceVars
<1>6. queue' \subseteq queue /\ \A r \in queue \ queue' : Safe(r.seq)
  <2>1. ASSUME NEW r \in queue, r \notin queue' PROVE Safe(r.seq)
    <3>1. PICK x \in PendingRows(queue) : x.seq <= h.acked /\ r.seq <= x.seq
      BY <1>4, <2>1 DEF PurgeAcked
    <3>2. x.seq \in Nat /\ r.seq \in Nat
      BY <1>1, <3>1 DEF PendingRows, TypeOK, Row
    <3>3. QED
      BY <1>1, <1>2, <3>1, <3>2, RowsBelowAreSafe
  <2>2. QED
    BY <1>4, <2>1 DEF PurgeAcked
<1>7. QueuedOrSafe'
  BY <1>1, <1>5, <1>6, QueuedCarries DEF Parts
<1>8. \A r \in queue' : Honest(r)'
  BY <1>5, <1>6 DEF Parts, AllHonest, Honest
<1>9. /\ NoGap'
      /\ \A i \in 1..Len(toDevice') : \A f \in toDevice'[i] :
            f.seq \in 1..Len(routed') /\ f.ev = routed'[f.seq]
  <2>1. /\ AllHonest /\ NoGap /\ expired' = expired
        /\ toDevice' = Deliver(h.sock, queue', toDevice)
    BY DEF HandleHello, Parts
  <2>2. QED
    BY <1>1, <1>5, <1>7, <1>8, <2>1, DeliverNoGap
<1>10. AllHonest'
  BY <1>5, <1>8, <1>9 DEF HandleHello, Parts, AllHonest, Honest, deviceVars
<1>11. MarksBelow'
  BY <1>1, <1>5, MarksCarry DEF HandleHello, Parts, deviceVars
<1>12. QED
  BY <1>4, <1>5, <1>7, <1>9, <1>10, <1>11 DEF HandleHello, Parts, Emitted, deviceVars

\* event_ack: what the cumulative delete removes lies below a mark, hence is safe.
LEMMA AckKeepsParts ==
    ASSUME TInv, TInv', Parts, HandleAck
    PROVE  Parts'
<1>1. TypeOK /\ TypeOK' /\ acks \in Seq(Nat) /\ acks # <<>>
  BY DEF TInv, TypeOK, HandleAck
<1>2. /\ Head(acks) = acks[1] /\ 1 \in 1..Len(acks) /\ Head(acks) \in Nat
      /\ Len(acks') = Len(acks) - 1 /\ \A i \in 1..Len(acks') : acks'[i] = acks[i + 1]
  BY <1>1 DEF HandleAck
<1>3. Below(Head(acks))
  BY <1>2 DEF Parts, MarksBelow
<1>4. routed' = routed /\ Grows
  BY <1>1, HeldGrows, GrowsIfHeldGrows DEF HandleAck, deviceVars
<1>5. queue' \subseteq queue /\ \A r \in queue \ queue' : Safe(r.seq)
  <2>1. ASSUME NEW r \in queue, r \notin queue' PROVE Safe(r.seq)
    <3>1. r.seq \in Nat
      BY <1>1 DEF TypeOK, Row
    <3>2. ~ (r.seq > Head(acks))
      BY <2>1 DEF HandleAck, AckRows
    <3>3. r.seq <= Head(acks)
      BY <1>2, <3>1, <3>2
    <3>4. QED
      BY <1>2, <1>3, <3>1, <3>3, RowsBelowAreSafe
  <2>2. QED
    BY <2>1 DEF HandleAck, AckRows
<1>6. QueuedOrSafe'
  BY <1>1, <1>4, <1>5, QueuedCarries DEF Parts
<1>7. AllHonest'
  BY <1>1, <1>4, <1>5, HonestCarries DEF HandleAck, Parts, deviceVars
<1>8. NoGap'
  BY <1>1, <1>4, GapCarries DEF HandleAck, Parts
<1>9. MarksBelow'
  <2>1. ASSUME NEW i \in 1..Len(acks') PROVE Below(acks[i])'
    <3>1. i + 1 \in 1..Len(acks) /\ acks'[i] = acks[i + 1] /\ acks[i + 1] \in Nat
      BY <1>1, <1>2, Lengths
    <3>2. Below(acks[i + 1])
      BY <3>1 DEF Parts, MarksBelow
    <3>3. QED
      BY <1>1, <1>4, <3>1, <3>2, BelowCarries DEF Below
  <2>2. \A m \in Nat : Below(m) => m \in 0..Len(routed') /\ \A k \in 1..m : Safe(k)'
    BY <1>1, <1>4, BelowCarries
  <2>3. /\ lastAcked \in Nat /\ disk \in Nat /\ \A h \in hellos : h.acked \in Nat
        /\ pc \in {"appended", "acked", "persisted"} => frame.seq \in Nat
    BY <1>1 DEF TypeOK, Hello, Row
  <2>4. UNCHANGED <<lastAcked, disk, hellos, pc, frame>>
    BY DEF HandleAck, deviceVars
  <2>5. Below(lastAcked)' /\ Below(disk)' /\ \A h \in hellos' : Below(h.acked)'
    BY <2>2, <2>3, <2>4 DEF Parts, MarksBelow, Below
  <2>6. (pc \in {"appended", "acked", "persisted"} => Below(frame.seq))'
    BY <2>2, <2>3, <2>4 DEF Parts, MarksBelow, Below
  <2>7. QED
    BY <2>1, <2>5, <2>6 DEF MarksBelow
<1>10. QED
  BY <1>4, <1>6, <1>7, <1>8, <1>9 DEF HandleAck, Parts, Emitted, deviceVars

\* One step per router action; the ones that rewind the counter leave the premise.
LEMMA RouterKeepsLInv ==
    ASSUME TInv, TInv', LInv, RouterNext
    PROVE  LInv'
<1>1. SUFFICES ASSUME restores' = 0 PROVE Parts'
  BY DEF LInv, Parts
<1>2. CASE RouterRestore \/ Reenroll
  BY <1>1, <1>2 DEF RouterRestore, Reenroll, TInv, TypeOK
<1>3. CASE ~ (RouterRestore \/ Reenroll)
  <2>1. Parts
    BY <1>1, <1>3 DEF LInv, Parts, RouterNext, Enqueue, TtlPasses, SweepExpired,
       HandleHello, HandleAck, SocketClosed, BackupFlush, RouterRestart, countVars
  <2>2. ASSUME NEW e \in Events, Enqueue(e) PROVE Parts'
    BY <2>1, <2>2, EnqueueKeepsParts
  <2>3. CASE TtlPasses
    BY <2>1, <2>3, QuietStep DEF TtlPasses, wireVars, deviceVars
  <2>4. CASE SweepExpired
    <3>1. queue' \subseteq queue /\ \A r \in queue \ queue' : r.ev \in expired
      BY <2>4 DEF SweepExpired, PendingRows
    <3>2. \A r \in queue \ queue' : Safe(r.seq)
      BY <2>1, <3>1, RowsBelowAreSafe
    <3>3. QED
      BY <2>1, <2>4, <3>1, <3>2, QuietStep DEF SweepExpired, wireVars, deviceVars
  <2>5. ASSUME NEW h \in hellos, HandleHello(h) PROVE Parts'
    BY <2>1, <2>5, HelloKeepsParts
  <2>6. CASE HandleAck
    BY <2>1, <2>6, AckKeepsParts
  <2>7. CASE SocketClosed
    BY <2>1, <2>7, QuietStep DEF SocketClosed, deviceVars
  <2>8. CASE BackupFlush
    BY <2>1, <2>8, QuietStep DEF BackupFlush, wireVars, deviceVars
  <2>9. CASE RouterRestart
    BY <2>1, <2>9, QuietStep DEF RouterRestart, deviceVars
  <2>10. QED
    BY <1>3, <2>2, <2>3, <2>4, <2>5, <2>6, <2>7, <2>8, <2>9 DEF RouterNext
<1>4. QED
  BY <1>2, <1>3

\* Steps of the device that leave the router alone and keep what it holds: the
\* parts that speak of the router's queue follow.
LEMMA DeviceStep ==
    ASSUME TInv, TInv', Parts, UNCHANGED <<nextSeq, queue, expired, routed>>,
           \A e \in Events : Held(e) => Held(e)'
    PROVE  /\ TypeOK /\ TypeOK' /\ Grows
           /\ nextSeq' = Len(routed') + 1
           /\ QueuedOrSafe'
           /\ \A r \in queue' : Honest(r)'
           /\ \A m \in Nat : Below(m) =>
                 m \in 0..Len(routed') /\ \A k \in 1..m : Safe(k)'
<1>1. TypeOK /\ TypeOK'
  BY DEF TInv
<1>2. Grows
  BY <1>1, GrowsIfHeldGrows
<1>3. QueuedOrSafe'
  BY <1>1, <1>2, QueuedCarries DEF Parts
<1>4. \A r \in queue' : Honest(r)'
  BY DEF Parts, AllHonest, Honest
<1>5. \A m \in Nat : Below(m) => m \in 0..Len(routed') /\ \A k \in 1..m : Safe(k)'
  BY <1>1, <1>2, BelowCarries
<1>6. QED
  BY <1>1, <1>2, <1>3, <1>4, <1>5 DEF Parts

\* The hello carries the mark in memory, which holds.
LEMMA DialKeepsParts ==
    ASSUME TInv, TInv', Parts, Dial
    PROVE  Parts'
<1>1. /\ UNCHANGED <<nextSeq, queue, expired, routed, inbox, dispatched, toDevice, acks,
                     pc, frame, lastAcked, disk>>
      /\ hellos' = hellos \cup {[sock |-> dials + 1, acked |-> lastAcked]}
  BY DEF Dial, routerVars
<1>2. \A e \in Events : Held(e) => Held(e)'
  BY <1>1 DEF Held
<1>3. /\ TypeOK /\ TypeOK' /\ Grows /\ nextSeq' = Len(routed') + 1 /\ QueuedOrSafe'
      /\ \A m \in Nat : Below(m) => m \in 0..Len(routed') /\ \A k \in 1..m : Safe(k)'
  BY <1>1, <1>2, DeviceStep
<1>4. AllHonest' /\ NoGap'
  BY <1>1, <1>3, HonestCarries, GapCarries DEF Parts
<1>5. MarksBelow'
  <2>1. \A h \in hellos' : h.acked \in Nat /\ Below(h.acked)
    <3>1. \A h \in hellos' : h \in hellos \/ h.acked = lastAcked
      BY <1>1
    <3>2. \A h \in hellos : Below(h.acked)
      BY DEF Parts, MarksBelow
    <3>3. Below(lastAcked)
      BY DEF Parts, MarksBelow
    <3>4. \A h \in hellos' : h.acked \in Nat
      BY <1>3 DEF TypeOK, Hello
    <3>5. QED
      BY <3>1, <3>2, <3>3, <3>4
  <2>2. \A h \in hellos' : Below(h.acked)'
    BY <1>3, <2>1 DEF Below
  <2>3. Below(lastAcked)' /\ Below(disk)'
    BY <1>1, <1>3 DEF Parts, MarksBelow, Below, TypeOK
  <2>4. ASSUME NEW i \in 1..Len(acks') PROVE Below(acks[i])'
    <3>1. acks[i] \in Nat /\ Below(acks[i])
      BY <1>1, <1>3, Lengths DEF Parts, MarksBelow
    <3>2. QED
      BY <1>1, <1>3, <3>1 DEF Below
  <2>5. pc' \notin {"appended", "acked", "persisted"}
    BY <1>1 DEF Dial
  <2>6. QED
    BY <2>2, <2>3, <2>4, <2>5 DEF MarksBelow
<1>6. QED
  BY <1>1, <1>3, <1>4, <1>5 DEF Parts, Emitted

\* A frame handed to onEvent, new or not: taken off the wire, its event safe.
LEMMA TakeKeepsWire ==
    ASSUME TInv, TInv', Parts, UNCHANGED <<nextSeq, queue, expired, routed>>,
           \A e \in Events : Held(e) => Held(e)',
           NEW f, NextFrame(f), TakeFrame(f), Safe(f.seq) \/ Held(f.ev)'
    PROVE  /\ NoGap'
           /\ \A i \in 1..Len(toDevice') : \A g \in toDevice'[i] : Honest(g)'
           /\ f.seq \in 1..Len(routed) /\ f.ev = routed[f.seq]
           /\ \A k \in 1..f.seq : Safe(k)'
<1>1. TypeOK /\ TypeOK' /\ Grows /\ AllHonest /\ NoGap
  BY DeviceStep DEF Parts
<1>2. /\ f.seq \in 1..Len(routed) /\ f.ev = routed[f.seq]
      /\ \A k \in 1..(f.seq - 1) : Safe(k)
  BY <1>1, NextFramePrefix
<1>3. Safe(f.seq)'
  BY <1>1, <1>2 DEF Safe, Grows, Held
<1>4. Len(routed) \in Nat
  BY <1>1, Lengths
<1>5. \A k \in 1..f.seq : Safe(k)'
  <2>1. SUFFICES ASSUME NEW k \in 1..f.seq PROVE Safe(k)'
    OBVIOUS
  <2>2. CASE k = f.seq
    BY <1>3, <2>2
  <2>3. CASE k \in 1..(f.seq - 1)
    BY <1>1, <1>2, <1>4, <2>3 DEF Grows
  <2>4. QED
    BY <1>2, <1>4, <2>2, <2>3
<1>6. /\ NoGap'
      /\ \A i \in 1..Len(toDevice') : \A g \in toDevice'[i] :
            g.seq \in 1..Len(routed') /\ g.ev = routed'[g.seq]
  BY <1>1, <1>3, TakeNoGap
<1>7. QED
  BY <1>2, <1>5, <1>6 DEF Honest

\* sendAck of a mark that holds leaves only marks that hold on the wire.
LEMMA AckedMarks ==
    ASSUME TInv, TInv', Parts, UNCHANGED <<nextSeq, queue, expired, routed>>,
           \A e \in Events : Held(e) => Held(e)',
           NEW n \in Nat, n \in 0..Len(routed), \A k \in 1..n : Safe(k)',
           acks' = acks \/ acks' = SendAck(n)
    PROVE  \A i \in 1..Len(acks') : Below(acks[i])'
<1>1. /\ TypeOK /\ acks \in Seq(Nat)
      /\ \A m \in Nat : Below(m) => m \in 0..Len(routed') /\ \A k \in 1..m : Safe(k)'
  BY DeviceStep DEF TypeOK
<1>2. \A i \in 1..Len(acks) : acks[i] \in Nat /\ Below(acks[i])
  BY <1>1, Lengths DEF Parts, MarksBelow
<1>3. CASE acks' = acks
  BY <1>1, <1>2, <1>3 DEF Below
<1>4. CASE acks' = Append(acks, n)
  <2>1. SUFFICES ASSUME NEW i \in 1..(Len(acks) + 1) PROVE Below(acks[i])'
    BY <1>1, <1>4
  <2>2. CASE i \in 1..Len(acks)
    <3>1. acks'[i] = acks[i] /\ acks[i] \in Nat /\ Below(acks[i])
      BY <1>1, <1>2, <1>4, <2>2
    <3>2. QED
      BY <1>1, <3>1 DEF Below
  <2>3. CASE i = Len(acks) + 1
    <3>1. acks'[i] = n
      BY <1>1, <1>4, <2>3
    <3>2. QED
      BY <3>1 DEF Below
  <2>4. QED
    BY <1>1, <2>2, <2>3
<1>5. QED
  BY <1>3, <1>4 DEF SendAck

\* A duplicate is acked again: its number is at or below the mark, hence safe.
LEMMA OnDuplicateKeepsParts ==
    ASSUME TInv, TInv', Parts, NEW f, OnDuplicate(f)
    PROVE  Parts'
<1>1. /\ UNCHANGED <<nextSeq, queue, expired, routed, inbox, dispatched, hellos, pc, frame,
                     lastAcked, disk>>
      /\ pc = "idle" /\ NextFrame(f) /\ TakeFrame(f) /\ acks' = SendAck(f.seq)
  BY DEF OnDuplicate, routerVars, deviceVars
<1>2. \A e \in Events : Held(e) => Held(e)'
  BY <1>1 DEF Held
<1>3. /\ TypeOK /\ TypeOK' /\ Grows /\ nextSeq' = Len(routed') + 1 /\ QueuedOrSafe'
      /\ \A r \in queue' : Honest(r)'
      /\ \A m \in Nat : Below(m) => m \in 0..Len(routed') /\ \A k \in 1..m : Safe(k)'
  BY <1>1, <1>2, DeviceStep
<1>4. f.seq \in 1..Len(routed) /\ Len(routed) \in Nat
  BY <1>1, <1>3, NextFramePrefix, Lengths DEF Parts
<1>5. Safe(f.seq)
  <2>1. f.seq <= lastAcked /\ lastAcked \in Nat
    <3>1. lastAcked \in Nat
      BY <1>3 DEF TypeOK
    <3>2. ~ (f.seq > lastAcked)
      BY Zenon DEF OnDuplicate, IsNew
    <3>3. QED
      BY <1>4, <3>1, <3>2
  <2>2. QED
    BY <1>4, <2>1 DEF Parts, MarksBelow, Below
<1>6. /\ NoGap' /\ \A i \in 1..Len(toDevice') : \A g \in toDevice'[i] : Honest(g)'
      /\ \A k \in 1..f.seq : Safe(k)'
  BY <1>1, <1>2, <1>5, TakeKeepsWire
<1>7. AllHonest'
  BY <1>1, <1>3, <1>6 DEF Parts, AllHonest, Honest, Busy
<1>8. MarksBelow'
  <2>1. \A i \in 1..Len(acks') : Below(acks[i])'
    BY <1>1, <1>2, <1>4, <1>6, AckedMarks
  <2>2. Below(lastAcked)' /\ Below(disk)' /\ \A h \in hellos' : Below(h.acked)'
    BY <1>1, <1>3 DEF Parts, MarksBelow, Below, TypeOK, Hello
  <2>3. QED
    BY <1>1, <2>1, <2>2 DEF MarksBelow
<1>9. QED
  BY <1>1, <1>3, <1>6, <1>7, <1>8 DEF Parts, Emitted

\* A new frame enters the inbox: its event is safe from then on.
LEMMA OnEventKeepsParts ==
    ASSUME TInv, TInv', Parts, NEW f, OnEvent(f)
    PROVE  Parts'
<1>1. /\ UNCHANGED <<nextSeq, queue, expired, routed, dispatched, hellos, acks, lastAcked,
                     disk>>
      /\ inbox' = inbox \cup {f} /\ frame' = f /\ pc' = "appended"
      /\ NextFrame(f) /\ TakeFrame(f)
  BY DEF OnEvent, routerVars
<1>2. \A e \in Events : Held(e) => Held(e)'
  BY <1>1, HeldGrows
<1>3. /\ TypeOK /\ TypeOK' /\ Grows /\ nextSeq' = Len(routed') + 1 /\ QueuedOrSafe'
      /\ \A r \in queue' : Honest(r)'
      /\ \A m \in Nat : Below(m) => m \in 0..Len(routed') /\ \A k \in 1..m : Safe(k)'
  BY <1>1, <1>2, DeviceStep
<1>4. Held(f.ev)'
  BY <1>1 DEF Held, EvsOf
<1>5. /\ NoGap' /\ \A i \in 1..Len(toDevice') : \A g \in toDevice'[i] : Honest(g)'
      /\ f.seq \in 1..Len(routed) /\ f.ev = routed[f.seq]
      /\ \A k \in 1..f.seq : Safe(k)'
  BY <1>1, <1>2, <1>4, TakeKeepsWire
<1>6. AllHonest'
  BY <1>1, <1>3, <1>5 DEF Parts, AllHonest, Honest
<1>7. MarksBelow'
  <2>1. Below(lastAcked)' /\ Below(disk)' /\ \A h \in hellos' : Below(h.acked)'
    BY <1>1, <1>3 DEF Parts, MarksBelow, Below, TypeOK, Hello
  <2>2. Below(frame.seq)'
    BY <1>1, <1>3, <1>5, Lengths DEF Below
  <2>3. \A i \in 1..Len(acks') : Below(acks[i])'
    BY <1>1, <1>2, <1>3, <1>5, AckedMarks, Lengths
  <2>4. QED
    BY <2>1, <2>2, <2>3 DEF MarksBelow
<1>8. QED
  BY <1>1, <1>3, <1>5, <1>6, <1>7 DEF Parts, Emitted

\* The ack, the mark in memory and the mark on disk all come after the append.
LEMMA MarkingKeepsParts ==
    ASSUME TInv, TInv', Parts, OnEventAck \/ OnEventPersist
    PROVE  Parts'
<1>1. /\ UNCHANGED <<nextSeq, queue, expired, routed, inbox, dispatched, hellos, toDevice,
                     frame>>
      /\ acks' = acks \/ acks' = SendAck(frame.seq)
      /\ lastAcked' \in {lastAcked, frame.seq} /\ disk' \in {disk, frame.seq}
      /\ pc \in {"appended", "acked"} /\ pc' \in {"acked", "persisted"}
  BY DEF OnEventAck, OnEventPersist, routerVars, wireVars
<1>2. \A e \in Events : Held(e) => Held(e)'
  BY <1>1 DEF Held
<1>3. /\ TypeOK /\ TypeOK' /\ Grows /\ nextSeq' = Len(routed') + 1 /\ QueuedOrSafe'
      /\ \A m \in Nat : Below(m) => m \in 0..Len(routed') /\ \A k \in 1..m : Safe(k)'
  BY <1>1, <1>2, DeviceStep
<1>4. frame.seq \in Nat /\ Below(frame.seq)
  BY <1>1, <1>3 DEF Parts, MarksBelow, TypeOK, Row
<1>5. frame.seq \in 0..Len(routed) /\ \A k \in 1..frame.seq : Safe(k)'
  BY <1>3, <1>4 DEF Below
<1>6. AllHonest' /\ NoGap'
  BY <1>1, <1>3, HonestCarries, GapCarries DEF Parts, Busy
<1>7. MarksBelow'
  <2>1. \A i \in 1..Len(acks') : Below(acks[i])'
    BY <1>1, <1>2, <1>4, <1>5, AckedMarks
  <2>2. Below(lastAcked)' /\ Below(disk)' /\ \A h \in hellos' : Below(h.acked)'
    BY <1>1, <1>3, <1>4 DEF Parts, MarksBelow, Below, TypeOK, Hello
  <2>3. Below(frame.seq)'
    BY <1>1, <1>3, <1>4 DEF Below
  <2>4. QED
    BY <2>1, <2>2, <2>3 DEF MarksBelow
<1>8. QED
  BY <1>1, <1>3, <1>6, <1>7 DEF Parts, Emitted

\* Handing an event over, from onEvent or from replayInbox.
LEMMA EmitKeepsParts ==
    ASSUME TInv, TInv', Parts, OnEventEmit \/ ReplayEmit
    PROVE  Parts'
<1>1. /\ UNCHANGED <<nextSeq, queue, expired, routed, inbox, hellos, toDevice, acks,
                     lastAcked, disk>>
      /\ dispatched' = Append(dispatched, frame'.ev)
      /\ pc' \in {"emitted", "replayed"}
      /\ (pc = "persisted" /\ frame' = frame) \/ frame' \in inbox
  BY DEF OnEventEmit, ReplayEmit, routerVars, wireVars
<1>2. dispatched \in Seq(Events) /\ frame' \in Row /\ frame'.ev \in Events
  BY <1>1 DEF TInv, TypeOK, Row
<1>3. /\ RangeOf(dispatched) \subseteq RangeOf(dispatched')
      /\ frame'.ev \in RangeOf(dispatched')
  BY <1>1, <1>2, RangeAppend
<1>4. \A e \in Events : Held(e) => Held(e)'
  BY <1>1, <1>3, HeldGrows
<1>5. /\ TypeOK /\ TypeOK' /\ Grows /\ nextSeq' = Len(routed') + 1 /\ QueuedOrSafe'
      /\ \A r \in queue' : Honest(r)'
  BY <1>1, <1>4, DeviceStep
<1>6. NoGap'
  BY <1>1, <1>5, GapCarries DEF Parts
<1>7. AllHonest'
  BY <1>1, <1>5 DEF Parts, AllHonest, Honest, Busy
<1>8. MarksBelow'
  BY <1>1, <1>5, MarksCarry DEF Parts
<1>9. QED
  BY <1>1, <1>3, <1>5, <1>6, <1>7, <1>8 DEF Parts, Emitted

\* An entry leaves the inbox only once its event was handed over.
LEMMA MarkProcessedKeepsParts ==
    ASSUME TInv, TInv', Parts, MarkProcessed
    PROVE  Parts'
<1>1. /\ UNCHANGED <<nextSeq, queue, expired, routed, dispatched, hellos, toDevice, acks,
                     lastAcked, disk, frame>>
      /\ inbox' = {x \in inbox : x.seq # frame.seq}
      /\ pc \in {"emitted", "replayed"} /\ pc' \in {"idle", "boot"}
  BY DEF MarkProcessed, routerVars, wireVars
<1>2. frame.ev \in RangeOf(dispatched) /\ Honest(frame)
  BY <1>1 DEF Parts, Emitted, AllHonest, Busy
<1>3. \A x \in inbox : x.seq = frame.seq => x.ev = frame.ev
  BY <1>2 DEF Parts, AllHonest, Honest
<1>4. \A e \in Events : Held(e) => Held(e)'
  BY <1>1, <1>2, <1>3 DEF Held, EvsOf
<1>5. /\ TypeOK /\ TypeOK' /\ Grows /\ nextSeq' = Len(routed') + 1 /\ QueuedOrSafe'
  BY <1>1, <1>4, DeviceStep
<1>6. NoGap' /\ AllHonest'
  BY <1>1, <1>5, GapCarries, HonestCarries DEF Parts, Busy
<1>7. MarksBelow'
  BY <1>1, <1>5, MarksCarry DEF Parts
<1>8. QED
  BY <1>1, <1>5, <1>6, <1>7 DEF Parts, Emitted

\* One step per device action.
LEMMA DeviceKeepsLInv ==
    ASSUME TInv, TInv', LInv, DeviceNext
    PROVE  LInv'
<1>1. restores' = restores
  BY DEF DeviceNext, OnEventStep, BootStep, Dial, Disconnect, LoseHello, OnDuplicate, OnEvent,
     OnEventAck, OnEventPersist, OnEventEmit, MarkProcessed, Start, ReplayEmit, ReplayDone,
     Crash, countVars
<1>2. SUFFICES ASSUME Parts PROVE Parts'
  BY <1>1 DEF LInv, Parts
<1>3. CASE Dial
  BY <1>2, <1>3, DialKeepsParts
<1>4. CASE Disconnect
  BY <1>2, <1>4, QuietStep DEF Disconnect, routerVars
<1>5. CASE LoseHello
  BY <1>2, <1>5, QuietStep DEF LoseHello, routerVars, deviceVars
<1>6. ASSUME NEW b \in RangeOf(toDevice), NEW f \in b, OnDuplicate(f) PROVE Parts'
  BY <1>2, <1>6, OnDuplicateKeepsParts
<1>7. ASSUME NEW b \in RangeOf(toDevice), NEW f \in b, OnEvent(f) PROVE Parts'
  BY <1>2, <1>7, OnEventKeepsParts
<1>8. CASE OnEventAck \/ OnEventPersist
  BY <1>2, <1>8, MarkingKeepsParts
<1>9. CASE OnEventEmit \/ ReplayEmit
  BY <1>2, <1>9, EmitKeepsParts
<1>10. CASE MarkProcessed
  BY <1>2, <1>10, MarkProcessedKeepsParts
<1>11. CASE Start
  BY <1>2, <1>11, QuietStep DEF Start, Busy, routerVars, wireVars
<1>12. CASE ReplayDone
  BY <1>2, <1>12, QuietStep DEF ReplayDone, Busy, routerVars, wireVars
<1>13. CASE Crash
  BY <1>2, <1>13, QuietStep DEF Crash, Busy, routerVars
<1>14. QED
  BY <1>3, <1>4, <1>5, <1>6, <1>7, <1>8, <1>9, <1>10, <1>11, <1>12, <1>13
  DEF DeviceNext, OnEventStep, BootStep

\* A step that changes nothing keeps it.
LEMMA StutterKeepsLInv ==
    ASSUME LInv, UNCHANGED vars
    PROVE  LInv'
<1>1. UNCHANGED <<nextSeq, queue, expired, routed, inbox, dispatched, hellos, toDevice, acks,
                  pc, frame, lastAcked, disk, restores>>
  BY DEF vars, routerVars, wireVars, deviceVars, countVars
<1>2. QED
  BY <1>1 DEF LInv, AllHonest, MarksBelow, QueuedOrSafe, NoGap, Emitted, Honest, Below, Safe,
              Held

\* LInv is an inductive invariant, relative to the types.
LEMMA LInvHolds == Spec => []LInv
<1>1. ASSUME TInv, TInv', LInv, [Next]_vars PROVE LInv'
  BY <1>1, RouterKeepsLInv, DeviceKeepsLInv, StutterKeepsLInv DEF Next
<1>2. QED
  BY InitLInv, TInvHolds, <1>1, PTL DEF Spec

\* No routed webhook is lost, for any number of events, crashes, drops and router
\* restarts: until its TTL passes it is queued at the router, in the device's
\* durable inbox, or was dispatched.
THEOREM NoEventLost == Spec => []NoLoss
<1>1. ASSUME TInv, LInv PROVE NoLoss
  <2>1. SUFFICES ASSUME restores = 0, NEW e \in RangeOf(routed)
                 PROVE  e \in EvsOf(queue) \/ Held(e) \/ e \in expired
    BY DEF NoLoss
  <2>2. PICK k \in 1..Len(routed) : e = routed[k]
    BY <2>1 DEF RangeOf
  <2>3. (\E r \in queue : r.seq = k) \/ Safe(k)
    BY <1>1, <2>1 DEF LInv, QueuedOrSafe
  <2>4. CASE Safe(k)
    BY <2>2, <2>4 DEF Safe
  <2>5. CASE \E r \in queue : r.seq = k
    BY <1>1, <2>1, <2>2, <2>5 DEF LInv, AllHonest, Honest, EvsOf
  <2>6. QED
    BY <2>3, <2>4, <2>5
<1>2. QED
  BY <1>1, TInvHolds, LInvHolds, PTL


---------------------------------------------------------------------------
(* The counter.  A restore or a new enrolment takes next_seq back; the next *)
(* hello repairs it before the two sides share a socket again.              *)

\* A row's seq is below the counter, in the table and in the backup.
SeqsBelow(rows, next) == \A r \in rows : r.seq < next

SeqsIssued ==
    /\ SeqsBelow(queue, nextSeq)
    /\ SeqsBelow(backup.queue, backup.nextSeq)

\* A socket is dialled once, only on a process that is past its replay, and
\* carries frames only while it is held.
SocketsFresh ==
    /\ reg <= dials /\ cur <= dials /\ \A h \in hellos : h.sock # 0 /\ h.sock <= dials
    /\ pc \in {"down", "boot", "replayed"} => cur = 0
    /\ pc \in {"appended", "acked", "persisted", "emitted"} => cur # 0
    /\ cur = 0 => toDevice = <<>>

\* Until its hello is answered, nothing has moved the mark it carries.
HelloCurrent ==
    \A h \in hellos :
        h.sock = cur => /\ reg # cur /\ toDevice = <<>> /\ pc = "idle"
                        /\ h.acked = lastAcked

\* On a shared socket the mark, and the frames that will move it, are below the
\* counter.
MarkBelowCounter ==
    cur # 0 /\ reg = cur =>
        /\ nextSeq > lastAcked
        /\ \A i \in 1 .. Len(toDevice) : SeqsBelow(toDevice[i], nextSeq)
        /\ pc = "appended" => frame.seq < nextSeq

CInv == SeqsIssued /\ SocketsFresh /\ HelloCurrent /\ MarkBelowCounter

\* The rank of a row among finitely many is below their number and follows the
\* order of their seqs.
LEMMA RankFacts ==
    ASSUME NEW V \in SUBSET Row, IsFiniteSet(V), NEW r \in V
    PROVE  LET Rank(x) == Cardinality({v \in V : v.seq < x.seq})
           IN  /\ Rank(r) \in Nat /\ Cardinality(V) \in Nat /\ Rank(r) < Cardinality(V)
               /\ \A x \in V : r.seq < x.seq => Rank(r) < Rank(x)
<1> DEFINE Lower(x) == {v \in V : v.seq < x.seq}
<1>1. \A x \in V : Lower(x) \in SUBSET V /\ IsFiniteSet(Lower(x)) /\ Cardinality(Lower(x)) \in Nat
  <2>1. TAKE x \in V
  <2>2. Lower(x) \in SUBSET V
    OBVIOUS
  <2>3. IsFiniteSet(Lower(x))
    BY <2>2, FS_Subset
  <2>4. QED
    BY <2>2, <2>3, FS_CardinalityType
<1>2. Cardinality(V) \in Nat
  BY FS_CardinalityType
<1>3. r.seq \in Nat /\ \A x \in V : x.seq \in Nat
  BY DEF Row
<1>4. Lower(r) # V
  BY <1>3
<1>5. Cardinality(Lower(r)) < Cardinality(V)
  <2>1. Cardinality(Lower(r)) <= Cardinality(V) /\ Cardinality(V) # Cardinality(Lower(r))
    BY <1>1, <1>4, FS_Subset
  <2>2. QED
    BY <1>1, <1>2, <2>1
<1>6. ASSUME NEW x \in V, r.seq < x.seq PROVE Cardinality(Lower(r)) < Cardinality(Lower(x))
  <2>1. Lower(r) \in SUBSET Lower(x) /\ r \in Lower(x) /\ r \notin Lower(r)
    BY <1>3, <1>6
  <2> HIDE DEF Lower
  <2>2. Cardinality(Lower(r)) <= Cardinality(Lower(x))
        /\ Cardinality(Lower(x)) # Cardinality(Lower(r))
    BY <1>1, <2>1, FS_Subset
  <2>3. QED
    BY <1>1, <2>2
<1>7. QED
  BY <1>1, <1>2, <1>5, <1>6

\* reconcileDeviceSeq leaves the counter above the mark and above every row.
LEMMA ReconcileSeqs ==
    ASSUME NEW rows \in SUBSET Row, IsFiniteSet(rows), NEW next \in Nat, NEW acked \in Nat,
           SeqsBelow(rows, next)
    PROVE  LET fixed == ReconcileSeq(rows, next, acked)
           IN  SeqsBelow(fixed.queue, fixed.next) /\ fixed.next > acked
<1> DEFINE V == {r \in PendingRows(rows) : r.seq <= acked}
           Rank(r) == Cardinality({v \in V : v.seq < r.seq})
           moved == {[seq |-> acked + 1 + Rank(r), ev |-> r.ev] : r \in V}
<1>1. CASE next > acked
  BY <1>1 DEF ReconcileSeq
<1>2. CASE ~ (next > acked)
  <2>1. V \in SUBSET rows /\ V \in SUBSET Row
    BY DEF PendingRows
  <2>2. IsFiniteSet(V)
    BY <2>1, FS_Subset
  <2>3. Cardinality(V) \in Nat
    BY <2>2, FS_CardinalityType
  <2>4. \A r \in V : Rank(r) \in Nat /\ Rank(r) < Cardinality(V)
    BY <2>1, <2>2, RankFacts
  <2>5. ReconcileSeq(rows, next, acked) =
            [queue |-> (rows \ V) \cup moved, next |-> acked + 1 + Cardinality(V)]
    BY <1>2 DEF ReconcileSeq
  <2> HIDE DEF Rank, V
  <2>6. \A m \in moved : m.seq < acked + 1 + Cardinality(V)
    BY <2>3, <2>4
  <2>7. \A r \in rows : r.seq < acked + 1 + Cardinality(V)
    BY <1>2, <2>3 DEF SeqsBelow, Row
  <2> HIDE DEF moved
  <2>8. QED
    BY <2>3, <2>5, <2>6, <2>7 DEF SeqsBelow
<1>3. QED
  BY <1>1, <1>2

\* What deliverPending adds to the wire is below the counter.
LEMMA DeliverBelow ==
    ASSUME NEW rows \in SUBSET Row, NEW next \in Nat, SeqsBelow(rows, next), NEW s,
           NEW batches \in Seq(SUBSET Row),
           \A i \in 1 .. Len(batches) : SeqsBelow(batches[i], next)
    PROVE  \A i \in 1 .. Len(Deliver(s, rows, batches)) :
              SeqsBelow(Deliver(s, rows, batches)[i], next)
<1>1. PendingRows(rows) \in SUBSET Row /\ SeqsBelow(PendingRows(rows), next)
  BY DEF PendingRows, SeqsBelow
<1>2. CASE Deliver(s, rows, batches) = Append(batches, PendingRows(rows))
  BY <1>1, <1>2
<1>3. QED
  BY <1>2 DEF Deliver

\* Steps that touch neither the table nor the sockets nor the mark.
LEMMA CounterQuiet ==
    ASSUME CInv, UNCHANGED <<queue, nextSeq, backup, reg, hellos, toDevice, pc, frame,
                             lastAcked, cur, dials>>
    PROVE  CInv'
BY DEF CInv, SeqsIssued, SeqsBelow, SocketsFresh, HelloCurrent, MarkBelowCounter

\* A webhook takes the next seq.
LEMMA EnqueueCounter == ASSUME TInv, CInv, NEW e \in Events, Enqueue(e) PROVE CInv'
<1>1. /\ nextSeq \in Nat /\ queue' \in SUBSET Row /\ SeqsBelow(queue', nextSeq')
      /\ nextSeq' = nextSeq + 1
  BY DEF TInv, TypeOK, CInv, SeqsIssued, SeqsBelow, Enqueue, Row
<1>2. SeqsIssued' /\ SocketsFresh'
  <2>1. cur = 0 => toDevice' = <<>>
    BY DEF CInv, SocketsFresh, Enqueue, Deliver, deviceVars
  <2>2. QED
    BY <1>1, <2>1 DEF CInv, SeqsIssued, SocketsFresh, Enqueue, deviceVars, countVars
<1>3. HelloCurrent'
  BY DEF CInv, HelloCurrent, Enqueue, Deliver, deviceVars
<1>4. MarkBelowCounter'
  <2>1. SUFFICES ASSUME cur # 0, reg = cur
                 PROVE  /\ nextSeq' > lastAcked
                        /\ \A i \in 1 .. Len(toDevice') : SeqsBelow(toDevice'[i], nextSeq')
                        /\ pc = "appended" => frame.seq < nextSeq'
    BY DEF MarkBelowCounter, Enqueue, deviceVars
  <2>2. \A i \in 1 .. Len(toDevice) : SeqsBelow(toDevice[i], nextSeq')
    <3>1. TAKE i \in 1 .. Len(toDevice)
    <3>2. toDevice[i] \in SUBSET Row /\ SeqsBelow(toDevice[i], nextSeq)
      BY <2>1 DEF TInv, TypeOK, CInv, MarkBelowCounter
    <3>3. QED
      BY <1>1, <3>2 DEF SeqsBelow, Row
  <2>3. \A i \in 1 .. Len(toDevice') : SeqsBelow(toDevice'[i], nextSeq')
    <3>1. toDevice' = Deliver(reg, queue', toDevice)
      BY DEF Enqueue
    <3>2. toDevice \in Seq(SUBSET Row) /\ nextSeq' \in Nat
      BY <1>1 DEF TInv, TypeOK
    <3>3. QED
      BY <1>1, <2>2, <3>1, <3>2, DeliverBelow
  <2>4. QED
    BY <1>1, <2>1, <2>3 DEF CInv, MarkBelowCounter, TInv, TypeOK, Row
<1>5. QED
  BY <1>2, <1>3, <1>4 DEF CInv

\* The hello repairs the counter before the socket is used.
LEMMA HelloCounter == ASSUME TInv, CInv, NEW h \in hellos, HandleHello(h) PROVE CInv'
<1> DEFINE fixed == ReconcileSeq(queue, nextSeq, h.acked)
<1>1. /\ h.acked \in Nat /\ h.sock \in Nat /\ nextSeq \in Nat
      /\ IsFiniteSet(queue) /\ queue \in SUBSET Row
  BY DEF TInv, TypeOK, FiniteQueues, Hello
<1>2. SeqsBelow(fixed.queue, fixed.next) /\ fixed.next > h.acked
  BY <1>1, ReconcileSeqs DEF CInv, SeqsIssued
<1>3. fixed.queue \in SUBSET Row /\ fixed.next \in Nat
  BY <1>1, ReconcileType
<1>4. /\ hellos' = hellos \ {h} /\ reg' = h.sock /\ nextSeq' = fixed.next
      /\ queue' = PurgeAcked(fixed.queue, h.acked)
      /\ toDevice' = Deliver(h.sock, queue', toDevice)
      /\ UNCHANGED <<backup, pc, frame, lastAcked, cur, dials>>
  BY DEF HandleHello, deviceVars, countVars
<1> HIDE DEF fixed
<1>5. queue' \in SUBSET Row /\ SeqsBelow(queue', nextSeq')
  BY <1>2, <1>3, <1>4 DEF PurgeAcked, SeqsBelow
<1>6. SeqsIssued'
  BY <1>4, <1>5 DEF CInv, SeqsIssued
<1>7. SocketsFresh'
  BY <1>4 DEF CInv, SocketsFresh, Deliver
<1>8. HelloCurrent'
  <2>1. SUFFICES ASSUME NEW g \in hellos, g # h, g.sock = cur
                 PROVE  /\ h.sock # cur /\ toDevice' = <<>> /\ pc = "idle"
                        /\ g.acked = lastAcked
    BY <1>4 DEF HelloCurrent
  <2>2. toDevice = <<>> /\ pc = "idle" /\ g.acked = lastAcked
    BY <2>1 DEF CInv, HelloCurrent
  <2>3. h.sock # cur
    <3>1. h \in Hello /\ g \in Hello
      BY DEF TInv, TypeOK
    <3>2. ~ (h.sock = g.sock /\ h.acked = g.acked)
      BY <2>1, <3>1 DEF Hello
    <3>3. QED
      BY <2>1, <2>2, <3>2 DEF CInv, HelloCurrent
  <2>4. QED
    BY <1>4, <2>2, <2>3 DEF Deliver
<1>9. MarkBelowCounter'
  <2>1. SUFFICES ASSUME cur # 0, h.sock = cur
                 PROVE  /\ nextSeq' > lastAcked
                        /\ \A i \in 1 .. Len(toDevice') : SeqsBelow(toDevice'[i], nextSeq')
                        /\ pc # "appended"
    BY <1>4 DEF MarkBelowCounter
  <2>2. toDevice = <<>> /\ pc = "idle" /\ h.acked = lastAcked
    BY <2>1 DEF CInv, HelloCurrent
  <2>3. \A i \in 1 .. Len(toDevice') : SeqsBelow(toDevice'[i], nextSeq')
    <3>1. nextSeq' \in Nat /\ toDevice \in Seq(SUBSET Row) /\ Len(toDevice) = 0
      BY <1>3, <1>4, <2>2 DEF TInv, TypeOK
    <3>2. \A i \in 1 .. Len(toDevice) : SeqsBelow(toDevice[i], nextSeq')
      BY <3>1
    <3>3. toDevice' = Deliver(h.sock, queue', toDevice)
      BY <1>4
    <3>4. QED
      BY <1>5, <3>1, <3>2, <3>3, DeliverBelow
  <2>4. QED
    BY <1>2, <1>4, <2>2, <2>3
<1>10. QED
  BY <1>6, <1>7, <1>8, <1>9 DEF CInv

\* The router's other steps: rows go, sockets close, and a rewound counter comes
\* with no socket and no hello left.
LEMMA RouterCounter == ASSUME TInv, CInv, RouterNext PROVE CInv'
<1>1. CASE \E e \in Events : Enqueue(e)
  BY <1>1, EnqueueCounter
<1>2. CASE \E h \in hellos : HandleHello(h)
  BY <1>2, HelloCounter
<1>3. CASE TtlPasses
  BY <1>3, CounterQuiet DEF TtlPasses, wireVars, deviceVars, countVars
<1>4. CASE SweepExpired \/ HandleAck
  <2>1. /\ queue' \subseteq queue
        /\ UNCHANGED <<nextSeq, backup, reg, hellos, toDevice, pc, frame, lastAcked, cur, dials>>
    BY <1>4 DEF SweepExpired, HandleAck, PendingRows, AckRows, wireVars, deviceVars, countVars
  <2>2. QED
    BY <2>1 DEF CInv, SeqsIssued, SeqsBelow, SocketsFresh, HelloCurrent, MarkBelowCounter
<1>5. CASE SocketClosed \/ RouterRestart
  <2>1. /\ reg' = 0 /\ hellos' \subseteq hellos
        /\ UNCHANGED <<queue, nextSeq, backup, toDevice, pc, frame, lastAcked, cur, dials>>
    BY <1>5 DEF SocketClosed, RouterRestart, deviceVars
  <2>2. \A h \in hellos : h.sock = cur => cur # 0
    BY DEF CInv, SocketsFresh, HelloCurrent
  <2>3. QED
    BY <2>1, <2>2 DEF CInv, SeqsIssued, SeqsBelow, SocketsFresh, HelloCurrent, MarkBelowCounter,
                      TInv, TypeOK
<1>6. CASE BackupFlush
  <2>1. /\ backup'.queue = queue /\ backup'.nextSeq = nextSeq
        /\ UNCHANGED <<queue, nextSeq, reg, hellos, toDevice, pc, frame, lastAcked, cur, dials>>
    BY <1>6 DEF BackupFlush, wireVars, deviceVars, countVars
  <2>2. QED
    BY <2>1 DEF CInv, SeqsIssued, SeqsBelow, SocketsFresh, HelloCurrent, MarkBelowCounter
<1>7. CASE RouterRestore
  <2>1. /\ queue' = backup.queue /\ nextSeq' = backup.nextSeq /\ reg' = 0 /\ hellos' = {}
        /\ UNCHANGED <<backup, toDevice, pc, frame, lastAcked, cur, dials>>
    BY <1>7 DEF RouterRestore, deviceVars
  <2>2. QED
    BY <2>1 DEF CInv, SeqsIssued, SeqsBelow, SocketsFresh, HelloCurrent, MarkBelowCounter,
                TInv, TypeOK
<1>8. CASE Reenroll
  <2>1. /\ queue' = {} /\ backup'.queue = {} /\ reg' = 0 /\ hellos' = {} /\ toDevice' = <<>>
        /\ pc' = "down" /\ cur' = 0 /\ UNCHANGED dials
    BY <1>8 DEF Reenroll
  <2>2. QED
    BY <2>1 DEF CInv, SeqsIssued, SeqsBelow, SocketsFresh, HelloCurrent, MarkBelowCounter,
                TInv, TypeOK
<1>9. QED
  BY <1>1, <1>2, <1>3, <1>4, <1>5, <1>6, <1>7, <1>8 DEF RouterNext

\* The device dials, takes frames and moves its mark.
LEMMA DeviceCounter == ASSUME TInv, TInv', CInv, DeviceNext PROVE CInv'
<1> USE DEF CInv
<1>1. CASE Dial
  <2>1. /\ pc = "idle" /\ cur = 0 /\ dials' = dials + 1 /\ cur' = dials + 1
        /\ hellos' = hellos \cup {[sock |-> dials + 1, acked |-> lastAcked]}
        /\ UNCHANGED <<queue, nextSeq, backup, reg, toDevice, pc, frame, lastAcked>>
    BY <1>1 DEF Dial, routerVars
  <2>2. dials \in Nat /\ reg \in Nat /\ \A h \in hellos : h.sock \in Nat
    BY DEF TInv, TypeOK, Hello
  <2>3. QED
    BY <2>1, <2>2 DEF SeqsIssued, SocketsFresh, HelloCurrent, MarkBelowCounter
<1>2. CASE Disconnect \/ Crash
  <2>1. /\ cur' = 0 /\ toDevice' = <<>> /\ (pc' = "idle" \/ pc' = "down")
        /\ UNCHANGED <<queue, nextSeq, backup, reg, hellos, frame, lastAcked, dials>>
    BY <1>2 DEF Disconnect, Crash, routerVars
  <2>2. QED
    BY <2>1 DEF SeqsIssued, SocketsFresh, HelloCurrent, MarkBelowCounter, TInv, TypeOK
<1>3. CASE LoseHello
  BY <1>3 DEF LoseHello, routerVars, deviceVars, countVars, SeqsIssued, SocketsFresh,
              HelloCurrent, MarkBelowCounter
<1>4. CASE BootStep
  BY <1>4 DEF BootStep, Start, ReplayEmit, ReplayDone, routerVars, wireVars, countVars, SeqsIssued,
              SocketsFresh, HelloCurrent, MarkBelowCounter
<1>5. CASE OnEventAck
  BY <1>5 DEF OnEventAck, routerVars, countVars, SeqsIssued, SocketsFresh, HelloCurrent,
              MarkBelowCounter
<1>6. CASE OnEventPersist \/ OnEventEmit \/ MarkProcessed
  BY <1>6 DEF OnEventPersist, OnEventEmit, MarkProcessed, routerVars, wireVars, countVars,
              SeqsIssued, SocketsFresh, HelloCurrent, MarkBelowCounter
<1>7. ASSUME NEW f, OnDuplicate(f) \/ OnEvent(f) PROVE CInv'
  <2>1. /\ toDevice # <<>> /\ f \in Head(toDevice) /\ TakeFrame(f) /\ pc = "idle"
        /\ \/ pc' = "idle" /\ UNCHANGED frame
           \/ pc' = "appended" /\ frame' = f
        /\ UNCHANGED <<queue, nextSeq, backup, reg, hellos, lastAcked, cur, dials>>
    BY <1>7 DEF OnDuplicate, OnEvent, NextFrame, routerVars, deviceVars, countVars
  <2>2. cur # 0 /\ \A h \in hellos : h.sock # cur
    BY <2>1 DEF SocketsFresh, HelloCurrent
  <2>3. SeqsIssued' /\ SocketsFresh' /\ HelloCurrent'
    BY <2>1, <2>2 DEF SeqsIssued, SocketsFresh, HelloCurrent
  <2>4. ASSUME reg = cur PROVE MarkBelowCounter'
    <3>1. toDevice \in Seq(SUBSET Row) /\ Len(toDevice) >= 1 /\ Head(toDevice) = toDevice[1]
      BY <2>1 DEF TInv, TypeOK
    <3>2. \A i \in 1 .. Len(toDevice) : SeqsBelow(toDevice[i], nextSeq)
      BY <2>2, <2>4 DEF MarkBelowCounter
    <3>3. SeqsBelow(Head(toDevice), nextSeq) /\ SeqsBelow(Head(toDevice) \ {f}, nextSeq)
      BY <3>1, <3>2 DEF SeqsBelow
    <3>4. \A i \in 1 .. Len(Tail(toDevice)) : SeqsBelow(Tail(toDevice)[i], nextSeq)
      BY <3>1, <3>2
    <3>5. \A i \in 1 .. Len(toDevice') : SeqsBelow(toDevice'[i], nextSeq)
      <4>1. CASE toDevice' = Tail(toDevice)
        BY <3>4, <4>1
      <4>2. CASE toDevice' = <<Head(toDevice) \ {f}>> \o Tail(toDevice)
        <5>1. Tail(toDevice) \in Seq(SUBSET Row) /\ Head(toDevice) \ {f} \in SUBSET Row
          BY <2>1, <3>1
        <5>2. ASSUME NEW i \in 1 .. Len(toDevice')
              PROVE  SeqsBelow(toDevice'[i], nextSeq)
          <6>1. CASE i = 1
            BY <3>3, <4>2, <5>1, <6>1
          <6>2. CASE i # 1
            <7>1. i - 1 \in 1 .. Len(Tail(toDevice)) /\ toDevice'[i] = Tail(toDevice)[i - 1]
              BY <4>2, <5>1, <5>2, <6>2
            <7>2. QED
              BY <3>4, <7>1
          <6>3. QED
            BY <6>1, <6>2
        <5>3. QED
          BY <5>2
      <4>3. QED
        BY <2>1, <4>1, <4>2 DEF TakeFrame
    <3>6. QED
      BY <2>1, <2>2, <2>4, <3>3, <3>5 DEF MarkBelowCounter, SeqsBelow
  <2>5. QED
    BY <2>1, <2>3, <2>4 DEF MarkBelowCounter
<1>8. QED
  BY <1>1, <1>2, <1>3, <1>4, <1>5, <1>6, <1>7 DEF DeviceNext, OnEventStep

\* CInv is an inductive invariant, relative to the types.
LEMMA CInvHolds == Spec => []CInv
<1>1. Init => CInv
  BY DEF Init, CInv, SeqsIssued, SeqsBelow, SocketsFresh, HelloCurrent, MarkBelowCounter
<1>2. ASSUME TInv, TInv', CInv, [Next]_vars PROVE CInv'
  <2>1. CASE UNCHANGED vars
    BY <1>2, <2>1, CounterQuiet DEF vars, routerVars, wireVars, deviceVars, countVars
  <2>2. QED
    BY <1>2, <2>1, RouterCounter, DeviceCounter DEF Next
<1>3. QED
  BY <1>1, <1>2, TInvHolds, PTL DEF Spec

\* reconcileDeviceSeq runs in the hello, before the device's socket is used: after
\* any number of restores, new enrolments, drops and crashes the router issues
\* no seq that the device would take for a duplicate.
THEOREM CounterAboveMark == Spec => []NotDeaf
<1>1. CInv => NotDeaf
  BY DEF CInv, MarkBelowCounter, NotDeaf
<1>2. QED
  BY <1>1, CInvHolds, PTL

\* The repair, for live rows: each moves above the mark, in order, and none of
\* what is live afterwards is at or below it.
LEMMA ReconcileKeeps ==
    ASSUME NEW rows \in SUBSET Row, IsFiniteSet(rows), NEW next \in Nat, NEW acked \in Nat,
           SeqsBelow(rows, next), next <= acked
    PROVE  LET fixed == ReconcileSeq(rows, next, acked)
           IN  /\ \A r, x \in PendingRows(rows) :
                     \E r2, x2 \in fixed.queue :
                        /\ r2.ev = r.ev /\ x2.ev = x.ev /\ r2.seq > acked
                        /\ r.seq < x.seq => r2.seq < x2.seq
               /\ \A y \in PendingRows(fixed.queue) : y.seq > acked
<1> DEFINE V == {r \in PendingRows(rows) : r.seq <= acked}
           Rank(r) == Cardinality({v \in V : v.seq < r.seq})
           Move(r) == [seq |-> acked + 1 + Rank(r), ev |-> r.ev]
           moved == {Move(r) : r \in V}
<1>1. V \in SUBSET rows /\ V \in SUBSET Row
  BY DEF PendingRows
<1>2. IsFiniteSet(V)
  BY <1>1, FS_Subset
<1>3. PendingRows(rows) \subseteq V
  BY DEF PendingRows, SeqsBelow, Row
<1>4. \A r \in V : Rank(r) \in Nat /\ \A x \in V : r.seq < x.seq => Rank(r) < Rank(x)
  BY <1>1, <1>2, RankFacts
<1>5. ReconcileSeq(rows, next, acked).queue = (rows \ V) \cup moved
  <2>1. ~ (next > acked)
    OBVIOUS
  <2>2. ReconcileSeq(rows, next, acked) =
            [queue |-> (rows \ V) \cup moved, next |-> acked + 1 + Cardinality(V)]
    BY <2>1 DEF ReconcileSeq
  <2>3. QED
    BY <2>2
<1> HIDE DEF Rank, V
<1>6. \A r \in V : Move(r).ev = r.ev /\ Move(r).seq = acked + 1 + Rank(r) /\ Move(r) \in moved
  OBVIOUS
<1>7. ASSUME NEW r \in PendingRows(rows), NEW x \in PendingRows(rows)
      PROVE  \E r2, x2 \in (rows \ V) \cup moved :
                /\ r2.ev = r.ev /\ x2.ev = x.ev /\ r2.seq > acked
                /\ r.seq < x.seq => r2.seq < x2.seq
  <2>1. r \in V /\ x \in V
    BY <1>3
  <2> HIDE DEF Move, moved
  <2>2. QED
    BY <1>4, <1>6, <2>1
<1>8. ASSUME NEW y \in PendingRows((rows \ V) \cup moved) PROVE y.seq > acked
  <2>1. y \in moved \/ y \in PendingRows(rows)
    BY DEF PendingRows
  <2>2. y \notin V \/ y \in moved
    BY <1>8 DEF PendingRows
  <2>3. PICK r \in V : y = Move(r)
    BY <1>3, <2>1, <2>2
  <2>4. QED
    BY <1>4, <1>6, <2>3
<1>9. QED
  BY <1>5, <1>7, <1>8

\* The hello that finds next_seq rewound (reconcileDeviceSeq, then handleHello's
\* purge) destroys no live row, however far the counter was taken back: each row
\* is queued above the device's mark and in its old order.
THEOREM RepairLosesNothing == Spec => RepairKeepsLiveRows
<1> DEFINE Kept(h) ==
              (nextSeq <= h.acked /\ HandleHello(h)) =>
                  \A r, x \in PendingRows(queue) :
                      \E r2, x2 \in queue' :
                          /\ r2.ev = r.ev /\ x2.ev = x.ev
                          /\ r2.seq > h.acked
                          /\ r.seq < x.seq => r2.seq < x2.seq
<1>1. ASSUME TInv, CInv, NEW h \in hellos PROVE Kept(h)
  <2>1. SUFFICES ASSUME nextSeq <= h.acked, HandleHello(h)
                 PROVE  \A r, x \in PendingRows(queue) :
                           \E r2, x2 \in queue' :
                              /\ r2.ev = r.ev /\ x2.ev = x.ev
                              /\ r2.seq > h.acked
                              /\ r.seq < x.seq => r2.seq < x2.seq
    OBVIOUS
  <2> DEFINE fixed == ReconcileSeq(queue, nextSeq, h.acked)
  <2>2. h.acked \in Nat /\ IsFiniteSet(queue) /\ queue \in SUBSET Row /\ nextSeq \in Nat
    BY <1>1 DEF TInv, TypeOK, FiniteQueues, Hello
  <2>3. /\ \A r, x \in PendingRows(queue) :
              \E r2, x2 \in fixed.queue :
                 /\ r2.ev = r.ev /\ x2.ev = x.ev /\ r2.seq > h.acked
                 /\ r.seq < x.seq => r2.seq < x2.seq
        /\ \A y \in PendingRows(fixed.queue) : y.seq > h.acked
    BY <1>1, <2>1, <2>2, ReconcileKeeps DEF CInv, SeqsIssued
  <2>4. queue' = PurgeAcked(fixed.queue, h.acked)
    BY <2>1 DEF HandleHello
  <2>5. fixed.queue \in SUBSET Row
    BY <2>2, ReconcileType
  <2> HIDE DEF fixed
  <2>6. \A x \in PendingRows(fixed.queue) : ~ (x.seq <= h.acked)
    BY <2>2, <2>3, <2>5 DEF PendingRows, Row
  <2>7. queue' = fixed.queue
    BY <2>4, <2>6 DEF PurgeAcked
  <2>8. QED
    BY <2>3, <2>7
<1>2. ASSUME TInv, CInv, [Next]_vars PROVE [\A h \in hellos : Kept(h)]_vars
  BY <1>1, <1>2
<1>3. QED
  BY <1>2, TInvHolds, CInvHolds, PTL DEF Spec, RepairKeepsLiveRows

---------------------------------------------------------------------------
(* Order.  While the router keeps its disk, the consumer first sees events in *)
(* the order of their numbers.                                                *)

\* enqueueEvent is called once per webhook.
RoutedOnce == \A i, j \in 1..Len(routed) : routed[i] = routed[j] => i = j

\* Outside of replayInbox the inbox holds the frame under treatment and no other.
InboxIsFrame ==
    /\ pc \in {"appended", "acked", "persisted", "emitted"} => inbox = {frame}
    /\ pc = "idle" => inbox = {}

\* A mark is the number of an event the device holds.
HeldMark(m) == m = 0 \/ Held(routed[m])
MarksHeld == HeldMark(lastAcked) /\ HeldMark(disk)

\* A row that may still reach the device: live in the queue, or on the wire.
Coming(y) == y \in PendingRows(queue) \/ \E i \in 1..Len(toDevice) : y \in toDevice[i]

\* The device holds nothing that should have come after a row it is yet to get.
NotOvertaken ==
    \A y \in Row : Coming(y) =>
        \A k \in 1..Len(routed) : y.seq < k /\ Held(routed[k]) => Held(y.ev)

\* The wire overtakes nothing either: what comes before a frame on it is held
\* or is on the wire ahead of it or with it.
WireOrder ==
    \A i \in 1..Len(toDevice) : \A x \in toDevice[i] : \A y \in Row :
        Coming(y) /\ y.seq < x.seq => Held(y.ev) \/ \E j \in 1..i : y \in toDevice[j]

\* An inbox entry that was never handed over comes after all that were.
InboxLast ==
    \A x \in inbox : x.ev \notin RangeOf(dispatched) =>
        \A k \in 1..Len(routed) : x.seq < k => routed[k] \notin RangeOf(dispatched)

\* Only routed events are handed over, each for a first time; an earlier event that
\* is ever handed over comes before every dispatch of a later one.
DispatchedRouted == RangeOf(dispatched) \subseteq RangeOf(routed)

FirstDispatch ==
    \A e \in RangeOf(dispatched) : \E i \in 1..Len(dispatched) :
        dispatched[i] = e /\ \A j \in 1..(i - 1) : dispatched[j] # e

EarlierFirst ==
    \A i, j \in 1..Len(routed) : \A q \in 1..Len(dispatched) :
        i < j /\ dispatched[q] = routed[j] /\ routed[i] \in RangeOf(dispatched)
            => \E p \in 1..(q - 1) : dispatched[p] = routed[i]

Order ==
    /\ RoutedOnce /\ InboxIsFrame /\ MarksHeld /\ NotOvertaken /\ WireOrder
    /\ InboxLast /\ DispatchedRouted /\ FirstDispatch /\ EarlierFirst

DInv == restores = 0 => Order

\* Steps that route, take and hand over nothing keep the order on the way to the
\* device.
LEMMA WayCarries ==
    ASSUME TypeOK, NotOvertaken, WireOrder, UNCHANGED routed,
           \A e \in Events : Held(e)' <=> Held(e),
           toDevice' \in {toDevice, <<>>},
           PendingRows(queue)' \subseteq PendingRows(queue)
    PROVE  NotOvertaken' /\ WireOrder'
<1>1. \A y : Coming(y)' => Coming(y)
  BY DEF Coming
<1>2. \A k \in 1..Len(routed) : routed[k] \in Events
  BY Histories
<1>3. \A y \in Row : y.ev \in Events
  BY DEF Row
<1>4. \A k \in 1..Len(routed) : Held(routed[k])' <=> Held(routed[k])
  BY <1>2
<1>5. \A y \in Row : Held(y.ev)' <=> Held(y.ev)
  BY <1>3
<1>6. NotOvertaken'
  BY <1>1, <1>4, <1>5 DEF NotOvertaken
<1>7. WireOrder'
  BY <1>1, <1>5 DEF WireOrder
<1>8. QED
  BY <1>6, <1>7

\* Steps that hand nothing over keep the order in which events were.
LEMMA PastCarries ==
    ASSUME TypeOK, InboxLast, DispatchedRouted, FirstDispatch, EarlierFirst,
           UNCHANGED <<routed, dispatched>>, inbox' \subseteq inbox
    PROVE  InboxLast' /\ DispatchedRouted' /\ FirstDispatch' /\ EarlierFirst'
<1>1. InboxLast'
  BY DEF InboxLast
<1>2. DispatchedRouted' /\ FirstDispatch' /\ EarlierFirst'
  BY DEF DispatchedRouted, FirstDispatch, EarlierFirst
<1>3. QED
  BY <1>1, <1>2

\* Steps that neither deliver, enqueue, take nor hand anything over.
LEMMA QuietOrder ==
    ASSUME TypeOK, Order,
           UNCHANGED <<routed, dispatched>>, inbox' = inbox,
           expired \subseteq expired', queue' \subseteq queue,
           toDevice' \in {toDevice, <<>>}, lastAcked' \in {lastAcked, disk}, disk' = disk,
           pc' \in {"down", "boot"} \/ (pc' = pc /\ frame' = frame) \/ (pc' = "idle" /\ inbox = {})
    PROVE  Order'
<1>1. \A e : Held(e)' <=> Held(e)
  BY DEF Held
<1>2. PendingRows(queue)' \subseteq PendingRows(queue)
  BY DEF PendingRows
<1>3. NotOvertaken' /\ WireOrder'
  BY <1>1, <1>2, WayCarries DEF Order
<1>4. InboxLast' /\ DispatchedRouted' /\ FirstDispatch' /\ EarlierFirst'
  BY PastCarries DEF Order
<1>5. RoutedOnce' /\ InboxIsFrame'
  BY DEF Order, RoutedOnce, InboxIsFrame
<1>6. MarksHeld'
  BY <1>1 DEF Order, MarksHeld, HeldMark
<1>7. QED
  BY <1>3, <1>4, <1>5, <1>6 DEF Order

\* The next frame overtakes nothing that is still to come.
LEMMA NextFrameOrder ==
    ASSUME TypeOK, WireOrder, NEW f, NextFrame(f)
    PROVE  /\ f \in Row /\ Coming(f)
           /\ \A y \in Row : Coming(y) /\ y.seq < f.seq => Held(y.ev)
<1>1. toDevice \in Seq(SUBSET Row) /\ toDevice # <<>>
  BY DEF TypeOK, NextFrame
<1>2. Head(toDevice) = toDevice[1] /\ 1 \in 1..Len(toDevice) /\ toDevice[1] \in SUBSET Row
  BY <1>1
<1>3. f \in toDevice[1] /\ \A x \in toDevice[1] : f.seq <= x.seq
  BY <1>2 DEF NextFrame
<1>4. f \in Row /\ Coming(f)
  BY <1>2, <1>3 DEF Coming
<1>5. ASSUME NEW y \in Row, Coming(y), y.seq < f.seq PROVE Held(y.ev)
  <2>1. Held(y.ev) \/ \E j \in 1..1 : y \in toDevice[j]
    BY <1>2, <1>3, <1>5 DEF WireOrder
  <2>2. y \notin toDevice[1]
    BY <1>3, <1>4, <1>5 DEF Row
  <2>3. \A j \in 1..1 : j = 1
    OBVIOUS
  <2>4. QED
    BY <2>1, <2>2, <2>3
<1>6. QED
  BY <1>4, <1>5

\* Once the frame that is taken is held, the order on the way is as before.
LEMMA TakeOrder ==
    ASSUME TypeOK, NotOvertaken, WireOrder, UNCHANGED <<routed, queue, expired>>,
           NEW f, NextFrame(f), TakeFrame(f), Held(f.ev)',
           \A e \in Events : Held(e) => Held(e)',
           \A k \in 1..Len(routed) : Held(routed[k])' => Held(routed[k]) \/ k <= f.seq
    PROVE  NotOvertaken' /\ WireOrder'
<1>1. PICK d \in {0, 1} :
        /\ Len(toDevice') = Len(toDevice) - d
        /\ \A i \in 1..Len(toDevice') :
              i + d \in 1..Len(toDevice) /\ toDevice'[i] \subseteq toDevice[i + d]
        /\ \A j \in 1..Len(toDevice) : \A g \in toDevice[j] :
              g = f \/ (j - d \in 1..Len(toDevice') /\ g \in toDevice'[j - d])
  BY TakeShape
<1>2. f \in Row /\ \A y \in Row : Coming(y) /\ y.seq < f.seq => Held(y.ev)
  BY NextFrameOrder
<1>3. \A y \in Row : Held(y.ev) => Held(y.ev)'
  BY DEF Row
<1>4. PendingRows(queue)' = PendingRows(queue)
  BY DEF PendingRows
<1>5. \A y : Coming(y)' => Coming(y)
  BY <1>1, <1>4 DEF Coming
<1>6. NotOvertaken'
  <2>1. SUFFICES ASSUME NEW y \in Row, Coming(y)', NEW k \in 1..Len(routed),
                        y.seq < k, Held(routed[k])'
                 PROVE  Held(y.ev)'
    BY DEF NotOvertaken
  <2>2. CASE Held(routed[k])
    BY <1>3, <1>5, <2>1, <2>2 DEF NotOvertaken
  <2>3. CASE k <= f.seq
    <3>1. y.seq < f.seq
      BY <1>2, <2>1, <2>3, Histories DEF Row
    <3>2. QED
      BY <1>2, <1>3, <1>5, <2>1, <3>1
  <2>4. QED
    BY <2>1, <2>2, <2>3
<1>7. WireOrder'
  <2>1. SUFFICES ASSUME NEW i \in 1..Len(toDevice'), NEW x \in toDevice'[i], NEW y \in Row,
                        Coming(y)', y.seq < x.seq
                 PROVE  Held(y.ev)' \/ \E j \in 1..i : y \in toDevice'[j]
    BY DEF WireOrder
  <2>2. i + d \in 1..Len(toDevice) /\ x \in toDevice[i + d] /\ Coming(y)
    BY <1>1, <1>5, <2>1
  <2>3. Held(y.ev) \/ \E j \in 1..(i + d) : y \in toDevice[j]
    BY <2>1, <2>2 DEF WireOrder
  <2>4. CASE Held(y.ev) \/ y = f
    BY <1>3, <2>4
  <2>5. ASSUME NEW j \in 1..(i + d), y \in toDevice[j], y # f
        PROVE  \E j2 \in 1..i : y \in toDevice'[j2]
    <3>1. j \in 1..Len(toDevice)
      BY <2>2, Histories
    <3>2. j - d \in 1..Len(toDevice') /\ y \in toDevice'[j - d]
      BY <1>1, <2>5, <3>1
    <3>3. j - d \in 1..i
      BY <3>2
    <3>4. QED
      BY <3>2, <3>3
  <2>6. QED
    BY <2>3, <2>4, <2>5
<1>8. QED
  BY <1>6, <1>7

\* deliverPending sends all live rows, the new one among them, behind what is on
\* the wire.
LEMMA DeliverOrder ==
    ASSUME TypeOK, TypeOK', AllHonest, NotOvertaken, WireOrder, expired' = expired,
           \A e \in Events : Held(e)' <=> Held(e),
           Len(routed) <= Len(routed'), \A k \in 1..Len(routed) : routed'[k] = routed[k],
           \A k \in 1..Len(routed') : Held(routed[k])' => k \in 1..Len(routed),
           \A r \in queue' : r \in queue \/ r.seq > Len(routed),
           NEW s, toDevice' = Deliver(s, queue', toDevice)
    PROVE  NotOvertaken' /\ WireOrder'
<1>1. /\ toDevice \in Seq(SUBSET Row) /\ Len(toDevice) \in Nat /\ Len(routed) \in Nat
      /\ \A k \in 1..Len(routed) : routed[k] \in Events
  BY Histories DEF TypeOK
<1>2. PendingRows(queue)' = PendingRows(queue') /\ PendingRows(queue') \in SUBSET Row
  BY DEF PendingRows, TypeOK
<1>3. /\ Len(toDevice') \in {Len(toDevice), Len(toDevice) + 1}
      /\ \A i \in 1..Len(toDevice) : toDevice'[i] = toDevice[i]
      /\ Len(toDevice') = Len(toDevice) + 1 =>
            toDevice'[Len(toDevice) + 1] = PendingRows(queue')
  <2>1. toDevice' = toDevice \/ toDevice' = Append(toDevice, PendingRows(queue'))
    BY DEF Deliver
  <2> DEFINE P == PendingRows(queue')
  <2> HIDE DEF P
  <2>2. toDevice' = toDevice \/ toDevice' = Append(toDevice, P)
    BY <2>1 DEF P
  <2>3. P \in SUBSET Row
    BY <1>2 DEF P
  <2>4. /\ Len(toDevice') \in {Len(toDevice), Len(toDevice) + 1}
        /\ \A i \in 1..Len(toDevice) : toDevice'[i] = toDevice[i]
        /\ Len(toDevice') = Len(toDevice) + 1 => toDevice'[Len(toDevice) + 1] = P
    BY <1>1, <2>2, <2>3
  <2>5. QED
    BY <2>4 DEF P
<1>4. \A y : Coming(y)' =>
          y \in PendingRows(queue') \/ \E i \in 1..Len(toDevice) : y \in toDevice[i]
  <2>1. SUFFICES ASSUME NEW y, NEW i \in 1..Len(toDevice'), y \in toDevice'[i]
                 PROVE  y \in PendingRows(queue') \/ \E j \in 1..Len(toDevice) : y \in toDevice[j]
    BY <1>2 DEF Coming
  <2>2. i \in 1..Len(toDevice) \/ (i = Len(toDevice) + 1 /\ Len(toDevice') = Len(toDevice) + 1)
    BY <1>1, <1>3
  <2>3. QED
    BY <1>3, <2>1, <2>2
<1>5. \A y : y \in PendingRows(queue') => y \in PendingRows(queue) \/ y.seq > Len(routed)
  BY DEF PendingRows
<1>6. \A y : Coming(y)' => Coming(y) \/ y.seq > Len(routed)
  BY <1>4, <1>5 DEF Coming
<1>7. \A y \in Row : y.seq \in Nat /\ (Held(y.ev)' <=> Held(y.ev))
  BY DEF Row
<1>8. NotOvertaken'
  <2>1. SUFFICES ASSUME NEW y \in Row, Coming(y)', NEW k \in 1..Len(routed'),
                        y.seq < k, Held(routed[k])'
                 PROVE  Held(y.ev)'
    BY DEF NotOvertaken
  <2>2. k \in 1..Len(routed) /\ routed'[k] = routed[k] /\ routed[k] \in Events
    BY <1>1, <2>1
  <2>3. Held(routed[k])
    BY <2>1, <2>2
  <2>4. Coming(y)
    BY <1>1, <1>6, <1>7, <2>1, <2>2
  <2>5. QED
    BY <1>7, <2>1, <2>2, <2>3, <2>4 DEF NotOvertaken
<1>9. WireOrder'
  <2>1. SUFFICES ASSUME NEW i \in 1..Len(toDevice'), NEW x \in toDevice'[i], NEW y \in Row,
                        Coming(y)', y.seq < x.seq
                 PROVE  Held(y.ev)' \/ \E j \in 1..i : y \in toDevice'[j]
    BY DEF WireOrder
  <2>2. CASE i \in 1..Len(toDevice)
    <3>1. x \in toDevice[i] /\ x.seq \in 1..Len(routed)
      BY <1>3, <2>1, <2>2 DEF AllHonest, Honest
    <3>2. Coming(y)
      BY <1>1, <1>6, <1>7, <2>1, <3>1
    <3>3. Held(y.ev) \/ \E j \in 1..i : y \in toDevice[j]
      BY <2>1, <2>2, <3>1, <3>2 DEF WireOrder
    <3>4. \A j \in 1..i : j \in 1..Len(toDevice)
      BY <1>1, <2>2
    <3>5. QED
      BY <1>3, <1>7, <3>3, <3>4
  <2>3. CASE i \notin 1..Len(toDevice)
    <3>1. i = Len(toDevice) + 1 /\ toDevice'[i] = PendingRows(queue')
      BY <1>1, <1>3, <2>1, <2>3
    <3>2. \A j \in 1..Len(toDevice) : j \in 1..i
      BY <1>1, <3>1
    <3>3. i \in 1..i
      BY <1>1, <3>1
    <3>4. QED
      BY <1>3, <1>4, <2>1, <3>1, <3>2, <3>3
  <2>4. QED
    BY <2>2, <2>3
<1>10. QED
  BY <1>8, <1>9

\* deliverOrNotify: the new event comes after everything that was routed.
LEMMA EnqueueKeepsOrder ==
    ASSUME TInv, TInv', Parts, Order, NEW e \in Events, Enqueue(e)
    PROVE  Order'
<1>1. /\ TypeOK /\ TypeOK' /\ routed \in Seq(Events) /\ Len(routed) \in Nat
      /\ AllHonest /\ nextSeq = Len(routed) + 1
  BY Histories DEF TInv, Parts
<1>2. UNCHANGED <<expired, inbox, dispatched, pc, frame, lastAcked, disk>>
  BY DEF Enqueue, deviceVars
<1>3. /\ Len(routed') = Len(routed) + 1 /\ routed'[Len(routed) + 1] = e
      /\ \A k \in 1..Len(routed) : routed'[k] = routed[k]
  BY <1>1 DEF Enqueue
<1>4. \A x : Held(x)' <=> Held(x)
  BY <1>2 DEF Held
<1>5. e \notin RangeOf(routed)
  BY DEF Enqueue
<1>6. ~ Held(e)
  <2>1. e \notin EvsOf(inbox)
    BY <1>1, <1>5 DEF AllHonest, Honest, EvsOf, RangeOf
  <2>2. e \notin RangeOf(dispatched)
    BY <1>5 DEF Order, DispatchedRouted
  <2>3. QED
    BY <2>1, <2>2 DEF Held
<1>7. \A k \in 1..Len(routed') : k \in 1..Len(routed) \/ (k = Len(routed) + 1 /\ routed'[k] = e)
  BY <1>1, <1>3
<1>8. \A k \in 1..Len(routed') : Held(routed[k])' => k \in 1..Len(routed)
  BY <1>4, <1>6, <1>7
<1>9. NotOvertaken' /\ WireOrder'
  <2>1. \A r \in queue' : r \in queue \/ r.seq > Len(routed)
    BY <1>1 DEF Enqueue
  <2>2. toDevice' = Deliver(reg, queue', toDevice)
    BY DEF Enqueue
  <2>3. Len(routed) <= Len(routed')
    BY <1>1, <1>3
  <2>4. QED
    BY <1>1, <1>2, <1>3, <1>4, <1>8, <2>1, <2>2, <2>3, DeliverOrder DEF Order
<1>10. RoutedOnce'
  BY <1>3, <1>5, <1>7 DEF Order, RoutedOnce, RangeOf
<1>11. InboxIsFrame'
  BY <1>2 DEF Order, InboxIsFrame
<1>12. MarksHeld'
  <2>1. lastAcked \in 0..Len(routed) /\ disk \in 0..Len(routed)
    BY DEF Parts, MarksBelow, Below
  <2>2. QED
    BY <1>1, <1>2, <1>3, <1>4, <2>1 DEF Order, MarksHeld, HeldMark
<1>13. e \notin RangeOf(dispatched)
  BY <1>6 DEF Held
<1>14. InboxLast'
  BY <1>2, <1>3, <1>7, <1>13 DEF Order, InboxLast
<1>15. DispatchedRouted' /\ FirstDispatch'
  <2>1. RangeOf(routed) \subseteq RangeOf(routed')
    BY <1>1, RangeAppend DEF Enqueue
  <2>2. QED
    BY <1>2, <2>1 DEF Order, DispatchedRouted, FirstDispatch
<1>16. EarlierFirst'
  <2>1. SUFFICES ASSUME NEW i \in 1..Len(routed'), NEW j \in 1..Len(routed'),
                        NEW q \in 1..Len(dispatched), i < j, dispatched[q] = routed'[j],
                        routed'[i] \in RangeOf(dispatched)
                 PROVE  \E p \in 1..(q - 1) : dispatched[p] = routed'[i]
    BY <1>2 DEF EarlierFirst
  <2>2. i \in 1..Len(routed) /\ j \in 1..Len(routed)
    BY <1>7, <1>13, <2>1 DEF RangeOf
  <2>3. QED
    BY <1>3, <2>1, <2>2 DEF Order, EarlierFirst
<1>17. QED
  BY <1>9, <1>10, <1>11, <1>12, <1>14, <1>15, <1>16 DEF Order

\* handleHello: what is left of the queue is delivered; the counter needs no repair.
LEMMA HelloKeepsOrder ==
    ASSUME TInv, TInv', Parts, Order, NEW h \in hellos, HandleHello(h)
    PROVE  Order'
<1>1. /\ TypeOK /\ TypeOK' /\ AllHonest /\ Len(routed) \in Nat
      /\ \A k \in 1..Len(routed) : routed[k] \in Events
  BY Histories DEF TInv, Parts
<1>2. UNCHANGED <<expired, inbox, dispatched, routed, pc, frame, lastAcked, disk>>
  BY DEF HandleHello, deviceVars
<1>3. queue' \subseteq queue
  <2>1. h.acked \in 0..Len(routed) /\ nextSeq = Len(routed) + 1
    BY DEF Parts, MarksBelow, Below
  <2>2. nextSeq > h.acked
    BY <1>1, <2>1
  <2>3. ReconcileSeq(queue, nextSeq, h.acked).queue = queue
    BY <2>2 DEF ReconcileSeq
  <2>4. QED
    BY <2>3 DEF HandleHello, PurgeAcked
<1>4. \A x : Held(x)' <=> Held(x)
  BY <1>2 DEF Held
<1>5. NotOvertaken' /\ WireOrder'
  <2>1. toDevice' = Deliver(h.sock, queue', toDevice)
    BY DEF HandleHello
  <2>2. /\ Len(routed) <= Len(routed') /\ \A k \in 1..Len(routed) : routed'[k] = routed[k]
        /\ \A k \in 1..Len(routed') : Held(routed[k])' => k \in 1..Len(routed)
    BY <1>1, <1>2
  <2>3. QED
    BY <1>1, <1>2, <1>3, <1>4, <2>1, <2>2, DeliverOrder DEF Order
<1>6. InboxLast' /\ DispatchedRouted' /\ FirstDispatch' /\ EarlierFirst'
  BY <1>1, <1>2, PastCarries DEF Order
<1>7. RoutedOnce' /\ InboxIsFrame' /\ MarksHeld'
  BY <1>2, <1>4 DEF Order, RoutedOnce, InboxIsFrame, MarksHeld, HeldMark
<1>8. QED
  BY <1>5, <1>6, <1>7 DEF Order

\* A duplicate is held: it is at the mark or was not overtaken by it.
LEMMA OnDuplicateKeepsOrder ==
    ASSUME TInv, TInv', Parts, Order, NEW f, OnDuplicate(f)
    PROVE  Order'
<1>1. /\ TypeOK /\ AllHonest /\ NoGap /\ Len(routed) \in Nat /\ lastAcked \in 0..Len(routed)
      /\ NotOvertaken /\ WireOrder
  BY Histories DEF TInv, Parts, MarksBelow, Below, Order
<1>2. /\ UNCHANGED <<queue, expired, routed, inbox, dispatched, pc, frame, lastAcked, disk>>
      /\ NextFrame(f) /\ TakeFrame(f)
  BY DEF OnDuplicate, routerVars, deviceVars
<1>3. f \in Row /\ Coming(f) /\ f.seq \in 1..Len(routed) /\ f.ev = routed[f.seq]
  BY <1>1, <1>2, NextFrameOrder, NextFramePrefix
<1>4. ~ (f.seq > lastAcked)
  BY Zenon DEF OnDuplicate, IsNew
<1>5. lastAcked \in 1..Len(routed) /\ (f.seq = lastAcked \/ f.seq < lastAcked)
  BY <1>1, <1>3, <1>4
<1>6. Held(routed[lastAcked])
  BY <1>1, <1>5 DEF Order, MarksHeld, HeldMark
<1>7. Held(f.ev)
  BY <1>1, <1>3, <1>5, <1>6 DEF NotOvertaken
<1>8. \A e : Held(e)' <=> Held(e)
  BY <1>2 DEF Held
<1>9. NotOvertaken' /\ WireOrder'
  BY <1>1, <1>2, <1>7, <1>8, TakeOrder
<1>10. InboxLast' /\ DispatchedRouted' /\ FirstDispatch' /\ EarlierFirst'
  BY <1>1, <1>2, PastCarries DEF Order
<1>11. RoutedOnce' /\ InboxIsFrame' /\ MarksHeld'
  BY <1>2, <1>8 DEF Order, RoutedOnce, InboxIsFrame, MarksHeld, HeldMark
<1>12. QED
  BY <1>9, <1>10, <1>11 DEF Order

\* A new frame: nothing lower is to come, and nothing higher was handed over
\* unless this event was.
LEMMA OnEventKeepsOrder ==
    ASSUME TInv, TInv', Parts, Order, NEW f, OnEvent(f)
    PROVE  Order'
<1>1. /\ TypeOK /\ AllHonest /\ NoGap /\ Len(routed) \in Nat /\ NotOvertaken /\ WireOrder
  BY Histories DEF TInv, Parts, Order
<1>2. /\ UNCHANGED <<queue, expired, routed, dispatched, lastAcked, disk>>
      /\ NextFrame(f) /\ TakeFrame(f) /\ pc = "idle"
      /\ inbox' = inbox \cup {f} /\ frame' = f /\ pc' = "appended"
  BY DEF OnEvent, routerVars
<1>3. f \in Row /\ Coming(f) /\ f.seq \in 1..Len(routed) /\ f.ev = routed[f.seq]
  BY <1>1, <1>2, NextFrameOrder, NextFramePrefix
<1>4. inbox = {} /\ inbox' = {f}
  BY <1>2 DEF Order, InboxIsFrame
<1>5. /\ \A e : Held(e)' <=> Held(e) \/ e = f.ev
      /\ \A e : Held(e) <=> e \in RangeOf(dispatched)
  BY <1>2, <1>4 DEF Held, EvsOf
<1>6. NotOvertaken' /\ WireOrder'
  <2>1. \A k \in 1..Len(routed) : Held(routed[k])' => Held(routed[k]) \/ k <= f.seq
    BY <1>2, <1>3, <1>5 DEF Order, RoutedOnce
  <2>2. QED
    BY <1>1, <1>2, <1>5, <2>1, TakeOrder
<1>7. InboxLast'
  <2>1. SUFFICES ASSUME f.ev \notin RangeOf(dispatched), NEW k \in 1..Len(routed), f.seq < k,
                        routed[k] \in RangeOf(dispatched)
                 PROVE  FALSE
    BY <1>2, <1>4 DEF InboxLast
  <2>2. Held(f.ev)
    BY <1>1, <1>3, <1>5, <2>1 DEF NotOvertaken
  <2>3. QED
    BY <1>5, <2>1, <2>2
<1>8. DispatchedRouted' /\ FirstDispatch' /\ EarlierFirst'
  BY <1>2 DEF Order, DispatchedRouted, FirstDispatch, EarlierFirst
<1>9. RoutedOnce' /\ InboxIsFrame' /\ MarksHeld'
  BY <1>2, <1>4, <1>5 DEF Order, RoutedOnce, InboxIsFrame, MarksHeld, HeldMark
<1>10. QED
  BY <1>6, <1>7, <1>8, <1>9 DEF Order

\* The marks take the number of the frame in the inbox.
LEMMA MarkingKeepsOrder ==
    ASSUME TInv, TInv', Parts, Order, OnEventAck \/ OnEventPersist
    PROVE  Order'
<1>1. TypeOK /\ AllHonest /\ NotOvertaken /\ WireOrder
  BY DEF TInv, Parts, Order
<1>2. /\ UNCHANGED <<queue, expired, routed, inbox, dispatched, toDevice, frame>>
      /\ lastAcked' \in {lastAcked, frame.seq} /\ disk' \in {disk, frame.seq}
      /\ pc \in {"appended", "acked"} /\ pc' \in {"acked", "persisted"}
  BY DEF OnEventAck, OnEventPersist, routerVars, wireVars
<1>3. inbox = {frame}
  BY <1>2 DEF Order, InboxIsFrame
<1>4. Held(routed[frame.seq])
  BY <1>1, <1>3 DEF AllHonest, Honest, Held, EvsOf
<1>5. \A e : Held(e)' <=> Held(e)
  BY <1>2 DEF Held
<1>6. NotOvertaken' /\ WireOrder'
  BY <1>1, <1>2, <1>5, WayCarries DEF PendingRows
<1>7. InboxLast' /\ DispatchedRouted' /\ FirstDispatch' /\ EarlierFirst'
  BY <1>1, <1>2, PastCarries DEF Order
<1>8. RoutedOnce' /\ InboxIsFrame'
  BY <1>2, <1>3 DEF Order, RoutedOnce, InboxIsFrame
<1>9. MarksHeld'
  BY <1>2, <1>4, <1>5 DEF Order, MarksHeld, HeldMark
<1>10. QED
  BY <1>6, <1>7, <1>8, <1>9 DEF Order

\* What an append to a history adds to it.
LEMMA RangeOfAppend ==
    ASSUME NEW S, NEW s \in Seq(S), NEW e \in S
    PROVE  /\ Len(Append(s, e)) = Len(s) + 1 /\ Append(s, e)[Len(s) + 1] = e
           /\ \A i \in 1..Len(s) : Append(s, e)[i] = s[i]
           /\ RangeOf(Append(s, e)) = RangeOf(s) \cup {e}
<1>1. /\ Len(Append(s, e)) = Len(s) + 1 /\ Append(s, e)[Len(s) + 1] = e
      /\ \A i \in 1..Len(s) : Append(s, e)[i] = s[i]
      /\ Len(s) \in Nat
  OBVIOUS
<1>2. \A i \in 1..(Len(s) + 1) : i \in 1..Len(s) \/ i = Len(s) + 1
  BY <1>1
<1>3. \A i \in 1..Len(s) : i \in 1..(Len(s) + 1)
  BY <1>1
<1>4. Len(s) + 1 \in 1..(Len(s) + 1)
  BY <1>1
<1>5. QED
  BY <1>1, <1>2, <1>3, <1>4 DEF RangeOf

\* The event handed over is the lowest of the inbox: whatever is dispatched for the
\* first time comes after all that was dispatched.
LEMMA EmitKeepsOrder ==
    ASSUME TInv, TInv', Parts, Order, OnEventEmit \/ ReplayEmit
    PROVE  Order'
<1>1. /\ TypeOK /\ TypeOK' /\ AllHonest /\ NotOvertaken /\ WireOrder /\ Len(routed) \in Nat
      /\ dispatched \in Seq(Events) /\ Len(dispatched) \in Nat
  BY Histories DEF TInv, Parts, Order
<1>2. /\ UNCHANGED <<queue, expired, routed, inbox, toDevice, lastAcked, disk>>
      /\ dispatched' = Append(dispatched, frame'.ev)
      /\ pc' = "replayed" \/ (pc = "persisted" /\ pc' = "emitted" /\ frame' = frame)
  BY DEF OnEventEmit, ReplayEmit, routerVars, wireVars
<1>3. frame' \in inbox /\ \A y \in inbox : frame'.seq <= y.seq
  <2>1. CASE OnEventEmit
    <3>1. inbox = {frame} /\ frame' = frame /\ frame.seq \in Nat
      BY <1>1, <2>1 DEF OnEventEmit, Order, InboxIsFrame, TypeOK, Row
    <3>2. QED
      BY <3>1
  <2>2. CASE ReplayEmit
    BY <2>2 DEF ReplayEmit
  <2>3. QED
    BY <2>1, <2>2
<1>4. PICK k \in 1..Len(routed) : k = frame'.seq /\ frame'.ev = routed[k]
  BY <1>1, <1>3 DEF AllHonest, Honest
<1>5. routed[k] \in Events
  BY <1>1, Histories
<1>6. /\ Len(dispatched') = Len(dispatched) + 1 /\ dispatched'[Len(dispatched) + 1] = routed[k]
      /\ \A q \in 1..Len(dispatched) : dispatched'[q] = dispatched[q]
      /\ RangeOf(dispatched') = RangeOf(dispatched) \cup {routed[k]}
  BY <1>1, <1>2, <1>4, <1>5, RangeOfAppend
<1>7. \A q \in 1..Len(dispatched') : q \in 1..Len(dispatched) \/ q = Len(dispatched) + 1
  BY <1>1, <1>6
<1>8. \A e : Held(e)' <=> Held(e)
  BY <1>2, <1>3, <1>4, <1>6 DEF Held, EvsOf
<1>9. NotOvertaken' /\ WireOrder'
  BY <1>1, <1>2, <1>8, WayCarries DEF PendingRows
<1>10. InboxLast'
  <2>1. SUFFICES ASSUME NEW x \in inbox, x.ev \notin RangeOf(dispatched'),
                        NEW j \in 1..Len(routed), x.seq < j, routed[j] \in RangeOf(dispatched')
                 PROVE  FALSE
    BY <1>2 DEF InboxLast
  <2>2. routed[j] = routed[k]
    BY <1>6, <2>1 DEF Order, InboxLast
  <2>3. j = k
    BY <2>2 DEF Order, RoutedOnce
  <2>4. x.seq \in Nat /\ k <= x.seq
    BY <1>1, <1>3, <1>4, <2>1 DEF TypeOK, Row
  <2>5. QED
    BY <2>1, <2>3, <2>4
<1>11. DispatchedRouted'
  BY <1>2, <1>6 DEF Order, DispatchedRouted, RangeOf
<1>12. FirstDispatch'
  <2>1. SUFFICES ASSUME NEW e \in RangeOf(dispatched')
                 PROVE  \E i \in 1..Len(dispatched') :
                           dispatched'[i] = e /\ \A j \in 1..(i - 1) : dispatched'[j] # e
    BY DEF FirstDispatch
  <2>2. CASE e \in RangeOf(dispatched)
    <3>1. PICK i \in 1..Len(dispatched) :
             dispatched[i] = e /\ \A j \in 1..(i - 1) : dispatched[j] # e
      BY <2>2 DEF Order, FirstDispatch
    <3>2. i \in 1..Len(dispatched') /\ \A j \in 1..(i - 1) : j \in 1..Len(dispatched)
      BY <1>1, <1>6
    <3>3. QED
      BY <1>6, <3>1, <3>2
  <2>3. CASE e \notin RangeOf(dispatched)
    <3>1. e = routed[k]
      BY <1>6, <2>1, <2>3
    <3>2. /\ Len(dispatched) + 1 \in 1..Len(dispatched')
          /\ \A j \in 1..((Len(dispatched) + 1) - 1) : j \in 1..Len(dispatched)
      BY <1>1, <1>6
    <3>3. \A j \in 1..Len(dispatched) : dispatched'[j] # e
      BY <1>6, <2>3 DEF RangeOf
    <3>4. QED
      BY <1>6, <3>1, <3>2, <3>3
  <2>4. QED
    BY <2>2, <2>3
<1>13. EarlierFirst'
  <2>1. SUFFICES ASSUME NEW i \in 1..Len(routed), NEW j \in 1..Len(routed),
                        NEW q \in 1..Len(dispatched'), i < j, dispatched'[q] = routed[j],
                        routed[i] \in RangeOf(dispatched')
                 PROVE  \E p \in 1..(q - 1) : dispatched'[p] = routed[i]
    BY <1>2 DEF EarlierFirst
  <2>2. CASE routed[i] \in RangeOf(dispatched)
    <3>1. CASE q \in 1..Len(dispatched)
      <4>1. PICK p \in 1..(q - 1) : dispatched[p] = routed[i]
        BY <1>6, <2>1, <2>2, <3>1 DEF Order, EarlierFirst
      <4>2. p \in 1..Len(dispatched)
        BY <1>1, <3>1
      <4>3. QED
        BY <1>6, <4>1, <4>2
    <3>2. CASE q = Len(dispatched) + 1
      <4>1. PICK p \in 1..Len(dispatched) : dispatched[p] = routed[i]
        BY <2>2 DEF RangeOf
      <4>2. p \in 1..(q - 1)
        BY <1>1, <3>2
      <4>3. QED
        BY <1>6, <4>1, <4>2
    <3>3. QED
      BY <1>7, <3>1, <3>2
  <2>3. CASE routed[i] \notin RangeOf(dispatched)
    <3>1. routed[i] = routed[k] /\ i = k
      BY <1>6, <2>1, <2>3 DEF Order, RoutedOnce
    <3>2. routed[j] \in RangeOf(dispatched)
      <4>1. routed[j] # routed[k]
        BY <2>1, <3>1 DEF Order, RoutedOnce
      <4>2. q \in 1..Len(dispatched)
        BY <1>6, <1>7, <2>1, <4>1
      <4>3. QED
        BY <1>6, <2>1, <4>2 DEF RangeOf
    <3>3. QED
      BY <1>3, <1>4, <2>1, <2>3, <3>1, <3>2 DEF Order, InboxLast
  <2>4. QED
    BY <2>2, <2>3
<1>14. RoutedOnce' /\ MarksHeld'
  BY <1>2, <1>8 DEF Order, RoutedOnce, MarksHeld, HeldMark
<1>15. InboxIsFrame'
  BY <1>2 DEF Order, InboxIsFrame
<1>16. QED
  BY <1>9, <1>10, <1>11, <1>12, <1>13, <1>14, <1>15 DEF Order

\* markInboxProcessed: the entry that goes was handed over.
LEMMA MarkProcessedKeepsOrder ==
    ASSUME TInv, TInv', Parts, Order, MarkProcessed
    PROVE  Order'
<1>1. TypeOK /\ NotOvertaken /\ WireOrder
  BY DEF TInv, Parts, Order
<1>2. /\ UNCHANGED <<queue, expired, routed, dispatched, toDevice, lastAcked, disk, frame>>
      /\ inbox' = {x \in inbox : x.seq # frame.seq}
      /\ (pc = "emitted" /\ pc' = "idle") \/ (pc = "replayed" /\ pc' = "boot")
  BY DEF MarkProcessed, routerVars, wireVars
<1>3. \A x \in inbox : x.seq = frame.seq => x.ev \in RangeOf(dispatched)
  BY <1>2 DEF Parts, Emitted, AllHonest, Honest, Busy
<1>4. \A e : Held(e)' <=> Held(e)
  BY <1>2, <1>3 DEF Held, EvsOf
<1>5. NotOvertaken' /\ WireOrder'
  BY <1>1, <1>2, <1>4, WayCarries DEF PendingRows
<1>6. InboxLast' /\ DispatchedRouted' /\ FirstDispatch' /\ EarlierFirst'
  BY <1>1, <1>2, PastCarries DEF Order
<1>7. RoutedOnce' /\ InboxIsFrame' /\ MarksHeld'
  BY <1>2, <1>4 DEF Order, RoutedOnce, InboxIsFrame, MarksHeld, HeldMark
<1>8. QED
  BY <1>5, <1>6, <1>7 DEF Order

\* One step per action of the router; a restore and an enrolment leave the premise.
LEMMA RouterKeepsOrder ==
    ASSUME TInv, TInv', Parts, Order, RouterNext, restores' = 0
    PROVE  Order'
<1>1. TypeOK /\ restores \in Nat
  BY DEF TInv, TypeOK
<1>2. ASSUME NEW e \in Events, Enqueue(e) PROVE Order'
  BY <1>2, EnqueueKeepsOrder
<1>3. CASE TtlPasses
  BY <1>1, <1>3, QuietOrder DEF TtlPasses, wireVars, deviceVars
<1>4. CASE SweepExpired
  BY <1>1, <1>4, QuietOrder DEF SweepExpired, PendingRows, wireVars, deviceVars
<1>5. ASSUME NEW h \in hellos, HandleHello(h) PROVE Order'
  BY <1>5, HelloKeepsOrder
<1>6. CASE HandleAck
  BY <1>1, <1>6, QuietOrder DEF HandleAck, AckRows, deviceVars
<1>7. CASE SocketClosed
  BY <1>1, <1>7, QuietOrder DEF SocketClosed, deviceVars
<1>8. CASE BackupFlush
  BY <1>1, <1>8, QuietOrder DEF BackupFlush, wireVars, deviceVars
<1>9. CASE RouterRestart
  BY <1>1, <1>9, QuietOrder DEF RouterRestart, deviceVars
<1>10. CASE RouterRestore \/ Reenroll
  BY <1>1, <1>10 DEF RouterRestore, Reenroll
<1>11. QED
  BY <1>2, <1>3, <1>4, <1>5, <1>6, <1>7, <1>8, <1>9, <1>10 DEF RouterNext

\* One step per action of the device.
LEMMA DeviceKeepsOrder ==
    ASSUME TInv, TInv', Parts, Order, DeviceNext
    PROVE  Order'
<1>1. TypeOK
  BY DEF TInv
<1>2. CASE Dial
  BY <1>1, <1>2, QuietOrder DEF Dial, routerVars
<1>3. CASE Disconnect
  BY <1>1, <1>3, QuietOrder DEF Disconnect, routerVars
<1>4. CASE LoseHello
  BY <1>1, <1>4, QuietOrder DEF LoseHello, routerVars, deviceVars
<1>5. ASSUME NEW b \in RangeOf(toDevice), NEW f \in b, OnDuplicate(f) PROVE Order'
  BY <1>5, OnDuplicateKeepsOrder
<1>6. ASSUME NEW b \in RangeOf(toDevice), NEW f \in b, OnEvent(f) PROVE Order'
  BY <1>6, OnEventKeepsOrder
<1>7. CASE OnEventAck \/ OnEventPersist
  BY <1>7, MarkingKeepsOrder
<1>8. CASE OnEventEmit \/ ReplayEmit
  BY <1>8, EmitKeepsOrder
<1>9. CASE MarkProcessed
  BY <1>9, MarkProcessedKeepsOrder
<1>10. CASE Start
  BY <1>1, <1>10, QuietOrder DEF Start, routerVars, wireVars
<1>11. CASE ReplayDone
  BY <1>1, <1>11, QuietOrder DEF ReplayDone, routerVars, wireVars
<1>12. CASE Crash
  BY <1>1, <1>12, QuietOrder DEF Crash, routerVars
<1>13. QED
  BY <1>2, <1>3, <1>4, <1>5, <1>6, <1>7, <1>8, <1>9, <1>10, <1>11, <1>12
  DEF DeviceNext, OnEventStep, BootStep

\* Every step keeps the order, relative to the types and to LInv.
LEMMA NextKeepsDInv ==
    ASSUME TInv, TInv', LInv, DInv, [Next]_vars
    PROVE  DInv'
<1>1. SUFFICES ASSUME restores' = 0 PROVE Order'
  BY DEF DInv
<1>2. restores = 0
  BY <1>1 DEF TInv, TypeOK, Next, RouterNext, DeviceNext, OnEventStep, BootStep, Enqueue, TtlPasses,
     SweepExpired, HandleHello, HandleAck, SocketClosed, BackupFlush, RouterRestart, RouterRestore,
     Reenroll, Dial, Disconnect, LoseHello, OnDuplicate, OnEvent, OnEventAck, OnEventPersist,
     OnEventEmit, MarkProcessed, Start, ReplayEmit, ReplayDone, Crash, vars, countVars
<1>3. Parts /\ Order
  BY <1>2 DEF LInv, Parts, DInv
<1>4. CASE UNCHANGED vars
  <2>1. /\ TypeOK /\ UNCHANGED <<routed, dispatched, inbox, expired, queue, toDevice, lastAcked,
                                 disk, pc, frame>>
    BY <1>4 DEF TInv, vars, routerVars, wireVars, deviceVars
  <2>2. QED
    BY <1>3, <2>1, QuietOrder
<1>5. QED
  BY <1>1, <1>3, <1>4, RouterKeepsOrder, DeviceKeepsOrder DEF Next

\* Nothing is routed, on the way or held at first.
LEMMA InitDInv == Init => DInv
<1>1. SUFFICES ASSUME Init PROVE Order
  BY DEF DInv
<1>2. Len(routed) = 0 /\ Len(toDevice) = 0 /\ Len(dispatched) = 0
  BY <1>1 DEF Init
<1>3. QED
  BY <1>1, <1>2 DEF Init, Order, RoutedOnce, InboxIsFrame, MarksHeld, HeldMark, NotOvertaken,
     WireOrder, Coming, PendingRows, InboxLast, DispatchedRouted, FirstDispatch, EarlierFirst,
     RangeOf

\* The order invariant holds in every reachable state.
LEMMA DInvHolds == Spec => []DInv
BY InitDInv, NextKeepsDInv, TInvHolds, LInvHolds, PTL DEF Spec

\* The consumer first sees events in the order the webhooks were routed, for any
\* number of events, drops, crashes and router restarts.
THEOREM EventsInOrder == Spec => []DispatchInOrder
<1>1. ASSUME TInv, DInv PROVE DispatchInOrder
  <2>1. SUFFICES ASSUME restores = 0, NEW i \in 1..Len(routed), NEW j \in 1..Len(routed), i < j,
                        routed[i] \in RangeOf(dispatched), routed[j] \in RangeOf(dispatched)
                 PROVE  FirstAt(routed[i]) < FirstAt(routed[j])
    BY DEF DispatchInOrder
  <2>2. Order /\ Len(dispatched) \in Nat
    BY <1>1, <2>1, Histories DEF DInv, TInv
  <2>3. ASSUME NEW e \in RangeOf(dispatched)
        PROVE  /\ FirstAt(e) \in 1..Len(dispatched) /\ dispatched[FirstAt(e)] = e
               /\ \A p \in 1..(FirstAt(e) - 1) : dispatched[p] # e
    <3>1. \E p \in 1..Len(dispatched) :
             dispatched[p] = e /\ \A q \in 1..(p - 1) : dispatched[q] # e
      BY <2>2, <2>3 DEF Order, FirstDispatch
    <3>2. QED
      BY <3>1 DEF FirstAt
  <2>4. PICK p \in 1..(FirstAt(routed[j]) - 1) : dispatched[p] = routed[i]
    BY <2>1, <2>2, <2>3 DEF Order, EarlierFirst
  <2>5. p \notin 1..(FirstAt(routed[i]) - 1)
    BY <2>1, <2>3, <2>4
  <2>6. FirstAt(routed[i]) \in Nat /\ FirstAt(routed[j]) \in Nat
    BY <2>1, <2>2, <2>3
  <2>7. QED
    BY <2>4, <2>5, <2>6
<1>2. QED
  BY <1>1, TInvHolds, DInvHolds, PTL

---------------------------------------------------------------------------
(* How often.  Dispatches that are still to come are counted with the ones    *)
(* that happened: only a crash or a rewind of the router adds one.            *)

\* A frame on its way to the device.
OnWire(f) == \E i \in 1..Len(toDevice) : f \in toDevice[i]

\* The mark by which the next frame will be judged.
Mark == IF pc \in {"appended", "acked"} THEN frame.seq ELSE disk

\* The counter is at or below the mark, or will be once the wire is read: a hello
\* may then move rows above the mark that are below it.
Rewound == Mark >= nextSeq \/ \E f \in Row : OnWire(f) /\ f.seq >= nextSeq

\* The inbox never holds a second entry.
LoneEntry ==
    /\ pc = "idle" => inbox = {}
    /\ pc \in Busy => inbox = {frame}
    /\ \A x, y \in inbox : x = y

\* The mark in memory is the one on disk but for one step of onEvent, and no hello
\* carries a higher one.
MarkSteps ==
    /\ pc \notin {"acked", "down"} => lastAcked = disk
    /\ pc = "acked" => lastAcked = frame.seq
    /\ pc \in {"appended", "acked"} => frame.seq > disk
    /\ \A h \in hellos : h.acked <= disk

\* An event has one row in a table and one number on the wire, the same while the
\* two sides share a socket.
OneRow(rows) == \A r, x \in rows : r.ev = x.ev => r = x

RowsApart ==
    /\ OneRow(queue) /\ OneRow(backup.queue)
    /\ \A f, g \in Row : OnWire(f) /\ OnWire(g) /\ f.ev = g.ev => f = g
    /\ cur # 0 /\ reg = cur => \A f \in Row : \A r \in queue : OnWire(f) /\ f.ev = r.ev => f = r

\* Only routed events are anywhere.
Known ==
    /\ EvsOf(queue) \cup EvsOf(backup.queue) \cup EvsOf(inbox) \subseteq RangeOf(routed)
    /\ RangeOf(dispatched) \subseteq RangeOf(routed)
    /\ \A f \in Row : OnWire(f) => f.ev \in RangeOf(routed)

\* The dispatches of an event that are still to come if nothing else fails: from
\* the inbox, from the wire and from the queue.
InInbox(e) == pc \notin {"emitted", "replayed"} /\ e \in EvsOf(inbox)
Wired(e) == \E f \in Row : OnWire(f) /\ f.ev = e /\ f.seq > Mark
Requeued(e) ==
    \E r \in queue : r.ev = e /\ (Rewound \/ (r.seq > Mark /\ ~ OnWire(r)))

One(b) == IF b THEN 1 ELSE 0
Owed(e) == One(InInbox(e)) + One(Wired(e)) + One(Requeued(e))

Bound == \A e \in Events : Dispatches(e) + Owed(e) <= 1 + crashes + restores

BInv == LoneEntry /\ MarkSteps /\ RowsApart /\ Known /\ Bound

\* Numbers.
LEMMA DispatchesNat ==
    ASSUME TypeOK, NEW e
    PROVE  /\ Dispatches(e) \in Nat /\ IsFiniteSet({i \in 1..Len(dispatched) : dispatched[i] = e})
           /\ Owed(e) \in Nat
<1>1. Len(dispatched) \in Nat
  BY Histories
<1>2. IsFiniteSet(1..Len(dispatched))
  BY <1>1, FS_Interval
<1>3. {i \in 1..Len(dispatched) : dispatched[i] = e} \in SUBSET (1..Len(dispatched))
  OBVIOUS
<1>4. IsFiniteSet({i \in 1..Len(dispatched) : dispatched[i] = e})
  BY <1>2, <1>3, FS_Subset
<1>5. Dispatches(e) \in Nat
  BY <1>4, FS_CardinalityType DEF Dispatches
<1>6. QED
  BY <1>4, <1>5 DEF Owed, One

\* A step that moves a dispatch that is owed from one place to another owes no more.
LEMMA OwedMoves ==
    ASSUME NEW e,
           InInbox(e)' => InInbox(e),
           Wired(e)' => Wired(e) \/ (Requeued(e) /\ ~ Requeued(e)'),
           Requeued(e)' => Requeued(e) \/ (Wired(e) /\ ~ Wired(e)')
    PROVE  Owed(e)' <= Owed(e)
BY DEF Owed, One

\* Steps that hand nothing over and owe no more keep the bound.
LEMMA BoundCarries ==
    ASSUME TypeOK, TypeOK', Bound, UNCHANGED dispatched,
           crashes <= crashes', restores <= restores',
           \A e \in Events : Owed(e)' <= Owed(e)
    PROVE  Bound'
<1>1. SUFFICES ASSUME NEW e \in Events
               PROVE  Dispatches(e)' + Owed(e)' <= 1 + crashes' + restores'
  BY DEF Bound
<1>2. Dispatches(e)' = Dispatches(e)
  BY DEF Dispatches
<1>3. Dispatches(e) \in Nat /\ Owed(e) \in Nat
  BY DispatchesNat
<1>4. Owed(e)' \in Nat
  BY DEF Owed, One
<1>5. /\ crashes \in Nat /\ restores \in Nat /\ crashes' \in Nat /\ restores' \in Nat
      /\ Dispatches(e) + Owed(e) <= 1 + crashes + restores /\ Owed(e)' <= Owed(e)
  BY <1>1 DEF TypeOK, Bound
<1>6. QED
  BY <1>2, <1>3, <1>4, <1>5

\* The router's steps that neither deliver nor enqueue nor rewind: rows may go.
LEMMA RouterQuietBound ==
    ASSUME TypeOK, TypeOK', BInv,
           UNCHANGED <<pc, frame, lastAcked, cur, disk, inbox, nextSeq, toDevice, routed,
                       dispatched, crashes, restores>>,
           queue' \subseteq queue, backup'.queue \in {backup.queue, queue},
           hellos' \subseteq hellos, reg' \in {reg, 0}
    PROVE  BInv'
<1>1. Mark' = Mark /\ \A f : OnWire(f)' <=> OnWire(f)
  BY DEF Mark, OnWire
<1>2. Rewound' <=> Rewound
  BY <1>1 DEF Rewound
<1>3. ASSUME NEW e PROVE Owed(e)' <= Owed(e)
  <2>1. InInbox(e)' <=> InInbox(e)
    BY DEF InInbox
  <2>2. Wired(e)' <=> Wired(e)
    BY <1>1 DEF Wired
  <2>3. Requeued(e)' => Requeued(e)
    BY <1>1, <1>2 DEF Requeued
  <2>4. QED
    BY <2>1, <2>2, <2>3, OwedMoves
<1>4. Bound'
  BY <1>3, BoundCarries DEF BInv, TypeOK
<1>5. LoneEntry' /\ MarkSteps'
  BY DEF BInv, LoneEntry, MarkSteps
<1>6. RowsApart'
  BY <1>1 DEF BInv, RowsApart, OneRow
<1>7. Known'
  BY <1>1 DEF BInv, Known, EvsOf
<1>8. QED
  BY <1>4, <1>5, <1>6, <1>7 DEF BInv

\* deliverPending: what it adds to the wire are live rows, on the device's socket.
LEMMA DeliverWire ==
    ASSUME TypeOK, NEW rows \in SUBSET Row, NEW s, toDevice' = Deliver(s, rows, toDevice)
    PROVE  /\ \A f : OnWire(f)' => OnWire(f) \/ (f \in rows /\ s # 0 /\ s = cur)
           /\ \A f : OnWire(f) => OnWire(f)'
           /\ s # 0 /\ s = cur => \A f \in PendingRows(rows) : OnWire(f)'
           /\ ~ (s # 0 /\ s = cur) => toDevice' = toDevice
<1>1. toDevice \in Seq(SUBSET Row) /\ Len(toDevice) \in Nat
  BY Histories DEF TypeOK
<1>2. CASE s # 0 /\ s = cur /\ PendingRows(rows) # {}
  <2> DEFINE P == PendingRows(rows)
  <2>1. P \in SUBSET rows
    BY DEF PendingRows
  <2>2. toDevice' = Append(toDevice, P)
    BY <1>2 DEF Deliver
  <2> HIDE DEF P
  <2>3. /\ Len(toDevice') = Len(toDevice) + 1 /\ toDevice'[Len(toDevice) + 1] = P
        /\ \A i \in 1..Len(toDevice) : toDevice'[i] = toDevice[i]
    BY <1>1, <2>1, <2>2
  <2>4. /\ \A i \in 1..Len(toDevice') : i \in 1..Len(toDevice) \/ i = Len(toDevice) + 1
        /\ Len(toDevice) + 1 \in 1..Len(toDevice')
        /\ \A i \in 1..Len(toDevice) : i \in 1..Len(toDevice')
    BY <1>1, <2>3
  <2>5. \A f : OnWire(f)' <=> OnWire(f) \/ f \in P
    BY <2>3, <2>4 DEF OnWire
  <2>6. QED
    BY <1>2, <2>1, <2>5 DEF P
<1>3. CASE ~ (s # 0 /\ s = cur /\ PendingRows(rows) # {})
  <2>1. toDevice' = toDevice
    BY <1>3 DEF Deliver
  <2>2. QED
    BY <1>3, <2>1 DEF OnWire
<1>4. QED
  BY <1>2, <1>3

\* On a shared socket nothing is rewound.
LEMMA SharedNotRewound ==
    ASSUME TInv, CInv, MarkSteps, cur # 0, reg = cur
    PROVE  ~ Rewound
<1>1. \A i \in 1..Len(toDevice) : SeqsBelow(toDevice[i], nextSeq)
  BY DEF CInv, MarkBelowCounter
<1>2. pc \notin {"down", "boot", "replayed"}
  BY DEF CInv, SocketsFresh
<1>3. nextSeq \in Nat
  BY DEF TInv, TypeOK
<1>4. nextSeq > lastAcked /\ (pc = "appended" => frame.seq < nextSeq)
  BY DEF CInv, MarkBelowCounter
<1>5. ~ (Mark >= nextSeq)
  BY <1>2, <1>3, <1>4 DEF MarkSteps, Mark, TInv, TypeOK, Row
<1>6. ~ \E f \in Row : OnWire(f) /\ f.seq >= nextSeq
  <2>1. SUFFICES ASSUME NEW f \in Row, OnWire(f) PROVE ~ (f.seq >= nextSeq)
    OBVIOUS
  <2>2. f.seq < nextSeq
    BY <1>1, <2>1 DEF OnWire, SeqsBelow
  <2>3. f.seq \in Nat
    BY DEF Row
  <2>4. QED
    BY <1>3, <2>2, <2>3
<1>7. QED
  BY <1>5, <1>6 DEF Rewound

\* deliverOrNotify: the new event is owed once, on the wire or in the queue.
LEMMA EnqueueBound ==
    ASSUME TInv, TInv', CInv, BInv, NEW e \in Events, Enqueue(e)
    PROVE  BInv'
<1> DEFINE new == [seq |-> nextSeq, ev |-> e]
<1>1. /\ TypeOK /\ TypeOK' /\ nextSeq \in Nat /\ new \in Row /\ new.ev = e /\ new.seq = nextSeq
      /\ queue \in SUBSET Row /\ queue' \in SUBSET Row /\ routed \in Seq(Events)
  BY DEF TInv, TypeOK, Row
<1>2. /\ queue' = queue \cup {new} /\ nextSeq' = nextSeq + 1 /\ e \notin RangeOf(routed)
      /\ routed' = Append(routed, e) /\ toDevice' = Deliver(reg, queue', toDevice)
      /\ UNCHANGED <<backup, expired, reg, hellos, pc, frame, lastAcked, cur, disk, inbox,
                     dispatched, crashes, restores>>
  BY DEF Enqueue, deviceVars, countVars
<1> HIDE DEF new
<1>3. /\ \A f : OnWire(f)' => OnWire(f) \/ (f \in queue' /\ reg # 0 /\ reg = cur)
      /\ \A f : OnWire(f) => OnWire(f)'
      /\ reg # 0 /\ reg = cur => \A f \in PendingRows(queue') : OnWire(f)'
      /\ ~ (reg # 0 /\ reg = cur) => toDevice' = toDevice
  <2>1. /\ TypeOK /\ queue' \in SUBSET Row /\ toDevice' = Deliver(reg, queue', toDevice)
    BY <1>1, <1>2
  <2>2. QED
    BY <2>1, DeliverWire
<1>4. RangeOf(routed') = RangeOf(routed) \cup {e}
  BY <1>1, <1>2, RangeOfAppend
<1>5. /\ \A r \in queue : r.ev # e
      /\ \A f \in Row : OnWire(f) => f.ev # e
      /\ e \notin EvsOf(inbox) /\ e \notin RangeOf(dispatched)
  BY <1>2 DEF BInv, Known, EvsOf
<1>6. LoneEntry' /\ MarkSteps'
  BY <1>2 DEF BInv, LoneEntry, MarkSteps
<1>7. Known'
  BY <1>1, <1>2, <1>3, <1>4 DEF BInv, Known, EvsOf
<1>8. RowsApart'
  <2>1. OneRow(queue)' /\ OneRow(backup.queue)'
    BY <1>1, <1>2, <1>5 DEF BInv, RowsApart, OneRow
  <2>2. ASSUME NEW f \in Row, NEW r \in queue', OnWire(f)', f.ev = r.ev, cur # 0, reg = cur
        PROVE  f = r
    <3>1. CASE f \in queue'
      BY <2>1, <2>2, <3>1 DEF OneRow
    <3>2. CASE f \notin queue'
      BY <1>1, <1>2, <1>3, <1>5, <2>2, <3>2 DEF BInv, RowsApart
    <3>3. QED
      BY <3>1, <3>2
  <2>3. ASSUME NEW f \in Row, NEW g \in Row, OnWire(f)', OnWire(g)', f.ev = g.ev PROVE f = g
    <3>1. CASE OnWire(f) /\ OnWire(g)
      BY <2>3, <3>1 DEF BInv, RowsApart
    <3>2. CASE ~ (OnWire(f) /\ OnWire(g))
      <4>1. (f \in queue' \/ g \in queue') /\ reg # 0 /\ reg = cur
        BY <1>3, <2>3, <3>2
      <4>2. QED
        BY <2>2, <2>3, <4>1
    <3>3. QED
      BY <3>1, <3>2
  <2>4. QED
    BY <1>2, <2>1, <2>2, <2>3 DEF RowsApart
<1>9. Mark' = Mark
  BY <1>2 DEF Mark
<1>10. Mark \in Nat
  BY <1>1 DEF Mark, TypeOK, Row
<1>11. Rewound' => Rewound
  <2>1. CASE reg # 0 /\ reg = cur
    <3>1. CInv'
      BY EnqueueCounter
    <3>2. ~ Rewound'
      <4>1. /\ cur' # 0 /\ reg' = cur' /\ MarkSteps'
        BY <1>2, <1>6, <2>1
      <4>2. /\ nextSeq' > lastAcked' /\ (pc' = "appended" => frame'.seq < nextSeq')
            /\ \A i \in 1..Len(toDevice') : SeqsBelow(toDevice'[i], nextSeq')
            /\ pc' \notin {"down", "boot", "replayed"}
        BY <3>1, <4>1 DEF CInv, MarkBelowCounter, SocketsFresh
      <4>3. ~ (Mark' >= nextSeq')
        BY <1>1, <1>2, <4>1, <4>2 DEF MarkSteps, Mark, TypeOK, Row
      <4>4. ~ \E f \in Row : OnWire(f)' /\ f.seq >= nextSeq'
        <5>1. SUFFICES ASSUME NEW f \in Row, OnWire(f)' PROVE ~ (f.seq >= nextSeq')
          OBVIOUS
        <5>2. f.seq < nextSeq'
          BY <4>2, <5>1 DEF OnWire, SeqsBelow
        <5>3. f.seq \in Nat /\ nextSeq' \in Nat
          BY <1>1, <1>2 DEF Row
        <5>4. QED
          BY <5>2, <5>3
      <4>5. QED
        BY <4>3, <4>4 DEF Rewound
    <3>3. QED
      BY <3>2
  <2>2. CASE ~ (reg # 0 /\ reg = cur)
    <3>1. \A f : OnWire(f)' <=> OnWire(f)
      BY <1>3, <2>2 DEF OnWire
    <3>2. \A f \in Row : f.seq \in Nat
      BY DEF Row
    <3>3. QED
      BY <1>1, <1>2, <1>9, <1>10, <3>1, <3>2 DEF Rewound
  <2>3. QED
    BY <2>1, <2>2
<1>12. ASSUME NEW x, x # e PROVE Owed(x)' <= Owed(x)
  <2>1. InInbox(x)' => InInbox(x)
    BY <1>2 DEF InInbox
  <2>2. Requeued(x)' => Requeued(x)
    BY <1>1, <1>2, <1>3, <1>9, <1>11, <1>12 DEF Requeued
  <2>3. Wired(x)' => Wired(x) \/ (Requeued(x) /\ ~ Requeued(x)')
    <3>1. SUFFICES ASSUME NEW f \in Row, OnWire(f)', f.ev = x, f.seq > Mark, ~ Wired(x)
                   PROVE  Requeued(x) /\ ~ Requeued(x)'
      BY <1>9 DEF Wired
    <3>2. ~ OnWire(f)
      BY <3>1 DEF Wired
    <3>3. f \in queue /\ reg # 0 /\ reg = cur
      BY <1>1, <1>2, <1>3, <1>12, <3>1, <3>2
    <3>4. Requeued(x)
      BY <3>1, <3>2, <3>3 DEF Requeued
    <3>5. ~ Rewound'
      BY <1>11, <3>3, SharedNotRewound DEF BInv
    <3>6. \A r \in queue' : r.ev = x => r = f
      BY <1>2, <1>8, <3>1, <3>3 DEF RowsApart, OneRow
    <3>7. ~ Requeued(x)'
      BY <3>1, <3>5, <3>6 DEF Requeued
    <3>8. QED
      BY <3>4, <3>7
  <2>4. QED
    BY <2>1, <2>2, <2>3, OwedMoves
<1>13. Dispatches(e) = 0
  <2>1. {i \in 1..Len(dispatched) : dispatched[i] = e} = {}
    BY <1>5 DEF RangeOf
  <2>2. QED
    BY <2>1, FS_EmptySet DEF Dispatches
<1>14. Owed(e)' <= 1
  <2>1. ~ InInbox(e)'
    BY <1>2, <1>5 DEF InInbox
  <2>2. ~ (Wired(e)' /\ Requeued(e)')
    <3>1. SUFFICES ASSUME NEW f \in Row, OnWire(f)', f.ev = e, NEW r \in queue', r.ev = e
                   PROVE  ~ (Rewound' \/ ~ OnWire(r)')
      BY DEF Wired, Requeued
    <3>2. f \in queue' /\ reg # 0 /\ reg = cur
      BY <1>3, <1>5, <3>1
    <3>3. f = r
      BY <1>8, <3>1, <3>2 DEF RowsApart, OneRow
    <3>4. ~ Rewound'
      BY <1>11, <3>2, SharedNotRewound DEF BInv
    <3>5. QED
      BY <3>1, <3>3, <3>4
  <2>3. QED
    BY <2>1, <2>2 DEF Owed, One
<1>15. Bound'
  <2>1. ASSUME NEW x \in Events PROVE Dispatches(x)' + Owed(x)' <= 1 + crashes' + restores'
    <3>1. /\ Dispatches(x)' = Dispatches(x) /\ crashes' = crashes /\ restores' = restores
          /\ crashes \in Nat /\ restores \in Nat
      BY <1>1, <1>2 DEF Dispatches, TypeOK
    <3>2. Dispatches(x) \in Nat /\ Owed(x) \in Nat /\ Owed(x)' \in Nat
      <4>1. Owed(x)' \in Nat
        BY DEF Owed, One
      <4>2. QED
        BY <1>1, <4>1, DispatchesNat
    <3>3. Dispatches(x) + Owed(x) <= 1 + crashes + restores
      BY <2>1 DEF BInv, Bound
    <3>4. QED
      BY <1>12, <1>13, <1>14, <3>1, <3>2, <3>3
  <2>2. QED
    BY <2>1 DEF Bound
<1>16. QED
  BY <1>6, <1>7, <1>8, <1>15 DEF BInv

\* reconcileDeviceSeq gives no event a second row and no row a new event.
LEMMA ReconcileRows ==
    ASSUME NEW rows \in SUBSET Row, OneRow(rows), NEW next \in Nat, NEW acked \in Nat
    PROVE  LET fixed == ReconcileSeq(rows, next, acked)
           IN  /\ OneRow(fixed.queue) /\ EvsOf(fixed.queue) \subseteq EvsOf(rows)
               /\ next > acked => fixed.queue = rows /\ fixed.next = next
<1> DEFINE V == {r \in PendingRows(rows) : r.seq <= acked}
           Rank(r) == Cardinality({v \in V : v.seq < r.seq})
           moved == {[seq |-> acked + 1 + Rank(r), ev |-> r.ev] : r \in V}
<1>1. CASE next > acked
  BY <1>1 DEF ReconcileSeq
<1>2. CASE ~ (next > acked)
  <2>1. ReconcileSeq(rows, next, acked).queue = (rows \ V) \cup moved
    BY <1>2 DEF ReconcileSeq
  <2>2. V \subseteq rows
    BY DEF PendingRows
  <2> HIDE DEF V, Rank
  <2>3. \A y \in moved : \E r \in V : y.ev = r.ev
    OBVIOUS
  <2>4. \A y, z \in moved : y.ev = z.ev => y = z
    <3>1. SUFFICES ASSUME NEW r \in V, NEW x \in V, r.ev = x.ev
                   PROVE  [seq |-> acked + 1 + Rank(r), ev |-> r.ev]
                            = [seq |-> acked + 1 + Rank(x), ev |-> x.ev]
      OBVIOUS
    <3>2. r = x
      BY <2>2, <3>1 DEF OneRow
    <3>3. QED
      BY <3>2
  <2> HIDE DEF moved
  <2>5. OneRow((rows \ V) \cup moved)
    BY <2>2, <2>3, <2>4 DEF OneRow
  <2>6. EvsOf((rows \ V) \cup moved) \subseteq EvsOf(rows)
    BY <2>2, <2>3 DEF EvsOf
  <2>7. QED
    BY <1>2, <2>1, <2>5, <2>6
<1>3. QED
  BY <1>1, <1>2

\* A hello on the device's socket finds the wire empty and delivers every live row
\* above the mark once; one on a socket the device has left delivers nothing.
LEMMA HelloBound ==
    ASSUME TInv, TInv', CInv, BInv, NEW h \in hellos, HandleHello(h)
    PROVE  BInv'
<1> DEFINE fixed == ReconcileSeq(queue, nextSeq, h.acked)
<1>1. /\ TypeOK /\ TypeOK' /\ nextSeq \in Nat /\ h.acked \in Nat /\ h.sock \in Nat
      /\ IsFiniteSet(queue) /\ queue \in SUBSET Row /\ queue' \in SUBSET Row
  BY DEF TInv, TypeOK, FiniteQueues, Hello
<1>2. /\ hellos' = hellos \ {h} /\ reg' = h.sock /\ nextSeq' = fixed.next
      /\ queue' = PurgeAcked(fixed.queue, h.acked) /\ queue' \subseteq fixed.queue
      /\ toDevice' = Deliver(h.sock, queue', toDevice)
      /\ UNCHANGED <<backup, expired, pc, frame, lastAcked, cur, disk, inbox, routed,
                     dispatched, crashes, restores>>
  BY DEF HandleHello, PurgeAcked, deviceVars, countVars
<1>3. /\ OneRow(fixed.queue) /\ EvsOf(fixed.queue) \subseteq EvsOf(queue)
      /\ nextSeq > h.acked => fixed.queue = queue /\ fixed.next = nextSeq
  BY <1>1, ReconcileRows DEF BInv, RowsApart
<1>4. SeqsBelow(fixed.queue, fixed.next) /\ fixed.next > h.acked /\ fixed.next \in Nat
  BY <1>1, ReconcileSeqs, ReconcileType DEF CInv, SeqsIssued
<1> HIDE DEF fixed
<1>5. /\ \A f : OnWire(f)' => OnWire(f) \/ (f \in queue' /\ h.sock # 0 /\ h.sock = cur)
      /\ \A f : OnWire(f) => OnWire(f)'
      /\ h.sock # 0 /\ h.sock = cur => \A f \in PendingRows(queue') : OnWire(f)'
      /\ ~ (h.sock # 0 /\ h.sock = cur) => toDevice' = toDevice
  <2>1. /\ TypeOK /\ queue' \in SUBSET Row /\ toDevice' = Deliver(h.sock, queue', toDevice)
    BY <1>1, <1>2
  <2>2. QED
    BY <2>1, DeliverWire
<1>6. OneRow(queue') /\ EvsOf(queue') \subseteq EvsOf(queue)
  BY <1>2, <1>3 DEF OneRow, EvsOf
<1>7. LoneEntry' /\ MarkSteps'
  BY <1>2 DEF BInv, LoneEntry, MarkSteps
<1>8. Mark' = Mark /\ h.acked <= disk /\ disk <= Mark /\ Mark \in Nat
  BY <1>1, <1>2 DEF BInv, MarkSteps, Mark, TypeOK, Row
<1>9. \A e : InInbox(e)' <=> InInbox(e)
  BY <1>2 DEF InInbox
<1>10. CASE h.sock # 0 /\ h.sock = cur
  <2>1. /\ toDevice = <<>> /\ pc = "idle" /\ h.acked = lastAcked
    BY <1>10 DEF CInv, HelloCurrent
  <2>2. /\ h.acked = Mark
    BY <2>1 DEF BInv, MarkSteps, Mark
  <2>3. \A f : ~ OnWire(f)
    BY <2>1 DEF OnWire
  <2>4. \A f : OnWire(f)' => f \in queue'
    BY <1>5, <2>3
  <2>5. ~ Rewound'
    <3>1. ~ (Mark' >= nextSeq')
      BY <1>2, <1>4, <1>8, <2>2
    <3>2. ASSUME NEW f \in Row, OnWire(f)' PROVE ~ (f.seq >= nextSeq')
      <4>1. f.seq < nextSeq' /\ f.seq \in Nat /\ nextSeq' \in Nat
        BY <1>2, <1>4, <2>4, <3>2 DEF SeqsBelow, Row
      <4>2. QED
        BY <4>1
    <3>3. QED
      BY <3>1, <3>2 DEF Rewound
  <2>6. RowsApart'
    BY <1>2, <1>6, <2>4 DEF BInv, RowsApart, OneRow
  <2>7. Known'
    BY <1>2, <1>6, <2>4 DEF BInv, Known, EvsOf
  <2>8. ASSUME NEW e PROVE Owed(e)' <= Owed(e)
    <3>1. ASSUME NEW r \in queue', r.ev = e, r.seq > Mark PROVE Requeued(e)
      <4>1. CASE nextSeq > h.acked
        BY <1>2, <1>3, <2>3, <3>1, <4>1 DEF Requeued
      <4>2. CASE ~ (nextSeq > h.acked)
        <5>1. Rewound
          BY <1>1, <1>8, <2>2, <4>2 DEF Rewound
        <5>2. e \in EvsOf(queue)
          BY <1>6, <3>1 DEF EvsOf
        <5>3. QED
          BY <5>1, <5>2 DEF Requeued, EvsOf
      <4>3. QED
        BY <4>1, <4>2
    <3>2. Wired(e)' => Requeued(e)
      BY <1>8, <2>4, <3>1 DEF Wired
    <3>3. Requeued(e)' => Requeued(e)
      BY <1>8, <2>5, <3>1 DEF Requeued
    <3>4. ~ (Wired(e)' /\ Requeued(e)')
      <4>1. SUFFICES ASSUME NEW f \in queue', OnWire(f)', f.ev = e, NEW r \in queue', r.ev = e
                     PROVE  OnWire(r)'
        BY <2>4, <2>5 DEF Wired, Requeued
      <4>2. QED
        BY <1>6, <4>1 DEF OneRow
    <3>5. QED
      BY <1>9, <3>2, <3>3, <3>4, OwedMoves
  <2>9. Bound'
    BY <1>1, <1>2, <2>8, BoundCarries DEF BInv, TypeOK
  <2>10. QED
    BY <1>7, <2>6, <2>7, <2>9 DEF BInv
<1>11. CASE ~ (h.sock # 0 /\ h.sock = cur)
  <2>1. toDevice' = toDevice
    BY <1>5, <1>11
  <2>2. \A f : OnWire(f)' <=> OnWire(f)
    BY <2>1 DEF OnWire
  <2>3. RowsApart'
    BY <1>2, <1>6, <1>11, <2>2 DEF BInv, RowsApart, OneRow
  <2>4. Known'
    BY <1>2, <1>6, <2>2 DEF BInv, Known, EvsOf
  <2>5. ASSUME NEW e PROVE Owed(e)' <= Owed(e)
    <3>1. Wired(e)' <=> Wired(e)
      BY <1>8, <2>2 DEF Wired
    <3>2. Requeued(e)' => Requeued(e)
      <4>1. CASE nextSeq > h.acked
        <5>1. queue' \subseteq queue /\ nextSeq' = nextSeq
          BY <1>2, <1>3, <4>1
        <5>2. Rewound' <=> Rewound
          BY <1>8, <2>2, <5>1 DEF Rewound
        <5>3. QED
          BY <1>8, <2>2, <5>1, <5>2 DEF Requeued
      <4>2. CASE ~ (nextSeq > h.acked)
        <5>1. Rewound
          <6>1. disk \in Nat
            BY <1>1 DEF TypeOK
          <6>2. Mark >= nextSeq
            BY <1>1, <1>8, <4>2, <6>1
          <6>3. QED
            BY <6>2 DEF Rewound
        <5>2. Requeued(e)' => e \in EvsOf(queue)
          BY <1>6 DEF Requeued, EvsOf
        <5>3. QED
          BY <5>1, <5>2 DEF Requeued, EvsOf
      <4>3. QED
        BY <4>1, <4>2
    <3>3. QED
      BY <1>9, <3>1, <3>2, OwedMoves
  <2>6. Bound'
    BY <1>1, <1>2, <2>5, BoundCarries DEF BInv, TypeOK
  <2>7. QED
    BY <1>7, <2>3, <2>4, <2>6 DEF BInv
<1>12. QED
  BY <1>10, <1>11

\* Steps that hand nothing over may owe one dispatch more if they count as a failure.
LEMMA FailureBound ==
    ASSUME TypeOK, TypeOK', Bound, UNCHANGED dispatched,
           \/ crashes' = crashes + 1 /\ restores' = restores
           \/ crashes' = crashes /\ restores' = restores + 1,
           \A e \in Events : Owed(e)' <= Owed(e) + 1
    PROVE  Bound'
<1>1. SUFFICES ASSUME NEW e \in Events
               PROVE  Dispatches(e)' + Owed(e)' <= 1 + crashes' + restores'
  BY DEF Bound
<1>2. Dispatches(e)' = Dispatches(e)
  BY DEF Dispatches
<1>3. Dispatches(e) \in Nat /\ Owed(e) \in Nat
  BY DispatchesNat
<1>4. Owed(e)' \in Nat
  BY DEF Owed, One
<1>5. /\ crashes \in Nat /\ restores \in Nat /\ crashes' \in Nat /\ restores' \in Nat
      /\ Dispatches(e) + Owed(e) <= 1 + crashes + restores /\ Owed(e)' <= Owed(e) + 1
  BY <1>1 DEF TypeOK, Bound
<1>6. QED
  BY <1>2, <1>3, <1>4, <1>5

\* A restore may bring back a row of an event the device has: one more dispatch.
LEMMA RestoreBound ==
    ASSUME TypeOK, TypeOK', BInv, RouterRestore
    PROVE  BInv'
<1>1. /\ restores' = restores + 1 /\ queue' = backup.queue /\ reg' = 0 /\ hellos' = {}
      /\ UNCHANGED <<backup, toDevice, pc, frame, lastAcked, cur, disk, inbox, routed,
                     dispatched, crashes>>
  BY DEF RouterRestore, deviceVars
<1>2. Mark' = Mark /\ \A f : OnWire(f)' <=> OnWire(f)
  BY <1>1 DEF Mark, OnWire
<1>3. ASSUME NEW e PROVE Owed(e)' <= Owed(e) + 1
  <2>1. InInbox(e)' <=> InInbox(e)
    BY <1>1 DEF InInbox
  <2>2. Wired(e)' <=> Wired(e)
    BY <1>2 DEF Wired
  <2>3. QED
    BY <2>1, <2>2 DEF Owed, One
<1>5. Bound'
  BY <1>1, <1>3, FailureBound DEF BInv
<1>6. LoneEntry' /\ MarkSteps'
  BY <1>1 DEF BInv, LoneEntry, MarkSteps
<1>7. RowsApart'
  BY <1>1, <1>2 DEF BInv, RowsApart, OneRow
<1>8. Known'
  BY <1>1, <1>2 DEF BInv, Known, EvsOf
<1>9. QED
  BY <1>5, <1>6, <1>7, <1>8 DEF BInv

\* A new enrolment empties the queue and the wire; the restarted worker may replay
\* its inbox entry a second time.
LEMMA ReenrollBound ==
    ASSUME TypeOK, TypeOK', BInv, Reenroll
    PROVE  BInv'
<1>1. /\ restores' = restores + 1 /\ queue' = {} /\ backup'.queue = {} /\ reg' = 0
      /\ hellos' = {} /\ toDevice' = <<>> /\ pc' = "down" /\ cur' = 0
      /\ UNCHANGED <<frame, lastAcked, disk, inbox, routed, dispatched, crashes>>
  BY DEF Reenroll
<1>2. \A f : ~ OnWire(f)'
  BY <1>1 DEF OnWire
<1>3. ASSUME NEW e PROVE Owed(e)' <= Owed(e) + 1
  <2>1. ~ Wired(e)' /\ ~ Requeued(e)'
    BY <1>1, <1>2 DEF Wired, Requeued
  <2>2. QED
    BY <2>1 DEF Owed, One
<1>5. Bound'
  BY <1>1, <1>3, FailureBound DEF BInv
<1>6. LoneEntry' /\ MarkSteps'
  BY <1>1 DEF BInv, LoneEntry, MarkSteps, Busy
<1>7. RowsApart' /\ Known'
  BY <1>1, <1>2 DEF BInv, RowsApart, OneRow, Known, EvsOf
<1>8. QED
  BY <1>5, <1>6, <1>7 DEF BInv

\* The router's steps, one lemma or one quiet step each.
LEMMA RouterBound ==
    ASSUME TInv, TInv', CInv, BInv, RouterNext
    PROVE  BInv'
<1>1. TypeOK /\ TypeOK'
  BY DEF TInv
<1>2. CASE \E e \in Events : Enqueue(e)
  BY <1>2, EnqueueBound
<1>3. CASE \E h \in hellos : HandleHello(h)
  BY <1>3, HelloBound
<1>4. CASE RouterRestore
  BY <1>1, <1>4, RestoreBound
<1>5. CASE Reenroll
  BY <1>1, <1>5, ReenrollBound
<1>6. CASE TtlPasses
  BY <1>1, <1>6, RouterQuietBound DEF TtlPasses, wireVars, deviceVars, countVars
<1>7. CASE SweepExpired \/ HandleAck
  BY <1>1, <1>7, RouterQuietBound
     DEF SweepExpired, HandleAck, PendingRows, AckRows, wireVars, deviceVars, countVars
<1>8. CASE SocketClosed \/ RouterRestart
  BY <1>1, <1>8, RouterQuietBound DEF SocketClosed, RouterRestart, deviceVars
<1>9. CASE BackupFlush
  BY <1>1, <1>9, RouterQuietBound DEF BackupFlush, wireVars, deviceVars, countVars
<1>10. QED
  BY <1>2, <1>3, <1>4, <1>5, <1>6, <1>7, <1>8, <1>9 DEF RouterNext

\* Steps of the device that leave the wire and the mark alone and put nothing in the
\* inbox.
LEMMA DeviceQuietBound ==
    ASSUME TypeOK, TypeOK', BInv, LoneEntry', MarkSteps',
           UNCHANGED <<queue, nextSeq, backup, reg, toDevice, routed, dispatched, crashes,
                       restores>>,
           Mark' = Mark, cur' = cur \/ cur' # reg, inbox' \subseteq inbox,
           \A e \in Events : InInbox(e)' => InInbox(e)
    PROVE  BInv'
<1>1. \A f : OnWire(f)' <=> OnWire(f)
  BY DEF OnWire
<1>2. Rewound' <=> Rewound
  BY <1>1 DEF Rewound
<1>3. ASSUME NEW e \in Events PROVE Owed(e)' <= Owed(e)
  <2>1. Wired(e)' <=> Wired(e)
    BY <1>1 DEF Wired
  <2>2. Requeued(e)' <=> Requeued(e)
    BY <1>1, <1>2 DEF Requeued
  <2>3. QED
    BY <2>1, <2>2, OwedMoves
<1>4. Bound'
  BY <1>3, BoundCarries DEF BInv, TypeOK
<1>5. RowsApart'
  BY <1>1 DEF BInv, RowsApart, OneRow
<1>6. Known'
  BY <1>1 DEF BInv, Known, EvsOf
<1>7. QED
  BY <1>4, <1>5, <1>6 DEF BInv

\* What is lost with the socket was in the queue; what was not is not sent again.
LEMMA WireLost ==
    ASSUME TypeOK, UNCHANGED <<queue, nextSeq>>, toDevice' = <<>>, Mark' = Mark, NEW e
    PROVE  ~ Wired(e)' /\ (Requeued(e)' => Requeued(e) \/ Wired(e))
<1>1. \A f : ~ OnWire(f)'
  BY DEF OnWire
<1>2. Rewound' => Rewound
  BY <1>1 DEF Rewound
<1>3. ~ Wired(e)'
  BY <1>1 DEF Wired
<1>4. QED
  BY <1>1, <1>2, <1>3 DEF Requeued, Wired, TypeOK

\* A closed socket costs nothing: its frames are owed by the queue again.
LEMMA DisconnectBound ==
    ASSUME TypeOK, TypeOK', BInv, Disconnect
    PROVE  BInv'
<1>1. /\ cur' = 0 /\ toDevice' = <<>>
      /\ UNCHANGED <<queue, nextSeq, backup, reg, hellos, pc, frame, lastAcked, disk, inbox,
                     routed, dispatched, crashes, restores>>
  BY DEF Disconnect, routerVars
<1>2. Mark' = Mark
  BY <1>1 DEF Mark
<1>3. ASSUME NEW e PROVE Owed(e)' <= Owed(e)
  <2>1. InInbox(e)' <=> InInbox(e)
    BY <1>1 DEF InInbox
  <2>2. ~ Wired(e)' /\ (Requeued(e)' => Requeued(e) \/ Wired(e))
    BY <1>1, <1>2, WireLost
  <2>3. QED
    BY <2>1, <2>2, OwedMoves
<1>4. Bound'
  BY <1>1, <1>3, BoundCarries DEF BInv, TypeOK
<1>5. LoneEntry' /\ MarkSteps'
  BY <1>1 DEF BInv, LoneEntry, MarkSteps
<1>6. \A f : ~ OnWire(f)'
  BY <1>1 DEF OnWire
<1>7. RowsApart' /\ Known'
  BY <1>1, <1>6 DEF BInv, RowsApart, OneRow, Known, EvsOf
<1>8. QED
  BY <1>4, <1>5, <1>7 DEF BInv

\* A crash forgets either that the entry was handed over or that its mark moved,
\* never both.
LEMMA CrashBound ==
    ASSUME TypeOK, TypeOK', BInv, Crash
    PROVE  BInv'
<1>1. /\ crashes' = crashes + 1 /\ pc' = "down" /\ cur' = 0 /\ toDevice' = <<>>
      /\ UNCHANGED <<queue, nextSeq, backup, reg, hellos, frame, lastAcked, disk, inbox,
                     routed, dispatched, restores>>
  BY DEF Crash, routerVars
<1>2. ASSUME NEW e PROVE Owed(e)' <= Owed(e) + 1
  <2>1. CASE pc \in {"appended", "acked"}
    <3>1. InInbox(e)' => InInbox(e)
      BY <1>1, <2>1 DEF InInbox
    <3>2. ~ Wired(e)'
      BY <1>1 DEF Wired, OnWire
    <3>3. QED
      BY <3>1, <3>2 DEF Owed, One
  <2>2. CASE pc \notin {"appended", "acked"}
    <3>1. Mark' = Mark
      BY <1>1, <2>2 DEF Mark
    <3>2. ~ Wired(e)' /\ (Requeued(e)' => Requeued(e) \/ Wired(e))
      BY <1>1, <3>1, WireLost
    <3>3. QED
      BY <3>2 DEF Owed, One
  <2>3. QED
    BY <2>1, <2>2
<1>4. Bound'
  BY <1>1, <1>2, FailureBound DEF BInv
<1>5. LoneEntry' /\ MarkSteps'
  BY <1>1 DEF BInv, LoneEntry, MarkSteps, Busy
<1>6. \A f : ~ OnWire(f)'
  BY <1>1 DEF OnWire
<1>7. RowsApart' /\ Known'
  BY <1>1, <1>6 DEF BInv, RowsApart, OneRow, Known, EvsOf
<1>8. QED
  BY <1>4, <1>5, <1>7 DEF BInv

\* Taking a frame takes nothing else off the wire.
LEMMA TakeWire ==
    ASSUME TypeOK, NEW f, NextFrame(f), TakeFrame(f)
    PROVE  /\ OnWire(f) /\ f \in Row
           /\ \A g : OnWire(g)' => OnWire(g)
           /\ \A g : OnWire(g) => OnWire(g)' \/ g = f
<1>1. PICK d \in {0, 1} :
          /\ Len(toDevice') = Len(toDevice) - d
          /\ \A i \in 1..Len(toDevice') :
                i + d \in 1..Len(toDevice) /\ toDevice'[i] \subseteq toDevice[i + d]
          /\ \A j \in 1..Len(toDevice) : \A g \in toDevice[j] :
                g = f \/ (j - d \in 1..Len(toDevice') /\ g \in toDevice'[j - d])
  BY TakeShape
<1>2. toDevice \in Seq(SUBSET Row) /\ toDevice # <<>> /\ f \in Head(toDevice)
  BY DEF TypeOK, NextFrame
<1>3. 1 \in 1..Len(toDevice) /\ Head(toDevice) = toDevice[1] /\ toDevice[1] \in SUBSET Row
  BY <1>2
<1>4. OnWire(f) /\ f \in Row
  BY <1>2, <1>3 DEF OnWire
<1>5. QED
  BY <1>1, <1>4 DEF OnWire

\* A duplicate owed nothing.
LEMMA OnDuplicateBound ==
    ASSUME TypeOK, TypeOK', BInv, NEW f, OnDuplicate(f)
    PROVE  BInv'
<1>1. /\ pc = "idle" /\ ~ (f.seq > lastAcked) /\ NextFrame(f) /\ TakeFrame(f)
      /\ UNCHANGED <<queue, nextSeq, backup, reg, hellos, pc, frame, lastAcked, cur, disk,
                     inbox, routed, dispatched, crashes, restores>>
  BY DEF OnDuplicate, IsNew, routerVars, deviceVars, countVars
<1>2. /\ OnWire(f) /\ f \in Row
      /\ \A g : OnWire(g)' => OnWire(g)
      /\ \A g : OnWire(g) => OnWire(g)' \/ g = f
  BY <1>1, TakeWire
<1>3. Mark' = Mark /\ Mark = lastAcked
  BY <1>1 DEF Mark, BInv, MarkSteps
<1>4. Rewound' => Rewound
  BY <1>1, <1>2, <1>3 DEF Rewound
<1>5. ASSUME NEW e PROVE Owed(e)' <= Owed(e)
  <2>1. InInbox(e)' <=> InInbox(e)
    BY <1>1 DEF InInbox
  <2>2. Wired(e)' => Wired(e)
    BY <1>2, <1>3 DEF Wired
  <2>3. Requeued(e)' => Requeued(e)
    BY <1>1, <1>2, <1>3, <1>4 DEF Requeued
  <2>4. QED
    BY <2>1, <2>2, <2>3, OwedMoves
<1>6. Bound'
  BY <1>1, <1>5, BoundCarries DEF BInv, TypeOK
<1>7. LoneEntry' /\ MarkSteps'
  BY <1>1 DEF BInv, LoneEntry, MarkSteps
<1>8. RowsApart' /\ Known'
  BY <1>1, <1>2 DEF BInv, RowsApart, OneRow, Known, EvsOf
<1>9. QED
  BY <1>6, <1>7, <1>8 DEF BInv

\* A new frame moves from the wire to the inbox; the mark takes its copies with it.
LEMMA OnEventBound ==
    ASSUME TypeOK, TypeOK', BInv, NEW f, OnEvent(f)
    PROVE  BInv'
<1>1. /\ pc = "idle" /\ f.seq > lastAcked /\ NextFrame(f) /\ TakeFrame(f)
      /\ inbox' = inbox \cup {f} /\ frame' = f /\ pc' = "appended"
      /\ UNCHANGED <<queue, nextSeq, backup, reg, hellos, lastAcked, cur, disk,
                     routed, dispatched, crashes, restores>>
  BY DEF OnEvent, IsNew, routerVars, countVars
<1>2. /\ OnWire(f) /\ f \in Row
      /\ \A g : OnWire(g)' => OnWire(g)
      /\ \A g : OnWire(g) => OnWire(g)' \/ g = f
  BY <1>1, TakeWire
<1>3. /\ Mark' = f.seq /\ Mark = disk /\ lastAcked = disk /\ inbox' = {f} /\ inbox = {}
  BY <1>1 DEF Mark, BInv, MarkSteps, LoneEntry
<1>4. f.seq \in Nat /\ disk \in Nat /\ nextSeq \in Nat /\ \A g \in Row : g.seq \in Nat
  BY <1>2 DEF TypeOK, Row
<1>5. Rewound' => Rewound
  BY <1>1, <1>2, <1>3 DEF Rewound
<1>6. \A g \in Row : OnWire(g) /\ g.ev = f.ev => g = f
  BY <1>2 DEF BInv, RowsApart
<1>7. queue \subseteq Row
  BY DEF TypeOK
<1>8. ASSUME NEW e PROVE Owed(e)' <= Owed(e)
  <2>1. Requeued(e)' => Requeued(e)
    <3>1. SUFFICES ASSUME NEW r \in queue, r.ev = e, r.seq > f.seq, ~ OnWire(r)', ~ Rewound
                   PROVE  r.seq > disk /\ ~ OnWire(r)
      BY <1>1, <1>3, <1>5 DEF Requeued
    <3>2. r.seq \in Nat /\ r # f
      BY <1>4, <1>7, <3>1
    <3>3. QED
      BY <1>1, <1>2, <1>3, <1>4, <3>1, <3>2
  <2>2. Wired(e)' => Wired(e)
    <3>1. SUFFICES ASSUME NEW g \in Row, OnWire(g), g.ev = e, g.seq > f.seq
                   PROVE  g.seq > disk
      BY <1>2, <1>3 DEF Wired
    <3>2. QED
      BY <1>1, <1>3, <1>4, <3>1
  <2>3. CASE e = f.ev
    <3>1. Wired(e)
      BY <1>1, <1>2, <1>3, <2>3 DEF Wired
    <3>2. ~ Wired(e)'
      <4>1. SUFFICES ASSUME NEW g \in Row, OnWire(g), g.ev = e PROVE ~ (g.seq > f.seq)
        BY <1>2, <1>3 DEF Wired
      <4>2. QED
        BY <1>4, <1>6, <2>3, <4>1
    <3>3. QED
      BY <2>1, <3>1, <3>2 DEF Owed, One
  <2>4. CASE e # f.ev
    <3>1. ~ InInbox(e)'
      BY <1>3, <2>4 DEF InInbox, EvsOf
    <3>2. QED
      BY <2>1, <2>2, <3>1, OwedMoves
  <2>5. QED
    BY <2>3, <2>4
<1>9. Bound'
  BY <1>1, <1>8, BoundCarries DEF BInv, TypeOK
<1>10. LoneEntry' /\ MarkSteps'
  BY <1>1, <1>3 DEF BInv, LoneEntry, MarkSteps, Busy
<1>11. RowsApart'
  BY <1>1, <1>2 DEF BInv, RowsApart, OneRow
<1>12. Known'
  BY <1>1, <1>2, <1>3 DEF BInv, Known, EvsOf
<1>13. QED
  BY <1>9, <1>10, <1>11, <1>12 DEF BInv

\* The entry is handed over: a dispatch that was owed has happened.
LEMMA EmitBound ==
    ASSUME TypeOK, TypeOK', BInv, LoneEntry', MarkSteps', NEW x \in inbox,
           dispatched' = Append(dispatched, x.ev), InInbox(x.ev),
           pc' \in {"emitted", "replayed"}, Mark' = Mark,
           UNCHANGED <<queue, nextSeq, backup, reg, toDevice, cur, inbox, routed, crashes,
                       restores>>
    PROVE  BInv'
<1>1. x.ev \in Events /\ dispatched \in Seq(Events)
  BY DEF TypeOK, Row
<1>2. /\ Len(dispatched') = Len(dispatched) + 1 /\ dispatched'[Len(dispatched) + 1] = x.ev
      /\ \A i \in 1..Len(dispatched) : dispatched'[i] = dispatched[i]
      /\ RangeOf(dispatched') = RangeOf(dispatched) \cup {x.ev} /\ Len(dispatched) \in Nat
  BY <1>1, RangeOfAppend
<1>3. \A f : OnWire(f)' <=> OnWire(f)
  BY DEF OnWire
<1>4. Rewound' <=> Rewound
  BY <1>3 DEF Rewound
<1>5. ASSUME NEW e \in Events PROVE Dispatches(e)' + Owed(e)' <= 1 + crashes' + restores'
  <2> DEFINE D == {i \in 1..Len(dispatched) : dispatched[i] = e}
             D2 == {i \in 1..Len(dispatched') : dispatched'[i] = e}
  <2>1. Dispatches(e) \in Nat /\ Owed(e) \in Nat /\ IsFiniteSet(D)
    BY DispatchesNat
  <2>2. Owed(e)' \in Nat
    BY DEF Owed, One
  <2>3. /\ (Wired(e)' <=> Wired(e)) /\ (Requeued(e)' <=> Requeued(e)) /\ ~ InInbox(e)'
    BY <1>3, <1>4 DEF Wired, Requeued, InInbox
  <2>4. CASE e = x.ev
    <3>1. D2 = D \cup {Len(dispatched) + 1} /\ Len(dispatched) + 1 \notin D
      BY <1>2, <2>4
    <3>2. Cardinality(D2) = Cardinality(D) + 1
      BY <2>1, <3>1, FS_AddElement
    <3>3. Dispatches(e)' = Dispatches(e) + 1
      BY <3>2 DEF Dispatches
    <3>4. Owed(e) = Owed(e)' + 1
      BY <2>3, <2>4 DEF Owed, One
    <3>5. /\ crashes \in Nat /\ restores \in Nat
          /\ Dispatches(e) + Owed(e) <= 1 + crashes + restores
      BY <1>5 DEF BInv, Bound, TypeOK
    <3>6. QED
      BY <2>1, <2>2, <3>3, <3>4, <3>5
  <2>5. CASE e # x.ev
    <3>1. D2 = D
      BY <1>2, <2>5
    <3>2. Dispatches(e)' = Dispatches(e)
      BY <3>1 DEF Dispatches
    <3>3. Owed(e)' <= Owed(e)
      BY <2>3, OwedMoves
    <3>4. /\ crashes \in Nat /\ restores \in Nat
          /\ Dispatches(e) + Owed(e) <= 1 + crashes + restores
      BY <1>5 DEF BInv, Bound, TypeOK
    <3>5. QED
      BY <2>1, <2>2, <3>2, <3>3, <3>4
  <2>6. QED
    BY <2>4, <2>5
<1>6. Bound'
  BY <1>5 DEF Bound
<1>7. RowsApart'
  BY <1>3 DEF BInv, RowsApart, OneRow
<1>8. Known'
  BY <1>2, <1>3 DEF BInv, Known, EvsOf
<1>9. QED
  BY <1>6, <1>7, <1>8 DEF BInv

\* The device's steps.
LEMMA DeviceBound ==
    ASSUME TInv, TInv', CInv, BInv, DeviceNext
    PROVE  BInv'
<1>1. TypeOK /\ TypeOK'
  BY DEF TInv
<1>2. CASE Dial
  <2>1. /\ pc = "idle" /\ cur' = dials + 1
        /\ hellos' = hellos \cup {[sock |-> dials + 1, acked |-> lastAcked]}
        /\ UNCHANGED <<queue, nextSeq, backup, reg, toDevice, pc, frame, lastAcked, disk, inbox,
                       routed, dispatched, crashes, restores>>
    BY <1>2 DEF Dial, routerVars
  <2>2. reg <= dials /\ dials \in Nat /\ reg \in Nat /\ disk \in Nat
    BY <1>1 DEF CInv, SocketsFresh, TypeOK
  <2>3. cur' # reg
    BY <2>1, <2>2
  <2>4. LoneEntry' /\ MarkSteps'
    BY <2>1, <2>2 DEF BInv, LoneEntry, MarkSteps
  <2>5. Mark' = Mark /\ \A e : InInbox(e)' => InInbox(e)
    BY <2>1 DEF Mark, InInbox
  <2>6. QED
    BY <1>1, <2>1, <2>3, <2>4, <2>5, DeviceQuietBound
<1>3. CASE Disconnect
  BY <1>1, <1>3, DisconnectBound
<1>4. CASE LoseHello
  <2>1. /\ hellos' \subseteq hellos
        /\ UNCHANGED <<queue, nextSeq, backup, reg, toDevice, pc, frame, lastAcked, cur, disk,
                       inbox, routed, dispatched, crashes, restores>>
    BY <1>4 DEF LoseHello, routerVars, deviceVars, countVars
  <2>2. LoneEntry' /\ MarkSteps'
    BY <2>1 DEF BInv, LoneEntry, MarkSteps
  <2>3. Mark' = Mark /\ \A e : InInbox(e)' => InInbox(e)
    BY <2>1 DEF Mark, InInbox
  <2>4. QED
    BY <1>1, <2>1, <2>2, <2>3, DeviceQuietBound
<1>5. CASE \E b \in RangeOf(toDevice) : \E f \in b : OnDuplicate(f) \/ OnEvent(f)
  BY <1>1, <1>5, OnDuplicateBound, OnEventBound
<1>6. CASE OnEventAck
  <2>1. /\ pc = "appended" /\ lastAcked' = frame.seq /\ pc' = "acked"
        /\ UNCHANGED <<queue, nextSeq, backup, reg, hellos, toDevice, frame, cur, disk, inbox,
                       routed, dispatched, crashes, restores>>
    BY <1>6 DEF OnEventAck, routerVars, countVars
  <2>2. LoneEntry' /\ MarkSteps'
    BY <2>1 DEF BInv, LoneEntry, MarkSteps, Busy
  <2>3. Mark' = Mark /\ \A e : InInbox(e)' => InInbox(e)
    BY <2>1 DEF Mark, InInbox
  <2>4. QED
    BY <1>1, <2>1, <2>2, <2>3, DeviceQuietBound
<1>7. CASE OnEventPersist
  <2>1. /\ pc = "acked" /\ disk' = frame.seq /\ pc' = "persisted"
        /\ UNCHANGED <<queue, nextSeq, backup, reg, hellos, toDevice, frame, lastAcked, cur,
                       inbox, routed, dispatched, crashes, restores>>
    BY <1>7 DEF OnEventPersist, routerVars, wireVars, countVars
  <2>2. disk \in Nat /\ frame.seq \in Nat /\ \A h \in hellos : h.acked \in Nat
    BY <1>1, <2>1 DEF TypeOK, Row, Hello
  <2>3. LoneEntry' /\ MarkSteps'
    BY <2>1, <2>2 DEF BInv, LoneEntry, MarkSteps, Busy
  <2>4. Mark' = Mark /\ \A e : InInbox(e)' => InInbox(e)
    BY <2>1 DEF Mark, InInbox
  <2>5. QED
    BY <1>1, <2>1, <2>3, <2>4, DeviceQuietBound
<1>8. CASE OnEventEmit
  <2>1. /\ pc = "persisted" /\ dispatched' = Append(dispatched, frame.ev) /\ pc' = "emitted"
        /\ UNCHANGED <<queue, nextSeq, backup, reg, hellos, toDevice, frame, lastAcked, cur, disk,
                       inbox, routed, crashes, restores>>
    BY <1>8 DEF OnEventEmit, routerVars, wireVars, countVars
  <2>2. frame \in inbox /\ InInbox(frame.ev)
    BY <2>1 DEF BInv, LoneEntry, Busy, InInbox, EvsOf
  <2>3. LoneEntry' /\ MarkSteps' /\ Mark' = Mark
    BY <2>1 DEF BInv, LoneEntry, MarkSteps, Busy, Mark
  <2>4. QED
    BY <1>1, <2>1, <2>2, <2>3, EmitBound
<1>9. CASE MarkProcessed
  <2>1. /\ pc \in {"emitted", "replayed"} /\ inbox' = {x \in inbox : x.seq # frame.seq}
        /\ pc' \in {"idle", "boot"}
        /\ UNCHANGED <<queue, nextSeq, backup, reg, hellos, toDevice, frame, lastAcked, cur, disk,
                       routed, dispatched, crashes, restores>>
    BY <1>9 DEF MarkProcessed, routerVars, wireVars, countVars
  <2>2. inbox' = {}
    BY <2>1 DEF BInv, LoneEntry, Busy
  <2>3. LoneEntry' /\ MarkSteps'
    BY <2>1, <2>2 DEF BInv, LoneEntry, MarkSteps, Busy
  <2>4. Mark' = Mark /\ \A e : ~ InInbox(e)'
    BY <2>1, <2>2 DEF Mark, InInbox, EvsOf
  <2>5. QED
    BY <1>1, <2>1, <2>2, <2>3, <2>4, DeviceQuietBound
<1>10. CASE Start
  <2>1. /\ pc = "down" /\ lastAcked' = disk /\ pc' = "boot"
        /\ UNCHANGED <<queue, nextSeq, backup, reg, hellos, toDevice, frame, cur, disk, inbox,
                       routed, dispatched, crashes, restores>>
    BY <1>10 DEF Start, routerVars, wireVars, countVars
  <2>2. LoneEntry' /\ MarkSteps'
    BY <2>1 DEF BInv, LoneEntry, MarkSteps, Busy
  <2>3. Mark' = Mark /\ \A e : InInbox(e)' => InInbox(e)
    BY <2>1 DEF Mark, InInbox
  <2>4. QED
    BY <1>1, <2>1, <2>2, <2>3, DeviceQuietBound
<1>11. CASE ReplayEmit
  <2>1. PICK x \in inbox : frame' = x /\ dispatched' = Append(dispatched, x.ev)
    BY <1>11 DEF ReplayEmit
  <2>2. /\ pc = "boot" /\ pc' = "replayed"
        /\ UNCHANGED <<queue, nextSeq, backup, reg, hellos, toDevice, lastAcked, cur, disk,
                       inbox, routed, crashes, restores>>
    BY <1>11 DEF ReplayEmit, routerVars, wireVars, countVars
  <2>3. InInbox(x.ev)
    BY <2>1, <2>2 DEF InInbox, EvsOf
  <2>4. LoneEntry'
    BY <2>1, <2>2 DEF BInv, LoneEntry
  <2>5. MarkSteps' /\ Mark' = Mark
    BY <2>2 DEF BInv, MarkSteps, Mark
  <2>6. QED
    BY <1>1, <2>1, <2>2, <2>3, <2>4, <2>5, EmitBound
<1>12. CASE ReplayDone
  <2>1. /\ pc = "boot" /\ inbox = {} /\ pc' = "idle"
        /\ UNCHANGED <<queue, nextSeq, backup, reg, hellos, toDevice, frame, lastAcked, cur, disk,
                       inbox, routed, dispatched, crashes, restores>>
    BY <1>12 DEF ReplayDone, routerVars, wireVars, countVars
  <2>2. LoneEntry' /\ MarkSteps'
    BY <2>1 DEF BInv, LoneEntry, MarkSteps, Busy
  <2>3. Mark' = Mark /\ \A e : InInbox(e)' => InInbox(e)
    BY <2>1 DEF Mark, InInbox
  <2>4. QED
    BY <1>1, <2>1, <2>2, <2>3, DeviceQuietBound
<1>13. CASE Crash
  BY <1>1, <1>13, CrashBound
<1>14. QED
  BY <1>2, <1>3, <1>4, <1>5, <1>6, <1>7, <1>8, <1>9, <1>10, <1>11, <1>12, <1>13
     DEF DeviceNext, OnEventStep, BootStep

\* At first nothing is owed.
LEMMA InitBInv == Init => BInv
<1> SUFFICES ASSUME Init PROVE BInv
  OBVIOUS
<1>1. \A f : ~ OnWire(f)
  BY DEF Init, OnWire
<1>2. LoneEntry /\ MarkSteps /\ RowsApart
  BY <1>1 DEF Init, LoneEntry, MarkSteps, RowsApart, OneRow, Busy
<1>3. RangeOf(dispatched) = {} /\ EvsOf({}) = {}
  BY DEF Init, RangeOf, EvsOf
<1>4. Known
  BY <1>1, <1>3 DEF Init, Known
<1>5. ASSUME NEW e \in Events PROVE Dispatches(e) + Owed(e) <= 1 + crashes + restores
  <2>1. {i \in 1..Len(dispatched) : dispatched[i] = e} = {}
    BY DEF Init
  <2>2. Dispatches(e) = 0
    BY <2>1, FS_EmptySet DEF Dispatches
  <2>3. ~ InInbox(e) /\ ~ Wired(e) /\ ~ Requeued(e)
    BY <1>1, <1>3 DEF Init, InInbox, Wired, Requeued
  <2>4. Owed(e) = 0
    BY <2>3 DEF Owed, One
  <2>5. QED
    BY <2>2, <2>4 DEF Init
<1>6. QED
  BY <1>2, <1>4, <1>5 DEF BInv, Bound

\* The bound with what it needs holds of every behaviour.
LEMMA BInvHolds == Spec => []BInv
<1>1. TInv /\ TInv' /\ CInv /\ BInv /\ [Next]_vars => BInv'
  <2>1. CASE UNCHANGED vars
    <3>1. /\ UNCHANGED <<queue, nextSeq, backup, reg, hellos, toDevice, pc, frame, lastAcked, cur,
                         disk, inbox, routed, dispatched, crashes, restores>>
      BY <2>1 DEF vars, routerVars, wireVars, deviceVars, countVars
    <3>2. TInv /\ TInv' /\ BInv => BInv'
      BY <3>1, RouterQuietBound DEF TInv
    <3>3. QED
      BY <3>2
  <2>2. CASE Next
    BY <2>2, RouterBound, DeviceBound DEF Next
  <2>3. QED
    BY <2>1, <2>2
<1>2. QED
  BY <1>1, InitBInv, TInvHolds, CInvHolds, PTL DEF Spec

\* No event is handed to the consumer more than once, plus once per crash of the
\* device and per rewind of the router: RouterConnection's marks, its inbox and the
\* gateway's redeliveries never add a dispatch of their own.
THEOREM DispatchesBounded == Spec => []DispatchBound
<1>1. TInv /\ BInv => DispatchBound
  <2>1. SUFFICES ASSUME TInv, BInv, NEW e \in RangeOf(dispatched)
                 PROVE  Dispatches(e) <= 1 + crashes + restores
    BY DEF DispatchBound
  <2>2. TypeOK
    BY <2>1 DEF TInv
  <2>3. e \in Events
    BY <2>1, <2>2, Histories DEF RangeOf
  <2>4. Dispatches(e) \in Nat /\ Owed(e) \in Nat
    BY <2>2, DispatchesNat
  <2>5. crashes \in Nat /\ restores \in Nat /\ Dispatches(e) + Owed(e) <= 1 + crashes + restores
    BY <2>1, <2>2, <2>3 DEF BInv, Bound, TypeOK
  <2>6. QED
    BY <2>4, <2>5
<1>2. QED
  BY <1>1, TInvHolds, BInvHolds, PTL

=============================================================================
