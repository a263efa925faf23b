--------------------------- MODULE EventDelivery ---------------------------
(***************************************************************************)
(* Delivery of routed webhooks from the router's durable per-device queue  *)
(* to the consumer on the device.                                          *)
(*                                                                         *)
(* Router side: the "events" table and the devices.next_seq column of      *)
(* RouterStore, and the socket registry of DeviceGateway.  Device side:    *)
(* RouterConnection with its durable inbox and its persisted high-water    *)
(* mark.  One device is modelled: the queue, the counter and the socket of *)
(* two devices share nothing.                                              *)
(*                                                                         *)
(* Time is abstracted to the one fact the code reads: whether a row's      *)
(* expires_ms has passed.                                                  *)
(***************************************************************************)
EXTENDS Integers, Sequences, FiniteSets

CONSTANTS
    Events,       \* webhooks that may be routed to the device, each once
    MaxDrops,     \* bound on sockets that break on their own
    MaxCrashes,   \* bound on crashes of the device process
    MaxRestarts,  \* bound on router restarts that keep their disk
    MaxRestores   \* bound on events that rewind the router's next_seq

ASSUME EventsAssumption == IsFiniteSet(Events)
ASSUME BoundsAssumption ==
    /\ MaxDrops \in Nat /\ MaxCrashes \in Nat
    /\ MaxRestarts \in Nat /\ MaxRestores \in Nat

VARIABLES
    \* Router, durable (SQLite)
    queue,      \* rows of the events table: set of [seq, ev]
    nextSeq,    \* devices.next_seq
    backup,     \* last state uploaded by StateBackup: [queue, nextSeq]
    \* The clock, as far as rows can see it
    expired,    \* events whose expires_ms has passed
    \* Router, volatile
    reg,        \* socket registered for the device, 0 for none
    \* The wire
    hellos,     \* hello frames in flight: set of [sock, acked]
    toDevice,   \* batches of event frames sent on the device's socket
    acks,       \* event_ack frames sent on the registered socket
    \* Device, volatile
    pc,         \* where RouterConnection is
    frame,      \* event frame under treatment (meaningful when pc is a step)
    lastAcked,  \* lastAckedSeq in memory
    cur,        \* socket the device holds, 0 for none
    \* Device, durable
    disk,       \* lastAckedSeq in router-connection.json
    inbox,      \* inbox.jsonl: set of [seq, ev]
    \* History
    routed,     \* events in the order they were enqueued
    dispatched, \* events in the order the consumer saw them
    reported,   \* events expireEvents handed to the sweep
    lost,       \* rows destroyed with the router's disk
    dials, drops, crashes, restarts, restores

routerVars == <<queue, nextSeq, backup, expired, reg>>
wireVars   == <<hellos, toDevice, acks>>
deviceVars == <<pc, frame, lastAcked, cur, disk, inbox>>
countVars  == <<dials, drops, crashes, restarts, restores>>
vars == <<routerVars, wireVars, deviceVars, routed, dispatched, reported, lost,
          countVars>>

Row == [seq : Nat, ev : Events]
Hello == [sock : Nat, acked : Nat]

\* Steps of the process: "down"; "boot" is replayInbox, one entry at a time;
\* "idle" waits for frames; the others are the points of onEvent a crash can
\* separate.
Steps == {"down", "boot", "replayed", "idle",
          "appended", "acked", "persisted", "emitted"}

RangeOf(s) == {s[i] : i \in 1..Len(s)}
EvsOf(rows) == {r.ev : r \in rows}

---------------------------------------------------------------------------
(* RouterStore: the events table *)

\* RouterStore.pendingEvents(deviceId, 0, now): rows not yet expired.
PendingRows(rows) == {r \in rows : r.ev \notin expired}

\* Faulty variant: the delete reaches one row too far.
AckRowsOneMore(rows, n) == {r \in rows : r.seq > n + 1}

\* RouterStore.ackEvent: a cumulative delete, expired rows included.
AckRows(rows, n) == {r \in rows : r.seq > n}

\* Faulty variant: a counter equal to the mark is taken for a healthy one.
ReconcileSeqOffByOne(rows, next, acked) ==
    IF next >= acked
    THEN [queue |-> rows, next |-> next]
    ELSE [queue |-> rows, next |-> acked + 1]

\* Faulty variant: the counter is moved and the rows are left behind.
ReconcileSeqCounterOnly(rows, next, acked) ==
    [queue |-> rows, next |-> IF next > acked THEN next ELSE acked + 1]

\* RouterStore.reconcileDeviceSeq: a counter at or below the device's mark is
\* moved above it, and the live rows at or below the mark move with it, in order.
ReconcileSeq(rows, next, acked) ==
    IF next > acked
    THEN [queue |-> rows, next |-> next]
    ELSE LET victims == {r \in PendingRows(rows) : r.seq <= acked}
             Rank(r) == Cardinality({v \in victims : v.seq < r.seq})
             moved == {[seq |-> acked + 1 + Rank(r), ev |-> r.ev] : r \in victims}
         IN [queue |-> (rows \ victims) \cup moved,
             next  |-> acked + 1 + Cardinality(victims)]

\* DeviceGateway.handleHello purges what the device says it has: one ackEvent
\* per live row at or below the mark, so the highest such row decides.
PurgeAcked(rows, acked) ==
    {r \in rows : ~ \E x \in PendingRows(rows) : x.seq <= acked /\ r.seq <= x.seq}

\* DeviceGateway.deliverPending on socket s: every live row, lowest seq first.
\* A batch is the set of rows sent in one call; the device reads it in order.
\* On a socket the device no longer holds the frames reach nobody.
Deliver(s, rows, batches) ==
    IF s # 0 /\ s = cur /\ PendingRows(rows) # {}
    THEN Append(batches, PendingRows(rows))
    ELSE batches

---------------------------------------------------------------------------
(* Router *)

Init ==
    /\ queue = {} /\ nextSeq = 1 /\ backup = [queue |-> {}, nextSeq |-> 1]
    /\ expired = {} /\ reg = 0
    /\ hellos = {} /\ toDevice = <<>> /\ acks = <<>>
    /\ pc = "down" /\ frame = [seq |-> 0] /\ lastAcked = 0 /\ cur = 0
    /\ disk = 0 /\ inbox = {}
    /\ routed = <<>> /\ dispatched = <<>> /\ reported = {} /\ lost = {}
    /\ dials = 0 /\ drops = 0 /\ crashes = 0 /\ restarts = 0 /\ restores = 0

\* EventRouter.deliverOrNotify: enqueueEvent, then deliverPending when the
\* gateway has a socket for the device.
Enqueue(e) ==
    /\ e \notin RangeOf(routed)
    /\ queue' = queue \cup {[seq |-> nextSeq, ev |-> e]}
    /\ nextSeq' = nextSeq + 1
    /\ routed' = Append(routed, e)
    /\ toDevice' = Deliver(reg, queue', toDevice)
    /\ UNCHANGED <<backup, expired, reg, hellos, acks, deviceVars, dispatched,
                   reported, lost, countVars>>

\* The clock passes the expires_ms of a row.  Every row has the same TTL, so
\* rows expire in the order they were enqueued.
TtlPasses ==
    /\ \E r \in PendingRows(queue) :
          /\ \A x \in PendingRows(queue) : r.seq <= x.seq
          /\ expired' = expired \cup {r.ev}
    /\ UNCHANGED <<queue, nextSeq, backup, reg, wireVars, deviceVars, routed,
                   dispatched, reported, lost, countVars>>

\* EventRouter.sweepExpired, pass 1: expireEvents deletes the expired rows and
\* hands them over to be reported to the user.
SweepExpired ==
    /\ \E r \in queue : r.ev \in expired
    /\ queue' = PendingRows(queue)
    /\ reported' = reported \cup (EvsOf(queue) \cap expired)
    /\ UNCHANGED <<nextSeq, backup, expired, reg, wireVars, deviceVars, routed,
                   dispatched, lost, countVars>>

\* DeviceGateway.handleHello for a known token: the newest socket wins, the
\* counter is repaired, what the device has is purged, the rest is delivered.
\* Frames and acks of the socket it replaces are dropped with that socket.
HandleHello(h) ==
    LET fixed == ReconcileSeq(queue, nextSeq, h.acked)
    IN /\ h \in hellos
       /\ hellos' = hellos \ {h}
       /\ reg' = h.sock
       /\ nextSeq' = fixed.next
       /\ queue' = PurgeAcked(fixed.queue, h.acked)
       /\ toDevice' = Deliver(h.sock, queue', toDevice)
       /\ acks' = <<>>
       /\ UNCHANGED <<backup, expired, deviceVars, routed, dispatched, reported,
                      lost, countVars>>

\* DeviceGateway.handleMessage, event_ack.
HandleAck ==
    /\ acks # <<>>
    /\ queue' = AckRows(queue, Head(acks))
    /\ acks' = Tail(acks)
    /\ UNCHANGED <<nextSeq, backup, expired, reg, hellos, toDevice, deviceVars,
                   routed, dispatched, reported, lost, countVars>>

\* The "close" handler of the registered socket, after a break (a drop) or
\* because the device left it (the heartbeat notices).
SocketClosed ==
    /\ reg # 0
    /\ \/ reg # cur /\ UNCHANGED drops
       \/ reg = cur /\ drops < MaxDrops /\ drops' = drops + 1
    /\ reg' = 0 /\ acks' = <<>>
    /\ UNCHANGED <<queue, nextSeq, backup, expired, hellos, toDevice, deviceVars,
                   routed, dispatched, reported, lost, dials, crashes, restarts,
                   restores>>

\* StateBackup.flush.  An upload no restore is left to read is not taken.
BackupFlush ==
    /\ restores < MaxRestores
    /\ backup' = [queue |-> queue, nextSeq |-> nextSeq]
    /\ backup' # backup
    /\ UNCHANGED <<queue, nextSeq, expired, reg, wireVars, deviceVars, routed,
                   dispatched, reported, lost, countVars>>

\* A router restart that finds its database on disk.
RouterRestart ==
    /\ restarts < MaxRestarts
    /\ restarts' = restarts + 1
    /\ reg' = 0 /\ acks' = <<>> /\ hellos' = {}
    /\ UNCHANGED <<queue, nextSeq, backup, expired, toDevice, deviceVars, routed,
                   dispatched, reported, lost, dials, drops, crashes, restores>>

\* A restart on an empty disk: StateBackup.restoreIfNeeded puts back the last
\* uploaded database.  Rows it does not hold are gone.
RouterRestore ==
    /\ restores < MaxRestores
    /\ restores' = restores + 1
    /\ queue' = backup.queue /\ nextSeq' = backup.nextSeq
    /\ lost' = lost \cup (EvsOf(queue) \ EvsOf(backup.queue))
    /\ reg' = 0 /\ acks' = <<>> /\ hellos' = {}
    /\ UNCHANGED <<backup, expired, toDevice, deviceVars, routed, dispatched,
                   reported, dials, drops, crashes, restarts>>

\* RouterStore.redeemEnrollmentCode for a user who has a device: the old row
\* goes with its events, the new one counts from 1.  The worker is restarted
\* under its new token on the state directory it had.  A backup older than the
\* enrolment does not know that token, so only newer ones matter.
Reenroll ==
    /\ restores < MaxRestores
    /\ restores' = restores + 1
    /\ queue' = {} /\ nextSeq' = 1 /\ backup' = [queue |-> {}, nextSeq |-> 1]
    /\ lost' = lost \cup EvsOf(queue)
    /\ reg' = 0 /\ acks' = <<>> /\ hellos' = {} /\ toDevice' = <<>>
    /\ pc' = "down" /\ cur' = 0
    /\ UNCHANGED <<expired, frame, lastAcked, disk, inbox, routed, dispatched,
                   reported, dials, drops, crashes, restarts>>

---------------------------------------------------------------------------
(* Device: RouterConnection *)

SendAck(n) == IF cur # 0 /\ cur = reg THEN Append(acks, n) ELSE acks

\* dial and sendHello: the hello carries the mark held in memory.
Dial ==
    /\ pc = "idle" /\ cur = 0
    /\ dials' = dials + 1
    /\ cur' = dials + 1
    /\ hellos' = hellos \cup {[sock |-> dials + 1, acked |-> lastAcked]}
    /\ UNCHANGED <<routerVars, toDevice, acks, pc, frame, lastAcked, disk, inbox,
                   routed, dispatched, reported, lost, drops, crashes, restarts,
                   restores>>

\* Faulty variant: no watchdog, a socket the router has left stays in use.
DisconnectNoWatchdog ==
    /\ pc = "idle" /\ cur # 0
    /\ drops < MaxDrops /\ drops' = drops + 1
    /\ cur' = 0 /\ toDevice' = <<>>
    /\ UNCHANGED <<routerVars, hellos, acks, pc, frame, lastAcked, disk, inbox,
                   routed, dispatched, reported, lost, dials, crashes, restarts,
                   restores>>

\* The device's socket goes down: a break (a drop), or "close" or the liveness
\* watchdog once the router holds no such socket.
Disconnect ==
    /\ pc = "idle" /\ cur # 0
    /\ \/ /\ reg # cur /\ \A h \in hellos : h.sock # cur
          /\ UNCHANGED drops
       \/ drops < MaxDrops /\ drops' = drops + 1
    /\ cur' = 0 /\ toDevice' = <<>>
    /\ UNCHANGED <<routerVars, hellos, acks, pc, frame, lastAcked, disk, inbox,
                   routed, dispatched, reported, lost, dials, crashes, restarts,
                   restores>>

\* A hello sent on a socket the device has left may never arrive.
LoseHello ==
    /\ \E h \in hellos : h.sock # cur /\ hellos' = hellos \ {h}
    /\ UNCHANGED <<routerVars, toDevice, acks, deviceVars, routed, dispatched,
                   reported, lost, countVars>>

\* Faulty variant: rows are sent in no particular order.
NextFrameAnyOrder(f) == toDevice # <<>> /\ f \in Head(toDevice)

\* The next frame on the wire: the lowest row of the oldest batch.
NextFrame(f) ==
    /\ toDevice # <<>>
    /\ f \in Head(toDevice)
    /\ \A x \in Head(toDevice) : f.seq <= x.seq

TakeFrame(f) ==
    toDevice' = IF Head(toDevice) = {f}
                THEN Tail(toDevice)
                ELSE <<Head(toDevice) \ {f}>> \o Tail(toDevice)

\* Faulty variant: the mark is not compared.
IsNewAlways(f) == TRUE

\* onEvent tells a new frame from a duplicate by the mark in memory.
IsNew(f) == f.seq > lastAcked

\* onEvent, early return: a duplicate is acked again and dropped.
OnDuplicate(f) ==
    /\ pc = "idle" /\ NextFrame(f) /\ TakeFrame(f)
    /\ ~ IsNew(f)
    /\ acks' = SendAck(f.seq)
    /\ UNCHANGED <<routerVars, hellos, deviceVars, routed, dispatched, reported,
                   lost, countVars>>

\* onEvent, a new frame: the durable inbox comes first.
OnEvent(f) ==
    /\ pc = "idle" /\ NextFrame(f) /\ TakeFrame(f)
    /\ IsNew(f)
    /\ inbox' = inbox \cup {f}
    /\ frame' = f /\ pc' = "appended"
    /\ UNCHANGED <<routerVars, hellos, acks, lastAcked, cur, disk, routed,
                   dispatched, reported, lost, countVars>>

\* sendAck, and the mark in memory.
OnEventAck ==
    /\ pc = "appended"
    /\ acks' = SendAck(frame.seq)
    /\ lastAcked' = frame.seq /\ pc' = "acked"
    /\ UNCHANGED <<routerVars, hellos, toDevice, frame, cur, disk, inbox, routed,
                   dispatched, reported, lost, countVars>>

\* persistLastAckedSeq.
OnEventPersist ==
    /\ pc = "acked"
    /\ disk' = frame.seq /\ pc' = "persisted"
    /\ UNCHANGED <<routerVars, wireVars, frame, lastAcked, cur, inbox, routed,
                   dispatched, reported, lost, countVars>>

\* Faulty variant: the frame is handed over in place of its payload.
OnEventEmitFrame ==
    /\ pc = "persisted"
    /\ dispatched' = Append(dispatched, frame)
    /\ pc' = "emitted"
    /\ UNCHANGED <<routerVars, wireVars, frame, lastAcked, cur, disk, inbox,
                   routed, reported, lost, countVars>>

\* emit("event"): the consumer is attached before the first dial.
OnEventEmit ==
    /\ pc = "persisted"
    /\ dispatched' = Append(dispatched, frame.ev)
    /\ pc' = "emitted"
    /\ UNCHANGED <<routerVars, wireVars, frame, lastAcked, cur, disk, inbox,
                   routed, reported, lost, countVars>>

\* markInboxProcessed, after an emit from onEvent or from replayInbox.
MarkProcessed ==
    /\ pc \in {"emitted", "replayed"}
    /\ inbox' = {x \in inbox : x.seq # frame.seq}
    /\ pc' = IF pc = "emitted" THEN "idle" ELSE "boot"
    /\ UNCHANGED <<routerVars, wireVars, frame, lastAcked, cur, disk, routed,
                   dispatched, reported, lost, countVars>>

\* The process dies at any point; only the files survive.
Crash ==
    /\ pc # "down" /\ crashes < MaxCrashes
    /\ crashes' = crashes + 1
    /\ pc' = "down" /\ cur' = 0 /\ toDevice' = <<>>
    /\ UNCHANGED <<routerVars, hellos, acks, frame, lastAcked, disk, inbox,
                   routed, dispatched, reported, lost, dials, drops, restarts,
                   restores>>

\* The constructor: the persisted mark is loaded, replayInbox is next.
Start ==
    /\ pc = "down"
    /\ lastAcked' = disk /\ pc' = "boot"
    /\ UNCHANGED <<routerVars, wireVars, frame, cur, disk, inbox, routed,
                   dispatched, reported, lost, countVars>>

\* replayInbox: one surviving entry, in the order of the file.
ReplayEmit ==
    /\ pc = "boot"
    /\ \E x \in inbox :
          /\ \A y \in inbox : x.seq <= y.seq
          /\ frame' = x
          /\ dispatched' = Append(dispatched, x.ev)
    /\ pc' = "replayed"
    /\ UNCHANGED <<routerVars, wireVars, lastAcked, cur, disk, inbox, routed,
                   reported, lost, countVars>>

\* replayInbox returns; the socket's frames are later macrotasks.
ReplayDone ==
    /\ pc = "boot" /\ inbox = {}
    /\ pc' = "idle"
    /\ UNCHANGED <<routerVars, wireVars, frame, lastAcked, cur, disk, inbox,
                   routed, dispatched, reported, lost, countVars>>

---------------------------------------------------------------------------

RouterNext ==
    \/ \E e \in Events : Enqueue(e)
    \/ TtlPasses
    \/ SweepExpired
    \/ \E h \in hellos : HandleHello(h)
    \/ HandleAck
    \/ SocketClosed
    \/ BackupFlush
    \/ RouterRestart
    \/ RouterRestore
    \/ Reenroll

OnEventStep ==
    \/ \E b \in RangeOf(toDevice) : \E f \in b : OnDuplicate(f) \/ OnEvent(f)
    \/ OnEventAck \/ OnEventPersist \/ OnEventEmit \/ MarkProcessed

BootStep == Start \/ ReplayEmit \/ ReplayDone

DeviceNext ==
    \/ Dial \/ Disconnect \/ LoseHello
    \/ OnEventStep
    \/ BootStep
    \/ Crash

Next == RouterNext \/ DeviceNext

\* The code's event loops run every callback that is due: the router answers a
\* hello on the device's live socket, a dead socket is noticed by a heartbeat
\* or by the liveness watchdog, the device redials and works its handler off.
\* Nothing is assumed about webhooks, clocks, backups or failures.
Fairness ==
    /\ WF_vars(\E h \in hellos : h.sock = cur /\ HandleHello(h))
    /\ WF_vars(Dial)
    /\ WF_vars(Disconnect /\ UNCHANGED drops)
    /\ WF_vars(OnEventStep)
    /\ WF_vars(BootStep)

Spec == Init /\ [][Next]_vars
FairSpec == Spec /\ Fairness

---------------------------------------------------------------------------
(* Properties *)

\* Every table, file, frame and mark keeps its shape; while onEvent or
\* replayInbox is under way, the frame it works on is a whole row.
TypeOK ==
    /\ queue \subseteq Row /\ nextSeq \in Nat
    /\ backup \in [queue : SUBSET Row, nextSeq : Nat]
    /\ expired \subseteq Events /\ reg \in Nat
    /\ hellos \subseteq Hello
    /\ toDevice \in Seq(SUBSET Row) /\ acks \in Seq(Nat)
    /\ pc \in Steps
    /\ pc \in {"replayed", "appended", "acked", "persisted", "emitted"} => frame \in Row
    /\ lastAcked \in Nat /\ cur \in Nat /\ disk \in Nat /\ inbox \subseteq Row
    /\ routed \in Seq(Events) /\ dispatched \in Seq(Events)
    /\ reported \subseteq Events /\ lost \subseteq Events
    /\ dials \in Nat /\ drops \in Nat /\ crashes \in Nat
    /\ restarts \in Nat /\ restores \in Nat

\* The device has e for good: it is in the durable inbox or was dispatched.
Held(e) == e \in EvsOf(inbox) \/ e \in RangeOf(dispatched)

\* No routed webhook is forgotten: until its TTL passes, a routed event is in
\* the router's queue, in the device's durable inbox, or already dispatched --
\* whatever crashes, drops, restarts, duplicates and cumulative acks happen.
\* (While the router keeps its disk: a restore takes rows back with it.)
NoLoss ==
    restores = 0 =>
        \A e \in RangeOf(routed) : e \in EvsOf(queue) \/ Held(e) \/ e \in expired

Dispatches(e) == Cardinality({i \in 1..Len(dispatched) : dispatched[i] = e})

\* An event is dispatched again only because of a failure that lost a mark: the
\* inbox and the two marks make delivery at-least-once with at most one extra
\* dispatch per device crash or rewind of the router, never more.
DispatchBound ==
    \A e \in RangeOf(dispatched) : Dispatches(e) <= 1 + crashes + restores

FirstAt(e) == CHOOSE i \in 1..Len(dispatched) :
                 dispatched[i] = e /\ \A j \in 1..(i - 1) : dispatched[j] # e

\* The consumer first sees events in the order the webhooks were routed, across
\* redeliveries, crashes, replays and router restarts: a prompt never overtakes
\* the event that created its session.  (While the router keeps its disk: a row
\* that a second restore brings back may be older than what was dispatched.)
DispatchInOrder ==
    restores = 0 =>
        \A i, j \in 1..Len(routed) :
            (i < j /\ {routed[i], routed[j]} \subseteq RangeOf(dispatched))
                => FirstAt(routed[i]) < FirstAt(routed[j])

\* While router and device share a socket, the next seq the router issues is
\* above the device's mark: a rewound counter never leaves the device deaf.
NotDeaf == (cur # 0 /\ reg = cur) => nextSeq > lastAcked

\* The hello that finds the counter rewound destroys no live row: each one is
\* still queued, above the device's mark and in its old order.
RepairKeepsLiveRows ==
    [][\A h \in hellos :
          (nextSeq <= h.acked /\ HandleHello(h)) =>
              \A r, x \in PendingRows(queue) :
                  \E r2, x2 \in queue' :
                      /\ r2.ev = r.ev /\ x2.ev = x.ev
                      /\ r2.seq > h.acked
                      /\ r.seq < x.seq => r2.seq < x2.seq]_vars

\* Every routed event is dispatched in the end unless its TTL passes first, if
\* failures stop: retries, redials and the watchdog always get there.
EventuallyDispatched ==
    \A e \in Events :
        e \in RangeOf(routed) ~> (e \in RangeOf(dispatched) \/ e \in expired)

=============================================================================
