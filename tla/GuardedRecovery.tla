-------------------------- MODULE GuardedRecovery --------------------------
(***************************************************************************)
(* Guarded recovery of a stranded run.                                     *)
(*                                                                         *)
(* A container stopped with a session still pinned to it, or holding the   *)
(* lock of its issue, leaves an issue nobody can work on.  An operator may *)
(* ask the router to recover the run: RecoveryService accepts the request  *)
(* as a durable operation and RouterRunReconciler boots the container,     *)
(* waits for its worker, asks it what it runs, lets its buffered frames    *)
(* replay and only then releases what the worker does not claim.  Between  *)
(* those awaits the router goes on: prompts are routed, frames applied,    *)
(* reconnects reconciled, and other operations run against the same run.   *)
(*                                                                         *)
(* One Linear session on a locking router.  Its runs follow each other: a  *)
(* route joins the last run, or starts the next once that one has ended.   *)
(* An action of an operation is one stretch of code between two awaits, so *)
(* the revision is left out: every compare of it reads both sides in the   *)
(* same stretch.  Times are stamps of a logical clock, and everything up   *)
(* to `old' happened longer ago than the ownership grace.                  *)
(***************************************************************************)
EXTENDS Naturals, Sequences

CONSTANTS
    Devices,      \* the devices the session may be routed to
    Containers,   \* those the router can boot
    NoDevice,     \* SQL NULL / undefined
    Ops,          \* idempotency keys, each the key of at most one operation
    MaxClock      \* bound: routes and unparks

ASSUME DevicesAssumption == Containers \subseteq Devices /\ NoDevice \notin Devices
ASSUME ClockAssumption == MaxClock \in Nat \ {0}

VARIABLES
    runs,      \* agent_runs of the session, oldest first
    affinity,  \* session_affinity: [device, at]
    lock,      \* device of the issue lock
    grace,     \* device of the unlapsed ownership grace
    park,      \* parkedSessionCreators (in memory)
    online,    \* devices with an authenticated socket
    queue,     \* devices with an undelivered event of the session
    work,      \* what each worker has of the session
    attached,  \* devices whose worker has a runner of the session, ended or not
    frame,     \* devices with a terminal frame buffered on disk
    phase,     \* recovery_operations.phase of each key; "awaiting_worker" is the
               \* part of starting_executor after the boot has returned
    co,        \* the coordinator of each operation under way (in memory)
    clock, old

claims == <<affinity, lock, grace, park>>
worker == <<work, attached, frame>>
time   == <<clock, old>>
ops    == <<phase, co>>
vars == <<runs, claims, online, queue, worker, ops, time>>

DeviceOrNone == Devices \cup {NoDevice}

\* "asking" is "waiting" with reason elicitation; "ended" is any outcome a worker
\* reported.
NonTerminal == {"routed", "active", "waiting", "asking"}
Run == [state : NonTerminal \cup {"ended", "unknown"}, device : Devices, routed : 1..MaxClock]

Outcomes == {"recovered", "needs_input", "refused", "failed"}
InFlight == {"starting_executor", "awaiting_worker", "reconciling", "replaying"}
Coordinator ==
    [run : 1..MaxClock,      \* which run
     read : Run,             \* the run as it was first read
     posted : BOOLEAN,       \* an activity or run fact was published since
     seen : {"idle", "inbox", "busy"}]  \* history: the work behind the answer
NoCoordinator == [run |-> 0]

Last == Len(runs)
Ended(r) == r.state \notin NonTerminal
Young(stamp) == stamp > old

\* getSessionOwner
Owner ==
    IF affinity.device # NoDevice THEN affinity.device
    ELSE IF lock # NoDevice THEN lock
    ELSE grace

\* Faulty variant: the state of the run is not looked at.
MarkUnknownAlways(rs) == [rs EXCEPT ![Len(rs)].state = "unknown"]

\* markAgentRunUnknown, setAgentRunState and finishAgentRun, on the last run
MarkUnknown(rs) ==
    IF Ended(rs[Len(rs)]) THEN rs ELSE [rs EXCEPT ![Len(rs)].state = "unknown"]
SetState(rs, s) == IF Ended(rs[Len(rs)]) THEN rs ELSE [rs EXCEPT ![Len(rs)].state = s]
Finish(rs) ==
    IF rs[Len(rs)].state = "ended" THEN rs ELSE [rs EXCEPT ![Len(rs)].state = "ended"]

NoAffinity == [device |-> NoDevice, at |-> 0]
Without(claim, d) == IF claim = d THEN NoDevice ELSE claim

---------------------------------------------------------------------------
\* A session running on a connected container, with its affinity and its lock.
Init ==
    /\ \E d \in Containers :
         /\ runs = <<[state |-> "active", device |-> d, routed |-> 1]>>
         /\ affinity = [device |-> d, at |-> 1]
         /\ lock = d /\ online = {d}
         /\ work = [e \in Devices |-> IF e = d THEN "busy" ELSE "idle"]
         /\ attached = {d}
    /\ grace = NoDevice /\ park = NoDevice
    /\ queue = {} /\ frame = {}
    /\ phase = [o \in Ops |-> "none"] /\ co = [o \in Ops |-> NoCoordinator]
    /\ clock = 1 /\ old = 0

---------------------------------------------------------------------------
(* The router, apart from recovery *)

\* recordAgentRunRouted: the last run takes the input, or a new run starts.
RecordRun(run) ==
    IF Ended(runs[Last]) THEN Append(runs, run)
    ELSE [runs EXCEPT ![Last] = [run EXCEPT !.state = runs[Last].state]]

\* routePrompted to the pinned device, else to the creator's device c.
Route(c) ==
    LET d == IF affinity.device # NoDevice THEN affinity.device ELSE c
        t == clock + 1
        run == [state |-> "routed", device |-> d, routed |-> t]
    IN /\ clock < MaxClock
       /\ clock' = t
       /\ runs' = RecordRun(run)
       /\ affinity' = [device |-> d, at |-> t]
       /\ queue' = queue \cup {d}
       /\ UNCHANGED <<lock, grace, park, online, worker, ops, old>>

\* reconcileDeviceLocks and reconcileDeviceAffinity on deviceConnected, for a
\* worker that declares the sessions it has a runner of.
Connect(d) ==
    LET undeclared == d \notin attached
        lockStale == undeclared /\ lock = d /\ d \notin queue
        affinityStale == undeclared /\ affinity.device = d /\ ~ Young(affinity.at)
    IN /\ d \in Devices \ online
       /\ online' = online \cup {d}
       /\ runs' = IF lockStale \/ affinityStale THEN MarkUnknown(runs) ELSE runs
       /\ lock' = IF lockStale THEN NoDevice ELSE lock
       /\ affinity' = IF lockStale \/ affinityStale THEN NoAffinity ELSE affinity
       /\ UNCHANGED <<grace, park, queue, worker, ops, time>>

\* deliverPending, up to the worker's ack: the event is in the worker's inbox,
\* or in the session it already runs.
Deliver(d) ==
    /\ d \in queue \cap online
    /\ queue' = queue \ {d}
    /\ work' = [work EXCEPT ![d] = IF @ = "busy" THEN "busy" ELSE "inbox"]
    /\ UNCHANGED <<runs, claims, online, attached, frame, ops, time>>

\* sweepExpired: a device dark past the TTL loses every claim; a container that
\* was routed to within it is spared.
SweepDark(d) ==
    LET onIt == runs[Last].device = d
    IN /\ d \notin online
       /\ d \in Containers => d \notin queue /\ (onIt => ~ Young(runs[Last].routed))
       /\ runs' = IF onIt THEN MarkUnknown(runs) ELSE runs
       /\ affinity' = IF affinity.device = d THEN NoAffinity ELSE affinity
       /\ lock' = Without(lock, d)
       /\ grace' = Without(grace, d)
       /\ UNCHANGED <<park, online, queue, worker, ops, time>>

\* expires_ms of the grace passes
GraceLapses ==
    /\ grace # NoDevice
    /\ grace' = NoDevice
    /\ UNCHANGED <<runs, affinity, lock, park, online, queue, worker, ops, time>>

\* More of the past gets older than the ownership grace.  A connected worker
\* starts the session of a delivered event within it.
Tick ==
    /\ \E t \in (old + 1)..clock :
         /\ old' = t
         /\ \A d \in online : work[d] = "inbox" => t < runs[Last].routed
    /\ UNCHANGED <<runs, claims, online, queue, worker, ops, clock>>

---------------------------------------------------------------------------
(* The worker of device d, and EventRouter.handleSessionState for its frames. *)
(* It may run, and be booted by others, while it is offline.                 *)

\* The inbox is worked off: the session has a runner and is declared from now on.
SessionStarts(d) ==
    /\ work[d] = "inbox"
    /\ work' = [work EXCEPT ![d] = "busy"] /\ attached' = attached \cup {d}
    /\ UNCHANGED <<runs, claims, online, queue, frame, ops, time>>

\* The session ends; its terminal frame is buffered until it is acked.  The
\* runner stays attached, and the session declared, as long as the process lives.
SessionEnds(d) ==
    /\ work[d] = "busy"
    /\ work' = [work EXCEPT ![d] = "idle"]
    /\ frame' = frame \cup {d}
    /\ UNCHANGED <<runs, claims, online, queue, attached, ops, time>>

\* A terminal frame; the ack may be lost, and the frame is then sent again.
TerminalFrame(d) ==
    /\ d \in frame \cap online
    /\ frame' \in {frame, frame \ {d}}
    /\ runs' = Finish(runs)
    /\ park' = Without(park, d)
    /\ grace' = IF Owner = d THEN d ELSE grace
    /\ lock' = NoDevice
    /\ affinity' = NoAffinity
    /\ UNCHANGED <<online, queue, work, attached, ops, time>>

\* "waiting": on a question (asking) or on background work; the executor may
\* park or not.
WaitingFrame(d, state, mayPark) ==
    /\ d \in online /\ work[d] = "busy" /\ Owner = d
    /\ runs' = SetState(runs, state)
    /\ IF mayPark
       THEN park' = d /\ grace' = d /\ affinity' = NoAffinity
       ELSE UNCHANGED <<park, grace, affinity>>
    /\ UNCHANGED <<lock, online, queue, worker, ops, time>>

\* "active" for a park on record
UnparkFrame(d) ==
    /\ d \in online /\ work[d] = "busy" /\ park = d
    /\ clock < MaxClock
    /\ clock' = clock + 1
    /\ park' = NoDevice /\ grace' = NoDevice
    /\ affinity' = [device |-> d, at |-> clock + 1]
    /\ runs' = SetState(runs, "active")
    /\ UNCHANGED <<lock, online, queue, worker, ops, old>>

\* "active" with no park on record, or an activity posted through the router
\* (recordAgentRunActivity): the run's own facts move.
Progress(d) ==
    /\ d \in online /\ Owner = d
    /\ ~ Ended(runs[Last])
    /\ runs' = SetState(runs, "active")
    /\ co' = [o \in Ops |-> IF co[o].run = Last THEN [co[o] EXCEPT !.posted = TRUE]
                            ELSE co[o]]
    /\ UNCHANGED <<claims, online, queue, worker, phase, time>>

\* The worker dies or its container is stopped.  Its restart reports an
\* interrupted session as ended, unless its state went with it; the inbox stays.
WorkerStops(d) ==
    /\ online' = online \ {d}
    /\ work' = [work EXCEPT ![d] = IF @ = "busy" THEN "idle" ELSE @]
    /\ attached' = attached \ {d}
    /\ frame' \in IF work[d] = "busy" THEN {frame, frame \cup {d}} ELSE {frame}
    /\ UNCHANGED <<runs, claims, queue, ops, time>>

SocketLost(d) ==
    /\ d \in online
    /\ online' = online \ {d}
    /\ UNCHANGED <<runs, claims, queue, worker, ops, time>>

---------------------------------------------------------------------------
(* RecoveryService and RouterRunReconciler *)

Device(o) == co[o].read.device

\* report and settle, through advanceRecoveryOperation; an outcome is the end of
\* the coordinator.
Advance(o, p) ==
    /\ phase' = [phase EXCEPT ![o] = p]
    /\ co' = IF p \in Outcomes THEN [co EXCEPT ![o] = NoCoordinator] ELSE co

\* Where the guards ahead of any action leave a request for run r.
FirstPhase(r) ==
    IF r.state = "asking" THEN "needs_input"
    ELSE IF r.device \in online THEN "refused"
    ELSE IF r.device \notin Containers THEN "refused"
    ELSE "starting_executor"

\* createRecoveryOperation and drive
Accept(o) ==
    LET p == FirstPhase(runs[Last])
    IN /\ phase' = [phase EXCEPT ![o] = p]
       /\ co' = IF p \in Outcomes THEN co
                ELSE [co EXCEPT ![o] = [run |-> Last, read |-> runs[Last],
                                        posted |-> FALSE, seen |-> "idle"]]

\* request, and reconcile up to its first await.  A request for a run that has
\* ended, or that quotes an old revision, creates no operation; a repeated one
\* joins the operation of its key.
Request(o) ==
    /\ phase[o] = "none"
    /\ ~ Ended(runs[Last])
    /\ Accept(o)
    /\ UNCHANGED <<runs, claims, online, queue, worker, time>>

\* executor.boot answers.
Booted(o, ok) ==
    /\ phase[o] = "starting_executor"
    /\ Advance(o, IF ok THEN "awaiting_worker" ELSE "failed")
    /\ UNCHANGED <<runs, claims, online, queue, worker, time>>

\* describeUnsettledWork: the worker has not been handed everything, or the claim
\* is too young for its silence to mean anything.
Unsettled(o) ==
    \/ Device(o) \in queue
    \/ affinity.device = Device(o) /\ Young(affinity.at)
    \/ Young(co[o].read.routed)

\* awaitOnline answers: the worker is asked what it runs, or is not asked yet.
Reconnected(o) ==
    /\ phase[o] = "awaiting_worker" /\ Device(o) \in online
    /\ Advance(o, IF Unsettled(o) THEN "failed" ELSE "reconciling")
    /\ UNCHANGED <<runs, claims, online, queue, worker, time>>

\* querySessions answers.  A worker that declares the session keeps it, one whose
\* session has ended included.
Answered(o) ==
    /\ phase[o] = "reconciling" /\ Device(o) \in online
    /\ IF Device(o) \in attached
       THEN Advance(o, "recovered")
       ELSE /\ phase' = [phase EXCEPT ![o] = "replaying"]
            /\ co' = [co EXCEPT ![o].seen = work[Device(o)]]
    /\ UNCHANGED <<runs, claims, online, queue, worker, time>>

\* Faulty variant: no answer is read as "running nothing".
TimeoutAnswers(o) ==
    /\ phase[o] \in {"awaiting_worker", "reconciling"}
    /\ Advance(o, IF phase[o] = "reconciling" THEN "replaying" ELSE "failed")
    /\ UNCHANGED <<runs, claims, online, queue, worker, time>>

\* No reconnect in time, or no answer: nothing is disproved.
Timeout(o) ==
    /\ phase[o] \in {"awaiting_worker", "reconciling"}
    /\ Advance(o, "failed")
    /\ UNCHANGED <<runs, claims, online, queue, worker, time>>

\* The deletes of both releases, scoped by device, and forgetSessionOwnership.
Release(d) ==
    /\ affinity' = IF affinity.device = d THEN NoAffinity ELSE affinity
    /\ lock' = Without(lock, d)
    /\ grace' = Without(grace, d)
    /\ park' = Without(park, d)

\* recheck reads the run again.
AfterReplay(o) == runs[co[o].run]

\* Faulty variant: the rows of the session are taken for the ended run's own.
SupersededNever(o) == FALSE

\* releaseEndedRunOwnership declines: the session has a newer run.
Superseded(o) == co[o].run # Last

Held(d) == d \in {affinity.device, lock, grace}

\* Faulty variant: a run that has ended is taken to own nothing.
ResidualNone(o) == Advance(o, "recovered") /\ UNCHANGED <<runs, claims>>

\* releaseResidualOwnership: the run ended while it was being reconciled.
Residual(o) ==
    /\ UNCHANGED runs
    /\ IF Held(Device(o)) /\ ~ Superseded(o)
       THEN Release(Device(o)) /\ Advance(o, "recovered")
       ELSE UNCHANGED claims /\ Advance(o, IF Held(Device(o)) THEN "refused" ELSE "recovered")

\* describeRunFactsChange, and the devices of the claims
Moved(o) ==
    \/ AfterReplay(o) # co[o].read \/ co[o].posted
    \/ {affinity.device, lock} \ {Device(o), NoDevice} # {}

\* releaseStaleRunOwnership: the claims go and the outcome is unknown, at once.
ReleaseStale(o) ==
    /\ Release(Device(o))
    /\ runs' = [runs EXCEPT ![co[o].run].state = "unknown"]
    /\ Advance(o, "recovered")

\* The replay window closes: what follows has no await in it, settle included.
Replayed(o) ==
    /\ phase[o] = "replaying"
    /\ IF Ended(AfterReplay(o)) THEN Residual(o)
       ELSE IF Moved(o)
       THEN Advance(o, "refused") /\ UNCHANGED <<runs, claims>>
       ELSE ReleaseStale(o)
    /\ UNCHANGED <<online, queue, worker, time>>

\* Faulty variant: operations under way are left as they are.
FailInterruptedNot == phase

\* failInterruptedOperations, at the start of the next router process
FailInterrupted ==
    [o \in Ops |-> IF phase[o] \in InFlight THEN "failed" ELSE phase[o]]

\* The router restarts: sockets, parks and coordinators are gone.
Restart ==
    /\ online' = {} /\ park' = NoDevice
    /\ phase' = FailInterrupted
    /\ co' = [o \in Ops |-> NoCoordinator]
    /\ UNCHANGED <<runs, affinity, lock, grace, queue, worker, time>>

---------------------------------------------------------------------------
\* Only a live coordinator advances its operation.
OpStep(o) ==
    co[o] # NoCoordinator /\ (
    \/ \E ok \in BOOLEAN : Booted(o, ok)
    \/ Reconnected(o) \/ Answered(o) \/ Timeout(o) \/ Replayed(o) )

Next ==
    \/ \E d \in Devices :
         \/ Route(d) \/ Connect(d) \/ Deliver(d) \/ SweepDark(d)
         \/ SessionStarts(d) \/ SessionEnds(d) \/ TerminalFrame(d)
         \/ \E s \in {"waiting", "asking"}, mayPark \in BOOLEAN : WaitingFrame(d, s, mayPark)
         \/ UnparkFrame(d) \/ Progress(d) \/ WorkerStops(d) \/ SocketLost(d)
    \/ GraceLapses \/ Tick \/ Restart
    \/ \E o \in Ops : Request(o) \/ OpStep(o)

Spec == Init /\ [][Next]_vars

\* Boots return, and the reconnect, the query and the replay window have timers.
FairSpec == Spec /\ \A o \in Ops : WF_vars(OpStep(o))

---------------------------------------------------------------------------
\* The run tables are well-formed, and an operation under way was accepted for a
\* run that had not ended, on a container.
TypeOK ==
    /\ runs \in Seq(Run) /\ runs # <<>>
    /\ affinity \in [device : DeviceOrNone, at : 0..MaxClock]
    /\ lock \in DeviceOrNone /\ grace \in DeviceOrNone /\ park \in DeviceOrNone
    /\ online \subseteq Devices
    /\ queue \subseteq Devices /\ frame \subseteq Devices
    /\ work \in [Devices -> {"idle", "inbox", "busy"}]
    /\ {d \in Devices : work[d] = "busy"} \subseteq attached /\ attached \subseteq Devices
    /\ phase \in [Ops -> {"none"} \cup InFlight \cup Outcomes]
    /\ co \in [Ops -> Coordinator \cup {NoCoordinator}]
    /\ \A o \in Ops : co[o] # NoCoordinator =>
         co[o].run \in 1..Last /\ ~ Ended(co[o].read) /\ Device(o) \in Containers
    /\ clock \in 1..MaxClock /\ old \in 0..clock

\* Operation o gives up a live run: its outcome becomes unknown.
GivesUp(o) ==
    /\ phase[o] = "replaying" /\ phase'[o] = "recovered"
    /\ ~ Ended(runs[co[o].run]) /\ Ended(runs'[co[o].run])

\* Operation o takes the affinity or the lock away.
Takes(o) == phase[o] # phase'[o] /\ <<affinity, lock>> # <<affinity', lock'>>

\* Recovery gives up a live run only when its worker has nothing of the session:
\* no event on its way, and no session started since the worker was asked.  The
\* one exception is an event the worker had acknowledged and not started when it
\* answered (RouterRunReconciler.reconcile, describeUnsettledWork, recheck).
ReleaseSparesWork ==
    [][\A o \in Ops : GivesUp(o) =>
         /\ Device(o) \notin queue
         /\ work[Device(o)] = "idle" \/ co[o].seen = "inbox"]_vars

\* Affinity and lock are never taken from a live run: the run is over when they
\* go, and it is the session's last one (releaseStaleRunOwnership,
\* releaseEndedRunOwnership).
LiveRunKeepsClaims ==
    [][\A o \in Ops : Takes(o) => Ended(runs'[Len(runs')])]_vars

\* The outcome a worker reported is never overwritten, by recovery or anything
\* else: a terminal frame that replays into the window wins.
OutcomeKept ==
    [][\A r \in 1..Last : runs[r].state = "ended" => runs'[r].state = "ended"]_vars

\* An operation that reports "recovered" leaves no claim of the recovered device
\* on a session whose run is over, unless the worker declares the session.
RecoveredMeansFree ==
    [][\A o \in Ops :
         /\ phase[o] \in InFlight /\ phase'[o] = "recovered"
         /\ Ended(runs'[Last])
         => \/ Device(o) \notin {affinity'.device, lock', grace'}
            \/ Device(o) \in attached]_vars

\* No client polls for ever: every operation gets its outcome, also across a
\* restart of the router (failInterruptedOperations).
EveryOperationSettles ==
    \A o \in Ops : phase[o] \in InFlight ~> phase[o] \in Outcomes

=============================================================================
