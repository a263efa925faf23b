-------------------------- MODULE SessionOwnership --------------------------
(***************************************************************************)
(* Who owns an agent session.                                              *)
(*                                                                         *)
(* The router lets a device post to a Linear session, park it or finish it *)
(* only while the device owns the session.  Ownership is read from three   *)
(* tables of RouterStore (session_affinity, issue_locks and               *)
(* session_ownership_grace, in that order) and one in-memory map of        *)
(* EventRouter (parkedSessionCreators), and it is written by webhooks, by  *)
(* the session_state frames of devices, by reconnects, by the periodic     *)
(* sweep and by operators.                                                 *)
(*                                                                         *)
(* A device's frame names a session the router cannot validate, so every   *)
(* online device may here send any session_state for any session.  Clocks  *)
(* are abstracted to the choices they decide: whether a grace has lapsed,  *)
(* whether an affinity row is young, whether a device has been dark long   *)
(* enough, whether a queued event has expired.                             *)
(***************************************************************************)
EXTENDS FiniteSets

CONSTANTS
    Sessions,     \* Linear agent sessions
    Issues,       \* Linear issues
    Devices,      \* device ids; an id is never issued twice
    Containers,   \* the ids that are container devices
    NoDevice,     \* SQL NULL / undefined
    IssueOf,      \* the issue of each session
    IssueLock     \* config.issueLock

ASSUME SessionsAssumption == IssueOf \in [Sessions -> Issues]
ASSUME DevicesAssumption == NoDevice \notin Devices /\ Containers \subseteq Devices
ASSUME IssueLockAssumption == IssueLock \in BOOLEAN

VARIABLES
    enrolled,  \* devices rows
    retired,   \* ids whose row was deleted
    online,    \* devices with an authenticated socket; survives their row
    affinity,  \* session_affinity: session -> device
    locks,     \* issue_locks rows
    grace,     \* session_ownership_grace: session -> device, unlapsed rows
    issueAff,  \* issue_affinity: issue -> device
    run,       \* latest agent_runs row of each session: [state, device]
    queued,    \* undelivered events rows: [device, session, kind]
    park,      \* parkedSessionCreators: session -> device (in memory)
    sweeping,  \* rows expireEvents returned and the sweep has not handled yet
    created,   \* sessions whose created webhook was claimed (webhook_claims)
    everRouted,\* history: the devices each session was routed to
    recovered  \* history: [session, device] released by recovery, not routed since

devices == <<enrolled, retired, online>>
claims  == <<affinity, locks, grace, park>>
history == <<everRouted, recovered>>
vars == <<devices, claims, issueAff, run, queued, sweeping, created, history>>

DeviceOrNone == Devices \cup {NoDevice}
LockRow == [issue : Issues, session : Sessions, device : Devices]
EventRow == [device : Devices, session : Sessions, kind : {"created", "prompted"}]
Claim == [session : Sessions, device : Devices]

\* The three terminal states a device reports differ only in what is recorded:
\* they are one state here.
NonTerminal == {"routed", "active", "waiting"}
RunState == {"none", "ended", "unknown"} \cup NonTerminal
Run == [state : RunState, device : DeviceOrNone]

---------------------------------------------------------------------------
(* RouterStore *)

\* getIssueLockDeviceForSession
LockDevice(s) ==
    IF \E l \in locks : l.session = s
    THEN (CHOOSE l \in locks : l.session = s).device
    ELSE NoDevice

\* getSessionOwner: affinity, else the issue lock, else an unlapsed grace.
GetSessionOwner(s) ==
    IF affinity[s] # NoDevice THEN affinity[s]
    ELSE IF LockDevice(s) # NoDevice THEN LockDevice(s)
    ELSE grace[s]

\* releaseIssueLockForSession
WithoutLockOf(rows, s) == {l \in rows : l.session # s}

\* markAgentRunUnknown: only a run that has not ended.
MarkUnknown(runs, ss) ==
    [s \in Sessions |->
        IF s \in ss /\ runs[s].state \in NonTerminal
        THEN [runs[s] EXCEPT !.state = "unknown"]
        ELSE runs[s]]

\* setAgentRunState: only a run that has not ended.
SetRunState(runs, s, state) ==
    IF runs[s].state \in NonTerminal
    THEN [runs EXCEPT ![s].state = state]
    ELSE runs

\* finishAgentRun: a live run, or one whose outcome was given up as unknown.
FinishRun(runs, s) ==
    IF runs[s].state \in NonTerminal \cup {"unknown"}
    THEN [runs EXCEPT ![s].state = "ended"]
    ELSE runs

\* recordAgentRunRouted: joins the live run, else starts a new one.
RunRouted(runs, s, d) ==
    [runs EXCEPT ![s] =
        [state |-> IF runs[s].state \in NonTerminal THEN runs[s].state ELSE "routed",
         device |-> d]]

\* Drops every value d of f.
Forget(f, d) == [x \in DOMAIN f |-> IF f[x] = d THEN NoDevice ELSE f[x]]

\* Faulty variant: the locks of the device are left behind.
PurgeDeviceKeepsLocks(d) ==
    /\ run' = MarkUnknown(run, {s \in Sessions : run[s].device = d})
    /\ locks' = locks
    /\ issueAff' = Forget(issueAff, d)
    /\ affinity' = Forget(affinity, d)
    /\ grace' = Forget(grace, d)

\* purgeDeviceScopedRows
PurgeDevice(d) ==
    /\ run' = MarkUnknown(run, {s \in Sessions : run[s].device = d})
    /\ locks' = {l \in locks : l.device # d}
    /\ issueAff' = Forget(issueAff, d)
    /\ affinity' = Forget(affinity, d)
    /\ grace' = Forget(grace, d)

---------------------------------------------------------------------------
(* Routing *)

Init ==
    /\ enrolled \in SUBSET Devices /\ retired = {} /\ online = {}
    /\ affinity = [s \in Sessions |-> NoDevice]
    /\ locks = {}
    /\ grace = [s \in Sessions |-> NoDevice]
    /\ park = [s \in Sessions |-> NoDevice]
    /\ issueAff = [i \in Issues |-> NoDevice]
    /\ run = [s \in Sessions |-> [state |-> "none", device |-> NoDevice]]
    /\ queued = {} /\ sweeping = {} /\ created = {}
    /\ everRouted = [s \in Sessions |-> {}]
    /\ recovered = {}

\* resolveTarget, for a webhook of s whose creator's own device is c: session
\* affinity, else c, else issue affinity.  (The parent-issue fallback never
\* fires: no webhook carries a parent issue id.)
Known(d) == IF d \in enrolled THEN d ELSE NoDevice

ResolveTarget(s, c) ==
    IF Known(affinity[s]) # NoDevice THEN affinity[s]
    ELSE IF c # NoDevice THEN c
    ELSE Known(issueAff[IssueOf[s]])

\* An affinity row found to point at a deleted device is healed on the way.
\* (Issue affinity rows go with their device, so that heal has nothing to do.)
DanglingAffinity(s) == affinity[s] # NoDevice /\ affinity[s] \notin enrolled

HealedRun(s) == IF DanglingAffinity(s) THEN MarkUnknown(run, {s}) ELSE run

\* acquireIssueLock: free, or already this session's (the row's device is kept).
LockFree(s) == \A l \in locks : l.issue = IssueOf[s] => l.session = s

LockTaken(s, d) ==
    IF \E l \in locks : l.issue = IssueOf[s]
    THEN locks
    ELSE locks \cup {[issue |-> IssueOf[s], session |-> s, device |-> d]}

\* What both kinds of event do once a target d is found: affinity, issue
\* affinity, enqueueEvent and recordAgentRunRouted, in one synchronous stretch.
AssignTo(s, d, kind) ==
    /\ affinity' = [affinity EXCEPT ![s] = d]
    /\ issueAff' = [issueAff EXCEPT ![IssueOf[s]] = d]
    /\ queued' = queued \cup {[device |-> d, session |-> s, kind |-> kind]}
    /\ run' = RunRouted(HealedRun(s), s, d)
    /\ everRouted' = [everRouted EXCEPT ![s] = @ \cup {d}]
    /\ recovered' = recovered \ {[session |-> s, device |-> d]}
    /\ UNCHANGED <<devices, grace, park, sweeping>>

\* routeCreated, from target resolution on.  claimWebhook lets one delivery of a
\* webhook through.
RouteCreated(s, c) ==
    LET d == ResolveTarget(s, c)
    IN /\ s \notin created /\ d # NoDevice
       /\ IssueLock => LockFree(s)
       /\ created' = created \cup {s}
       /\ locks' = IF IssueLock THEN LockTaken(s, d) ELSE locks
       /\ AssignTo(s, d, "created")

\* routeCreated turned away: no target, or the issue is locked.
RefuseCreated(s, c) ==
    /\ s \notin created
    /\ ResolveTarget(s, c) = NoDevice \/ (IssueLock /\ ~ LockFree(s))
    /\ created' = created \cup {s}
    /\ UNCHANGED <<devices, claims, issueAff, run, queued, sweeping, history>>

\* routePrompted by the session's creator, for a session Linear has created.  No
\* lock is taken.
RoutePrompted(s, c) ==
    LET d == ResolveTarget(s, c)
    IN /\ s \in created /\ d # NoDevice
       /\ created' = created
       /\ locks' = locks
       /\ AssignTo(s, d, "prompted")

\* routePrompted turned away (no target, or another actor prompts): what
\* resolveTarget healed stays healed.
RefusePrompted(s) ==
    /\ s \in created /\ DanglingAffinity(s)
    /\ affinity' = [affinity EXCEPT ![s] = NoDevice]
    /\ run' = HealedRun(s)
    /\ UNCHANGED <<devices, locks, grace, park, issueAff, queued, sweeping, created,
                   history>>

---------------------------------------------------------------------------
(* EventRouter.handleSessionState: a frame for s from device d.  The socket  *)
(* carries the device id it authenticated with, even once the row is gone.   *)

\* Faulty variant: the sender is trusted.
MayParkUngated(d, s) == TRUE

\* A park or a wait is refused unless the sender owns the session.
MayPark(d, s) == GetSessionOwner(s) = d

\* "waiting" with no permission to park the executor: only the run is marked.
Waiting(d, s) ==
    /\ d \in online /\ MayPark(d, s)
    /\ run' = SetRunState(run, s, "waiting")
    /\ UNCHANGED <<devices, claims, issueAff, queued, sweeping, created, history>>

\* "parked", or "waiting" with executorMayPark.
Parked(d, s) ==
    /\ d \in online /\ MayPark(d, s)
    /\ run' = SetRunState(run, s, "waiting")
    /\ park' = [park EXCEPT ![s] = d]
    /\ grace' = [grace EXCEPT ![s] = d]
    /\ affinity' = [affinity EXCEPT ![s] = NoDevice]
    /\ UNCHANGED <<devices, locks, issueAff, queued, sweeping, created, history>>

\* "active" with no park on record: the run is marked, nothing is granted.
ActiveUnparked(d, s) ==
    /\ d \in online /\ park[s] = NoDevice
    /\ GetSessionOwner(s) = d
    /\ run' = SetRunState(run, s, "active")
    /\ UNCHANGED <<devices, claims, issueAff, queued, sweeping, created, history>>

\* "active" for a park on record: only the device that parked may unpark.
ActiveUnpark(d, s) ==
    /\ d \in online /\ park[s] = d
    /\ park' = [park EXCEPT ![s] = NoDevice]
    /\ affinity' = [affinity EXCEPT ![s] = d]
    /\ grace' = [grace EXCEPT ![s] = NoDevice]
    /\ run' = SetRunState(run, s, "active")
    /\ UNCHANGED <<devices, locks, issueAff, queued, sweeping, created, history>>

\* A terminal state: the grace goes to the owner only, a park is retired by the
\* parker only, and lock and affinity are released whoever asks.
Finished(d, s) ==
    /\ d \in online
    /\ park' = [park EXCEPT ![s] = IF @ = d THEN NoDevice ELSE @]
    /\ run' = FinishRun(run, s)
    /\ grace' = [grace EXCEPT ![s] = IF GetSessionOwner(s) = d THEN d ELSE @]
    /\ locks' = WithoutLockOf(locks, s)
    /\ affinity' = [affinity EXCEPT ![s] = NoDevice]
    /\ UNCHANGED <<devices, issueAff, queued, sweeping, created, history>>

---------------------------------------------------------------------------
(* Reconnects, sweeps and operators *)

\* reconcileDeviceLocks: skipped without locking and while d has undelivered
\* events, else every lock of d whose session d does not declare.
Reclaimable(d, declared) ==
    IF IssueLock /\ ~ \E q \in queued : q.device = d
    THEN {l.session : l \in {x \in locks : x.device = d /\ x.session \notin declared}}
    ELSE {}

\* reconcileDeviceAffinity: undeclared rows of d that are not young.
StaleAffinity(d, declared, young) ==
    {s \in Sessions : affinity[s] = d /\ s \notin declared \cup young}

\* handleHello of a device that declares its sessions: both reconcilers run to
\* their last write before anything else does.
Connect(d, declared, young) ==
    LET reclaimed == Reclaimable(d, declared)
        stale == StaleAffinity(d, declared, young) \ reclaimed
    IN /\ d \in enrolled
       /\ online' = online \cup {d}
       /\ run' = MarkUnknown(run, reclaimed \cup stale)
       /\ locks' = {l \in locks : l.session \notin reclaimed}
       /\ affinity' = [s \in Sessions |->
                         IF s \in reclaimed \cup stale THEN NoDevice ELSE affinity[s]]
       /\ UNCHANGED <<enrolled, retired, grace, park, issueAff, queued, sweeping,
                      created, history>>

\* The same from a client too old to declare its sessions: nothing is reclaimed.
ConnectSilent(d) ==
    /\ d \in enrolled \ online
    /\ online' = online \cup {d}
    /\ UNCHANGED <<enrolled, retired, claims, issueAff, run, queued, sweeping, created, history>>

Disconnect(d) ==
    /\ d \in online
    /\ online' = online \ {d}
    /\ UNCHANGED <<enrolled, retired, claims, issueAff, run, queued, sweeping, created, history>>

\* The container sweep asks a connected device what it runs.
ReconcileAffinity(d, declared, young) ==
    LET stale == StaleAffinity(d, declared, young)
    IN /\ d \in online /\ stale # {}
       /\ run' = MarkUnknown(run, stale)
       /\ affinity' = [s \in Sessions |-> IF s \in stale THEN NoDevice ELSE affinity[s]]
       /\ UNCHANGED <<devices, locks, grace, park, issueAff, queued, sweeping, created, history>>

\* The device acks an event.
AckEvent(q) ==
    /\ q \in queued /\ q.device \in online
    /\ queued' = queued \ {q}
    /\ UNCHANGED <<devices, claims, issueAff, run, sweeping, created, history>>

\* sweepExpired, pass 1: the row is deleted, then the user is told over the
\* network, and only then the session of a created event is released.
ExpireEvent(q) ==
    /\ q \in queued
    /\ queued' = queued \ {q}
    /\ sweeping' = sweeping \cup {q}
    /\ UNCHANGED <<devices, claims, issueAff, run, created, history>>

ReleaseExpired(q) ==
    /\ q \in sweeping
    /\ sweeping' = sweeping \ {q}
    /\ IF q.kind = "created"
       THEN /\ run' = MarkUnknown(run, {q.session})
            /\ locks' = WithoutLockOf(locks, q.session)
            /\ affinity' = [affinity EXCEPT ![q.session] = NoDevice]
       ELSE UNCHANGED <<run, locks, affinity>>
    /\ UNCHANGED <<devices, grace, park, issueAff, queued, created, history>>

\* sweepExpired, pass 2: a device dark past the TTL.  A container that was
\* routed to within the TTL is spared, and every event queued for it is younger
\* than that.
SweepDark(d) ==
    /\ d \in enrolled \ online
    /\ d \in Containers => ~ \E q \in queued : q.device = d
    /\ PurgeDevice(d)
    /\ UNCHANGED <<devices, park, queued, sweeping, created, history>>

\* expires_ms of a grace passes: every read treats the row as absent, and the
\* first one, or the sweep, deletes it.
GraceLapses(s) ==
    /\ grace[s] # NoDevice
    /\ grace' = [grace EXCEPT ![s] = NoDevice]
    /\ UNCHANGED <<devices, affinity, locks, park, issueAff, run, queued, sweeping,
                   created, history>>

\* redeemEnrollmentCode or createContainerDevice: a fresh id.
Enroll(d) ==
    /\ d \notin enrolled \cup retired
    /\ enrolled' = enrolled \cup {d}
    /\ UNCHANGED <<retired, online, claims, issueAff, run, queued, sweeping, created, history>>

\* "devices revoke", re-enrolment, removeUser, deleteContainerDevice: the rows of
\* the device are purged, its row goes, and its events with it.  An open socket
\* stays registered.
RemoveDevice(d) ==
    /\ d \in enrolled
    /\ PurgeDevice(d)
    /\ enrolled' = enrolled \ {d} /\ retired' = retired \cup {d}
    /\ queued' = {q \in queued : q.device # d}
    /\ UNCHANGED <<online, park, sweeping, created, history>>

\* "cyrus router unlock"
Unlock(i) ==
    /\ \E l \in locks : l.issue = i
    /\ locks' = {l \in locks : l.issue # i}
    /\ UNCHANGED <<devices, affinity, grace, park, issueAff, run, queued, sweeping,
                   created, history>>

\* Faulty variant: recovery leaves the in-memory park behind.
ForgetSessionOwnershipNot(s, d) == park' = park

\* forgetSessionOwnership: recovery also retires the park of that device.
ForgetSessionOwnership(s, d) == park' = [park EXCEPT ![s] = IF @ = d THEN NoDevice ELSE @]

\* The three deletes recovery makes, each scoped to session and device.
ReleaseClaims(s, d) ==
    /\ affinity' = [affinity EXCEPT ![s] = IF @ = d THEN NoDevice ELSE @]
    /\ locks' = {l \in locks : l.session # s \/ l.device # d}
    /\ grace' = [grace EXCEPT ![s] = IF @ = d THEN NoDevice ELSE @]
    /\ ForgetSessionOwnership(s, d)
    /\ recovered' = recovered \cup {[session |-> s, device |-> d]}

\* releaseStaleRunOwnership, once the connected worker d does not report s: a
\* live run still on d, and no claim that has moved to another device.
RecoverStale(s, d) ==
    /\ d \in online
    /\ run[s].state \in NonTerminal /\ run[s].device = d
    /\ affinity[s] \in {d, NoDevice} /\ LockDevice(s) \in {d, NoDevice}
    /\ ReleaseClaims(s, d)
    /\ run' = MarkUnknown(run, {s})
    /\ UNCHANGED <<devices, issueAff, queued, sweeping, created, everRouted>>

\* releaseEndedRunOwnership: the latest run of s has ended and d still has a
\* claim on s.
RecoverEnded(s, d) ==
    /\ d \in online
    /\ run[s].state \in {"ended", "unknown"} /\ run[s].device = d
    /\ d \in {affinity[s], LockDevice(s), grace[s]}
    /\ ReleaseClaims(s, d)
    /\ UNCHANGED <<devices, issueAff, run, queued, sweeping, created, everRouted>>

\* The router process restarts: its maps, its sockets and a sweep under way are
\* gone, the database stays.
RouterRestart ==
    /\ online' = {} /\ sweeping' = {}
    /\ park' = [s \in Sessions |-> NoDevice]
    /\ UNCHANGED <<enrolled, retired, affinity, locks, grace, issueAff, run, queued,
                   created, history>>

---------------------------------------------------------------------------

WebhookStep ==
    \E s \in Sessions :
        \/ \E c \in enrolled \cup {NoDevice} :
              RouteCreated(s, c) \/ RefuseCreated(s, c) \/ RoutePrompted(s, c)
        \/ RefusePrompted(s)

FrameStep ==
    \E d \in Devices, s \in Sessions :
        \/ Waiting(d, s) \/ Parked(d, s)
        \/ ActiveUnparked(d, s) \/ ActiveUnpark(d, s)
        \/ Finished(d, s)

ConnectionStep ==
    \E d \in Devices :
        \/ \E declared, young \in SUBSET Sessions :
              Connect(d, declared, young) \/ ReconcileAffinity(d, declared, young)
        \/ ConnectSilent(d) \/ Disconnect(d)

SweepStep ==
    \/ \E q \in queued : AckEvent(q) \/ ExpireEvent(q)
    \/ \E q \in sweeping : ReleaseExpired(q)
    \/ \E s \in Sessions : GraceLapses(s)
    \/ \E d \in Devices : SweepDark(d)

OperatorStep ==
    \/ \E d \in Devices : Enroll(d) \/ RemoveDevice(d)
    \/ \E s \in Sessions, d \in Devices : RecoverStale(s, d) \/ RecoverEnded(s, d)
    \/ \E i \in Issues : Unlock(i)
    \/ RouterRestart

\* No operator at work: what webhooks, devices and clocks do by themselves.
UnattendedNext == WebhookStep \/ FrameStep \/ ConnectionStep \/ SweepStep

Next == UnattendedNext \/ OperatorStep

Spec == Init /\ [][Next]_vars
UnattendedSpec == Init /\ [][UnattendedNext]_vars

\* The sweep timer keeps firing.  Nothing is assumed of devices or webhooks.
FairSpec == Spec /\ \A d \in Devices : WF_vars(SweepDark(d))

---------------------------------------------------------------------------
(* Properties *)

\* The ownership tables only ever name known sessions and devices, and every
\* run row has a state and a device column.
TypeOK ==
    /\ enrolled \subseteq Devices /\ retired \subseteq Devices
    /\ online \subseteq Devices
    /\ affinity \in [Sessions -> DeviceOrNone]
    /\ locks \subseteq LockRow
    /\ grace \in [Sessions -> DeviceOrNone]
    /\ park \in [Sessions -> DeviceOrNone]
    /\ issueAff \in [Issues -> DeviceOrNone]
    /\ run \in [Sessions -> Run]
    /\ queued \subseteq EventRow /\ sweeping \subseteq EventRow
    /\ created \subseteq Sessions
    /\ everRouted \in [Sessions -> SUBSET Devices]
    /\ recovered \subseteq Claim

\* Ownership only ever comes from routing: whatever frames devices send, in
\* whatever order, every claim on a session (affinity, lock, grace, park) is of a
\* device a webhook of that session was once routed to.
ClaimsWereRouted ==
    /\ \A s \in Sessions :
          {affinity[s], grace[s], park[s]} \subseteq everRouted[s] \cup {NoDevice}
    /\ \A l \in locks : l.device \in everRouted[l.session]

\* Recovery is final: a device whose ownership of a session was released by
\* guarded recovery owns it by no route, and has no park to redeem, until a
\* webhook is routed to it again.
RecoveredStaysReleased ==
    \A c \in recovered :
        /\ GetSessionOwner(c.session) # c.device
        /\ park[c.session] # c.device

\* The lock of an issue does not outlive its device: if a laptop that holds a
\* lock goes dark and stays dark, the lock is gone in the end.
StrandedLockFreed ==
    \A d \in Devices \ Containers :
        (\E l \in locks : l.device = d /\ d \notin online)
            ~> (d \in online \/ \A l \in locks : l.device # d)

=============================================================================
