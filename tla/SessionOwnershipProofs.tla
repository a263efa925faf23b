----------------------- MODULE SessionOwnershipProofs -----------------------
(***************************************************************************)
(* Proofs about SessionOwnership, for any numbers of sessions, issues and  *)
(* devices and with or without issue locking.                              *)
(***************************************************************************)
EXTENDS SessionOwnership, TLAPS

\* A device the session was released from by recovery holds none of the four
\* claims, hidden or not: the inductive form of RecoveredStaysReleased, which
\* reads only the claim getSessionOwner finds first.
NoClaimLeft ==
    \A c \in recovered :
        /\ affinity[c.session] # c.device
        /\ grace[c.session] # c.device
        /\ park[c.session] # c.device
        /\ \A l \in locks : l.session = c.session => l.device # c.device

IInv == TypeOK /\ ClaimsWereRouted /\ NoClaimLeft

---------------------------------------------------------------------------

\* An owner found by getSessionOwner holds one of the three claims it reads.
LEMMA OwnerHasClaim ==
    ASSUME TypeOK, NEW s \in Sessions, NEW d \in Devices, GetSessionOwner(s) = d
    PROVE  \/ affinity[s] = d \/ grace[s] = d
           \/ \E l \in locks : l.session = s /\ l.device = d
<1>1. CASE affinity[s] # NoDevice
  BY <1>1 DEF GetSessionOwner
<1>2. CASE affinity[s] = NoDevice /\ LockDevice(s) # NoDevice
  <2>1. LockDevice(s) = d
    BY <1>2 DEF GetSessionOwner
  <2>2. \E l \in locks : l.session = s
    BY <1>2 DEF LockDevice
  <2>3. QED
    BY <2>1, <2>2 DEF LockDevice
<1>3. CASE affinity[s] = NoDevice /\ LockDevice(s) = NoDevice
  BY <1>3 DEF GetSessionOwner
<1>4. QED
  BY <1>1, <1>2, <1>3

\* Marking runs unknown keeps the run table a run table.
LEMMA MarkUnknownType ==
    ASSUME NEW runs \in [Sessions -> Run], NEW ss
    PROVE  MarkUnknown(runs, ss) \in [Sessions -> Run]
BY DEF MarkUnknown, Run, RunState, NonTerminal

\* The other run operators keep the run table a run table.
LEMMA RunOps ==
    ASSUME NEW runs \in [Sessions -> Run], NEW s \in Sessions
    PROVE  /\ \A st \in {"active", "waiting"} : SetRunState(runs, s, st) \in [Sessions -> Run]
           /\ FinishRun(runs, s) \in [Sessions -> Run]
           /\ \A d \in Devices : RunRouted(runs, s, d) \in [Sessions -> Run]
<1>2. \A st \in {"active", "waiting"} : SetRunState(runs, s, st) \in [Sessions -> Run]
  BY DEF SetRunState, Run, RunState, NonTerminal
<1>3. FinishRun(runs, s) \in [Sessions -> Run]
  BY DEF FinishRun, Run, RunState, NonTerminal
<1>4. \A d \in Devices : RunRouted(runs, s, d) \in [Sessions -> Run]
  BY DEF RunRouted, Run, RunState, NonTerminal, DeviceOrNone
<1>5. QED
  BY <1>2, <1>3, <1>4

\* Nobody owns anything before the first webhook.
LEMMA InitIInv == Init => IInv
BY DevicesAssumption DEF Init, IInv, TypeOK, ClaimsWereRouted, NoClaimLeft, DeviceOrNone,
   Run, RunState

---------------------------------------------------------------------------
(* Preservation, one lemma per group of actions. *)

\* Routing adds the device to the history before it gains a claim.
LEMMA WebhookKeepsIInv ==
    ASSUME IInv, WebhookStep
    PROVE  IInv'
<1>1. PICK s \in Sessions :
        \/ \E c \in enrolled \cup {NoDevice} :
              RouteCreated(s, c) \/ RefuseCreated(s, c) \/ RoutePrompted(s, c)
        \/ RefusePrompted(s)
  BY DEF WebhookStep
<1> USE DEF IInv
<1>2. ASSUME NEW c \in enrolled \cup {NoDevice}, NEW kind \in {"created", "prompted"},
             ResolveTarget(s, c) # NoDevice,
             locks' = locks \/ locks' = LockTaken(s, ResolveTarget(s, c)),
             created' \subseteq Sessions,
             AssignTo(s, ResolveTarget(s, c), kind)
      PROVE  IInv'
  <2> DEFINE d == ResolveTarget(s, c)
  <2>1. d \in Devices
    BY <1>2 DEF TypeOK, ResolveTarget, Known, DeviceOrNone
  <2>2. HealedRun(s) \in [Sessions -> Run]
    BY MarkUnknownType DEF TypeOK, HealedRun
  <2>3. run' \in [Sessions -> Run]
    BY <1>2, <2>1, <2>2, RunOps DEF AssignTo
  <2>4. locks' \subseteq locks \cup {[issue |-> IssueOf[s], session |-> s, device |-> d]}
    BY <1>2 DEF LockTaken
  <2>5. TypeOK'
    <3>1. locks' \subseteq LockRow
      BY <2>1, <2>4, SessionsAssumption DEF TypeOK, LockRow
    <3>2. /\ affinity' \in [Sessions -> DeviceOrNone]
          /\ issueAff' \in [Issues -> DeviceOrNone]
          /\ everRouted' \in [Sessions -> SUBSET Devices]
      BY <1>2, <2>1, SessionsAssumption DEF AssignTo, TypeOK, DeviceOrNone
    <3>3. queued' \subseteq EventRow
      BY <1>2, <2>1 DEF AssignTo, TypeOK, EventRow
    <3>4. QED
      BY <1>2, <2>3, <3>1, <3>2, <3>3 DEF AssignTo, TypeOK, devices
  <2>6. ClaimsWereRouted'
    BY <1>2, <2>1, <2>4 DEF AssignTo, TypeOK, ClaimsWereRouted, LockRow
  <2>7. NoClaimLeft'
    BY <1>2, <2>1, <2>4 DEF AssignTo, TypeOK, NoClaimLeft, LockRow, Claim
  <2>8. QED
    BY <2>5, <2>6, <2>7
<1>3. ASSUME NEW c \in enrolled \cup {NoDevice}, RouteCreated(s, c)
      PROVE  IInv'
  BY <1>2, <1>3 DEF RouteCreated, TypeOK
<1>4. ASSUME NEW c \in enrolled \cup {NoDevice}, RoutePrompted(s, c)
      PROVE  IInv'
  BY <1>2, <1>4 DEF RoutePrompted, TypeOK
<1>5. ASSUME NEW c \in enrolled \cup {NoDevice}, RefuseCreated(s, c)
      PROVE  IInv'
  BY <1>5 DEF RefuseCreated, TypeOK, ClaimsWereRouted, NoClaimLeft, devices, claims, history
<1>6. ASSUME RefusePrompted(s) PROVE IInv'
  <2>1. run' \in [Sessions -> Run]
    BY <1>6, MarkUnknownType DEF RefusePrompted, HealedRun, TypeOK
  <2>2. TypeOK'
    BY <1>6, <2>1 DEF RefusePrompted, TypeOK, DeviceOrNone, devices, history
  <2>3. ClaimsWereRouted'
    BY <1>6 DEF RefusePrompted, TypeOK, ClaimsWereRouted, history
  <2>4. NoClaimLeft'
    BY <1>6, DevicesAssumption DEF RefusePrompted, TypeOK, NoClaimLeft, Claim, history
  <2>5. QED
    BY <2>2, <2>3, <2>4
<1>7. QED
  BY <1>1, <1>3, <1>4, <1>5, <1>6

\* A session_state frame re-grants only what its sender had.
LEMMA FrameKeepsIInv ==
    ASSUME IInv, FrameStep
    PROVE  IInv'
<1>1. PICK d \in Devices, s \in Sessions :
        \/ Waiting(d, s) \/ Parked(d, s) \/ ActiveUnparked(d, s)
        \/ ActiveUnpark(d, s) \/ Finished(d, s)
  BY DEF FrameStep
<1> USE DEF IInv
<1>2. CASE Waiting(d, s) \/ ActiveUnparked(d, s)
  <2>1. run' \in [Sessions -> Run]
    BY <1>2, RunOps DEF Waiting, ActiveUnparked, TypeOK
  <2>2. QED
    BY <1>2, <2>1 DEF Waiting, ActiveUnparked, TypeOK, ClaimsWereRouted, NoClaimLeft,
                      devices, claims, history
<1>3. ASSUME GetSessionOwner(s) = d
      PROVE  /\ d \in everRouted[s]
             /\ [session |-> s, device |-> d] \notin recovered
  BY <1>3, OwnerHasClaim, DevicesAssumption DEF TypeOK, ClaimsWereRouted, NoClaimLeft
<1>4. CASE Parked(d, s)
  <2>1. run' \in [Sessions -> Run]
    BY <1>4, RunOps DEF Parked, TypeOK
  <2>2. GetSessionOwner(s) = d
    BY <1>4 DEF Parked, MayPark
  <2>3. TypeOK'
    BY <1>4, <2>1 DEF Parked, TypeOK, DeviceOrNone, devices, history
  <2>4. ClaimsWereRouted'
    BY <1>3, <1>4, <2>2 DEF Parked, TypeOK, ClaimsWereRouted, history
  <2>5. NoClaimLeft'
    BY <1>3, <1>4, <2>2, DevicesAssumption DEF Parked, TypeOK, NoClaimLeft, Claim, history
  <2>6. QED
    BY <2>3, <2>4, <2>5
<1>5. CASE ActiveUnpark(d, s)
  <2>1. run' \in [Sessions -> Run]
    BY <1>5, RunOps DEF ActiveUnpark, TypeOK
  <2>2. d \in everRouted[s] /\ [session |-> s, device |-> d] \notin recovered
    BY <1>5, DevicesAssumption DEF ActiveUnpark, ClaimsWereRouted, NoClaimLeft
  <2>3. TypeOK'
    BY <1>5, <2>1 DEF ActiveUnpark, TypeOK, DeviceOrNone, devices, history
  <2>4. ClaimsWereRouted'
    BY <1>5, <2>2 DEF ActiveUnpark, TypeOK, ClaimsWereRouted, history
  <2>5. NoClaimLeft'
    BY <1>5, <2>2, DevicesAssumption DEF ActiveUnpark, TypeOK, NoClaimLeft, Claim, history
  <2>6. QED
    BY <2>3, <2>4, <2>5
<1>6. CASE Finished(d, s)
  <2>1. run' \in [Sessions -> Run]
    BY <1>6, RunOps DEF Finished, TypeOK
  <2>2. TypeOK'
    BY <1>6, <2>1 DEF Finished, WithoutLockOf, TypeOK, DeviceOrNone, devices, history
  <2>3. ClaimsWereRouted'
    BY <1>3, <1>6 DEF Finished, WithoutLockOf, TypeOK, ClaimsWereRouted, history
  <2>4. NoClaimLeft'
    BY <1>3, <1>6, DevicesAssumption
    DEF Finished, WithoutLockOf, TypeOK, NoClaimLeft, Claim, history
  <2>5. QED
    BY <2>2, <2>3, <2>4
<1>7. QED
  BY <1>1, <1>2, <1>4, <1>5, <1>6

\* A step that only drops claims, and keeps the types, keeps the invariant.
LEMMA DroppingKeepsIInv ==
    ASSUME IInv, TypeOK', UNCHANGED everRouted, recovered' \subseteq recovered,
           locks' \subseteq locks,
           \A s \in Sessions : /\ affinity'[s] \in {affinity[s], NoDevice}
                               /\ grace'[s] \in {grace[s], NoDevice}
                               /\ park'[s] \in {park[s], NoDevice}
    PROVE  IInv'
<1>1. ClaimsWereRouted'
  BY DEF IInv, TypeOK, ClaimsWereRouted
<1>2. NoClaimLeft'
  BY DevicesAssumption DEF IInv, TypeOK, NoClaimLeft, Claim
<1>3. QED
  BY <1>1, <1>2 DEF IInv

\* A reconnect only takes claims away.
LEMMA ConnectionKeepsIInv ==
    ASSUME IInv, ConnectionStep
    PROVE  IInv'
<1>1. PICK d \in Devices :
        \/ \E declared, young \in SUBSET Sessions :
              Connect(d, declared, young) \/ ReconcileAffinity(d, declared, young)
        \/ ConnectSilent(d) \/ Disconnect(d)
  BY DEF ConnectionStep
<1> USE DEF IInv
<1>2. ASSUME NEW declared \in SUBSET Sessions, NEW young \in SUBSET Sessions,
             Connect(d, declared, young)
      PROVE  IInv'
  <2>2. run' \in [Sessions -> Run]
    BY <1>2, MarkUnknownType DEF Connect, TypeOK
  <2>3. TypeOK'
    BY <1>2, <2>2 DEF Connect, TypeOK, DeviceOrNone, history
  <2>4. QED
    BY <1>2, <2>3, DroppingKeepsIInv DEF Connect, TypeOK, history
<1>3. ASSUME NEW declared \in SUBSET Sessions, NEW young \in SUBSET Sessions,
             ReconcileAffinity(d, declared, young)
      PROVE  IInv'
  <2>1. run' \in [Sessions -> Run]
    BY <1>3, MarkUnknownType DEF ReconcileAffinity, TypeOK
  <2>2. TypeOK'
    BY <1>3, <2>1 DEF ReconcileAffinity, TypeOK, DeviceOrNone, devices, history
  <2>3. QED
    BY <1>3, <2>2, DroppingKeepsIInv DEF ReconcileAffinity, TypeOK, history
<1>4. CASE ConnectSilent(d) \/ Disconnect(d)
  BY <1>4 DEF ConnectSilent, Disconnect, TypeOK, ClaimsWereRouted, NoClaimLeft, claims,
              history
<1>5. QED
  BY <1>1, <1>2, <1>3, <1>4

\* purgeDeviceScopedRows keeps every table well typed and only drops claims.
LEMMA PurgeDrops ==
    ASSUME TypeOK, NEW d \in Devices, PurgeDevice(d)
    PROVE  /\ run' \in [Sessions -> Run]
           /\ locks' \subseteq locks
           /\ issueAff' \in [Issues -> DeviceOrNone]
           /\ affinity' \in [Sessions -> DeviceOrNone]
           /\ grace' \in [Sessions -> DeviceOrNone]
           /\ \A s \in Sessions : /\ affinity'[s] \in {affinity[s], NoDevice}
                                  /\ grace'[s] \in {grace[s], NoDevice}
<1>1. run' \in [Sessions -> Run]
  BY MarkUnknownType DEF PurgeDevice, TypeOK
<1>2. QED
  BY <1>1 DEF PurgeDevice, TypeOK, Forget, DeviceOrNone

\* The sweep only takes claims away.
LEMMA SweepKeepsIInv ==
    ASSUME IInv, SweepStep
    PROVE  IInv'
<1> USE DEF IInv
<1>1. ASSUME NEW q \in queued, AckEvent(q) \/ ExpireEvent(q) PROVE IInv'
  BY <1>1 DEF AckEvent, ExpireEvent, TypeOK, ClaimsWereRouted, NoClaimLeft, devices, claims,
              history
<1>2. ASSUME NEW q \in sweeping, ReleaseExpired(q) PROVE IInv'
  <2>1. run' \in [Sessions -> Run]
    BY <1>2, MarkUnknownType DEF ReleaseExpired, TypeOK
  <2>2. TypeOK'
    BY <1>2, <2>1 DEF ReleaseExpired, WithoutLockOf, TypeOK, DeviceOrNone, devices, history
  <2>3. QED
    BY <1>2, <2>2, DroppingKeepsIInv DEF ReleaseExpired, WithoutLockOf, TypeOK, history
<1>3. ASSUME NEW s \in Sessions, GraceLapses(s) PROVE IInv'
  <2>1. TypeOK'
    BY <1>3 DEF GraceLapses, TypeOK, DeviceOrNone, devices, history
  <2>2. QED
    BY <1>3, <2>1, DroppingKeepsIInv DEF GraceLapses, TypeOK, history
<1>4. ASSUME NEW d \in Devices, SweepDark(d) PROVE IInv'
  <2>1. TypeOK'
    BY <1>4, PurgeDrops DEF SweepDark, TypeOK, devices, history
  <2>2. QED
    BY <1>4, <2>1, PurgeDrops, DroppingKeepsIInv DEF SweepDark, history
<1>5. QED
  BY <1>1, <1>2, <1>3, <1>4 DEF SweepStep

\* Recovery takes every claim of the device away and says so.
LEMMA ReleaseKeepsClaimsParts ==
    ASSUME IInv, NEW s \in Sessions, NEW d \in Devices, ReleaseClaims(s, d),
           UNCHANGED everRouted
    PROVE  ClaimsWereRouted' /\ NoClaimLeft'
<1>1. ClaimsWereRouted'
  BY DEF ReleaseClaims, ForgetSessionOwnership, IInv, TypeOK, ClaimsWereRouted
<1>2. NoClaimLeft'
  BY DevicesAssumption
  DEF ReleaseClaims, ForgetSessionOwnership, IInv, TypeOK, NoClaimLeft, Claim
<1>3. QED
  BY <1>1, <1>2

\* Operators take claims away; recovery takes all of one device.
LEMMA OperatorKeepsIInv ==
    ASSUME IInv, OperatorStep
    PROVE  IInv'
<1> USE DEF IInv
<1>1. ASSUME NEW d \in Devices, Enroll(d) PROVE IInv'
  BY <1>1 DEF Enroll, TypeOK, ClaimsWereRouted, NoClaimLeft, claims, history
<1>2. ASSUME NEW d \in Devices, RemoveDevice(d) PROVE IInv'
  <2>1. TypeOK'
    BY <1>2, PurgeDrops DEF RemoveDevice, TypeOK, history
  <2>2. QED
    BY <1>2, <2>1, PurgeDrops, DroppingKeepsIInv DEF RemoveDevice, history
<1>3. ASSUME NEW s \in Sessions, NEW d \in Devices, RecoverStale(s, d) \/ RecoverEnded(s, d)
      PROVE  IInv'
  <2>1. run' \in [Sessions -> Run]
    BY <1>3, MarkUnknownType DEF RecoverStale, RecoverEnded, TypeOK
  <2>2. ReleaseClaims(s, d) /\ UNCHANGED everRouted
    BY <1>3 DEF RecoverStale, RecoverEnded
  <2>3. TypeOK'
    BY <1>3, <2>1, <2>2
    DEF RecoverStale, RecoverEnded, ReleaseClaims, ForgetSessionOwnership, TypeOK,
        DeviceOrNone, Claim, devices
  <2>4. QED
    BY <2>2, <2>3, ReleaseKeepsClaimsParts
<1>4. ASSUME NEW i \in Issues, Unlock(i) PROVE IInv'
  <2>1. TypeOK'
    BY <1>4 DEF Unlock, TypeOK, devices, history
  <2>2. QED
    BY <1>4, <2>1, DroppingKeepsIInv DEF Unlock, history
<1>5. ASSUME RouterRestart PROVE IInv'
  <2>1. TypeOK'
    BY <1>5 DEF RouterRestart, TypeOK, DeviceOrNone, history
  <2>2. QED
    BY <1>5, <2>1, DroppingKeepsIInv DEF RouterRestart, history
<1>6. QED
  BY <1>1, <1>2, <1>3, <1>4, <1>5 DEF OperatorStep

\* A step that changes nothing keeps it.
LEMMA StutterKeepsIInv ==
    ASSUME IInv, UNCHANGED vars
    PROVE  IInv'
BY DEF IInv, TypeOK, ClaimsWereRouted, NoClaimLeft, vars, devices, claims, history

\* IInv is an inductive invariant of the specification.
THEOREM IInvHolds == Spec => []IInv
<1>1. ASSUME IInv, [Next]_vars PROVE IInv'
  BY <1>1, WebhookKeepsIInv, FrameKeepsIInv, ConnectionKeepsIInv, SweepKeepsIInv,
     OperatorKeepsIInv, StutterKeepsIInv DEF Next, UnattendedNext
<1>2. QED
  BY InitIInv, <1>1, PTL DEF Spec

\* The tables stay well typed (TypeOK).
THEOREM TypeCorrect == Spec => []TypeOK
<1>1. IInv => TypeOK
  BY DEF IInv
<1>2. QED
  BY <1>1, IInvHolds, PTL

\* Whatever frames devices send, a session is claimed only by devices one of its
\* webhooks was routed to (EventRouter.handleSessionState grants nothing else).
THEOREM ClaimsComeFromRouting == Spec => []ClaimsWereRouted
<1>1. IInv => ClaimsWereRouted
  BY DEF IInv
<1>2. QED
  BY <1>1, IInvHolds, PTL

\* Guarded recovery is final: the device it released a session from owns it by no
\* route until a webhook of the session is routed to it again.
THEOREM RecoveryIsFinal == Spec => []RecoveredStaysReleased
<1>1. ASSUME IInv PROVE RecoveredStaysReleased
  <2>1. SUFFICES ASSUME NEW c \in recovered
                 PROVE  /\ GetSessionOwner(c.session) # c.device
                        /\ park[c.session] # c.device
    BY DEF RecoveredStaysReleased
  <2>2. c.session \in Sessions /\ c.device \in Devices
    BY <1>1 DEF IInv, TypeOK, Claim
  <2>3. QED
    BY <1>1, <2>2, OwnerHasClaim DEF IInv, NoClaimLeft
<1>2. QED
  BY <1>1, IInvHolds, PTL

=============================================================================
