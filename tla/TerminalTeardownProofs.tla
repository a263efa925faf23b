----------------------- MODULE TerminalTeardownProofs -----------------------
(***************************************************************************)
(* Proofs about terminal teardown, for any number of devices, webhooks,    *)
(* faults, restarts and operators' deletions: a teardown takes only the    *)
(* row it was registered for, the worker keeps the callback it owes, and a *)
(* deleted issue leaves no bundle.                                         *)
(***************************************************************************)
EXTENDS TerminalTeardown, TLAPS

---------------------------------------------------------------------------
(* The inductive invariant *)

Events == {"work", "end"}

EndIn(q) == \E i \in 1 .. Len(q) : q[i] = "end"

\* An attempt is for a registration, whose timer it has taken.
AttemptRegistered ==
    /\ destroy \in {"called", "gone"} => pend.dev # 0 /\ pend.timer = "none"
    /\ row <= made /\ box.dev <= made

\* A registration is for a device that a terminal webhook went to, and for a
\* deletion only once the issue is deleted; unless one was lost it is for the
\* issue's row, and so is every terminal webhook in the queue.
Registered ==
    /\ pend.dev # 0 => pend.dev \in ended
    /\ pend.action = "deleted" \/ destroy = "sweeping" => deleted
    /\ ~ lost /\ pend.dev # 0 => pend.dev = row
    /\ ~ lost /\ EndIn(queue) => pend.dev = row /\ row # 0

\* The entry is on disk while it is flushed, and no disk without a box.
EntryKept ==
    /\ flush \/ req # "none" => cb
    /\ box.st = "absent" => ~ cb
    /\ box.st # "absent" => box.dev # 0

\* The entry is of the registration at hand, so its answer cannot settle it
\* before the destroy.
EntryRegistered ==
    ~ lost /\ box.st # "absent" /\ box.dev = row =>
        /\ cb => pend.dev = row
        /\ req \notin {"ok", "rejected"}

\* A deleted issue has a registration that will remove the bundle, or the
\* removal is under way, or it was tried.
BundleGoes ==
    deleted /\ ~ lost =>
        /\ row # 0 => pend.dev = row /\ pend.action = "deleted"
        /\ row = 0 => ~ bundle \/ unswept \/ destroy = "sweeping"

\* The two halves of TypeOK, which different provers prove.
Flags ==
    /\ wanted \in BOOLEAN /\ conn \in BOOLEAN /\ cb \in BOOLEAN /\ flush \in BOOLEAN
    /\ bundle \in BOOLEAN /\ deleted \in BOOLEAN /\ lost \in BOOLEAN
    /\ unswept \in BOOLEAN

Data ==
    /\ row \in 0 .. MaxDevices /\ made \in Devices
    /\ queue \in Seq(Events)
    /\ mirror \in {None} \cup [dev : Devices, action : Actions]
    /\ pend \in {NotPending} \cup
          [dev : Devices, action : Actions, timer : {"none", "grace", "retry"}]
    /\ destroy \in {"none", "called", "gone", "sweeping"}
    /\ box \in [st : {"absent", "running", "stopped"}, dev : 0 .. MaxDevices]
    /\ req \in {"none", "wire", "handling", "ok", "rejected", "failed"}
    /\ stray \in 0 .. MaxDevices
    /\ cleaning \in Nat /\ ended \subseteq Devices
    /\ webhooks \in 0 .. MaxWebhooks /\ faults \in 0 .. MaxFaults
    /\ restarts \in 0 .. MaxRestarts /\ ops \in 0 .. MaxOps
    /\ wiped \subseteq Nat /\ switches \in 0 .. MaxSwitches

IInv ==
    /\ Flags /\ Data /\ AttemptRegistered /\ Registered /\ EntryKept /\ EntryRegistered
    /\ BundleGoes /\ CallbackOwed

---------------------------------------------------------------------------
(* Queues *)

LEMMA EndFacts ==
    ASSUME NEW q \in Seq(Events)
    PROVE  /\ EndIn(Append(q, "end")) /\ (EndIn(Append(q, "work")) <=> EndIn(q))
           /\ ~ EndIn(<<>>) /\ ~ EndIn(<<"work">>)
           /\ q # <<>> => (EndIn(q) <=> Head(q) = "end" \/ EndIn(Tail(q)))
           /\ EndIn(q) <=> \E i \in DOMAIN q : q[i] = "end"
<1>1. ~ EndIn(<<>>) /\ ~ EndIn(<<"work">>) /\ EndIn(Append(q, "end"))
  BY DEF EndIn, Events
<1>2. EndIn(Append(q, "work")) <=> EndIn(q)
  BY DEF EndIn, Events
<1>3. ASSUME q # <<>> PROVE EndIn(q) <=> Head(q) = "end" \/ EndIn(Tail(q))
  <2>1. Len(q) \in Nat /\ Len(q) >= 1 /\ Head(q) = q[1] /\ Len(Tail(q)) = Len(q) - 1
    BY <1>3
  <2>2. \A i \in 1 .. Len(Tail(q)) : Tail(q)[i] = q[i + 1]
    BY <1>3
  <2>3. ASSUME NEW i \in 1 .. Len(q), q[i] = "end", i # 1 PROVE EndIn(Tail(q))
    <3>1. i - 1 \in 1 .. Len(Tail(q)) /\ Tail(q)[i - 1] = q[(i - 1) + 1]
      BY <2>1, <2>2, <2>3
    <3>2. QED
      BY <2>1, <2>3, <3>1 DEF EndIn
  <2>4. QED
    BY <2>1, <2>2, <2>3 DEF EndIn
<1>4. EndIn(q) <=> \E i \in DOMAIN q : q[i] = "end"
  BY DEF EndIn
<1>5. QED
  BY <1>1, <1>2, <1>3, <1>4

---------------------------------------------------------------------------
(* The steps *)

LEMMA InitInv == Init => IInv
<1>1. SUFFICES ASSUME Init PROVE IInv
  OBVIOUS
<1>2. ~ EndIn(queue)
  BY <1>1 DEF Init, EndIn
<1>3. Data
  <2>1. 1 \in Devices /\ 1 \in 0 .. MaxDevices /\ 0 \in 0 .. MaxDevices
    BY BoundsAssumption DEF Devices
  <2>2. box \in [st : {"absent", "running", "stopped"}, dev : 0 .. MaxDevices]
    BY <1>1, <2>1 DEF Init
  <2>3. QED
    BY <1>1, <2>1, <2>2, BoundsAssumption DEF Init, Data
<1>4. Flags
  BY <1>1, Zenon DEF Init, Flags
<1>5. QED
  BY <1>1, <1>2, <1>3, <1>4
     DEF Init, IInv, AttemptRegistered, Registered, EntryKept, EntryRegistered,
                    BundleGoes, CallbackOwed, NotPending

PendType ==
    {NotPending} \cup [dev : Devices, action : Actions, timer : {"none", "grace", "retry"}]

\* An attempt drops its registration or takes its timer.
LEMMA AttemptFacts ==
    ASSUME Data, pend.dev # 0, Attempt
    PROVE  /\ pend' \in PendType /\ mirror' \in {None} \cup [dev : Devices, action : Actions]
           /\ destroy' \in {"none", "called", "gone", "sweeping"}
           /\ \/ /\ row # pend.dev /\ pend' = NotPending /\ UNCHANGED destroy
              \/ /\ row = pend.dev /\ destroy' = "called"
                 /\ pend'.dev = pend.dev /\ pend'.action = pend.action /\ pend'.timer = "none"
<1>1. pend \in [dev : Devices, action : Actions, timer : {"none", "grace", "retry"}]
  BY DEF Data, NotPending
<1>2. CASE row # pend.dev
  BY <1>2 DEF Attempt, Data, PendType
<1>3. CASE row = pend.dev
  BY <1>1, <1>3 DEF Attempt, Data, PendType
<1>4. QED
  BY <1>2, <1>3

\* Who has no device has no registration.
LEMMA NoDeviceNoTimer == Data => pend \in PendType /\ (pend.dev = 0 <=> pend = NotPending)
BY DEF Data, PendType, NotPending, Devices

\* A registration is for the row, with the action of the webhook, of the earlier
\* one, or the deletion.
LEMMA RegisterFacts ==
    ASSUME Data, row # 0, NEW action \in Actions, Register(action)
    PROVE  /\ pend' \in PendType /\ mirror' \in {None} \cup [dev : Devices, action : Actions]
           /\ pend.dev = 0 => pend'.dev = row /\ pend'.action = action
           /\ pend.dev # 0 => /\ pend'.dev = pend.dev /\ pend'.timer = pend.timer
                              /\ pend'.action \in {pend.action, action}
           /\ pend.dev = row /\ action = "deleted" => pend'.action = "deleted"
<1>1. row \in Devices
  BY DEF Data, Devices
<1>2. CASE pend.dev = 0
  BY <1>1, <1>2 DEF Register, Data, PendType
<1>3. CASE pend.dev # 0
  <2>1. pend \in [dev : Devices, action : Actions, timer : {"none", "grace", "retry"}]
    BY <1>3 DEF Data, NotPending
  <2>2. CASE pend.dev = row /\ pend.action = "closed" /\ action = "deleted"
    BY <1>1, <1>3, <2>1, <2>2 DEF Register, Data, PendType
  <2>3. CASE ~ (pend.dev = row /\ pend.action = "closed" /\ action = "deleted")
    <3>1. UNCHANGED <<pend, mirror>>
      BY <1>3, <2>3 DEF Register
    <3>2. QED
      BY <1>3, <2>1, <2>3, <3>1 DEF Data, PendType, Actions
  <2>4. QED
    BY <2>2, <2>3
<1>4. QED
  BY <1>2, <1>3

\* A session is created or prompted.
LEMMA DelegateStep == ASSUME IInv, Delegate PROVE IInv'
<1>1. Flags'
  BY Zenon DEF Delegate, marks, Webhook, Online, workerVars, IInv, Flags
<1>2. Data'
  <2>1. queue' \in Seq(Events)
    <3>1. queue \in Seq(Events) /\ "work" \in Events
      BY DEF IInv, Data, Events
    <3>2. queue' = Append(queue, "work") \/ queue' = <<"work">>
      BY DEF Delegate, marks
    <3>3. <<"work">> \in Seq(Events) /\ Append(queue, "work") \in Seq(Events)
      BY <3>1
    <3>4. QED
      BY <3>2, <3>3
  <2>2. row' \in 0 .. MaxDevices /\ made' \in Devices
    BY BoundsAssumption DEF Delegate, marks, IInv, Data, Devices
  <2>3. webhooks' \in 0 .. MaxWebhooks
    BY BoundsAssumption DEF Delegate, marks, Webhook, IInv, Data
  <2>4. QED
    BY <2>1, <2>2, <2>3 DEF Delegate, marks, workerVars, IInv, Data
<1>3. AttemptRegistered'
  BY DEF Delegate, marks, Webhook, Online, workerVars, IInv, Data, Devices, AttemptRegistered
<1>4. Registered'
  BY EndFacts DEF Delegate, marks, Webhook, Online, workerVars, IInv, Data, Devices, Registered
<1>5. EntryKept'
  BY DEF Delegate, marks, Webhook, Online, workerVars, IInv, Data, EntryKept
<1>6. EntryRegistered'
  <2>1. box.dev <= made /\ made \in Nat /\ box.dev \in Nat
    BY BoundsAssumption DEF IInv, AttemptRegistered, Data, Devices
  <2>2. row = 0 => row' # box.dev
    BY <2>1 DEF Delegate, marks
  <2>3. QED
    BY <2>2 DEF Delegate, marks, workerVars, IInv, EntryRegistered
<1>7. BundleGoes'
  BY DEF Delegate, marks, Webhook, Online, workerVars, IInv, Data, Registered, EntryKept,
     BundleGoes
<1>8. CallbackOwed'
  <2>1. CASE row = 0
    BY <2>1, NoDeviceNoTimer DEF Delegate, marks, IInv, Registered, NotPending, CallbackOwed
  <2>2. CASE row # 0
    <3>1. queue' \in Seq(Events) /\ (EndIn(queue') <=> EndIn(queue))
      <4>1. queue' = Append(queue, "work") /\ queue \in Seq(Events)
        BY <2>2 DEF Delegate, marks, IInv, Data
      <4>2. QED
        BY <1>2, <4>1, EndFacts DEF Data
    <3>2. /\ (\A i \in DOMAIN queue : queue[i] # "end") <=> ~ EndIn(queue)
          /\ (\A i \in DOMAIN queue' : queue'[i] # "end") <=> ~ EndIn(queue')
      BY <3>1, EndFacts DEF IInv, Data
    <3>3. QED
      BY <2>2, <3>1, <3>2 DEF Delegate, marks, workerVars, IInv, CallbackOwed
  <2>3. QED
    BY <2>1, <2>2
<1>9. QED
  BY <1>1, <1>2, <1>3, <1>4, <1>5, <1>6, <1>7, <1>8 DEF IInv

\* The user has another executor: the row is replaced, and the sandbox goes.
LEMMA DelegateSwitchingStep == ASSUME IInv, DelegateSwitching PROVE IInv'
<1>1. Flags'
  BY Zenon DEF DelegateSwitching, Webhook, BoxGone, DiskGone, None, IInv, Flags
<1>2. Data'
  BY BoundsAssumption, EndFacts
     DEF DelegateSwitching, Webhook, BoxGone, DiskGone, None, IInv, Data, Devices, Events
<1>3. AttemptRegistered'
  BY BoundsAssumption
     DEF DelegateSwitching, Webhook, BoxGone, DiskGone, None, IInv, Data, Devices,
         AttemptRegistered
<1>4. Registered'
  BY EndFacts
     DEF DelegateSwitching, Webhook, BoxGone, DiskGone, None, IInv, Data, Devices, Registered
<1>5. EntryKept'
  BY BoundsAssumption
     DEF DelegateSwitching, Webhook, BoxGone, DiskGone, None, IInv, Data, Devices, EntryKept
<1>6. EntryRegistered'
  BY DEF DelegateSwitching, Webhook, BoxGone, DiskGone, None, IInv, EntryRegistered
<1>7. BundleGoes'
  BY DEF DelegateSwitching, Webhook, BoxGone, DiskGone, None, IInv, Data, Registered, BundleGoes
<1>8. CallbackOwed'
  <2>1. pend.timer = "grace" => pend.dev # 0
    BY NoDeviceNoTimer DEF IInv, NotPending
  <2>2. UNCHANGED pend /\ (pend.dev # 0 => lost')
    BY DEF DelegateSwitching
  <2>3. QED
    BY <2>1, <2>2 DEF CallbackOwed
<1>9. QED
  BY <1>1, <1>2, <1>3, <1>4, <1>5, <1>6, <1>7, <1>8 DEF IInv

\* A boot request is served by the sandbox that is there.
LEMMA BootUpStep == ASSUME IInv, BootUp PROVE IInv'
<1>1. Flags'
  BY Zenon DEF BootUp, workerVars, histVars, marks, IInv, Flags
<1>2. Data'
  BY BoundsAssumption DEF BootUp, workerVars, histVars, marks, IInv, Data, Devices
<1>3. AttemptRegistered'
  BY DEF BootUp, workerVars, histVars, marks, IInv, Data, Devices, AttemptRegistered
<1>4. Registered'
  BY EndFacts DEF BootUp, workerVars, histVars, marks, IInv, Data, Devices, Registered
<1>5. EntryKept'
  BY DEF BootUp, workerVars, histVars, marks, IInv, Data, EntryKept
<1>6. EntryRegistered'
  BY DEF BootUp, workerVars, histVars, marks, IInv, Data, Registered, EntryKept, EntryRegistered
<1>7. BundleGoes'
  BY DEF BootUp, workerVars, histVars, marks, IInv, Data, Registered, EntryKept, BundleGoes
<1>8. CallbackOwed'
  BY EndFacts DEF BootUp, workerVars, histVars, marks, IInv, Data, Registered, CallbackOwed
<1>9. QED
  BY <1>1, <1>2, <1>3, <1>4, <1>5, <1>6, <1>7, <1>8 DEF IInv

\* A boot creates a sandbox, in place of the old one if there is one.
LEMMA BootReplacesStep == ASSUME IInv, BootReplaces PROVE IInv'
<1>1. Flags'
  BY Zenon DEF BootReplaces, DiskGone, IInv, Flags
<1>2. Data'
  <2>1. box' \in [st : {"absent", "running", "stopped"}, dev : 0 .. MaxDevices]
    BY DEF BootReplaces, IInv, Data
  <2>2. stray' \in 0 .. MaxDevices
    BY DEF BootReplaces, DiskGone, IInv, Data
  <2>3. wiped' \subseteq Nat
    <3>1. box.dev \in 0 .. MaxDevices /\ wiped \subseteq Nat
      BY DEF IInv, Data
    <3>2. wiped' = wiped \cup {box.dev} \/ wiped' = wiped
      BY DEF BootReplaces
    <3>3. box.dev \in Nat
      BY <3>1
    <3>4. QED
      BY <3>1, <3>2, <3>3
  <2>4. QED
    BY <2>1, <2>2, <2>3 DEF BootReplaces, DiskGone, IInv, Data
<1>3. AttemptRegistered'
  BY BoundsAssumption DEF BootReplaces, DiskGone, IInv, Data, Devices, AttemptRegistered
<1>4. Registered'
  BY EndFacts DEF BootReplaces, DiskGone, IInv, Data, Devices, Registered
<1>5. EntryKept'
  BY BoundsAssumption DEF BootReplaces, DiskGone, IInv, Data, Devices, EntryKept
<1>6. EntryRegistered'
  BY DEF BootReplaces, DiskGone, IInv, EntryRegistered
<1>7. BundleGoes'
  BY DEF BootReplaces, DiskGone, IInv, Data, Registered, BundleGoes
<1>8. CallbackOwed'
  BY NoDeviceNoTimer DEF BootReplaces, DiskGone, IInv, Registered, NotPending, CallbackOwed
<1>9. QED
  BY <1>1, <1>2, <1>3, <1>4, <1>5, <1>6, <1>7, <1>8 DEF IInv

\* The router starts an attempt or leaves everything as it is; a request changes
\* its state.
LEMMA AttemptStep ==
    ASSUME IInv, \/ UNCHANGED <<pend, mirror, destroy>>
                 \/ pend.dev # 0 /\ destroy = "none" /\ Attempt,
           req' \in {"none", "wire", "handling", "ok", "rejected", "failed"},
           stray' \in 0 .. MaxDevices, req' # "none" => cb,
           ~ lost /\ box.st # "absent" /\ box.dev = row => req' \notin {"ok", "rejected"},
           UNCHANGED <<row, queue, bundle, wanted, box, conn, cleaning, cb, flush, histVars>>
    PROVE  IInv'
<1>1. /\ pend' \in PendType /\ mirror' \in {None} \cup [dev : Devices, action : Actions]
      /\ destroy' \in {"none", "called", "gone", "sweeping"}
      /\ \/ UNCHANGED <<pend, destroy>>
         \/ /\ row # pend.dev /\ pend.dev # 0 /\ UNCHANGED destroy
            /\ pend'.dev = 0 /\ pend'.timer = "none" /\ pend'.action = "none" /\ destroy = "none"
         \/ /\ row = pend.dev /\ pend.dev # 0 /\ destroy = "none" /\ destroy' = "called"
            /\ pend'.dev = pend.dev /\ pend'.action = pend.action /\ pend'.timer = "none"
  BY AttemptFacts DEF IInv, Data, PendType, NotPending
<1>2. Flags'
  BY DEF IInv, Flags, histVars, marks
<1>3. Data'
  BY <1>1 DEF IInv, Data, PendType, histVars, marks
<1>4. AttemptRegistered'
  BY <1>1 DEF IInv, AttemptRegistered, histVars, marks
<1>5. Registered'
  BY <1>1 DEF IInv, Registered, histVars, marks
<1>6. EntryKept'
  BY DEF IInv, EntryKept
<1>7. EntryRegistered'
  BY <1>1 DEF IInv, Registered, EntryRegistered, histVars, marks
<1>8. BundleGoes'
  BY <1>1 DEF IInv, Registered, BundleGoes, histVars, marks
<1>9. CallbackOwed'
  BY <1>1 DEF IInv, CallbackOwed, histVars, marks
<1>10. QED
  BY <1>2, <1>3, <1>4, <1>5, <1>6, <1>7, <1>8, <1>9 DEF IInv

\* A timer starts an attempt.
LEMMA TimerFiresStep == ASSUME IInv, TimerFires PROVE IInv'
<1>1. pend.dev # 0
  BY NoDeviceNoTimer DEF TimerFires, IInv, NotPending
<1>2. /\ req \in {"none", "wire", "handling", "ok", "rejected", "failed"}
      /\ stray \in 0 .. MaxDevices /\ (req # "none" => cb)
      /\ ~ lost /\ box.st # "absent" /\ box.dev = row => req \notin {"ok", "rejected"}
  BY DEF IInv, Data, EntryKept, EntryRegistered
<1>3. QED
  BY <1>1, <1>2, AttemptStep DEF TimerFires, workerVars

\* The callback reaches the router: the issue's own worker is not told ok or
\* refused while its registration stands.
LEMMA ReceiveCallbackStep == ASSUME IInv, ReceiveCallback PROVE IInv'
<1>1. PICK answer \in {"rejected", "ok", "handling"} :
        Callback(box.dev, answer) /\ req' = answer
  BY DEF ReceiveCallback
<1>2. cb /\ box.st # "absent" /\ box.dev # 0
  BY DEF ReceiveCallback, IInv, Data, EntryKept
<1>3. \/ UNCHANGED <<pend, mirror, destroy>>
      \/ pend.dev # 0 /\ destroy = "none" /\ Attempt
  BY <1>1, <1>2 DEF Callback
<1>4. ~ lost /\ box.dev = row => answer = "handling"
  BY <1>1, <1>2 DEF Callback, IInv, EntryRegistered
<1>5. QED
  BY <1>1, <1>2, <1>3, <1>4, AttemptStep DEF ReceiveCallback, IInv, Data

\* ... late.
LEMMA ReceiveStrayStep == ASSUME IInv, ReceiveStray PROVE IInv'
<1>1. \/ UNCHANGED <<pend, mirror, destroy>>
      \/ pend.dev # 0 /\ destroy = "none" /\ Attempt
  BY DEF ReceiveStray, Callback
<1>2. /\ req \in {"none", "wire", "handling", "ok", "rejected", "failed"}
      /\ stray' \in 0 .. MaxDevices /\ (req # "none" => cb)
      /\ ~ lost /\ box.st # "absent" /\ box.dev = row => req \notin {"ok", "rejected"}
  BY BoundsAssumption DEF IInv, Data, EntryKept, EntryRegistered, ReceiveStray
<1>3. QED
  BY <1>1, <1>2, AttemptStep DEF ReceiveStray

\* The sandbox goes.
LEMMA DestroyEffectStep == ASSUME IInv, DestroyEffect PROVE IInv'
<1>1. Flags'
  BY Zenon DEF DestroyEffect, BoxGone, DiskGone, workerVars, histVars, marks, IInv, Flags
<1>2. Data'
  BY BoundsAssumption
     DEF DestroyEffect, BoxGone, DiskGone, workerVars, histVars, marks, IInv, Data, Devices
<1>3. AttemptRegistered'
  BY 
     DEF DestroyEffect, BoxGone, DiskGone, workerVars, histVars, marks, IInv, Data, Devices,
         AttemptRegistered
<1>4. Registered'
  BY EndFacts
     DEF DestroyEffect, BoxGone, DiskGone, workerVars, histVars, marks, IInv, Data, Devices,
         Registered
<1>5. EntryKept'
  BY DEF DestroyEffect, BoxGone, DiskGone, workerVars, histVars, marks, IInv, Data, EntryKept
<1>6. EntryRegistered'
  BY 
     DEF DestroyEffect, BoxGone, DiskGone, workerVars, histVars, marks, IInv, Data, Registered,
         EntryKept,
     EntryRegistered
<1>7. BundleGoes'
  BY 
     DEF DestroyEffect, BoxGone, DiskGone, workerVars, histVars, marks, IInv, Data, Registered,
         EntryKept, BundleGoes
<1>8. CallbackOwed'
  BY DEF DestroyEffect, histVars, marks, IInv, AttemptRegistered, CallbackOwed
<1>9. QED
  BY <1>1, <1>2, <1>3, <1>4, <1>5, <1>6, <1>7, <1>8 DEF IInv

\* The destroy throws and is armed again.
LEMMA DestroyFailsStep == ASSUME IInv, DestroyFails PROVE IInv'
<1>1. Flags'
  BY Zenon DEF DestroyFails, marks, Fault, ScheduleRetry, IInv, Flags
<1>2. Data'
  <2>1. pend' \in PendType
    <3>1. pend \in [dev : Devices, action : Actions, timer : {"none", "grace", "retry"}]
      BY DEF DestroyFails, marks, IInv, Data, AttemptRegistered, NotPending
    <3>2. QED
      BY <3>1 DEF DestroyFails, marks, ScheduleRetry, PendType
  <2>2. QED
    BY <2>1, BoundsAssumption DEF DestroyFails, marks, Fault, IInv, Data, PendType
<1>3. AttemptRegistered'
  BY DEF DestroyFails, marks, Fault, ScheduleRetry, IInv, Data, Devices, AttemptRegistered
<1>4. Registered'
  BY EndFacts DEF DestroyFails, marks, Fault, ScheduleRetry, IInv, Data, Devices, Registered
<1>5. EntryKept'
  BY DEF DestroyFails, marks, Fault, ScheduleRetry, IInv, Data, EntryKept
<1>6. EntryRegistered'
  BY DEF DestroyFails, marks, Fault, ScheduleRetry, IInv, Data, Registered, EntryKept,
     EntryRegistered
<1>7. BundleGoes'
  BY DEF DestroyFails, marks, Fault, ScheduleRetry, IInv, Data, Registered, EntryKept, BundleGoes
<1>8. CallbackOwed'
  BY EndFacts DEF DestroyFails, marks, Fault, ScheduleRetry, IInv, Data, Registered, CallbackOwed
<1>9. QED
  BY <1>1, <1>2, <1>3, <1>4, <1>5, <1>6, <1>7, <1>8 DEF IInv

\* The row goes, with its queue.
LEMMA DestroyDoneStep == ASSUME IInv, DestroyDone PROVE IInv'
<1>1. Flags'
  BY Zenon DEF DestroyDone, NotPending, None, workerVars, histVars, marks, IInv, Flags
<1>2. Data'
  BY BoundsAssumption DEF DestroyDone, NotPending, None, workerVars, histVars, marks, IInv, Data,
     Devices
<1>3. AttemptRegistered'
  BY DEF DestroyDone, NotPending, None, workerVars, histVars, marks, IInv, Data, Devices,
     AttemptRegistered
<1>4. Registered'
  BY EndFacts DEF DestroyDone, NotPending, None, workerVars, histVars, marks, IInv, Data, Devices,
     Registered
<1>5. EntryKept'
  BY DEF DestroyDone, NotPending, None, workerVars, histVars, marks, IInv, Data, EntryKept
<1>6. EntryRegistered'
  BY DEF DestroyDone, NotPending, None, workerVars, histVars, marks, IInv, Data, Registered,
     EntryKept, EntryRegistered
<1>7. BundleGoes'
  BY DEF DestroyDone, NotPending, None, workerVars, histVars, marks, IInv, Data, Registered,
     EntryKept, BundleGoes
<1>8. CallbackOwed'
  BY EndFacts DEF DestroyDone, NotPending, None, workerVars, histVars, marks, IInv, Data,
     Registered, CallbackOwed
<1>9. QED
  BY <1>1, <1>2, <1>3, <1>4, <1>5, <1>6, <1>7, <1>8 DEF IInv

\* The bundle goes.
LEMMA SweepBundleStep == ASSUME IInv, SweepBundle PROVE IInv'
<1>1. Flags'
  BY Zenon DEF SweepBundle, RemoveBundle, Fault, workerVars, IInv, Flags
<1>2. Data'
  BY BoundsAssumption DEF SweepBundle, RemoveBundle, Fault, workerVars, IInv, Data, Devices
<1>3. AttemptRegistered'
  BY DEF SweepBundle, RemoveBundle, Fault, workerVars, IInv, Data, Devices, AttemptRegistered
<1>4. Registered'
  BY EndFacts DEF SweepBundle, RemoveBundle, Fault, workerVars, IInv, Data, Devices, Registered
<1>5. EntryKept'
  BY DEF SweepBundle, RemoveBundle, Fault, workerVars, IInv, Data, EntryKept
<1>6. EntryRegistered'
  BY DEF SweepBundle, RemoveBundle, Fault, workerVars, IInv, Data, Registered, EntryKept,
     EntryRegistered
<1>7. BundleGoes'
  BY 
     DEF SweepBundle, RemoveBundle, Fault, workerVars, IInv, Data, Registered, EntryKept,
         BundleGoes
<1>8. CallbackOwed'
  BY EndFacts
     DEF SweepBundle, RemoveBundle, Fault, workerVars, IInv, Data, Registered, CallbackOwed
<1>9. QED
  BY <1>1, <1>2, <1>3, <1>4, <1>5, <1>6, <1>7, <1>8 DEF IInv

\* The worker consumes an event.
LEMMA DeliverStep == ASSUME IInv, Deliver PROVE IInv'
<1>1. Flags'
  BY Zenon DEF Deliver, Online, Record, routerVars, histVars, marks, IInv, Flags
<1>2. Data'
  BY BoundsAssumption
     DEF Deliver, Online, Record, routerVars, histVars, marks, IInv, Data, Devices
<1>3. AttemptRegistered'
  BY DEF Deliver, Online, Record, routerVars, histVars, marks, IInv, Data, Devices,
     AttemptRegistered
<1>4. Registered'
  BY EndFacts DEF Deliver, Online, Record, routerVars, histVars, marks, IInv, Data, Devices,
     Registered
<1>5. EntryKept'
  BY DEF Deliver, Online, Record, routerVars, histVars, marks, IInv, Data, EntryKept
<1>6. EntryRegistered'
  <2>1. Head(queue) = "end" => EndIn(queue)
    BY EndFacts DEF Deliver, IInv, Data
  <2>2. QED
    BY <2>1
       DEF Deliver, Online, Record, routerVars, histVars, marks, IInv, Data, Registered,
           EntryRegistered
<1>7. BundleGoes'
  BY DEF Deliver, Online, Record, routerVars, histVars, marks, IInv, Data, Registered, EntryKept,
     BundleGoes
<1>8. CallbackOwed'
  <2>1. queue' \in Seq(Events) /\ (EndIn(queue) <=> Head(queue) = "end" \/ EndIn(queue'))
    BY EndFacts DEF Deliver, IInv, Data
  <2>2. /\ (\A i \in DOMAIN queue : queue[i] # "end") <=> ~ EndIn(queue)
        /\ (\A i \in DOMAIN queue' : queue'[i] # "end") <=> ~ EndIn(queue')
    BY <2>1, EndFacts DEF IInv, Data
  <2>3. QED
    BY <2>1, <2>2
       DEF Deliver, Online, Record, routerVars, histVars, marks, IInv, Data, CallbackOwed
<1>9. QED
  BY <1>1, <1>2, <1>3, <1>4, <1>5, <1>6, <1>7, <1>8 DEF IInv

\* A cleanup ends and may have uploaded a bundle.
LEMMA CleanupDoneStep == ASSUME IInv, CleanupDone PROVE IInv'
<1>1. Flags'
  BY Zenon DEF CleanupDone, routerVars, histVars, marks, IInv, Flags
<1>2. Data'
  BY BoundsAssumption DEF CleanupDone, routerVars, histVars, marks, IInv, Data, Devices
<1>3. AttemptRegistered'
  BY DEF CleanupDone, routerVars, histVars, marks, IInv, Data, Devices, AttemptRegistered
<1>4. Registered'
  BY EndFacts DEF CleanupDone, routerVars, histVars, marks, IInv, Data, Devices, Registered
<1>5. EntryKept'
  BY DEF CleanupDone, routerVars, histVars, marks, IInv, Data, EntryKept
<1>6. EntryRegistered'
  BY DEF CleanupDone, routerVars, histVars, marks, IInv, Data, Registered, EntryKept,
     EntryRegistered
<1>7. BundleGoes'
  BY DEF CleanupDone, routerVars, histVars, marks, IInv, Data, Registered, EntryKept, BundleGoes
<1>8. CallbackOwed'
  BY EndFacts DEF CleanupDone, routerVars, histVars, marks, IInv, Data, Registered, CallbackOwed
<1>9. QED
  BY <1>1, <1>2, <1>3, <1>4, <1>5, <1>6, <1>7, <1>8 DEF IInv

\* The callback is posted.
LEMMA PostStep == ASSUME IInv, Post PROVE IInv'
<1>1. Flags'
  BY Zenon DEF Post, routerVars, histVars, marks, IInv, Flags
<1>2. Data'
  BY BoundsAssumption DEF Post, routerVars, histVars, marks, IInv, Data, Devices
<1>3. AttemptRegistered'
  BY DEF Post, routerVars, histVars, marks, IInv, Data, Devices, AttemptRegistered
<1>4. Registered'
  BY EndFacts DEF Post, routerVars, histVars, marks, IInv, Data, Devices, Registered
<1>5. EntryKept'
  BY DEF Post, routerVars, histVars, marks, IInv, Data, EntryKept
<1>6. EntryRegistered'
  BY DEF Post, routerVars, histVars, marks, IInv, Data, Registered, EntryKept, EntryRegistered
<1>7. BundleGoes'
  BY DEF Post, routerVars, histVars, marks, IInv, Data, Registered, EntryKept, BundleGoes
<1>8. CallbackOwed'
  BY EndFacts DEF Post, routerVars, histVars, marks, IInv, Data, Registered, CallbackOwed
<1>9. QED
  BY <1>1, <1>2, <1>3, <1>4, <1>5, <1>6, <1>7, <1>8 DEF IInv

\* The worker gives up on the request.
LEMMA PostTimesOutStep == ASSUME IInv, PostTimesOut PROVE IInv'
<1>1. Flags'
  BY Zenon DEF PostTimesOut, marks, Fault, routerVars, IInv, Flags
<1>2. Data'
  BY BoundsAssumption DEF PostTimesOut, marks, Fault, routerVars, IInv, Data, Devices
<1>3. AttemptRegistered'
  BY DEF PostTimesOut, marks, Fault, routerVars, IInv, Data, Devices, AttemptRegistered
<1>4. Registered'
  BY EndFacts DEF PostTimesOut, marks, Fault, routerVars, IInv, Data, Devices, Registered
<1>5. EntryKept'
  BY DEF PostTimesOut, marks, Fault, routerVars, IInv, Data, EntryKept
<1>6. EntryRegistered'
  BY 
     DEF PostTimesOut, marks, Fault, routerVars, IInv, Data, Registered, EntryKept,
         EntryRegistered
<1>7. BundleGoes'
  BY DEF PostTimesOut, marks, Fault, routerVars, IInv, Data, Registered, EntryKept, BundleGoes
<1>8. CallbackOwed'
  BY EndFacts DEF PostTimesOut, marks, Fault, routerVars, IInv, Data, Registered, CallbackOwed
<1>9. QED
  BY <1>1, <1>2, <1>3, <1>4, <1>5, <1>6, <1>7, <1>8 DEF IInv

\* The worker reads the answer.
LEMMA AnsweredStep == ASSUME IInv, Answered PROVE IInv'
<1>1. Flags'
  BY Zenon DEF Answered, routerVars, histVars, marks, IInv, Flags
<1>2. Data'
  BY BoundsAssumption DEF Answered, routerVars, histVars, marks, IInv, Data, Devices
<1>3. AttemptRegistered'
  BY DEF Answered, routerVars, histVars, marks, IInv, Data, Devices, AttemptRegistered
<1>4. Registered'
  BY EndFacts DEF Answered, routerVars, histVars, marks, IInv, Data, Devices, Registered
<1>5. EntryKept'
  BY DEF Answered, routerVars, histVars, marks, IInv, Data, EntryKept
<1>6. EntryRegistered'
  BY DEF Answered, routerVars, histVars, marks, IInv, Data, Registered, EntryKept, EntryRegistered
<1>7. BundleGoes'
  BY DEF Answered, routerVars, histVars, marks, IInv, Data, Registered, EntryKept, BundleGoes
<1>8. CallbackOwed'
  BY DEF Answered, routerVars, histVars, marks, IInv, CallbackOwed, EntryRegistered
<1>9. QED
  BY <1>1, <1>2, <1>3, <1>4, <1>5, <1>6, <1>7, <1>8 DEF IInv

\* The socket comes up.
LEMMA ConnectStep == ASSUME IInv, Connect PROVE IInv'
<1>1. Flags'
  BY Zenon DEF Connect, routerVars, histVars, marks, IInv, Flags
<1>2. Data'
  BY BoundsAssumption DEF Connect, routerVars, histVars, marks, IInv, Data, Devices
<1>3. AttemptRegistered'
  BY DEF Connect, routerVars, histVars, marks, IInv, Data, Devices, AttemptRegistered
<1>4. Registered'
  BY EndFacts DEF Connect, routerVars, histVars, marks, IInv, Data, Devices, Registered
<1>5. EntryKept'
  BY DEF Connect, routerVars, histVars, marks, IInv, Data, EntryKept
<1>6. EntryRegistered'
  BY DEF Connect, routerVars, histVars, marks, IInv, Data, Registered, EntryKept, EntryRegistered
<1>7. BundleGoes'
  BY DEF Connect, routerVars, histVars, marks, IInv, Data, Registered, EntryKept, BundleGoes
<1>8. CallbackOwed'
  BY EndFacts DEF Connect, routerVars, histVars, marks, IInv, Data, Registered, CallbackOwed
<1>9. QED
  BY <1>1, <1>2, <1>3, <1>4, <1>5, <1>6, <1>7, <1>8 DEF IInv

\* The socket goes down.
LEMMA DisconnectStep == ASSUME IInv, Disconnect PROVE IInv'
<1>1. Flags'
  BY Zenon DEF Disconnect, marks, Fault, routerVars, workerVars, IInv, Flags
<1>2. Data'
  BY BoundsAssumption DEF Disconnect, marks, Fault, routerVars, workerVars, IInv, Data, Devices
<1>3. AttemptRegistered'
  BY DEF Disconnect, marks, Fault, routerVars, workerVars, IInv, Data, Devices, AttemptRegistered
<1>4. Registered'
  BY EndFacts
     DEF Disconnect, marks, Fault, routerVars, workerVars, IInv, Data, Devices, Registered
<1>5. EntryKept'
  BY DEF Disconnect, marks, Fault, routerVars, workerVars, IInv, Data, EntryKept
<1>6. EntryRegistered'
  BY DEF Disconnect, marks, Fault, routerVars, workerVars, IInv, Data, Registered, EntryKept,
     EntryRegistered
<1>7. BundleGoes'
  BY DEF Disconnect, marks, Fault, routerVars, workerVars, IInv, Data, Registered, EntryKept,
     BundleGoes
<1>8. CallbackOwed'
  BY EndFacts DEF Disconnect, marks, Fault, routerVars, workerVars, IInv, Data, Registered,
     CallbackOwed
<1>9. QED
  BY <1>1, <1>2, <1>3, <1>4, <1>5, <1>6, <1>7, <1>8 DEF IInv

\* The worker dies.
LEMMA WorkerDiesStep == ASSUME IInv, WorkerDies PROVE IInv'
<1>1. Flags'
  BY Zenon DEF WorkerDies, marks, Fault, routerVars, IInv, Flags
<1>2. Data'
  <2>1. box' \in [st : {"absent", "running", "stopped"}, dev : 0 .. MaxDevices]
    BY DEF WorkerDies, IInv, Data
  <2>2. faults' \in 0 .. MaxFaults /\ stray' \in 0 .. MaxDevices
    BY BoundsAssumption DEF WorkerDies, Fault, IInv, Data
  <2>3. QED
    BY <2>1, <2>2 DEF WorkerDies, marks, routerVars, IInv, Data
<1>3. AttemptRegistered'
  BY DEF WorkerDies, marks, Fault, routerVars, IInv, Data, Devices, AttemptRegistered
<1>4. Registered'
  BY EndFacts DEF WorkerDies, marks, Fault, routerVars, IInv, Data, Devices, Registered
<1>5. EntryKept'
  BY DEF WorkerDies, marks, Fault, routerVars, IInv, Data, EntryKept
<1>6. EntryRegistered'
  BY DEF WorkerDies, marks, Fault, routerVars, IInv, Data, Registered, EntryKept, EntryRegistered
<1>7. BundleGoes'
  BY DEF WorkerDies, marks, Fault, routerVars, IInv, Data, Registered, EntryKept, BundleGoes
<1>8. CallbackOwed'
  BY EndFacts DEF WorkerDies, marks, Fault, routerVars, IInv, Data, Registered, CallbackOwed
<1>9. QED
  BY <1>1, <1>2, <1>3, <1>4, <1>5, <1>6, <1>7, <1>8 DEF IInv

\* The router restarts.
LEMMA RouterRestartsStep == ASSUME IInv, RouterRestarts PROVE IInv'
<1>1. Flags'
  BY Zenon DEF RouterRestarts, marks, ClearMirror, NotPending, None, IInv, Flags
<1>2. Data'
  BY BoundsAssumption
     DEF RouterRestarts, marks, ClearMirror, NotPending, None, IInv, Data, Devices
<1>3. AttemptRegistered'
  BY DEF RouterRestarts, marks, ClearMirror, NotPending, None, IInv, Data, Devices,
     AttemptRegistered
<1>4. Registered'
  BY EndFacts DEF RouterRestarts, marks, ClearMirror, NotPending, None, IInv, Data, Devices,
     Registered
<1>5. EntryKept'
  BY DEF RouterRestarts, marks, ClearMirror, NotPending, None, IInv, Data, EntryKept
<1>6. EntryRegistered'
  BY DEF RouterRestarts, marks, ClearMirror, NotPending, None, IInv, Data, Registered, EntryKept,
     EntryRegistered
<1>7. BundleGoes'
  BY DEF RouterRestarts, marks, ClearMirror, NotPending, None, IInv, Data, Registered, EntryKept,
     BundleGoes
<1>8. CallbackOwed'
  BY EndFacts DEF RouterRestarts, marks, ClearMirror, NotPending, None, IInv, Data, Registered,
     CallbackOwed
<1>9. QED
  BY <1>1, <1>2, <1>3, <1>4, <1>5, <1>6, <1>7, <1>8 DEF IInv

\* An operator deletes the row.
LEMMA OperatorDestroysStep == ASSUME IInv, OperatorDestroys PROVE IInv'
<1>1. Flags'
  BY Zenon DEF OperatorDestroys, marks, None, routerVars, workerVars, IInv, Flags
<1>2. Data'
  BY BoundsAssumption DEF OperatorDestroys, marks, None, routerVars, workerVars, IInv, Data,
     Devices
<1>3. AttemptRegistered'
  BY DEF OperatorDestroys, marks, None, routerVars, workerVars, IInv, Data, Devices,
     AttemptRegistered
<1>4. Registered'
  BY EndFacts DEF OperatorDestroys, marks, None, routerVars, workerVars, IInv, Data, Devices,
     Registered
<1>5. EntryKept'
  BY DEF OperatorDestroys, marks, None, routerVars, workerVars, IInv, Data, EntryKept
<1>6. EntryRegistered'
  BY DEF OperatorDestroys, marks, None, routerVars, workerVars, IInv, Data, Registered, EntryKept,
     EntryRegistered
<1>7. BundleGoes'
  BY DEF OperatorDestroys, marks, None, routerVars, workerVars, IInv, Data, Registered, EntryKept,
     BundleGoes
<1>8. CallbackOwed'
  <2>1. pend.timer = "grace" => pend.dev # 0
    BY NoDeviceNoTimer DEF IInv, NotPending
  <2>2. UNCHANGED pend /\ (pend.dev # 0 => lost')
    BY DEF OperatorDestroys, marks, routerVars
  <2>3. QED
    BY <2>1, <2>2 DEF CallbackOwed
<1>9. QED
  BY <1>1, <1>2, <1>3, <1>4, <1>5, <1>6, <1>7, <1>8 DEF IInv

\* The sweep collects a container without a row.
LEMMA OrphanSweptStep == ASSUME IInv, OrphanSwept PROVE IInv'
<1>1. Flags'
  BY Zenon DEF OrphanSwept, BoxGone, DiskGone, routerVars, histVars, marks, IInv, Flags
<1>2. Data'
  BY BoundsAssumption
     DEF OrphanSwept, BoxGone, DiskGone, routerVars, histVars, marks, IInv, Data, Devices
<1>3. AttemptRegistered'
  BY 
     DEF OrphanSwept, BoxGone, DiskGone, routerVars, histVars, marks, IInv, Data, Devices,
         AttemptRegistered
<1>4. Registered'
  BY EndFacts
     DEF OrphanSwept, BoxGone, DiskGone, routerVars, histVars, marks, IInv, Data, Devices,
     Registered
<1>5. EntryKept'
  BY DEF OrphanSwept, BoxGone, DiskGone, routerVars, histVars, marks, IInv, Data, EntryKept
<1>6. EntryRegistered'
  BY 
     DEF OrphanSwept, BoxGone, DiskGone, routerVars, histVars, marks, IInv, Data, Registered,
         EntryKept,
     EntryRegistered
<1>7. BundleGoes'
  BY 
     DEF OrphanSwept, BoxGone, DiskGone, routerVars, histVars, marks, IInv, Data, Registered,
         EntryKept,
     BundleGoes
<1>8. CallbackOwed'
  BY NoDeviceNoTimer
     DEF OrphanSwept, routerVars, histVars, marks, IInv, Registered, NotPending, CallbackOwed
<1>9. QED
  BY <1>1, <1>2, <1>3, <1>4, <1>5, <1>6, <1>7, <1>8 DEF IInv

\* The issue is closed or deleted.
LEMMA TerminalStep == ASSUME IInv, NEW action \in Actions, Terminal(action) PROVE IInv'
<1>1. Flags'
  <2>1. wanted' \in BOOLEAN
    BY Zenon DEF Terminal, Register, IInv, Flags
  <2>2. bundle' \in BOOLEAN /\ deleted' \in BOOLEAN
    BY Zenon DEF Terminal, RemoveBundle, IInv, Flags
  <2>3. unswept' \in BOOLEAN
    BY Zenon DEF Terminal, RemoveBundle, IInv, Flags
  <2>4. QED
    BY <2>1, <2>2, <2>3, Zenon DEF Terminal, workerVars, IInv, Flags
<1>2. webhooks' \in 0 .. MaxWebhooks /\ row' = row
  BY BoundsAssumption DEF Terminal, Webhook, IInv, Data
<1>3. CASE row = 0
  <2>1. /\ UNCHANGED <<queue, ended, pend, mirror, wanted, row, destroy, box, conn, workerVars,
                       made, lost, restarts, ops, wiped, switches>>
        /\ deleted' = (action = "deleted")
        /\ action = "deleted" => ~ bundle' \/ unswept'
    BY <1>3, Zenon DEF Terminal, RemoveBundle
  <2>2. Data'
    <3>1. faults' \in 0 .. MaxFaults
      BY <1>3, BoundsAssumption DEF Terminal, RemoveBundle, Fault, IInv, Data
    <3>2. QED
      BY <1>2, <2>1, <3>1 DEF IInv, Data, workerVars
  <2>3. AttemptRegistered' /\ EntryKept' /\ EntryRegistered' /\ CallbackOwed'
    BY <2>1 DEF IInv, AttemptRegistered, EntryKept, EntryRegistered, CallbackOwed, workerVars
  <2>4. Registered'
    BY <2>1 DEF IInv, Registered, Terminal
  <2>5. BundleGoes'
    BY <1>3, <2>1 DEF BundleGoes
  <2>6. QED
    BY <1>1, <2>2, <2>3, <2>4, <2>5 DEF IInv
<1>4. CASE row # 0
  <2>1. /\ queue' = Append(queue, "end") /\ ended' = ended \cup {row} /\ Register(action)
        /\ deleted' = (action = "deleted") /\ ~ deleted
        /\ UNCHANGED <<bundle, row, destroy, box, conn, workerVars, made, lost, faults,
                       restarts, ops, wiped, switches>>
    BY <1>4 DEF Terminal
  <2>2. /\ pend' \in PendType /\ mirror' \in {None} \cup [dev : Devices, action : Actions]
        /\ pend.dev = 0 => pend'.dev = row /\ pend'.action = action
        /\ pend.dev # 0 => /\ pend'.dev = pend.dev /\ pend'.timer = pend.timer
                           /\ pend'.action \in {pend.action, action}
        /\ pend.dev = row /\ action = "deleted" => pend'.action = "deleted"
    BY <1>4, <2>1, RegisterFacts DEF IInv
  <2>3. queue' \in Seq(Events) /\ EndIn(queue') /\ queue \in Seq(Events)
    BY <2>1, EndFacts DEF IInv, Data, Events
  <2>4. Data'
    <3>1. ended' \subseteq Devices
      BY <1>4, <2>1 DEF IInv, Data, Devices
    <3>2. QED
      BY <1>2, <2>1, <2>2, <2>3, <3>1 DEF IInv, Data, PendType, workerVars
  <2>5. AttemptRegistered'
    BY <2>1, <2>2 DEF IInv, AttemptRegistered
  <2>6. EntryKept'
    BY <2>1 DEF IInv, EntryKept, workerVars
  <2>7. Registered'
    BY <1>4, <2>1, <2>2 DEF IInv, Registered
  <2>8. EntryRegistered'
    BY <1>4, <2>1, <2>2 DEF IInv, Registered, EntryRegistered, workerVars
  <2>9. BundleGoes'
    BY <1>4, <2>1, <2>2 DEF IInv, Registered, BundleGoes
  <2>10. CallbackOwed'
    BY <2>3, EndFacts DEF CallbackOwed
  <2>11. QED
    BY <1>1, <2>4, <2>5, <2>6, <2>7, <2>8, <2>9, <2>10 DEF IInv
<1>5. QED
  BY <1>3, <1>4

---------------------------------------------------------------------------
(* The theorems *)

LEMMA NextInv == IInv /\ [Next]_vars => IInv'
<1>1. SUFFICES ASSUME IInv, [Next]_vars PROVE IInv'
  OBVIOUS
<1>2. CASE \E action \in Actions : Terminal(action)
  BY <1>1, <1>2, TerminalStep
<1>3. CASE Delegate \/ DelegateSwitching \/ BootUp \/ BootReplaces \/ TimerFires
           \/ ReceiveCallback \/ ReceiveStray
  BY <1>1, <1>3, DelegateStep, DelegateSwitchingStep, BootUpStep, BootReplacesStep,
     TimerFiresStep,
     ReceiveCallbackStep, ReceiveStrayStep
<1>4. CASE DestroyEffect \/ DestroyFails \/ DestroyDone \/ SweepBundle
  BY <1>1, <1>4, DestroyEffectStep, DestroyFailsStep, DestroyDoneStep, SweepBundleStep
<1>5. CASE Deliver \/ CleanupDone \/ Post \/ PostTimesOut \/ Answered
  BY <1>1, <1>5, DeliverStep, CleanupDoneStep, PostStep, PostTimesOutStep, AnsweredStep
<1>6. CASE Connect \/ Disconnect \/ WorkerDies \/ RouterRestarts
  BY <1>1, <1>6, ConnectStep, DisconnectStep, WorkerDiesStep, RouterRestartsStep
<1>7. CASE OperatorDestroys \/ OrphanSwept
  BY <1>1, <1>7, OperatorDestroysStep, OrphanSweptStep
<1>8. CASE UNCHANGED vars
  <2>1. Flags' /\ Data'
    BY <1>1, <1>8 DEF vars, routerVars, workerVars, histVars, marks, IInv, Flags, Data
  <2>2. AttemptRegistered' /\ Registered' /\ EntryKept' /\ EntryRegistered'
    BY <1>1, <1>8 DEF vars, routerVars, workerVars, histVars, marks, IInv, AttemptRegistered,
                      Registered, EntryKept, EntryRegistered
  <2>3. BundleGoes' /\ CallbackOwed'
    BY <1>1, <1>8
       DEF vars, routerVars, workerVars, histVars, marks, IInv, BundleGoes, CallbackOwed
  <2>4. QED
    BY <2>1, <2>2, <2>3 DEF IInv
<1>9. QED
  BY <1>1, <1>2, <1>3, <1>4, <1>5, <1>6, <1>7, <1>8 DEF Next

\* The invariant above holds of every behaviour.
THEOREM Invariant == Spec => []IInv
<1>1. QED
  BY InitInv, NextInv, PTL DEF Spec

\* Every field keeps to the values TerminalTeardown, the store and the worker's
\* callback queue can give it.
THEOREM TypeCorrect == Spec => []TypeOK
<1>1. IInv => TypeOK
  BY DEF IInv, Flags, Data, Events, TypeOK
<1>2. QED
  BY <1>1, Invariant, PTL

\* TeardownCallbackQueue.record comes before the cleanup: while a teardown waits
\* for its grace deadline, the terminal webhook is still queued or the callback
\* is on the disk of the issue's container, whatever worker deaths, failed
\* posts and dropped sockets came in between, unless ensureRunning replaced
\* the sandbox that had recorded it.
THEOREM WorkerKeepsCallback == Spec => []CallbackOwed
<1>1. IInv => CallbackOwed
  BY DEF IInv
<1>2. QED
  BY <1>1, Invariant, PTL

\* A deletion upgrades a pending close (register) and is read again after the
\* destroy (attempt), so the end of a deleted issue's teardown always comes with
\* a deleteRetainedBundle, in any order of close, delete, destroy and late
\* uploads: a bundle in artifactsDir is then there because one has failed.
THEOREM DeletionTakesBundle == Spec => []DeletedLeavesNoBundle
<1>1. IInv => DeletedLeavesNoBundle
  BY DEF IInv, BundleGoes, DeletedLeavesNoBundle
<1>2. QED
  BY <1>1, Invariant, PTL

\* attempt compares the row with the device it was registered for, before and
\* after the destroy: a row goes only after a terminal webhook for that device,
\* by an operator, or when ensureDevice switches the issue to another provider.
THEOREM OnlyEndedRowsGo == Spec => RowGoesOnlyWhenEnded
<1>1. ASSUME IInv, [Next]_vars
      PROVE  [row # 0 /\ row' # row => row \in ended \/ ops' # ops \/ switches' # switches]_vars
  <2>1. CASE UNCHANGED row
    BY <2>1
  <2>2. CASE Delegate
    BY <2>2 DEF Delegate, marks
  <2>3. CASE DestroyDone
    BY <1>1, <2>3 DEF DestroyDone, IInv, Registered
  <2>4. CASE OperatorDestroys
    BY <1>1, <2>4 DEF OperatorDestroys, marks, IInv, Data
  <2>5. CASE DelegateSwitching
    BY <1>1, <2>5 DEF DelegateSwitching, IInv, Data
  <2>6. CASE /\ Next /\ ~ Delegate /\ ~ DelegateSwitching /\ ~ DestroyDone
             /\ ~ OperatorDestroys
    BY <2>6
       DEF Next, Terminal, BootUp, BootReplaces, TimerFires, ReceiveCallback, ReceiveStray,
           DestroyEffect,
         DestroyFails, SweepBundle, Deliver, CleanupDone, Post, PostTimesOut, Answered, Connect,
         Disconnect, WorkerDies, RouterRestarts, OrphanSwept
  <2>7. QED
    BY <1>1, <2>1, <2>2, <2>3, <2>4, <2>5, <2>6 DEF vars
<1>2. QED
  BY <1>1, Invariant, PTL DEF Spec, RowGoesOnlyWhenEnded
=============================================================================
