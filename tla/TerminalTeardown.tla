-------------------------- MODULE TerminalTeardown --------------------------
(***************************************************************************)
(* What happens to one issue's container once the issue is closed or       *)
(* deleted: EventRouter.routeIssueTerminal and TerminalTeardown in the     *)
(* router, the worker's terminal cleanup and its TeardownCallbackQueue in  *)
(* the container.                                                          *)
(*                                                                         *)
(* The registration and its timer live in the router's memory, the device  *)
(* row and the mirror table in its database, the callback entry on the     *)
(* container's disk: each survives a different failure.  Timers fire at    *)
(* any moment after they are armed.  The sandbox provider is external.     *)
(***************************************************************************)
EXTENDS Integers, Sequences, FiniteSets

CONSTANTS
    MaxDevices,  \* bound on device rows made for the issue
    MaxWebhooks, \* bound on webhooks about the issue
    MaxFaults,   \* bound on failed requests, dead workers and dropped sockets
    MaxRestarts, \* bound on router restarts
    MaxOps,      \* bound on `containers destroy` by an operator
    MaxSwitches  \* bound on changes of the user's executor

ASSUME BoundsAssumption ==
    /\ MaxDevices \in Nat \ {0} /\ MaxWebhooks \in Nat
    /\ MaxFaults \in Nat /\ MaxRestarts \in Nat
    /\ MaxOps \in Nat /\ MaxSwitches \in Nat

VARIABLES
    \* RouterStore
    row,      \* device id of the issue's container row, 0 when there is none
    queue,    \* events queued for that device
    mirror,   \* the container_teardowns row
    bundle,   \* the issue's artifact bundle is in artifactsDir
    \* TerminalTeardown and ContainerTargets, in memory
    pend,     \* the pending entry: device, action and the timer armed for it
    destroy,  \* what the attempt in flight awaits
    wanted,   \* a boot has been requested
    \* The container and its worker
    box,      \* the provider's resource: state and the device whose token it has
    conn,     \* the worker's socket is up
    cleaning, \* terminal cleanups under way
    cb,       \* teardown-callbacks.jsonl has an entry
    flush,    \* a flush of it is under way
    req,      \* the callback request the flush awaits
    stray,    \* device of a request it gave up on that is still on its way, or 0
    \* History
    made, ended, deleted, lost,
    wiped,    \* devices whose callback entry went with a sandbox that was replaced
    unswept,  \* a deleteRetainedBundle has failed
    webhooks, faults, restarts, ops, switches

routerVars == <<pend, destroy, wanted>>
workerVars == <<cleaning, cb, flush, req, stray>>
marks == <<wiped, unswept, switches>>
histVars == <<made, ended, deleted, lost, webhooks, faults, restarts, ops, marks>>
vars == <<row, queue, mirror, bundle, routerVars, box, conn, workerVars, histVars>>

Devices == 1 .. MaxDevices
Actions == {"closed", "deleted"}
None == [dev |-> 0, action |-> "none"]
NotPending == [dev |-> 0, action |-> "none", timer |-> "none"]

Online == conn /\ box.st = "running" /\ box.dev = row

Init ==
    /\ row = 1 /\ queue = <<>> /\ mirror = None /\ bundle \in BOOLEAN
    /\ pend = NotPending /\ destroy = "none" /\ wanted = FALSE
    /\ box \in [st : {"running", "stopped"}, dev : {1}]
    /\ conn = (box.st = "running")
    /\ cleaning = 0 /\ cb = FALSE /\ flush = FALSE /\ req = "none" /\ stray = 0
    /\ made = 1 /\ ended = {} /\ deleted = FALSE /\ lost = FALSE
    /\ wiped = {} /\ unswept = FALSE /\ switches = 0
    /\ webhooks = 0 /\ faults = 0 /\ restarts = 0 /\ ops = 0

Webhook == webhooks < MaxWebhooks /\ webhooks' = webhooks + 1
Fault == faults < MaxFaults /\ faults' = faults + 1

---------------------------------------------------------------------------
(* The router: webhooks *)

\* The worker and what it has on disk end with the sandbox.
DiskGone ==
    /\ conn' = FALSE
    /\ cleaning' = 0 /\ cb' = FALSE /\ flush' = FALSE /\ req' = "none"
    /\ stray' = IF req = "wire" THEN box.dev ELSE stray

BoxGone == box' = [st |-> "absent", dev |-> 0] /\ DiskGone

\* A session of the issue is created or prompted: the issue's device is found
\* or made, the event queued, and the container booted when it is offline.  An
\* issue that was removed is not delegated again.
Delegate ==
    /\ ~ deleted /\ Webhook
    /\ IF row # 0
       THEN UNCHANGED <<row, made>> /\ queue' = Append(queue, "work")
       ELSE made < MaxDevices /\ made' = made + 1 /\ row' = made + 1 /\ queue' = <<"work">>
    /\ wanted' = (wanted \/ ~ Online)
    /\ UNCHANGED <<mirror, bundle, pend, destroy, box, conn, workerVars,
                   ended, deleted, lost, faults, restarts, ops, marks>>

\* The same where the user has another executor by now: ensureDevice deletes the
\* row, its queue and its mirror, whether the issue ended or not, and makes one
\* of the new provider.  The old provider's sandbox is destroyed in the
\* background, or leaks: nothing that bears its token is heard any more.
DelegateSwitching ==
    /\ ~ deleted /\ Webhook
    /\ row # 0 /\ switches < MaxSwitches /\ switches' = switches + 1
    /\ made < MaxDevices /\ made' = made + 1 /\ row' = made + 1 /\ queue' = <<"work">>
    /\ mirror' = IF mirror.dev = row THEN None ELSE mirror
    /\ lost' = (lost \/ pend.dev # 0)
    /\ BoxGone /\ wanted' = TRUE
    /\ UNCHANGED <<bundle, pend, destroy, ended, deleted, faults, restarts, ops,
                   wiped, unswept>>

\* Faulty variant: a deletion does not upgrade a pending close.
RegisterFirstOnly(action) ==
    IF pend.dev = 0
    THEN /\ pend' = [dev |-> row, action |-> action, timer |-> "grace"]
         /\ mirror' = [dev |-> row, action |-> action]
         /\ wanted' = TRUE
    ELSE UNCHANGED <<pend, mirror, wanted>>

\* register, and bootForTeardown when it registered something: the first
\* registration wins, except that deleted upgrades the same device's closed.
Register(action) ==
    IF pend.dev = 0
    THEN /\ pend' = [dev |-> row, action |-> action, timer |-> "grace"]
         /\ mirror' = [dev |-> row, action |-> action]
         /\ wanted' = TRUE
    ELSE IF pend.dev = row /\ pend.action = "closed" /\ action = "deleted"
    THEN /\ pend' = [pend EXCEPT !.action = "deleted"]
         /\ mirror' = [dev |-> row, action |-> "deleted"]
         /\ wanted' = TRUE
    ELSE UNCHANGED <<pend, mirror, wanted>>

\* deleteRetainedBundle; where it fails that is logged and nothing tries again.
RemoveBundle ==
    \/ bundle' = FALSE /\ UNCHANGED <<unswept, faults>>
    \/ Fault /\ unswept' = TRUE /\ UNCHANGED bundle

\* routeIssueTerminal.  Without a device there is only a retained bundle to
\* remove; with one, the webhook is queued for the worker's own cleanup first.
Terminal(action) ==
    /\ ~ deleted /\ Webhook
    /\ deleted' = (action = "deleted")
    /\ IF row = 0
       THEN /\ IF action = "deleted" THEN RemoveBundle
                                    ELSE UNCHANGED <<bundle, unswept, faults>>
            /\ UNCHANGED <<queue, ended, pend, mirror, wanted>>
       ELSE /\ queue' = Append(queue, "end")
            /\ ended' = ended \cup {row}
            /\ Register(action)
            /\ UNCHANGED <<bundle, unswept, faults>>
    /\ UNCHANGED <<row, destroy, box, conn, workerVars, made, lost,
                   restarts, ops, wiped, switches>>

\* ContainerTargets serves a boot request: a sandbox that runs is left alone, one
\* that is stopped resumes with its disk.
BootUp ==
    /\ wanted /\ wanted' = FALSE
    /\ IF row # 0 /\ box.st = "stopped"
       THEN box' \in {box, [box EXCEPT !.st = "running"]}
       ELSE UNCHANGED box
    /\ UNCHANGED <<row, queue, mirror, bundle, pend, destroy, conn,
                   workerVars, histVars>>

\* Where there is none, one is created for the row's device; so it is in place
\* of one that is of another disk image, that runs but has been disconnected
\* for too long, or that was resumed and did not come back.  The disk of the
\* old one, and a callback recorded there, go with it.
BootReplaces ==
    /\ wanted /\ wanted' = FALSE
    /\ row # 0 /\ box' = [st |-> "running", dev |-> row] /\ DiskGone
    /\ wiped' = IF cb THEN wiped \cup {box.dev} ELSE wiped
    /\ UNCHANGED <<row, queue, mirror, bundle, pend, destroy, made, ended, deleted,
                   lost, unswept, webhooks, faults, restarts, ops, switches>>

---------------------------------------------------------------------------
(* The router: completing a teardown *)

\* complete and the start of attempt, up to the await of destroy.  An entry
\* whose device row is no longer the issue's is dropped.
Attempt ==
    IF row # pend.dev
    THEN /\ pend' = NotPending /\ mirror' = None
         /\ UNCHANGED destroy
    ELSE /\ destroy' = "called"
         /\ pend' = [pend EXCEPT !.timer = "none"]
         /\ UNCHANGED mirror

\* Faulty variant: the deadline waits for the worker to be there.
TimerFiresOnline ==
    /\ pend.timer # "none" /\ destroy = "none" /\ Online
    /\ Attempt
    /\ UNCHANGED <<row, queue, bundle, wanted, box, conn, workerVars, histVars>>

\* The grace deadline passes, or the retry timer fires.
TimerFires ==
    /\ pend.timer # "none" /\ destroy = "none"
    /\ Attempt
    /\ UNCHANGED <<row, queue, bundle, wanted, box, conn, workerVars, histVars>>

\* The route of teardown-complete.  What it answers: 401 to a token whose row
\* is gone, 200 when nothing is pending for the device; otherwise the caller
\* waits for the attempt, the one in flight or the one it starts.
Callback(dev, answer) ==
    IF row # dev
    THEN answer = "rejected" /\ UNCHANGED <<pend, mirror, destroy>>
    ELSE IF pend.dev # dev
    THEN answer = "ok" /\ UNCHANGED <<pend, mirror, destroy>>
    ELSE /\ answer = "handling"
         /\ IF destroy = "none"
            THEN Attempt
            ELSE UNCHANGED <<pend, mirror, destroy>>

ReceiveCallback ==
    /\ req = "wire"
    /\ \E answer \in {"rejected", "ok", "handling"} :
          Callback(box.dev, answer) /\ req' = answer
    /\ UNCHANGED <<row, queue, bundle, wanted, box, conn, cleaning, cb, flush,
                   stray, histVars>>

\* A request whose sender gave up, or is gone, is served all the same.
ReceiveStray ==
    /\ stray # 0 /\ stray' = 0
    /\ \E answer \in {"rejected", "ok", "handling"} : Callback(stray, answer)
    /\ UNCHANGED <<row, queue, bundle, wanted, box, conn, cleaning, cb, flush,
                   req, histVars>>

\* executor.destroy takes effect at the provider, for the issue: a sandbox of a
\* later device goes too, unless another provider has it.
DestroyEffect ==
    /\ destroy = "called" /\ destroy' = "gone"
    /\ \/ BoxGone
       \/ /\ switches > 0 /\ box.dev # pend.dev
          /\ UNCHANGED <<box, conn, workerVars>>
    /\ UNCHANGED <<row, queue, mirror, bundle, pend, wanted, histVars>>

ScheduleRetry == pend' = [pend EXCEPT !.timer = "retry"]

\* executor.destroy throws, before or after it took effect: the row stays, a
\* retry is armed and the callback is answered 503.
DestroyFails ==
    /\ destroy \in {"called", "gone"} /\ Fault
    /\ destroy' = "none"
    /\ ScheduleRetry
    /\ req' = IF req = "handling" THEN "failed" ELSE req
    /\ UNCHANGED <<row, queue, mirror, bundle, wanted, box, conn,
                   cleaning, cb, flush, stray, made, ended, deleted, lost,
                   webhooks, restarts, ops, marks>>

\* Faulty variant: the issue's row is deleted, whichever device it is.
DestroyDoneByIssue ==
    /\ destroy = "gone"
    /\ pend' = NotPending /\ mirror' = None
    /\ row' = 0 /\ queue' = <<>>
    /\ destroy' = IF pend.action = "deleted" THEN "sweeping" ELSE "none"
    /\ UNCHANGED <<bundle, wanted, box, conn, workerVars, histVars>>

\* attempt resumes after destroy: the entry, the mirror, then the row with the
\* events queued for it.  The bundle of a deleted issue is still to go.
DestroyDone ==
    /\ destroy = "gone"
    /\ pend' = NotPending /\ mirror' = None
    /\ row' = IF row = pend.dev THEN 0 ELSE row
    /\ queue' = IF row = pend.dev THEN <<>> ELSE queue
    /\ destroy' = IF pend.action = "deleted" THEN "sweeping" ELSE "none"
    /\ UNCHANGED <<bundle, wanted, box, conn, workerVars, histVars>>

\* The end of the attempt for a deleted issue.
SweepBundle ==
    /\ destroy = "sweeping" /\ destroy' = "none"
    /\ RemoveBundle
    /\ UNCHANGED <<row, queue, mirror, pend, wanted, box, conn, workerVars, made,
                   ended, deleted, lost, webhooks, restarts, ops, wiped, switches>>

---------------------------------------------------------------------------
(* The worker *)

\* TeardownCallbackQueue.record, in the turn that consumes the event.
Record == cb' = TRUE

\* An event is consumed.  The first thing terminal cleanup does is to record
\* the callback it will owe.
Deliver ==
    /\ Online /\ queue # <<>>
    /\ queue' = Tail(queue)
    /\ IF Head(queue) = "end"
       THEN Record /\ cleaning' = cleaning + 1
       ELSE UNCHANGED <<cb, cleaning>>
    /\ UNCHANGED <<row, mirror, bundle, routerVars, box, conn, flush, req, stray,
                   histVars>>

\* A cleanup ends: floor sync (which may upload a bundle), WIP refs, worktree,
\* then the flush of the recorded callback.
CleanupDone ==
    /\ box.st = "running" /\ cleaning > 0
    /\ cleaning' = cleaning - 1
    /\ \/ UNCHANGED bundle
       \/ row = box.dev /\ bundle' = TRUE
    /\ flush' = cb
    /\ UNCHANGED <<row, queue, mirror, routerVars, box, conn, cb, req, stray, histVars>>

\* deliver posts the entry.
Post ==
    /\ box.st = "running" /\ flush /\ req = "none"
    /\ req' = "wire"
    /\ UNCHANGED <<row, queue, mirror, bundle, routerVars, box, conn, cleaning, cb,
                   flush, stray, histVars>>

\* The request fails at the worker: its timeout, or a network error.
PostTimesOut ==
    /\ req \in {"wire", "handling"} /\ Fault
    /\ req' = "failed"
    /\ stray' = IF req = "wire" THEN box.dev ELSE stray
    /\ UNCHANGED <<row, queue, mirror, bundle, routerVars, box, conn, cleaning, cb,
                   flush, made, ended, deleted, lost, webhooks, restarts, ops, marks>>

\* Faulty variant: a callback that fails is dropped like one that is refused.
AnsweredDropping ==
    /\ req \in {"ok", "rejected", "failed"} /\ req' = "none"
    /\ cb' = FALSE /\ flush' = FALSE
    /\ UNCHANGED <<row, queue, mirror, bundle, routerVars, box, conn, cleaning,
                   stray, histVars>>

\* An answer that settles the callback removes its entry; any other keeps it,
\* to be tried again in this flush or left for the next one.
Answered ==
    /\ req \in {"ok", "rejected", "failed"} /\ req' = "none"
    /\ \/ req # "failed" /\ cb' = FALSE /\ flush' = FALSE
       \/ req = "failed" /\ flush' \in BOOLEAN /\ UNCHANGED cb
    /\ UNCHANGED <<row, queue, mirror, bundle, routerVars, box, conn, cleaning,
                   stray, histVars>>

\* The socket comes up; the worker then replays what it has recorded (resume).
Connect ==
    /\ box.st = "running" /\ box.dev = row /\ ~ conn
    /\ conn' = TRUE
    /\ flush' = (flush \/ cb)
    /\ UNCHANGED <<row, queue, mirror, bundle, routerVars, box, cleaning, cb, req,
                   stray, histVars>>

Disconnect ==
    /\ conn /\ Fault
    /\ conn' = FALSE
    /\ UNCHANGED <<row, queue, mirror, bundle, routerVars, box, workerVars, made,
                   ended, deleted, lost, webhooks, restarts, ops, marks>>

---------------------------------------------------------------------------
(* Failures and other actors *)

\* The worker process dies, alone or because the idle sweep stops the container.
\* What it wrote to disk is still there when it runs again.
WorkerDies ==
    /\ box.st = "running" /\ Fault
    /\ box' \in {box, [box EXCEPT !.st = "stopped"]}
    /\ conn' = FALSE
    /\ cleaning' = 0 /\ flush' = FALSE /\ req' = "none"
    /\ stray' = IF req = "wire" THEN box.dev ELSE stray
    /\ UNCHANGED <<row, queue, mirror, bundle, routerVars, cb, made, ended, deleted,
                   lost, webhooks, restarts, ops, marks>>

\* clearPendingTeardowns, when TerminalTeardown is constructed.
ClearMirror == mirror' = None

\* The router restarts: registrations, timers and awaits are gone.
RouterRestarts ==
    /\ restarts < MaxRestarts /\ restarts' = restarts + 1
    /\ lost' = (lost \/ pend.dev # 0 \/ destroy = "sweeping")
    /\ pend' = NotPending /\ ClearMirror
    /\ destroy' = "none" /\ wanted' = FALSE
    /\ conn' = FALSE /\ stray' = 0
    /\ req' = IF req \in {"wire", "handling"} THEN "failed" ELSE req
    /\ UNCHANGED <<row, queue, bundle, box, cleaning, cb, flush, made, ended,
                   deleted, webhooks, faults, ops, marks>>

\* `cyrus router containers destroy`: another process deletes the row.
OperatorDestroys ==
    /\ row # 0 /\ ops < MaxOps /\ ops' = ops + 1
    /\ row' = 0 /\ queue' = <<>>
    /\ mirror' = IF mirror.dev = row THEN None ELSE mirror
    /\ lost' = (lost \/ pend.dev # 0 \/ deleted)
    /\ UNCHANGED <<bundle, routerVars, box, conn, workerVars, made, ended, deleted,
                   webhooks, faults, restarts, marks>>

\* The lifecycle sweep collects a container that has no row.
OrphanSwept ==
    /\ row = 0 /\ box.st # "absent" /\ destroy # "called"
    /\ BoxGone
    /\ UNCHANGED <<row, queue, mirror, bundle, routerVars, histVars>>

Next ==
    \/ Delegate \/ DelegateSwitching
    \/ \E action \in Actions : Terminal(action)
    \/ BootUp \/ BootReplaces \/ TimerFires \/ ReceiveCallback \/ ReceiveStray
    \/ DestroyEffect \/ DestroyFails \/ DestroyDone \/ SweepBundle
    \/ Deliver \/ CleanupDone \/ Post \/ PostTimesOut \/ Answered
    \/ Connect \/ Disconnect
    \/ WorkerDies \/ RouterRestarts \/ OperatorDestroys \/ OrphanSwept

Spec == Init /\ [][Next]_vars

\* Timers fire, and the provider's calls end: every one carries a deadline.
\* Nothing is assumed of the worker, its socket or its requests.
FairSpec ==
    /\ Spec
    /\ WF_vars(TimerFires)
    /\ WF_vars(DestroyEffect)
    /\ WF_vars(DestroyDone)
    /\ WF_vars(SweepBundle)

---------------------------------------------------------------------------
(* Properties *)

\* Every variable keeps to the values its code can give it.
TypeOK ==
    /\ row \in 0 .. MaxDevices /\ made \in Devices
    /\ queue \in Seq({"work", "end"})
    /\ mirror \in {None} \cup [dev : Devices, action : Actions]
    /\ pend \in {NotPending} \cup
          [dev : Devices, action : Actions, timer : {"none", "grace", "retry"}]
    /\ destroy \in {"none", "called", "gone", "sweeping"}
    /\ box \in [st : {"absent", "running", "stopped"}, dev : 0 .. MaxDevices]
    /\ req \in {"none", "wire", "handling", "ok", "rejected", "failed"}
    /\ stray \in 0 .. MaxDevices
    /\ cleaning \in Nat /\ ended \subseteq Devices
    /\ wanted \in BOOLEAN /\ conn \in BOOLEAN /\ cb \in BOOLEAN /\ flush \in BOOLEAN
    /\ bundle \in BOOLEAN /\ deleted \in BOOLEAN /\ lost \in BOOLEAN
    /\ webhooks \in 0 .. MaxWebhooks /\ faults \in 0 .. MaxFaults
    /\ restarts \in 0 .. MaxRestarts /\ ops \in 0 .. MaxOps
    /\ wiped \subseteq Nat /\ unswept \in BOOLEAN /\ switches \in 0 .. MaxSwitches

\* A worker never forgets the callback it owes: while a teardown waits for its
\* grace deadline and its webhook is no longer queued, the entry is on the disk
\* of a container that is still the issue's, whatever killed the worker on the
\* way (record before cleanup).  It goes only with the disk, when a boot
\* replaces the sandbox; the grace deadline is then all that is left.  A
\* registration lost to a restart or to a switch of providers ends the promise:
\* the answer to the first teardown's callback may then remove the entry a
\* second one relies on.
CallbackOwed ==
    (~ lost /\ pend.timer = "grace" /\ \A i \in DOMAIN queue : queue[i] # "end")
        => \/ cb /\ box.st # "absent" /\ box.dev = row
           \/ pend.dev \in wiped

\* When an issue was deleted and nothing of its teardown is left to do, its
\* bundle is gone too, in whichever order close, delete and destroy came; only a
\* router restart, an operator's row deletion or a switch of providers in
\* between may forget it.  A removal that fails is not retried, so the bundle
\* may stay after one that was tried; it never stays because none was.
DeletedLeavesNoBundle ==
    (deleted /\ ~ lost /\ row = 0 /\ pend.dev = 0 /\ destroy = "none")
        => ~ bundle \/ unswept

\* A teardown takes away the row it was registered for and no other: a row goes
\* only when a terminal webhook was routed to that very device, by the operator,
\* or by a switch of providers, even when the issue got a new device while the
\* old entry waited or its destroy was under way.
RowGoesOnlyWhenEnded ==
    [][row # 0 /\ row' # row =>
          row \in ended \/ ops' # ops \/ switches' # switches]_vars

\* Once a teardown is registered and the router restarts no more, the device's
\* row goes: no failed destroy, dead worker or lost callback keeps it.
TeardownCompletes ==
    \A d \in Devices :
        (pend.dev = d /\ restarts = MaxRestarts) ~> (row # d)

=============================================================================
