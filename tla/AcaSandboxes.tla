---------------------------- MODULE AcaSandboxes ----------------------------
(***************************************************************************)
(* AcaSandboxesProvider for one issue: ensureRunning, stop and destroy     *)
(* under the per-issue lock, the sandboxes and labelled snapshots they     *)
(* manage, and the device token baked into each of them.                   *)
(*                                                                         *)
(* Every control-plane request is a step of its own and may fail, with its *)
(* effect or without; a list of deletions may fail in part.  ACA accepts   *)
(* the deletion of a snapshot (202) and carries it out later, and goes on  *)
(* with a snapshot, a suspension or a resumption whose request the client  *)
(* has given up on.  The lock admits one operation at a                    *)
(* time, but the device row, the worker's socket and the pinned disk       *)
(* change under it, and the router may restart between any two requests.   *)
(***************************************************************************)
EXTENDS Integers, FiniteSets

CONSTANTS
    Disks,          \* disk images an issue may be pinned to
    KeepSnapshots,  \* keepSnapshots
    MaxBoxes,       \* bound on sandboxes ever created
    MaxSnaps,       \* bound on snapshots ever taken
    MaxFaults       \* bound on failed requests, row changes, disk moves, restarts

ASSUME AcaAssumption ==
    /\ KeepSnapshots \in Nat /\ MaxBoxes \in Nat
    /\ MaxSnaps \in Nat /\ MaxFaults \in Nat

VARIABLES
    \* Router
    row,      \* device id of the issue's row, 0 for none
    devs,     \* device ids issued so far
    tok,      \* generation of the row's device token
    conn,     \* the device's socket: "up", or how long it has been down
    disk,     \* the disk the issue is pinned to
    waiting,  \* contexts of ensureRunning calls queued on the lock
    op, step, \* the operation that holds the lock, and where it is
    ctx,      \* its context: the device id and the disk of the boot
    cur,      \* sandbox or snapshot the operation works on, 0 for none
    todo,     \* sandboxes the operation still has to delete or suspend
    minted,   \* token minted for the create under way
    \* ACA
    boxes,    \* sandboxes: [id, st, dev, disk, tok]
    snaps,    \* explicit snapshots, as listed: [id, dev, disk, tok]
    made, taken, \* ids used for sandboxes and snapshots
    doomed,   \* listed snapshots whose deletion ACA has accepted
    late,     \* snapshots in the making whose request has failed
    \* History
    lagSnaps, \* snapshots that were doomed or late, or taken of a lagBox
    lagBoxes, \* sandboxes restored from one of lagSnaps
    rejected, \* snapshots of a lineage that ensureRunning gave up on
    faults

rowVars == <<row, devs, tok, conn, disk>>
opVars  == <<op, step, ctx, cur, todo, minted>>
lagVars == <<doomed, late, lagSnaps, lagBoxes>>
acaVars == <<boxes, snaps, made, taken, lagVars>>
vars == <<rowVars, waiting, opVars, acaVars, rejected, faults>>

\* "Starting" stands for Creating and Resuming.
BoxStates == {"Running", "Suspended", "Starting", "Stopping"}
Box == [id : Nat, st : BoxStates, dev : Nat, disk : Disks, tok : Nat]
Snap == [id : Nat, dev : Nat, disk : Disks, tok : Nat]
Context == [dev : Nat, disk : Disks]

IdsOf(S) == {x.id : x \in S}
BoxOf(i) == CHOOSE b \in boxes : b.id = i
NewestOf(S) == CHOOSE s \in S : \A x \in S : x.id <= s.id

\* The issue starts with no sandbox, or with two that an interrupted
\* replacement has left, one perhaps of another disk.
Init ==
    /\ row = 1 /\ devs = 1 /\ tok = 1 /\ conn = "recent" /\ disk \in Disks
    /\ waiting = {}
    /\ op = "none" /\ step = "none" /\ ctx = [dev |-> 0, disk |-> disk]
    /\ cur = 0 /\ todo = {} /\ minted = 0
    /\ \/ boxes = {} /\ made = 0
       \/ /\ \E k \in Disks : boxes = {[id |-> i, st |-> "Running", dev |-> 1,
                                      disk |-> IF i = 1 THEN disk ELSE k,
                                      tok |-> 1] : i \in {1, 2}}
          /\ made = 2
    /\ snaps = {} /\ taken = 0
    /\ doomed = {} /\ late = {} /\ lagSnaps = {} /\ lagBoxes = {}
    /\ rejected = {} /\ faults = 0

Fault == faults < MaxFaults /\ faults' = faults + 1

---------------------------------------------------------------------------
(* The lock *)

\* bootInner calls ensureRunning with the row and the pin as they are now; the
\* call then waits for the lock.
CallEnsureRunning ==
    /\ row # 0
    /\ waiting' = waiting \cup {[dev |-> row, disk |-> disk]}
    /\ waiting' # waiting
    /\ UNCHANGED <<rowVars, opVars, acaVars, rejected, faults>>

Acquire(kind, first, c) ==
    /\ op = "none"
    /\ op' = kind /\ step' = first /\ ctx' = c
    /\ cur' = 0 /\ todo' = {} /\ minted' = 0

\* The end of an operation: the lock goes to the next.
Released ==
    /\ op' = "none" /\ step' = "none" /\ cur' = 0 /\ todo' = {}
    /\ minted' = 0 /\ UNCHANGED ctx

GoTo(next) == step' = next /\ UNCHANGED <<op, ctx, cur, todo, minted>>

\* A request fails and the operation throws.
Throws == Fault /\ Released

EnsureRunning(c) ==
    /\ c \in waiting /\ waiting' = waiting \ {c}
    /\ Acquire("boot", "list", c)
    /\ UNCHANGED <<rowVars, acaVars, rejected, faults>>

Stop ==
    /\ Acquire("stop", "running", ctx)
    /\ UNCHANGED <<rowVars, waiting, acaVars, rejected, faults>>

Destroy ==
    /\ Acquire("destroy", "boxes", ctx)
    /\ UNCHANGED <<rowVars, waiting, acaVars, rejected, faults>>

---------------------------------------------------------------------------
(* ensureRunningLocked *)

Rank(b) == CASE b.st = "Running" -> 0 [] b.st = "Suspended" -> 1 [] OTHER -> 2

Better(a, b) == Rank(a) < Rank(b) \/ (Rank(a) = Rank(b) /\ a.id <= b.id)

\* Sandboxes of the context's disk; the device label is not compared.
Valid == {b \in boxes : b.disk = ctx.disk}
Retained == CHOOSE b \in Valid : \A x \in Valid : Better(b, x)

\* shouldRecreateDisconnected, for the device of the context.  The socket of a
\* device whose row is gone has been down for as long as anybody can tell.
Unreachable == conn = "long" \/ row # ctx.dev

\* Snapshots of the lineage given up, the ones still in the making included.
GivenUp == IdsOf(snaps) \cup IdsOf(late)

\* listByIssue, and what to do with what it shows.
ListSandboxes ==
    /\ op = "boot" /\ step = "list"
    /\ IF boxes = {}
       THEN GoTo("pick") /\ UNCHANGED rejected
       ELSE IF Valid = {} \/ (Retained.st = "Running" /\ Unreachable)
       THEN /\ step' = "purgeSnaps" /\ todo' = IdsOf(boxes)
            /\ rejected' = rejected \cup GivenUp
            /\ UNCHANGED <<op, ctx, cur, minted>>
       ELSE /\ step' = "trim" /\ cur' = Retained.id
            /\ todo' = IdsOf(boxes) \ {Retained.id}
            /\ UNCHANGED <<op, ctx, minted, rejected>>
    /\ UNCHANGED <<rowVars, waiting, acaVars, faults>>

\* listByIssue or listSnapshots throws.
ListingFails ==
    /\ \/ op = "boot" /\ step \in {"list", "pick"}
       \/ op = "stop" /\ step = "running"
    /\ Throws
    /\ UNCHANGED <<rowVars, waiting, acaVars, rejected>>

\* deleteSandboxes(S): all are tried, some may fail.
DeleteSandboxes(S, gone) ==
    /\ gone \subseteq S
    /\ boxes' = {b \in boxes : b.id \notin gone}
    /\ UNCHANGED <<snaps, made, taken, lagVars>>

\* The DELETE of a snapshot is answered with 202: the snapshot is still listed,
\* and may still be restored, until ACA has deleted it.
DeleteSnapshots(accepted) ==
    /\ accepted \subseteq IdsOf(snaps)
    /\ doomed' = doomed \cup accepted
    /\ lagSnaps' = lagSnaps \cup accepted
    /\ UNCHANGED <<boxes, snaps, made, taken, late, lagBoxes>>

\* The sandboxes beside the retained one go; a running or transitional one is
\* left as it is, a suspended one is resumed.
Trim ==
    /\ op = "boot" /\ step = "trim"
    /\ \E gone \in SUBSET todo :
          /\ DeleteSandboxes(todo, gone)
          /\ \/ Throws
             \/ /\ gone = todo /\ UNCHANGED faults
                /\ IF \E b \in boxes : b.id = cur /\ b.st = "Suspended"
                   THEN GoTo("resume")
                   ELSE Released
    /\ UNCHANGED <<rowVars, waiting, rejected>>

\* ACA reports the sandbox in another state.
SetState(i, st) ==
    boxes' = {IF b.id = i THEN [b EXCEPT !.st = st] ELSE b : b \in boxes}

\* resumeSandbox.  Where the request fails, the sandbox may resume all the same.
Resume ==
    /\ op = "boot" /\ step = "resume"
    /\ \/ SetState(cur, "Running") /\ GoTo("connect") /\ UNCHANGED faults
       \/ Throws /\ (UNCHANGED boxes \/ SetState(cur, "Starting"))
    /\ UNCHANGED <<rowVars, waiting, snaps, made, taken, lagVars, rejected>>

\* waitForWorkerConnectivity: the worker is back, or the deadline passes and
\* the sandbox is replaced with its snapshots.
AwaitWorker ==
    /\ op = "boot" /\ step = "connect"
    /\ \/ conn = "up" /\ row = ctx.dev /\ Released /\ UNCHANGED rejected
       \/ /\ conn # "up" \/ row # ctx.dev
          /\ step' = "purgeSnaps" /\ todo' = {cur}
          /\ rejected' = rejected \cup GivenUp
          /\ UNCHANGED <<op, ctx, cur, minted>>
    /\ UNCHANGED <<rowVars, waiting, acaVars, faults>>

\* Faulty variant: replaceSandboxes deletes the sandboxes before the snapshots.
PurgeSandboxFirst ==
    /\ op = "boot" /\ step \in {"purgeSnaps", "purgeBoxes"}
    /\ IF step = "purgeSnaps"
       THEN \E gone \in SUBSET todo :
               /\ DeleteSandboxes(todo, gone)
               /\ \/ gone = todo /\ GoTo("purgeBoxes") /\ UNCHANGED faults
                  \/ Throws
       ELSE \E gone \in SUBSET IdsOf(snaps) :
               /\ DeleteSnapshots(gone)
               /\ \/ gone = IdsOf(snaps) /\ GoTo("pick") /\ UNCHANGED faults
                  \/ Throws
    /\ UNCHANGED <<rowVars, waiting, rejected>>

\* replaceSandboxes: the snapshots first, then the sandboxes; a failure in
\* either half aborts.
Purge ==
    /\ op = "boot" /\ step \in {"purgeSnaps", "purgeBoxes"}
    /\ IF step = "purgeSnaps"
       THEN \E gone \in SUBSET IdsOf(snaps) :
               /\ DeleteSnapshots(gone)
               /\ \/ gone = IdsOf(snaps) /\ GoTo("purgeBoxes") /\ UNCHANGED faults
                  \/ Throws
       ELSE \E gone \in SUBSET todo :
               /\ DeleteSandboxes(todo, gone)
               /\ \/ gone = todo /\ GoTo("pick") /\ UNCHANGED faults
                  \/ Throws
    /\ UNCHANGED <<rowVars, waiting, rejected>>

\* The snapshots whose memory image still fits the row and the disk.
Lineage == {s \in snaps : s.dev = ctx.dev /\ s.disk = ctx.disk}

\* pickLineageSnapshot: the newest of the lineage, or a create from the image.
PickSnapshot ==
    /\ op = "boot" /\ step = "pick"
    /\ IF Lineage = {}
       THEN GoTo("wipe")
       ELSE /\ step' = "restore" /\ cur' = NewestOf(Lineage).id
            /\ UNCHANGED <<op, ctx, todo, minted>>
    /\ UNCHANGED <<rowVars, waiting, acaVars, rejected, faults>>

\* createSandbox: it may fail before the sandbox exists, or give up on one that
\* is still being created.
CreateSandbox(token, lagging) ==
    LET box == [id |-> made + 1, st |-> "Running", dev |-> ctx.dev,
                disk |-> ctx.disk, tok |-> token]
    IN /\ made < MaxBoxes
       /\ \/ /\ boxes' = boxes \cup {box} /\ made' = made + 1
             /\ GoTo("prune") /\ UNCHANGED faults
          \/ /\ boxes' = boxes \cup {[box EXCEPT !.st = "Starting"]}
             /\ made' = made + 1 /\ Throws
          \/ Throws /\ UNCHANGED <<boxes, made>>
       /\ lagBoxes' = lagBoxes \cup (IF lagging THEN IdsOf(boxes' \ boxes) ELSE {})
       /\ UNCHANGED <<snaps, taken, doomed, late, lagSnaps>>

\* From a snapshot: environment and token are the ones frozen in it.  The
\* snapshot may have been deleted since the listing.
RestoreSnapshot ==
    /\ op = "boot" /\ step = "restore"
    /\ \/ \E s \in snaps : s.id = cur /\ CreateSandbox(s.tok, cur \in lagSnaps)
       \/ Throws /\ UNCHANGED acaVars
    /\ UNCHANGED <<rowVars, waiting, rejected>>

\* Faulty variant: the token is minted whatever became of the snapshots.
WipeAndMintAnyway ==
    /\ op = "boot" /\ step = "wipe"
    /\ \E gone \in SUBSET IdsOf(snaps) :
          /\ DeleteSnapshots(gone)
          /\ row = ctx.dev
          /\ tok' = tok + 1 /\ minted' = tok + 1 /\ step' = "create"
          /\ UNCHANGED <<op, ctx, cur, todo, faults>>
    /\ UNCHANGED <<row, devs, conn, disk, waiting, rejected>>

\* The deletion of every listed snapshot is accepted before the token is rotated
\* in the same turn; the rotation throws when the context's row is gone.
WipeAndMint ==
    /\ op = "boot" /\ step = "wipe"
    /\ \E gone \in SUBSET IdsOf(snaps) :
          /\ DeleteSnapshots(gone)
          /\ \/ Throws /\ UNCHANGED tok
             \/ /\ gone = IdsOf(snaps) /\ row # ctx.dev
                /\ Released /\ UNCHANGED <<tok, faults>>
             \/ /\ gone = IdsOf(snaps) /\ row = ctx.dev
                /\ tok' = tok + 1 /\ minted' = tok + 1 /\ step' = "create"
                /\ UNCHANGED <<op, ctx, cur, todo, faults>>
    /\ UNCHANGED <<row, devs, conn, disk, waiting, rejected>>

\* From the disk image, with the token just minted.
CreateFromImage ==
    /\ op = "boot" /\ step = "create"
    /\ CreateSandbox(minted, FALSE)
    /\ UNCHANGED <<rowVars, waiting, rejected>>

\* pruneSnapshots: all but the KeepSnapshots newest are tried; failures are only
\* logged.  It ends a create and a stop.
Excess == {s \in snaps : Cardinality({x \in snaps : x.id > s.id}) >= KeepSnapshots}

PruneSnapshots ==
    /\ op \in {"boot", "stop"} /\ step = "prune"
    /\ \E gone \in SUBSET IdsOf(Excess) :
          /\ DeleteSnapshots(gone)
          /\ IF gone = IdsOf(Excess) THEN UNCHANGED faults ELSE Fault
    /\ Released
    /\ UNCHANGED <<rowVars, waiting, rejected>>

---------------------------------------------------------------------------
(* stop and destroy *)

\* stop: every running sandbox is to be suspended.
StopList ==
    /\ op = "stop" /\ step = "running"
    /\ todo' = {b.id : b \in {x \in boxes : x.st = "Running"}}
    /\ step' = IF todo' = {} THEN "prune" ELSE "snapshot"
    /\ UNCHANGED <<op, ctx, cur, minted, rowVars, waiting, acaVars,
                   rejected, faults>>

\* createSnapshot carries the sandbox's labels and memory, token included.  A
\* snapshot that fails does not keep the sandbox from being suspended; ACA may
\* go on to complete it.
SnapshotOf(b) == [id |-> taken + 1, dev |-> b.dev, disk |-> b.disk, tok |-> b.tok]

TakeSnapshot ==
    /\ op = "stop" /\ step = "snapshot"
    /\ \E i \in todo :
          /\ cur' = i /\ step' = "suspend"
          /\ \/ /\ taken < MaxSnaps /\ taken' = taken + 1
                /\ \/ /\ snaps' = snaps \cup {SnapshotOf(BoxOf(i))}
                      /\ lagSnaps' = lagSnaps \cup
                            (IF i \in lagBoxes THEN {taken + 1} ELSE {})
                      /\ UNCHANGED <<late, faults>>
                   \/ /\ Fault
                      /\ late' = late \cup {SnapshotOf(BoxOf(i))}
                      /\ lagSnaps' = lagSnaps \cup {taken + 1}
                      /\ UNCHANGED snaps
             \/ Fault /\ UNCHANGED <<snaps, taken, late, lagSnaps>>
    /\ UNCHANGED <<op, ctx, todo, minted, rowVars, waiting, boxes, made,
                   doomed, lagBoxes, rejected>>

\* stopSandbox, then the next running sandbox, or the pruning.  Where the
\* request fails, the sandbox may be suspended all the same.
Suspend ==
    /\ op = "stop" /\ step = "suspend"
    /\ \/ SetState(cur, "Suspended") /\ UNCHANGED faults
       \/ Fault /\ (UNCHANGED boxes \/ SetState(cur, "Stopping"))
    /\ todo' = todo \ {cur} /\ cur' = 0
    /\ step' = IF todo' = {} THEN "prune" ELSE "snapshot"
    /\ UNCHANGED <<op, ctx, minted, rowVars, waiting, snaps, made, taken, lagVars,
                   rejected>>

\* destroy: sandboxes, then snapshots; both halves are tried whatever fails.
DestroyAll ==
    /\ op = "destroy"
    /\ \/ /\ step = "boxes"
          /\ \E gone \in SUBSET IdsOf(boxes) :
                /\ DeleteSandboxes(IdsOf(boxes), gone)
                /\ IF gone = IdsOf(boxes) THEN UNCHANGED faults ELSE Fault
          /\ step' = "snaps"
          /\ rejected' = {}
          /\ UNCHANGED <<op, ctx, cur, todo, minted>>
       \/ /\ step = "snaps"
          /\ \E gone \in SUBSET IdsOf(snaps) :
                /\ DeleteSnapshots(gone)
                /\ IF gone = IdsOf(snaps) THEN UNCHANGED faults ELSE Fault
          /\ Released
          /\ UNCHANGED rejected
    /\ UNCHANGED <<rowVars, waiting>>

---------------------------------------------------------------------------
(* What changes under the lock *)

\* ACA finishes a create, a resumption or a suspension that nobody waits for.
SandboxSettles ==
    /\ \E b \in boxes :
          \/ b.st = "Starting" /\ SetState(b.id, "Running")
          \/ b.st = "Stopping" /\ SetState(b.id, "Suspended")
    /\ UNCHANGED <<rowVars, waiting, opVars, snaps, made, taken, lagVars, rejected,
                   faults>>

\* ACA carries out a deletion it has accepted ...
SnapshotDeleted ==
    /\ \E s \in snaps : /\ s.id \in doomed
                        /\ snaps' = snaps \ {s} /\ doomed' = doomed \ {s.id}
    /\ UNCHANGED <<rowVars, waiting, opVars, boxes, made, taken, late, lagSnaps,
                   lagBoxes, rejected, faults>>

\* ... or completes a snapshot whose request had failed.
SnapshotCompletes ==
    /\ \E s \in late : snaps' = snaps \cup {s} /\ late' = late \ {s}
    /\ UNCHANGED <<rowVars, waiting, opVars, boxes, made, taken, doomed, lagSnaps,
                   lagBoxes, rejected, faults>>

\* A worker whose sandbox runs under the row's token is let in.
Connect ==
    /\ row # 0 /\ conn # "up"
    /\ \E b \in boxes : b.st = "Running" /\ b.tok = tok /\ b.dev = row
    /\ conn' = "up"
    /\ UNCHANGED <<row, devs, tok, disk, waiting, opVars, acaVars, rejected, faults>>

\* The socket goes, and in time has been gone for disconnectedRecreateMs.
Disconnect ==
    /\ conn # "long"
    /\ conn' = IF conn = "up" THEN "recent" ELSE "long"
    /\ UNCHANGED <<row, devs, tok, disk, waiting, opVars, acaVars, rejected, faults>>

\* deleteContainerDevice, by a teardown, a sweep or the command line.
DeleteRow ==
    /\ row # 0 /\ Fault
    /\ row' = 0 /\ conn' = "long"
    /\ UNCHANGED <<devs, tok, disk, waiting, opVars, acaVars, rejected>>

\* ensureDevice makes a row, with a token nobody has, for the next delegation.
CreateRow ==
    /\ row = 0
    /\ devs' = devs + 1 /\ row' = devs + 1 /\ tok' = tok + 1 /\ conn' = "recent"
    /\ UNCHANGED <<disk, waiting, opVars, acaVars, rejected, faults>>

\* The issue's disk pin is invalidated by a new worker image.
MoveDisk ==
    /\ Fault
    /\ disk' \in Disks \ {disk}
    /\ UNCHANGED <<row, devs, tok, conn, waiting, opVars, acaVars, rejected>>

\* The router restarts in the middle of whatever it was doing.
Restart ==
    /\ op # "none" \/ waiting # {}
    /\ Fault /\ Released
    /\ waiting' = {} /\ conn' = "recent"
    /\ UNCHANGED <<row, devs, tok, disk, acaVars, rejected>>

BootStep ==
    \/ ListSandboxes \/ ListingFails \/ Trim \/ Resume \/ AwaitWorker \/ Purge
    \/ PickSnapshot \/ RestoreSnapshot \/ WipeAndMint \/ CreateFromImage

Next ==
    \/ CallEnsureRunning \/ (\E c \in waiting : EnsureRunning(c)) \/ Stop \/ Destroy
    \/ BootStep \/ PruneSnapshots
    \/ StopList \/ TakeSnapshot \/ Suspend \/ DestroyAll
    \/ SandboxSettles \/ SnapshotDeleted \/ SnapshotCompletes
    \/ Connect \/ Disconnect \/ DeleteRow \/ CreateRow \/ MoveDisk \/ Restart

Spec == Init /\ [][Next]_vars

---------------------------------------------------------------------------
(* Properties *)

\* Sandboxes, snapshots and the operation under the lock keep to their values.
TypeOK ==
    /\ row \in Nat /\ devs \in Nat /\ tok \in Nat
    /\ conn \in {"up", "recent", "long"} /\ disk \in Disks
    /\ waiting \subseteq Context
    /\ op \in {"none", "boot", "stop", "destroy"}
    /\ ctx \in Context /\ cur \in Nat /\ todo \subseteq Nat /\ minted \in Nat
    /\ boxes \subseteq Box /\ snaps \subseteq Snap
    /\ made \in Nat /\ taken \in Nat
    /\ doomed \subseteq Nat /\ late \subseteq Snap
    /\ lagSnaps \subseteq Nat /\ lagBoxes \subseteq Nat
    /\ rejected \subseteq Nat /\ faults \in Nat

\* A sandbox, or a snapshot that may be restored to one, labelled with the issue's
\* device holds the token the row holds and can authenticate: no rotation leaves
\* one behind, whatever fails or restarts between the deletions, the mint and
\* the create (ensureRunningLocked's order, and pickLineageSnapshot's check).
\* Only what ACA itself is late with escapes: a snapshot whose accepted deletion
\* is pending, one completed after its request failed, and what is restored
\* from them; a deletion that was refused leaves no old token behind.
TokensCurrent ==
    row # 0 =>
        /\ \A b \in boxes : b.dev = row => b.tok = tok \/ b.id \in lagBoxes
        /\ \A s \in snaps : s.dev = row => s.tok = tok \/ s.id \in lagSnaps

\* replaceSandboxes deletes snapshots first so that no retry can restore "the
\* very snapshot we rejected": none whose deletion was refused, after any
\* partial failure or restart.  A listing may still show one that ACA has
\* agreed to delete, or has completed late, and a destroy forgets the rejection.
RejectedNotRestored == step = "restore" /\ cur \in rejected => cur \in lagSnaps

=============================================================================
