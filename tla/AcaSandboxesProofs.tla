-------------------------- MODULE AcaSandboxesProofs --------------------------
(***************************************************************************)
(* Proofs about the ACA provider, for every set of disks, any number of    *)
(* sandboxes, snapshots, failed requests, row changes and restarts: what   *)
(* is labelled with the issue's device holds the row's token, and what was *)
(* rejected is not restored, save what ACA deletes or completes late.      *)
(***************************************************************************)
EXTENDS AcaSandboxes, WellFoundedInduction, TLAPS

---------------------------------------------------------------------------
(* The inductive invariant *)

\* What the operation under the lock knows of the sandboxes: which are left when
\* the retained one is resumed, and that none is when a new one is made.
BoxesKnown ==
    /\ step = "trim" => /\ cur \in IdsOf(boxes) /\ cur \notin todo
                        /\ IdsOf(boxes) \subseteq todo \cup {cur}
    /\ step \in {"resume", "connect"} => IdsOf(boxes) = {cur}
    /\ step \in {"purgeSnaps", "purgeBoxes"} => IdsOf(boxes) \subseteq todo
    /\ step \in {"pick", "restore", "wipe", "create"} => boxes = {}
    /\ step \in {"snapshot", "suspend"} => todo \subseteq IdsOf(boxes)

\* Device ids are given out once, so a new row has no sandbox and no snapshot,
\* and no operation under way is for it.
DevicesIssued ==
    /\ row <= devs /\ ctx.dev <= devs
    /\ \A c \in waiting : c.dev <= devs
    /\ \A x \in boxes \cup snaps \cup late : x.dev <= devs

\* Snapshot ids are given out once, and one that comes late is known to.
SnapshotIds ==
    /\ \A s \in snaps \cup late : s.id <= taken
    /\ \A s, t \in snaps \cup late : s.id = t.id => s = t
    /\ \A i \in rejected : i <= taken
    /\ IdsOf(late) \subseteq lagSnaps

\* The create under way carries the token that is or was the device's last.
CreateIsCurrent ==
    /\ step = "create" /\ row # 0 /\ row = ctx.dev => minted = tok
    /\ step = "restore" =>
          \A s \in snaps \cup late : s.id = cur => s.dev = ctx.dev

\* A rejected snapshot whose deletion was refused is left only beside a sandbox,
\* and while there is one no snapshot is picked.
RejectedBesideBox ==
    /\ boxes = {} => IdsOf(snaps) \cap rejected \subseteq lagSnaps
    /\ step = "purgeBoxes" => IdsOf(snaps) \subseteq lagSnaps

IInv ==
    /\ TypeOK /\ BoxesKnown /\ DevicesIssued /\ SnapshotIds
    /\ CreateIsCurrent /\ RejectedBesideBox /\ TokensCurrent /\ RejectedNotRestored

---------------------------------------------------------------------------
(* The newest snapshot and the best sandbox exist *)

\* A set of naturals has a least element.
LEMMA LeastExists ==
    ASSUME NEW T, T \subseteq Nat, T # {}
    PROVE  \E x \in T : \A y \in T : x <= y
<1>1. PICK x \in T : \A y \in T : ~ (<<y, x>> \in OpToRel(<, Nat))
  BY NatLessThanWellFounded, WFMin
<1>2. \A y \in T : ~ (y < x)
  BY <1>1 DEF OpToRel
<1>3. QED
  BY <1>2

\* Snapshot ids are bounded, so a set of snapshots has a newest one.
LEMMA NewestExists ==
    ASSUME NEW S, S \subseteq snaps, S # {}, TypeOK, SnapshotIds
    PROVE  NewestOf(S) \in S
<1> DEFINE T == {taken - s.id : s \in S}
<1>1. \A s \in S : s.id \in Nat /\ s.id <= taken /\ taken \in Nat
  BY DEF TypeOK, SnapshotIds, Snap
<1>2. T \subseteq Nat /\ T # {}
  BY <1>1
<1>3. PICK m \in T : \A y \in T : m <= y
  BY <1>2, LeastExists
<1>4. PICK s \in S : m = taken - s.id
  OBVIOUS
<1>5. \A x \in S : x.id <= s.id
  <2>1. \A x \in S : taken - s.id <= taken - x.id
    BY <1>3, <1>4
  <2>2. QED
    BY <1>1, <2>1
<1>6. QED
  BY <1>5 DEF NewestOf

\* Among the sandboxes of the disk there is one that ranks best.
LEMMA RetainedExists ==
    ASSUME Valid # {}, TypeOK
    PROVE  Retained \in boxes
<1>1. \A b \in Valid : b.id \in Nat /\ Rank(b) \in Nat
  BY DEF TypeOK, Box, Valid, Rank, BoxStates
<1> DEFINE Ranks == {Rank(b) : b \in Valid}
<1>2. Ranks \subseteq Nat /\ Ranks # {}
  BY <1>1
<1>3. PICK r \in Ranks : \A y \in Ranks : r <= y
  BY <1>2, LeastExists
<1> DEFINE Ids == {b.id : b \in {x \in Valid : Rank(x) = r}}
<1>4. Ids \subseteq Nat /\ Ids # {}
  BY <1>1, <1>3
<1>5. PICK i \in Ids : \A y \in Ids : i <= y
  BY <1>4, LeastExists
<1>6. PICK b \in Valid : Rank(b) = r /\ b.id = i
  BY <1>5
<1>7. \A x \in Valid : Better(b, x)
  <2>1. SUFFICES ASSUME NEW x \in Valid PROVE Better(b, x)
    OBVIOUS
  <2>2. Rank(b) <= Rank(x)
    BY <1>3, <1>6
  <2>3. Rank(b) = Rank(x) => b.id <= x.id
    BY <1>5, <1>6
  <2>4. QED
    BY <1>1, <2>2, <2>3 DEF Better
<1>8. Retained \in Valid
  BY <1>7 DEF Retained
<1>9. QED
  BY <1>8 DEF Valid

---------------------------------------------------------------------------
(* The steps *)

\* Nothing is there yet, or two sandboxes with the row's first token.
LEMMA InitInv == Init => IInv
<1>1. SUFFICES ASSUME Init PROVE IInv
  OBVIOUS
<1>2. /\ boxes \subseteq Box
      /\ \A b \in boxes : b.dev = 1 /\ b.tok = 1
  BY <1>1 DEF Init, Box, BoxStates
<1>3. QED
  BY <1>1, <1>2 DEF Init, IInv, TypeOK, BoxesKnown, DevicesIssued, SnapshotIds,
     CreateIsCurrent, RejectedBesideBox, TokensCurrent, RejectedNotRestored, Context, IdsOf

\* Taking the lock, waiting for it and releasing it move no sandbox.
LEMMA LockSteps ==
    ASSUME IInv, CallEnsureRunning \/ (\E c \in waiting : EnsureRunning(c)) \/ Stop \/ Destroy
    PROVE  IInv'
<1> USE DEF IInv, TypeOK, BoxesKnown, DevicesIssued, SnapshotIds, CreateIsCurrent,
        RejectedBesideBox, TokensCurrent, RejectedNotRestored, rowVars, opVars, acaVars, lagVars, IdsOf
<1>1. CASE CallEnsureRunning
  BY <1>1 DEF CallEnsureRunning, Context
<1>2. CASE \E c \in waiting : EnsureRunning(c)
  BY <1>2 DEF EnsureRunning, Acquire, Context
<1>3. CASE Stop
  BY <1>3 DEF Stop, Acquire
<1>4. CASE Destroy
  BY <1>4 DEF Destroy, Acquire
<1>5. QED
  BY <1>1, <1>2, <1>3, <1>4

\* The listing decides which sandboxes go.
LEMMA ListStep == ASSUME IInv, ListSandboxes PROVE IInv'
<1> USE DEF IInv, rowVars, opVars, acaVars, lagVars
<1>0. UNCHANGED <<rowVars, waiting, acaVars, faults, op, ctx, minted>>
  BY DEF ListSandboxes, GoTo
<1>1. CASE boxes = {}
  <2>1. step' = "pick" /\ UNCHANGED <<rejected, cur, todo>>
    BY <1>1 DEF ListSandboxes, GoTo
  <2>2. QED
    BY <1>0, <1>1, <2>1 DEF TypeOK, BoxesKnown, DevicesIssued, SnapshotIds,
       CreateIsCurrent, RejectedBesideBox, TokensCurrent, RejectedNotRestored
<1>2. CASE step' = "purgeSnaps" /\ boxes # {}
  <2>1. todo' = IdsOf(boxes) /\ rejected' = rejected \cup GivenUp /\ cur' = cur
    BY <1>2 DEF ListSandboxes, GoTo
  <2>2. IdsOf(boxes) \subseteq Nat /\ GivenUp \subseteq Nat
    BY DEF TypeOK, IdsOf, Box, Snap, GivenUp
  <2>3. \A i \in GivenUp : i <= taken
    BY DEF SnapshotIds, IdsOf, GivenUp
  <2>4. QED
    BY <1>0, <1>2, <2>1, <2>2, <2>3 DEF TypeOK, BoxesKnown, DevicesIssued, SnapshotIds,
       CreateIsCurrent, RejectedBesideBox, TokensCurrent, RejectedNotRestored, IdsOf
<1>3. CASE step' = "trim" /\ boxes # {}
  <2>1. /\ cur' = Retained.id /\ todo' = IdsOf(boxes) \ {Retained.id}
        /\ rejected' = rejected /\ Valid # {}
    BY <1>3 DEF ListSandboxes, GoTo
  <2>2. Retained \in boxes
    BY <2>1, RetainedExists
  <2>3. IdsOf(boxes) \subseteq Nat /\ Retained.id \in IdsOf(boxes)
    BY <2>2 DEF TypeOK, IdsOf, Box
  <2>4. QED
    BY <1>0, <1>3, <2>1, <2>3 DEF TypeOK, BoxesKnown, DevicesIssued, SnapshotIds,
       CreateIsCurrent, RejectedBesideBox, TokensCurrent, RejectedNotRestored, IdsOf
<1>4. QED
  BY <1>1, <1>2, <1>3 DEF ListSandboxes

\* No sandbox is new, or has another id, device or token than it had.
SameBoxes ==
    /\ boxes' \subseteq Box
    /\ \A x \in boxes' : \E b \in boxes : x.id = b.id /\ x.dev = b.dev /\ x.tok = b.tok

\* An operation that ends, wherever it was, leaves its knowledge behind.
LEMMA ReleaseStep ==
    ASSUME IInv, Released,
           SameBoxes, UNCHANGED <<row, devs, tok, disk, rejected>>,
           UNCHANGED <<snaps, made, taken, late, lagBoxes>>,
           doomed' \subseteq Nat, lagSnaps' \subseteq Nat, lagSnaps \subseteq lagSnaps',
           conn' \in {"up", "recent", "long"}, waiting' \subseteq waiting, faults' \in Nat,
           boxes' = {} => IdsOf(snaps) \cap rejected \subseteq lagSnaps'
    PROVE  IInv'
<1>1. TypeOK' /\ BoxesKnown' /\ DevicesIssued'
  BY DEF IInv, Released, TypeOK, BoxesKnown, DevicesIssued, SameBoxes
<1>2. SnapshotIds' /\ CreateIsCurrent' /\ RejectedNotRestored'
  BY DEF IInv, Released, SnapshotIds, CreateIsCurrent, RejectedNotRestored
<1>3. RejectedBesideBox' /\ TokensCurrent'
  BY DEF IInv, Released, RejectedBesideBox, TokensCurrent, SameBoxes
<1>4. QED
  BY <1>1, <1>2, <1>3 DEF IInv

\* Deletions of snapshots are accepted; the listing shows what it showed.
LEMMA DeletionFacts ==
    ASSUME TypeOK, NEW S, S \subseteq IdsOf(snaps), DeleteSnapshots(S)
    PROVE  /\ UNCHANGED <<boxes, snaps, made, taken, late, lagBoxes>>
           /\ doomed' \subseteq Nat /\ lagSnaps' \subseteq Nat
           /\ lagSnaps \subseteq lagSnaps' /\ S \subseteq lagSnaps'
<1>1. IdsOf(snaps) \subseteq Nat
  BY DEF TypeOK, IdsOf, Snap
<1>2. QED
  BY <1>1 DEF TypeOK, DeleteSnapshots

\* The sandboxes beside the retained one go; it stays.
LEMMA TrimStep == ASSUME IInv, Trim PROVE IInv'
<1>1. PICK gone \in SUBSET todo :
        /\ DeleteSandboxes(todo, gone)
        /\ \/ Throws
           \/ /\ gone = todo /\ UNCHANGED faults
              /\ IF \E b \in boxes : b.id = cur /\ b.st = "Suspended"
                 THEN GoTo("resume") ELSE Released
  BY DEF Trim
<1>2. step = "trim" /\ UNCHANGED <<rowVars, waiting, rejected>>
  BY DEF Trim
<1>3. /\ boxes' \subseteq boxes /\ UNCHANGED <<snaps, made, taken, doomed, late, lagSnaps, lagBoxes>>
      /\ boxes' = {b \in boxes : b.id \notin gone}
  BY <1>1 DEF DeleteSandboxes, lagVars
<1>4. \E b \in boxes' : b.id = cur
  BY <1>1, <1>2, <1>3 DEF IInv, BoxesKnown, IdsOf
<1>5. CASE Released /\ faults' \in Nat
  BY <1>2, <1>3, <1>4, <1>5, ReleaseStep DEF IInv, TypeOK, rowVars, SameBoxes
<1>6. CASE gone = todo /\ GoTo("resume") /\ UNCHANGED faults
  <2>1. IdsOf(boxes') = {cur}
    BY <1>2, <1>3, <1>4, <1>6 DEF IInv, BoxesKnown, IdsOf
  <2>2. QED
    BY <1>2, <1>3, <1>4, <1>6, <2>1 DEF IInv, GoTo, TypeOK, BoxesKnown, DevicesIssued,
       SnapshotIds, CreateIsCurrent, RejectedBesideBox, TokensCurrent, RejectedNotRestored, rowVars
<1>7. QED
  BY <1>1, <1>5, <1>6 DEF Throws, Fault, IInv, TypeOK
\* A change of a sandbox's state keeps what the invariant says of it.
LEMMA StateChange ==
    ASSUME NEW i, NEW st \in BoxStates, boxes \subseteq Box,
           SetState(i, st)
    PROVE  /\ SameBoxes /\ IdsOf(boxes') = IdsOf(boxes)
           /\ boxes = {} <=> boxes' = {}
<1>1. \A b \in boxes : [b EXCEPT !.st = st] = [id |-> b.id, st |-> st, dev |-> b.dev,
                                               disk |-> b.disk, tok |-> b.tok]
  BY DEF Box
<1>2. \A b \in boxes : [b EXCEPT !.st = st] \in Box
  BY <1>1 DEF Box
<1>3. \A b \in boxes : /\ [b EXCEPT !.st = st].id = b.id
                       /\ [b EXCEPT !.st = st].dev = b.dev
                       /\ [b EXCEPT !.st = st].tok = b.tok
  BY <1>1
<1> DEFINE N(b) == IF b.id = i THEN [b EXCEPT !.st = st] ELSE b
<1>4. \A b \in boxes : /\ N(b) \in Box /\ N(b) \in boxes'
                       /\ N(b).id = b.id /\ N(b).dev = b.dev /\ N(b).tok = b.tok
  BY <1>2, <1>3 DEF SetState
<1>5. \A x \in boxes' : \E b \in boxes : x = N(b)
  BY DEF SetState
<1> HIDE DEF N
<1>6. \A x \in boxes' : \E b \in boxes :
        x \in Box /\ x.id = b.id /\ x.dev = b.dev /\ x.tok = b.tok
  <2>1. SUFFICES ASSUME NEW x \in boxes'
                 PROVE  \E b \in boxes : x \in Box /\ x.id = b.id /\ x.dev = b.dev
                                                  /\ x.tok = b.tok
    OBVIOUS
  <2>2. PICK b \in boxes : x = N(b)
    BY <1>5
  <2>3. QED
    BY <1>4, <2>2
<1>7. IdsOf(boxes') \subseteq IdsOf(boxes)
  BY <1>6 DEF IdsOf
<1>8. IdsOf(boxes) \subseteq IdsOf(boxes')
  BY <1>4 DEF IdsOf
<1>9. QED
  BY <1>4, <1>6, <1>7, <1>8 DEF SameBoxes

\* The retained sandbox is resumed.
LEMMA ResumeStep == ASSUME IInv, Resume PROVE IInv'
<1>1. /\ step = "resume" /\ UNCHANGED <<rowVars, waiting, snaps, made, taken, lagVars, rejected>>
      /\ boxes \subseteq Box
  BY DEF Resume, IInv, TypeOK
<1>2. ASSUME SameBoxes, IdsOf(boxes') = IdsOf(boxes), boxes = {} <=> boxes' = {}
      PROVE  IInv'
  <2>1. CASE Throws
    BY <1>1, <1>2, <2>1, ReleaseStep DEF Throws, Fault, IInv, TypeOK, rowVars, lagVars,
       RejectedBesideBox
  <2>2. CASE GoTo("connect") /\ UNCHANGED faults
    <3>1. DevicesIssued' /\ TokensCurrent'
      BY <1>1, <1>2, <2>2
         DEF IInv, GoTo, DevicesIssued, TokensCurrent, rowVars, lagVars, SameBoxes
    <3>2. BoxesKnown'
      BY <1>1, <1>2, <2>2 DEF IInv, GoTo, BoxesKnown
    <3>3. QED
      BY <1>1, <1>2, <2>2, <3>1, <3>2 DEF IInv, GoTo, TypeOK, SnapshotIds, CreateIsCurrent,
         RejectedBesideBox, RejectedNotRestored, rowVars, lagVars, SameBoxes
  <2>3. QED
    BY <2>1, <2>2 DEF Resume
<1>3. CASE UNCHANGED boxes
  BY <1>1, <1>2, <1>3 DEF SameBoxes
<1>4. CASE SetState(cur, "Running") \/ SetState(cur, "Starting")
  BY <1>1, <1>2, <1>4, StateChange DEF BoxStates
<1>5. QED
  BY <1>3, <1>4 DEF Resume

\* The worker is back, or its sandbox and the snapshots are given up.
LEMMA AwaitStep == ASSUME IInv, AwaitWorker PROVE IInv'
<1>1. step = "connect" /\ UNCHANGED <<rowVars, waiting, acaVars, faults>>
  BY DEF AwaitWorker
<1>2. CASE Released /\ UNCHANGED rejected
  BY <1>1, <1>2, ReleaseStep
     DEF IInv, TypeOK, rowVars, acaVars, lagVars, RejectedBesideBox, SameBoxes
<1>3. CASE /\ step' = "purgeSnaps" /\ todo' = {cur}
           /\ rejected' = rejected \cup GivenUp
           /\ UNCHANGED <<op, ctx, cur, minted>>
  <2>1. IdsOf(boxes) = {cur} /\ boxes # {}
    BY <1>1 DEF IInv, BoxesKnown, IdsOf
  <2>2. GivenUp \subseteq Nat /\ \A i \in GivenUp : i <= taken
    BY DEF IInv, TypeOK, IdsOf, Snap, SnapshotIds, GivenUp
  <2>3. IdsOf(boxes') = {cur}
    BY <1>1, <2>1 DEF acaVars, lagVars
  <2>4. QED
    BY <1>1, <1>3, <2>1, <2>2, <2>3 DEF IInv, TypeOK, BoxesKnown, DevicesIssued,
       SnapshotIds, CreateIsCurrent, RejectedBesideBox, TokensCurrent, RejectedNotRestored, rowVars, acaVars, lagVars
<1>4. QED
  BY <1>2, <1>3 DEF AwaitWorker

\* Snapshots go first: a failure leaves them beside the sandboxes.
LEMMA PurgeStep == ASSUME IInv, Purge PROVE IInv'
<1>1. UNCHANGED <<rowVars, waiting, rejected>>
  BY DEF Purge
<1>2. CASE step = "purgeSnaps"
  <2>1. PICK gone \in SUBSET IdsOf(snaps) :
          /\ DeleteSnapshots(gone)
          /\ \/ gone = IdsOf(snaps) /\ GoTo("purgeBoxes") /\ UNCHANGED faults
             \/ Throws
    BY <1>2 DEF Purge
  <2>2. /\ UNCHANGED <<boxes, snaps, made, taken, late, lagBoxes>>
        /\ doomed' \subseteq Nat /\ lagSnaps' \subseteq Nat
        /\ lagSnaps \subseteq lagSnaps' /\ gone \subseteq lagSnaps'
    BY <2>1, DeletionFacts DEF IInv
  <2>3. CASE Throws
    <3>1. boxes' = {} => IdsOf(snaps) \cap rejected \subseteq lagSnaps'
      BY <2>2 DEF IInv, RejectedBesideBox
    <3>2. SameBoxes
      BY <2>2 DEF IInv, TypeOK, SameBoxes
    <3>3. /\ faults' \in Nat /\ Released
          /\ conn' \in {"up", "recent", "long"} /\ waiting' \subseteq waiting
          /\ UNCHANGED <<row, devs, tok, disk, rejected>>
      BY <1>1, <2>3 DEF Throws, Fault, IInv, TypeOK, rowVars
    <3>4. QED
      BY <2>2, <3>1, <3>2, <3>3, ReleaseStep
  <2>4. CASE gone = IdsOf(snaps) /\ GoTo("purgeBoxes") /\ UNCHANGED faults
    <3>1. IdsOf(boxes') \subseteq todo
      BY <1>2, <2>2 DEF IInv, BoxesKnown
    <3>2. RejectedBesideBox' /\ RejectedNotRestored'
      BY <1>1, <2>2, <2>4 DEF GoTo, RejectedBesideBox, RejectedNotRestored
    <3>3. QED
      BY <1>1, <2>2, <2>4, <3>1, <3>2 DEF IInv, GoTo, TypeOK, BoxesKnown, DevicesIssued,
         SnapshotIds, CreateIsCurrent, TokensCurrent, rowVars
  <2>5. QED
    BY <2>1, <2>3, <2>4
<1>3. CASE step = "purgeBoxes"
  <2>1. PICK gone \in SUBSET todo :
          /\ DeleteSandboxes(todo, gone)
          /\ \/ gone = todo /\ GoTo("pick") /\ UNCHANGED faults
             \/ Throws
    BY <1>3 DEF Purge
  <2>2. /\ boxes' \subseteq boxes /\ IdsOf(snaps) \subseteq lagSnaps
        /\ UNCHANGED <<snaps, made, taken, doomed, late, lagSnaps, lagBoxes>>
    BY <1>3, <2>1 DEF DeleteSandboxes, lagVars, IInv, RejectedBesideBox
  <2>3. CASE Throws
    BY <1>1, <2>2, <2>3, ReleaseStep DEF Throws, Fault, IInv, TypeOK, rowVars, SameBoxes
  <2>4. CASE gone = todo /\ GoTo("pick") /\ UNCHANGED faults
    <3>1. boxes' = {}
      BY <1>3, <2>1, <2>4 DEF DeleteSandboxes, IInv, BoxesKnown, IdsOf
    <3>2. QED
      BY <1>1, <2>2, <2>4, <3>1 DEF IInv, GoTo, TypeOK, BoxesKnown, DevicesIssued,
         SnapshotIds, CreateIsCurrent, RejectedBesideBox, TokensCurrent,
         RejectedNotRestored, rowVars
  <2>5. QED
    BY <2>1, <2>3, <2>4
<1>4. QED
  BY <1>2, <1>3 DEF Purge

\* The newest snapshot of the lineage is of the context's device.
LEMMA PickStep == ASSUME IInv, PickSnapshot PROVE IInv'
<1>1. step = "pick" /\ boxes = {} /\ UNCHANGED <<rowVars, waiting, acaVars, rejected, faults>>
  BY DEF PickSnapshot, IInv, BoxesKnown
<1>2. CASE GoTo("wipe")
  BY <1>1, <1>2 DEF IInv, GoTo, TypeOK, BoxesKnown, DevicesIssued, SnapshotIds,
     CreateIsCurrent, RejectedBesideBox, TokensCurrent, RejectedNotRestored, rowVars, acaVars, lagVars
<1>3. CASE /\ Lineage # {} /\ step' = "restore" /\ cur' = NewestOf(Lineage).id
           /\ UNCHANGED <<op, ctx, todo, minted>>
  <2>1. NewestOf(Lineage) \in Lineage
    BY <1>3, NewestExists DEF Lineage, IInv
  <2>2. PICK n \in snaps : n.id = cur' /\ n.dev = ctx.dev
    BY <1>3, <2>1 DEF Lineage
  <2>3. /\ cur' \in Nat /\ cur' \in IdsOf(snaps)
        /\ \A s \in snaps \cup late : s.id = cur' => s.dev = ctx.dev
    BY <2>2 DEF IInv, TypeOK, Snap, SnapshotIds, IdsOf
  <2>4. QED
    BY <1>1, <1>3, <2>2, <2>3 DEF IInv, TypeOK, BoxesKnown, DevicesIssued, SnapshotIds,
       CreateIsCurrent, RejectedBesideBox, TokensCurrent, RejectedNotRestored, rowVars, acaVars, lagVars
<1>4. QED
  BY <1>2, <1>3 DEF PickSnapshot

\* A new sandbox of the context's device is right when its token is, or when it
\* is known to come from a snapshot that lags.
LEMMA CreateStep ==
    ASSUME IInv, NEW token \in Nat, NEW lagging \in BOOLEAN, step \in {"restore", "create"},
           row # 0 /\ row = ctx.dev => token = tok \/ lagging,
           CreateSandbox(token, lagging), UNCHANGED <<rowVars, waiting, rejected>>
    PROVE  IInv'
<1> DEFINE Made(st) == [id |-> made + 1, st |-> st, dev |-> ctx.dev,
                        disk |-> ctx.disk, tok |-> token]
<1>1. boxes = {} /\ IdsOf(snaps) \cap rejected \subseteq lagSnaps
  BY DEF IInv, BoxesKnown, RejectedBesideBox
<1>2. /\ UNCHANGED <<snaps, taken, doomed, late, lagSnaps>>
      /\ lagBoxes' = lagBoxes \cup (IF lagging THEN IdsOf(boxes' \ boxes) ELSE {})
  BY DEF CreateSandbox
<1>3. CASE Throws /\ UNCHANGED <<boxes, made>>
  <2>1. UNCHANGED lagBoxes
    BY <1>2, <1>3 DEF IdsOf
  <2>2. QED
    BY <1>1, <1>2, <1>3, <2>1, ReleaseStep DEF Throws, Fault, IInv, TypeOK, rowVars, SameBoxes
<1>4. ASSUME NEW st \in BoxStates, boxes' = boxes \cup {Made(st)}, made' = made + 1,
             (GoTo("prune") /\ UNCHANGED faults) \/ Throws
      PROVE  IInv'
  <2>1. /\ Made(st) \in Box /\ Made(st).dev = ctx.dev /\ Made(st).tok = token
        /\ Made(st).id = made + 1
    BY DEF IInv, TypeOK, Box, Context
  <2>2. step' \in {"prune", "none"} /\ faults' \in Nat /\ ctx' = ctx /\ cur' \in Nat
        /\ todo' \subseteq Nat /\ minted' \in Nat /\ op' \in {"boot", "stop", "destroy", "none"}
    <3>1. CASE GoTo("prune") /\ UNCHANGED faults
      BY <3>1 DEF GoTo, IInv, TypeOK
    <3>2. CASE Throws
      BY <3>2 DEF Throws, Fault, Released, IInv, TypeOK
    <3>3. QED
      BY <1>4, <3>1, <3>2
  <2> HIDE DEF Made
  <2>3. boxes' = {Made(st)} /\ IdsOf(boxes' \ boxes) = {made + 1}
    BY <1>1, <1>4, <2>1 DEF IdsOf
  <2>4. /\ lagBoxes' \subseteq Nat /\ (lagging => made + 1 \in lagBoxes')
    <3>1. made + 1 \in Nat /\ lagBoxes \subseteq Nat
      BY DEF IInv, TypeOK
    <3>2. CASE lagging
      BY <1>2, <2>3, <3>1, <3>2
    <3>3. CASE ~ lagging
      BY <1>2, <3>1, <3>3
    <3>4. QED
      BY <3>2, <3>3
  <2>5. TypeOK' /\ BoxesKnown' /\ DevicesIssued'
    BY <1>1, <1>2, <1>4, <2>1, <2>2, <2>3, <2>4
       DEF IInv, TypeOK, BoxesKnown, DevicesIssued, rowVars
  <2>6. TokensCurrent'
    BY <1>1, <1>2, <1>4, <2>1, <2>2, <2>3, <2>4 DEF IInv, TokensCurrent, rowVars
  <2>7. QED
    BY <1>1, <1>2, <1>4, <2>2, <2>3, <2>5, <2>6 DEF IInv, SnapshotIds, CreateIsCurrent,
       RejectedBesideBox, RejectedNotRestored, rowVars
<1>5. QED
  <2>1. \/ boxes' = boxes \cup {Made("Running")} /\ made' = made + 1
              /\ GoTo("prune") /\ UNCHANGED faults
        \/ boxes' = boxes \cup {Made("Starting")} /\ made' = made + 1 /\ Throws
        \/ Throws /\ UNCHANGED <<boxes, made>>
    <3>1. [Made("Running") EXCEPT !.st = "Starting"] = Made("Starting")
      OBVIOUS
    <3>2. QED
      BY <3>1 DEF CreateSandbox
  <2>2. QED
    BY <2>1, <1>3, <1>4 DEF BoxStates

\* The sandbox restored from a snapshot has the token frozen in it.
LEMMA RestoreStep == ASSUME IInv, RestoreSnapshot PROVE IInv'
<1>1. step = "restore" /\ UNCHANGED <<rowVars, waiting, rejected>>
  BY DEF RestoreSnapshot
<1>2. CASE Throws /\ UNCHANGED acaVars
  BY <1>1, <1>2, ReleaseStep DEF Throws, Fault, IInv, TypeOK, rowVars, acaVars, lagVars,
     RejectedBesideBox, SameBoxes
<1>3. ASSUME NEW s \in snaps, s.id = cur, CreateSandbox(s.tok, cur \in lagSnaps)
      PROVE  IInv'
  <2>1. s.tok \in Nat /\ s.dev = ctx.dev
    BY <1>1, <1>3 DEF IInv, TypeOK, Snap, CreateIsCurrent
  <2>2. row # 0 /\ row = ctx.dev => s.tok = tok \/ cur \in lagSnaps
    BY <1>3, <2>1 DEF IInv, TokensCurrent
  <2>3. (cur \in lagSnaps) \in BOOLEAN
    OBVIOUS
  <2>4. QED
    BY <1>1, <1>3, <2>1, <2>2, <2>3, CreateStep
<1>4. QED
  BY <1>2, <1>3 DEF RestoreSnapshot

\* The token is rotated when the deletion of all that holds the old one is
\* accepted.
LEMMA MintStep == ASSUME IInv, WipeAndMint PROVE IInv'
<1>1. PICK gone \in SUBSET IdsOf(snaps) :
        /\ DeleteSnapshots(gone)
        /\ \/ Throws /\ UNCHANGED tok
           \/ /\ gone = IdsOf(snaps) /\ row # ctx.dev
              /\ Released /\ UNCHANGED <<tok, faults>>
           \/ /\ gone = IdsOf(snaps) /\ row = ctx.dev
              /\ tok' = tok + 1 /\ minted' = tok + 1 /\ step' = "create"
              /\ UNCHANGED <<op, ctx, cur, todo, faults>>
  BY DEF WipeAndMint
<1>2. /\ boxes = {} /\ UNCHANGED <<boxes, snaps, made, taken, late, lagBoxes>>
      /\ doomed' \subseteq Nat /\ lagSnaps' \subseteq Nat
      /\ lagSnaps \subseteq lagSnaps' /\ gone \subseteq lagSnaps'
      /\ UNCHANGED <<row, devs, conn, disk, waiting, rejected>>
  BY <1>1, DeletionFacts DEF WipeAndMint, IInv, BoxesKnown
<1>3. IdsOf(snaps) \cap rejected \subseteq lagSnaps
  BY <1>2 DEF IInv, RejectedBesideBox
<1>4. CASE Released /\ UNCHANGED tok /\ faults' \in Nat
  BY <1>2, <1>3, <1>4, ReleaseStep DEF IInv, TypeOK, SameBoxes
<1>5. CASE /\ gone = IdsOf(snaps) /\ tok' = tok + 1 /\ minted' = tok + 1 /\ step' = "create"
           /\ UNCHANGED <<op, ctx, cur, todo, faults>>
  <2>1. \A s \in snaps : s.id \in lagSnaps'
    BY <1>2, <1>5 DEF IdsOf
  <2>2. TypeOK' /\ BoxesKnown' /\ DevicesIssued'
    BY <1>2, <1>5 DEF IInv, TypeOK, BoxesKnown, DevicesIssued
  <2>3. SnapshotIds' /\ CreateIsCurrent'
    BY <1>2, <1>5 DEF IInv, SnapshotIds, CreateIsCurrent
  <2>4. RejectedBesideBox' /\ RejectedNotRestored'
    BY <1>2, <1>3, <1>5 DEF RejectedBesideBox, RejectedNotRestored
  <2>5. TokensCurrent'
    BY <1>2, <2>1 DEF TokensCurrent
  <2>6. QED
    BY <2>2, <2>3, <2>4, <2>5 DEF IInv
<1>6. QED
  BY <1>1, <1>4, <1>5 DEF Throws, Fault, IInv, TypeOK

\* The sandbox made from the image has the token just minted.
LEMMA ImageStep == ASSUME IInv, CreateFromImage PROVE IInv'
BY CreateStep DEF CreateFromImage, IInv, TypeOK, CreateIsCurrent

\* A listing that fails ends the operation.
LEMMA ListFailsStep == ASSUME IInv, ListingFails PROVE IInv'
BY ReleaseStep DEF ListingFails, Throws, Fault, IInv, TypeOK, rowVars, acaVars, lagVars,
   RejectedBesideBox, SameBoxes

\* Pruning deletes snapshots and nothing else.
LEMMA PruneStep == ASSUME IInv, PruneSnapshots PROVE IInv'
<1>1. PICK gone \in SUBSET IdsOf(Excess) :
        /\ DeleteSnapshots(gone)
        /\ IF gone = IdsOf(Excess) THEN UNCHANGED faults ELSE Fault
  BY DEF PruneSnapshots
<1>2. gone \subseteq IdsOf(snaps)
  BY DEF Excess, IdsOf
<1>3. /\ UNCHANGED <<boxes, snaps, made, taken, late, lagBoxes>>
      /\ doomed' \subseteq Nat /\ lagSnaps' \subseteq Nat /\ lagSnaps \subseteq lagSnaps'
  BY <1>1, <1>2, DeletionFacts DEF IInv
<1>4. faults' \in Nat
  BY <1>1 DEF Fault, IInv, TypeOK
<1>5. QED
  BY <1>3, <1>4, ReleaseStep
     DEF PruneSnapshots, IInv, TypeOK, rowVars, RejectedBesideBox, SameBoxes

\* A snapshot copies the device and the token of a sandbox that is there; one whose
\* request failed is known to come late.
LEMMA SnapshotStep == ASSUME IInv, TakeSnapshot PROVE IInv'
<1>1. PICK i \in todo :
        /\ cur' = i /\ step' = "suspend"
        /\ \/ /\ taken' = taken + 1
              /\ \/ /\ snaps' = snaps \cup {SnapshotOf(BoxOf(i))}
                    /\ lagSnaps' = lagSnaps \cup
                          (IF i \in lagBoxes THEN {taken + 1} ELSE {})
                    /\ UNCHANGED <<late, faults>>
                 \/ /\ Fault
                    /\ late' = late \cup {SnapshotOf(BoxOf(i))}
                    /\ lagSnaps' = lagSnaps \cup {taken + 1}
                    /\ UNCHANGED snaps
           \/ Fault /\ UNCHANGED <<snaps, taken, late, lagSnaps>>
  BY DEF TakeSnapshot
<1>2. /\ step = "snapshot"
      /\ UNCHANGED <<op, ctx, todo, minted, rowVars, waiting, boxes, made, doomed, lagBoxes,
                     rejected>>
  BY DEF TakeSnapshot
<1>3. i \in IdsOf(boxes) /\ i \in Nat
  BY <1>1, <1>2 DEF IInv, BoxesKnown, TypeOK
<1>4. BoxOf(i) \in boxes /\ BoxOf(i) \in Box /\ BoxOf(i).id = i
  BY <1>3 DEF BoxOf, IdsOf, IInv, TypeOK
<1>5. BoxesKnown' /\ CreateIsCurrent' /\ RejectedNotRestored'
  BY <1>1, <1>2 DEF IInv, BoxesKnown, CreateIsCurrent, RejectedNotRestored
<1>6. faults' \in Nat
  BY <1>1 DEF Fault, IInv, TypeOK
<1>7. CASE UNCHANGED <<snaps, taken, late, lagSnaps>>
  BY <1>1, <1>2, <1>3, <1>5, <1>6, <1>7 DEF IInv, TypeOK, DevicesIssued, SnapshotIds,
     RejectedBesideBox, TokensCurrent, rowVars
<1> DEFINE new == SnapshotOf(BoxOf(i))
<1>8. /\ new \in Snap /\ new.id = taken + 1 /\ taken + 1 \in Nat
      /\ new.dev = BoxOf(i).dev /\ new.tok = BoxOf(i).tok
  <2>1. taken + 1 \in Nat
    BY DEF IInv, TypeOK
  <2>2. BoxOf(i).dev \in Nat /\ BoxOf(i).disk \in Disks /\ BoxOf(i).tok \in Nat
    BY <1>4 DEF Box
  <2>3. QED
    BY <2>1, <2>2 DEF Snap, SnapshotOf
<1>9. ASSUME taken' = taken + 1, lagSnaps' \subseteq lagSnaps \cup {taken + 1},
             lagSnaps \subseteq lagSnaps',
             \/ /\ snaps' = snaps \cup {new} /\ late' = late
                /\ i \in lagBoxes => taken + 1 \in lagSnaps'
             \/ late' = late \cup {new} /\ snaps' = snaps /\ taken + 1 \in lagSnaps'
      PROVE  IInv'
  <2> HIDE DEF new
  <2>1. TypeOK'
    BY <1>1, <1>2, <1>3, <1>6, <1>8, <1>9 DEF IInv, TypeOK, rowVars
  <2>2. SnapshotIds'
    <3>1. \A s \in snaps \cup late : s.id \in Nat /\ s.id <= taken
      BY DEF IInv, TypeOK, Snap, SnapshotIds
    <3>2. snaps' \cup late' = snaps \cup late \cup {new}
      BY <1>9
    <3>3. \A s \in snaps \cup late : s.id # new.id
      BY <1>8, <3>1 DEF IInv, TypeOK
    <3>4. \A s, t \in snaps' \cup late' : s.id = t.id => s = t
      BY <3>2, <3>3 DEF IInv, SnapshotIds
    <3>5. \A s \in snaps' \cup late' : s.id <= taken'
      BY <1>8, <1>9, <3>1, <3>2 DEF IInv, TypeOK
    <3>6. IdsOf(late') \subseteq lagSnaps'
      BY <1>8, <1>9 DEF IInv, SnapshotIds, IdsOf
    <3>7. \A j \in rejected' : j <= taken'
      BY <1>2, <1>9 DEF IInv, TypeOK, SnapshotIds
    <3>8. QED
      BY <3>4, <3>5, <3>6, <3>7 DEF SnapshotIds
  <2>3. RejectedBesideBox'
    BY <1>1, <1>2, <1>4, <1>9 DEF RejectedBesideBox
  <2>4. DevicesIssued'
    BY <1>2, <1>4, <1>8, <1>9 DEF IInv, DevicesIssued, rowVars
  <2>5. TokensCurrent'
    BY <1>2, <1>4, <1>8, <1>9 DEF IInv, TokensCurrent, rowVars
  <2>6. QED
    BY <1>5, <2>1, <2>2, <2>3, <2>4, <2>5 DEF IInv
<1>10. QED
  BY <1>1, <1>7, <1>9

\* The rest of a stop: the listing, and the suspension of one sandbox.
LEMMA StopSteps == ASSUME IInv, StopList \/ Suspend PROVE IInv'
<1>1. CASE StopList
  <2>1. todo' \subseteq IdsOf(boxes) /\ IdsOf(boxes) \subseteq Nat
    BY <1>1 DEF StopList, IdsOf, IInv, TypeOK, Box
  <2>2. /\ step' \in {"prune", "snapshot"}
        /\ UNCHANGED <<op, ctx, cur, minted, rowVars, waiting, acaVars, rejected, faults>>
    BY <1>1 DEF StopList
  <2>3. QED
    BY <2>1, <2>2 DEF IInv, TypeOK, BoxesKnown, DevicesIssued, SnapshotIds,
       CreateIsCurrent, RejectedBesideBox, TokensCurrent, RejectedNotRestored, rowVars, acaVars, lagVars
<1>2. CASE Suspend
  <2>1. /\ step = "suspend" /\ step' \in {"prune", "snapshot"} /\ cur' = 0
        /\ todo' = todo \ {cur}
        /\ UNCHANGED <<op, ctx, minted, rowVars, waiting, snaps, made, taken, lagVars, rejected>>
    BY <1>2 DEF Suspend
  <2>2. /\ SameBoxes /\ IdsOf(boxes') = IdsOf(boxes)
        /\ boxes = {} <=> boxes' = {}
    <3>1. boxes \subseteq Box
      BY DEF IInv, TypeOK
    <3>2. CASE UNCHANGED boxes
      BY <3>1, <3>2 DEF SameBoxes
    <3>3. CASE SetState(cur, "Suspended") \/ SetState(cur, "Stopping")
      BY <3>1, <3>3, StateChange DEF BoxStates
    <3>4. QED
      BY <1>2, <3>2, <3>3 DEF Suspend
  <2>3. faults' \in Nat
    BY <1>2 DEF Suspend, Fault, IInv, TypeOK
  <2>4. DevicesIssued' /\ TokensCurrent'
    BY <2>1, <2>2 DEF IInv, DevicesIssued, TokensCurrent, rowVars, lagVars, SameBoxes
  <2>5. BoxesKnown'
    BY <2>1, <2>2 DEF IInv, BoxesKnown
  <2>6. QED
    BY <2>1, <2>2, <2>3, <2>4, <2>5 DEF IInv, TypeOK, SnapshotIds, CreateIsCurrent,
       RejectedBesideBox, RejectedNotRestored, rowVars, lagVars, SameBoxes
<1>3. QED
  BY <1>1, <1>2

\* Both halves of a destroy only delete, and what is left is not rejected.
LEMMA DestroyStep == ASSUME IInv, DestroyAll PROVE IInv'
<1>1. UNCHANGED <<rowVars, waiting>>
  BY DEF DestroyAll
<1>2. CASE step = "boxes"
  <2>1. PICK gone \in SUBSET IdsOf(boxes) :
          /\ DeleteSandboxes(IdsOf(boxes), gone)
          /\ IF gone = IdsOf(boxes) THEN UNCHANGED faults ELSE Fault
    BY <1>2 DEF DestroyAll
  <2>2. /\ step' = "snaps" /\ rejected' = {}
        /\ UNCHANGED <<op, ctx, cur, todo, minted>>
    BY <1>2 DEF DestroyAll
  <2>3. boxes' \subseteq boxes /\ UNCHANGED <<snaps, made, taken, doomed, late, lagSnaps, lagBoxes>>
    BY <2>1 DEF DeleteSandboxes, lagVars
  <2>4. faults' \in Nat
    BY <2>1 DEF Fault, IInv, TypeOK
  <2>5. QED
    BY <1>1, <2>2, <2>3, <2>4 DEF IInv, TypeOK, BoxesKnown, DevicesIssued, SnapshotIds,
       CreateIsCurrent, RejectedBesideBox, TokensCurrent, RejectedNotRestored, rowVars
<1>3. CASE step = "snaps"
  <2>1. PICK gone \in SUBSET IdsOf(snaps) :
          /\ DeleteSnapshots(gone)
          /\ IF gone = IdsOf(snaps) THEN UNCHANGED faults ELSE Fault
    BY <1>3 DEF DestroyAll
  <2>2. Released /\ UNCHANGED rejected
    BY <1>3 DEF DestroyAll
  <2>3. /\ UNCHANGED <<boxes, snaps, made, taken, late, lagBoxes>>
        /\ doomed' \subseteq Nat /\ lagSnaps' \subseteq Nat /\ lagSnaps \subseteq lagSnaps'
    BY <2>1, DeletionFacts DEF IInv
  <2>4. faults' \in Nat
    BY <2>1 DEF Fault, IInv, TypeOK
  <2>5. QED
    BY <1>1, <2>2, <2>3, <2>4, ReleaseStep DEF IInv, TypeOK, rowVars, RejectedBesideBox, SameBoxes
<1>4. QED
  BY <1>2, <1>3 DEF DestroyAll

\* A create, resumption or suspension that nobody waits for comes to an end.
LEMMA SettleStep == ASSUME IInv, SandboxSettles PROVE IInv'
<1>1. UNCHANGED <<rowVars, waiting, opVars, snaps, made, taken, lagVars, rejected, faults>>
  BY DEF SandboxSettles
<1>2. /\ SameBoxes /\ IdsOf(boxes') = IdsOf(boxes)
      /\ boxes = {} <=> boxes' = {}
  <2>1. boxes \subseteq Box
    BY DEF IInv, TypeOK
  <2>2. PICK b \in boxes : SetState(b.id, "Running") \/ SetState(b.id, "Suspended")
    BY DEF SandboxSettles
  <2>3. QED
    BY <2>1, <2>2, StateChange DEF BoxStates
<1>3. DevicesIssued' /\ TokensCurrent'
  BY <1>1, <1>2 DEF IInv, DevicesIssued, TokensCurrent, rowVars, opVars, lagVars, SameBoxes
<1>4. BoxesKnown'
  BY <1>1, <1>2 DEF IInv, BoxesKnown, opVars
<1>5. QED
  BY <1>1, <1>2, <1>3, <1>4 DEF IInv, TypeOK, SnapshotIds, CreateIsCurrent,
     RejectedBesideBox, RejectedNotRestored, rowVars, opVars, lagVars, SameBoxes

\* ACA deletes what it agreed to delete, and completes what it was taking.
LEMMA LateSteps == ASSUME IInv, SnapshotDeleted \/ SnapshotCompletes PROVE IInv'
<1>1. UNCHANGED <<rowVars, waiting, opVars, boxes, made, taken, lagSnaps, lagBoxes, rejected, faults>>
  BY DEF SnapshotDeleted, SnapshotCompletes
<1>2. /\ snaps' \cup late' \subseteq snaps \cup late /\ late' \subseteq late
      /\ doomed' \subseteq doomed
      /\ \A s \in snaps' \ snaps : s \in late
  BY DEF SnapshotDeleted, SnapshotCompletes
<1>3. \A s \in snaps' \ snaps : s.id \in lagSnaps
  BY <1>2 DEF IInv, SnapshotIds, IdsOf
<1>4. IdsOf(snaps') \subseteq IdsOf(snaps) \cup lagSnaps
  BY <1>3 DEF IdsOf
<1>5. TypeOK' /\ BoxesKnown' /\ DevicesIssued'
  BY <1>1, <1>2 DEF IInv, TypeOK, BoxesKnown, DevicesIssued, rowVars, opVars
<1>6. SnapshotIds'
  <2>1. IdsOf(late') \subseteq IdsOf(late)
    BY <1>2 DEF IdsOf
  <2>2. QED
    BY <1>1, <1>2, <2>1 DEF IInv, SnapshotIds
<1>7. CreateIsCurrent' /\ RejectedNotRestored'
  BY <1>1, <1>2 DEF IInv, CreateIsCurrent, RejectedNotRestored, rowVars, opVars
<1>8. RejectedBesideBox'
  BY <1>1, <1>4 DEF IInv, RejectedBesideBox, opVars
<1>9. TokensCurrent'
  BY <1>1, <1>3 DEF IInv, TokensCurrent, rowVars
<1>10. QED
  BY <1>5, <1>6, <1>7, <1>8, <1>9 DEF IInv

\* Sockets, rows and disks change under the lock: a new row is of a device that
\* nothing is labelled with.
LEMMA RouterSteps ==
    ASSUME IInv, Connect \/ Disconnect \/ DeleteRow \/ CreateRow \/ MoveDisk
    PROVE  IInv'
<1> USE DEF IInv, TypeOK, BoxesKnown, DevicesIssued, SnapshotIds, CreateIsCurrent,
        RejectedBesideBox, TokensCurrent, RejectedNotRestored, rowVars, opVars, acaVars, lagVars
<1>1. CASE Connect
  BY <1>1 DEF Connect
<1>2. CASE Disconnect
  BY <1>2 DEF Disconnect
<1>3. CASE DeleteRow
  BY <1>3 DEF DeleteRow, Fault
<1>4. CASE CreateRow
  <2>1. ctx.dev \in Nat /\ \A c \in waiting : c.dev \in Nat
    BY DEF Context
  <2>2. \A x \in boxes \cup snaps \cup late : x.dev \in Nat
    BY DEF Box, Snap
  <2>3. DevicesIssued'
    BY <1>4, <2>1, <2>2 DEF CreateRow
  <2>4. TokensCurrent'
    BY <1>4, <2>2 DEF CreateRow
  <2>5. CreateIsCurrent'
    BY <1>4, <2>1 DEF CreateRow
  <2>6. QED
    BY <1>4, <2>3, <2>4, <2>5 DEF CreateRow
<1>5. CASE MoveDisk
  BY <1>5 DEF MoveDisk, Fault
<1>6. QED
  BY <1>1, <1>2, <1>3, <1>4, <1>5

\* A restart drops the operation and the calls that wait.
LEMMA RestartStep == ASSUME IInv, Restart PROVE IInv'
BY ReleaseStep DEF Restart, Fault, acaVars, lagVars, IInv, TypeOK, RejectedBesideBox, SameBoxes

LEMMA NextInv == IInv /\ [Next]_vars => IInv'
<1>1. SUFFICES ASSUME IInv, [Next]_vars PROVE IInv'
  OBVIOUS
<1>2. CASE UNCHANGED vars
  BY <1>1, <1>2 DEF IInv, TypeOK, BoxesKnown, DevicesIssued, SnapshotIds,
     CreateIsCurrent, RejectedBesideBox, TokensCurrent, RejectedNotRestored, vars, rowVars, opVars, acaVars, lagVars
<1>3. CASE BootStep
  BY <1>1, <1>3, ListStep, ListFailsStep, TrimStep, ResumeStep, AwaitStep, PurgeStep, PickStep,
     RestoreStep, MintStep, ImageStep DEF BootStep
<1>4. QED
  BY <1>1, <1>2, <1>3, LockSteps, PruneStep, StopSteps, SnapshotStep, DestroyStep,
     SettleStep, LateSteps, RouterSteps, RestartStep DEF Next

---------------------------------------------------------------------------
(* The theorems *)

\* The invariant holds in every state the provider can reach.
LEMMA Invariant == Spec => []IInv
BY InitInv, NextInv, PTL DEF Spec

\* A sandbox, or a snapshot, labelled with the issue's device holds the token of
\* the device's row, at every step of ensureRunning, stop and destroy, for any
\* number of failures: rotateDeviceToken comes only when the deletion of all of
\* them has been accepted.  What escapes is what ACA had yet to delete, or
\* completed after its request failed, and what was restored from that.
THEOREM TokensStayCurrent == Spec => []TokensCurrent
<1>1. IInv => TokensCurrent
  BY DEF IInv
<1>2. QED
  BY <1>1, Invariant, PTL

\* A snapshot that ensureRunning has given up on, and whose deletion was refused, is
\* never restored, however often the deletion failed: replaceSandboxes deletes
\* snapshots before sandboxes, and only an issue without a sandbox has a
\* snapshot picked.
THEOREM RejectedStaysUnused == Spec => []RejectedNotRestored
<1>1. IInv => RejectedNotRestored
  BY DEF IInv
<1>2. QED
  BY <1>1, Invariant, PTL

=============================================================================
