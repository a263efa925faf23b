------------------------- MODULE AgentSessionsProofs --------------------------
(***************************************************************************)
(* Proofs about the worker's sessions, for every number of runners, limits *)
(* and bounds.  First the runner semaphore on its own: its bookkeeping     *)
(* invariants, and that the counter implements the gate of RunnerGate.     *)
(* Then one session that uses it: it goes through the semaphore's own      *)
(* operations, its end is reported once, and not while its work goes on.   *)
(***************************************************************************)
EXTENDS AgentSessions, FiniteSetTheorems, TLAPS

(* The semaphore *)

\* The induction needs all four: the count is right only while the line and the
\* stages agree, and an arrival overtakes nobody only while no slot is idle.
SemIInv == SemTypeOK /\ SlotsCounted /\ WaitersQueued /\ NoIdleSlot

\* The first n of the line.
First(n) == {waiters[i] : i \in 1 .. n}

\* The gate counts its starts the way this module does.
LEMMA GateCardinality ==
    ASSUME NEW S PROVE Gate!Cardinality(S) = Cardinality(S)
BY DEF Gate!Cardinality, Cardinality

\* What the loop of admitWaiters stops at: it never passes the limit, and leaves
\* somebody waiting only at the limit.
LEMMA AdmissibleBounds ==
    ASSUME NEW count \in Nat, NEW lim \in Nat, waiters \in Seq(Starts)
    PROVE  /\ Admissible(count, lim) \in 0 .. Len(waiters)
           /\ Admissible(count, lim) > 0 => count + Admissible(count, lim) <= lim
           /\ Admissible(count, lim) < Len(waiters)
                => count + Admissible(count, lim) >= lim
<1>1. Len(waiters) \in Nat
  OBVIOUS
<1>2. QED
  BY <1>1 DEF Admissible

\* Each start stands in line once, so the first n of the line are n starts.
LEMMA FirstSize ==
    ASSUME SemTypeOK, WaitersQueued, NEW n \in 0 .. Len(waiters)
    PROVE  IsFiniteSet(First(n)) /\ Cardinality(First(n)) = n
<1> DEFINE f == [i \in 1 .. n |-> waiters[i]]
<1>1. \A i \in 1 .. n : i \in DOMAIN waiters
  BY DEF SemTypeOK
<1>2. f \in Bijection(1 .. n, First(n))
  <2>1. f \in [1 .. n -> First(n)]
    BY DEF First
  <2>2. \A i, j \in 1 .. n : f[i] = f[j] => i = j
    BY <1>1 DEF WaitersQueued
  <2>3. \A y \in First(n) : \E i \in 1 .. n : f[i] = y
    BY DEF First
  <2>4. f \in Injection(1 .. n, First(n))
    BY <2>1, <2>2 DEF Injection, IsInjective
  <2>5. f \in Surjection(1 .. n, First(n))
    BY <2>1, <2>3 DEF Surjection
  <2>6. QED
    BY <2>4, <2>5 DEF Bijection
<1>3. IsFiniteSet(1 .. n) /\ Cardinality(1 .. n) = n
  <2>1. n \in Nat
    BY DEF SemTypeOK
  <2>2. QED
    BY <2>1, FS_Interval
<1>4. ExistsBijection(1 .. n, First(n))
  BY <1>2 DEF ExistsBijection
<1>5. QED
  BY <1>3, <1>4, FS_Bijection

\* The starts that hold a slot are finitely many.
LEMMA HoldersFinite ==
    ASSUME NEW at \in [Starts -> Stages]
    PROVE  IsFiniteSet({s \in Starts : at[s] \in {"granted", "running"}})
<1>1. {s \in Starts : at[s] \in {"granted", "running"}} \subseteq Starts
  OBVIOUS
<1>2. QED
  BY <1>1, StartsAssumption, FS_Subset

\* admitWaiters re-establishes the invariant when the count it starts from is
\* that of the starts that still hold a slot, and admits the head of the line.
LEMMA AdmitStep ==
    ASSUME SemTypeOK, WaitersQueued,
           NEW count \in Nat, NEW lim \in Limits, NEW at \in [Starts -> Stages],
           \A s \in Starts : at[s] = "waiting" <=> pc[s] = "waiting",
           count = Cardinality({s \in Starts : at[s] \in {"granted", "running"}}),
           limit' = lim, AdmitWaiters(count, lim, at)
    PROVE  /\ SemIInv'
           /\ \E n \in 0 .. Len(waiters) :
                /\ Holders' = {s \in Starts : at[s] \in {"granted", "running"}}
                                \cup First(n)
                /\ waiters' = SubSeq(waiters, n + 1, Len(waiters))
                /\ n < Len(waiters) => Cardinality(Holders') >= limit'
                /\ n > 0 => Cardinality(Holders') <= limit'
<1> DEFINE n == Admissible(count, lim)
           H == {s \in Starts : at[s] \in {"granted", "running"}}
<1>0. lim \in Nat /\ waiters \in Seq(Starts) /\ Len(waiters) \in Nat
  BY LimitsAssumption DEF SemTypeOK
<1>1. /\ n \in 0 .. Len(waiters) /\ n \in Nat
      /\ n > 0 => count + n <= lim
      /\ n < Len(waiters) => count + n >= lim
  BY <1>0, AdmissibleBounds
<1>2. /\ activeCount' = count + n
      /\ waiters' = SubSeq(waiters, n + 1, Len(waiters))
      /\ pc' = [s \in Starts |-> IF \E i \in 1 .. n : waiters[i] = s
                                 THEN "granted" ELSE at[s]]
  BY DEF AdmitWaiters
<1> HIDE DEF n
<1>3. First(n) \subseteq {s \in Starts : pc[s] = "waiting"}
  BY <1>0, <1>1 DEF First, WaitersQueued
<1>4. \A s \in Starts : s \in First(n) <=> \E i \in 1 .. n : waiters[i] = s
  BY DEF First
<1>5. Holders' = H \cup First(n)
  BY <1>2, <1>3, <1>4 DEF Holders
<1>6. H \cap First(n) = {}
  BY <1>3
<1>7. IsFiniteSet(First(n)) /\ Cardinality(First(n)) = n
  BY <1>1, FirstSize
<1>8. IsFiniteSet(H)
  BY HoldersFinite
<1>9. Cardinality(Holders') = count + n
  <2>1. Cardinality(H \cup First(n)) = Cardinality(H) + Cardinality(First(n))
                                         - Cardinality(H \cap First(n))
    BY <1>7, <1>8, FS_Union
  <2>2. Cardinality(H \cap First(n)) = 0
    BY <1>6, FS_EmptySet
  <2>3. QED
    BY <2>1, <2>2, <1>1, <1>5, <1>7
<1>10. SemTypeOK'
  <2>1. waiters' \in Seq(Starts)
    BY <1>0, <1>1, <1>2
  <2>2. pc' \in [Starts -> Stages]
    BY <1>2 DEF Stages
  <2>3. QED
    BY <1>1, <1>2, <2>1, <2>2 DEF SemTypeOK
<1>11. SlotsCounted'
  BY <1>2, <1>9 DEF SlotsCounted
<1>12. NoIdleSlot'
  <2>1. n = Len(waiters) => waiters' = <<>>
    BY <1>0, <1>1, <1>2
  <2>2. QED
    BY <2>1, <1>0, <1>1, <1>2 DEF NoIdleSlot
<1>13. WaitersQueued'
  <2>1. /\ DOMAIN waiters' = 1 .. (Len(waiters) - n)
        /\ \A i \in 1 .. (Len(waiters) - n) : waiters'[i] = waiters[i + n]
    BY <1>0, <1>1, <1>2
  <2>2. DOMAIN waiters = 1 .. Len(waiters)
    BY <1>0
  <2>3. \A i, j \in DOMAIN waiters' : waiters'[i] = waiters'[j] => i = j
    <3>1. SUFFICES ASSUME NEW i \in DOMAIN waiters', NEW j \in DOMAIN waiters',
                          waiters'[i] = waiters'[j]
                   PROVE  i = j
      OBVIOUS
    <3>2. i + n \in DOMAIN waiters /\ j + n \in DOMAIN waiters
      BY <2>1, <2>2, <1>0, <1>1
    <3>3. waiters[i + n] = waiters[j + n]
      BY <2>1, <3>1
    <3>4. i + n = j + n
      BY <3>2, <3>3 DEF WaitersQueued
    <3>5. QED
      BY <3>4, <2>1, <1>0, <1>1
  <2>4. ASSUME NEW s \in Starts
        PROVE  (\E i \in DOMAIN waiters' : waiters'[i] = s) <=> pc'[s] = "waiting"
    <3>1. pc[s] = "waiting" <=> \E i \in DOMAIN waiters : waiters[i] = s
      BY DEF WaitersQueued
    <3>2. pc'[s] = "waiting" <=> pc[s] = "waiting" /\ ~ \E i \in 1 .. n : waiters[i] = s
      BY <1>2
    <3>3. ASSUME NEW i \in DOMAIN waiters', waiters'[i] = s
          PROVE  pc'[s] = "waiting"
      <4>1. i + n \in DOMAIN waiters /\ waiters[i + n] = s
        <5>1. i \in 1 .. (Len(waiters) - n)
          BY <2>1
        <5>2. i + n \in DOMAIN waiters
          BY <5>1, <2>2, <1>0, <1>1
        <5>3. QED
          BY <5>1, <5>2, <3>3, <2>1
      <4>2. ASSUME NEW k \in 1 .. n, waiters[k] = s
            PROVE  FALSE
        <5>1. k \in DOMAIN waiters
          BY <2>2, <1>0, <1>1
        <5>2. k = i + n
          BY <4>1, <4>2, <5>1 DEF WaitersQueued
        <5>3. QED
          BY <5>2, <2>1, <1>0, <1>1
      <4>3. QED
        BY <4>1, <4>2, <3>1, <3>2
    <3>4. ASSUME pc'[s] = "waiting"
          PROVE  \E i \in DOMAIN waiters' : waiters'[i] = s
      <4>1. PICK k \in DOMAIN waiters : waiters[k] = s
        BY <3>4, <3>2, <3>1
      <4>2. k \notin 1 .. n
        BY <3>4, <3>2, <4>1
      <4>3. k - n \in DOMAIN waiters' /\ waiters'[k - n] = waiters[k]
        BY <4>2, <2>1, <2>2, <1>0, <1>1
      <4>4. QED
        BY <4>1, <4>3
    <3>5. QED
      BY <3>3, <3>4
  <2>5. \A i \in DOMAIN waiters' : waiters'[i] \in Starts
    BY <1>10 DEF SemTypeOK
  <2>6. {waiters'[i] : i \in DOMAIN waiters'} = {s \in Starts : pc'[s] = "waiting"}
    BY <2>4, <2>5
  <2>7. QED
    BY <2>3, <2>6 DEF WaitersQueued
<1>14. QED
  BY <1>1, <1>2, <1>5, <1>9, <1>10, <1>11, <1>12, <1>13 DEF SemIInv

---------------------------------------------------------------------------
(* One lemma per action *)

LEMMA InitHolds == SemInit => SemIInv
<1>1. ASSUME SemInit PROVE Holders = {}
  BY <1>1 DEF SemInit, Holders
<1>2. ASSUME SemInit PROVE SlotsCounted
  BY <1>1, <1>2, FS_EmptySet DEF SemInit, SlotsCounted
<1>3. ASSUME SemInit PROVE SemTypeOK
  BY <1>3 DEF SemInit, SemTypeOK, Stages
<1>4. ASSUME SemInit PROVE WaitersQueued /\ NoIdleSlot
  BY <1>4 DEF SemInit, WaitersQueued, NoIdleSlot
<1>5. QED
  BY <1>2, <1>3, <1>4 DEF SemIInv

\* A free slot is taken at once: with no slot idle, nobody is overtaken.
LEMMA AcquireFree ==
    ASSUME SemIInv, NEW s \in Starts, Acquire(s), activeCount < limit
    PROVE  SemIInv' /\ Gate!Enter(s)
<1>1. /\ pc[s] = "idle" /\ activeCount' = activeCount + 1
      /\ pc' = [pc EXCEPT ![s] = "granted"]
      /\ waiters' = waiters /\ limit' = limit
  BY DEF Acquire
<1>2. pc \in [Starts -> Stages] /\ activeCount \in Nat /\ limit \in Nat
  BY LimitsAssumption DEF SemIInv, SemTypeOK
<1>3. waiters = <<>>
  BY <1>2 DEF SemIInv, NoIdleSlot
<1>4. Holders' = Holders \cup {s} /\ s \notin Holders
  BY <1>1, <1>2 DEF Holders
<1>5. IsFiniteSet(Holders)
  BY <1>2, HoldersFinite DEF Holders
<1>6. Cardinality(Holders') = Cardinality(Holders) + 1
  BY <1>4, <1>5, FS_AddElement
<1>7. SlotsCounted'
  BY <1>1, <1>6 DEF SemIInv, SlotsCounted
<1>8. SemTypeOK'
  BY <1>1, <1>2 DEF SemIInv, SemTypeOK, Stages
<1>9. WaitersQueued' /\ NoIdleSlot'
  <2>1. \A t \in Starts : pc'[t] = "waiting" <=> pc[t] = "waiting"
    BY <1>1, <1>2
  <2>2. QED
    BY <2>1, <1>1, <1>3 DEF SemIInv, WaitersQueued, NoIdleSlot
<1>10. Gate!Enter(s)
  BY <1>1, <1>3, <1>4, GateCardinality DEF Gate!Enter, SemIInv, SlotsCounted
<1>11. QED
  BY <1>7, <1>8, <1>9, <1>10 DEF SemIInv

\* At the limit a start joins the line at its end.
LEMMA AcquireFull ==
    ASSUME SemIInv, NEW s \in Starts, Acquire(s), ~ (activeCount < limit)
    PROVE  SemIInv' /\ Gate!GetInLine(s)
<1>1. /\ pc[s] = "idle" /\ activeCount' = activeCount
      /\ pc' = [pc EXCEPT ![s] = "waiting"]
      /\ waiters' = Append(waiters, s) /\ limit' = limit
  BY DEF Acquire
<1>2. /\ pc \in [Starts -> Stages] /\ activeCount \in Nat /\ limit \in Nat
      /\ waiters \in Seq(Starts) /\ Len(waiters) \in Nat
  BY LimitsAssumption DEF SemIInv, SemTypeOK
<1>3. Holders' = Holders /\ s \notin Holders
  BY <1>1, <1>2 DEF Holders
<1>4. SemTypeOK'
  BY <1>1, <1>2 DEF SemIInv, SemTypeOK, Stages
<1>5. SlotsCounted' /\ NoIdleSlot'
  BY <1>1, <1>2, <1>3 DEF SemIInv, SlotsCounted, NoIdleSlot
<1>6. /\ DOMAIN waiters = 1 .. Len(waiters)
      /\ DOMAIN waiters' = 1 .. (Len(waiters) + 1)
      /\ \A i \in 1 .. Len(waiters) : waiters'[i] = waiters[i]
      /\ waiters'[Len(waiters) + 1] = s
  BY <1>1, <1>2
<1>7. \A i \in DOMAIN waiters : waiters[i] # s /\ waiters[i] \in Starts
  BY <1>1, <1>2 DEF SemIInv, WaitersQueued
<1>8. \A i, j \in DOMAIN waiters' : waiters'[i] = waiters'[j] => i = j
  BY <1>2, <1>6, <1>7 DEF SemIInv, WaitersQueued
<1>9. ASSUME NEW t \in Starts
      PROVE  (\E i \in DOMAIN waiters' : waiters'[i] = t) <=> pc'[t] = "waiting"
  <2>1. pc[t] = "waiting" <=> \E i \in DOMAIN waiters : waiters[i] = t
    BY DEF SemIInv, WaitersQueued
  <2>2. pc'[t] = "waiting" <=> t = s \/ pc[t] = "waiting"
    BY <1>1, <1>2
  <2>3. (\E i \in DOMAIN waiters' : waiters'[i] = t)
          <=> t = s \/ \E i \in DOMAIN waiters : waiters[i] = t
    BY <1>2, <1>6
  <2>4. QED
    BY <2>1, <2>2, <2>3
<1>10. \A i \in DOMAIN waiters' : waiters'[i] \in Starts
  BY <1>2, <1>6, <1>7
<1>11. {waiters'[i] : i \in DOMAIN waiters'} = {t \in Starts : pc'[t] = "waiting"}
  BY <1>9, <1>10
<1>12. Gate!GetInLine(s)
  BY <1>1, <1>2, <1>3, GateCardinality DEF Gate!GetInLine, SemIInv, SlotsCounted
<1>13. QED
  BY <1>4, <1>5, <1>8, <1>11, <1>12 DEF SemIInv, WaitersQueued

\* Going on after acquire() moves no slot.
LEMMA RunStep ==
    ASSUME SemIInv, NEW s \in Starts, Run(s)
    PROVE  SemIInv' /\ UNCHANGED <<Holders, waiters, limit>>
<1>1. /\ pc[s] = "granted" /\ pc' = [pc EXCEPT ![s] = "running"]
      /\ UNCHANGED <<activeCount, limit, waiters>>
  BY DEF Run
<1>2. pc \in [Starts -> Stages]
  BY DEF SemIInv, SemTypeOK
<1>3. Holders' = Holders
  BY <1>1, <1>2 DEF Holders
<1>4. \A t \in Starts : pc'[t] = "waiting" <=> pc[t] = "waiting"
  BY <1>1, <1>2
<1>5. SemTypeOK'
  BY <1>1, <1>2 DEF SemIInv, SemTypeOK, Stages
<1>6. QED
  BY <1>1, <1>3, <1>4, <1>5 DEF SemIInv, SlotsCounted, WaitersQueued, NoIdleSlot

\* A settled runner gives its slot back and the line moves up.  Its slot is
\* counted, so the clamp of release() at zero is never taken.
LEMMA ReleaseStep ==
    ASSUME SemIInv, NEW s \in Starts, Release(s)
    PROVE  SemIInv' /\ Gate!Leave(s)
<1> DEFINE at == [pc EXCEPT ![s] = "done"]
           H == {t \in Starts : at[t] \in {"granted", "running"}}
<1>1. /\ pc \in [Starts -> Stages] /\ activeCount \in Nat
      /\ SemTypeOK /\ WaitersQueued /\ limit \in Limits
  BY DEF SemIInv, SemTypeOK
<1>2. pc[s] = "running" /\ limit' = limit
  BY DEF Release
<1>3. at \in [Starts -> Stages]
  BY <1>1 DEF Stages
<1>4. \A t \in Starts : at[t] = "waiting" <=> pc[t] = "waiting"
  BY <1>1, <1>2
<1>5. s \in Holders /\ H = Holders \ {s}
  BY <1>1, <1>2 DEF Holders
<1>6. IsFiniteSet(Holders)
  BY <1>1, HoldersFinite DEF Holders
<1>7. Cardinality(H) = activeCount - 1 /\ Cardinality(H) \in Nat
  <2>1. IsFiniteSet(H) /\ Cardinality(H) = Cardinality(Holders) - 1
    BY <1>5, <1>6, FS_RemoveElement
  <2>2. Cardinality(H) \in Nat
    BY <2>1, FS_CardinalityType
  <2>3. QED
    BY <2>1, <2>2 DEF SemIInv, SlotsCounted
<1>8. activeCount # 0
  BY <1>1, <1>7
<1>9. AdmitWaiters(activeCount - 1, limit, at)
  BY <1>8 DEF Release
<1>10. activeCount - 1 \in Nat /\ activeCount - 1 = Cardinality(H)
  BY <1>7
<1> HIDE DEF at
<1>11. /\ SemIInv'
       /\ \E n \in 0 .. Len(waiters) :
            /\ Holders' = H \cup First(n)
            /\ waiters' = SubSeq(waiters, n + 1, Len(waiters))
            /\ n < Len(waiters) => Cardinality(Holders') >= limit'
            /\ n > 0 => Cardinality(Holders') <= limit'
  BY <1>1, <1>2, <1>3, <1>4, <1>9, <1>10, AdmitStep
<1>12. Gate!LetIn({s})
  BY <1>5, <1>11, GateCardinality DEF Gate!LetIn, First
<1>13. QED
  BY <1>2, <1>5, <1>11, <1>12 DEF Gate!Leave

\* A new limit admits whom it has room for.
LEMMA SetLimitStep ==
    ASSUME SemIInv, NEW l \in Limits, SetLimit(l)
    PROVE  SemIInv' /\ Gate!Resize(l)
<1>1. /\ pc \in [Starts -> Stages] /\ activeCount \in Nat
      /\ SemTypeOK /\ WaitersQueued
      /\ activeCount = Cardinality({t \in Starts : pc[t] \in {"granted", "running"}})
  BY DEF SemIInv, SemTypeOK, SlotsCounted, Holders
<1>2. limit' = l /\ AdmitWaiters(activeCount, l, pc)
  BY DEF SetLimit
<1>3. /\ SemIInv'
      /\ \E n \in 0 .. Len(waiters) :
           /\ Holders' = {t \in Starts : pc[t] \in {"granted", "running"}} \cup First(n)
           /\ waiters' = SubSeq(waiters, n + 1, Len(waiters))
           /\ n < Len(waiters) => Cardinality(Holders') >= limit'
           /\ n > 0 => Cardinality(Holders') <= limit'
  BY <1>1, <1>2, AdmitStep
<1>4. Gate!LetIn({})
  BY <1>3, GateCardinality DEF Gate!LetIn, First, Holders
<1>5. QED
  BY <1>2, <1>3, <1>4 DEF Gate!Resize

LEMMA RestartStep ==
    ASSUME SemIInv, Restart
    PROVE  SemIInv' /\ Gate!Reopen
<1>1. /\ activeCount' = 0 /\ limit' \in Limits /\ waiters' = <<>>
      /\ pc' = [s \in Starts |-> IF pc[s] = "idle" THEN "idle" ELSE "done"]
  BY DEF Restart
<1>2. Holders' = {}
  BY <1>1 DEF Holders
<1>3. SlotsCounted'
  BY <1>1, <1>2, FS_EmptySet DEF SlotsCounted
<1>4. SemTypeOK'
  BY <1>1 DEF SemTypeOK, Stages
<1>5. \A s \in Starts : pc'[s] # "waiting"
  BY <1>1
<1>6. WaitersQueued' /\ NoIdleSlot'
  BY <1>1, <1>5 DEF WaitersQueued, NoIdleSlot
<1>7. QED
  BY <1>1, <1>2, <1>3, <1>4, <1>6 DEF SemIInv, Gate!Reopen

\* Every step keeps the invariant and is a step of the gate, or none.
LEMMA StepHolds ==
    ASSUME SemIInv, [SemNext]_semVars
    PROVE  SemIInv' /\ [Gate!GateNext]_(Gate!gateVars)
<1> USE DEF Gate!GateNext, Gate!gateVars
<1>1. ASSUME NEW s \in Starts, Acquire(s)
      PROVE  SemIInv' /\ Gate!GateNext
  <2>1. CASE activeCount < limit
    BY <1>1, <2>1, AcquireFree
  <2>2. CASE ~ (activeCount < limit)
    BY <1>1, <2>2, AcquireFull
  <2>3. QED
    BY <2>1, <2>2
<1>2. ASSUME NEW s \in Starts, Run(s)
      PROVE  SemIInv' /\ UNCHANGED Gate!gateVars
  BY <1>2, RunStep
<1>3. ASSUME NEW s \in Starts, Release(s)
      PROVE  SemIInv' /\ Gate!GateNext
  BY <1>3, ReleaseStep
<1>4. ASSUME NEW l \in Limits, SetLimit(l)
      PROVE  SemIInv' /\ Gate!GateNext
  BY <1>4, SetLimitStep
<1>5. ASSUME Restart
      PROVE  SemIInv' /\ Gate!GateNext
  BY <1>5, RestartStep
<1>6. ASSUME UNCHANGED semVars
      PROVE  SemIInv' /\ UNCHANGED Gate!gateVars
  BY <1>6 DEF semVars, SemIInv, SemTypeOK, SlotsCounted, WaitersQueued, NoIdleSlot, Holders
<1>7. QED
  BY <1>1, <1>2, <1>3, <1>4, <1>5, <1>6 DEF SemNext

LEMMA InitMaps == SemInit => Gate!GateInit
BY DEF SemInit, Gate!GateInit, Holders

---------------------------------------------------------------------------
(* Theorems *)

\* The slots counted are the slots held, the line is exactly the starts that
\* wait, and nobody waits beside a free slot (SessionSemaphore), for every
\* number of starts and every sequence of limits.
THEOREM SemaphoreInvariant ==
    SemSpec => [](SemTypeOK /\ SlotsCounted /\ WaitersQueued /\ NoIdleSlot)
<1>1. SemInit => SemIInv
  BY InitHolds
<1>2. SemIInv /\ [SemNext]_semVars => SemIInv'
  BY StepHolds
<1>3. QED
  BY <1>1, <1>2, PTL DEF SemSpec, SemIInv

\* acquire, release, setLimit and a restart of the process, worked out on a
\* counter and a queue of resolvers, implement the gate of RunnerGate.
THEOREM SemaphoreRefinesGate == SemSpec => ImplementsGate
<1>1. SemInit => SemIInv
  BY InitHolds
<1>2. SemIInv /\ [SemNext]_semVars => SemIInv' /\ [Gate!GateNext]_(Gate!gateVars)
  BY StepHolds
<1>3. SemInit => Gate!GateInit
  BY InitMaps
<1>4. QED
  BY <1>1, <1>2, <1>3, PTL DEF SemSpec, ImplementsGate, Gate!GateSpec

---------------------------------------------------------------------------
(* The session and its runners *)

\* A runner that was attached and is not over.
Alive(r) == turn[r] \notin {"none", "over"}

\* Epochs are sessions created and runners attached: there is a session, in memory
\* or in the file, from the first epoch on, no two runners are of the same one, and
\* the attached runner is of the newest.
EpochsCount ==
    /\ epoch \in Nat
    /\ status # "none" \/ disk.status # "none" => epoch > 0
    /\ \A r \in Starts : turn[r] # "none" => 0 < born[r] /\ born[r] <= epoch
    /\ \A q, r \in Starts :
          turn[q] # "none" /\ turn[r] # "none" /\ born[q] = born[r] => q = r
    /\ cur # 0 => cur \in Starts /\ turn[cur] # "none" /\ born[cur] = epoch

\* No result, path or frame is of an epoch to come.
NotFromTheFuture ==
    /\ \A i \in 1..Len(results) : results[i].epoch \in Nat /\ results[i].epoch <= epoch
    /\ \A k \in Paths : pipe[k].epoch \in Nat /\ pipe[k].epoch <= epoch
    /\ frame \in Int /\ frame <= epoch

\* Without a session in memory nothing is under way but a stop; a live runner
\* has a session, and some runner attached to it.
NothingWithoutSession ==
    /\ status = "none" =>
          /\ asked = 0 /\ preparing = 0 /\ results = <<>> /\ cur = 0
          /\ \A r \in Starts : ~ Alive(r)
          /\ pipe["complete"].st = "idle" /\ pipe["fail"].st = "idle"
          /\ phase = "down" \/ disk.status = "none"
          /\ ~ term
    /\ phase = "down" => status = "none" /\ \A k \in Paths : pipe[k].st = "idle"
    /\ phase = "reconciling" => asked = 0 /\ preparing = 0
    /\ \A r \in Starts : Alive(r) => cur # 0
    /\ disk.term => disk.status # "none"

\* Who waits for a slot, or has one it does not run in yet, is starting.
SlotsForStarting ==
    \A r \in Starts : pc[r] \in {"waiting", "granted"} => turn[r] = "starting"

\* The one-shot: of the paths a stop does not force, one at most is past it in this
\* epoch, and then no signal was sent yet.  Once one was, the file says so or is behind.
Past(k) == pipe[k].st = "flushing" /\ pipe[k].epoch = epoch

OneShot ==
    /\ signals \in {0, 1} /\ ~ falsely
    /\ \A k \in Paths : Past(k) => emitted /\ (status = "none" \/ (term /\ flushing[k].term))
    /\ \A k \in Paths \ {"stop"} : Past(k) => signals = 0
    /\ ~ (Past("complete") /\ Past("fail"))
    /\ signals = 1 => (disk.term \/ behind) /\ (phase = "down" \/ (emitted /\ term))

\* What a save in flight will write: nothing when there is no session, and not that
\* it is over when it has been revived since.
SaveSound(sv) ==
    /\ sv.term => sv.status \in {"active", "complete", "error"}
    /\ status = "none" => sv.status \in {"none", "idle"}
    /\ sv.term /\ (told \/ frame = epoch) => term

SavesSound ==
    /\ \A k \in Paths : /\ pipe[k].st = "flushing" => flushing[k] # NoSave
                        /\ phase = "down" => flushing[k] = NoSave
                        /\ SaveSound(flushing[k])
    /\ \A w \in Writers : /\ phase = "down" => writes[w] = NoSave
                          /\ SaveSound(writes[w])

\* A session whose end is on its way to the router, or there, is over in the file too,
\* which a restart reads, unless the file is behind.
ToldIsOver ==
    told \/ frame = epoch =>
        \/ behind
        \/ disk.term /\ (phase = "down" \/ term)
        \/ status = "none" /\ disk.status = "none"

\* A runner is held open, or was woken, for work it had when it gave its result.
HeldForWork ==
    \A r \in Starts : turn[r] \in {"held", "woken"} => pend[r] # {} \/ r \in quiet

\* The attached runner has given its results by the time they are handled; once its
\* end is past the one-shot it does not work again.
ResultsAreOfTurns ==
    /\ \A i \in 1..Len(results) : cur # 0 /\ results[i].epoch = epoch =>
          /\ turn[cur] \notin {"attached", "starting", "open"}
          /\ results[i].sub # "success" => ~ Working(cur)
    /\ pipe["complete"].st # "idle" /\ pipe["complete"].epoch = epoch /\ cur # 0 =>
          /\ turn[cur] \notin {"attached", "starting", "open"}
          /\ completing.sub # "success" => ~ Working(cur)
    /\ pipe["complete"].st # "idle" => completing.sub \in {"success", "error"}
    /\ Past("complete") => completing.stop \/ cur = 0 \/ ~ Working(cur) \/ cur \in quiet
    /\ pipe["fail"].st # "idle" /\ pipe["fail"].epoch = epoch => cur = 0 \/ ~ Working(cur)

AInv == /\ TypeOK /\ EpochsCount /\ NotFromTheFuture /\ NothingWithoutSession
        /\ SlotsForStarting /\ OneShot /\ SavesSound /\ ToldIsOver /\ HeldForWork
        /\ ResultsAreOfTurns

\* The tuples of variables that an action leaves alone are expanded throughout.
USE DEF fileVars, turnVars, workVars, sessVars, histVars, countVars

\* A session's starts are steps of the semaphore or leave it alone.
LEMMA SessionStepIsSemStep ==
    ASSUME [Next]_vars
    PROVE  [SemNext]_semVars
BY DEF Next, SemNext, vars, EmitDone, Posted, CompleteStart, CompletePosted, CompleteEnd,
   PromptArrives, PromptChecks, PromptFails, AttachRunner, StartRunner, RunnerRuns, RunnerThrows,
   Wakeup, RunnerEnds, RunnerDies, Result, StopBlocked, TaskStarts, TasksEnd, OthersSave,
   OthersSaved, StopSignal, Crash, Restore, RouterApplies, Hello

\* The sessions of a worker use the semaphore only through its operations, so that
\* it counts their slots, keeps their line and implements the gate for them.
THEOREM SessionsUseSemaphore == Spec => SemSpec
<1>1. Init => SemInit
  BY DEF Init
<1>2. [Next]_vars => [SemNext]_semVars
  BY SessionStepIsSemStep
<1>3. QED
  BY <1>1, <1>2, PTL DEF Spec, SemSpec

\* The parts of the invariant, and the constants in it.
LEMMA Parts ==
    ASSUME AInv
    PROVE  /\ TypeOK /\ EpochsCount /\ NotFromTheFuture /\ NothingWithoutSession
           /\ SlotsForStarting /\ OneShot /\ SavesSound /\ ToldIsOver /\ HeldForWork
           /\ ResultsAreOfTurns
           /\ Paths = {"complete", "stop", "fail"} /\ Idle = [st |-> "idle", epoch |-> 0]
           /\ Starts \subseteq Nat \ {0}
<1>1. Starts \subseteq Nat \ {0}
  BY StartsAssumption, RunnersAssumption, FS_CardinalityType
<1>2. QED
  BY <1>1 DEF AInv, Paths, Idle

\* emitTerminalOnce up to its await: swallowed, or past the one-shot.
LEMMA EmitStartFacts ==
    ASSUME TypeOK, NEW k \in Paths, NEW force \in BOOLEAN, EmitStart(k, force)
    PROVE  /\ pipe' \in [Paths -> [st : {"idle", "posting", "flushing"}, epoch : Nat]]
           /\ term' \in BOOLEAN /\ emitted' \in BOOLEAN
           /\ flushing' \in [Paths -> Snapshots \cup {NoSave}]
           /\ \A j \in Paths : j # k => pipe'[j] = pipe[j] /\ flushing'[j] = flushing[j]
           /\ \/ /\ emitted /\ ~ force /\ emitted' = emitted /\ term' = term
                 /\ pipe'[k].st = "idle" /\ pipe'[k].epoch = 0
                 /\ flushing' = flushing
              \/ /\ ~ emitted \/ force
                 /\ emitted' /\ (term' <=> status # "none")
                 /\ pipe'[k].st = "flushing" /\ pipe'[k].epoch = pipe[k].epoch
                 /\ flushing'[k] = Serialized(status, status # "none")
           /\ UNCHANGED <<disk, writes, behind>>
<1>1. /\ pipe \in [Paths -> [st : {"idle", "posting", "flushing"}, epoch : Nat]]
      /\ flushing \in [Paths -> Snapshots \cup {NoSave}]
      /\ term \in BOOLEAN /\ emitted \in BOOLEAN
  BY DEF TypeOK
<1>0. UNCHANGED <<disk, writes, behind>>
  BY DEF EmitStart
<1>2. CASE emitted /\ ~ force
  <2>1. /\ pipe' = [pipe EXCEPT ![k] = Idle]
        /\ term' = term /\ emitted' = emitted /\ flushing' = flushing
    BY <1>2 DEF EmitStart
  <2>2. /\ pipe' \in [Paths -> [st : {"idle", "posting", "flushing"}, epoch : Nat]]
        /\ \A j \in Paths : j # k => pipe'[j] = pipe[j]
        /\ pipe'[k].st = "idle" /\ pipe'[k].epoch = 0
    BY <1>1, <2>1 DEF Idle
  <2>3. QED
    BY <1>0, <1>1, <1>2, <2>1, <2>2
<1>3. CASE ~ (emitted /\ ~ force)
  <2>1. /\ pipe' = [pipe EXCEPT ![k].st = "flushing"]
        /\ flushing' = [flushing EXCEPT ![k] = Serialized(status, status # "none")]
    BY <1>3 DEF EmitStart
  <2>2. /\ pipe' \in [Paths -> [st : {"idle", "posting", "flushing"}, epoch : Nat]]
        /\ \A j \in Paths : j # k => pipe'[j] = pipe[j]
        /\ pipe'[k].st = "flushing" /\ pipe'[k].epoch = pipe[k].epoch
    BY <1>1, <2>1
  <2>3. emitted' = TRUE /\ term' = (status # "none")
    BY <1>3 DEF EmitStart
  <2>4. emitted' \in BOOLEAN /\ term' \in BOOLEAN
    BY <2>3
  <2>5. emitted' /\ (term' <=> status # "none")
    BY <2>3
  <2>6. Serialized(status, status # "none") \in Snapshots
    <3>1. status \in {"none", "active", "complete", "error"} /\ (status # "none") \in BOOLEAN
      BY DEF TypeOK
    <3>2. QED
      BY <3>1 DEF Serialized, Snapshots
  <2>7. /\ flushing' \in [Paths -> Snapshots \cup {NoSave}]
        /\ \A j \in Paths : j # k => flushing'[j] = flushing[j]
        /\ flushing'[k] = Serialized(status, status # "none")
    BY <1>1, <2>1, <2>6
  <2>8. QED
    BY <1>0, <1>3, <2>2, <2>4, <2>5, <2>7
<1>4. QED
  BY <1>2, <1>3

\* A runner that gives its slot back lets the first of the line in, who is starting.
LEMMA ReleaseKeepsSlots ==
    ASSUME TypeOK, WaitersQueued, SlotsForStarting, NEW r \in Starts, Release(r),
           turn[r] # "starting", turn' = [turn EXCEPT ![r] = "over"]
    PROVE  SlotsForStarting'
<1>1. /\ waiters \in Seq(Starts) /\ Len(waiters) \in Nat /\ activeCount \in Nat
      /\ pc \in [Starts -> Stages] /\ turn \in [Starts -> Turns] /\ limit \in Nat
  BY LimitsAssumption DEF TypeOK, SemTypeOK
<1>2. \A q \in Starts : q # r => turn'[q] = turn[q]
  BY <1>1
<1>3. \A i \in 1..Len(waiters) : waiters[i] \in Starts /\ pc[waiters[i]] = "waiting"
  BY <1>1 DEF WaitersQueued
<1>4. ASSUME NEW q \in Starts, pc'[q] \in {"waiting", "granted"}
      PROVE  q # r /\ pc[q] \in {"waiting", "granted"}
  <2>1. CASE activeCount = 0
    BY <1>1, <1>4, <2>1 DEF Release
  <2>2. CASE activeCount # 0
    <3> DEFINE n == Admissible(activeCount - 1, limit)
    <3>0. activeCount - 1 \in Nat
      BY <1>1, <2>2
    <3>1. n \in 0..Len(waiters)
      BY <1>1, <3>0, AdmissibleBounds
    <3>2. pc' = [s \in Starts |-> IF \E i \in 1..n : waiters[i] = s THEN "granted"
                                  ELSE [pc EXCEPT ![r] = "done"][s]]
      BY <2>2 DEF Release, AdmitWaiters
    <3>3. pc[r] = "running"
      BY DEF Release
    <3> HIDE DEF n
    <3>4. CASE \E i \in 1..n : waiters[i] = q
      BY <1>1, <1>3, <3>1, <3>3, <3>4
    <3>5. CASE ~ \E i \in 1..n : waiters[i] = q
      BY <1>1, <1>4, <3>2, <3>5
    <3>6. QED
      BY <3>4, <3>5
  <2>3. QED
    BY <2>1, <2>2
<1>5. QED
  BY <1>2, <1>4 DEF SlotsForStarting

\* The first element of a queue is of the queue's type.
LEMMA HeadType ==
    ASSUME NEW T, NEW s \in Seq(T), s # <<>>
    PROVE  Head(s) = s[1] /\ Head(s) \in T
OBVIOUS

\* What reconcileInterruptedSessions adds to the paths.
LEMMA RestoredPipe ==
    ASSUME TypeOK, EpochsCount, NotFromTheFuture, Restore
    PROVE  /\ pipe' \in [Paths -> [st : {"idle", "posting", "flushing"}, epoch : Nat]]
           /\ \A k \in Paths : pipe'[k].epoch \in Nat /\ pipe'[k].epoch <= epoch
<1>1. /\ pipe \in [Paths -> [st : {"idle", "posting", "flushing"}, epoch : Nat]]
      /\ epoch \in Nat
      /\ \A k \in Paths : pipe[k].epoch \in Nat /\ pipe[k].epoch <= epoch
  BY DEF TypeOK, EpochsCount, NotFromTheFuture
<1>2. CASE Interrupted
  <2>1. pipe' = [pipe EXCEPT !["fail"] = [st |-> "posting", epoch |-> epoch]]
    BY <1>2 DEF Restore
  <2>2. [st |-> "posting", epoch |-> epoch]
           \in [st : {"idle", "posting", "flushing"}, epoch : Nat]
    BY <1>1
  <2>3. pipe' \in [Paths -> [st : {"idle", "posting", "flushing"}, epoch : Nat]]
    BY <1>1, <2>1, <2>2
  <2>4. ASSUME NEW k \in Paths PROVE pipe'[k].epoch \in Nat /\ pipe'[k].epoch <= epoch
    <3>1. pipe'[k] = pipe[k] \/ pipe'[k] = [st |-> "posting", epoch |-> epoch]
      BY <1>1, <2>1
    <3>2. QED
      BY <1>1, <3>1
  <2>5. QED
    BY <2>3, <2>4
<1>3. CASE ~ Interrupted
  <2>1. pipe' = pipe
    BY <1>3 DEF Restore
  <2>2. QED
    BY <1>1, <2>1
<1>4. QED
  BY <1>2, <1>3

\* A snapshot is not the absence of one.
LEMMA SnapshotFacts ==
    /\ NoSave \notin Snapshots
    /\ \A sv \in Snapshots : /\ sv.status \in {"none", "active", "complete", "error"}
                              /\ sv.term \in BOOLEAN
BY DEF Snapshots, NoSave, Serialized

\* What a sound save makes of the file, whether it lands or fails.
FileKept ==
    /\ disk' \in Snapshots /\ behind' \in BOOLEAN
    /\ disk'.term => disk'.status # "none"
    /\ disk'.status # "none" => epoch > 0
    /\ status = "none" => disk'.status = "none"
    /\ (disk.term \/ behind) /\ term => disk'.term \/ behind'
    /\ told \/ frame = epoch => behind' \/ (disk'.term /\ term) \/ status = "none"

LEMMA FlushFacts ==
    ASSUME AInv, phase # "down", NEW sv \in Snapshots, SaveSound(sv), NEW t \in BOOLEAN,
           Flush(sv, t)
    PROVE  FileKept /\ (t /\ sv.term => disk'.term \/ behind')
<1>1. /\ disk \in Snapshots /\ behind \in BOOLEAN /\ term \in BOOLEAN
      /\ disk.term => disk.status # "none"
      /\ disk.status # "none" => epoch > 0
      /\ status # "none" => epoch > 0
      /\ status = "none" => disk.status = "none" /\ ~ term
      /\ told \/ frame = epoch => behind \/ (disk.term /\ term) \/ status = "none"
  BY Parts DEF TypeOK, EpochsCount, NothingWithoutSession, ToldIsOver
<1>2. /\ sv.status \in {"none", "active", "complete", "error"}
      /\ sv.term => sv.status # "none"
      /\ status = "none" => sv.status = "none"
      /\ sv.term /\ (told \/ frame = epoch) => term
  BY SnapshotFacts DEF SaveSound
<1>3. CASE /\ disk' = sv
           /\ behind' = (~ sv.term /\ (behind \/ (disk.term /\ term)))
  BY <1>1, <1>2, <1>3, SnapshotFacts DEF FileKept
<1>4. CASE /\ disk' = disk
           /\ behind' = (behind \/ (t /\ ~ disk.term))
  BY <1>1, <1>2, <1>4 DEF FileKept
<1>5. QED
  BY <1>3, <1>4 DEF Flush

LEMMA SaveEndsFacts ==
    ASSUME AInv, NEW w \in Writers, SaveEnds(w)
    PROVE  /\ phase # "down" /\ FileKept
           /\ writes' \in [Writers -> Snapshots \cup {NoSave}]
           /\ \A x \in Writers : writes'[x] = writes[x] \/ writes'[x] = NoSave
<1>1. /\ writes \in [Writers -> Snapshots \cup {NoSave}] /\ writes[w] # NoSave
      /\ writes' = [writes EXCEPT ![w] = NoSave] /\ Flush(writes[w], FALSE)
  BY Parts DEF SaveEnds, TypeOK
<1>2. phase # "down" /\ SaveSound(writes[w])
  BY Parts, <1>1 DEF SavesSound
<1>3. writes[w] \in Snapshots
  BY <1>1
<1>4. FileKept
  BY <1>1, <1>2, <1>3, FlushFacts
<1>5. QED
  BY <1>1, <1>2, <1>4

\* Saves in flight stay sound while the session stays and is not revived.
LEMMA SavesStaySound ==
    ASSUME AInv,
           flushing' = flushing \/ \A k \in Paths : flushing'[k] \in {flushing[k], NoSave},
           writes' = writes \/ \A w \in Writers : writes'[w] \in {writes[w], NoSave},
           \A k \in Paths : pipe'[k].st = "flushing" => flushing'[k] # NoSave,
           phase' = "down" => phase = "down",
           status' = "none" => status = "none",
           status # "none" /\ (told' \/ frame' = epoch') =>
               term' \/ ((told \/ frame = epoch) /\ ~ term)
    PROVE  SavesSound'
<1>1. SaveSound(NoSave)'
  BY DEF SaveSound, NoSave, Serialized
<1>2. ASSUME NEW sv, SaveSound(sv) PROVE SaveSound(sv)'
  BY <1>2 DEF SaveSound
<1>3. \A k \in Paths : SaveSound(flushing[k]) /\ (phase = "down" => flushing[k] = NoSave)
  BY Parts DEF SavesSound
<1>4. \A w \in Writers : SaveSound(writes[w]) /\ (phase = "down" => writes[w] = NoSave)
  BY Parts DEF SavesSound
<1>5. ASSUME NEW k \in Paths
      PROVE  /\ phase' = "down" => flushing'[k] = NoSave
             /\ SaveSound(flushing[k])'
  <2>1. flushing'[k] = flushing[k] \/ flushing'[k] = NoSave
    OBVIOUS
  <2>2. CASE flushing'[k] = flushing[k]
    BY <1>2, <1>3, <2>2 DEF SaveSound
  <2>3. CASE flushing'[k] = NoSave
    BY <1>1, <2>3 DEF SaveSound
  <2>4. QED
    BY <2>1, <2>2, <2>3
<1>6. ASSUME NEW w \in Writers
      PROVE  /\ phase' = "down" => writes'[w] = NoSave
             /\ SaveSound(writes[w])'
  <2>1. writes'[w] = writes[w] \/ writes'[w] = NoSave
    OBVIOUS
  <2>2. CASE writes'[w] = writes[w]
    BY <1>2, <1>4, <2>2 DEF SaveSound
  <2>3. CASE writes'[w] = NoSave
    BY <1>1, <2>3 DEF SaveSound
  <2>4. QED
    BY <2>1, <2>2, <2>3
<1>7. QED
  BY <1>5, <1>6 DEF SavesSound

\* A file left as it is, is kept as well.
LEMMA SameFile ==
    ASSUME AInv, phase # "down", UNCHANGED <<disk, behind>>
    PROVE  FileKept
<1>1. /\ disk \in Snapshots /\ behind \in BOOLEAN /\ term \in BOOLEAN
      /\ disk.term => disk.status # "none"
      /\ disk.status # "none" => epoch > 0
      /\ status = "none" => disk.status = "none"
      /\ told \/ frame = epoch => behind \/ (disk.term /\ term) \/ status = "none"
  BY Parts DEF TypeOK, EpochsCount, NothingWithoutSession, ToldIsOver
<1>2. QED
  BY <1>1 DEF FileKept

\* What the end of a save does to the parts that speak of the file, while nothing
\* else that they speak of changes.
LEMMA FileKeptKeeps ==
    ASSUME AInv, FileKept, phase # "down",
           UNCHANGED <<status, term, emitted, told, frame, epoch, signals, falsely, pipe,
                       flushing, phase>>
    PROVE  /\ ToldIsOver' /\ OneShot'
           /\ disk' \in Snapshots /\ behind' \in BOOLEAN
           /\ disk'.status # "none" => epoch > 0
           /\ disk'.term => disk'.status # "none"
           /\ status = "none" => disk'.status = "none"
<1>1. ToldIsOver'
  BY DEF FileKept, ToldIsOver
<1>2. signals = 1 => disk'.term \/ behind'
  BY Parts DEF FileKept, OneShot
<1>3. \A k \in Paths : Past(k)' <=> Past(k)
  BY DEF Past
<1>4. OneShot'
  BY Parts, <1>2, <1>3 DEF OneShot
<1>5. QED
  BY <1>1, <1>4 DEF FileKept

\* The snapshot taken as a path goes past the one-shot is sound, and says that the
\* session is over.
LEMMA EmitStartKeeps ==
    ASSUME AInv, NEW k \in Paths, NEW force \in BOOLEAN, EmitStart(k, force),
           pipe[k].st # "idle", UNCHANGED <<status, told, frame, epoch, signals, falsely>>,
           k = "stop" \/ ~ force,
           phase' = "down" => phase = "down"
    PROVE  SavesSound' /\ ToldIsOver' /\ OneShot'
<1>0. /\ pipe' \in [Paths -> [st : {"idle", "posting", "flushing"}, epoch : Nat]]
      /\ term' \in BOOLEAN /\ emitted' \in BOOLEAN /\ k \in Paths
      /\ \A j \in Paths : j # k => pipe'[j] = pipe[j] /\ flushing'[j] = flushing[j]
      /\ \/ /\ emitted /\ ~ force /\ emitted' = emitted /\ term' = term
            /\ pipe'[k].st = "idle" /\ pipe'[k].epoch = 0
            /\ flushing' = flushing
         \/ /\ ~ emitted \/ force
            /\ emitted' /\ (term' <=> status # "none")
            /\ pipe'[k].st = "flushing" /\ pipe'[k].epoch = pipe[k].epoch
            /\ flushing'[k] = Serialized(status, status # "none")
      /\ UNCHANGED <<disk, writes, behind>>
  BY Parts, EmitStartFacts
<1>1. phase # "down" /\ phase' # "down" /\ (term => status # "none") /\ term \in BOOLEAN
  BY Parts DEF NothingWithoutSession, TypeOK
<1>2. term => term'
  BY <1>0, <1>1
<1>3. ASSUME NEW sv, SaveSound(sv) PROVE SaveSound(sv)'
  BY <1>2, <1>3 DEF SaveSound
<1>4. SaveSound(Serialized(status, status # "none"))' \/ ~ (term' <=> status # "none")
  <2>1. status \in {"none", "active", "complete", "error"}
    BY Parts DEF TypeOK
  <2>2. QED
    BY <2>1 DEF SaveSound, Serialized
<1>5. SavesSound'
  <2>1. \A j \in Paths : /\ pipe[j].st = "flushing" => flushing[j] # NoSave
                         /\ SaveSound(flushing[j])
    BY Parts DEF SavesSound
  <2>2. \A w \in Writers : SaveSound(writes[w])
    BY Parts DEF SavesSound
  <2>3. Serialized(status, status # "none") # NoSave
    BY Parts DEF TypeOK, Serialized, NoSave
  <2>4. ASSUME NEW j \in Paths
        PROVE  /\ pipe'[j].st = "flushing" => flushing'[j] # NoSave
               /\ SaveSound(flushing[j])'
    <3>1. CASE flushing'[j] = flushing[j] /\ (j # k \/ pipe'[k].st = "idle")
      <4>1. SaveSound(flushing'[j]) <=> SaveSound(flushing[j])
        BY <3>1
      <4>2. pipe'[j].st = "flushing" => pipe[j].st = "flushing"
        BY <1>0, <3>1
      <4>3. QED
        BY <1>2, <2>1, <3>1, <4>2 DEF SaveSound
    <3>2. CASE /\ j = k /\ flushing'[k] = Serialized(status, status # "none")
               /\ (term' <=> status # "none")
      BY <1>4, <2>3, <3>2 DEF SaveSound
    <3>3. QED
      BY <1>0, <3>1, <3>2
  <2>5. ASSUME NEW w \in Writers PROVE SaveSound(writes[w])'
    BY <1>0, <1>2, <2>2 DEF SaveSound
  <2>6. QED
    BY <1>1, <2>4, <2>5 DEF SavesSound
<1>6. ToldIsOver'
  BY Parts, <1>0, <1>1, <1>2 DEF ToldIsOver
<1>7. OneShot'
  <2>1. \A j \in Paths : j # k => (Past(j)' <=> Past(j))
    BY <1>0 DEF Past
  <2>2. CASE pipe'[k].st = "idle" /\ UNCHANGED <<term, emitted, flushing>>
    <3>1. ~ Past(k)'
      BY <2>2 DEF Past
    <3>2. \A j \in Paths : Past(j)' => Past(j)
      BY <2>1, <3>1
    <3>3. QED
      BY Parts, <1>0, <1>1, <2>2, <3>2 DEF OneShot
  <2>3. CASE /\ emitted' /\ (term' <=> status # "none") /\ (~ emitted \/ k = "stop")
             /\ flushing'[k] = Serialized(status, status # "none")
    <3>1. signals = 1 => emitted /\ term /\ (disk.term \/ behind)
      BY Parts, <1>1 DEF OneShot
    <3>2. ASSUME NEW j \in Paths, Past(j)'
          PROVE  emitted' /\ (status = "none" \/ (term' /\ flushing'[j].term))
      <4>1. CASE j = k
        <5>1. flushing'[k].term = (status # "none")
          BY <2>3 DEF Serialized
        <5>2. status # "none" => term' /\ flushing'[k].term
          BY <2>3, <5>1
        <5>3. QED
          BY <2>3, <4>1, <5>2
      <4>2. CASE j # k
        BY Parts, <1>0, <2>1, <2>3, <3>2, <4>2 DEF OneShot
      <4>3. QED
        BY <4>1, <4>2
    <3>3. \A j \in Paths \ {"stop"} : Past(j)' => signals = 0
      BY Parts, <2>1, <2>3, <3>1 DEF OneShot
    <3>4. ~ (Past("complete")' /\ Past("fail")')
      BY Parts, <2>1, <2>3 DEF OneShot
    <3>5. signals = 1 => (disk.term \/ behind) /\ emitted' /\ term'
      BY <1>2, <2>3, <3>1
    <3>6. signals \in {0, 1} /\ ~ falsely
      BY Parts DEF OneShot
    <3>7. QED
      BY <1>0, <3>2, <3>3, <3>4, <3>5, <3>6 DEF OneShot
  <2>4. QED
    BY <1>0, <2>2, <2>3
<1>8. QED
  BY <1>5, <1>6, <1>7

\* The state file is written and the frame buffered.
LEMMA EmitDoneKeeps ==
    ASSUME AInv, SemIInv, SemIInv', NEW k \in Paths, EmitDone(k)
    PROVE  AInv'
<1>s. SemTypeOK' /\ WaitersQueued
  BY DEF SemIInv
<1>f. /\ phase # "down" /\ FileKept /\ (flushing[k].term => disk'.term \/ behind')
      /\ flushing' \in [Paths -> Snapshots \cup {NoSave}] /\ flushing'[k] = NoSave
      /\ \A j \in Paths : j # k => flushing'[j] = flushing[j]
  <2>1. /\ pipe[k].st = "flushing" /\ Flush(flushing[k], TRUE)
        /\ flushing' = [flushing EXCEPT ![k] = NoSave]
        /\ flushing \in [Paths -> Snapshots \cup {NoSave}]
    BY Parts DEF EmitDone, TypeOK
  <2>2. flushing[k] \in Snapshots /\ SaveSound(flushing[k]) /\ phase # "down"
    BY Parts, <2>1 DEF SavesSound
  <2>3. FileKept /\ (flushing[k].term => disk'.term \/ behind')
    BY <2>1, <2>2, FlushFacts
  <2>4. QED
    BY <2>1, <2>2, <2>3
<1>g. /\ pipe[k].st = "flushing" /\ pipe' = [pipe EXCEPT ![k] = Idle]
      /\ frame' = pipe[k].epoch
      /\ signals' = IF k # "stop" /\ pipe[k].epoch = epoch THEN signals + 1 ELSE signals
      /\ phase' = IF phase = "reconciling" THEN "up" ELSE phase
      /\ UNCHANGED <<status, term, emitted, stopReq, cur, results, completing, turn, pend,
                     quiet, born, asked, preparing, writes, pinned, epoch, told, falsely,
                     leaked>>
  BY DEF EmitDone
<1>h. /\ pipe \in [Paths -> [st : {"idle", "posting", "flushing"}, epoch : Nat]]
      /\ pipe' \in [Paths -> [st : {"idle", "posting", "flushing"}, epoch : Nat]]
      /\ pipe'[k] = Idle /\ \A j \in Paths : j # k => pipe'[j] = pipe[j]
  BY Parts, <1>g DEF TypeOK
<1>1. TypeOK'
  <2>1. early' \in BOOLEAN
    BY Parts DEF EmitDone, TypeOK
  <2>2. frame' \in Nat \cup {NoFrame} /\ phase' \in {"up", "down", "reconciling"}
    BY Parts, <1>g, <1>h DEF TypeOK
  <2>3. disk' \in Snapshots /\ behind' \in BOOLEAN
    BY <1>f DEF FileKept
  <2>4. QED
    BY Parts, <1>s, <1>f, <1>g, <1>h, <2>1, <2>2, <2>3 DEF TypeOK
<1>2. EpochsCount'
  BY Parts, <1>f, <1>g DEF FileKept, EpochsCount
<1>3. NotFromTheFuture'
  BY Parts DEF EmitDone, NotFromTheFuture, EpochsCount, TypeOK
<1>4. NothingWithoutSession'
  BY Parts, <1>f, <1>g, <1>h DEF FileKept, NothingWithoutSession, Alive
<1>5. SlotsForStarting'
  BY Parts DEF EmitDone, semVars, SlotsForStarting, TypeOK
<1>6. OneShot'
  <2>1. ~ Past(k)' /\ \A j \in Paths : j # k => (Past(j)' <=> Past(j))
    BY Parts, <1>g, <1>h DEF Past
  <2>2. signals \in {0, 1} /\ ~ falsely /\ (signals = 1 => emitted /\ term)
    BY Parts, <1>f DEF OneShot
  <2>3. signals = 1 => disk'.term \/ behind'
    BY Parts, <1>f DEF OneShot, FileKept
  <2>4. CASE k # "stop" /\ pipe[k].epoch = epoch
    <3>1. Past(k) /\ k \in {"complete", "fail"} /\ signals = 0 /\ signals' = 1
      BY Parts, <1>g, <2>4 DEF OneShot, Past
    <3>2. status # "none"
      BY Parts, <1>g, <3>1 DEF NothingWithoutSession
    <3>3. emitted /\ term /\ flushing[k].term
      BY Parts, <3>1, <3>2 DEF OneShot
    <3>4. \A j \in Paths \ {"stop"} : ~ Past(j)'
      BY Parts, <2>1, <3>1 DEF OneShot
    <3>5. \A j \in Paths : Past(j)' =>
             emitted /\ (status = "none" \/ (term /\ flushing'[j].term))
      BY Parts, <1>f, <2>1 DEF OneShot
    <3>6. QED
      BY Parts, <1>f, <1>g, <2>2, <3>1, <3>3, <3>4, <3>5 DEF OneShot
  <2>5. CASE ~ (k # "stop" /\ pipe[k].epoch = epoch)
    <3>1. signals' = signals
      BY <1>g, <2>5
    <3>2. \A j \in Paths : Past(j)' =>
             emitted /\ (status = "none" \/ (term /\ flushing'[j].term))
      BY Parts, <1>f, <2>1 DEF OneShot
    <3>3. \A j \in Paths : Past(j)' => Past(j)
      BY <2>1
    <3>4. QED
      BY Parts, <1>g, <2>2, <2>3, <3>1, <3>2, <3>3 DEF OneShot
  <2>6. QED
    BY <2>4, <2>5
<1>t. frame' = epoch => status = "none" \/ (term /\ flushing[k].term)
  BY Parts, <1>g DEF OneShot, Past
<1>7. ToldIsOver'
  BY <1>f, <1>g, <1>t DEF FileKept, ToldIsOver
<1>8. ResultsAreOfTurns'
  BY Parts DEF EmitDone, ResultsAreOfTurns, Past, Working, TypeOK
<1>9. SavesSound'
  <2>1. \A j \in Paths : pipe'[j].st = "flushing" => flushing'[j] # NoSave
    BY Parts, <1>f, <1>h DEF SavesSound
  <2>2. \A j \in Paths : flushing'[j] \in {flushing[j], NoSave}
    BY <1>f
  <2>3. phase' # "down"
    BY <1>f, <1>g
  <2>4. term \in BOOLEAN
    BY Parts DEF TypeOK
  <2>5. QED
    BY <1>g, <1>t, <2>1, <2>2, <2>3, <2>4, SavesStaySound
<1>10. HeldForWork'
  BY Parts DEF EmitDone, HeldForWork, TypeOK
<1>11. QED
  BY <1>1, <1>2, <1>3, <1>4, <1>5, <1>6, <1>7, <1>8, <1>9, <1>10 DEF AInv

\* A stop or a failure goes from its activity to the signal.
LEMMA PostedKeeps ==
    ASSUME AInv, SemIInv, SemIInv', NEW k \in Paths, Posted(k)
    PROVE  AInv'
<1>s. SemTypeOK' /\ WaitersQueued
  BY DEF SemIInv
<1>a. /\ k # "complete" /\ pipe[k].st = "posting"
      /\ phase' = IF phase = "reconciling" /\ pipe'[k].st = "idle" THEN "up" ELSE phase
      /\ UNCHANGED <<status, stopReq, cur, results, completing, turn, pend, quiet, born,
                     asked, preparing, frame, pinned, epoch, told, signals, falsely,
                     early, leaked>>
  BY DEF Posted
<1>e. (k = "stop") \in BOOLEAN /\ EmitStart(k, k = "stop")
  BY DEF Posted
<1>0. /\ pipe' \in [Paths -> [st : {"idle", "posting", "flushing"}, epoch : Nat]]
      /\ term' \in BOOLEAN /\ emitted' \in BOOLEAN
      /\ flushing' \in [Paths -> Snapshots \cup {NoSave}]
      /\ UNCHANGED <<disk, writes, behind>>
      /\ \A j \in Paths : j # k => pipe'[j] = pipe[j]
      /\ \/ /\ UNCHANGED <<term, emitted>>
            /\ pipe'[k].st = "idle" /\ pipe'[k].epoch = 0
         \/ /\ ~ emitted \/ k = "stop"
            /\ emitted' /\ (term' <=> status # "none")
            /\ pipe'[k].st = "flushing" /\ pipe'[k].epoch = pipe[k].epoch
  BY Parts, <1>e, EmitStartFacts
<1>b. SavesSound' /\ ToldIsOver' /\ OneShot'
  BY <1>a, <1>e, EmitStartKeeps
<1>1. TypeOK'
  BY Parts, <1>s, <1>0, <1>a DEF TypeOK
<1>2. EpochsCount'
  BY Parts, <1>0, <1>a DEF EpochsCount
<1>3. NotFromTheFuture'
  <2>1. \A j \in Paths : pipe[j].epoch \in Nat /\ pipe[j].epoch <= epoch /\ epoch \in Nat
    BY Parts DEF NotFromTheFuture, EpochsCount
  <2>2. \A j \in Paths : pipe'[j].epoch = pipe[j].epoch \/ pipe'[j].epoch = 0
    BY <1>0
  <2>3. \A j \in Paths : pipe'[j].epoch \in Nat /\ pipe'[j].epoch <= epoch
    BY <2>1, <2>2
  <2>4. QED
    BY Parts, <1>a, <2>3 DEF NotFromTheFuture
<1>4. NothingWithoutSession'
  BY Parts, <1>0, <1>a DEF NothingWithoutSession, Alive, TypeOK
<1>5. SlotsForStarting'
  BY Parts DEF Posted, semVars, SlotsForStarting, TypeOK
<1>8. ResultsAreOfTurns'
  BY Parts, <1>0, <1>a DEF ResultsAreOfTurns, Past, Working, TypeOK
<1>10. HeldForWork'
  BY Parts DEF Posted, HeldForWork, TypeOK
<1>11. QED
  BY <1>1, <1>2, <1>3, <1>4, <1>5, <1>8, <1>10, <1>b DEF AInv

\* completeSession takes up a result.
LEMMA CompleteStartKeeps ==
    ASSUME AInv, SemIInv, SemIInv', CompleteStart
    PROVE  AInv'
<1>s. SemTypeOK' /\ WaitersQueued
  BY DEF SemIInv
<1> DEFINE h == Head(results)
<1>0. status # "none" /\ results # <<>> /\ completing = NoResult
  BY Parts DEF CompleteStart, NothingWithoutSession
<1>a. /\ results \in Seq([sub : {"success", "error"}, epoch : Nat])
      /\ Len(results) \in Nat /\ 1 \in 1..Len(results)
      /\ pipe \in [Paths -> [st : {"idle", "posting", "flushing"}, epoch : Nat]]
      /\ stopReq \in BOOLEAN
  BY Parts, <1>0 DEF TypeOK
<1>b. /\ results' = Tail(results) /\ results' \in Seq([sub : {"success", "error"}, epoch : Nat])
      /\ Len(results') = Len(results) - 1
      /\ \A i \in 1..(Len(results) - 1) : results'[i] = results[i + 1]
      /\ h = results[1] /\ h.sub \in {"success", "error"} /\ h.epoch \in Nat
  <2>1. results' = Tail(results)
    BY DEF CompleteStart
  <2>2. h \in [sub : {"success", "error"}, epoch : Nat] /\ h = results[1]
    BY <1>0, <1>a, HeadType
  <2>3. QED
    BY <1>0, <1>a, <2>1, <2>2
<1>c. /\ completing' = [sub |-> h.sub, stop |-> stopReq]
      /\ pipe' = [pipe EXCEPT !["complete"] = [st |-> "posting", epoch |-> h.epoch]]
      /\ status' \in {"complete", "error"}
      /\ UNCHANGED <<term, emitted, cur, turn, pend, quiet, born, asked, preparing, phase, disk,
                     flushing, writes, behind, frame, pinned,
                     epoch, told, signals, falsely, early, leaked>>
  BY <1>0 DEF CompleteStart
<1> HIDE DEF h
<1>d. /\ pipe' \in [Paths -> [st : {"idle", "posting", "flushing"}, epoch : Nat]]
      /\ \A j \in Paths : j # "complete" => pipe'[j] = pipe[j]
      /\ pipe'["complete"].st = "posting" /\ pipe'["complete"].epoch = h.epoch
  BY Parts, <1>a, <1>b, <1>c
<1>e. \A i \in 1..Len(results') : i + 1 \in 1..Len(results) /\ results'[i] = results[i + 1]
  BY <1>a, <1>b
<1>1. TypeOK'
  <2>1. completing' \in [sub : {"none", "success", "error"}, stop : BOOLEAN]
    BY <1>a, <1>b, <1>c
  <2>2. stopReq' \in BOOLEAN
    BY <1>0 DEF CompleteStart
  <2>3. QED
    BY Parts, <1>s, <1>b, <1>c, <1>d, <2>1, <2>2 DEF TypeOK
<1>2. EpochsCount'
  BY Parts DEF CompleteStart, EpochsCount, TypeOK
<1>3. NotFromTheFuture'
  BY Parts, <1>a, <1>b, <1>c, <1>d, <1>e DEF NotFromTheFuture, TypeOK
<1>4. NothingWithoutSession'
  BY Parts, <1>0, <1>c, <1>d DEF NothingWithoutSession, Alive, TypeOK
<1>5. SlotsForStarting'
  BY Parts DEF CompleteStart, semVars, SlotsForStarting, TypeOK
<1>6. OneShot'
  BY Parts, <1>0, <1>c, <1>d DEF OneShot, Past, TypeOK
<1>7. ToldIsOver'
  BY Parts DEF CompleteStart, ToldIsOver, TypeOK
<1>8. ResultsAreOfTurns'
  <2>1. cur # 0 /\ h.epoch = epoch =>
          /\ turn[cur] \notin {"attached", "starting", "open"}
          /\ h.sub # "success" => ~ Working(cur)
    BY Parts, <1>a, <1>b DEF ResultsAreOfTurns
  <2>2. completing'.sub = h.sub /\ Working(cur)' = Working(cur)
    BY <1>c DEF Working
  <2>3. \A i \in 1..Len(results') : cur' # 0 /\ results'[i].epoch = epoch' =>
          /\ turn'[cur'] \notin {"attached", "starting", "open"}
          /\ results'[i].sub # "success" => ~ Working(cur)'
    BY Parts, <1>c, <1>e, <2>2 DEF ResultsAreOfTurns
  <2>4. QED
    BY Parts, <1>b, <1>c, <1>d, <2>1, <2>2, <2>3 DEF ResultsAreOfTurns, Past
<1>9. SavesSound'
  <2>1. \A j \in Paths : pipe'[j].st = "flushing" => flushing'[j] # NoSave
    BY Parts, <1>c, <1>d DEF SavesSound
  <2>2. QED
    BY Parts, <1>0, <1>c, <2>1, SavesStaySound DEF TypeOK
<1>10. HeldForWork'
  BY Parts DEF CompleteStart, HeldForWork, TypeOK
<1>11. QED
  BY <1>1, <1>2, <1>3, <1>4, <1>5, <1>6, <1>7, <1>8, <1>9, <1>10 DEF AInv

\* completeSession withholds the signal for pending work, or goes on to it.
LEMMA CompletePostedKeeps ==
    ASSUME AInv, SemIInv, SemIInv', CompletePosted
    PROVE  AInv'
<1>s. SemTypeOK' /\ WaitersQueued
  BY DEF SemIInv
<1>a. /\ pipe["complete"].st = "posting"
      /\ UNCHANGED <<status, stopReq, cur, results, completing, turn, pend, quiet, born,
                     asked, preparing, phase, frame, pinned, epoch, told, signals, falsely,
                     early, leaked>>
  BY DEF CompletePosted
<1>0. /\ pipe' \in [Paths -> [st : {"idle", "posting", "flushing"}, epoch : Nat]]
      /\ term' \in BOOLEAN /\ emitted' \in BOOLEAN
      /\ flushing' \in [Paths -> Snapshots \cup {NoSave}]
      /\ UNCHANGED <<disk, writes, behind>>
      /\ \A j \in Paths : j # "complete" => pipe'[j] = pipe[j]
      /\ \/ /\ pipe'["complete"].st = "idle" /\ pipe'["complete"].epoch = 0
            /\ UNCHANGED <<term, emitted>>
         \/ /\ ~ Defers /\ ~ emitted /\ emitted' /\ (term' <=> status # "none")
            /\ pipe'["complete"].st = "flushing"
            /\ pipe'["complete"].epoch = pipe["complete"].epoch
  <2>1. /\ pipe \in [Paths -> [st : {"idle", "posting", "flushing"}, epoch : Nat]] /\ TypeOK
        /\ term \in BOOLEAN /\ emitted \in BOOLEAN /\ "complete" \in Paths
    BY Parts DEF TypeOK
  <2>2. CASE Defers
    <3>1. /\ pipe' = [pipe EXCEPT !["complete"] = Idle]
          /\ UNCHANGED <<term, emitted, disk, flushing, writes, behind>>
      BY <2>2 DEF CompletePosted
    <3>2. /\ pipe' \in [Paths -> [st : {"idle", "posting", "flushing"}, epoch : Nat]]
          /\ \A j \in Paths : j # "complete" => pipe'[j] = pipe[j]
          /\ pipe'["complete"].st = "idle" /\ pipe'["complete"].epoch = 0
      BY <2>1, <3>1 DEF Idle
    <3>3. flushing' \in [Paths -> Snapshots \cup {NoSave}]
      BY Parts, <3>1 DEF TypeOK
    <3>4. QED
      BY <2>1, <3>1, <3>2, <3>3
  <2>3. CASE ~ Defers
    <3>1. EmitStart("complete", FALSE)
      BY <2>3 DEF CompletePosted
    <3>2. QED
      BY <2>1, <2>3, <3>1, EmitStartFacts
  <2>4. QED
    BY <2>2, <2>3
<1>b. SavesSound' /\ ToldIsOver' /\ OneShot'
  <2>1. CASE Defers
    <3>1. pipe' = [pipe EXCEPT !["complete"] = Idle] /\ UNCHANGED <<term, emitted, fileVars>>
      BY <2>1 DEF CompletePosted
    <3>2. /\ phase # "down" /\ pipe'["complete"].st = "idle"
          /\ \A k \in Paths : pipe'[k].st = "flushing" => pipe[k] = pipe'[k]
      BY Parts, <1>a, <1>0, <3>1 DEF NothingWithoutSession, TypeOK
    <3>3. \A k \in Paths : pipe'[k].st = "flushing" => flushing'[k] # NoSave
      BY Parts, <3>1, <3>2 DEF SavesSound
    <3>4. SavesSound'
      BY Parts, <1>a, <3>1, <3>3, SavesStaySound DEF TypeOK
    <3>5. \A k \in Paths : Past(k)' => Past(k)
      BY <1>a, <3>2 DEF Past
    <3>6. OneShot'
      BY Parts, <1>a, <3>1, <3>5 DEF OneShot
    <3>7. ToldIsOver'
      BY Parts, <1>a, <3>1 DEF ToldIsOver
    <3>8. QED
      BY <3>4, <3>6, <3>7
  <2>2. CASE ~ Defers
    <3>1. EmitStart("complete", FALSE) /\ "complete" \in Paths
      BY Parts, <2>2 DEF CompletePosted
    <3>2. QED
      BY <1>a, <3>1, EmitStartKeeps
  <2>3. QED
    BY <2>1, <2>2
<1>1. TypeOK'
  BY Parts, <1>s, <1>0, <1>a DEF TypeOK
<1>2. EpochsCount'
  BY Parts, <1>0, <1>a DEF EpochsCount
<1>3. NotFromTheFuture'
  <2>1. \A j \in Paths : pipe[j].epoch \in Nat /\ pipe[j].epoch <= epoch /\ epoch \in Nat
    BY Parts DEF NotFromTheFuture, EpochsCount
  <2>2. \A j \in Paths : pipe'[j].epoch = pipe[j].epoch \/ pipe'[j].epoch = 0
    BY <1>0
  <2>3. \A j \in Paths : pipe'[j].epoch \in Nat /\ pipe'[j].epoch <= epoch
    BY <2>1, <2>2
  <2>4. QED
    BY Parts, <1>a, <2>3 DEF NotFromTheFuture
<1>4. NothingWithoutSession'
  BY Parts, <1>0, <1>a DEF NothingWithoutSession, Alive, TypeOK
<1>5. SlotsForStarting'
  BY Parts DEF CompletePosted, semVars, SlotsForStarting, TypeOK
<1>8. ResultsAreOfTurns'
  <2>1. Working(cur)' = Working(cur)
    BY <1>a DEF Working
  <2>2. /\ ~ Defers /\ pipe["complete"].epoch = epoch =>
              completing.stop \/ cur = 0 \/ ~ Working(cur) \/ cur \in quiet
    <3>1. SUFFICES ASSUME ~ Defers, pipe["complete"].epoch = epoch, ~ completing.stop,
                          cur # 0, Working(cur)
                   PROVE  cur \in quiet
      OBVIOUS
    <3>2. completing.sub = "success" /\ turn[cur] \in {"held", "woken"} /\ cur \in Starts
      BY Parts, <1>a, <3>1 DEF ResultsAreOfTurns, Working, TypeOK
    <3>3. pend[cur] = {}
      BY <3>1, <3>2 DEF Defers, PendingWork
    <3>4. QED
      BY Parts, <3>2, <3>3 DEF HeldForWork
  <2>3. Past("complete")' =>
            completing.stop \/ cur = 0 \/ ~ Working(cur) \/ cur \in quiet
    BY <1>0, <1>a, <2>2 DEF Past
  <2>4. QED
    BY Parts, <1>0, <1>a, <2>1, <2>3 DEF ResultsAreOfTurns
<1>10. HeldForWork'
  BY Parts DEF CompletePosted, HeldForWork, TypeOK
<1>11. QED
  BY <1>1, <1>2, <1>3, <1>4, <1>5, <1>8, <1>10, <1>b DEF AInv

\* completeSession returns.
LEMMA CompleteEndKeeps ==
    ASSUME AInv, SemIInv, SemIInv', CompleteEnd
    PROVE  AInv'
<1>s. SemTypeOK' /\ WaitersQueued
  BY DEF SemIInv
<1>1. TypeOK'
  BY Parts, <1>s DEF CompleteEnd, NoResult, TypeOK
<1>2. EpochsCount'
  BY Parts DEF CompleteEnd, EpochsCount, TypeOK
<1>3. NotFromTheFuture'
  BY Parts DEF CompleteEnd, NotFromTheFuture, TypeOK
<1>4. NothingWithoutSession'
  BY Parts DEF CompleteEnd, NothingWithoutSession, Alive, TypeOK
<1>5. SlotsForStarting'
  BY Parts DEF CompleteEnd, semVars, SlotsForStarting, TypeOK
<1>6. OneShot'
  BY Parts DEF CompleteEnd, OneShot, Past, TypeOK
<1>7. ToldIsOver'
  BY Parts DEF CompleteEnd, ToldIsOver, TypeOK
<1>8. ResultsAreOfTurns'
  BY Parts DEF CompleteEnd, ResultsAreOfTurns, Past, Working, TypeOK
<1>9. SavesSound'
  BY Parts DEF CompleteEnd, SavesSound, SaveSound, TypeOK
<1>10. HeldForWork'
  BY Parts DEF CompleteEnd, HeldForWork, TypeOK
<1>11. QED
  BY <1>1, <1>2, <1>3, <1>4, <1>5, <1>6, <1>7, <1>8, <1>9, <1>10 DEF AInv

\* A prompt arrives, and may create the session.
LEMMA PromptArrivesKeeps ==
    ASSUME AInv, SemIInv, SemIInv', PromptArrives
    PROVE  AInv'
<1>s. SemTypeOK' /\ WaitersQueued
  BY DEF SemIInv
<1>a. /\ told' = FALSE
      /\ UNCHANGED <<emitted, stopReq, cur, results, completing, pipe, turn, pend, quiet, born,
                     preparing, phase, disk, flushing, frame, falsely, early, leaked>>
      /\ phase = "up"
  BY DEF PromptArrives
<1>b. \/ /\ status = "none" /\ status' = "active" /\ term' = FALSE
         /\ epoch' = epoch + 1 /\ signals' = 0 /\ behind' = FALSE
         /\ writes' = [writes EXCEPT ![Creation] = Serialized("active", FALSE)]
      \/ /\ status # "none"
         /\ UNCHANGED <<status, term, epoch, signals, behind, writes>>
  BY DEF PromptArrives
<1>c. /\ epoch \in Nat /\ epoch' \in Nat /\ epoch <= epoch'
      /\ \A k \in Paths : pipe[k].epoch \in Nat /\ pipe[k].epoch <= epoch
      /\ frame \in Int /\ frame <= epoch
  <2>1. /\ epoch \in Nat
        /\ \A k \in Paths : pipe[k].epoch \in Nat /\ pipe[k].epoch <= epoch
        /\ frame \in Int /\ frame <= epoch
    BY Parts DEF EpochsCount, NotFromTheFuture
  <2>2. epoch' = epoch + 1 \/ epoch' = epoch
    BY <1>b
  <2>3. QED
    BY <2>1, <2>2
<1>1. TypeOK'
  <2>1. term' \in BOOLEAN
    BY Parts DEF PromptArrives, TypeOK
  <2>2. pinned' \in BOOLEAN
    BY Parts DEF PromptArrives, TypeOK
  <2>3. told' \in BOOLEAN
    BY Parts DEF PromptArrives, TypeOK
  <2>4. status' \in {"none", "active", "complete", "error"}
    BY Parts DEF PromptArrives, TypeOK
  <2>5. Serialized("active", FALSE) \in Snapshots
    BY DEF Serialized, Snapshots
  <2>6. writes' = writes \/ writes' = [writes EXCEPT ![Creation] = Serialized("active", FALSE)]
    BY <1>b
  <2>7. writes' \in [Writers -> Snapshots \cup {NoSave}]
    BY Parts, <2>5, <2>6 DEF TypeOK
  <2>b. behind' \in BOOLEAN
    BY Parts DEF PromptArrives, TypeOK
  <2>8. asked' \in Nat
    BY Parts DEF PromptArrives, TypeOK
  <2>9. QED
    BY Parts, <1>s, <1>a, <2>1, <2>2, <2>3, <2>4, <2>7, <2>8, <2>b DEF TypeOK
<1>2. EpochsCount'
  <2>1. epoch' > 0
    <3>1. CASE status = "none"
      BY <1>b, <1>c, <3>1
    <3>2. CASE status # "none"
      BY Parts, <1>b, <3>2 DEF EpochsCount
    <3>3. QED
      BY <3>1, <3>2
  <2>2. /\ \A r \in Starts : turn[r] # "none" => 0 < born[r] /\ born[r] <= epoch'
        /\ born \in [Starts -> Nat]
    BY Parts, <1>b, <1>c DEF EpochsCount, TypeOK
  <2>3. cur # 0 => cur \in Starts /\ turn[cur] # "none" /\ born[cur] = epoch'
    BY Parts, <1>b DEF EpochsCount, NothingWithoutSession
  <2>4. QED
    BY Parts, <1>a, <1>c, <2>1, <2>2, <2>3 DEF EpochsCount
<1>3. NotFromTheFuture'
  BY Parts, <1>a, <1>c DEF NotFromTheFuture
<1>4. NothingWithoutSession'
  BY Parts DEF PromptArrives, NothingWithoutSession, Alive, TypeOK
<1>5. SlotsForStarting'
  BY Parts DEF PromptArrives, semVars, SlotsForStarting, TypeOK
<1>6. OneShot'
  <2>1. CASE status = "none"
    <3>1. \A k \in Paths : ~ Past(k)'
      BY <1>a, <1>b, <1>c, <2>1 DEF Past
    <3>2. signals' = 0 /\ ~ falsely'
      BY Parts, <1>a, <1>b, <2>1 DEF OneShot
    <3>3. QED
      BY Parts, <3>1, <3>2 DEF OneShot
  <2>2. CASE status # "none"
    <3>1. \A k \in Paths : Past(k)' <=> Past(k)
      BY <1>a, <1>b, <2>2 DEF Past
    <3>2. QED
      BY Parts, <1>a, <1>b, <2>2, <3>1 DEF OneShot
  <2>3. QED
    BY <2>1, <2>2
<1>7. ToldIsOver'
  <2>1. CASE status = "none"
    <3>1. ~ told' /\ frame' # epoch'
      BY <1>a, <1>b, <1>c, <2>1
    <3>2. QED
      BY <3>1 DEF ToldIsOver
  <2>2. CASE status # "none"
    BY Parts, <1>a, <1>b, <2>2 DEF ToldIsOver
  <2>3. QED
    BY <2>1, <2>2
<1>8. ResultsAreOfTurns'
  BY Parts DEF PromptArrives, ResultsAreOfTurns, Past, Working, NothingWithoutSession, TypeOK
<1>9. SavesSound'
  <2>1. CASE status = "none"
    <3>1. ~ (told' \/ frame' = epoch')
      BY <1>a, <1>b, <1>c, <2>1
    <3>2. ASSUME NEW sv, SaveSound(sv) PROVE ~ sv.term
      BY <2>1, <3>2 DEF SaveSound
    <3>3. \A k \in Paths : /\ pipe[k].st = "flushing" => flushing[k] # NoSave
                           /\ ~ flushing[k].term
      BY Parts, <3>2 DEF SavesSound
    <3>4. \A w \in Writers : ~ writes[w].term
      BY Parts, <3>2 DEF SavesSound
    <3>5. \A w \in Writers : writes'[w] = writes[w] \/ ~ writes'[w].term
      BY Parts, <1>b, <2>1 DEF Serialized, TypeOK
    <3>6. status' = "active" /\ phase' = "up"
      BY <1>a, <1>b, <2>1
    <3>7. QED
      BY <1>a, <3>1, <3>3, <3>4, <3>5, <3>6 DEF SavesSound, SaveSound
  <2>2. CASE status # "none"
    <3>1. \A k \in Paths : pipe'[k].st = "flushing" => flushing'[k] # NoSave
      BY Parts, <1>a DEF SavesSound
    <3>2. status # "none" /\ (told' \/ frame' = epoch') =>
             term' \/ ((told \/ frame = epoch) /\ ~ term)
      BY <1>a, <1>b, <2>2
    <3>3. QED
      BY <1>a, <1>b, <2>2, <3>1, <3>2, SavesStaySound
  <2>3. QED
    BY <2>1, <2>2
<1>10. HeldForWork'
  BY Parts DEF PromptArrives, HeldForWork, TypeOK
<1>11. QED
  BY <1>1, <1>2, <1>3, <1>4, <1>5, <1>6, <1>7, <1>8, <1>9, <1>10 DEF AInv

\* A prompt finds a runner that takes it, or none.
LEMMA PromptChecksKeeps ==
    ASSUME AInv, SemIInv, SemIInv', PromptChecks
    PROVE  AInv'
<1>s. SemTypeOK' /\ WaitersQueued
  BY DEF SemIInv
<1>a. /\ asked > 0 /\ asked' = asked - 1
      /\ UNCHANGED <<status, term, emitted, cur, results, completing, pipe, pend, quiet, born,
                     phase, flushing, frame, pinned, epoch, told, signals, falsely, early,
                     leaked>>
      /\ SaveEnds(Creation) \/ UNCHANGED <<disk, writes, behind>>
  BY DEF PromptChecks
<1>b. phase # "down" /\ Creation \in Writers
  BY Parts, <1>a DEF NothingWithoutSession, Writers, TypeOK
<1>c. /\ FileKept
      /\ writes' \in [Writers -> Snapshots \cup {NoSave}]
      /\ \A w \in Writers : writes'[w] \in {writes[w], NoSave}
  <2>1. CASE SaveEnds(Creation)
    BY <1>b, <2>1, SaveEndsFacts
  <2>2. CASE UNCHANGED <<disk, writes, behind>>
    BY Parts, <1>b, <2>2, SameFile DEF TypeOK
  <2>3. QED
    BY <1>a, <2>1, <2>2
<1>d. /\ ToldIsOver' /\ OneShot'
      /\ disk' \in Snapshots /\ behind' \in BOOLEAN
      /\ disk'.status # "none" => epoch > 0
      /\ disk'.term => disk'.status # "none"
      /\ status = "none" => disk'.status = "none"
  BY <1>a, <1>b, <1>c, FileKeptKeeps
<1>e. /\ turn' \in [Starts -> Turns]
      /\ \A q \in Starts : \/ turn'[q] = turn[q]
                           \/ /\ q = cur /\ turn[q] = "held" /\ turn'[q] = "woken"
                           \/ turn[q] = "closing" /\ turn'[q] = "killed"
  <2>1. turn \in [Starts -> Turns] /\ cur \in Starts \cup {0}
    BY Parts DEF TypeOK
  <2>2. CASE Streaming(cur)
    <3>1. turn' = [turn EXCEPT ![cur] = IF @ = "held" THEN "woken" ELSE @]
      BY <2>2 DEF PromptChecks
    <3>2. QED
      BY <2>1, <3>1 DEF Turns
  <2>3. CASE ~ Streaming(cur)
    <3>1. StopRunner
      BY <2>3 DEF PromptChecks
    <3>2. QED
      BY <2>1, <2>3, <3>1 DEF StopRunner, Streaming, Turns
  <2>4. QED
    BY <2>2, <2>3
<1>1. TypeOK'
  <2>1. stopReq' \in BOOLEAN
    BY Parts DEF PromptChecks, TypeOK
  <2>2. asked' \in Nat /\ preparing' \in Nat
    BY Parts DEF PromptChecks, TypeOK
  <2>3. QED
    BY Parts, <1>s, <1>a, <1>c, <1>d, <1>e, <2>1, <2>2 DEF TypeOK
<1>2. EpochsCount'
  BY Parts, <1>a, <1>d, <1>e DEF EpochsCount, TypeOK
<1>3. NotFromTheFuture'
  BY Parts DEF PromptChecks, NotFromTheFuture, TypeOK
<1>4. NothingWithoutSession'
  <2>1. \A q \in Starts : (turn'[q] \in {"none", "over"}) <=> (turn[q] \in {"none", "over"})
    BY <1>e
  <2>2. status # "none" /\ phase # "reconciling" /\ phase # "down"
    BY Parts, <1>a DEF NothingWithoutSession, TypeOK
  <2>3. QED
    BY Parts, <1>a, <1>d, <2>1, <2>2 DEF NothingWithoutSession, Alive
<1>5. SlotsForStarting'
  <2>1. pc' = pc
    BY DEF PromptChecks, semVars
  <2>2. QED
    BY Parts, <1>e, <2>1 DEF SlotsForStarting
<1>8. ResultsAreOfTurns'
  <2>1. ASSUME cur # 0
        PROVE  /\ Working(cur)' <=> Working(cur)
               /\ turn'[cur] \in {"attached", "starting", "open"}
                    => turn[cur] \in {"attached", "starting", "open"}
    <3>1. cur \in Starts /\ cur' = cur
      BY Parts, <1>a, <2>1 DEF TypeOK
    <3>2. \/ turn'[cur] = turn[cur]
          \/ turn[cur] = "held" /\ turn'[cur] = "woken"
          \/ turn[cur] = "closing" /\ turn'[cur] = "killed"
      BY <1>e, <3>1
    <3>3. QED
      BY <3>1, <3>2 DEF Working
  <2>2. QED
    BY Parts, <1>a, <2>1 DEF ResultsAreOfTurns, Past
<1>9. SavesSound'
  <2>1. \A k \in Paths : pipe'[k].st = "flushing" => flushing'[k] # NoSave
    BY Parts, <1>a DEF SavesSound
  <2>2. term \in BOOLEAN
    BY Parts DEF TypeOK
  <2>3. QED
    BY <1>a, <1>b, <1>c, <2>1, <2>2, SavesStaySound
<1>10. HeldForWork'
  BY Parts, <1>a, <1>e DEF HeldForWork
<1>11. QED
  BY <1>1, <1>2, <1>3, <1>4, <1>5, <1>8, <1>9, <1>10, <1>d DEF AInv

\* A prompt ends before it has a runner.
LEMMA PromptFailsKeeps ==
    ASSUME AInv, SemIInv, SemIInv', PromptFails
    PROVE  AInv'
<1>s. SemTypeOK' /\ WaitersQueued
  BY DEF SemIInv
<1>1. TypeOK'
  BY Parts, <1>s DEF PromptFails, TypeOK
<1>2. EpochsCount'
  BY Parts DEF PromptFails, EpochsCount, TypeOK
<1>3. NotFromTheFuture'
  BY Parts DEF PromptFails, NotFromTheFuture, TypeOK
<1>4. NothingWithoutSession'
  BY Parts DEF PromptFails, NothingWithoutSession, Alive, TypeOK
<1>5. SlotsForStarting'
  BY Parts DEF PromptFails, semVars, SlotsForStarting, TypeOK
<1>6. OneShot'
  BY Parts DEF PromptFails, OneShot, Past, TypeOK
<1>7. ToldIsOver'
  BY Parts DEF PromptFails, ToldIsOver, TypeOK
<1>8. ResultsAreOfTurns'
  BY Parts DEF PromptFails, ResultsAreOfTurns, Past, Working, TypeOK
<1>9. SavesSound'
  BY Parts DEF PromptFails, SavesSound, SaveSound, TypeOK
<1>10. HeldForWork'
  BY Parts DEF PromptFails, HeldForWork, TypeOK
<1>11. QED
  BY <1>1, <1>2, <1>3, <1>4, <1>5, <1>6, <1>7, <1>8, <1>9, <1>10 DEF AInv

\* A runner is attached: a new epoch, which no path in flight is of.
LEMMA AttachRunnerKeeps ==
    ASSUME AInv, SemIInv, SemIInv', NEW r \in Starts, AttachRunner(r)
    PROVE  AInv'
<1>s. SemTypeOK' /\ WaitersQueued
  BY DEF SemIInv
<1>1. TypeOK'
  <2>1. term' \in BOOLEAN
    BY Parts DEF AttachRunner, Rearm, TypeOK
  <2>2. emitted' \in BOOLEAN
    BY Parts DEF AttachRunner, Rearm, TypeOK
  <2>3. told' \in BOOLEAN
    BY Parts DEF AttachRunner, TypeOK
  <2>4. status' \in {"none", "active", "complete", "error"}
    BY Parts DEF AttachRunner, Rearm, TypeOK
  <2>5. writes' \in [Writers -> Snapshots \cup {NoSave}]
    <3>1. Serialized(status', FALSE) \in Snapshots
      BY <2>4 DEF Serialized, Snapshots
    <3>2. writes' = [writes EXCEPT ![r] = Serialized(status', FALSE)]
      BY DEF AttachRunner
    <3>3. QED
      BY <3>1, <3>2, Parts DEF TypeOK
  <2>6. turn' \in [Starts -> Turns]
    BY Parts DEF AttachRunner, TypeOK, Turns
  <2>7. cur' \in Starts \cup {0} /\ frame' \in Nat \cup {NoFrame} /\ preparing' \in Nat
    BY Parts DEF AttachRunner, TypeOK
  <2>8. born' \in [Starts -> Nat] /\ behind' \in BOOLEAN
    <3>1. born' = [born EXCEPT ![r] = epoch + 1] /\ behind' = FALSE
      BY DEF AttachRunner
    <3>2. born \in [Starts -> Nat] /\ epoch + 1 \in Nat
      BY Parts DEF EpochsCount, TypeOK
    <3>3. QED
      BY <3>1, <3>2
  <2>9. UNCHANGED <<stopReq, results, completing, pipe, pend, quiet, asked, phase, disk, flushing,
                    pinned, falsely, early, leaked>>
    BY DEF AttachRunner
  <2>10. QED
    BY Parts, <1>s, <2>1, <2>2, <2>3, <2>4, <2>5, <2>6, <2>7, <2>8, <2>9 DEF TypeOK
<1>2. EpochsCount'
  <2>1. /\ preparing > 0 /\ turn[r] = "none" /\ turn' = [turn EXCEPT ![r] = "attached"]
        /\ cur' = r /\ epoch' = epoch + 1 /\ born' = [born EXCEPT ![r] = epoch + 1]
    BY DEF AttachRunner
  <2>2. /\ epoch \in Nat /\ turn \in [Starts -> Turns] /\ born \in [Starts -> Nat]
        /\ \A q \in Starts : turn[q] # "none" => 0 < born[q] /\ born[q] <= epoch
        /\ \A p, q \in Starts :
              turn[p] # "none" /\ turn[q] # "none" /\ born[p] = born[q] => p = q
    BY Parts DEF EpochsCount, TypeOK
  <2>3. epoch' \in Nat /\ epoch' > 0 /\ turn'[r] # "none" /\ born'[r] = epoch'
    BY <2>1, <2>2
  <2>4. \A q \in Starts : turn'[q] # "none" =>
           /\ 0 < born'[q] /\ born'[q] <= epoch'
           /\ q # r => turn[q] # "none" /\ born'[q] = born[q] /\ born[q] <= epoch
    BY <2>1, <2>2
  <2>5. \A p, q \in Starts :
           turn'[p] # "none" /\ turn'[q] # "none" /\ born'[p] = born'[q] => p = q
    BY <2>1, <2>2, <2>3, <2>4
  <2>6. QED
    BY <2>1, <2>3, <2>4, <2>5 DEF EpochsCount
<1>3. NotFromTheFuture'
  BY Parts DEF AttachRunner, NoFrame, NotFromTheFuture, EpochsCount, TypeOK
<1>4. NothingWithoutSession'
  BY Parts DEF AttachRunner, Rearm, NothingWithoutSession, TypeOK
<1>5. SlotsForStarting'
  BY Parts DEF AttachRunner, semVars, SlotsForStarting, TypeOK
<1>6. OneShot'
  BY Parts DEF AttachRunner, OneShot, Past, NotFromTheFuture, EpochsCount, TypeOK
<1>7. ToldIsOver'
  BY Parts DEF AttachRunner, NoFrame, ToldIsOver, EpochsCount, TypeOK
<1>8. ResultsAreOfTurns'
  BY Parts, <1>s
     DEF AttachRunner, Rearm, NoFrame, ResultsAreOfTurns, Past, NotFromTheFuture, EpochsCount,
        TypeOK
<1>9. SavesSound'
  <2>1. /\ status # "none" /\ phase # "down" /\ told' = FALSE /\ frame' = NoFrame
        /\ epoch \in Nat /\ epoch' = epoch + 1 /\ status' # "none"
        /\ writes' = [writes EXCEPT ![r] = Serialized(status', FALSE)]
        /\ UNCHANGED <<flushing, pipe, phase>>
    BY Parts DEF AttachRunner, Rearm, NothingWithoutSession, EpochsCount, TypeOK
  <2>2. ~ (told' \/ frame' = epoch')
    BY <2>1 DEF NoFrame
  <2>3. \A k \in Paths : /\ pipe[k].st = "flushing" => flushing[k] # NoSave
                         /\ SaveSound(flushing[k])
    BY Parts DEF SavesSound
  <2>4. \A w \in Writers : \/ writes'[w] = writes[w] /\ SaveSound(writes[w])
                           \/ writes'[w].term = FALSE
    BY Parts, <2>1 DEF SavesSound, Serialized, TypeOK
  <2>5. QED
    BY <2>1, <2>2, <2>3, <2>4 DEF SavesSound, SaveSound
<1>10. HeldForWork'
  BY Parts DEF AttachRunner, HeldForWork, TypeOK
<1>11. QED
  BY <1>1, <1>2, <1>3, <1>4, <1>5, <1>6, <1>7, <1>8, <1>9, <1>10 DEF AInv

\* A runner asks for its slot.
LEMMA StartRunnerKeeps ==
    ASSUME AInv, SemIInv, SemIInv', NEW r \in Starts, StartRunner(r)
    PROVE  AInv'
<1>s. SemTypeOK' /\ WaitersQueued
  BY DEF SemIInv
<1>a. /\ UNCHANGED <<status, term, emitted, stopReq, cur, results, completing, pipe, pend, quiet,
                     born, asked, preparing, phase, flushing, frame, pinned, epoch, told,
                     signals, falsely, early, leaked>>
      /\ SaveEnds(r) /\ r \in Writers
  BY DEF StartRunner, Writers
<1>d. /\ turn[r] = "attached" /\ turn \in [Starts -> Turns]
      /\ turn' = [turn EXCEPT ![r] = "starting"]
  BY Parts DEF StartRunner, TypeOK
<1>b. /\ phase # "down" /\ FileKept
      /\ writes' \in [Writers -> Snapshots \cup {NoSave}]
      /\ \A w \in Writers : writes'[w] \in {writes[w], NoSave}
  BY <1>a, SaveEndsFacts
<1>c. /\ ToldIsOver' /\ OneShot'
      /\ disk' \in Snapshots /\ behind' \in BOOLEAN
      /\ disk'.status # "none" => epoch > 0
      /\ disk'.term => disk'.status # "none"
      /\ status = "none" => disk'.status = "none"
  BY <1>a, <1>b, FileKeptKeeps
<1>1. TypeOK'
  <2>1. turn' \in [Starts -> Turns]
    BY <1>d DEF Turns
  <2>2. QED
    BY Parts, <1>s, <1>a, <1>b, <1>c, <2>1 DEF TypeOK
<1>2. EpochsCount'
  BY Parts, <1>a, <1>c, <1>d DEF EpochsCount
<1>3. NotFromTheFuture'
  BY Parts DEF StartRunner, NotFromTheFuture, TypeOK
<1>4. NothingWithoutSession'
  BY Parts, <1>a, <1>b, <1>c, <1>d DEF NothingWithoutSession, Alive
<1>5. SlotsForStarting'
  <2>1. pc \in [Starts -> Stages] /\ turn \in [Starts -> Turns]
    BY Parts DEF TypeOK, SemTypeOK
  <2>2. /\ pc' = [pc EXCEPT ![r] = "granted"] \/ pc' = [pc EXCEPT ![r] = "waiting"]
        /\ turn' = [turn EXCEPT ![r] = "starting"]
    BY DEF StartRunner, Acquire
  <2>3. QED
    BY Parts, <2>1, <2>2 DEF SlotsForStarting
<1>8. ResultsAreOfTurns'
  BY Parts DEF StartRunner, ResultsAreOfTurns, Past, Working, TypeOK
<1>9. SavesSound'
  <2>1. \A k \in Paths : pipe'[k].st = "flushing" => flushing'[k] # NoSave
    BY Parts, <1>a DEF SavesSound
  <2>2. term \in BOOLEAN
    BY Parts DEF TypeOK
  <2>3. QED
    BY <1>a, <1>b, <2>1, <2>2, SavesStaySound
<1>10. HeldForWork'
  BY Parts DEF StartRunner, HeldForWork, TypeOK
<1>11. QED
  BY <1>1, <1>2, <1>3, <1>4, <1>5, <1>8, <1>9, <1>10, <1>c DEF AInv

\* A runner with a slot runs.
LEMMA RunnerRunsKeeps ==
    ASSUME AInv, SemIInv, SemIInv', NEW r \in Starts, RunnerRuns(r)
    PROVE  AInv'
<1>s. SemTypeOK' /\ WaitersQueued
  BY DEF SemIInv
<1>1. TypeOK'
  BY Parts, <1>s DEF RunnerRuns, Run, TypeOK, Turns
<1>2. EpochsCount'
  BY Parts DEF RunnerRuns, Run, EpochsCount, SlotsForStarting, TypeOK
<1>3. NotFromTheFuture'
  BY Parts DEF RunnerRuns, Run, NotFromTheFuture, TypeOK
<1>4. NothingWithoutSession'
  BY Parts DEF RunnerRuns, Run, NothingWithoutSession, SlotsForStarting, Alive, TypeOK
<1>5. SlotsForStarting'
  <2>1. pc \in [Starts -> Stages] /\ turn \in [Starts -> Turns]
    BY Parts DEF TypeOK, SemTypeOK
  <2>2. pc' = [pc EXCEPT ![r] = "running"] /\ turn' = [turn EXCEPT ![r] = "open"]
    BY DEF RunnerRuns, Run
  <2>3. QED
    BY Parts, <2>1, <2>2 DEF SlotsForStarting
<1>6. OneShot'
  BY Parts DEF RunnerRuns, Run, OneShot, Past, TypeOK
<1>7. ToldIsOver'
  BY Parts DEF RunnerRuns, Run, ToldIsOver, TypeOK
<1>8. ResultsAreOfTurns'
  <2>1. turn[r] = "starting" /\ turn' = [turn EXCEPT ![r] = "open"] /\ turn \in [Starts -> Turns]
    BY Parts DEF RunnerRuns, Run, SlotsForStarting, TypeOK
  <2>2. UNCHANGED <<cur, results, completing, pipe, epoch, quiet>>
    BY DEF RunnerRuns
  <2>3. cur # 0 => Working(cur)' = Working(cur) /\ (cur = r \/ turn'[cur] = turn[cur])
    BY Parts, <2>1, <2>2 DEF Working, TypeOK
  <2>4. QED
    BY Parts, <2>1, <2>2, <2>3 DEF ResultsAreOfTurns, Past
<1>9. SavesSound'
  BY Parts DEF RunnerRuns, SavesSound, SaveSound, TypeOK
<1>10. HeldForWork'
  BY Parts DEF RunnerRuns, HeldForWork, TypeOK
<1>11. QED
  BY <1>1, <1>2, <1>3, <1>4, <1>5, <1>6, <1>7, <1>8, <1>9, <1>10 DEF AInv

\* A runner throws as it starts.
LEMMA RunnerThrowsKeeps ==
    ASSUME AInv, SemIInv, SemIInv', NEW r \in Starts, RunnerThrows(r)
    PROVE  AInv'
<1>s. SemTypeOK' /\ WaitersQueued
  BY DEF SemIInv
<1>1. TypeOK'
  BY Parts, <1>s DEF RunnerThrows, TypeOK, Turns
<1>2. EpochsCount'
  BY Parts DEF RunnerThrows, EpochsCount, TypeOK
<1>3. NotFromTheFuture'
  BY Parts DEF RunnerThrows, NotFromTheFuture, EpochsCount, TypeOK
<1>4. NothingWithoutSession'
  BY Parts DEF RunnerThrows, NothingWithoutSession, Alive, TypeOK
<1>5. SlotsForStarting'
  <2>1. Release(r) /\ turn[r] # "starting" /\ turn' = [turn EXCEPT ![r] = "over"]
    BY DEF RunnerThrows
  <2>2. QED
    BY Parts, <1>s, <2>1, ReleaseKeepsSlots
<1>6. OneShot'
  BY Parts DEF RunnerThrows, OneShot, Past, TypeOK
<1>7. ToldIsOver'
  BY Parts DEF RunnerThrows, ToldIsOver, TypeOK
<1>8. ResultsAreOfTurns'
  BY Parts DEF RunnerThrows, ResultsAreOfTurns, Past, Working, EpochsCount, TypeOK
<1>9. SavesSound'
  BY Parts DEF RunnerThrows, SavesSound, SaveSound, TypeOK
<1>10. HeldForWork'
  BY Parts DEF RunnerThrows, HeldForWork, TypeOK
<1>11. QED
  BY <1>1, <1>2, <1>3, <1>4, <1>5, <1>6, <1>7, <1>8, <1>9, <1>10 DEF AInv

\* Pending work wakes a held turn.
LEMMA WakeupKeeps ==
    ASSUME AInv, SemIInv, SemIInv', NEW r \in Starts, Wakeup(r)
    PROVE  AInv'
<1>s. SemTypeOK' /\ WaitersQueued
  BY DEF SemIInv
<1>1. TypeOK'
  BY Parts, <1>s DEF Wakeup, TypeOK, Turns
<1>2. EpochsCount'
  BY Parts DEF Wakeup, EpochsCount, TypeOK
<1>3. NotFromTheFuture'
  BY Parts DEF Wakeup, NotFromTheFuture, TypeOK
<1>4. NothingWithoutSession'
  BY Parts DEF Wakeup, NothingWithoutSession, Alive, TypeOK
<1>5. SlotsForStarting'
  BY Parts DEF Wakeup, semVars, SlotsForStarting, TypeOK
<1>6. OneShot'
  BY Parts DEF Wakeup, OneShot, Past, TypeOK
<1>7. ToldIsOver'
  BY Parts DEF Wakeup, ToldIsOver, TypeOK
<1>8. ResultsAreOfTurns'
  BY Parts DEF Wakeup, ResultsAreOfTurns, Past, Working, TypeOK
<1>9. SavesSound'
  BY Parts DEF Wakeup, SavesSound, SaveSound, TypeOK
<1>10. HeldForWork'
  BY Parts DEF Wakeup, HeldForWork, TypeOK
<1>11. QED
  BY <1>1, <1>2, <1>3, <1>4, <1>5, <1>6, <1>7, <1>8, <1>9, <1>10 DEF AInv

\* A closed or killed runner ends.
LEMMA RunnerEndsKeeps ==
    ASSUME AInv, SemIInv, SemIInv', NEW r \in Starts, RunnerEnds(r)
    PROVE  AInv'
<1>s. SemTypeOK' /\ WaitersQueued
  BY DEF SemIInv
<1>1. TypeOK'
  BY Parts, <1>s DEF RunnerEnds, TypeOK, Turns
<1>2. EpochsCount'
  BY Parts DEF RunnerEnds, EpochsCount, TypeOK
<1>3. NotFromTheFuture'
  BY Parts DEF RunnerEnds, NotFromTheFuture, TypeOK
<1>4. NothingWithoutSession'
  BY Parts DEF RunnerEnds, NothingWithoutSession, Alive, TypeOK
<1>5. SlotsForStarting'
  <2>1. Release(r) /\ turn[r] # "starting" /\ turn' = [turn EXCEPT ![r] = "over"]
    BY DEF RunnerEnds
  <2>2. QED
    BY Parts, <1>s, <2>1, ReleaseKeepsSlots
<1>6. OneShot'
  BY Parts DEF RunnerEnds, OneShot, Past, TypeOK
<1>7. ToldIsOver'
  BY Parts DEF RunnerEnds, ToldIsOver, TypeOK
<1>8. ResultsAreOfTurns'
  BY Parts DEF RunnerEnds, ResultsAreOfTurns, Past, Working, TypeOK
<1>9. SavesSound'
  BY Parts DEF RunnerEnds, SavesSound, SaveSound, TypeOK
<1>10. HeldForWork'
  BY Parts DEF RunnerEnds, HeldForWork, TypeOK
<1>11. QED
  BY <1>1, <1>2, <1>3, <1>4, <1>5, <1>6, <1>7, <1>8, <1>9, <1>10 DEF AInv

\* A runner dies without a result.
LEMMA RunnerDiesKeeps ==
    ASSUME AInv, SemIInv, SemIInv', NEW r \in Starts, RunnerDies(r)
    PROVE  AInv'
<1>s. SemTypeOK' /\ WaitersQueued
  BY DEF SemIInv
<1>1. TypeOK'
  BY Parts, <1>s DEF RunnerDies, TypeOK, Turns
<1>2. EpochsCount'
  BY Parts DEF RunnerDies, EpochsCount, TypeOK
<1>3. NotFromTheFuture'
  BY Parts DEF RunnerDies, NotFromTheFuture, TypeOK
<1>4. NothingWithoutSession'
  BY Parts DEF RunnerDies, NothingWithoutSession, Alive, TypeOK
<1>5. SlotsForStarting'
  <2>1. Release(r) /\ turn[r] # "starting" /\ turn' = [turn EXCEPT ![r] = "over"]
    BY DEF RunnerDies
  <2>2. QED
    BY Parts, <1>s, <2>1, ReleaseKeepsSlots
<1>6. OneShot'
  BY Parts DEF RunnerDies, OneShot, Past, TypeOK
<1>7. ToldIsOver'
  BY Parts DEF RunnerDies, ToldIsOver, TypeOK
<1>8. ResultsAreOfTurns'
  BY Parts DEF RunnerDies, ResultsAreOfTurns, Past, Working, TypeOK
<1>9. SavesSound'
  BY Parts DEF RunnerDies, SavesSound, SaveSound, TypeOK
<1>10. HeldForWork'
  BY Parts DEF RunnerDies, HeldForWork, TypeOK
<1>11. QED
  BY <1>1, <1>2, <1>3, <1>4, <1>5, <1>6, <1>7, <1>8, <1>9, <1>10 DEF AInv

\* A turn yields its result.
LEMMA ResultKeeps ==
    ASSUME AInv, SemIInv, SemIInv', NEW r \in Starts,
           NEW sub \in {"success", "error"}, NEW work \in SUBSET PendingKinds,
           Result(r, sub, work)
    PROVE  AInv'
<1>s. SemTypeOK' /\ WaitersQueued
  BY DEF SemIInv
<1>a. /\ turn[r] \in {"open", "woken"} /\ turn \in [Starts -> Turns]
      /\ turn' = [turn EXCEPT ![r] =
                     IF sub = "success" /\ work # {} THEN "held" ELSE "closing"]
      /\ results' = Append(results, [sub |-> sub, epoch |-> born[r]])
      /\ pend' = [pend EXCEPT ![r] = work] /\ pend \in [Starts -> SUBSET PendingKinds]
      /\ quiet' = IF results = <<>> /\ completing = NoResult THEN quiet \ {r} ELSE quiet
      /\ quiet \subseteq Starts /\ born \in [Starts -> Nat]
      /\ UNCHANGED <<status, term, emitted, stopReq, cur, completing, pipe, born, asked,
                     preparing, phase, disk, flushing, writes, behind, frame, pinned, epoch,
                     told, signals, falsely, early, leaked>>
  BY Parts DEF Result, TypeOK
<1>b. /\ turn' \in [Starts -> Turns] /\ turn'[r] \in {"held", "closing"}
      /\ (sub # "success" => turn'[r] = "closing") /\ (turn'[r] = "held" => work # {})
      /\ \A q \in Starts : q # r => turn'[q] = turn[q]
  BY <1>a DEF Turns
<1>c. /\ results \in Seq([sub : {"success", "error"}, epoch : Nat])
      /\ [sub |-> sub, epoch |-> born[r]] \in [sub : {"success", "error"}, epoch : Nat]
  BY Parts DEF TypeOK
<1>d. /\ results' \in Seq([sub : {"success", "error"}, epoch : Nat])
      /\ Len(results) \in Nat /\ Len(results') = Len(results) + 1
      /\ \A i \in 1..Len(results) : results'[i] = results[i]
      /\ results'[Len(results) + 1] = [sub |-> sub, epoch |-> born[r]]
  BY <1>a, <1>c
<1>1. TypeOK'
  <2>1. quiet' \subseteq Starts
    BY <1>a
  <2>2. pend' \in [Starts -> SUBSET PendingKinds]
    BY <1>a
  <2>3. QED
    BY Parts, <1>s, <1>a, <1>b, <1>d, <2>1, <2>2 DEF TypeOK
<1>2. EpochsCount'
  BY Parts, <1>a, <1>b DEF EpochsCount
<1>3. NotFromTheFuture'
  <2>1. born[r] \in Nat /\ born[r] <= epoch
    BY Parts, <1>a DEF EpochsCount
  <2>2. \A i \in 1..Len(results') : i \in 1..Len(results) \/ i = Len(results) + 1
    BY <1>d
  <2>3. \A i \in 1..Len(results') : results'[i].epoch \in Nat /\ results'[i].epoch <= epoch
    BY Parts, <1>d, <2>1, <2>2 DEF NotFromTheFuture
  <2>4. QED
    BY Parts, <1>a, <2>3 DEF NotFromTheFuture
<1>4. NothingWithoutSession'
  BY Parts DEF Result, NothingWithoutSession, Alive, TypeOK
<1>5. SlotsForStarting'
  BY Parts DEF Result, semVars, SlotsForStarting, TypeOK
<1>6. OneShot'
  BY Parts DEF Result, OneShot, Past, TypeOK
<1>7. ToldIsOver'
  BY Parts DEF Result, ToldIsOver, TypeOK
<1>8. ResultsAreOfTurns'
  <2>1. cur # 0 /\ born[r] = epoch => cur = r
    BY Parts, <1>a DEF EpochsCount
  <2>2. cur # 0 => cur \in Starts
    BY Parts DEF EpochsCount
  <2>3. cur # 0 => /\ Working(cur)' => Working(cur)
                   /\ turn'[cur] \in {"attached", "starting", "open"}
                         => turn[cur] \in {"attached", "starting", "open"}
    BY <1>a, <1>b, <2>2 DEF Working
  <2>4. ASSUME NEW i \in 1..Len(results'), cur # 0, results'[i].epoch = epoch
        PROVE  /\ turn'[cur] \notin {"attached", "starting", "open"}
               /\ results'[i].sub # "success" => ~ Working(cur)'
    <3>1. CASE i \in 1..Len(results)
      BY Parts, <1>d, <2>3, <2>4, <3>1 DEF ResultsAreOfTurns
    <3>2. CASE i = Len(results) + 1
      <4>1. cur = r /\ results'[i].sub = sub
        BY <1>d, <2>1, <2>4, <3>2
      <4>2. QED
        BY <1>a, <1>b, <4>1 DEF Working
    <3>3. QED
      BY <1>d, <3>1, <3>2
  <2>5. Past("complete") /\ cur # 0 /\ cur \in quiet /\ cur \notin quiet'
           => cur = r /\ completing = NoResult
    BY <1>a
  <2>6. Past("complete") => completing # NoResult
    BY Parts DEF ResultsAreOfTurns, Past, NoResult
  <2>7. Past("complete")' <=> Past("complete")
    BY <1>a DEF Past
  <2>8. Past("complete")' =>
            completing.stop \/ cur = 0 \/ ~ Working(cur)' \/ cur \in quiet'
    BY Parts, <2>3, <2>5, <2>6, <2>7 DEF ResultsAreOfTurns
  <2>9. QED
    BY Parts, <1>a, <2>3, <2>4, <2>8 DEF ResultsAreOfTurns
<1>9. SavesSound'
  BY Parts, <1>a DEF SavesSound, SaveSound
<1>10. HeldForWork'
  BY Parts, <1>a, <1>b DEF HeldForWork
<1>11. QED
  BY <1>1, <1>2, <1>3, <1>4, <1>5, <1>6, <1>7, <1>8, <1>9, <1>10 DEF AInv

\* A stop attempt is blocked.
LEMMA StopBlockedKeeps ==
    ASSUME AInv, SemIInv, SemIInv', NEW r \in Starts, NEW work \in SUBSET PendingKinds,
           StopBlocked(r, work)
    PROVE  AInv'
<1>s. SemTypeOK' /\ WaitersQueued
  BY DEF SemIInv
<1>1. TypeOK'
  BY Parts, <1>s DEF StopBlocked, Recorded, Turns, HookRecords, PendingKinds, TypeOK
<1>2. EpochsCount'
  BY Parts, <1>s DEF StopBlocked, Recorded, EpochsCount, TypeOK
<1>3. NotFromTheFuture'
  BY Parts, <1>s DEF StopBlocked, Recorded, NotFromTheFuture, TypeOK
<1>4. NothingWithoutSession'
  BY Parts, <1>s DEF StopBlocked, Recorded, Alive, NothingWithoutSession, TypeOK
<1>5. SlotsForStarting'
  BY Parts, <1>s DEF StopBlocked, Recorded, semVars, SlotsForStarting, TypeOK
<1>6. OneShot'
  BY Parts, <1>s DEF StopBlocked, Recorded, Past, OneShot, TypeOK
<1>7. ToldIsOver'
  BY Parts, <1>s DEF StopBlocked, Recorded, ToldIsOver, TypeOK
<1>8. ResultsAreOfTurns'
  BY Parts, <1>s DEF StopBlocked, Recorded, Past, Working, ResultsAreOfTurns, TypeOK
<1>9. SavesSound'
  BY Parts, <1>s DEF StopBlocked, Recorded, SaveSound, SavesSound, TypeOK
<1>10. HeldForWork'
  BY Parts, <1>s DEF StopBlocked, Recorded, HeldForWork, TypeOK
<1>11. QED
  BY <1>1, <1>2, <1>3, <1>4, <1>5, <1>6, <1>7, <1>8, <1>9, <1>10 DEF AInv

\* A background task starts.
LEMMA TaskStartsKeeps ==
    ASSUME AInv, SemIInv, SemIInv', NEW r \in Starts,
           TaskStarts(r)
    PROVE  AInv'
<1>s. SemTypeOK' /\ WaitersQueued
  BY DEF SemIInv
<1>1. TypeOK'
  BY Parts, <1>s DEF TaskStarts, Recorded, Turns, HookRecords, PendingKinds, TypeOK
<1>2. EpochsCount'
  BY Parts, <1>s DEF TaskStarts, Recorded, EpochsCount, TypeOK
<1>3. NotFromTheFuture'
  BY Parts, <1>s DEF TaskStarts, Recorded, NotFromTheFuture, TypeOK
<1>4. NothingWithoutSession'
  BY Parts, <1>s DEF TaskStarts, Recorded, Alive, NothingWithoutSession, TypeOK
<1>5. SlotsForStarting'
  BY Parts, <1>s DEF TaskStarts, Recorded, semVars, SlotsForStarting, TypeOK
<1>6. OneShot'
  BY Parts, <1>s DEF TaskStarts, Recorded, Past, OneShot, TypeOK
<1>7. ToldIsOver'
  BY Parts, <1>s DEF TaskStarts, Recorded, ToldIsOver, TypeOK
<1>8. ResultsAreOfTurns'
  BY Parts, <1>s DEF TaskStarts, Recorded, Past, Working, ResultsAreOfTurns, TypeOK
<1>9. SavesSound'
  BY Parts, <1>s DEF TaskStarts, Recorded, SaveSound, SavesSound, TypeOK
<1>10. HeldForWork'
  BY Parts, <1>s DEF TaskStarts, Recorded, HeldForWork, TypeOK
<1>11. QED
  BY <1>1, <1>2, <1>3, <1>4, <1>5, <1>6, <1>7, <1>8, <1>9, <1>10 DEF AInv

\* The last background task ends.
LEMMA TasksEndKeeps ==
    ASSUME AInv, SemIInv, SemIInv', NEW r \in Starts,
           TasksEnd(r)
    PROVE  AInv'
<1>s. SemTypeOK' /\ WaitersQueued
  BY DEF SemIInv
<1>1. TypeOK'
  BY Parts, <1>s DEF TasksEnd, Recorded, Turns, HookRecords, PendingKinds, TypeOK
<1>2. EpochsCount'
  BY Parts, <1>s DEF TasksEnd, Recorded, EpochsCount, TypeOK
<1>3. NotFromTheFuture'
  BY Parts, <1>s DEF TasksEnd, Recorded, NotFromTheFuture, TypeOK
<1>4. NothingWithoutSession'
  BY Parts, <1>s DEF TasksEnd, Recorded, Alive, NothingWithoutSession, TypeOK
<1>5. SlotsForStarting'
  BY Parts, <1>s DEF TasksEnd, Recorded, semVars, SlotsForStarting, TypeOK
<1>6. OneShot'
  BY Parts, <1>s DEF TasksEnd, Recorded, Past, OneShot, TypeOK
<1>7. ToldIsOver'
  BY Parts, <1>s DEF TasksEnd, Recorded, ToldIsOver, TypeOK
<1>8. ResultsAreOfTurns'
  BY Parts, <1>s DEF TasksEnd, Recorded, Past, Working, ResultsAreOfTurns, TypeOK
<1>9. SavesSound'
  BY Parts, <1>s DEF TasksEnd, Recorded, SaveSound, SavesSound, TypeOK
<1>10. HeldForWork'
  BY Parts, <1>s DEF TasksEnd, Recorded, HeldForWork, TypeOK
<1>11. QED
  BY <1>1, <1>2, <1>3, <1>4, <1>5, <1>6, <1>7, <1>8, <1>9, <1>10 DEF AInv

\* A save begins for another session.
LEMMA OthersSaveKeeps ==
    ASSUME AInv, SemIInv, SemIInv',
           OthersSave
    PROVE  AInv'
<1>s. SemTypeOK' /\ WaitersQueued
  BY DEF SemIInv
<1>a. /\ UNCHANGED <<status, term, emitted, stopReq, cur, results, completing, pipe, turn,
                     pend, quiet, born, asked, preparing, phase, disk, flushing, behind,
                     frame, pinned, epoch, told, signals, falsely, early, leaked>>
      /\ phase # "down" /\ Another \in Writers
      /\ writes' = [writes EXCEPT ![Another] = Serialized(status, term)]
  BY DEF OthersSave, Writers
<1>b. status \in {"none", "active", "complete", "error"} /\ term \in BOOLEAN
  BY Parts DEF TypeOK
<1>1. TypeOK'
  <2>1. Serialized(status, term) \in Snapshots
    BY <1>b DEF Serialized, Snapshots
  <2>2. writes' \in [Writers -> Snapshots \cup {NoSave}]
    BY Parts, <1>a, <2>1 DEF TypeOK
  <2>3. QED
    BY Parts, <1>s, <1>a, <2>2 DEF TypeOK
<1>2. EpochsCount'
  BY Parts, <1>s DEF OthersSave, Serialized, Snapshots, EpochsCount, TypeOK
<1>3. NotFromTheFuture'
  BY Parts, <1>s DEF OthersSave, Serialized, Snapshots, NotFromTheFuture, TypeOK
<1>4. NothingWithoutSession'
  BY Parts, <1>s DEF OthersSave, Serialized, Snapshots, Alive, NothingWithoutSession, TypeOK
<1>5. SlotsForStarting'
  BY Parts, <1>s DEF OthersSave, Serialized, Snapshots, semVars, SlotsForStarting, TypeOK
<1>6. OneShot'
  BY Parts, <1>s DEF OthersSave, Serialized, Snapshots, Past, OneShot, TypeOK
<1>7. ToldIsOver'
  BY Parts, <1>s DEF OthersSave, Serialized, Snapshots, ToldIsOver, TypeOK
<1>8. ResultsAreOfTurns'
  BY Parts, <1>s DEF OthersSave, Serialized, Snapshots, Past, Working, ResultsAreOfTurns, TypeOK
<1>9. SavesSound'
  <2>1. SaveSound(Serialized(status, term))
    <3>1. /\ Serialized(status, term).status = status
          /\ Serialized(status, term).term = term
      BY DEF Serialized
    <3>2. status = "none" => ~ term
      BY Parts DEF NothingWithoutSession
    <3>3. QED
      BY <1>b, <3>1, <3>2 DEF SaveSound
  <2>2. \A w \in Writers : writes'[w] = writes[w] \/ writes'[w] = Serialized(status, term)
    BY Parts, <1>a DEF TypeOK
  <2>3. \A w \in Writers : SaveSound(writes'[w])
    BY Parts, <2>1, <2>2 DEF SavesSound
  <2>4. \A w \in Writers : SaveSound(writes[w])'
    BY <1>a, <2>3 DEF SaveSound
  <2>5. \A k \in Paths : /\ SaveSound(flushing[k])'
                         /\ pipe'[k].st = "flushing" => flushing'[k] # NoSave
    BY Parts, <1>a DEF SavesSound, SaveSound
  <2>6. QED
    BY <1>a, <2>4, <2>5 DEF SavesSound
<1>10. HeldForWork'
  BY Parts, <1>s DEF OthersSave, Serialized, Snapshots, HeldForWork, TypeOK
<1>11. QED
  BY <1>1, <1>2, <1>3, <1>4, <1>5, <1>6, <1>7, <1>8, <1>9, <1>10 DEF AInv

\* It ends.
LEMMA OthersSavedKeeps ==
    ASSUME AInv, SemIInv, SemIInv',
           OthersSaved
    PROVE  AInv'
<1>s. SemTypeOK' /\ WaitersQueued
  BY DEF SemIInv
<1>a. /\ UNCHANGED <<status, term, emitted, stopReq, cur, results, completing, pipe, pend, quiet,
                     born, asked, preparing, phase, flushing, frame, pinned, epoch, told,
                     signals, falsely, early, leaked>>
      /\ SaveEnds(Another) /\ Another \in Writers
  BY DEF OthersSaved, Writers
<1>d. UNCHANGED <<turn, activeCount, limit, waiters, pc>>
  BY DEF OthersSaved, semVars
<1>b. /\ phase # "down" /\ FileKept
      /\ writes' \in [Writers -> Snapshots \cup {NoSave}]
      /\ \A w \in Writers : writes'[w] \in {writes[w], NoSave}
  BY <1>a, SaveEndsFacts
<1>c. /\ ToldIsOver' /\ OneShot'
      /\ disk' \in Snapshots /\ behind' \in BOOLEAN
      /\ disk'.status # "none" => epoch > 0
      /\ disk'.term => disk'.status # "none"
      /\ status = "none" => disk'.status = "none"
  BY <1>a, <1>b, FileKeptKeeps
<1>1. TypeOK'
  BY Parts, <1>s, <1>a, <1>b, <1>c, <1>d DEF TypeOK
<1>2. EpochsCount'
  BY Parts, <1>a, <1>c, <1>d DEF EpochsCount
<1>3. NotFromTheFuture'
  BY Parts, <1>s DEF OthersSaved, SaveEnds, Flush, NotFromTheFuture, TypeOK
<1>4. NothingWithoutSession'
  BY Parts, <1>a, <1>b, <1>c, <1>d DEF NothingWithoutSession, Alive
<1>5. SlotsForStarting'
  BY Parts, <1>s DEF OthersSaved, SaveEnds, Flush, semVars, SlotsForStarting, TypeOK
<1>8. ResultsAreOfTurns'
  BY Parts, <1>s DEF OthersSaved, SaveEnds, Flush, Past, Working, ResultsAreOfTurns, TypeOK
<1>9. SavesSound'
  <2>1. \A k \in Paths : pipe'[k].st = "flushing" => flushing'[k] # NoSave
    BY Parts, <1>a DEF SavesSound
  <2>2. term \in BOOLEAN
    BY Parts DEF TypeOK
  <2>3. QED
    BY <1>a, <1>b, <2>1, <2>2, SavesStaySound
<1>10. HeldForWork'
  BY Parts, <1>s DEF OthersSaved, SaveEnds, Flush, HeldForWork, TypeOK
<1>11. QED
  BY <1>1, <1>2, <1>3, <1>4, <1>5, <1>8, <1>9, <1>10, <1>c DEF AInv

\* A stop signal.
LEMMA StopSignalKeeps ==
    ASSUME AInv, SemIInv, SemIInv', StopSignal
    PROVE  AInv'
<1>s. SemTypeOK' /\ WaitersQueued
  BY DEF SemIInv
<1>a. /\ told' = FALSE /\ pinned' = TRUE /\ stopReq' = (status # "none")
      /\ pipe["stop"] = Idle
      /\ pipe' = [pipe EXCEPT !["stop"] = [st |-> "posting", epoch |-> epoch]]
      /\ UNCHANGED <<status, term, emitted, cur, results, completing, pend, quiet, born, asked,
                     preparing, phase, disk, flushing, writes, behind, frame, epoch, signals,
                     falsely, early, leaked>>
  BY DEF StopSignal
<1>b. /\ turn' \in [Starts -> Turns]
      /\ \A q \in Starts : turn'[q] = turn[q] \/ (Alive(q) /\ turn'[q] = "killed")
  <2>1. turn \in [Starts -> Turns] /\ cur \in Starts \cup {0}
    BY Parts DEF TypeOK
  <2>2. StopRunner
    BY DEF StopSignal
  <2>3. QED
    BY <2>1, <2>2 DEF StopRunner, Alive, Turns
<1>c. /\ pipe \in [Paths -> [st : {"idle", "posting", "flushing"}, epoch : Nat]]
      /\ pipe' \in [Paths -> [st : {"idle", "posting", "flushing"}, epoch : Nat]]
      /\ \A k \in Paths : k # "stop" => pipe'[k] = pipe[k]
      /\ pipe'["stop"].st = "posting" /\ pipe'["stop"].epoch = epoch /\ "stop" \in Paths
  BY Parts, <1>a DEF EpochsCount, TypeOK
<1>1. TypeOK'
  <2>1. pinned' \in BOOLEAN /\ told' \in BOOLEAN /\ stopReq' \in BOOLEAN
    BY <1>a
  <2>2. QED
    BY Parts, <1>s, <1>a, <1>b, <1>c, <2>1 DEF TypeOK
<1>2. EpochsCount'
  BY Parts, <1>a, <1>b DEF EpochsCount, Alive
<1>3. NotFromTheFuture'
  BY Parts, <1>a, <1>c DEF NotFromTheFuture, EpochsCount
<1>4. NothingWithoutSession'
  BY Parts DEF StopSignal, StopRunner, NothingWithoutSession, Alive, TypeOK
<1>5. SlotsForStarting'
  BY Parts DEF StopSignal, StopRunner, semVars, SlotsForStarting, TypeOK
<1>6. OneShot'
  <2>1. \A k \in Paths : Past(k)' => Past(k)
    BY <1>a, <1>c DEF Past
  <2>2. QED
    BY Parts, <1>a, <2>1 DEF OneShot
<1>7. ToldIsOver'
  BY Parts, <1>a DEF ToldIsOver
<1>8. ResultsAreOfTurns'
  <2>1. cur # 0 => /\ Working(cur)' => Working(cur)
                   /\ turn'[cur] \in {"attached", "starting", "open"}
                         => turn[cur] \in {"attached", "starting", "open"}
    BY Parts, <1>a, <1>b DEF Working, TypeOK
  <2>2. QED
    BY Parts, <1>a, <1>c, <2>1 DEF ResultsAreOfTurns, Past
<1>9. SavesSound'
  <2>1. \A k \in Paths : pipe'[k].st = "flushing" => flushing'[k] # NoSave
    BY Parts, <1>a, <1>c DEF SavesSound
  <2>2. term \in BOOLEAN
    BY Parts DEF TypeOK
  <2>3. QED
    BY <1>a, <2>1, <2>2, SavesStaySound
<1>10. HeldForWork'
  BY Parts, <1>a, <1>b DEF HeldForWork
<1>11. QED
  BY <1>1, <1>2, <1>3, <1>4, <1>5, <1>6, <1>7, <1>8, <1>9, <1>10 DEF AInv

\* The process dies: only the file and the frame are left.
LEMMA CrashKeeps ==
    ASSUME AInv, SemIInv, SemIInv', Crash
    PROVE  AInv'
<1>s. SemTypeOK' /\ WaitersQueued
  BY DEF SemIInv
<1>1. TypeOK'
  <2>1. term' \in BOOLEAN /\ emitted' \in BOOLEAN /\ stopReq' \in BOOLEAN
    BY Parts DEF Crash, TypeOK
  <2>2. results' \in Seq([sub : {"success", "error"}, epoch : Nat])
    BY DEF Crash
  <2>3. completing' \in [sub : {"none", "success", "error"}, stop : BOOLEAN]
    BY DEF Crash, NoResult
  <2>4. pipe' \in [Paths -> [st : {"idle", "posting", "flushing"}, epoch : Nat]]
    BY DEF Crash, Idle
  <2>5. turn' \in [Starts -> Turns]
    BY Parts DEF Crash, Turns
  <2>6. status' = "none" /\ cur' = 0 /\ asked' = 0 /\ preparing' = 0 /\ phase' = "down"
    BY DEF Crash
  <2>7. UNCHANGED <<quiet, born, disk, behind, frame, pinned, told, falsely, early, leaked>>
    BY DEF Crash
  <2>8. /\ pend' \in [Starts -> SUBSET PendingKinds]
        /\ flushing' \in [Paths -> Snapshots \cup {NoSave}]
        /\ writes' \in [Writers -> Snapshots \cup {NoSave}]
    BY DEF Crash
  <2>9. QED
    BY Parts, <1>s, <2>1, <2>2, <2>3, <2>4, <2>5, <2>6, <2>7, <2>8 DEF TypeOK
<1>2. EpochsCount'
  BY Parts DEF Crash, Restart, EpochsCount, TypeOK
<1>3. NotFromTheFuture'
  BY Parts DEF Crash, Restart, NotFromTheFuture, EpochsCount, TypeOK
<1>4. NothingWithoutSession'
  BY Parts DEF Crash, Restart, NothingWithoutSession, Alive, TypeOK
<1>5. SlotsForStarting'
  BY Parts DEF Crash, Restart, SlotsForStarting, TypeOK
<1>6. OneShot'
  BY Parts DEF Crash, Restart, OneShot, Past, TypeOK
<1>7. ToldIsOver'
  BY Parts DEF Crash, Restart, ToldIsOver, TypeOK
<1>8. ResultsAreOfTurns'
  BY Parts DEF Crash, Restart, ResultsAreOfTurns, TypeOK
<1>9. SavesSound'
  <2>1. /\ \A k \in Paths : flushing'[k] = NoSave /\ pipe'[k] = Idle
        /\ \A w \in Writers : writes'[w] = NoSave
    BY DEF Crash
  <2>2. SaveSound(NoSave)' /\ Idle.st = "idle"
    BY DEF SaveSound, NoSave, Serialized, Idle
  <2>3. QED
    BY <2>1, <2>2 DEF SavesSound, SaveSound
<1>10. HeldForWork'
  BY Parts DEF Crash, HeldForWork, TypeOK
<1>11. QED
  BY <1>1, <1>2, <1>3, <1>4, <1>5, <1>6, <1>7, <1>8, <1>9, <1>10 DEF AInv

\* The process starts again from its file.
LEMMA RestoreKeeps ==
    ASSUME AInv, SemIInv, SemIInv', Restore
    PROVE  AInv'
<1>s. SemTypeOK' /\ WaitersQueued
  BY DEF SemIInv
<1>a. /\ phase = "down" /\ term' = disk.term /\ emitted' = disk.term
      /\ signals' = IF behind THEN 0 ELSE signals
      /\ UNCHANGED <<stopReq, cur, results, completing, turn, pend, quiet, born, asked, preparing,
                     disk, flushing, writes, behind, frame, pinned, epoch, told, early, leaked>>
  BY DEF Restore
<1>b. \/ /\ Interrupted /\ status' = "error" /\ phase' = "reconciling"
         /\ pipe' = [pipe EXCEPT !["fail"] = [st |-> "posting", epoch |-> epoch]]
         /\ falsely' = (falsely \/ (told /\ ~ behind))
      \/ /\ ~ Interrupted /\ status' = disk.status /\ phase' = "up"
         /\ UNCHANGED <<pipe, falsely>>
  BY DEF Restore
<1>c. /\ disk \in Snapshots /\ disk.term \in BOOLEAN /\ behind \in BOOLEAN
      /\ disk.status \in {"none", "active", "complete", "error"}
      /\ status = "none" /\ ~ falsely /\ told \in BOOLEAN /\ signals \in {0, 1}
      /\ \A k \in Paths : pipe[k].st = "idle"
      /\ \A k \in Paths : flushing[k] = NoSave
      /\ \A w \in Writers : writes[w] = NoSave
      /\ (disk.term => disk.status # "none")
  BY Parts, <1>a, SnapshotFacts DEF TypeOK, NothingWithoutSession, SavesSound, OneShot
<1>d. Interrupted => ~ (told /\ ~ behind)
  BY Parts, <1>a, <1>c DEF Interrupted, ToldIsOver
<1>e. pipe' \in [Paths -> [st : {"idle", "posting", "flushing"}, epoch : Nat]]
  BY Parts, RestoredPipe
<1>f. \A k \in Paths : pipe'[k].st # "flushing"
  <2>1. pipe \in [Paths -> [st : {"idle", "posting", "flushing"}, epoch : Nat]]
    BY Parts DEF TypeOK
  <2>2. CASE pipe' = pipe
    BY <1>c, <2>2
  <2>3. CASE pipe' = [pipe EXCEPT !["fail"] = [st |-> "posting", epoch |-> epoch]]
    BY <1>c, <2>1, <2>3
  <2>4. QED
    BY <1>b, <2>2, <2>3
<1>1. TypeOK'
  <2>1. falsely' \in BOOLEAN
    BY Parts, <1>b, <1>c, <1>d DEF TypeOK
  <2>2. term' \in BOOLEAN /\ emitted' \in BOOLEAN
    BY <1>a, <1>c
  <2>3. /\ status' \in {"none", "active", "complete", "error"}
        /\ phase' \in {"up", "down", "reconciling"}
    BY <1>b, <1>c
  <2>4. QED
    BY Parts, <1>s, <1>a, <1>e, <2>1, <2>2, <2>3 DEF TypeOK
<1>2. EpochsCount'
  <2>1. status' # "none" => disk.status # "none"
    BY <1>b, <1>c DEF Interrupted
  <2>2. QED
    BY Parts, <1>a, <2>1 DEF EpochsCount
<1>3. NotFromTheFuture'
  <2>1. \A k \in Paths : pipe'[k].epoch \in Nat /\ pipe'[k].epoch <= epoch
    BY Parts, RestoredPipe
  <2>2. UNCHANGED <<results, frame, epoch>>
    BY DEF Restore
  <2>3. QED
    BY Parts, <2>1, <2>2 DEF NotFromTheFuture
<1>4. NothingWithoutSession'
  BY Parts DEF Restore, NothingWithoutSession, EpochsCount, Alive, TypeOK
<1>5. SlotsForStarting'
  BY Parts DEF Restore, semVars, SlotsForStarting, TypeOK
<1>6. OneShot'
  <2>1. ~ falsely'
    BY <1>b, <1>c, <1>d
  <2>2. signals' \in {0, 1} /\ (signals' = 1 => signals = 1 /\ ~ behind)
    BY <1>a, <1>c
  <2>3. signals' = 1 => disk.term
    BY Parts, <2>2 DEF OneShot
  <2>4. signals' = 1 => disk'.term /\ emitted' /\ term'
    BY <1>a, <2>3
  <2>5. \A k \in Paths : ~ Past(k)'
    BY <1>f DEF Past
  <2>6. QED
    BY Parts, <2>1, <2>2, <2>4, <2>5 DEF OneShot
<1>7. ToldIsOver'
  BY Parts, <1>a, <1>b, <1>c DEF ToldIsOver, Interrupted
<1>8. ResultsAreOfTurns'
  BY Parts DEF Restore, ResultsAreOfTurns, NothingWithoutSession, TypeOK
<1>9. SavesSound'
  <2>1. SaveSound(NoSave)'
    BY DEF SaveSound, NoSave, Serialized
  <2>2. /\ \A k \in Paths : flushing'[k] = NoSave
        /\ \A w \in Writers : writes'[w] = NoSave
    BY <1>a, <1>c
  <2>3. QED
    BY <1>f, <2>1, <2>2 DEF SavesSound, SaveSound
<1>10. HeldForWork'
  BY Parts DEF Restore, HeldForWork, TypeOK
<1>11. QED
  BY <1>1, <1>2, <1>3, <1>4, <1>5, <1>6, <1>7, <1>8, <1>9, <1>10 DEF AInv

\* The router applies a frame.
LEMMA RouterAppliesKeeps ==
    ASSUME AInv, SemIInv, SemIInv', RouterApplies
    PROVE  AInv'
<1>s. SemTypeOK' /\ WaitersQueued
  BY DEF SemIInv
<1>1. TypeOK'
  <2>1. pinned' \in BOOLEAN
    BY Parts DEF RouterApplies, TypeOK
  <2>2. told' \in BOOLEAN
    BY Parts DEF RouterApplies, TypeOK
  <2>3. frame' \in Nat \cup {NoFrame}
    BY DEF RouterApplies, NoFrame
  <2>4. UNCHANGED <<status, term, emitted, stopReq, cur, results, completing, pipe, turn,
                    pend, quiet, born, asked, preparing, phase, disk, flushing, writes,
                    behind, falsely, early, leaked>>
    BY DEF RouterApplies
  <2>5. QED
    BY Parts, <1>s, <2>1, <2>2, <2>3, <2>4 DEF TypeOK
<1>2. EpochsCount'
  BY Parts DEF RouterApplies, EpochsCount, TypeOK
<1>3. NotFromTheFuture'
  BY Parts DEF RouterApplies, NoFrame, NotFromTheFuture, EpochsCount, TypeOK
<1>4. NothingWithoutSession'
  BY Parts DEF RouterApplies, NothingWithoutSession, Alive, TypeOK
<1>5. SlotsForStarting'
  BY Parts DEF RouterApplies, semVars, SlotsForStarting, TypeOK
<1>6. OneShot'
  BY Parts DEF RouterApplies, OneShot, Past, TypeOK
<1>7. ToldIsOver'
  BY Parts DEF RouterApplies, NoFrame, ToldIsOver, EpochsCount, TypeOK
<1>8. ResultsAreOfTurns'
  BY Parts DEF RouterApplies, ResultsAreOfTurns, Past, Working, TypeOK
<1>9. SavesSound'
  <2>1. /\ told' \/ frame' = epoch' => told \/ frame = epoch
        /\ UNCHANGED <<status, term, flushing, writes, pipe, phase>>
    <3>1. /\ frame' = NoFrame /\ told' = (told \/ frame = epoch)
          /\ UNCHANGED <<status, term, flushing, writes, pipe, phase, epoch>>
      BY DEF RouterApplies
    <3>2. frame' # epoch'
      BY Parts, <3>1 DEF EpochsCount, NoFrame
    <3>3. QED
      BY <3>1, <3>2
  <2>2. QED
    BY Parts, <2>1 DEF SavesSound, SaveSound
<1>10. HeldForWork'
  BY Parts DEF RouterApplies, HeldForWork, TypeOK
<1>11. QED
  BY <1>1, <1>2, <1>3, <1>4, <1>5, <1>6, <1>7, <1>8, <1>9, <1>10 DEF AInv

\* The worker declares its live sessions.
LEMMA HelloKeeps ==
    ASSUME AInv, SemIInv, SemIInv', Hello
    PROVE  AInv'
<1>s. SemTypeOK' /\ WaitersQueued
  BY DEF SemIInv
<1>1. TypeOK'
  <2>1. pinned' \in BOOLEAN
    BY Parts DEF Hello, TypeOK
  <2>2. UNCHANGED <<status, term, emitted, stopReq, cur, results, completing, pipe, turn,
                    pend, quiet, born, asked, preparing, phase, disk, flushing, writes,
                    behind, frame, told, falsely, early, leaked>>
    BY DEF Hello
  <2>3. QED
    BY Parts, <1>s, <2>1, <2>2 DEF TypeOK
<1>2. EpochsCount'
  BY Parts DEF Hello, EpochsCount, TypeOK
<1>3. NotFromTheFuture'
  BY Parts DEF Hello, NotFromTheFuture, TypeOK
<1>4. NothingWithoutSession'
  BY Parts DEF Hello, NothingWithoutSession, Alive, TypeOK
<1>5. SlotsForStarting'
  BY Parts DEF Hello, semVars, SlotsForStarting, TypeOK
<1>6. OneShot'
  BY Parts DEF Hello, OneShot, Past, TypeOK
<1>7. ToldIsOver'
  BY Parts DEF Hello, ToldIsOver, TypeOK
<1>8. ResultsAreOfTurns'
  BY Parts DEF Hello, ResultsAreOfTurns, Past, Working, TypeOK
<1>9. SavesSound'
  BY Parts DEF Hello, SavesSound, SaveSound, TypeOK
<1>10. HeldForWork'
  BY Parts DEF Hello, HeldForWork, TypeOK
<1>11. QED
  BY <1>1, <1>2, <1>3, <1>4, <1>5, <1>6, <1>7, <1>8, <1>9, <1>10 DEF AInv

\* No session at first.
LEMMA InitAInv ==
    ASSUME Init, SemIInv
    PROVE  AInv
<1>1. TypeOK
  <2>1. SemTypeOK
    BY DEF SemIInv
  <2>2. /\ term \in BOOLEAN /\ emitted \in BOOLEAN /\ stopReq \in BOOLEAN /\ pinned \in BOOLEAN
        /\ told \in BOOLEAN /\ falsely \in BOOLEAN /\ early \in BOOLEAN /\ leaked \in BOOLEAN
    BY DEF Init
  <2>3. results \in Seq([sub : {"success", "error"}, epoch : Nat])
    BY DEF Init
  <2>4. completing \in [sub : {"none", "success", "error"}, stop : BOOLEAN]
    BY DEF Init, NoResult
  <2>5. pipe \in [Paths -> [st : {"idle", "posting", "flushing"}, epoch : Nat]]
    BY DEF Init, Idle
  <2>6. /\ disk \in Snapshots /\ behind \in BOOLEAN /\ quiet \subseteq Starts
        /\ flushing \in [Paths -> Snapshots \cup {NoSave}]
        /\ writes \in [Writers -> Snapshots \cup {NoSave}]
    BY DEF Init, Serialized, Snapshots
  <2>9. pend \in [Starts -> SUBSET PendingKinds] /\ born \in [Starts -> Nat]
    BY DEF Init
  <2>7. /\ status = "none" /\ cur = 0 /\ asked = 0 /\ preparing = 0 /\ phase = "up"
        /\ frame = NoFrame /\ turn \in [Starts -> Turns]
    BY DEF Init, Turns
  <2>8. QED
    BY <2>1, <2>2, <2>3, <2>4, <2>5, <2>6, <2>7, <2>9 DEF TypeOK
<1>2. Starts \subseteq Nat \ {0}
  BY StartsAssumption, RunnersAssumption, FS_CardinalityType
<1>3. EpochsCount
  <2>1. epoch = 0 /\ status = "none" /\ disk.status = "none" /\ cur = 0
    BY DEF Init, Serialized
  <2>2. \A r \in Starts : turn[r] = "none"
    BY DEF Init
  <2>3. QED
    BY <2>1, <2>2 DEF EpochsCount
<1>4. NotFromTheFuture
  BY DEF Init, NotFromTheFuture, Idle, NoFrame
<1>5. NothingWithoutSession
  BY DEF Init, NothingWithoutSession, Alive, Paths, Idle, Serialized
<1>6. SlotsForStarting
  BY DEF Init, SemInit, SlotsForStarting
<1>7. OneShot
  BY DEF Init, OneShot, Past, Paths, Idle
<1>8. ToldIsOver
  <2>1. status = "none" /\ disk.status = "none"
    BY DEF Init, Serialized
  <2>2. QED
    BY <2>1 DEF ToldIsOver
<1>9. ResultsAreOfTurns
  BY DEF Init, ResultsAreOfTurns, Paths, Idle
<1>10. SavesSound
  <2>1. /\ \A k \in Paths : flushing[k] = NoSave /\ pipe[k] = Idle
        /\ \A w \in Writers : writes[w] = NoSave
    BY DEF Init
  <2>2. SaveSound(NoSave) /\ Idle.st = "idle"
    BY DEF SaveSound, NoSave, Serialized, Idle
  <2>3. QED
    BY <2>1, <2>2 DEF SavesSound
<1>11. HeldForWork
  BY DEF Init, HeldForWork
<1>12. QED
  BY <1>1, <1>3, <1>4, <1>5, <1>6, <1>7, <1>8, <1>9, <1>10, <1>11 DEF AInv

\* Every step keeps the invariant.
LEMMA NextKeepsAInv ==
    ASSUME AInv, SemIInv, SemIInv', [Next]_vars
    PROVE  AInv'
<1>1. ASSUME NEW k \in Paths, EmitDone(k) \/ Posted(k) PROVE AInv'
  BY <1>1, EmitDoneKeeps, PostedKeeps
<1>2. CASE CompleteStart \/ CompletePosted \/ CompleteEnd
  BY <1>2, CompleteStartKeeps, CompletePostedKeeps, CompleteEndKeeps
<1>3. CASE PromptArrives \/ PromptChecks \/ PromptFails
  BY <1>3, PromptArrivesKeeps, PromptChecksKeeps, PromptFailsKeeps
<1>4. ASSUME NEW r \in Starts, AttachRunner(r) \/ StartRunner(r) \/ RunnerRuns(r) PROVE AInv'
  BY <1>4, AttachRunnerKeeps, StartRunnerKeeps, RunnerRunsKeeps
<1>5. ASSUME NEW r \in Starts, RunnerThrows(r) \/ Wakeup(r) \/ RunnerEnds(r) \/ RunnerDies(r)
      PROVE  AInv'
  BY <1>5, RunnerThrowsKeeps, WakeupKeeps, RunnerEndsKeeps, RunnerDiesKeeps
<1>6. ASSUME NEW r \in Starts, NEW sub \in {"success", "error"},
             NEW work \in SUBSET PendingKinds, Result(r, sub, work)
      PROVE  AInv'
  BY <1>6, ResultKeeps
<1>a. ASSUME NEW r \in Starts, NEW work \in SUBSET PendingKinds, StopBlocked(r, work)
      PROVE  AInv'
  BY <1>a, StopBlockedKeeps
<1>b. ASSUME NEW r \in Starts, TaskStarts(r) \/ TasksEnd(r) PROVE AInv'
  BY <1>b, TaskStartsKeeps, TasksEndKeeps
<1>c. CASE OthersSave \/ OthersSaved
  BY <1>c, OthersSaveKeeps, OthersSavedKeeps
<1>7. CASE StopSignal \/ Crash \/ Restore \/ RouterApplies \/ Hello
  BY <1>7, StopSignalKeeps, CrashKeeps, RestoreKeeps, RouterAppliesKeeps, HelloKeeps
<1>8. CASE UNCHANGED vars
  <2>1. UNCHANGED <<activeCount, limit, waiters, pc, status, term, emitted, stopReq, cur,
                    results, completing, pipe, turn, pend, quiet, born, asked, preparing,
                    phase, disk, flushing, writes, behind, frame, pinned, epoch, told,
                    signals, falsely, early, leaked>>
    BY <1>8 DEF vars, semVars, sessVars, histVars
  <2>2. TypeOK'
    BY Parts, <2>1 DEF TypeOK, SemTypeOK
  <2>3. EpochsCount' /\ NotFromTheFuture' /\ NothingWithoutSession' /\ SlotsForStarting'
    BY Parts, <2>1
       DEF EpochsCount, NotFromTheFuture, NothingWithoutSession, SlotsForStarting, Alive
  <2>4. OneShot' /\ ToldIsOver' /\ ResultsAreOfTurns'
    BY Parts, <2>1 DEF OneShot, ToldIsOver, ResultsAreOfTurns, Past, Working
  <2>5. SavesSound' /\ HeldForWork'
    BY Parts, <2>1 DEF SavesSound, SaveSound, HeldForWork
  <2>6. QED
    BY <2>2, <2>3, <2>4, <2>5 DEF AInv
<1>9. QED
  BY <1>1, <1>2, <1>3, <1>4, <1>5, <1>6, <1>7, <1>8, <1>a, <1>b, <1>c DEF Next

\* The semaphore's invariant and the session's, in every reachable state.
LEMMA SessionInvariant == Spec => [](SemIInv /\ AInv)
<1>1. SemInit => SemIInv
  BY InitHolds
<1>2. SemIInv /\ [SemNext]_semVars => SemIInv'
  BY StepHolds
<1>3. Init => SemInit
  BY DEF Init
<1>4. [Next]_vars => [SemNext]_semVars
  BY SessionStepIsSemStep
<1>5. SemIInv /\ AInv /\ [Next]_vars => SemIInv' /\ AInv'
  BY <1>2, <1>4, NextKeepsAInv
<1>6. Init => SemIInv /\ AInv
  BY <1>1, <1>3, InitAInv
<1>7. QED
  BY <1>5, <1>6, PTL DEF Spec

\* Type correctness of the session, its runners and the worker's files.
THEOREM SessionTypes == Spec => []TypeOK
<1>1. AInv => TypeOK
  BY DEF AInv
<1>2. QED
  BY SessionInvariant, <1>1, PTL

\* emitTerminalOnce: for any number of runners, prompts, stops and crashes, and whichever
\* of the saves that overlap come last or fail, a turn is reported terminal at most once,
\* a stop apart, and a session the router was told about is not reported interrupted
\* when the worker restarts - unless it restarts from a file that lost the terminalState
\* to one of those saves.
THEOREM TerminalOnce == Spec => []OneSignalPerTurn
<1>1. AInv => OneSignalPerTurn
  BY Parts DEF OneShot, OneSignalPerTurn
<1>2. QED
  BY SessionInvariant, <1>1, PTL

\* getLiveSessionIds: the declaration of live sessions never gives away a session
\* with a runner at work, held for pending work or queued for its slot.
THEOREM DeclarationKeepsWork == Spec => WorkKeepsPin
<1>1. ASSUME AInv, [Next]_vars, pinned, ~ pinned', frame' = frame, NEW r \in Starts
      PROVE  ~ Working(r)
  <2>1. CASE RouterApplies
    BY <1>1, <2>1 DEF RouterApplies
  <2>2. CASE Hello
    <3>1. status = "none" \/ cur = 0
      BY <2>2 DEF Hello, Live
    <3>2. ~ Alive(r)
      BY <1>1, <3>1, Parts DEF NothingWithoutSession
    <3>3. QED
      BY <3>2 DEF Alive, Working
  <2>3. CASE ~ RouterApplies /\ ~ Hello
    <3>1. pinned' = pinned \/ pinned' = TRUE
      BY <1>1, <2>3
         DEF Next, vars, EmitDone, Posted, CompleteStart, CompletePosted, CompleteEnd,
         PromptArrives, PromptChecks, PromptFails, AttachRunner, StartRunner, RunnerRuns,
         RunnerThrows, Wakeup, RunnerEnds, RunnerDies, Result, StopBlocked, TaskStarts, TasksEnd,
         OthersSave, OthersSaved, StopSignal, Crash, Restore
    <3>2. QED
      BY <1>1, <3>1
  <2>4. QED
    BY <2>1, <2>2, <2>3
<1>2. ASSUME AInv, [Next]_vars
      PROVE  [pinned /\ ~ pinned' /\ frame' = frame => \A r \in Starts : ~ Working(r)]_vars
  BY <1>1, <1>2
<1>3. QED
  BY SessionInvariant, <1>2, PTL DEF Spec, WorkKeepsPin

\* completeSession's deferral: no signal goes out for a turn whose runner goes on for
\* pending work, in whichever order its results, wakeups and prompts are handled,
\* unless it was stopped or its runner had, while held open, no work on record.
THEOREM DeferralHolds == Spec => PendingTurnNotReported
<1>1. ASSUME AInv, [Next]_vars, signals' > signals
      PROVE  completing.stop \/ cur = 0 \/ ~ Working(cur) \/ cur \in quiet
  <2>1. signals \in {0, 1}
    BY <1>1, Parts DEF OneShot
  <2>2. ASSUME NEW k \in Paths, EmitDone(k)
        PROVE  completing.stop \/ cur = 0 \/ ~ Working(cur) \/ cur \in quiet
    <3>1. k # "stop" /\ pipe[k].st = "flushing" /\ pipe[k].epoch = epoch
      BY <1>1, <2>1, <2>2 DEF EmitDone
    <3>2. k = "complete" \/ k = "fail"
      BY <1>1, <3>1, Parts
    <3>3. QED
      BY <1>1, <3>1, <3>2, Parts DEF ResultsAreOfTurns, Past
  <2>3. CASE \A k \in Paths : ~ EmitDone(k)
    <3>1. signals' = signals \/ signals' = 0
      BY <1>1, <2>3
         DEF Next, vars, histVars, Posted, CompleteStart, CompletePosted, CompleteEnd,
         PromptArrives, PromptChecks, PromptFails, AttachRunner, StartRunner, RunnerRuns,
         RunnerThrows, Wakeup, RunnerEnds, RunnerDies, Result, StopBlocked, TaskStarts, TasksEnd,
         OthersSave, OthersSaved, StopSignal, Crash, Restore,
         RouterApplies, Hello
    <3>2. QED
      BY <1>1, <2>1, <3>1
  <2>4. QED
    BY <2>2, <2>3
<1>2. ASSUME AInv, [Next]_vars
      PROVE  [signals' > signals =>
                 completing.stop \/ cur = 0 \/ ~ Working(cur) \/ cur \in quiet]_vars
  BY <1>1, <1>2
<1>3. QED
  BY SessionInvariant, <1>2, PTL DEF Spec, PendingTurnNotReported

=============================================================================
