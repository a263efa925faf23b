-------------------------- MODULE RunnerConcurrency --------------------------
(***************************************************************************)
(* The cap on concurrently executing runner sessions: SessionSemaphore and *)
(* the gate that capRunnerStarts puts around start() and startStreaming(). *)
(*                                                                         *)
(* acquire, release and setLimit are synchronous, so each is one step.  A  *)
(* resolved acquire() continues in a later turn: a start may hold a slot   *)
(* it does not run in yet.  No limit (Infinity) is a limit of at least the *)
(* number of starts.                                                       *)
(***************************************************************************)
EXTENDS Integers, Sequences, FiniteSets

CONSTANTS
    Starts, \* runner starts, each made at most once
    Limits  \* values of maxConcurrentSessions, >= 1

ASSUME StartsAssumption == IsFiniteSet(Starts)
ASSUME LimitsAssumption == Limits \subseteq Nat \ {0}

VARIABLES
    activeCount, \* slots taken
    limit,
    waiters,     \* starts whose acquire() is unresolved, in order
    pc           \* where each start is

semVars == <<activeCount, limit, waiters, pc>>

Stages == {"idle", "waiting", "granted", "running", "done"}
Holders == {s \in Starts : pc[s] \in {"granted", "running"}}

SemInit ==
    /\ activeCount = 0
    /\ limit \in Limits
    /\ waiters = <<>>
    /\ pc = [s \in Starts |-> "idle"]

\* acquire(): a free slot is taken at once, otherwise the start queues up.
Acquire(s) ==
    /\ pc[s] = "idle"
    /\ IF activeCount < limit
       THEN /\ activeCount' = activeCount + 1
            /\ pc' = [pc EXCEPT ![s] = "granted"]
            /\ UNCHANGED waiters
       ELSE /\ waiters' = Append(waiters, s)
            /\ pc' = [pc EXCEPT ![s] = "waiting"]
            /\ UNCHANGED activeCount
    /\ UNCHANGED limit

\* Faulty variant: a release hands on its own slot only.
AdmissibleOne(count, lim) ==
    IF lim <= count \/ waiters = <<>> THEN 0 ELSE 1

\* How many waiters fit beside `count` sessions under the limit `lim`.
Admissible(count, lim) ==
    IF lim <= count THEN 0
    ELSE IF lim - count < Len(waiters) THEN lim - count ELSE Len(waiters)

\* admitWaiters, with `count` slots taken under limit `lim` and the starts at
\* `at`: the head of the queue gets the free slots, one by one.
AdmitWaiters(count, lim, at) ==
    LET n == Admissible(count, lim) IN
    /\ activeCount' = count + n
    /\ waiters' = SubSeq(waiters, n + 1, Len(waiters))
    /\ pc' = [s \in Starts |->
                IF \E i \in 1 .. n : waiters[i] = s THEN "granted" ELSE at[s]]

\* The gate goes on after acquire() and calls the runner's start.
Run(s) ==
    /\ pc[s] = "granted"
    /\ pc' = [pc EXCEPT ![s] = "running"]
    /\ UNCHANGED <<activeCount, limit, waiters>>

\* The runner's promise settles, either way: release() in the finally, which
\* does nothing when no slot is taken.
Release(s) ==
    /\ pc[s] = "running"
    /\ IF activeCount = 0
       THEN pc' = [pc EXCEPT ![s] = "done"] /\ UNCHANGED <<activeCount, waiters>>
       ELSE AdmitWaiters(activeCount - 1, limit, [pc EXCEPT ![s] = "done"])
    /\ UNCHANGED limit

\* Faulty variant: a changed limit starts over with an empty queue.
SetLimitDropping(l) ==
    /\ limit' = l /\ waiters' = <<>> /\ UNCHANGED activeCount
    /\ pc' = [s \in Starts |-> IF pc[s] = "waiting" THEN "done" ELSE pc[s]]

\* The configuration is reloaded: setLimit.
SetLimit(l) ==
    /\ limit' = l
    /\ AdmitWaiters(activeCount, l, pc)

\* The worker process restarts: a new semaphore, and no start of the old one.
Restart ==
    /\ activeCount' = 0
    /\ limit' \in Limits
    /\ waiters' = <<>>
    /\ pc' = [s \in Starts |-> IF pc[s] = "idle" THEN "idle" ELSE "done"]

SemNext ==
    \/ \E s \in Starts : Acquire(s) \/ Run(s) \/ Release(s)
    \/ \E l \in Limits : SetLimit(l)
    \/ Restart

SemSpec == SemInit /\ [][SemNext]_semVars

---------------------------------------------------------------------------
(* Properties *)

\* Every variable of the semaphore keeps to its values.
SemTypeOK ==
    /\ activeCount \in Nat
    /\ limit \in Limits
    /\ waiters \in Seq(Starts)
    /\ pc \in [Starts -> Stages]

\* activeCount is the number of starts that hold a slot: none is counted twice
\* or lost between an admission, its run and its release, so the clamp at zero
\* in release() is never needed and the cap never drifts.
SlotsCounted == activeCount = Cardinality(Holders)

\* The queue and the stages tell the same story: exactly the starts that wait
\* are queued, each once, so every waiter is admitted at most once.
WaitersQueued ==
    /\ {waiters[i] : i \in DOMAIN waiters} = {s \in Starts : pc[s] = "waiting"}
    /\ \A i, j \in DOMAIN waiters : waiters[i] = waiters[j] => i = j

\* No start waits beside a free slot, whatever order of finishes and limit
\* changes came before ("begin automatically as running sessions finish").
NoIdleSlot == waiters # <<>> => activeCount >= limit

Gate == INSTANCE RunnerGate WITH inside <- Holders, line <- waiters, cap <- limit

\* The counter implements the gate: with the slots counted rather than the starts
\* known, every acquire, release, limit change and restart still admits exactly
\* the starts of the line that the cap has room for.
ImplementsGate == Gate!GateSpec
=============================================================================
