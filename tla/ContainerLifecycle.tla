------------------------- MODULE ContainerLifecycle -------------------------
(***************************************************************************)
(* The lifecycle sweep over one issue's container: ContainerLifecycle's    *)
(* listing, affinity gate, reclaim, stale-destroy, idle-stop and orphan    *)
(* passes, each await of them a point where sessions are routed, delivered *)
(* and finished, workers connect and drop, and rows are deleted.           *)
(*                                                                         *)
(* The timestamps of the device row, of the claims and of the agent runs   *)
(* are kept as ages, which Tick advances and a stamp sets to 0; each stops *)
(* past the last threshold it is compared with.                            *)
(***************************************************************************)
EXTENDS Integers, FiniteSets

CONSTANTS
    Sessions,
    Settle, IdleStop, AffinityGrace, OfflineAgeOut, Reclaim, StaleDestroy,
    MaxRoutes, \* bound on webhooks routed to the container and sessions resumed
    MaxMishaps \* bound on drops, lost terminals, dead workers, failed calls,
               \* deleted rows and closed issues

ASSUME ThresholdsAssumption ==
    /\ {Settle, IdleStop, AffinityGrace, OfflineAgeOut, Reclaim, StaleDestroy}
         \subseteq Nat
    /\ Settle <= IdleStop /\ IdleStop < AffinityGrace
    /\ OfflineAgeOut < Reclaim /\ AffinityGrace <= Reclaim /\ Reclaim < StaleDestroy
ASSUME BoundsAssumption == MaxRoutes \in Nat /\ MaxMishaps \in Nat

NoClaim == -1
NoRow == 0

VARIABLES
    \* RouterStore
    row,     \* the container's device id, NoRow when it has none
    clock,   \* ages of the row's stamps, and of the last agent run activity
    est,     \* age of each session's claim (session_affinity), or NoClaim
    queued,  \* sessions with an event that waits for the device
    pending, \* a terminal teardown is registered for the issue
    \* the container and its worker
    cont,
    owner,   \* the device whose token the container was created with
    online,
    live,     \* sessions the worker is at work on
    stranded, \* those it is done with and goes on declaring: their runner is attached
    waiting, \* sessions that wait for the user's answer
    \* the sweep
    pc, sw,
    \* History
    rows,    \* device ids given out
    since,   \* sessions routed or resumed since the sweep read the row
    steady,  \* the worker has been connected since then
    quiet,   \* age of the last thing that happened to the container
    routes, mishaps

store == <<row, clock, est, queued, pending>>
worker == <<cont, owner, online, live, stranded, waiting>>
hist == <<rows, since, steady, quiet, routes, mishaps>>
vars == <<store, worker, pc, sw, hist>>

\* touch is the younger of last_routed_ms and created_ms, which every reader of
\* the one takes the maximum of with the other; run is the younger of
\* last_progress_ms and getLastAgentRunActivityMs.
Oldest == [touch |-> StaleDestroy + 1, seen |-> StaleDestroy + 1,
           active |-> IdleStop + 1, parked |-> Reclaim + 1, run |-> Reclaim + 1]
OldestClaim == Reclaim + 1
NewClock == [Oldest EXCEPT !.touch = 0]
Claims == {s \in Sessions : est[s] # NoClaim}
Younger(a, b) == IF a < b THEN a ELSE b
Youngest(S) == CHOOSE a \in S : \A b \in S : a <= b

NoSweep == [dev |-> NoRow, known |-> FALSE, listing |-> "failed", sessions |-> {},
            ahead |-> {}, quiet |-> FALSE, stale |-> FALSE, idle |-> FALSE]

\* s claims the container while the sweep decides about it.
Noted(s) == IF pc \in {"query", "status"} THEN since \cup {s} ELSE since

Mishap == mishaps < MaxMishaps /\ mishaps' = mishaps + 1

Init ==
    /\ row = NoRow /\ clock = NewClock /\ est = [s \in Sessions |-> NoClaim]
    /\ queued = {} /\ pending = FALSE
    /\ cont = "absent" /\ owner = NoRow /\ online = FALSE
    /\ live = {} /\ stranded = {} /\ waiting = {}
    /\ pc = "idle" /\ sw = NoSweep
    /\ rows = 0 /\ since = {} /\ steady = FALSE /\ quiet = OldestClaim
    /\ routes = 0 /\ mishaps = 0

---------------------------------------------------------------------------
(* Time *)

Older(a, oldest) == IF a < oldest THEN a + 1 ELSE a

\* A tick is longer than a query of the device, a status call or the sending of
\* an event to a connected worker, whose heartbeat keeps last_seen_ms young.
Tick ==
    /\ pc \notin {"query", "status"} /\ (online => queued = {})
    /\ clock' = [f \in DOMAIN clock |->
                   IF f = "seen" /\ online THEN 0 ELSE Older(clock[f], Oldest[f])]
    /\ est' = [s \in Sessions |->
                 IF est[s] = NoClaim THEN NoClaim ELSE Older(est[s], OldestClaim)]
    /\ quiet' = IF online THEN 0 ELSE Older(quiet, OldestClaim)
    /\ UNCHANGED <<row, queued, pending, worker, pc, sw, rows, since, steady,
                   routes, mishaps>>

---------------------------------------------------------------------------
(* What happens beside the sweep *)

\* A webhook is routed to the container: its device is created when it has none,
\* setSessionAffinity claims it and enqueueEvent queues the event.
Route(s) ==
    /\ routes < MaxRoutes /\ routes' = routes + 1
    /\ IF row = NoRow
       THEN row' = rows + 1 /\ rows' = rows + 1
       ELSE UNCHANGED <<row, rows>>
    /\ clock' = [(IF row = NoRow THEN NewClock ELSE clock)
                   EXCEPT !.touch = 0, !.active = 0, !.parked = Oldest.parked]
    /\ est' = [est EXCEPT ![s] = 0]
    /\ queued' = queued \cup {s}
    /\ since' = Noted(s) /\ quiet' = 0
    /\ UNCHANGED <<pending, worker, pc, sw, steady, mishaps>>

\* ensureRunning, for the event that waits: a container that exists is started,
\* one that does not is created with the device's token.
Boot ==
    /\ row # NoRow /\ queued # {} /\ cont # "running"
    /\ cont' = "running"
    /\ owner' = IF cont = "absent" THEN row ELSE owner
    /\ UNCHANGED <<store, online, live, stranded, waiting, pc, sw, hist>>

Connect ==
    /\ row # NoRow /\ cont = "running" /\ owner = row /\ ~ online
    /\ online' = TRUE
    /\ clock' = [clock EXCEPT !.seen = 0]
    /\ quiet' = 0
    /\ UNCHANGED <<row, est, queued, pending, cont, owner, live, stranded, waiting, pc,
                   sw, rows, since, steady, routes, mishaps>>

Drop ==
    /\ online /\ online' = FALSE /\ Mishap
    /\ clock' = [clock EXCEPT !.seen = 0]
    /\ steady' = FALSE /\ quiet' = 0
    /\ UNCHANGED <<row, est, queued, pending, cont, owner, live, stranded, waiting, pc,
                   sw, rows, since, routes>>

\* The worker's process dies, and its container with it.  A session it was at work
\* on is restored and declared until it is reported as interrupted, unless it had
\* only its deferred signal left, which went with the process.
WorkerDies ==
    /\ cont = "running" /\ cont' = "stopped" /\ Mishap
    /\ live' \in SUBSET live /\ stranded' = {}
    /\ online' = FALSE /\ steady' = FALSE
    /\ UNCHANGED <<store, owner, waiting, pc, sw, rows, since, quiet, routes>>

Deliver(s) ==
    /\ online /\ s \in queued
    /\ queued' = queued \ {s}
    /\ live' = live \cup {s}
    /\ stranded' = stranded \ {s} /\ waiting' = waiting \ {s}
    /\ UNCHANGED <<row, clock, est, pending, cont, owner, online, pc, sw, hist>>

\* The agent posts something: markDeviceProgress and the run's activity.
Activity(s) ==
    /\ online /\ s \in live
    /\ clock' = [clock EXCEPT !.run = 0]
    /\ quiet' = 0
    /\ UNCHANGED <<row, est, queued, pending, worker, pc, sw, rows, since, steady,
                   routes, mishaps>>

\* A terminal frame: the run ends and the claim is dropped.  (One that crosses
\* the session's next prompt is SessionOwnership's subject.)
Finish(s) ==
    /\ online /\ s \in live \ queued /\ live' = live \ {s}
    /\ clock' = [clock EXCEPT !.run = 0]
    /\ est' = [est EXCEPT ![s] = NoClaim]
    /\ quiet' = 0
    /\ UNCHANGED <<row, queued, pending, cont, owner, online, stranded, waiting, pc, sw,
                   rows, since, steady, routes, mishaps>>

\* The agent is done and the router never learns of it: the claim leaks, and the
\* worker goes on declaring it (getLiveSessionIds).
Leak(s) ==
    /\ s \in live /\ live' = live \ {s} /\ stranded' = stranded \cup {s} /\ Mishap
    /\ UNCHANGED <<store, cont, owner, online, waiting, pc, sw, rows, since, steady, quiet,
                   routes>>

\* waiting: the claim is released while the session waits for the user ...
Park(s) ==
    /\ online /\ s \in live \ queued /\ live' = live \ {s} /\ waiting' = waiting \cup {s}
    /\ est' = [est EXCEPT ![s] = NoClaim]
    /\ clock' = [clock EXCEPT !.parked = 0]
    /\ quiet' = 0
    /\ UNCHANGED <<row, queued, pending, cont, owner, online, stranded, pc, sw, rows,
                   since, steady, routes, mishaps>>

\* ... and active: the session goes on and its claim is restored.
Unpark(s) ==
    /\ online /\ s \in waiting /\ waiting' = waiting \ {s} /\ live' = live \cup {s}
    /\ est' = [est EXCEPT ![s] = 0]
    /\ clock' = [clock EXCEPT !.active = 0, !.parked = Oldest.parked]
    /\ since' = Noted(s) /\ quiet' = 0
    /\ routes < MaxRoutes /\ routes' = routes + 1
    /\ UNCHANGED <<row, queued, pending, cont, owner, online, stranded, pc, sw, rows,
                   steady, mishaps>>

\* deleteContainerDevice: the row goes with its claims, its queue, its lock.
RowGone ==
    /\ row' = NoRow /\ clock' = NewClock /\ est' = [s \in Sessions |-> NoClaim]
    /\ queued' = {} /\ pending' = FALSE

ContainerGone ==
    /\ cont' = "absent" /\ owner' = NoRow /\ online' = FALSE
    /\ live' = {} /\ stranded' = {} /\ waiting' = {}

\* An operator removes the row, or its user, and leaves the container.
RemoveRow ==
    /\ row # NoRow /\ Mishap
    /\ RowGone /\ online' = FALSE /\ steady' = FALSE
    /\ UNCHANGED <<cont, owner, live, stranded, waiting, pc, sw, rows, since, quiet,
                   routes>>

\* The issue is closed, and TerminalTeardown removes container and row.
CloseIssue ==
    /\ row # NoRow /\ ~ pending /\ Mishap /\ pending' = TRUE
    /\ UNCHANGED <<row, clock, est, queued, worker, pc, sw, rows, since, steady,
                   quiet, routes>>

Teardown ==
    /\ pending
    /\ RowGone /\ ContainerGone /\ steady' = FALSE
    /\ UNCHANGED <<pc, sw, rows, since, quiet, routes, mishaps>>

---------------------------------------------------------------------------
(* The sweep *)

SweepStart ==
    /\ pc = "idle" /\ pc' = "listing"
    /\ sw' = [NoSweep EXCEPT !.dev = row, !.known = (row # NoRow)]
    /\ UNCHANGED <<store, worker, hist>>

\* readProviderListings: what the provider owns, or that it did not answer.
Listed ==
    /\ pc = "listing" /\ pc' = IF sw.dev = NoRow THEN "orphans" ELSE "row"
    /\ \/ /\ sw' = [sw EXCEPT !.listing = cont]
          /\ UNCHANGED mishaps
       \/ Mishap /\ UNCHANGED sw
    /\ UNCHANGED <<store, worker, rows, since, steady, quiet, routes>>

\* The clocks, each as a maximum of stamps: the age of the youngest.
IdleFor(c) == Youngest({c.touch, c.active, c.parked})
LastTouch(c) == Younger(c.touch, c.seen)
\* Faulty variant: the heartbeat and the agent's activity are left out.
QuietForRouted(c) == Younger(c.touch, c.parked)

QuietFor(c) == Youngest({c.touch, c.seen, c.run, c.parked})

\* Faulty variant: the veto trusts the row the decision was made from.
IdleStopVetoStale(c) == row # sw.dev

\* idleStopVeto, against the row as it stands, `c` being its clock.
IdleStopVeto(c) ==
    \/ row # sw.dev
    \/ IdleFor(c) <= IdleStop
    \/ c.run <= Settle

\* reclaimVeto, against the clock `c` and the claims `e` as they stand.
ReclaimVeto(c, e) ==
    \/ row # sw.dev
    \/ pending
    \/ sw.listing = "failed"
    \/ Youngest({QuietFor(c)} \cup ({e[s] : s \in Sessions} \ {NoClaim})) <= Reclaim

\* From the resolved affinity to the next await: `was` holds what the row that
\* was read said, `c` and `e` are the clock and the claims now.
Decide(was, c, e, affinity) ==
    LET now == IF affinity > 0 /\ row = sw.dev THEN [c EXCEPT !.active = 0] ELSE c
    IN  /\ clock' = now
        /\ pc' = IF \/ was.quiet /\ ~ ReclaimVeto(now, e)
                    \/ was.stale /\ affinity = 0
                 THEN "destroying"
                 ELSE IF was.idle /\ affinity = 0 /\ ~ IdleStopVeto(now)
                 THEN "status" ELSE "orphans"

\* The row is read again.  A connected worker with claims is asked; otherwise
\* the sweep decides at once, an offline worker's claims counting while young.
RowRead ==
    /\ pc = "row"
    /\ steady' = online
    /\ IF row # sw.dev
       THEN pc' = "orphans" /\ UNCHANGED <<sw, clock>>
       ELSE /\ sw' = [sw EXCEPT !.sessions = Claims, !.ahead = queued,
                                !.quiet = QuietFor(clock) > Reclaim,
                                !.stale = LastTouch(clock) > StaleDestroy,
                                !.idle = IdleFor(clock) > IdleStop]
            /\ IF Claims # {} /\ online
               THEN pc' = "query" /\ UNCHANGED clock
               ELSE Decide(sw', clock, est,
                           Cardinality({s \in Claims : est[s] <= OfflineAgeOut}))
    /\ UNCHANGED <<row, est, queued, pending, worker, rows, since, quiet, routes,
                   mishaps>>

\* Faulty variant: no claim is ever reclaimed.
UndeclaredNever(declared) == {}

\* reconcileDeviceAffinity: the claims it reclaims.
Undeclared(declared) == {s \in Claims \ declared : est[s] >= AffinityGrace}

\* The worker answers with the sessions it has, having taken in every event sent
\* before the question; one it is still setting up may be missing.  A claim it
\* does not declare is reclaimed, and its run marked ended unless it already was.
Answer ==
    /\ pc = "query" /\ online /\ row = sw.dev /\ sw.ahead \cap queued = {}
    /\ \E setup \in SUBSET {s \in live : est[s] < AffinityGrace} :
         LET gone == Undeclared((live \cup stranded \cup waiting) \ setup)
             left == [s \in Sessions |-> IF s \in gone THEN NoClaim ELSE est[s]]
         IN  /\ est' = left
             /\ \E run \in {clock.run} \cup (IF gone = {} THEN {} ELSE {0}) :
                  Decide(sw, [clock EXCEPT !.run = run], left,
                         Cardinality(Claims \ gone))
    /\ UNCHANGED <<row, queued, pending, worker, sw, hist>>

\* No answer: every claim of the device counts.
NoAnswer ==
    /\ pc = "query"
    /\ IF online /\ row = sw.dev THEN Mishap ELSE UNCHANGED mishaps
    /\ Decide(sw, clock, est, IF row = sw.dev THEN Cardinality(Claims) ELSE 0)
    /\ UNCHANGED <<row, est, queued, pending, worker, sw, rows, since, steady, quiet,
                   routes>>

\* The container's status is known: the claims and the clock are looked at again,
\* and the stop is issued.
Status ==
    /\ pc = "status"
    /\ IF row = sw.dev /\ Claims \ sw.sessions # {}
       THEN /\ clock' = [clock EXCEPT !.active = 0]
            /\ pc' = "orphans"
       ELSE /\ UNCHANGED clock
            /\ pc' = IF ~ IdleStopVeto(clock) /\ cont = "running"
                     THEN "stopping" ELSE "orphans"
    /\ UNCHANGED <<row, est, queued, pending, worker, sw, hist>>

Stopped ==
    /\ pc = "stopping" /\ pc' = "orphans"
    /\ IF cont = "running"
       THEN /\ cont' = "stopped" /\ online' = FALSE /\ steady' = FALSE
            /\ live' = {} /\ stranded' = {} /\ waiting' = {} /\ UNCHANGED owner
       ELSE UNCHANGED <<worker, steady>>
    /\ UNCHANGED <<store, sw, rows, since, quiet, routes, mishaps>>

\* The container is destroyed by its issue key, then the row that was read goes.
Destroyed ==
    /\ pc = "destroying" /\ pc' = "orphans"
    /\ ContainerGone /\ steady' = FALSE
    /\ IF row = sw.dev THEN RowGone ELSE UNCHANGED store
    /\ UNCHANGED <<sw, rows, since, quiet, routes, mishaps>>

\* A provider call throws: the row is left for the next tick.
CallFails ==
    /\ pc \in {"status", "stopping", "destroying", "collecting"} /\ Mishap
    /\ pc' = IF pc = "collecting" THEN "idle" ELSE "orphans"
    /\ UNCHANGED <<store, worker, sw, rows, since, steady, quiet, routes>>

\* Faulty variant: the store is not looked at again.
OrphanFoundKnown == sw.listing \in {"running", "stopped"} /\ ~ sw.known

\* The provider listed the container, and no row knew it then or knows it now.
OrphanFound == sw.listing \in {"running", "stopped"} /\ ~ sw.known /\ row = NoRow

Orphans ==
    /\ pc = "orphans" /\ pc' = IF OrphanFound THEN "collecting" ELSE "idle"
    /\ sw' = NoSweep /\ since' = {} /\ steady' = FALSE
    /\ UNCHANGED <<store, worker, rows, quiet, routes, mishaps>>

Collected ==
    /\ pc = "collecting" /\ pc' = "idle"
    /\ ContainerGone /\ steady' = FALSE
    /\ UNCHANGED <<store, sw, rows, since, quiet, routes, mishaps>>

Sweep ==
    \/ SweepStart \/ Listed \/ RowRead \/ Answer \/ NoAnswer \/ Status \/ Stopped
    \/ Destroyed \/ CallFails \/ Orphans \/ Collected

Next ==
    \/ Tick
    \/ \E s \in Sessions : \/ Route(s) \/ Deliver(s) \/ Activity(s) \/ Finish(s)
                           \/ Leak(s) \/ Park(s) \/ Unpark(s)
    \/ Boot \/ Connect \/ Drop \/ WorkerDies \/ RemoveRow \/ CloseIssue \/ Teardown
    \/ Sweep

Spec == Init /\ [][Next]_vars

\* Time passes, the sweep's interval fires and its calls return, and a worker
\* takes in what it is sent.
FairSpec ==
    /\ Spec
    /\ SF_vars(Tick) /\ WF_vars(Sweep) /\ WF_vars(Teardown)
    /\ \A s \in Sessions : WF_vars(Deliver(s))

---------------------------------------------------------------------------
(* Properties *)

\* Every variable keeps to its values.
TypeOK ==
    /\ row \in 0 .. rows /\ owner \in 0 .. rows
    /\ \A f \in DOMAIN Oldest : clock[f] \in 0 .. Oldest[f]
    /\ est \in [Sessions -> NoClaim .. OldestClaim]
    /\ {queued, live, stranded, waiting} \subseteq SUBSET Sessions
    /\ cont \in {"absent", "stopped", "running"}
    /\ {pending, online, steady} \subseteq BOOLEAN
    /\ pc \in {"idle", "listing", "row", "query", "status", "stopping", "destroying",
               "orphans", "collecting"}
    /\ sw.dev \in 0 .. rows /\ sw.sessions \subseteq Sessions /\ sw.ahead \subseteq Sessions
    /\ sw.listing \in {"failed", "absent", "stopped", "running"}

\* A stop is never issued on a session that was routed or resumed while the sweep
\* made up its mind, across the query to the device and the status call, nor on
\* one that a worker connected all along is at work on (claimedMidSweep and the
\* two idleStopVeto calls).
StopSparesWork ==
    [][pc # "stopping" /\ pc' = "stopping" =>
         since = {} /\ (steady => live = {})]_vars

\* A container is destroyed as stranded or stale only when nothing has happened
\* to it for the whole window - no event routed, no worker connected, no agent
\* at work: every activity moves some clock the decision reads (quietSince).
DestroyOnlyQuiet ==
    [][pc # "destroying" /\ pc' = "destroying" => quiet > Reclaim]_vars

\* Orphan collection never takes a container that a connected worker, a waiting
\* event or a claim depends on, in whatever order the snapshot of the rows, the
\* listing, the route and the boot came about (knownKeys and its re-check).
OrphanNotInUse ==
    [][pc # "collecting" /\ pc' = "collecting" =>
         ~ online /\ queued = {} /\ Claims = {}]_vars

\* A claim that leaked does not keep a container up for ever: one that no session
\* works in is stopped or gone in the end, unless work comes (resolveAffinity,
\* reconcileDeviceAffinity).  A connected worker that goes on declaring the claim
\* is the exception ContainerLifecycle documents: it is reported, never reclaimed.
IdleContainerStops ==
    cont = "running" ~> \/ cont # "running" \/ live # {}
                        \/ online /\ Claims \cap stranded # {}

=============================================================================
