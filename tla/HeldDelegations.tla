-------------------------- MODULE HeldDelegations --------------------------
(***************************************************************************)
(* The delegations of one issue between Linear's webhook and the device    *)
(* queue: the idempotency claim, the repository gate, the devcontainer     *)
(* image gate and the rows that hold a delegation behind either of them    *)
(* (EventRouter.routeInner, routeCreated, resumeHeldSelection and          *)
(* releaseHeldDevcontainerBuilds, DevcontainerImageService, and their      *)
(* tables in RouterStore).                                                 *)
(*                                                                         *)
(* A handler runs from one await to the next; everything between two       *)
(* awaits is one step.  The resolver, the registry, GitHub, the builder    *)
(* and Linear answer as they like.  A post to Linear may fail.             *)
(***************************************************************************)
EXTENDS Integers, FiniteSets

CONSTANTS
    Sessions,   \* agent sessions delegated on the issue
    Versions,   \* contents of the repository's devcontainer, as cache keys
    NoVersion,  \* no cache key
    MaxPrompts, \* bound on prompts that find a held selection
    MaxFaults,  \* bound on failed posts
    MaxCrashes, \* bound on router crashes
    MaxOutside  \* bound on edits of the devcontainer and builds from the setup page

ASSUME HeldAssumption ==
    /\ NoVersion \notin Versions /\ Versions # {}
    /\ MaxPrompts \in Nat /\ MaxFaults \in Nat
    /\ MaxCrashes \in Nat /\ MaxOutside \in Nat

VARIABLES
    \* RouterStore
    claimed, \* sessions whose created webhook is in webhook_claims
    decided, \* issue_repositories has a row
    sel,     \* pending_repo_selections: no row, with options, or without
    hold,    \* pending_devcontainer_builds: the cache key a session is held on
    image,   \* repo_devcontainer_images: the state of each cache key
    pin,     \* issue_disk_images: the issue has a disk
    \* The router process
    up,       \* it is running
    handlers, \* its unfinished handlers, each at the await it is in
    builds,   \* runBuild calls in flight
    notified, \* devcontainerNotified has the issue
    \* Outside
    content, \* what the repository's devcontainer is now
    \* History
    delivered, \* how often each session's created event was queued
    told,      \* sessions whose user was told that nothing will run
    stopped,   \* sessions abandoned by a stop
    lost,      \* sessions that were in memory when a step failed for good
    late,      \* sessions whose hold was stored after its build had ended
    again,     \* how often a session's row was stored again although it was queued
    prompts, faults, crashes, outside

store == <<claimed, decided, sel, hold, image, pin>>
fates == <<delivered, told, stopped, lost, late, again>>
bounds == <<prompts, faults, crashes, outside>>
vars == <<store, up, handlers, builds, notified, content, fates, bounds>>

\* Where a handler waits.  "start" is the turn of the next session a release
\* has taken; "quiet" is a courtesy post whose failure is only logged.
Awaits == {"start", "resolving", "unavailable", "asking", "choosing", "listing",
           "fetching", "quiet", "notice", "rejecting", "waiting", "expiring"}

\* s is the session being handled, rest those still to come, v the cache key a
\* notice is posted for, n what tells one handler of a kind from another.
Handler == [s : Sessions, rest : SUBSET Sessions, at : Awaits,
            by : {"created", "answer", "replay", "release", "sweep"},
            n : Nat, v : Versions \cup {NoVersion}]

\* A handler has still to queue, hold or refuse the session's event; at "waiting"
\* it is queued and only the notice that the device is offline is under way.
InHandler(s) == \E h \in handlers : (s = h.s /\ h.at # "waiting") \/ s \in h.rest
HeldOn(v) == {s \in Sessions : hold[s] = v}

Init ==
    /\ claimed = {} /\ decided = FALSE /\ pin = FALSE
    /\ sel = [s \in Sessions |-> "none"]
    /\ hold = [s \in Sessions |-> NoVersion]
    /\ image = [v \in Versions |-> "none"]
    /\ up = TRUE /\ handlers = {} /\ builds = {} /\ notified = FALSE
    /\ content = CHOOSE v \in Versions : TRUE
    /\ delivered = [s \in Sessions |-> 0] /\ again = [s \in Sessions |-> 0]
    /\ told = {} /\ stopped = {} /\ lost = {} /\ late = {}
    /\ prompts = 0 /\ faults = 0 /\ crashes = 0 /\ outside = 0

Fault == faults < MaxFaults /\ faults' = faults + 1

---------------------------------------------------------------------------
(* Moving between awaits *)

\* The loop of releaseHeldDevcontainerBuilds and of the sweep's last pass.
NextTurn(h) ==
    IF h.rest = {} THEN {}
    ELSE LET n == CHOOSE s \in h.rest : TRUE
         IN {[h EXCEPT !.s = n, !.rest = @ \ {n}, !.v = NoVersion,
                       !.at = IF h.by = "sweep" THEN "expiring" ELSE "start"]}

\* h goes on to wait at `at`, or is done with its session.
Moved(h, at) ==
    (handlers \ {h}) \cup IF at = "done" THEN NextTurn(h) ELSE {[h EXCEPT !.at = at]}

\* ensureDevcontainerImage up to its first await.
EnvironmentGate(s) == IF hold[s] # NoVersion THEN "done" ELSE "listing"

\* routeCreated up to its first await, with d saying whether the issue has a
\* decision and row what the session's selection row is.
RouteCreated(s, d, row) ==
    IF d THEN EnvironmentGate(s)
    ELSE IF row # "none" THEN "done" ELSE "resolving"

\* routeCreated after the gates: the event is queued for the issue's device, and
\* for a laptop that is offline a notice is posted after that; or the event is
\* refused (no device, unusable key, locked issue) with a post.
Target(h) ==
    \/ /\ \E at \in {"done", "waiting"} : handlers' = Moved(h, at)
       /\ delivered' = [delivered EXCEPT ![h.s] = @ + 1]
    \/ /\ handlers' = Moved(h, "rejecting")
       /\ UNCHANGED delivered

\* The process dies: what only its handlers knew is gone.
Down ==
    /\ up' = FALSE /\ handlers' = {} /\ builds' = {} /\ notified' = FALSE
    /\ lost' = lost \cup {s \in Sessions : InHandler(s)}

\* Faulty variant: a failed replay of an answered selection is only logged.
RethrowLogged(h) ==
    /\ handlers' = handlers \ {h}
    /\ UNCHANGED <<sel, up, builds, notified, lost, again>>

\* An error out of routeCreated.  The handler of an answer stores the selection
\* again and a release goes on without the session; from anywhere else the
\* error leaves route(), which nobody awaits, and takes the process with it.
Rethrow(h) ==
    /\ sel' = IF h.by = "answer" THEN [sel EXCEPT ![h.s] = "options"] ELSE sel
    /\ again' = IF h.by = "answer" /\ h.at = "waiting"
                THEN [again EXCEPT ![h.s] = @ + 1] ELSE again
    /\ \/ /\ h.by \in {"answer", "release"}
          /\ handlers' = Moved(h, "done")
          /\ lost' = IF h.by = "release" /\ h.at # "waiting" THEN lost \cup {h.s} ELSE lost
          /\ UNCHANGED <<up, builds, notified>>
       \/ h.by \in {"created", "replay"} /\ Down

---------------------------------------------------------------------------
(* The created webhook and the repository gate *)

NewHandler(s, by, n, at) ==
    IF at = "done" THEN {}
    ELSE {[s |-> s, rest |-> {}, at |-> at, by |-> by, n |-> n, v |-> NoVersion]}

\* routeInner: Linear delivers the webhook at least once, and only the first
\* delivery gets the claim.
Created(s) ==
    /\ up /\ s \notin claimed
    /\ claimed' = claimed \cup {s}
    /\ handlers' = handlers \cup
                   NewHandler(s, "created", 0, RouteCreated(s, decided, sel[s]))
    /\ UNCHANGED <<decided, sel, hold, image, pin, up, builds, notified,
                   content, fates, bounds>>

\* The next session of a release.
StartTurn(h) ==
    /\ h.at = "start"
    /\ handlers' = Moved(h, RouteCreated(h.s, decided, sel[h.s]))
    /\ UNCHANGED <<store, up, builds, notified, content, fates, bounds>>

\* The resolver answers: a decision, no repository to offer, or a question.
Resolve(h) ==
    /\ h.at = "resolving"
    /\ \/ decided' = TRUE /\ handlers' = Moved(h, EnvironmentGate(h.s))
       \/ \E at \in {"unavailable", "asking"} :
             UNCHANGED decided /\ handlers' = Moved(h, at)
    /\ UNCHANGED <<claimed, sel, hold, image, pin, up, builds, notified,
                   content, fates, bounds>>

\* createPendingRepoSelection: the options offered, none when there were none.
RowFor(h) == IF h.at = "asking" THEN "options" ELSE "empty"

\* The notice or the question is posted, and only then the row stored.
Hold(h) ==
    /\ h.at \in {"unavailable", "asking"}
    /\ sel' = [sel EXCEPT ![h.s] = RowFor(h)]
    /\ handlers' = Moved(h, "done")
    /\ UNCHANGED <<claimed, decided, hold, image, pin, up, builds, notified,
                   content, fates, bounds>>

\* The question could not be posted: a fallback is decided instead of holding
\* an event that nobody would release.
AskFails(h) ==
    /\ h.at = "asking" /\ Fault
    /\ decided' = TRUE
    /\ handlers' = Moved(h, EnvironmentGate(h.s))
    /\ UNCHANGED <<claimed, sel, hold, image, pin, up, builds, notified,
                   content, fates, prompts, crashes, outside>>

\* The post of a refusal, of "no repositories" or of "device offline" fails.
PostFails(h) ==
    /\ h.at \in {"unavailable", "rejecting", "waiting"} /\ Fault
    /\ Rethrow(h)
    /\ UNCHANGED <<claimed, decided, hold, image, pin, content,
                   delivered, told, stopped, late, prompts, crashes, outside>>

\* The user is told that the event waits for the laptop.
WaitingPosted(h) ==
    /\ h.at = "waiting"
    /\ handlers' = Moved(h, "done")
    /\ UNCHANGED <<store, up, builds, notified, content, fates, bounds>>

\* The user is told why nothing runs.
Rejected(h) ==
    /\ h.at = "rejecting"
    /\ told' = told \cup {h.s}
    /\ handlers' = Moved(h, "done")
    /\ UNCHANGED <<store, up, builds, notified, content,
                   delivered, stopped, lost, late, again, bounds>>

---------------------------------------------------------------------------
(* The answer to a held selection *)

\* Faulty variant: the row is deleted once the replay has gone through.
TakeRowLater(s) == UNCHANGED sel

\* deletePendingRepoSelection, before the first await.
TakeRow(s) == sel' = [sel EXCEPT ![s] = "none"]

Prompted == up /\ prompts < MaxPrompts /\ prompts' = prompts + 1

\* A stop from the session's creator abandons the held delegation.
StopHeld(s) ==
    /\ Prompted /\ sel[s] # "none"
    /\ sel' = [sel EXCEPT ![s] = "none"]
    /\ stopped' = stopped \cup {s}
    /\ UNCHANGED <<claimed, decided, hold, image, pin, up, handlers, builds, notified,
                   content, delivered, told, lost, late, again, faults, crashes,
                   outside>>

\* Any other prompt of the creator.  A row with options is answered; a row
\* without is replayed through the gate.
AnswerHeld(s) ==
    /\ Prompted /\ sel[s] # "none"
    /\ TakeRow(s)
    /\ handlers' = handlers \cup
          IF sel[s] = "options"
          THEN NewHandler(s, "answer", prompts', "choosing")
          ELSE NewHandler(s, "replay", prompts', RouteCreated(s, decided, "none"))
    /\ UNCHANGED <<claimed, decided, hold, image, pin, up, builds, notified,
                   content, fates, faults, crashes, outside>>

\* The registry has answered: the choice, or a fallback, is stored and the held
\* event goes through routeCreated.
Choose(h) ==
    /\ h.at = "choosing"
    /\ decided' = TRUE
    /\ handlers' = Moved(h, RouteCreated(h.s, TRUE, sel[h.s]))
    /\ UNCHANGED <<claimed, sel, hold, image, pin, up, builds, notified,
                   content, fates, bounds>>

---------------------------------------------------------------------------
(* The devcontainer image gate *)

\* ensureDevcontainerImage on a "ready" outcome.
ImageReady(h) ==
    IF notified
    THEN notified' = FALSE /\ handlers' = Moved(h, "quiet") /\ UNCHANGED delivered
    ELSE UNCHANGED notified /\ Target(h)

\* ... and on a "failed" one.
ImageFailed(h) ==
    notified' = FALSE /\ handlers' = Moved(h, "quiet") /\ UNCHANGED delivered

\* repositoriesForIssue: none registered, several, or one, whose image is
\* looked up unless the issue already has its disk.
Listed(h) ==
    /\ h.at = "listing"
    /\ \/ Target(h) /\ UNCHANGED notified
       \/ handlers' = Moved(h, "quiet") /\ UNCHANGED <<notified, delivered>>
       \/ pin /\ ImageReady(h)
       \/ ~ pin /\ handlers' = Moved(h, "fetching") /\ UNCHANGED <<notified, delivered>>
    /\ UNCHANGED <<store, up, builds, content, told, stopped, lost, late, again, bounds>>

\* startBuild: claimDevcontainerBuild takes a key that has no row or a failed one.
StartBuild(v) ==
    /\ builds' = builds \cup {v}
    /\ image' = [image EXCEPT ![v] = "building"]

\* GitHub has answered, with no devcontainer, an error, or the content the
\* image is keyed by.
Fetched(h) ==
    /\ h.at = "fetching"
    /\ LET v == content IN
       \/ /\ \/ Target(h) /\ UNCHANGED notified
             \/ ImageFailed(h)
             \/ image[v] = "failed" /\ ImageFailed(h)
          /\ UNCHANGED <<hold, image, pin, builds>>
       \/ /\ image[v] = "ready" /\ pin' = TRUE
          /\ ImageReady(h)
          /\ UNCHANGED <<hold, image, builds>>
       \/ /\ image[v] \in {"none", "building"}
          /\ IF image[v] = "none" THEN StartBuild(v) ELSE UNCHANGED <<image, builds>>
          /\ IF notified
             THEN hold' = [hold EXCEPT ![h.s] = v] /\ handlers' = Moved(h, "done")
             ELSE /\ handlers' = (handlers \ {h}) \cup {[h EXCEPT !.at = "notice", !.v = v]}
                  /\ UNCHANGED hold
          /\ notified' = TRUE
          /\ UNCHANGED <<pin, delivered>>
    /\ UNCHANGED <<claimed, decided, sel, up, content, told, stopped, lost, late, again, bounds>>

\* The "building" notice is posted, or has failed: the event is held.
HoldOnBuild(h) ==
    /\ h.at = "notice"
    /\ hold' = [hold EXCEPT ![h.s] = h.v]
    /\ late' = IF image[h.v] = "building" THEN late ELSE late \cup {h.s}
    /\ handlers' = Moved(h, "done")
    /\ UNCHANGED <<claimed, decided, sel, image, pin, up, builds, notified, content,
                   delivered, told, stopped, lost, again, bounds>>

\* A courtesy post is over.
QuietPosted(h) ==
    /\ h.at = "quiet"
    /\ Target(h)
    /\ UNCHANGED <<store, up, builds, notified, content, told, stopped, lost, late, again, bounds>>

\* takePendingDevcontainerBuilds, and the handler that replays what it took.
Release(taken) ==
    IF taken = {} THEN {}
    ELSE LET s == CHOOSE s \in taken : TRUE
         IN {[s |-> s, rest |-> taken \ {s}, at |-> "listing", by |-> "release",
              n |-> 0, v |-> NoVersion]}

\* Faulty variant: only a build that succeeds releases what is held on it.
BuildEndsReadyOnly(v) ==
    /\ v \in builds /\ builds' = builds \ {v}
    /\ \E outcome \in {"ready", "failed"} :
          /\ image' = [image EXCEPT ![v] = outcome]
          /\ LET taken == IF outcome = "ready" THEN HeldOn(v) ELSE {}
             IN /\ hold' = [s \in Sessions |-> IF s \in taken THEN NoVersion ELSE hold[s]]
                /\ handlers' = handlers \cup Release(taken)
                /\ late' = late \ taken
    /\ UNCHANGED <<claimed, decided, sel, pin, up, notified, content,
                   delivered, told, stopped, lost, again, bounds>>

\* A build ends: its row is settled and whatever is held on it released.
BuildEnds(v) ==
    /\ v \in builds /\ builds' = builds \ {v}
    /\ \E outcome \in {"ready", "failed"} : image' = [image EXCEPT ![v] = outcome]
    /\ hold' = [s \in Sessions |-> IF hold[s] = v THEN NoVersion ELSE hold[s]]
    /\ handlers' = handlers \cup Release(HeldOn(v))
    /\ late' = late \ HeldOn(v)
    /\ UNCHANGED <<claimed, decided, sel, pin, up, notified, content,
                   delivered, told, stopped, lost, again, bounds>>

\* warmBuild, from the setup page: only there is a failed build tried again.
WarmBuild ==
    /\ up /\ outside < MaxOutside /\ outside' = outside + 1
    /\ image[content] \in {"none", "failed"}
    /\ StartBuild(content)
    /\ UNCHANGED <<claimed, decided, sel, hold, pin, up, handlers, notified, content,
                   fates, prompts, faults, crashes>>

\* Someone edits the repository's devcontainer.
Edit ==
    /\ outside < MaxOutside /\ outside' = outside + 1
    /\ content' \in Versions \ {content}
    /\ UNCHANGED <<store, up, handlers, builds, notified, fates,
                   prompts, faults, crashes>>

---------------------------------------------------------------------------
(* Expiry, crash and restart *)

\* Faulty variant: only questions are swept, not the rows without options.
ExpirableQuestions == {s \in Sessions : sel[s] = "options"}

\* sweepPendingRepoSelections takes every row past its age, whatever it holds.
Expirable == {s \in Sessions : sel[s] # "none"}

\* The last pass of sweepExpired: the rows go at once, the notices follow one
\* by one.  Rows pass their age at any moment.
SweepRows ==
    /\ up
    /\ \E gone \in (SUBSET Expirable) \ {{}} :
          LET s == CHOOSE s \in gone : TRUE IN
          /\ sel' = [r \in Sessions |-> IF r \in gone THEN "none" ELSE sel[r]]
          /\ handlers' = handlers \cup
                {[s |-> s, rest |-> gone \ {s}, at |-> "expiring", by |-> "sweep",
                  n |-> 0, v |-> NoVersion]}
    /\ UNCHANGED <<claimed, decided, hold, image, pin, up, builds, notified,
                   content, fates, bounds>>

\* An expiry notice is posted.
Expired(h) ==
    /\ h.at = "expiring"
    /\ told' = told \cup {h.s}
    /\ handlers' = Moved(h, "done")
    /\ UNCHANGED <<store, up, builds, notified, content,
                   delivered, stopped, lost, late, again, bounds>>

\* A notice fails: the pass ends there, and with it the notices still to come.
ExpiryFails(h) ==
    /\ h.at = "expiring" /\ Fault
    /\ lost' = lost \cup {h.s} \cup h.rest
    /\ handlers' = handlers \ {h}
    /\ UNCHANGED <<store, up, builds, notified, content,
                   delivered, told, stopped, late, again, prompts, crashes, outside>>

\* The router is stopped or dies at any await.
Crash ==
    /\ up /\ crashes < MaxCrashes /\ crashes' = crashes + 1
    /\ Down
    /\ UNCHANGED <<store, content, delivered, told, stopped, late, again, prompts, faults,
                   outside>>

\* recoverInterruptedBuilds at the start of the next process: each build that
\* was cut short loses its row and releases what is held on it.
Restart ==
    /\ ~ up /\ up' = TRUE
    /\ LET cut == {v \in Versions : image[v] = "building"} IN
       /\ image' = [v \in Versions |-> IF v \in cut THEN "none" ELSE image[v]]
       /\ hold' = [s \in Sessions |-> IF hold[s] \in cut THEN NoVersion ELSE hold[s]]
       /\ handlers' = UNION {Release(HeldOn(v)) : v \in cut}
       /\ late' = {s \in late : hold[s] \notin cut}
    /\ UNCHANGED <<claimed, decided, sel, pin, builds, notified, content,
                   delivered, told, stopped, lost, again, bounds>>

---------------------------------------------------------------------------

\* What a handler does next when nothing fails.
Proceed(h) ==
    \/ StartTurn(h) \/ Resolve(h) \/ Hold(h) \/ WaitingPosted(h) \/ Rejected(h) \/ Choose(h)
    \/ Listed(h) \/ Fetched(h) \/ HoldOnBuild(h) \/ QuietPosted(h) \/ Expired(h)

PostError(h) == AskFails(h) \/ PostFails(h) \/ ExpiryFails(h)

Next ==
    \/ \E s \in Sessions : Created(s) \/ StopHeld(s) \/ AnswerHeld(s)
    \/ \E h \in handlers : Proceed(h) \/ PostError(h)
    \/ \E v \in Versions : BuildEnds(v)
    \/ WarmBuild \/ Edit \/ SweepRows \/ Crash \/ Restart

Spec == Init /\ [][Next]_vars

\* Every await returns, every build ends (its polls have deadlines), the
\* supervisor restarts the router and the sweep's interval comes round.
Fairness ==
    /\ \A s \in Sessions : WF_vars(\E h \in handlers : h.s = s /\ Proceed(h))
    /\ \A v \in Versions : WF_vars(BuildEnds(v))
    /\ WF_vars(SweepRows) /\ WF_vars(Restart)

FairSpec == Spec /\ Fairness

---------------------------------------------------------------------------
(* Properties *)

\* The rows and the handlers have their types, a session is only held on a
\* build once the issue has its repositories, and a process that is down has
\* nothing in memory.
TypeOK ==
    /\ claimed \subseteq Sessions /\ decided \in BOOLEAN /\ pin \in BOOLEAN
    /\ sel \in [Sessions -> {"none", "options", "empty"}]
    /\ hold \in [Sessions -> Versions \cup {NoVersion}]
    /\ image \in [Versions -> {"none", "building", "ready", "failed"}]
    /\ up \in BOOLEAN /\ notified \in BOOLEAN
    /\ handlers \subseteq Handler /\ builds \subseteq Versions
    /\ content \in Versions /\ delivered \in [Sessions -> Nat] /\ again \in [Sessions -> Nat]
    /\ \A set \in {told, stopped, lost, late} : set \subseteq claimed
    /\ ~ up => handlers = {} /\ builds = {}
    /\ ~ decided => \A s \in Sessions : hold[s] = NoVersion

\* A delegation that was claimed is never simply gone: it has been queued, its
\* user told, abandoned by a stop, is in a handler, or in a row that some later
\* event replays; or it was in memory only when a step failed for good, which
\* routeInner's claim-before-routing accepts.
DelegationAccounted ==
    \A s \in claimed :
        \/ delivered[s] > 0 \/ s \in told \cup stopped \cup lost
        \/ InHandler(s) \/ sel[s] # "none" \/ hold[s] # NoVersion

\* Neither two answers to one question, nor a release and a restart, nor a
\* retried replay, queue one session's created event twice, and one abandoned by
\* a stop is not queued at all, whatever else of it is in flight (the comments
\* at resumeHeldSelection's delete and at releaseHeldDevcontainerBuilds).  The
\* exception the code has is `again`: the replay failed at the notice that the
\* laptop is offline, after the event was queued, and the row was stored again.
DeliveredOnce ==
    \A s \in Sessions : delivered[s] <= again[s] + IF s \in stopped THEN 0 ELSE 1

\* While the router runs, a session held on an image is held on a build that is
\* running, so that something will release it.  A hold stored after its build
\* had ended (`late`) is the exception the code has.
HeldOnBuild ==
    \A s \in Sessions :
        up /\ hold[s] # NoVersion /\ s \notin late => hold[s] \in builds

\* Every delegation comes to an end its user can see, unless it was lost with a
\* crash or a failed post, or held after its build had ended.
EveryDelegationSettles ==
    \A s \in Sessions :
        (s \in claimed) ~> \/ delivered[s] > 0
                           \/ s \in told \cup stopped \cup lost \cup late
=============================================================================
