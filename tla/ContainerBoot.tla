--------------------------- MODULE ContainerBoot ---------------------------
(***************************************************************************)
(* Booting one container device on demand: ContainerTargetService's        *)
(* in-flight boot slot (bootStart, bootInner) over LocalDockerProvider's   *)
(* ensureRunning, and the device token that every cold create rotates.     *)
(*                                                                         *)
(* A call is one boot(), bootForTeardown() or bootAndWait().  Calls run    *)
(* interleaved: each await of bootStart, of bootInner and of ensureRunning *)
(* is a point where the others, the idle sweep and a teardown may run.     *)
(* Time is abstracted to the one fact the code reads: whether an attempt   *)
(* is older than BOOT_JOIN_TIMEOUT_MS.                                     *)
(***************************************************************************)
EXTENDS Integers, FiniteSets

CONSTANTS
    Calls,        \* calls of boot(), each made at most once
    Notifying,    \* the calls that carry a session to post a failure to
    NoCall,       \* the empty slot
    MaxBootJoins, \* MAX_BOOT_JOINS
    MaxAged,      \* bound on attempts that outlive BOOT_JOIN_TIMEOUT_MS
    MaxStops,     \* bound on idle stops and destroys
    MaxMisreads   \* bound on docker inspect failing on a container that is there

ASSUME CallsAssumption == NoCall \notin Calls /\ Notifying \subseteq Calls
ASSUME BoundsAssumption ==
    /\ MaxBootJoins \in Nat /\ MaxAged \in Nat
    /\ MaxStops \in Nat /\ MaxMisreads \in Nat

VARIABLES
    \* RouterStore, the device's row
    row,        \* the row exists
    token,      \* generation of the token whose hash it holds
    \* ContainerTargetService, in memory
    slot,       \* inFlightBoots: the call whose attempt holds the device's entry
    notified,   \* bootFailedNotified has the issue
    pc,         \* where each call is
    joins,      \* round of the join loop the call is in
    target,     \* the attempt a call has joined
    minted,     \* token a call has rotated to for its docker run
    result,     \* what the call returned
    aged,       \* attempts older than BOOT_JOIN_TIMEOUT_MS
    \* docker
    container,  \* [st, token, old, kept]: old when made from an earlier image,
                \* kept (history) when a docker rm -f of it has failed
    \* History
    seenUp,     \* calls since whose request the container has been running
    overlapped, \* two ensureRunning have been under way at once
    stops, misreads

callVars == <<pc, joins, target, minted, result>>
vars == <<row, token, slot, notified, callVars, aged, container, seenUp,
          overlapped, stops, misreads>>

Absent == [st |-> "absent", token |-> 0, old |-> FALSE, kept |-> FALSE]
Containers ==
    [st : {"absent", "stopped", "running"}, token : Nat, old : BOOLEAN, kept : BOOLEAN]
Made(st, t) == [st |-> st, token |-> t, old |-> FALSE, kept |-> FALSE]

\* "joining" awaits somebody else's attempt and "checking" the status after it;
\* from "env" to "failed" the call runs an attempt of its own.
Executing == {"inspect", "start", "replace", "volume", "run"}
Attempting == {"env", "failed", "posting", "settling"} \cup Executing
Steps == {"idle", "joining", "checking", "done"} \cup Attempting

Attempts == {c \in Calls : pc[c] \in Attempting}
InExecutor == {c \in Calls : pc[c] \in Executing}

Init ==
    /\ row = TRUE /\ token = 1
    /\ slot = NoCall /\ notified = FALSE
    /\ pc = [c \in Calls |-> "idle"]
    /\ joins = [c \in Calls |-> 0]
    /\ target = [c \in Calls |-> NoCall]
    /\ minted = [c \in Calls |-> 0]
    /\ result = [c \in Calls |-> "none"]
    /\ aged = {}
    /\ container \in {Absent} \cup
          [st : {"stopped", "running"}, token : {1}, old : BOOLEAN, kept : {FALSE}]
    /\ seenUp = {} /\ overlapped = FALSE
    /\ stops = 0 /\ misreads = 0

---------------------------------------------------------------------------
(* bootStart *)

\* The call runs bootInner itself and takes the slot, whoever held it.
StartAttempt(c) ==
    /\ slot' = c
    /\ pc' = [pc EXCEPT ![c] = "env"]
    /\ UNCHANGED <<joins, target>>

\* Round `round` of the join loop, up to the next await: a young attempt in the
\* slot is joined; an empty slot, an attempt past the timeout, or the end of
\* the loop make the call start its own, in the same turn.
JoinOrStart(c, round) ==
    IF slot # NoCall /\ round < MaxBootJoins /\ slot \notin aged
    THEN /\ joins' = [joins EXCEPT ![c] = round]
         /\ target' = [target EXCEPT ![c] = slot]
         /\ pc' = [pc EXCEPT ![c] = "joining"]
         /\ UNCHANGED slot
    ELSE StartAttempt(c)

\* A call comes in.  A device row that is gone is not bootable.
Boot(c) ==
    /\ pc[c] = "idle"
    /\ IF row
       THEN JoinOrStart(c, 0) /\ UNCHANGED result
       ELSE /\ pc' = [pc EXCEPT ![c] = "done"]
            /\ result' = [result EXCEPT ![c] = "failed"]
            /\ UNCHANGED <<slot, joins, target>>
    /\ UNCHANGED <<row, token, notified, minted, aged, container, overlapped,
                   stops, misreads>>

\* The joined attempt settles, with whatever outcome.
Joined(c) ==
    /\ pc[c] = "joining" /\ pc[target[c]] = "done"
    /\ pc' = [pc EXCEPT ![c] = "checking"]
    /\ UNCHANGED <<row, token, slot, notified, joins, target, minted, result,
                   aged, container, overlapped, stops, misreads>>

\* Faulty variant: the joined attempt's end is taken for a running container.
CheckRunningTrusting(c) ==
    /\ pc[c] = "checking"
    /\ pc' = [pc EXCEPT ![c] = "done"]
    /\ result' = [result EXCEPT ![c] = "ok"]
    /\ UNCHANGED <<slot, joins, target, row, token, notified, minted, aged,
                   container, overlapped, stops, misreads>>

\* isRunning after the join: satisfied by a running container, otherwise (or
\* when the provider cannot say) back to the loop for the next round.
CheckRunning(c) ==
    /\ pc[c] = "checking"
    /\ \/ /\ container.st = "running"
          /\ pc' = [pc EXCEPT ![c] = "done"]
          /\ result' = [result EXCEPT ![c] = "ok"]
          /\ UNCHANGED <<slot, joins, target, misreads>>
       \/ /\ \/ container.st # "running" /\ UNCHANGED misreads
             \/ /\ container.st = "running"
                /\ misreads < MaxMisreads /\ misreads' = misreads + 1
          /\ JoinOrStart(c, joins[c] + 1)
          /\ UNCHANGED result
    /\ UNCHANGED <<row, token, notified, minted, aged, container, overlapped,
                   stops>>

\* The finally of bootStart: only the attempt's own entry is removed.
SettleSlot(c) == slot' = IF slot = c THEN NoCall ELSE slot

\* bootInner returns, and with it bootStart.
Settle(c) ==
    /\ pc[c] = "settling"
    /\ pc' = [pc EXCEPT ![c] = "done"]
    /\ SettleSlot(c)
    /\ UNCHANGED <<row, token, notified, joins, target, minted, result, aged,
                   container, overlapped, stops, misreads>>

---------------------------------------------------------------------------
(* bootInner over LocalDockerProvider.ensureRunning *)

Fails(c) == pc' = [pc EXCEPT ![c] = "failed"] /\ UNCHANGED <<result, notified>>

\* ensureRunning resolved: the issue's next failure is worth a notice again.
Succeeds(c) ==
    /\ pc' = [pc EXCEPT ![c] = "settling"]
    /\ result' = [result EXCEPT ![c] = "ok"]
    /\ notified' = FALSE

\* buildEnv resolves and ensureRunning is called, or a secret is missing.
BuildEnv(c) ==
    /\ pc[c] = "env"
    /\ \/ /\ pc' = [pc EXCEPT ![c] = "inspect"]
          /\ overlapped' = (overlapped \/ InExecutor # {})
          /\ UNCHANGED <<result, notified>>
       \/ Fails(c) /\ UNCHANGED overlapped
    /\ UNCHANGED <<row, token, slot, joins, target, minted, aged, container, 
                   stops, misreads>>

\* docker inspect.  A nonzero exit means "absent", whatever its cause.
Inspect(c) ==
    /\ pc[c] = "inspect"
    /\ \/ /\ container.st # "absent" /\ ~ container.old
          /\ UNCHANGED misreads
          /\ \/ container.st = "running" /\ Succeeds(c)
             \/ /\ container.st = "stopped"
                /\ pc' = [pc EXCEPT ![c] = "start"]
                /\ UNCHANGED <<result, notified>>
       \/ /\ container.st # "absent" /\ container.old
          /\ pc' = [pc EXCEPT ![c] = "replace"]
          /\ UNCHANGED <<result, notified, misreads>>
       \/ /\ \/ container.st = "absent" /\ UNCHANGED misreads
             \/ /\ container.st # "absent"
                /\ misreads < MaxMisreads /\ misreads' = misreads + 1
          /\ pc' = [pc EXCEPT ![c] = "volume"]
          /\ UNCHANGED <<result, notified>>
    /\ UNCHANGED <<row, token, slot, joins, target, minted, aged, container, 
                   overlapped, stops>>

\* docker start of the container found stopped; it keeps the token it has.
DockerStart(c) ==
    /\ pc[c] = "start"
    /\ \/ /\ container.st # "absent"
          /\ container' = [container EXCEPT !.st = "running"]
          /\ Succeeds(c)
       \/ UNCHANGED container /\ Fails(c)
    /\ UNCHANGED <<row, token, slot, joins, target, minted, aged, 
                   overlapped, stops, misreads>>

\* docker rm -f of a container of another image.  Its exit code is not looked
\* at: the boot goes on to rotate the token, and the container may still be there.
DockerReplace(c) ==
    /\ pc[c] = "replace"
    /\ container' \in {Absent} \cup
          IF container.st = "absent" THEN {} ELSE {[container EXCEPT !.kept = TRUE]}
    /\ pc' = [pc EXCEPT ![c] = "volume"]
    /\ UNCHANGED <<row, token, slot, notified, joins, target, minted, result, aged,
                   overlapped, stops, misreads>>

\* Faulty variant: the token is not rotated in the store.
MintOnlyInEnv(c) ==
    /\ minted' = [minted EXCEPT ![c] = token + 1]
    /\ UNCHANGED token

\* rotateContainerDeviceToken: the store forgets the token before this one.
Mint(c) ==
    /\ token' = token + 1
    /\ minted' = [minted EXCEPT ![c] = token + 1]

\* docker volume create, then mintDeviceToken while the arguments of docker run
\* are put together.  The rotation throws when the row is gone.
CreateVolume(c) ==
    /\ pc[c] = "volume"
    /\ \/ /\ row
          /\ Mint(c)
          /\ pc' = [pc EXCEPT ![c] = "run"]
          /\ UNCHANGED <<result, notified>>
       \/ UNCHANGED <<token, minted>> /\ Fails(c)
    /\ UNCHANGED <<row, slot, joins, target, aged, container, overlapped,
                   stops, misreads>>

\* docker run: the name may be taken, the image may not come, or the container
\* is created and does not start.
DockerRun(c) ==
    /\ pc[c] = "run"
    /\ \/ /\ container.st = "absent"
          /\ \/ /\ container' = Made("running", minted[c])
                /\ Succeeds(c)
             \/ /\ container' = Made("stopped", minted[c])
                /\ Fails(c)
       \/ UNCHANGED container /\ Fails(c)
    /\ UNCHANGED <<row, token, slot, joins, target, minted, aged, overlapped,
                   stops, misreads>>

\* The call has a session to post to, and the issue has not had its notice.
WorthNotice(c) == c \in Notifying /\ ~ notified

\* The catch of bootInner: one notice per issue until a boot succeeds; the
\* attempt settles once the notice is posted, or could not be.
BootFailed(c) ==
    /\ pc[c] = "failed"
    /\ IF WorthNotice(c)
       THEN /\ notified' = TRUE
            /\ pc' = [pc EXCEPT ![c] = "posting"]
            /\ UNCHANGED result
       ELSE /\ pc' = [pc EXCEPT ![c] = "settling"]
            /\ result' = [result EXCEPT ![c] = "failed"]
            /\ UNCHANGED notified
    /\ UNCHANGED <<row, token, slot, joins, target, minted, aged, container, 
                   overlapped, stops, misreads>>

NoticePosted(c) ==
    /\ pc[c] = "posting"
    /\ pc' = [pc EXCEPT ![c] = "settling"]
    /\ result' = [result EXCEPT ![c] = "failed"]
    /\ UNCHANGED <<row, token, slot, notified, joins, target, minted, aged,
                   container, overlapped, stops, misreads>>

---------------------------------------------------------------------------
(* The clock, and the other users of the executor *)

\* An attempt has been in flight for BOOT_JOIN_TIMEOUT_MS.
AttemptAges(c) ==
    /\ c \in Attempts \ aged /\ Cardinality(aged) < MaxAged
    /\ aged' = aged \cup {c}
    /\ UNCHANGED <<row, token, slot, notified, callVars, container, 
                   overlapped, stops, misreads>>

\* The idle sweep's docker stop.
IdleStop ==
    /\ container.st = "running" /\ stops < MaxStops
    /\ stops' = stops + 1
    /\ container' = [container EXCEPT !.st = "stopped"]
    /\ UNCHANGED <<row, token, slot, notified, callVars, aged, overlapped,
                   misreads>>

\* A teardown, the stale sweep or the reclaim: docker rm -f, which when it fails
\* changes nothing and is not noticed ...
Destroy ==
    /\ container.st # "absent" /\ stops < MaxStops
    /\ stops' = stops + 1
    /\ container' = Absent
    /\ UNCHANGED <<row, token, slot, notified, callVars, aged, overlapped,
                   misreads>>

\* ... and then, or from the command line alone, deleteContainerDevice.
DeleteRow ==
    /\ row /\ stops < MaxStops
    /\ stops' = stops + 1
    /\ row' = FALSE
    /\ UNCHANGED <<token, slot, notified, callVars, aged, container, 
                   overlapped, misreads>>

CallStep(c) ==
    \/ Boot(c) \/ Joined(c) \/ CheckRunning(c) \/ Settle(c)
    \/ BuildEnv(c) \/ Inspect(c) \/ DockerStart(c) \/ DockerReplace(c)
    \/ CreateVolume(c) \/ DockerRun(c)
    \/ BootFailed(c) \/ NoticePosted(c)
    \/ AttemptAges(c)

\* A call has seen the container up when it ran at some point since the request.
Observe == seenUp' = {c \in Calls : /\ pc'[c] # "idle"
                                    /\ c \in seenUp \/ container'.st = "running"}

Next ==
    /\ \/ \E c \in Calls : CallStep(c)
       \/ IdleStop \/ Destroy \/ DeleteRow
    /\ Observe

Spec == Init /\ [][Next]_vars

---------------------------------------------------------------------------
(* Properties *)

\* The slot, the calls and the container keep to their values, and a call that
\* joins has an attempt to join.
TypeOK ==
    /\ row \in BOOLEAN /\ token \in Nat
    /\ slot \in Calls \cup {NoCall} /\ notified \in BOOLEAN
    /\ pc \in [Calls -> Steps]
    /\ joins \in [Calls -> 0..MaxBootJoins]
    /\ target \in [Calls -> Calls \cup {NoCall}]
    /\ \A c \in Calls : pc[c] = "joining" => target[c] \in Calls
    /\ minted \in [Calls -> Nat]
    /\ result \in [Calls -> {"none", "ok", "failed"}]
    /\ aged \subseteq Calls /\ container \in Containers
    /\ seenUp \subseteq Calls
    /\ overlapped \in BOOLEAN
    /\ stops \in Nat /\ misreads \in Nat

\* bootStart: joining another attempt is "never evidence that the container
\* ended up running".  A call that returns ok was asked for before some moment
\* at which the container did run, however boots, stops and destroys interleave.
BootNotDropped == \A c \in Calls : result[c] = "ok" => c \in seenUp

\* A container that is there can authenticate: its token is the one the row
\* holds.  Two ensureRunning at once, or an inspect that failed on a container
\* that exists, may rotate the token under it; so does the replacement of a
\* container of an earlier image that docker rm -f leaves in place.  That one
\* is shut out, and only that one: a container of the current image never is.
TokenMatches ==
    (row /\ container.st # "absent" /\ ~ overlapped /\ misreads = 0)
        => \/ container.token = token
           \/ container.old /\ container.kept

=============================================================================
