------------------------- MODULE OutboundMutations --------------------------
(***************************************************************************)
(* Posting to Linear from a device, through the router.                    *)
(*                                                                         *)
(* Device side: RouterConnection.bufferedRpc, its pending-request map and  *)
(* its durable outbound buffer.  Router side: LinearExecutor.dispatch and  *)
(* the rpc_mutations table.  A mutation is one bufferedRpc call (one       *)
(* mutationId); every attempt to send it has a request id of its own, here *)
(* the attempt's number.  One device is modelled: mutation ids are scoped  *)
(* to a device.                                                            *)
(*                                                                         *)
(* Frames in flight are sets: the router runs its dispatches concurrently, *)
(* so the order two requests arrive in decides nothing.                    *)
(***************************************************************************)
EXTENDS Integers, Sequences, FiniteSets

CONSTANTS
    Mutations,    \* bufferedRpc calls the device may make, each once
    MaxDrops,     \* bound on connections that break
    MaxTimeouts,  \* bound on timeouts that fire before a late answer
    MaxCrashes,   \* bound on crashes of the device process
    MaxRestarts   \* bound on router restarts

ASSUME BoundsAssumption ==
    /\ MaxDrops \in Nat /\ MaxTimeouts \in Nat
    /\ MaxCrashes \in Nat /\ MaxRestarts \in Nat

VARIABLES
    \* Device
    up,        \* the process is running
    link,      \* hello_ack received and the socket still open
    calls,     \* pending requests of callers, in the order they were sent
    sent,      \* the pending request of replayOutboundBuffer: at most one
    replay,    \* what is left of replayOutboundBuffer's snapshot
    outbox,    \* outbound.jsonl
    \* The wire
    requests,  \* rpc_request frames: [mut, try]
    responses, \* rpc_response frames: [req, ok]
    \* Router and Linear
    running,   \* dispatches awaiting Linear: [req, done]
    recorded,  \* rpc_mutations: the attempt whose answer is stored, 0 for none
    applied,   \* times Linear has performed the mutation
    \* History
    tries,     \* attempts sent so far
    assumed,   \* calls that returned success without an answer
    offline,   \* calls made with no connection, in order
    refused,   \* mutations the router answered with ok: false
    exposed,   \* mutations that met a window in which a repeat is not recognised
    drops, timeouts, crashes, restarts

deviceVars == <<up, link, calls, sent, replay, outbox>>
wireVars   == <<requests, responses>>
routerVars == <<running, recorded, applied, exposed>>
countVars  == <<drops, timeouts, crashes, restarts>>
vars == <<deviceVars, wireVars, routerVars, tries, assumed, offline, refused,
          countVars>>

Request == [mut : Mutations, try : Nat \ {0}]
Response == [req : Request, ok : BOOLEAN]
Dispatched == [req : Request, done : BOOLEAN]

RangeOf(s) == {s[i] : i \in 1..Len(s)}

Init ==
    /\ up = TRUE /\ link = FALSE
    /\ calls = <<>> /\ sent = {} /\ replay = <<>> /\ outbox = <<>>
    /\ requests = {} /\ responses = {} /\ running = {}
    /\ recorded = [m \in Mutations |-> 0]
    /\ applied = [m \in Mutations |-> 0]
    /\ tries = [m \in Mutations |-> 0]
    /\ assumed = {} /\ offline = <<>> /\ refused = {} /\ exposed = {}
    /\ drops = 0 /\ timeouts = 0 /\ crashes = 0 /\ restarts = 0

---------------------------------------------------------------------------
(* Device: RouterConnection *)

Fresh(m) == tries[m] = 0 /\ m \notin RangeOf(offline)

NextTry(m) == [mut |-> m, try |-> tries[m] + 1]

WithoutAt(s, i) == SubSeq(s, 1, i - 1) \o SubSeq(s, i + 1, Len(s))

\* removeOutboundEntry: by mutation id.
RemoveOutboundEntry(s, m) ==
    IF m \in RangeOf(s) THEN WithoutAt(s, CHOOSE i \in 1..Len(s) : s[i] = m) ELSE s

MutsOf(reqs) == [i \in 1..Len(reqs) |-> reqs[i].mut]

\* bufferedRpc while online: sendRpc mints a request id of its own.
CallOnline(m) ==
    /\ up /\ link /\ Fresh(m)
    /\ calls' = Append(calls, NextTry(m))
    /\ requests' = requests \cup {NextTry(m)}
    /\ tries' = [tries EXCEPT ![m] = @ + 1]
    /\ UNCHANGED <<up, link, sent, replay, outbox, responses, routerVars, assumed,
                   offline, refused, countVars>>

\* bufferedRpc while offline: the caller is told it succeeded.
CallOffline(m) ==
    /\ up /\ ~ link /\ Fresh(m)
    /\ outbox' = Append(outbox, m)
    /\ assumed' = assumed \cup {m}
    /\ offline' = Append(offline, m)
    /\ UNCHANGED <<up, link, calls, sent, replay, wireVars, routerVars, tries, refused,
                   countVars>>

\* replayOutboundBuffer with rest still to go: the head is sent, one at a time.
ReplayRest(rest) ==
    /\ replay' = rest
    /\ IF rest = <<>>
       THEN sent' = {} /\ UNCHANGED <<requests, tries>>
       ELSE /\ sent' = {NextTry(Head(rest))}
            /\ requests' = requests \cup sent'
            /\ tries' = [tries EXCEPT ![Head(rest)] = @ + 1]

\* onHelloAck: the buffer as it is now is replayed.
Reconnect ==
    /\ up /\ ~ link
    /\ link' = TRUE
    /\ ReplayRest(outbox)
    /\ UNCHANGED <<up, calls, outbox, responses, routerVars, assumed, offline, refused,
                   countVars>>

\* rejectAllPending: calls are buffered in their order and their callers told they
\* succeeded; the replay under way returns and keeps its entry.
RejectAllPending ==
    /\ outbox' = outbox \o MutsOf(calls)
    /\ assumed' = assumed \cup RangeOf(MutsOf(calls))
    /\ calls' = <<>> /\ sent' = {} /\ replay' = <<>>
    /\ link' = FALSE /\ requests' = {} /\ responses' = {}

\* handleDisconnect.
Disconnect ==
    /\ up /\ link /\ drops < MaxDrops
    /\ drops' = drops + 1
    /\ RejectAllPending
    /\ UNCHANGED <<up, routerVars, tries, offline, refused, timeouts, crashes, restarts>>

\* No answer to request q is on its way: only its timer can end the wait.
Unanswerable(q) ==
    /\ q \notin requests
    /\ \A d \in running : d.req # q
    /\ \A r \in responses : r.req # q

TimerFires(q) ==
    \/ Unanswerable(q) /\ UNCHANGED timeouts
    \/ timeouts < MaxTimeouts /\ timeouts' = timeouts + 1

\* rpcTimeoutMs passes for a call: buffered, and reported as a success.  Nothing
\* replays it before the next reconnect.
CallTimeout(i) ==
    /\ TimerFires(calls[i])
    /\ calls' = WithoutAt(calls, i)
    /\ outbox' = Append(outbox, calls[i].mut)
    /\ assumed' = assumed \cup {calls[i].mut}
    /\ UNCHANGED <<up, link, sent, replay, wireVars, routerVars, tries, offline, refused,
                   drops, crashes, restarts>>

\* Faulty variant: a replay that timed out is taken for delivered.
ReplayTimeoutDrops(q) ==
    /\ q \in sent
    /\ TimerFires(q)
    /\ outbox' = RemoveOutboundEntry(outbox, q.mut)
    /\ ReplayRest(Tail(replay))
    /\ UNCHANGED <<up, link, calls, responses, routerVars, assumed, offline, refused,
                   drops, crashes, restarts>>

\* Faulty variant: the replay goes on with the next entry.
ReplayTimeoutSkips(q) ==
    /\ q \in sent
    /\ TimerFires(q)
    /\ ReplayRest(Tail(replay))
    /\ UNCHANGED <<up, link, calls, outbox, responses, routerVars, assumed, offline,
                   refused, drops, crashes, restarts>>

\* The same for a replayed entry: it stays, and the replay returns.
ReplayTimeout(q) ==
    /\ q \in sent
    /\ TimerFires(q)
    /\ sent' = {} /\ replay' = <<>>
    /\ UNCHANGED <<up, link, calls, outbox, wireVars, routerVars, tries, assumed, offline,
                   refused, drops, crashes, restarts>>

\* onRpcResponse for a call: its caller gets the answer.
CallAnswered(r, i) ==
    /\ r \in responses /\ calls[i] = r.req
    /\ responses' = responses \ {r}
    /\ calls' = WithoutAt(calls, i)
    /\ UNCHANGED <<up, link, sent, replay, outbox, requests, routerVars, tries, assumed,
                   offline, refused, countVars>>

\* onRpcResponse for a replayed entry: done or refused, it leaves the buffer and
\* the next one is sent.
ReplayAnswered(r) ==
    /\ r \in responses /\ r.req \in sent
    /\ responses' = responses \ {r}
    /\ outbox' = RemoveOutboundEntry(outbox, r.req.mut)
    /\ ReplayRest(Tail(replay))
    /\ UNCHANGED <<up, link, calls, routerVars, assumed, offline, refused, countVars>>

\* onRpcResponse, early return: no pending request has this id.
StrayResponse(r) ==
    /\ r \in responses /\ r.req \notin sent \cup RangeOf(calls)
    /\ responses' = responses \ {r}
    /\ UNCHANGED <<deviceVars, requests, routerVars, tries, assumed, offline, refused,
                   countVars>>

\* The process dies; the buffer's file survives.
Crash ==
    /\ up /\ crashes < MaxCrashes
    /\ crashes' = crashes + 1
    /\ up' = FALSE /\ link' = FALSE /\ calls' = <<>> /\ sent' = {} /\ replay' = <<>>
    /\ requests' = {} /\ responses' = {}
    /\ UNCHANGED <<outbox, routerVars, tries, assumed, offline, refused, drops, timeouts,
                   restarts>>

\* The constructor: loadOutboundEntries.
Start ==
    /\ ~ up
    /\ up' = TRUE
    /\ UNCHANGED <<link, calls, sent, replay, outbox, wireVars, routerVars, tries, assumed,
                   offline, refused, countVars>>

---------------------------------------------------------------------------
(* Router: LinearExecutor *)

\* sendRpcResponse goes to the device's present socket, if there is one.
Respond(req, ok, inFlight) ==
    IF link THEN inFlight \cup {[req |-> req, ok |-> ok]} ELSE inFlight

\* dispatch, step 2: the stored response is returned verbatim, and the id stored
\* in it is the id of the attempt that was recorded.
DispatchCached(q) ==
    /\ q \in requests /\ recorded[q.mut] # 0
    /\ requests' = requests \ {q}
    /\ responses' = Respond([q EXCEPT !.try = recorded[q.mut]], TRUE, responses)
    /\ UNCHANGED <<deviceVars, routerVars, tries, assumed, offline, refused, countVars>>

\* dispatch, steps 1, 3 and 4: method, workspace or ownership is refused.
DispatchRefused(q) ==
    /\ q \in requests /\ recorded[q.mut] = 0
    /\ requests' = requests \ {q}
    /\ responses' = Respond(q, FALSE, responses)
    /\ refused' = refused \cup {q.mut}
    /\ UNCHANGED <<deviceVars, routerVars, tries, assumed, offline, countVars>>

\* Attempts of mutation m the router is working on.
Attempts(m) == {d \in running : d.req.mut = m}

\* Faulty variant: the stored answers are not looked up.
DispatchInvokeAlways(q) ==
    /\ q \in requests
    /\ requests' = requests \ {q}
    /\ running' = running \cup {[req |-> q, done |-> FALSE]}
    /\ exposed' = IF Attempts(q.mut) = {} THEN exposed ELSE exposed \cup {q.mut}
    /\ UNCHANGED <<deviceVars, responses, recorded, applied, tries, assumed, offline,
                   refused, countVars>>

\* dispatch, step 5: Linear is called.  An attempt of the same mutation still under
\* way has stored nothing yet, so it does not stop this one.
DispatchInvoke(q) ==
    /\ q \in requests /\ recorded[q.mut] = 0
    /\ requests' = requests \ {q}
    /\ running' = running \cup {[req |-> q, done |-> FALSE]}
    /\ exposed' = IF Attempts(q.mut) = {} THEN exposed ELSE exposed \cup {q.mut}
    /\ UNCHANGED <<deviceVars, responses, recorded, applied, tries, assumed, offline,
                   refused, countVars>>

\* Linear performs the call.
LinearApplies(d) ==
    /\ d \in running /\ ~ d.done
    /\ running' = (running \ {d}) \cup {[d EXCEPT !.done = TRUE]}
    /\ applied' = [applied EXCEPT ![d.req.mut] = @ + 1]
    /\ UNCHANGED <<deviceVars, wireVars, recorded, exposed, tries, assumed, offline,
                   refused, countVars>>

\* dispatch, step 6: recordMutation, then the answer.
Complete(d) ==
    /\ d \in running /\ d.done
    /\ running' = running \ {d}
    /\ recorded' = [recorded EXCEPT ![d.req.mut] = d.req.try]
    /\ responses' = Respond(d.req, TRUE, responses)
    /\ UNCHANGED <<deviceVars, requests, applied, exposed, tries, assumed, offline,
                   refused, countVars>>

\* dispatch, catch: the call to Linear failed, before or after its effect.  Nothing
\* is stored.
CallFails(d) ==
    /\ d \in running
    /\ exposed' = IF d.done THEN exposed \cup {d.req.mut} ELSE exposed
    /\ running' = running \ {d}
    /\ responses' = Respond(d.req, FALSE, responses)
    /\ refused' = refused \cup {d.req.mut}
    /\ UNCHANGED <<deviceVars, requests, recorded, applied, tries, assumed, offline,
                   countVars>>

\* The router restarts: dispatches under way and the connection are gone.
RouterRestart ==
    /\ restarts < MaxRestarts
    /\ restarts' = restarts + 1
    /\ running' = {}
    /\ exposed' = exposed \cup {d.req.mut : d \in {x \in running : x.done}}
    /\ RejectAllPending
    /\ UNCHANGED <<up, recorded, applied, tries, offline, refused, drops, timeouts,
                   crashes>>

\* The sweep of devices dark past the event TTL: purgeDeviceScopedRows deletes the
\* device's stored answers, while the device keeps its buffer.
PurgeRecords ==
    /\ ~ link
    /\ recorded' = [m \in Mutations |-> 0]
    /\ exposed' = exposed \cup {m \in Mutations : recorded[m] # 0}
    /\ UNCHANGED <<deviceVars, wireVars, running, applied, tries, assumed, offline,
                   refused, countVars>>

---------------------------------------------------------------------------

DeviceStep ==
    \/ \E m \in Mutations : CallOnline(m) \/ CallOffline(m)
    \/ Reconnect \/ Disconnect \/ Crash \/ Start

AnswerStep ==
    \/ \E r \in responses :
          \/ \E i \in 1..Len(calls) : CallAnswered(r, i)
          \/ ReplayAnswered(r)
          \/ StrayResponse(r)
    \/ \E i \in 1..Len(calls) : CallTimeout(i)
    \/ \E q \in sent : ReplayTimeout(q)

DispatchStep ==
    \/ \E q \in requests : DispatchCached(q) \/ DispatchRefused(q) \/ DispatchInvoke(q)
    \/ \E d \in running : LinearApplies(d) \/ Complete(d) \/ CallFails(d)

Next == DeviceStep \/ AnswerStep \/ DispatchStep \/ RouterRestart \/ PurgeRecords

Spec == Init /\ [][Next]_vars

---------------------------------------------------------------------------
(* Properties *)

\* The buffer, the pending map and the stored answers keep their shapes, and no
\* stored answer is of an attempt that was never sent.
TypeOK ==
    /\ up \in BOOLEAN /\ link \in BOOLEAN
    /\ calls \in Seq(Request) /\ sent \subseteq Request
    /\ replay \in Seq(Mutations) /\ outbox \in Seq(Mutations)
    /\ requests \subseteq Request /\ responses \subseteq Response
    /\ running \subseteq Dispatched
    /\ recorded \in [Mutations -> Nat] /\ applied \in [Mutations -> Nat]
    /\ tries \in [Mutations -> Nat]
    /\ \A m \in Mutations : recorded[m] <= tries[m]
    /\ assumed \subseteq Mutations /\ refused \subseteq Mutations /\ exposed \subseteq Mutations
    /\ offline \in Seq(Mutations)
    /\ drops \in Nat /\ timeouts \in Nat /\ crashes \in Nat /\ restarts \in Nat

\* bufferedRpc's synthetic success is honest: a call that returned without an
\* answer is in the durable buffer until Linear has performed it or the router
\* has refused it, whatever drops, times out, crashes or restarts.
AssumedNotLost ==
    \A m \in assumed : m \in RangeOf(outbox) \/ applied[m] > 0 \/ m \in refused

\* Calls made offline reach Linear in the order they were made: none is performed
\* before each earlier one was performed or refused.
OfflineOrder ==
    \A i, j \in 1..Len(offline) :
        (i < j /\ applied[offline[j]] > 0)
            => applied[offline[i]] > 0 \/ offline[i] \in refused

\* Retries are recognised: however often a mutation is sent, by timeouts, drops,
\* crashes and replays, Linear performs it once, unless it met one of the windows
\* the router leaves open: an attempt arrived beside one still under way, a call
\* failed after its effect, the router restarted between effect and record, or the
\* dark sweep deleted the record.
PerformedOnce == \A m \in Mutations \ exposed : applied[m] <= 1

=============================================================================
