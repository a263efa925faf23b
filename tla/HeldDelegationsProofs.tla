------------------------ MODULE HeldDelegationsProofs ------------------------
(***************************************************************************)
(* Proofs about held delegations, for any sessions, devcontainer contents, *)
(* prompts, failed posts and crashes: a claimed delegation is in exactly   *)
(* one place, so that none disappears and none is queued twice, and a hold *)
(* stands behind a running build.                                          *)
(***************************************************************************)
EXTENDS HeldDelegations, TLAPS

---------------------------------------------------------------------------
(* The inductive invariant *)

Cover(h) == {h.s} \cup h.rest

\* No session is in two handlers, nor twice in one.
HandlersApart ==
    /\ \A h, k \in handlers : h # k => Cover(h) \cap Cover(k) = {}
    /\ \A h \in handlers : h.s \notin h.rest

\* Some handler has the session, be it to post a last notice.
Busy(s) == \E h \in handlers : s \in Cover(h)

\* The end of a delegation: queued since its row was last stored, or told, stopped
\* or lost.
Settled(s) == delivered[s] > again[s] \/ s \in told \cup stopped \cup lost

\* A delegation has no more than one place - a handler, a selection row, a hold,
\* an end - and one end; before the claim it has none.
OnePlace ==
    \A s \in Sessions :
        /\ Busy(s) => /\ s \in claimed /\ sel[s] = "none" /\ hold[s] = NoVersion
                      /\ s \notin told \cup stopped \cup lost
        /\ sel[s] # "none" => s \in claimed /\ hold[s] = NoVersion /\ ~ Settled(s)
        /\ hold[s] # NoVersion => s \in claimed /\ ~ Settled(s)
        /\ Settled(s) => s \in claimed
        /\ again[s] <= delivered[s] /\ delivered[s] <= again[s] + 1
        /\ s \in stopped => delivered[s] = again[s]

\* Of the sessions in handlers, those are queued whose last notice is under way.
WaitingQueued ==
    \A h \in handlers : \A s \in Cover(h) :
        delivered[s] > again[s] <=> s = h.s /\ h.at = "waiting"

\* A claimed delegation has a place.
Accounted ==
    \A s \in claimed : Settled(s) \/ Busy(s) \/ sel[s] # "none" \/ hold[s] # NoVersion

\* Past the repository gate the issue has its repositories, and a session about
\* to be held knows the key it is held on.
GatesPassed ==
    /\ \A h \in handlers :
          /\ h.at \in {"listing", "fetching", "quiet", "notice", "rejecting"} => decided
          /\ h.at = "notice" => h.v \in Versions
    /\ prompts \in Nat

\* A key is being built while its row says so, and a hold in time is on such a
\* key, through a crash as well.
BuildsRun ==
    /\ up => \A v \in Versions : image[v] = "building" => v \in builds
    /\ \A s \in Sessions :
          hold[s] # NoVersion /\ s \notin late => image[hold[s]] = "building"

IInv ==
    /\ TypeOK /\ HandlersApart /\ OnePlace /\ WaitingQueued /\ Accounted
    /\ GatesPassed /\ BuildsRun

---------------------------------------------------------------------------
(* Handlers *)

\* The awaits behind the repository gate.
Past == {"listing", "fetching", "quiet", "notice", "rejecting"}

\* A handler that moves on keeps the sessions it has, or is done with the one it
\* handled.
LEMMA MovedFacts ==
    ASSUME handlers \subseteq Handler, HandlersApart, NEW h \in handlers,
           NEW at \in Awaits \cup {"done"}, handlers' = Moved(h, at)
    PROVE  /\ handlers' \subseteq Handler
           /\ HandlersApart'
           /\ \A s \in Sessions :
                 Busy(s)' <=> Busy(s) /\ ~ (at = "done" /\ s = h.s)
           /\ \A k \in handlers' :
                 \/ k \in handlers \ {h}
                 \/ at # "done" /\ k.at = at /\ k.v = h.v /\ k.s = h.s /\ Cover(k) = Cover(h)
                 \/ at = "done" /\ k.at \in {"start", "expiring"} /\ Cover(k) = h.rest
<1>1. h \in Handler /\ h.s \in Sessions /\ h.rest \subseteq Sessions /\ h.s \notin h.rest
  BY DEF Handler, HandlersApart
<1>2. CASE at # "done" \/ h.rest # {}
  <2>1. PICK k : /\ handlers' = (handlers \ {h}) \cup {k} /\ k \in Handler
                 /\ k.s \notin k.rest
                 /\ Cover(k) = IF at = "done" THEN h.rest ELSE Cover(h)
                 /\ \/ at # "done" /\ k.at = at /\ k.v = h.v /\ k.s = h.s
                    \/ at = "done" /\ k.at \in {"start", "expiring"}
    <3>1. CASE at # "done"
      <4> DEFINE k == [h EXCEPT !.at = at]
      <4>1. k \in Handler /\ k.s = h.s /\ k.rest = h.rest /\ k.at = at /\ k.v = h.v
        BY <1>1, <3>1 DEF Handler
      <4>2. handlers' = (handlers \ {h}) \cup {k}
        BY <3>1 DEF Moved
      <4> HIDE DEF k
      <4>3. QED
        BY <1>1, <3>1, <4>1, <4>2 DEF Cover
    <3>2. CASE at = "done" /\ h.rest # {}
      <4> DEFINE n == CHOOSE s \in h.rest : TRUE
                 k == [h EXCEPT !.s = n, !.rest = @ \ {n}, !.v = NoVersion,
                                !.at = IF h.by = "sweep" THEN "expiring" ELSE "start"]
      <4>1. n \in h.rest
        BY <3>2
      <4>2. handlers' = (handlers \ {h}) \cup {k}
        BY <3>2 DEF Moved, NextTurn
      <4> HIDE DEF n
      <4>3. k \in Handler /\ k.s = n /\ k.rest = h.rest \ {n} /\ k.at \in {"start", "expiring"}
        BY <1>1, <4>1 DEF Handler, Awaits
      <4> HIDE DEF k
      <4>4. QED
        BY <3>2, <4>1, <4>2, <4>3 DEF Cover
    <3>3. QED
      BY <1>2, <3>1, <3>2
  <2>2. handlers' \subseteq Handler
    BY <2>1
  <2>3. HandlersApart'
    <3>1. \A g \in handlers \ {h} : Cover(g) \cap Cover(k) = {}
      BY <2>1 DEF HandlersApart, Cover
    <3>2. QED
      BY <2>1, <3>1 DEF HandlersApart
  <2>4. ASSUME NEW s \in Sessions
        PROVE  Busy(s)' <=> Busy(s) /\ ~ (at = "done" /\ s = h.s)
    <3>1. \A g \in handlers \ {h} : h.s \notin Cover(g)
      BY DEF HandlersApart, Cover
    <3>2. Busy(s) <=> \E g \in handlers : s \in Cover(g)
      BY DEF Busy
    <3>3. Busy(s)' <=> \E g \in handlers' : s \in Cover(g)
      BY DEF Busy, Cover
    <3>4. s \in Cover(k) <=> s \in Cover(h) /\ ~ (at = "done" /\ s = h.s)
      BY <1>1, <2>1 DEF Cover
    <3>5. QED
      BY <2>1, <3>1, <3>2, <3>3, <3>4
  <2>5. QED
    BY <2>1, <2>2, <2>3, <2>4
<1>3. CASE at = "done" /\ h.rest = {}
  <2>1. handlers' = handlers \ {h}
    BY <1>3 DEF Moved, NextTurn
  <2>2. HandlersApart'
    BY <2>1 DEF HandlersApart
  <2>3. ASSUME NEW s \in Sessions
        PROVE  Busy(s)' <=> Busy(s) /\ ~ (at = "done" /\ s = h.s)
    <3>1. \A g \in handlers \ {h} : h.s \notin Cover(g)
      BY DEF HandlersApart, Cover
    <3>2. Busy(s) <=> \E g \in handlers : s \in Cover(g)
      BY DEF Busy
    <3>3. Busy(s)' <=> \E g \in handlers' : s \in Cover(g)
      BY DEF Busy, Cover
    <3>4. Cover(h) = {h.s}
      BY <1>3 DEF Cover
    <3>5. QED
      BY <1>3, <2>1, <3>1, <3>2, <3>3, <3>4
  <2>4. QED
    BY <2>1, <2>2, <2>3
<1>4. QED
  BY <1>2, <1>3

\* What a moving handler leaves queued.
LEMMA MovedQueued ==
    ASSUME handlers \subseteq Handler, HandlersApart, WaitingQueued, NEW h \in handlers,
           NEW at \in Awaits \cup {"done"}, handlers' = Moved(h, at),
           \A s \in Sessions \ {h.s} : delivered'[s] = delivered[s] /\ again'[s] = again[s],
           at = "done" \/ (delivered'[h.s] > again'[h.s] <=> at = "waiting")
    PROVE  WaitingQueued'
<1>1. h.s \in Sessions /\ h.rest \subseteq Sessions /\ h.s \notin h.rest
  BY DEF Handler, HandlersApart
<1>2. SUFFICES ASSUME NEW k \in handlers', NEW s \in Cover(k)
               PROVE  delivered'[s] > again'[s] <=> s = k.s /\ k.at = "waiting"
  BY DEF WaitingQueued, Cover
<1>3. \/ k \in handlers \ {h}
      \/ at # "done" /\ k.at = at /\ k.s = h.s /\ Cover(k) = Cover(h)
      \/ at = "done" /\ k.at \in {"start", "expiring"} /\ Cover(k) = h.rest
  BY MovedFacts
<1>4. CASE k \in handlers \ {h}
  <2>1. Cover(k) \cap Cover(h) = {} /\ Cover(k) \subseteq Sessions
    BY <1>4 DEF HandlersApart, Handler, Cover
  <2>2. s \in Sessions /\ s # h.s
    BY <2>1 DEF Cover
  <2>3. QED
    BY <1>4, <2>2 DEF WaitingQueued
<1>5. CASE at # "done" /\ k.at = at /\ k.s = h.s /\ Cover(k) = Cover(h)
  <2>1. CASE s = h.s
    BY <1>5, <2>1
  <2>2. CASE s # h.s
    <3>1. s \in Sessions /\ s \in Cover(h)
      BY <1>1, <1>5 DEF Cover
    <3>2. QED
      BY <1>5, <2>2, <3>1 DEF WaitingQueued
  <2>3. QED
    BY <2>1, <2>2
<1>6. CASE at = "done" /\ k.at \in {"start", "expiring"} /\ Cover(k) = h.rest
  <2>1. s \in Sessions /\ s # h.s /\ s \in Cover(h) /\ k.at # "waiting"
    BY <1>1, <1>6 DEF Cover
  <2>2. QED
    BY <2>1 DEF WaitingQueued
<1>7. QED
  BY <1>3, <1>4, <1>5, <1>6

\* The session at a handler's turn has no other place, so routeCreated does not
\* find it held already; until the last notice it is not queued either.
LEMMA TurnFacts ==
    ASSUME IInv, NEW h \in handlers
    PROVE  /\ up /\ h.s \in Sessions /\ Busy(h.s)
           /\ h.s \in claimed /\ sel[h.s] = "none" /\ hold[h.s] = NoVersion
           /\ h.s \notin told \cup stopped \cup lost
           /\ delivered[h.s] \in Nat /\ again[h.s] \in Nat
           /\ delivered[h.s] = IF h.at = "waiting" THEN again[h.s] + 1 ELSE again[h.s]
           /\ EnvironmentGate(h.s) = "listing"
           /\ \A d \in BOOLEAN :
                 RouteCreated(h.s, d, sel[h.s]) = IF d THEN "listing" ELSE "resolving"
<1>1. up /\ h.s \in Sessions /\ Busy(h.s)
  BY DEF IInv, TypeOK, Handler, Busy, Cover
<1>2. /\ h.s \in claimed /\ sel[h.s] = "none" /\ hold[h.s] = NoVersion
      /\ h.s \notin told \cup stopped \cup lost
      /\ delivered[h.s] \in Nat /\ again[h.s] \in Nat
      /\ again[h.s] <= delivered[h.s] /\ delivered[h.s] <= again[h.s] + 1
  BY <1>1 DEF IInv, OnePlace, TypeOK
<1>3. delivered[h.s] > again[h.s] <=> h.at = "waiting"
  BY DEF IInv, WaitingQueued, Cover
<1>4. delivered[h.s] = IF h.at = "waiting" THEN again[h.s] + 1 ELSE again[h.s]
  BY <1>2, <1>3
<1>5. QED
  BY <1>1, <1>2, <1>4 DEF EnvironmentGate, RouteCreated

\* A handler goes on to another await.  Nobody's place changes, unless the event
\* was queued on the way to the last notice.
LEMMA MoveStep ==
    ASSUME IInv, NEW h \in handlers, NEW at \in Awaits \ {"notice"},
           handlers' = Moved(h, at),
           decided' \in BOOLEAN, decided => decided', at \in Past => decided',
           pin' \in BOOLEAN, notified' \in BOOLEAN,
           delivered' \in [Sessions -> Nat],
           \A s \in Sessions \ {h.s} : delivered'[s] = delivered[s],
           delivered'[h.s] = again[h.s] + (IF at = "waiting" THEN 1 ELSE 0),
           UNCHANGED <<claimed, sel, hold, image, up, builds, content, told, stopped, lost, late,
                       again, prompts>>
    PROVE  IInv'
<1>1. /\ handlers' \subseteq Handler
      /\ HandlersApart'
      /\ \A s \in Sessions : Busy(s)' <=> Busy(s)
      /\ \A k \in handlers' : k \in handlers \/ k.at = at
  BY MovedFacts DEF IInv, TypeOK, Awaits
<1>2. /\ up /\ h.s \in Sessions /\ Busy(h.s) /\ h.s \notin told \cup stopped \cup lost
      /\ h.s \in claimed /\ sel[h.s] = "none" /\ hold[h.s] = NoVersion /\ again[h.s] \in Nat
  BY TurnFacts
<1>3. TypeOK'
  BY <1>1, <1>2 DEF IInv, TypeOK
<1>4. delivered'[h.s] > again'[h.s] <=> at = "waiting"
  BY <1>2
<1>5. WaitingQueued'
  BY <1>4, MovedQueued DEF IInv, TypeOK
<1>6. OnePlace'
  <2>1. SUFFICES ASSUME NEW s \in Sessions
                 PROVE  /\ Busy(s)' => /\ s \in claimed' /\ sel'[s] = "none" /\ hold'[s] = NoVersion
                                       /\ s \notin told' \cup stopped' \cup lost'
                        /\ sel'[s] # "none" => s \in claimed' /\ hold'[s] = NoVersion /\ ~ Settled(s)'
                        /\ hold'[s] # NoVersion => s \in claimed' /\ ~ Settled(s)'
                        /\ Settled(s)' => s \in claimed'
                        /\ again'[s] <= delivered'[s] /\ delivered'[s] <= again'[s] + 1
                        /\ s \in stopped' => delivered'[s] = again'[s]
    BY DEF OnePlace
  <2>2. CASE s = h.s
    BY <1>2, <2>2
  <2>3. CASE s # h.s
    <3>1. Settled(s)' <=> Settled(s)
      BY <2>3 DEF Settled
    <3>2. QED
      BY <1>1, <2>3, <3>1 DEF IInv, OnePlace
  <2>4. QED
    BY <2>2, <2>3
<1>7. Accounted'
  <2>1. SUFFICES ASSUME NEW s \in claimed
                 PROVE  Settled(s)' \/ Busy(s)' \/ sel[s] # "none" \/ hold[s] # NoVersion
    BY DEF Accounted
  <2>2. s \in Sessions
    BY DEF IInv, TypeOK
  <2>3. CASE s = h.s
    BY <1>1, <1>2, <2>3
  <2>4. CASE s # h.s
    <3>1. Settled(s)' <=> Settled(s)
      BY <2>2, <2>4 DEF Settled
    <3>2. QED
      BY <1>1, <2>2, <3>1 DEF IInv, Accounted
  <2>5. QED
    BY <2>3, <2>4
<1>8. GatesPassed'
  BY <1>1 DEF IInv, GatesPassed, Past
<1>9. BuildsRun'
  BY DEF IInv, BuildsRun
<1>10. QED
  BY <1>1, <1>3, <1>5, <1>6, <1>7, <1>8, <1>9 DEF IInv

\* A handler goes on and nothing was queued.
LEMMA StayStep ==
    ASSUME IInv, NEW h \in handlers, h.at # "waiting", NEW at \in Awaits \ {"notice", "waiting"},
           handlers' = Moved(h, at),
           decided' \in BOOLEAN, decided => decided', at \in Past => decided',
           pin' \in BOOLEAN, notified' \in BOOLEAN,
           UNCHANGED <<claimed, sel, hold, image, up, builds, content, fates, prompts>>
    PROVE  IInv'
<1>1. delivered[h.s] = again[h.s] /\ again[h.s] \in Nat
  BY TurnFacts
<1>2. delivered' = delivered /\ delivered \in [Sessions -> Nat]
  BY DEF IInv, TypeOK, fates
<1>3. delivered'[h.s] = again[h.s] + (IF at = "waiting" THEN 1 ELSE 0)
  BY <1>1, <1>2
<1>4. QED
  BY <1>2, <1>3, MoveStep DEF fates

\* A handler is done with its session, whose place is now another: an end, the
\* selection row, or the hold.
LEMMA DoneStep ==
    ASSUME IInv, NEW h \in handlers, handlers' = Moved(h, "done"),
           UNCHANGED <<claimed, decided, up, content, prompts>>,
           TypeOK', BuildsRun',
           \A s \in Sessions \ {h.s} :
              /\ sel'[s] = sel[s] /\ hold'[s] = hold[s]
              /\ delivered'[s] = delivered[s] /\ again'[s] = again[s]
              /\ (s \in told' \cup stopped' \cup lost') <=> (s \in told \cup stopped \cup lost)
              /\ s \in stopped' <=> s \in stopped,
           sel'[h.s] # "none" \/ hold'[h.s] # NoVersion \/ Settled(h.s)',
           sel'[h.s] # "none" => hold'[h.s] = NoVersion /\ ~ Settled(h.s)',
           hold'[h.s] # NoVersion => ~ Settled(h.s)',
           again'[h.s] <= delivered'[h.s], delivered'[h.s] <= again'[h.s] + 1,
           h.s \notin stopped'
    PROVE  IInv'
<1>1. /\ HandlersApart'
      /\ \A s \in Sessions : Busy(s)' <=> Busy(s) /\ s # h.s
      /\ \A k \in handlers' : k \in handlers \/ k.at \in {"start", "expiring"} \/ k.at = "done"
  BY MovedFacts DEF IInv, TypeOK
<1>2. h.s \in claimed
  BY TurnFacts
<1>3. OnePlace'
  <2>1. SUFFICES ASSUME NEW s \in Sessions
                 PROVE  /\ Busy(s)' => /\ s \in claimed' /\ sel'[s] = "none" /\ hold'[s] = NoVersion
                                       /\ s \notin told' \cup stopped' \cup lost'
                        /\ sel'[s] # "none" => s \in claimed' /\ hold'[s] = NoVersion /\ ~ Settled(s)'
                        /\ hold'[s] # NoVersion => s \in claimed' /\ ~ Settled(s)'
                        /\ Settled(s)' => s \in claimed'
                        /\ again'[s] <= delivered'[s] /\ delivered'[s] <= again'[s] + 1
                        /\ s \in stopped' => delivered'[s] = again'[s]
    BY DEF OnePlace
  <2>2. CASE s = h.s
    BY <1>1, <1>2, <2>2
  <2>3. CASE s # h.s
    <3>1. Settled(s)' <=> Settled(s)
      BY <2>3 DEF Settled
    <3>2. QED
      BY <1>1, <2>3, <3>1 DEF IInv, OnePlace
  <2>4. QED
    BY <2>2, <2>3
<1>4. Accounted'
  <2>1. SUFFICES ASSUME NEW s \in claimed
                 PROVE  Busy(s)' \/ Settled(s)' \/ sel'[s] # "none" \/ hold'[s] # NoVersion
    BY DEF Accounted
  <2>2. s \in Sessions
    BY DEF IInv, TypeOK
  <2>3. CASE s # h.s
    <3>1. Settled(s)' <=> Settled(s)
      BY <2>2, <2>3 DEF Settled
    <3>2. QED
      BY <1>1, <2>2, <2>3, <3>1 DEF IInv, Accounted
  <2>4. QED
    BY <2>3
<1>7. WaitingQueued'
  BY MovedQueued DEF IInv, TypeOK
<1>5. GatesPassed'
  BY <1>1 DEF IInv, GatesPassed
<1>6. QED
  BY <1>1, <1>3, <1>4, <1>5, <1>7 DEF IInv

---------------------------------------------------------------------------
(* The steps *)

LEMMA InitInv == Init => IInv
<1>1. SUFFICES ASSUME Init PROVE IInv
  OBVIOUS
<1>2. content \in Versions
  BY <1>1, HeldAssumption DEF Init
<1>3. TypeOK
  BY <1>1, <1>2 DEF Init, TypeOK
<1>4. HandlersApart /\ GatesPassed /\ Accounted /\ WaitingQueued
  BY <1>1 DEF Init, HandlersApart, GatesPassed, Accounted, WaitingQueued
<1>5. \A s \in Sessions : ~ Busy(s) /\ ~ Settled(s)
  BY <1>1 DEF Init, Busy, Settled
<1>6. OnePlace
  BY <1>1, <1>5 DEF Init, OnePlace
<1>7. BuildsRun
  BY <1>1 DEF Init, BuildsRun
<1>8. QED
  BY <1>3, <1>4, <1>6, <1>7 DEF IInv

\* The event is queued, with or without a last notice to post, or its refusal is
\* to be posted.
LEMMA TargetStep ==
    ASSUME IInv, NEW h \in handlers, h.at # "waiting", decided, Target(h),
           pin' \in BOOLEAN, notified' \in BOOLEAN,
           UNCHANGED <<claimed, decided, sel, hold, image, up, builds, content,
                       told, stopped, lost, late, again, prompts>>
    PROVE  IInv'
<1>1. CASE handlers' = Moved(h, "rejecting") /\ UNCHANGED delivered
  BY <1>1, StayStep DEF Awaits, fates, IInv, TypeOK
<1>2. ASSUME NEW at \in {"done", "waiting"}, handlers' = Moved(h, at),
             delivered' = [delivered EXCEPT ![h.s] = @ + 1]
      PROVE  IInv'
  <2>1. /\ h.s \in Sessions /\ sel[h.s] = "none" /\ hold[h.s] = NoVersion
        /\ delivered[h.s] = again[h.s] /\ again[h.s] \in Nat /\ h.s \notin stopped /\ up
    BY TurnFacts
  <2>2. delivered' \in [Sessions -> Nat] /\ delivered'[h.s] = again[h.s] + 1
        /\ \A s \in Sessions \ {h.s} : delivered'[s] = delivered[s]
    BY <1>2, <2>1 DEF IInv, TypeOK
  <2>3. CASE at = "waiting"
    BY <1>2, <2>1, <2>2, <2>3, MoveStep DEF Awaits, Past, IInv, TypeOK
  <2>4. CASE at = "done"
    <3>1. handlers' \subseteq Handler
      BY <1>2, <2>4, MovedFacts DEF IInv, TypeOK
    <3>2. TypeOK'
      BY <2>1, <2>2, <3>1 DEF IInv, TypeOK
    <3>3. BuildsRun'
      BY DEF IInv, BuildsRun
    <3>4. /\ Settled(h.s)'
          /\ again'[h.s] <= delivered'[h.s] /\ delivered'[h.s] <= again'[h.s] + 1
      BY <2>1, <2>2 DEF Settled
    <3>5. QED
      BY <1>2, <2>1, <2>2, <2>4, <3>2, <3>3, <3>4, DoneStep
  <2>5. QED
    BY <1>2, <2>3, <2>4
<1>3. QED
  BY <1>1, <1>2 DEF Target

\* The last notice is posted.
LEMMA WaitingStep == ASSUME IInv, NEW h \in handlers, WaitingPosted(h) PROVE IInv'
<1>1. /\ h.at = "waiting" /\ handlers' = Moved(h, "done")
      /\ UNCHANGED <<store, up, builds, notified, content, fates, bounds>>
  BY DEF WaitingPosted
<1>2. /\ h.s \in Sessions /\ sel[h.s] = "none" /\ hold[h.s] = NoVersion
      /\ delivered[h.s] = again[h.s] + 1 /\ again[h.s] \in Nat /\ h.s \notin stopped /\ up
  BY <1>1, TurnFacts
<1>3. handlers' \subseteq Handler
  BY <1>1, MovedFacts DEF IInv, TypeOK
<1>4. TypeOK'
  BY <1>1, <1>2, <1>3 DEF IInv, TypeOK, store, fates
<1>5. BuildsRun'
  BY <1>1 DEF IInv, BuildsRun, store, fates
<1>6. /\ Settled(h.s)'
      /\ again'[h.s] <= delivered'[h.s] /\ delivered'[h.s] <= again'[h.s] + 1
  BY <1>1, <1>2 DEF Settled, fates
<1>7. QED
  BY <1>1, <1>2, <1>4, <1>5, <1>6, DoneStep DEF store, fates, bounds

\* The user is told that nothing will run.
LEMMA ToldStep ==
    ASSUME IInv, NEW h \in handlers, Rejected(h) \/ Expired(h)
    PROVE  IInv'
<1>1. /\ handlers' = Moved(h, "done") /\ told' = told \cup {h.s} /\ h.at # "waiting"
      /\ UNCHANGED <<store, up, builds, notified, content, delivered, stopped, lost,
                     late, again, bounds>>
  BY DEF Rejected, Expired
<1>2. /\ h.s \in Sessions /\ h.s \in claimed /\ sel[h.s] = "none" /\ hold[h.s] = NoVersion
      /\ delivered[h.s] = again[h.s] /\ again[h.s] \in Nat /\ h.s \notin stopped /\ up
  BY <1>1, TurnFacts
<1>3. handlers' \subseteq Handler
  BY <1>1, MovedFacts DEF IInv, TypeOK
<1>4. TypeOK'
  BY <1>1, <1>2, <1>3 DEF IInv, TypeOK, store
<1>5. BuildsRun'
  BY <1>1 DEF IInv, BuildsRun, store
<1>6. Settled(h.s)'
  BY <1>1 DEF Settled
<1>7. QED
  BY <1>1, <1>2, <1>4, <1>5, <1>6, DoneStep DEF store, bounds

\* The selection row is stored once the question is posted.
LEMMA HoldStep == ASSUME IInv, NEW h \in handlers, Hold(h) PROVE IInv'
<1>1. /\ handlers' = Moved(h, "done") /\ sel' = [sel EXCEPT ![h.s] = RowFor(h)]
      /\ h.at # "waiting"
      /\ UNCHANGED <<claimed, decided, hold, image, pin, up, builds, notified,
                     content, fates, bounds>>
  BY DEF Hold
<1>2. /\ h.s \in Sessions /\ h.s \in claimed /\ hold[h.s] = NoVersion
      /\ delivered[h.s] = again[h.s] /\ again[h.s] \in Nat
      /\ h.s \notin told \cup stopped \cup lost /\ up
  BY <1>1, TurnFacts
<1>3. handlers' \subseteq Handler
  BY <1>1, MovedFacts DEF IInv, TypeOK
<1>4. /\ sel' \in [Sessions -> {"none", "options", "empty"}] /\ sel'[h.s] # "none"
      /\ \A s \in Sessions \ {h.s} : sel'[s] = sel[s]
  BY <1>1, <1>2 DEF IInv, TypeOK, RowFor
<1>5. TypeOK'
  BY <1>1, <1>2, <1>3, <1>4 DEF IInv, TypeOK, fates
<1>6. BuildsRun'
  BY <1>1 DEF IInv, BuildsRun, fates
<1>7. ~ Settled(h.s)'
  BY <1>1, <1>2 DEF Settled, fates
<1>8. QED
  BY <1>1, <1>2, <1>4, <1>5, <1>6, <1>7, DoneStep DEF fates, bounds

\* The hold is stored: on a running build, or late.
LEMMA HoldOnBuildStep ==
    ASSUME IInv, NEW h \in handlers, h.at # "waiting", NEW v \in Versions, decided,
           handlers' = Moved(h, "done"), hold' = [hold EXCEPT ![h.s] = v],
           image' \in [Versions -> {"none", "building", "ready", "failed"}],
           builds' \subseteq Versions, notified' \in BOOLEAN,
           \A w \in Versions : image[w] = "building" => image'[w] = "building",
           \A w \in Versions : image'[w] = "building" => w \in builds',
           late' = IF image'[v] = "building" THEN late ELSE late \cup {h.s},
           UNCHANGED <<claimed, decided, sel, pin, up, content,
                       delivered, told, stopped, lost, again, prompts>>
    PROVE  IInv'
<1>1. /\ h.s \in Sessions /\ h.s \in claimed /\ sel[h.s] = "none" /\ hold[h.s] = NoVersion
      /\ delivered[h.s] = again[h.s] /\ again[h.s] \in Nat
      /\ h.s \notin told \cup stopped \cup lost /\ up
  BY TurnFacts
<1>2. handlers' \subseteq Handler
  BY MovedFacts DEF IInv, TypeOK
<1>3. /\ hold' \in [Sessions -> Versions \cup {NoVersion}] /\ hold'[h.s] = v
      /\ \A s \in Sessions \ {h.s} : hold'[s] = hold[s]
  BY <1>1 DEF IInv, TypeOK
<1>4. TypeOK'
  BY <1>1, <1>2, <1>3 DEF IInv, TypeOK
<1>5. BuildsRun'
  <2>1. ASSUME NEW s \in Sessions, hold'[s] # NoVersion, s \notin late'
        PROVE  image'[hold'[s]] = "building"
    <3>1. CASE s = h.s
      BY <1>3, <2>1, <3>1
    <3>2. CASE s # h.s
      <4>1. hold'[s] = hold[s] /\ hold[s] \in Versions /\ s \notin late
        BY <1>3, <2>1, <3>2 DEF IInv, TypeOK
      <4>2. QED
        BY <2>1, <4>1 DEF IInv, BuildsRun
    <3>3. QED
      BY <3>1, <3>2
  <2>2. QED
    BY <2>1 DEF BuildsRun
<1>6. ~ Settled(h.s)' /\ v # NoVersion
  BY <1>1, HeldAssumption DEF Settled
<1>7. QED
  BY <1>1, <1>3, <1>4, <1>5, <1>6, DoneStep

\* The building notice is over.
LEMMA NoticeStep == ASSUME IInv, NEW h \in handlers, HoldOnBuild(h) PROVE IInv'
<1>1. h.v \in Versions /\ decided
  BY DEF HoldOnBuild, IInv, GatesPassed
<1>2. up
  BY TurnFacts
<1>3. QED
  BY <1>1, <1>2, HoldOnBuildStep DEF HoldOnBuild, IInv, TypeOK, BuildsRun, bounds

\* Steps between awaits that move nobody.
LEMMA GateSteps ==
    ASSUME IInv, NEW h \in handlers, StartTurn(h) \/ Resolve(h) \/ AskFails(h) \/ Choose(h)
    PROVE  IInv'
<1>1. /\ EnvironmentGate(h.s) = "listing"
      /\ \A d \in BOOLEAN :
            RouteCreated(h.s, d, sel[h.s]) = IF d THEN "listing" ELSE "resolving"
  BY TurnFacts
<1>2. decided \in BOOLEAN /\ pin \in BOOLEAN /\ notified \in BOOLEAN
  BY DEF IInv, TypeOK
<1>3. CASE StartTurn(h)
  <2>1. PICK at \in {"listing", "resolving"} :
          handlers' = Moved(h, at) /\ (at = "listing" => decided)
    BY <1>1, <1>2, <1>3 DEF StartTurn
  <2>2. QED
    BY <1>2, <1>3, <2>1, StayStep DEF StartTurn, store, bounds, Awaits, Past
<1>4. CASE Resolve(h)
  <2>1. PICK at \in {"listing", "unavailable", "asking"} :
          handlers' = Moved(h, at) /\ decided' \in BOOLEAN /\ (decided => decided')
                    /\ (at = "listing" => decided')
    BY <1>1, <1>2, <1>4 DEF Resolve
  <2>2. QED
    BY <1>2, <1>4, <2>1, StayStep DEF Resolve, bounds, Awaits, Past
<1>5. CASE AskFails(h)
  BY <1>1, <1>2, <1>5, StayStep DEF AskFails, Awaits, Past
<1>6. CASE Choose(h)
  <2>1. handlers' = Moved(h, "listing")
    BY <1>1, <1>6 DEF Choose
  <2>2. QED
    BY <1>2, <1>6, <2>1, StayStep DEF Choose, bounds, Awaits, Past
<1>7. QED
  BY <1>3, <1>4, <1>5, <1>6

\* An image that is ready, or failed, lets the event on.
LEMMA ImageReadyStep ==
    ASSUME IInv, NEW h \in handlers, h.at # "waiting", decided,
           ImageReady(h) \/ ImageFailed(h), pin' \in BOOLEAN,
           UNCHANGED <<claimed, decided, sel, hold, image, up, builds, content,
                       told, stopped, lost, late, again, prompts>>
    PROVE  IInv'
<1>1. CASE handlers' = Moved(h, "quiet") /\ notified' = FALSE /\ UNCHANGED delivered
  BY <1>1, StayStep DEF Awaits, fates
<1>2. CASE UNCHANGED notified /\ Target(h)
  BY <1>2, TargetStep DEF IInv, TypeOK
<1>3. QED
  BY <1>1, <1>2 DEF ImageReady, ImageFailed

\* The issue's repositories are known.
LEMMA ListedStep == ASSUME IInv, NEW h \in handlers, Listed(h) PROVE IInv'
<1>1. /\ decided /\ pin \in BOOLEAN /\ notified \in BOOLEAN /\ h.at # "waiting"
      /\ UNCHANGED <<store, up, builds, content, told, stopped, lost, late, again, bounds>>
  BY DEF Listed, IInv, GatesPassed, TypeOK
<1>2. CASE Target(h) /\ UNCHANGED notified
  BY <1>1, <1>2, TargetStep DEF store, bounds
<1>3. CASE /\ handlers' = Moved(h, "quiet") \/ handlers' = Moved(h, "fetching")
           /\ UNCHANGED <<notified, delivered>>
  BY <1>1, <1>3, StayStep DEF store, bounds, fates, Awaits
<1>4. CASE ImageReady(h)
  BY <1>1, <1>4, ImageReadyStep DEF store, bounds
<1>5. QED
  BY <1>2, <1>3, <1>4 DEF Listed

\* The devcontainer is known: the event goes on, or is held on a build.
LEMMA FetchedStep == ASSUME IInv, NEW h \in handlers, Fetched(h) PROVE IInv'
<1>1. /\ decided /\ up /\ pin \in BOOLEAN /\ notified \in BOOLEAN /\ content \in Versions
      /\ h.at = "fetching"
      /\ UNCHANGED <<claimed, decided, sel, up, content, told, stopped, lost, late, again,
                     bounds>>
  BY TurnFacts DEF Fetched, IInv, GatesPassed, TypeOK
<1>2. CASE /\ Target(h) /\ UNCHANGED notified
           /\ UNCHANGED <<hold, image, pin, builds>>
  BY <1>1, <1>2, TargetStep DEF bounds
<1>3. CASE /\ ImageReady(h) \/ ImageFailed(h)
           /\ pin' \in BOOLEAN /\ UNCHANGED <<hold, image, builds>>
  BY <1>1, <1>3, ImageReadyStep DEF bounds
<1>4. CASE /\ image[content] \in {"none", "building"}
           /\ IF image[content] = "none" THEN StartBuild(content) ELSE UNCHANGED <<image, builds>>
           /\ IF notified
              THEN hold' = [hold EXCEPT ![h.s] = content] /\ handlers' = Moved(h, "done")
              ELSE /\ handlers' = (handlers \ {h}) \cup
                                    {[h EXCEPT !.at = "notice", !.v = content]}
                   /\ UNCHANGED hold
           /\ notified' = TRUE
           /\ UNCHANGED <<pin, delivered>>
  <2>1. /\ image' \in [Versions -> {"none", "building", "ready", "failed"}]
        /\ builds' \subseteq Versions /\ image'[content] = "building"
        /\ \A w \in Versions : image[w] = "building" => image'[w] = "building"
        /\ \A w \in Versions : image'[w] = "building" => w \in builds'
    BY <1>1, <1>4 DEF StartBuild, IInv, TypeOK, BuildsRun
  <2>2. CASE hold' = [hold EXCEPT ![h.s] = content] /\ handlers' = Moved(h, "done")
    <3>1. late' = IF image'[content] = "building" THEN late ELSE late \cup {h.s}
      BY <1>1, <2>1
    <3>2. QED
      BY <1>1, <1>4, <2>1, <2>2, <3>1, HoldOnBuildStep DEF bounds
  <2>3. CASE /\ handlers' = (handlers \ {h}) \cup {[h EXCEPT !.at = "notice", !.v = content]}
             /\ UNCHANGED hold
    <3> DEFINE k == [h EXCEPT !.at = "notice", !.v = content]
    <3>1. /\ k \in Handler /\ k.at = "notice" /\ k.v = content
          /\ k.s = h.s /\ k.rest = h.rest
      <4>1. h \in Handler
        BY DEF IInv, TypeOK
      <4>2. QED
        BY <1>1, <4>1 DEF Handler, Awaits
    <3>2. handlers' = (handlers \ {h}) \cup {k}
      BY <2>3
    <3> HIDE DEF k
    <3>3. Cover(k) = Cover(h)
      BY <3>1 DEF Cover
    <3>4. HandlersApart'
      BY <3>1, <3>2, <3>3 DEF IInv, HandlersApart
    <3>5. \A s \in Sessions : Busy(s)' <=> Busy(s)
      BY <3>2, <3>3 DEF Busy, Cover
    <3>13. WaitingQueued'
      BY <1>1, <1>4, <3>1, <3>2, <3>3 DEF IInv, WaitingQueued, Cover
    <3>6. TypeOK'
      BY <1>1, <1>4, <2>1, <2>3, <3>1, <3>2 DEF IInv, TypeOK
    <3>7. \A s \in Sessions : Settled(s)' <=> Settled(s)
      BY <1>1, <1>4 DEF Settled
    <3>8. OnePlace'
      BY <1>1, <1>4, <2>3, <3>5, <3>7 DEF IInv, OnePlace
    <3>9. Accounted'
      BY <1>1, <1>4, <2>3, <3>5, <3>7 DEF IInv, TypeOK, Accounted
    <3>10. GatesPassed'
      BY <1>1, <3>1, <3>2 DEF IInv, GatesPassed, bounds
    <3>11. BuildsRun'
      BY <1>1, <2>1, <2>3 DEF IInv, TypeOK, BuildsRun
    <3>12. QED
      BY <3>4, <3>6, <3>8, <3>9, <3>10, <3>11, <3>13 DEF IInv
  <2>4. QED
    BY <1>4, <2>2, <2>3
<1>5. QED
  BY <1>1, <1>2, <1>3, <1>4 DEF Fetched

\* The courtesy post is over, or failed.
LEMMA QuietStep == ASSUME IInv, NEW h \in handlers, QuietPosted(h) PROVE IInv'
BY TargetStep DEF QuietPosted, IInv, GatesPassed, TypeOK, store, bounds

\* The process dies, with the sessions that only a handler knew.
LEMMA DownStep ==
    ASSUME IInv, Down,
           UNCHANGED <<store, content, delivered, told, stopped, late, again, prompts>>
    PROVE  IInv'
<1>1. handlers' = {} /\ \A s \in Sessions : ~ Busy(s)'
  BY DEF Down, Busy
<1>2. \A s \in Sessions : Settled(s)' <=> Settled(s) \/ InHandler(s)
  BY DEF Down, Settled
<1>3. ASSUME NEW s \in Sessions, Busy(s) PROVE Settled(s) \/ InHandler(s)
  <2>1. PICK h \in handlers : s \in Cover(h)
    BY <1>3 DEF Busy
  <2>2. CASE s = h.s /\ h.at = "waiting"
    BY <2>1, <2>2 DEF IInv, WaitingQueued, Settled
  <2>3. CASE ~ (s = h.s /\ h.at = "waiting")
    BY <2>1, <2>3 DEF InHandler, Cover
  <2>4. QED
    BY <2>2, <2>3
<1>4. ASSUME NEW s \in Sessions, InHandler(s) PROVE Busy(s) /\ delivered[s] <= again[s]
  <2>1. PICK h \in handlers : (s = h.s /\ h.at # "waiting") \/ s \in h.rest
    BY <1>4 DEF InHandler
  <2>2. s \in Cover(h) /\ ~ (s = h.s /\ h.at = "waiting")
    BY <2>1 DEF Cover, IInv, HandlersApart
  <2>3. QED
    BY <2>2 DEF Busy, IInv, WaitingQueued, TypeOK
<1>5. claimed \subseteq Sessions /\ lost' \subseteq claimed
  BY <1>4 DEF IInv, TypeOK, Down, OnePlace
<1>6. TypeOK'
  BY <1>5 DEF IInv, TypeOK, Down, store
<1>7. OnePlace'
  BY <1>1, <1>2, <1>4 DEF IInv, OnePlace, store
<1>8. Accounted'
  <2>1. SUFFICES ASSUME NEW s \in claimed
                 PROVE  Settled(s)' \/ sel[s] # "none" \/ hold[s] # NoVersion
    BY DEF Accounted, store
  <2>2. Settled(s) \/ Busy(s) \/ sel[s] # "none" \/ hold[s] # NoVersion
    BY DEF IInv, Accounted
  <2>3. QED
    BY <1>2, <1>3, <1>5, <2>2
<1>9. WaitingQueued'
  BY <1>1 DEF WaitingQueued
<1>10. QED
  BY <1>6, <1>7, <1>8, <1>9 DEF IInv, HandlersApart, GatesPassed, BuildsRun, Down, store

\* A post fails: the selection is stored again, the session dropped by its
\* release, or the process goes.
LEMMA PostFailsStep == ASSUME IInv, NEW h \in handlers, PostFails(h) PROVE IInv'
<1>1. /\ Rethrow(h)
      /\ UNCHANGED <<claimed, decided, hold, image, pin, content, delivered, told, stopped,
                     late, prompts>>
  BY DEF PostFails
<1>2. /\ h.s \in Sessions /\ h.s \in claimed /\ sel[h.s] = "none" /\ hold[h.s] = NoVersion
      /\ delivered[h.s] = IF h.at = "waiting" THEN again[h.s] + 1 ELSE again[h.s]
      /\ again[h.s] \in Nat /\ h.s \notin told \cup stopped \cup lost /\ up
  BY TurnFacts
<1>3. CASE h.by \in {"created", "replay"} /\ Down
  <2>1. sel' = sel /\ again' = again
    BY <1>1, <1>3 DEF Rethrow
  <2>2. QED
    BY <1>1, <1>3, <2>1, DownStep DEF store
<1>4. CASE /\ h.by \in {"answer", "release"} /\ handlers' = Moved(h, "done")
           /\ lost' = IF h.by = "release" /\ h.at # "waiting" THEN lost \cup {h.s} ELSE lost
           /\ UNCHANGED <<up, builds, notified>>
  <2>1. handlers' \subseteq Handler
    BY <1>4, MovedFacts DEF IInv, TypeOK
  <2>2. /\ sel' \in [Sessions -> {"none", "options", "empty"}]
        /\ \A s \in Sessions \ {h.s} : sel'[s] = sel[s]
        /\ sel'[h.s] = IF h.by = "answer" THEN "options" ELSE "none"
    BY <1>1, <1>2 DEF Rethrow, IInv, TypeOK
  <2>3. /\ again' \in [Sessions -> Nat]
        /\ \A s \in Sessions \ {h.s} : again'[s] = again[s]
        /\ again'[h.s] = IF h.by = "answer" /\ h.at = "waiting" THEN again[h.s] + 1 ELSE again[h.s]
    BY <1>1, <1>2 DEF Rethrow, IInv, TypeOK
  <2>4. TypeOK'
    BY <1>1, <1>2, <1>4, <2>1, <2>2, <2>3 DEF IInv, TypeOK
  <2>5. BuildsRun'
    BY <1>1, <1>4 DEF IInv, BuildsRun
  <2>6. again'[h.s] <= delivered'[h.s] /\ delivered'[h.s] <= again'[h.s] + 1
    BY <1>1, <1>2, <2>3
  <2>7. Settled(h.s)' <=> h.by = "release"
    <3>1. delivered'[h.s] > again'[h.s] <=> h.by = "release" /\ h.at = "waiting"
      BY <1>1, <1>2, <1>4, <2>3
    <3>2. h.s \in told' \cup stopped' \cup lost' <=> h.by = "release" /\ h.at # "waiting"
      BY <1>1, <1>2, <1>4
    <3>3. QED
      BY <3>1, <3>2 DEF Settled
  <2>8. QED
    BY <1>1, <1>2, <1>4, <2>2, <2>3, <2>4, <2>5, <2>6, <2>7, DoneStep
<1>5. QED
  BY <1>1, <1>3, <1>4 DEF Rethrow

\* An expiry notice fails and the pass gives up on the rest.
LEMMA ExpiryFailsStep == ASSUME IInv, NEW h \in handlers, ExpiryFails(h) PROVE IInv'
<1>1. /\ lost' = lost \cup Cover(h) /\ handlers' = handlers \ {h}
      /\ UNCHANGED <<store, up, builds, notified, content, delivered, told, stopped, late,
                     again, prompts>>
      /\ h.at = "expiring"
  BY DEF ExpiryFails, Cover
<1>2. /\ Cover(h) \subseteq Sessions /\ \A s \in Cover(h) : Busy(s)
      /\ \A s \in Cover(h) : ~ (delivered[s] > again[s])
  BY <1>1 DEF IInv, TypeOK, Handler, Cover, Busy, WaitingQueued
<1>3. Cover(h) \subseteq claimed
  BY <1>2 DEF IInv, OnePlace
<1>4. \A s \in Sessions : Busy(s)' <=> Busy(s) /\ s \notin Cover(h)
  <2>1. \A s \in Sessions : Busy(s) <=> \E g \in handlers : s \in Cover(g)
    BY DEF Busy, Cover
  <2>2. \A s \in Sessions : Busy(s)' <=> \E g \in handlers \ {h} : s \in Cover(g)
    BY <1>1 DEF Busy, Cover
  <2>3. \A g \in handlers \ {h} : Cover(g) \cap Cover(h) = {}
    BY DEF IInv, HandlersApart
  <2>4. QED
    BY <2>1, <2>2, <2>3
<1>5. \A s \in Sessions : Settled(s)' <=> Settled(s) \/ s \in Cover(h)
  BY <1>1 DEF Settled
<1>6. TypeOK'
  BY <1>1, <1>3 DEF IInv, TypeOK, store
<1>7. OnePlace'
  BY <1>1, <1>2, <1>4, <1>5 DEF IInv, OnePlace, TypeOK, store
<1>8. Accounted'
  <2>1. SUFFICES ASSUME NEW s \in claimed
                 PROVE  Settled(s)' \/ Busy(s)' \/ sel[s] # "none" \/ hold[s] # NoVersion
    BY <1>1 DEF Accounted, store
  <2>2. s \in Sessions
    BY DEF IInv, TypeOK
  <2>3. Settled(s) \/ Busy(s) \/ sel[s] # "none" \/ hold[s] # NoVersion
    BY DEF IInv, Accounted
  <2>4. QED
    BY <1>4, <1>5, <2>2, <2>3
<1>9. HandlersApart' /\ GatesPassed' /\ BuildsRun' /\ WaitingQueued'
  BY <1>1 DEF IInv, HandlersApart, GatesPassed, BuildsRun, WaitingQueued, store
<1>10. QED
  BY <1>6, <1>7, <1>8, <1>9 DEF IInv

\* A handler appears for sessions that have left the rows they were in, or that
\* are claimed now, and takes over all of them.
LEMMA NewHandlerStep ==
    ASSUME IInv, NEW g \in Handler, g.s \notin g.rest,
           handlers' = handlers \cup {g},
           g.at \in Past \ {"notice"} => decided, g.at \notin {"notice", "waiting"},
           \A s \in Cover(g) : ~ Busy(s) /\ ~ Settled(s) /\ s \in claimed'
                                /\ sel'[s] = "none" /\ hold'[s] = NoVersion,
           \A s \in Sessions \ Cover(g) :
              sel'[s] = sel[s] /\ hold'[s] = hold[s] /\ (s \in claimed' <=> s \in claimed),
           UNCHANGED <<decided, delivered, told, stopped, lost, again>>, prompts' \in Nat,
           TypeOK', BuildsRun'
    PROVE  IInv'
<1>1. \A s \in Sessions : Busy(s)' <=> Busy(s) \/ s \in Cover(g)
  BY DEF Busy, Cover
<1>2. \A h \in handlers : Cover(h) \cap Cover(g) = {}
  BY DEF Busy, Cover
<1>3. HandlersApart'
  BY <1>2 DEF IInv, HandlersApart
<1>4. \A s \in Sessions : Settled(s)' <=> Settled(s)
  BY DEF Settled
<1>5. OnePlace'
  <2>1. SUFFICES ASSUME NEW s \in Sessions
                 PROVE  /\ Busy(s)' => /\ s \in claimed' /\ sel'[s] = "none" /\ hold'[s] = NoVersion
                                       /\ s \notin told' \cup stopped' \cup lost'
                        /\ sel'[s] # "none" => s \in claimed' /\ hold'[s] = NoVersion /\ ~ Settled(s)'
                        /\ hold'[s] # NoVersion => s \in claimed' /\ ~ Settled(s)'
                        /\ Settled(s)' => s \in claimed'
                        /\ again'[s] <= delivered'[s] /\ delivered'[s] <= again'[s] + 1
                        /\ s \in stopped' => delivered'[s] = again'[s]
    BY DEF OnePlace
  <2>2. /\ again'[s] <= delivered'[s] /\ delivered'[s] <= again'[s] + 1
        /\ s \in stopped' => delivered'[s] = again'[s]
    BY DEF IInv, OnePlace
  <2>3. CASE s \in Cover(g)
    BY <1>4, <2>2, <2>3 DEF Settled
  <2>4. CASE s \notin Cover(g)
    BY <1>1, <1>4, <2>2, <2>4 DEF IInv, OnePlace
  <2>5. QED
    BY <2>3, <2>4
<1>6. Accounted'
  <2>1. SUFFICES ASSUME NEW s \in claimed'
                 PROVE  Settled(s)' \/ Busy(s)' \/ sel'[s] # "none" \/ hold'[s] # NoVersion
    BY DEF Accounted
  <2>2. s \in Sessions
    BY DEF TypeOK
  <2>3. CASE s \in Cover(g)
    BY <1>1, <2>2, <2>3
  <2>4. CASE s \notin Cover(g)
    <3>1. Settled(s) \/ Busy(s) \/ sel[s] # "none" \/ hold[s] # NoVersion
      BY <2>2, <2>4 DEF IInv, Accounted
    <3>2. QED
      BY <1>1, <1>4, <2>2, <2>4, <3>1
  <2>5. QED
    BY <2>3, <2>4
<1>7. GatesPassed'
  BY DEF IInv, GatesPassed, Past
<1>8. WaitingQueued'
  BY DEF IInv, WaitingQueued, Settled, Cover
<1>9. QED
  BY <1>3, <1>5, <1>6, <1>7, <1>8 DEF IInv

\* The first delivery of the webhook.
LEMMA CreatedStep == ASSUME IInv, NEW s \in Sessions, Created(s) PROVE IInv'
<1>1. /\ ~ Busy(s) /\ ~ Settled(s) /\ sel[s] = "none" /\ hold[s] = NoVersion
      /\ decided \in BOOLEAN /\ up /\ claimed' = claimed \cup {s}
  BY DEF Created, IInv, OnePlace, TypeOK
<1>2. PICK at \in {"listing", "resolving"} :
        /\ (at = "listing" => decided)
        /\ RouteCreated(s, decided, sel[s]) = at
  BY <1>1 DEF RouteCreated, EnvironmentGate
<1> DEFINE g == [s |-> s, rest |-> {}, at |-> at, by |-> "created", n |-> 0, v |-> NoVersion]
<1>3. handlers' = handlers \cup {g}
  BY <1>2 DEF Created, NewHandler
<1>4. /\ g \in Handler /\ g.s = s /\ g.rest = {} /\ g.at = at /\ Cover(g) = {s}
  BY DEF Handler, Awaits, Cover
<1> HIDE DEF g
<1>5. UNCHANGED <<decided, sel, hold, image, pin, up, builds, notified, content, fates, prompts>>
  BY DEF Created, bounds
<1>6. TypeOK'
  BY <1>1, <1>3, <1>4, <1>5 DEF IInv, TypeOK, fates
<1>7. BuildsRun'
  BY <1>5 DEF IInv, BuildsRun, fates
<1>8. prompts' \in Nat
  BY <1>5 DEF IInv, GatesPassed
<1>9. QED
  BY <1>1, <1>2, <1>3, <1>4, <1>5, <1>6, <1>7, <1>8, NewHandlerStep DEF fates, Past

\* A prompt takes the row and replays the delegation.
LEMMA AnswerStep == ASSUME IInv, NEW s \in Sessions, AnswerHeld(s) PROVE IInv'
<1>1. /\ ~ Busy(s) /\ ~ Settled(s) /\ s \in claimed /\ hold[s] = NoVersion
      /\ decided \in BOOLEAN /\ up /\ prompts' \in Nat
      /\ sel' = [sel EXCEPT ![s] = "none"]
  BY DEF AnswerHeld, Prompted, TakeRow, IInv, OnePlace, TypeOK, GatesPassed
<1>2. RouteCreated(s, decided, "none") = IF decided THEN "listing" ELSE "resolving"
  BY <1>1 DEF RouteCreated, EnvironmentGate
<1> DEFINE G(by, at) == [s |-> s, rest |-> {}, at |-> at, by |-> by, n |-> prompts',
                         v |-> NoVersion]
<1>3. PICK by \in {"answer", "replay"}, at \in {"choosing", "listing", "resolving"} :
        (at = "listing" => decided) /\ handlers' = handlers \cup {G(by, at)}
  BY <1>2 DEF AnswerHeld, NewHandler
<1>4. PICK g : g = G(by, at)
  OBVIOUS
<1>5. /\ g \in Handler /\ g.s = s /\ g.rest = {} /\ g.at = at /\ Cover(g) = {s}
  BY <1>1, <1>4 DEF Handler, Awaits, Cover
<1>6. handlers' = handlers \cup {g}
  BY <1>3, <1>4
<1> HIDE DEF G
<1>7. UNCHANGED <<claimed, decided, hold, image, pin, up, builds, notified, content, fates>>
  BY DEF AnswerHeld
<1>8. /\ sel' \in [Sessions -> {"none", "options", "empty"}] /\ sel'[s] = "none"
      /\ \A r \in Sessions \ {s} : sel'[r] = sel[r]
  BY <1>1 DEF IInv, TypeOK
<1>9. TypeOK'
  BY <1>1, <1>5, <1>6, <1>7, <1>8 DEF IInv, TypeOK, fates
<1>10. BuildsRun'
  BY <1>7 DEF IInv, BuildsRun, fates
<1>11. QED
  BY <1>1, <1>3, <1>5, <1>6, <1>7, <1>8, <1>9, <1>10, NewHandlerStep DEF fates, Past

\* A stop takes the row for good.
LEMMA StopStep == ASSUME IInv, NEW s \in Sessions, StopHeld(s) PROVE IInv'
<1>1. /\ ~ Busy(s) /\ ~ Settled(s) /\ s \in claimed /\ hold[s] = NoVersion
      /\ prompts' \in Nat /\ delivered[s] \in Nat
      /\ sel' = [sel EXCEPT ![s] = "none"] /\ stopped' = stopped \cup {s}
      /\ UNCHANGED <<claimed, decided, hold, image, pin, up, handlers, builds, notified,
                     content, delivered, told, lost, late, again>>
      /\ again[s] \in Nat /\ again[s] <= delivered[s]
  BY DEF StopHeld, Prompted, IInv, OnePlace, TypeOK, GatesPassed
<1>2. /\ sel' \in [Sessions -> {"none", "options", "empty"}] /\ sel'[s] = "none"
      /\ \A r \in Sessions \ {s} : sel'[r] = sel[r]
  BY <1>1 DEF IInv, TypeOK
<1>3. delivered[s] = again[s]
  BY <1>1 DEF Settled
<1>4. /\ \A r \in Sessions : Settled(r)' <=> Settled(r) \/ r = s
      /\ \A r \in Sessions : Busy(r)' <=> Busy(r)
  BY <1>1 DEF Settled, Busy
<1>5. TypeOK'
  BY <1>1, <1>2 DEF IInv, TypeOK
<1>6. OnePlace'
  BY <1>1, <1>2, <1>3, <1>4 DEF IInv, OnePlace
<1>7. Accounted'
  <2>1. SUFFICES ASSUME NEW r \in claimed
                 PROVE  Settled(r)' \/ Busy(r)' \/ sel'[r] # "none" \/ hold[r] # NoVersion
    BY <1>1 DEF Accounted
  <2>2. r \in Sessions /\ (Settled(r) \/ Busy(r) \/ sel[r] # "none" \/ hold[r] # NoVersion)
    BY DEF IInv, TypeOK, Accounted
  <2>3. QED
    BY <1>2, <1>4, <2>2
<1>8. HandlersApart' /\ GatesPassed' /\ BuildsRun' /\ WaitingQueued'
  BY <1>1 DEF IInv, HandlersApart, GatesPassed, BuildsRun, WaitingQueued
<1>9. QED
  BY <1>5, <1>6, <1>7, <1>8 DEF IInv

\* What a release takes is in one new handler, and it takes all of it.
LEMMA ReleaseFacts ==
    ASSUME TypeOK, NEW v \in Versions, NEW g \in Release(HeldOn(v))
    PROVE  /\ g \in Handler /\ g.s \notin g.rest /\ Cover(g) = HeldOn(v)
           /\ g.at = "listing" /\ g.v = NoVersion /\ decided
           /\ \A f \in Release(HeldOn(v)) : f = g
<1> DEFINE taken == HeldOn(v)
           n == CHOOSE s \in taken : TRUE
<1>1. taken # {} /\ taken \subseteq Sessions
  BY DEF Release, HeldOn
<1>2. n \in taken
  BY <1>1
<1>3. decided
  BY <1>1, HeldAssumption DEF HeldOn, TypeOK
<1>4. Release(taken) = {[s |-> n, rest |-> taken \ {n}, at |-> "listing", by |-> "release",
                         n |-> 0, v |-> NoVersion]}
  BY <1>1 DEF Release
<1> HIDE DEF n
<1>5. QED
  BY <1>1, <1>2, <1>3, <1>4 DEF Handler, Awaits, Cover

\* Builds end, or are found cut short: what is held on them is in handlers again.
LEMMA ReleaseStep ==
    ASSUME IInv, NEW cut \in SUBSET Versions,
           handlers' = handlers \cup UNION {Release(HeldOn(v)) : v \in cut},
           hold' = [s \in Sessions |-> IF hold[s] \in cut THEN NoVersion ELSE hold[s]],
           late' = {s \in late : hold[s] \notin cut},
           image' \in [Versions -> {"none", "building", "ready", "failed"}],
           \A v \in Versions \ cut : image'[v] = image[v],
           builds' \subseteq Versions, up',
           \A v \in Versions : image'[v] = "building" => v \in builds',
           UNCHANGED <<claimed, decided, sel, pin, notified, content, delivered, told,
                       stopped, lost, again, prompts>>
    PROVE  IInv'
<1> DEFINE fresh == UNION {Release(HeldOn(v)) : v \in cut}
<1>1. ASSUME NEW g \in fresh
      PROVE  /\ g \in Handler /\ g.s \notin g.rest /\ g.at = "listing" /\ decided
             /\ \E v \in cut : Cover(g) = HeldOn(v) /\ \A f \in Release(HeldOn(v)) : f = g
  BY ReleaseFacts DEF IInv
<1>2. ASSUME NEW g \in fresh, NEW s \in Cover(g)
      PROVE  s \in Sessions /\ hold[s] \in cut
  BY <1>1 DEF HeldOn
<1>3. ASSUME NEW g \in fresh, NEW f \in fresh, f # g
      PROVE  Cover(f) \cap Cover(g) = {}
  <2>1. PICK v \in cut : f \in Release(HeldOn(v))
    OBVIOUS
  <2>2. PICK w \in cut : g \in Release(HeldOn(w))
    OBVIOUS
  <2>3. v # w /\ Cover(f) = HeldOn(v) /\ Cover(g) = HeldOn(w)
    BY <1>3, <2>1, <2>2, ReleaseFacts DEF IInv
  <2>4. QED
    BY <2>3 DEF HeldOn
<1>4. ASSUME NEW s \in Sessions, hold[s] \in cut
      PROVE  \E g \in fresh : s \in Cover(g)
  <2>1. HeldOn(hold[s]) # {} /\ s \in HeldOn(hold[s])
    BY <1>4 DEF HeldOn
  <2>2. PICK g : g \in Release(HeldOn(hold[s]))
    BY <2>1 DEF Release
  <2>3. Cover(g) = HeldOn(hold[s])
    BY <1>4, <2>2, ReleaseFacts DEF IInv
  <2>4. g \in fresh
    BY <1>4, <2>2
  <2>5. QED
    BY <2>1, <2>3, <2>4
<1>5. handlers' = handlers \cup fresh
  OBVIOUS
<1> HIDE DEF fresh
<1>6. NoVersion \notin cut
  BY HeldAssumption
<1>7. \A s \in Sessions : Busy(s)' <=> Busy(s) \/ hold[s] \in cut
  <2>1. \A s : Busy(s) <=> \E g \in handlers : s \in Cover(g)
    BY DEF Busy, Cover
  <2>2. \A s : Busy(s)' <=> \E g \in handlers \cup fresh : s \in Cover(g)
    BY <1>5 DEF Busy, Cover
  <2>3. QED
    BY <1>2, <1>4, <2>1, <2>2
<1>8. \A s \in Sessions : Settled(s)' <=> Settled(s)
  BY DEF Settled
<1>9. HandlersApart'
  <2>1. \A h \in handlers, g \in fresh : Cover(h) \cap Cover(g) = {}
    <3>1. \A h \in handlers : \A s \in Sessions : s \in Cover(h) => hold[s] = NoVersion
      BY DEF IInv, OnePlace, Busy
    <3>2. QED
      BY <1>2, <1>6, <3>1
  <2>2. QED
    BY <1>1, <1>3, <1>5, <2>1 DEF IInv, HandlersApart
<1>10. TypeOK'
  BY <1>1, <1>5 DEF IInv, TypeOK
<1>11. OnePlace'
  <2>1. \A s \in Sessions :
          hold[s] \in cut => s \in claimed /\ sel[s] = "none" /\ s \notin told \cup stopped \cup lost
    BY <1>6 DEF IInv, OnePlace, Settled
  <2>2. QED
    BY <1>6, <1>7, <1>8, <2>1 DEF IInv, OnePlace
<1>12. Accounted'
  <2>1. SUFFICES ASSUME NEW s \in claimed
                 PROVE  Settled(s)' \/ Busy(s)' \/ sel[s] # "none" \/ hold'[s] # NoVersion
    BY DEF Accounted
  <2>2. s \in Sessions /\ (Settled(s) \/ Busy(s) \/ sel[s] # "none" \/ hold[s] # NoVersion)
    BY DEF IInv, TypeOK, Accounted
  <2>3. QED
    BY <1>7, <1>8, <2>2
<1>13. GatesPassed'
  BY <1>1, <1>5 DEF IInv, GatesPassed
<1>14. BuildsRun'
  BY DEF IInv, TypeOK, BuildsRun
<1>15. WaitingQueued'
  <2>1. \A g \in fresh : \A s \in Cover(g) : ~ (delivered[s] > again[s])
    BY <1>2, <1>6 DEF IInv, OnePlace, Settled
  <2>2. QED
    BY <1>1, <1>5, <2>1 DEF IInv, WaitingQueued, Cover
<1>16. QED
  BY <1>9, <1>10, <1>11, <1>12, <1>13, <1>14, <1>15 DEF IInv

\* A build ends.
LEMMA BuildEndsStep == ASSUME IInv, NEW v \in Versions, BuildEnds(v) PROVE IInv'
<1>1. /\ hold' = [s \in Sessions |-> IF hold[s] \in {v} THEN NoVersion ELSE hold[s]]
      /\ handlers' = handlers \cup UNION {Release(HeldOn(w)) : w \in {v}}
  BY DEF BuildEnds
<1>2. late' = {s \in late : hold[s] \notin {v}}
  BY DEF BuildEnds, HeldOn, IInv, TypeOK
<1>3. /\ image' \in [Versions -> {"none", "building", "ready", "failed"}]
      /\ image'[v] # "building" /\ \A w \in Versions \ {v} : image'[w] = image[w]
      /\ builds' = builds \ {v} /\ builds' \subseteq Versions
  BY DEF BuildEnds, IInv, TypeOK
<1>4. up /\ UNCHANGED <<claimed, decided, sel, pin, up, notified, content, delivered, told,
                         stopped, lost, again, prompts>>
  BY DEF BuildEnds, IInv, TypeOK, bounds
<1>5. \A w \in Versions : image'[w] = "building" => w \in builds'
  BY <1>3, <1>4 DEF IInv, BuildsRun
<1>6. QED
  BY <1>1, <1>2, <1>3, <1>4, <1>5, ReleaseStep

\* The next process finds the builds that were cut short.
LEMMA RestartStep == ASSUME IInv, Restart PROVE IInv'
<1> DEFINE cut == {v \in Versions : image[v] = "building"}
<1>1. /\ handlers = {} /\ builds = {} /\ up'
      /\ image' = [v \in Versions |-> IF v \in cut THEN "none" ELSE image[v]]
      /\ hold' = [s \in Sessions |-> IF hold[s] \in cut THEN NoVersion ELSE hold[s]]
      /\ handlers' = UNION {Release(HeldOn(v)) : v \in cut}
      /\ late' = {s \in late : hold[s] \notin cut}
      /\ UNCHANGED <<claimed, decided, sel, pin, builds, notified, content, delivered, told,
                     stopped, lost, again, prompts>>
  BY DEF Restart, IInv, TypeOK, bounds
<1>2. handlers' = handlers \cup UNION {Release(HeldOn(v)) : v \in cut}
  BY <1>1
<1>3. /\ image' \in [Versions -> {"none", "building", "ready", "failed"}]
      /\ \A v \in Versions \ cut : image'[v] = image[v]
      /\ \A v \in Versions : image'[v] # "building"
  BY <1>1 DEF IInv, TypeOK
<1>4. cut \in SUBSET Versions
  OBVIOUS
<1> HIDE DEF cut
<1>5. QED
  BY <1>1, <1>2, <1>3, <1>4, ReleaseStep

\* A build is started from the setup page.
LEMMA WarmStep == ASSUME IInv, WarmBuild PROVE IInv'
<1>1. /\ builds' = builds \cup {content} /\ image' = [image EXCEPT ![content] = "building"]
      /\ content \in Versions /\ up
      /\ UNCHANGED <<claimed, decided, sel, hold, pin, up, handlers, notified, content,
                     fates, prompts>>
  BY DEF WarmBuild, StartBuild, IInv, TypeOK
<1>2. /\ image' \in [Versions -> {"none", "building", "ready", "failed"}]
      /\ \A v \in Versions : image'[v] = IF v = content THEN "building" ELSE image[v]
  BY <1>1 DEF IInv, TypeOK
<1>3. /\ \A s \in Sessions : Settled(s)' <=> Settled(s)
      /\ \A s \in Sessions : Busy(s)' <=> Busy(s)
  BY <1>1 DEF Settled, Busy, fates
<1>4. TypeOK'
  BY <1>1, <1>2 DEF IInv, TypeOK, fates
<1>5. OnePlace'
  BY <1>1, <1>3 DEF IInv, OnePlace, fates
<1>6. Accounted'
  BY <1>1, <1>3 DEF IInv, TypeOK, Accounted, fates
<1>7. HandlersApart' /\ GatesPassed' /\ WaitingQueued'
  BY <1>1 DEF IInv, HandlersApart, GatesPassed, WaitingQueued, fates
<1>8. BuildsRun'
  BY <1>1, <1>2 DEF IInv, TypeOK, BuildsRun, fates
<1>9. QED
  BY <1>4, <1>5, <1>6, <1>7, <1>8 DEF IInv

\* Steps that change nothing the invariant is about: an edit, or none at all.
LEMMA EditStep ==
    ASSUME IInv, content' \in Versions,
           UNCHANGED <<store, up, handlers, builds, notified, fates, prompts>>
    PROVE  IInv'
<1>1. /\ \A s \in Sessions : Settled(s)' <=> Settled(s)
      /\ \A s \in Sessions : Busy(s)' <=> Busy(s)
  BY DEF Settled, Busy, fates
<1>2. TypeOK'
  BY DEF IInv, TypeOK, fates, store
<1>3. OnePlace'
  BY <1>1 DEF IInv, OnePlace, fates, store
<1>4. Accounted'
  BY <1>1 DEF IInv, TypeOK, Accounted, fates, store
<1>5. QED
  BY <1>2, <1>3, <1>4 DEF IInv, HandlersApart, GatesPassed, BuildsRun, WaitingQueued, fates, store

\* The sweep takes rows that are past their age.
LEMMA SweepStep == ASSUME IInv, SweepRows PROVE IInv'
<1>1. PICK gone \in (SUBSET Expirable) \ {{}} :
        LET s == CHOOSE s \in gone : TRUE IN
        /\ sel' = [r \in Sessions |-> IF r \in gone THEN "none" ELSE sel[r]]
        /\ handlers' = handlers \cup
              {[s |-> s, rest |-> gone \ {s}, at |-> "expiring", by |-> "sweep",
                n |-> 0, v |-> NoVersion]}
  BY DEF SweepRows
<1> DEFINE n == CHOOSE s \in gone : TRUE
           g == [s |-> n, rest |-> gone \ {n}, at |-> "expiring", by |-> "sweep",
                 n |-> 0, v |-> NoVersion]
<1>2. n \in gone /\ gone \subseteq Sessions /\ \A s \in gone : sel[s] # "none"
  <2>1. gone # {} /\ gone \subseteq Expirable
    OBVIOUS
  <2>2. n \in gone
    BY <2>1
  <2>3. QED
    BY <2>1, <2>2 DEF Expirable
<1>3. /\ sel' = [r \in Sessions |-> IF r \in gone THEN "none" ELSE sel[r]]
      /\ handlers' = handlers \cup {g}
  BY <1>1
<1> HIDE DEF n
<1>4. /\ g \in Handler /\ g.s \notin g.rest /\ Cover(g) = gone /\ g.at = "expiring"
  BY <1>2 DEF Handler, Awaits, Cover
<1> HIDE DEF g
<1>5. \A s \in gone : ~ Busy(s) /\ ~ Settled(s) /\ s \in claimed /\ hold[s] = NoVersion
  BY <1>2 DEF IInv, OnePlace
<1>6. /\ up /\ UNCHANGED <<claimed, decided, hold, image, pin, up, builds, notified, content,
                           fates, prompts>>
  BY DEF SweepRows, bounds
<1>7. TypeOK'
  BY <1>3, <1>4, <1>6 DEF IInv, TypeOK, fates
<1>8. BuildsRun'
  BY <1>6 DEF IInv, BuildsRun, fates
<1>9. prompts' \in Nat
  BY <1>6 DEF IInv, GatesPassed
<1>10. QED
  BY <1>2, <1>3, <1>4, <1>5, <1>6, <1>7, <1>8, <1>9, NewHandlerStep DEF fates, Past

---------------------------------------------------------------------------
(* The theorems *)

LEMMA NextInv == IInv /\ [Next]_vars => IInv'
<1>1. SUFFICES ASSUME IInv, [Next]_vars PROVE IInv'
  OBVIOUS
<1>2. CASE \E s \in Sessions : Created(s) \/ StopHeld(s) \/ AnswerHeld(s)
  BY <1>1, <1>2, CreatedStep, StopStep, AnswerStep
<1>3. ASSUME NEW h \in handlers, Proceed(h) PROVE IInv'
  BY <1>1, <1>3, GateSteps, HoldStep, WaitingStep, ToldStep, ListedStep, FetchedStep, NoticeStep,
     QuietStep
  DEF Proceed
<1>4. ASSUME NEW h \in handlers, PostError(h) PROVE IInv'
  BY <1>1, <1>4, GateSteps, PostFailsStep, ExpiryFailsStep DEF PostError
<1>5. CASE \E v \in Versions : BuildEnds(v)
  BY <1>1, <1>5, BuildEndsStep
<1>6. CASE WarmBuild
  BY <1>1, <1>6, WarmStep
<1>7. CASE Edit
  BY <1>1, <1>7, EditStep DEF Edit
<1>8. CASE SweepRows
  BY <1>1, <1>8, SweepStep
<1>9. CASE Crash
  BY <1>1, <1>9, DownStep DEF Crash
<1>10. CASE Restart
  BY <1>1, <1>10, RestartStep
<1>11. CASE UNCHANGED vars
  BY <1>1, <1>11, EditStep DEF vars, store, fates, bounds, IInv, TypeOK
<1>12. QED
  BY <1>1, <1>2, <1>3, <1>4, <1>5, <1>6, <1>7, <1>8, <1>9, <1>10, <1>11 DEF Next

\* A delegation has one place at a time, and its place is what the code says.
THEOREM Invariant == Spec => []IInv
<1>1. QED
  BY InitInv, NextInv, PTL DEF Spec

\* No delegation whose webhook was claimed (routeInner) disappears while it goes
\* through the repository gate, the image gate, their rows, the sweep or a
\* restart: it is queued, refused to its user, stopped, in a handler, in a row,
\* or among those a crash or a failed post took from memory.
THEOREM NoDelegationDisappears == Spec => []DelegationAccounted
<1>1. IInv => DelegationAccounted
  <2>1. SUFFICES ASSUME IInv, NEW s \in claimed
                 PROVE  \/ delivered[s] > 0 \/ s \in told \cup stopped \cup lost
                        \/ InHandler(s) \/ sel[s] # "none" \/ hold[s] # NoVersion
    BY DEF DelegationAccounted
  <2>2. delivered[s] \in Nat /\ again[s] \in Nat
    BY <2>1 DEF IInv, TypeOK
  <2>3. CASE Busy(s)
    <3>1. PICK h \in handlers : s \in Cover(h)
      BY <2>3 DEF Busy
    <3>2. CASE s = h.s /\ h.at = "waiting"
      BY <2>1, <2>2, <3>1, <3>2 DEF IInv, WaitingQueued
    <3>3. CASE ~ (s = h.s /\ h.at = "waiting")
      BY <3>1, <3>3 DEF InHandler, Cover
    <3>4. QED
      BY <3>2, <3>3
  <2>4. QED
    BY <2>1, <2>2, <2>3 DEF IInv, Accounted, Settled
<1>2. QED
  BY <1>1, Invariant, PTL

\* resumeHeldSelection and releaseHeldDevcontainerBuilds take a row before they
\* replay it, so a session's created event is queued once more only for each time
\* its row was stored again after it had been queued, and not after a stop, for any
\* number of prompts, builds, releases, failures and restarts.
THEOREM QueuedAtMostOnce == Spec => []DeliveredOnce
<1>1. IInv => DeliveredOnce
  BY DEF IInv, OnePlace, TypeOK, DeliveredOnce
<1>2. QED
  BY <1>1, Invariant, PTL

\* A hold that ensureDevcontainerImage stored in time is on a build in flight:
\* the build's end or recoverInterruptedBuilds takes it, and never leaves it
\* behind on a key nobody builds.
THEOREM HoldsHaveBuilds == Spec => []HeldOnBuild
<1>1. IInv => HeldOnBuild
  BY DEF IInv, BuildsRun, TypeOK, HeldOnBuild
<1>2. QED
  BY <1>1, Invariant, PTL
=============================================================================
