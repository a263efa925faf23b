---------------------- MODULE OutboundMutationsProofs -----------------------
(***************************************************************************)
(* Proofs about OutboundMutations, for any set of mutations and any number *)
(* of drops, timeouts, crashes and restarts.                               *)
(***************************************************************************)
EXTENDS OutboundMutations, TLAPS

\* Every attempt the router knows of was sent: the part of TypeOK about stored
\* answers is inductive only with it.
OnlySent ==
    /\ \A q \in requests : q.try <= tries[q.mut]
    /\ \A d \in running : d.req.try <= tries[d.req.mut]

\* A replay waits for an answer only while its snapshot has a head.
Replaying == sent # {} => replay # <<>>

TInv == TypeOK /\ OnlySent /\ Replaying

\* What an answer means: the router stores or sends one only once Linear has
\* performed the mutation or it was refused.
Done(m) == applied[m] > 0 \/ m \in refused

AnswersAreTrue ==
    /\ \A d \in running : d.done => applied[d.req.mut] > 0
    /\ \A m \in Mutations : recorded[m] # 0 => applied[m] > 0
    /\ \A r \in responses : Done(r.req.mut)

IInv == AssumedNotLost /\ AnswersAreTrue

---------------------------------------------------------------------------
(* Sequences *)

\* The empty buffer is a buffer.
LEMMA EmptyIsSeq ==
    ASSUME NEW T
    PROVE  <<>> \in Seq(T)
OBVIOUS

\* Dropping position i of a sequence keeps its type and every other element.
LEMMA WithoutAtKeeps ==
    ASSUME NEW T, NEW s \in Seq(T), NEW i \in 1..Len(s)
    PROVE  /\ WithoutAt(s, i) \in Seq(T)
           /\ \A j \in 1..Len(s) : j # i => s[j] \in RangeOf(WithoutAt(s, i))
<1> DEFINE a == SubSeq(s, 1, i - 1)
           b == SubSeq(s, i + 1, Len(s))
<1>1. Len(s) \in Nat
  OBVIOUS
<1>2. /\ a \in Seq(T) /\ Len(a) = i - 1
      /\ \A j \in 1..(i - 1) : a[j] = s[j]
  BY <1>1
<1>3. /\ b \in Seq(T) /\ Len(b) = Len(s) - i
      /\ \A j \in 1..(Len(s) - i) : b[j] = s[i + j]
  BY <1>1
<1> HIDE DEF a, b
<1>4. a \o b \in Seq(T) /\ Len(a \o b) = Len(s) - 1
  <2>1. a \in Seq(T) /\ b \in Seq(T)
    BY <1>2, <1>3
  <2>2. a \o b \in Seq(T) /\ Len(a \o b) = Len(a) + Len(b)
    BY <2>1
  <2>3. QED
    BY <1>1, <1>2, <1>3, <2>2
<1>5. ASSUME NEW j \in 1..Len(s), j # i PROVE \E k \in 1..Len(a \o b) : (a \o b)[k] = s[j]
  <2>1. CASE j < i
    <3>1. j \in 1..Len(a) /\ (a \o b)[j] = a[j]
      BY <1>1, <1>2, <1>3, <2>1
    <3>2. QED
      BY <1>1, <1>2, <1>4, <2>1, <3>1
  <2>2. CASE j > i
    <3>1. j - i \in 1..Len(b) /\ j - 1 = Len(a) + (j - i) /\ j - 1 \in 1..Len(a \o b)
      BY <1>1, <1>2, <1>3, <1>4, <2>2
    <3>2. (a \o b)[j - 1] = b[j - i]
      BY <1>1, <1>2, <1>3, <3>1
    <3>3. b[j - i] = s[j]
      BY <1>1, <1>3, <3>1
    <3>4. QED
      BY <3>1, <3>2, <3>3
  <2>3. QED
    BY <1>1, <1>5, <2>1, <2>2
<1>6. QED
  BY <1>4, <1>5 DEF WithoutAt, RangeOf, a, b

\* removeOutboundEntry removes no other mutation.
LEMMA RemoveKeepsOthers ==
    ASSUME NEW s \in Seq(Mutations), NEW m \in Mutations
    PROVE  /\ RemoveOutboundEntry(s, m) \in Seq(Mutations)
           /\ RangeOf(s) \ {m} \subseteq RangeOf(RemoveOutboundEntry(s, m))
<1>1. CASE m \in RangeOf(s)
  <2> DEFINE i == CHOOSE k \in 1..Len(s) : s[k] = m
  <2>1. i \in 1..Len(s) /\ s[i] = m
    BY <1>1 DEF RangeOf
  <2>2. RemoveOutboundEntry(s, m) = WithoutAt(s, i)
    BY <1>1 DEF RemoveOutboundEntry
  <2> HIDE DEF i
  <2>3. /\ WithoutAt(s, i) \in Seq(Mutations)
        /\ \A j \in 1..Len(s) : j # i => s[j] \in RangeOf(WithoutAt(s, i))
    BY <2>1, WithoutAtKeeps
  <2>4. ASSUME NEW x \in RangeOf(s) \ {m} PROVE x \in RangeOf(WithoutAt(s, i))
    <3>1. PICK j \in 1..Len(s) : x = s[j]
      BY <2>4 DEF RangeOf
    <3>2. QED
      BY <2>1, <2>3, <2>4, <3>1
  <2>5. QED
    BY <2>2, <2>3, <2>4
<1>2. CASE m \notin RangeOf(s)
  BY <1>2 DEF RemoveOutboundEntry
<1>3. QED
  BY <1>1, <1>2

\* Appending a sequence adds its elements and loses none.
LEMMA ConcatRange ==
    ASSUME NEW T, NEW s \in Seq(T), NEW t \in Seq(T)
    PROVE  s \o t \in Seq(T) /\ RangeOf(s \o t) = RangeOf(s) \cup RangeOf(t)
<1>1. s \o t \in Seq(T) /\ Len(s \o t) = Len(s) + Len(t) /\ Len(s) \in Nat /\ Len(t) \in Nat
  OBVIOUS
<1>2. \A k \in 1..Len(s) : (s \o t)[k] = s[k]
  BY <1>1
<1>3. \A k \in 1..Len(t) : (s \o t)[Len(s) + k] = t[k] /\ Len(s) + k \in 1..Len(s \o t)
  BY <1>1
<1>4. RangeOf(s) \cup RangeOf(t) \subseteq RangeOf(s \o t)
  BY <1>1, <1>2, <1>3 DEF RangeOf
<1>5. ASSUME NEW k \in 1..Len(s \o t) PROVE (s \o t)[k] \in RangeOf(s) \cup RangeOf(t)
  <2>1. CASE k \in 1..Len(s)
    BY <1>2, <2>1 DEF RangeOf
  <2>2. CASE k \notin 1..Len(s)
    <3>1. k - Len(s) \in 1..Len(t) /\ k = Len(s) + (k - Len(s))
      BY <1>1, <2>2
    <3>2. QED
      BY <1>3, <3>1 DEF RangeOf
  <2>3. QED
    BY <2>1, <2>2
<1>6. QED
  BY <1>1, <1>4, <1>5 DEF RangeOf

\* Appending one element adds it and loses none.
LEMMA AppendRange ==
    ASSUME NEW T, NEW s \in Seq(T), NEW x \in T
    PROVE  Append(s, x) \in Seq(T) /\ RangeOf(Append(s, x)) = RangeOf(s) \cup {x}
<1>1. /\ Append(s, x) \in Seq(T) /\ Len(Append(s, x)) = Len(s) + 1 /\ Len(s) \in Nat
      /\ \A k \in 1..Len(s) : Append(s, x)[k] = s[k]
      /\ Append(s, x)[Len(s) + 1] = x
  OBVIOUS
<1>2. 1..(Len(s) + 1) = 1..Len(s) \cup {Len(s) + 1}
  BY <1>1
<1>3. QED
  BY <1>1, <1>2 DEF RangeOf

\* The mutations of the pending requests, in order.
LEMMA MutsOfType ==
    ASSUME NEW s \in Seq(Request)
    PROVE  MutsOf(s) \in Seq(Mutations)
<1>1. ASSUME NEW i \in 1..Len(s) PROVE s[i].mut \in Mutations
  <2>1. s[i] \in Request
    OBVIOUS
  <2>2. QED
    BY <2>1 DEF Request
<1>2. QED
  BY <1>1 DEF MutsOf

---------------------------------------------------------------------------
(* Types *)

\* A fresh attempt is well-typed and counted.
LEMMA NextTryType ==
    ASSUME TypeOK, NEW m \in Mutations
    PROVE  /\ NextTry(m) \in Request /\ NextTry(m).mut = m
           /\ NextTry(m).try = tries[m] + 1
           /\ [tries EXCEPT ![m] = @ + 1] \in [Mutations -> Nat]
           /\ \A x \in Mutations : tries[x] <= [tries EXCEPT ![m] = @ + 1][x]
BY DEF TypeOK, NextTry, Request

\* Sending an attempt of m keeps what is known of all attempts.
LEMMA SendingCounts ==
    ASSUME TInv, NEW m \in Mutations,
           tries' = [tries EXCEPT ![m] = @ + 1],
           requests' = requests \cup {NextTry(m)},
           UNCHANGED <<running, recorded>>
    PROVE  /\ OnlySent' /\ requests' \subseteq Request /\ tries' \in [Mutations -> Nat]
           /\ \A x \in Mutations : recorded[x] <= tries'[x]
<1>1. TypeOK /\ OnlySent
  BY DEF TInv
<1>2. /\ requests \subseteq Request /\ running \subseteq Dispatched
      /\ tries \in [Mutations -> Nat] /\ recorded \in [Mutations -> Nat]
      /\ \A x \in Mutations : recorded[x] <= tries[x]
  BY <1>1 DEF TypeOK
<1>3. /\ NextTry(m) \in Request /\ NextTry(m).mut = m /\ NextTry(m).try = tries[m] + 1
      /\ tries' \in [Mutations -> Nat]
      /\ \A x \in Mutations : tries[x] <= tries'[x]
  BY <1>1, NextTryType
<1>4. tries'[m] = tries[m] + 1
  BY <1>2
<1>5. \A q \in requests' : q.try <= tries'[q.mut]
  BY <1>1, <1>2, <1>3, <1>4 DEF OnlySent, Request
<1>6. \A d \in running' : d.req.try <= tries'[d.req.mut]
  BY <1>1, <1>2, <1>3 DEF OnlySent, Request, Dispatched
<1>7. QED
  BY <1>2, <1>3, <1>5, <1>6 DEF OnlySent

\* The replay's next entry: types, counts and the snapshot's head.
LEMMA ReplayRestType ==
    ASSUME TInv, NEW rest \in Seq(Mutations), ReplayRest(rest), UNCHANGED <<running, recorded>>
    PROVE  /\ sent' \subseteq Request /\ replay' \in Seq(Mutations) /\ Replaying'
           /\ OnlySent' /\ requests' \subseteq Request /\ tries' \in [Mutations -> Nat]
           /\ \A x \in Mutations : recorded[x] <= tries'[x]
<1>1. CASE rest = <<>>
  BY <1>1 DEF ReplayRest, TInv, TypeOK, OnlySent, Replaying
<1>2. CASE rest # <<>>
  <2>1. Head(rest) \in Mutations
    BY <1>2
  <2>2. /\ sent' = {NextTry(Head(rest))} /\ requests' = requests \cup {NextTry(Head(rest))}
        /\ tries' = [tries EXCEPT ![Head(rest)] = @ + 1] /\ replay' = rest
    BY <1>2 DEF ReplayRest
  <2>3. NextTry(Head(rest)) \in Request
    BY <2>1, NextTryType DEF TInv
  <2>4. QED
    BY <1>2, <2>1, <2>2, <2>3, SendingCounts DEF Replaying
<1>3. QED
  BY <1>1, <1>2

\* A lost connection: the buffer takes the pending calls.
LEMMA RejectType ==
    ASSUME TypeOK, RejectAllPending
    PROVE  /\ outbox' \in Seq(Mutations) /\ assumed' \subseteq Mutations
           /\ calls' \in Seq(Request) /\ sent' = {} /\ replay' \in Seq(Mutations)
           /\ link' \in BOOLEAN /\ requests' = {} /\ responses' = {}
           /\ RangeOf(outbox') = RangeOf(outbox) \cup RangeOf(MutsOf(calls))
<1>1. MutsOf(calls) \in Seq(Mutations) /\ outbox \in Seq(Mutations)
  BY MutsOfType DEF TypeOK
<1>2. RangeOf(MutsOf(calls)) \subseteq Mutations
  BY <1>1 DEF RangeOf
<1>3. outbox' \in Seq(Mutations) /\ RangeOf(outbox') = RangeOf(outbox) \cup RangeOf(MutsOf(calls))
  BY <1>1, ConcatRange DEF RejectAllPending
<1>4. QED
  BY <1>2, <1>3, EmptyIsSeq DEF RejectAllPending, TypeOK

\* Nothing is pending, buffered or stored at first.
LEMMA InitTInv == Init => TInv
<1>1. <<>> \in Seq(Request) /\ <<>> \in Seq(Mutations)
  BY EmptyIsSeq
<1>2. [m \in Mutations |-> 0] \in [Mutations -> Nat]
  OBVIOUS
<1>3. ASSUME Init PROVE TypeOK
  <2>1. up \in BOOLEAN /\ link \in BOOLEAN
    BY <1>3 DEF Init
  <2>2. /\ calls \in Seq(Request) /\ sent \subseteq Request
        /\ replay \in Seq(Mutations) /\ outbox \in Seq(Mutations)
        /\ offline \in Seq(Mutations)
    BY <1>1, <1>3 DEF Init
  <2>3. /\ requests \subseteq Request /\ responses \subseteq Response
        /\ running \subseteq Dispatched
        /\ assumed \subseteq Mutations /\ refused \subseteq Mutations /\ exposed \subseteq Mutations
    BY <1>3 DEF Init
  <2>4. /\ recorded \in [Mutations -> Nat] /\ applied \in [Mutations -> Nat]
        /\ tries \in [Mutations -> Nat]
        /\ \A m \in Mutations : recorded[m] <= tries[m]
    BY <1>2, <1>3 DEF Init
  <2>5. drops \in Nat /\ timeouts \in Nat /\ crashes \in Nat /\ restarts \in Nat
    BY <1>3 DEF Init
  <2>6. QED
    BY <2>1, <2>2, <2>3, <2>4, <2>5 DEF TypeOK
<1>4. ASSUME Init PROVE OnlySent /\ Replaying
  BY <1>4 DEF Init, OnlySent, Replaying
<1>5. QED
  BY <1>3, <1>4 DEF TInv

\* Steps of callers, of the connection and of the process.
LEMMA DeviceKeepsTInv ==
    ASSUME TInv, DeviceStep \/ RouterRestart \/ PurgeRecords
    PROVE  TInv'
<1>0. TypeOK /\ OnlySent /\ Replaying
  BY DEF TInv
<1>1. ASSUME NEW m \in Mutations, CallOnline(m) PROVE TInv'
  <2>1. calls' \in Seq(Request)
    BY <1>0, <1>1, NextTryType DEF CallOnline, TypeOK
  <2>2. /\ OnlySent' /\ requests' \subseteq Request /\ tries' \in [Mutations -> Nat]
        /\ \A x \in Mutations : recorded[x] <= tries'[x]
    BY <1>1, SendingCounts DEF CallOnline, routerVars
  <2>3. QED
    BY <1>0, <1>1, <2>1, <2>2 DEF CallOnline, TInv, TypeOK, Replaying, routerVars, countVars
<1>2. ASSUME NEW m \in Mutations, CallOffline(m) PROVE TInv'
  <2>1. outbox' \in Seq(Mutations) /\ offline' \in Seq(Mutations)
    BY <1>0, <1>2, AppendRange DEF CallOffline, TypeOK
  <2>2. TypeOK'
    BY <1>0, <1>2, <2>1 DEF CallOffline, TypeOK, wireVars, routerVars, countVars
  <2>3. OnlySent' /\ Replaying'
    BY <1>0, <1>2 DEF CallOffline, OnlySent, Replaying, wireVars, routerVars
  <2>4. QED
    BY <2>2, <2>3 DEF TInv
<1>3. CASE Reconnect
  <2>1. outbox \in Seq(Mutations) /\ ReplayRest(outbox) /\ UNCHANGED <<running, recorded>>
    BY <1>0, <1>3 DEF Reconnect, TypeOK, routerVars
  <2>2. /\ sent' \subseteq Request /\ replay' \in Seq(Mutations) /\ Replaying'
        /\ OnlySent' /\ requests' \subseteq Request /\ tries' \in [Mutations -> Nat]
        /\ \A x \in Mutations : recorded[x] <= tries'[x]
    BY <2>1, ReplayRestType
  <2>3. QED
    BY <1>0, <1>3, <2>2 DEF Reconnect, TInv, TypeOK, routerVars, countVars
<1>4. CASE Disconnect \/ RouterRestart
  <2>1. RejectAllPending
    BY <1>4 DEF Disconnect, RouterRestart
  <2>2. /\ outbox' \in Seq(Mutations) /\ assumed' \subseteq Mutations
        /\ calls' \in Seq(Request) /\ sent' = {} /\ replay' \in Seq(Mutations)
        /\ link' \in BOOLEAN /\ requests' = {} /\ responses' = {}
    BY <1>0, <2>1, RejectType
  <2>3. /\ UNCHANGED <<up, recorded, applied, tries, offline, refused, timeouts, crashes>>
        /\ running' \subseteq running
        /\ drops' \in Nat /\ restarts' \in Nat
    BY <1>0, <1>4 DEF Disconnect, RouterRestart, TypeOK, routerVars
  <2>7. exposed' \subseteq Mutations
    BY <1>0, <1>4 DEF Disconnect, RouterRestart, TypeOK, routerVars, Dispatched, Request
  <2>4. TypeOK'
    BY <1>0, <2>2, <2>3, <2>7 DEF TypeOK
  <2>5. OnlySent' /\ Replaying'
    BY <1>0, <2>2, <2>3 DEF OnlySent, Replaying
  <2>6. QED
    BY <2>4, <2>5 DEF TInv
<1>5. CASE Crash
  <2>1. calls' \in Seq(Request) /\ replay' \in Seq(Mutations)
    BY <1>5, EmptyIsSeq DEF Crash
  <2>2. TypeOK'
    <3>1. up' \in BOOLEAN /\ link' \in BOOLEAN
      BY <1>5 DEF Crash
    <3>2. sent' = {} /\ requests' = {} /\ responses' = {} /\ crashes' = crashes + 1
      BY <1>5 DEF Crash
    <3>3. UNCHANGED <<outbox, running, recorded, applied, exposed, tries, assumed, offline, refused,
                      drops, timeouts, restarts>>
      BY <1>5 DEF Crash, routerVars
    <3>4. QED
      BY <1>0, <2>1, <3>1, <3>2, <3>3 DEF TypeOK
  <2>3. OnlySent' /\ Replaying'
    BY <1>0, <1>5 DEF Crash, OnlySent, Replaying, routerVars
  <2>4. QED
    BY <2>2, <2>3 DEF TInv
<1>6. CASE Start
  BY <1>0, <1>6 DEF Start, TInv, TypeOK, OnlySent, Replaying, wireVars, routerVars, countVars
<1>7. CASE PurgeRecords
  <2>1. /\ recorded' \in [Mutations -> Nat] /\ exposed' \subseteq Mutations
        /\ \A m \in Mutations : recorded'[m] <= tries[m]
    BY <1>0, <1>7 DEF PurgeRecords, TypeOK
  <2>2. QED
    BY <1>0, <1>7, <2>1 DEF PurgeRecords, TInv, TypeOK, OnlySent, Replaying, deviceVars, wireVars,
       countVars
<1>8. QED
  BY <1>1, <1>2, <1>3, <1>4, <1>5, <1>6, <1>7 DEF DeviceStep

\* Answers and timers.
LEMMA AnswerKeepsTInv ==
    ASSUME TInv, AnswerStep
    PROVE  TInv'
<1>0. TypeOK /\ OnlySent /\ Replaying
  BY DEF TInv
<1>1. ASSUME NEW r \in responses, NEW i \in 1..Len(calls), CallAnswered(r, i) PROVE TInv'
  <2>1. calls' \in Seq(Request)
    BY <1>0, <1>1, WithoutAtKeeps DEF CallAnswered, TypeOK
  <2>2. QED
    BY <1>0, <1>1, <2>1 DEF CallAnswered, TInv, TypeOK, OnlySent, Replaying, routerVars,
       countVars
<1>2. ASSUME NEW r \in responses, ReplayAnswered(r) PROVE TInv'
  <2>1. r.req.mut \in Mutations /\ replay # <<>>
    BY <1>0, <1>2 DEF ReplayAnswered, TypeOK, Response, Request, Replaying
  <2>2. outbox' \in Seq(Mutations)
    BY <1>0, <1>2, <2>1, RemoveKeepsOthers DEF ReplayAnswered, TypeOK
  <2>3. Tail(replay) \in Seq(Mutations)
    BY <1>0, <2>1 DEF TypeOK
  <2>4. /\ sent' \subseteq Request /\ replay' \in Seq(Mutations) /\ Replaying'
        /\ OnlySent' /\ requests' \subseteq Request /\ tries' \in [Mutations -> Nat]
        /\ \A x \in Mutations : recorded[x] <= tries'[x]
    BY <1>2, <2>3, ReplayRestType DEF ReplayAnswered, routerVars
  <2>5. QED
    BY <1>0, <1>2, <2>2, <2>4 DEF ReplayAnswered, TInv, TypeOK, routerVars, countVars
<1>3. ASSUME NEW r \in responses, StrayResponse(r) PROVE TInv'
  BY <1>0, <1>3 DEF StrayResponse, TInv, TypeOK, OnlySent, Replaying, deviceVars, routerVars,
     countVars
<1>4. ASSUME NEW i \in 1..Len(calls), CallTimeout(i) PROVE TInv'
  <2>1. calls[i].mut \in Mutations
    <3>1. calls[i] \in Request
      BY <1>0 DEF TypeOK
    <3>2. QED
      BY <3>1 DEF Request
  <2>2. calls' \in Seq(Request)
    BY <1>0, <1>4, WithoutAtKeeps DEF CallTimeout, TypeOK
  <2>3. timeouts' \in Nat
    BY <1>0, <1>4 DEF CallTimeout, TimerFires, TypeOK
  <2>4. outbox' \in Seq(Mutations)
    BY <1>0, <1>4, <2>1, AppendRange DEF CallTimeout, TypeOK
  <2>5. TypeOK'
    BY <1>0, <1>4, <2>1, <2>2, <2>3, <2>4 DEF CallTimeout, TypeOK, wireVars, routerVars
  <2>6. OnlySent' /\ Replaying'
    BY <1>0, <1>4 DEF CallTimeout, OnlySent, Replaying, wireVars, routerVars
  <2>7. QED
    BY <2>5, <2>6 DEF TInv
<1>5. ASSUME NEW q \in sent, ReplayTimeout(q) PROVE TInv'
  <2>1. timeouts' \in Nat
    BY <1>0, <1>5 DEF ReplayTimeout, TimerFires, TypeOK
  <2>2. QED
    BY <1>0, <1>5, <2>1 DEF ReplayTimeout, TInv, TypeOK, OnlySent, Replaying, wireVars,
       routerVars
<1>6. QED
  BY <1>1, <1>2, <1>3, <1>4, <1>5 DEF AnswerStep

\* The router's steps.
LEMMA DispatchKeepsTInv ==
    ASSUME TInv, DispatchStep
    PROVE  TInv'
<1>0. TypeOK /\ OnlySent /\ Replaying
  BY DEF TInv
<1>1. /\ requests \subseteq Request /\ responses \subseteq Response
      /\ running \subseteq Dispatched /\ link \in BOOLEAN
      /\ recorded \in [Mutations -> Nat] /\ applied \in [Mutations -> Nat]
      /\ tries \in [Mutations -> Nat] /\ refused \subseteq Mutations
      /\ \A m \in Mutations : recorded[m] <= tries[m]
  BY <1>0 DEF TypeOK
<1>2. ASSUME NEW q \in Request, NEW ok \in BOOLEAN PROVE Respond(q, ok, responses) \subseteq Response
  BY <1>1 DEF Respond, Response
<1>3. ASSUME NEW q \in requests, DispatchCached(q) PROVE TInv'
  <2>1. [q EXCEPT !.try = recorded[q.mut]] \in Request
    BY <1>1, <1>3 DEF Request, DispatchCached
  <2>2. responses' \subseteq Response
    BY <1>2, <1>3, <2>1 DEF DispatchCached
  <2>3. TypeOK'
    BY <1>0, <1>3, <2>2 DEF DispatchCached, TypeOK, deviceVars, routerVars, countVars
  <2>4. OnlySent' /\ Replaying'
    BY <1>0, <1>3 DEF DispatchCached, OnlySent, Replaying, deviceVars, routerVars
  <2>5. QED
    BY <2>3, <2>4 DEF TInv
<1>4. ASSUME NEW q \in requests, DispatchRefused(q) PROVE TInv'
  <2>1. q \in Request /\ q.mut \in Mutations
    BY <1>1 DEF Request
  <2>2. responses' \subseteq Response /\ refused' \subseteq Mutations
    BY <1>1, <1>2, <1>4, <2>1 DEF DispatchRefused
  <2>3. TypeOK'
    BY <1>0, <1>4, <2>2 DEF DispatchRefused, TypeOK, deviceVars, routerVars, countVars
  <2>4. OnlySent' /\ Replaying'
    BY <1>0, <1>4 DEF DispatchRefused, OnlySent, Replaying, deviceVars, routerVars
  <2>5. QED
    BY <2>3, <2>4 DEF TInv
<1>5. ASSUME NEW q \in requests, DispatchInvoke(q) PROVE TInv'
  <2>1. [req |-> q, done |-> FALSE] \in Dispatched
    BY <1>1 DEF Dispatched
  <2>6. exposed' \subseteq Mutations
    BY <1>0, <1>1, <1>5 DEF DispatchInvoke, TypeOK, Request
  <2>2. TypeOK'
    BY <1>0, <1>5, <2>1, <2>6 DEF DispatchInvoke, TypeOK, deviceVars, countVars
  <2>3. OnlySent'
    BY <1>0, <1>5 DEF DispatchInvoke, OnlySent
  <2>4. Replaying'
    BY <1>0, <1>5 DEF DispatchInvoke, Replaying, deviceVars
  <2>5. QED
    BY <2>2, <2>3, <2>4 DEF TInv
<1>6. ASSUME NEW d \in running, LinearApplies(d) PROVE TInv'
  <2>1. d \in Dispatched /\ d.req.mut \in Mutations
    BY <1>1 DEF Dispatched, Request
  <2>2. [d EXCEPT !.done = TRUE] \in Dispatched /\ [d EXCEPT !.done = TRUE].req = d.req
    BY <2>1 DEF Dispatched
  <2>3. applied' \in [Mutations -> Nat]
    BY <1>1, <1>6, <2>1 DEF LinearApplies
  <2>4. TypeOK'
    BY <1>0, <1>6, <2>2, <2>3 DEF LinearApplies, TypeOK, deviceVars, wireVars, countVars
  <2>5. OnlySent'
    BY <1>0, <1>6, <2>2 DEF LinearApplies, OnlySent, wireVars
  <2>6. Replaying'
    BY <1>0, <1>6 DEF LinearApplies, Replaying, deviceVars
  <2>7. QED
    BY <2>4, <2>5, <2>6 DEF TInv
<1>7. ASSUME NEW d \in running, Complete(d) PROVE TInv'
  <2>1. d.req \in Request /\ d.req.mut \in Mutations /\ d.req.try \in Nat
    BY <1>1 DEF Dispatched, Request
  <2>2. d.req.try <= tries[d.req.mut]
    BY <1>0 DEF OnlySent
  <2>3. responses' \subseteq Response
    BY <1>2, <1>7, <2>1 DEF Complete
  <2>4. recorded' \in [Mutations -> Nat] /\ \A m \in Mutations : recorded'[m] <= tries[m]
    BY <1>1, <1>7, <2>1, <2>2 DEF Complete
  <2>5. TypeOK'
    BY <1>0, <1>7, <2>3, <2>4 DEF Complete, TypeOK, deviceVars, countVars
  <2>6. OnlySent' /\ Replaying'
    BY <1>0, <1>7 DEF Complete, OnlySent, Replaying, deviceVars
  <2>7. QED
    BY <2>5, <2>6 DEF TInv
<1>8. ASSUME NEW d \in running, CallFails(d) PROVE TInv'
  <2>1. d.req \in Request /\ d.req.mut \in Mutations
    BY <1>1 DEF Dispatched, Request
  <2>2. responses' \subseteq Response /\ refused' \subseteq Mutations /\ exposed' \subseteq Mutations
    BY <1>0, <1>1, <1>2, <1>8, <2>1 DEF CallFails, TypeOK
  <2>3. TypeOK'
    BY <1>0, <1>8, <2>2 DEF CallFails, TypeOK, deviceVars, countVars
  <2>4. OnlySent' /\ Replaying'
    BY <1>0, <1>8 DEF CallFails, OnlySent, Replaying, deviceVars
  <2>5. QED
    BY <2>3, <2>4 DEF TInv
<1>9. QED
  BY <1>3, <1>4, <1>5, <1>6, <1>7, <1>8 DEF DispatchStep

\* A step that changes nothing keeps the types.
LEMMA StutterKeepsTInv ==
    ASSUME TInv, UNCHANGED vars
    PROVE  TInv'
BY DEF TInv, TypeOK, OnlySent, Replaying, vars, deviceVars, wireVars, routerVars, countVars

\* TInv is an inductive invariant.
LEMMA TInvHolds == Spec => []TInv
<1>1. ASSUME TInv, [Next]_vars PROVE TInv'
  BY <1>1, DeviceKeepsTInv, AnswerKeepsTInv, DispatchKeepsTInv, StutterKeepsTInv DEF Next
<1>2. QED
  BY InitTInv, <1>1, PTL DEF Spec

\* Type correctness of the buffer, the pending requests and the stored answers, for
\* any mutations and any number of failures; no stored answer is of an attempt that
\* was never sent.
THEOREM TypeCorrect == Spec => []TypeOK
<1>1. TInv => TypeOK
  BY DEF TInv
<1>2. QED
  BY TInvHolds, <1>1, PTL

---------------------------------------------------------------------------
(* A reported success is not lost *)

\* Before the first call nothing is owed.
LEMMA InitIInv == Init => IInv
BY DEF Init, IInv, AssumedNotLost, AnswersAreTrue

\* Nothing that happened is undone, so what was done stays done.
DoneGrows == \A m \in Mutations : applied[m] <= applied'[m] /\ refused \subseteq refused'

\* Calls that join the durable buffer may be reported: what was owed is still owed,
\* performed or refused.
LEMMA BufferedMayBeAssumed ==
    ASSUME TypeOK, TypeOK', AssumedNotLost, DoneGrows,
           RangeOf(outbox) \subseteq RangeOf(outbox'),
           assumed' \ assumed \subseteq RangeOf(outbox')
    PROVE  AssumedNotLost'
<1>1. SUFFICES ASSUME NEW m \in assumed'
               PROVE  m \in RangeOf(outbox') \/ applied'[m] > 0 \/ m \in refused'
  BY DEF AssumedNotLost, RangeOf
<1>2. m \in Mutations /\ applied \in [Mutations -> Nat] /\ applied' \in [Mutations -> Nat]
  BY DEF TypeOK
<1>3. CASE m \in assumed
  <2>1. m \in RangeOf(outbox) \/ applied[m] > 0 \/ m \in refused
    BY <1>3 DEF AssumedNotLost
  <2>2. applied[m] > 0 => applied'[m] > 0
    BY <1>2 DEF DoneGrows
  <2>3. refused \subseteq refused'
    BY <1>2 DEF DoneGrows
  <2>4. QED
    BY <2>1, <2>2, <2>3
<1>4. CASE m \notin assumed
  BY <1>1, <1>4
<1>5. QED
  BY <1>3, <1>4

\* Answers stay true while the router and Linear are left alone and no answer is
\* added to the wire.
LEMMA AnswersCarry ==
    ASSUME AnswersAreTrue, running' \subseteq running, UNCHANGED <<applied, refused>>,
           \A m \in Mutations : recorded'[m] # 0 => recorded[m] # 0,
           responses' \subseteq responses
    PROVE  AnswersAreTrue'
BY DEF AnswersAreTrue, Done

\* The device's steps.  Only an answer takes an entry out of the buffer, and an
\* answer is true.
LEMMA DeviceKeepsIInv ==
    ASSUME TInv, TInv', IInv, DeviceStep \/ AnswerStep \/ RouterRestart \/ PurgeRecords
    PROVE  IInv'
<1>0. TypeOK /\ TypeOK' /\ AssumedNotLost /\ AnswersAreTrue
  BY DEF TInv, IInv
<1>1. /\ UNCHANGED <<applied, refused>>
      /\ \A m \in Mutations : recorded'[m] # 0 => recorded[m] # 0
      /\ running' \subseteq running /\ responses' \subseteq responses
  BY 
     DEF DeviceStep, AnswerStep, RouterRestart, PurgeRecords, CallOnline, CallOffline,
         Reconnect, Disconnect,
     RejectAllPending, Crash, Start, CallAnswered, ReplayAnswered, StrayResponse, CallTimeout,
     ReplayTimeout, routerVars, wireVars
<1>2. AnswersAreTrue'
  BY <1>0, <1>1, AnswersCarry
<1>3. DoneGrows
  BY <1>0, <1>1 DEF DoneGrows, TypeOK
<1>4. SUFFICES AssumedNotLost'
  BY <1>2 DEF IInv
<1>5. ASSUME RangeOf(outbox) \subseteq RangeOf(outbox'),
             assumed' \ assumed \subseteq RangeOf(outbox')
      PROVE  AssumedNotLost'
  BY <1>0, <1>3, <1>5, BufferedMayBeAssumed
<1>6. ASSUME UNCHANGED <<outbox, assumed>> PROVE AssumedNotLost'
  BY <1>5, <1>6 DEF RangeOf
<1>7. ASSUME NEW m \in Mutations, CallOnline(m) PROVE AssumedNotLost'
  BY <1>6, <1>7 DEF CallOnline
<1>8. ASSUME NEW m \in Mutations, CallOffline(m) PROVE AssumedNotLost'
  <2>1. RangeOf(outbox') = RangeOf(outbox) \cup {m}
    BY <1>0, <1>8, AppendRange DEF CallOffline, TypeOK
  <2>2. assumed' = assumed \cup {m}
    BY <1>8 DEF CallOffline
  <2>3. QED
    BY <1>5, <2>1, <2>2
<1>9. CASE Reconnect \/ Crash \/ Start \/ PurgeRecords
  BY <1>6, <1>9 DEF Reconnect, Crash, Start, PurgeRecords, deviceVars
<1>10. CASE Disconnect \/ RouterRestart
  <2>1. RejectAllPending
    BY <1>10 DEF Disconnect, RouterRestart
  <2>2. RangeOf(outbox') = RangeOf(outbox) \cup RangeOf(MutsOf(calls))
    BY <1>0, <2>1, RejectType
  <2>3. assumed' = assumed \cup RangeOf(MutsOf(calls))
    BY <2>1 DEF RejectAllPending
  <2>4. QED
    BY <1>5, <2>2, <2>3
<1>11. ASSUME NEW r \in responses, NEW i \in 1..Len(calls), CallAnswered(r, i)
       PROVE  AssumedNotLost'
  BY <1>6, <1>11 DEF CallAnswered
<1>12. ASSUME NEW r \in responses, ReplayAnswered(r) PROVE AssumedNotLost'
  <2> DEFINE a == r.req.mut
  <2>1. a \in Mutations /\ outbox \in Seq(Mutations)
    BY <1>0 DEF TypeOK, Response, Request
  <2>2. outbox' = RemoveOutboundEntry(outbox, a) /\ assumed' = assumed
    BY <1>12 DEF ReplayAnswered
  <2>3. Done(a)
    BY <1>0 DEF AnswersAreTrue
  <2> HIDE DEF a
  <2>4. RangeOf(outbox) \ {a} \subseteq RangeOf(outbox')
    BY <2>1, <2>2, RemoveKeepsOthers
  <2>5. \A m \in assumed' : m \in RangeOf(outbox') \/ applied'[m] > 0 \/ m \in refused'
    BY <1>0, <1>1, <2>2, <2>3, <2>4 DEF AssumedNotLost, Done
  <2>6. QED
    BY <2>5 DEF AssumedNotLost, RangeOf
<1>13. ASSUME NEW r \in responses, StrayResponse(r) PROVE AssumedNotLost'
  BY <1>6, <1>13 DEF StrayResponse, deviceVars
<1>14. ASSUME NEW i \in 1..Len(calls), CallTimeout(i) PROVE AssumedNotLost'
  <2>1. calls[i] \in Request
    BY <1>0 DEF TypeOK
  <2>2. calls[i].mut \in Mutations
    BY <2>1 DEF Request
  <2>3. RangeOf(outbox') = RangeOf(outbox) \cup {calls[i].mut}
    BY <1>0, <1>14, <2>2, AppendRange DEF CallTimeout, TypeOK
  <2>4. assumed' = assumed \cup {calls[i].mut}
    BY <1>14 DEF CallTimeout
  <2>5. QED
    BY <1>5, <2>3, <2>4
<1>15. ASSUME NEW q \in sent, ReplayTimeout(q) PROVE AssumedNotLost'
  BY <1>6, <1>15 DEF ReplayTimeout
<1>16. QED
  BY <1>7, <1>8, <1>9, <1>10, <1>11, <1>12, <1>13, <1>14, <1>15 DEF DeviceStep, AnswerStep

\* The router's steps leave the buffer alone, answer only what is done, and undo
\* nothing.
LEMMA DispatchKeepsIInv ==
    ASSUME TInv, TInv', IInv, DispatchStep
    PROVE  IInv'
<1>0. TypeOK /\ TypeOK' /\ AssumedNotLost /\ AnswersAreTrue
  BY DEF TInv, IInv
<1>1. /\ running \subseteq Dispatched /\ requests \subseteq Request
      /\ recorded \in [Mutations -> Nat] /\ applied \in [Mutations -> Nat]
  BY <1>0 DEF TypeOK
<1>2. UNCHANGED <<outbox, assumed>>
  BY DEF DispatchStep, DispatchCached, DispatchRefused, DispatchInvoke, LinearApplies, Complete,
     CallFails, deviceVars
<1>3. ASSUME DoneGrows PROVE AssumedNotLost'
  BY <1>0, <1>2, <1>3, BufferedMayBeAssumed DEF RangeOf
<1>4. ASSUME NEW q, NEW ok, NEW r \in Respond(q, ok, responses)
      PROVE  r \in responses \/ r.req = q
  BY DEF Respond
<1>5. ASSUME NEW q \in requests, DispatchCached(q) PROVE IInv'
  <2>1. q.mut \in Mutations /\ applied[q.mut] > 0
    BY <1>0, <1>1, <1>5 DEF Request, DispatchCached, AnswersAreTrue
  <2>2. [q EXCEPT !.try = recorded[q.mut]].mut = q.mut
    BY <1>1 DEF Request
  <2>3. UNCHANGED <<running, recorded, applied, refused>>
    BY <1>5 DEF DispatchCached, routerVars
  <2>4. \A r \in responses' : r \in responses \/ r.req.mut = q.mut
    BY <1>4, <1>5, <2>2 DEF DispatchCached
  <2>5. AnswersAreTrue'
    BY <1>0, <2>1, <2>3, <2>4 DEF AnswersAreTrue, Done
  <2>6. DoneGrows
    BY <1>1, <2>3 DEF DoneGrows
  <2>7. QED
    BY <1>3, <2>5, <2>6 DEF IInv
<1>6. ASSUME NEW q \in requests, DispatchRefused(q) PROVE IInv'
  <2>1. UNCHANGED <<running, recorded, applied>> /\ refused' = refused \cup {q.mut}
    BY <1>6 DEF DispatchRefused, routerVars
  <2>2. \A r \in responses' : r \in responses \/ r.req = q
    BY <1>4, <1>6 DEF DispatchRefused
  <2>3. AnswersAreTrue'
    BY <1>0, <2>1, <2>2 DEF AnswersAreTrue, Done
  <2>4. DoneGrows
    BY <1>1, <2>1 DEF DoneGrows
  <2>5. QED
    BY <1>3, <2>3, <2>4 DEF IInv
<1>7. ASSUME NEW q \in requests, DispatchInvoke(q) PROVE IInv'
  <2>1. /\ UNCHANGED <<responses, recorded, applied, refused>>
        /\ running' = running \cup {[req |-> q, done |-> FALSE]}
    BY <1>7 DEF DispatchInvoke
  <2>2. AnswersAreTrue'
    BY <1>0, <2>1 DEF AnswersAreTrue, Done
  <2>3. DoneGrows
    BY <1>1, <2>1 DEF DoneGrows
  <2>4. QED
    BY <1>3, <2>2, <2>3 DEF IInv
<1>8. ASSUME NEW d \in running, LinearApplies(d) PROVE IInv'
  <2>1. d \in Dispatched /\ d.req.mut \in Mutations
    BY <1>1 DEF Dispatched, Request
  <2>2. [d EXCEPT !.done = TRUE].req = d.req
    BY <2>1 DEF Dispatched
  <2>3. /\ UNCHANGED <<responses, recorded, refused>>
        /\ running' = (running \ {d}) \cup {[d EXCEPT !.done = TRUE]}
        /\ applied' = [applied EXCEPT ![d.req.mut] = @ + 1]
    BY <1>8 DEF LinearApplies, wireVars
  <2>4. /\ \A m \in Mutations : applied[m] <= applied'[m] /\ applied'[m] \in Nat
        /\ applied'[d.req.mut] > 0
    BY <1>1, <2>1, <2>3
  <2>5. DoneGrows
    BY <2>3, <2>4 DEF DoneGrows
  <2>6. \A m \in Mutations : applied[m] > 0 => applied'[m] > 0
    BY <1>1, <2>4
  <2>7. \A x \in running' : x.done => applied'[x.req.mut] > 0
    <3>1. ASSUME NEW x \in running \ {d}, x.done PROVE applied'[x.req.mut] > 0
      <4>1. x.req.mut \in Mutations
        BY <1>1 DEF Dispatched, Request
      <4>2. applied[x.req.mut] > 0
        BY <1>0, <3>1 DEF AnswersAreTrue
      <4>3. QED
        BY <2>6, <4>1, <4>2
    <3>2. QED
      BY <2>2, <2>3, <2>4, <3>1
  <2>8. \A m \in Mutations : recorded'[m] # 0 => applied'[m] > 0
    BY <1>0, <2>3, <2>6 DEF AnswersAreTrue
  <2>9. \A r \in responses' : Done(r.req.mut)'
    <3>1. ASSUME NEW r \in responses PROVE r.req.mut \in Mutations /\ Done(r.req.mut)
      BY <1>0 DEF TypeOK, Response, Request, AnswersAreTrue
    <3>2. QED
      BY <2>3, <2>6, <3>1 DEF Done
  <2>10. QED
    BY <1>3, <2>5, <2>7, <2>8, <2>9 DEF IInv, AnswersAreTrue
<1>9. ASSUME NEW d \in running, Complete(d) PROVE IInv'
  <2>1. d.req.mut \in Mutations /\ applied[d.req.mut] > 0
    BY <1>0, <1>1, <1>9 DEF Dispatched, Request, Complete, AnswersAreTrue
  <2>2. /\ UNCHANGED <<applied, refused>> /\ running' \subseteq running
        /\ recorded' = [recorded EXCEPT ![d.req.mut] = d.req.try]
    BY <1>9 DEF Complete
  <2>3. \A r \in responses' : r \in responses \/ r.req = d.req
    BY <1>4, <1>9 DEF Complete
  <2>4. \A m \in Mutations : recorded'[m] # 0 => applied'[m] > 0
    BY <1>0, <1>1, <2>1, <2>2 DEF AnswersAreTrue
  <2>5. AnswersAreTrue'
    BY <1>0, <2>1, <2>2, <2>3, <2>4 DEF AnswersAreTrue, Done
  <2>6. DoneGrows
    BY <1>1, <2>2 DEF DoneGrows
  <2>7. QED
    BY <1>3, <2>5, <2>6 DEF IInv
<1>10. ASSUME NEW d \in running, CallFails(d) PROVE IInv'
  <2>1. /\ UNCHANGED <<recorded, applied>> /\ running' \subseteq running
        /\ refused' = refused \cup {d.req.mut}
    BY <1>10 DEF CallFails
  <2>2. \A r \in responses' : r \in responses \/ r.req = d.req
    BY <1>4, <1>10 DEF CallFails
  <2>3. AnswersAreTrue'
    BY <1>0, <2>1, <2>2 DEF AnswersAreTrue, Done
  <2>4. DoneGrows
    BY <1>1, <2>1 DEF DoneGrows
  <2>5. QED
    BY <1>3, <2>3, <2>4 DEF IInv
<1>11. QED
  BY <1>5, <1>6, <1>7, <1>8, <1>9, <1>10 DEF DispatchStep

\* A step that changes nothing keeps what is owed.
LEMMA StutterKeepsIInv ==
    ASSUME IInv, UNCHANGED vars
    PROVE  IInv'
BY DEF IInv, AssumedNotLost, AnswersAreTrue, Done, RangeOf, vars, deviceVars, wireVars,
   routerVars

\* What is owed and what answers mean, in every reachable state.
LEMMA IInvHolds == Spec => []IInv
<1>1. ASSUME TInv, TInv', IInv, [Next]_vars PROVE IInv'
  BY <1>1, DeviceKeepsIInv, DispatchKeepsIInv, StutterKeepsIInv DEF Next
<1>2. QED
  BY InitIInv, TInvHolds, <1>1, PTL DEF Spec

\* bufferedRpc's synthetic success is honest, for any calls and any number of
\* drops, timeouts, crashes and restarts: a call reported without an answer is in
\* the durable buffer, was performed by Linear, or was refused by the router.
THEOREM SuccessIsHonest == Spec => []AssumedNotLost
<1>1. IInv => AssumedNotLost
  BY DEF IInv
<1>2. QED
  BY IInvHolds, <1>1, PTL

---------------------------------------------------------------------------

\* A mutation that met no window has at most one attempt under way; the router has
\* its answer on record, or that attempt is what Linear performed, or Linear has
\* not performed it.
OnceInv ==
    \A m \in Mutations \ exposed :
        /\ \A d, e \in running : d.req.mut = m /\ e.req.mut = m => d = e
        /\ \A d \in running :
              d.req.mut = m => recorded[m] = 0 /\ applied[m] = (IF d.done THEN 1 ELSE 0)
        /\ recorded[m] = 0 /\ (\A d \in running : d.req.mut # m) => applied[m] = 0
        /\ applied[m] <= 1

\* Steps that start no attempt: the device's, and those with which the router
\* forgets.  What they forget of a mutation is a window.
LEMMA ForgettingKeepsOnce ==
    ASSUME TInv, OnceInv, exposed \subseteq exposed', applied' = applied,
           running' \subseteq running,
           \A m \in Mutations \ exposed' :
               /\ recorded'[m] = recorded[m]
               /\ \A d \in running : d.req.mut = m /\ d \notin running' => ~ d.done
    PROVE  OnceInv'
<1>1. SUFFICES ASSUME NEW m \in Mutations \ exposed'
               PROVE  /\ \A d, e \in running' : d.req.mut = m /\ e.req.mut = m => d = e
                      /\ \A d \in running' :
                            d.req.mut = m => recorded'[m] = 0 /\ applied'[m] = (IF d.done THEN 1 ELSE 0)
                      /\ recorded'[m] = 0 /\ (\A d \in running' : d.req.mut # m) => applied'[m] = 0
                      /\ applied'[m] <= 1
  BY DEF OnceInv
<1>2. m \in Mutations \ exposed
  OBVIOUS
<1>3. QED
  BY <1>2 DEF OnceInv

\* The router's steps.  An attempt is started only where nothing is stored, and
\* storing the answer ends the only attempt there is.
LEMMA DispatchKeepsOnce ==
    ASSUME TInv, OnceInv, DispatchStep
    PROVE  OnceInv'
<1>1. /\ running \subseteq Dispatched /\ requests \subseteq Request
      /\ recorded \in [Mutations -> Nat] /\ applied \in [Mutations -> Nat]
  BY DEF TInv, TypeOK
<1>2. ASSUME NEW q \in requests, DispatchCached(q) \/ DispatchRefused(q) PROVE OnceInv'
  BY <1>2, ForgettingKeepsOnce DEF DispatchCached, DispatchRefused, routerVars
<1>3. ASSUME NEW q \in requests, DispatchInvoke(q) PROVE OnceInv'
  <2> DEFINE n == [req |-> q, done |-> FALSE]
  <2>1. /\ running' = running \cup {n} /\ UNCHANGED <<recorded, applied>>
        /\ n.req = q /\ ~ n.done /\ recorded[q.mut] = 0
        /\ exposed \subseteq exposed'
    BY <1>3 DEF DispatchInvoke
  <2>2. q.mut \in exposed' \/ \A d \in running : d.req.mut # q.mut
    BY <1>3 DEF DispatchInvoke, Attempts
  <2> HIDE DEF n
  <2>3. ASSUME NEW m \in Mutations \ exposed', m = q.mut
        PROVE  applied[m] = 0
    BY <2>1, <2>2, <2>3 DEF OnceInv
  <2>4. ASSUME NEW m \in Mutations \ exposed'
        PROVE  \A d, e \in running' : d.req.mut = m /\ e.req.mut = m => d = e
    BY <2>1, <2>2 DEF OnceInv
  <2>5. ASSUME NEW m \in Mutations \ exposed'
        PROVE  /\ \A d \in running' :
                    d.req.mut = m => recorded'[m] = 0 /\ applied'[m] = (IF d.done THEN 1 ELSE 0)
               /\ recorded'[m] = 0 /\ (\A d \in running' : d.req.mut # m) => applied'[m] = 0
               /\ applied'[m] <= 1
    BY <2>1, <2>3 DEF OnceInv
  <2>6. QED
    BY <2>4, <2>5 DEF OnceInv
<1>4. ASSUME NEW d \in running, LinearApplies(d) PROVE OnceInv'
  <2> DEFINE n == [d EXCEPT !.done = TRUE]
  <2>1. d \in Dispatched /\ d.req.mut \in Mutations /\ n.req = d.req /\ n.done
    BY <1>1 DEF Dispatched, Request
  <2>2. /\ running' = (running \ {d}) \cup {n} /\ UNCHANGED <<recorded, exposed>> /\ ~ d.done
        /\ applied' = [applied EXCEPT ![d.req.mut] = @ + 1]
    BY <1>4 DEF LinearApplies
  <2> HIDE DEF n
  <2>3. ASSUME NEW m \in Mutations \ exposed, m # d.req.mut
        PROVE  /\ applied'[m] = applied[m]
               /\ \A x : x.req.mut = m => (x \in running' <=> x \in running)
    BY <1>1, <2>1, <2>2, <2>3
  <2>4. ASSUME NEW m \in Mutations \ exposed, m = d.req.mut
        PROVE  /\ applied[m] = 0 /\ applied'[m] = 1 /\ recorded[m] = 0
               /\ \A x \in running' : x.req.mut = m => x = n
    BY <1>1, <2>1, <2>2, <2>4 DEF OnceInv
  <2>5. ASSUME NEW m \in Mutations \ exposed
        PROVE  /\ \A x, e \in running' : x.req.mut = m /\ e.req.mut = m => x = e
               /\ \A x \in running' :
                    x.req.mut = m => recorded[m] = 0 /\ applied'[m] = (IF x.done THEN 1 ELSE 0)
               /\ recorded[m] = 0 /\ (\A x \in running' : x.req.mut # m) => applied'[m] = 0
               /\ applied'[m] <= 1
    <3>1. CASE m = d.req.mut
      BY <2>1, <2>2, <2>4, <3>1
    <3>2. CASE m # d.req.mut
      BY <2>3, <3>2 DEF OnceInv
    <3>3. QED
      BY <3>1, <3>2
  <2>6. QED
    BY <2>2, <2>5 DEF OnceInv
<1>5. ASSUME NEW d \in running, Complete(d) PROVE OnceInv'
  <2>1. d.req.mut \in Mutations /\ d.req.try # 0 /\ d.done
    BY <1>1, <1>5 DEF Dispatched, Request, Complete
  <2>2. /\ running' = running \ {d} /\ UNCHANGED <<applied, exposed>>
        /\ recorded' = [recorded EXCEPT ![d.req.mut] = d.req.try]
    BY <1>5 DEF Complete
  <2>3. recorded'[d.req.mut] # 0 /\ \A m \in Mutations : m # d.req.mut => recorded'[m] = recorded[m]
    BY <1>1, <2>1, <2>2
  <2>4. QED
    BY <2>1, <2>2, <2>3 DEF OnceInv
<1>6. ASSUME NEW d \in running, CallFails(d) PROVE OnceInv'
  <2>1. /\ running' = running \ {d} /\ UNCHANGED <<applied, recorded>> /\ exposed \subseteq exposed'
        /\ d.done => d.req.mut \in exposed'
    BY <1>6 DEF CallFails
  <2>2. QED
    BY <2>1, ForgettingKeepsOnce
<1>7. QED
  BY <1>2, <1>3, <1>4, <1>5, <1>6 DEF DispatchStep

\* LinearExecutor recognises retries, for any mutations and any number of drops,
\* timeouts, crashes and restarts: Linear performs a mutation more than once only
\* when it met one of the four windows the router leaves open.
THEOREM RetriesRecognised == Spec => []PerformedOnce
<1>1. Init => OnceInv
  BY DEF Init, OnceInv
<1>2. ASSUME TInv, OnceInv, [Next]_vars PROVE OnceInv'
  <2>1. CASE DeviceStep \/ AnswerStep \/ UNCHANGED vars
    <3>1. UNCHANGED <<running, recorded, applied, exposed>>
      BY <2>1 DEF DeviceStep, AnswerStep, CallOnline, CallOffline, Reconnect, Disconnect, Crash,
         Start, CallAnswered, ReplayAnswered, StrayResponse, CallTimeout, ReplayTimeout,
         routerVars, vars
    <3>2. QED
      BY <1>2, <3>1, ForgettingKeepsOnce
  <2>2. CASE RouterRestart
    <3>1. /\ running' = {} /\ UNCHANGED <<recorded, applied>> /\ exposed \subseteq exposed'
          /\ \A d \in running : d.done => d.req.mut \in exposed'
      BY <2>2 DEF RouterRestart
    <3>2. QED
      BY <1>2, <3>1, ForgettingKeepsOnce
  <2>3. CASE PurgeRecords
    <3>1. /\ UNCHANGED <<running, applied>> /\ exposed \subseteq exposed'
          /\ \A m \in Mutations \ exposed' : recorded'[m] = recorded[m]
      BY <2>3 DEF PurgeRecords
    <3>2. QED
      BY <1>2, <3>1, ForgettingKeepsOnce
  <2>4. QED
    BY <1>2, <2>1, <2>2, <2>3, DispatchKeepsOnce DEF Next
<1>3. OnceInv => PerformedOnce
  BY DEF OnceInv, PerformedOnce
<1>4. QED
  BY TInvHolds, <1>1, <1>2, <1>3, PTL DEF Spec

---------------------------------------------------------------------------
(* Calls made offline reach Linear in their order *)

\* An offline call is reported as a success, and made once.
OfflineAssumed ==
    /\ RangeOf(offline) \subseteq assumed
    /\ \A i, j \in 1..Len(offline) : offline[i] = offline[j] => i = j

\* A mutation is pending once or buffered once: a call was sent and is not one
\* that was made offline, and what is buffered is not to be made again.
HeldOnce ==
    /\ \A i, j \in 1..Len(outbox) : outbox[i] = outbox[j] => i = j
    /\ \A i, j \in 1..Len(calls) : calls[i].mut = calls[j].mut => i = j
    /\ \A i \in 1..Len(calls) : /\ calls[i].mut \notin RangeOf(outbox) \cup RangeOf(offline)
                                /\ tries[calls[i].mut] > 0
    /\ \A i \in 1..Len(outbox) : ~ Fresh(outbox[i])

\* What the replay has left is the front of the buffer, and its request is for
\* the first of it.
ReplayIsFront ==
    /\ Len(replay) <= Len(outbox) /\ \A k \in 1..Len(replay) : replay[k] = outbox[k]
    /\ \A q \in sent : replay # <<>> /\ q.mut = replay[1]

\* The buffer has the offline calls in their order.
BufferOrder ==
    \A p, q \in 1..Len(outbox) : \A i, j \in 1..Len(offline) :
        outbox[p] = offline[i] /\ outbox[q] = offline[j] /\ i < j => p < q

\* Nothing is performed, or on its way, that was not sent; no offline call is
\* sent before the earlier ones are done.
SentFirst ==
    /\ \A m \in Mutations : applied[m] > 0 => tries[m] > 0
    /\ \A q \in requests : tries[q.mut] > 0
    /\ \A d \in running : tries[d.req.mut] > 0

SentInOrder ==
    \A i, j \in 1..Len(offline) : i < j /\ tries[offline[j]] > 0 => Done(offline[i])

OInv == OfflineAssumed /\ HeldOnce /\ ReplayIsFront /\ BufferOrder /\ SentFirst /\ SentInOrder

\* WithoutAt, element by element.
LEMMA WithoutAtElements ==
    ASSUME NEW T, NEW s \in Seq(T), NEW i \in 1..Len(s)
    PROVE  /\ Len(WithoutAt(s, i)) = Len(s) - 1
           /\ \A k \in 1..(Len(s) - 1) :
                  WithoutAt(s, i)[k] = IF k < i THEN s[k] ELSE s[k + 1]
<1> DEFINE a == SubSeq(s, 1, i - 1)
           b == SubSeq(s, i + 1, Len(s))
<1>1. Len(s) \in Nat
  OBVIOUS
<1>2. /\ a \in Seq(T) /\ Len(a) = i - 1
      /\ \A j \in 1..(i - 1) : a[j] = s[j]
  BY <1>1
<1>3. /\ b \in Seq(T) /\ Len(b) = Len(s) - i
      /\ \A j \in 1..(Len(s) - i) : b[j] = s[i + j]
  BY <1>1
<1> HIDE DEF a, b
<1>4. Len(a \o b) = Len(s) - 1
  <2>0. a \in Seq(T) /\ b \in Seq(T)
    BY <1>2, <1>3
  <2>1. Len(a \o b) = Len(a) + Len(b)
    BY <2>0
  <2>2. QED
    BY <1>1, <1>2, <1>3, <2>1
<1>5. ASSUME NEW k \in 1..(Len(s) - 1) PROVE (a \o b)[k] = IF k < i THEN s[k] ELSE s[k + 1]
  <2>1. CASE k < i
    <3>1. k \in 1..Len(a) /\ (a \o b)[k] = a[k]
      BY <1>1, <1>2, <1>3, <2>1
    <3>2. QED
      BY <1>1, <1>2, <2>1, <3>1
  <2>2. CASE k >= i
    <3>1. k + 1 - i \in 1..Len(b) /\ k = Len(a) + (k + 1 - i) /\ i + (k + 1 - i) = k + 1
      BY <1>1, <1>2, <1>3, <2>2
    <3>2. (a \o b)[k] = b[k + 1 - i]
      <4>1. a \in Seq(T) /\ b \in Seq(T)
        BY <1>2, <1>3
      <4>2. \A n \in 1..Len(b) : (a \o b)[Len(a) + n] = b[n]
        BY <4>1
      <4>3. QED
        BY <3>1, <4>2
    <3>3. b[k + 1 - i] = s[k + 1]
      BY <1>3, <3>1
    <3>4. QED
      BY <1>1, <2>2, <3>2, <3>3
  <2>3. k < i \/ k >= i
    BY <1>1
  <2>4. QED
    BY <2>1, <2>2, <2>3
<1>6. QED
  BY <1>4, <1>5 DEF WithoutAt, a, b

\* Dropping position i of a sequence without repetitions leaves one, made of the
\* other elements.
LEMMA WithoutAtDistinct ==
    ASSUME NEW T, NEW s \in Seq(T), NEW i \in 1..Len(s), NEW t, t = WithoutAt(s, i)
    PROVE  /\ Len(t) = Len(s) - 1
           /\ \A k \in 1..Len(t) : \E j \in 1..Len(s) :
                  j # i /\ t[k] = s[j] /\ j = IF k < i THEN k ELSE k + 1
<1>1. /\ Len(t) = Len(s) - 1 /\ Len(s) \in Nat
      /\ \A k \in 1..(Len(s) - 1) : t[k] = IF k < i THEN s[k] ELSE s[k + 1]
  BY WithoutAtElements
<1>2. ASSUME NEW k \in 1..Len(t)
      PROVE  \E j \in 1..Len(s) : j # i /\ t[k] = s[j] /\ j = IF k < i THEN k ELSE k + 1
  <2>1. (IF k < i THEN k ELSE k + 1) \in 1..Len(s)
    BY <1>1
  <2>2. QED
    BY <1>1, <2>1
<1>3. QED
  BY <1>1, <1>2

\* removeOutboundEntry of the first entry of a buffer without repetitions moves the
\* others up by one.
LEMMA RemoveFirst ==
    ASSUME NEW s \in Seq(Mutations), s # <<>>,
           \A i, j \in 1..Len(s) : s[i] = s[j] => i = j
    PROVE  /\ Len(RemoveOutboundEntry(s, s[1])) = Len(s) - 1
           /\ \A k \in 1..(Len(s) - 1) : RemoveOutboundEntry(s, s[1])[k] = s[k + 1]
<1> DEFINE i == CHOOSE k \in 1..Len(s) : s[k] = s[1]
<1>1. Len(s) \in Nat /\ 1 \in 1..Len(s)
  OBVIOUS
<1>2. s[1] \in RangeOf(s)
  BY <1>1 DEF RangeOf
<1>3. i \in 1..Len(s) /\ s[i] = s[1]
  BY <1>1
<1>4. RemoveOutboundEntry(s, s[1]) = WithoutAt(s, i)
  BY <1>2 DEF RemoveOutboundEntry
<1> HIDE DEF i
<1>5. i = 1
  BY <1>1, <1>3
<1>6. /\ Len(WithoutAt(s, 1)) = Len(s) - 1
      /\ \A k \in 1..(Len(s) - 1) : WithoutAt(s, 1)[k] = IF k < 1 THEN s[k] ELSE s[k + 1]
  BY <1>1, WithoutAtElements
<1>7. QED
  BY <1>1, <1>4, <1>5, <1>6

\* The first entry of a buffer in order is the next offline call: each earlier one
\* has left the buffer, so it is done.
LEMMA FirstIsNext ==
    ASSUME NEW ob \in Seq(Mutations), NEW off \in Seq(Mutations), NEW D, ob # <<>>,
           \A p, q \in 1..Len(ob) : \A i, j \in 1..Len(off) :
               ob[p] = off[i] /\ ob[q] = off[j] /\ i < j => p < q,
           \A i \in 1..Len(off) : off[i] \in RangeOf(ob) \cup D,
           NEW i \in 1..Len(off), NEW j \in 1..Len(off), i < j, off[j] = ob[1]
    PROVE  off[i] \in D
<1>1. Len(ob) \in Nat /\ 1 \in 1..Len(ob)
  OBVIOUS
<1>2. ASSUME NEW p \in 1..Len(ob), ob[p] = off[i] PROVE FALSE
  BY <1>1, <1>2
<1>3. QED
  BY <1>2 DEF RangeOf

\* Nothing is buffered at first.
LEMMA InitOInv == Init => OInv
BY DEF Init, OInv, OfflineAssumed, HeldOnce, ReplayIsFront, BufferOrder, SentFirst, SentInOrder,
   RangeOf

\* A step that leaves the buffer, the pending requests and the history of calls
\* alone: what the router does with the requests it has.
LEMMA RouterSideKeepsOInv ==
    ASSUME TypeOK, TypeOK', OInv, DoneGrows,
           UNCHANGED <<calls, sent, replay, outbox, tries, assumed, offline>>,
           requests' \subseteq requests,
           \A d \in running' : d.req \in requests \/ \E e \in running : d.req = e.req,
           \A m \in Mutations : applied'[m] > 0 => applied[m] > 0 \/ \E d \in running : d.req.mut = m
    PROVE  OInv'
<1>1. OfflineAssumed' /\ HeldOnce' /\ ReplayIsFront' /\ BufferOrder'
  BY DEF OInv, OfflineAssumed, HeldOnce, ReplayIsFront, BufferOrder, RangeOf, Fresh
<1>2. SentFirst'
  <2>1. SentFirst
    BY DEF OInv
  <2>2. \A m \in Mutations : applied'[m] > 0 => tries'[m] > 0
    BY <2>1 DEF SentFirst
  <2>3. \A q \in requests' : tries'[q.mut] > 0
    BY <2>1 DEF SentFirst
  <2>4. \A d \in running' : tries'[d.req.mut] > 0
    BY <2>1 DEF SentFirst
  <2>5. QED
    BY <2>2, <2>3, <2>4 DEF SentFirst
<1>3. SentInOrder'
  <2>1. SUFFICES ASSUME NEW i \in 1..Len(offline), NEW j \in 1..Len(offline), i < j,
                        tries[offline[j]] > 0
                 PROVE  Done(offline[i])'
    BY DEF SentInOrder
  <2>2. Done(offline[i])
    BY <2>1 DEF OInv, SentInOrder
  <2>3. offline \in Seq(Mutations) /\ applied \in [Mutations -> Nat] /\ applied' \in [Mutations -> Nat]
    BY DEF TypeOK
  <2>4. offline[i] \in Mutations
    BY <2>3
  <2>5. QED
    BY <2>2, <2>3, <2>4 DEF Done, DoneGrows
<1>4. QED
  BY <1>1, <1>2, <1>3 DEF OInv

\* The router's steps.
LEMMA DispatchKeepsOInv ==
    ASSUME TInv, TInv', OInv, DispatchStep
    PROVE  OInv'
<1>0. TypeOK /\ TypeOK'
  BY DEF TInv
<1>1. /\ running \subseteq Dispatched /\ requests \subseteq Request
      /\ recorded \in [Mutations -> Nat] /\ applied \in [Mutations -> Nat]
  BY <1>0 DEF TypeOK
<1>2. UNCHANGED <<calls, sent, replay, outbox, tries, assumed, offline>>
  BY DEF DispatchStep, DispatchCached, DispatchRefused, DispatchInvoke, LinearApplies, Complete,
     CallFails, deviceVars
<1>3. requests' \subseteq requests
  BY DEF DispatchStep, DispatchCached, DispatchRefused, DispatchInvoke, LinearApplies, Complete,
     CallFails, wireVars
<1>4. ASSUME running' \subseteq running, UNCHANGED applied, refused \subseteq refused' PROVE OInv'
  BY <1>0, <1>1, <1>2, <1>3, <1>4, RouterSideKeepsOInv DEF DoneGrows
<1>5. ASSUME NEW q \in requests, DispatchCached(q) \/ DispatchRefused(q) PROVE OInv'
  BY <1>4, <1>5 DEF DispatchCached, DispatchRefused, routerVars
<1>6. ASSUME NEW q \in requests, DispatchInvoke(q) PROVE OInv'
  <2>1. /\ UNCHANGED <<applied, refused>>
        /\ running' = running \cup {[req |-> q, done |-> FALSE]}
    BY <1>6 DEF DispatchInvoke
  <2>2. \A d \in running' : d.req \in requests \/ \E e \in running : d.req = e.req
    BY <2>1
  <2>3. DoneGrows
    BY <1>1, <2>1 DEF DoneGrows
  <2>4. QED
    BY <1>0, <1>2, <1>3, <2>1, <2>2, <2>3, RouterSideKeepsOInv
<1>7. ASSUME NEW d \in running, LinearApplies(d) PROVE OInv'
  <2>1. d \in Dispatched /\ d.req.mut \in Mutations
    BY <1>1 DEF Dispatched, Request
  <2>2. [d EXCEPT !.done = TRUE].req = d.req
    BY <2>1 DEF Dispatched
  <2>3. /\ refused' = refused
        /\ running' = (running \ {d}) \cup {[d EXCEPT !.done = TRUE]}
        /\ applied' = [applied EXCEPT ![d.req.mut] = @ + 1]
    BY <1>7 DEF LinearApplies
  <2>4. DoneGrows
    BY <1>1, <2>1, <2>3 DEF DoneGrows
  <2>5. \A x \in running' : \E e \in running : x.req = e.req
    BY <2>2, <2>3
  <2>6. \A m \in Mutations : applied'[m] > 0 => applied[m] > 0 \/ \E e \in running : e.req.mut = m
    BY <1>1, <2>1, <2>3
  <2>7. QED
    BY <1>0, <1>2, <1>3, <2>4, <2>5, <2>6, RouterSideKeepsOInv
<1>8. ASSUME NEW d \in running, Complete(d) \/ CallFails(d) PROVE OInv'
  BY <1>4, <1>8 DEF Complete, CallFails
<1>9. QED
  BY <1>5, <1>6, <1>7, <1>8 DEF DispatchStep

\* A step that sends nothing and makes no call keeps the order of what was sent.
LEMMA NothingSent ==
    ASSUME SentFirst, SentInOrder, UNCHANGED <<tries, offline, applied, refused>>,
           requests' \subseteq requests, running' \subseteq running
    PROVE  SentFirst' /\ SentInOrder'
<1>1. SentFirst'
  BY DEF SentFirst
<1>2. SentInOrder'
  BY DEF SentInOrder, Done
<1>3. QED
  BY <1>1, <1>2

\* Sending an attempt of m.
LEMMA SendingKeepsFirst ==
    ASSUME TypeOK, SentFirst, NEW m \in Mutations,
           tries' = [tries EXCEPT ![m] = @ + 1],
           requests' = requests \cup {NextTry(m)}, UNCHANGED <<applied, running>>
    PROVE  /\ SentFirst' /\ tries'[m] > 0
           /\ \A x \in Mutations : x # m => tries'[x] = tries[x]
           /\ \A x \in Mutations : tries[x] > 0 => tries'[x] > 0
<1>1. /\ tries \in [Mutations -> Nat] /\ requests \subseteq Request
      /\ running \subseteq Dispatched
  BY DEF TypeOK
<1>2. /\ tries'[m] > 0
      /\ \A x \in Mutations : x # m => tries'[x] = tries[x]
      /\ \A x \in Mutations : tries[x] > 0 => tries'[x] > 0
  BY <1>1
<1>3. NextTry(m).mut = m
  BY DEF NextTry
<1>4. \A q \in requests' : tries'[q.mut] > 0
  BY <1>1, <1>2, <1>3 DEF SentFirst, Request
<1>5. \A d \in running' : tries'[d.req.mut] > 0
  BY <1>1, <1>2 DEF SentFirst, Dispatched, Request
<1>6. \A x \in Mutations : applied'[x] > 0 => tries'[x] > 0
  BY <1>2 DEF SentFirst
<1>7. QED
  BY <1>2, <1>4, <1>5, <1>6 DEF SentFirst

\* The replay sends the first entry of the buffer, which is the next offline call or
\* none of them.
LEMMA ReplayKeepsOrder ==
    ASSUME TypeOK, TypeOK', SentFirst, SentInOrder, NEW rest \in Seq(Mutations), ReplayRest(rest),
           UNCHANGED <<applied, running, refused, offline>>,
           OfflineAssumed', BufferOrder', AssumedNotLost',
           Len(rest) <= Len(outbox'), \A k \in 1..Len(rest) : rest[k] = outbox'[k]
    PROVE  /\ SentFirst' /\ SentInOrder' /\ ReplayIsFront'
           /\ \A x \in Mutations : tries[x] > 0 => tries'[x] > 0
<1>1. CASE rest = <<>>
  <2>1. sent' = {} /\ replay' = <<>> /\ UNCHANGED <<requests, tries>>
    BY <1>1 DEF ReplayRest
  <2>2. SentFirst' /\ SentInOrder'
    BY <2>1, NothingSent
  <2>3. ReplayIsFront'
    <3>1. outbox' \in Seq(Mutations)
      BY DEF TypeOK
    <3>2. QED
      BY <2>1, <3>1 DEF ReplayIsFront
  <2>4. QED
    BY <2>1, <2>2, <2>3
<1>2. CASE rest # <<>>
  <2> DEFINE h == Head(rest)
  <2>1. h \in Mutations /\ h = rest[1] /\ Len(rest) \in Nat /\ 1 \in 1..Len(rest)
    BY <1>2
  <2>2. /\ sent' = {NextTry(h)} /\ requests' = requests \cup {NextTry(h)}
        /\ tries' = [tries EXCEPT ![h] = @ + 1] /\ replay' = rest
    BY <1>2 DEF ReplayRest
  <2> HIDE DEF h
  <2>3. /\ SentFirst'
        /\ \A x \in Mutations : x # h => tries'[x] = tries[x]
        /\ \A x \in Mutations : tries[x] > 0 => tries'[x] > 0
    BY <2>1, <2>2, SendingKeepsFirst
  <2>4. ReplayIsFront'
    <3>1. NextTry(h).mut = h
      BY DEF NextTry
    <3>2. QED
      BY <1>2, <2>1, <2>2, <3>1 DEF ReplayIsFront
  <2>5. /\ outbox' \in Seq(Mutations) /\ offline \in Seq(Mutations) /\ offline' = offline
        /\ Len(outbox') \in Nat
    BY DEF TypeOK
  <2>6. outbox' # <<>> /\ outbox'[1] = h
    BY <2>1, <2>5
  <2> DEFINE D == {m \in Mutations : applied'[m] > 0 \/ m \in refused'}
  <2>7. \A i \in 1..Len(offline) : offline[i] \in RangeOf(outbox') \cup D
    <3>1. SUFFICES ASSUME NEW i \in 1..Len(offline) PROVE offline[i] \in RangeOf(outbox') \cup D
      OBVIOUS
    <3>2. offline[i] \in Mutations /\ offline[i] \in assumed'
      BY <2>5 DEF OfflineAssumed, RangeOf
    <3>3. offline[i] \in RangeOf(outbox') \/ applied'[offline[i]] > 0 \/ offline[i] \in refused'
      BY <3>2 DEF AssumedNotLost, RangeOf
    <3>4. QED
      BY <3>2, <3>3
  <2> HIDE DEF D
  <2>8. \A p, q \in 1..Len(outbox') : \A i, j \in 1..Len(offline) :
            outbox'[p] = offline[i] /\ outbox'[q] = offline[j] /\ i < j => p < q
    BY <2>5 DEF BufferOrder
  <2>9. ASSUME NEW i \in 1..Len(offline), NEW j \in 1..Len(offline), i < j,
               tries'[offline[j]] > 0
        PROVE  Done(offline[i])'
    <3>1. offline[j] \in Mutations
      BY <2>5
    <3>2. CASE offline[j] = h
      <4>1. offline[i] \in D
        BY <2>5, <2>6, <2>7, <2>8, <2>9, <3>2, FirstIsNext
      <4>2. QED
        BY <2>5, <4>1 DEF D, Done
    <3>3. CASE offline[j] # h
      <4>1. tries[offline[j]] > 0
        BY <2>3, <2>9, <3>1, <3>3
      <4>2. Done(offline[i])
        BY <2>9, <4>1 DEF SentInOrder
      <4>3. QED
        BY <2>5, <4>2 DEF Done
    <3>4. QED
      BY <3>2, <3>3
  <2>10. SentInOrder'
    BY <2>5, <2>9 DEF SentInOrder
  <2>11. QED
    BY <2>3, <2>4, <2>10
<1>3. QED
  BY <1>1, <1>2

\* bufferedRpc, connected or not.
LEMMA CallKeepsOInv ==
    ASSUME TInv, TInv', OInv, NEW m \in Mutations, CallOnline(m) \/ CallOffline(m)
    PROVE  OInv'
<1>0. /\ TypeOK /\ TypeOK' /\ OfflineAssumed /\ HeldOnce /\ ReplayIsFront /\ BufferOrder
      /\ SentFirst /\ SentInOrder
  BY DEF TInv, OInv
<1>1. /\ calls \in Seq(Request) /\ outbox \in Seq(Mutations) /\ offline \in Seq(Mutations)
      /\ replay \in Seq(Mutations) /\ tries \in [Mutations -> Nat]
      /\ Len(calls) \in Nat /\ Len(outbox) \in Nat /\ Len(offline) \in Nat /\ Len(replay) \in Nat
  BY <1>0 DEF TypeOK
<1>2. /\ \A i \in 1..Len(outbox) : outbox[i] \in Mutations
      /\ \A i \in 1..Len(offline) : offline[i] \in Mutations
      /\ \A i \in 1..Len(calls) : calls[i].mut \in Mutations
  <2>1. \A i \in 1..Len(calls) : calls[i] \in Request
    BY <1>1
  <2>2. QED
    BY <1>1, <2>1 DEF Request
<1>3. /\ tries[m] = 0 /\ \A i \in 1..Len(offline) : offline[i] # m
      /\ \A i \in 1..Len(outbox) : outbox[i] # m
      /\ \A i \in 1..Len(calls) : calls[i].mut # m
  <2>1. Fresh(m)
    BY DEF CallOnline, CallOffline
  <2>2. QED
    BY <1>0, <2>1 DEF Fresh, HeldOnce, RangeOf
<1>4. CASE CallOnline(m)
  <2>1. /\ calls' = Append(calls, NextTry(m)) /\ requests' = requests \cup {NextTry(m)}
        /\ tries' = [tries EXCEPT ![m] = @ + 1]
        /\ UNCHANGED <<sent, replay, outbox, running, applied, refused, assumed, offline>>
    BY <1>4 DEF CallOnline, routerVars
  <2>2. /\ SentFirst' /\ tries'[m] > 0
        /\ \A x \in Mutations : x # m => tries'[x] = tries[x]
        /\ \A x \in Mutations : tries[x] > 0 => tries'[x] > 0
    BY <1>0, <2>1, SendingKeepsFirst
  <2>3. OfflineAssumed' /\ ReplayIsFront' /\ BufferOrder'
    <3>1. OfflineAssumed'
      BY <1>0, <2>1 DEF OfflineAssumed, RangeOf
    <3>2. ReplayIsFront'
      BY <1>0, <2>1 DEF ReplayIsFront
    <3>3. BufferOrder'
      BY <1>0, <2>1 DEF BufferOrder
    <3>4. QED
      BY <3>1, <3>2, <3>3
  <2>4. SentInOrder'
    BY <1>0, <1>2, <1>3, <2>1, <2>2 DEF SentInOrder, Done
  <2>5. HeldOnce'
    <3>1. NextTry(m) \in Request /\ NextTry(m).mut = m
      BY <1>0, NextTryType
    <3>2. /\ Len(calls') = Len(calls) + 1 /\ calls'[Len(calls) + 1].mut = m
          /\ \A k \in 1..Len(calls) : calls'[k] = calls[k]
      BY <1>1, <2>1, <3>1
    <3>3. \A k \in 1..Len(calls') : k \in 1..Len(calls) \/ k = Len(calls) + 1
      BY <1>1, <3>2
    <3>4. \A i, j \in 1..Len(calls') : calls'[i].mut = calls'[j].mut => i = j
      BY <1>0, <1>3, <3>2, <3>3 DEF HeldOnce
    <3>5. \A i \in 1..Len(calls') : /\ calls'[i].mut \notin RangeOf(outbox) \cup RangeOf(offline)
                                    /\ tries'[calls'[i].mut] > 0
      <4>1. SUFFICES ASSUME NEW i \in 1..Len(calls')
                     PROVE  /\ calls'[i].mut \notin RangeOf(outbox) \cup RangeOf(offline)
                            /\ tries'[calls'[i].mut] > 0
        OBVIOUS
      <4>2. CASE i \in 1..Len(calls)
        BY <1>0, <1>2, <2>2, <3>2, <4>2 DEF HeldOnce
      <4>3. CASE i = Len(calls) + 1
        BY <1>3, <2>2, <3>2, <4>3 DEF RangeOf
      <4>4. QED
        BY <3>3, <4>2, <4>3
    <3>6. \A i \in 1..Len(outbox) : ~ (tries'[outbox[i]] = 0 /\ outbox[i] \notin RangeOf(offline))
      BY <1>0, <1>2, <1>3, <2>2 DEF HeldOnce, Fresh
    <3>7. \A i, j \in 1..Len(outbox) : outbox[i] = outbox[j] => i = j
      BY <1>0 DEF HeldOnce
    <3>8. outbox' = outbox /\ offline' = offline
      BY <2>1
    <3>9. RangeOf(outbox)' = RangeOf(outbox) /\ RangeOf(offline)' = RangeOf(offline)
      BY <3>8 DEF RangeOf
    <3>10. QED
      BY <3>4, <3>5, <3>6, <3>7, <3>8, <3>9 DEF HeldOnce, Fresh
  <2>6. QED
    BY <2>2, <2>3, <2>4, <2>5 DEF OInv
<1>5. CASE CallOffline(m)
  <2>1. /\ outbox' = Append(outbox, m) /\ assumed' = assumed \cup {m}
        /\ offline' = Append(offline, m)
        /\ UNCHANGED <<calls, sent, replay, requests, running, applied, tries, refused>>
    BY <1>5 DEF CallOffline, wireVars, routerVars
  <2>2. /\ Len(outbox') = Len(outbox) + 1 /\ outbox'[Len(outbox) + 1] = m
        /\ \A k \in 1..Len(outbox) : outbox'[k] = outbox[k]
    BY <1>1, <2>1
  <2>3. /\ Len(offline') = Len(offline) + 1 /\ offline'[Len(offline) + 1] = m
        /\ \A k \in 1..Len(offline) : offline'[k] = offline[k]
    BY <1>1, <2>1
  <2>4. /\ \A k \in 1..Len(outbox') : k \in 1..Len(outbox) \/ k = Len(outbox) + 1
        /\ \A k \in 1..Len(offline') : k \in 1..Len(offline) \/ k = Len(offline) + 1
    BY <1>1, <2>2, <2>3
  <2>5. RangeOf(outbox') = RangeOf(outbox) \cup {m} /\ RangeOf(offline') = RangeOf(offline) \cup {m}
    BY <1>1, <2>1, AppendRange
  <2>6. OfflineAssumed'
    <3>1. RangeOf(offline') \subseteq assumed'
      BY <1>0, <2>1, <2>5 DEF OfflineAssumed
    <3>2. \A i, j \in 1..Len(offline') : offline'[i] = offline'[j] => i = j
      BY <1>0, <1>3, <2>3, <2>4 DEF OfflineAssumed
    <3>3. QED
      BY <3>1, <3>2 DEF OfflineAssumed, RangeOf
  <2>7. HeldOnce'
    <3>1. \A i, j \in 1..Len(outbox') : outbox'[i] = outbox'[j] => i = j
      BY <1>0, <1>3, <2>2, <2>4 DEF HeldOnce
    <3>2. \A i \in 1..Len(calls') : /\ calls'[i].mut \notin RangeOf(outbox') \cup RangeOf(offline')
                                    /\ tries'[calls'[i].mut] > 0
      BY <1>0, <1>3, <2>1, <2>5 DEF HeldOnce
    <3>3. \A i \in 1..Len(outbox') :
              ~ (tries[outbox'[i]] = 0 /\ outbox'[i] \notin RangeOf(offline'))
      BY <1>0, <2>2, <2>4, <2>5 DEF HeldOnce, Fresh
    <3>4. \A i, j \in 1..Len(calls) : calls[i].mut = calls[j].mut => i = j
      BY <1>0 DEF HeldOnce
    <3>5. RangeOf(outbox)' = RangeOf(outbox') /\ RangeOf(offline)' = RangeOf(offline')
      BY DEF RangeOf
    <3>6. calls' = calls /\ tries' = tries
      BY <2>1
    <3>7. QED
      BY <3>1, <3>2, <3>3, <3>4, <3>5, <3>6 DEF HeldOnce, Fresh
  <2>8. ReplayIsFront'
    BY <1>0, <1>1, <2>1, <2>2 DEF ReplayIsFront
  <2>9. BufferOrder'
    <3>1. SUFFICES ASSUME NEW p \in 1..Len(outbox'), NEW q \in 1..Len(outbox'),
                          NEW i \in 1..Len(offline'), NEW j \in 1..Len(offline'),
                          outbox'[p] = offline'[i], outbox'[q] = offline'[j], i < j
                   PROVE  p < q
      BY DEF BufferOrder
    <3>2. i \in 1..Len(offline) /\ p \in 1..Len(outbox)
      <4>1. i \in 1..Len(offline)
        BY <1>1, <2>3, <3>1
      <4>2. outbox'[p] # m
        BY <1>3, <2>3, <3>1, <4>1
      <4>3. QED
        BY <2>2, <2>4, <4>1, <4>2
    <3>3. CASE j \in 1..Len(offline)
      <4>1. q \in 1..Len(outbox)
        BY <1>3, <2>2, <2>3, <2>4, <3>1, <3>3
      <4>2. QED
        BY <1>0, <2>2, <2>3, <3>1, <3>2, <3>3, <4>1 DEF BufferOrder
    <3>4. CASE j = Len(offline) + 1
      <4>1. outbox'[q] = m
        BY <2>3, <3>1, <3>4
      <4>2. q \notin 1..Len(outbox)
        BY <1>3, <2>2, <4>1
      <4>3. q = Len(outbox) + 1
        BY <2>4, <4>2
      <4>4. QED
        BY <1>1, <3>2, <4>3
    <3>5. QED
      BY <2>4, <3>3, <3>4
  <2>10. SentFirst'
    BY <1>0, <2>1 DEF SentFirst
  <2>11. SentInOrder'
    <3>1. SUFFICES ASSUME NEW i \in 1..Len(offline'), NEW j \in 1..Len(offline'), i < j,
                          tries'[offline'[j]] > 0
                   PROVE  Done(offline[i])'
      BY DEF SentInOrder
    <3>2. j \in 1..Len(offline)
      BY <1>3, <2>1, <2>3, <2>4, <3>1
    <3>3. i \in 1..Len(offline)
      BY <1>1, <2>4, <3>1, <3>2
    <3>4. QED
      BY <1>0, <2>1, <2>3, <3>1, <3>2, <3>3 DEF SentInOrder, Done
  <2>12. QED
    BY <2>6, <2>7, <2>8, <2>9, <2>10, <2>11 DEF OInv
<1>6. QED
  BY <1>4, <1>5

\* Pending calls that are appended to the buffer: it stays free of repetitions, and
\* its offline calls stay in their order.
LEMMA BufferTakesCalls ==
    ASSUME TypeOK, TypeOK', HeldOnce, BufferOrder, UNCHANGED <<tries, offline>>,
           Len(outbox) <= Len(outbox'),
           \A k \in 1..Len(outbox) : outbox'[k] = outbox[k],
           \A k \in 1..Len(outbox') : k > Len(outbox) =>
               \E c \in 1..Len(calls) : outbox'[k] = calls[c].mut,
           \A k, n \in 1..Len(outbox') :
               k > Len(outbox) /\ n > Len(outbox) /\ outbox'[k] = outbox'[n] => k = n
    PROVE  /\ \A i, j \in 1..Len(outbox') : outbox'[i] = outbox'[j] => i = j
           /\ \A i \in 1..Len(outbox') :
                  ~ (tries'[outbox'[i]] = 0 /\ outbox'[i] \notin RangeOf(offline'))
           /\ BufferOrder'
<1>1. /\ outbox \in Seq(Mutations) /\ outbox' \in Seq(Mutations) /\ Len(outbox) \in Nat
      /\ Len(outbox') \in Nat /\ offline \in Seq(Mutations) /\ Len(offline) \in Nat
      /\ tries' = tries /\ offline' = offline
  BY DEF TypeOK
<1>2. \A k \in 1..Len(outbox') : k \in 1..Len(outbox) \/ k > Len(outbox)
  BY <1>1
<1>3. ASSUME NEW k \in 1..Len(outbox'), k > Len(outbox)
      PROVE  /\ outbox'[k] \notin RangeOf(outbox) /\ outbox'[k] \notin RangeOf(offline)
             /\ tries[outbox'[k]] > 0
  <2>1. PICK c \in 1..Len(calls) : outbox'[k] = calls[c].mut
    BY <1>3
  <2>2. QED
    BY <2>1 DEF HeldOnce
<1>4. ASSUME NEW i \in 1..Len(outbox'), NEW j \in 1..Len(outbox'), outbox'[i] = outbox'[j]
      PROVE  i = j
  <2>1. CASE i \in 1..Len(outbox) /\ j \in 1..Len(outbox)
    BY <1>4, <2>1 DEF HeldOnce
  <2>2. CASE i > Len(outbox) /\ j > Len(outbox)
    BY <1>4, <2>2
  <2>3. CASE i \in 1..Len(outbox) /\ j > Len(outbox)
    BY <1>3, <1>4, <2>3 DEF RangeOf
  <2>4. CASE i > Len(outbox) /\ j \in 1..Len(outbox)
    BY <1>3, <1>4, <2>4 DEF RangeOf
  <2>5. QED
    BY <1>2, <2>1, <2>2, <2>3, <2>4
<1>5. ASSUME NEW i \in 1..Len(outbox')
      PROVE  ~ (tries'[outbox'[i]] = 0 /\ outbox'[i] \notin RangeOf(offline'))
  <2>1. CASE i \in 1..Len(outbox)
    BY <1>1, <2>1 DEF HeldOnce, Fresh
  <2>2. CASE i > Len(outbox)
    BY <1>1, <1>3, <2>2
  <2>3. QED
    BY <1>2, <2>1, <2>2
<1>6. BufferOrder'
  <2>1. SUFFICES ASSUME NEW p \in 1..Len(outbox'), NEW q \in 1..Len(outbox'),
                        NEW i \in 1..Len(offline'), NEW j \in 1..Len(offline'),
                        outbox'[p] = offline'[i], outbox'[q] = offline'[j], i < j
                 PROVE  p < q
    BY DEF BufferOrder
  <2>2. i \in 1..Len(offline) /\ j \in 1..Len(offline) /\ offline'[i] = offline[i]
        /\ offline'[j] = offline[j]
    BY <1>1
  <2>3. p \in 1..Len(outbox) /\ q \in 1..Len(outbox)
    BY <1>2, <1>3, <2>1, <2>2 DEF RangeOf
  <2>4. QED
    BY <2>1, <2>2, <2>3 DEF BufferOrder
<1>7. QED
  BY <1>4, <1>5, <1>6

\* The connection is lost: every pending call joins the buffer.
LEMMA RejectKeepsOInv ==
    ASSUME TInv, TInv', OInv, RejectAllPending,
           UNCHANGED <<applied, tries, offline, refused>>, running' \subseteq running
    PROVE  OInv'
<1>0. /\ TypeOK /\ TypeOK' /\ OfflineAssumed /\ HeldOnce /\ ReplayIsFront /\ BufferOrder
      /\ SentFirst /\ SentInOrder
  BY DEF TInv, OInv
<1>1. /\ outbox' = outbox \o MutsOf(calls) /\ assumed \subseteq assumed'
      /\ calls' = <<>> /\ sent' = {} /\ replay' = <<>> /\ requests' = {}
  BY DEF RejectAllPending
<1>2. /\ calls \in Seq(Request) /\ outbox \in Seq(Mutations) /\ MutsOf(calls) \in Seq(Mutations)
      /\ Len(calls) \in Nat /\ Len(outbox) \in Nat
  BY <1>0, MutsOfType DEF TypeOK
<1>3. Len(MutsOf(calls)) = Len(calls) /\ \A k \in 1..Len(calls) : MutsOf(calls)[k] = calls[k].mut
  BY <1>2 DEF MutsOf
<1>4. /\ Len(outbox') = Len(outbox) + Len(calls)
      /\ \A k \in 1..Len(outbox) : outbox'[k] = outbox[k]
  <2> DEFINE t == MutsOf(calls)
  <2>1. t \in Seq(Mutations) /\ outbox' = outbox \o t /\ Len(t) = Len(calls)
    BY <1>1, <1>2, <1>3
  <2> HIDE DEF t
  <2>2. outbox \in Seq(Mutations) /\ t \in Seq(Mutations)
    BY <1>2, <2>1
  <2>3. /\ Len(outbox \o t) = Len(outbox) + Len(t)
        /\ \A k \in 1..Len(outbox) : (outbox \o t)[k] = outbox[k]
    BY <2>2
  <2>4. QED
    BY <2>1, <2>3
<1>5. ASSUME NEW k \in 1..Len(outbox'), k > Len(outbox)
      PROVE  k - Len(outbox) \in 1..Len(calls) /\ outbox'[k] = calls[k - Len(outbox)].mut
  <2>1. k - Len(outbox) \in 1..Len(calls) /\ k = Len(outbox) + (k - Len(outbox))
    BY <1>2, <1>4, <1>5
  <2>2. \A n \in 1..Len(MutsOf(calls)) : (outbox \o MutsOf(calls))[Len(outbox) + n] = MutsOf(calls)[n]
    BY <1>2
  <2>3. QED
    BY <1>1, <1>3, <2>1, <2>2
<1>6. \A k, n \in 1..Len(outbox') :
          k > Len(outbox) /\ n > Len(outbox) /\ outbox'[k] = outbox'[n] => k = n
  <2>1. SUFFICES ASSUME NEW k \in 1..Len(outbox'), NEW n \in 1..Len(outbox'),
                        k > Len(outbox), n > Len(outbox), outbox'[k] = outbox'[n]
                 PROVE  k = n
    OBVIOUS
  <2>2. k - Len(outbox) = n - Len(outbox)
    BY <1>0, <1>5, <2>1 DEF HeldOnce
  <2>3. QED
    BY <1>2, <2>2
<1>7. /\ \A i, j \in 1..Len(outbox') : outbox'[i] = outbox'[j] => i = j
      /\ \A i \in 1..Len(outbox') :
            ~ (tries'[outbox'[i]] = 0 /\ outbox'[i] \notin RangeOf(offline'))
      /\ BufferOrder'
  BY <1>0, <1>2, <1>4, <1>5, <1>6, BufferTakesCalls
<1>8. HeldOnce'
  <2>1. 1..Len(calls') = {}
    BY <1>1
  <2>2. RangeOf(offline)' = RangeOf(offline')
    BY DEF RangeOf
  <2>3. QED
    BY <1>7, <2>1, <2>2 DEF HeldOnce, Fresh
<1>9. ReplayIsFront'
  <2>1. outbox' \in Seq(Mutations)
    BY <1>0 DEF TypeOK
  <2>2. QED
    BY <1>1, <2>1 DEF ReplayIsFront
<1>10. OfflineAssumed'
  BY <1>0, <1>1 DEF OfflineAssumed, RangeOf
<1>11. SentFirst' /\ SentInOrder'
  BY <1>0, <1>1, NothingSent
<1>12. QED
  BY <1>7, <1>8, <1>9, <1>10, <1>11 DEF OInv

\* A call leaves the pending requests.
LEMMA CallLeaves ==
    ASSUME TypeOK, HeldOnce, NEW i \in 1..Len(calls), calls' = WithoutAt(calls, i)
    PROVE  /\ \A a, b \in 1..Len(calls') : calls'[a].mut = calls'[b].mut => a = b
           /\ \A k \in 1..Len(calls') : \E j \in 1..Len(calls) : j # i /\ calls'[k] = calls[j]
<1>1. calls \in Seq(Request) /\ Len(calls) \in Nat
  BY DEF TypeOK
<1>2. /\ Len(calls') = Len(calls) - 1
      /\ \A k \in 1..Len(calls') : \E j \in 1..Len(calls) :
             j # i /\ calls'[k] = calls[j] /\ j = IF k < i THEN k ELSE k + 1
  BY <1>1, WithoutAtDistinct
<1>3. ASSUME NEW a \in 1..Len(calls'), NEW b \in 1..Len(calls'), calls'[a].mut = calls'[b].mut
      PROVE  a = b
  <2>1. PICK c \in 1..Len(calls) : c # i /\ calls'[a] = calls[c] /\ c = IF a < i THEN a ELSE a + 1
    BY <1>2
  <2>2. PICK d \in 1..Len(calls) : d # i /\ calls'[b] = calls[d] /\ d = IF b < i THEN b ELSE b + 1
    BY <1>2
  <2>3. c = d
    BY <1>3, <2>1, <2>2 DEF HeldOnce
  <2>4. QED
    BY <1>1, <1>2, <2>1, <2>2, <2>3
<1>4. QED
  BY <1>2, <1>3

\* A call is answered, or its timer fires and it joins the buffer.
LEMMA CallEndsKeepsOInv ==
    ASSUME TInv, TInv', OInv, NEW i \in 1..Len(calls),
           CallTimeout(i) \/ \E r \in responses : CallAnswered(r, i)
    PROVE  OInv'
<1>0. /\ TypeOK /\ TypeOK' /\ OfflineAssumed /\ HeldOnce /\ ReplayIsFront /\ BufferOrder
      /\ SentFirst /\ SentInOrder
  BY DEF TInv, OInv
<1>1. /\ calls' = WithoutAt(calls, i) /\ assumed \subseteq assumed'
      /\ UNCHANGED <<sent, replay, requests, running, applied, tries, offline, refused>>
  BY DEF CallTimeout, CallAnswered, wireVars, routerVars
<1>2. /\ \A a, b \in 1..Len(calls') : calls'[a].mut = calls'[b].mut => a = b
      /\ \A k \in 1..Len(calls') : \E j \in 1..Len(calls) : j # i /\ calls'[k] = calls[j]
  BY <1>0, <1>1, CallLeaves
<1>3. /\ outbox \in Seq(Mutations) /\ outbox' \in Seq(Mutations) /\ Len(outbox) \in Nat
      /\ replay \in Seq(Mutations) /\ Len(replay) \in Nat /\ calls \in Seq(Request)
  BY <1>0 DEF TypeOK
<1>4. OfflineAssumed'
  BY <1>0, <1>1 DEF OfflineAssumed, RangeOf
<1>5. SentFirst' /\ SentInOrder'
  BY <1>0, <1>1, NothingSent
<1>6. RangeOf(offline)' = RangeOf(offline) /\ RangeOf(outbox)' = RangeOf(outbox')
      /\ RangeOf(offline') = RangeOf(offline)
  BY <1>1 DEF RangeOf
<1>7. CASE CallTimeout(i)
  <2>1. calls[i].mut \in Mutations
    <3>1. calls[i] \in Request
      BY <1>3
    <3>2. QED
      BY <3>1 DEF Request
  <2>2. outbox' = Append(outbox, calls[i].mut)
    BY <1>7 DEF CallTimeout
  <2>3. /\ Len(outbox') = Len(outbox) + 1 /\ outbox'[Len(outbox) + 1] = calls[i].mut
        /\ \A k \in 1..Len(outbox) : outbox'[k] = outbox[k]
    BY <1>3, <2>1, <2>2
  <2>4. \A k \in 1..Len(outbox') : k > Len(outbox) => k = Len(outbox) + 1
    BY <1>3, <2>3
  <2>5. /\ \A a, b \in 1..Len(outbox') : outbox'[a] = outbox'[b] => a = b
        /\ \A a \in 1..Len(outbox') :
              ~ (tries'[outbox'[a]] = 0 /\ outbox'[a] \notin RangeOf(offline'))
        /\ BufferOrder'
    <3>1. Len(outbox) <= Len(outbox')
      BY <1>3, <2>3
    <3>2. \A k \in 1..Len(outbox') : k > Len(outbox) =>
               \E c \in 1..Len(calls) : outbox'[k] = calls[c].mut
      BY <2>3, <2>4
    <3>3. \A k, n \in 1..Len(outbox') :
               k > Len(outbox) /\ n > Len(outbox) /\ outbox'[k] = outbox'[n] => k = n
      BY <2>4
    <3>4. QED
      BY <1>0, <1>1, <2>3, <3>1, <3>2, <3>3, BufferTakesCalls
  <2>6. RangeOf(outbox') = RangeOf(outbox) \cup {calls[i].mut}
    BY <1>3, <2>1, <2>2, AppendRange
  <2>7. \A k \in 1..Len(calls') : /\ calls'[k].mut \notin RangeOf(outbox') \cup RangeOf(offline)
                                  /\ tries[calls'[k].mut] > 0
    <3>1. SUFFICES ASSUME NEW k \in 1..Len(calls')
                   PROVE  /\ calls'[k].mut \notin RangeOf(outbox') \cup RangeOf(offline)
                          /\ tries[calls'[k].mut] > 0
      OBVIOUS
    <3>2. PICK j \in 1..Len(calls) : j # i /\ calls'[k] = calls[j]
      BY <1>2
    <3>3. QED
      BY <1>0, <2>6, <3>2 DEF HeldOnce
  <2>8. HeldOnce'
    BY <1>1, <1>2, <1>6, <2>5, <2>7 DEF HeldOnce, Fresh
  <2>9. ReplayIsFront'
    BY <1>0, <1>1, <1>3, <2>3 DEF ReplayIsFront
  <2>10. QED
    BY <1>4, <1>5, <2>5, <2>8, <2>9 DEF OInv
<1>8. ASSUME NEW r \in responses, CallAnswered(r, i) PROVE OInv'
  <2>1. outbox' = outbox
    BY <1>8 DEF CallAnswered
  <2>2. \A k \in 1..Len(calls') : /\ calls'[k].mut \notin RangeOf(outbox) \cup RangeOf(offline)
                                  /\ tries[calls'[k].mut] > 0
    BY <1>0, <1>2 DEF HeldOnce
  <2>3. /\ \A a, b \in 1..Len(outbox) : outbox[a] = outbox[b] => a = b
        /\ \A a \in 1..Len(outbox) : ~ (tries[outbox[a]] = 0 /\ outbox[a] \notin RangeOf(offline))
    BY <1>0 DEF HeldOnce, Fresh
  <2>4. RangeOf(outbox)' = RangeOf(outbox)
    BY <2>1 DEF RangeOf
  <2>5. HeldOnce'
    BY <1>1, <1>2, <1>6, <2>1, <2>2, <2>3, <2>4 DEF HeldOnce, Fresh
  <2>6. ReplayIsFront'
    BY <1>0, <1>1, <2>1 DEF ReplayIsFront
  <2>7. BufferOrder'
    BY <1>0, <1>1, <2>1 DEF BufferOrder
  <2>8. QED
    BY <1>4, <1>5, <2>5, <2>6, <2>7 DEF OInv
<1>9. QED
  BY <1>7, <1>8

\* The replay sends its next entry, after a reconnect or an answer.
LEMMA ReplayKeepsOInv ==
    ASSUME TInv, TInv', IInv, IInv', OInv, Reconnect \/ \E r \in responses : ReplayAnswered(r)
    PROVE  OInv'
<1>0. /\ TypeOK /\ TypeOK' /\ AssumedNotLost' /\ OfflineAssumed /\ HeldOnce /\ ReplayIsFront
      /\ BufferOrder /\ SentFirst /\ SentInOrder
  BY DEF TInv, IInv, OInv
<1>1. UNCHANGED <<calls, running, applied, assumed, offline, refused>>
  BY DEF Reconnect, ReplayAnswered, routerVars
<1>2. /\ outbox \in Seq(Mutations) /\ Len(outbox) \in Nat /\ outbox' \in Seq(Mutations)
      /\ replay \in Seq(Mutations) /\ Len(replay) \in Nat /\ tries' \in [Mutations -> Nat]
      /\ calls \in Seq(Request) /\ tries \in [Mutations -> Nat]
  BY <1>0 DEF TypeOK
<1>3. OfflineAssumed'
  BY <1>0, <1>1 DEF OfflineAssumed, RangeOf
<1>4. PICK rest \in Seq(Mutations) :
          /\ ReplayRest(rest) /\ Len(rest) <= Len(outbox')
          /\ \A k \in 1..Len(rest) : rest[k] = outbox'[k]
          /\ \/ outbox' = outbox
             \/ /\ Len(outbox') = Len(outbox) - 1
                /\ \A k \in 1..(Len(outbox) - 1) : outbox'[k] = outbox[k + 1]
  <2>1. CASE Reconnect
    <3>1. ReplayRest(outbox) /\ outbox' = outbox
      BY <2>1 DEF Reconnect
    <3>2. Len(outbox) <= Len(outbox') /\ \A k \in 1..Len(outbox) : outbox[k] = outbox'[k]
      BY <1>2, <3>1
    <3>3. QED
      BY <1>2, <3>1, <3>2
  <2>2. ASSUME NEW r \in responses, ReplayAnswered(r)
        PROVE  /\ ReplayRest(Tail(replay)) /\ Tail(replay) \in Seq(Mutations)
               /\ Len(Tail(replay)) <= Len(outbox')
               /\ \A k \in 1..Len(Tail(replay)) : Tail(replay)[k] = outbox'[k]
               /\ Len(outbox') = Len(outbox) - 1
               /\ \A k \in 1..(Len(outbox) - 1) : outbox'[k] = outbox[k + 1]
    <3>1. /\ r.req \in sent /\ ReplayRest(Tail(replay))
          /\ outbox' = RemoveOutboundEntry(outbox, r.req.mut)
      BY <2>2 DEF ReplayAnswered
    <3>2. /\ replay # <<>> /\ r.req.mut = replay[1] /\ Len(replay) <= Len(outbox)
          /\ \A k \in 1..Len(replay) : replay[k] = outbox[k]
      BY <1>0, <3>1 DEF ReplayIsFront
    <3>3. /\ Tail(replay) \in Seq(Mutations) /\ Len(Tail(replay)) = Len(replay) - 1
          /\ Len(replay) >= 1
          /\ \A k \in 1..(Len(replay) - 1) : Tail(replay)[k] = replay[k + 1]
      BY <1>2, <3>2
    <3>4. outbox # <<>> /\ r.req.mut = outbox[1]
      BY <1>2, <3>2, <3>3
    <3>5. \A a, b \in 1..Len(outbox) : outbox[a] = outbox[b] => a = b
      BY <1>0 DEF HeldOnce
    <3>6. /\ Len(outbox') = Len(outbox) - 1
          /\ \A k \in 1..(Len(outbox) - 1) : outbox'[k] = outbox[k + 1]
      <4> DEFINE t == RemoveOutboundEntry(outbox, outbox[1])
      <4>1. outbox' = t
        BY <3>1, <3>4
      <4>2. /\ Len(t) = Len(outbox) - 1
            /\ \A k \in 1..(Len(outbox) - 1) : t[k] = outbox[k + 1]
        BY <1>2, <3>4, <3>5, RemoveFirst
      <4>3. QED
        BY <4>1, <4>2
    <3>7. ASSUME NEW k \in 1..Len(Tail(replay)) PROVE Tail(replay)[k] = outbox'[k]
      <4>1. /\ k \in 1..(Len(replay) - 1) /\ k + 1 \in 1..Len(replay)
            /\ k \in 1..(Len(outbox) - 1)
        BY <1>2, <3>2, <3>3
      <4>2. QED
        BY <3>2, <3>3, <3>6, <4>1
    <3>8. Len(Tail(replay)) <= Len(outbox')
      BY <1>2, <3>2, <3>3, <3>6
    <3>9. QED
      BY <3>1, <3>3, <3>6, <3>7, <3>8
  <2>3. QED
    BY <2>1, <2>2
<1>5. \A k \in 1..Len(outbox') : \E j \in 1..Len(outbox) :
          outbox'[k] = outbox[j] /\ (IF outbox' = outbox THEN j = k ELSE j = k + 1)
  <2>1. CASE outbox' = outbox
    BY <2>1
  <2>2. CASE outbox' # outbox
    <3>1. /\ Len(outbox') = Len(outbox) - 1
          /\ \A k \in 1..(Len(outbox) - 1) : outbox'[k] = outbox[k + 1]
      BY <1>4, <2>2
    <3>2. SUFFICES ASSUME NEW k \in 1..Len(outbox')
                   PROVE  k + 1 \in 1..Len(outbox) /\ outbox'[k] = outbox[k + 1]
      BY <2>2
    <3>3. QED
      BY <1>2, <3>1
  <2>3. QED
    BY <2>1, <2>2
<1>6. BufferOrder'
  <2>1. SUFFICES ASSUME NEW p \in 1..Len(outbox'), NEW q \in 1..Len(outbox'),
                        NEW i \in 1..Len(offline'), NEW j \in 1..Len(offline'),
                        outbox'[p] = offline'[i], outbox'[q] = offline'[j], i < j
                 PROVE  p < q
    BY DEF BufferOrder
  <2>2. PICK a \in 1..Len(outbox) :
            outbox'[p] = outbox[a] /\ (IF outbox' = outbox THEN a = p ELSE a = p + 1)
    BY <1>5
  <2>3. PICK b \in 1..Len(outbox) :
            outbox'[q] = outbox[b] /\ (IF outbox' = outbox THEN b = q ELSE b = q + 1)
    BY <1>5
  <2>4. a < b
    BY <1>0, <1>1, <2>1, <2>2, <2>3 DEF BufferOrder
  <2>5. a \in Nat /\ b \in Nat /\ p \in Nat /\ q \in Nat
    OBVIOUS
  <2>6. QED
    BY <2>2, <2>3, <2>4, <2>5
<1>7. /\ SentFirst' /\ SentInOrder' /\ ReplayIsFront'
      /\ \A x \in Mutations : tries[x] > 0 => tries'[x] > 0
  BY <1>0, <1>1, <1>3, <1>4, <1>6, ReplayKeepsOrder
<1>8. HeldOnce'
  <2>1. \A a, b \in 1..Len(outbox') : outbox'[a] = outbox'[b] => a = b
    <3>1. SUFFICES ASSUME NEW p \in 1..Len(outbox'), NEW q \in 1..Len(outbox'),
                          outbox'[p] = outbox'[q]
                   PROVE  p = q
      OBVIOUS
    <3>2. PICK a \in 1..Len(outbox) :
              outbox'[p] = outbox[a] /\ (IF outbox' = outbox THEN a = p ELSE a = p + 1)
      BY <1>5
    <3>3. PICK b \in 1..Len(outbox) :
              outbox'[q] = outbox[b] /\ (IF outbox' = outbox THEN b = q ELSE b = q + 1)
      BY <1>5
    <3>4. a = b
      BY <1>0, <3>1, <3>2, <3>3 DEF HeldOnce
    <3>5. QED
      BY <3>2, <3>3, <3>4
  <2>2. RangeOf(outbox)' \subseteq RangeOf(outbox) /\ RangeOf(offline)' = RangeOf(offline)
    BY <1>1, <1>5 DEF RangeOf
  <2>3. \A k \in 1..Len(outbox') : ~ (tries'[outbox'[k]] = 0 /\ outbox'[k] \notin RangeOf(offline))
    <3>1. SUFFICES ASSUME NEW k \in 1..Len(outbox')
                   PROVE  tries'[outbox'[k]] # 0 \/ outbox'[k] \in RangeOf(offline)
      OBVIOUS
    <3>2. PICK j \in 1..Len(outbox) : outbox'[k] = outbox[j]
      BY <1>5
    <3>3. outbox[j] \in Mutations
      BY <1>2
    <3>4. tries[outbox[j]] # 0 \/ outbox[j] \in RangeOf(offline)
      BY <1>0 DEF HeldOnce, Fresh
    <3>5. tries[outbox[j]] \in Nat /\ (tries[outbox[j]] > 0 => tries'[outbox[j]] > 0)
      BY <1>2, <1>7, <3>3
    <3>6. QED
      BY <3>2, <3>4, <3>5
  <2>4. \A k \in 1..Len(calls) : /\ calls[k].mut \notin RangeOf(outbox) \cup RangeOf(offline)
                                 /\ tries'[calls[k].mut] > 0
    <3>1. SUFFICES ASSUME NEW k \in 1..Len(calls)
                   PROVE  /\ calls[k].mut \notin RangeOf(outbox) \cup RangeOf(offline)
                          /\ tries'[calls[k].mut] > 0
      OBVIOUS
    <3>2. calls[k] \in Request
      BY <1>2
    <3>3. calls[k].mut \in Mutations
      BY <3>2 DEF Request
    <3>4. QED
      BY <1>0, <1>7, <3>3 DEF HeldOnce
  <2>5. \A a, b \in 1..Len(calls) : calls[a].mut = calls[b].mut => a = b
    BY <1>0 DEF HeldOnce
  <2>6. calls' = calls
    BY <1>1
  <2>7. QED
    BY <2>1, <2>2, <2>3, <2>4, <2>5, <2>6 DEF HeldOnce, Fresh
<1>9. QED
  BY <1>3, <1>6, <1>7, <1>8 DEF OInv

\* The other steps of the device: nothing is sent and the buffer stays.
LEMMA QuietKeepsOInv ==
    ASSUME TypeOK', OInv,
           UNCHANGED <<outbox, tries, assumed, offline, applied, refused>>,
           requests' \subseteq requests, running' \subseteq running,
           \/ UNCHANGED <<calls, sent, replay>>
           \/ (calls' = calls \/ calls' = <<>>) /\ sent' = {} /\ replay' = <<>>
    PROVE  OInv'
<1>0. /\ OfflineAssumed /\ HeldOnce /\ ReplayIsFront /\ BufferOrder /\ SentFirst /\ SentInOrder
  BY DEF OInv
<1>1. OfflineAssumed'
  BY <1>0 DEF OfflineAssumed, RangeOf
<1>2. BufferOrder'
  BY <1>0 DEF BufferOrder
<1>3. SentFirst' /\ SentInOrder'
  BY <1>0, NothingSent
<1>4. HeldOnce'
  <2>1. calls' = calls \/ 1..Len(calls') = {}
    OBVIOUS
  <2>2. RangeOf(outbox)' = RangeOf(outbox) /\ RangeOf(offline)' = RangeOf(offline)
    BY DEF RangeOf
  <2>3. QED
    BY <1>0, <2>1, <2>2 DEF HeldOnce, Fresh
<1>5. ReplayIsFront'
  <2>1. CASE UNCHANGED <<calls, sent, replay>>
    BY <1>0, <2>1 DEF ReplayIsFront
  <2>2. CASE sent' = {} /\ replay' = <<>>
    <3>1. outbox' \in Seq(Mutations)
      BY DEF TypeOK
    <3>2. QED
      BY <2>2, <3>1 DEF ReplayIsFront
  <2>3. QED
    BY <2>1, <2>2
<1>6. QED
  BY <1>1, <1>2, <1>3, <1>4, <1>5 DEF OInv

\* Every step keeps the order.
LEMMA NextKeepsOInv ==
    ASSUME TInv, TInv', IInv, IInv', OInv, [Next]_vars
    PROVE  OInv'
<1>0. TypeOK'
  BY DEF TInv
<1>1. ASSUME NEW m \in Mutations, CallOnline(m) \/ CallOffline(m) PROVE OInv'
  BY <1>1, CallKeepsOInv
<1>2. CASE Reconnect
  BY <1>2, ReplayKeepsOInv
<1>3. CASE Disconnect \/ RouterRestart
  <2>1. RejectAllPending /\ UNCHANGED <<applied, tries, offline, refused>> /\ running' \subseteq running
    BY <1>3 DEF Disconnect, RouterRestart, routerVars
  <2>2. QED
    BY <2>1, RejectKeepsOInv
<1>4. CASE Crash \/ Start \/ PurgeRecords \/ UNCHANGED vars
  <2>1. /\ UNCHANGED <<outbox, tries, assumed, offline, applied, refused, running>>
        /\ requests' \subseteq requests
        /\ \/ UNCHANGED <<calls, sent, replay>>
           \/ calls' = <<>> /\ sent' = {} /\ replay' = <<>>
    BY <1>4 DEF Crash, Start, PurgeRecords, vars, deviceVars, wireVars, routerVars
  <2>2. QED
    BY <1>0, <2>1, QuietKeepsOInv
<1>5. ASSUME NEW r \in responses, NEW i \in 1..Len(calls), CallAnswered(r, i) PROVE OInv'
  BY <1>5, CallEndsKeepsOInv
<1>6. ASSUME NEW r \in responses, ReplayAnswered(r) PROVE OInv'
  BY <1>6, ReplayKeepsOInv
<1>7. ASSUME NEW r \in responses, StrayResponse(r) PROVE OInv'
  <2>1. UNCHANGED <<outbox, tries, assumed, offline, applied, refused, running, requests, calls,
                    sent, replay>>
    BY <1>7 DEF StrayResponse, deviceVars, routerVars
  <2>2. QED
    BY <1>0, <2>1, QuietKeepsOInv
<1>8. ASSUME NEW i \in 1..Len(calls), CallTimeout(i) PROVE OInv'
  BY <1>8, CallEndsKeepsOInv
<1>9. ASSUME NEW q \in sent, ReplayTimeout(q) PROVE OInv'
  <2>1. /\ UNCHANGED <<outbox, tries, assumed, offline, applied, refused, running, requests, calls>>
        /\ sent' = {} /\ replay' = <<>>
    BY <1>9 DEF ReplayTimeout, wireVars, routerVars
  <2>2. QED
    BY <1>0, <2>1, QuietKeepsOInv
<1>10. CASE DispatchStep
  BY <1>10, DispatchKeepsOInv
<1>11. QED
  BY <1>1, <1>2, <1>3, <1>4, <1>5, <1>6, <1>7, <1>8, <1>9, <1>10 DEF Next, DeviceStep, AnswerStep

\* Calls made with no connection are performed in the order they were made, for any
\* calls and any number of drops, timeouts, crashes and restarts: the replay sends
\* one entry at a time from the front of the buffer, so an offline call is sent only
\* when each earlier one was performed or refused.
THEOREM OfflineCallsInOrder == Spec => []OfflineOrder
<1>1. TInv /\ OInv => OfflineOrder
  <2>1. SUFFICES ASSUME TInv, OInv, NEW i \in 1..Len(offline), NEW j \in 1..Len(offline),
                        i < j, applied[offline[j]] > 0
                 PROVE  applied[offline[i]] > 0 \/ offline[i] \in refused
    BY DEF OfflineOrder
  <2>2. offline \in Seq(Mutations)
    BY <2>1 DEF TInv, TypeOK
  <2>3. offline[j] \in Mutations
    BY <2>2
  <2>4. tries[offline[j]] > 0
    BY <2>1, <2>3 DEF OInv, SentFirst
  <2>5. QED
    BY <2>1, <2>4 DEF OInv, SentInOrder, Done
<1>2. QED
  BY InitOInv, TInvHolds, IInvHolds, NextKeepsOInv, <1>1, PTL DEF Spec

=============================================================================
