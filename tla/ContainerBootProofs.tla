------------------------- MODULE ContainerBootProofs -------------------------
(***************************************************************************)
(* Proofs about boots on demand, for any number of calls, join rounds,     *)
(* timeouts, stops and failed inspects: a call that returns ok has seen    *)
(* the container up, and a lone executor call leaves the container with    *)
(* the token the store holds.                                              *)
(***************************************************************************)
EXTENDS ContainerBoot, TLAPS

---------------------------------------------------------------------------
(* The inductive invariant *)

\* A call that has not been made has no result, and has seen nothing.
IdleIsFresh ==
    \A c \in Calls : pc[c] = "idle" => result[c] = "none" /\ c \notin seenUp

\* A call that has returned, or is about to, was served.
ServedHasSeen == \A c \in Calls : result[c] = "ok" => c \in seenUp

\* Nothing has gone between the executor's calls so far.
Undisturbed == ~ overlapped /\ misreads = 0

\* A container of an earlier image that a docker rm -f did not remove.
Survivor == container.old /\ container.kept

\* Then one call at most is in the executor; past its inspect there is no
\* container but the one it will make, with the token it has just rotated to,
\* or a survivor, over which it cannot make one.
LoneExecutor ==
    Undisturbed =>
        /\ \A c, d \in InExecutor : c = d
        /\ \A c \in Calls : pc[c] \in {"volume", "run"} => container.st = "absent" \/ Survivor
        /\ \A c \in Calls : pc[c] = "run" => minted[c] = token
        /\ \A c \in Calls : pc[c] = "replace" => container.st = "absent" \/ container.old
        /\ container.st # "absent" => container.token = token \/ Survivor

IInv == TypeOK /\ IdleIsFresh /\ ServedHasSeen /\ LoneExecutor

---------------------------------------------------------------------------
(* Types *)

LEMMA InitInv == Init => IInv
<1>1. SUFFICES ASSUME Init PROVE IInv
  OBVIOUS
<1>2. container \in Containers /\ (container.st # "absent" => container.token = token)
  <2>1. CASE container = Absent
    BY <2>1 DEF Containers, Absent
  <2>2. CASE container \in [st : {"stopped", "running"}, token : {1}, old : BOOLEAN, kept : {FALSE}]
    <3>1. container \in Containers
      BY <2>2, 1 \in Nat, Zenon DEF Containers
    <3>2. QED
      BY <1>1, <2>2, <3>1 DEF Init
  <2>3. QED
    BY <1>1, <2>1, <2>2 DEF Init
<1>3. TypeOK
  <2>1. 0 \in 0 .. MaxBootJoins /\ 1 \in Nat /\ 0 \in Nat
    BY BoundsAssumption
  <2>2. QED
    BY <1>1, <1>2, <2>1, CallsAssumption DEF Init, TypeOK, Steps
<1>4. IdleIsFresh /\ ServedHasSeen
  BY <1>1 DEF Init, IdleIsFresh, ServedHasSeen
<1>5. LoneExecutor
  BY <1>1, <1>2 DEF Init, LoneExecutor, InExecutor, Executing, Survivor
<1>6. QED
  BY <1>3, <1>4, <1>5 DEF IInv

\* An attempt moves on to another of its steps.
LEMMA MoveTypes ==
    ASSUME TypeOK, NEW c \in Calls, NEW x \in Attempting, pc' = [pc EXCEPT ![c] = x],
           container' \in Containers, result' \in [Calls -> {"none", "ok", "failed"}],
           notified' \in BOOLEAN, misreads' \in Nat, seenUp' \subseteq Calls,
           UNCHANGED <<row, token, slot, joins, target, minted, aged, overlapped, stops>>
    PROVE  TypeOK'
<1>1. pc' \in [Calls -> Steps]
  BY DEF TypeOK, Steps
<1>2. \A d \in Calls : pc'[d] = "joining" => target'[d] \in Calls
  BY DEF TypeOK, Attempting, Executing
<1>3. QED
  BY <1>1, <1>2 DEF TypeOK

\* ... with its result settled, or not.
LEMMA OutcomeTypes ==
    ASSUME TypeOK, NEW c \in Calls, Succeeds(c) \/ Fails(c), container' \in Containers,
           misreads' \in Nat, seenUp' \subseteq Calls,
           UNCHANGED <<row, token, slot, joins, target, minted, aged, overlapped, stops>>
    PROVE  TypeOK'
<1>1. CASE Succeeds(c)
  <2>1. result' \in [Calls -> {"none", "ok", "failed"}] /\ notified' \in BOOLEAN
    BY <1>1 DEF Succeeds, TypeOK
  <2>2. pc' = [pc EXCEPT ![c] = "settling"] /\ "settling" \in Attempting
    BY <1>1 DEF Succeeds, Attempting
  <2>3. QED
    BY <2>1, <2>2, MoveTypes
<1>2. CASE Fails(c)
  <2>1. result' \in [Calls -> {"none", "ok", "failed"}] /\ notified' \in BOOLEAN
    BY <1>2 DEF Fails, TypeOK
  <2>2. pc' = [pc EXCEPT ![c] = "failed"] /\ "failed" \in Attempting
    BY <1>2 DEF Fails, Attempting
  <2>3. QED
    BY <2>1, <2>2, MoveTypes
<1>3. QED
  BY <1>1, <1>2

\* Each step of a call keeps the types, and moves that call to a step it has
\* been made for.
LEMMA CallTypes ==
    ASSUME TypeOK, NEW c \in Calls, CallStep(c), seenUp' \subseteq Calls
    PROVE  TypeOK'
<1> USE DEF TypeOK, Steps, Attempting, Executing
<1>1. CASE Boot(c)
  BY <1>1, CallsAssumption, BoundsAssumption DEF Boot, JoinOrStart, StartAttempt
<1>2. CASE Joined(c)
  BY <1>2 DEF Joined
<1>3. CASE CheckRunning(c)
  BY <1>3, CallsAssumption, BoundsAssumption DEF CheckRunning, JoinOrStart, StartAttempt
<1>4. CASE Settle(c)
  BY <1>4, CallsAssumption DEF Settle, SettleSlot
<1>5. CASE BuildEnv(c)
  BY <1>5 DEF BuildEnv, Fails
<1>6. CASE Inspect(c)
  <2>1. /\ container' \in Containers /\ misreads' \in Nat
        /\ UNCHANGED <<row, token, slot, joins, target, minted, aged, overlapped, stops>>
    BY <1>6 DEF Inspect
  <2>2. CASE Succeeds(c)
    BY <2>1, <2>2, OutcomeTypes
  <2>3. CASE /\ \E x \in {"start", "replace", "volume"} : pc' = [pc EXCEPT ![c] = x]
             /\ UNCHANGED <<result, notified>>
    BY <2>1, <2>3, MoveTypes
  <2>4. QED
    BY <1>6, <2>2, <2>3 DEF Inspect
<1>7. CASE DockerStart(c)
  <2>1. container' \in Containers
    BY <1>7 DEF DockerStart, Containers
  <2>2. QED
    BY <1>7, <2>1, OutcomeTypes DEF DockerStart
<1>8. CASE DockerReplace(c)
  <2>1. Absent \in Containers /\ [container EXCEPT !.kept = TRUE] \in Containers
    BY DEF Absent, Containers
  <2>2. container' \in Containers
    BY <1>8, <2>1 DEF DockerReplace
  <2>3. QED
    BY <1>8, <2>2 DEF DockerReplace
<1>9. CASE CreateVolume(c)
  BY <1>9 DEF CreateVolume, Fails, Mint
<1>10. CASE DockerRun(c)
  <2>1. container' \in Containers
    <3>1. minted[c] \in Nat
      OBVIOUS
    <3>2. \A x \in {"running", "stopped"} :
             Made(x, minted[c]) \in Containers
      BY <3>1 DEF Containers, Made
    <3>3. QED
      BY <1>10, <3>2 DEF DockerRun
  <2>2. QED
    BY <1>10, <2>1, OutcomeTypes DEF DockerRun
<1>11. CASE BootFailed(c)
  <2>1. /\ result' \in [Calls -> {"none", "ok", "failed"}] /\ notified' \in BOOLEAN
        /\ \E x \in {"posting", "settling"} : pc' = [pc EXCEPT ![c] = x]
    BY <1>11 DEF BootFailed
  <2>2. QED
    BY <1>11, <2>1, MoveTypes DEF BootFailed
<1>12. CASE NoticePosted(c)
  BY <1>12 DEF NoticePosted
<1>13. CASE AttemptAges(c)
  BY <1>13 DEF AttemptAges, callVars
<1>14. QED
  BY <1>1, <1>2, <1>3, <1>4, <1>5, <1>6, <1>7, <1>8, <1>9, <1>10, <1>11, <1>12, <1>13 DEF CallStep

---------------------------------------------------------------------------
(* What a call's step does to the calls and to the executor *)

\* No call goes back to not being made, and ok comes with a running container.
LEMMA CallResults ==
    ASSUME TypeOK, NEW c \in Calls, CallStep(c), NEW d \in Calls
    PROVE  /\ pc'[d] = "idle" => pc[d] = "idle" /\ result'[d] = result[d]
           /\ result'[d] = "ok" => \/ result[d] = "ok"
                                   \/ container'.st = "running" /\ pc'[d] # "idle"
<1> USE DEF TypeOK
<1>1. CASE Boot(c)
  BY <1>1 DEF Boot, JoinOrStart, StartAttempt
<1>2. CASE Joined(c)
  BY <1>2 DEF Joined
<1>3. CASE CheckRunning(c)
  BY <1>3 DEF CheckRunning, JoinOrStart, StartAttempt
<1>4. CASE Settle(c)
  BY <1>4 DEF Settle
<1>5. CASE BuildEnv(c)
  BY <1>5 DEF BuildEnv, Fails
<1>6. CASE Inspect(c)
  BY <1>6 DEF Inspect, Fails, Succeeds
<1>7. CASE DockerStart(c)
  BY <1>7 DEF DockerStart, Fails, Succeeds, Containers
<1>8. CASE DockerReplace(c)
  BY <1>8 DEF DockerReplace
<1>9. CASE CreateVolume(c)
  BY <1>9 DEF CreateVolume, Fails
<1>10. CASE DockerRun(c)
  BY <1>10 DEF DockerRun, Fails, Succeeds, Made
<1>11. CASE BootFailed(c)
  BY <1>11 DEF BootFailed
<1>12. CASE NoticePosted(c)
  BY <1>12 DEF NoticePosted
<1>13. CASE AttemptAges(c)
  BY <1>13 DEF AttemptAges, callVars
<1>14. QED
  BY <1>1, <1>2, <1>3, <1>4, <1>5, <1>6, <1>7, <1>8, <1>9, <1>10, <1>11, <1>12, <1>13 DEF CallStep

\* A call's step keeps the executor to one call, as long as nothing disturbs it.
LEMMA CallLone ==
    ASSUME TypeOK, LoneExecutor, NEW c \in Calls, CallStep(c)
    PROVE  LoneExecutor'
<1> USE DEF TypeOK, LoneExecutor, Undisturbed, InExecutor, Executing, Survivor
<1>1. CASE Boot(c)
  BY <1>1 DEF Boot, JoinOrStart, StartAttempt
<1>2. CASE Joined(c)
  BY <1>2 DEF Joined
<1>3. CASE CheckRunning(c)
  BY <1>3 DEF CheckRunning, JoinOrStart, StartAttempt
<1>4. CASE Settle(c)
  BY <1>4 DEF Settle
<1>5. CASE BuildEnv(c)
  <2>1. /\ \/ pc' = [pc EXCEPT ![c] = "inspect"] /\ (overlapped' \/ InExecutor = {})
           \/ pc' = [pc EXCEPT ![c] = "failed"]
        /\ overlapped => overlapped'
        /\ UNCHANGED <<container, token, minted, misreads>>
    BY <1>5, Zenon DEF BuildEnv, Fails
  <2>2. Survivor' = Survivor
    BY <2>1, Zenon DEF Survivor
  <2> HIDE DEF Survivor
  <2>3. QED
    BY <2>1, <2>2
<1>6. CASE Inspect(c)
  BY <1>6 DEF Inspect, Fails, Succeeds
<1>7. CASE DockerStart(c)
  BY <1>7 DEF DockerStart, Fails, Succeeds, Containers
<1>8. CASE DockerReplace(c)
  BY <1>8 DEF DockerReplace, Absent, Containers
<1>9. CASE CreateVolume(c)
  BY <1>9 DEF CreateVolume, Fails, Mint
<1>10. CASE DockerRun(c)
  BY <1>10 DEF DockerRun, Fails, Succeeds, Made
<1>11. CASE BootFailed(c)
  BY <1>11 DEF BootFailed
<1>12. CASE NoticePosted(c)
  BY <1>12 DEF NoticePosted
<1>13. CASE AttemptAges(c)
  BY <1>13 DEF AttemptAges, callVars
<1>14. QED
  BY <1>1, <1>2, <1>3, <1>4, <1>5, <1>6, <1>7, <1>8, <1>9, <1>10, <1>11, <1>12, <1>13 DEF CallStep

---------------------------------------------------------------------------
(* The theorems *)

\* Stops, destroys and row deletions by others touch no call.
LEMMA OtherSteps ==
    ASSUME TypeOK, LoneExecutor, IdleStop \/ Destroy \/ DeleteRow, seenUp' \subseteq Calls
    PROVE  TypeOK' /\ LoneExecutor' /\ UNCHANGED <<pc, result>>
<1>1. CASE IdleStop
  <2>1. /\ container' \in Containers /\ container'.token = container.token
        /\ container'.old = container.old /\ container'.kept = container.kept
    BY <1>1 DEF IdleStop, TypeOK, Containers
  <2>2. TypeOK'
    BY <1>1, <2>1 DEF IdleStop, TypeOK, callVars
  <2>3. LoneExecutor'
    BY <1>1, <2>1 DEF IdleStop, LoneExecutor, Undisturbed, InExecutor, callVars, Survivor
  <2>4. QED
    BY <1>1, <2>2, <2>3 DEF IdleStop, callVars
<1>2. CASE Destroy
  <2>1. container' \in Containers /\ container'.st = "absent"
    BY <1>2 DEF Destroy, Absent, Containers
  <2>2. TypeOK'
    BY <1>2, <2>1 DEF Destroy, TypeOK, callVars
  <2>3. LoneExecutor'
    BY <1>2, <2>1 DEF Destroy, LoneExecutor, Undisturbed, InExecutor, callVars, Survivor
  <2>4. QED
    BY <1>2, <2>2, <2>3 DEF Destroy, callVars
<1>3. CASE DeleteRow
  <2>1. TypeOK'
    <3>1. row' \in BOOLEAN
      BY <1>3, Zenon DEF DeleteRow
    <3>2. stops' \in Nat
      BY <1>3 DEF DeleteRow, TypeOK
    <3>3. UNCHANGED <<token, slot, notified, callVars, aged, container, overlapped, misreads>>
      BY <1>3 DEF DeleteRow
    <3>4. QED
      BY <3>1, <3>2, <3>3 DEF TypeOK, callVars
  <2>2. LoneExecutor'
    BY <1>3 DEF DeleteRow, LoneExecutor, Undisturbed, InExecutor, callVars, Survivor
  <2>3. QED
    BY <1>3, <2>1, <2>2 DEF DeleteRow, callVars
<1>4. QED
  BY <1>1, <1>2, <1>3

LEMMA NextInv == IInv /\ [Next]_vars => IInv'
<1>1. SUFFICES ASSUME IInv, [Next]_vars PROVE IInv'
  OBVIOUS
<1>2. CASE UNCHANGED vars
  BY <1>1, <1>2 DEF vars, callVars, IInv, TypeOK, IdleIsFresh, ServedHasSeen, LoneExecutor,
                    Undisturbed, InExecutor, Survivor
<1>3. CASE Next
  <2>1. seenUp' = {c \in Calls : pc'[c] # "idle" /\ (c \in seenUp \/ container'.st = "running")}
    BY <1>3 DEF Next, Observe
  <2>2. /\ TypeOK' /\ LoneExecutor'
        /\ \A d \in Calls :
              /\ pc'[d] = "idle" => pc[d] = "idle" /\ result'[d] = result[d]
              /\ result'[d] = "ok" => \/ result[d] = "ok"
                                      \/ container'.st = "running" /\ pc'[d] # "idle"
    <3>1. CASE \E c \in Calls : CallStep(c)
      BY <1>1, <2>1, <3>1, CallTypes, CallLone, CallResults DEF IInv
    <3>2. CASE IdleStop \/ Destroy \/ DeleteRow
      BY <1>1, <2>1, <3>2, OtherSteps DEF IInv
    <3>3. QED
      BY <1>3, <3>1, <3>2 DEF Next
  <2>3. IdleIsFresh'
    BY <1>1, <2>1, <2>2 DEF IInv, IdleIsFresh
  <2>4. ServedHasSeen'
    BY <1>1, <2>1, <2>2 DEF IInv, IdleIsFresh, ServedHasSeen
  <2>5. QED
    BY <2>2, <2>3, <2>4 DEF IInv
<1>4. QED
  BY <1>1, <1>2, <1>3

\* In every behaviour of bootStart, bootInner and ensureRunning the state keeps its
\* types, ok is returned only by calls that saw the container up, and a lone
\* executor call leaves no container with an older token.
THEOREM Invariant == Spec => []IInv
<1>1. QED
  BY InitInv, NextInv, PTL DEF Spec

\* bootStart returns ok to no caller whose container has not run since it asked:
\* not one that joined an attempt which failed, was overtaken, or whose
\* container was stopped or destroyed before it looked.
THEOREM OkMeansItRan == Spec => []BootNotDropped
<1>1. IInv => BootNotDropped
  BY DEF IInv, ServedHasSeen, BootNotDropped
<1>2. QED
  BY <1>1, Invariant, PTL

\* ensureRunning leaves the container with the token whose hash the row holds,
\* in any order of boots, replacements, failed runs, stops and destroys, unless
\* two executor calls overlapped, an inspect misread the container, or the
\* container is of an earlier image and its removal failed.
THEOREM ContainerCanAuthenticate == Spec => []TokenMatches
<1>1. IInv => TokenMatches
  BY DEF IInv, LoneExecutor, Undisturbed, Survivor, TokenMatches
<1>2. QED
  BY <1>1, Invariant, PTL
=============================================================================
