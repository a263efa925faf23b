--------------------------- MODULE AgentSessions ---------------------------
(***************************************************************************)
(* One agent session on a worker: AgentSessionManager's terminal path and  *)
(* one-shot, EdgeWorker's handling of prompts, stops and restarts, and the *)
(* runners it starts through the semaphore of RunnerConcurrency, shared    *)
(* with the starts of other sessions.                                      *)
(*                                                                         *)
(* The router is reduced to the one fact it keeps about the session: that  *)
(* it is pinned to this worker (affinity and issue lock).  A prompt pins   *)
(* it, a terminal frame releases it, and so does the declaration of live   *)
(* sessions in the hello frame when it leaves the session out.             *)
(***************************************************************************)
EXTENDS RunnerConcurrency

CONSTANTS
    MaxEvents,  \* bound on prompts, stop attempts that are blocked, background
                \* tasks, saves for other sessions and saves that fail, together
    MaxResults, \* bound on result messages that wait to be processed
    MaxMishaps  \* bound on stop signals, deaths of the process, turns that fail,
                \* runners that throw or die, and prompts whose issue cannot be fetched

\* The session's runners are attached in the order of their numbers.
ASSUME RunnersAssumption == Starts = 1 .. Cardinality(Starts)
ASSUME BoundsAssumption ==
    /\ MaxEvents \in Nat /\ MaxResults \in Nat /\ MaxMishaps \in Nat

VARIABLES
    \* AgentSessionManager, in memory
    status,    \* the session's status, "none" when it is not in the map
    term,      \* its terminalState is set
    emitted,   \* it is in terminalEmittedSessions
    stopReq,   \* it is in stopRequestedSessions
    cur,       \* its agentRunner, 0 when none was attached
    results,   \* result messages not processed yet, with their runner's epoch
    completing,\* completeSession: the result it works on
    pipe,      \* the three ways to emitTerminalOnce, and how far each got
    \* the runners
    turn,      \* what each runner of the session is doing
    pend,      \* what getPendingWork of each returns: the last Stop hook's crons and
               \* tasks ("hook"), the background tasks that live ("tasks")
    \* EdgeWorker
    asked,     \* prompts whose handler has not looked at the runner yet
    preparing, \* prompts on their way to a new runner
    phase,     \* the process: down, reconciling or up
    disk,      \* edge-worker-state.json: status and terminalState
    flushing,  \* what the awaited save of each path to emitTerminalOnce will write
    writes,    \* what the saves of other moments that are under way will write
    frame,     \* RouterConnection's buffered terminal frame: the epoch it reports
    \* the router
    pinned,    \* affinity and lock are held for the session
    \* History
    epoch,     \* sessions created and runners attached so far
    born,      \* the epoch each runner was attached in
    quiet,     \* runners that had no pending work at some moment they were held
               \* open, since the first result not dealt with yet
    behind,    \* the file has lost the session's terminalState: its save failed, or
               \* one serialised before it came after it
    told,      \* the router has applied a terminal since the last prompt
    signals,   \* unforced terminals sent since the runner was attached, or since
               \* the process restarted from a file that was behind
    falsely,   \* a session that had been reported was reported interrupted
    early,     \* a terminal was sent for a turn that goes on, or that a newer
               \* runner has replaced
    leaked,    \* a turn ended and nothing reported it
    events, mishaps

sessVars == <<status, term, emitted, stopReq, cur>>
workVars == <<pend, quiet, born>>
turnVars == <<turn, workVars>>
fileVars == <<disk, flushing, writes, behind>>
countVars == <<events, mishaps>>
histVars == <<epoch, told, signals, falsely, early, leaked, countVars>>
vars == <<semVars, sessVars, results, completing, pipe, turnVars, asked, preparing,
          phase, fileVars, frame, pinned, histVars>>

Paths == {"complete", "stop", "fail"}
Idle == [st |-> "idle", epoch |-> 0]
NoFrame == -1
PendingKinds == {"hook", "tasks"}
NoResult == [sub |-> "none", stop |-> FALSE]

\* serializeState: the session as a save will write it, whenever it does.
Serialized(st, tm) == [status |-> st, term |-> tm]
Snapshots == [status : {"none", "active", "complete", "error"}, term : BOOLEAN]
NoSave == Serialized("idle", FALSE)
\* Who saves at other moments: another session, the creation of this one, and
\* each runner that is attached.
Another == -1
Creation == 0
Writers == {Another, Creation} \cup Starts

\* isRunning() of a runner, and whether it takes a streamed message.
Streaming(r) == r # 0 /\ turn[r] \in {"open", "held", "woken"}
\* A runner that works, will work, or waits for its slot.
Working(r) == turn[r] \in {"attached", "starting", "open", "held", "woken"}
\* getRunnerPendingWork: what the attached runner has recorded is not empty.
PendingWork == cur # 0 /\ pend[cur] # {}

\* One of boundedly many events, and of boundedly many that disturb the session.
Occurs == events < MaxEvents /\ events' = events + 1
Mishap == mishaps < MaxMishaps /\ mishaps' = mishaps + 1

\* stop() acts on a runner that has started; one that still waits for its slot
\* has no query to abort.
StopRunner == IF cur # 0 /\ turn[cur] \in {"open", "held", "woken", "closing"}
              THEN turn' = [turn EXCEPT ![cur] = "killed"]
              ELSE UNCHANGED turn

Init ==
    /\ SemInit
    /\ status = "none" /\ term = FALSE /\ emitted = FALSE /\ stopReq = FALSE
    /\ cur = 0 /\ results = <<>> /\ completing = NoResult
    /\ pipe = [k \in Paths |-> Idle]
    /\ turn = [r \in Starts |-> "none"] /\ pend = [r \in Starts |-> {}]
    /\ asked = 0 /\ preparing = 0 /\ phase = "up"
    /\ disk = Serialized("none", FALSE) /\ behind = FALSE
    /\ flushing = [k \in Paths |-> NoSave] /\ writes = [w \in Writers |-> NoSave]
    /\ frame = NoFrame /\ pinned = FALSE
    /\ epoch = 0 /\ told = FALSE /\ signals = 0 /\ falsely = FALSE /\ early = FALSE
    /\ leaked = FALSE /\ quiet = {} /\ born = [r \in Starts |-> 0]
    /\ events = 0 /\ mishaps = 0

---------------------------------------------------------------------------
(* The state file and emitTerminalOnce *)

\* The end of savePersistedState: the temporary file with what was serialised
\* when the save began is renamed over the state file, in whatever order saves
\* that overlap come to it; or the save fails, which is logged.
Flush(saved, terminal) ==
    \/ /\ disk' = saved /\ UNCHANGED events
       /\ behind' = (~ saved.term /\ (behind \/ (disk.term /\ term)))
    \/ /\ Occurs /\ UNCHANGED disk
       /\ behind' = (behind \/ (terminal /\ ~ disk.term))

\* Another session of the worker changes: the file holds them all.
OthersSave ==
    /\ phase # "down" /\ Occurs
    /\ writes[Another] = NoSave
    /\ writes' = [writes EXCEPT ![Another] = Serialized(status, term)]
    /\ UNCHANGED <<semVars, sessVars, results, completing, pipe, turnVars, asked,
                   preparing, phase, disk, flushing, behind, frame, pinned, epoch,
                   told, signals, falsely, early, leaked, mishaps>>

\* A save ends that this caller awaits.
SaveEnds(w) ==
    /\ writes[w] # NoSave /\ writes' = [writes EXCEPT ![w] = NoSave]
    /\ Flush(writes[w], FALSE)

OthersSaved ==
    /\ SaveEnds(Another)
    /\ UNCHANGED <<semVars, sessVars, results, completing, pipe, turnVars, asked,
                   preparing, phase, flushing, frame, pinned, epoch, told, signals,
                   falsely, early, leaked, mishaps>>

\* Faulty variant: what is saved is serialised before the terminalState is set.
EmitStartSavesFirst(k, force) ==
    /\ IF emitted /\ ~ force
       THEN pipe' = [pipe EXCEPT ![k] = Idle] /\ UNCHANGED <<term, emitted, flushing>>
       ELSE /\ emitted' = TRUE
            /\ term' = (status # "none")
            /\ pipe' = [pipe EXCEPT ![k].st = "flushing"]
            /\ flushing' = [flushing EXCEPT ![k] = Serialized(status, term)]
    /\ UNCHANGED <<disk, writes, behind>>

\* Up to the await of persistState.  The one-shot swallows a second signal,
\* unless a stop forces it.
EmitStart(k, force) ==
    /\ IF emitted /\ ~ force
       THEN pipe' = [pipe EXCEPT ![k] = Idle] /\ UNCHANGED <<term, emitted, flushing>>
       ELSE /\ emitted' = TRUE
            /\ term' = (status # "none")
            /\ pipe' = [pipe EXCEPT ![k].st = "flushing"]
            /\ flushing' = [flushing EXCEPT ![k] = Serialized(status, status # "none")]
    /\ UNCHANGED <<disk, writes, behind>>

\* The save has ended, either way; the terminal frame is buffered, durably, and
\* sent.
EmitDone(k) ==
    /\ pipe[k].st = "flushing"
    /\ pipe' = [pipe EXCEPT ![k] = Idle]
    /\ flushing' = [flushing EXCEPT ![k] = NoSave] /\ Flush(flushing[k], TRUE)
    /\ frame' = pipe[k].epoch
    /\ signals' = IF k # "stop" /\ pipe[k].epoch = epoch THEN signals + 1 ELSE signals
    /\ early' = (early \/ pipe[k].epoch # epoch \/ \E r \in Starts : Working(r))
    /\ phase' = IF phase = "reconciling" THEN "up" ELSE phase
    /\ UNCHANGED <<semVars, sessVars, results, completing, turnVars, asked, preparing,
                   writes, pinned, epoch, told, falsely, leaked, mishaps>>

\* The activity that precedes the signal is posted, or its post has failed.
Posted(k) ==
    /\ k # "complete" /\ pipe[k].st = "posting"
    /\ EmitStart(k, k = "stop")
    /\ phase' = IF phase = "reconciling" /\ pipe'[k].st = "idle" THEN "up" ELSE phase
    /\ UNCHANGED <<semVars, status, stopReq, cur, results, completing, turnVars, asked,
                   preparing, frame, pinned, histVars>>

---------------------------------------------------------------------------
(* completeSession, one result at a time *)

\* The next result is taken up: the stop request is consumed and the status set
\* before the first await.
CompleteStart ==
    /\ results # <<>> /\ completing = NoResult
    /\ results' = Tail(results)
    /\ IF status = "none"
       THEN UNCHANGED <<status, stopReq, completing, pipe>>
       ELSE /\ stopReq' = FALSE
            /\ status' = IF Head(results).sub = "success" /\ ~ stopReq
                         THEN "complete" ELSE "error"
            /\ completing' = [sub |-> Head(results).sub, stop |-> stopReq]
            /\ pipe' = [pipe EXCEPT !["complete"] =
                           [st |-> "posting", epoch |-> Head(results).epoch]]
    /\ UNCHANGED <<semVars, term, emitted, cur, turnVars, asked, preparing, phase,
                   fileVars, frame, pinned, histVars>>

\* Faulty variant: every result ends the session.
DefersNever == FALSE

\* A successful turn whose runner has work pending does not end the session.
Defers == completing.sub = "success" /\ ~ completing.stop /\ PendingWork

\* The result is posted; the signal is withheld for pending work, sent otherwise.
CompletePosted ==
    /\ pipe["complete"].st = "posting"
    /\ IF Defers
       THEN /\ pipe' = [pipe EXCEPT !["complete"] = Idle]
            /\ UNCHANGED <<term, emitted, fileVars>>
       ELSE EmitStart("complete", FALSE)
    /\ UNCHANGED <<semVars, status, stopReq, cur, results, completing, turnVars, asked,
                   preparing, phase, frame, pinned, histVars>>

\* The handler returns and the session's next message may be processed.
CompleteEnd ==
    /\ completing # NoResult /\ pipe["complete"].st = "idle"
    /\ completing' = NoResult
    /\ UNCHANGED <<semVars, sessVars, results, pipe, turnVars, asked, preparing, phase,
                   fileVars, frame, pinned, histVars>>

---------------------------------------------------------------------------
(* Prompts *)

\* The router pins the session and delivers the prompt; a session that is not
\* known is created and its save begins.
PromptArrives ==
    /\ phase = "up" /\ Occurs
    /\ pinned' = TRUE /\ told' = FALSE
    /\ asked' = asked + 1
    /\ IF status = "none"
       THEN /\ status' = "active" /\ term' = FALSE
            /\ epoch' = epoch + 1 /\ signals' = 0 /\ behind' = FALSE
            /\ writes' = [writes EXCEPT ![Creation] = Serialized("active", FALSE)]
       ELSE UNCHANGED <<status, term, epoch, signals, behind, writes>>
    /\ UNCHANGED <<semVars, emitted, stopReq, cur, results, completing, pipe, turnVars,
                   preparing, phase, disk, flushing, frame, falsely, early, leaked,
                   mishaps>>

\* handlePromptWithStreamingCheck and the head of resumeAgentSession: a running
\* runner takes the message; otherwise the old one is stopped and the prompt
\* goes on to start another.  The prompt that created the session awaits its
\* save first.
PromptChecks ==
    /\ asked > 0 /\ asked' = asked - 1
    /\ \/ SaveEnds(Creation)
       \/ /\ asked > IF writes[Creation] = NoSave THEN 0 ELSE 1
          /\ UNCHANGED <<disk, writes, behind, events>>
    /\ IF Streaming(cur)
       THEN /\ turn' = [turn EXCEPT ![cur] = IF @ = "held" THEN "woken" ELSE @]
            /\ UNCHANGED <<stopReq, preparing>>
       ELSE /\ stopReq' = FALSE
            /\ StopRunner
            /\ preparing' = preparing + 1
    /\ UNCHANGED <<semVars, status, term, emitted, cur, results, completing, pipe,
                   workVars, phase, flushing, frame, pinned, epoch, told, signals,
                   falsely, early, leaked, mishaps>>

\* The issue cannot be fetched: the handler throws, which is logged.
PromptFails ==
    /\ preparing > 0 /\ preparing' = preparing - 1
    /\ Mishap
    /\ leaked' = TRUE
    /\ UNCHANGED <<semVars, sessVars, results, completing, pipe, turnVars, asked, phase,
                   fileVars, frame, pinned, epoch, told, signals, falsely, early,
                   events>>

\* Faulty variant: attaching a runner does not re-arm the one-shot.
RearmNot ==
    /\ term' = FALSE /\ UNCHANGED emitted
    /\ status' = IF (emitted \/ term) /\ status \in {"complete", "error"}
                 THEN "active" ELSE status

\* addAgentRunner re-arms the terminal one-shot of a session it revives.
Rearm ==
    /\ term' = FALSE /\ emitted' = FALSE
    /\ status' = IF (emitted \/ term) /\ status \in {"complete", "error"}
                 THEN "active" ELSE status

\* A new runner is attached, the buffered terminal frame dropped as stale
\* (sessionResumed), and a save begins.
AttachRunner(r) ==
    /\ preparing > 0 /\ preparing' = preparing - 1
    /\ turn[r] = "none" /\ pc[r] = "idle"
    /\ \A q \in Starts : turn[q] = "none" => q >= r
    /\ turn' = [turn EXCEPT ![r] = "attached"]
    /\ cur' = r /\ epoch' = epoch + 1 /\ born' = [born EXCEPT ![r] = epoch + 1]
    /\ Rearm
    /\ frame' = NoFrame
    /\ told' = FALSE /\ signals' = 0 /\ behind' = FALSE
    /\ writes' = [writes EXCEPT ![r] = Serialized(status', FALSE)]
    /\ UNCHANGED <<semVars, stopReq, results, completing, pipe, pend, quiet,
                   asked, phase, disk, flushing, pinned, falsely, early,
                   leaked, countVars>>

\* The save has ended: startStreaming() through the gate.
StartRunner(r) ==
    /\ turn[r] = "attached" /\ turn' = [turn EXCEPT ![r] = "starting"]
    /\ SaveEnds(r)
    /\ Acquire(r)
    /\ UNCHANGED <<sessVars, results, completing, pipe, workVars, asked, preparing,
                   phase, flushing, frame, pinned, epoch, told, signals, falsely, early,
                   leaked, mishaps>>

---------------------------------------------------------------------------
(* Starts *)

RunnerRuns(r) ==
    /\ Run(r) /\ turn' = [turn EXCEPT ![r] = "open"]
    /\ UNCHANGED <<sessVars, results, completing, pipe, workVars, asked, preparing,
                   phase, fileVars, frame, pinned, histVars>>

\* The runner throws while it starts: failSession.
RunnerThrows(r) ==
    /\ turn[r] = "open" /\ Release(r)
    /\ Mishap
    /\ pipe["fail"] = Idle
    /\ turn' = [turn EXCEPT ![r] = "over"]
    /\ status' = IF status = "none" THEN "none" ELSE "error"
    /\ pipe' = [pipe EXCEPT !["fail"] = [st |-> "posting", epoch |-> born[r]]]
    /\ UNCHANGED <<term, emitted, stopReq, cur, results, completing, workVars, asked,
                   preparing, phase, fileVars, frame, pinned, epoch, told, signals,
                   falsely, early, leaked, events>>

\* The recorder of pending work writes down `work`; a runner that has none
\* while it is held open is noted.
Recorded(r, work) ==
    /\ pend' = [pend EXCEPT ![r] = work]
    /\ quiet' = IF work = {} /\ turn[r] \in {"held", "woken"}
                THEN quiet \cup {r} ELSE quiet

\* The Stop hook: the recorder overwrites what it knew of crons and background
\* tasks, and says nothing of the tasks that live.
HookRecords(r, work) == work \ {"hook"} = pend[r] \ {"hook"}

\* The git guardrail, a hook beside the recorder, has the turn go on.
StopBlocked(r, work) ==
    /\ turn[r] \in {"open", "woken"} /\ Occurs
    /\ HookRecords(r, work) /\ Recorded(r, work)
    /\ UNCHANGED <<semVars, sessVars, results, completing, pipe, turn, born, asked,
                   preparing, phase, fileVars, frame, pinned, epoch, told, signals,
                   falsely, early, leaked, mishaps>>

\* background_tasks_changed: a task has started, or the last one has ended.
TaskStarts(r) ==
    /\ turn[r] \in {"open", "held", "woken"} /\ "tasks" \notin pend[r] /\ Occurs
    /\ Recorded(r, pend[r] \cup {"tasks"})
    /\ UNCHANGED <<semVars, sessVars, results, completing, pipe, turn, born, asked,
                   preparing, phase, fileVars, frame, pinned, epoch, told, signals,
                   falsely, early, leaked, mishaps>>

TasksEnd(r) ==
    /\ turn[r] \in {"open", "held", "woken", "closing"} /\ "tasks" \in pend[r]
    /\ Recorded(r, pend[r] \ {"tasks"})
    /\ UNCHANGED <<semVars, sessVars, results, completing, pipe, turn, born, asked,
                   preparing, phase, fileVars, frame, pinned, histVars>>

\* A turn stops and yields its result; one that ends in an error runs no Stop
\* hook.  The prompt stays open after a success that leaves work pending; it is
\* closed otherwise, which ends the query.
Result(r, sub, work) ==
    /\ turn[r] \in {"open", "woken"} /\ Len(results) < MaxResults
    /\ IF sub = "success"
       THEN HookRecords(r, work) /\ UNCHANGED mishaps
       ELSE work = pend[r] /\ Mishap
    /\ pend' = [pend EXCEPT ![r] = work]
    /\ results' = Append(results, [sub |-> sub, epoch |-> born[r]])
    /\ turn' = [turn EXCEPT ![r] =
                   IF sub = "success" /\ work # {} THEN "held" ELSE "closing"]
    /\ quiet' = IF results = <<>> /\ completing = NoResult THEN quiet \ {r} ELSE quiet
    /\ UNCHANGED <<semVars, sessVars, completing, pipe, born, asked, preparing, phase,
                   fileVars, frame, pinned, epoch, told, signals, falsely, early,
                   leaked, events>>

\* A cron or a background task wakes the held session for another turn.
Wakeup(r) ==
    /\ turn[r] = "held"
    /\ turn' = [turn EXCEPT ![r] = "woken"]
    /\ UNCHANGED <<semVars, sessVars, results, completing, pipe, workVars, asked,
                   preparing, phase, fileVars, frame, pinned, histVars>>

\* The query of a runner that was closed or killed ends, and start() with it.
RunnerEnds(r) ==
    /\ turn[r] \in {"closing", "killed"} /\ Release(r)
    /\ turn' = [turn EXCEPT ![r] = "over"]
    /\ UNCHANGED <<sessVars, results, completing, pipe, workVars, asked, preparing,
                   phase, fileVars, frame, pinned, histVars>>

\* The query dies with an error and no result: it is logged (handleClaudeError)
\* and start() resolves like any other.
RunnerDies(r) ==
    /\ turn[r] \in {"open", "held", "woken"} /\ Release(r)
    /\ Mishap
    /\ turn' = [turn EXCEPT ![r] = "over"]
    /\ leaked' = TRUE
    /\ UNCHANGED <<sessVars, results, completing, pipe, workVars, asked, preparing,
                   phase, fileVars, frame, pinned, epoch, told, signals, falsely, early,
                   events>>

---------------------------------------------------------------------------
(* Stops, restarts, the router *)

\* handleStopSignal on a runner that cannot be interrupted.  Routing the stop
\* pinned the session again.
StopSignal ==
    /\ phase = "up" /\ pipe["stop"] = Idle
    /\ Mishap
    /\ pinned' = TRUE /\ told' = FALSE
    /\ stopReq' = (status # "none")
    /\ StopRunner
    /\ pipe' = [pipe EXCEPT !["stop"] = [st |-> "posting", epoch |-> epoch]]
    /\ UNCHANGED <<semVars, status, term, emitted, cur, results, completing, workVars,
                   asked, preparing, phase, fileVars, frame, epoch, signals, falsely,
                   early, leaked, events>>

\* The process is killed, saves under way with it.  The state file and the frame
\* buffer survive.
Crash ==
    /\ phase # "down" /\ Mishap
    /\ phase' = "down"
    /\ Restart
    /\ turn' = [r \in Starts |-> IF turn[r] = "none" THEN "none" ELSE "over"]
    /\ pend' = [r \in Starts |-> {}]
    /\ flushing' = [k \in Paths |-> NoSave] /\ writes' = [w \in Writers |-> NoSave]
    /\ status' = "none" /\ term' = FALSE /\ emitted' = FALSE /\ stopReq' = FALSE
    /\ cur' = 0 /\ results' = <<>> /\ completing' = NoResult
    /\ pipe' = [k \in Paths |-> Idle]
    /\ asked' = 0 /\ preparing' = 0
    /\ UNCHANGED <<quiet, born, disk, behind, frame, pinned, epoch,
                   told, signals, falsely, early, leaked, events>>

\* A restored session that was running when the process died.
Interrupted == disk.status = "active" /\ ~ disk.term

\* restoreState and reconcileInterruptedSessions, before any webhook is taken.
Restore ==
    /\ phase = "down"
    /\ term' = disk.term /\ emitted' = disk.term
    /\ IF Interrupted
       THEN /\ status' = "error"
            /\ pipe' = [pipe EXCEPT !["fail"] = [st |-> "posting", epoch |-> epoch]]
            /\ phase' = "reconciling"
            /\ falsely' = (falsely \/ (told /\ ~ behind))
       ELSE /\ status' = disk.status /\ phase' = "up"
            /\ UNCHANGED <<pipe, falsely>>
    /\ signals' = IF behind THEN 0 ELSE signals
    /\ UNCHANGED <<semVars, stopReq, cur, results, completing, turnVars, asked,
                   preparing, fileVars, frame, pinned, epoch, told, early, leaked,
                   countVars>>

\* The router applies a terminal frame and acknowledges it.
RouterApplies ==
    /\ frame # NoFrame /\ frame' = NoFrame
    /\ pinned' = FALSE /\ told' = (told \/ frame = epoch)
    /\ UNCHANGED <<semVars, sessVars, results, completing, pipe, turnVars, asked,
                   preparing, phase, fileVars, epoch, signals, falsely, early, leaked,
                   countVars>>

\* Faulty variant: the status decides alone whether a session is live.
LiveByStatus == status = "active"

\* getLiveSessionIds.
Live == status # "none" /\ (cur # 0 \/ status = "active")

\* The worker connects and declares its live sessions; the router releases the
\* others, sparing those it pinned within a grace that outlasts the handling of
\* a prompt (affinityGraceMs).
Hello ==
    /\ phase = "up" /\ pinned /\ ~ Live
    /\ asked = 0 /\ preparing = 0
    /\ pinned' = FALSE
    /\ UNCHANGED <<semVars, sessVars, results, completing, pipe, turnVars, asked,
                   preparing, phase, fileVars, frame, histVars>>

Next ==
    \/ \E k \in Paths : EmitDone(k) \/ Posted(k)
    \/ CompleteStart \/ CompletePosted \/ CompleteEnd
    \/ PromptArrives \/ PromptChecks \/ PromptFails
    \/ \E r \in Starts : \/ AttachRunner(r) \/ StartRunner(r) \/ RunnerRuns(r)
                          \/ RunnerThrows(r) \/ Wakeup(r) \/ RunnerEnds(r)
                          \/ RunnerDies(r) \/ TaskStarts(r) \/ TasksEnd(r)
                          \/ \E work \in SUBSET PendingKinds :
                                \/ StopBlocked(r, work)
                                \/ \E sub \in {"success", "error"} : Result(r, sub, work)
    \/ OthersSave \/ OthersSaved
    \/ StopSignal \/ Crash \/ Restore \/ RouterApplies \/ Hello

Spec == Init /\ [][Next]_vars

\* What the worker owes is done in the end: awaited posts and writes return,
\* handlers run on, agents finish their turns, the last of them with no pending
\* work left, and pending work ends and wakes them, other sessions end, the
\* process is started again, frames reach the router and the worker reconnects.
FairSpec ==
    /\ Spec
    /\ \A k \in Paths : WF_vars(EmitDone(k)) /\ WF_vars(Posted(k))
    /\ WF_vars(CompleteStart) /\ WF_vars(CompletePosted) /\ WF_vars(CompleteEnd)
    /\ WF_vars(PromptChecks)
    /\ \A r \in Starts :
          /\ WF_vars(AttachRunner(r)) /\ WF_vars(StartRunner(r))
          /\ WF_vars(RunnerRuns(r)) /\ WF_vars(RunnerEnds(r)) /\ WF_vars(Wakeup(r))
          /\ WF_vars(TasksEnd(r))
          /\ SF_vars(Result(r, "success", {}))
    /\ WF_vars(Restore) /\ WF_vars(RouterApplies) /\ WF_vars(Hello)

---------------------------------------------------------------------------
(* Properties *)

Turns == {"none", "attached", "starting", "open", "held", "woken", "closing",
          "killed", "over"}

\* Every variable keeps to the values its code can give it.
TypeOK ==
    /\ SemTypeOK
    /\ status \in {"none", "active", "complete", "error"}
    /\ term \in BOOLEAN /\ emitted \in BOOLEAN /\ stopReq \in BOOLEAN
    /\ cur \in Starts \cup {0}
    /\ results \in Seq([sub : {"success", "error"}, epoch : Nat])
    /\ completing \in [sub : {"none", "success", "error"}, stop : BOOLEAN]
    /\ pipe \in [Paths -> [st : {"idle", "posting", "flushing"}, epoch : Nat]]
    /\ turn \in [Starts -> Turns]
    /\ pend \in [Starts -> SUBSET PendingKinds] /\ born \in [Starts -> Nat]
    /\ asked \in Nat /\ preparing \in Nat
    /\ phase \in {"up", "down", "reconciling"}
    /\ disk \in Snapshots
    /\ flushing \in [Paths -> Snapshots \cup {NoSave}]
    /\ writes \in [Writers -> Snapshots \cup {NoSave}]
    /\ frame \in Nat \cup {NoFrame}
    /\ pinned \in BOOLEAN /\ told \in BOOLEAN /\ falsely \in BOOLEAN
    /\ early \in BOOLEAN /\ leaked \in BOOLEAN /\ behind \in BOOLEAN
    /\ quiet \subseteq Starts

\* A turn is reported terminal at most once, a stop apart, over every way a
\* session ends and across a crash at any point of it, and a session whose end
\* the router was told is not reported interrupted after a crash: the state file
\* says terminal before the frame goes out (terminalEmittedSessions and its
\* restoration from the file).  Only a process that restarts from a file that is
\* behind - the save of the terminalState failed, which is logged, or one
\* serialised earlier was renamed over it - may report the turn once more.
OneSignalPerTurn == signals <= 1 /\ ~ falsely

\* The live-session declaration never gives away a session that is at work, a
\* turn deferred for pending work or queued for a slot included: apart from a
\* terminal frame, nothing unpins it meanwhile (getLiveSessionIds).
WorkKeepsPin ==
    [][pinned /\ ~ pinned' /\ frame' = frame => \A r \in Starts : ~ Working(r)]_vars

\* A turn that goes on for pending work - a cron, a background task - is not
\* reported as ended, whichever order its result, the wakeup and a crossing
\* prompt are handled in (completeSession's deferral), unless it was stopped or
\* what it waited for had ended, or was overwritten by a later Stop hook, while
\* it was held open: completeSession samples that after it has posted the result.
PendingTurnNotReported ==
    [][signals' > signals =>
          completing.stop \/ cur = 0 \/ ~ Working(cur) \/ cur \in quiet]_vars

\* Every session the router pins to this worker is released in the end, through
\* stops, crashes, queueing and pending work, unless a turn dies without a
\* result, a prompt without a turn, or a signal was sent for a turn that goes on.
SessionReleased == pinned ~> (~ pinned \/ leaked \/ early)

=============================================================================
