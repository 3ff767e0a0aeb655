----------------------------- MODULE TaskRuntime -----------------------------
(***************************************************************************)
(* The task runtime of packages/task-runtime: it executes the tasks of the *)
(* task manager in the background, one execution loop per running task,    *)
(* while the user pauses, resumes, cancels and creates tasks.              *)
(*                                                                         *)
(* Everything runs on one JavaScript thread.  What interleaves are the     *)
(* stretches between two awaits, and the calls into the task manager,      *)
(* which the JSON file store executes one at a time in the order they were *)
(* made.  `queue` is that order: a process with a call in flight is in it, *)
(* and the process at its head is served next.  A read is served together  *)
(* with the stretch of code that follows it, because the store's next call *)
(* starts with disk I/O; after a write the caller still emits telemetry,   *)
(* so what it does next comes at any later moment.  Calls that only fetch  *)
(* a record to return or to report it are left out.                        *)
(***************************************************************************)
EXTENDS TaskManager, Sequences, FiniteSets

CONSTANTS
  Requests,        \* concurrent API calls
  Kinds,           \* the calls the clients make
  StartEventFails  \* TRUE iff the task_execution_started event may be refused

VARIABLES
  queue,   \* operationQueue of the tasks store: the processes with a call in flight
  handle,  \* executions: the registered ExecutionHandle of every task
  loop,    \* the execution loop of every task
  req,     \* the API calls in flight
  up       \* FALSE from a restart of the agent to the end of its recovery

rtVars == <<queue, handle, loop, req, up>>
vars == <<tasks, active, queue, handle, loop, req, up>>

NoHandle == [live |-> FALSE, pause |-> FALSE, cancel |-> FALSE]
NewHandle == [live |-> TRUE, pause |-> FALSE, cancel |-> FALSE]

\* A loop: where it is, the step it chose, and the progress it reports next
\* (after a read for a merge, also the current step it saw).
NoLoop == [pc |-> "off", step |-> NoStep, progress |-> 0, cur |-> NoStep]

\* A request: what it does next, about which task, whether the handle it looked
\* up is still registered, and whether it starts the loop without an event.
Idle == [pc |-> "idle", task |-> NoTask, held |-> FALSE, quiet |-> FALSE,
         progress |-> 0, cur |-> NoStep]

\* buildProgressPercent: the rounded percentage, clamped.
buildProgressPercent(completed, total) ==
  IF total = 0 THEN 0
  ELSE LET percent == (200 * completed + total) \div (2 * total)
       IN  IF percent > 100 THEN 100 ELSE percent

ASSUME TaskRuntimeAssumption ==
  /\ Requests \cap TaskIds = {} /\ NoTask \notin Requests
  /\ Kinds \subseteq {"create", "start", "pause", "resume", "cancel", "refine",
                      "complete", "fail"}
  /\ StartEventFails \in BOOLEAN
  /\ MaxSteps > 0
  /\ \A total \in 1..MaxSteps, n \in 0..MaxSteps + 1 :
       buildProgressPercent(n, total) \in Progress

LoopQueued == {"first", "head", "advance", "mergeRead", "merge", "artifactRead",
               "artifact", "check", "after", "complete", "finish", "errorRead", "fail"}
LoopParked == {"gate", "workGate"}
LoopFree == {"entered", "work", "completed", "ending", "failing"}
RequestQueued == {"createRead", "create", "spawnRead", "spawnResume", "pauseRead", "pause",
                  "resumeRead", "resumeHeld", "resumeNew", "cancelRead", "cancel",
                  "refineRead"}
RequestFree == {"idle", "created", "spawn", "starting", "release", "refine"}

Percents == Progress \cup {NullProgress}

Handles == [live : BOOLEAN, pause : BOOLEAN, cancel : BOOLEAN]

LoopRecords ==
  [pc : {"off"} \cup LoopQueued \cup LoopParked \cup LoopFree,
   step : StepIds \cup {NoStep}, progress : Percents, cur : StepIds \cup {NoStep}]

RequestRecords ==
  [pc : RequestQueued \cup RequestFree, task : TaskIds \cup {NoTask}, held : BOOLEAN,
   quiet : BOOLEAN, progress : Percents, cur : StepIds \cup {NoStep}]

RuntimeTypeOK ==
  /\ queue \in Seq(TaskIds \cup Requests)
  /\ handle \in [TaskIds -> Handles]
  /\ loop \in [TaskIds -> LoopRecords]
  /\ req \in [Requests -> RequestRecords]
  /\ up \in BOOLEAN

-----------------------------------------------------------------------------
(* The queue of the store. *)

Serves(p) == up /\ queue # <<>> /\ Head(queue) = p

Others == Tail(queue)

Call(p, rest) == queue' = Append(rest, p)
Return == queue' = Others

-----------------------------------------------------------------------------
(* The execution loop of task t. *)

Goes(t, pc) == loop' = [loop EXCEPT ![t].pc = pc]

\* The loop is done with the step it chose.
Leaves(t, pc) == loop' = [loop EXCEPT ![t] = [NoLoop EXCEPT !.pc = pc]]

\* The loop returns and its `finally` unregisters the handle; a resume that
\* looked the handle up is left with one that is not registered any more.
Unregister(t) ==
  /\ handle' = [handle EXCEPT ![t] = NoHandle]
  /\ req' = [r \in Requests |->
       IF req[r].task = t THEN [req[r] EXCEPT !.held = FALSE] ELSE req[r]]

Ends(t) == loop' = [loop EXCEPT ![t] = NoLoop] /\ Unregister(t)

\* Mutant: an interrupted step is not taken up again.
UnfinishedSteps_PendingOnly(task) == {i \in StepIds : task.steps[i] = "pending"}

UnfinishedSteps(task) ==
  {i \in StepIds : task.steps[i] \notin {"absent", "completed", "cancelled"}}

\* selectPlannedNextStep: the first planned step that is not done.
selectNextStep(task) ==
  LET left == UnfinishedSteps(task)
  IN  IF left = {} THEN NoStep ELSE CHOOSE i \in left : \A j \in left : i <= j

\* The percentage of a task with `extra` more steps completed than it has now.
PercentDone(task, extra) ==
  LET Having(S) == Cardinality({i \in StepIds : task.steps[i] \in S})
  IN  buildProgressPercent(Having({"completed"}) + extra, Having(StepStatuses \ {"absent"}))

LoopFirstRead(t) ==
  /\ Serves(t) /\ loop[t].pc = "first"
  /\ Goes(t, "head") /\ Call(t, Others)
  /\ UNCHANGED <<tasks, active, handle, req, up>>

\* The head of the loop: stop on a finished task, remember that the task is
\* paused, choose a step; then wait while paused, and stop when cancelled.
LoopHeadDone(t) ==
  /\ Serves(t) /\ loop[t].pc = "head"
  /\ \/ isTerminalStatus(tasks[t].status)
     \/ selectNextStep(tasks[t]) # NoStep /\ handle[t].cancel
  /\ Ends(t) /\ Return
  /\ UNCHANGED <<tasks, active, up>>

LoopHeadNoStep(t) ==
  /\ Serves(t) /\ loop[t].pc = "head"
  /\ ~isTerminalStatus(tasks[t].status)
  /\ selectNextStep(tasks[t]) = NoStep
  /\ Leaves(t, "finish") /\ Call(t, Others)
  /\ handle' = [handle EXCEPT ![t].pause = @ \/ tasks[t].status = "paused"]
  /\ UNCHANGED <<tasks, active, req, up>>

\* Mutant: only the handle is asked whether the task is paused.
LoopHeadStep_AsksHandle(t) ==
  LET pause == handle[t].pause
      step == selectNextStep(tasks[t])
  IN
  /\ Serves(t) /\ loop[t].pc = "head"
  /\ ~isTerminalStatus(tasks[t].status)
  /\ step # NoStep /\ ~handle[t].cancel
  /\ loop' = [loop EXCEPT ![t] = [@ EXCEPT !.pc = IF pause THEN "gate" ELSE "advance",
                                           !.step = step,
                                           !.progress = PercentDone(tasks[t], 0)]]
  /\ IF pause THEN Return ELSE Call(t, Others)
  /\ UNCHANGED <<tasks, active, handle, req, up>>

LoopHeadStep(t) ==
  LET task == tasks[t]
      pause == handle[t].pause \/ task.status = "paused"
      step == selectNextStep(task)
  IN
  /\ Serves(t) /\ loop[t].pc = "head"
  /\ ~isTerminalStatus(task.status)
  /\ step # NoStep /\ ~handle[t].cancel
  /\ handle' = [handle EXCEPT ![t].pause = pause]
  /\ loop' = [loop EXCEPT ![t] = [@ EXCEPT !.pc = IF pause THEN "gate" ELSE "advance",
                                           !.step = step,
                                           !.progress = PercentDone(task, 0)]]
  /\ IF pause THEN Return ELSE Call(t, Others)
  /\ UNCHANGED <<tasks, active, req, up>>

\* A write the task manager refuses, because the task is finished, throws.
LoopWriteRefused(t) ==
  /\ Serves(t) /\ loop[t].pc \in {"advance", "merge", "complete"}
  /\ ~Unfinished(t)
  /\ Leaves(t, "errorRead") /\ Call(t, Others)
  /\ UNCHANGED <<tasks, active, handle, req, up>>

LoopAdvance(t) ==
  /\ Serves(t) /\ loop[t].pc = "advance"
  /\ advanceTaskPhase(t, loop[t].progress, loop[t].step)
  /\ loop' = [loop EXCEPT ![t] = [@ EXCEPT !.pc = "entered", !.progress = 0]]
  /\ Return
  /\ UNCHANGED <<handle, req, up>>

\* The step is announced and its context built: the runner takes over.
LoopEnters(t) ==
  /\ up /\ loop[t].pc = "entered"
  /\ Goes(t, "work")
  /\ UNCHANGED <<tasks, active, queue, handle, req, up>>

-----------------------------------------------------------------------------
(* What a runner does in executeStep, in any order: merge metadata, attach  *)
(* an artifact, wait while paused, check for a cancellation; then it        *)
(* returns or throws.                                                       *)

WorkCalls(t) ==
  /\ up /\ loop[t].pc = "work"
  /\ \/ Goes(t, "mergeRead")
     \/ MaxArtifacts > 0 /\ Goes(t, "artifactRead")
     \/ ~handle[t].cancel /\ Goes(t, "check")
  /\ Call(t, queue)
  /\ UNCHANGED <<tasks, active, handle, req, up>>

\* mergeMetadata writes back the progress and the current step it has read.
WorkMergeRead(t) ==
  /\ Serves(t) /\ loop[t].pc = "mergeRead"
  /\ loop' = [loop EXCEPT ![t] = [@ EXCEPT !.pc = "merge",
                                           !.progress = tasks[t].progress,
                                           !.cur = tasks[t].cur]]
  /\ Call(t, Others)
  /\ UNCHANGED <<tasks, active, handle, req, up>>

WorkMerge(t) ==
  /\ Serves(t) /\ loop[t].pc = "merge"
  /\ updateTaskProgress(t, loop[t].progress, loop[t].cur)
  /\ loop' = [loop EXCEPT ![t] = [@ EXCEPT !.pc = "work", !.progress = 0, !.cur = NoStep]]
  /\ Return
  /\ UNCHANGED <<handle, req, up>>

\* Mutant: the artifact is attached without looking for it.
WorkArtifactRead_Always(t) ==
  /\ Serves(t) /\ loop[t].pc = "artifactRead"
  /\ Goes(t, "artifact") /\ Call(t, Others)
  /\ UNCHANGED <<tasks, active, handle, req, up>>

\* ensureArtifact attaches the one artifact of the model unless it is there.
WorkArtifactRead(t) ==
  /\ Serves(t) /\ loop[t].pc = "artifactRead"
  /\ IF tasks[t].artifacts > 0
     THEN Goes(t, "work") /\ Return
     ELSE Goes(t, "artifact") /\ Call(t, Others)
  /\ UNCHANGED <<tasks, active, handle, req, up>>

WorkArtifact(t) ==
  /\ Serves(t) /\ loop[t].pc = "artifact"
  /\ attachArtifact(t)
  /\ Goes(t, "work") /\ Return
  /\ UNCHANGED <<handle, req, up>>

\* ensureNotCancelled reads the task after looking at the handle.
WorkChecked(t) ==
  /\ Serves(t) /\ loop[t].pc = "check"
  /\ IF tasks[t].status = "cancelled" THEN Ends(t)
     ELSE Goes(t, "work") /\ UNCHANGED <<handle, req>>
  /\ Return
  /\ UNCHANGED <<tasks, active, up>>

\* waitIfPaused in the runner.
WorkParks(t) ==
  /\ up /\ loop[t].pc = "work" /\ handle[t].pause /\ ~handle[t].cancel
  /\ Goes(t, "workGate")
  /\ UNCHANGED <<tasks, active, queue, handle, req, up>>

\* waitIfPaused or ensureNotCancelled throws TaskCancelledError.
WorkCancelled(t) ==
  /\ up /\ loop[t].pc = "work" /\ handle[t].cancel
  /\ Ends(t)
  /\ UNCHANGED <<tasks, active, queue, up>>

\* executeStep returns; the loop reads the task again.
WorkDone(t) ==
  /\ up /\ loop[t].pc = "work"
  /\ Goes(t, "after") /\ Call(t, queue)
  /\ UNCHANGED <<tasks, active, handle, req, up>>

\* executeStep throws, or an event or a context read around it does.
LoopThrows(t) ==
  /\ up /\ loop[t].pc \in LoopFree \ {"failing"}
  /\ Leaves(t, "errorRead") /\ Call(t, queue)
  /\ UNCHANGED <<tasks, active, handle, req, up>>

-----------------------------------------------------------------------------
(* After the step. *)

\* Mutant: the step that has just run is not counted.
LoopAfterStep_NotCounted(t) ==
  /\ Serves(t) /\ loop[t].pc = "after"
  /\ tasks[t].status # "cancelled" /\ ~handle[t].cancel
  /\ loop' = [loop EXCEPT ![t] = [@ EXCEPT !.pc = "complete",
                                           !.progress = PercentDone(tasks[t], 0)]]
  /\ Call(t, Others)
  /\ UNCHANGED <<tasks, active, handle, req, up>>

LoopAfterStep(t) ==
  /\ Serves(t) /\ loop[t].pc = "after"
  /\ tasks[t].status # "cancelled" /\ ~handle[t].cancel
  /\ loop' = [loop EXCEPT ![t] = [@ EXCEPT !.pc = "complete",
                                           !.progress = PercentDone(tasks[t], 1)]]
  /\ Call(t, Others)
  /\ UNCHANGED <<tasks, active, handle, req, up>>

LoopAfterCancelled(t) ==
  /\ Serves(t) /\ loop[t].pc = "after"
  /\ tasks[t].status = "cancelled" \/ handle[t].cancel
  /\ Ends(t) /\ Return
  /\ UNCHANGED <<tasks, active, up>>

\* Mutant: the progress is reported but the step is not completed.
LoopComplete_OnlyReports(t) ==
  /\ Serves(t) /\ loop[t].pc = "complete"
  /\ updateTaskProgress(t, loop[t].progress, NoStep)
  /\ Leaves(t, "completed") /\ Return
  /\ UNCHANGED <<handle, req, up>>

LoopComplete(t) ==
  /\ Serves(t) /\ loop[t].pc = "complete"
  /\ completeStep(t, loop[t].progress)
  /\ Leaves(t, "completed") /\ Return
  /\ UNCHANGED <<handle, req, up>>

LoopNext(t) ==
  /\ up /\ loop[t].pc = "completed"
  /\ Goes(t, "head") /\ Call(t, queue)
  /\ UNCHANGED <<tasks, active, handle, req, up>>

\* completeTask, whatever the status of the task has become.
LoopFinish(t) ==
  /\ Serves(t) /\ loop[t].pc = "finish"
  /\ completeTask(t)
  /\ Goes(t, "ending") /\ Return
  /\ UNCHANGED <<handle, req, up>>

LoopErrorRead(t) ==
  /\ Serves(t) /\ loop[t].pc = "errorRead"
  /\ IF isTerminalStatus(tasks[t].status)
     THEN Ends(t) /\ Return
     ELSE Goes(t, "fail") /\ Call(t, Others) /\ UNCHANGED <<handle, req>>
  /\ UNCHANGED <<tasks, active, up>>

\* failTask; the handle stays registered until the failure is reported.
LoopFail(t) ==
  /\ Serves(t) /\ loop[t].pc = "fail"
  /\ failTask(t)
  /\ Goes(t, "failing") /\ Return
  /\ UNCHANGED <<handle, req, up>>

LoopEnds(t) ==
  /\ up /\ loop[t].pc \in {"ending", "failing"}
  /\ Ends(t)
  /\ UNCHANGED <<tasks, active, queue, up>>

LoopStep(t) ==
  \/ LoopFirstRead(t) \/ LoopHeadDone(t) \/ LoopHeadNoStep(t) \/ LoopHeadStep(t)
  \/ LoopWriteRefused(t) \/ LoopAdvance(t) \/ LoopEnters(t)
  \/ WorkMergeRead(t) \/ WorkMerge(t) \/ WorkArtifactRead(t) \/ WorkArtifact(t)
  \/ WorkChecked(t) \/ WorkCancelled(t)
  \/ LoopAfterStep(t) \/ LoopAfterCancelled(t) \/ LoopComplete(t) \/ LoopNext(t)
  \/ LoopFinish(t) \/ LoopErrorRead(t) \/ LoopFail(t) \/ LoopEnds(t)

\* What a runner decides, and what may fail around it.
LoopChoice(t) == WorkCalls(t) \/ WorkParks(t) \/ WorkDone(t) \/ LoopThrows(t)

-----------------------------------------------------------------------------
(* The calls of the API.  A request that finds a finished or unknown task   *)
(* where it must not throws and is over.                                    *)

Becomes(r, pc) == req' = [req EXCEPT ![r].pc = pc]
Over(r) == req' = [req EXCEPT ![r] = Idle]

Arrives(r, kind, pc, t) ==
  /\ up /\ req[r] = Idle /\ kind \in Kinds
  /\ req' = [req EXCEPT ![r] = [Idle EXCEPT !.pc = pc, !.task = t]]
  /\ Call(r, queue)
  /\ UNCHANGED <<tasks, active>>

\* requestPauseExecution: only a registered handle is told.
PauseRequested(t) == [handle EXCEPT ![t].pause = handle[t].live]

(* createTask pauses the execution of the session's active task, creates   *)
(* the new one (a research task pending, a browser task active, its first  *)
(* step the current one) and starts it unless autoStart is false.          *)
CreateCalled(r) ==
  \E t \in TaskIds :
    /\ ~Exists(t) /\ \A q \in Requests : req[q].task # t
    /\ Arrives(r, "create", "createRead", t)
    /\ UNCHANGED <<handle, loop, up>>

CreateRead(r) ==
  /\ Serves(r) /\ req[r].pc = "createRead"
  /\ \E previous \in resolveActiveTaskFromState(SessionOf[req[r].task]) :
       handle' = IF previous = NoTask THEN handle ELSE PauseRequested(previous)
  /\ Becomes(r, "create") /\ Call(r, Others)
  /\ UNCHANGED <<tasks, active, loop, up>>

Create(r) ==
  /\ Serves(r) /\ req[r].pc = "create"
  /\ \E status \in {"pending", "active"} :
       createTask(req[r].task, MaxSteps, status, 1, 0)
  /\ \/ Becomes(r, "created")
     \/ Over(r)
  /\ Return
  /\ UNCHANGED <<handle, loop, up>>

(* spawnExecution.                                                          *)
StartCalled(r) ==
  \E t \in TaskIds :
    /\ Exists(t)
    /\ Arrives(r, "start", "spawnRead", t)
    /\ UNCHANGED <<handle, loop, up>>

SpawnCalled(r) ==
  /\ up /\ req[r].pc = "created"
  /\ Becomes(r, "spawnRead") /\ Call(r, queue)
  /\ UNCHANGED <<tasks, active, handle, loop, up>>

\* Mutant: nobody looks whether the task has a handle.
TakesOver_Blind(r, rest) ==
  LET t == req[r].task IN
  /\ handle' = [handle EXCEPT ![t] = NewHandle]
  /\ \/ /\ ~req[r].quiet
        /\ Becomes(r, "starting") /\ queue' = rest /\ UNCHANGED loop
     \/ /\ req[r].quiet
        /\ Leaves(t, "first") /\ Over(r) /\ Call(t, rest)

\* A task that already has a handle is left to it, whatever the handle says.
\* Otherwise the handle is registered in the same stretch as this test; the
\* loop starts at once (quiet) or after the started event.
TakesOver(r, rest) ==
  LET t == req[r].task IN
  \/ /\ handle[t].live
     /\ Over(r) /\ queue' = rest
     /\ UNCHANGED <<handle, loop>>
  \/ /\ ~handle[t].live /\ ~req[r].quiet
     /\ handle' = [handle EXCEPT ![t] = NewHandle]
     /\ Becomes(r, "starting") /\ queue' = rest
     /\ UNCHANGED loop
  \/ /\ ~handle[t].live /\ req[r].quiet
     /\ handle' = [handle EXCEPT ![t] = NewHandle]
     /\ Leaves(t, "first") /\ Over(r) /\ Call(t, rest)

SpawnRead(r) ==
  LET status == tasks[req[r].task].status IN
  /\ Serves(r) /\ req[r].pc = "spawnRead"
  /\ \/ /\ isTerminalStatus(status)
        /\ Over(r) /\ Return /\ UNCHANGED <<handle, loop>>
     \/ /\ ~isTerminalStatus(status) /\ status # "active"
        /\ Becomes(r, "spawnResume") /\ Call(r, Others) /\ UNCHANGED <<handle, loop>>
     \/ status = "active" /\ TakesOver(r, Others)
  /\ UNCHANGED <<tasks, active, up>>

SpawnResume(r) ==
  /\ Serves(r) /\ req[r].pc = "spawnResume"
  /\ resumeTask(req[r].task)
  /\ Becomes(r, "spawn") /\ Return
  /\ UNCHANGED <<handle, loop, up>>

Spawn(r) ==
  /\ up /\ req[r].pc = "spawn"
  /\ TakesOver(r, queue)
  /\ UNCHANGED <<tasks, active, up>>

StartLoop(r) ==
  /\ up /\ req[r].pc = "starting"
  /\ Leaves(req[r].task, "first") /\ Over(r) /\ Call(req[r].task, queue)
  /\ UNCHANGED <<tasks, active, handle, up>>

\* The event is refused: the call throws and the handle stays registered.
StartFails(r) ==
  /\ StartEventFails
  /\ up /\ req[r].pc = "starting"
  /\ Over(r)
  /\ UNCHANGED <<tasks, active, queue, handle, loop, up>>

-----------------------------------------------------------------------------
(* pauseTask tells the handle at once and the task manager after a read.    *)

PauseCalled(r) ==
  \E t \in TaskIds :
    /\ Exists(t)
    /\ Arrives(r, "pause", "pauseRead", t)
    /\ handle' = PauseRequested(t)
    /\ UNCHANGED <<loop, up>>

PauseRead(r) ==
  LET status == tasks[req[r].task].status IN
  /\ Serves(r) /\ req[r].pc = "pauseRead"
  /\ IF isTerminalStatus(status) \/ status = "paused"
     THEN Over(r) /\ Return
     ELSE Becomes(r, "pause") /\ Call(r, Others)
  /\ UNCHANGED <<tasks, active, handle, loop, up>>

Pause(r) ==
  /\ Serves(r) /\ req[r].pc = "pause"
  /\ pauseTask(req[r].task)
  /\ Over(r) /\ Return
  /\ UNCHANGED <<handle, loop, up>>

(* resumeTask: with a handle, the pause request is withdrawn, the task     *)
(* resumed if it was not active, and the barrier of that handle released;  *)
(* without one, the task is resumed and a loop spawned.                    *)
ResumeCalled(r) ==
  \E t \in TaskIds :
    /\ Exists(t)
    /\ Arrives(r, "resume", "resumeRead", t)
    /\ UNCHANGED <<handle, loop, up>>

\* The barrier of t is released: a loop that still finds a pause requested
\* waits again, on a new barrier.
Released(t, pause, rest) ==
  \/ /\ loop[t].pc = "gate" /\ ~pause
     /\ Goes(t, "advance") /\ Call(t, rest)
  \/ /\ loop[t].pc = "workGate" /\ ~pause
     /\ Goes(t, "work") /\ queue' = rest
  \/ /\ loop[t].pc \notin LoopParked \/ pause
     /\ queue' = rest /\ UNCHANGED loop

ResumeRead(r) ==
  LET t == req[r].task
      status == tasks[t].status
  IN
  /\ Serves(r) /\ req[r].pc = "resumeRead"
  /\ \/ /\ isTerminalStatus(status)
        /\ Over(r) /\ Return /\ UNCHANGED <<handle, loop>>
     \/ /\ ~isTerminalStatus(status) /\ ~handle[t].live
        /\ req' = [req EXCEPT ![r] = [@ EXCEPT !.pc = "resumeNew", !.quiet = TRUE]]
        /\ Call(r, Others) /\ UNCHANGED <<handle, loop>>
     \/ /\ ~isTerminalStatus(status) /\ handle[t].live
        /\ handle' = [handle EXCEPT ![t].pause = FALSE]
        /\ \/ /\ status # "active"
              /\ req' = [req EXCEPT ![r] = [@ EXCEPT !.pc = "resumeHeld", !.held = TRUE]]
              /\ Call(r, Others) /\ UNCHANGED loop
           \/ /\ status = "active"
              /\ Released(t, FALSE, Others) /\ Over(r)
  /\ UNCHANGED <<tasks, active, up>>

\* No status is refused here: the one that was read may be stale.
Resume(r) ==
  /\ Serves(r)
  /\ resumeTask(req[r].task)
  /\ \/ req[r].pc = "resumeHeld" /\ Becomes(r, "release")
     \/ req[r].pc = "resumeNew" /\ Becomes(r, "created")
  /\ Return
  /\ UNCHANGED <<handle, loop, up>>

Release(r) ==
  LET t == req[r].task IN
  /\ up /\ req[r].pc = "release"
  /\ IF req[r].held THEN Released(t, handle[t].pause, queue) ELSE UNCHANGED <<loop, queue>>
  /\ Over(r)
  /\ UNCHANGED <<tasks, active, handle, up>>

-----------------------------------------------------------------------------
(* cancelTask tells the handle and releases its barrier at once: a loop     *)
(* parked before a step ends, one parked inside a step goes on to its next  *)
(* check.  The task manager is told after a read.                           *)

\* Mutant: the handle is told, but its barrier is not released.
CancelCalled_KeepsBarrier(r) ==
  \E t \in TaskIds :
    /\ Exists(t)
    /\ Arrives(r, "cancel", "cancelRead", t)
    /\ handle' = [handle EXCEPT ![t] =
         IF @.live THEN [@ EXCEPT !.pause = FALSE, !.cancel = TRUE] ELSE @]
    /\ UNCHANGED <<loop, up>>

CancelCalled(r) ==
  \E t \in TaskIds :
    /\ Exists(t)
    /\ up /\ req[r] = Idle /\ "cancel" \in Kinds
    /\ Call(r, queue)
    /\ LET called == [Idle EXCEPT !.pc = "cancelRead", !.task = t] IN
       IF loop[t].pc = "gate"
       THEN /\ loop' = [loop EXCEPT ![t] = NoLoop]
            /\ handle' = [handle EXCEPT ![t] = NoHandle]
            /\ req' = [q \in Requests |->
                 IF q = r THEN called
                 ELSE IF req[q].task = t THEN [req[q] EXCEPT !.held = FALSE] ELSE req[q]]
       ELSE /\ handle' = [handle EXCEPT ![t] =
                 IF @.live THEN [@ EXCEPT !.pause = FALSE, !.cancel = TRUE] ELSE @]
            /\ IF loop[t].pc = "workGate" THEN Goes(t, "work") ELSE UNCHANGED loop
            /\ req' = [req EXCEPT ![r] = called]
    /\ UNCHANGED <<tasks, active, up>>

CancelRead(r) ==
  /\ Serves(r) /\ req[r].pc = "cancelRead"
  /\ IF isTerminalStatus(tasks[req[r].task].status)
     THEN Over(r) /\ Return
     ELSE Becomes(r, "cancel") /\ Call(r, Others)
  /\ UNCHANGED <<tasks, active, handle, loop, up>>

Cancel(r) ==
  /\ Serves(r) /\ req[r].pc = "cancel"
  /\ cancelTask(req[r].task)
  /\ Over(r) /\ Return
  /\ UNCHANGED <<handle, loop, up>>

-----------------------------------------------------------------------------
(* Calls around the runtime.  The orchestrator stores a refinement of the   *)
(* active task with the progress and the current step it read some awaits   *)
(* earlier; the complete and fail endpoints go straight to the task manager.*)

RefineCalled(r) ==
  \E t \in TaskIds :
    /\ Exists(t)
    /\ Arrives(r, "refine", "refineRead", t)
    /\ UNCHANGED <<handle, loop, up>>

RefineRead(r) ==
  LET t == req[r].task IN
  /\ Serves(r) /\ req[r].pc = "refineRead"
  /\ IF t \in resolveActiveTaskFromState(SessionOf[t])
     THEN req' = [req EXCEPT ![r] = [@ EXCEPT !.pc = "refine",
                                              !.progress = tasks[t].progress,
                                              !.cur = tasks[t].cur]]
     ELSE Over(r)
  /\ Return
  /\ UNCHANGED <<tasks, active, handle, loop, up>>

\* Mutant: a task that has finished in the meantime is written back as well.
Refine_Unguarded(r) ==
  LET t == req[r].task IN
  /\ up /\ req[r].pc = "refine"
  /\ tasks' = [tasks EXCEPT ![t] =
       Worked(@, req[r].progress, ensureStepForPhase(@.steps, @.cur, req[r].cur), req[r].cur)]
  /\ PointTo(t) /\ Over(r)
  /\ UNCHANGED <<queue, handle, loop, up>>

Refine(r) ==
  LET t == req[r].task IN
  /\ up /\ req[r].pc = "refine"
  /\ \/ updateTaskProgress(t, req[r].progress, req[r].cur)
     \/ ~Unfinished(t) /\ UNCHANGED <<tasks, active>>
  /\ Over(r)
  /\ UNCHANGED <<queue, handle, loop, up>>

DirectCall(t) ==
  /\ up
  /\ \/ "complete" \in Kinds /\ completeTask(t)
     \/ "fail" \in Kinds /\ failTask(t)
  /\ UNCHANGED rtVars

-----------------------------------------------------------------------------
(* The agent stops at any moment: loops, handles and requests are gone.     *)
(* The queue loses at most a write nobody has seen.  On the next start,     *)
(* before it serves a request, recoverTasksOnStartup pauses the tasks that  *)
(* are still active.                                                        *)

Stops ==
  /\ up
  /\ queue' = <<>>
  /\ handle' = [t \in TaskIds |-> NoHandle]
  /\ loop' = [t \in TaskIds |-> NoLoop]
  /\ req' = [r \in Requests |-> Idle]
  /\ up' = FALSE
  /\ UNCHANGED <<tasks, active>>

Recovers(t) ==
  /\ ~up /\ tasks[t].status = "active"
  /\ pauseTask(t)
  /\ UNCHANGED rtVars

Starts ==
  /\ ~up /\ \A t \in TaskIds : tasks[t].status # "active"
  /\ up' = TRUE
  /\ UNCHANGED <<tasks, active, queue, handle, loop, req>>

-----------------------------------------------------------------------------
RequestArrives(r) ==
  \/ CreateCalled(r) \/ StartCalled(r) \/ PauseCalled(r) \/ ResumeCalled(r)
  \/ CancelCalled(r) \/ RefineCalled(r)

RequestStep(r) ==
  \/ CreateRead(r) \/ Create(r) \/ SpawnCalled(r) \/ SpawnRead(r) \/ SpawnResume(r)
  \/ Spawn(r) \/ StartLoop(r) \/ StartFails(r)
  \/ PauseRead(r) \/ Pause(r) \/ ResumeRead(r) \/ Resume(r) \/ Release(r)
  \/ CancelRead(r) \/ Cancel(r) \/ RefineRead(r) \/ Refine(r)

RuntimeInit ==
  /\ Init
  /\ queue = <<>>
  /\ handle = [t \in TaskIds |-> NoHandle]
  /\ loop = [t \in TaskIds |-> NoLoop]
  /\ req = [r \in Requests |-> Idle]
  /\ up = TRUE

Recovery == Starts \/ \E t \in TaskIds : Recovers(t)

RuntimeNext ==
  \/ \E t \in TaskIds : LoopStep(t) \/ LoopChoice(t) \/ DirectCall(t)
  \/ \E r \in Requests : RequestArrives(r) \/ RequestStep(r)
  \/ Stops \/ Recovery

RuntimeSpec == RuntimeInit /\ [][RuntimeNext]_vars

\* Every promise the program waits for settles: the store serves its queue,
\* requests and loops go on, and a runner's step sooner or later returns,
\* throws or waits (its fetches, searches and model calls time out).
RuntimeFairness ==
  /\ WF_vars(Recovery)
  /\ \A r \in Requests : WF_vars(RequestStep(r))
  /\ \A t \in TaskIds : WF_vars(LoopStep(t))
  /\ \A t \in TaskIds : SF_vars(WorkDone(t) \/ LoopThrows(t) \/ WorkParks(t))

FairRuntimeSpec == RuntimeSpec /\ RuntimeFairness

-----------------------------------------------------------------------------
(* Properties. *)

\* Seen from the task manager the runtime, its requests and its restarts are
\* nothing but the calls TaskManager specifies: what is proved of every sequence
\* of calls holds of the runtime.
ImplementsTaskManager == Spec

\* A task has one executor at a time: a running loop is in the executions map,
\* where pause and cancel find it, and while a call is about to start a loop no
\* other call is, and none runs (the has/set of spawnExecution stands between
\* two awaits).
OneExecutor ==
  /\ \A t \in TaskIds : loop[t].pc # "off" => handle[t].live
  /\ \A r \in Requests : req[r].pc = "starting" =>
       /\ handle[req[r].task].live /\ loop[req[r].task].pc = "off"
       /\ \A q \in Requests \ {r} :
            ~(req[q].pc = "starting" /\ req[q].task = req[r].task)

\* The executor's own records have the values the code gives them, and a task has
\* one executor.
RuntimeSound == RuntimeTypeOK /\ OneExecutor

\* A step that is not cancelled is marked completed only by the loop that has run
\* that very step: advancing to a step never completes another one on the way,
\* and the last completeTask of a loop finds none that was still to be done.  It
\* holds through pauses, resumptions, cancellations, failures and restarts when
\* calls come one at a time and none refines or completes a task.  A cancelled
\* step is exempt: the loop's last completeTask may stand behind a cancelTask in
\* the queue and completes what that has cancelled (CancelledStaysCancelled).
StepsCompleteByRunning ==
  [][\A t \in TaskIds, i \in StepIds :
       tasks[t].steps[i] \notin {"completed", "cancelled"} /\ tasks'[t].steps[i] = "completed"
         => loop[t].pc = "complete" /\ loop[t].step = i]_vars

\* "Progress is calculated from completed steps over total steps"
\* (docs/task-runtime.md:59): the percentage a loop computes from one read and
\* stores with a later write is still the share of completed steps then.
ProgressIsShareOfSteps ==
  \A t \in TaskIds : Exists(t) => tasks[t].progress = PercentDone(tasks[t], 0)

\* A resumed or restarted step attaches its artifact again without doubling it.
ArtifactOnce == \A t \in TaskIds : tasks[t].artifacts <= 1

\* A cancelled execution ends: its loop stops and its handle is unregistered.
CancelEnds == \A t \in TaskIds : handle[t].cancel ~> ~handle[t].live

\* A loop never runs for ever: it ends or waits to be resumed, whatever calls
\* and writes of others come in between its steps.
LoopSettles ==
  \A t \in TaskIds : loop[t].pc # "off" ~> loop[t].pc \in LoopParked \cup {"off"}

\* With one call at a time, a task that is paused in the store gets no further
\* step, also when it was paused only there, by resuming another task of the
\* session, and its handle was told nothing.
PausedGetsNoStep ==
  [][\A t \in TaskIds :
       tasks[t].status = "paused" /\ loop[t].pc # "advance" => loop'[t].pc # "advance"]_vars

-----------------------------------------------------------------------------
(* What the documentation and the tests say, and the code does not keep.    *)

\* "one active task per session" (README.md:610).
AtMostOneActive ==
  \A t, u \in TaskIds :
    tasks[t].status = "active" /\ tasks[u].status = "active"
      => t = u \/ SessionOf[t] # SessionOf[u]

\* "cancels a running task cleanly and does not mark it completed afterwards"
\* (task-runtime/src/index.test.ts:1457).
CancelledStaysCancelled ==
  [][\A t \in TaskIds : tasks[t].status = "cancelled" => tasks'[t].status # "completed"]_vars

\* A resumed task runs on (docs/task-runtime.md:71, "creates or resumes a
\* task"): no active task has a parked loop, unless a call about it is still
\* in flight.
ResumedRunsOn ==
  \A t \in TaskIds :
    tasks[t].status = "active" /\ loop[t].pc \in LoopParked
      => \E r \in Requests : req[r].pc # "idle"
=============================================================================
