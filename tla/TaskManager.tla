----------------------------- MODULE TaskManager -----------------------------
(***************************************************************************)
(* The task manager of packages/task-manager: the persisted truth about    *)
(* the long-running tasks of every chat session (tasks.json).              *)
(*                                                                         *)
(* Every operation is one store.update, which the JSON file store runs     *)
(* under its exclusive queue, so every operation is one atomic action      *)
(* here.  A call the code rejects by throwing changes nothing and is not   *)
(* an action.  Labels, timestamps, plans and metadata are left out; the    *)
(* order of the steps of a task is the order of their numbers.             *)
(***************************************************************************)
EXTENDS Integers

CONSTANTS
  TaskIds,      \* identifiers a createTask call may hand out
  Sessions,     \* chat sessions
  SessionOf,    \* the session every identifier is handed out to
  NoTask,       \* "no entry" in activeTaskIdsBySession
  MaxSteps,     \* a task has at most this many steps
  MaxArtifacts, \* bound on the artifacts attached to a task
  Progress      \* the percentages callers report

NoStep == 0        \* currentStepId is undefined
NullProgress == -1 \* progressPercent is null
KeepProgress == -2 \* the caller leaves progressPercent out

ASSUME TaskManagerAssumption ==
  /\ SessionOf \in [TaskIds -> Sessions]
  /\ NoTask \notin TaskIds
  /\ MaxSteps \in Nat
  /\ MaxArtifacts \in Nat
  /\ Progress \subseteq 0..100

VARIABLES
  tasks,  \* the task records, by identifier
  active  \* activeTaskIdsBySession: the task a session is working on

tmVars == <<tasks, active>>

StepIds == 1..MaxSteps

StepStatuses ==
  {"absent", "pending", "active", "paused", "completed", "cancelled", "blocked"}

TerminalStatuses == {"completed", "failed", "cancelled"}
CurrentStatuses == {"pending", "active", "paused", "blocked"}
Statuses == {"absent"} \cup CurrentStatuses \cup TerminalStatuses

ProgressStates == 0..100 \cup {NullProgress}

TaskRecords ==
  [status    : Statuses,
   steps     : [StepIds -> StepStatuses],
   cur       : StepIds \cup {NoStep},
   progress  : ProgressStates,
   artifacts : 0..MaxArtifacts]

NoRecord ==
  [status |-> "absent", steps |-> [i \in StepIds |-> "absent"],
   cur |-> NoStep, progress |-> NullProgress, artifacts |-> 0]

-----------------------------------------------------------------------------
(* What the operations compute from one task record. *)

isTerminalStatus(status) == status \in TerminalStatuses

isCurrentTaskStatus(status) == status \in CurrentStatuses

Exists(t) == tasks[t].status # "absent"

Unfinished(t) == Exists(t) /\ ~isTerminalStatus(tasks[t].status)

TasksOf(s) == {t \in TaskIds : SessionOf[t] = s}

\* The steps of a new task: only a task that is created active has an active
\* step, the given current one or else the first.
normalizeSteps(count, status, cur) ==
  LET first == IF cur # NoStep THEN cur ELSE 1
  IN  [i \in StepIds |->
         IF i > count THEN "absent"
         ELSE IF status = "active" /\ i = first THEN "active" ELSE "pending"]

buildTask(count, status, cur, progress) ==
  [status |-> status, steps |-> normalizeSteps(count, status, cur),
   cur |-> IF cur # NoStep THEN cur
           ELSE IF status = "active" /\ count > 0 THEN 1 ELSE NoStep,
   progress |-> progress, artifacts |-> 0]

\* The current step, when the task has one, is completed.
completeCurrentStep(task) ==
  [i \in StepIds |->
     IF i = task.cur /\ task.steps[i] # "absent" THEN "completed"
     ELSE task.steps[i]]

\* Mutant: the displaced step stays active.
ensureStepForPhase_LeavesActive(steps, cur, step) ==
  IF step = NoStep THEN steps ELSE [i \in StepIds |-> IF i = step THEN "active" ELSE steps[i]]

\* The steps after the caller named a step: it becomes the active one (and is
\* appended when the task does not have it), and the active step it displaces
\* counts as completed.
ensureStepForPhase(steps, cur, step) ==
  IF step = NoStep THEN steps
  ELSE [i \in StepIds |->
          IF i = step THEN "active"
          ELSE IF i = cur /\ steps[i] = "active" THEN "completed"
          ELSE steps[i]]

\* A task has the steps 1..n: a step it does not have can only be the next one.
Nameable(task, step) ==
  \/ step = NoStep
  \/ \A i \in StepIds : i < step => task.steps[i] # "absent"

\* Mutant: only the step that is being worked on is settled.
markSteps_OnlyActive(steps, status) ==
  [i \in StepIds |-> IF steps[i] = "active" THEN status ELSE steps[i]]

markSteps(steps, status) ==
  [i \in StepIds |->
     IF steps[i] \in {"absent", "completed"} THEN steps[i] ELSE status]

\* The steps of a task whose status becomes `status`: a terminal status settles
\* every step, pausing and resuming touch the current one.
stepsAfterStatus(task, status) ==
  IF isTerminalStatus(status)
  THEN markSteps(task.steps, IF status = "failed" THEN "blocked" ELSE status)
  ELSE [i \in StepIds |->
          IF i = task.cur /\ IF status = "paused" THEN task.steps[i] = "active"
                             ELSE task.steps[i] \notin {"absent", "completed"}
          THEN status ELSE task.steps[i]]

Started(status) == IF status = "pending" THEN "active" ELSE status

Reported(task, progress) ==
  IF progress = KeepProgress THEN task.progress ELSE progress

\* The record after a write about the work on a task: a pending task becomes
\* active, every other status stays.
Worked(task, progress, steps, cur) ==
  [task EXCEPT !.status = Started(task.status),
               !.progress = Reported(task, progress),
               !.steps = steps,
               !.cur = cur]

Named(task, step) == IF step = NoStep THEN task.cur ELSE step

\* resolveActiveTaskFromState: the task the session points to while it is
\* unfinished, else the unfinished task of the session with the latest
\* updatedAt.  updatedAt is a wall-clock millisecond taken before the store
\* operation is queued, so which one that is is left open.
resolveActiveTaskFromState(s) ==
  LET current == {t \in TasksOf(s) : isCurrentTaskStatus(tasks[t].status)}
  IN  IF active[s] \in current THEN {active[s]}
      ELSE IF current = {} THEN {NoTask} ELSE current

\* The records when task t becomes `record` and `previous`, if it is another
\* task, is paused to make room for it (only its status changes).
InsteadOf(t, record, previous) ==
  [u \in TaskIds |->
     IF u = t THEN record
     ELSE IF u = previous THEN [tasks[u] EXCEPT !.status = "paused"]
     ELSE tasks[u]]

PointTo(t) == active' = [active EXCEPT ![SessionOf[t]] = t]

-----------------------------------------------------------------------------
(* The operations of BaseTaskManager. *)

Init ==
  /\ tasks = [t \in TaskIds |-> NoRecord]
  /\ active = [s \in Sessions |-> NoTask]

createTask(t, count, status, cur, progress) ==
  /\ ~Exists(t)
  /\ \E previous \in resolveActiveTaskFromState(SessionOf[t]) :
       tasks' = InsteadOf(t, buildTask(count, status, cur, progress), previous)
  /\ PointTo(t)

updateTaskProgress(t, progress, step) ==
  LET task == tasks[t] IN
  /\ Unfinished(t)
  /\ Nameable(task, step)
  /\ tasks' = [tasks EXCEPT ![t] =
       Worked(task, progress, ensureStepForPhase(task.steps, task.cur, step),
              Named(task, step))]
  /\ PointTo(t)

advanceTaskPhase(t, progress, step) ==
  LET task == tasks[t]
      completed == completeCurrentStep(task)
  IN
  /\ Unfinished(t)
  /\ Nameable(task, step)
  /\ tasks' = [tasks EXCEPT ![t] =
       Worked(task, progress, ensureStepForPhase(completed, task.cur, step),
              Named(task, step))]
  /\ PointTo(t)

completeStep(t, progress) ==
  LET task == tasks[t] IN
  /\ Unfinished(t)
  /\ tasks' = [tasks EXCEPT ![t] =
       Worked(task, progress, completeCurrentStep(task), NoStep)]
  /\ PointTo(t)

\* An artifact can be attached to a finished task, and attaching one does not
\* make the task the current one of its session.
attachArtifact(t) ==
  /\ Exists(t)
  /\ tasks[t].artifacts < MaxArtifacts
  /\ tasks' = [tasks EXCEPT ![t].artifacts = @ + 1]
  /\ UNCHANGED active

\* updateStatus: note that no status is refused, whatever the present one is.
WithStatus(task, status) ==
  [task EXCEPT !.status = status,
               !.steps = stepsAfterStatus(task, status),
               !.progress = IF status = "completed" THEN 100 ELSE @]

pauseTask(t) ==
  /\ Exists(t)
  /\ tasks' = [tasks EXCEPT ![t] = WithStatus(@, "paused")]
  /\ PointTo(t)

\* Mutant: resuming a task does not pause the one it replaces.
resumeTask_NoPause(t) ==
  /\ Exists(t)
  /\ tasks' = [tasks EXCEPT ![t] = WithStatus(@, "active")]
  /\ PointTo(t)

resumeTask(t) ==
  /\ Exists(t)
  /\ \E previous \in resolveActiveTaskFromState(SessionOf[t]) :
       tasks' = InsteadOf(t, WithStatus(tasks[t], "active"), previous)
  /\ PointTo(t)

\* Mutant: the session keeps pointing to the finished task.
Finish_KeepsPointer(t, status) ==
  /\ Exists(t)
  /\ tasks' = [tasks EXCEPT ![t] = WithStatus(@, status)]
  /\ UNCHANGED active

Finish(t, status) ==
  /\ Exists(t)
  /\ tasks' = [tasks EXCEPT ![t] = WithStatus(@, status)]
  /\ active' = [active EXCEPT ![SessionOf[t]] = IF @ = t THEN NoTask ELSE @]

cancelTask(t) == Finish(t, "cancelled")
completeTask(t) == Finish(t, "completed")
failTask(t) == Finish(t, "failed")

-----------------------------------------------------------------------------
(* Writes that name the task they are about, and move the session's pointer *)
(* to it without pausing the task the pointer leaves.                       *)

StepWrite(t) ==
  \/ \E p \in Progress \cup {NullProgress}, i \in StepIds \cup {NoStep} :
       updateTaskProgress(t, p, i)
  \/ \E p \in Progress \cup {NullProgress, KeepProgress},
        i \in StepIds \cup {NoStep} : advanceTaskPhase(t, p, i)
  \/ \E p \in Progress \cup {NullProgress, KeepProgress} : completeStep(t, p)

Lifecycle(t) ==
  \/ \E count \in 0..MaxSteps, status \in {"pending", "active"},
        cur \in StepIds \cup {NoStep}, p \in Progress \cup {NullProgress} :
       createTask(t, count, status, cur, p)
  \/ resumeTask(t)
  \/ cancelTask(t)
  \/ completeTask(t)
  \/ failTask(t)

Next == \E t \in TaskIds : StepWrite(t) \/ Lifecycle(t) \/ pauseTask(t) \/ attachArtifact(t)

Spec == Init /\ [][Next]_tmVars

\* The same task manager, used by callers that pause and report progress only
\* on the task their session points to.
OnCurrent(t) == active[SessionOf[t]] = t

CurrentTaskNext ==
  \E t \in TaskIds :
    \/ OnCurrent(t) /\ (StepWrite(t) \/ pauseTask(t))
    \/ Lifecycle(t)
    \/ attachArtifact(t)

CurrentTaskSpec == Init /\ [][CurrentTaskNext]_tmVars

-----------------------------------------------------------------------------
(* Properties. *)

\* The store only ever holds well-formed records and pointers (the shape
\* TaskStoreShape declares).
TypeOK ==
  /\ tasks \in [TaskIds -> TaskRecords]
  /\ active \in [Sessions -> TaskIds \cup {NoTask}]

\* A session's pointer never dangles: it names an existing, unfinished task of
\* that very session, whatever the order of lifecycle calls (the pointer that
\* updateStatus deletes and every other operation sets).
PointerSound ==
  \A s \in Sessions :
    active[s] # NoTask =>
      SessionOf[active[s]] = s /\ isCurrentTaskStatus(tasks[active[s]].status)

\* A task works on one step at a time: a step is active only while the task's
\* currentStepId names it, although five operations move the one or the other.
ActiveStepIsCurrent ==
  \A t \in TaskIds, i \in StepIds :
    tasks[t].steps[i] = "active" => tasks[t].cur = i

\* A finished task is settled, even after it was finished twice: completed
\* means 100 percent and no step left over, cancelled and failed leave no step
\* that still looks as if it would run.
FinishedIsSettled ==
  \A t \in TaskIds, i \in StepIds :
    LET step == tasks[t].steps[i] IN
    /\ tasks[t].status = "completed" =>
         tasks[t].progress = 100 /\ step \in {"absent", "completed"}
    /\ tasks[t].status = "cancelled" => step \in {"absent", "completed", "cancelled"}
    /\ tasks[t].status = "failed" => step \in {"absent", "completed", "blocked"}

\* No operation on a task of one session reaches a task or the pointer of
\* another session (createTask and resumeTask pause a task they look up).
SessionsAreIsolated ==
  [][\A s, r \in Sessions :
       \/ s = r
       \/ active'[s] = active[s] /\ (\A t \in TasksOf(s) : tasks'[t] = tasks[t])
       \/ active'[r] = active[r] /\ (\A t \in TasksOf(r) : tasks'[t] = tasks[t])]_tmVars

\* "One active task per session" (README.md:610): the active task of a session
\* is the one its pointer names, so there is at most one.  It holds for callers
\* that follow CurrentTaskSpec.
SingleActive ==
  \A t \in TaskIds : tasks[t].status = "active" => active[SessionOf[t]] = t

=============================================================================
