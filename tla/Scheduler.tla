------------------------------ MODULE Scheduler ------------------------------
(***************************************************************************)
(* The scheduled tasks of packages/scheduler, BasicScheduler, and the      *)
(* calls of the agent server that run them.  Nothing runs by the clock: a  *)
(* run is a call that reads the task, lets the runner make a summary and   *)
(* records it; the task may have been switched, deleted or run by another  *)
(* call since it was read.  The profiles share its process, so that both   *)
(* files are read again by one start.                                      *)
(*                                                                         *)
(* The runner of the agent does not throw; a run fails when the disk       *)
(* refuses its record, which the copy in memory has then got, and it is    *)
(* recorded once more, as an error.                                        *)
(***************************************************************************)
EXTENDS Profiles

CONSTANTS
  TaskIds,   \* ids of scheduled tasks
  NoTask,
  Calls      \* the calls that run tasks

VARIABLES
  tasks,     \* by id; NoTask where there is none
  created,   \* the ids that were given; none is given twice
  tasksFile, \* the tasks as they are on the disk
  calls

vars == <<profileVars, tasks, tasksFile, created, calls>>

Cadences == {"manual", "once", "daily"}

\* `again` notes that the user has switched the task on since its last run.
Tasks ==
  [cadence : Cadences, scheduleAt : {"never", "given"}, enabled : BOOLEAN,
   nextRunAt : {"never", "given", "tomorrow"}, lastRun : {"never", "success", "error"},
   again : BOOLEAN]

ASSUME SchedulerAssumption == NoTask \notin TaskIds \cup Tasks

Exists(t) == tasks[t] # NoTask

Idle == [pc |-> "idle", task |-> NoTask]

\* Mutant: a task that is switched off is planned as well.
computeNextRun_Always(task) ==
  CASE task.cadence = "once" -> task.scheduleAt
    [] task.cadence = "daily" -> "tomorrow"
    [] OTHER -> "never"

computeNextRun(task) ==
  CASE task.enabled /\ task.cadence = "once" -> task.scheduleAt
    [] task.enabled /\ task.cadence = "daily" -> "tomorrow"
    [] OTHER -> "never"

-----------------------------------------------------------------------------
(* The user's tasks. *)

\* Also a task that is switched off, or that has no cadence, gets its date.
createTask(t, cadence, scheduleAt, enabled) ==
  /\ t \notin created
  /\ created' = created \cup {t}
  /\ tasks' = [tasks EXCEPT ![t] =
       [cadence |-> cadence, scheduleAt |-> scheduleAt, enabled |-> enabled,
        nextRunAt |-> scheduleAt, lastRun |-> "never", again |-> FALSE]]

\* The next run is computed from the task as it was before it was switched.
setTaskEnabled(t, enabled) ==
  /\ Exists(t)
  /\ tasks' = [tasks EXCEPT ![t] =
       [@ EXCEPT !.enabled = enabled, !.again = tasks[t].again \/ enabled,
                 !.nextRunAt = IF enabled THEN computeNextRun(tasks[t]) ELSE "never"]]
  /\ UNCHANGED created

deleteTask(t) ==
  /\ Exists(t)
  /\ tasks' = [tasks EXCEPT ![t] = NoTask]
  /\ UNCHANGED created

-----------------------------------------------------------------------------
(* A call that runs a task. *)

\* An unknown task is refused; a task that is switched off is not.
RunReads(c, t) ==
  /\ calls[c].pc = "idle" /\ Exists(t)
  /\ calls' = [calls EXCEPT ![c] = [pc |-> "ran", task |-> t]]
  /\ UNCHANGED <<tasks, tasksFile>>

\* A task that was deleted since is left alone.
Recorded(c, task) ==
  LET t == calls[c].task IN
  tasks' = IF Exists(t) THEN [tasks EXCEPT ![t] = task] ELSE tasks

\* A task that was to run once is switched off.
Ran(task) ==
  IF task.cadence = "once"
  THEN [task EXCEPT !.enabled = FALSE, !.nextRunAt = "never", !.lastRun = "success", !.again = FALSE]
  ELSE [task EXCEPT !.nextRunAt = computeNextRun(task), !.lastRun = "success", !.again = FALSE]

\* The disk takes the record.
RecordsSuccess(c) ==
  /\ calls[c].pc = "ran"
  /\ Recorded(c, Ran(tasks[calls[c].task]))
  /\ tasksFile' = tasks'
  /\ calls' = [calls EXCEPT ![c] = Idle]

\* It refuses the record; the copy in memory has it.
RecordRefused(c) ==
  /\ calls[c].pc = "ran"
  /\ Recorded(c, Ran(tasks[calls[c].task]))
  /\ calls' = [calls EXCEPT ![c].pc = "failed"]
  /\ UNCHANGED tasksFile

\* It may refuse the error as well, which then goes to the caller.
RecordsError(c) ==
  /\ calls[c].pc = "failed"
  /\ Recorded(c, [tasks[calls[c].task] EXCEPT !.lastRun = "error"])
  /\ tasksFile' \in {tasksFile, tasks'}
  /\ calls' = [calls EXCEPT ![c] = Idle]

RunStep(c) ==
  \/ RecordsSuccess(c) \/ RecordRefused(c) \/ RecordsError(c)
  \/ \E t \in TaskIds : RunReads(c, t)

-----------------------------------------------------------------------------

Init ==
  /\ ProfilesInit
  /\ tasks = [t \in TaskIds |-> NoTask] /\ created = {}
  /\ tasksFile = tasks
  /\ calls = [c \in Calls |-> Idle]

TasksNext ==
  /\ \E t \in TaskIds :
       \/ \E cadence \in Cadences, scheduleAt \in {"never", "given"}, enabled \in BOOLEAN :
            createTask(t, cadence, scheduleAt, enabled)
       \/ \E enabled \in BOOLEAN : setTaskEnabled(t, enabled)
       \/ deleteTask(t)
  /\ tasksFile' \in {tasksFile, tasks'}

\* The agent stops, with whatever was at work, and starts again from its files.
Restarts ==
  /\ ProfilesRead
  /\ tasks' = tasksFile
  /\ calls' = [c \in Calls |-> Idle]
  /\ UNCHANGED <<tasksFile, created>>

Next ==
  \/ ProfilesNext /\ UNCHANGED <<tasks, tasksFile, created, calls>>
  \/ TasksNext /\ UNCHANGED <<profileVars, calls>>
  \/ \E c \in Calls : RunStep(c) /\ UNCHANGED <<profileVars, created>>
  \/ Restarts

Spec == Init /\ [][Next]_vars

-----------------------------------------------------------------------------
(* Properties. *)

TypeOK ==
  /\ profiles \in [ProfileIds -> [isActive : BOOLEAN] \cup {NoProfile}]
  /\ activeProfileId \in ProfileIds \cup {NoProfile}
  /\ tasks \in [TaskIds -> Tasks \cup {NoTask}] /\ created \subseteq TaskIds
  /\ calls \in [Calls -> [pc : {"idle", "ran", "failed"}, task : TaskIds \cup {NoTask}]]

\* A task that was to run once is over when its last run succeeded: it is switched
\* off and has no date, unless the user has switched it on since; also after a
\* start from a file that missed the last records.
OnceIsOver ==
  \A t \in TaskIds :
    Exists(t) /\ tasks[t].cadence = "once" /\ tasks[t].lastRun = "success" /\ ~tasks[t].again
      => ~tasks[t].enabled /\ tasks[t].nextRunAt = "never"

\* What the two stores hold: records of their shape, one profile that is the active
\* one, and tasks that run once.
StoresSound == TypeOK /\ MarkFollowsPointer /\ OnceIsOver

\* A run records what it did and nothing else: it brings no task back that was
\* deleted since it was read, switches none on, and plans none that is off.
RunsOnlyRecord ==
  [][calls' # calls /\ ~Restarts =>
       \A t \in TaskIds :
         Exists(t)' => /\ Exists(t)
                       /\ tasks'[t].enabled => tasks[t].enabled
                       /\ tasks'[t].nextRunAt \in {tasks[t].nextRunAt, "never"}
                          \/ tasks'[t].enabled]_vars
=============================================================================
