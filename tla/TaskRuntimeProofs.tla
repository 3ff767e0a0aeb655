-------------------------- MODULE TaskRuntimeProofs --------------------------
(* Machine-checked proofs about TaskManager, for any sets of tasks and       *)
(* sessions, any number of steps and any progress values, and about the      *)
(* TaskRuntime that calls it, for any concurrent requests, with restarts.    *)
EXTENDS TaskRuntime, TLAPS, FiniteSetTheorems, NaturalsInduction, WellFoundedInduction

-----------------------------------------------------------------------------
(* THE TASK MANAGER, by itself. *)

-----------------------------------------------------------------------------
(* The operators on one record return a record. *)

\* A new task is a well-formed record, whatever steps and current step the
\* caller of createTask names.
LEMMA BuildTaskType ==
  ASSUME TaskManagerAssumption, NEW count \in 0..MaxSteps,
         NEW status \in {"pending", "active"}, NEW cur \in StepIds \cup {NoStep},
         NEW p \in Progress \cup {NullProgress}
  PROVE  buildTask(count, status, cur, p) \in TaskRecords
  <1>1. normalizeSteps(count, status, cur) \in [StepIds -> StepStatuses]
    BY DEF normalizeSteps, StepStatuses
  <1>2. count > 0 => 1 \in StepIds
    BY DEF TaskManagerAssumption, StepIds
  <1>3. p \in ProgressStates /\ 0 \in 0..MaxArtifacts
    BY DEF TaskManagerAssumption, ProgressStates, NullProgress
  <1> QED
    BY <1>1, <1>2, <1>3
    DEF buildTask, TaskRecords, Statuses, CurrentStatuses, NoStep

\* Naming a step and completing the current one keep the step table well formed.
LEMMA StepOpsType ==
  ASSUME NEW task \in TaskRecords, NEW i \in StepIds \cup {NoStep}
  PROVE  /\ completeCurrentStep(task) \in [StepIds -> StepStatuses]
         /\ ensureStepForPhase(task.steps, task.cur, i) \in [StepIds -> StepStatuses]
         /\ ensureStepForPhase(completeCurrentStep(task), task.cur, i)
              \in [StepIds -> StepStatuses]
  <1>1. task.steps \in [StepIds -> StepStatuses]
    BY DEF TaskRecords
  <1>2. completeCurrentStep(task) \in [StepIds -> StepStatuses]
    BY <1>1 DEF completeCurrentStep, StepStatuses
  <1>3. ASSUME NEW f \in [StepIds -> StepStatuses]
        PROVE  ensureStepForPhase(f, task.cur, i) \in [StepIds -> StepStatuses]
    BY DEF ensureStepForPhase, StepStatuses
  <1> QED
    BY <1>1, <1>2, <1>3

\* updateStatus turns a record into a record, for the five statuses it is
\* called with.
LEMMA WithStatusType ==
  ASSUME NEW task \in TaskRecords,
         NEW status \in {"active", "paused", "completed", "failed", "cancelled"}
  PROVE  /\ WithStatus(task, status) \in TaskRecords
         /\ WithStatus(task, status).status = status
         /\ WithStatus(task, status).cur = task.cur
         /\ WithStatus(task, status).steps = stepsAfterStatus(task, status)
  <1>1. stepsAfterStatus(task, status) \in [StepIds -> StepStatuses]
    <2>1. task.steps \in [StepIds -> StepStatuses]
      BY DEF TaskRecords
    <2> QED
      BY <2>1
      DEF stepsAfterStatus, markSteps, StepStatuses, isTerminalStatus, TerminalStatuses
  <1>2. 100 \in ProgressStates
    BY DEF ProgressStates
  <1> QED
    BY <1>1, <1>2
    DEF WithStatus, TaskRecords, Statuses, CurrentStatuses, TerminalStatuses

\* A write about the work on a task turns a record into a record.
LEMMA WorkedType ==
  ASSUME TaskManagerAssumption, NEW task \in TaskRecords,
         NEW p \in Progress \cup {NullProgress, KeepProgress},
         NEW steps \in [StepIds -> StepStatuses], NEW cur \in StepIds \cup {NoStep}
  PROVE  Worked(task, p, steps, cur) \in TaskRecords
  <1>1. Reported(task, p) \in ProgressStates
    BY DEF Reported, ProgressStates, TaskRecords, TaskManagerAssumption,
           NullProgress, KeepProgress
  <1>2. Started(task.status) \in Statuses
    BY DEF Started, TaskRecords, Statuses, CurrentStatuses
  <1> QED
    BY <1>1, <1>2 DEF Worked, TaskRecords

\* What resolveActiveTaskFromState can answer: an unfinished task of the
\* session, or nothing.
LEMMA ResolvedTask ==
  ASSUME NEW s \in Sessions, NEW previous \in resolveActiveTaskFromState(s)
  PROVE  \/ previous = NoTask
         \/ /\ previous \in TaskIds /\ SessionOf[previous] = s
            /\ isCurrentTaskStatus(tasks[previous].status)
  BY DEF resolveActiveTaskFromState, TasksOf

-----------------------------------------------------------------------------
(* Type correctness. *)

\* One step of any operation keeps the store well formed.
LEMMA StepKeepsType ==
  ASSUME TaskManagerAssumption, TypeOK, Next PROVE TypeOK'
  <1> USE DEF TypeOK
  <1>0. \A t \in TaskIds : SessionOf[t] \in Sessions
    BY DEF TaskManagerAssumption
  <1>1. PICK t \in TaskIds :
          StepWrite(t) \/ Lifecycle(t) \/ pauseTask(t) \/ attachArtifact(t)
    BY DEF Next
  <1>2. ASSUME PointTo(t) PROVE active' \in [Sessions -> TaskIds \cup {NoTask}]
    BY <1>0, <1>2 DEF PointTo
  <1>3. ASSUME NEW record \in TaskRecords, NEW previous,
               tasks' = InsteadOf(t, record, previous)
        PROVE  tasks' \in [TaskIds -> TaskRecords]
    <2>1. \A u \in TaskIds : [tasks[u] EXCEPT !.status = "paused"] \in TaskRecords
      BY DEF TaskRecords, Statuses, CurrentStatuses
    <2> QED
      BY <1>3, <2>1 DEF InsteadOf
  <1>4. tasks[t] \in TaskRecords
    OBVIOUS
  <1>7. CASE StepWrite(t)
    <2> DEFINE task == tasks[t]
    <2>0. \A i \in StepIds \cup {NoStep} : Named(task, i) \in StepIds \cup {NoStep}
      BY <1>4 DEF Named, TaskRecords
    <2>1. ASSUME NEW p \in Progress \cup {NullProgress},
                 NEW i \in StepIds \cup {NoStep}, updateTaskProgress(t, p, i)
          PROVE  TypeOK'
      BY <1>2, <1>4, <2>0, <2>1, StepOpsType, WorkedType DEF updateTaskProgress
    <2>2. ASSUME NEW p \in Progress \cup {NullProgress, KeepProgress},
                 NEW i \in StepIds \cup {NoStep}, advanceTaskPhase(t, p, i)
          PROVE  TypeOK'
      BY <1>2, <1>4, <2>0, <2>2, StepOpsType, WorkedType DEF advanceTaskPhase
    <2>3. ASSUME NEW p \in Progress \cup {NullProgress, KeepProgress},
                 completeStep(t, p)
          PROVE  TypeOK'
      BY <1>2, <1>4, <2>3, StepOpsType, WorkedType DEF completeStep
    <2> QED
      BY <1>7, <2>1, <2>2, <2>3 DEF StepWrite
  <1>8. CASE Lifecycle(t)
    <2>1. ASSUME NEW count \in 0..MaxSteps, NEW status \in {"pending", "active"},
                 NEW cur \in StepIds \cup {NoStep},
                 NEW p \in Progress \cup {NullProgress},
                 createTask(t, count, status, cur, p)
          PROVE  TypeOK'
      BY <1>2, <1>3, <2>1, BuildTaskType DEF createTask
    <2>2. CASE resumeTask(t)
      BY <1>2, <1>3, <2>2, WithStatusType DEF resumeTask
    <2>3. ASSUME NEW status \in {"completed", "failed", "cancelled"},
                 Finish(t, status)
          PROVE  TypeOK'
      BY <1>0, <2>3, WithStatusType DEF Finish
    <2>4. CASE cancelTask(t) \/ completeTask(t) \/ failTask(t)
      BY <2>3, <2>4 DEF cancelTask, completeTask, failTask
    <2> QED
      BY <1>8, <2>1, <2>2, <2>4 DEF Lifecycle
  <1>9. CASE pauseTask(t)
    BY <1>2, <1>9, WithStatusType DEF pauseTask
  <1>10. CASE attachArtifact(t)
    <2>1. tasks[t].artifacts \in 0..MaxArtifacts /\ tasks[t].artifacts < MaxArtifacts
      BY <1>4, <1>10 DEF attachArtifact, TaskRecords
    <2>2. tasks[t].artifacts + 1 \in 0..MaxArtifacts
      BY <2>1 DEF TaskManagerAssumption
    <2>3. [tasks[t] EXCEPT !.artifacts = @ + 1] \in TaskRecords
      BY <1>4, <2>2 DEF TaskRecords
    <2> QED
      BY <1>10, <2>3 DEF attachArtifact
  <1> QED
    BY <1>1, <1>7, <1>8, <1>9, <1>10

\* The empty store of a first start is well formed.
LEMMA InitType == ASSUME TaskManagerAssumption, Init PROVE TypeOK
  <1>1. NoRecord \in TaskRecords
    BY DEF NoRecord, TaskRecords, Statuses, StepStatuses, ProgressStates, NoStep,
           NullProgress, TaskManagerAssumption
  <1> QED
    BY <1>1 DEF Init, TypeOK

\* Type correctness: every operation of the task manager keeps tasks.json well
\* formed.
THEOREM TypeCorrect == Spec => []TypeOK
  <1>1. Init => TypeOK
    BY InitType, TaskManagerAssumption
  <1>2. TypeOK /\ [Next]_tmVars => TypeOK'
    <2>1. TypeOK /\ UNCHANGED tmVars => TypeOK'
      BY DEF TypeOK, tmVars
    <2> QED
      BY <2>1, StepKeepsType, TaskManagerAssumption
  <1> QED
    BY <1>1, <1>2, PTL DEF Spec

-----------------------------------------------------------------------------
(* What an operation on task t can do to the rest of the store. *)

Operation(t) == StepWrite(t) \/ Lifecycle(t) \/ pauseTask(t) \/ attachArtifact(t)

\* Every other task keeps its record, except that one unfinished task of the
\* same session may be paused; the pointer moves to t, leaves t, or stays.
LEMMA OperationShape ==
  ASSUME TaskManagerAssumption, TypeOK, NEW t \in TaskIds, Operation(t)
  PROVE
    /\ \E previous :
         /\ \/ previous = NoTask
            \/ /\ previous \in TaskIds /\ SessionOf[previous] = SessionOf[t]
               /\ isCurrentTaskStatus(tasks[previous].status)
         /\ \A u \in TaskIds \ {t} :
              tasks'[u] = IF u = previous THEN [tasks[u] EXCEPT !.status = "paused"]
                          ELSE tasks[u]
    /\ \/ PointTo(t) /\ isCurrentTaskStatus(tasks'[t].status)
       \/ active' = [active EXCEPT ![SessionOf[t]] = IF @ = t THEN NoTask ELSE @]
       \/ active' = active /\ tasks'[t].status = tasks[t].status
  <1> USE DEF TypeOK
  <1>0. tasks[t] \in TaskRecords /\ SessionOf[t] \in Sessions /\ NoTask \notin TaskIds
    BY DEF TaskManagerAssumption
  <1>1. ASSUME StepWrite(t) \/ pauseTask(t) \/ attachArtifact(t)
                \/ cancelTask(t) \/ completeTask(t) \/ failTask(t)
        PROVE  \A u \in TaskIds \ {t} : tasks'[u] = tasks[u]
    BY <1>1 DEF StepWrite, updateTaskProgress, advanceTaskPhase, completeStep,
                pauseTask, attachArtifact, Finish, cancelTask, completeTask, failTask
  <1>2. CASE StepWrite(t)
    <2>1. Unfinished(t) /\ PointTo(t)
      BY <1>2 DEF StepWrite, updateTaskProgress, advanceTaskPhase, completeStep
    <2>2. tasks'[t].status = Started(tasks[t].status)
      <3>1. \E p, steps, cur : tasks'[t] = Worked(tasks[t], p, steps, cur)
        BY <1>0, <1>2 DEF StepWrite, updateTaskProgress, advanceTaskPhase, completeStep
      <3>2. \A p, steps, cur :
              Worked(tasks[t], p, steps, cur).status = Started(tasks[t].status)
        BY <1>0 DEF Worked, TaskRecords
      <3> QED
        BY <3>1, <3>2
    <2>3. isCurrentTaskStatus(tasks'[t].status)
      BY <1>0, <2>1, <2>2
      DEF Unfinished, Exists, isTerminalStatus, isCurrentTaskStatus, Started,
          TerminalStatuses, CurrentStatuses, TaskRecords, Statuses
    <2> QED
      BY <1>0, <1>1, <1>2, <2>1, <2>3
  <1>3. CASE cancelTask(t) \/ completeTask(t) \/ failTask(t)
    <2>1. active' = [active EXCEPT ![SessionOf[t]] = IF @ = t THEN NoTask ELSE @]
      BY <1>3 DEF cancelTask, completeTask, failTask, Finish
    <2> QED
      BY <1>0, <1>1, <1>3, <2>1
  <1>4. CASE pauseTask(t)
    <2>1. tasks'[t].status = "paused" /\ PointTo(t)
      BY <1>0, <1>4, WithStatusType DEF pauseTask
    <2> QED
      BY <1>0, <1>1, <1>4, <2>1 DEF isCurrentTaskStatus, CurrentStatuses
  <1>5. CASE attachArtifact(t)
    <2>1. tasks'[t].status = tasks[t].status /\ active' = active
      BY <1>0, <1>5 DEF attachArtifact, TaskRecords
    <2> QED
      BY <1>0, <1>1, <1>5, <2>1
  <1>6. ASSUME NEW record \in TaskRecords, isCurrentTaskStatus(record.status),
               NEW previous \in resolveActiveTaskFromState(SessionOf[t]),
               tasks' = InsteadOf(t, record, previous), PointTo(t)
        PROVE  /\ \/ previous = NoTask
                  \/ /\ previous \in TaskIds /\ SessionOf[previous] = SessionOf[t]
                     /\ isCurrentTaskStatus(tasks[previous].status)
               /\ \A u \in TaskIds \ {t} :
                    tasks'[u] = IF u = previous
                                THEN [tasks[u] EXCEPT !.status = "paused"]
                                ELSE tasks[u]
               /\ isCurrentTaskStatus(tasks'[t].status)
    BY <1>0, <1>6, ResolvedTask DEF InsteadOf
  <1>7. ASSUME NEW count \in 0..MaxSteps, NEW status \in {"pending", "active"},
               NEW cur \in StepIds \cup {NoStep}, NEW p \in Progress \cup {NullProgress},
               createTask(t, count, status, cur, p)
        PROVE  \E previous \in resolveActiveTaskFromState(SessionOf[t]),
                  record \in TaskRecords :
                 /\ isCurrentTaskStatus(record.status)
                 /\ tasks' = InsteadOf(t, record, previous)
                 /\ PointTo(t)
    <2>1. isCurrentTaskStatus(buildTask(count, status, cur, p).status)
      BY DEF buildTask, isCurrentTaskStatus, CurrentStatuses
    <2> QED
      BY <1>7, <2>1, BuildTaskType DEF createTask
  <1>8. ASSUME resumeTask(t)
        PROVE  \E previous \in resolveActiveTaskFromState(SessionOf[t]),
                  record \in TaskRecords :
                 /\ isCurrentTaskStatus(record.status)
                 /\ tasks' = InsteadOf(t, record, previous)
                 /\ PointTo(t)
    BY <1>0, <1>8, WithStatusType DEF resumeTask, isCurrentTaskStatus, CurrentStatuses
  <1> QED
    BY <1>2, <1>3, <1>4, <1>5, <1>6, <1>7, <1>8 DEF Operation, Lifecycle

-----------------------------------------------------------------------------
(* The session pointer. *)

LEMMA OperationKeepsPointer ==
  ASSUME TaskManagerAssumption, TypeOK, PointerSound, NEW t \in TaskIds, Operation(t)
  PROVE  PointerSound'
  <1> SUFFICES ASSUME NEW s \in Sessions, active'[s] # NoTask
               PROVE  /\ SessionOf[active'[s]] = s
                      /\ isCurrentTaskStatus(tasks'[active'[s]].status)
    BY DEF PointerSound
  <1>1. ASSUME active'[s] = active[s], active[s] # t
        PROVE  /\ SessionOf[active'[s]] = s
               /\ isCurrentTaskStatus(tasks'[active'[s]].status)
    <2> DEFINE u == active[s]
    <2>1. u \in TaskIds \ {t} /\ tasks[u] \in TaskRecords
      BY <1>1 DEF TypeOK
    <2>2. SessionOf[u] = s /\ isCurrentTaskStatus(tasks[u].status)
      BY <1>1 DEF PointerSound
    <2>3. tasks'[u] = tasks[u] \/ tasks'[u] = [tasks[u] EXCEPT !.status = "paused"]
      BY <2>1, OperationShape
    <2> QED
      BY <1>1, <2>1, <2>2, <2>3 DEF isCurrentTaskStatus, CurrentStatuses, TaskRecords
  <1>2. CASE PointTo(t) /\ isCurrentTaskStatus(tasks'[t].status)
    BY <1>1, <1>2 DEF PointTo, TypeOK, PointerSound, TaskManagerAssumption
  <1>3. CASE active' = [active EXCEPT ![SessionOf[t]] = IF @ = t THEN NoTask ELSE @]
    BY <1>1, <1>3 DEF TypeOK, PointerSound, TaskManagerAssumption
  <1>4. CASE active' = active /\ tasks'[t].status = tasks[t].status
    BY <1>1, <1>4 DEF PointerSound
  <1> QED
    BY <1>2, <1>3, <1>4, OperationShape

\* The pointer of a session always names an unfinished task of that session.
THEOREM PointerAlwaysSound == Spec => []PointerSound
  <1>1. Init => PointerSound
    BY DEF Init, PointerSound
  <1>2. TypeOK /\ PointerSound /\ [Next]_tmVars => PointerSound'
    <2>1. PointerSound /\ UNCHANGED tmVars => PointerSound'
      BY DEF PointerSound, tmVars
    <2> QED
      BY <2>1, OperationKeepsPointer, TaskManagerAssumption DEF Next, Operation
  <1> QED
    BY <1>1, <1>2, TypeCorrect, PTL DEF Spec

\* An operation on a task of one session leaves every other session alone.
THEOREM SessionsAlwaysIsolated == Spec => SessionsAreIsolated
  <1>1. ASSUME TypeOK, [Next]_tmVars, NEW s \in Sessions, NEW r \in Sessions
        PROVE  \/ s = r
               \/ active'[s] = active[s] /\ (\A t \in TasksOf(s) : tasks'[t] = tasks[t])
               \/ active'[r] = active[r] /\ (\A t \in TasksOf(r) : tasks'[t] = tasks[t])
    <2>1. CASE UNCHANGED tmVars
      BY <2>1 DEF tmVars
    <2>2. ASSUME NEW t \in TaskIds, Operation(t), NEW q \in Sessions, q # SessionOf[t]
          PROVE  active'[q] = active[q] /\ (\A u \in TasksOf(q) : tasks'[u] = tasks[u])
      <3>1. active'[q] = active[q]
        BY <1>1, <2>2, OperationShape, TaskManagerAssumption
        DEF PointTo, TypeOK, TaskManagerAssumption
      <3>2. \A u \in TasksOf(q) : u \in TaskIds \ {t} /\ SessionOf[u] = q
        BY <2>2 DEF TasksOf
      <3>3. PICK previous :
              /\ \/ previous = NoTask
                 \/ /\ previous \in TaskIds /\ SessionOf[previous] = SessionOf[t]
                    /\ isCurrentTaskStatus(tasks[previous].status)
              /\ \A u \in TaskIds \ {t} :
                   tasks'[u] = IF u = previous THEN [tasks[u] EXCEPT !.status = "paused"]
                               ELSE tasks[u]
        BY <1>1, <2>2, OperationShape, TaskManagerAssumption
      <3> QED
        BY <2>2, <3>1, <3>2, <3>3, TaskManagerAssumption DEF TaskManagerAssumption
    <2> QED
      BY <1>1, <2>1, <2>2 DEF Next, Operation
  <1>2. TypeOK /\ [Next]_tmVars =>
          [\A s, r \in Sessions :
             \/ s = r
             \/ active'[s] = active[s] /\ (\A t \in TasksOf(s) : tasks'[t] = tasks[t])
             \/ active'[r] = active[r] /\ (\A t \in TasksOf(r) : tasks'[t] = tasks[t])]_tmVars
    BY <1>1
  <1> QED
    BY <1>2, TypeCorrect, PTL DEF Spec, SessionsAreIsolated

-----------------------------------------------------------------------------
(* One task record: its active step and its settled end. *)

StepFollows(task) == \A i \in StepIds : task.steps[i] = "active" => task.cur = i

Settled(task) ==
  \A i \in StepIds :
    /\ task.status = "completed" =>
         task.progress = 100 /\ task.steps[i] \in {"absent", "completed"}
    /\ task.status = "cancelled" => task.steps[i] \in {"absent", "completed", "cancelled"}
    /\ task.status = "failed" => task.steps[i] \in {"absent", "completed", "blocked"}

\* The record t has after an operation is a new one, the old one worked on,
\* paused, given a status, or given an artifact.
LEMMA OperationRecord ==
  ASSUME TaskManagerAssumption, TypeOK, NEW t \in TaskIds, Operation(t),
         StepFollows(tasks[t]), Settled(tasks[t])
  PROVE  StepFollows(tasks'[t]) /\ Settled(tasks'[t])
  <1> DEFINE task == tasks[t]
  <1> USE DEF StepFollows, Settled
  <1>0. task \in TaskRecords /\ tasks \in [TaskIds -> TaskRecords]
    BY DEF TypeOK
  <1>1. ASSUME NEW status \in {"active", "paused", "completed", "failed", "cancelled"},
               tasks'[t] = WithStatus(task, status)
        PROVE  StepFollows(tasks'[t]) /\ Settled(tasks'[t])
    <2>1. /\ tasks'[t].status = status
          /\ tasks'[t].cur = task.cur
          /\ tasks'[t].steps = stepsAfterStatus(task, status)
      BY <1>0, <1>1, WithStatusType
    <2>2. status = "completed" => tasks'[t].progress = 100
      BY <1>0, <1>1 DEF WithStatus, TaskRecords
    <2>3. \A i \in StepIds : task.steps[i] \in StepStatuses
      BY <1>0 DEF TaskRecords
    <2> QED
      BY <2>1, <2>2, <2>3
      DEF stepsAfterStatus, markSteps, isTerminalStatus, TerminalStatuses, StepStatuses
  <1>2. ASSUME NEW p, NEW i \in StepIds \cup {NoStep},
               NEW steps, steps = task.steps \/ steps = completeCurrentStep(task),
               tasks'[t] = Worked(task, p, ensureStepForPhase(steps, task.cur, i),
                                  Named(task, i)),
               Unfinished(t)
        PROVE  StepFollows(tasks'[t]) /\ Settled(tasks'[t])
    <2>1. tasks'[t].status \notin TerminalStatuses
      BY <1>0, <1>2 DEF Worked, Unfinished, isTerminalStatus, TerminalStatuses, Started,
                        TaskRecords
    <2>2. /\ tasks'[t].cur = Named(task, i)
          /\ tasks'[t].steps = ensureStepForPhase(steps, task.cur, i)
      BY <1>0, <1>2 DEF Worked, TaskRecords
    <2>3. \A j \in StepIds : steps[j] = "active" => task.cur = j
      BY <1>2 DEF completeCurrentStep
    <2>4. CASE i = NoStep
      BY <2>1, <2>2, <2>3, <2>4 DEF ensureStepForPhase, Named, TerminalStatuses
    <2>5. CASE i # NoStep
      <3>1. \A j \in StepIds :
              tasks'[t].steps[j] = IF j = i THEN "active"
                                   ELSE IF j = task.cur /\ steps[j] = "active"
                                        THEN "completed" ELSE steps[j]
        BY <2>2, <2>5 DEF ensureStepForPhase
      <3>2. tasks'[t].cur = i
        BY <2>2, <2>5 DEF Named
      <3> QED
        BY <2>1, <2>3, <3>1, <3>2 DEF TerminalStatuses
    <2> QED
      BY <2>4, <2>5
  <1>3. ASSUME NEW p, Unfinished(t),
               tasks'[t] = Worked(task, p, completeCurrentStep(task), NoStep)
        PROVE  StepFollows(tasks'[t]) /\ Settled(tasks'[t])
    <2>1. tasks'[t].status \notin TerminalStatuses
      BY <1>0, <1>3 DEF Worked, Unfinished, isTerminalStatus, TerminalStatuses, Started,
                        TaskRecords
    <2>2. tasks'[t].steps = completeCurrentStep(task)
      BY <1>0, <1>3 DEF Worked, TaskRecords
    <2> QED
      BY <2>1, <2>2 DEF completeCurrentStep, TerminalStatuses
  <1>4. CASE StepWrite(t)
    <2>1. ASSUME NEW p, NEW i \in StepIds \cup {NoStep}, updateTaskProgress(t, p, i)
          PROVE  StepFollows(tasks'[t]) /\ Settled(tasks'[t])
      BY <1>0, <1>2, <2>1 DEF updateTaskProgress
    <2>2. ASSUME NEW p, NEW i \in StepIds \cup {NoStep}, advanceTaskPhase(t, p, i)
          PROVE  StepFollows(tasks'[t]) /\ Settled(tasks'[t])
      BY <1>0, <1>2, <2>2 DEF advanceTaskPhase
    <2>3. ASSUME NEW p, completeStep(t, p)
          PROVE  StepFollows(tasks'[t]) /\ Settled(tasks'[t])
      BY <1>0, <1>3, <2>3 DEF completeStep
    <2> QED
      BY <1>4, <2>1, <2>2, <2>3 DEF StepWrite
  <1>5. CASE Lifecycle(t)
    <2>1. ASSUME NEW count \in 0..MaxSteps, NEW status \in {"pending", "active"},
                 NEW cur \in StepIds \cup {NoStep}, NEW p,
                 createTask(t, count, status, cur, p)
          PROVE  StepFollows(tasks'[t]) /\ Settled(tasks'[t])
      <3>1. tasks'[t] = buildTask(count, status, cur, p)
        BY <2>1 DEF createTask, InsteadOf
      <3> QED
        BY <3>1 DEF buildTask, normalizeSteps, NoStep, StepIds
    <2>2. CASE resumeTask(t)
      BY <1>1, <2>2 DEF resumeTask, InsteadOf
    <2>3. CASE cancelTask(t) \/ completeTask(t) \/ failTask(t)
      BY <1>0, <1>1, <2>3 DEF cancelTask, completeTask, failTask, Finish
    <2> QED
      BY <1>5, <2>1, <2>2, <2>3 DEF Lifecycle
  <1>6. CASE pauseTask(t)
    BY <1>0, <1>1, <1>6 DEF pauseTask
  <1>7. CASE attachArtifact(t)
    <2>1. /\ tasks'[t].steps = task.steps /\ tasks'[t].cur = task.cur
          /\ tasks'[t].status = task.status /\ tasks'[t].progress = task.progress
      BY <1>0, <1>7 DEF attachArtifact, TaskRecords
    <2> QED
      BY <2>1
  <1> QED
    BY <1>4, <1>5, <1>6, <1>7 DEF Operation

\* Every task keeps both, whichever task the operation is about.
LEMMA OperationKeepsRecords ==
  ASSUME TaskManagerAssumption, TypeOK, NEW t \in TaskIds, Operation(t),
         \A u \in TaskIds : StepFollows(tasks[u]) /\ Settled(tasks[u])
  PROVE  \A u \in TaskIds : StepFollows(tasks'[u]) /\ Settled(tasks'[u])
  <1> SUFFICES ASSUME NEW u \in TaskIds \ {t}
               PROVE  StepFollows(tasks'[u]) /\ Settled(tasks'[u])
    BY OperationRecord
  <1>1. tasks[u] \in TaskRecords
    BY DEF TypeOK
  <1>2. tasks'[u] = tasks[u] \/ tasks'[u] = [tasks[u] EXCEPT !.status = "paused"]
    BY OperationShape
  <1>3. CASE tasks'[u] = [tasks[u] EXCEPT !.status = "paused"]
    <2>1. /\ tasks'[u].status = "paused" /\ tasks'[u].cur = tasks[u].cur
          /\ tasks'[u].steps = tasks[u].steps
      BY <1>1, <1>3 DEF TaskRecords
    <2> QED
      BY <2>1 DEF StepFollows, Settled
  <1> QED
    BY <1>2, <1>3

LEMMA RecordsInvariant ==
  Spec => [](\A u \in TaskIds : StepFollows(tasks[u]) /\ Settled(tasks[u]))
  <1> DEFINE Inv == \A u \in TaskIds : StepFollows(tasks[u]) /\ Settled(tasks[u])
  <1>1. Init => Inv
    BY DEF Init, NoRecord, StepFollows, Settled
  <1>2. TypeOK /\ Inv /\ [Next]_tmVars => Inv'
    <2>1. Inv /\ UNCHANGED tmVars => Inv'
      BY DEF tmVars
    <2> QED
      BY <2>1, OperationKeepsRecords, TaskManagerAssumption DEF Next, Operation
  <1> HIDE DEF Inv
  <1> QED
    BY <1>1, <1>2, TypeCorrect, PTL DEF Spec, Inv

\* A step is active only while its task's currentStepId names it, through any
\* sequence of operations.
THEOREM StepsAlwaysFollow == Spec => []ActiveStepIsCurrent
  <1>1. (\A u \in TaskIds : StepFollows(tasks[u]) /\ Settled(tasks[u]))
          => ActiveStepIsCurrent
    BY DEF StepFollows, ActiveStepIsCurrent
  <1> QED
    BY <1>1, RecordsInvariant, PTL

\* A finished task keeps no unsettled step, even when it is finished twice.
THEOREM FinishedAlwaysSettled == Spec => []FinishedIsSettled
  <1>1. (\A u \in TaskIds : StepFollows(tasks[u]) /\ Settled(tasks[u]))
          => FinishedIsSettled
    BY DEF Settled, FinishedIsSettled
  <1> QED
    BY <1>1, RecordsInvariant, PTL

-----------------------------------------------------------------------------
(* One active task per session, for callers that stay on the current task. *)

LEMMA CurrentKeepsSingleActive ==
  ASSUME TaskManagerAssumption, TypeOK, PointerSound, SingleActive, CurrentTaskNext
  PROVE  SingleActive'
  <1> USE DEF TypeOK, TaskManagerAssumption
  <1>1. PICK t \in TaskIds :
          \/ OnCurrent(t) /\ (StepWrite(t) \/ pauseTask(t))
          \/ Lifecycle(t)
          \/ attachArtifact(t)
    BY DEF CurrentTaskNext
  <1>0. tasks[t] \in TaskRecords /\ SessionOf[t] \in Sessions
    OBVIOUS
  <1> SUFFICES ASSUME NEW u \in TaskIds, tasks'[u].status = "active"
               PROVE  active'[SessionOf[u]] = u
    BY DEF SingleActive
  <1>2. tasks[u].status = "active" => active[SessionOf[u]] = u
    BY DEF SingleActive
  <1>3. CASE OnCurrent(t) /\ (StepWrite(t) \/ pauseTask(t))
    <2>1. active' = active
      BY <1>0, <1>3
      DEF OnCurrent, StepWrite, updateTaskProgress, advanceTaskPhase, completeStep,
          pauseTask, PointTo
    <2>2. u # t => tasks'[u] = tasks[u]
      BY <1>3 DEF StepWrite, updateTaskProgress, advanceTaskPhase, completeStep, pauseTask
    <2> QED
      BY <1>2, <1>3, <2>1, <2>2 DEF OnCurrent
  <1>4. ASSUME NEW record, NEW previous \in resolveActiveTaskFromState(SessionOf[t]),
               tasks' = InsteadOf(t, record, previous), PointTo(t)
        PROVE  active'[SessionOf[u]] = u
    <2>1. CASE u = t
      BY <1>0, <1>4, <2>1 DEF PointTo
    <2>2. CASE u # t
      <3>0. tasks[u] \in TaskRecords
        OBVIOUS
      <3>1. u # previous
        BY <1>4, <2>2, <3>0 DEF InsteadOf, TaskRecords
      <3>2. tasks[u].status = "active"
        BY <1>4, <2>2, <3>1 DEF InsteadOf
      <3>3. SessionOf[u] # SessionOf[t]
        BY <1>2, <1>4, <3>1, <3>2
        DEF resolveActiveTaskFromState, TasksOf, isCurrentTaskStatus, CurrentStatuses
      <3> QED
        BY <1>2, <1>4, <3>2, <3>3 DEF PointTo
    <2> QED
      BY <2>1, <2>2
  <1>5. CASE cancelTask(t) \/ completeTask(t) \/ failTask(t)
    <2>1. PICK status \in TerminalStatuses : Finish(t, status)
      BY <1>5 DEF cancelTask, completeTask, failTask, TerminalStatuses
    <2>2. tasks'[t].status = status /\ (u # t => tasks'[u] = tasks[u])
      BY <1>0, <2>1, WithStatusType DEF Finish, TerminalStatuses
    <2> QED
      BY <1>0, <1>2, <2>1, <2>2 DEF Finish, TerminalStatuses
  <1>6. CASE attachArtifact(t)
    <2>1. tasks'[u].status = tasks[u].status /\ active' = active
      BY <1>0, <1>6 DEF attachArtifact, TaskRecords
    <2> QED
      BY <1>2, <2>1
  <1> QED
    BY <1>1, <1>3, <1>4, <1>5, <1>6 DEF Lifecycle, createTask, resumeTask

\* A caller that pauses and reports progress only on the task its session
\* points to keeps one active task per session, the one the pointer names.
THEOREM OneActivePerSession == CurrentTaskSpec => []SingleActive
  <1> DEFINE Inv == TypeOK /\ PointerSound /\ SingleActive
  <1>1. CurrentTaskNext => Next
    BY DEF CurrentTaskNext, Next
  <1>2. Init => Inv
    BY InitType, TaskManagerAssumption DEF Init, PointerSound, SingleActive, NoRecord
  <1>3. Inv /\ [CurrentTaskNext]_tmVars => Inv'
    <2>1. Inv /\ UNCHANGED tmVars => Inv'
      BY DEF tmVars, TypeOK, PointerSound, SingleActive
    <2>2. Inv /\ CurrentTaskNext => Inv'
      BY <1>1, StepKeepsType, OperationKeepsPointer, CurrentKeepsSingleActive,
         TaskManagerAssumption DEF Next, Operation
    <2> QED
      BY <2>1, <2>2
  <1> QED
    BY <1>2, <1>3, PTL DEF CurrentTaskSpec

-----------------------------------------------------------------------------
(* THE RUNTIME. *)

-----------------------------------------------------------------------------
(* What the loop computes from a task. *)

LEMMA NatMin ==
  ASSUME NEW S \in SUBSET Nat, S # {}
  PROVE  \E i \in S : \A j \in S : i <= j
  <1> DEFINE R == {ss \in Nat \X Nat : ss[1] < ss[2]}
  <1>1. IsWellFoundedOn(R, Nat)
    BY NatLessThanWellFounded DEF OpToRel
  <1>2. \A i, j \in Nat : <<j, i>> \in R <=> j < i
    OBVIOUS
  <1> HIDE DEF R
  <1>3. PICK i \in S : \A j \in S : ~(<<j, i>> \in R)
    BY <1>1, WFMin
  <1>4. ASSUME NEW j \in S PROVE i <= j
    <2>1. i \in Nat /\ j \in Nat /\ ~(<<j, i>> \in R)
      BY <1>3
    <2>2. ~(j < i)
      BY <1>2, <2>1
    <2> QED
      BY <2>1, <2>2
  <1> QED
    BY <1>4

\* selectPlannedNextStep names a step of the task, or none.
LEMMA NextStepType ==
  ASSUME MaxSteps \in Nat, NEW task
  PROVE  selectNextStep(task) \in StepIds \cup {NoStep}
  <1> DEFINE left == UnfinishedSteps(task)
  <1>1. CASE left = {}
    BY <1>1 DEF selectNextStep
  <1>2. CASE left # {}
    <2>1. left \subseteq StepIds /\ left \in SUBSET Nat
      BY DEF UnfinishedSteps, StepIds
    <2>2. \E i \in left : \A j \in left : i <= j
      BY <1>2, <2>1, NatMin
    <2>3. selectNextStep(task) \in left
      BY <1>2, <2>2 DEF selectNextStep
    <2> QED
      BY <2>1, <2>3
  <1> QED
    BY <1>1, <1>2

LEMMA SomePercents ==
  ASSUME TaskRuntimeAssumption, MaxSteps \in Nat
  PROVE  0 \in Percents /\ 100 \in Percents /\ NullProgress \in Percents
  <1>1. 1 \in 1..MaxSteps /\ 0 \in 0..MaxSteps + 1 /\ 1 \in 0..MaxSteps + 1
    BY DEF TaskRuntimeAssumption
  <1>2. buildProgressPercent(0, 1) \in Progress /\ buildProgressPercent(1, 1) \in Progress
    BY <1>1 DEF TaskRuntimeAssumption
  <1>3. buildProgressPercent(0, 1) = 0 /\ buildProgressPercent(1, 1) = 100
    BY DEF buildProgressPercent
  <1> QED
    BY <1>2, <1>3 DEF Percents

\* buildProgressPercent is given the completed steps, perhaps with the one that has
\* just run, and all steps of the task.
LEMMA PercentDoneType ==
  ASSUME TaskRuntimeAssumption, MaxSteps \in Nat, NEW task, NEW extra \in {0, 1}
  PROVE  PercentDone(task, extra) \in Percents
  <1> DEFINE Having(S) == {i \in StepIds : task.steps[i] \in S}
  <1>1. ASSUME NEW S PROVE Cardinality(Having(S)) \in 0..MaxSteps
    <2>1. IsFiniteSet(StepIds) /\ Cardinality(StepIds) = MaxSteps
      BY FS_Interval DEF StepIds
    <2>2. Having(S) \in SUBSET StepIds
      OBVIOUS
    <2>3. IsFiniteSet(Having(S)) /\ Cardinality(Having(S)) <= MaxSteps
      BY <2>1, <2>2, FS_Subset
    <2>4. Cardinality(Having(S)) \in Nat
      BY <2>3, FS_CardinalityType
    <2> QED
      BY <2>3, <2>4
  <1> DEFINE n == Cardinality(Having({"completed"}))
             total == Cardinality(Having(StepStatuses \ {"absent"}))
  <1>2. n \in 0..MaxSteps /\ total \in 0..MaxSteps
    BY <1>1
  <1>3. PercentDone(task, extra) = buildProgressPercent(n + extra, total)
    BY DEF PercentDone
  <1> HIDE DEF n, total
  <1>4. CASE total = 0
    <2>1. buildProgressPercent(n + extra, total) = 0
      BY <1>4 DEF buildProgressPercent
    <2> QED
      BY <1>3, <2>1, SomePercents
  <1>5. CASE total # 0
    <2>1. total \in 1..MaxSteps /\ n + extra \in 0..MaxSteps + 1
      BY <1>2, <1>5
    <2> QED
      BY <1>3, <2>1 DEF TaskRuntimeAssumption, Percents
  <1> QED
    BY <1>4, <1>5
-----------------------------------------------------------------------------
(* The runtime's own records.                                               *)

LoopPcs == {"off"} \cup LoopQueued \cup LoopParked \cup LoopFree
RequestPcs == RequestQueued \cup RequestFree
Callers == TaskIds \cup Requests

\* A request that is under way is about a task.
NamedRequests == {x \in RequestRecords : x.pc # "idle" => x.task \in TaskIds}

QueueOK == queue \in Seq(Callers)
HandlesOK == handle \in [TaskIds -> Handles]
LoopsOK == loop \in [TaskIds -> LoopRecords]
RequestsOK == req \in [Requests -> NamedRequests]
ExecutorOK == QueueOK /\ HandlesOK /\ LoopsOK /\ RequestsOK /\ up \in BOOLEAN

\* The percentages of the tasks are those the runtime reports.
TasksReport == \A t \in TaskIds : tasks[t].progress \in Percents

RuntimeInv == TypeOK /\ TasksReport /\ ExecutorOK

LEMMA Constants ==
  ASSUME TaskManagerAssumption, TaskRuntimeAssumption
  PROVE  /\ MaxSteps \in Nat /\ 1 \in StepIds
         /\ 0 \in Percents /\ 100 \in Percents /\ NullProgress \in Percents
         /\ NoTask \notin TaskIds
  <1>1. MaxSteps \in Nat /\ NoTask \notin TaskIds
    BY DEF TaskManagerAssumption
  <1>2. 1 \in StepIds
    BY <1>1 DEF TaskRuntimeAssumption, StepIds
  <1> QED
    BY <1>1, <1>2, SomePercents

LEMMA ServedQueue ==
  ASSUME QueueOK, NEW p, Serves(p)
  PROVE  Others \in Seq(Callers)
  BY DEF QueueOK, Serves, Others

LEMMA CallQueue ==
  ASSUME NEW p \in Callers, NEW rest \in Seq(Callers), Call(p, rest)
  PROVE  QueueOK'
  BY DEF QueueOK, Call

LEMMA GoesType ==
  ASSUME LoopsOK, NEW t \in TaskIds, NEW pc \in LoopPcs, Goes(t, pc)
  PROVE  LoopsOK'
  BY DEF LoopsOK, Goes, LoopRecords, LoopPcs

LEMMA NoLoopType ==
  ASSUME TaskManagerAssumption, TaskRuntimeAssumption
  PROVE  NoLoop \in LoopRecords /\ \A pc \in LoopPcs : [NoLoop EXCEPT !.pc = pc] \in LoopRecords
  BY Constants DEF NoLoop, LoopRecords, LoopPcs

LEMMA LeavesType ==
  ASSUME TaskManagerAssumption, TaskRuntimeAssumption,
         LoopsOK, NEW t \in TaskIds, NEW pc \in LoopPcs, Leaves(t, pc)
  PROVE  LoopsOK'
  BY NoLoopType DEF LoopsOK, Leaves

LEMMA HandleTypes ==
  /\ NoHandle \in Handles /\ NewHandle \in Handles
  /\ \A h \in Handles, b \in BOOLEAN :
       /\ [h EXCEPT !.pause = b] \in Handles
       /\ [h EXCEPT !.pause = b].live = h.live
       /\ [h EXCEPT !.pause = FALSE, !.cancel = TRUE] \in Handles
       /\ [h EXCEPT !.pause = FALSE, !.cancel = TRUE].live = h.live
  BY DEF Handles, NoHandle, NewHandle

LEMMA RequestTypes ==
  ASSUME TaskManagerAssumption, TaskRuntimeAssumption
  PROVE  /\ Idle \in NamedRequests
         /\ \A x \in NamedRequests : [x EXCEPT !.held = FALSE] \in NamedRequests
         /\ \A x \in NamedRequests : [x EXCEPT !.held = FALSE].pc = x.pc
         /\ \A x \in NamedRequests : [x EXCEPT !.held = FALSE].task = x.task
         /\ \A x \in NamedRequests, pc \in RequestPcs :
              x.pc # "idle" => [x EXCEPT !.pc = pc] \in NamedRequests
         /\ \A pc \in RequestPcs, t \in TaskIds :
              [Idle EXCEPT !.pc = pc, !.task = t] \in NamedRequests
  <1>1. Idle \in NamedRequests
    BY Constants DEF Idle, NamedRequests, RequestRecords, RequestFree
  <1>2. ASSUME NEW x \in NamedRequests
        PROVE  /\ [x EXCEPT !.held = FALSE] \in NamedRequests
               /\ [x EXCEPT !.held = FALSE].pc = x.pc
               /\ [x EXCEPT !.held = FALSE].task = x.task
    BY DEF NamedRequests, RequestRecords
  <1>3. ASSUME NEW x \in NamedRequests, NEW pc \in RequestPcs, x.pc # "idle"
        PROVE  [x EXCEPT !.pc = pc] \in NamedRequests
    BY <1>3 DEF NamedRequests, RequestRecords, RequestPcs
  <1>4. ASSUME NEW pc \in RequestPcs, NEW t \in TaskIds
        PROVE  [Idle EXCEPT !.pc = pc, !.task = t] \in NamedRequests
    BY Constants DEF Idle, NamedRequests, RequestRecords, RequestPcs
  <1> QED
    BY <1>1, <1>2, <1>3, <1>4

LEMMA EndsType ==
  ASSUME TaskManagerAssumption, TaskRuntimeAssumption, ExecutorOK, NEW t \in TaskIds, Ends(t)
  PROVE  LoopsOK' /\ HandlesOK' /\ RequestsOK'
  <1>1. LoopsOK'
    BY NoLoopType DEF ExecutorOK, LoopsOK, Ends
  <1>2. HandlesOK'
    BY HandleTypes DEF ExecutorOK, HandlesOK, Ends, Unregister
  <1>3. RequestsOK'
    BY RequestTypes DEF ExecutorOK, RequestsOK, Ends, Unregister
  <1> QED
    BY <1>1, <1>2, <1>3

LEMMA BecomesType ==
  ASSUME TaskManagerAssumption, TaskRuntimeAssumption, RequestsOK, NEW r \in Requests,
         NEW pc \in RequestPcs, req[r].pc # "idle", Becomes(r, pc)
  PROVE  RequestsOK'
  BY RequestTypes DEF RequestsOK, Becomes

LEMMA OverType ==
  ASSUME TaskManagerAssumption, TaskRuntimeAssumption, RequestsOK, NEW r \in Requests, Over(r)
  PROVE  RequestsOK'
  BY RequestTypes DEF RequestsOK, Over

\* A call arrives.
LEMMA ArrivesType ==
  ASSUME TaskManagerAssumption, TaskRuntimeAssumption, ExecutorOK, NEW r \in Requests,
         NEW kind, NEW pc \in RequestPcs, NEW t \in TaskIds, Arrives(r, kind, pc, t)
  PROVE  RequestsOK' /\ QueueOK' /\ UNCHANGED tmVars
  <1>1. RequestsOK'
    BY RequestTypes DEF ExecutorOK, RequestsOK, Arrives
  <1>2. QueueOK'
    BY CallQueue DEF ExecutorOK, QueueOK, Arrives, Callers
  <1> QED
    BY <1>1, <1>2 DEF Arrives, tmVars
-----------------------------------------------------------------------------
(* What the runtime does to the tasks: it calls the task manager.           *)

WorkOperation(t) ==
  \/ \E p \in Percents, i \in StepIds \cup {NoStep} :
       updateTaskProgress(t, p, i) \/ advanceTaskPhase(t, p, i) \/ completeStep(t, p)
  \/ \E status \in {"pending", "active"} : createTask(t, MaxSteps, status, 1, 0)
  \/ pauseTask(t) \/ resumeTask(t) \/ cancelTask(t) \/ completeTask(t) \/ failTask(t)

RuntimeOperation(t) == WorkOperation(t) \/ attachArtifact(t)

LEMMA RuntimeOperationIsNext ==
  ASSUME TaskManagerAssumption, TaskRuntimeAssumption, NEW t \in TaskIds, RuntimeOperation(t)
  PROVE  Next
  <1>1. ASSUME NEW p \in Percents, NEW i \in StepIds \cup {NoStep},
               updateTaskProgress(t, p, i) \/ advanceTaskPhase(t, p, i) \/ completeStep(t, p)
        PROVE  StepWrite(t)
    BY <1>1 DEF StepWrite, Percents
  <1>2. ASSUME NEW status \in {"pending", "active"}, createTask(t, MaxSteps, status, 1, 0)
        PROVE  Lifecycle(t)
    <2>1. MaxSteps \in 0..MaxSteps /\ 1 \in StepIds \cup {NoStep} /\ 0 \in Progress \cup {NullProgress}
      BY Constants DEF Percents
    <2> QED
      BY <1>2, <2>1 DEF Lifecycle
  <1>3. CASE resumeTask(t) \/ cancelTask(t) \/ completeTask(t) \/ failTask(t)
    BY <1>3 DEF Lifecycle, Next
  <1> QED
    BY <1>1, <1>2, <1>3 DEF RuntimeOperation, WorkOperation, Next

\* A status write leaves the percentage alone or makes it 100.
LEMMA OperationReports ==
  ASSUME TaskManagerAssumption, TaskRuntimeAssumption, TypeOK, TasksReport,
         NEW t \in TaskIds, RuntimeOperation(t)
  PROVE  TasksReport'
  <1>0. \A u \in TaskIds : tasks[u] \in TaskRecords /\ tasks[u].progress \in Percents
    BY DEF TypeOK, TasksReport
  <1>1. ASSUME NEW p \in Percents, NEW steps, NEW cur,
               tasks' = [tasks EXCEPT ![t] = Worked(tasks[t], p, steps, cur)]
        PROVE  TasksReport'
    <2>1. p # KeepProgress
      BY <1>1 DEF Percents, KeepProgress, NullProgress, TaskManagerAssumption
    <2>2. Worked(tasks[t], p, steps, cur).progress = p
      BY <1>0, <2>1 DEF Worked, Reported, TaskRecords
    <2> QED
      BY <1>0, <1>1, <2>2 DEF TasksReport, TypeOK
  <1>2. ASSUME NEW status \in {"active", "paused", "completed", "failed", "cancelled"}
        PROVE  WithStatus(tasks[t], status).progress \in Percents
    BY <1>0, Constants DEF WithStatus, TaskRecords
  <1>3. ASSUME NEW record, record.progress \in Percents, NEW previous,
               tasks' = InsteadOf(t, record, previous)
        PROVE  TasksReport'
    <2>1. ASSUME NEW u \in TaskIds PROVE tasks'[u].progress \in Percents
      <3>1. [tasks[u] EXCEPT !.status = "paused"].progress \in Percents
        BY <1>0 DEF TaskRecords
      <3> QED
        BY <1>0, <1>3, <3>1 DEF InsteadOf
    <2> QED
      BY <2>1 DEF TasksReport
  <1>4. ASSUME NEW p \in Percents, NEW i \in StepIds \cup {NoStep},
               updateTaskProgress(t, p, i) \/ advanceTaskPhase(t, p, i) \/ completeStep(t, p)
        PROVE  TasksReport'
    BY <1>1, <1>4 DEF updateTaskProgress, advanceTaskPhase, completeStep
  <1>5. ASSUME NEW status \in {"pending", "active"}, createTask(t, MaxSteps, status, 1, 0)
        PROVE  TasksReport'
    <2>1. buildTask(MaxSteps, status, 1, 0).progress \in Percents
      BY Constants DEF buildTask
    <2> QED
      BY <1>3, <1>5, <2>1 DEF createTask
  <1>6. CASE resumeTask(t)
    BY <1>2, <1>3, <1>6 DEF resumeTask
  <1>7. CASE pauseTask(t) \/ cancelTask(t) \/ completeTask(t) \/ failTask(t)
    <2>1. PICK status \in {"paused", "completed", "failed", "cancelled"} :
            tasks' = [tasks EXCEPT ![t] = WithStatus(tasks[t], status)]
      BY <1>7 DEF pauseTask, cancelTask, completeTask, failTask, Finish
    <2> QED
      BY <1>0, <1>2, <2>1 DEF TasksReport, TypeOK
  <1>8. CASE attachArtifact(t)
    <2>1. [tasks[t] EXCEPT !.artifacts = @ + 1].progress = tasks[t].progress
      BY <1>0 DEF TaskRecords
    <2> QED
      BY <1>0, <1>8, <2>1 DEF attachArtifact, TasksReport, TypeOK
  <1> QED
    BY <1>4, <1>5, <1>6, <1>7, <1>8 DEF RuntimeOperation, WorkOperation

\* Every step of the runtime calls the task manager or leaves the tasks alone;
\* artifacts are attached by the runner of a step.
LEMMA StepWorks ==
  ASSUME TaskManagerAssumption, TaskRuntimeAssumption, RuntimeInv, RuntimeNext
  PROVE  UNCHANGED tmVars \/ \E t \in TaskIds : WorkOperation(t) \/ WorkArtifact(t)
  <1>0. \A t \in TaskIds : /\ loop[t].progress \in Percents
                           /\ loop[t].step \in StepIds \cup {NoStep}
                           /\ loop[t].cur \in StepIds \cup {NoStep}
    BY DEF RuntimeInv, ExecutorOK, LoopsOK, LoopRecords
  <1>1. \A r \in Requests : /\ req[r].progress \in Percents
                            /\ req[r].cur \in StepIds \cup {NoStep}
                            /\ req[r].pc # "idle" => req[r].task \in TaskIds
    BY DEF RuntimeInv, ExecutorOK, RequestsOK, NamedRequests, RequestRecords
  <1>2. ASSUME NEW t \in TaskIds, LoopStep(t)
        PROVE  UNCHANGED tmVars \/ WorkOperation(t) \/ WorkArtifact(t)
    <2>1. CASE \/ LoopFirstRead(t) \/ LoopHeadDone(t) \/ LoopHeadNoStep(t) \/ LoopHeadStep(t)
               \/ LoopWriteRefused(t) \/ LoopEnters(t) \/ WorkMergeRead(t) \/ WorkArtifactRead(t)
               \/ WorkChecked(t) \/ WorkCancelled(t) \/ LoopAfterStep(t)
               \/ LoopAfterCancelled(t) \/ LoopNext(t) \/ LoopErrorRead(t) \/ LoopEnds(t)
      BY <2>1
      DEF tmVars, LoopFirstRead, LoopHeadDone, LoopHeadNoStep, LoopHeadStep, LoopWriteRefused,
          LoopEnters, WorkMergeRead, WorkArtifactRead, WorkChecked, WorkCancelled, LoopAfterStep,
          LoopAfterCancelled, LoopNext, LoopErrorRead, LoopEnds
    <2>2. CASE LoopAdvance(t) \/ WorkMerge(t) \/ LoopComplete(t)
      BY <1>0, <2>2 DEF LoopAdvance, WorkMerge, LoopComplete, WorkOperation
    <2>3. CASE LoopFinish(t) \/ LoopFail(t)
      BY <2>3 DEF LoopFinish, LoopFail, WorkOperation
    <2> QED
      BY <1>2, <2>1, <2>2, <2>3 DEF LoopStep
  <1>3. ASSUME NEW t \in TaskIds, LoopChoice(t)
        PROVE  UNCHANGED tmVars
    BY <1>3 DEF LoopChoice, WorkCalls, WorkParks, WorkDone, LoopThrows, tmVars
  <1>4. ASSUME NEW t \in TaskIds, DirectCall(t)
        PROVE  WorkOperation(t)
    BY <1>4 DEF DirectCall, WorkOperation
  <1>5. ASSUME NEW r \in Requests, RequestArrives(r)
        PROVE  UNCHANGED tmVars
    BY <1>5 DEF RequestArrives, CreateCalled, StartCalled, PauseCalled, ResumeCalled, CancelCalled,
                RefineCalled, Arrives, tmVars
  <1>6. ASSUME NEW r \in Requests, RequestStep(r)
        PROVE  UNCHANGED tmVars \/ \E t \in TaskIds : WorkOperation(t)
    <2>1. CASE \/ CreateRead(r) \/ SpawnCalled(r) \/ SpawnRead(r) \/ Spawn(r) \/ StartLoop(r)
               \/ StartFails(r) \/ PauseRead(r) \/ ResumeRead(r) \/ Release(r) \/ CancelRead(r)
               \/ RefineRead(r)
      BY <2>1 DEF CreateRead, SpawnCalled, SpawnRead, Spawn, StartLoop, StartFails, PauseRead,
                  ResumeRead, Release, CancelRead, RefineRead, tmVars
    <2>2. CASE Create(r)
      BY <1>1, <2>2 DEF Create, WorkOperation
    <2>3. CASE SpawnResume(r) \/ Pause(r) \/ Resume(r) \/ Cancel(r)
      BY <1>1, <2>3 DEF SpawnResume, Pause, Resume, Cancel, WorkOperation
    <2>4. CASE Refine(r)
      BY <1>1, <2>4 DEF Refine, WorkOperation, tmVars
    <2> QED
      BY <1>6, <2>1, <2>2, <2>3, <2>4 DEF RequestStep
  <1>7. CASE Stops \/ Starts
    BY <1>7 DEF Stops, Starts, tmVars
  <1>8. ASSUME NEW t \in TaskIds, Recovers(t)
        PROVE  WorkOperation(t)
    BY <1>8 DEF Recovers, WorkOperation
  <1> QED
    BY <1>2, <1>3, <1>4, <1>5, <1>6, <1>7, <1>8 DEF RuntimeNext, Recovery
LEMMA StepOperates ==
  ASSUME TaskManagerAssumption, TaskRuntimeAssumption, RuntimeInv, RuntimeNext
  PROVE  UNCHANGED tmVars \/ \E t \in TaskIds : RuntimeOperation(t)
  BY StepWorks DEF RuntimeOperation, WorkArtifact
-----------------------------------------------------------------------------
(* The records of the executor keep their shape.                            *)

LEMMA ReportingLoop ==
  ASSUME NEW x \in LoopRecords, NEW pc \in LoopQueued \cup LoopFree, NEW p \in Percents,
         NEW cur \in StepIds \cup {NoStep}
  PROVE  /\ [x EXCEPT !.pc = pc, !.progress = p] \in LoopRecords
         /\ [x EXCEPT !.pc = pc, !.progress = p, !.cur = cur] \in LoopRecords
  BY DEF LoopRecords

LEMMA LoopStepType ==
  ASSUME TaskManagerAssumption, TaskRuntimeAssumption, RuntimeInv, NEW t \in TaskIds,
         LoopStep(t) \/ LoopChoice(t)
  PROVE  ExecutorOK'
  <1>0. QueueOK /\ HandlesOK /\ LoopsOK /\ RequestsOK /\ up \in BOOLEAN
    BY DEF RuntimeInv, ExecutorOK
  <1>1. UNCHANGED up
    BY DEF LoopStep, LoopChoice, LoopFirstRead, LoopHeadDone, LoopHeadNoStep, LoopHeadStep,
           LoopWriteRefused, LoopAdvance, LoopEnters, WorkMergeRead, WorkMerge, WorkArtifactRead,
           WorkArtifact, WorkChecked, WorkCancelled, LoopAfterStep, LoopAfterCancelled,
           LoopComplete, LoopNext, LoopFinish, LoopErrorRead, LoopFail, LoopEnds, WorkCalls,
           WorkParks, WorkDone, LoopThrows
  <1>2. QueueOK'
    <2>1. \/ Call(t, queue) \/ UNCHANGED queue
          \/ Serves(t) /\ (Call(t, Others) \/ Return)
      BY DEF LoopStep, LoopChoice, LoopFirstRead, LoopHeadDone, LoopHeadNoStep, LoopHeadStep,
             LoopWriteRefused, LoopAdvance, LoopEnters, WorkMergeRead, WorkMerge,
             WorkArtifactRead, WorkArtifact, WorkChecked, WorkCancelled, LoopAfterStep,
             LoopAfterCancelled, LoopComplete, LoopNext, LoopFinish, LoopErrorRead, LoopFail,
             LoopEnds, WorkCalls, WorkParks, WorkDone, LoopThrows
    <2>2. t \in Callers /\ queue \in Seq(Callers)
      BY <1>0 DEF Callers, QueueOK
    <2>3. CASE Call(t, queue) \/ UNCHANGED queue
      BY <2>2, <2>3, CallQueue DEF QueueOK
    <2>4. CASE Serves(t) /\ (Call(t, Others) \/ Return)
      BY <1>0, <2>2, <2>4, ServedQueue, CallQueue DEF QueueOK, Return
    <2> QED
      BY <2>1, <2>3, <2>4
  <1>3. CASE \/ LoopFirstRead(t) \/ LoopEnters(t) \/ WorkArtifactRead(t) \/ WorkArtifact(t)
             \/ LoopNext(t) \/ LoopFinish(t) \/ LoopFail(t) \/ LoopChoice(t)
             \/ LoopWriteRefused(t) \/ LoopComplete(t)
    <2>1. (\E pc \in LoopPcs : Goes(t, pc) \/ Leaves(t, pc)) /\ UNCHANGED <<handle, req>>
      BY <1>3 DEF LoopFirstRead, LoopEnters, WorkArtifactRead, WorkArtifact, LoopNext, LoopFinish,
         LoopFail, LoopChoice, WorkCalls, WorkParks, WorkDone, LoopThrows, LoopWriteRefused,
         LoopComplete, LoopPcs, LoopQueued, LoopParked, LoopFree
    <2>2. LoopsOK'
      BY <1>0, <2>1, GoesType, LeavesType
    <2> QED
      BY <1>0, <1>1, <1>2, <2>1, <2>2 DEF ExecutorOK, HandlesOK, RequestsOK
  <1>4. CASE Ends(t)
    BY <1>0, <1>1, <1>2, <1>4, EndsType DEF ExecutorOK
  <1>5. CASE \/ LoopHeadDone(t) \/ WorkCancelled(t) \/ LoopAfterCancelled(t) \/ LoopEnds(t)
    BY <1>4, <1>5 DEF LoopHeadDone, WorkCancelled, LoopAfterCancelled, LoopEnds
  <1>6. CASE WorkChecked(t) \/ LoopErrorRead(t)
    <2>1. Ends(t) \/ ((\E pc \in LoopPcs : Goes(t, pc)) /\ UNCHANGED <<handle, req>>)
      BY <1>6 DEF WorkChecked, LoopErrorRead, LoopPcs, LoopQueued, LoopFree
    <2>2. CASE (\E pc \in LoopPcs : Goes(t, pc)) /\ UNCHANGED <<handle, req>>
      <3>1. LoopsOK'
        BY <1>0, <2>2, GoesType
      <3> QED
        BY <1>0, <1>1, <1>2, <2>2, <3>1 DEF ExecutorOK, HandlesOK, RequestsOK
    <2> QED
      BY <1>4, <2>1, <2>2
  <1>7. CASE LoopHeadNoStep(t)
    <2>1. "finish" \in LoopPcs
      BY DEF LoopPcs, LoopQueued
    <2>2. LoopsOK'
      BY <1>0, <1>7, <2>1, LeavesType DEF LoopHeadNoStep
    <2>3. HandlesOK'
      <3> DEFINE b == handle[t].pause \/ tasks[t].status = "paused"
      <3>1. b \in BOOLEAN
        BY <1>0 DEF HandlesOK, Handles
      <3> HIDE DEF b
      <3>2. [handle[t] EXCEPT !.pause = b] \in Handles
        BY <1>0, <3>1, HandleTypes DEF HandlesOK
      <3>3. handle' = [handle EXCEPT ![t] = [handle[t] EXCEPT !.pause = b]]
        BY <1>7 DEF LoopHeadNoStep, b
      <3> QED
        BY <1>0, <3>2, <3>3 DEF HandlesOK
    <2> QED
      BY <1>0, <1>1, <1>2, <1>7, <2>2, <2>3 DEF ExecutorOK, RequestsOK, LoopHeadNoStep
  <1>8. CASE LoopHeadStep(t)
    <2> DEFINE b == handle[t].pause \/ tasks[t].status = "paused"
               pc == IF b THEN "gate" ELSE "advance"
               step == selectNextStep(tasks[t])
               percent == PercentDone(tasks[t], 0)
    <2>1. loop' = [loop EXCEPT ![t] = [loop[t] EXCEPT !.pc = pc, !.step = step, !.progress = percent]]
          /\ handle' = [handle EXCEPT ![t] = [handle[t] EXCEPT !.pause = b]]
      BY <1>8 DEF LoopHeadStep
    <2>2. step \in StepIds \cup {NoStep} /\ percent \in Percents
      BY Constants, NextStepType, PercentDoneType
    <2>3. pc \in LoopPcs /\ loop[t] \in LoopRecords
      BY <1>0 DEF LoopsOK, LoopPcs, LoopQueued, LoopParked
    <2>4. b \in BOOLEAN
      BY <1>0 DEF HandlesOK, Handles
    <2> HIDE DEF b, pc, step, percent
    <2>5. [loop[t] EXCEPT !.pc = pc, !.step = step, !.progress = percent] \in LoopRecords
      BY <2>2, <2>3 DEF LoopRecords, LoopPcs
    <2>6. [handle[t] EXCEPT !.pause = b] \in Handles
      BY <1>0, <2>4, HandleTypes DEF HandlesOK
    <2>7. LoopsOK' /\ HandlesOK'
      BY <1>0, <2>1, <2>5, <2>6 DEF LoopsOK, HandlesOK
    <2> QED
      BY <1>0, <1>1, <1>2, <1>8, <2>7 DEF ExecutorOK, RequestsOK, LoopHeadStep
  <1>9. CASE LoopAdvance(t) \/ WorkMerge(t)
    <2>1. PICK pc \in {"entered", "work"}, cur \in StepIds \cup {NoStep} :
            loop' = [loop EXCEPT ![t] = [loop[t] EXCEPT !.pc = pc, !.progress = 0, !.cur = cur]]
      <3>1. CASE LoopAdvance(t)
        <4>1. loop[t].cur \in StepIds \cup {NoStep}
          BY <1>0 DEF LoopsOK, LoopRecords
        <4>2. [loop[t] EXCEPT !.pc = "entered", !.progress = 0]
                = [loop[t] EXCEPT !.pc = "entered", !.progress = 0, !.cur = loop[t].cur]
          BY <1>0 DEF LoopsOK, LoopRecords
        <4> QED
          BY <3>1, <4>1, <4>2 DEF LoopAdvance
      <3> QED
        BY <1>9, <3>1 DEF WorkMerge
    <2>2. [loop[t] EXCEPT !.pc = pc, !.progress = 0, !.cur = cur] \in LoopRecords
      BY <1>0, Constants, ReportingLoop DEF LoopsOK, LoopFree
    <2>3. LoopsOK'
      BY <1>0, <2>1, <2>2 DEF LoopsOK
    <2> QED
      BY <1>0, <1>1, <1>2, <1>9, <2>3 DEF ExecutorOK, HandlesOK, RequestsOK, LoopAdvance, WorkMerge
  <1>10. CASE WorkMergeRead(t)
    <2>1. tasks[t].progress \in Percents /\ tasks[t].cur \in StepIds \cup {NoStep}
      BY DEF RuntimeInv, TasksReport, TypeOK, TaskRecords
    <2> DEFINE p == tasks[t].progress
               cur == tasks[t].cur
    <2>2. loop' = [loop EXCEPT ![t] = [loop[t] EXCEPT !.pc = "merge", !.progress = p, !.cur = cur]]
      BY <1>10 DEF WorkMergeRead
    <2> HIDE DEF p, cur
    <2>3. LoopsOK'
      <3>1. p \in Percents /\ cur \in StepIds \cup {NoStep}
        BY <2>1 DEF p, cur
      <3>2. [loop[t] EXCEPT !.pc = "merge", !.progress = p, !.cur = cur] \in LoopRecords
        BY <1>0, <3>1, ReportingLoop DEF LoopsOK, LoopQueued
      <3> QED
        BY <1>0, <2>2, <3>2 DEF LoopsOK
    <2> QED
      BY <1>0, <1>1, <1>2, <1>10, <2>3 DEF ExecutorOK, HandlesOK, RequestsOK, WorkMergeRead
  <1>11. CASE LoopAfterStep(t)
    <2> DEFINE percent == PercentDone(tasks[t], 1)
    <2>1. percent \in Percents
      BY Constants, PercentDoneType
    <2>2. loop' = [loop EXCEPT ![t] = [loop[t] EXCEPT !.pc = "complete", !.progress = percent]]
      BY <1>11 DEF LoopAfterStep
    <2> HIDE DEF percent
    <2>3. LoopsOK'
      <3>1. [loop[t] EXCEPT !.pc = "complete", !.progress = percent] \in LoopRecords
        BY <1>0, <2>1, ReportingLoop DEF LoopsOK, LoopQueued
      <3> QED
        BY <1>0, <2>2, <3>1 DEF LoopsOK
    <2> QED
      BY <1>0, <1>1, <1>2, <1>11, <2>3 DEF ExecutorOK, HandlesOK, RequestsOK, LoopAfterStep
  <1> QED
    BY <1>3, <1>5, <1>6, <1>7, <1>8, <1>9, <1>10, <1>11 DEF LoopStep

LEMMA TakesOverType ==
  ASSUME TaskManagerAssumption, TaskRuntimeAssumption, ExecutorOK, NEW r \in Requests,
         req[r].pc # "idle", NEW rest \in Seq(Callers), TakesOver(r, rest), UNCHANGED up
  PROVE  ExecutorOK'
  <1> DEFINE t == req[r].task
  <1>0. QueueOK /\ HandlesOK /\ LoopsOK /\ RequestsOK /\ t \in TaskIds
    BY DEF ExecutorOK, RequestsOK, NamedRequests
  <1>1. HandlesOK'
    <2>1. UNCHANGED handle \/ handle' = [handle EXCEPT ![t] = NewHandle]
      BY DEF TakesOver
    <2> QED
      BY <1>0, <2>1, HandleTypes DEF HandlesOK
  <1>2. LoopsOK'
    <2>1. UNCHANGED loop \/ Leaves(t, "first")
      BY DEF TakesOver
    <2>2. "first" \in LoopPcs
      BY DEF LoopPcs, LoopQueued
    <2> QED
      BY <1>0, <2>1, <2>2, LeavesType DEF LoopsOK
  <1>3. RequestsOK'
    <2>1. "starting" \in RequestPcs
      BY DEF RequestPcs, RequestFree
    <2> QED
      BY <1>0, <2>1, BecomesType, OverType DEF TakesOver
  <1>4. QueueOK'
    BY <1>0, CallQueue DEF TakesOver, QueueOK, Callers
  <1> QED
    BY <1>1, <1>2, <1>3, <1>4 DEF ExecutorOK

LEMMA ReleasedType ==
  ASSUME TaskManagerAssumption, TaskRuntimeAssumption, ExecutorOK, NEW t \in TaskIds,
         NEW pause, NEW rest \in Seq(Callers), Released(t, pause, rest)
  PROVE  LoopsOK' /\ QueueOK'
  <1>0. QueueOK /\ LoopsOK
    BY DEF ExecutorOK
  <1>1. "advance" \in LoopPcs /\ "work" \in LoopPcs
    BY DEF LoopPcs, LoopQueued, LoopFree
  <1>2. LoopsOK'
    <2>1. UNCHANGED loop \/ Goes(t, "advance") \/ Goes(t, "work")
      BY DEF Released
    <2> QED
      BY <1>0, <1>1, <2>1, GoesType DEF LoopsOK
  <1>3. QueueOK'
    BY <1>0, CallQueue DEF Released, QueueOK, Callers
  <1> QED
    BY <1>2, <1>3

LEMMA PauseRequestedType ==
  ASSUME HandlesOK, NEW t \in TaskIds
  PROVE  PauseRequested(t) \in [TaskIds -> Handles]
  <1>1. handle[t] \in Handles /\ handle[t].live \in BOOLEAN
    BY DEF HandlesOK, Handles
  <1>2. [handle[t] EXCEPT !.pause = handle[t].live] \in Handles
    BY <1>1, HandleTypes
  <1> QED
    BY <1>2 DEF HandlesOK, PauseRequested

LEMMA ArrivalType ==
  ASSUME TaskManagerAssumption, TaskRuntimeAssumption, RuntimeInv, NEW r \in Requests,
         RequestArrives(r)
  PROVE  ExecutorOK'
  <1>0. QueueOK /\ HandlesOK /\ LoopsOK /\ RequestsOK /\ up \in BOOLEAN
    BY DEF RuntimeInv, ExecutorOK
  <1>1. ASSUME NEW kind, NEW pc \in RequestPcs, NEW t \in TaskIds, Arrives(r, kind, pc, t),
               UNCHANGED <<loop, up>>, HandlesOK'
        PROVE  ExecutorOK'
    <2>1. RequestsOK' /\ QueueOK'
      BY <1>1, ArrivesType DEF RuntimeInv
    <2> QED
      BY <1>0, <1>1, <2>1 DEF ExecutorOK, LoopsOK
  <1>2. CASE CreateCalled(r) \/ StartCalled(r) \/ ResumeCalled(r) \/ RefineCalled(r)
    <2>1. PICK t \in TaskIds, kind \in {"create", "start", "resume", "refine"},
               pc \in {"createRead", "spawnRead", "resumeRead", "refineRead"} :
            Arrives(r, kind, pc, t) /\ UNCHANGED <<handle, loop, up>>
      BY <1>2 DEF CreateCalled, StartCalled, ResumeCalled, RefineCalled
    <2>2. pc \in RequestPcs
      BY DEF RequestPcs, RequestQueued
    <2> QED
      BY <1>0, <1>1, <2>1, <2>2 DEF HandlesOK
  <1>3. CASE PauseCalled(r)
    <2>1. PICK t \in TaskIds : Arrives(r, "pause", "pauseRead", t)
                              /\ handle' = PauseRequested(t) /\ UNCHANGED <<loop, up>>
      BY <1>3 DEF PauseCalled
    <2>2. "pauseRead" \in RequestPcs
      BY DEF RequestPcs, RequestQueued
    <2>3. HandlesOK'
      BY <1>0, <2>1, PauseRequestedType DEF HandlesOK
    <2> QED
      BY <1>1, <2>1, <2>2, <2>3
  <1>4. CASE CancelCalled(r)
    <2>1. PICK t \in TaskIds :
            /\ Call(r, queue) /\ UNCHANGED up
            /\ LET called == [Idle EXCEPT !.pc = "cancelRead", !.task = t] IN
               IF loop[t].pc = "gate"
               THEN /\ loop' = [loop EXCEPT ![t] = NoLoop]
                    /\ handle' = [handle EXCEPT ![t] = NoHandle]
                    /\ req' = [q \in Requests |->
                         IF q = r THEN called
                         ELSE IF req[q].task = t THEN [req[q] EXCEPT !.held = FALSE] ELSE req[q]]
               ELSE /\ handle' = [handle EXCEPT ![t] =
                         IF @.live THEN [@ EXCEPT !.pause = FALSE, !.cancel = TRUE] ELSE @]
                    /\ IF loop[t].pc = "workGate" THEN Goes(t, "work") ELSE UNCHANGED loop
                    /\ req' = [req EXCEPT ![r] = called]
      BY <1>4 DEF CancelCalled
    <2> DEFINE called == [Idle EXCEPT !.pc = "cancelRead", !.task = t]
    <2>2. called \in NamedRequests
      <3>1. "cancelRead" \in RequestPcs
        BY DEF RequestPcs, RequestQueued
      <3> QED
        BY <3>1, RequestTypes
    <2> HIDE DEF called
    <2>3. QueueOK'
      BY <1>0, <2>1, CallQueue DEF QueueOK, Callers
    <2>4. RequestsOK'
      <3>1. \/ req' = [req EXCEPT ![r] = called]
            \/ req' = [q \in Requests |->
                 IF q = r THEN called
                 ELSE IF req[q].task = t THEN [req[q] EXCEPT !.held = FALSE] ELSE req[q]]
        BY <2>1 DEF called
      <3>2. CASE req' = [req EXCEPT ![r] = called]
        BY <1>0, <2>2, <3>2 DEF RequestsOK
      <3>3. CASE req' = [q \in Requests |->
                   IF q = r THEN called
                   ELSE IF req[q].task = t THEN [req[q] EXCEPT !.held = FALSE] ELSE req[q]]
        <4>1. \A q \in Requests : /\ req[q] \in NamedRequests
                                 /\ [req[q] EXCEPT !.held = FALSE] \in NamedRequests
          BY <1>0, RequestTypes DEF RequestsOK
        <4> QED
          BY <2>2, <3>3, <4>1, Zenon DEF RequestsOK
      <3> QED
        BY <3>1, <3>2, <3>3
    <2>5. HandlesOK'
      <3>1. \/ handle' = [handle EXCEPT ![t] = NoHandle]
            \/ handle' = [handle EXCEPT ![t] =
                 IF handle[t].live THEN [handle[t] EXCEPT !.pause = FALSE, !.cancel = TRUE]
                 ELSE handle[t]]
        BY <2>1
      <3>2. handle[t] \in Handles
        BY <1>0 DEF HandlesOK
      <3> QED
        BY <1>0, <3>1, <3>2, HandleTypes DEF HandlesOK
    <2>6. LoopsOK'
      <3>1. "work" \in LoopPcs
        BY DEF LoopPcs, LoopFree
      <3>2. UNCHANGED loop \/ Goes(t, "work") \/ loop' = [loop EXCEPT ![t] = NoLoop]
        BY <2>1
      <3> QED
        BY <1>0, <3>1, <3>2, GoesType, NoLoopType DEF LoopsOK
    <2> QED
      BY <1>0, <2>1, <2>3, <2>4, <2>5, <2>6 DEF ExecutorOK
  <1> QED
    BY <1>2, <1>3, <1>4 DEF RequestArrives

LEMMA RequestStepType ==
  ASSUME TaskManagerAssumption, TaskRuntimeAssumption, RuntimeInv, NEW r \in Requests,
         RequestStep(r)
  PROVE  ExecutorOK'
  <1> DEFINE t == req[r].task
  <1>0. QueueOK /\ HandlesOK /\ LoopsOK /\ RequestsOK /\ up \in BOOLEAN /\ ExecutorOK
    BY DEF RuntimeInv, ExecutorOK
  <1>1. UNCHANGED up
    BY DEF RequestStep, CreateRead, Create, SpawnCalled, SpawnRead, SpawnResume, Spawn, StartLoop,
           StartFails, PauseRead, Pause, ResumeRead, Resume, Release, CancelRead, Cancel,
           RefineRead, Refine
  <1>2. req[r].pc # "idle"
    BY DEF RequestStep, CreateRead, Create, SpawnCalled, SpawnRead, SpawnResume, Spawn, StartLoop,
           StartFails, PauseRead, Pause, ResumeRead, Resume, Release, CancelRead, Cancel,
           RefineRead, Refine
  <1>3. req[r] \in NamedRequests /\ t \in TaskIds /\ t \in Callers /\ r \in Callers
    BY <1>0, <1>2 DEF RequestsOK, NamedRequests, Callers
  <1>4. queue \in Seq(Callers) /\ (Serves(r) => Others \in Seq(Callers))
    BY <1>0, ServedQueue DEF QueueOK
  <1>5. CASE \/ CreateRead(r) \/ Create(r) \/ SpawnCalled(r) \/ SpawnResume(r) \/ StartFails(r)
             \/ PauseRead(r) \/ Pause(r) \/ Resume(r) \/ CancelRead(r) \/ Cancel(r) \/ Refine(r)
    <2>1. Over(r) \/ \E pc \in RequestPcs : Becomes(r, pc)
      BY <1>5 DEF CreateRead, Create, SpawnCalled, SpawnResume, StartFails, PauseRead, Pause, Resume,
                  CancelRead, Cancel, Refine, RequestPcs, RequestQueued, RequestFree
    <2>2. \/ UNCHANGED queue \/ Call(r, queue)
          \/ Serves(r) /\ (Return \/ Call(r, Others))
      BY <1>5 DEF CreateRead, Create, SpawnCalled, SpawnResume, StartFails, PauseRead, Pause, Resume,
                  CancelRead, Cancel, Refine
    <2>3. UNCHANGED loop
      BY <1>5 DEF CreateRead, Create, SpawnCalled, SpawnResume, StartFails, PauseRead, Pause, Resume,
                  CancelRead, Cancel, Refine
    <2>4. UNCHANGED handle \/ \E u \in TaskIds : handle' = PauseRequested(u)
      <3>1. CASE CreateRead(r)
        <4>1. SessionOf[t] \in Sessions
          BY <1>3 DEF TaskManagerAssumption
        <4> QED
          BY <3>1, <4>1, ResolvedTask DEF CreateRead
      <3> QED
        BY <1>5, <3>1 DEF Create, SpawnCalled, SpawnResume, StartFails, PauseRead, Pause, Resume,
                         CancelRead, Cancel, Refine
    <2>5. RequestsOK'
      BY <1>0, <1>2, <2>1, BecomesType, OverType
    <2>6. QueueOK'
      <3>1. CASE UNCHANGED queue
        BY <1>0, <3>1 DEF QueueOK
      <3>2. CASE Call(r, queue)
        BY <1>3, <1>4, <3>2, CallQueue
      <3>3. CASE Serves(r) /\ (Return \/ Call(r, Others))
        BY <1>3, <1>4, <3>3, CallQueue DEF Return, QueueOK
      <3> QED
        BY <2>2, <3>1, <3>2, <3>3
    <2>7. HandlesOK'
      BY <1>0, <2>4, PauseRequestedType DEF HandlesOK
    <2> QED
      BY <1>0, <1>1, <2>3, <2>5, <2>6, <2>7 DEF ExecutorOK, LoopsOK
  <1>6. CASE SpawnRead(r)
    <2>1. CASE TakesOver(r, Others)
      BY <1>0, <1>1, <1>2, <1>4, <1>6, <2>1, TakesOverType DEF SpawnRead
    <2>2. CASE /\ UNCHANGED <<handle, loop>>
               /\ (Over(r) /\ Return) \/ (Becomes(r, "spawnResume") /\ Call(r, Others))
      <3>1. "spawnResume" \in RequestPcs
        BY DEF RequestPcs, RequestQueued
      <3>2. RequestsOK'
        BY <1>0, <1>2, <2>2, <3>1, BecomesType, OverType
      <3>3. QueueOK'
        BY <1>3, <1>4, <1>6, <2>2, CallQueue DEF Return, QueueOK, SpawnRead
      <3> QED
        BY <1>0, <1>1, <2>2, <3>2, <3>3 DEF ExecutorOK, LoopsOK, HandlesOK
    <2> QED
      BY <1>6, <2>1, <2>2 DEF SpawnRead
  <1>7. CASE Spawn(r)
    BY <1>0, <1>1, <1>2, <1>4, <1>7, TakesOverType DEF Spawn
  <1>8. CASE StartLoop(r)
    <2>1. "first" \in LoopPcs
      BY DEF LoopPcs, LoopQueued
    <2>2. LoopsOK'
      BY <1>0, <1>3, <1>8, <2>1, LeavesType DEF StartLoop
    <2>3. RequestsOK'
      BY <1>0, <1>8, OverType DEF StartLoop
    <2>4. QueueOK'
      BY <1>3, <1>4, <1>8, CallQueue DEF StartLoop
    <2> QED
      BY <1>0, <1>1, <1>8, <2>2, <2>3, <2>4 DEF ExecutorOK, HandlesOK, StartLoop
  <1>9. CASE ResumeRead(r)
    <2>1. HandlesOK'
      <3>1. [handle[t] EXCEPT !.pause = FALSE] \in Handles
        BY <1>0, <1>3, HandleTypes DEF HandlesOK
      <3> QED
        BY <1>0, <1>9, <3>1 DEF ResumeRead, HandlesOK
    <2>2. RequestsOK'
      <3>1. [req[r] EXCEPT !.pc = "resumeNew", !.quiet = TRUE] \in NamedRequests
        BY <1>2, <1>3 DEF NamedRequests, RequestRecords, RequestQueued
      <3>2. [req[r] EXCEPT !.pc = "resumeHeld", !.held = TRUE] \in NamedRequests
        BY <1>2, <1>3 DEF NamedRequests, RequestRecords, RequestQueued
      <3>3. \/ Over(r)
            \/ req' = [req EXCEPT ![r] = [req[r] EXCEPT !.pc = "resumeNew", !.quiet = TRUE]]
            \/ req' = [req EXCEPT ![r] = [req[r] EXCEPT !.pc = "resumeHeld", !.held = TRUE]]
        BY <1>9 DEF ResumeRead
      <3> QED
        BY <1>0, <3>1, <3>2, <3>3, OverType DEF RequestsOK
    <2>3. LoopsOK' /\ QueueOK'
      <3>1. CASE Released(t, FALSE, Others)
        BY <1>0, <1>3, <1>4, <1>9, <3>1, ReleasedType DEF ResumeRead
      <3>2. CASE UNCHANGED loop /\ (Return \/ Call(r, Others))
        BY <1>0, <1>3, <1>4, <1>9, <3>2, CallQueue DEF Return, QueueOK, LoopsOK, ResumeRead
      <3> QED
        BY <1>9, <3>1, <3>2 DEF ResumeRead
    <2> QED
      BY <1>0, <1>1, <2>1, <2>2, <2>3 DEF ExecutorOK
  <1>10. CASE Release(r)
    <2>1. RequestsOK'
      BY <1>0, <1>10, OverType DEF Release
    <2>2. LoopsOK' /\ QueueOK'
      <3>1. Released(t, handle[t].pause, queue) \/ UNCHANGED <<loop, queue>>
        BY <1>10 DEF Release
      <3> QED
        BY <1>0, <1>3, <1>4, <3>1, ReleasedType DEF QueueOK, LoopsOK
    <2> QED
      BY <1>0, <1>1, <1>10, <2>1, <2>2 DEF ExecutorOK, HandlesOK, Release
  <1>11. CASE RefineRead(r)
    <2>1. RequestsOK'
      <3>1. tasks[t].progress \in Percents /\ tasks[t].cur \in StepIds \cup {NoStep}
        BY <1>3 DEF RuntimeInv, TasksReport, TypeOK, TaskRecords
      <3>2. [req[r] EXCEPT !.pc = "refine", !.progress = tasks[t].progress, !.cur = tasks[t].cur]
              \in NamedRequests
        BY <1>2, <1>3, <3>1 DEF NamedRequests, RequestRecords, RequestFree
      <3>3. \/ Over(r)
            \/ req' = [req EXCEPT ![r] = [req[r] EXCEPT !.pc = "refine",
                         !.progress = tasks[t].progress, !.cur = tasks[t].cur]]
        BY <1>11 DEF RefineRead
      <3> QED
        BY <1>0, <3>2, <3>3, OverType DEF RequestsOK
    <2>2. QueueOK'
      BY <1>4, <1>11 DEF RefineRead, Return, QueueOK
    <2> QED
      BY <1>0, <1>1, <1>11, <2>1, <2>2 DEF ExecutorOK, HandlesOK, LoopsOK, RefineRead
  <1> QED
    BY <1>5, <1>6, <1>7, <1>8, <1>9, <1>10, <1>11 DEF RequestStep

LEMMA EmptyExecutor ==
  ASSUME TaskManagerAssumption, TaskRuntimeAssumption
  PROVE  /\ <<>> \in Seq(Callers)
         /\ [t \in TaskIds |-> NoHandle] \in [TaskIds -> Handles]
         /\ [t \in TaskIds |-> NoLoop] \in [TaskIds -> LoopRecords]
         /\ [r \in Requests |-> Idle] \in [Requests -> NamedRequests]
  <1>1. NoHandle \in Handles /\ NoLoop \in LoopRecords /\ Idle \in NamedRequests
    BY HandleTypes, NoLoopType, RequestTypes
  <1> QED
    BY <1>1

LEMMA InitHasShape ==
  ASSUME TaskManagerAssumption, TaskRuntimeAssumption, RuntimeInit
  PROVE  RuntimeInv
  <1>1. TypeOK
    BY InitType DEF RuntimeInit
  <1>2. TasksReport
    BY Constants DEF RuntimeInit, Init, NoRecord, TasksReport
  <1>3. QueueOK /\ HandlesOK /\ LoopsOK /\ RequestsOK
    <2>1. queue = <<>> /\ handle = [t \in TaskIds |-> NoHandle]
          /\ loop = [t \in TaskIds |-> NoLoop] /\ req = [r \in Requests |-> Idle]
      BY DEF RuntimeInit
    <2> QED
      BY <2>1, EmptyExecutor DEF QueueOK, HandlesOK, LoopsOK, RequestsOK
  <1> QED
    BY <1>1, <1>2, <1>3 DEF RuntimeInv, ExecutorOK, RuntimeInit

LEMMA StepKeepsRuntimeInv ==
  ASSUME TaskManagerAssumption, TaskRuntimeAssumption, RuntimeInv, [RuntimeNext]_vars
  PROVE  RuntimeInv'
  <1>1. CASE RuntimeNext
    <2>1. TypeOK' /\ TasksReport'
      <3>1. CASE UNCHANGED tmVars
        BY <3>1 DEF RuntimeInv, TypeOK, TasksReport, tmVars
      <3>2. ASSUME NEW t \in TaskIds, RuntimeOperation(t)
            PROVE  TypeOK' /\ TasksReport'
        BY <3>2, RuntimeOperationIsNext, OperationReports, StepKeepsType DEF RuntimeInv
      <3> QED
        BY <1>1, <3>1, <3>2, StepOperates
    <2>2. ExecutorOK'
      <3>1. CASE UNCHANGED rtVars
        BY <3>1 DEF RuntimeInv, ExecutorOK, QueueOK, HandlesOK, LoopsOK, RequestsOK, rtVars
      <3>2. CASE (\E t \in TaskIds : DirectCall(t)) \/ (\E t \in TaskIds : Recovers(t))
        BY <3>1, <3>2 DEF DirectCall, Recovers
      <3>3. CASE Stops \/ Starts
        <4>1. CASE Stops
          BY <4>1, EmptyExecutor DEF Stops, ExecutorOK, QueueOK, HandlesOK, LoopsOK, RequestsOK
        <4>2. CASE Starts
          BY <4>2 DEF Starts, RuntimeInv, ExecutorOK, QueueOK, HandlesOK, LoopsOK, RequestsOK
        <4> QED
          BY <3>3, <4>1, <4>2
      <3> QED
        BY <1>1, <3>2, <3>3, LoopStepType, ArrivalType, RequestStepType DEF RuntimeNext, Recovery
    <2> QED
      BY <2>1, <2>2 DEF RuntimeInv
  <1>2. CASE UNCHANGED vars
    BY <1>2 DEF vars, RuntimeInv, TypeOK, TasksReport, ExecutorOK, QueueOK, HandlesOK, LoopsOK,
                RequestsOK
  <1> QED
    BY <1>1, <1>2

LEMMA RuntimeAlwaysInv == RuntimeSpec => []RuntimeInv
  <1>1. RuntimeInit => RuntimeInv
    BY InitHasShape, TaskManagerAssumption, TaskRuntimeAssumption
  <1>2. RuntimeInv /\ [RuntimeNext]_vars => RuntimeInv'
    BY StepKeepsRuntimeInv, TaskManagerAssumption, TaskRuntimeAssumption
  <1> QED
    BY <1>1, <1>2, PTL DEF RuntimeSpec

\* Whatever calls, loops and restarts interleave, the store sees nothing but
\* the calls of the task manager: what was shown of every sequence of calls
\* holds of the runtime.
THEOREM RuntimeImplementsTaskManager == RuntimeSpec => ImplementsTaskManager
  <1>1. RuntimeInit => Init
    BY DEF RuntimeInit
  <1>2. RuntimeInv /\ [RuntimeNext]_vars => [Next]_tmVars
    <2>1. CASE UNCHANGED vars
      BY <2>1 DEF vars, tmVars
    <2>2. ASSUME RuntimeInv, RuntimeNext PROVE [Next]_tmVars
      BY <2>2, StepOperates, RuntimeOperationIsNext, TaskManagerAssumption, TaskRuntimeAssumption
    <2> QED
      BY <2>1, <2>2
  <1> QED
    BY <1>1, <1>2, RuntimeAlwaysInv, PTL DEF RuntimeSpec, Spec, ImplementsTaskManager
-----------------------------------------------------------------------------
(* One executor at a time.                                                  *)

Starting(r, t) == req[r].pc = "starting" /\ req[r].task = t

\* A step that starts nobody; one after which the same loops run and the same
\* handles are registered.
StartsNobody ==
  \A q \in Requests :
    req'[q].pc = "starting" => req[q].pc = "starting" /\ req'[q].task = req[q].task

SameLoops ==
  \A u \in TaskIds :
    /\ handle'[u].live = handle[u].live
    /\ loop'[u].pc # "off" <=> loop[u].pc # "off"

\* A step that concerns the executions of one task only.
LEMMA ConcernsOneTask ==
  ASSUME RuntimeInv, RuntimeInv', OneExecutor, NEW t \in TaskIds,
         \A u \in TaskIds : u # t =>
           /\ handle'[u].live = handle[u].live
           /\ loop'[u].pc # "off" <=> loop[u].pc # "off",
         loop'[t].pc # "off" => handle'[t].live,
         \A q \in Requests : req'[q].pc = "starting" /\ req'[q].task # t =>
           req[q].pc = "starting" /\ req[q].task = req'[q].task,
         \A q \in Requests : req'[q].pc = "starting" /\ req'[q].task = t =>
           /\ handle'[t].live /\ loop'[t].pc = "off"
           /\ \A p \in Requests : req'[p].pc = "starting" /\ req'[p].task = t => p = q
  PROVE  OneExecutor'
  <1>1. \A u \in TaskIds : loop'[u].pc # "off" => handle'[u].live
    BY DEF OneExecutor
  <1>2. ASSUME NEW r \in Requests, req'[r].pc = "starting"
        PROVE  /\ handle'[req'[r].task].live /\ loop'[req'[r].task].pc = "off"
               /\ \A q \in Requests \ {r} :
                    ~(req'[q].pc = "starting" /\ req'[q].task = req'[r].task)
    <2>1. req'[r].task \in TaskIds
      BY <1>2 DEF RuntimeInv, ExecutorOK, RequestsOK, NamedRequests
    <2>2. CASE req'[r].task = t
      BY <1>2, <2>2
    <2>3. CASE req'[r].task # t
      <3>1. req[r].pc = "starting" /\ req[r].task = req'[r].task
        BY <1>2, <2>3
      <3>2. /\ handle[req[r].task].live /\ loop[req[r].task].pc = "off"
            /\ \A q \in Requests \ {r} :
                 ~(req[q].pc = "starting" /\ req[q].task = req[r].task)
        BY <3>1 DEF OneExecutor
      <3> QED
        BY <2>1, <2>3, <3>1, <3>2
    <2> QED
      BY <2>2, <2>3
  <1> QED
    BY <1>1, <1>2 DEF OneExecutor

\* A loop that runs goes on, or ends with its handle.
LEMMA LoopKeepsOneExecutor ==
  ASSUME RuntimeInv, RuntimeInv', OneExecutor,
         NEW t \in TaskIds, loop[t].pc # "off",
         \A u \in TaskIds : u # t => loop'[u] = loop[u] /\ handle'[u] = handle[u],
         \/ handle'[t].live = handle[t].live
         \/ loop'[t].pc = "off",
         StartsNobody
  PROVE  OneExecutor'
  <1>1. handle[t].live /\ \A q \in Requests : ~Starting(q, t)
    BY DEF OneExecutor, Starting
  <1>2. loop'[t].pc # "off" => handle'[t].live
    BY <1>1
  <1> QED
    BY <1>1, <1>2, ConcernsOneTask DEF Starting, StartsNobody

\* A step that leaves the loops alone, registers nobody and starts nothing.
LEMMA QuietKeepsOneExecutor ==
  ASSUME RuntimeInv', OneExecutor, SameLoops, StartsNobody
  PROVE  OneExecutor'
  <1>1. \A r \in Requests : req'[r].pc = "starting" => req'[r].task \in TaskIds
    BY DEF RuntimeInv, ExecutorOK, RequestsOK, NamedRequests
  <1> QED
    BY <1>1 DEF OneExecutor, SameLoops, StartsNobody

LEMMA EndsExecutor ==
  ASSUME RuntimeInv, NEW t \in TaskIds, Ends(t)
  PROVE  /\ loop'[t].pc = "off"
         /\ \A u \in TaskIds : u # t => loop'[u] = loop[u] /\ handle'[u] = handle[u]
         /\ \A q \in Requests : req'[q].pc = req[q].pc /\ req'[q].task = req[q].task
  <1>1. loop \in [TaskIds -> LoopRecords] /\ handle \in [TaskIds -> Handles]
        /\ req \in [Requests -> RequestRecords]
    BY DEF RuntimeInv, ExecutorOK, LoopsOK, HandlesOK, RequestsOK, NamedRequests
  <1>2. \A q \in Requests : /\ [req[q] EXCEPT !.held = FALSE].pc = req[q].pc
                           /\ [req[q] EXCEPT !.held = FALSE].task = req[q].task
    BY <1>1 DEF RequestRecords
  <1>3. loop'[t].pc = "off" /\ \A u \in TaskIds : u # t => loop'[u] = loop[u] /\ handle'[u] = handle[u]
    BY <1>1 DEF Ends, Unregister, NoLoop
  <1> QED
    BY <1>2, <1>3 DEF Ends, Unregister

LEMMA LoopStepKeepsOneExecutor ==
  ASSUME TaskManagerAssumption, TaskRuntimeAssumption, RuntimeInv, RuntimeInv', OneExecutor,
         NEW t \in TaskIds, LoopStep(t) \/ LoopChoice(t)
  PROVE  OneExecutor'
  <1>0. loop \in [TaskIds -> LoopRecords] /\ handle \in [TaskIds -> Handles]
    BY DEF RuntimeInv, ExecutorOK, LoopsOK, HandlesOK
  <1>1. loop[t].pc # "off"
    BY DEF LoopStep, LoopChoice, LoopFirstRead, LoopHeadDone, LoopHeadNoStep, LoopHeadStep,
           LoopWriteRefused, LoopAdvance, LoopEnters, WorkMergeRead, WorkMerge, WorkArtifactRead,
           WorkArtifact, WorkChecked, WorkCancelled, LoopAfterStep, LoopAfterCancelled,
           LoopComplete, LoopNext, LoopFinish, LoopErrorRead, LoopFail, LoopEnds, WorkCalls,
           WorkParks, WorkDone, LoopThrows, LoopFree
  <1>2. CASE Ends(t)
    BY <1>1, <1>2, EndsExecutor, LoopKeepsOneExecutor DEF StartsNobody
  <1>3. CASE /\ UNCHANGED req
             /\ \E rec \in LoopRecords : loop' = [loop EXCEPT ![t] = rec]
             /\ UNCHANGED handle \/ \E b : handle' = [handle EXCEPT ![t].pause = b]
    <2>1. \A u \in TaskIds : u # t => loop'[u] = loop[u] /\ handle'[u] = handle[u]
      BY <1>0, <1>3
    <2>2. handle'[t].live = handle[t].live
      BY <1>0, <1>3 DEF Handles
    <2> QED
      BY <1>1, <1>3, <2>1, <2>2, LoopKeepsOneExecutor DEF StartsNobody
  <1>4. Ends(t) \/ UNCHANGED req
    BY DEF LoopStep, LoopChoice, LoopFirstRead, LoopHeadDone, LoopHeadNoStep, LoopHeadStep,
           LoopWriteRefused, LoopAdvance, LoopEnters, WorkMergeRead, WorkMerge, WorkArtifactRead,
           WorkArtifact, WorkChecked, WorkCancelled, LoopAfterStep, LoopAfterCancelled,
           LoopComplete, LoopNext, LoopFinish, LoopErrorRead, LoopFail, LoopEnds, WorkCalls,
           WorkParks, WorkDone, LoopThrows
  <1>5. Ends(t) \/ UNCHANGED handle \/ \E b : handle' = [handle EXCEPT ![t].pause = b]
    BY DEF LoopStep, LoopChoice, LoopFirstRead, LoopHeadDone, LoopHeadNoStep, LoopHeadStep,
           LoopWriteRefused, LoopAdvance, LoopEnters, WorkMergeRead, WorkMerge, WorkArtifactRead,
           WorkArtifact, WorkChecked, WorkCancelled, LoopAfterStep, LoopAfterCancelled,
           LoopComplete, LoopNext, LoopFinish, LoopErrorRead, LoopFail, LoopEnds, WorkCalls,
           WorkParks, WorkDone, LoopThrows
  <1>6. \E rec : loop' = [loop EXCEPT ![t] = rec]
    <2>1. CASE Ends(t) \/ (\E pc : Goes(t, pc) \/ Leaves(t, pc))
      BY <1>0, <2>1 DEF Ends, Goes, Leaves
    <2>2. CASE LoopHeadStep(t) \/ LoopAdvance(t) \/ WorkMergeRead(t) \/ WorkMerge(t) \/ LoopAfterStep(t)
      BY <1>0, <2>2 DEF LoopHeadStep, LoopAdvance, WorkMergeRead, WorkMerge, LoopAfterStep
    <2> QED
      BY <2>1, <2>2
      DEF LoopStep, LoopChoice, LoopFirstRead, LoopHeadDone, LoopHeadNoStep,
          LoopWriteRefused, LoopEnters, WorkArtifactRead, WorkArtifact, WorkChecked,
          WorkCancelled, LoopAfterCancelled, LoopComplete, LoopNext, LoopFinish, LoopErrorRead,
          LoopFail, LoopEnds, WorkCalls, WorkParks, WorkDone, LoopThrows
  <1>7. \E rec \in LoopRecords : loop' = [loop EXCEPT ![t] = rec]
    <2>1. PICK rec : loop' = [loop EXCEPT ![t] = rec]
      BY <1>6
    <2>2. loop' \in [TaskIds -> LoopRecords]
      BY DEF RuntimeInv, ExecutorOK, LoopsOK
    <2>3. loop'[t] = rec /\ loop'[t] \in LoopRecords
      BY <1>0, <2>1, <2>2
    <2> QED
      BY <2>1, <2>3
  <1> QED
    BY <1>2, <1>3, <1>4, <1>5, <1>7

LEMMA RequestStarts ==
  ASSUME RuntimeInv, NEW r \in Requests
  PROVE  /\ UNCHANGED req => StartsNobody
         /\ Over(r) => StartsNobody
         /\ \A pc : pc # "starting" /\ Becomes(r, pc) => StartsNobody
         /\ \A x : x.pc # "starting" /\ req' = [req EXCEPT ![r] = x] => StartsNobody
  <1>1. req \in [Requests -> RequestRecords]
    BY DEF RuntimeInv, ExecutorOK, RequestsOK, NamedRequests
  <1>2. Idle.pc # "starting"
    BY DEF Idle
  <1>3. ASSUME NEW x, x.pc # "starting", req' = [req EXCEPT ![r] = x] PROVE StartsNobody
    BY <1>1, <1>3 DEF StartsNobody
  <1>4. ASSUME NEW pc, pc # "starting", Becomes(r, pc) PROVE StartsNobody
    BY <1>1, <1>4 DEF StartsNobody, Becomes, RequestRecords
  <1>5. Over(r) => StartsNobody
    BY <1>2, <1>3 DEF Over
  <1> QED
    BY <1>3, <1>4, <1>5 DEF StartsNobody

LEMMA RunningAlike ==
  ASSUME RuntimeInv
  PROVE  /\ UNCHANGED <<handle, loop>> => SameLoops
         /\ \A t : UNCHANGED loop /\ handle' = PauseRequested(t) => SameLoops
         /\ \A t \in TaskIds, b \in BOOLEAN :
              UNCHANGED loop /\ handle' = [handle EXCEPT ![t].pause = b] => SameLoops
  <1>1. handle \in [TaskIds -> Handles]
    BY DEF RuntimeInv, ExecutorOK, HandlesOK
  <1>2. ASSUME NEW t, NEW b, handle' = [handle EXCEPT ![t].pause = b]
        PROVE  \A u \in TaskIds : handle'[u].live = handle[u].live
    BY <1>1, <1>2 DEF Handles
  <1> QED
    BY <1>2 DEF SameLoops, PauseRequested

\* A released loop goes on; it does not start or end.
LEMMA ReleasedAlike ==
  ASSUME RuntimeInv, NEW t \in TaskIds, NEW pause, NEW rest, Released(t, pause, rest)
  PROVE  \A u \in TaskIds : loop'[u].pc # "off" <=> loop[u].pc # "off"
  <1>1. loop \in [TaskIds -> LoopRecords]
    BY DEF RuntimeInv, ExecutorOK, LoopsOK
  <1>2. ASSUME NEW pc \in {"advance", "work"}, Goes(t, pc), loop[t].pc # "off"
        PROVE  \A u \in TaskIds : loop'[u].pc # "off" <=> loop[u].pc # "off"
    BY <1>1, <1>2 DEF Goes, LoopRecords
  <1> QED
    BY <1>2 DEF Released

LEMMA CancelKeepsOneExecutor ==
  ASSUME RuntimeInv, RuntimeInv', OneExecutor, NEW r \in Requests, CancelCalled(r)
  PROVE  OneExecutor'
  <1>1. /\ loop \in [TaskIds -> LoopRecords] /\ handle \in [TaskIds -> Handles]
        /\ req \in [Requests -> RequestRecords]
    BY DEF RuntimeInv, ExecutorOK, LoopsOK, HandlesOK, RequestsOK, NamedRequests
  <1>2. PICK t \in TaskIds :
          LET called == [Idle EXCEPT !.pc = "cancelRead", !.task = t] IN
          IF loop[t].pc = "gate"
          THEN /\ loop' = [loop EXCEPT ![t] = NoLoop]
               /\ handle' = [handle EXCEPT ![t] = NoHandle]
               /\ req' = [q \in Requests |->
                    IF q = r THEN called
                    ELSE IF req[q].task = t THEN [req[q] EXCEPT !.held = FALSE] ELSE req[q]]
          ELSE /\ handle' = [handle EXCEPT ![t] =
                    IF @.live THEN [@ EXCEPT !.pause = FALSE, !.cancel = TRUE] ELSE @]
               /\ IF loop[t].pc = "workGate" THEN Goes(t, "work") ELSE UNCHANGED loop
               /\ req' = [req EXCEPT ![r] = called]
    BY Zenon DEF CancelCalled
  <1>3. [Idle EXCEPT !.pc = "cancelRead", !.task = t].pc # "starting"
    BY DEF Idle
  <1>4. CASE loop[t].pc = "gate"
    <2>1. \A q \in Requests : /\ [req[q] EXCEPT !.held = FALSE].pc = req[q].pc
                             /\ [req[q] EXCEPT !.held = FALSE].task = req[q].task
      BY <1>1 DEF RequestRecords
    <2>2. StartsNobody
      BY <1>2, <1>3, <1>4, <2>1 DEF StartsNobody
    <2>3. loop'[t].pc = "off"
      BY <1>1, <1>2, <1>4 DEF NoLoop
    <2>4. \A u \in TaskIds : u # t => loop'[u] = loop[u] /\ handle'[u] = handle[u]
      BY <1>1, <1>2, <1>4
    <2> QED
      BY <1>4, <2>2, <2>3, <2>4, LoopKeepsOneExecutor
  <1>5. CASE loop[t].pc # "gate"
    <2>1. StartsNobody
      BY <1>2, <1>3, <1>5, RequestStarts
    <2>2. \A u \in TaskIds : handle'[u].live = handle[u].live
      <3>1. [handle[t] EXCEPT !.pause = FALSE, !.cancel = TRUE].live = handle[t].live
        BY <1>1 DEF Handles
      <3> QED
        BY <1>1, <1>2, <1>5, <3>1
    <2>3. \A u \in TaskIds : loop'[u].pc # "off" <=> loop[u].pc # "off"
      BY <1>1, <1>2, <1>5 DEF Goes, LoopRecords
    <2> QED
      BY <2>1, <2>2, <2>3, QuietKeepsOneExecutor DEF SameLoops
  <1> QED
    BY <1>4, <1>5

LEMMA ArrivalKeepsOneExecutor ==
  ASSUME RuntimeInv, RuntimeInv', OneExecutor, NEW r \in Requests, RequestArrives(r)
  PROVE  OneExecutor'
  <1>1. ASSUME NEW kind, NEW pc, NEW t, pc # "starting", Arrives(r, kind, pc, t)
        PROVE  StartsNobody
    <2>1. [Idle EXCEPT !.pc = pc, !.task = t].pc # "starting"
      BY <1>1 DEF Idle
    <2> QED
      BY <1>1, <2>1, RequestStarts DEF Arrives
  <1>2. CASE CreateCalled(r) \/ StartCalled(r) \/ ResumeCalled(r) \/ RefineCalled(r)
    BY <1>1, <1>2, RunningAlike, QuietKeepsOneExecutor
    DEF CreateCalled, StartCalled, ResumeCalled, RefineCalled
  <1>3. CASE PauseCalled(r)
    BY <1>1, <1>3, RunningAlike, QuietKeepsOneExecutor DEF PauseCalled
  <1> QED
    BY <1>2, <1>3, CancelKeepsOneExecutor DEF RequestArrives

\* The test and the registration of spawnExecution are one stretch: whoever finds
\* no handle finds no loop and no other call about to start one.
LEMMA TakesOverKeepsOneExecutor ==
  ASSUME RuntimeInv, RuntimeInv', OneExecutor, NEW r \in Requests, NEW rest,
         req[r].task \in TaskIds, TakesOver(r, rest)
  PROVE  OneExecutor'
  <1> DEFINE t == req[r].task
  <1>1. /\ loop \in [TaskIds -> LoopRecords] /\ handle \in [TaskIds -> Handles]
        /\ req \in [Requests -> RequestRecords]
    BY DEF RuntimeInv, ExecutorOK, LoopsOK, HandlesOK, RequestsOK, NamedRequests
  <1>2. CASE handle[t].live /\ Over(r) /\ UNCHANGED <<handle, loop>>
    BY <1>2, RequestStarts, RunningAlike, QuietKeepsOneExecutor
  <1>3. ASSUME ~handle[t].live, handle' = [handle EXCEPT ![t] = NewHandle]
        PROVE  /\ loop[t].pc = "off" /\ handle'[t].live
               /\ \A u \in TaskIds : u # t => handle'[u].live = handle[u].live
               /\ \A q \in Requests : ~(req[q].pc = "starting" /\ req[q].task = t)
    BY <1>1, <1>3 DEF OneExecutor, NewHandle
  <1>4. CASE /\ ~handle[t].live /\ handle' = [handle EXCEPT ![t] = NewHandle]
             /\ Becomes(r, "starting") /\ UNCHANGED loop
    <2>1. \A q \in Requests : q # r => req'[q] = req[q]
      BY <1>1, <1>4 DEF Becomes
    <2>2. req'[r].task = t
      BY <1>1, <1>4 DEF Becomes, RequestRecords
    <2> QED
      BY <1>3, <1>4, <2>1, <2>2, ConcernsOneTask
  <1>5. CASE /\ ~handle[t].live /\ handle' = [handle EXCEPT ![t] = NewHandle]
             /\ Leaves(t, "first") /\ Over(r)
    <2>1. StartsNobody
      BY <1>5, RequestStarts
    <2>2. \A u \in TaskIds : u # t => loop'[u] = loop[u]
      BY <1>1, <1>5 DEF Leaves
    <2> QED
      BY <1>3, <1>5, <2>1, <2>2, ConcernsOneTask DEF StartsNobody
  <1> QED
    BY <1>2, <1>4, <1>5 DEF TakesOver

LEMMA StartLoopKeepsOneExecutor ==
  ASSUME RuntimeInv, RuntimeInv', OneExecutor, NEW r \in Requests, StartLoop(r)
  PROVE  OneExecutor'
  <1> DEFINE t == req[r].task
  <1>1. /\ loop \in [TaskIds -> LoopRecords] /\ req \in [Requests -> RequestRecords]
        /\ t \in TaskIds
    BY DEF StartLoop, RuntimeInv, ExecutorOK, LoopsOK, RequestsOK, NamedRequests
  <1>2. /\ handle[t].live
        /\ \A q \in Requests \ {r} : ~(req[q].pc = "starting" /\ req[q].task = t)
    BY DEF StartLoop, OneExecutor
  <1>3. /\ StartsNobody /\ req'[r].pc # "starting"
        /\ \A u \in TaskIds : u # t => loop'[u] = loop[u]
    BY <1>1, RequestStarts DEF StartLoop, Leaves, Over, Idle
  <1> QED
    BY <1>1, <1>2, <1>3, ConcernsOneTask DEF StartLoop, StartsNobody

LEMMA RequestStepKeepsOneExecutor ==
  ASSUME RuntimeInv, RuntimeInv', OneExecutor, NEW r \in Requests, RequestStep(r)
  PROVE  OneExecutor'
  <1>1. req \in [Requests -> NamedRequests] /\ handle \in [TaskIds -> Handles]
    BY DEF RuntimeInv, ExecutorOK, RequestsOK, HandlesOK
  <1>2. CASE CreateRead(r)
    <2>1. UNCHANGED handle \/ \E previous : handle' = PauseRequested(previous)
      BY <1>2 DEF CreateRead
    <2>2. StartsNobody
      BY <1>2, RequestStarts DEF CreateRead
    <2>3. SameLoops
      BY <1>2, <2>1, RunningAlike DEF CreateRead
    <2> QED
      BY <2>2, <2>3, QuietKeepsOneExecutor
  <1>3. CASE \/ Create(r) \/ SpawnCalled(r) \/ SpawnResume(r) \/ StartFails(r)
             \/ PauseRead(r) \/ Pause(r) \/ CancelRead(r) \/ Cancel(r) \/ Refine(r)
             \/ Resume(r)
    BY <1>3, RequestStarts, RunningAlike, QuietKeepsOneExecutor
    DEF Create, SpawnCalled, SpawnResume, StartFails, PauseRead, Pause, CancelRead, Cancel,
        Refine, Resume
  <1>4. CASE SpawnRead(r) \/ Spawn(r)
    <2>1. req[r].task \in TaskIds
      BY <1>1, <1>4 DEF SpawnRead, Spawn, NamedRequests
    <2>2. CASE \E rest : TakesOver(r, rest)
      BY <2>1, <2>2, TakesOverKeepsOneExecutor
    <2>3. CASE (Over(r) \/ Becomes(r, "spawnResume")) /\ UNCHANGED <<handle, loop>>
      BY <2>3, RequestStarts, RunningAlike, QuietKeepsOneExecutor
    <2> QED
      BY <1>4, <2>2, <2>3 DEF SpawnRead, Spawn
  <1>5. CASE ResumeRead(r)
    <2> DEFINE t == req[r].task
    <2>1. t \in TaskIds /\ req[r] \in RequestRecords
      BY <1>1, <1>5 DEF ResumeRead, NamedRequests
    <2>2. StartsNobody
      <3>1. /\ [req[r] EXCEPT !.pc = "resumeNew", !.quiet = TRUE].pc # "starting"
            /\ [req[r] EXCEPT !.pc = "resumeHeld", !.held = TRUE].pc # "starting"
        BY <2>1 DEF RequestRecords
      <3> QED
        BY <1>5, <3>1, RequestStarts DEF ResumeRead
    <2>3. SameLoops
      <3>1. UNCHANGED loop \/ Released(t, FALSE, Others)
        BY <1>5 DEF ResumeRead
      <3>2. \A u \in TaskIds : loop'[u].pc # "off" <=> loop[u].pc # "off"
        BY <2>1, <3>1, ReleasedAlike
      <3>3. UNCHANGED handle \/ handle' = [handle EXCEPT ![t].pause = FALSE]
        BY <1>5 DEF ResumeRead
      <3>4. \A u \in TaskIds : handle'[u].live = handle[u].live
        BY <1>1, <2>1, <3>3 DEF Handles
      <3> QED
        BY <3>2, <3>4 DEF SameLoops
    <2> QED
      BY <2>2, <2>3, QuietKeepsOneExecutor
  <1>6. CASE Release(r)
    <2>1. req[r].task \in TaskIds
      BY <1>1, <1>6 DEF Release, NamedRequests
    <2>2. \A u \in TaskIds : loop'[u].pc # "off" <=> loop[u].pc # "off"
      BY <1>6, <2>1, ReleasedAlike DEF Release
    <2> QED
      BY <1>6, <2>2, RequestStarts, QuietKeepsOneExecutor DEF Release, SameLoops
  <1>7. CASE RefineRead(r)
    <2>1. [req[r] EXCEPT !.pc = "refine", !.progress = tasks[req[r].task].progress,
                         !.cur = tasks[req[r].task].cur].pc # "starting"
      BY <1>1 DEF NamedRequests, RequestRecords
    <2> QED
      BY <1>7, <2>1, RequestStarts, RunningAlike, QuietKeepsOneExecutor DEF RefineRead
  <1> QED
    BY <1>2, <1>3, <1>4, <1>5, <1>6, <1>7, StartLoopKeepsOneExecutor DEF RequestStep

\* A task has one executor at a time, however calls, loops and restarts interleave.
LEMMA StepKeepsOneExecutor ==
  ASSUME TaskManagerAssumption, TaskRuntimeAssumption, RuntimeInv, RuntimeInv', OneExecutor,
         [RuntimeNext]_vars
  PROVE  OneExecutor'
  <1>1. CASE UNCHANGED rtVars
    BY <1>1 DEF OneExecutor, rtVars
  <1>2. CASE Stops
    BY <1>2 DEF Stops, OneExecutor, NoLoop, Idle
  <1>3. CASE Starts
    BY <1>3 DEF Starts, OneExecutor
  <1>4. CASE (\E t \in TaskIds : DirectCall(t)) \/ (\E t \in TaskIds : Recovers(t))
    BY <1>1, <1>4 DEF DirectCall, Recovers
  <1> QED
    BY <1>1, <1>2, <1>3, <1>4, LoopStepKeepsOneExecutor, ArrivalKeepsOneExecutor,
       RequestStepKeepsOneExecutor
    DEF RuntimeNext, Recovery, vars, rtVars

\* The executor's records have the values the code gives them and a task has one
\* executor, whatever calls, loops and restarts interleave.
THEOREM RuntimeAlwaysSound == RuntimeSpec => []RuntimeSound
  <1>1. RuntimeInit => OneExecutor
    BY DEF RuntimeInit, OneExecutor, NoLoop, Idle
  <1>2. RuntimeInv /\ RuntimeInv' /\ OneExecutor /\ [RuntimeNext]_vars => OneExecutor'
    BY StepKeepsOneExecutor, TaskManagerAssumption, TaskRuntimeAssumption
  <1>3. RuntimeInv => RuntimeTypeOK
    BY DEF RuntimeInv, ExecutorOK, QueueOK, HandlesOK, LoopsOK, RequestsOK, NamedRequests,
           RuntimeTypeOK, Callers
  <1> QED
    BY <1>1, <1>2, <1>3, RuntimeAlwaysInv, PTL DEF RuntimeSpec, RuntimeSound

\* What the task manager keeps whatever it is called with, the runtime keeps: the
\* session's pointer, the steps and the finished tasks.
THEOREM RuntimeKeepsTasks ==
  RuntimeSpec => [](PointerSound /\ ActiveStepIsCurrent /\ FinishedIsSettled)
  BY RuntimeImplementsTaskManager, PointerAlwaysSound, StepsAlwaysFollow,
     FinishedAlwaysSettled, PTL DEF ImplementsTaskManager
-----------------------------------------------------------------------------
(* What the others do to the loop of a task: they start it, let it go on, or *)
(* end it.                                                                   *)

Called(q) == q.pc \notin {"idle", "createRead", "create"}

OtherMoves(u) ==
  \/ loop'[u] = loop[u]
  \/ loop'[u] = NoLoop
  \/ /\ loop'[u] = [NoLoop EXCEPT !.pc = "first"]
     /\ \E r \in Requests : Called(req[r]) /\ req[r].task = u
  \/ loop[u].pc = "gate" /\ loop'[u] = [loop[u] EXCEPT !.pc = "advance"]
  \/ loop[u].pc = "workGate" /\ loop'[u] = [loop[u] EXCEPT !.pc = "work"]

LEMMA ReleasedMoves ==
  ASSUME LoopsOK, NEW t, NEW pause, NEW rest, Released(t, pause, rest), NEW u \in TaskIds
  PROVE  OtherMoves(u)
  <1>1. loop \in [TaskIds -> LoopRecords]
    BY DEF LoopsOK
  <1>2. CASE u = t
    BY <1>1, <1>2 DEF Released, Goes, OtherMoves
  <1>3. CASE u # t
    BY <1>1, <1>3 DEF Released, Goes, OtherMoves
  <1> QED
    BY <1>2, <1>3

LEMMA TakesOverMoves ==
  ASSUME LoopsOK, NEW r \in Requests, Called(req[r]), NEW rest, TakesOver(r, rest),
         NEW u \in TaskIds
  PROVE  OtherMoves(u)
  <1>1. loop \in [TaskIds -> LoopRecords]
    BY DEF LoopsOK
  <1>2. CASE u = req[r].task
    BY <1>1, <1>2 DEF TakesOver, Leaves, OtherMoves
  <1>3. CASE u # req[r].task
    BY <1>1, <1>3 DEF TakesOver, Leaves, OtherMoves
  <1> QED
    BY <1>2, <1>3

LEMMA LoopMovesItself ==
  ASSUME LoopsOK, NEW t, LoopStep(t) \/ LoopChoice(t), NEW u \in TaskIds, u # t
  PROVE  loop'[u] = loop[u]
  <1>1. loop \in [TaskIds -> LoopRecords]
    BY DEF LoopsOK
  <1>2. CASE LoopChoice(t)
    BY <1>1, <1>2 DEF LoopChoice, WorkCalls, WorkParks, WorkDone, LoopThrows, Goes, Leaves
  <1>3. CASE LoopStep(t)
    BY <1>1, <1>3
    DEF LoopStep, LoopFirstRead, LoopHeadDone, LoopHeadNoStep, LoopHeadStep, LoopWriteRefused,
        LoopAdvance, LoopEnters, WorkMergeRead, WorkMerge, WorkArtifactRead, WorkArtifact,
        WorkChecked, WorkCancelled, LoopAfterStep, LoopAfterCancelled, LoopComplete, LoopNext,
        LoopFinish, LoopErrorRead, LoopFail, LoopEnds, Goes, Leaves, Ends
  <1> QED
    BY <1>2, <1>3

LEMMA OthersMove ==
  ASSUME RuntimeInv, RuntimeNext, NEW u \in TaskIds
  PROVE  LoopStep(u) \/ LoopChoice(u) \/ OtherMoves(u)
  <1>0. LoopsOK /\ loop \in [TaskIds -> LoopRecords]
    BY DEF RuntimeInv, ExecutorOK, LoopsOK
  <1>1. ASSUME NEW t \in TaskIds, LoopStep(t) \/ LoopChoice(t)
        PROVE  LoopStep(u) \/ LoopChoice(u) \/ OtherMoves(u)
    <2>1. CASE t = u
      BY <1>1, <2>1
    <2>2. CASE t # u
      BY <1>0, <1>1, <2>2, LoopMovesItself DEF OtherMoves
    <2> QED
      BY <2>1, <2>2
  <1>2. ASSUME NEW t \in TaskIds, DirectCall(t) \/ Recovers(t)
        PROVE  OtherMoves(u)
    BY <1>2 DEF DirectCall, Recovers, rtVars, OtherMoves
  <1>3. CASE Stops \/ Starts
    BY <1>3 DEF Stops, Starts, OtherMoves
  <1>4. ASSUME NEW r \in Requests, RequestArrives(r)
        PROVE  OtherMoves(u)
    <2>1. CASE CancelCalled(r)
      <3>1. PICK t \in TaskIds :
              \/ loop[t].pc = "gate" /\ loop' = [loop EXCEPT ![t] = NoLoop]
              \/ loop[t].pc = "workGate" /\ Goes(t, "work")
              \/ UNCHANGED loop
        BY <2>1 DEF CancelCalled
      <3> QED
        BY <1>0, <3>1 DEF Goes, OtherMoves
    <2> QED
      BY <1>4, <2>1
      DEF RequestArrives, CreateCalled, StartCalled, PauseCalled, ResumeCalled, RefineCalled, OtherMoves
  <1>5. ASSUME NEW r \in Requests, RequestStep(r)
        PROVE  OtherMoves(u)
    <2>1. CASE SpawnRead(r) \/ Spawn(r)
      <3>1. Called(req[r]) /\ (UNCHANGED loop \/ \E rest : TakesOver(r, rest))
        BY <2>1 DEF SpawnRead, Spawn, Called
      <3> QED
        BY <1>0, <3>1, TakesOverMoves DEF OtherMoves
    <2>2. CASE StartLoop(r)
      BY <1>0, <2>2 DEF StartLoop, Leaves, Called, OtherMoves
    <2>3. CASE ResumeRead(r) \/ Release(r)
      <3>1. UNCHANGED loop \/ \E t, pause, rest : Released(t, pause, rest)
        BY <2>3 DEF ResumeRead, Release
      <3> QED
        BY <1>0, <3>1, ReleasedMoves DEF OtherMoves
    <2>4. CASE \/ CreateRead(r) \/ Create(r) \/ SpawnCalled(r) \/ SpawnResume(r) \/ StartFails(r)
               \/ PauseRead(r) \/ Pause(r) \/ Resume(r) \/ CancelRead(r) \/ Cancel(r)
               \/ RefineRead(r) \/ Refine(r)
      BY <2>4 DEF CreateRead, Create, SpawnCalled, SpawnResume, StartFails, PauseRead, Pause,
                  Resume, CancelRead, Cancel, RefineRead, Refine, OtherMoves
    <2> QED
      BY <1>5, <2>1, <2>2, <2>3, <2>4 DEF RequestStep
  <1> QED
    BY <1>1, <1>2, <1>3, <1>4, <1>5 DEF RuntimeNext, Recovery
-----------------------------------------------------------------------------
(* The artifact of a task.                                                  *)

\* A loop that is about to attach the artifact has seen that there is none, and
\* nobody else attaches one.
ArtifactInv ==
  \A t \in TaskIds :
    tasks[t].artifacts <= 1 /\ (loop[t].pc = "artifact" => tasks[t].artifacts = 0)

\* Every write but the runner's leaves the artifacts alone, or creates the task.
LEMMA OperationArtifacts ==
  ASSUME TaskManagerAssumption, TypeOK, NEW t \in TaskIds, WorkOperation(t), NEW u \in TaskIds
  PROVE  tasks'[u].artifacts \in {0, tasks[u].artifacts}
  <1>0. tasks \in [TaskIds -> TaskRecords]
    BY DEF TypeOK
  <1>1. ASSUME NEW record, record.artifacts = tasks[t].artifacts, tasks' = [tasks EXCEPT ![t] = record]
        PROVE  tasks'[u].artifacts = tasks[u].artifacts
    BY <1>0, <1>1
  <1>2. ASSUME NEW record, NEW previous, record.artifacts \in {0, tasks[t].artifacts},
               tasks' = InsteadOf(t, record, previous)
        PROVE  tasks'[u].artifacts \in {0, tasks[u].artifacts}
    <2>1. [tasks[u] EXCEPT !.status = "paused"].artifacts = tasks[u].artifacts
      BY <1>0 DEF TaskRecords
    <2> QED
      BY <1>0, <1>2, <2>1 DEF InsteadOf
  <1>3. ASSUME NEW status
        PROVE  WithStatus(tasks[t], status).artifacts = tasks[t].artifacts
    BY <1>0 DEF WithStatus, TaskRecords
  <1>4. ASSUME NEW p, NEW steps, NEW cur
        PROVE  Worked(tasks[t], p, steps, cur).artifacts = tasks[t].artifacts
    BY <1>0 DEF Worked, TaskRecords
  <1>5. ASSUME NEW p \in Percents, NEW i \in StepIds \cup {NoStep},
               updateTaskProgress(t, p, i) \/ advanceTaskPhase(t, p, i) \/ completeStep(t, p)
        PROVE  tasks'[u].artifacts = tasks[u].artifacts
    BY <1>1, <1>4, <1>5 DEF updateTaskProgress, advanceTaskPhase, completeStep
  <1>6. ASSUME NEW status \in {"pending", "active"}, createTask(t, MaxSteps, status, 1, 0)
        PROVE  tasks'[u].artifacts \in {0, tasks[u].artifacts}
    <2>1. buildTask(MaxSteps, status, 1, 0).artifacts = 0
      BY DEF buildTask
    <2> QED
      BY <1>2, <1>6, <2>1 DEF createTask
  <1>7. CASE resumeTask(t)
    BY <1>2, <1>3, <1>7 DEF resumeTask
  <1>8. CASE pauseTask(t) \/ cancelTask(t) \/ completeTask(t) \/ failTask(t)
    <2>1. PICK status : tasks' = [tasks EXCEPT ![t] = WithStatus(tasks[t], status)]
      BY <1>8 DEF pauseTask, cancelTask, completeTask, failTask, Finish
    <2> QED
      BY <1>1, <1>3, <2>1
  <1> QED
    BY <1>5, <1>6, <1>7, <1>8 DEF WorkOperation

\* Only the look for the artifact brings a loop to the attaching of it.
LEMMA AboutToAttach ==
  ASSUME RuntimeInv, RuntimeNext, NEW u \in TaskIds, loop'[u].pc = "artifact"
  PROVE  \/ loop[u].pc = "artifact" /\ ~WorkArtifact(u)
         \/ tasks[u].artifacts = 0 /\ UNCHANGED tasks
  <1>0. loop \in [TaskIds -> LoopRecords] /\ tasks[u].artifacts \in Nat
    BY DEF RuntimeInv, ExecutorOK, LoopsOK, TypeOK, TaskRecords
  <1>1. CASE OtherMoves(u)
    <2>1. loop'[u].pc \in {loop[u].pc, "off", "first", "advance", "work"}
      BY <1>0, <1>1 DEF LoopRecords, OtherMoves, NoLoop
    <2>2. ~WorkArtifact(u)
      BY <1>0 DEF LoopRecords, WorkArtifact, Goes
    <2> QED
      BY <2>1, <2>2
  <1>2. CASE LoopChoice(u)
    BY <1>0, <1>2 DEF LoopRecords, LoopChoice, WorkCalls, WorkParks, WorkDone, LoopThrows, Goes, Leaves, NoLoop
  <1>3. CASE LoopStep(u)
    <2>1. CASE WorkArtifactRead(u)
      BY <1>0, <2>1 DEF LoopRecords, WorkArtifactRead, Goes
    <2>2. CASE LoopHeadStep(u)
      BY <1>0, <2>2 DEF LoopHeadStep, LoopRecords
    <2>3. ASSUME NEW pc, pc # "artifact", Goes(u, pc)
          PROVE  loop'[u].pc # "artifact"
      BY <1>0, <2>3 DEF Goes, LoopRecords
    <2>4. ASSUME NEW pc, pc # "artifact", Leaves(u, pc)
          PROVE  loop'[u].pc # "artifact"
      BY <1>0, <2>4 DEF Leaves, NoLoop
    <2>5. Ends(u) => loop'[u].pc = "off"
      BY <1>0 DEF Ends, NoLoop
    <2>6. CASE LoopFirstRead(u) \/ LoopEnters(u) \/ WorkArtifact(u) \/ WorkChecked(u) \/ LoopNext(u)
               \/ LoopFinish(u) \/ LoopErrorRead(u) \/ LoopFail(u)
      BY <2>3, <2>5, <2>6
      DEF LoopFirstRead, LoopEnters, WorkArtifact, WorkChecked, LoopNext, LoopFinish,
          LoopErrorRead, LoopFail
    <2>7. CASE LoopHeadNoStep(u) \/ LoopWriteRefused(u) \/ LoopComplete(u)
      BY <2>4, <2>7 DEF LoopHeadNoStep, LoopWriteRefused, LoopComplete
    <2>8. CASE LoopHeadDone(u) \/ WorkCancelled(u) \/ LoopAfterCancelled(u) \/ LoopEnds(u)
      BY <2>5, <2>8 DEF LoopHeadDone, WorkCancelled, LoopAfterCancelled, LoopEnds
    <2>9. CASE LoopAdvance(u) \/ WorkMergeRead(u) \/ WorkMerge(u) \/ LoopAfterStep(u)
      BY <1>0, <2>9 DEF LoopAdvance, WorkMergeRead, WorkMerge, LoopAfterStep, LoopRecords
    <2> QED
      BY <1>3, <2>1, <2>2, <2>6, <2>7, <2>8, <2>9 DEF LoopStep
  <1> QED
    BY <1>1, <1>2, <1>3, OthersMove

LEMMA StepKeepsArtifacts ==
  ASSUME TaskManagerAssumption, TaskRuntimeAssumption, RuntimeInv, ArtifactInv, [RuntimeNext]_vars
  PROVE  ArtifactInv'
  <1>0. tasks \in [TaskIds -> TaskRecords] /\ TypeOK
    BY DEF RuntimeInv, TypeOK
  <1>1. CASE UNCHANGED vars
    BY <1>1 DEF vars, ArtifactInv
  <1>2. ASSUME RuntimeNext, NEW u \in TaskIds
        PROVE  tasks'[u].artifacts <= 1 /\ (loop'[u].pc = "artifact" => tasks'[u].artifacts = 0)
    <2>1. tasks[u].artifacts \in Nat /\ tasks[u].artifacts <= 1
      BY <1>0, <1>2 DEF ArtifactInv, TaskRecords
    <2>2. ASSUME NEW t \in TaskIds, WorkArtifact(t)
          PROVE  tasks'[u].artifacts = IF u = t THEN tasks[u].artifacts + 1 ELSE tasks[u].artifacts
      BY <1>0, <2>2 DEF WorkArtifact, attachArtifact, TaskRecords
    <2>3. CASE WorkArtifact(u)
      <3>1. tasks[u].artifacts = 0
        BY <1>2, <2>3 DEF WorkArtifact, ArtifactInv
      <3>2. tasks'[u].artifacts = 1
        BY <2>2, <2>3, <3>1
      <3>3. loop'[u].pc = "work"
        BY <2>3 DEF WorkArtifact, Goes, RuntimeInv, ExecutorOK, LoopsOK, LoopRecords
      <3> QED
        BY <3>2, <3>3
    <2>4. CASE ~WorkArtifact(u)
      <3>1. tasks'[u].artifacts \in {0, tasks[u].artifacts}
        BY <1>0, <1>2, <2>2, <2>4, StepWorks, OperationArtifacts DEF tmVars
      <3>2. loop'[u].pc = "artifact" => tasks[u].artifacts = 0
        BY <1>2, AboutToAttach DEF ArtifactInv
      <3> QED
        BY <2>1, <3>1, <3>2
    <2> QED
      BY <2>3, <2>4
  <1> QED
    BY <1>1, <1>2 DEF ArtifactInv

\* A resumed or restarted step attaches its artifact again without doubling it,
\* whatever the other calls and a restart of the agent interleave with it.
THEOREM ArtifactAlwaysOnce == RuntimeSpec => []ArtifactOnce
  <1>1. RuntimeInit => ArtifactInv
    <2> SUFFICES ASSUME RuntimeInit, NEW t \in TaskIds
                 PROVE  tasks[t].artifacts <= 1 /\ (loop[t].pc = "artifact" => tasks[t].artifacts = 0)
      BY DEF ArtifactInv
    <2>1. tasks[t].artifacts = 0
      BY DEF RuntimeInit, Init, NoRecord
    <2> QED
      BY <2>1
  <1>2. RuntimeInv /\ ArtifactInv /\ [RuntimeNext]_vars => ArtifactInv'
    BY StepKeepsArtifacts, TaskManagerAssumption, TaskRuntimeAssumption
  <1>3. ArtifactInv => ArtifactOnce
    BY DEF ArtifactInv, ArtifactOnce
  <1> QED
    BY <1>1, <1>2, <1>3, RuntimeAlwaysInv, PTL DEF RuntimeSpec
-----------------------------------------------------------------------------
(* The work on a task: its steps in their order, and the share that is done. *)

\* The step that is worked on next: it is not completed, those before it are.
IsNext(task, i) ==
  /\ i \in StepIds /\ task.steps[i] # "completed"
  /\ \A j \in StepIds : j < i => task.steps[j] = "completed"

AllCompleted(task) == \A i \in StepIds : task.steps[i] = "completed"

\* The completed steps come first, the cancelled ones last, the current step is the
\* next one, and the percentage is the share of completed steps.
WorkOK(task) ==
  /\ \A i \in StepIds : task.steps[i] # "absent"
  /\ \A i, j \in StepIds : i < j =>
       /\ task.steps[j] = "completed" => task.steps[i] = "completed"
       /\ task.steps[i] = "cancelled" => task.steps[j] = "cancelled"
  /\ task.cur # NoStep => IsNext(task, task.cur) \/ AllCompleted(task)
  /\ task.progress = PercentDone(task, 0)

\* The same steps are completed, the same is the current one and reported.
Kept(old, new) ==
  /\ \A i \in StepIds : new.steps[i] = "completed" <=> old.steps[i] = "completed"
  /\ new.cur = old.cur /\ new.progress = old.progress

\* Counting the steps of a task that has them all.
CompletedOf(task) == {i \in StepIds : task.steps[i] = "completed"}

LEMMA PercentOfSteps ==
  ASSUME MaxSteps \in Nat, NEW task \in TaskRecords, \A i \in StepIds : task.steps[i] # "absent",
         NEW extra
  PROVE  PercentDone(task, extra)
           = buildProgressPercent(Cardinality(CompletedOf(task)) + extra, MaxSteps)
  <1>1. {i \in StepIds : task.steps[i] \in {"completed"}} = CompletedOf(task)
    BY DEF CompletedOf
  <1>2. {i \in StepIds : task.steps[i] \in StepStatuses \ {"absent"}} = StepIds
    BY DEF TaskRecords
  <1>3. Cardinality(StepIds) = MaxSteps
    BY FS_Interval DEF StepIds
  <1> QED
    BY <1>1, <1>2, <1>3 DEF PercentDone

LEMMA PercentBounds ==
  ASSUME MaxSteps \in Nat, MaxSteps > 0
  PROVE  /\ buildProgressPercent(0, MaxSteps) = 0
         /\ buildProgressPercent(MaxSteps, MaxSteps) = 100
  <1> DEFINE d == 2 * MaxSteps
  <1>1. d \in Nat /\ d > 0 /\ MaxSteps < d
    OBVIOUS
  <1>2. (200 * 0 + MaxSteps) \div d = 0
    OBVIOUS
  <1>3. (200 * MaxSteps + MaxSteps) \div d = 100
    OBVIOUS
  <1> QED
    BY <1>2, <1>3 DEF buildProgressPercent

\* Completing one more step.
LEMMA OneMoreCompleted ==
  ASSUME MaxSteps \in Nat, NEW old \in TaskRecords, NEW new \in TaskRecords, NEW i \in StepIds,
         old.steps[i] # "completed", new.steps[i] = "completed",
         \A j \in StepIds : j # i => (new.steps[j] = "completed" <=> old.steps[j] = "completed")
  PROVE  /\ Cardinality(CompletedOf(new)) = Cardinality(CompletedOf(old)) + 1
         /\ Cardinality(CompletedOf(old)) \in Nat
  <1>1. IsFiniteSet(CompletedOf(old))
    <2>1. IsFiniteSet(StepIds) /\ CompletedOf(old) \in SUBSET StepIds
      BY FS_Interval DEF StepIds, CompletedOf
    <2> QED
      BY <2>1, FS_Subset
  <1>2. CompletedOf(new) = CompletedOf(old) \cup {i} /\ i \notin CompletedOf(old)
    BY DEF CompletedOf
  <1> QED
    BY <1>1, <1>2, FS_AddElement, FS_CardinalityType

LEMMA KeptPercent ==
  ASSUME MaxSteps \in Nat, NEW old \in TaskRecords, NEW new \in TaskRecords, WorkOK(old),
         \A i \in StepIds : new.steps[i] # "absent", Kept(old, new), NEW extra
  PROVE  PercentDone(new, extra) = PercentDone(old, extra)
  <1>1. CompletedOf(new) = CompletedOf(old)
    BY DEF CompletedOf, Kept
  <1>2. \A i \in StepIds : old.steps[i] # "absent"
    BY DEF WorkOK
  <1> QED
    BY <1>1, <1>2, PercentOfSteps

LEMMA KeptWork ==
  ASSUME MaxSteps \in Nat, NEW old \in TaskRecords, NEW new \in TaskRecords, WorkOK(old),
         \A i \in StepIds : new.steps[i] # "absent", Kept(old, new),
         \A i, j \in StepIds : i < j /\ new.steps[i] = "cancelled" => new.steps[j] = "cancelled"
  PROVE  WorkOK(new)
  <1>1. \A i, j \in StepIds : i < j => (new.steps[j] = "completed" => new.steps[i] = "completed")
    BY DEF WorkOK, Kept
  <1>2. new.cur # NoStep => IsNext(new, new.cur) \/ AllCompleted(new)
    BY DEF WorkOK, Kept, IsNext, AllCompleted
  <1>3. new.progress = PercentDone(new, 0)
    BY KeptPercent DEF WorkOK, Kept
  <1> QED
    BY <1>1, <1>2, <1>3 DEF WorkOK

\* Pausing, resuming, cancelling and failing a task complete none of its steps.
LEMMA StatusKeepsWork ==
  ASSUME MaxSteps \in Nat, NEW task \in TaskRecords, WorkOK(task),
         NEW status \in {"active", "paused", "failed", "cancelled"}
  PROVE  WorkOK(WithStatus(task, status)) /\ Kept(task, WithStatus(task, status))
  <1> DEFINE new == WithStatus(task, status)
  <1>1. new \in TaskRecords /\ new.cur = task.cur /\ new.steps = stepsAfterStatus(task, status)
    BY WithStatusType
  <1>2. new.progress = task.progress
    BY DEF WithStatus, TaskRecords
  <1>3. task.steps \in [StepIds -> StepStatuses] /\ task.cur \in StepIds \cup {NoStep}
    BY DEF TaskRecords
  <1>4. /\ \A i \in StepIds : task.steps[i] # "absent"
        /\ \A i, j \in StepIds : i < j =>
             /\ task.steps[j] = "completed" => task.steps[i] = "completed"
             /\ task.steps[i] = "cancelled" => task.steps[j] = "cancelled"
        /\ task.cur # NoStep =>
             \/ \A j \in StepIds : j < task.cur => task.steps[j] = "completed"
             \/ \A i \in StepIds : task.steps[i] = "completed"
    BY DEF WorkOK, IsNext, AllCompleted
  <1> HIDE DEF new
  <1>5. CASE status \in {"failed", "cancelled"}
    <2>1. \A i \in StepIds : new.steps[i] = IF task.steps[i] = "completed" THEN "completed"
                                          ELSE IF status = "failed" THEN "blocked" ELSE status
      BY <1>1, <1>3, <1>4, <1>5
      DEF stepsAfterStatus, markSteps, isTerminalStatus, TerminalStatuses
    <2>2. Kept(task, new)
      BY <1>1, <1>2, <1>5, <2>1 DEF Kept
    <2>3. \A i \in StepIds : new.steps[i] # "absent"
      BY <1>5, <2>1
    <2>4. \A i, j \in StepIds : i < j /\ new.steps[i] = "cancelled" => new.steps[j] = "cancelled"
      BY <1>4, <1>5, <2>1
    <2> QED
      BY <1>1, <2>2, <2>3, <2>4, KeptWork DEF new
  <1>6. CASE status = "paused"
    <2>1. \A i \in StepIds : new.steps[i] = IF i = task.cur /\ task.steps[i] = "active"
                                          THEN "paused" ELSE task.steps[i]
      BY <1>1, <1>3, <1>6 DEF stepsAfterStatus, isTerminalStatus, TerminalStatuses
    <2>2. Kept(task, new)
      BY <1>1, <1>2, <2>1 DEF Kept
    <2>3. \A i \in StepIds : new.steps[i] # "absent"
      BY <1>4, <2>1
    <2>4. \A i, j \in StepIds : i < j /\ new.steps[i] = "cancelled" => new.steps[j] = "cancelled"
      BY <1>4, <2>1
    <2> QED
      BY <1>1, <2>2, <2>3, <2>4, KeptWork DEF new
  <1>7. CASE status = "active"
    <2>1. \A i \in StepIds : new.steps[i] =
            IF i = task.cur /\ task.steps[i] \notin {"absent", "completed"}
            THEN "active" ELSE task.steps[i]
      BY <1>1, <1>3, <1>7 DEF stepsAfterStatus, isTerminalStatus, TerminalStatuses
    <2>2. Kept(task, new)
      BY <1>1, <1>2, <2>1 DEF Kept
    <2>3. \A i \in StepIds : new.steps[i] # "absent"
      BY <1>4, <2>1
    <2>4. ASSUME NEW i \in StepIds, NEW j \in StepIds, i < j, new.steps[i] = "cancelled"
          PROVE  new.steps[j] = "cancelled"
      <3>1. task.steps[i] = "cancelled"
        BY <2>1, <2>4
      <3>2. task.steps[j] = "cancelled"
        BY <1>4, <2>4, <3>1
      <3>3. 0 \notin StepIds
        BY DEF StepIds
      <3>4. j # task.cur
        BY <1>4, <2>4, <3>1, <3>3 DEF NoStep
      <3> QED
        BY <2>1, <3>2, <3>4
    <2> QED
      BY <1>1, <2>2, <2>3, <2>4, KeptWork DEF new
  <1> QED
    BY <1>5, <1>6, <1>7

LEMMA PausedKeepsWork ==
  ASSUME MaxSteps \in Nat, NEW task \in TaskRecords, WorkOK(task)
  PROVE  /\ WorkOK([task EXCEPT !.status = "paused"])
         /\ Kept(task, [task EXCEPT !.status = "paused"])
  <1> DEFINE new == [task EXCEPT !.status = "paused"]
  <1>1. new.steps = task.steps /\ new.cur = task.cur /\ new.progress = task.progress
    BY DEF TaskRecords
  <1>2. new \in TaskRecords
    BY DEF TaskRecords, Statuses, CurrentStatuses
  <1> HIDE DEF new
  <1>3. Kept(task, new)
    BY <1>1 DEF Kept
  <1>4. WorkOK(new)
    BY <1>1, <1>2, <1>3, KeptWork DEF WorkOK
  <1> QED
    BY <1>3, <1>4 DEF new

LEMMA AttachedKeepsWork ==
  ASSUME MaxSteps \in Nat, NEW task \in TaskRecords, WorkOK(task), NEW new \in TaskRecords,
         new = [task EXCEPT !.artifacts = @ + 1]
  PROVE  WorkOK(new) /\ Kept(task, new)
  <1>1. new.steps = task.steps /\ new.cur = task.cur /\ new.progress = task.progress
    BY DEF TaskRecords
  <1>2. Kept(task, new)
    BY <1>1 DEF Kept
  <1>3. /\ \A i \in StepIds : new.steps[i] # "absent"
        /\ \A i, j \in StepIds : i < j /\ new.steps[i] = "cancelled" => new.steps[j] = "cancelled"
    BY <1>1 DEF WorkOK
  <1> QED
    BY <1>2, <1>3, KeptWork

LEMMA CreatedWork ==
  ASSUME TaskManagerAssumption, TaskRuntimeAssumption, NEW status \in {"pending", "active"}
  PROVE  WorkOK(buildTask(MaxSteps, status, 1, 0))
  <1> DEFINE new == buildTask(MaxSteps, status, 1, 0)
  <1>0. MaxSteps \in Nat /\ MaxSteps > 0 /\ 1 \in StepIds
    BY Constants DEF TaskRuntimeAssumption
  <1>1. new \in TaskRecords
    <2>1. MaxSteps \in 0..MaxSteps /\ 1 \in StepIds \cup {NoStep} /\ 0 \in Progress \cup {NullProgress}
      BY <1>0, Constants DEF Percents
    <2> QED
      BY <2>1, BuildTaskType
  <1>2. new.cur = 1 /\ new.progress = 0 /\ new.steps = normalizeSteps(MaxSteps, status, 1)
    BY DEF buildTask, NoStep
  <1> HIDE DEF new
  <1>3. \A i \in StepIds : new.steps[i] \in {"active", "pending"}
    BY <1>0, <1>2 DEF normalizeSteps, StepIds
  <1>4. CompletedOf(new) = {}
    BY <1>3 DEF CompletedOf
  <1>5. PercentDone(new, 0) = 0
    <2>1. PercentDone(new, 0) = buildProgressPercent(Cardinality(CompletedOf(new)) + 0, MaxSteps)
      BY <1>0, <1>1, <1>3, PercentOfSteps
    <2>2. Cardinality(CompletedOf(new)) = 0
      BY <1>4, FS_EmptySet
    <2> QED
      BY <1>0, <2>1, <2>2, PercentBounds
  <1>6. IsNext(new, 1)
    BY <1>0, <1>3 DEF IsNext, StepIds
  <1> QED
    BY <1>2, <1>3, <1>5, <1>6 DEF WorkOK, new

\* Completing a task completes every step and reports 100 percent.
LEMMA CompletedWork ==
  ASSUME TaskManagerAssumption, TaskRuntimeAssumption, NEW task \in TaskRecords, WorkOK(task)
  PROVE  WorkOK(WithStatus(task, "completed")) /\ AllCompleted(WithStatus(task, "completed"))
  <1> DEFINE new == WithStatus(task, "completed")
  <1>0. MaxSteps \in Nat /\ MaxSteps > 0
    BY Constants DEF TaskRuntimeAssumption
  <1>1. new \in TaskRecords /\ new.steps = stepsAfterStatus(task, "completed")
    BY WithStatusType
  <1>2. new.progress = 100
    BY DEF WithStatus, TaskRecords
  <1>3. task.steps \in [StepIds -> StepStatuses] /\ \A i \in StepIds : task.steps[i] # "absent"
    BY DEF TaskRecords, WorkOK
  <1> HIDE DEF new
  <1>4. \A i \in StepIds : new.steps[i] = "completed"
    BY <1>1, <1>3 DEF stepsAfterStatus, markSteps, isTerminalStatus, TerminalStatuses
  <1>5. PercentDone(new, 0) = 100
    <2>1. PercentDone(new, 0) = buildProgressPercent(Cardinality(CompletedOf(new)) + 0, MaxSteps)
      BY <1>0, <1>1, <1>4, PercentOfSteps
    <2>2. CompletedOf(new) = StepIds
      BY <1>4 DEF CompletedOf
    <2>3. Cardinality(CompletedOf(new)) = MaxSteps
      BY <1>0, <2>2, FS_Interval DEF StepIds
    <2> QED
      BY <1>0, <2>1, <2>3, PercentBounds
  <1> QED
    BY <1>2, <1>4, <1>5 DEF WorkOK, AllCompleted, new

\* A loop that advances its task to the step it chose completes none on the way:
\* the current step is that step or there is none.
LEMMA AdvancedWork ==
  ASSUME TaskManagerAssumption, TaskRuntimeAssumption, NEW task \in TaskRecords, WorkOK(task),
         NEW i, IsNext(task, i), NEW new,
         new = Worked(task, PercentDone(task, 0),
                      ensureStepForPhase(completeCurrentStep(task), task.cur, i), Named(task, i))
  PROVE  /\ WorkOK(new) /\ IsNext(new, i) /\ new.cur = i
         /\ \A j \in StepIds : new.steps[j] = IF j = i THEN "active" ELSE task.steps[j]
  <1>0. MaxSteps \in Nat /\ i \in StepIds /\ i # NoStep
    BY Constants DEF IsNext, StepIds, NoStep
  <1>1. PercentDone(task, 0) \in Percents /\ PercentDone(task, 0) # KeepProgress
    BY <1>0, PercentDoneType DEF Percents, KeepProgress, NullProgress, TaskManagerAssumption
  <1>2. new \in TaskRecords
    BY <1>0, <1>1, WorkedType, StepOpsType DEF Percents, Named
  <1>3. /\ new.steps = ensureStepForPhase(completeCurrentStep(task), task.cur, i)
        /\ new.cur = i /\ new.progress = PercentDone(task, 0)
    BY <1>0, <1>1 DEF Worked, Reported, Named, TaskRecords
  <1>4. task.cur = NoStep \/ task.cur = i
    <2>1. task.cur \in StepIds \cup {NoStep}
      BY DEF TaskRecords
    <2>2. CASE task.cur # NoStep
      <3>1. IsNext(task, task.cur)
        BY <1>0, <2>2 DEF WorkOK, IsNext, AllCompleted
      <3> QED
        BY <1>0, <2>1, <2>2, <3>1 DEF IsNext, StepIds
    <2> QED
      BY <2>2
  <1>5. task.steps \in [StepIds -> StepStatuses] /\ \A j \in StepIds : task.steps[j] # "absent"
    BY DEF TaskRecords, WorkOK
  <1>6. ASSUME NEW j \in StepIds
        PROVE  new.steps[j] = IF j = i THEN "active" ELSE task.steps[j]
    <2>1. NoStep \notin StepIds
      BY DEF NoStep, StepIds
    <2> QED
      BY <1>0, <1>3, <1>4, <1>5, <2>1 DEF ensureStepForPhase, completeCurrentStep
  <1> DEFINE old == [task EXCEPT !.cur = i]
  <1>7. /\ old \in TaskRecords /\ old.steps = task.steps /\ old.cur = i
        /\ old.progress = PercentDone(task, 0)
    BY <1>0 DEF TaskRecords, WorkOK
  <1> HIDE DEF old
  <1>8. Kept(old, new) /\ \A j \in StepIds : new.steps[j] # "absent"
    BY <1>0, <1>3, <1>5, <1>6, <1>7 DEF Kept, IsNext
  <1>9. WorkOK(old)
    <2>1. PercentDone(old, 0) = PercentDone(task, 0)
      BY <1>7 DEF PercentDone
    <2> QED
      BY <1>7, <2>1 DEF WorkOK, IsNext
  <1>10. ASSUME NEW j \in StepIds, NEW k \in StepIds, j < k, new.steps[j] = "cancelled"
         PROVE  new.steps[k] = "cancelled"
    <2>1. task.steps[j] = "cancelled" /\ j # i
      BY <1>6, <1>10
    <2>2. task.steps[k] = "cancelled"
      BY <1>10, <2>1 DEF WorkOK
    <2>3. k # i
      BY <1>10, <2>1 DEF IsNext
    <2> QED
      BY <1>6, <2>2, <2>3
  <1>11. WorkOK(new)
    BY <1>0, <1>2, <1>7, <1>8, <1>9, <1>10, KeptWork
  <1>12. IsNext(new, i)
    BY <1>0, <1>6 DEF IsNext
  <1> QED
    BY <1>3, <1>6, <1>11, <1>12

\* A merge of metadata makes the current step the active one again.
LEMMA MergedWork ==
  ASSUME TaskManagerAssumption, TaskRuntimeAssumption, NEW task \in TaskRecords, WorkOK(task),
         IsNext(task, task.cur), task.progress \in Percents, NEW new,
         new = Worked(task, task.progress, ensureStepForPhase(task.steps, task.cur, task.cur),
                      Named(task, task.cur))
  PROVE  /\ WorkOK(new) /\ Kept(task, new)
         /\ \A j \in StepIds : new.steps[j] = IF j = task.cur THEN "active" ELSE task.steps[j]
  <1>0. MaxSteps \in Nat /\ task.cur \in StepIds /\ task.cur # NoStep
    BY Constants DEF IsNext, StepIds, NoStep
  <1>1. task.progress # KeepProgress
    BY DEF Percents, KeepProgress, NullProgress, TaskManagerAssumption
  <1>2. new \in TaskRecords
    BY <1>0, WorkedType, StepOpsType DEF Percents, Named
  <1>3. /\ new.steps = ensureStepForPhase(task.steps, task.cur, task.cur)
        /\ new.cur = task.cur /\ new.progress = task.progress
    BY <1>0, <1>1 DEF Worked, Reported, Named, TaskRecords
  <1>5. task.steps \in [StepIds -> StepStatuses] /\ \A j \in StepIds : task.steps[j] # "absent"
    BY DEF TaskRecords, WorkOK
  <1>6. \A j \in StepIds : new.steps[j] = IF j = task.cur THEN "active" ELSE task.steps[j]
    BY <1>0, <1>3, <1>5 DEF ensureStepForPhase
  <1>7. Kept(task, new) /\ \A j \in StepIds : new.steps[j] # "absent"
    BY <1>0, <1>3, <1>5, <1>6 DEF Kept, IsNext
  <1>8. ASSUME NEW j \in StepIds, NEW k \in StepIds, j < k, new.steps[j] = "cancelled"
         PROVE  new.steps[k] = "cancelled"
    <2>1. task.steps[j] = "cancelled" /\ j # task.cur
      BY <1>6, <1>8
    <2>2. task.steps[k] = "cancelled"
      BY <1>8, <2>1 DEF WorkOK
    <2>3. k # task.cur
      BY <1>8, <2>1 DEF IsNext
    <2> QED
      BY <1>6, <2>2, <2>3
  <1> QED
    BY <1>0, <1>2, <1>6, <1>7, <1>8, KeptWork

\* A loop that completes the current step reports the share that counts it.
LEMMA StepCompletedWork ==
  ASSUME TaskManagerAssumption, TaskRuntimeAssumption, NEW task \in TaskRecords, WorkOK(task),
         IsNext(task, task.cur), NEW new,
         new = Worked(task, PercentDone(task, 1), completeCurrentStep(task), NoStep)
  PROVE  /\ WorkOK(new)
         /\ \A j \in StepIds : new.steps[j] = IF j = task.cur THEN "completed" ELSE task.steps[j]
  <1>0. MaxSteps \in Nat /\ task.cur \in StepIds /\ task.cur # NoStep
    BY Constants DEF IsNext, StepIds, NoStep
  <1>1. PercentDone(task, 1) \in Percents /\ PercentDone(task, 1) # KeepProgress
    BY <1>0, PercentDoneType DEF Percents, KeepProgress, NullProgress, TaskManagerAssumption
  <1>2. new \in TaskRecords
    BY <1>0, <1>1, WorkedType, StepOpsType DEF Percents
  <1>3. /\ new.steps = completeCurrentStep(task)
        /\ new.cur = NoStep /\ new.progress = PercentDone(task, 1)
    BY <1>0, <1>1 DEF Worked, Reported, TaskRecords
  <1>5. task.steps \in [StepIds -> StepStatuses] /\ \A j \in StepIds : task.steps[j] # "absent"
    BY DEF TaskRecords, WorkOK
  <1>6. \A j \in StepIds : new.steps[j] = IF j = task.cur THEN "completed" ELSE task.steps[j]
    BY <1>0, <1>3, <1>5 DEF completeCurrentStep
  <1>7. PercentDone(new, 0) = PercentDone(task, 1)
    <2>1. /\ Cardinality(CompletedOf(new)) = Cardinality(CompletedOf(task)) + 1
          /\ Cardinality(CompletedOf(task)) \in Nat
      BY <1>0, <1>2, <1>6, OneMoreCompleted DEF IsNext
    <2>2. \A j \in StepIds : new.steps[j] # "absent"
      BY <1>5, <1>6
    <2>3. /\ PercentDone(new, 0) = buildProgressPercent(Cardinality(CompletedOf(new)) + 0, MaxSteps)
          /\ PercentDone(task, 1) = buildProgressPercent(Cardinality(CompletedOf(task)) + 1, MaxSteps)
      BY <1>0, <1>2, <1>5, <2>2, PercentOfSteps
    <2> QED
      BY <2>1, <2>3
  <1>8. ASSUME NEW i \in StepIds, NEW j \in StepIds, i < j
        PROVE  /\ new.steps[j] = "completed" => new.steps[i] = "completed"
               /\ new.steps[i] = "cancelled" => new.steps[j] = "cancelled"
    BY <1>0, <1>6, <1>8 DEF WorkOK, IsNext
  <1> QED
    BY <1>3, <1>5, <1>6, <1>7, <1>8 DEF WorkOK
-----------------------------------------------------------------------------
(* What a loop knows of the task it executes. *)

InStep == {"entered", "work", "workGate", "mergeRead", "merge", "artifactRead", "artifact",
           "check", "after", "complete"}

LoopOK(x, task) ==
  /\ x.pc # "off" => task.status # "absent"
  /\ x.pc \in {"gate", "advance"} \cup InStep => IsNext(task, x.step)
  /\ x.pc \in InStep => task.cur = x.step
  /\ x.pc \in {"gate", "advance"} => x.progress = PercentDone(task, 0)
  /\ x.pc = "merge" => x.progress = task.progress /\ x.cur = task.cur
  /\ x.pc = "complete" => x.progress = PercentDone(task, 1)

\* What others write while a loop is at a step does not concern it.
LEMMA LoopKept ==
  ASSUME MaxSteps \in Nat, NEW x, NEW old \in TaskRecords, NEW new \in TaskRecords,
         LoopOK(x, old), WorkOK(old), WorkOK(new), Kept(old, new), new.status # "absent"
  PROVE  LoopOK(x, new)
  <1>1. \A i \in StepIds : new.steps[i] # "absent"
    BY DEF WorkOK
  <1>2. PercentDone(new, 0) = PercentDone(old, 0) /\ PercentDone(new, 1) = PercentDone(old, 1)
    BY <1>1, KeptPercent
  <1>3. \A i : IsNext(old, i) => IsNext(new, i)
    BY DEF Kept, IsNext
  <1>4. new.cur = old.cur /\ new.progress = old.progress
    BY DEF Kept
  <1> QED
    BY <1>2, <1>3, <1>4 DEF LoopOK

\* A loop that goes on inside its step.
LEMMA LoopGoesOn ==
  ASSUME NEW x, NEW y, NEW task, LoopOK(x, task), x.pc \in InStep, y.step = x.step,
         y.pc \in InStep \ {"merge", "complete"}
  PROVE  LoopOK(y, task)
  BY DEF LoopOK, InStep

\* A loop between two steps.
LEMMA LoopBetween ==
  ASSUME NEW y, NEW task, task.status # "absent", y.pc \notin {"gate", "advance"} \cup InStep
  PROVE  LoopOK(y, task)
  BY DEF LoopOK, InStep

LEMMA NextIsNext ==
  ASSUME MaxSteps \in Nat, NEW task \in TaskRecords, WorkOK(task), selectNextStep(task) # NoStep
  PROVE  IsNext(task, selectNextStep(task))
  <1> DEFINE left == UnfinishedSteps(task)
             i == selectNextStep(task)
  <1>1. left # {} /\ left \subseteq StepIds /\ left \in SUBSET Nat
    BY DEF selectNextStep, UnfinishedSteps, StepIds
  <1>2. \E k \in left : \A j \in left : k <= j
    BY <1>1, NatMin
  <1>3. i \in left /\ \A j \in left : i <= j
    BY <1>1, <1>2 DEF selectNextStep
  <1> HIDE DEF i, left
  <1>4. i \in StepIds /\ task.steps[i] \notin {"completed", "cancelled"}
    BY <1>3 DEF left, UnfinishedSteps
  <1>5. ASSUME NEW j \in StepIds, j < i PROVE task.steps[j] = "completed"
    <2>1. j \notin left
      BY <1>1, <1>3, <1>5
    <2>2. task.steps[j] \in {"absent", "completed", "cancelled"}
      BY <2>1 DEF left, UnfinishedSteps
    <2> QED
      BY <1>4, <1>5, <2>2 DEF WorkOK
  <1> QED
    BY <1>4, <1>5 DEF IsNext, i

\* The loop of a task keeps the order of its steps and the share that is done.
LEMMA OwnLoopWorks ==
  ASSUME TaskManagerAssumption, TaskRuntimeAssumption, RuntimeInv, RuntimeInv', NEW t \in TaskIds,
         LoopStep(t) \/ LoopChoice(t), Exists(t), WorkOK(tasks[t]), LoopOK(loop[t], tasks[t])
  PROVE  /\ tasks'[t].status # "absent" /\ WorkOK(tasks'[t]) /\ LoopOK(loop'[t], tasks'[t])
  <1> DEFINE task == tasks[t]
             x == loop[t]
  <1>0. /\ tasks \in [TaskIds -> TaskRecords] /\ loop \in [TaskIds -> LoopRecords]
        /\ tasks'[t] \in TaskRecords /\ task \in TaskRecords /\ x \in LoopRecords
        /\ MaxSteps \in Nat /\ task.progress \in Percents
    BY Constants DEF RuntimeInv, ExecutorOK, LoopsOK, TypeOK, TasksReport
  <1>1. task.status # "absent" /\ WorkOK(task) /\ LoopOK(x, task)
    BY DEF Exists
  <1>2. ASSUME NEW pc, Goes(t, pc)
        PROVE  loop'[t].pc = pc /\ loop'[t].step = x.step
    BY <1>0, <1>2 DEF Goes, LoopRecords
  <1>3. ASSUME NEW pc, Leaves(t, pc)
        PROVE  loop'[t].pc = pc
    BY <1>0, <1>3 DEF Leaves, NoLoop
  <1>4. Ends(t) => loop'[t].pc = "off"
    BY <1>0 DEF Ends, NoLoop
  <1>5. ASSUME UNCHANGED tasks, loop'[t].pc \notin {"gate", "advance"} \cup InStep
        PROVE  tasks'[t].status # "absent" /\ WorkOK(tasks'[t]) /\ LoopOK(loop'[t], tasks'[t])
    BY <1>1, <1>5, LoopBetween
  <1>6. ASSUME UNCHANGED tasks, x.pc \in InStep, loop'[t].step = x.step,
               loop'[t].pc \in InStep \ {"merge", "complete"}
        PROVE  tasks'[t].status # "absent" /\ WorkOK(tasks'[t]) /\ LoopOK(loop'[t], tasks'[t])
    BY <1>1, <1>6, LoopGoesOn
  <1>7. CASE LoopChoice(t)
    <2>1. CASE LoopThrows(t)
      <3>1. UNCHANGED tasks /\ loop'[t].pc = "errorRead"
        BY <1>3, <2>1 DEF LoopThrows
      <3> QED
        BY <1>5, <3>1 DEF InStep
    <2>2. CASE WorkCalls(t) \/ WorkParks(t) \/ WorkDone(t)
      <3>1. /\ UNCHANGED tasks /\ x.pc = "work" /\ loop'[t].step = x.step
            /\ loop'[t].pc \in {"mergeRead", "artifactRead", "check", "workGate", "after"}
        BY <1>2, <2>2 DEF WorkCalls, WorkParks, WorkDone
      <3> QED
        BY <1>6, <3>1 DEF InStep
    <2> QED
      BY <1>7, <2>1, <2>2 DEF LoopChoice
  <1>8. CASE LoopStep(t)
    <2>1. CASE \/ LoopFirstRead(t) \/ LoopHeadDone(t) \/ LoopHeadNoStep(t) \/ LoopWriteRefused(t)
               \/ WorkCancelled(t) \/ LoopAfterCancelled(t) \/ LoopNext(t) \/ LoopErrorRead(t)
               \/ LoopEnds(t)
      <3>1. UNCHANGED tasks /\ loop'[t].pc \in {"head", "off", "finish", "errorRead", "fail"}
        BY <1>2, <1>3, <1>4, <2>1
        DEF LoopFirstRead, LoopHeadDone, LoopHeadNoStep, LoopWriteRefused, WorkCancelled,
            LoopAfterCancelled, LoopNext, LoopErrorRead, LoopEnds
      <3> QED
        BY <1>5, <3>1 DEF InStep
    <2>2. CASE LoopEnters(t) \/ WorkArtifactRead(t)
      <3>1. /\ UNCHANGED tasks /\ x.pc \in {"entered", "artifactRead"} /\ loop'[t].step = x.step
            /\ loop'[t].pc \in {"work", "artifact"}
        BY <1>2, <2>2 DEF LoopEnters, WorkArtifactRead
      <3> QED
        BY <1>6, <3>1 DEF InStep
    <2>3. CASE WorkChecked(t)
      <3>1. /\ UNCHANGED tasks /\ x.pc = "check"
            /\ loop'[t].pc = "off" \/ (loop'[t].pc = "work" /\ loop'[t].step = x.step)
        BY <1>2, <1>4, <2>3 DEF WorkChecked
      <3> QED
        BY <1>5, <1>6, <3>1 DEF InStep
    <2>4. CASE LoopHeadStep(t)
      <3>1. /\ UNCHANGED tasks /\ loop'[t].pc \in {"gate", "advance"}
            /\ loop'[t].step = selectNextStep(task) /\ selectNextStep(task) # NoStep
            /\ loop'[t].progress = PercentDone(task, 0)
        BY <1>0, <2>4 DEF LoopHeadStep, LoopRecords
      <3>2. IsNext(task, loop'[t].step)
        BY <1>0, <1>1, <3>1, NextIsNext
      <3> QED
        BY <1>1, <3>1, <3>2 DEF LoopOK, InStep
    <2>5. CASE WorkMergeRead(t)
      <3>1. /\ UNCHANGED tasks /\ x.pc = "mergeRead" /\ loop'[t].pc = "merge"
            /\ loop'[t].step = x.step /\ loop'[t].progress = task.progress /\ loop'[t].cur = task.cur
        BY <1>0, <2>5 DEF WorkMergeRead, LoopRecords
      <3> QED
        BY <1>1, <3>1 DEF LoopOK, InStep
    <2>6. CASE LoopAfterStep(t)
      <3>1. /\ UNCHANGED tasks /\ x.pc = "after" /\ loop'[t].pc = "complete"
            /\ loop'[t].step = x.step /\ loop'[t].progress = PercentDone(task, 1)
        BY <1>0, <2>6 DEF LoopAfterStep, LoopRecords
      <3> QED
        BY <1>1, <3>1 DEF LoopOK, InStep
    <2>7. CASE LoopAdvance(t)
      <3>1. /\ x.pc = "advance" /\ loop'[t].pc = "entered" /\ loop'[t].step = x.step
        BY <1>0, <2>7 DEF LoopAdvance, LoopRecords
      <3>2. IsNext(task, x.step) /\ x.progress = PercentDone(task, 0)
        BY <1>1, <3>1 DEF LoopOK
      <3>3. tasks'[t] = Worked(task, PercentDone(task, 0),
                               ensureStepForPhase(completeCurrentStep(task), task.cur, x.step),
                               Named(task, x.step))
        BY <1>0, <2>7, <3>2 DEF LoopAdvance, advanceTaskPhase
      <3>4. WorkOK(tasks'[t]) /\ IsNext(tasks'[t], x.step) /\ tasks'[t].cur = x.step
        BY <1>0, <1>1, <3>2, <3>3, AdvancedWork
      <3>5. tasks'[t].status # "absent"
        BY <1>0, <1>1, <3>3 DEF Worked, Started, TaskRecords
      <3> QED
        BY <3>1, <3>4, <3>5 DEF LoopOK, InStep
    <2>8. CASE WorkMerge(t)
      <3>1. /\ x.pc = "merge" /\ loop'[t].pc = "work" /\ loop'[t].step = x.step
        BY <1>0, <2>8 DEF WorkMerge, LoopRecords
      <3>2. IsNext(task, task.cur) /\ x.step = task.cur /\ x.cur = task.cur /\ x.progress = task.progress
        BY <1>1, <3>1 DEF LoopOK, InStep
      <3>3. tasks'[t] = Worked(task, task.progress,
                               ensureStepForPhase(task.steps, task.cur, task.cur),
                               Named(task, task.cur))
        BY <1>0, <2>8, <3>2 DEF WorkMerge, updateTaskProgress
      <3>4. WorkOK(tasks'[t]) /\ Kept(task, tasks'[t])
        BY <1>0, <1>1, <3>2, <3>3, MergedWork
      <3>5. tasks'[t].status # "absent"
        BY <1>0, <1>1, <3>3 DEF Worked, Started, TaskRecords
      <3>6. LoopOK(x, tasks'[t])
        BY <1>0, <1>1, <3>4, <3>5, LoopKept
      <3> QED
        BY <3>1, <3>4, <3>5, <3>6, LoopGoesOn DEF InStep
    <2>9. CASE WorkArtifact(t)
      <3>1. /\ x.pc = "artifact" /\ loop'[t].pc = "work" /\ loop'[t].step = x.step
        BY <1>2, <2>9 DEF WorkArtifact
      <3>2. tasks'[t] = [task EXCEPT !.artifacts = @ + 1]
        BY <1>0, <2>9 DEF WorkArtifact, attachArtifact
      <3>3. WorkOK(tasks'[t]) /\ Kept(task, tasks'[t])
        BY <1>0, <1>1, <3>2, AttachedKeepsWork
      <3>4. tasks'[t].status # "absent"
        BY <1>0, <1>1, <3>2 DEF TaskRecords
      <3>5. LoopOK(x, tasks'[t])
        BY <1>0, <1>1, <3>3, <3>4, LoopKept
      <3> QED
        BY <3>1, <3>3, <3>4, <3>5, LoopGoesOn DEF InStep
    <2>10. CASE LoopComplete(t)
      <3>1. x.pc = "complete" /\ loop'[t].pc = "completed"
        BY <1>3, <2>10 DEF LoopComplete
      <3>2. IsNext(task, task.cur) /\ x.progress = PercentDone(task, 1)
        BY <1>1, <3>1 DEF LoopOK, InStep
      <3>3. tasks'[t] = Worked(task, PercentDone(task, 1), completeCurrentStep(task), NoStep)
        BY <1>0, <2>10, <3>2 DEF LoopComplete, completeStep
      <3>4. WorkOK(tasks'[t])
        BY <1>0, <1>1, <3>2, <3>3, StepCompletedWork
      <3>5. tasks'[t].status # "absent"
        BY <1>0, <1>1, <3>3 DEF Worked, Started, TaskRecords
      <3> QED
        BY <3>1, <3>4, <3>5, LoopBetween DEF InStep
    <2>11. CASE LoopFinish(t) \/ LoopFail(t)
      <3>1. PICK status \in {"completed", "failed"} : tasks'[t] = WithStatus(task, status)
        BY <1>0, <2>11 DEF LoopFinish, LoopFail, completeTask, failTask, Finish
      <3>2. WorkOK(tasks'[t])
        BY <1>0, <1>1, <3>1, StatusKeepsWork, CompletedWork
      <3>3. tasks'[t].status # "absent"
        BY <1>0, <3>1, WithStatusType
      <3>4. loop'[t].pc \in {"ending", "failing"}
        BY <1>2, <2>11 DEF LoopFinish, LoopFail
      <3> QED
        BY <3>2, <3>3, <3>4, LoopBetween DEF InStep
    <2> QED
      BY <1>8, <2>1, <2>2, <2>3, <2>4, <2>5, <2>6, <2>7, <2>8, <2>9, <2>10, <2>11 DEF LoopStep
  <1> QED
    BY <1>7, <1>8
-----------------------------------------------------------------------------
(* What the others do to the work on a task.                                *)

\* The record of a task that is not worked on by its loop in a step: it keeps what
\* was done on it, or it is new.
KeepsWork(old, new) ==
  \/ old.status = "absent" /\ (new.status = "absent" \/ WorkOK(new))
  \/ old.status # "absent" /\ new.status # "absent" /\ WorkOK(new) /\ Kept(old, new)

Untouched(old) == old.status # "absent" => WorkOK(old)

GentleOperation(t) ==
  \/ \E status \in {"pending", "active"} : createTask(t, MaxSteps, status, 1, 0)
  \/ pauseTask(t) \/ resumeTask(t) \/ failTask(t)

CallerOperation(t) == GentleOperation(t) \/ cancelTask(t)

LEMMA SameKeepsWork ==
  ASSUME NEW old, NEW new, new = old, Untouched(old)
  PROVE  KeepsWork(old, new)
  BY DEF KeepsWork, Kept, Untouched

LEMMA CallerKeepsWork ==
  ASSUME TaskManagerAssumption, TaskRuntimeAssumption, TypeOK, NEW t \in TaskIds,
         CallerOperation(t), NEW u \in TaskIds, Untouched(tasks[t]), Untouched(tasks[u])
  PROVE  KeepsWork(tasks[u], tasks'[u])
  <1>0. /\ tasks \in [TaskIds -> TaskRecords] /\ tasks[u] \in TaskRecords /\ tasks[t] \in TaskRecords
        /\ MaxSteps \in Nat
    BY Constants DEF TypeOK
  <1>1. ASSUME NEW status \in {"active", "paused", "failed", "cancelled"}, Exists(t)
        PROVE  KeepsWork(tasks[t], WithStatus(tasks[t], status))
    <2>1. WithStatus(tasks[t], status).status # "absent"
      BY <1>0, WithStatusType
    <2> QED
      BY <1>0, <1>1, <2>1, StatusKeepsWork DEF KeepsWork, Untouched, Exists
  <1>2. ASSUME NEW record, NEW previous \in resolveActiveTaskFromState(SessionOf[t]),
               KeepsWork(tasks[t], record), tasks' = InsteadOf(t, record, previous)
        PROVE  KeepsWork(tasks[u], tasks'[u])
    <2>1. CASE u = t
      BY <1>2, <2>1 DEF InsteadOf
    <2>2. CASE u # t /\ u # previous
      BY <1>2, <2>2, SameKeepsWork DEF InsteadOf
    <2>3. CASE u # t /\ u = previous
      <3>1. tasks'[u] = [tasks[u] EXCEPT !.status = "paused"]
        BY <1>2, <2>3 DEF InsteadOf
      <3>2. tasks[u].status # "absent"
        <4>1. SessionOf[t] \in Sessions
          BY DEF TaskManagerAssumption
        <4>2. previous # NoTask
          BY <2>3 DEF TaskManagerAssumption
        <4> QED
          BY <2>3, <4>1, <4>2, ResolvedTask DEF isCurrentTaskStatus, CurrentStatuses
      <3>3. tasks'[u].status # "absent"
        BY <1>0, <3>1 DEF TaskRecords
      <3>4. WorkOK(tasks'[u]) /\ Kept(tasks[u], tasks'[u])
        BY <1>0, <3>1, <3>2, PausedKeepsWork DEF Untouched
      <3> QED
        BY <3>2, <3>3, <3>4 DEF KeepsWork
    <2> QED
      BY <2>1, <2>2, <2>3
  <1>3. ASSUME NEW status \in {"pending", "active"}, createTask(t, MaxSteps, status, 1, 0)
        PROVE  KeepsWork(tasks[u], tasks'[u])
    <2>1. KeepsWork(tasks[t], buildTask(MaxSteps, status, 1, 0))
      BY <1>3, CreatedWork DEF createTask, Exists, KeepsWork
    <2> QED
      BY <1>2, <1>3, <2>1 DEF createTask
  <1>4. CASE resumeTask(t)
    BY <1>1, <1>2, <1>4 DEF resumeTask
  <1>5. CASE pauseTask(t) \/ cancelTask(t) \/ failTask(t)
    <2>1. PICK status \in {"paused", "failed", "cancelled"} :
            Exists(t) /\ tasks' = [tasks EXCEPT ![t] = WithStatus(tasks[t], status)]
      BY <1>5 DEF pauseTask, cancelTask, failTask, Finish
    <2>2. CASE u = t
      BY <1>0, <1>1, <2>1, <2>2
    <2>3. CASE u # t
      BY <1>0, <2>1, <2>3, SameKeepsWork
    <2> QED
      BY <2>2, <2>3
  <1> QED
    BY <1>3, <1>4, <1>5 DEF CallerOperation, GentleOperation

\* Loops work on their own task only.
LEMMA LoopWorksAlone ==
  ASSUME RuntimeInv, NEW t \in TaskIds, LoopStep(t) \/ LoopChoice(t), NEW u \in TaskIds, u # t
  PROVE  tasks'[u] = tasks[u]
  <1>0. tasks \in [TaskIds -> TaskRecords]
    BY DEF RuntimeInv, TypeOK
  <1>1. CASE LoopChoice(t)
    BY <1>1 DEF LoopChoice, WorkCalls, WorkParks, WorkDone, LoopThrows
  <1>2. CASE LoopAdvance(t) \/ WorkMerge(t) \/ LoopComplete(t)
    BY <1>0, <1>2
    DEF LoopAdvance, WorkMerge, LoopComplete, advanceTaskPhase, updateTaskProgress, completeStep
  <1>3. CASE WorkArtifact(t) \/ LoopFinish(t) \/ LoopFail(t)
    BY <1>0, <1>3
    DEF WorkArtifact, LoopFinish, LoopFail, attachArtifact, completeTask, failTask, Finish
  <1>4. CASE \/ LoopFirstRead(t) \/ LoopHeadDone(t) \/ LoopHeadNoStep(t) \/ LoopHeadStep(t)
             \/ LoopWriteRefused(t) \/ LoopEnters(t) \/ WorkMergeRead(t) \/ WorkArtifactRead(t)
             \/ WorkChecked(t) \/ WorkCancelled(t) \/ LoopAfterStep(t)
             \/ LoopAfterCancelled(t) \/ LoopNext(t) \/ LoopErrorRead(t) \/ LoopEnds(t)
    BY <1>4
    DEF LoopFirstRead, LoopHeadDone, LoopHeadNoStep, LoopHeadStep, LoopWriteRefused,
        LoopEnters, WorkMergeRead, WorkArtifactRead, WorkChecked, WorkCancelled, LoopAfterStep,
        LoopAfterCancelled, LoopNext, LoopErrorRead, LoopEnds
  <1> QED
    BY <1>1, <1>2, <1>3, <1>4 DEF LoopStep

\* Clients that neither refine a task nor complete it over the runtime's head.
NoOverride == Kinds \cap {"refine", "complete"} = {}

\* Where their calls never are.
NoSuchCalls ==
  {"refineRead", "refine"} \cup (IF "cancel" \in Kinds THEN {} ELSE {"cancelRead", "cancel"})

OnlyKinds == \A r \in Requests : req[r].pc \notin NoSuchCalls

\* Then every write is a step of the loop, or one of the calls of a client.
LEMMA StepIsLoopOrCaller ==
  ASSUME TaskManagerAssumption, TaskRuntimeAssumption, RuntimeInv, NoOverride, OnlyKinds, RuntimeNext
  PROVE  \/ \E t \in TaskIds : LoopStep(t) \/ LoopChoice(t)
         \/ UNCHANGED tasks
         \/ \E t \in TaskIds : GentleOperation(t)
         \/ \E r \in Requests : Cancel(r) /\ req[r].task \in TaskIds
  <1>1. \A r \in Requests : req[r].pc # "idle" => req[r].task \in TaskIds
    BY DEF RuntimeInv, ExecutorOK, RequestsOK, NamedRequests
  <1>2. ASSUME NEW t \in TaskIds, DirectCall(t)
        PROVE  GentleOperation(t)
    BY <1>2 DEF DirectCall, NoOverride, GentleOperation
  <1>3. ASSUME NEW r \in Requests, RequestArrives(r)
        PROVE  UNCHANGED tasks
    BY <1>3 DEF RequestArrives, CreateCalled, StartCalled, PauseCalled, ResumeCalled, CancelCalled,
                RefineCalled, Arrives
  <1>4. ASSUME NEW r \in Requests, RequestStep(r)
        PROVE  \/ UNCHANGED tasks
               \/ \E t \in TaskIds : GentleOperation(t)
               \/ Cancel(r) /\ req[r].task \in TaskIds
    <2>1. CASE \/ CreateRead(r) \/ SpawnCalled(r) \/ SpawnRead(r) \/ Spawn(r) \/ StartLoop(r)
               \/ StartFails(r) \/ PauseRead(r) \/ ResumeRead(r) \/ Release(r) \/ CancelRead(r)
               \/ RefineRead(r)
      BY <2>1 DEF CreateRead, SpawnCalled, SpawnRead, Spawn, StartLoop, StartFails, PauseRead,
                  ResumeRead, Release, CancelRead, RefineRead
    <2>2. CASE Create(r)
      BY <1>1, <2>2 DEF Create, GentleOperation
    <2>3. CASE SpawnResume(r) \/ Pause(r) \/ Resume(r)
      BY <1>1, <2>3 DEF SpawnResume, Pause, Resume, GentleOperation
    <2>5. CASE Cancel(r)
      BY <1>1, <2>5 DEF Cancel
    <2>4. CASE Refine(r)
      BY <2>4 DEF Refine, OnlyKinds, NoSuchCalls
    <2> QED
      BY <1>4, <2>1, <2>2, <2>3, <2>4, <2>5 DEF RequestStep
  <1>5. CASE Stops \/ Starts
    BY <1>5 DEF Stops, Starts
  <1>6. ASSUME NEW t \in TaskIds, Recovers(t)
        PROVE  GentleOperation(t)
    BY <1>6 DEF Recovers, GentleOperation
  <1> QED
    BY <1>2, <1>3, <1>4, <1>5, <1>6 DEF RuntimeNext, Recovery

-----------------------------------------------------------------------------
(* The invariant. *)

CallsExisting == \A r \in Requests : Called(req[r]) => Exists(req[r].task)

WorkInv ==
  /\ \A t \in TaskIds : Untouched(tasks[t]) /\ LoopOK(loop[t], tasks[t])
  /\ CallsExisting /\ OnlyKinds

LEMMA StepKeepsOthersWork ==
  ASSUME TaskManagerAssumption, TaskRuntimeAssumption, RuntimeInv, NoOverride, WorkInv,
         RuntimeNext, NEW u \in TaskIds, ~(LoopStep(u) \/ LoopChoice(u))
  PROVE  KeepsWork(tasks[u], tasks'[u])
  <1>1. Untouched(tasks[u])
    BY DEF WorkInv
  <1>2. ASSUME NEW t \in TaskIds, LoopStep(t) \/ LoopChoice(t)
        PROVE  KeepsWork(tasks[u], tasks'[u])
    BY <1>1, <1>2, LoopWorksAlone, SameKeepsWork
  <1>3. ASSUME NEW t \in TaskIds, CallerOperation(t)
        PROVE  KeepsWork(tasks[u], tasks'[u])
    BY <1>1, <1>3, CallerKeepsWork DEF RuntimeInv, WorkInv
  <1>4. ASSUME NEW r \in Requests, Cancel(r), req[r].task \in TaskIds
        PROVE  \E t \in TaskIds : CallerOperation(t)
    BY <1>4 DEF Cancel, CallerOperation
  <1>5. CASE UNCHANGED tasks
    BY <1>1, <1>5, SameKeepsWork
  <1> QED
    BY <1>2, <1>3, <1>4, <1>5, StepIsLoopOrCaller DEF WorkInv, CallerOperation

LEMMA StepKeepsTaskWork ==
  ASSUME TaskManagerAssumption, TaskRuntimeAssumption, RuntimeInv, RuntimeInv', NoOverride, WorkInv,
         RuntimeNext, NEW u \in TaskIds
  PROVE  Untouched(tasks'[u]) /\ LoopOK(loop'[u], tasks'[u]) /\ (Exists(u) => tasks'[u].status # "absent")
  <1>0. /\ tasks[u] \in TaskRecords /\ tasks'[u] \in TaskRecords /\ loop[u] \in LoopRecords
        /\ MaxSteps \in Nat
    BY Constants DEF RuntimeInv, TypeOK, ExecutorOK, LoopsOK
  <1>1. Untouched(tasks[u]) /\ LoopOK(loop[u], tasks[u])
    BY DEF WorkInv
  <1>2. CASE LoopStep(u) \/ LoopChoice(u)
    <2>1. loop[u].pc # "off"
      BY <1>2
      DEF LoopStep, LoopChoice, LoopFirstRead, LoopHeadDone, LoopHeadNoStep, LoopHeadStep,
          LoopWriteRefused, LoopAdvance, LoopEnters, WorkMergeRead, WorkMerge, WorkArtifactRead,
          WorkArtifact, WorkChecked, WorkCancelled, LoopAfterStep, LoopAfterCancelled, LoopComplete,
          LoopNext, LoopFinish, LoopErrorRead, LoopFail, LoopEnds, WorkCalls, WorkParks, WorkDone,
          LoopThrows, LoopFree
    <2>2. Exists(u) /\ WorkOK(tasks[u])
      BY <1>1, <2>1 DEF LoopOK, Exists, Untouched
    <2> QED
      BY <1>1, <1>2, <2>2, OwnLoopWorks DEF Untouched
  <1>3. CASE ~(LoopStep(u) \/ LoopChoice(u))
    <2>1. KeepsWork(tasks[u], tasks'[u])
      BY <1>3, StepKeepsOthersWork
    <2>2. OtherMoves(u)
      BY <1>3, OthersMove
    <2>3. LoopOK(loop'[u], tasks[u])
      <3>1. CASE loop'[u] = loop[u]
        BY <1>1, <3>1
      <3>2. CASE loop'[u] = NoLoop
        BY <3>2 DEF NoLoop, LoopOK, InStep
      <3>3. CASE /\ loop'[u] = [NoLoop EXCEPT !.pc = "first"]
                 /\ \E r \in Requests : Called(req[r]) /\ req[r].task = u
        <4>1. Exists(u)
          BY <3>3 DEF WorkInv, CallsExisting
        <4>2. loop'[u].pc = "first"
          BY <3>3 DEF NoLoop
        <4> QED
          BY <4>1, <4>2, LoopBetween DEF InStep, Exists
      <3>4. CASE loop[u].pc = "gate" /\ loop'[u] = [loop[u] EXCEPT !.pc = "advance"]
        <4>1. loop'[u].pc = "advance" /\ loop'[u].step = loop[u].step
              /\ loop'[u].progress = loop[u].progress
          BY <1>0, <3>4 DEF LoopRecords
        <4> QED
          BY <1>1, <3>4, <4>1 DEF LoopOK, InStep
      <3>5. CASE loop[u].pc = "workGate" /\ loop'[u] = [loop[u] EXCEPT !.pc = "work"]
        <4>1. loop'[u].pc = "work" /\ loop'[u].step = loop[u].step
          BY <1>0, <3>5 DEF LoopRecords
        <4> QED
          BY <1>1, <3>5, <4>1, LoopGoesOn DEF InStep
      <3> QED
        BY <2>2, <3>1, <3>2, <3>3, <3>4, <3>5 DEF OtherMoves
    <2>4. CASE Exists(u)
      <3>1. tasks'[u].status # "absent" /\ WorkOK(tasks'[u]) /\ Kept(tasks[u], tasks'[u])
        BY <2>1, <2>4 DEF KeepsWork, Exists
      <3>2. LoopOK(loop'[u], tasks'[u])
        BY <1>0, <1>1, <2>3, <2>4, <3>1, LoopKept DEF Untouched, Exists
      <3> QED
        BY <3>1, <3>2 DEF Untouched
    <2>5. CASE ~Exists(u)
      <3>1. loop'[u].pc = "off"
        BY <2>3, <2>5 DEF LoopOK, Exists
      <3>2. LoopOK(loop'[u], tasks'[u])
        BY <3>1 DEF LoopOK, InStep
      <3> QED
        BY <2>1, <2>5, <3>2 DEF KeepsWork, Untouched, Exists
    <2> QED
      BY <2>4, <2>5
  <1> QED
    BY <1>2, <1>3

\* A request under way is about a task there is: it was there when the call arrived,
\* or the call has created it.
GoodCall(q) ==
  /\ q.pc \notin NoSuchCalls
  /\ Called(q) => Exists(q.task) \/ tasks'[q.task].status # "absent"

LEMMA SameGoodCall ==
  ASSUME NEW old, GoodCall(old), NEW new, new.pc = old.pc, new.task = old.task
  PROVE  GoodCall(new)
  BY DEF GoodCall, Called

LEMMA StepKeepsCalls ==
  ASSUME TaskManagerAssumption, TaskRuntimeAssumption, RuntimeInv, NoOverride, CallsExisting,
         OnlyKinds, RuntimeNext, NEW q \in Requests
  PROVE  GoodCall(req'[q])
  <1>0. /\ req \in [Requests -> NamedRequests] /\ req[q] \in RequestRecords
        /\ tasks \in [TaskIds -> TaskRecords]
    BY DEF RuntimeInv, ExecutorOK, RequestsOK, NamedRequests, TypeOK
  <1>1. GoodCall(req[q])
    BY DEF GoodCall, CallsExisting, OnlyKinds
  <1>2. ASSUME NEW t, Ends(t)
        PROVE  req'[q].pc = req[q].pc /\ req'[q].task = req[q].task
    <2>1. req'[q] = IF req[q].task = t THEN [req[q] EXCEPT !.held = FALSE] ELSE req[q]
      BY <1>2 DEF Ends, Unregister
    <2> QED
      BY <1>0, <2>1 DEF RequestRecords
  <1>3. ASSUME NEW t \in TaskIds, LoopStep(t) \/ LoopChoice(t)
        PROVE  req'[q].pc = req[q].pc /\ req'[q].task = req[q].task
    <2>1. UNCHANGED req \/ Ends(t)
      BY <1>3
      DEF LoopStep, LoopChoice, LoopFirstRead, LoopHeadDone, LoopHeadNoStep, LoopHeadStep,
          LoopWriteRefused, LoopAdvance, LoopEnters, WorkMergeRead, WorkMerge, WorkArtifactRead,
          WorkArtifact, WorkChecked, WorkCancelled, LoopAfterStep, LoopAfterCancelled, LoopComplete,
          LoopNext, LoopFinish, LoopErrorRead, LoopFail, LoopEnds, WorkCalls, WorkParks, WorkDone,
          LoopThrows
    <2> QED
      BY <1>2, <2>1
  <1>4. CASE UNCHANGED req
    BY <1>1, <1>4
  <1>5. CASE Stops
    BY <1>5 DEF Stops, Idle, GoodCall, Called, NoSuchCalls
  <1>6. ASSUME NEW r \in Requests, RequestArrives(r)
        PROVE  GoodCall(req'[q])
    <2>1. ASSUME NEW kind, NEW pc, NEW t \in TaskIds, Arrives(r, kind, pc, t),
                 pc \notin NoSuchCalls, Exists(t) \/ pc = "createRead"
          PROVE  GoodCall(req'[q])
      <3>1. CASE q = r
        <4>1. req'[q] = [Idle EXCEPT !.pc = pc, !.task = t]
          BY <1>0, <2>1, <3>1 DEF Arrives
        <4>2. req'[q].pc = pc /\ req'[q].task = t
          BY <4>1 DEF Idle
        <4> QED
          BY <2>1, <4>2 DEF GoodCall, Called
      <3>2. CASE q # r
        BY <1>0, <1>1, <2>1, <3>2 DEF Arrives
      <3> QED
        BY <3>1, <3>2
    <2>2. CASE RefineCalled(r)
      BY <2>2 DEF RefineCalled, Arrives, NoOverride
    <2>3. CASE CancelCalled(r)
      <3>1. PICK t \in TaskIds :
              /\ Exists(t) /\ "cancel" \in Kinds
              /\ \/ req' = [p \in Requests |->
                      IF p = r THEN [Idle EXCEPT !.pc = "cancelRead", !.task = t]
                      ELSE IF req[p].task = t THEN [req[p] EXCEPT !.held = FALSE] ELSE req[p]]
                 \/ req' = [req EXCEPT ![r] = [Idle EXCEPT !.pc = "cancelRead", !.task = t]]
        BY <2>3 DEF CancelCalled
      <3>2. CASE q = r
        <4>1. req'[q] = [Idle EXCEPT !.pc = "cancelRead", !.task = t]
          BY <1>0, <3>1, <3>2
        <4>2. req'[q].pc = "cancelRead" /\ req'[q].task = t
          BY <4>1 DEF Idle
        <4> QED
          BY <3>1, <4>2 DEF GoodCall, Called, NoSuchCalls
      <3>3. CASE q # r
        <4>1. req'[q] = req[q] \/ req'[q] = [req[q] EXCEPT !.held = FALSE]
          BY <1>0, <3>1, <3>3
        <4>2. req'[q].pc = req[q].pc /\ req'[q].task = req[q].task
          BY <1>0, <4>1 DEF RequestRecords
        <4> QED
          BY <1>1, <4>2, SameGoodCall
      <3> QED
        BY <3>2, <3>3
    <2>4. CASE CreateCalled(r) \/ StartCalled(r) \/ PauseCalled(r) \/ ResumeCalled(r)
      BY <2>1, <2>4 DEF CreateCalled, StartCalled, PauseCalled, ResumeCalled, NoSuchCalls
    <2> QED
      BY <1>6, <2>2, <2>3, <2>4 DEF RequestArrives
  <1>7. ASSUME NEW r \in Requests, RequestStep(r)
        PROVE  GoodCall(req'[q])
    <2>0. req[r] \in RequestRecords /\ GoodCall(req[r])
      BY <1>0 DEF GoodCall, CallsExisting, OnlyKinds, NamedRequests
    <2>1. CASE q # r
      <3>1. req'[q] = req[q]
        BY <1>0, <1>7, <2>1
        DEF RequestStep, CreateRead, Create, SpawnCalled, SpawnRead, SpawnResume, Spawn, StartLoop,
            StartFails, PauseRead, Pause, ResumeRead, Resume, Release, CancelRead, Cancel, RefineRead,
            Refine, TakesOver, Becomes, Over
      <3> QED
        BY <1>1, <3>1
    <2>2. CASE q = r
      <3>1. ASSUME NEW pc, Becomes(r, pc)
            PROVE  req'[q].pc = pc /\ req'[q].task = req[q].task
        BY <1>0, <2>2, <3>1 DEF Becomes, RequestRecords
      <3>2. ASSUME Over(r)
            PROVE  GoodCall(req'[q])
        BY <1>0, <2>2, <3>2 DEF Over, Idle, GoodCall, Called, NoSuchCalls
      <3>3. ASSUME Called(req[q]), Called(req'[q]), req'[q].pc \notin NoSuchCalls,
                   req'[q].task = req[q].task
            PROVE  GoodCall(req'[q])
        BY <1>1, <3>3 DEF GoodCall
      <3>4. CASE CreateRead(r)
        <4>1. req'[q].pc = "create"
          BY <3>1, <3>4 DEF CreateRead
        <4> QED
          BY <4>1 DEF GoodCall, Called, NoSuchCalls
      <3>5. CASE Create(r)
        <4>1. Over(r) \/ (req'[q].pc = "created" /\ req'[q].task = req[q].task)
          BY <3>1, <3>5 DEF Create
        <4>2. req[q].task \in TaskIds
          BY <1>0, <2>2, <3>5 DEF Create, NamedRequests
        <4>3. tasks'[req[q].task].status # "absent"
          <5>1. PICK status, previous :
                  /\ status \in {"pending", "active"}
                  /\ tasks' = InsteadOf(req[q].task, buildTask(MaxSteps, status, 1, 0), previous)
            BY <2>2, <3>5 DEF Create, createTask
          <5>2. buildTask(MaxSteps, status, 1, 0).status = status
            BY DEF buildTask
          <5> QED
            BY <4>2, <5>1, <5>2 DEF InsteadOf
        <4> QED
          BY <3>2, <4>1, <4>3 DEF GoodCall, NoSuchCalls
      <3>6. CASE RefineRead(r) \/ Refine(r)
        BY <2>2, <3>6 DEF RefineRead, Refine, OnlyKinds, NoSuchCalls
      <3>7. ASSUME NEW rest, TakesOver(r, rest), Called(req[q])
            PROVE  GoodCall(req'[q])
        <4>1. Over(r) \/ Becomes(r, "starting")
          BY <3>7 DEF TakesOver
        <4> QED
          BY <3>1, <3>2, <3>3, <3>7, <4>1 DEF Called, NoSuchCalls
      <3>8. CASE SpawnRead(r) \/ Spawn(r)
        <4>1. Called(req[q])
          BY <2>2, <3>8 DEF SpawnRead, Spawn, Called
        <4>2. Over(r) \/ Becomes(r, "spawnResume") \/ \E rest : TakesOver(r, rest)
          BY <3>8 DEF SpawnRead, Spawn
        <4> QED
          BY <3>1, <3>2, <3>3, <3>7, <4>1, <4>2 DEF Called, NoSuchCalls
      <3>9. CASE ResumeRead(r)
        <4>1. Called(req[q])
          BY <2>2, <3>9 DEF ResumeRead, Called
        <4>2. \/ Over(r)
              \/ req' = [req EXCEPT ![r] = [@ EXCEPT !.pc = "resumeNew", !.quiet = TRUE]]
              \/ req' = [req EXCEPT ![r] = [@ EXCEPT !.pc = "resumeHeld", !.held = TRUE]]
          BY <3>9 DEF ResumeRead
        <4>3. ASSUME ~Over(r)
              PROVE  req'[q].pc \in {"resumeNew", "resumeHeld"} /\ req'[q].task = req[q].task
          <5>1. \/ req'[q] = [req[q] EXCEPT !.pc = "resumeNew", !.quiet = TRUE]
                \/ req'[q] = [req[q] EXCEPT !.pc = "resumeHeld", !.held = TRUE]
            BY <1>0, <2>2, <4>2, <4>3
          <5> QED
            BY <1>0, <5>1 DEF RequestRecords
        <4> QED
          BY <3>2, <3>3, <4>1, <4>3 DEF Called, NoSuchCalls
      <3>10. CASE \/ SpawnCalled(r) \/ SpawnResume(r) \/ StartLoop(r) \/ StartFails(r) \/ PauseRead(r)
                  \/ Pause(r) \/ Resume(r) \/ Release(r) \/ CancelRead(r) \/ Cancel(r)
        <4>1. Called(req[q])
          BY <2>2, <3>10
          DEF SpawnCalled, SpawnResume, StartLoop, StartFails, PauseRead, Pause, Resume, Release,
              CancelRead, Cancel, Called
        <4>2. Over(r) \/ \E pc \in {"spawnRead", "spawn", "pause", "release", "created", "cancel"} :
                          Becomes(r, pc) /\ (pc = "cancel" => req[q].pc = "cancelRead")
          BY <2>2, <3>10
          DEF SpawnCalled, SpawnResume, StartLoop, StartFails, PauseRead, Pause, Resume, Release,
              CancelRead, Cancel
        <4>3. req[q].pc \notin NoSuchCalls
          BY DEF OnlyKinds
        <4> QED
          BY <3>1, <3>2, <3>3, <4>1, <4>2, <4>3 DEF Called, NoSuchCalls
      <3> QED
        BY <1>7, <3>4, <3>5, <3>6, <3>8, <3>9, <3>10 DEF RequestStep
    <2> QED
      BY <2>1, <2>2
  <1>8. ASSUME NEW t \in TaskIds, DirectCall(t) \/ Recovers(t)
        PROVE  UNCHANGED req
    BY <1>8 DEF DirectCall, Recovers, rtVars
  <1>9. Starts => UNCHANGED req
    BY DEF Starts
  <1> QED
    BY <1>1, <1>3, <1>4, <1>5, <1>6, <1>7, <1>8, <1>9, SameGoodCall DEF RuntimeNext, Recovery

LEMMA StepKeepsWorkInv ==
  ASSUME TaskManagerAssumption, TaskRuntimeAssumption, RuntimeInv, RuntimeInv', NoOverride, WorkInv,
         [RuntimeNext]_vars
  PROVE  WorkInv'
  <1>1. CASE UNCHANGED vars
    BY <1>1 DEF vars, WorkInv, CallsExisting, OnlyKinds, Exists
  <1>2. CASE RuntimeNext
    <2>1. ASSUME NEW u \in TaskIds
          PROVE  Untouched(tasks'[u]) /\ LoopOK(loop'[u], tasks'[u])
      BY <1>2, StepKeepsTaskWork
    <2>0. ASSUME NEW u \in TaskIds, Exists(u)
          PROVE  tasks'[u].status # "absent"
      BY <1>2, <2>0, StepKeepsTaskWork
    <2>2. \A q \in Requests : GoodCall(req'[q])
      BY <1>2, StepKeepsCalls DEF WorkInv
    <2>3. CallsExisting'
      <3> SUFFICES ASSUME NEW q \in Requests, Called(req'[q])
                   PROVE  tasks'[req'[q].task].status # "absent"
        BY DEF CallsExisting, Exists, Called
      <3>1. req'[q].task \in TaskIds
        BY DEF RuntimeInv, ExecutorOK, RequestsOK, NamedRequests, Called
      <3> QED
        BY <2>0, <2>2, <3>1 DEF GoodCall
    <2>4. OnlyKinds'
      BY <2>2 DEF OnlyKinds, GoodCall
    <2>5. \A u \in TaskIds : (Untouched(tasks[u]) /\ LoopOK(loop[u], tasks[u]))'
      BY <2>1
    <2> QED
      BY <2>3, <2>4, <2>5 DEF WorkInv
  <1> QED
    BY <1>1, <1>2

LEMMA AlwaysWorks ==
  ASSUME NoOverride PROVE RuntimeSpec => []WorkInv
  <1>1. RuntimeInit => WorkInv
    <2> SUFFICES ASSUME RuntimeInit PROVE WorkInv
      OBVIOUS
    <2>1. ASSUME NEW t \in TaskIds
          PROVE  Untouched(tasks[t]) /\ LoopOK(loop[t], tasks[t])
      BY DEF RuntimeInit, Init, NoRecord, NoLoop, Untouched, LoopOK, InStep
    <2> QED
      BY <2>1 DEF RuntimeInit, Idle, WorkInv, CallsExisting, OnlyKinds, NoSuchCalls, Called
  <1>2. RuntimeInv /\ RuntimeInv' /\ WorkInv /\ [RuntimeNext]_vars => WorkInv'
    BY StepKeepsWorkInv, TaskManagerAssumption, TaskRuntimeAssumption
  <1> QED
    BY <1>1, <1>2, RuntimeAlwaysInv, PTL DEF RuntimeSpec

\* With clients that neither refine a task nor complete it over the runtime's head, the
\* percentage in the store is the share of completed steps, although a loop computes
\* it from one read and stores it with a later write, and although pauses, resumptions,
\* cancellations, failures, other loops and restarts come in between.
THEOREM ProgressAlwaysShare ==
  ASSUME NoOverride PROVE RuntimeSpec => []ProgressIsShareOfSteps
  <1>1. WorkInv => ProgressIsShareOfSteps
    BY DEF WorkInv, Untouched, WorkOK, ProgressIsShareOfSteps, Exists
  <1> QED
    BY <1>1, AlwaysWorks, PTL
-----------------------------------------------------------------------------
(* Who completes a step. *)

\* A write that completes and cancels none.
SettlesNone(old, new) ==
  \A i \in StepIds :
    /\ new.steps[i] = "completed" => old.steps[i] = "completed"
    /\ new.steps[i] = "cancelled" => old.steps[i] = "cancelled"

LEMMA StatusSettlesNone ==
  ASSUME NEW task \in TaskRecords, NEW status \in {"active", "paused", "failed"}
  PROVE  SettlesNone(task, WithStatus(task, status))
  <1>1. WithStatus(task, status).steps = stepsAfterStatus(task, status)
    BY WithStatusType
  <1> QED
    BY <1>1 DEF SettlesNone, stepsAfterStatus, markSteps, isTerminalStatus, TerminalStatuses

LEMMA GentleSettlesNone ==
  ASSUME TypeOK, NEW t \in TaskIds, GentleOperation(t), NEW u \in TaskIds
  PROVE  SettlesNone(tasks[u], tasks'[u])
  <1>0. tasks \in [TaskIds -> TaskRecords]
    BY DEF TypeOK
  <1>1. ASSUME NEW record, NEW previous, SettlesNone(tasks[t], record),
               tasks' = InsteadOf(t, record, previous)
        PROVE  SettlesNone(tasks[u], tasks'[u])
    <2>1. [tasks[u] EXCEPT !.status = "paused"].steps = tasks[u].steps
      BY <1>0 DEF TaskRecords
    <2>2. CASE u = t
      BY <1>1, <2>2 DEF InsteadOf
    <2>3. CASE u # t
      <3>1. tasks'[u].steps = tasks[u].steps
        BY <1>1, <2>1, <2>3 DEF InsteadOf
      <3> QED
        BY <3>1 DEF SettlesNone
    <2> QED
      BY <2>2, <2>3
  <1>2. ASSUME NEW status \in {"pending", "active"}, createTask(t, MaxSteps, status, 1, 0)
        PROVE  SettlesNone(tasks[u], tasks'[u])
    <2>1. \A i \in StepIds : buildTask(MaxSteps, status, 1, 0).steps[i] \in {"absent", "active", "pending"}
      BY DEF buildTask, normalizeSteps
    <2>2. SettlesNone(tasks[t], buildTask(MaxSteps, status, 1, 0))
      BY <2>1 DEF SettlesNone
    <2> QED
      BY <1>1, <1>2, <2>2 DEF createTask
  <1>3. CASE resumeTask(t)
    BY <1>0, <1>1, <1>3, StatusSettlesNone DEF resumeTask
  <1>4. CASE pauseTask(t) \/ failTask(t)
    <2>1. PICK status \in {"paused", "failed"} : tasks' = [tasks EXCEPT ![t] = WithStatus(tasks[t], status)]
      BY <1>4 DEF pauseTask, failTask, Finish
    <2>2. CASE u = t
      BY <1>0, <2>1, <2>2, StatusSettlesNone
    <2>3. CASE u # t
      BY <1>0, <2>1, <2>3 DEF SettlesNone
    <2> QED
      BY <2>2, <2>3
  <1> QED
    BY <1>2, <1>3, <1>4 DEF GentleOperation

\* A loop finds no further step only when all of them are completed, as long as no
\* step is cancelled.
NoneCancelled(task) == \A i \in StepIds : task.steps[i] # "cancelled"

SettledInv ==
  \A t \in TaskIds :
    NoneCancelled(tasks[t]) /\ (loop[t].pc = "finish" => AllCompleted(tasks[t]))

CompletedByRunning(x, old, new) ==
  \A i \in StepIds :
    old.steps[i] # "completed" /\ new.steps[i] = "completed" => x.pc = "complete" /\ x.step = i

LEMMA SettlesNoneRuns ==
  ASSUME NEW x, NEW old, NEW new, SettlesNone(old, new), NoneCancelled(old)
  PROVE  CompletedByRunning(x, old, new) /\ NoneCancelled(new)
  BY DEF SettlesNone, CompletedByRunning, NoneCancelled

LEMMA OwnLoopCompletes ==
  ASSUME TaskManagerAssumption, TaskRuntimeAssumption, RuntimeInv, NEW t \in TaskIds,
         LoopStep(t) \/ LoopChoice(t), Exists(t), WorkOK(tasks[t]), LoopOK(loop[t], tasks[t]),
         NoneCancelled(tasks[t]), loop[t].pc = "finish" => AllCompleted(tasks[t])
  PROVE  /\ CompletedByRunning(loop[t], tasks[t], tasks'[t])
         /\ NoneCancelled(tasks'[t])
         /\ loop'[t].pc = "finish" => AllCompleted(tasks'[t])
  <1> DEFINE task == tasks[t]
             x == loop[t]
             Good == /\ CompletedByRunning(x, task, tasks'[t]) /\ NoneCancelled(tasks'[t])
                     /\ loop'[t].pc = "finish" => AllCompleted(tasks'[t])
  <1>0. /\ tasks \in [TaskIds -> TaskRecords] /\ loop \in [TaskIds -> LoopRecords]
        /\ task \in TaskRecords /\ x \in LoopRecords /\ MaxSteps \in Nat /\ task.progress \in Percents
    BY Constants DEF RuntimeInv, ExecutorOK, LoopsOK, TypeOK, TasksReport
  <1>1. WorkOK(task) /\ LoopOK(x, task) /\ NoneCancelled(task)
    OBVIOUS
  <1>2. ASSUME NEW pc, Goes(t, pc)
        PROVE  loop'[t].pc = pc
    BY <1>0, <1>2 DEF Goes, LoopRecords
  <1>3. ASSUME NEW pc, Leaves(t, pc)
        PROVE  loop'[t].pc = pc
    BY <1>0, <1>3 DEF Leaves, NoLoop
  <1>4. Ends(t) => loop'[t].pc = "off"
    BY <1>0 DEF Ends, NoLoop
  <1>5. ASSUME UNCHANGED tasks, loop'[t].pc # "finish"
        PROVE  Good
    BY <1>1, <1>5 DEF CompletedByRunning
  <1>6. ASSUME SettlesNone(task, tasks'[t]), loop'[t].pc # "finish"
        PROVE  Good
    BY <1>1, <1>6, SettlesNoneRuns
  <1> HIDE DEF Good
  <1>7. CASE LoopChoice(t)
    <2>1. UNCHANGED tasks /\ loop'[t].pc # "finish"
      BY <1>2, <1>3, <1>7 DEF LoopChoice, WorkCalls, WorkParks, WorkDone, LoopThrows
    <2> QED
      BY <1>5, <2>1 DEF Good
  <1>8. CASE LoopStep(t)
    <2>1. CASE \/ LoopFirstRead(t) \/ LoopHeadDone(t) \/ LoopWriteRefused(t) \/ LoopEnters(t)
               \/ WorkArtifactRead(t) \/ WorkChecked(t) \/ WorkCancelled(t) \/ LoopAfterCancelled(t)
               \/ LoopNext(t) \/ LoopErrorRead(t) \/ LoopEnds(t)
      <3>1. UNCHANGED tasks /\ loop'[t].pc # "finish"
        BY <1>2, <1>3, <1>4, <2>1
        DEF LoopFirstRead, LoopHeadDone, LoopWriteRefused, LoopEnters, WorkArtifactRead, WorkChecked,
            WorkCancelled, LoopAfterCancelled, LoopNext, LoopErrorRead, LoopEnds
      <3> QED
        BY <1>5, <3>1 DEF Good
    <2>2. CASE LoopHeadStep(t) \/ WorkMergeRead(t) \/ LoopAfterStep(t)
      <3>1. CASE LoopHeadStep(t)
        <4>1. loop'[t].pc \in {"gate", "advance"}
          BY <1>0, <3>1 DEF LoopHeadStep, LoopRecords
        <4>2. UNCHANGED tasks
          BY <3>1 DEF LoopHeadStep
        <4> QED
          BY <1>5, <4>1, <4>2 DEF Good
      <3>2. CASE WorkMergeRead(t) \/ LoopAfterStep(t)
        <4>1. loop'[t].pc \in {"merge", "complete"}
          <5>1. CASE WorkMergeRead(t)
            BY <1>0, <5>1 DEF WorkMergeRead, LoopRecords
          <5>2. CASE LoopAfterStep(t)
            BY <1>0, <5>2 DEF LoopAfterStep, LoopRecords
          <5> QED
            BY <3>2, <5>1, <5>2
        <4>2. UNCHANGED tasks
          BY <3>2 DEF WorkMergeRead, LoopAfterStep
        <4> QED
          BY <1>5, <4>1, <4>2 DEF Good
      <3> QED
        BY <2>2, <3>1, <3>2
    <2>3. CASE LoopHeadNoStep(t)
      <3>1. UNCHANGED tasks /\ selectNextStep(task) = NoStep
        BY <2>3 DEF LoopHeadNoStep
      <3>2. UnfinishedSteps(task) = {}
        <4> SUFFICES ASSUME UnfinishedSteps(task) # {} PROVE FALSE
          OBVIOUS
        <4>1. UnfinishedSteps(task) \in SUBSET Nat /\ NoStep \notin UnfinishedSteps(task)
          BY DEF UnfinishedSteps, StepIds, NoStep
        <4>2. \E i \in UnfinishedSteps(task) : \A j \in UnfinishedSteps(task) : i <= j
          BY <4>1, NatMin
        <4>3. selectNextStep(task) \in UnfinishedSteps(task)
          BY <4>2 DEF selectNextStep
        <4> QED
          BY <3>1, <4>1, <4>3
      <3>3. AllCompleted(task)
        BY <1>1, <3>2 DEF UnfinishedSteps, AllCompleted, NoneCancelled, WorkOK
      <3> QED
        BY <1>1, <3>1, <3>3 DEF Good, CompletedByRunning
    <2>4. CASE LoopAdvance(t)
      <3>1. x.pc = "advance" /\ loop'[t].pc # "finish"
        BY <1>0, <2>4 DEF LoopAdvance, LoopRecords
      <3>2. IsNext(task, x.step) /\ x.progress = PercentDone(task, 0)
        BY <1>1, <3>1 DEF LoopOK
      <3>3. tasks'[t] = Worked(task, PercentDone(task, 0),
                               ensureStepForPhase(completeCurrentStep(task), task.cur, x.step),
                               Named(task, x.step))
        BY <1>0, <2>4, <3>2 DEF LoopAdvance, advanceTaskPhase
      <3>4. \A j \in StepIds : tasks'[t].steps[j] = IF j = x.step THEN "active" ELSE task.steps[j]
        BY <1>0, <1>1, <3>2, <3>3, AdvancedWork
      <3>5. SettlesNone(task, tasks'[t])
        BY <3>4 DEF SettlesNone
      <3> QED
        BY <1>6, <3>1, <3>5 DEF Good
    <2>5. CASE WorkMerge(t)
      <3>1. x.pc = "merge" /\ loop'[t].pc # "finish"
        BY <1>0, <2>5 DEF WorkMerge, LoopRecords
      <3>2. IsNext(task, task.cur) /\ x.cur = task.cur /\ x.progress = task.progress
        BY <1>1, <3>1 DEF LoopOK, InStep
      <3>3. tasks'[t] = Worked(task, task.progress,
                               ensureStepForPhase(task.steps, task.cur, task.cur),
                               Named(task, task.cur))
        BY <1>0, <2>5, <3>2 DEF WorkMerge, updateTaskProgress
      <3>4. \A j \in StepIds : tasks'[t].steps[j] = IF j = task.cur THEN "active" ELSE task.steps[j]
        BY <1>0, <1>1, <3>2, <3>3, MergedWork
      <3>5. SettlesNone(task, tasks'[t])
        BY <3>4 DEF SettlesNone
      <3> QED
        BY <1>6, <3>1, <3>5 DEF Good
    <2>6. CASE WorkArtifact(t)
      <3>1. loop'[t].pc # "finish"
        BY <1>2, <2>6 DEF WorkArtifact
      <3>2. tasks'[t].steps = task.steps
        BY <1>0, <2>6 DEF WorkArtifact, attachArtifact, TaskRecords
      <3>3. SettlesNone(task, tasks'[t])
        BY <3>2 DEF SettlesNone
      <3> QED
        BY <1>6, <3>1, <3>3 DEF Good
    <2>7. CASE LoopComplete(t)
      <3>1. x.pc = "complete" /\ loop'[t].pc # "finish"
        BY <1>3, <2>7 DEF LoopComplete
      <3>2. IsNext(task, task.cur) /\ task.cur = x.step /\ x.progress = PercentDone(task, 1)
        BY <1>1, <3>1 DEF LoopOK, InStep
      <3>3. tasks'[t] = Worked(task, PercentDone(task, 1), completeCurrentStep(task), NoStep)
        BY <1>0, <2>7, <3>2 DEF LoopComplete, completeStep
      <3>4. \A j \in StepIds : tasks'[t].steps[j] = IF j = task.cur THEN "completed" ELSE task.steps[j]
        BY <1>0, <1>1, <3>2, <3>3, StepCompletedWork
      <3> QED
        BY <1>1, <3>1, <3>2, <3>4 DEF Good, CompletedByRunning, NoneCancelled
    <2>8. CASE LoopFinish(t)
      <3>1. x.pc = "finish" /\ loop'[t].pc # "finish"
        BY <1>2, <2>8 DEF LoopFinish
      <3>2. AllCompleted(task)
        BY <3>1
      <3>3. tasks'[t] = WithStatus(task, "completed")
        BY <1>0, <2>8 DEF LoopFinish, completeTask, Finish
      <3>4. tasks'[t].steps = stepsAfterStatus(task, "completed")
        BY <1>0, <3>3, WithStatusType
      <3>5. SettlesNone(task, tasks'[t])
        BY <3>2, <3>4
        DEF SettlesNone, AllCompleted, stepsAfterStatus, markSteps, isTerminalStatus, TerminalStatuses
      <3> QED
        BY <1>6, <3>1, <3>5 DEF Good
    <2>9. CASE LoopFail(t)
      <3>1. loop'[t].pc # "finish"
        BY <1>2, <2>9 DEF LoopFail
      <3>2. tasks'[t] = WithStatus(task, "failed")
        BY <1>0, <2>9 DEF LoopFail, failTask, Finish
      <3>3. SettlesNone(task, tasks'[t])
        BY <1>0, <3>2, StatusSettlesNone
      <3> QED
        BY <1>6, <3>1, <3>3 DEF Good
    <2> QED
      BY <1>8, <2>1, <2>2, <2>3, <2>4, <2>5, <2>6, <2>7, <2>8, <2>9 DEF LoopStep, Good
  <1> QED
    BY <1>7, <1>8 DEF Good

LEMMA LoopIsOn ==
  ASSUME NEW u, LoopStep(u) \/ LoopChoice(u)
  PROVE  loop[u].pc # "off"
  BY DEF LoopStep, LoopChoice, LoopFirstRead, LoopHeadDone, LoopHeadNoStep, LoopHeadStep,
         LoopWriteRefused, LoopAdvance, LoopEnters, WorkMergeRead, WorkMerge, WorkArtifactRead,
         WorkArtifact, WorkChecked, WorkCancelled, LoopAfterStep, LoopAfterCancelled, LoopComplete,
         LoopNext, LoopFinish, LoopErrorRead, LoopFail, LoopEnds, WorkCalls, WorkParks, WorkDone,
         LoopThrows, LoopFree

LEMMA StepSettles ==
  ASSUME TaskManagerAssumption, TaskRuntimeAssumption, RuntimeInv, RuntimeInv', NoOverride,
         "cancel" \notin Kinds, WorkInv, SettledInv, RuntimeNext, NEW u \in TaskIds
  PROVE  /\ CompletedByRunning(loop[u], tasks[u], tasks'[u])
         /\ NoneCancelled(tasks'[u])
         /\ loop'[u].pc = "finish" => AllCompleted(tasks'[u])
  <1>0. /\ tasks[u] \in TaskRecords /\ tasks'[u] \in TaskRecords /\ loop[u] \in LoopRecords
        /\ MaxSteps \in Nat
    BY Constants DEF RuntimeInv, TypeOK, ExecutorOK, LoopsOK
  <1>1. /\ Untouched(tasks[u]) /\ LoopOK(loop[u], tasks[u]) /\ NoneCancelled(tasks[u])
        /\ loop[u].pc = "finish" => AllCompleted(tasks[u])
    BY DEF WorkInv, SettledInv
  <1>2. CASE LoopStep(u) \/ LoopChoice(u)
    <2>1. Exists(u) /\ WorkOK(tasks[u])
      BY <1>1, <1>2, LoopIsOn DEF LoopOK, Exists, Untouched
    <2> QED
      BY <1>1, <1>2, <2>1, OwnLoopCompletes
  <1>3. CASE ~(LoopStep(u) \/ LoopChoice(u))
    <2>1. SettlesNone(tasks[u], tasks'[u])
      <3>1. ASSUME NEW t \in TaskIds, LoopStep(t) \/ LoopChoice(t)
            PROVE  SettlesNone(tasks[u], tasks'[u])
        BY <1>3, <3>1, LoopWorksAlone DEF SettlesNone
      <3>2. ASSUME NEW t \in TaskIds, GentleOperation(t)
            PROVE  SettlesNone(tasks[u], tasks'[u])
        BY <3>2, GentleSettlesNone DEF RuntimeInv
      <3>3. CASE UNCHANGED tasks
        BY <3>3 DEF SettlesNone
      <3>4. ASSUME NEW r \in Requests, Cancel(r)
            PROVE  FALSE
        BY <3>4 DEF Cancel, WorkInv, OnlyKinds, NoSuchCalls
      <3> QED
        BY <3>1, <3>2, <3>3, <3>4, StepIsLoopOrCaller DEF WorkInv
    <2>2. ASSUME loop'[u].pc = "finish"
          PROVE  AllCompleted(tasks'[u])
      <3>1. loop[u].pc = "finish"
        <4>1. OtherMoves(u)
          BY <1>3, OthersMove DEF RuntimeInv
        <4>2. loop'[u].pc \in {loop[u].pc, "off", "first", "advance", "work"}
          BY <1>0, <4>1 DEF OtherMoves, NoLoop, LoopRecords
        <4> QED
          BY <2>2, <4>2
      <3>2. AllCompleted(tasks[u]) /\ Exists(u) /\ WorkOK(tasks[u])
        BY <1>1, <3>1 DEF LoopOK, Exists, Untouched
      <3>3. KeepsWork(tasks[u], tasks'[u])
        BY <1>3, StepKeepsOthersWork
      <3> QED
        BY <3>2, <3>3 DEF KeepsWork, Kept, AllCompleted, Exists
    <2> QED
      BY <1>1, <2>1, <2>2, SettlesNoneRuns
  <1> QED
    BY <1>2, <1>3

\* With clients that neither cancel nor override a task, and any number of them at a
\* time, a step is completed only by the loop that has run that very step, whatever
\* pauses, resumptions, failures, other tasks and restarts come in between.  No step is
\* cancelled then, so that the property's exemption takes nothing away.
THEOREM StepsAlwaysCompleteByRunning ==
  ASSUME NoOverride, "cancel" \notin Kinds PROVE RuntimeSpec => StepsCompleteByRunning
  <1>1. RuntimeInit => SettledInv
    <2> SUFFICES ASSUME RuntimeInit, NEW t \in TaskIds
                 PROVE  NoneCancelled(tasks[t]) /\ (loop[t].pc = "finish" => AllCompleted(tasks[t]))
      BY DEF SettledInv
    <2> QED
      BY DEF RuntimeInit, Init, NoRecord, NoLoop, NoneCancelled
  <1>2. RuntimeInv /\ RuntimeInv' /\ WorkInv /\ SettledInv /\ [RuntimeNext]_vars => SettledInv'
    <2>1. CASE UNCHANGED vars
      BY <2>1 DEF vars, SettledInv
    <2>2. ASSUME RuntimeInv, RuntimeInv', WorkInv, SettledInv, RuntimeNext
          PROVE  SettledInv'
      <3>1. ASSUME NEW u \in TaskIds
            PROVE  (NoneCancelled(tasks[u]) /\ (loop[u].pc = "finish" => AllCompleted(tasks[u])))'
        BY <2>2, StepSettles, TaskManagerAssumption, TaskRuntimeAssumption
      <3> QED
        BY <3>1 DEF SettledInv
    <2> QED
      BY <2>1, <2>2
  <1>3. RuntimeInv /\ RuntimeInv' /\ WorkInv /\ SettledInv /\ [RuntimeNext]_vars =>
          [\A t \in TaskIds, i \in StepIds :
             tasks[t].steps[i] \notin {"completed", "cancelled"}
             /\ tasks'[t].steps[i] = "completed"
               => loop[t].pc = "complete" /\ loop[t].step = i]_vars
    <2> SUFFICES ASSUME RuntimeInv, RuntimeInv', WorkInv, SettledInv, RuntimeNext,
                        NEW t \in TaskIds, NEW i \in StepIds,
                        tasks[t].steps[i] # "completed", tasks'[t].steps[i] = "completed"
                 PROVE  loop[t].pc = "complete" /\ loop[t].step = i
      OBVIOUS
    <2>1. CompletedByRunning(loop[t], tasks[t], tasks'[t])
      BY StepSettles, TaskManagerAssumption, TaskRuntimeAssumption
    <2> QED
      BY <2>1 DEF CompletedByRunning
  <1> QED
    BY <1>1, <1>2, <1>3, RuntimeAlwaysInv, AlwaysWorks, PTL DEF RuntimeSpec, StepsCompleteByRunning
-----------------------------------------------------------------------------
(* What a paused task is spared.                                            *)

\* The runtime serves one call at a time.
OneCallAtATime == \A q, r \in Requests : q = r

\* The statuses a write leaves as they are, or turns into another than paused.
PausesNone == \A u \in TaskIds : tasks'[u].status = "paused" => tasks[u].status = "paused"

LEMMA FinishPausesNone ==
  ASSUME TypeOK, NEW t \in TaskIds, completeTask(t) \/ failTask(t) \/ cancelTask(t)
  PROVE  PausesNone
  <1>1. tasks \in [TaskIds -> TaskRecords]
    BY DEF TypeOK
  <1>2. PICK status \in {"completed", "failed", "cancelled"} :
          tasks' = [tasks EXCEPT ![t] = WithStatus(tasks[t], status)]
    BY DEF completeTask, failTask, cancelTask, Finish
  <1>3. WithStatus(tasks[t], status).status = status
    BY <1>1 DEF WithStatus, TaskRecords
  <1> QED
    BY <1>1, <1>2, <1>3 DEF PausesNone

LEMMA StepWritePausesNone ==
  ASSUME TypeOK, NEW t \in TaskIds, NEW p, NEW i,
         updateTaskProgress(t, p, i) \/ advanceTaskPhase(t, p, i) \/ completeStep(t, p)
  PROVE  PausesNone
  <1>1. tasks \in [TaskIds -> TaskRecords]
    BY DEF TypeOK
  <1>2. PICK progress, steps, cur :
          tasks' = [tasks EXCEPT ![t] = Worked(tasks[t], progress, steps, cur)]
    BY DEF updateTaskProgress, advanceTaskPhase, completeStep
  <1>3. Worked(tasks[t], progress, steps, cur).status = Started(tasks[t].status)
    BY <1>1 DEF Worked, TaskRecords
  <1> QED
    BY <1>1, <1>2, <1>3 DEF PausesNone, Started

\* No loop pauses a task: it is the clients who do, and a restart.
LEMMA LoopPausesNone ==
  ASSUME RuntimeInv, NEW t \in TaskIds, LoopStep(t) \/ LoopChoice(t) \/ DirectCall(t)
  PROVE  PausesNone
  <1>0. tasks \in [TaskIds -> TaskRecords] /\ TypeOK
    BY DEF RuntimeInv, TypeOK
  <1>1. CASE LoopChoice(t)
    BY <1>1 DEF LoopChoice, WorkCalls, WorkParks, WorkDone, LoopThrows, PausesNone
  <1>2. CASE LoopAdvance(t) \/ WorkMerge(t) \/ LoopComplete(t)
    BY <1>0, <1>2, StepWritePausesNone DEF LoopAdvance, WorkMerge, LoopComplete
  <1>3. CASE LoopFinish(t) \/ LoopFail(t) \/ DirectCall(t)
    BY <1>0, <1>3, FinishPausesNone DEF LoopFinish, LoopFail, DirectCall
  <1>4. CASE WorkArtifact(t)
    BY <1>0, <1>4 DEF WorkArtifact, attachArtifact, TaskRecords, PausesNone
  <1>5. CASE \/ LoopFirstRead(t) \/ LoopHeadDone(t) \/ LoopHeadNoStep(t) \/ LoopHeadStep(t)
             \/ LoopWriteRefused(t) \/ LoopEnters(t) \/ WorkMergeRead(t) \/ WorkArtifactRead(t)
             \/ WorkChecked(t) \/ WorkCancelled(t) \/ LoopAfterStep(t)
             \/ LoopAfterCancelled(t) \/ LoopNext(t) \/ LoopErrorRead(t) \/ LoopEnds(t)
    BY <1>5
    DEF LoopFirstRead, LoopHeadDone, LoopHeadNoStep, LoopHeadStep, LoopWriteRefused,
        LoopEnters, WorkMergeRead, WorkArtifactRead, WorkChecked, WorkCancelled, LoopAfterStep,
        LoopAfterCancelled, LoopNext, LoopErrorRead, LoopEnds, PausesNone
  <1> QED
    BY <1>1, <1>2, <1>3, <1>4, <1>5 DEF LoopStep

\* What a loop does to the requests: it may take a handle away from those that
\* hold one.
LEMMA LoopKeepsRequests ==
  ASSUME RuntimeInv, NEW t, LoopStep(t) \/ LoopChoice(t) \/ DirectCall(t), NEW r \in Requests
  PROVE  req'[r].pc = req[r].pc /\ req'[r].task = req[r].task
  <1>1. req[r] \in RequestRecords
    BY DEF RuntimeInv, ExecutorOK, RequestsOK, NamedRequests
  <1>2. UNCHANGED req \/ Unregister(t)
    BY DEF LoopStep, LoopChoice, DirectCall, rtVars, LoopFirstRead, LoopHeadDone, LoopHeadNoStep,
           LoopHeadStep, LoopWriteRefused, LoopAdvance, LoopEnters, WorkMergeRead, WorkMerge,
           WorkArtifactRead, WorkArtifact, WorkChecked, WorkCancelled, LoopAfterStep,
           LoopAfterCancelled, LoopComplete, LoopNext, LoopFinish, LoopErrorRead, LoopFail,
           LoopEnds, WorkCalls, WorkParks, WorkDone, LoopThrows, Ends
  <1> QED
    BY <1>1, <1>2 DEF Unregister, RequestRecords

\* A call that is about to release a barrier has made its task active, and no
\* call is under way while the agent is down.
ReleaseInv ==
  \A r \in Requests :
    /\ ~up => req[r].pc = "idle"
    /\ req[r].pc = "release" => tasks[req[r].task].status # "paused"

LEMMA RequestReleases ==
  ASSUME RuntimeInv, NEW r \in Requests, RequestStep(r), req'[r].pc = "release"
  PROVE  tasks'[req'[r].task].status = "active"
  <1>0. /\ req[r] \in NamedRequests /\ tasks \in [TaskIds -> TaskRecords]
        /\ req \in [Requests -> NamedRequests]
    BY DEF RuntimeInv, TypeOK, ExecutorOK, RequestsOK
  <1>1. Over(r) => req'[r].pc = "idle"
    BY <1>0 DEF Over, Idle
  <1>2. ASSUME NEW pc, Becomes(r, pc)
        PROVE  req'[r].pc = pc /\ req'[r].task = req[r].task
    BY <1>0, <1>2 DEF Becomes, NamedRequests, RequestRecords
  <1>3. CASE Resume(r)
    <2>1. req[r].task \in TaskIds
      BY <1>0, <1>3 DEF Resume, NamedRequests
    <2>2. tasks'[req[r].task].status = "active"
      BY <1>0, <1>3, <2>1 DEF Resume, resumeTask, InsteadOf, WithStatus, TaskRecords
    <2> QED
      BY <1>2, <1>3, <2>2 DEF Resume
  <1>4. CASE \/ CreateRead(r) \/ Create(r) \/ SpawnCalled(r) \/ SpawnResume(r)
             \/ StartLoop(r) \/ StartFails(r) \/ PauseRead(r) \/ Pause(r) \/ CancelRead(r)
             \/ Cancel(r) \/ Release(r) \/ Refine(r)
    BY <1>1, <1>2, <1>4
    DEF CreateRead, Create, SpawnCalled, SpawnResume, StartLoop, StartFails, PauseRead, Pause,
        CancelRead, Cancel, Release, Refine
  <1>5. CASE SpawnRead(r) \/ Spawn(r)
    BY <1>1, <1>2, <1>5 DEF SpawnRead, Spawn, TakesOver
  <1>6. CASE ResumeRead(r)
    <2>1. req'[r].pc \in {"idle", "resumeNew", "resumeHeld"}
      <3>1. PICK called : /\ Over(r) \/ req' = [req EXCEPT ![r] = called]
                          /\ called.pc \in {"resumeNew", "resumeHeld"}
        <4>1. [req[r] EXCEPT !.pc = "resumeNew", !.quiet = TRUE].pc = "resumeNew"
          BY <1>0 DEF NamedRequests, RequestRecords
        <4>2. [req[r] EXCEPT !.pc = "resumeHeld", !.held = TRUE].pc = "resumeHeld"
          BY <1>0 DEF NamedRequests, RequestRecords
        <4> QED
          BY <1>6, <4>1, <4>2 DEF ResumeRead
      <3> QED
        BY <1>0, <1>1, <3>1
    <2> QED
      BY <2>1
  <1>7. CASE RefineRead(r)
    <2>1. req'[r].pc \in {"idle", "refine"}
      <3>1. Over(r) \/ req' = [req EXCEPT ![r] = [req[r] EXCEPT !.pc = "refine",
                                                  !.progress = tasks[req[r].task].progress,
                                                  !.cur = tasks[req[r].task].cur]]
        BY <1>7 DEF RefineRead
      <3>2. [req[r] EXCEPT !.pc = "refine", !.progress = tasks[req[r].task].progress,
                           !.cur = tasks[req[r].task].cur].pc = "refine"
        BY <1>0 DEF NamedRequests, RequestRecords
      <3> QED
        BY <1>0, <1>1, <3>1, <3>2
    <2> QED
      BY <2>1
  <1> QED
    BY <1>3, <1>4, <1>5, <1>6, <1>7 DEF RequestStep

LEMMA StepKeepsReleaseInv ==
  ASSUME OneCallAtATime, RuntimeInv, ReleaseInv, RuntimeNext
  PROVE  ReleaseInv'
  <1>0. /\ req \in [Requests -> NamedRequests] /\ up \in BOOLEAN
        /\ \A r \in Requests : req[r].pc # "idle" => req[r].task \in TaskIds
    BY DEF RuntimeInv, ExecutorOK, RequestsOK, NamedRequests
  <1>1. ASSUME NEW t \in TaskIds, LoopStep(t) \/ LoopChoice(t) \/ DirectCall(t)
        PROVE  ReleaseInv'
    <2>1. PausesNone /\ up /\ up'
      <3>1. up /\ up' = up
        BY <1>1 DEF LoopStep, LoopChoice, DirectCall, rtVars, LoopFirstRead, LoopHeadDone,
           LoopHeadNoStep, LoopHeadStep, LoopWriteRefused, LoopAdvance, LoopEnters, WorkMergeRead,
           WorkMerge, WorkArtifactRead, WorkArtifact, WorkChecked, WorkCancelled, LoopAfterStep,
           LoopAfterCancelled, LoopComplete, LoopNext, LoopFinish, LoopErrorRead, LoopFail,
           LoopEnds, WorkCalls, WorkParks, WorkDone, LoopThrows, Serves
      <3> QED
        BY <1>1, <3>1, LoopPausesNone
    <2> QED
      BY <1>0, <1>1, <2>1, LoopKeepsRequests DEF PausesNone, ReleaseInv
  <1>2. ASSUME NEW r \in Requests, RequestArrives(r)
        PROVE  ReleaseInv'
    <2>1. up /\ up' /\ req'[r].pc # "release"
      BY <1>0, <1>2
      DEF RequestArrives, CreateCalled, StartCalled, PauseCalled, ResumeCalled, CancelCalled,
          RefineCalled, Arrives, Idle
    <2> QED
      BY <2>1 DEF OneCallAtATime, ReleaseInv
  <1>3. ASSUME NEW r \in Requests, RequestStep(r)
        PROVE  ReleaseInv'
    <2>1. up /\ up' = up
      BY <1>3
      DEF RequestStep, CreateRead, Create, SpawnCalled, SpawnRead, SpawnResume, Spawn, StartLoop,
          StartFails, PauseRead, Pause, ResumeRead, Resume, Release, CancelRead, Cancel, RefineRead,
          Refine, Serves
    <2> QED
      BY <1>3, <2>1, RequestReleases DEF OneCallAtATime, ReleaseInv
  <1>4. CASE Stops
    BY <1>4 DEF Stops, ReleaseInv, Idle
  <1>5. ASSUME NEW t \in TaskIds, Recovers(t)
        PROVE  ReleaseInv'
    BY <1>5 DEF Recovers, rtVars, ReleaseInv
  <1>6. CASE Starts
    BY <1>6 DEF Starts, ReleaseInv
  <1> QED
    BY <1>1, <1>2, <1>3, <1>4, <1>5, <1>6 DEF RuntimeNext, Recovery

\* Only three steps let a loop go on to the next step of its task, and each has
\* the task seen not to be paused.
LEMMA ReleasedGoesOn ==
  ASSUME RuntimeInv, NEW t, NEW pause, NEW rest, Released(t, pause, rest), NEW u \in TaskIds,
         loop[u].pc # "advance", loop'[u].pc = "advance"
  PROVE  u = t
  <1>1. loop \in [TaskIds -> LoopRecords]
    BY DEF RuntimeInv, ExecutorOK, LoopsOK
  <1> QED
    BY <1>1 DEF Released, Goes

LEMMA GoesOnUnpaused ==
  ASSUME RuntimeInv, ReleaseInv, RuntimeNext, NEW u \in TaskIds,
         loop[u].pc # "advance", loop'[u].pc = "advance"
  PROVE  tasks[u].status # "paused"
  <1>0. loop \in [TaskIds -> LoopRecords] /\ LoopsOK
    BY DEF RuntimeInv, ExecutorOK, LoopsOK
  <1>1. ASSUME NEW pc, pc # "advance", NEW t, Goes(t, pc) \/ Leaves(t, pc)
        PROVE  FALSE
    BY <1>0, <1>1 DEF Goes, Leaves, LoopRecords, NoLoop
  <1>2. ASSUME NEW t, Ends(t)
        PROVE  FALSE
    BY <1>0, <1>2 DEF Ends, NoLoop
  <1>3. loop' # loop
    OBVIOUS
  <1>4. ASSUME NEW t \in TaskIds, LoopChoice(t)
        PROVE  FALSE
    BY <1>1, <1>4 DEF LoopChoice, WorkCalls, WorkParks, WorkDone, LoopThrows
  <1>5. ASSUME NEW t \in TaskIds, LoopStep(t)
        PROVE  LoopHeadStep(u)
    <2>1. CASE LoopHeadStep(t)
      BY <1>0, <1>5, <2>1, LoopMovesItself
    <2>2. CASE LoopAdvance(t) \/ WorkMergeRead(t) \/ WorkMerge(t) \/ LoopAfterStep(t)
      <3>1. u = t
        BY <1>0, <1>5, LoopMovesItself
      <3>2. CASE LoopAdvance(t)
        BY <1>0, <3>1, <3>2 DEF LoopAdvance
      <3>3. CASE WorkMergeRead(t)
        BY <1>0, <3>1, <3>3 DEF WorkMergeRead, LoopRecords
      <3>4. CASE WorkMerge(t)
        BY <1>0, <3>1, <3>4 DEF WorkMerge, LoopRecords
      <3>5. CASE LoopAfterStep(t)
        BY <1>0, <3>1, <3>5 DEF LoopAfterStep, LoopRecords
      <3> QED
        BY <2>2, <3>2, <3>3, <3>4, <3>5
    <2>3. CASE LoopFirstRead(t) \/ LoopHeadDone(t) \/ LoopHeadNoStep(t) \/ LoopWriteRefused(t)
               \/ LoopEnters(t) \/ WorkArtifactRead(t) \/ WorkArtifact(t) \/ WorkChecked(t)
               \/ WorkCancelled(t) \/ LoopAfterCancelled(t) \/ LoopComplete(t) \/ LoopNext(t)
               \/ LoopFinish(t) \/ LoopErrorRead(t) \/ LoopFail(t) \/ LoopEnds(t)
      BY <1>1, <1>2, <2>3
      DEF LoopFirstRead, LoopHeadDone, LoopHeadNoStep, LoopWriteRefused, LoopEnters,
          WorkArtifactRead, WorkArtifact, WorkChecked, WorkCancelled, LoopAfterCancelled,
          LoopComplete, LoopNext, LoopFinish, LoopErrorRead, LoopFail, LoopEnds
    <2> QED
      BY <1>5, <2>1, <2>2, <2>3 DEF LoopStep
  <1>6. CASE LoopHeadStep(u)
    BY <1>0, <1>6 DEF LoopHeadStep, LoopRecords
  <1>7. ASSUME NEW t \in TaskIds, DirectCall(t) \/ Recovers(t)
        PROVE  FALSE
    BY <1>3, <1>7 DEF DirectCall, Recovers, rtVars
  <1>8. CASE Stops \/ Starts
    BY <1>3, <1>8 DEF Stops, Starts, NoLoop
  <1>9. ASSUME NEW r \in Requests, RequestArrives(r)
        PROVE  FALSE
    <2>1. CASE CancelCalled(r)
      <3>1. PICK t \in TaskIds :
              loop' = [loop EXCEPT ![t] = NoLoop] \/ Goes(t, "work") \/ UNCHANGED loop
        BY <2>1 DEF CancelCalled
      <3> QED
        BY <1>0, <1>1, <1>3, <3>1 DEF NoLoop
    <2> QED
      BY <1>3, <1>9, <2>1
      DEF RequestArrives, CreateCalled, StartCalled, PauseCalled, ResumeCalled, RefineCalled
  <1>10. ASSUME NEW r \in Requests, RequestStep(r)
        PROVE  tasks[u].status # "paused"
    <2>1. CASE ResumeRead(r)
      <3>1. tasks[req[r].task].status = "active" /\ Released(req[r].task, FALSE, Others)
        BY <1>3, <2>1 DEF ResumeRead
      <3>2. u = req[r].task
        BY <3>1, ReleasedGoesOn
      <3> QED
        BY <3>1, <3>2
    <2>2. CASE Release(r)
      <3>1. /\ Released(req[r].task, handle[req[r].task].pause, queue)
            /\ tasks[req[r].task].status # "paused"
        BY <1>3, <2>2 DEF Release, ReleaseInv
      <3> QED
        BY <3>1, ReleasedGoesOn
    <2>3. CASE SpawnRead(r) \/ Spawn(r) \/ StartLoop(r)
      BY <1>1, <1>3, <2>3 DEF SpawnRead, Spawn, StartLoop, TakesOver
    <2>4. CASE \/ CreateRead(r) \/ Create(r) \/ SpawnCalled(r) \/ SpawnResume(r) \/ StartFails(r)
               \/ PauseRead(r) \/ Pause(r) \/ Resume(r) \/ CancelRead(r) \/ Cancel(r)
               \/ RefineRead(r) \/ Refine(r)
      BY <1>3, <2>4
      DEF CreateRead, Create, SpawnCalled, SpawnResume, StartFails, PauseRead, Pause,
          Resume, CancelRead, Cancel, RefineRead, Refine
    <2> QED
      BY <1>10, <2>1, <2>2, <2>3, <2>4 DEF RequestStep
  <1> QED
    BY <1>4, <1>5, <1>6, <1>7, <1>8, <1>9, <1>10 DEF RuntimeNext, Recovery

\* With one call at a time, a task that is paused in the store gets no further
\* step, whichever calls there are, and however many tasks and restarts.
THEOREM PausedNeverSteps == ASSUME OneCallAtATime PROVE RuntimeSpec => PausedGetsNoStep
  <1>1. RuntimeInit => ReleaseInv
    BY DEF RuntimeInit, ReleaseInv, Idle
  <1>2. RuntimeInv /\ ReleaseInv /\ [RuntimeNext]_vars => ReleaseInv'
    <2>1. CASE UNCHANGED vars
      BY <2>1 DEF vars, ReleaseInv
    <2> QED
      BY <2>1, StepKeepsReleaseInv
  <1>3. RuntimeInv /\ ReleaseInv /\ [RuntimeNext]_vars =>
          [\A t \in TaskIds :
             tasks[t].status = "paused" /\ loop[t].pc # "advance" => loop'[t].pc # "advance"]_vars
    BY GoesOnUnpaused
  <1> QED
    BY <1>1, <1>2, <1>3, RuntimeAlwaysInv, PTL DEF RuntimeSpec, PausedGetsNoStep
=============================================================================
