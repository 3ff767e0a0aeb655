------------------------------- MODULE TaskRun -------------------------------
(***************************************************************************)
(* One task of packages/task-runtime as its runner sees it: the execution  *)
(* loop that takes one step after the other, the chat that pauses, resumes *)
(* and refines the task, and the restart of the agent.                     *)
(*                                                                         *)
(* A step reads the task, waits for something outside and saves what it    *)
(* has made of it, and only then is completed; a restart may come between  *)
(* the three, and the step is then executed again.  A refinement is made   *)
(* from a copy of the task that was read a few awaits before it is saved.  *)
(*                                                                         *)
(* What the steps do is left to the modules that extend this one.  The     *)
(* loops, handles and the pointer of the session are in TaskRuntime; here  *)
(* is one task with one loop, which is not cancelled.                      *)
(***************************************************************************)
EXTENDS Integers, SequencesExt, TaskInterrupt

CONSTANTS
  Messages,       \* what the user may say in the chat, each once
  BrowserTask,    \* whether it is a browser task, or a research one
  MaxRestarts     \* bound on the restarts

VARIABLES
  status,      \* of the task
  steps,       \* the status of every step
  current,     \* currentStepId
  refinements, \* metadata.interruptState.refinements, oldest first
  loop,        \* the execution loop: the step it is at and what the step has read
  chat,        \* the messages of the user that are being handled
  restarts,
  displaced    \* whether a step was counted as completed by moving on to another one

taskVars == <<status, steps, current, refinements>>
runVars == <<taskVars, loop, chat, restarts, displaced>>

NoStep == "none"

\* What a message asks for; the planner has no use for some of it.
Refinement ==
  [m \in Messages |->
     {x \in Classify(m, BrowserTask).refinement : x.type \in AllowedRefinements(BrowserTask)}]
Unclear ==
  {m \in Messages : Classify(m, BrowserTask).kind = "task_clarification_needed"}
Refinements == UNION {Refinement[m] : m \in Messages}

\* `read` is empty or holds the copy of the task that the step works on.
NoLoop == [pc |-> "off", step |-> NoStep, read |-> {}]
NoChat == [pc |-> "idle", refinements |-> <<>>, done |-> {}, current |-> NoStep]
Answered == [NoChat EXCEPT !.pc = "answered"]

Completed == {x \in DOMAIN steps : steps[x] = "completed"}
Finished == status \in {"completed", "failed"}

\* findLatestRefinement: what was asked for last, of one type.
Latest(asked, type) ==
  LET found == {i \in DOMAIN asked : asked[i].type = type}
  IN  IF found = {} THEN NoWord
      ELSE asked[CHOOSE i \in found : \A j \in found : j <= i].value

FirstLeft(order) ==
  LET left == {i \in DOMAIN order : order[i] \notin Completed}
  IN  IF left = {} THEN NoStep ELSE order[CHOOSE i \in left : \A j \in left : i <= j]

-----------------------------------------------------------------------------
(* The execution loop. *)

Goes(pc) == loop' = [loop EXCEPT !.pc = pc]

\* The loop picks the step that is next; a paused task is left waiting with it.
Chooses(next) ==
  /\ loop.pc = "head" /\ ~Finished /\ next # NoStep
  /\ loop' = [NoLoop EXCEPT !.pc = "chosen", !.step = next]
  /\ UNCHANGED <<taskVars, chat, restarts, displaced>>

\* completeTask asks nobody: a task paused after its last step is completed too.
Finishes(next) ==
  /\ loop.pc = "head" /\ next = NoStep
  /\ status' = "completed" /\ loop' = NoLoop
  /\ UNCHANGED <<steps, current, refinements, chat, restarts, displaced>>

\* advanceTaskPhase: whatever step was the current one is completed.
Displacing(step) ==
  [x \in DOMAIN steps |->
     IF x = step THEN "active" ELSE IF x = current THEN "completed" ELSE steps[x]]

\* Not paused any more: the step becomes the current one of the task.
Advances ==
  /\ loop.pc = "chosen" /\ status = "active"
  /\ steps' = Displacing(loop.step) /\ current' = loop.step
  /\ displaced' = (displaced \/ current \notin Completed \cup {NoStep, loop.step})
  /\ Goes("begun")
  /\ UNCHANGED <<status, refinements, chat, restarts>>

\* The step reads the task.
Begins(copy) ==
  /\ loop.pc = "begun"
  /\ loop' = [loop EXCEPT !.pc = "working", !.read = {copy}]
  /\ UNCHANGED <<taskVars, chat, restarts, displaced>>

Working(step) == loop.pc = "working" /\ loop.step = step

\* mergeMetadata writes the current step along, which makes it the active one again.
Saves ==
  steps' = [x \in DOMAIN steps |-> IF x = current THEN "active" ELSE steps[x]]

\* How a step ends: it returns, or throws.
Returns == Goes("saved") /\ UNCHANGED <<status, current, chat, restarts, displaced>>
Throws == Goes("failing") /\ UNCHANGED <<status, current, chat, restarts, displaced>>

\* Mutant: the step is completed whether or not it has done its work.
Completes_Early ==
  /\ loop.pc \in {"working", "saved"}
  /\ steps' = [x \in DOMAIN steps |-> IF x = current THEN "completed" ELSE steps[x]]
  /\ current' = NoStep /\ loop' = [NoLoop EXCEPT !.pc = "head"]
  /\ UNCHANGED <<status, refinements, chat, restarts, displaced>>

\* The step has returned and the current step of the task is completed, of a paused
\* task too.
Completes ==
  /\ loop.pc = "saved"
  /\ steps' = [x \in DOMAIN steps |-> IF x = current THEN "completed" ELSE steps[x]]
  /\ current' = NoStep /\ loop' = [NoLoop EXCEPT !.pc = "head"]
  /\ UNCHANGED <<status, refinements, chat, restarts, displaced>>

Fails ==
  /\ loop.pc = "failing"
  /\ status' = "failed" /\ loop' = NoLoop
  /\ steps' = [x \in DOMAIN steps |-> IF steps[x] = "completed" THEN steps[x] ELSE "blocked"]
  /\ UNCHANGED <<current, refinements, chat, restarts, displaced>>

-----------------------------------------------------------------------------
(* The user and the agent. *)

\* The current step is held while the task is paused.
Held == [x \in DOMAIN steps |->
           IF x = current /\ steps[x] = "active" THEN "paused" ELSE steps[x]]

Pauses ==
  /\ status = "active"
  /\ status' = "paused" /\ steps' = Held
  /\ UNCHANGED <<current, refinements, loop, chat, restarts, displaced>>

\* Without a loop (after a restart) a new one is started.
Resumes ==
  /\ status = "paused"
  /\ status' = "active"
  /\ steps' = [x \in DOMAIN steps |->
                 IF x = current /\ steps[x] # "completed" THEN "active" ELSE steps[x]]
  /\ loop' = IF loop.pc = "off" THEN [NoLoop EXCEPT !.pc = "head"] ELSE loop
  /\ UNCHANGED <<current, refinements, chat, restarts, displaced>>

\* The agent is restarted: loops and messages are gone, the active task is paused.
Restarts ==
  /\ restarts < MaxRestarts /\ ~Finished
  /\ status' = "paused" /\ restarts' = restarts + 1
  /\ steps' = IF status = "active" THEN Held ELSE steps
  /\ loop' = NoLoop
  /\ chat' = [m \in Messages |-> IF chat[m].pc = "idle" THEN NoChat ELSE Answered]
  /\ UNCHANGED <<current, refinements, displaced>>

\* handleTaskInterrupt: a message that refines a task that is not over, or that
\* must be asked back, is taken up from a copy of the task; of its steps the planner
\* asks about the ones in `told`.  Questions about the task change nothing.
Refines(m, told) ==
  /\ chat[m].pc = "idle" /\ ~Finished
  /\ m \in Unclear \/ Refinement[m] # {}
  /\ chat' = [chat EXCEPT ![m] =
       [pc |-> "planned", refinements |-> refinements \o SetToSeq(Refinement[m]),
        done |-> Completed \cap told, current |-> current]]
  /\ UNCHANGED <<taskVars, loop, restarts, displaced>>

\* ensureStepForPhase: the step of the copy is the active one again, and the one
\* that was active is completed.
Rewritten(step) ==
  IF step = NoStep THEN steps
  ELSE [x \in DOMAIN steps |->
          IF x = step THEN "active"
          ELSE IF x = current /\ steps[x] = "active" THEN "completed" ELSE steps[x]]

\* persistTaskRefinement and persistTaskClarification: the list and the current step
\* of the copy are saved, whatever was saved meanwhile; a task that is over by then
\* refuses.
Persists(m) ==
  LET copy == chat[m] IN
  /\ copy.pc = "planned"
  /\ IF Finished THEN UNCHANGED <<steps, current, refinements, displaced>>
     ELSE /\ refinements' = copy.refinements
          /\ steps' = Rewritten(copy.current)
          /\ current' = IF copy.current = NoStep THEN current ELSE copy.current
          /\ displaced' = (displaced \/ copy.current \notin {NoStep, current})
  /\ chat' = [chat EXCEPT ![m] = Answered]
  /\ UNCHANGED <<status, loop, restarts>>

-----------------------------------------------------------------------------

\* createTaskInput: an active task at the first of its steps, about to be executed.
RunInit(order) ==
  /\ status = "active" /\ refinements = <<>> /\ current = order[1]
  /\ steps = [x \in ToSet(order) |-> IF x = current THEN "active" ELSE "pending"]
  /\ loop = [NoLoop EXCEPT !.pc = "head"]
  /\ chat = [m \in Messages |-> NoChat]
  /\ restarts = 0 /\ displaced = FALSE

RunTypeOK(Steps, Copies) ==
  /\ status \in {"active", "paused", "completed", "failed"}
  /\ steps \in [Steps -> {"pending", "active", "paused", "completed", "blocked"}]
  /\ current \in Steps \cup {NoStep} /\ displaced \in BOOLEAN
  /\ refinements \in Seq(Refinements)
  /\ loop \in [pc : {"off", "head", "chosen", "begun", "working", "saved", "failing"},
              step : Steps \cup {NoStep}, read : SUBSET Copies]
  /\ chat \in [Messages -> [pc : {"idle", "planned", "answered"},
                            refinements : Seq(Refinements), done : SUBSET Steps,
                            current : Steps \cup {NoStep}]]
  /\ restarts \in 0..MaxRestarts
=============================================================================
