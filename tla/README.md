# Assem: a TLA+ model of the assistant's agent

The repository is a local assistant: a desktop application talks over HTTP to an
agent process (`apps/local-agent`), which holds conversations, runs long tasks in
the background, keeps its data in JSON files and listens and speaks.  Everything
in the agent runs on one JavaScript thread.  Nothing is locked: what protects the
state is that a stretch of code between two `await`s is not interrupted, and that
a `JsonFileStore` runs the operations on one file one after the other.  This
project models the parts whose correctness depends on what happens *between* the
awaits.

## 1. Inventory

| Component | State | Operations | Hard behaviour |
| --- | --- | --- | --- |
| `packages/task-manager` | `tasks.json`: task records, one active-task pointer per session | create, update progress, advance phase, complete step, attach artifact, pause, resume, cancel, complete, fail | no operation refuses a status; three pieces of state (status, steps, pointer) are moved by ten operations in any order |
| `packages/task-runtime`, executor | `executions`: a handle per running task (pause, cancel, barrier) and one asynchronous loop per task | create, start, pause, resume, cancel, recover at start-up, the loop, the context handed to runners | loops, API calls and restarts interleave at every await; decisions are taken on records read earlier |
| `packages/task-runtime`, runners | none of their own: task metadata, the browser provider's pages | the research runner and the browser runner decide what a step does | resumed and repeated steps; whole-metadata saves against refinements; quality gates |
| `packages/persistence` | one file, a copy in memory, an operation queue | read, update, write; JSON lines | failed and retried renames, copy fallback, restart between two steps |
| `packages/orchestrator` | session records (messages, modes, overrides, pending action), through `packages/memory` | chat, approve and reject, overrides, modes, task interrupts | read, several awaits, write of the whole session |
| `packages/policy-engine` | temporary overrides (in the session) | evaluate, create, cancel, expire | the clock |
| `packages/memory` | session records; profiles and the active profile | get, create, save; create, activate, import, reset a profile | whole-record replacement; the active pointer against the flags |
| `packages/model-router` | health cache | select, respond, health | cached health, fallbacks, time-outs |
| `packages/scheduler` | scheduled tasks | create, enable, delete, run | a run between a read and an update; a record the disk refuses |
| `packages/planner` | a task's plan | build, refine | refinements of a plan that is being executed |
| `packages/interrupt-handler` | none | classify an utterance | order of precedence |
| `apps/local-agent`, voice | settings, session voice states, active recording, active speech | wake windows, listening, recording, speaking | two calls at once; late completions |
| `apps/desktop`, voice loops | loop, audio graph, current turn | start, stop, capture turns | stop at every await; thresholds |
| `apps/local-agent`, server | none of its own | HTTP endpoints, recovery at start | – |
| tools and integrations | none (page reader: redirects) | read pages, search, files, calendar | address and path checks |
| `tool-registry`, `action-log`, `telemetry`, `config`, `sdk`, `shared-types`, providers, UI, scripts | – | – | no state a property would be about |

**Interactions.** The server calls the orchestrator, the runtime, the scheduler
and the voice coordinator.  The orchestrator calls the task runtime and the task
manager (interrupts, refinements), the planner, the policy engine, the model router,
the tools and the session store.  The runtime calls the task manager, its runners and
the telemetry.  The task manager, the session and profile stores, the scheduler
and the voice settings each own a `JsonFileStore`.  The scheduler's runs call the
orchestrator and are recorded in a session.  The desktop calls the agent over HTTP
and runs the voice loops on its own thread.

**What makes each part correct.**

- Task manager: the pointer of a session names an unfinished task of that session;
  one active task per session; a finished task is settled; a step is active only
  while it is the current one; sessions do not reach each other.
- Runtime: one loop per task; a step is completed only by running it; the stored
  percentage is the share of completed steps; artifacts are attached once; a paused
  task gets no further step; a cancelled execution ends; loops settle.
- Runners: the work of a completed step is there whatever was repeated; a report has
  its basis and is not more confident than it earned; what a browser task shows is of one
  page that was read; no link that acts is followed and no private address reached.
- Store: an acknowledged update is in the copy and on the disk, also after failed
  writes and restarts; every call is answered.
- Sessions: a save undoes another request's work only when it was overtaken; a tool that
  needs a confirmation runs only with one; what was decided alone stays decided.
- Router: under `local_only` no provider of the cloud runs a request; local
  providers come first where the mode prefers them; every call ends.
- Scheduler and profiles: a run records what it did and nothing else; a task that was to run
  once is over after its run; only the profile `activeProfileId` names is marked.
- Voice: at most one recording and one playback, and the registered one is the one that
  runs, as far as the checks of the coordinator reach; the microphone of a loop belongs to
  the turn that is captured, and `stop()` leaves none open.

`PROJECT.json` lists these components with the status of each, and every hazard at
the line where it bites with the properties that cover it.

## 2. Plan

| Order | Module | Models | State |
| --- | --- | --- | --- |
| 1 | `TaskManager`, its proofs in `TaskRuntimeProofs` | every write of `BaseTaskManager` | done |
| 2 | `TaskRuntime` (extends 1), `TaskRuntimeProofs` | the executor, its loops and API calls, restarts | done |
| 3 | `AtomicStore`, `JsonFileStore`, its proofs in `StoreProofs` | persistence and what its users rely on | done |
| 4 | `ConversationMode`, `ConversationModeProofs` | the desktop loop that captures spoken turns, and the application that starts and stops it | done |
| 5 | `Session`, `SessionProofs` | the orchestrator's session handling, pending actions, overrides and the policy decision | done |
| 6 | `ModelRouter`, `ModelRouterProofs` | selection, health cache, fallback, time-outs | done |
| 7 | `Profiles`, `Scheduler` (extends it), proofs in `StoreProofs` | profiles and scheduled runs, with their files | done |
| 8 | `VoiceCoordinator`, `VoiceCoordinatorProofs` | recordings, speech, session voice states | done |
| 9 | `TaskInterrupt`, `TaskRun` | what an utterance asks of a running task, and one task with its loop and the chat | done |
| 10 | `WebPageReader`, `ResearchEvidence` | pure functions of the page reader and of the grading of sources | done |
| 11 | `ResearchReport` (9 and 10), `ResearchReportProofs`, `BrowserRead` (9 and 10), `BrowserReadProofs` | the two runners that read the web | done |
| 12 | `SpeechDetector` | durations and thresholds of the speech detector; the wake loop, which the application does not use at present | left |

Abstract specifications: `TaskManager` is the one of `TaskRuntime` (checked and proved),
`AtomicStore` the one of `JsonFileStore` (checked and proved).

Every invariant and every action property that a run checks is also a theorem; what is
left to the model checker is liveness.

## 3. The modules and the code

### TaskManager (`packages/task-manager/src/index.ts`)

`tasks` and `active` are the two fields of the stored object.  A record keeps the
status, the percentage, the statuses of the steps 1..`MaxSteps` (`"absent"` for a step
the task does not have), the current step and the number of artifacts.  Labels,
summaries, plans, metadata and timestamps are left out: no decision of the operations
depends on them, with one exception: `resolveActiveTaskFromState` falls back to
the latest `updatedAt`, a millisecond taken before the operation is queued, so the
model leaves open which of the candidates that is.

There is one action per operation, under its name (`completeStep` is
`completeCurrentStep` of the class, which shares its name with a helper).  An
operation is one step because the store runs its mutator without interruption; that it may be
treated so is what `JsonFileStore` shows.  `Reported` and `KeepProgress` stand for an
omitted percentage, `NullProgress` for an explicit null.  A phase whose step the task
does not have appends that step (`Nameable` says it is the next one).

`Spec` allows every sequence of calls.  `CurrentTaskSpec` restricts the callers to pause
and report progress only on the task their session points to.

### TaskRuntime (`packages/task-runtime/src/index.ts`, class `TaskRuntimeExecutor`)

It extends `TaskManager` with the execution handles, one loop per task and concurrent
API calls.  The unit of interleaving is the stretch between two awaits.  `queue` is the
operation queue of the tasks store: a process that called the task manager is in it
and the head is served next, so calls take effect in the order they were made.  A read
is one step with the code that follows it: the next store operation starts with
disk I/O, so the reader continues before another operation takes effect.
A write and the code after it are two steps, because telemetry is awaited in between.

| Code | Actions |
| --- | --- |
| `runExecutionLoop` 2805-2926 | `LoopFirstRead` ... `LoopEnds` |
| `buildExecutionContext`, what a runner may call | `Work...` |
| `spawnExecution` | `SpawnCalled`, `SpawnRead`, `SpawnResume`, `Spawn`, `StartLoop`, `StartFails` |
| `createTask`, `startTask`, `pauseTask`, `resumeTask`, `cancelTask` | `...Called` (up to the first await), `...Read`, and the write |
| `recoverTasksOnStartup` | `Stops` (the process ends at any step), `Recovers`, `Starts` |
| `AssemOrchestrator.persistTaskRefinement` and its caller | `RefineCalled`, `RefineRead`, `Refine` |
| `/complete` and `/fail` endpoints of the server | `DirectCall` |

The runner of a step is a choice: it merges metadata, attaches an artifact, checks,
waits while paused, returns or throws, in any order and any number of times.  There is
one artifact key per task.  Calls of the runtime that only fetch a record to return or report it
are left out.

### JsonFileStore and AtomicStore (`packages/persistence/src/index.ts`)

`JsonFileStore` follows one operation through `readInternal`, the mutator and
`writeInternal`: load or default, replace the copy, write the temporary file, rename with
retries, fall back to a copy with retries; each of these may fail, and the process may
stop between any two.  The value of the store is the set of clients whose update is
in it, which is enough to see a lost, doubled or resurrected update.  `AtomicStore` is what the
task manager, the sessions and the scheduler rely on: an update takes effect at one moment
between call and answer, an acknowledged one stays, an unacknowledged one may or may not
be there.  Its variable `safety` says what the copy fallback costs: while the file is
replaced in place the store is `"exposed"`, a stop of the process then leaves it
`"broken"`, and a broken store refuses every call rather than start from the defaults.

### ConversationMode (`apps/desktop/src/wake-mode-loop.ts`, `App.tsx`)

`loop` holds the loop objects: where `run()` and `captureConversationTurn` are, whether
`stop()` was called and returned, the stream, the registration in `activeListening`,
`activeStartPromise`, and how far `finish` or `fail` got.  `current` and `key` are
`conversationModeLoopRef` and `conversationModeLoopSettingsRef`, `on` and `rendered` the
mode in the voice state that was received and in the one that is rendered, `asking` the
calls of `updateVoiceMode` under way.

| Code | Actions |
| --- | --- |
| `toggleVoiceMode`, `toggleMicMuted` | `SwitchOff`, `SwitchOn`, `ModeUpdated` |
| the effect on the voice settings | `Renders`, `SettingsUpdated` |
| `startConversationModeLoop`, `stopConversationModeLoop` | `StartLoop` (`MakeLoop`), `StopLoop`, `StopReturned` |
| the loop's `onError` | `OnError` |
| `run()`, `captureConversationTurn` up to the frames | `DelayEnds`, `MediaOpens`, `Resumed`, `Waited`, `TurnThrows` |
| the frame handler, `finish`, `fail` | `FrameAfterStop`, `Speech`, `SpeechEnds`, `Fails`, `StartSettles`, `ReportsSettle`, `TurnDisposed`, `Answered` |

A frame is what the speech detector makes of it: silence, speech, or the end of the turn.  Of
the voice settings only matters whether they are the latest.  Muting and switching off
take the same way through the code and are one action.  The button is disabled while a call of
its own is under way, not while the one of `onError` is.  The audio context that `stop()`
closes before it waits for `run()` is folded into that step; whether it is still being closed
when a turn comes out of `onConversationWaiting` is the choice in `Waited`.  The names in
`Loops` stand for objects that are alive; `Collected` gives a name back when
nothing of its loop is under way.  `MayReject` names the calls that may fail.

### Session (`packages/orchestrator`, `packages/policy-engine`, `packages/memory`)

A request reads a copy of the session (`Reads`), works on it over several awaits and saves
the whole of it (`Saves`).  `store` is the record in memory, `disk` the one in the file; a
refused save may leave the two apart until the agent starts again (`Kept`).  Of a session are kept the
mode, the overrides, the pending action, the last write intent, and who has said, run and
entered something.  `req[r].copy` is what the request saves; `outer` is the second copy that
`handleChat` keeps while it lets `resolvePendingAction` read the session anew, and
saves when that has failed to report.

| Code | Actions |
| --- | --- |
| `handleChat` to its first await | `HandleChat`: `FirstToTake` says which of the handlers, in `HandlerOrder`, takes the text |
| `respond`, `executeOrQueue`, `runTool` | `ModelAnswers`, `ExecuteOrQueue`, `ExecuteTool`, `WritesEntry` |
| `resolvePendingAction`, by the button or typed | `ResolvePendingAction`, `ResolveTyped` |
| `updateMode`, the overrides, `recordSchedulerRunInSession` | one action each, read and saved in two steps |
| `reply`, `replyError`, refused saves | `Replies`, `Reports`, `ReplyFails`, `ReportFails`, `ReportsOuter` |
| `expiresAt`, the agent's start | `Expires`, `Restarts` |

A text is the set of recognisers that match it (`is`).  Two variables are there for the
properties only: `behind`, the copies a save has overtaken, and `settled`, the requests that were
answered while no other was at work.  So is one field of a request: `replaced`, the pending
action that `handlePendingLocalCreateReplacement` cancelled for it (`act` is the new one, and is
cleared when that waits in turn).

### ModelRouter (`packages/model-router`)

`SelectCandidates` filters and ranks as `selectCandidates` does.  A call of `respond` goes
from candidate to candidate: health (from the cache or asked), the provider's answer or
failure or time-out, the confirmation of its health.  A cached entry is `"ok"`,
`"not ok"` or `"unknown"`, which an entry that has become too old is as well, at any moment.
The late answer of a provider that was given up changes nothing in the router.  Which
providers are able (configured, with the capabilities a request needs) and which one is
preferred is chosen in the initial state.

### Profiles and Scheduler (`packages/memory`, `packages/scheduler`, the server's runs)

Every operation is one update of a store; each may be refused by the disk after the copy
in memory has changed, and `Restarts` goes back to the files.  Of a profile it matters
whether it is there and marked; of a scheduled task its cadence, date, switch and last run.
`runTask` reads the task, runs, and records: three steps of a call that others may
come between.  `again` says that the user has switched the task on since its last run.

### VoiceCoordinator (`apps/local-agent/src/voice`)

`getSessionState` hands out a reference and `persistSessionState` puts a copy in its
place, so `entry` maps sessions to references and `objs` references to contents, and a
call (`call[c].ref`) may hold one that is no longer in the map.  `recording` and `speech` are
the two singletons; `handle`, `playing` and `killed` say what the processes do.  Each
handler (`Asks`) is cut at its awaits (`GoesFurther`); `PlaybackEnds` is the listener of the
process.  The unit of interleaving is again the stretch between two awaits.  Of what the client
reports of a turn only the states of `Reportable` are taken.

For the properties only: `met`, the calls that were at work while one that begins a sound
was, `mutedBy`, and `crossed`, whether any two calls were at work together.  Abstracted: wake
words are always enabled; a call without a session is covered by one with any session; records
exist from a first call; a killed playback ends as a failed one; stopping waits for the
process to die; telemetry that fails is left out.

### TaskInterrupt and TaskRun (`packages/interrupt-handler`, `packages/planner`, the loop of the runtime)

`TaskInterrupt` is pure: the precedence in which `classify` tries its recognisers, and which
refinements the planner allows for which kind of task.  A message is the phrase it
says and what it says it about.  `TaskRun` is one task with its loop, seen from its
runner: a step reads the task, waits for the outside, saves, and is completed; the chat
pauses, resumes and refines between these; the agent may start again.  `displaced` notes that
a step was counted as completed by moving on to another one (`advanceTaskPhase`), which
takes a restart or a refinement that moves the current step.

### WebPageReader and ResearchEvidence (`integrations/web-page-reader`, pure parts of `packages/task-runtime`)

Operators only.  A web says what every address answers; a text is its measures in
thousandths, a link or a result the words that somebody looks for and the signals the
functions test.  Redirects, address checks, quality, the choice of the text and of the
safe links; scores, selection, grades, and whether the evidence is enough.

### ResearchReport and BrowserRead (the two runners)

Both extend `TaskRun` with what their steps do, one action per step of the runner.
`ResearchReport` keeps the raw results, `metadata.research`, the generated draft and the
artifacts; `BrowserRead` keeps `metadata.browser` and the provider's pages, which a restart
loses.  The research runner merges its part of the metadata; the browser runner saves
all of it, the list of refinements included, as it was when the step began.  In
`ResearchReport` no message is unclear (`Unclear = {}`); the clarifications, whose save writes the
list and the step that were read, are in `BrowserRead`.  A page counts as read there when it
answered with 200 and a type of text, also when its readable text is empty
(`web-page-reader/src/index.ts:1549`, `browser-read-basic.ts:717`): the code takes both for a page
that was opened, and `CompletedWasRead` says no more than that.

## 4. The runs

Each run finishes in under five minutes with two workers.  "Request" is a concurrent API call
that may be issued again and again, so the number of calls in a behaviour is not bounded,
only how many overlap; in `SessionCopies`, `ModelRouterRequests` and `VoiceCoordinatorCalls`
a call is made once.

| Run | Instance | Shows |
| --- | --- | --- |
| `TaskManagerCalls` | 2 tasks of a session, up to 2 steps, progress omitted, null or 50; `CurrentTaskSpec` | `PointerSound`, `ActiveStepIsCurrent`, `FinishedIsSettled`, `SingleActive` |
| `TaskRuntimeCalls` | 1 task of 1 step, 2 requests of every kind (refinements and direct calls too), restarts, refused events | `RuntimeSound` (types, one executor per task); every step of the runtime is a task-manager operation or leaves the records alone (`ImplementsTaskManager`) |
| `TaskRuntimeSteps` | 2 tasks of 2 steps in a session, one call at a time (create, pause, resume, cancel), restarts | `ProgressIsShareOfSteps`, `StepsCompleteByRunning`, `PausedGetsNoStep`, also for a task that was paused only in the store |
| `TaskRuntimeEnds` | 1 task of 1 step, room for 2 artifacts, 2 requests, restarts; `FairRuntimeSpec` | `ArtifactOnce`, `CancelEnds`, `LoopSettles` |
| `JsonFileStoreRestarts` | 3 clients, 5 attempts, restarts, renames that may be refused for good; `FairStoreSpec` | `AcknowledgedSurvives`, `ImplementsAtomicStore`, `CallsAreAnswered` |
| `ConversationModeTurns` | 2 loops; every call may fail but `AudioContext.resume()` and `onConversationWaiting`; `FairSpec` | `OneLoop`, `MicrophoneIsOfTurn`, `AudioFollowsStart`, `NoHiddenListening`, `StopReturns` |
| `SessionCopies` | 2 requests of any kind and one that approves by the button, 2 at work at a time; refused saves, restarts, expiry; a session that is fresh, or holds an override or a pending action from before | `SessionSound` (what was decided alone stays decided), `FreshSavesLoseNothing`, `RunsConfirmed` |
| `ModelRouterRequests` | 2 calls, 4 providers, one of each kind, 3 sets of able ones; `FairSpec` | `RoutingSound` (no cloud under `local_only`, local first), `FallbackTold`, `CallsEnd` |
| `SchedulerRuns` | 2 profiles, 1 task, 2 calls that run it, restarts, refused writes | `StoresSound` (the mark follows the pointer; once is over), `RunsOnlyRecord` |
| `VoiceCoordinatorCalls` | 3 calls of every route, 2 sessions | `VoiceSound` (listens or speaks, one voice), `MuteHolds`, `RecordingIsLive`, `ShowsTheTruth` |
| `ResearchReportRefined` | 2 searches (of two and of five results), 4 addresses with a redirect and pages of different quality, reading on or off, 2 refinements, a restart | `SourcesSound`, `WorkStands`, `ReportHasBasis`, `GradesAreEarned`, `SummaryFirstHeld` |
| `BrowserReadRefined` | 3 webs of 5 addresses (redirects, a local host, refusals, time-outs), 2 messages, a restart, 2 pages, 4 links | `RecordSound`, `CompletedWasRead`, `LogSound` (all told, safe, bounded) |

**Bounds.** Two steps are the fewest with a displaced and a next one; what happens to a third
is what happens to a second.  Two tasks of one session are enough for a pointer that
leaves one for the other; three, where one is current, one was left and one comes new, are
the theorem's.  Two overlapping requests reach every race of a call with another and with the loop.
`TaskRuntimeSteps` has one request because with two, a resume in flight may let a
task that is paused meanwhile take its step; the code does not prevent that and the
property does not claim it.  Two loops are the one that is running and one that is still
stopping, whose late answers and errors meet it; a third would wait for a name.  Five attempts are
those of `FILE_REPLACE_RETRY_DELAYS_MS`.  The percentages are those the code can
compute for the number of steps.  Two requests at work are a save that overtakes and one
that is overtaken; the third comes after one of them, which is what it takes to approve,
find or lose what they have done; the proofs have any number.  Three calls of the voice routes are one that
begins a sound, one that meets it, and one that comes after both.  One restart is enough to
repeat each step of a runner; the searches and webs have a case for every branch of
the functions they meet.

**Deadlock** is not checked where the system may stop: in the task manager's run, where all tasks may
be finished and every update refused for lack of a fresh identifier, and in the
runs of `Session`, `ModelRouter`, `ResearchReport` and `BrowserRead`, where every call or message is made once
and the task ends.  It is checked in the others.

**Fairness.** `RuntimeFairness` says that every promise settles: recovery proceeds, a request
and a loop take their next step (the store answers every operation, which
`CallsAreAnswered` shows).  For a runner's step it is strong fairness on "returns, throws
or waits": a runner may go on calling its context, but its fetches, searches and model
calls have time-outs and its own loops are over finite lists.  Nothing makes
a client issue a call: no resume, no cancel and no restart is assumed to come.
`TaskRuntimeEnds` leaves out the refused `started` event, after which a handle stays live
without a loop (see below).  The store's `FairStoreSpec` assumes that the file system answers each request, with whatever result; a
restart ends the calls it meets.  In `ConversationMode` it says that promises settle (a
permission prompt is answered), frames come while the processor is connected, a turn
reaches its longest duration and a state that was received is rendered.  Nobody has to
speak, to fall silent or to click.  In `ModelRouter` it is weak fairness of the router's own steps, its timers
among them: no provider has to answer.

### What documents and tests say and the code does not keep

The first list has a property in its module that no cfg names: add it to the run and TLC
finds the counterexample.

| Property | Run | What happens |
| --- | --- | --- |
| `AtMostOneActive` ("one active task per session", `README.md:610` of the repository) | `TaskRuntimeSteps`, with 3 tasks | a progress write moves the session's pointer to its task without pausing the one it leaves (`task-manager/src/index.ts:434`); the task created or resumed next pauses the wrong one |
| `CancelledStaysCancelled` ("does not mark it completed afterwards", `task-runtime/src/index.test.ts:1457`) | `TaskRuntimeCalls` | the loop's last `completeTask` (2896) may stand behind a `cancelTask` in the queue, and `updateStatus` refuses no status.  For the same reason a `resumeTask` whose check is out of date makes a cancelled or completed task active again (2644-2653) |
| `ResumedRunsOn` ("creates or resumes a task", `docs/task-runtime.md:71`) | `TaskRuntimeCalls` | the resume withdraws the pause of the handle (2823), the loop reads the task, still paused, renews it and parks; the resume releases the barrier only if no pause is requested |
| `DisablingReachesAgent` ("the frontend should stop microphone capture and the agent marks the session as `off`", `docs/local-agent-api.md:105`) | `ConversationModeTurns`, `MayReject = {}` | `stop()` disposes a turn that awaits `onConversationWaiting` and finds no `activeResolve` (`wake-mode-loop.ts:624`); the turn then waits for frames that do not come, `stop()` for the turn, and the call that turns the mode off comes after `stop()` |
| `CancelledGrantsNothing` ("can be cancelled manually", `README.md:575`) | `SessionCopies` | a request that was at work saves its copy, with the cancelled override (`orchestrator/src/index.ts:1119` and every `reply`) |
| `CompletedIsWritten` ("restores persisted state", `README.md:697`; `docs/task-runtime.md:65`) | `ResearchReportRefined`, with a plan | a restart during `write-report`, "first the summary", a resume: `advanceTaskPhase` (`task-manager/src/index.ts:475`) completes the report that was not written |
| `FoundIsOfThePage` (`docs/browser-automation.md:76`) | `BrowserReadRefined` | a search on the first page is reported for the page that was followed (`browser-read-basic.ts:827-854`) |
| `RefinementsStay` (`docs/interrupt-handler.md:104`) | `BrowserReadRefined` | the step saves the whole metadata it read when it began (662) and a refinement made meanwhile is gone |

Met beside them:

- *Tasks.*  `StepsCompleteByRunning` exempts cancelled steps, which the loop's last `completeTask` may
  turn completed (`CancelledStaysCancelled`, above).  With a refinement among the requests of
  `TaskRuntimeSteps` it fails for others:
  it stores the current step it read some awaits earlier (`orchestrator/src/index.ts:2274`), and a
  step is completed that was not run (`README.md:744`: refinements "do not magically
  rewrite already completed work").  A `started` event that is refused leaves a live
  handle without a loop, and a cancelled execution then never ends.  A task shows 100 percent before it
  is completed (`docs/task-runtime.md:65`): the last `completeCurrentStep` stores it,
  `completeTask` is a later call, and a pause, a cancellation or a stop fits in between.
- *Conversation mode.*  If `AudioContext.resume()` rejects, or `onConversationWaiting` after a `stop()`, nothing
  closes the microphone: add `"resume"` or `"waiting"` to `MayReject` and
  `MicrophoneIsOfTurn` fails.  `onError` stops the loop that is current, not the one that failed.  After two quick changes of the
  settings the loop may run with the first of them until the next.
- *Sessions.*  A refused save is in memory until the agent starts again.  When the inner reply
  and its report are both refused, `handleChat` saves its outer copy and the
  approved action is pending again.  The message of a typed approval is added to the outer
  copy, and lost (1218).
- *Research.*  A refinement that is saved late re-activates the step of its copy (2267); of two at the
  same time the later save loses the earlier.  One strong and two tangential sources
  are "insufficient" where the strong one alone is "solid".  Pages fetched again after a
  restart keep their old excerpt.  A refinement of the sources during the selection, and of the
  language during the synthesis, has no effect, though the user is told it has (3603).  A source without
  a snippet whose page could not be read counts neither as read nor as quoted, so one page that was read well
  makes a report that need not admit limits, however many others failed (`task-runtime/src/index.ts:1265-1350`):
  `ConfidenceIsEarned` counts only the sources that have some text.  The metadata merge sets the
  current step of a paused task active (`task-runtime/src/index.ts:3027-3039`).
- *Browser.*  A restart loses the pages and the task fails when it is resumed (`README.md:697`).  The step
  follows a link whether or not one was asked for, `most_relevant` matches none, and pages
  are never closed.
- *Voice.*  `startRecording` and `speak` that overlap do both begin (`ListensOrSpeaks` and `OneVoice` say
  exactly when).  A copy that is saved late shows "speaking" after the end of the speech; reading an
  answer aloud without a voice leaves "processing"; a mute leaves the
  recording of another session.
- *Scheduler and profiles.*  `setTaskEnabled` computes the next run from the task as it was (105-128), so a task that
  is switched on again has no date; `runTask` does not look at the switch; a run whose record the disk refuses is
  recorded as an error, and a restart may bring a task back that was to run once.  Importing over
  the active profile without activating it removes its mark (`memory/src/index.ts:329-357`).

## 5. The proofs

Every theorem holds for any number of tasks, sessions, steps, requests, clients, attempts, profiles, providers, calls and loops,
for any results, webs and messages, under
the named assumptions of the modules, which TLC evaluates in the runs.

`TaskRuntimeProofs`, first the task manager:

| Theorem | Argument |
| --- | --- |
| `TypeCorrect` | `TypeOK` is inductive; one lemma per helper says which records it returns |
| `PointerAlwaysSound` | `OperationShape` reduces the ten operations to what they do to the pointer and to the statuses; the property is inductive with `TypeOK` |
| `SessionsAlwaysIsolated` | the same lemma: an operation changes its task, the one it resolved in the same session, and that session's pointer.  No run checks this one |
| `StepsAlwaysFollow`, `FinishedAlwaysSettled` | `OperationRecord` says what becomes of one record; the conjunction over all records is inductive.  Neither holds alone for a task that is finished twice, so both are proved together |
| `OneActivePerSession` | for `CurrentTaskSpec`; inductive with `PointerSound`, without which a resolved task could be of another session |

Then the runtime, with every kind of request, refused events and restarts:

| Theorem | Argument |
| --- | --- |
| `RuntimeImplementsTaskManager` | `RuntimeInv` says of every process that what it computed from the last read is a legal argument of the call it is about to make; with it `StepOperates` shows that each step is an operation of the task manager or leaves the records alone |
| `RuntimeKeepsTasks` | hence the runtime inherits the pointer, the steps and the finished tasks from the task manager |
| `RuntimeAlwaysSound` | `OneExecutor` is inductive together with `RuntimeInv`: a step concerns one task (`ConcernsOneTask`), and leaves its executor alone, is the loop's own, or is a spawn, which the handle it registers excludes from being the second |
| `ArtifactAlwaysOnce` | `ArtifactInv`: a loop about to attach has seen that its task has no artifact; `OthersMove` says what the others can do to a loop, none of which brings it there (`AboutToAttach`), and every other write leaves the artifacts alone (`OperationArtifacts`) |
| `ProgressAlwaysShare` | under `NoOverride`, no call that refines a task or completes it over the runtime's head.  `WorkInv`: the steps of a task are completed in their order, its percentage is their share, and what each loop has computed from its last read is what the write it is about to make needs (`LoopOK`).  `OwnLoopWorks` keeps it through the loop's own writes; `CallerKeepsWork` shows that no other call completes a step of a task that is still running, so that what the loop has read stays true |
| `StepsAlwaysCompleteByRunning` | under `NoOverride` and without cancellations, which the run has and the theorem has not: with `WorkInv`, no step is ever cancelled (`SettledInv`), so that a loop that finds no step left has completed them all, and its last `completeTask` completes none |
| `PausedNeverSteps` | with one call at a time: `ReleaseInv`, a call that releases a barrier has made its task active and nothing has paused it since; the two other ways to go on (`GoesOnUnpaused`) look at the status in the same step |

`StoreProofs` has the file and what is kept in two of them.  It proves `AcknowledgedAlwaysSurvives` and `AtomicStoreImplemented`,
whatever fails and whenever the process stops, and `ReplacedByRenameOnly`: where a
rename is not refused on every attempt, the file is never replaced in place and the
exception of the first does not occur.  `AcknowledgedSurvives` is not inductive: after a
failed write the copy is ahead of the file, and the next write must not lose what the
file has.  `Inductive` adds that the copy never falls behind (`CopyIsAhead`), that it has every
acknowledged update, and where the operation at the head stands
(`OperationOrder`, `QueueOrder`).

`ConversationModeProofs`, for any number of loops:

| Theorem | Argument |
| --- | --- |
| `TypeCorrect`, `OneLoopRuns` | whichever calls fail: `OneLoop` is inductive together with the types and with "a loop is stopped by its `stop()` and by nothing else" (`Application`) |
| `LoopsAlwaysSound` | under `MayReject \cap {"resume", "waiting"} = {}`: `Sound` says of one loop what is registered, what a turn leaves behind and how far its end got; one lemma per helper, then one step per action |
| `MicrophoneAlwaysOfTurn`, `AudioAlwaysFollowsStart` | follow from it.  Neither is inductive: that the microphone closes depends on the registration, that the start has settled on how far `finish` got |

`SessionProofs`, for any number of requests at work, refused saves, restarts, and overrides that expire at any moment:

| Theorem | Argument |
| --- | --- |
| `SessionAlwaysTyped` | `Inv` adds to the types what the state of a request says of its body and its action |
| `RunsAlwaysConfirmed` | with `Inv`: only `ExecuteOrQueue` and the two ways to resolve an action lead to its execution, and `PruneExpired` leaves no expired override |
| `FreshSavesAlwaysLoseNothing` | `CopiesFresh`, inductive with `Inv`: a copy no save has overtaken still carries what the store has.  It needs that a request decides on an action of its own only in a session without a pending one, which is the order of the handlers (`BeginsWithoutPending`), and that a save puts every other copy at work behind (`Overtakes`) |
| `SessionAlwaysSound` | `Decided`, inductive with `Inv` and `CopiesFresh`: every pending action and override is by a request that has begun, an action that is at work, or was replaced, is pending in its request's own copy no more, and a settled one is by a request that is over (a replaced action is another request's, so it is not the one that is queued in its place).  Hence a request that begins makes nothing that is finished, and one that settles alone (`SettlesAlone`) leaves nobody with a copy that could bring it back |

Of the scheduler and the profiles it proves `StoresAlwaysSound` and `RunsAlwaysOnlyRecord`.  A start goes back to the files,
so `Inv` says of the files what `StoresSound` says of the memory.

`ModelRouterProofs`, for any sequence of providers (`Providers \in Seq(ProviderSet)` is assumed),
any calls at the same time, cached health of any age and providers that fail:

| Theorem | Argument |
| --- | --- |
| `FallbackAlwaysTold` | `Before` is a strict total order, so that the number of candidates ahead of a provider is an injection from the candidates into the places, hence a bijection, and `Ranked` is the list it should be.  `RouterInv`: what a call has left is the rest of its candidates (`IsRest`), and it says a fallback was used exactly when it has skipped one |
| `RoutingAlwaysSound` | with `RouterInv`: `local_only` selects no provider of the cloud, and where the mode prefers the local ones each of them scores higher than each of the cloud (`LocalScores`), so that the cloud comes in the rest of a call only behind them |

`VoiceCoordinatorProofs`, for any calls of any kind, at work together, about any sessions:

| Theorem | Argument |
| --- | --- |
| `VoiceAlwaysSound` | `RecordsOK` counts the references (one for each session and each call at work, so that there is always a fresh one); `MetOK` says that a call that begins a sound has met everybody who is at work; `SoundOK` that what the checks of `startRecording` and `speak` have seen is still so, but for the calls they have met.  One lemma per action, and three classes of actions for those that touch no sound (`Quiet`, `Unmuted`, `Forgets`) |
| `MuteAlwaysHolds` | `MutedOK`: while the microphone is muted a call that is about to open a recording has met the mute |
| `RecordingAlwaysLive` | `LiveOK`: a recording that was stopped and is still registered has a call at work that forgets it, also where the provider throws |
| `TruthAlwaysShown` | `Truth`, as long as nothing crossed: at most one call is at work, every record is honest about the speech, and a turn is half way only in the session of a call that is (`Midway`); of the record a call holds it says what the next save makes of it (`Settles`) and when it is the one of the session (`Fresh`).  The hypothesis `NothingTranscribedReported`: a client could report `"transcribing"` and leave it there (`controller.ts:612-624` would take it), but the desktop's loop reports waiting, speech, silence and the closing of a turn only (`wake-mode-loop.ts`, `App.tsx`) |

`ResearchReportProofs`, for any results of any number and score, any web, any messages, pauses, restarts and refinements from
older copies.  `IInv` has two halves.  `RunSound`, `WorkTyped`, `FoundTells` and `LoopSound` hold always: types, sources that
are no doublets and say `"page_read"` only of a page whose text they have, evidence that says of a source what it is worth.  `InOrder`,
`WorkDone` and `PlanHolds` hold as long as nothing is `displaced`: no step is completed before those it needs, what each completed step has made is
there, and a plan that puts the report first was not asked for the summary.

| Theorem | Argument |
| --- | --- |
| `ResearchInvariant` | `IInv`.  Every step of the research is the end of a step for the loop (`Ends`); `StepWorksSound` and `StepWorksDone` say what it finds and what it has done, one lemma per step.  The moves of the loop and of the user leave what was found, and nothing is done by them that was not done before (`MovesDone`).  A step that is repeated finds everything later undone (`NotYetDone`), so it breaks no promise of a later one |
| `SourcesAreSound` | the selection is a bijection from places to candidates because `RanksBefore` is a strict total order (`PlacesFollow`), of results that differ in their URL (`ChosenDiffer`); the pages to read are counted by `FirstOfSize` |
| `StandingWork`, `CompletedWork` | `WorkDone`; that the extracted evidence is still the one of its sources needs that `Graded` changes nothing `Evidence` looks at (`GradedTells`).  The second has no run of its own: `CompletedIsWritten` without "as long as no step was counted as completed in passing" is refuted in section 4 |
| `BasisOfReport` | a written report has evidence whose readiness is not `"insufficient"` (`WrittenIsReady`), and `ReadyHasBasis` counts what that takes: a strong or medium record, or two weak ones |
| `GradesEarned` | `EvidenceTells` record by record, and `UnlimitedIsEarned`: without a snippet-dominated report the read sources outnumber the quoted ones |
| `SummaryIsFirst` | `PlanHolds`: the copy a plan was made from knows only of steps that are completed, and the plan is saved with the very list it was made from (`PersistsPlanHolds`) |

`BrowserReadProofs`, for any web, page, messages and limits:

| Theorem | Argument |
| --- | --- |
| `BrowserInvariant` | `IInv`: beside the properties, how the loop stands to the steps (`LoopSound`, `InOrder`), that the copy a step works on has the record as it is (`CopyIsFresh`: nobody else writes it, which is why saving all of the metadata loses only refinements), that the page in memory was read where the record says so (`PageKept`), and that the log opens before it navigates (`LogOpens`).  `Effect` reduces the steps to the few things they do to record and pages |
| `RecordIsSound`, `LogIsSound` | parts of `IInv`; the bound on the navigations is the one of `Leads`, whose guard counts what the log has |
| `CompletedHasRead` | `WorkDone`: once `open-page` is done there is a text, once `extract-findings` is a finding that tells of it, and no later step takes them away |

The hypotheses are those the code needs.  A refinement stores the progress and the current step it read some awaits
earlier (`orchestrator/src/index.ts`, `persistTaskRefinement`), so `ProgressIsShareOfSteps` may fail with one; a direct
`/complete` and the resumption that follows it leave a task with steps nobody has run; a cancelled step becomes a
completed one when the loop's last `completeTask` stands behind the cancellation in the queue; and with two calls a
task can be paused between the resumption by one and the release of its barrier.

**Only model-checked:** the liveness properties (`CancelEnds`, `LoopSettles`, `CallsAreAnswered`, `StopReturns`, `NoHiddenListening`,
`CallsEnd`) and their fairness, which the prover does not reach.

## 6. Not modelled

- Wording, formatting and the recognition of texts (most of the lines of the orchestrator and of the planner): the
  recognisers that match are an input.
- Time as a quantity: an override expires, a cached health becomes old and a timer fires at any moment.
- `buildSystemState` and its broadcasts, which read the stores one after the other over many awaits and may arrive
  out of order (`apps/local-agent/src/server.ts:505-575`); nothing is decided by them.
- Refused writes of `tasks.json` in `TaskManager` and `TaskRuntime`: they are in `JsonFileStore`, and for the
  stores of sessions, profiles and schedules in `Session` and `Scheduler`.
- HTML extraction, the Markdown runner's files and the fallback texts of reports.
- The speech detector's thresholds, the wake loop and the processes of the speech providers (durations, file formats).
- Telemetry, action log, configuration, SDK, user interface and scripts, which no decision depends on; the
  directories and the clean-up of old temporary files of the store; `JsonFileStore.write`.

Components without a module are marked `not_modelled` in `PROJECT.json` with the reason.
