--------------------------- MODULE ConversationMode ---------------------------
(***************************************************************************)
(* Conversation mode in the desktop application: BrowserConversationMode-  *)
(* Loop of wake-mode-loop.ts, which captures one spoken turn after the     *)
(* other, and the part of App.tsx that starts and stops such loops.        *)
(*                                                                         *)
(* One step is the code between two awaits of the one thread they share.   *)
(* A loop object is started once and stopped once; the names in Loops      *)
(* stand for the objects that are alive, and one whose work is over is     *)
(* used again.  Muting and switching off are one thing here.  A frame of   *)
(* audio is what the speech detector makes of it, and of the voice         *)
(* settings only matters whether they are the latest.                      *)
(***************************************************************************)
CONSTANTS
  Loops,      \* loop objects alive at one time
  NoLoop,
  MayReject   \* the calls that may fail: "media", "resume", "waiting",
              \* "start", "state", "answer" and "mode"

\* The voice settings last received from the agent, and all before them.
Settings == {"latest", "earlier"}

ASSUME ConversationModeAssumption == NoLoop \notin Loops \cup Settings

VARIABLES
  loop,      \* the loops
  current,   \* conversationModeLoopRef
  key,       \* conversationModeLoopSettingsRef: the settings it was made with
  on,        \* the mode is on in the voice state last received,
  rendered,  \* and in the one last rendered, which latestVoiceRef and the effect use
  asking     \* updateVoiceMode calls under way

vars == <<loop, current, key, on, rendered, asking>>

Over == "nothing"

\* A loop that does not run.  `at` is where run() is, `mic` the stream the turn
\* acquired, `listening` whether it is registered as activeListening, `start`
\* the activeStartPromise of a turn that has heard speech, `reporting` whether a
\* call of onActiveState is under way, `reason` and `ending` the course of finish
\* and fail, `stop` that of stop(), and `next` what its caller does afterwards.
Idle == [at |-> "done", stopped |-> TRUE, mic |-> "none", listening |-> FALSE,
         start |-> "none", reporting |-> FALSE, reason |-> "none", ending |-> "no",
         stop |-> "returned", next |-> Over]

LoopStates ==
  [at : {"media", "resume", "waiting", "turn", "delay", "done"}, stopped : BOOLEAN,
   mic : {"none", "open", "closed"}, listening : BOOLEAN,
   start : {"none", "asked", "started", "refused"}, reporting : BOOLEAN,
   reason : {"none", "no_speech", "speech", "failed"},
   ending : {"no", "starting", "closing", "answering", "over"},
   stop : {"no", "joining", "returned"},
   next : {Over, "off"} \cup Settings]

TypeOK ==
  /\ loop \in [Loops -> LoopStates]
  /\ current \in Loops \cup {NoLoop} /\ key \in Settings \cup {NoLoop}
  /\ current = NoLoop <=> key = NoLoop
  /\ on \in BOOLEAN /\ rendered \in BOOLEAN
  /\ asking \subseteq {"on", "off"}

Init ==
  /\ loop = [l \in Loops |-> Idle]
  /\ current = NoLoop /\ key = NoLoop
  /\ on = FALSE /\ rendered = FALSE
  /\ asking = {}

-----------------------------------------------------------------------------
(* What the steps do to one loop. *)

\* disposeActiveListening up to its await: no frame comes after it.
Disposed(r) ==
  [r EXCEPT !.mic = IF r.listening THEN "closed" ELSE @, !.listening = FALSE]

AfterTurn(r) == IF r.stopped THEN "done" ELSE "delay"

\* The promise of the turn is resolved, if there is one.
TurnOver(r) == [r EXCEPT !.at = IF @ = "turn" THEN AfterTurn(r) ELSE @]

\* Mutant: the registered microphone stays open.
StopCalled_KeepsMicrophone(r, next) ==
  TurnOver([r EXCEPT !.stopped = TRUE, !.next = next, !.stop = "joining"])

\* stop() up to its wait for run().  The audio context is closed on the way; how
\* long that takes matters only to a turn that meets it, see Waited.
StopCalled(r, next) ==
  TurnOver([Disposed(r) EXCEPT !.stopped = TRUE, !.next = next, !.stop = "joining"])

\* finishConversationTurn up to its first await.
FinishTurn(r) ==
  [Disposed(r) EXCEPT !.reason = IF r.listening THEN @ ELSE "no_speech",
                      !.ending = IF r.listening THEN "closing" ELSE "answering"]

\* Mutant: a turn is closed although the agent has not started to listen.
Finish_Unstarted(r, reason) ==
  IF r.reason # "none" THEN r ELSE FinishTurn([r EXCEPT !.reason = reason])

\* finish(): only the first reason counts, and the start is awaited.
Finish(r, reason) ==
  IF r.reason # "none" THEN r
  ELSE LET s == [r EXCEPT !.reason = reason]
       IN IF r.start = "asked" THEN [s EXCEPT !.ending = "starting"] ELSE FinishTurn(s)

\* Mutant: the mode is not looked at before the microphone is opened.
Passes_Unasked(r, mode) == IF r.stopped THEN {"done"} ELSE {"delay", "media"}

\* Where a pass of run() leads: shouldCaptureTurn also depends on what is spoken
\* and recorded elsewhere.
Passes(r, mode) ==
  IF r.stopped THEN {"done"} ELSE {"delay"} \cup (IF mode THEN {"media"} ELSE {})

\* What is under way for a turn that is over: finish has noted a reason before
\* its last promise, and fail ignores reports that are answered after that.
Lingers(r) ==
  \/ r.start = "asked" \/ r.ending \notin {"no", "over"} \/ r.mic = "open"
  \/ r.reporting /\ r.reason = "none"

\* A turn is forgotten with its last promise, and a loop with its last turn.
Collected(r) ==
  IF r.at \notin {"delay", "done"} \/ Lingers(r) THEN r
  ELSE IF r.at = "done" /\ r.stop = "returned" THEN Idle
  ELSE [r EXCEPT !.mic = "none", !.start = "none", !.reporting = FALSE,
                 !.reason = "none", !.ending = "no"]

Moves(l, r) ==
  loop' = [loop EXCEPT ![l] = Collected(r)] /\ UNCHANGED <<current, key, on, rendered, asking>>

-----------------------------------------------------------------------------
(* App.tsx: which loop runs. *)

\* stopConversationModeLoop, up to its await.
StopLoop(loops, next) ==
  /\ loop' = IF current = NoLoop THEN loops
             ELSE [loops EXCEPT ![current] = StopCalled(@, next)]
  /\ current' = NoLoop /\ key' = NoLoop

\* A loop is made and runs up to its first await.
MakeLoop(loops, made) ==
  \E l \in Loops :
    /\ loops[l] = Idle
    /\ \E at \in Passes([Idle EXCEPT !.stopped = FALSE], rendered') :
         loop' = [loops EXCEPT ![l] = [Idle EXCEPT !.at = at, !.stopped = FALSE, !.stop = "no"]]
    /\ current' = l /\ key' = made

\* Mutant: the old loop is not stopped when one with other settings is made.
StartLoop_Beside(loops, made) ==
  IF current # NoLoop /\ key = made THEN loop' = loops /\ UNCHANGED <<current, key>>
  ELSE MakeLoop(loops, made)

\* startConversationModeLoop: a loop made with other settings is stopped first,
\* and what comes after that is left to the promise of stop().
StartLoop(loops, made) ==
  \/ current # NoLoop /\ key = made /\ loop' = loops /\ UNCHANGED <<current, key>>
  \/ current # NoLoop /\ (key # made \/ key = "earlier") /\ StopLoop(loops, made)
  \/ current = NoLoop /\ MakeLoop(loops, made)

\* A second click may come while the first is still stopping the loop.
SwitchOff ==
  /\ rendered
  /\ \/ current # NoLoop /\ StopLoop(loop, "off") /\ UNCHANGED asking
     \/ current = NoLoop /\ asking' = asking \cup {"off"} /\ UNCHANGED <<loop, current, key>>
  /\ UNCHANGED <<on, rendered>>

\* The button is disabled while a call of its own is under way; the call of an
\* error, or of a second click, may still be.
SwitchOn ==
  /\ ~rendered /\ "on" \notin asking
  /\ asking' = asking \cup {"on"}
  /\ UNCHANGED <<loop, current, key, on, rendered>>

\* The agent has answered updateVoiceMode; a failed call changes nothing.
ModeUpdated ==
  /\ UNCHANGED rendered
  /\ \E mode \in asking :
       /\ asking' = asking \ {mode}
       /\ \/ /\ on' = (mode = "on")
             /\ IF mode = "on" THEN StartLoop(loop, "latest")
                               ELSE UNCHANGED <<loop, current, key>>
          \/ "mode" \in MayReject /\ UNCHANGED <<on, loop, current, key>>

\* The mode received is rendered, and the effect runs.
Renders ==
  /\ rendered # on
  /\ rendered' = on
  /\ IF on THEN StartLoop(loop, "latest") ELSE StopLoop(loop, Over)
  /\ UNCHANGED <<on, asking>>

\* New settings are received and rendered.  The effect runs unless the mode is
\* off or still to be rendered.
SettingsUpdated ==
  /\ UNCHANGED <<on, rendered, asking>>
  /\ LET loops == [l \in Loops |->
                     [loop[l] EXCEPT !.next = IF @ \in Settings THEN "earlier" ELSE @]]
     IN \/ /\ ~(on /\ rendered)
           /\ loop' = loops /\ UNCHANGED current
           /\ key' = IF current = NoLoop THEN NoLoop ELSE "earlier"
        \/ on /\ rendered /\ current # NoLoop /\ StopLoop(loops, "latest")
        \/ on /\ rendered /\ current = NoLoop /\ MakeLoop(loops, "latest")

\* onError: whichever loop is current is stopped and the mode switched off.  The
\* turn that failed is over, if stop() has not seen to that.
OnError(l, r) ==
  /\ StopLoop([loop EXCEPT ![l] = IF current = l THEN r ELSE Collected(TurnOver(r))], Over)
  /\ asking' = asking \cup {"off"}
  /\ UNCHANGED <<on, rendered>>

StopReturned(l) ==
  /\ loop[l].stop = "joining" /\ loop[l].at = "done"
  /\ UNCHANGED <<on, rendered>>
  /\ LET loops == [loop EXCEPT ![l] = Collected([@ EXCEPT !.stop = "returned", !.next = Over])]
         next == loop[l].next
     IN \/ /\ next = Over
           /\ loop' = loops /\ UNCHANGED <<current, key, asking>>
        \/ /\ next = "off"
           /\ loop' = loops /\ asking' = asking \cup {"off"} /\ UNCHANGED <<current, key>>
        \/ /\ next \in Settings
           /\ StartLoop(loops, next) /\ UNCHANGED asking

-----------------------------------------------------------------------------
(* run() and captureConversationTurn up to the turn. *)

\* The delay ends by itself or is aborted.
DelayEnds(l) ==
  /\ loop[l].at = "delay"
  /\ \E at \in Passes(loop[l], rendered) : at # "delay" /\ Moves(l, [loop[l] EXCEPT !.at = at])

MediaOpens(l) ==
  loop[l].at = "media" /\ Moves(l, [loop[l] EXCEPT !.at = "resume", !.mic = "open"])

\* The stream is registered and onConversationWaiting is called.
Resumed(l) ==
  loop[l].at = "resume" /\ Moves(l, [loop[l] EXCEPT !.at = "waiting", !.listening = TRUE])

\* The frames of the turn start to come.  If stop() was here first none will: the
\* turn is over if stop() is still closing the audio context, and if not, nothing
\* resolves its promise any more.
Waited(l) ==
  /\ loop[l].at = "waiting"
  /\ \/ Moves(l, [loop[l] EXCEPT !.at = "turn"])
     \/ loop[l].mic = "closed" /\ Moves(l, [loop[l] EXCEPT !.at = "done"])

\* A rejected call ends the pass: run() reports it unless the loop was stopped,
\* and the report stops it.
TurnThrows(l) ==
  /\ loop[l].at \in {"media", "resume", "waiting"} \cap MayReject
  /\ \/ loop[l].stopped /\ Moves(l, [loop[l] EXCEPT !.at = "done"])
     \/ ~loop[l].stopped /\ OnError(l, [loop[l] EXCEPT !.at = "done"])

-----------------------------------------------------------------------------
(* The turn: frames, the start at the agent, reports, and the end. *)

\* Frames come while the processor is connected.
Hearing(r) == r.at = "turn" /\ r.mic = "open"

\* Mutant: frames are ignored once the loop was stopped.
FrameAfterStop_Ignored(l) == FALSE

\* A turn that stop() did not find registered is finished by its first frame.
FrameAfterStop(l) ==
  /\ Hearing(loop[l]) /\ loop[l].stopped /\ loop[l].reason = "none"
  /\ Moves(l, Finish(loop[l], "no_speech"))

\* Speech opens the turn at the agent, or goes on, which is reported.
Speech(l) ==
  /\ Hearing(loop[l]) /\ ~loop[l].stopped /\ loop[l].reason = "none"
  /\ Moves(l, [loop[l] EXCEPT !.reporting = TRUE, !.start = IF @ = "none" THEN "asked" ELSE @])

\* The silence after speech and the post-roll were long enough, or the turn was.
SpeechEnds(l) ==
  /\ Hearing(loop[l]) /\ ~loop[l].stopped /\ loop[l].start # "none"
  /\ loop[l].reason = "none"
  /\ Moves(l, Finish(loop[l], "speech"))

\* fail() up to its await; later ones are ignored.
Fails(l, r) ==
  IF r.reason # "none" THEN Moves(l, r)
  ELSE IF r.listening
       THEN Moves(l, [Disposed(r) EXCEPT !.reason = "failed", !.ending = "closing"])
       ELSE OnError(l, [r EXCEPT !.reason = "failed", !.ending = "over"])

\* activeStartPromise settles.  The reports wait for it, and so does the end.
StartSettles(l) ==
  /\ loop[l].start = "asked"
  /\ LET started == [loop[l] EXCEPT !.start = "started"]
         refused == [loop[l] EXCEPT !.start = "refused", !.reporting = FALSE]
     IN \/ loop[l].ending # "starting" /\ Moves(l, started)
        \/ loop[l].ending = "starting" /\ Moves(l, FinishTurn(started))
        \/ "start" \in MayReject /\ loop[l].ending # "starting" /\ Fails(l, refused)
        \/ "start" \in MayReject /\ loop[l].ending = "starting" /\ OnError(l, [refused EXCEPT !.ending = "over"])

\* The reports of onActiveState are answered, or one of them fails.
ReportsSettle(l) ==
  /\ loop[l].reporting /\ loop[l].start = "started"
  /\ LET r == [loop[l] EXCEPT !.reporting = FALSE]
     IN \/ Moves(l, r)
        \/ "state" \in MayReject /\ Fails(l, r)

\* The audio context is closed: the answer is sent, or the failure reported.
TurnDisposed(l) ==
  /\ loop[l].ending = "closing"
  /\ \/ loop[l].reason # "failed" /\ Moves(l, [loop[l] EXCEPT !.ending = "answering"])
     \/ loop[l].reason = "failed" /\ OnError(l, [loop[l] EXCEPT !.ending = "over"])

\* onActiveAudio or onActiveNoSpeech has been answered.
Answered(l) ==
  /\ loop[l].ending = "answering"
  /\ \/ Moves(l, TurnOver([loop[l] EXCEPT !.ending = "over"]))
     \/ "answer" \in MayReject /\ OnError(l, [loop[l] EXCEPT !.ending = "over"])

-----------------------------------------------------------------------------
Settles(l) ==
  \/ DelayEnds(l) \/ MediaOpens(l) \/ Resumed(l) \/ Waited(l) \/ TurnThrows(l)
  \/ FrameAfterStop(l) \/ StartSettles(l) \/ ReportsSettle(l)
  \/ TurnDisposed(l) \/ Answered(l) \/ StopReturned(l)

Updates == ModeUpdated \/ Renders

Next ==
  \/ SwitchOff \/ SwitchOn \/ SettingsUpdated \/ Updates
  \/ \E l \in Loops : Settles(l) \/ Speech(l) \/ SpeechEnds(l)

Spec == Init /\ [][Next]_vars

\* Every promise settles, frames keep coming while the processor is connected, a
\* turn reaches its longest duration, and what was received is rendered.  Nobody
\* has to speak, to fall silent or to click.
FairSpec ==
  /\ Spec
  /\ WF_vars(Updates)
  /\ \A l \in Loops : WF_vars(Settles(l)) /\ WF_vars(SpeechEnds(l))

-----------------------------------------------------------------------------
(* Properties. *)

\* However starts, stops, errors and renders interleave: the only loop that has
\* not been stopped is the one the application holds, so that it can be stopped.
OneLoop == \A l \in Loops : loop[l].stopped <=> current # l

\* A microphone is open only while a turn is being captured: every end of a
\* turn closes it (silence, the longest duration, a failed report or start,
\* stop() at any await), also when two of them meet.
MicrophoneIsOfTurn ==
  \A l \in Loops : loop[l].mic = "open" => loop[l].at \in {"resume", "waiting", "turn"}

\* The audio of a turn is sent after the agent has started to listen, although
\* the turn may end while the start is still under way.
AudioFollowsStart ==
  \A l \in Loops :
    loop[l].ending = "answering" /\ loop[l].reason = "speech" =>
      loop[l].start = "started"

\* What holds of every loop, and makes the two properties above inductive: a
\* microphone is registered from the call of onConversationWaiting on, nothing of
\* a turn reaches the next one, stop() disposes a turn that speech has opened, and
\* an end that is under way has closed the microphone or waits for the start.
Sound(r) ==
  /\ r.listening <=> r.mic = "open" /\ r.at \in {"waiting", "turn"}
  /\ r.mic = "open" => r.at \in {"resume", "waiting", "turn"}
  /\ r.at = "resume" => r.mic = "open"
  /\ r.at \notin {"turn", "done"} => r.start = "none" /\ r.reason = "none" /\ r.ending = "no"
  /\ r.stopped /\ r.mic = "open" => r.start = "none"
  /\ r.ending = "no" <=> r.reason = "none"
  /\ r.ending = "starting" => r.start = "asked"
  /\ r.ending \in {"closing", "answering", "over"} => r.mic # "open" /\ r.start # "asked"
  /\ r.start = "refused" => r.reason # "none"
  /\ r.reason = "speech" => r.start # "none"
  /\ r.ending \in {"closing", "answering"} /\ r.reason = "speech" => r.start = "started"

LoopsAreSound == \A l \in Loops : Sound(loop[l])

\* "There is no hidden listening while the toggle is off"
\* (desktop-voice.md:172): once the mode stays off, every microphone is closed for
\* good, also one that was being opened, and a restarted loop opens none.
NoHiddenListening ==
  <>[](~rendered) => <>[](\A l \in Loops : loop[l].mic # "open")

\* stop() returns, unless it disposed a turn whose onConversationWaiting is
\* still to be answered.
StopReturns ==
  \A l \in Loops :
    loop[l].stop = "joining" /\ ~(loop[l].mic = "closed" /\ loop[l].at \in {"waiting", "turn"})
      ~> loop[l].stop # "joining"

\* "When disabled, the frontend should stop microphone capture and the agent
\* marks the session as `off`" (local-agent-api.md:105).
DisablingReachesAgent == \A l \in Loops : loop[l].next = "off" ~> ~on
=============================================================================
