-------------------------- MODULE VoiceCoordinator --------------------------
(***************************************************************************)
(* The voice handlers of the local agent (apps/local-agent/src/voice): one *)
(* recording and one speech at a time for all sessions, the settings, and  *)
(* a record per session that says what its voice is doing.                 *)
(*                                                                         *)
(* A handler takes the session's record by reference, awaits, assigns its  *)
(* fields and saves it.  Saving puts a COPY of the record in the map: from *)
(* then on the handler works on a record of its own and every later save   *)
(* of it replaces whatever others have saved meanwhile.                    *)
(*                                                                         *)
(* A step of a call is the code between two awaits.                        *)
(***************************************************************************)
EXTENDS Integers, FiniteSets

CONSTANTS
  Calls,       \* the calls of the voice routes, of a chat or a voice turn
  Sessions,    \* the sessions they are about
  Bodies,      \* what each call may ask for
  None,        \* no recording, no speech
  Saved,       \* the settings that earlier runs of the agent may have saved
  MaxAtWork    \* a bound: the calls at work at the same time

\* What a body asks is well formed; what the agent has saved are settings.
ASSUME CallsAssumption ==
  /\ MaxAtWork \in Nat \ {0} /\ IsFiniteSet(Sessions)
  /\ None \notin [by : Calls, ses : Sessions]
  /\ Saved \subseteq [{"voiceModeEnabled", "micMuted", "autoReadResponses"} -> BOOLEAN]
  /\ \A c \in Calls : \A b \in Bodies[c] :
       /\ b # None /\ b.ses \in Sessions
       /\ b.kind = "settings" => \A f \in DOMAIN b.set : b.set[f] \in BOOLEAN
       /\ b.kind = "mode" => b.on \in BOOLEAN

VARIABLES
  settings,    \* what the user has set
  entry,       \* the record of each session in the map
  objs,        \* the content of the records that someone still holds
  recording,   \* the active recording: the call that began it, its session
  handle,      \* what became of the recording a call has begun
  speech,      \* the active speech: the call that began it, its session
  playing,     \* the speeches whose process is alive
  killed,      \* the speeches whose process was told to die
  call,        \* a call: what it asks, how far it is, what it holds
  met,         \* the calls that were at work while one that begins a sound was
  mutedBy,     \* the call that muted the microphone in this run, its session
  crossed      \* whether a call, or the end of a speech, has come while one was at work

vars == <<settings, entry, objs, recording, handle, speech, playing, killed, call, met,
          mutedBy, crossed>>

VoiceModeStates == {"off", "muted", "idle", "conversation_waiting", "wake_listening",
  "wake_detected", "active_listening", "speech_detected", "silence_wait", "closing_turn",
  "transcribing", "processing", "speaking", "error"}

Refs == 1 .. (Cardinality(Sessions) + MaxAtWork + 1)
NoRef == 0

Unasked == [pc |-> "new", b |-> None, ref |-> NoRef, held |-> None, auto |-> FALSE]
Over == [Unasked EXCEPT !.pc = "over"]
AtWork == {c \in Calls : call[c].pc \notin {"new", "over"}}

\* resolveIdleVoiceModeState
Idle(set) == IF ~set.voiceModeEnabled THEN "off"
             ELSE IF set.micMuted THEN "muted" ELSE "conversation_waiting"

NewState(set) == [voiceModeState |-> Idle(set), recordingState |-> "idle",
                  speakingState |-> "idle", wakeModeEnabled |-> set.voiceModeEnabled]

Blank == NewState([voiceModeEnabled |-> FALSE, micMuted |-> FALSE])
Held == {entry[s] : s \in Sessions} \cup ({call[c].ref : c \in Calls} \ {NoRef})

\* initialize takes the saved settings, but never the voice mode.  Every
\* session has its record from a first call, which may have begun the mode.
Init ==
  /\ settings \in {[s EXCEPT !.voiceModeEnabled = begun] : s \in Saved, begun \in BOOLEAN}
  /\ call = [c \in Calls |-> Unasked]
  /\ entry = CHOOSE order \in [Sessions -> 1 .. Cardinality(Sessions)] :
       \A s, t \in Sessions : s # t => order[s] # order[t]
  /\ objs = [r \in Refs |-> IF r \in Held THEN NewState(settings) ELSE Blank]
  /\ recording = None /\ speech = None
  /\ handle = [c \in Calls |-> "none"]
  /\ playing = {} /\ killed = {}
  /\ met = [c \in Calls |-> {}] /\ mutedBy = None /\ crossed = FALSE

-----------------------------------------------------------------------------
(* Records, held by reference. *)

NewRef == CHOOSE r \in Refs \ Held : TRUE

\* A record that nobody holds any more is forgotten.
Forget(content) ==
  objs' = [r \in Refs |-> IF r \in Held' THEN content[r] ELSE Blank]

\* The fields of record o are assigned; a copy of it becomes the session's.
Persist(o, s, st) ==
  \E new \in {NewRef} :
    /\ entry' = [entry EXCEPT ![s] = new]
    /\ Forget([objs EXCEPT ![o] = st, ![new] = st])

Goes(c, me, pc) ==
  call' = [call EXCEPT ![c] = IF pc = "over" THEN Over ELSE [me EXCEPT !.pc = pc]]
GoesOn(c, me, pc) == Goes(c, me, pc) /\ UNCHANGED entry /\ Forget(objs)
Saves(c, me, st, pc) == Goes(c, me, pc) /\ Persist(me.ref, me.b.ses, st)

\* The calls that may begin a recording or a speech.
Begins(b) ==
  b # None /\ b.kind \in {"recordStart", "speak", "chat", "listenStop", "recordStop"}

\* A call arrives, and takes its session's record.
Asked(c, kind) ==
  IF call[c].pc = "new" /\ Cardinality(AtWork) < MaxAtWork
  THEN {[Unasked EXCEPT !.b = b, !.ref = entry[b.ses]] : b \in {d \in Bodies[c] : d.kind = kind}}
  ELSE {}
Arrives(c) ==
  /\ met' = [d \in Calls |->
       IF ~Begins(call'[d].b) THEN met[d]
       ELSE IF d = c THEN AtWork ELSE met[d] \cup {c}]
  /\ crossed' = (crossed \/ AtWork # {})

St(me) == objs[me.ref]
IdleState(me) ==
  [St(me) EXCEPT !.recordingState = "idle", !.voiceModeState = Idle(settings)]

Sound == <<recording, handle, speech, playing, killed>>

RecordingOf(s) == recording # None /\ recording.ses = s
SpeechOf(s) == speech # None /\ speech.ses = s

-----------------------------------------------------------------------------
(* The provider of speech to text: a recording is a handle, the sound      *)
(* comes with the call that stops it.                                      *)

\* The checks a sound must pass before whisper.cpp is run on it: it is
\* there, decodes, is a valid WAV, long enough and not silent.
Accepted(audio) == audio = "speech"

\* What whisper.cpp makes of it: text, or a diagnostic and no text when it
\* fails, is not understood or gives too little.
Heard(audio) == IF Accepted(audio) THEN {"text", "nothing"} ELSE {"nothing"}

\* A handle gives its text once, and none when it was cancelled.
Stops(h) == handle[h] = "open"

\* The health check of the provider finds it not configured, its files
\* missing, its trial run failing, or all well.
Found == {"not configured", "incomplete", "self check failed", "ok"}
Available(found) == found = "ok"

\* What transcribing may come to: the text, or an error of the file system,
\* of an unavailable provider.
Transcriptions(audio) == Heard(audio) \cup {"fails"}

-----------------------------------------------------------------------------
(* The provider of text to speech: a process per speech. *)

\* A new process says that it is ready, that it failed, exits, or says
\* nothing in time and is given up.
Starts == {"ready", "error", "exits", "late"}
Started(start) == start = "ready"

\* stop(): the process is told to die; the caller waits until it has.
Kill(p) == killed' = killed \cup {p}
Dead(p) == p \notin playing

\* Mutant: only the mode is put right.
Ended_ModeOnly(st, well) ==
  [st EXCEPT !.voiceModeState = IF well THEN Idle(settings) ELSE "error"]

\* The session's record after its speech.
Ended(st, well) ==
  [st EXCEPT !.speakingState = IF well THEN "idle" ELSE "error",
             !.voiceModeState = IF well THEN Idle(settings) ELSE "error"]

\* The process ends: it has said everything, has failed or was killed.  Only
\* the end of the active speech is told to its session.
PlaybackEnds(p) ==
  /\ p \in playing
  /\ playing' = playing \ {p} /\ killed' = killed \ {p}
  /\ crossed' = (crossed \/ (p \notin killed /\ AtWork # {}))
  /\ UNCHANGED <<settings, recording, handle, call, met>>
  /\ IF speech # None /\ speech.by = p
     THEN /\ speech' = None
          /\ \E well \in IF p \in killed THEN {FALSE} ELSE BOOLEAN :
               Persist(entry[speech.ses], speech.ses, Ended(objs[entry[speech.ses]], well))
     ELSE UNCHANGED <<speech, entry, objs>>

\* The end of stopSpeaking: the active speech is forgotten, whichever it is
\* by now.
Hushed(s) ==
  /\ speech' = None
  /\ Persist(entry[s], s, [objs[entry[s]] EXCEPT
       !.speakingState = "idle", !.voiceModeState = Idle(settings)])

StopSpeaking(c) ==
  /\ \E me \in Asked(c, "stopSpeaking") :
       IF SpeechOf(me.b.ses)
       THEN /\ GoesOn(c, [me EXCEPT !.held = speech, !.ref = NoRef], "hushing")
            /\ Kill(speech.by)
       ELSE GoesOn(c, me, "over") /\ UNCHANGED killed
  /\ Arrives(c)
  /\ UNCHANGED <<settings, recording, handle, speech, playing>>

\* Where a call that has stopped a speech goes on.
AfterHush == [stopSpeaking |-> "over", listenStart |-> "listen", recordStart |-> "health"]

Hushes(c) ==
  LET me == call[c] IN
  /\ me.pc = "hushing" /\ Dead(me.held.by)
  /\ Goes(c, [me EXCEPT !.held = None], AfterHush[me.b.kind])
  /\ Hushed(me.held.ses)
  /\ UNCHANGED <<settings, recording, handle, playing, killed, met>>

-----------------------------------------------------------------------------
(* speak, asked for by a route or, by itself, after an answer              *)
(* (maybeAutoReadSnapshot): then what it throws is only noted.             *)

Throws(c, me) ==
  IF me.auto
  THEN /\ Goes(c, me, "over")
       /\ Persist(entry[me.b.ses], me.b.ses,
            [objs[entry[me.b.ses]] EXCEPT !.speakingState = "error"])
  ELSE GoesOn(c, me, "over")

\* The call reads its answer aloud when the user wants that.
Reads(me) == [me EXCEPT !.auto = TRUE, !.ref = NoRef]

\* The health of the providers is looked up first.
Speak(c) ==
  /\ \E me \in Asked(c, "speak") : GoesOn(c, [me EXCEPT !.ref = NoRef], "speak")
  /\ Arrives(c) /\ UNCHANGED <<settings, Sound>>

\* A chat of the client, answered.
AnswersChat(c) ==
  /\ settings.autoReadResponses
  /\ \E me \in Asked(c, "chat") : GoesOn(c, Reads(me), "speak")
  /\ Arrives(c) /\ UNCHANGED <<settings, Sound>>

MaySpeak == recording = None

ChecksSpeech(c) ==
  /\ call[c].pc = "speak"
  /\ IF MaySpeak
     THEN GoesOn(c, [call[c] EXCEPT !.ref = entry[call[c].b.ses]], "speakReady")
     ELSE Throws(c, call[c])
  /\ UNCHANGED <<settings, Sound, met>>

\* Mutant: a speech of another session goes on.
Silences_Own(s) == SpeechOf(s)

Silences(s) == speech # None

\* The provider may be unavailable, the session without an answer to read.
\* The speech that is active is stopped.
SilencesOther(c) ==
  /\ call[c].pc = "speakReady"
  /\ \/ Throws(c, call[c]) /\ UNCHANGED killed
     \/ /\ ~Silences(call[c].b.ses)
        /\ GoesOn(c, call[c], "voicing") /\ UNCHANGED killed
     \/ /\ Silences(call[c].b.ses)
        /\ GoesOn(c, [call[c] EXCEPT !.held = speech], "silencing") /\ Kill(speech.by)
  /\ UNCHANGED <<settings, recording, handle, speech, playing, met>>

OtherSilent(c) ==
  /\ call[c].pc = "silencing" /\ Dead(call[c].held.by)
  /\ speech' = None
  /\ GoesOn(c, [call[c] EXCEPT !.held = None], "voicing")
  /\ UNCHANGED <<settings, recording, handle, playing, killed, met>>

Voices(c) ==
  LET me == call[c] IN
  /\ me.pc = "voicing"
  /\ \E start \in Starts : Started(start)
  /\ speech' = [by |-> c, ses |-> me.b.ses]
  /\ playing' = playing \cup {c}
  /\ Saves(c, me, [St(me) EXCEPT !.speakingState = "speaking",
       !.voiceModeState = IF settings.voiceModeEnabled THEN "speaking" ELSE @], "over")
  /\ UNCHANGED <<settings, recording, handle, killed, met>>

VoicingFails(c) ==
  LET failed == [St(call[c]) EXCEPT !.speakingState = "error", !.voiceModeState = "error"] IN
  /\ call[c].pc = "voicing"
  /\ \E start \in Starts : ~Started(start)
  /\ Saves(c, call[c], failed, "over")
  /\ UNCHANGED <<settings, Sound, met>>

-----------------------------------------------------------------------------
(* updateSettings, updateVoiceMode. *)

\* The settings change at once; their file and the health of the providers
\* are waited for.
UpdateSettings(c) ==
  /\ \E me \in Asked(c, "settings") :
       /\ settings' = [f \in DOMAIN settings |->
            IF f \in DOMAIN me.b.set THEN me.b.set[f] ELSE settings[f]]
       /\ mutedBy' = IF "micMuted" \notin DOMAIN me.b.set THEN mutedBy
                     ELSE IF me.b.set.micMuted THEN [by |-> c, ses |-> me.b.ses] ELSE None
       /\ GoesOn(c, [me EXCEPT !.ref = NoRef], "written")
  /\ Arrives(c) /\ UNCHANGED Sound

Cancels(h) == handle' = [handle EXCEPT ![h] = "cancelled"]

\* The record after new settings: a mute shows at once, a turn that is in
\* progress keeps its state.
Restated(st) ==
  [st EXCEPT !.wakeModeEnabled = settings.voiceModeEnabled,
     !.voiceModeState =
       IF settings.micMuted THEN "muted"
       ELSE IF ~settings.voiceModeEnabled THEN "off"
       ELSE IF @ \in {"off", "muted", "idle", "wake_listening", "wake_detected"}
            THEN "conversation_waiting" ELSE @]

\* Mutant: a mute leaves a recording of the session running.
MuteCancels_Nothing(s) == FALSE

MuteCancels(s) == settings.micMuted /\ RecordingOf(s)

SettingsWritten(c) ==
  /\ call[c].pc = "written" /\ call[c].b.kind = "settings"
  /\ \E me \in {[call[c] EXCEPT !.ref = entry[call[c].b.ses]]} :
       IF MuteCancels(me.b.ses)
       THEN GoesOn(c, me, "cancelling") /\ Cancels(recording.by)
       ELSE Saves(c, me, Restated(St(me)), "over") /\ UNCHANGED handle
  /\ UNCHANGED <<settings, recording, speech, playing, killed, met>>

SettingsCancelled(c) ==
  LET me == call[c] IN
  /\ me.pc = "cancelling" /\ me.b.kind = "settings"
  /\ recording' = None
  /\ Saves(c, me, Restated([St(me) EXCEPT !.recordingState = "idle"]), "over")
  /\ UNCHANGED <<settings, handle, speech, playing, killed, met>>

\* After its recording, a mode that ends stops its speech; then the setting
\* changes and is written.
SetsMode(c, me, st) ==
  /\ IF ~me.b.on /\ SpeechOf(me.b.ses)
     THEN /\ Goes(c, [me EXCEPT !.held = speech], "silencingMode")
          /\ Kill(speech.by) /\ UNCHANGED settings
     ELSE /\ Goes(c, me, "written")
          /\ settings' = [settings EXCEPT !.voiceModeEnabled = me.b.on]
          /\ UNCHANGED killed
  /\ UNCHANGED entry /\ Forget([objs EXCEPT ![me.ref] = st])

UpdateVoiceMode(c) ==
  /\ \E me \in Asked(c, "mode") :
       IF RecordingOf(me.b.ses)
       THEN GoesOn(c, me, "cancelling") /\ Cancels(recording.by) /\ UNCHANGED <<settings, killed>>
       ELSE SetsMode(c, me, St(me)) /\ UNCHANGED handle
  /\ Arrives(c) /\ UNCHANGED <<recording, speech, playing>>

ModeCancelled(c) ==
  /\ call[c].pc = "cancelling" /\ call[c].b.kind = "mode"
  /\ recording' = None
  /\ SetsMode(c, call[c], [St(call[c]) EXCEPT !.recordingState = "idle"])
  /\ UNCHANGED <<handle, speech, playing, met>>

ModeSilenced(c) ==
  LET me == call[c] IN
  /\ me.pc = "silencingMode" /\ Dead(me.held.by)
  /\ speech' = None
  /\ settings' = [settings EXCEPT !.voiceModeEnabled = FALSE]
  /\ Goes(c, [me EXCEPT !.held = None], "written")
  /\ UNCHANGED entry /\ Forget([objs EXCEPT ![me.ref].speakingState = "idle"])
  /\ UNCHANGED <<recording, handle, playing, killed, met>>

ModeWritten(c) ==
  LET me == call[c] IN
  /\ me.pc = "written" /\ me.b.kind = "mode"
  /\ Saves(c, me, [IdleState(me) EXCEPT !.wakeModeEnabled = me.b.on], "over")
  /\ UNCHANGED <<settings, Sound, met>>

-----------------------------------------------------------------------------
(* The conversation mode: windows that wait for the wake word, and turns.  *)

\* A window is not looked at when the mode is off or muted, nor while the
\* session speaks.
SubmitWakeWindow(c) ==
  /\ \E me \in Asked(c, "wake") :
       IF ~settings.voiceModeEnabled \/ settings.micMuted \/ ~St(me).wakeModeEnabled
       THEN Saves(c, me, [St(me) EXCEPT !.wakeModeEnabled = settings.voiceModeEnabled,
              !.voiceModeState = Idle(settings)], "over")
       ELSE IF SpeechOf(me.b.ses)
       THEN Saves(c, me, [St(me) EXCEPT !.voiceModeState = "speaking"], "over")
       ELSE Saves(c, me, [St(me) EXCEPT !.voiceModeState = "wake_listening"], "transcribing")
  /\ Arrives(c) /\ UNCHANGED <<settings, Sound>>

WakeTranscribed(c) ==
  LET me == call[c] IN
  /\ me.pc = "transcribing" /\ me.b.kind = "wake"
  /\ \E heard \in Transcriptions(me.b.audio) :
       \E state \in CASE heard = "text" -> {"wake_detected", "wake_listening"}
                      [] heard = "nothing" -> {"wake_listening"}
                      [] heard = "fails" -> {"error"} :
         Saves(c, me, [St(me) EXCEPT !.voiceModeState = state], "over")
  /\ UNCHANGED <<settings, Sound, met>>

Listening(st) ==
  [st EXCEPT !.voiceModeState = "active_listening", !.recordingState = "recording"]

\* A turn begins: a speech of the session is stopped first.
StartActiveListening(c) ==
  /\ \E me \in Asked(c, "listenStart") :
       IF ~settings.voiceModeEnabled
       THEN GoesOn(c, me, "over") /\ UNCHANGED killed
       ELSE IF settings.micMuted
       THEN Saves(c, me, IdleState(me), "over") /\ UNCHANGED killed
       ELSE IF SpeechOf(me.b.ses)
       THEN GoesOn(c, [me EXCEPT !.held = speech], "hushing") /\ Kill(speech.by)
       ELSE Saves(c, me, Listening(St(me)), "over") /\ UNCHANGED killed
  /\ Arrives(c) /\ UNCHANGED <<settings, recording, handle, speech, playing>>

Listens(c) ==
  LET me == call[c] IN
  /\ me.pc = "listen"
  /\ Saves(c, me, Listening(St(me)), "over")
  /\ UNCHANGED <<settings, Sound, met>>

\* What the client's detector reports of the turn: anything else is ignored.
Reportable == {"conversation_waiting", "active_listening", "speech_detected", "silence_wait",
               "closing_turn", "transcribing", "processing"}

UpdateActiveListeningState(c) ==
  /\ \E me \in Asked(c, "listenState") :
       IF settings.voiceModeEnabled /\ ~settings.micMuted /\ me.b.state \in Reportable
       THEN Saves(c, me, [St(me) EXCEPT !.voiceModeState = me.b.state], "over")
       ELSE GoesOn(c, me, "over")
  /\ Arrives(c) /\ UNCHANGED <<settings, Sound>>

CancelActiveListening(c) ==
  /\ \E me \in Asked(c, "listenCancel") : Saves(c, me, IdleState(me), "over")
  /\ Arrives(c) /\ UNCHANGED <<settings, Sound>>

StopActiveListening(c) ==
  /\ \E me \in Asked(c, "listenStop") :
       IF ~settings.voiceModeEnabled \/ settings.micMuted \/ me.b.audio = "none"
       THEN Saves(c, me, IdleState(me), "over")
       ELSE Saves(c, me, [St(me) EXCEPT !.voiceModeState = "transcribing",
                                        !.recordingState = "transcribing"], "transcribing")
  /\ Arrives(c) /\ UNCHANGED <<settings, Sound>>

TurnFails(c, me) ==
  Saves(c, me, [IdleState(me) EXCEPT !.voiceModeState = "error"], "over")

\* The text goes to the orchestrator.
TurnTranscribed(c) ==
  LET me == call[c] IN
  /\ me.pc = "transcribing" /\ me.b.kind = "listenStop"
  /\ \E heard \in Transcriptions(me.b.audio) :
       \/ heard = "text"
          /\ Saves(c, me, [IdleState(me) EXCEPT !.voiceModeState = "processing"], "chat")
       \/ heard = "nothing" /\ Saves(c, me, IdleState(me), "over")
       \/ heard = "fails" /\ TurnFails(c, me)
  /\ UNCHANGED <<settings, Sound, met>>

\* Its answer comes, and is read when the user wants that.
TurnAnswered(c) ==
  LET me == call[c]
      answered == [St(me) EXCEPT !.voiceModeState =
                     IF settings.autoReadResponses THEN "processing" ELSE Idle(settings)]
  IN
  /\ me.pc = "chat" /\ me.b.kind = "listenStop"
  /\ \/ /\ IF settings.autoReadResponses THEN Goes(c, Reads(me), "speak") ELSE Goes(c, me, "over")
        /\ Persist(me.ref, me.b.ses, answered)
     \/ TurnFails(c, me)
  /\ UNCHANGED <<settings, Sound, met>>

-----------------------------------------------------------------------------
(* Push to talk. *)

StartRecording(c) ==
  /\ \E me \in Asked(c, "recordStart") : GoesOn(c, [me EXCEPT !.ref = NoRef], "record")
  /\ Arrives(c) /\ UNCHANGED <<settings, Sound>>

\* Muted, it throws; one recording at a time; the active speech is stopped.
ChecksRecording(c) ==
  /\ call[c].pc = "record"
  /\ \E me \in {[call[c] EXCEPT !.ref = entry[call[c].b.ses]]} :
       IF settings.micMuted
       THEN Saves(c, me, [St(me) EXCEPT !.voiceModeState = "muted", !.recordingState = "idle"],
                  "over") /\ UNCHANGED killed
       ELSE IF recording # None
       THEN GoesOn(c, me, "over") /\ UNCHANGED killed
       ELSE IF Silences(me.b.ses)
       THEN GoesOn(c, [me EXCEPT !.held = speech], "hushing") /\ Kill(speech.by)
       ELSE GoesOn(c, me, "health") /\ UNCHANGED killed
  /\ UNCHANGED <<settings, recording, handle, speech, playing, met>>

\* The provider is available, or the call throws.
ChecksProvider(c) ==
  /\ call[c].pc = "health"
  /\ \E found \in Found : GoesOn(c, call[c], IF Available(found) THEN "opening" ELSE "over")
  /\ UNCHANGED <<settings, Sound, met>>

\* The provider gives its handle, or fails.
OpensRecording(c) ==
  LET me == call[c] IN
  /\ me.pc = "opening"
  /\ \/ /\ recording' = [by |-> c, ses |-> me.b.ses]
        /\ handle' = [handle EXCEPT ![c] = "open"]
        /\ Saves(c, me, [St(me) EXCEPT !.recordingState = "recording"], "over")
     \/ /\ Saves(c, me, [St(me) EXCEPT !.recordingState = "error"], "over")
        /\ UNCHANGED <<recording, handle>>
  /\ UNCHANGED <<settings, speech, playing, killed, met>>

StopRecording(c) ==
  /\ \E me \in Asked(c, "recordStop") :
       IF RecordingOf(me.b.ses)
       THEN Saves(c, [me EXCEPT !.held = recording],
                  [St(me) EXCEPT !.recordingState = "transcribing"], "stopping")
       ELSE GoesOn(c, me, "over")
  /\ Arrives(c) /\ UNCHANGED <<settings, Sound>>

\* Mutant: a recording that failed stays the active one.
RecordingFails_Stays(c, me) ==
  /\ UNCHANGED recording
  /\ Saves(c, me, [St(me) EXCEPT !.recordingState = "error"], "over")

RecordingFails(c, me) ==
  /\ recording' = None
  /\ Saves(c, me, [St(me) EXCEPT !.recordingState = "error"], "over")

\* The handle is asked for its text: it throws when it was cancelled or was
\* stopped by another call.
StopsHandle(c) ==
  LET me == call[c] IN
  /\ me.pc = "stopping"
  /\ IF Stops(me.held.by)
     THEN /\ handle' = [handle EXCEPT ![me.held.by] = "stopped"]
          /\ GoesOn(c, me, "transcribing") /\ UNCHANGED recording
     ELSE RecordingFails(c, me) /\ UNCHANGED handle
  /\ UNCHANGED <<settings, speech, playing, killed, met>>

\* Whichever recording is active now is no longer.
RecordingTranscribed(c) ==
  LET me == call[c] IN
  /\ me.pc = "transcribing" /\ me.b.kind = "recordStop"
  /\ \E heard \in Transcriptions(me.b.audio) :
       \/ heard = "text" /\ recording' = None /\ GoesOn(c, me, "chat")
       \/ heard # "text" /\ RecordingFails(c, me)
  /\ UNCHANGED <<settings, handle, speech, playing, killed, met>>

RecordingAnswered(c) ==
  LET me == call[c] IN
  /\ me.pc = "chat" /\ me.b.kind = "recordStop"
  /\ \/ /\ IF settings.autoReadResponses THEN Goes(c, Reads(me), "speak") ELSE Goes(c, me, "over")
        /\ Persist(me.ref, me.b.ses, [St(me) EXCEPT !.recordingState = "idle"])
        /\ UNCHANGED recording
     \/ RecordingFails(c, me)
  /\ UNCHANGED <<settings, handle, speech, playing, killed, met>>

CancelRecording(c) ==
  /\ \E me \in Asked(c, "recordCancel") :
       IF RecordingOf(me.b.ses)
       THEN /\ GoesOn(c, [me EXCEPT !.ref = NoRef], "cancelling")
            /\ Cancels(recording.by)
       ELSE GoesOn(c, me, "over") /\ UNCHANGED handle
  /\ Arrives(c) /\ UNCHANGED <<settings, recording, speech, playing, killed>>

RecordingCancelled(c) ==
  LET me == [call[c] EXCEPT !.ref = entry[call[c].b.ses]] IN
  /\ call[c].pc = "cancelling" /\ call[c].b.kind = "recordCancel"
  /\ recording' = None
  /\ Saves(c, me, [St(me) EXCEPT !.recordingState = "idle"], "over")
  /\ UNCHANGED <<settings, handle, speech, playing, killed, met>>

-----------------------------------------------------------------------------
Asks(c) ==
  \/ StopSpeaking(c) \/ Speak(c) \/ AnswersChat(c) \/ UpdateVoiceMode(c)
  \/ SubmitWakeWindow(c) \/ StartActiveListening(c) \/ UpdateActiveListeningState(c)
  \/ CancelActiveListening(c) \/ StopActiveListening(c)
  \/ StartRecording(c) \/ StopRecording(c) \/ CancelRecording(c)

GoesFurther(c) ==
  \/ Hushes(c) \/ ChecksSpeech(c) \/ SilencesOther(c) \/ OtherSilent(c) \/ Voices(c)
  \/ VoicingFails(c) \/ SettingsWritten(c) \/ SettingsCancelled(c) \/ ModeCancelled(c)
  \/ ModeSilenced(c) \/ ModeWritten(c) \/ WakeTranscribed(c) \/ Listens(c)
  \/ TurnTranscribed(c) \/ TurnAnswered(c) \/ ChecksRecording(c) \/ ChecksProvider(c)
  \/ OpensRecording(c) \/ StopsHandle(c) \/ RecordingTranscribed(c) \/ RecordingAnswered(c)
  \/ RecordingCancelled(c)

\* The agent waits for its next call.
Waits == AtWork = {} /\ UNCHANGED vars

Next ==
  \/ \E c \in Calls : UpdateSettings(c)
  \/ UNCHANGED mutedBy /\ \E c \in Calls : Asks(c) \/ PlaybackEnds(c)
  \/ UNCHANGED <<crossed, mutedBy>> /\ \E c \in Calls : GoesFurther(c)
  \/ Waits

Spec == Init /\ [][Next]_vars

-----------------------------------------------------------------------------
\* The settings, the two singletons and every record that is held have the
\* values the code gives them.
TypeOK ==
  /\ settings \in [{"voiceModeEnabled", "micMuted", "autoReadResponses"} -> BOOLEAN]
  /\ entry \in [Sessions -> Refs]
  /\ objs \in [Refs -> [voiceModeState : VoiceModeStates,
       recordingState : {"idle", "recording", "transcribing", "error"},
       speakingState : {"idle", "speaking", "error"}, wakeModeEnabled : BOOLEAN]]
  /\ recording \in {None} \cup [by : Calls, ses : Sessions]
  /\ speech \in {None} \cup [by : Calls, ses : Sessions]
  /\ handle \in [Calls -> {"none", "open", "stopped", "cancelled"}]
  /\ killed \subseteq playing /\ playing \subseteq Calls
  /\ \A s, t \in Sessions : s # t => entry[s] # entry[t]

\* The agent listens and speaks at the same time only when the call that
\* opened the microphone and the call that speaks were at work together: the
\* checks startRecording and speak make are enough for everything else, the
\* ends of playbacks, stops and cancels of other calls included.
ListensOrSpeaks ==
  recording # None /\ speech # None => speech.by \in met[recording.by]

\* A speech that is not the active one any more, and has not been told to
\* die, is heard only when the call that speaks was at work together with
\* another that began or stopped a speech: otherwise one voice is heard at a
\* time and stopSpeaking can silence it.
OneVoice ==
  \A p \in playing \ killed :
    (speech # None /\ speech.by = p) \/ met[p] # {}

\* The coordinator's records are well formed, and there is one recording or one
\* voice at a time as far as its checks reach.
VoiceSound == TypeOK /\ ListensOrSpeaks /\ OneVoice

\* While the microphone is muted no recording is active, but one of another
\* session than the mute was for, one that is being cancelled by it, and one
\* whose start was at work together with the mute.
MuteHolds ==
  settings.micMuted /\ recording # None =>
    /\ mutedBy # None
    /\ \/ mutedBy.by \in AtWork
       \/ mutedBy.ses # recording.ses
       \/ mutedBy.by \in met[recording.by]

\* When no call is at work the active recording is alive: one that was stopped
\* or cancelled never stays behind to refuse every other.
RecordingIsLive ==
  AtWork = {} /\ recording # None => handle[recording.by] = "open"

\* As long as no two calls were at work together, and no speech came to its
\* end beside a call, what a session shows when
\* no call is at work is true: it speaks when it says so, says so when it
\* speaks (or that reading a later answer failed), and no turn is left half way.
ShowsTheTruth ==
  AtWork = {} /\ ~crossed =>
    \A s \in Sessions : \E st \in {objs[entry[s]]} :
      /\ st.speakingState = "speaking" => SpeechOf(s)
      /\ SpeechOf(s) => st.speakingState \in {"speaking", "error"}
      /\ st.recordingState # "transcribing" /\ st.voiceModeState # "transcribing"
      /\ st.voiceModeState = "speaking" => SpeechOf(s)
=============================================================================
