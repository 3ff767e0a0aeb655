----------------------- MODULE VoiceCoordinatorProofs -----------------------
(* Machine-checked proofs about the voice handlers of the local agent, for  *)
(* any number of calls, of any kind and about any sessions, at work at the  *)
(* same time.                                                               *)
EXTENDS VoiceCoordinator, TLAPS, FiniteSetTheorems

-----------------------------------------------------------------------------
(* The records of the coordinator. *)

States ==
  [voiceModeState : VoiceModeStates,
   recordingState : {"idle", "recording", "transcribing", "error"},
   speakingState : {"idle", "speaking", "error"}, wakeModeEnabled : BOOLEAN]
Settings == [{"voiceModeEnabled", "micMuted", "autoReadResponses"} -> BOOLEAN]
Tones == {None} \cup [by : Calls, ses : Sessions]
SomeBody == UNION {Bodies[c] : c \in Calls}

Pcs == {"new", "over", "hushing", "speak", "speakReady", "silencing", "voicing", "written",
        "cancelling", "silencingMode", "transcribing", "listen", "chat", "record", "health",
        "opening", "stopping"}
CallRecords ==
  [pc : Pcs, b : {None} \cup SomeBody, ref : Refs \cup {NoRef}, held : Tones, auto : BOOLEAN]

Busy(q) == q.pc \notin {"new", "over"}

\* Which calls are at a place, and whether they hold a record there.
Hushers == {"hushing", "silencing", "silencingMode"}
Holders == {"speakReady", "silencing", "voicing", "silencingMode", "transcribing", "listen", "chat",
            "health", "opening", "stopping"}

KindsAt(pc) ==
  CASE pc \in {"record", "health", "opening"} -> {"recordStart"}
    [] pc = "stopping" -> {"recordStop"}
    [] pc \in {"speak", "speakReady", "silencing", "voicing"} ->
         {"speak", "chat", "listenStop", "recordStop"}
    [] pc = "hushing" -> {"stopSpeaking", "listenStart", "recordStart"}
    [] pc = "silencingMode" -> {"mode"}
    [] pc = "written" -> {"settings", "mode"}
    [] pc = "cancelling" -> {"settings", "mode", "recordCancel"}
    [] pc = "transcribing" -> {"wake", "listenStop", "recordStop"}
    [] pc = "listen" -> {"listenStart"}
    [] pc = "chat" -> {"listenStop", "recordStop"}

Holds(q) ==
  \/ q.pc \in Holders
  \/ q.pc = "hushing" /\ q.b.kind # "stopSpeaking"
  \/ q.pc = "written" /\ q.b.kind = "mode"
  \/ q.pc = "cancelling" /\ q.b.kind # "recordCancel"

CallOK(q) ==
  /\ q \in CallRecords
  /\ q.pc \in {"new", "over"} => q.ref = NoRef /\ q.b = None
  /\ Busy(q) => q.b # None /\ q.b.kind \in KindsAt(q.pc)
  /\ Holds(q) => q.ref \in Refs
  /\ q.pc \in Hushers \cup {"stopping"} => q.held # None

RecordsOK ==
  /\ TypeOK
  /\ mutedBy \in Tones
  /\ call \in [Calls -> CallRecords]
  /\ \A c \in Calls : CallOK(call[c])
  /\ IsFiniteSet(AtWork) /\ Cardinality(AtWork) <= MaxAtWork

-----------------------------------------------------------------------------
(* Who was at work together with whom. *)

Opening(q) == q.pc \in {"health", "opening"} \/ (q.pc = "hushing" /\ q.b.kind = "recordStart")
Clears(q) == q.pc = "cancelling" \/ (q.pc = "transcribing" /\ q.b.kind = "recordStop")

MetOK ==
  /\ met \in [Calls -> SUBSET Calls]
  /\ \A c \in AtWork : Begins(call[c].b) => AtWork \ {c} \subseteq met[c]
  /\ recording # None => call[recording.by].pc # "new"
  /\ speech # None => call[speech.by].pc # "new" /\ speech.by \in playing
  /\ \A p \in playing : call[p].pc # "new"

\* What the checks of startRecording and speak have seen is still so, but for calls
\* they have met.
SoundOK ==
  /\ ListensOrSpeaks /\ OneVoice
  /\ \A c \in Calls :
       /\ call[c].pc \in {"health", "opening"} /\ speech # None => speech.by \in met[c]
       /\ call[c].pc \in {"speakReady", "silencing", "voicing"} /\ recording # None =>
            c \in met[recording.by]
       /\ call[c].pc = "voicing" /\ speech # None => met[speech.by] # {}
       /\ call[c].pc \in Hushers /\ speech # None => speech = call[c].held \/ met[speech.by] # {}

MutedOK ==
  /\ MuteHolds
  /\ settings.micMuted => \A c \in Calls : Opening(call[c]) => mutedBy # None /\ mutedBy.by \in met[c]
  /\ mutedBy # None =>
       /\ call[mutedBy.by].pc # "new"
       /\ mutedBy.by \in AtWork =>
            call[mutedBy.by].b.kind = "settings" /\ call[mutedBy.by].b.ses = mutedBy.ses

\* A recording that was stopped or cancelled has somebody who forgets it.
LiveOK ==
  recording # None /\ handle[recording.by] # "open" => \E c \in Calls : Clears(call[c])

VoiceInv == RecordsOK /\ MetOK /\ SoundOK /\ MutedOK /\ LiveOK

-----------------------------------------------------------------------------
(* What a step of a call does. *)

Numbered == entry \in [Sessions -> Refs] /\ \A s, t \in Sessions : s # t => entry[s] # entry[t]

\* The call becomes q: it has arrived, or goes on.
Moves(c, q) ==
  /\ CallOK(q) /\ q.pc # "new"
  /\ call' = [call EXCEPT ![c] = q]
  /\ \/ call[c].pc = "new" /\ Cardinality(AtWork) < MaxAtWork /\ Arrives(c)
     \/ Busy(call[c]) /\ met' = met /\ (Busy(q) => q.b = call[c].b)

\* Nothing begins to sound.  Where the checks are passed there is nothing that they
\* refuse, and a speech is forgotten by those who have waited for its end.
Quiet(c, q) ==
  /\ recording' \in {recording, None} /\ speech' \in {speech, None}
  /\ playing' = playing /\ killed \subseteq killed' /\ killed' \subseteq playing
  /\ speech' # speech => call[c].pc \in Hushers /\ call[c].held.by \notin playing
  /\ q.pc \in {"health", "opening"} => call[c].pc \in {"health", "opening"} \/ speech' = None
  /\ q.pc \in {"speakReady", "silencing", "voicing"} =>
       call[c].pc \in {"speakReady", "silencing", "voicing"} \/ recording' = None
  /\ q.pc = "voicing" => speech' = None
  /\ q.pc \in Hushers /\ speech' # None => q.held = speech'

\* The mute is let alone; a call that made it ends only when no recording of its
\* session is left.
Unmuted(c, q) ==
  /\ settings'.micMuted = settings.micMuted /\ mutedBy' = mutedBy
  /\ Opening(q) => Opening(call[c]) \/ ~settings.micMuted
  /\ Busy(call[c]) /\ call[c].b.kind = "settings" /\ q.pc = "over" /\ settings.micMuted
       /\ recording' # None => recording.ses # call[c].b.ses

\* Who stops or cancels a recording goes on to forget it.
Forgets(c, q) ==
  /\ handle' \in [Calls -> {"none", "open", "stopped", "cancelled"}]
  /\ handle' = handle \/ Clears(q)
  /\ Clears(call[c]) => recording' = None \/ Clears(q)

\* The records stay well formed.
Keeps == settings' \in Settings /\ Numbered' /\ objs' \in [Refs -> States]

-----------------------------------------------------------------------------
(* References. *)

LEMMA ConstantsOK ==
  /\ MaxAtWork \in Nat /\ MaxAtWork > 0 /\ IsFiniteSet(Sessions)
  /\ Cardinality(Sessions) \in Nat
  /\ None \notin [by : Calls, ses : Sessions]
  /\ NoRef \notin Refs /\ IsFiniteSet(Refs)
  /\ Cardinality(Refs) = Cardinality(Sessions) + MaxAtWork + 1
<1>1. MaxAtWork \in Nat /\ MaxAtWork > 0 /\ IsFiniteSet(Sessions)
      /\ None \notin [by : Calls, ses : Sessions]
  BY CallsAssumption
<1>2. Cardinality(Sessions) \in Nat
  BY <1>1, FS_CardinalityType
<1>3. Cardinality(Sessions) + MaxAtWork + 1 \in Nat /\ 1 \in Int
  BY <1>1, <1>2
<1>4. IsFiniteSet(Refs) /\ Cardinality(Refs) = Cardinality(Sessions) + MaxAtWork + 1
  BY <1>3, <1>1, <1>2, FS_Interval DEF Refs
<1>5. NoRef \notin Refs
  BY DEF NoRef, Refs
<1> QED BY <1>1, <1>2, <1>4, <1>5

LEMMA HeldFinite ==
  ASSUME RecordsOK
  PROVE  /\ IsFiniteSet(Held)
         /\ Cardinality(Held) <= Cardinality(Sessions) + MaxAtWork
         /\ Cardinality(Held) \in Nat
<1> DEFINE own == {entry[s] : s \in Sessions}
           taken == {call[c].ref : c \in AtWork}
<1>1. IsFiniteSet(own) /\ Cardinality(own) <= Cardinality(Sessions)
  <2> DEFINE f == [s \in Sessions |-> entry[s]]
  <2>1. f \in Surjection(Sessions, own)
    BY DEF Surjection
  <2> HIDE DEF f, own
  <2> QED BY <2>1, ConstantsOK, FS_Surjection
<1>2. IsFiniteSet(taken) /\ Cardinality(taken) <= Cardinality(AtWork)
  <2> DEFINE f == [c \in AtWork |-> call[c].ref]
  <2>1. f \in Surjection(AtWork, taken)
    BY DEF Surjection
  <2> HIDE DEF f, taken
  <2> QED BY <2>1, FS_Surjection DEF RecordsOK
<1>3. Held \subseteq own \cup taken
  <2>1. \A c \in Calls : c \notin AtWork => call[c].ref = NoRef
    BY DEF RecordsOK, CallOK, AtWork
  <2> QED BY <2>1 DEF Held
<1>4. /\ IsFiniteSet(own \cup taken)
      /\ Cardinality(own \cup taken) = Cardinality(own) + Cardinality(taken) - Cardinality(own \cap taken)
      /\ IsFiniteSet(own \cap taken)
  <2>1. IsFiniteSet(own \cap taken)
    BY <1>1, FS_Intersection
  <2> HIDE DEF own, taken
  <2>2. /\ IsFiniteSet(own \cup taken)
        /\ Cardinality(own \cup taken)
             = Cardinality(own) + Cardinality(taken) - Cardinality(own \cap taken)
    BY <1>1, <1>2, FS_Union
  <2> QED BY <2>1, <2>2
<1>5. IsFiniteSet(Held) /\ Cardinality(Held) <= Cardinality(own \cup taken)
  <2> HIDE DEF own, taken
  <2> QED BY <1>3, <1>4, FS_Subset
<1>6. /\ Cardinality(own) \in Nat /\ Cardinality(taken) \in Nat /\ Cardinality(Held) \in Nat
      /\ Cardinality(own \cap taken) \in Nat /\ Cardinality(AtWork) \in Nat
  <2> HIDE DEF own, taken
  <2> QED BY <1>1, <1>2, <1>4, <1>5, FS_CardinalityType DEF RecordsOK
<1>7. Cardinality(AtWork) <= MaxAtWork
  BY DEF RecordsOK
<1> HIDE DEF own, taken
<1> QED BY <1>1, <1>2, <1>4, <1>5, <1>6, <1>7, ConstantsOK

\* Somebody holds fewer records than there are references: one is left.
LEMMA NewRefIsNew == ASSUME RecordsOK PROVE NewRef \in Refs \ Held
<1>1. Refs \ Held # {}
  <2> SUFFICES ASSUME Refs \subseteq Held PROVE FALSE
    OBVIOUS
  <2>1. Cardinality(Refs) <= Cardinality(Held)
    BY HeldFinite, FS_Subset
  <2> QED BY <2>1, HeldFinite, ConstantsOK
<1> QED BY <1>1 DEF NewRef

LEMMA BlankOK ==
  ASSUME NEW set, set.voiceModeEnabled \in BOOLEAN, set.micMuted \in BOOLEAN
  PROVE  NewState(set) \in States /\ Idle(set) \in VoiceModeStates
BY DEF NewState, States, Idle, VoiceModeStates

LEMMA ForgetKeeps ==
  ASSUME NEW content \in [Refs -> States], Forget(content)
  PROVE  objs' \in [Refs -> States]
<1>1. Blank \in States
  BY DEF Blank, NewState, States, Idle, VoiceModeStates
<1> QED BY <1>1 DEF Forget

LEMMA UnchangedKeeps ==
  ASSUME RecordsOK, NEW content \in [Refs -> States], Forget(content), UNCHANGED entry
  PROVE  Numbered' /\ objs' \in [Refs -> States]
BY ForgetKeeps DEF Numbered, RecordsOK, TypeOK

LEMMA PersistKeeps ==
  ASSUME RecordsOK, NEW o, NEW s \in Sessions, NEW st \in States, Persist(o, s, st)
  PROVE  Numbered' /\ objs' \in [Refs -> States]
<1>1. NewRef \in Refs /\ \A t \in Sessions : entry[t] # NewRef
  BY NewRefIsNew DEF Held
<1>2. entry' = [entry EXCEPT ![s] = NewRef]
  BY DEF Persist
<1>3. Forget([objs EXCEPT ![o] = st, ![NewRef] = st])
  BY DEF Persist
<1>4. Numbered'
  BY <1>1, <1>2 DEF RecordsOK, TypeOK, Numbered
<1>5. [objs EXCEPT ![o] = st, ![NewRef] = st] \in [Refs -> States]
  BY DEF RecordsOK, TypeOK, States
<1> QED BY <1>3, <1>4, <1>5, ForgetKeeps

-----------------------------------------------------------------------------
(* The invariant survives a step of a call. *)

LEMMA WorkMoves ==
  ASSUME RecordsOK, NEW c \in Calls, NEW q, Moves(c, q)
  PROVE  /\ call' \in [Calls -> CallRecords]
         /\ \A d \in Calls : CallOK(call'[d])
         /\ call'[c] = q /\ \A d \in Calls \ {c} : call'[d] = call[d]
         /\ AtWork' = IF Busy(q) THEN AtWork \cup {c} ELSE AtWork \ {c}
         /\ IsFiniteSet(AtWork') /\ Cardinality(AtWork') <= MaxAtWork
<1>1. q \in CallRecords /\ CallOK(q)
  BY DEF Moves, CallOK
<1>2. call' \in [Calls -> CallRecords] /\ call'[c] = q /\ \A d \in Calls \ {c} : call'[d] = call[d]
  BY <1>1 DEF Moves, RecordsOK
<1>3. \A d \in Calls : CallOK(call'[d])
  BY <1>1, <1>2 DEF RecordsOK
<1>4. AtWork' = IF Busy(q) THEN AtWork \cup {c} ELSE AtWork \ {c}
  BY <1>2 DEF AtWork, Busy
<1>5. IsFiniteSet(AtWork') /\ Cardinality(AtWork') <= MaxAtWork
  <2>1. IsFiniteSet(AtWork) /\ Cardinality(AtWork) \in Nat /\ Cardinality(AtWork) <= MaxAtWork
    BY FS_CardinalityType DEF RecordsOK
  <2>2. CASE c \in AtWork
    <3>1. AtWork' \subseteq AtWork
      BY <1>4, <2>2
    <3>2. IsFiniteSet(AtWork') /\ Cardinality(AtWork') <= Cardinality(AtWork)
      BY <3>1, <2>1, FS_Subset
    <3>3. Cardinality(AtWork') \in Nat
      BY <3>2, FS_CardinalityType
    <3> QED BY <3>2, <3>3, <2>1, ConstantsOK
  <2>3. CASE c \notin AtWork
    <3>1. Cardinality(AtWork) < MaxAtWork
      BY <2>3 DEF Moves, AtWork, Busy
    <3>2. AtWork' \subseteq AtWork \cup {c}
      BY <1>4
    <3>3. IsFiniteSet(AtWork \cup {c}) /\ Cardinality(AtWork \cup {c}) = Cardinality(AtWork) + 1
      BY <2>1, <2>3, FS_AddElement
    <3>4. IsFiniteSet(AtWork') /\ Cardinality(AtWork') <= Cardinality(AtWork \cup {c})
      BY <3>2, <3>3, FS_Subset
    <3>5. Cardinality(AtWork') \in Nat
      BY <3>4, FS_CardinalityType
    <3> QED BY <3>1, <3>3, <3>4, <3>5, <2>1, ConstantsOK
  <2> QED BY <2>2, <2>3
<1> QED BY <1>2, <1>3, <1>4, <1>5

LEMMA RecordsStay ==
  ASSUME RecordsOK, NEW c \in Calls, NEW q, Moves(c, q), Keeps,
         recording' \in Tones, speech' \in Tones, mutedBy' \in Tones,
         handle' \in [Calls -> {"none", "open", "stopped", "cancelled"}],
         killed' \subseteq playing', playing' \subseteq Calls
  PROVE  RecordsOK'
<1>1. TypeOK'
  BY DEF Keeps, Numbered, TypeOK, States, Settings, Tones
<1> QED BY <1>1, WorkMoves DEF RecordsOK

\* Whom a call has met it has met for good.
LEMMA MetGrows ==
  ASSUME RecordsOK, MetOK, NEW c \in Calls, NEW q, Moves(c, q)
  PROVE  /\ met' \in [Calls -> SUBSET Calls]
         /\ \A d \in Calls : call[d].pc # "new" => met[d] \subseteq met'[d]
         /\ \A d \in AtWork' : Begins(call'[d].b) => AtWork' \ {d} \subseteq met'[d]
         /\ \A d \in Calls : call[d].pc # "new" => call'[d].pc # "new"
<1>1. call'[c] = q /\ q.pc # "new" /\ \A d \in Calls \ {c} : call'[d] = call[d]
  BY WorkMoves DEF Moves
<1>2. AtWork' = IF Busy(q) THEN AtWork \cup {c} ELSE AtWork \ {c}
  BY WorkMoves
<1>3. AtWork \subseteq Calls
  BY DEF AtWork
<1>4. CASE call[c].pc = "new" /\ Arrives(c)
  <2>1. met' = [d \in Calls |-> IF ~Begins(call'[d].b) THEN met[d]
                                ELSE IF d = c THEN AtWork ELSE met[d] \cup {c}]
    BY <1>4 DEF Arrives
  <2>2. met' \in [Calls -> SUBSET Calls]
    BY <2>1, <1>3 DEF MetOK
  <2>3. \A d \in Calls : call[d].pc # "new" => met[d] \subseteq met'[d]
    BY <2>1, <1>4
  <2>4. ASSUME NEW d \in AtWork', Begins(call'[d].b) PROVE AtWork' \ {d} \subseteq met'[d]
    <3>1. CASE d = c
      BY <3>1, <2>1, <2>4, <1>2
    <3>2. CASE d # c
      <4>1. d \in AtWork /\ d \in Calls /\ call'[d] = call[d]
        BY <3>2, <1>1, <1>2, <1>3
      <4>2. AtWork \ {d} \subseteq met[d]
        BY <4>1, <2>4 DEF MetOK
      <4>3. met'[d] = met[d] \cup {c}
        BY <2>1, <2>4, <3>2, <4>1
      <4> QED BY <4>2, <4>3, <1>2
    <3> QED BY <3>1, <3>2
  <2> QED BY <2>2, <2>3, <2>4, <1>1
<1>5. CASE Busy(call[c]) /\ met' = met /\ (Busy(q) => q.b = call[c].b)
  <2>1. c \in AtWork /\ AtWork' \subseteq AtWork
    BY <1>5, <1>2 DEF AtWork, Busy
  <2>2. ASSUME NEW d \in AtWork', Begins(call'[d].b) PROVE AtWork' \ {d} \subseteq met'[d]
    <3>1. d \in AtWork
      BY <2>1
    <3>2. call'[d].b = call[d].b
      <4>1. CASE d = c
        <5>1. Busy(q)
          BY <4>1, <1>2
        <5> QED BY <5>1, <4>1, <1>1, <1>5
      <4>2. CASE d # c
        BY <4>2, <1>1, <1>3, <3>1
      <4> QED BY <4>1, <4>2
    <3> QED BY <3>1, <3>2, <2>1, <2>2, <1>5 DEF MetOK
  <2> QED BY <2>2, <1>1, <1>5 DEF MetOK
<1> QED BY <1>4, <1>5 DEF Moves

LEMMA MetStays ==
  ASSUME RecordsOK, MetOK, NEW c \in Calls, NEW q, Moves(c, q), recording' \in Tones, speech' \in Tones,
         recording' \in {recording, None} \/ recording'.by = c,
         speech' \in {speech, None} \/ speech'.by = c,
         speech' # None => speech'.by \in playing', playing' \subseteq playing \cup {c}
  PROVE  MetOK'
<1>1. call'[c].pc # "new"
  BY WorkMoves DEF Moves
<1>2. \A t \in Tones : t # None => t.by \in Calls
  BY DEF Tones
<1>3. /\ recording' # None => call'[recording'.by].pc # "new"
      /\ speech' # None => call'[speech'.by].pc # "new"
      /\ \A p \in playing' : call'[p].pc # "new"
  BY <1>1, <1>2, MetGrows DEF MetOK, RecordsOK, TypeOK, Tones
<1> QED BY <1>3, MetGrows DEF MetOK

LEMMA SoundStays ==
  ASSUME RecordsOK, MetOK, SoundOK, NEW c \in Calls, NEW q, Moves(c, q), Quiet(c, q)
  PROVE  SoundOK'
<1>1. call'[c] = q /\ \A d \in Calls \ {c} : call'[d] = call[d]
  BY WorkMoves
<1>2. \A d \in Calls : call[d].pc # "new" => met[d] \subseteq met'[d]
  BY MetGrows
<1>3. /\ recording # None => recording.by \in Calls /\ met[recording.by] \subseteq met'[recording.by]
      /\ speech # None => speech.by \in Calls /\ met[speech.by] \subseteq met'[speech.by]
      /\ \A p \in playing : p \in Calls /\ met[p] \subseteq met'[p]
  BY <1>2 DEF MetOK, RecordsOK, TypeOK
<1>4. recording' # None => recording' = recording
  BY DEF Quiet
<1>5. speech' # None => speech' = speech
  BY DEF Quiet
<1>6. ListensOrSpeaks'
  BY <1>3, <1>4, <1>5 DEF SoundOK, ListensOrSpeaks
<1>7. OneVoice'
  <2> SUFFICES ASSUME NEW p \in playing', p \notin killed'
               PROVE  (speech' # None /\ speech'.by = p) \/ met'[p] # {}
    BY DEF OneVoice
  <2>1. p \in playing /\ p \notin killed
    BY DEF Quiet
  <2>2. met[p] # {} => met'[p] # {}
    BY <1>3, <2>1
  <2>3. (speech # None /\ speech.by = p) \/ met[p] # {}
    BY <2>1 DEF SoundOK, OneVoice
  <2>4. CASE speech # None /\ speech.by = p /\ speech' # speech
    <3>1. call[c].pc \in Hushers /\ call[c].held.by \notin playing
      BY <2>4 DEF Quiet
    <3>2. speech = call[c].held \/ met[p] # {}
      BY <3>1, <2>4 DEF SoundOK
    <3> QED BY <3>1, <3>2, <2>1, <2>2, <2>4
  <2> QED BY <2>2, <2>3, <2>4
<1>8. ASSUME NEW d \in Calls
      PROVE  /\ call'[d].pc \in {"health", "opening"} /\ speech' # None => speech'.by \in met'[d]
             /\ call'[d].pc \in {"speakReady", "silencing", "voicing"} /\ recording' # None =>
                  d \in met'[recording'.by]
             /\ call'[d].pc = "voicing" /\ speech' # None => met'[speech'.by] # {}
             /\ call'[d].pc \in Hushers /\ speech' # None =>
                  speech' = call'[d].held \/ met'[speech'.by] # {}
  <2>1. call[d].pc # "new" => met[d] \subseteq met'[d]
    BY <1>2
  <2>2. /\ call[d].pc \in {"health", "opening"} /\ speech # None => speech.by \in met[d]
        /\ call[d].pc \in {"speakReady", "silencing", "voicing"} /\ recording # None =>
             d \in met[recording.by]
        /\ call[d].pc = "voicing" /\ speech # None => met[speech.by] # {}
        /\ call[d].pc \in Hushers /\ speech # None =>
             speech = call[d].held \/ met[speech.by] # {}
    BY DEF SoundOK
  <2>3. CASE d # c
    <3>1. call'[d] = call[d]
      BY <2>3, <1>1
    <3> QED BY <3>1, <2>1, <2>2, <1>3, <1>4, <1>5 DEF Hushers
  <2>4. CASE d = c
    <3>1. call'[d] = q
      BY <2>4, <1>1
    <3>2. /\ q.pc \in {"health", "opening"} => call[d].pc \in {"health", "opening"} \/ speech' = None
          /\ q.pc \in {"speakReady", "silencing", "voicing"} =>
               call[d].pc \in {"speakReady", "silencing", "voicing"} \/ recording' = None
          /\ q.pc = "voicing" => speech' = None
          /\ q.pc \in Hushers /\ speech' # None => q.held = speech'
      BY <2>4 DEF Quiet
    <3> QED BY <3>1, <3>2, <2>1, <2>2, <1>3, <1>4, <1>5
  <2> QED BY <2>3, <2>4
<1> QED BY <1>6, <1>7, <1>8 DEF SoundOK

LEMMA MutedStays ==
  ASSUME RecordsOK, MetOK, MutedOK, NEW c \in Calls, NEW q, Moves(c, q), Unmuted(c, q),
         recording' \in {recording, None}
  PROVE  MutedOK'
<1>1. call'[c] = q /\ q.pc # "new" /\ \A d \in Calls \ {c} : call'[d] = call[d]
  BY WorkMoves DEF Moves
<1>2. AtWork' = IF Busy(q) THEN AtWork \cup {c} ELSE AtWork \ {c}
  BY WorkMoves
<1>3. \A d \in Calls : call[d].pc # "new" => met[d] \subseteq met'[d]
  BY MetGrows
<1>4. mutedBy' = mutedBy /\ settings'.micMuted = settings.micMuted /\ (mutedBy # None => mutedBy.by \in Calls)
  BY DEF Unmuted, RecordsOK, Tones
<1>5. recording' # None =>
        recording' = recording /\ recording.by \in Calls /\ met[recording.by] \subseteq met'[recording.by]
  BY <1>3 DEF MetOK, RecordsOK, TypeOK
<1>6. ASSUME NEW d \in Calls, settings.micMuted, Opening(call'[d])
      PROVE  mutedBy # None /\ mutedBy.by \in met'[d]
  <2>1. Opening(call[d])
    BY <1>1, <1>6 DEF Unmuted
  <2>2. call[d].pc # "new"
    BY <2>1 DEF Opening
  <2> QED BY <2>1, <2>2, <1>3, <1>6 DEF MutedOK
<1>7. ASSUME mutedBy # None
      PROVE  /\ call'[mutedBy.by].pc # "new"
             /\ mutedBy.by \in AtWork' =>
                  call'[mutedBy.by].b.kind = "settings" /\ call'[mutedBy.by].b.ses = mutedBy.ses
  <2>1. /\ mutedBy.by \in Calls /\ call[mutedBy.by].pc # "new"
        /\ mutedBy.by \in AtWork =>
             call[mutedBy.by].b.kind = "settings" /\ call[mutedBy.by].b.ses = mutedBy.ses
    BY <1>4, <1>7 DEF MutedOK
  <2>2. CASE mutedBy.by = c
    <3>1. Busy(q) => q.b = call[c].b /\ c \in AtWork
      BY <2>1, <2>2 DEF Moves, AtWork, Busy
    <3> QED BY <3>1, <2>1, <2>2, <1>1, <1>2
  <2>3. CASE mutedBy.by # c
    BY <2>1, <2>3, <1>1, <1>2
  <2> QED BY <2>2, <2>3
<1>8. MuteHolds'
  <2> SUFFICES ASSUME settings.micMuted, recording' # None
               PROVE  /\ mutedBy # None
                      /\ \/ mutedBy.by \in AtWork'
                         \/ mutedBy.ses # recording'.ses
                         \/ mutedBy.by \in met'[recording'.by]
    BY <1>4 DEF MuteHolds
  <2>1. /\ mutedBy # None
        /\ \/ mutedBy.by \in AtWork
           \/ mutedBy.ses # recording.ses
           \/ mutedBy.by \in met[recording.by]
    BY <1>5 DEF MutedOK, MuteHolds
  <2>2. CASE mutedBy.by \in AtWork /\ mutedBy.by \notin AtWork'
    <3>1. mutedBy.by = c /\ ~Busy(q) /\ c \in AtWork
      BY <2>2, <1>2
    <3>2. call[c].b.kind = "settings" /\ call[c].b.ses = mutedBy.ses /\ Busy(call[c]) /\ q.pc = "over"
      BY <3>1, <2>1, <1>1 DEF MutedOK, AtWork, Busy
    <3>3. recording.ses # mutedBy.ses
      BY <3>2 DEF Unmuted
    <3> QED BY <3>3, <2>1, <1>5
  <2> QED BY <2>1, <2>2, <1>5
<1> QED BY <1>4, <1>6, <1>7, <1>8 DEF MutedOK

LEMMA LiveStays ==
  ASSUME RecordsOK, LiveOK, NEW c \in Calls, NEW q, Moves(c, q), Forgets(c, q),
         recording' \in {recording, None}
  PROVE  LiveOK'
<1>1. call'[c] = q /\ \A d \in Calls \ {c} : call'[d] = call[d]
  BY WorkMoves
<1>2. CASE Clears(q)
  BY <1>1, <1>2 DEF LiveOK
<1>3. CASE ~Clears(q)
  <2> SUFFICES ASSUME recording' # None, handle'[recording'.by] # "open"
               PROVE  \E d \in Calls : Clears(call'[d])
    BY DEF LiveOK
  <2>1. recording' = recording /\ handle' = handle /\ ~Clears(call[c])
    BY <1>3 DEF Forgets
  <2>2. PICK d \in Calls : Clears(call[d])
    BY <2>1 DEF LiveOK
  <2>3. call'[d] = call[d]
    BY <2>1, <2>2, <1>1
  <2> QED BY <2>2, <2>3
<1> QED BY <1>2, <1>3

\* A step at which nothing begins to sound.
LEMMA QuietKeeps ==
  ASSUME VoiceInv, NEW c \in Calls, NEW q,
         Moves(c, q), Keeps, Quiet(c, q), Forgets(c, q), mutedBy' \in Tones
  PROVE  RecordsOK' /\ MetOK' /\ SoundOK' /\ LiveOK'
<1>1. RecordsOK'
  <2>1. /\ recording' \in Tones /\ speech' \in Tones
        /\ killed' \subseteq playing' /\ playing' \subseteq Calls
    BY DEF Quiet, VoiceInv, RecordsOK, TypeOK, Tones
  <2> QED BY <2>1, RecordsStay DEF VoiceInv, Forgets
<1>2. MetOK'
  <2>1. /\ recording' \in Tones /\ speech' \in Tones
        /\ recording' \in {recording, None} /\ speech' \in {speech, None} /\ playing' \subseteq playing \cup {c}
        /\ speech' # None => speech'.by \in playing'
    BY DEF Quiet, VoiceInv, RecordsOK, TypeOK, Tones, MetOK
  <2> QED BY <2>1, MetStays DEF VoiceInv
<1> QED BY <1>1, <1>2, SoundStays, LiveStays DEF VoiceInv, Quiet

LEMMA QuietStays ==
  ASSUME VoiceInv, NEW c \in Calls, NEW q,
         Moves(c, q), Keeps, Quiet(c, q), Unmuted(c, q), Forgets(c, q)
  PROVE  VoiceInv'
<1>1. mutedBy' \in Tones
  BY DEF Unmuted, VoiceInv, RecordsOK
<1>2. MutedOK'
  BY MutedStays DEF VoiceInv, Quiet
<1> QED BY <1>1, <1>2, QuietKeeps DEF VoiceInv

-----------------------------------------------------------------------------
(* How a call arrives, goes on and saves. *)

LEMMA StatesOK ==
  ASSUME RecordsOK
  PROVE  /\ \A r \in Refs : objs[r] \in States
         /\ \A s \in Sessions : entry[s] \in Refs /\ objs[entry[s]] \in States
         /\ settings \in Settings /\ Idle(settings) \in VoiceModeStates
         /\ \A st \in States : [st EXCEPT !.recordingState = "idle", !.voiceModeState = Idle(settings)] \in States
<1>1. settings \in Settings
  BY DEF RecordsOK, TypeOK, Settings
<1>2. Idle(settings) \in VoiceModeStates
  BY <1>1 DEF Settings, Idle, VoiceModeStates
<1>3. /\ \A r \in Refs : objs[r] \in States
      /\ \A s \in Sessions : entry[s] \in Refs /\ objs[entry[s]] \in States
  BY DEF RecordsOK, TypeOK, States
<1> QED BY <1>1, <1>2, <1>3 DEF States

LEMMA AskedOK ==
  ASSUME VoiceInv, NEW c \in Calls, NEW kind, NEW me \in Asked(c, kind)
  PROVE  /\ me \in CallRecords /\ me.pc = "new" /\ me.held = None /\ me.auto = FALSE
         /\ me.b \in Bodies[c] /\ me.b # None /\ me.b.kind = kind /\ me.b.ses \in Sessions
         /\ me.ref = entry[me.b.ses] /\ me.ref \in Refs
         /\ call[c].pc = "new" /\ Cardinality(AtWork) < MaxAtWork
<1>1. call[c].pc = "new" /\ Cardinality(AtWork) < MaxAtWork
  BY DEF Asked
<1>2. PICK b \in {d \in Bodies[c] : d.kind = kind} : me = [Unasked EXCEPT !.b = b, !.ref = entry[b.ses]]
  BY <1>1 DEF Asked
<1>3. b \in SomeBody /\ b # None /\ b.ses \in Sessions
  BY CallsAssumption DEF SomeBody
<1>4. entry[b.ses] \in Refs
  BY <1>3, StatesOK DEF VoiceInv
<1>5. me = [pc |-> "new", b |-> b, ref |-> entry[b.ses], held |-> None, auto |-> FALSE]
  BY <1>2 DEF Unasked
<1>6. me \in CallRecords
  BY <1>3, <1>4, <1>5 DEF CallRecords, Pcs, Tones
<1>7. b \in Bodies[c] /\ b.kind = kind
  OBVIOUS
<1>8. me.pc = "new" /\ me.b = b /\ me.ref = entry[b.ses] /\ me.held = None /\ me.auto = FALSE
  BY <1>5
<1> QED BY <1>1, <1>3, <1>4, <1>6, <1>7, <1>8

\* The record a call leaves.
Left(me, pc) == IF pc = "over" THEN Over ELSE [me EXCEPT !.pc = pc]

\* A call may be left at a place in this record.
MayBeAt(me, pc) ==
  /\ pc \in Pcs \ {"new", "over"} => me.b # None /\ me.b.kind \in KindsAt(pc)
  /\ pc \in Holders => me.ref \in Refs
  /\ pc = "hushing" /\ me.b.kind # "stopSpeaking" => me.ref \in Refs
  /\ pc = "written" /\ me.b.kind = "mode" => me.ref \in Refs
  /\ pc = "cancelling" /\ me.b.kind # "recordCancel" => me.ref \in Refs
  /\ pc \in Hushers \cup {"stopping"} => me.held # None

LEMMA LeftOK ==
  ASSUME NEW me \in CallRecords, NEW pc \in Pcs \ {"new"}, MayBeAt(me, pc)
  PROVE  /\ CallOK(Left(me, pc)) /\ Left(me, pc).pc = pc
         /\ pc # "over" => Left(me, pc).b = me.b /\ Left(me, pc).held = me.held
<1>1. CASE pc = "over"
  <2>1. Left(me, pc) = [pc |-> "over", b |-> None, ref |-> NoRef, held |-> None, auto |-> FALSE]
    BY <1>1 DEF Left, Over, Unasked
  <2>2. Left(me, pc) \in CallRecords
    BY <2>1 DEF CallRecords, Pcs, Tones
  <2> QED BY <1>1, <2>1, <2>2 DEF CallOK, Busy, Holds, Holders, Hushers
<1>2. CASE pc # "over"
  <2>1. Left(me, pc) = [me EXCEPT !.pc = pc]
    BY <1>2 DEF Left
  <2>2. /\ Left(me, pc) \in CallRecords /\ Left(me, pc).pc = pc /\ Left(me, pc).b = me.b
        /\ Left(me, pc).ref = me.ref /\ Left(me, pc).held = me.held
    BY <2>1 DEF CallRecords
  <2> HIDE DEF Left
  <2>3. Holds(Left(me, pc)) => me.ref \in Refs
    BY <2>2 DEF MayBeAt, Holds
  <2> QED BY <1>2, <2>2, <2>3 DEF CallOK, Busy, MayBeAt
<1> QED BY <1>1, <1>2

LEMMA AsksQuietly ==
  ASSUME VoiceInv, NEW c \in Calls, NEW kind, NEW me \in Asked(c, kind), Arrives(c),
         NEW m \in CallRecords, m.b = me.b,
         NEW pc \in {"over", "hushing", "speak", "cancelling", "silencingMode", "written", "transcribing",
                     "record", "stopping"},
         Goes(c, m, pc), MayBeAt(m, pc),
         pc \in {"hushing", "silencingMode"} => m.held = speech /\ kind # "recordStart",
         Keeps, UNCHANGED <<recording, speech, playing, mutedBy>>,
         settings'.micMuted = settings.micMuted,
         killed' = killed \/ (speech # None /\ Kill(speech.by)),
         handle' = handle \/ (pc = "cancelling" /\ recording # None /\ Cancels(recording.by))
  PROVE  VoiceInv'
<1> DEFINE q == Left(m, pc)
<1>1. call[c].pc = "new" /\ Cardinality(AtWork) < MaxAtWork /\ me.b.kind = kind
  BY AskedOK
<1>2. pc \in Pcs \ {"new"}
  BY DEF Pcs
<1>3. CallOK(q) /\ q.pc = pc /\ (pc # "over" => q.b = m.b /\ q.held = m.held)
  BY <1>2, LeftOK
<1>4. call' = [call EXCEPT ![c] = q]
  BY DEF Goes, Left
<1> HIDE DEF q
<1>5. Moves(c, q)
  BY <1>1, <1>2, <1>3, <1>4 DEF Moves
<1>6. Quiet(c, q)
  <2>1. killed \subseteq killed' /\ killed' \subseteq playing
    BY DEF Kill, VoiceInv, MetOK, RecordsOK, TypeOK
  <2> QED BY <2>1, <1>3, <1>1 DEF Quiet, Hushers
<1>7. Unmuted(c, q)
  <2>1. ~Opening(q)
    BY <1>1, <1>3 DEF Opening
  <2> QED BY <2>1, <1>1 DEF Unmuted, Busy
<1>8. Forgets(c, q)
  <2>1. handle \in [Calls -> {"none", "open", "stopped", "cancelled"}]
    BY DEF VoiceInv, RecordsOK, TypeOK
  <2>2. handle' \in [Calls -> {"none", "open", "stopped", "cancelled"}]
    BY <2>1 DEF Cancels
  <2> QED BY <2>2, <1>1, <1>3 DEF Forgets, Clears
<1> QED BY <1>5, <1>6, <1>7, <1>8, QuietStays

LEMMA GoesQuietly ==
  ASSUME VoiceInv, NEW c \in Calls, Busy(call[c]), UNCHANGED met,
         NEW m \in CallRecords, m.b = call[c].b, NEW pc \in Pcs \ {"new"},
         Goes(c, m, pc), MayBeAt(m, pc), Keeps,
         Quiet(c, Left(m, pc)), Unmuted(c, Left(m, pc)), Forgets(c, Left(m, pc))
  PROVE  VoiceInv'
<1> DEFINE q == Left(m, pc)
<1>1. CallOK(q) /\ q.pc = pc /\ (pc # "over" => q.b = m.b /\ q.held = m.held)
  BY LeftOK
<1>2. call' = [call EXCEPT ![c] = q]
  BY DEF Goes, Left
<1>3. Moves(c, q)
  <2> HIDE DEF q
  <2> QED BY <1>1, <1>2 DEF Moves, Busy
<1> QED BY <1>3, QuietStays

LEMMA AsksAndSaves ==
  ASSUME VoiceInv, NEW c \in Calls, NEW kind, NEW me \in Asked(c, kind), Arrives(c),
         NEW m \in CallRecords, m.b = me.b, NEW st \in States,
         NEW pc \in {"over", "transcribing", "stopping"},
         Saves(c, m, st, pc), MayBeAt(m, pc), UNCHANGED <<settings, Sound, mutedBy>>
  PROVE  VoiceInv'
<1>1. m.b.ses \in Sessions
  <2>1. me.b.ses \in Sessions
    BY AskedOK
  <2> QED BY <2>1
<1>2. Goes(c, m, pc) /\ Persist(m.ref, m.b.ses, st)
  BY DEF Saves
<1>3. Keeps
  BY <1>1, <1>2, PersistKeeps, StatesOK DEF VoiceInv, Keeps
<1> QED BY <1>2, <1>3, AsksQuietly DEF Sound

LEMMA AsksAndGoes ==
  ASSUME VoiceInv, NEW c \in Calls, NEW kind, NEW me \in Asked(c, kind), Arrives(c),
         NEW m \in CallRecords, m.b = me.b,
         NEW pc \in {"over", "hushing", "speak", "cancelling", "record"},
         GoesOn(c, m, pc), MayBeAt(m, pc),
         pc = "hushing" => m.held = speech /\ kind # "recordStart",
         UNCHANGED <<settings, recording, speech, playing, mutedBy>>,
         killed' = killed \/ (speech # None /\ Kill(speech.by)),
         handle' = handle \/ (pc = "cancelling" /\ recording # None /\ Cancels(recording.by))
  PROVE  VoiceInv'
<1>1. Goes(c, m, pc) /\ UNCHANGED entry /\ Forget(objs)
  BY DEF GoesOn
<1>2. Keeps
  BY <1>1, UnchangedKeeps, StatesOK DEF VoiceInv, Keeps, RecordsOK, TypeOK, States
<1> QED BY <1>1, <1>2, AsksQuietly

LEMMA StopSpeakingStays ==
  ASSUME VoiceInv, NEW c \in Calls, StopSpeaking(c), UNCHANGED mutedBy
  PROVE  VoiceInv'
<1>1. PICK me \in Asked(c, "stopSpeaking") :
        IF SpeechOf(me.b.ses)
        THEN /\ GoesOn(c, [me EXCEPT !.held = speech, !.ref = NoRef], "hushing")
             /\ Kill(speech.by)
        ELSE GoesOn(c, me, "over") /\ UNCHANGED killed
  BY DEF StopSpeaking
<1>2. Arrives(c) /\ UNCHANGED <<settings, recording, handle, speech, playing>>
  BY DEF StopSpeaking
<1>3. me \in CallRecords /\ me.b.kind = "stopSpeaking" /\ me.b # None
  <2>1. me \in CallRecords
    BY AskedOK
  <2>2. me.b.kind = "stopSpeaking"
    BY AskedOK
  <2>3. me.b # None
    <3>1. me.b \in Bodies[c]
      BY AskedOK
    <3> QED BY <3>1, CallsAssumption
  <2> QED BY <2>1, <2>2, <2>3
<1>4. CASE SpeechOf(me.b.ses)
  <2> DEFINE m == [me EXCEPT !.held = speech, !.ref = NoRef]
  <2>1. m \in CallRecords /\ m.b = me.b /\ m.held = speech /\ speech # None
    BY <1>3, <1>4 DEF CallRecords, VoiceInv, RecordsOK, TypeOK, Tones, SpeechOf
  <2>2. GoesOn(c, m, "hushing") /\ Kill(speech.by)
    BY <1>1, <1>4
  <2> HIDE DEF m
  <2>3. MayBeAt(m, "hushing")
    BY <2>1, <1>3 DEF MayBeAt, KindsAt, Holders
  <2> QED BY <2>1, <2>2, <2>3, <1>2, AsksAndGoes
<1>5. CASE ~SpeechOf(me.b.ses)
  <2>1. MayBeAt(me, "over")
    BY DEF MayBeAt, Holders, Hushers
  <2> QED BY <2>1, <1>1, <1>2, <1>3, <1>5, AsksAndGoes
<1> QED BY <1>4, <1>5

LEMMA SpeakStays ==
  ASSUME VoiceInv, NEW c \in Calls, Speak(c), UNCHANGED mutedBy
  PROVE  VoiceInv'
<1>1. PICK me \in Asked(c, "speak") : GoesOn(c, [me EXCEPT !.ref = NoRef], "speak")
  BY DEF Speak
<1>2. Arrives(c) /\ UNCHANGED <<settings, Sound>>
  BY DEF Speak
<1>3. me \in CallRecords /\ me.b.kind = "speak" /\ me.b # None
  <2>1. me \in CallRecords
    BY AskedOK
  <2>2. me.b.kind = "speak"
    BY AskedOK
  <2>3. me.b # None
    <3>1. me.b \in Bodies[c]
      BY AskedOK
    <3> QED BY <3>1, CallsAssumption
  <2> QED BY <2>1, <2>2, <2>3
<1> DEFINE m == [me EXCEPT !.ref = NoRef]
<1>4. m \in CallRecords /\ m.b = me.b
  BY <1>3 DEF CallRecords
<1>5. GoesOn(c, m, "speak")
  BY <1>1
<1> HIDE DEF m
<1>6. MayBeAt(m, "speak")
  BY <1>3, <1>4 DEF MayBeAt, KindsAt, Holders, Hushers
<1> QED BY <1>2, <1>4, <1>5, <1>6, AsksAndGoes DEF Sound

LEMMA AnswersChatStays ==
  ASSUME VoiceInv, NEW c \in Calls, AnswersChat(c), UNCHANGED mutedBy
  PROVE  VoiceInv'
<1>1. PICK me \in Asked(c, "chat") : GoesOn(c, Reads(me), "speak")
  BY DEF AnswersChat
<1>2. Arrives(c) /\ UNCHANGED <<settings, Sound>>
  BY DEF AnswersChat
<1>3. me \in CallRecords /\ me.b.kind = "chat" /\ me.b # None
  <2>1. me \in CallRecords
    BY AskedOK
  <2>2. me.b.kind = "chat"
    BY AskedOK
  <2>3. me.b # None
    <3>1. me.b \in Bodies[c]
      BY AskedOK
    <3> QED BY <3>1, CallsAssumption
  <2> QED BY <2>1, <2>2, <2>3
<1>4. Reads(me) \in CallRecords /\ Reads(me).b = me.b
  BY <1>3 DEF CallRecords, Reads
<1>5. MayBeAt(Reads(me), "speak")
  BY <1>3, <1>4 DEF MayBeAt, KindsAt, Holders, Hushers
<1> QED BY <1>1, <1>2, <1>4, <1>5, AsksAndGoes DEF Sound

LEMMA SubmitWakeWindowStays ==
  ASSUME VoiceInv, NEW c \in Calls, SubmitWakeWindow(c), UNCHANGED mutedBy
  PROVE  VoiceInv'
<1>1. PICK me \in Asked(c, "wake") :
        \/ Saves(c, me, [St(me) EXCEPT !.wakeModeEnabled = settings.voiceModeEnabled,
                                       !.voiceModeState = Idle(settings)], "over")
        \/ Saves(c, me, [St(me) EXCEPT !.voiceModeState = "speaking"], "over")
        \/ Saves(c, me, [St(me) EXCEPT !.voiceModeState = "wake_listening"], "transcribing")
  BY DEF SubmitWakeWindow
<1>2. Arrives(c) /\ UNCHANGED <<settings, Sound>>
  BY DEF SubmitWakeWindow
<1>3. me \in CallRecords /\ me.b.kind = "wake" /\ me.b # None /\ me.ref \in Refs
  <2>1. me \in CallRecords
    BY AskedOK
  <2>2. me.b.kind = "wake"
    BY AskedOK
  <2>3. me.b # None
    <3>1. me.b \in Bodies[c]
      BY AskedOK
    <3> QED BY <3>1, CallsAssumption
  <2>4. me.ref \in Refs
    BY AskedOK
  <2> QED BY <2>1, <2>2, <2>3, <2>4
<1>4. St(me) \in States /\ settings \in Settings /\ Idle(settings) \in VoiceModeStates
  BY <1>3, StatesOK DEF VoiceInv, St
<1>5. /\ [St(me) EXCEPT !.wakeModeEnabled = settings.voiceModeEnabled,
                        !.voiceModeState = Idle(settings)] \in States
      /\ [St(me) EXCEPT !.voiceModeState = "speaking"] \in States
      /\ [St(me) EXCEPT !.voiceModeState = "wake_listening"] \in States
  BY <1>4 DEF States, Settings, VoiceModeStates
<1>6. MayBeAt(me, "over") /\ MayBeAt(me, "transcribing")
  BY <1>3 DEF MayBeAt, KindsAt, Holders, Hushers
<1> QED BY <1>1, <1>2, <1>3, <1>5, <1>6, AsksAndSaves

LEMMA StartActiveListeningStays ==
  ASSUME VoiceInv, NEW c \in Calls, StartActiveListening(c), UNCHANGED mutedBy
  PROVE  VoiceInv'
<1>1. PICK me \in Asked(c, "listenStart") :
        \/ GoesOn(c, me, "over") /\ UNCHANGED killed
        \/ Saves(c, me, IdleState(me), "over") /\ UNCHANGED killed
        \/ /\ SpeechOf(me.b.ses)
           /\ GoesOn(c, [me EXCEPT !.held = speech], "hushing") /\ Kill(speech.by)
        \/ Saves(c, me, Listening(St(me)), "over") /\ UNCHANGED killed
  BY DEF StartActiveListening
<1>2. Arrives(c) /\ UNCHANGED <<settings, recording, handle, speech, playing>>
  BY DEF StartActiveListening
<1>3. me \in CallRecords /\ me.b.kind = "listenStart" /\ me.b # None /\ me.ref \in Refs
  <2>1. me \in CallRecords
    BY AskedOK
  <2>2. me.b.kind = "listenStart"
    BY AskedOK
  <2>3. me.b # None
    <3>1. me.b \in Bodies[c]
      BY AskedOK
    <3> QED BY <3>1, CallsAssumption
  <2>4. me.ref \in Refs
    BY AskedOK
  <2> QED BY <2>1, <2>2, <2>3, <2>4
<1>4. St(me) \in States
  BY <1>3, StatesOK DEF VoiceInv, St
<1>5. IdleState(me) \in States /\ Listening(St(me)) \in States
  <2>1. IdleState(me) \in States
    BY <1>4, StatesOK DEF VoiceInv, IdleState
  <2>2. Listening(St(me)) \in States
    BY <1>4 DEF Listening, States, VoiceModeStates
  <2> QED BY <2>1, <2>2
<1>6. MayBeAt(me, "over")
  BY DEF MayBeAt, Holders, Hushers
<1>7. CASE GoesOn(c, me, "over") /\ UNCHANGED killed
  BY <1>7, <1>2, <1>3, <1>6, AsksAndGoes
<1>8. CASE Saves(c, me, IdleState(me), "over") /\ UNCHANGED killed
  BY <1>8, <1>2, <1>3, <1>5, <1>6, AsksAndSaves DEF Sound
<1>9. CASE /\ SpeechOf(me.b.ses)
           /\ GoesOn(c, [me EXCEPT !.held = speech], "hushing") /\ Kill(speech.by)
  <2> DEFINE m == [me EXCEPT !.held = speech]
  <2>1. m \in CallRecords /\ m.b = me.b /\ m.held = speech /\ m.ref = me.ref /\ speech # None
    BY <1>3, <1>9 DEF CallRecords, VoiceInv, RecordsOK, TypeOK, Tones, SpeechOf
  <2>2. GoesOn(c, m, "hushing") /\ Kill(speech.by)
    BY <1>9
  <2> HIDE DEF m
  <2>3. MayBeAt(m, "hushing")
    BY <2>1, <1>3 DEF MayBeAt, KindsAt, Holders
  <2> QED BY <2>1, <2>2, <2>3, <1>2, AsksAndGoes
<1>10. CASE Saves(c, me, Listening(St(me)), "over") /\ UNCHANGED killed
  BY <1>10, <1>2, <1>3, <1>5, <1>6, AsksAndSaves DEF Sound
<1> QED BY <1>1, <1>7, <1>8, <1>9, <1>10

LEMMA UpdateActiveListeningStateStays ==
  ASSUME VoiceInv, NEW c \in Calls, UpdateActiveListeningState(c), UNCHANGED mutedBy
  PROVE  VoiceInv'
<1>1. PICK me \in Asked(c, "listenState") :
        \/ /\ me.b.state \in Reportable
           /\ Saves(c, me, [St(me) EXCEPT !.voiceModeState = me.b.state], "over")
        \/ GoesOn(c, me, "over")
  BY DEF UpdateActiveListeningState
<1>2. Arrives(c) /\ UNCHANGED <<settings, Sound>>
  BY DEF UpdateActiveListeningState
<1>3. /\ me \in CallRecords /\ me.b.kind = "listenState" /\ me.b # None /\ me.ref \in Refs
      /\ me.b \in Bodies[c]
  <2>1. me \in CallRecords
    BY AskedOK
  <2>2. me.b.kind = "listenState"
    BY AskedOK
  <2>3. me.b # None
    <3>1. me.b \in Bodies[c]
      BY AskedOK
    <3> QED BY <3>1, CallsAssumption
  <2>4. me.ref \in Refs
    BY AskedOK
  <2>5. me.b \in Bodies[c]
    BY AskedOK
  <2> QED BY <2>1, <2>2, <2>3, <2>4, <2>5
<1>4. St(me) \in States
  BY <1>3, StatesOK DEF VoiceInv, St
<1>5. me.b.state \in Reportable => [St(me) EXCEPT !.voiceModeState = me.b.state] \in States
  BY <1>4 DEF States, Reportable, VoiceModeStates
<1>6. MayBeAt(me, "over")
  BY DEF MayBeAt, Holders, Hushers
<1>7. CASE /\ me.b.state \in Reportable
           /\ Saves(c, me, [St(me) EXCEPT !.voiceModeState = me.b.state], "over")
  BY <1>7, <1>2, <1>3, <1>5, <1>6, AsksAndSaves
<1>8. CASE GoesOn(c, me, "over")
  BY <1>8, <1>2, <1>3, <1>6, AsksAndGoes DEF Sound
<1> QED BY <1>1, <1>7, <1>8

LEMMA CancelActiveListeningStays ==
  ASSUME VoiceInv, NEW c \in Calls, CancelActiveListening(c), UNCHANGED mutedBy
  PROVE  VoiceInv'
<1>1. PICK me \in Asked(c, "listenCancel") : Saves(c, me, IdleState(me), "over")
  BY DEF CancelActiveListening
<1>2. Arrives(c) /\ UNCHANGED <<settings, Sound>>
  BY DEF CancelActiveListening
<1>3. me \in CallRecords /\ me.ref \in Refs
  <2>1. me \in CallRecords
    BY AskedOK
  <2>2. me.ref \in Refs
    BY AskedOK
  <2> QED BY <2>1, <2>2
<1>4. St(me) \in States
  BY <1>3, StatesOK DEF VoiceInv, St
<1>5. IdleState(me) \in States
  BY <1>4, StatesOK DEF VoiceInv, IdleState
<1>6. MayBeAt(me, "over")
  BY DEF MayBeAt, Holders, Hushers
<1> QED BY <1>1, <1>2, <1>3, <1>5, <1>6, AsksAndSaves

LEMMA StopActiveListeningStays ==
  ASSUME VoiceInv, NEW c \in Calls, StopActiveListening(c), UNCHANGED mutedBy
  PROVE  VoiceInv'
<1>1. PICK me \in Asked(c, "listenStop") :
        \/ Saves(c, me, IdleState(me), "over")
        \/ Saves(c, me, [St(me) EXCEPT !.voiceModeState = "transcribing",
                                       !.recordingState = "transcribing"], "transcribing")
  BY DEF StopActiveListening
<1>2. Arrives(c) /\ UNCHANGED <<settings, Sound>>
  BY DEF StopActiveListening
<1>3. me \in CallRecords /\ me.b.kind = "listenStop" /\ me.b # None /\ me.ref \in Refs
  <2>1. me \in CallRecords
    BY AskedOK
  <2>2. me.b.kind = "listenStop"
    BY AskedOK
  <2>3. me.b # None
    <3>1. me.b \in Bodies[c]
      BY AskedOK
    <3> QED BY <3>1, CallsAssumption
  <2>4. me.ref \in Refs
    BY AskedOK
  <2> QED BY <2>1, <2>2, <2>3, <2>4
<1>4. St(me) \in States
  BY <1>3, StatesOK DEF VoiceInv, St
<1>5. /\ IdleState(me) \in States
      /\ [St(me) EXCEPT !.voiceModeState = "transcribing", !.recordingState = "transcribing"] \in States
  <2>1. IdleState(me) \in States
    BY <1>4, StatesOK DEF VoiceInv, IdleState
  <2> QED BY <2>1, <1>4 DEF States, VoiceModeStates
<1>6. MayBeAt(me, "over") /\ MayBeAt(me, "transcribing")
  BY <1>3 DEF MayBeAt, KindsAt, Holders, Hushers
<1> QED BY <1>1, <1>2, <1>3, <1>5, <1>6, AsksAndSaves

LEMMA StartRecordingStays ==
  ASSUME VoiceInv, NEW c \in Calls, StartRecording(c), UNCHANGED mutedBy
  PROVE  VoiceInv'
<1>1. PICK me \in Asked(c, "recordStart") : GoesOn(c, [me EXCEPT !.ref = NoRef], "record")
  BY DEF StartRecording
<1>2. Arrives(c) /\ UNCHANGED <<settings, Sound>>
  BY DEF StartRecording
<1>3. me \in CallRecords /\ me.b.kind = "recordStart" /\ me.b # None
  <2>1. me \in CallRecords
    BY AskedOK
  <2>2. me.b.kind = "recordStart"
    BY AskedOK
  <2>3. me.b # None
    <3>1. me.b \in Bodies[c]
      BY AskedOK
    <3> QED BY <3>1, CallsAssumption
  <2> QED BY <2>1, <2>2, <2>3
<1> DEFINE m == [me EXCEPT !.ref = NoRef]
<1>4. m \in CallRecords /\ m.b = me.b
  BY <1>3 DEF CallRecords
<1>5. GoesOn(c, m, "record")
  BY <1>1
<1> HIDE DEF m
<1>6. MayBeAt(m, "record")
  BY <1>3, <1>4 DEF MayBeAt, KindsAt, Holders, Hushers
<1> QED BY <1>2, <1>4, <1>5, <1>6, AsksAndGoes DEF Sound

LEMMA StopRecordingStays ==
  ASSUME VoiceInv, NEW c \in Calls, StopRecording(c), UNCHANGED mutedBy
  PROVE  VoiceInv'
<1>1. PICK me \in Asked(c, "recordStop") :
        \/ /\ RecordingOf(me.b.ses)
           /\ Saves(c, [me EXCEPT !.held = recording],
                    [St(me) EXCEPT !.recordingState = "transcribing"], "stopping")
        \/ GoesOn(c, me, "over")
  BY DEF StopRecording
<1>2. Arrives(c) /\ UNCHANGED <<settings, Sound>>
  BY DEF StopRecording
<1>3. me \in CallRecords /\ me.b.kind = "recordStop" /\ me.b # None /\ me.ref \in Refs
  <2>1. me \in CallRecords
    BY AskedOK
  <2>2. me.b.kind = "recordStop"
    BY AskedOK
  <2>3. me.b # None
    <3>1. me.b \in Bodies[c]
      BY AskedOK
    <3> QED BY <3>1, CallsAssumption
  <2>4. me.ref \in Refs
    BY AskedOK
  <2> QED BY <2>1, <2>2, <2>3, <2>4
<1>4. CASE /\ RecordingOf(me.b.ses)
           /\ Saves(c, [me EXCEPT !.held = recording],
                    [St(me) EXCEPT !.recordingState = "transcribing"], "stopping")
  <2> DEFINE m == [me EXCEPT !.held = recording]
             st == [St(me) EXCEPT !.recordingState = "transcribing"]
  <2>1. m \in CallRecords /\ m.b = me.b /\ m.ref = me.ref /\ m.held # None
    BY <1>3, <1>4 DEF CallRecords, VoiceInv, RecordsOK, TypeOK, Tones, RecordingOf
  <2>2. St(me) \in States
    BY <1>3, StatesOK DEF VoiceInv, St
  <2>3. st \in States
    BY <2>2 DEF States
  <2>4. Saves(c, m, st, "stopping")
    BY <1>4
  <2> HIDE DEF m, st
  <2>5. MayBeAt(m, "stopping")
    BY <1>3, <2>1 DEF MayBeAt, KindsAt, Holders, Hushers
  <2> QED BY <2>1, <2>3, <2>4, <2>5, <1>2, AsksAndSaves
<1>5. CASE GoesOn(c, me, "over")
  <2>1. MayBeAt(me, "over")
    BY DEF MayBeAt, Holders, Hushers
  <2> QED BY <2>1, <1>2, <1>3, <1>5, AsksAndGoes DEF Sound
<1> QED BY <1>1, <1>4, <1>5

LEMMA CancelRecordingStays ==
  ASSUME VoiceInv, NEW c \in Calls, CancelRecording(c), UNCHANGED mutedBy
  PROVE  VoiceInv'
<1>1. PICK me \in Asked(c, "recordCancel") :
        IF RecordingOf(me.b.ses)
        THEN /\ GoesOn(c, [me EXCEPT !.ref = NoRef], "cancelling")
             /\ Cancels(recording.by)
        ELSE GoesOn(c, me, "over") /\ UNCHANGED handle
  BY DEF CancelRecording
<1>2. Arrives(c) /\ UNCHANGED <<settings, recording, speech, playing, killed>>
  BY DEF CancelRecording
<1>3. me \in CallRecords /\ me.b.kind = "recordCancel" /\ me.b # None
  <2>1. me \in CallRecords
    BY AskedOK
  <2>2. me.b.kind = "recordCancel"
    BY AskedOK
  <2>3. me.b # None
    <3>1. me.b \in Bodies[c]
      BY AskedOK
    <3> QED BY <3>1, CallsAssumption
  <2> QED BY <2>1, <2>2, <2>3
<1>4. CASE RecordingOf(me.b.ses)
  <2> DEFINE m == [me EXCEPT !.ref = NoRef]
  <2>1. m \in CallRecords /\ m.b = me.b
    BY <1>3 DEF CallRecords
  <2>2. GoesOn(c, m, "cancelling") /\ Cancels(recording.by) /\ recording # None
    BY <1>1, <1>4 DEF RecordingOf
  <2> HIDE DEF m
  <2>3. MayBeAt(m, "cancelling")
    BY <2>1, <1>3 DEF MayBeAt, KindsAt, Holders, Hushers
  <2> QED BY <2>1, <2>2, <2>3, <1>2, AsksAndGoes
<1>5. CASE ~RecordingOf(me.b.ses)
  <2>1. MayBeAt(me, "over")
    BY DEF MayBeAt, Holders, Hushers
  <2> QED BY <2>1, <1>1, <1>2, <1>3, <1>5, AsksAndGoes
<1> QED BY <1>4, <1>5

\* The settings are written while the call is at work.
LEMMA SetsModeKeeps ==
  ASSUME VoiceInv, NEW c \in Calls, NEW me, me.b.on \in BOOLEAN, NEW st \in States, SetsMode(c, me, st)
  PROVE  Keeps /\ settings'.micMuted = settings.micMuted
<1>1. UNCHANGED entry /\ Forget([objs EXCEPT ![me.ref] = st])
  BY DEF SetsMode
<1>2. [objs EXCEPT ![me.ref] = st] \in [Refs -> States]
  BY DEF VoiceInv, RecordsOK, TypeOK, States
<1>3. Numbered' /\ objs' \in [Refs -> States]
  BY <1>1, <1>2, UnchangedKeeps DEF VoiceInv
<1>4. settings' = settings \/ settings' = [settings EXCEPT !.voiceModeEnabled = me.b.on]
  BY DEF SetsMode
<1>5. settings' \in Settings /\ settings'.micMuted = settings.micMuted
  BY <1>4, StatesOK DEF VoiceInv, Settings
<1> QED BY <1>3, <1>5 DEF Keeps

LEMMA UpdateVoiceModeStays ==
  ASSUME VoiceInv, NEW c \in Calls, UpdateVoiceMode(c), UNCHANGED mutedBy
  PROVE  VoiceInv'
<1>1. PICK me \in Asked(c, "mode") :
        \/ /\ RecordingOf(me.b.ses) /\ GoesOn(c, me, "cancelling") /\ Cancels(recording.by)
           /\ UNCHANGED <<settings, killed>>
        \/ SetsMode(c, me, St(me)) /\ UNCHANGED handle
  BY DEF UpdateVoiceMode
<1>2. Arrives(c) /\ UNCHANGED <<recording, speech, playing>>
  BY DEF UpdateVoiceMode
<1>3. /\ me \in CallRecords /\ me.b.kind = "mode" /\ me.b # None /\ me.ref \in Refs
      /\ me.b \in Bodies[c]
  <2>1. me \in CallRecords
    BY AskedOK
  <2>2. me.b.kind = "mode"
    BY AskedOK
  <2>3. me.b \in Bodies[c]
    BY AskedOK
  <2>4. me.ref \in Refs
    BY AskedOK
  <2>5. me.b # None
    BY <2>3, CallsAssumption
  <2> QED BY <2>1, <2>2, <2>3, <2>4, <2>5
<1>4. me.b.on \in BOOLEAN
  BY <1>3, CallsAssumption
<1>5. St(me) \in States
  BY <1>3, StatesOK DEF VoiceInv, St
<1>6. CASE /\ RecordingOf(me.b.ses) /\ GoesOn(c, me, "cancelling") /\ Cancels(recording.by)
           /\ UNCHANGED <<settings, killed>>
  <2>1. MayBeAt(me, "cancelling") /\ recording # None
    BY <1>3, <1>6 DEF MayBeAt, KindsAt, Holders, Hushers, RecordingOf
  <2> QED BY <2>1, <1>2, <1>3, <1>6, AsksAndGoes
<1>7. CASE SetsMode(c, me, St(me)) /\ UNCHANGED handle
  <2> DEFINE st == St(me)
  <2>5. st \in States /\ SetsMode(c, me, st)
    BY <1>5, <1>7
  <2> HIDE DEF st
  <2>1. Keeps /\ settings'.micMuted = settings.micMuted
    BY <2>5, <1>4, SetsModeKeeps
  <2>2. \/ /\ SpeechOf(me.b.ses) /\ Kill(speech.by)
           /\ Goes(c, [me EXCEPT !.held = speech], "silencingMode")
        \/ Goes(c, me, "written") /\ killed' = killed
    BY <1>7 DEF SetsMode
  <2>3. CASE /\ SpeechOf(me.b.ses) /\ Kill(speech.by)
             /\ Goes(c, [me EXCEPT !.held = speech], "silencingMode")
    <3> DEFINE m == [me EXCEPT !.held = speech]
    <3>1. m \in CallRecords /\ m.b = me.b /\ m.ref = me.ref /\ m.held = speech /\ speech # None
      BY <1>3, <2>3 DEF CallRecords, VoiceInv, RecordsOK, TypeOK, Tones, SpeechOf
    <3>2. Goes(c, m, "silencingMode") /\ Kill(speech.by)
      BY <2>3
    <3> HIDE DEF m
    <3>3. MayBeAt(m, "silencingMode")
      BY <3>1, <1>3 DEF MayBeAt, KindsAt, Holders
    <3> QED BY <3>1, <3>2, <3>3, <2>1, <1>2, <1>7, AsksQuietly
  <2>4. CASE Goes(c, me, "written") /\ killed' = killed
    <3>1. MayBeAt(me, "written")
      BY <1>3 DEF MayBeAt, KindsAt, Holders, Hushers
    <3> QED BY <3>1, <2>1, <2>4, <1>2, <1>3, <1>7, AsksQuietly
  <2> QED BY <2>2, <2>3, <2>4
<1> QED BY <1>1, <1>6, <1>7

LEMMA UpdateSettingsStays == ASSUME VoiceInv, NEW c \in Calls, UpdateSettings(c) PROVE VoiceInv'
<1>1. PICK me \in Asked(c, "settings") :
        /\ settings' = [f \in DOMAIN settings |->
             IF f \in DOMAIN me.b.set THEN me.b.set[f] ELSE settings[f]]
        /\ mutedBy' = IF "micMuted" \notin DOMAIN me.b.set THEN mutedBy
                      ELSE IF me.b.set.micMuted THEN [by |-> c, ses |-> me.b.ses] ELSE None
        /\ GoesOn(c, [me EXCEPT !.ref = NoRef], "written")
  BY DEF UpdateSettings
<1>2. Arrives(c) /\ UNCHANGED <<recording, handle, speech, playing, killed>>
  BY DEF UpdateSettings, Sound
<1>3. /\ me \in CallRecords /\ me.b.kind = "settings" /\ me.b # None /\ me.b.ses \in Sessions
      /\ me.b \in Bodies[c] /\ call[c].pc = "new" /\ Cardinality(AtWork) < MaxAtWork
  <2>1. me \in CallRecords
    BY AskedOK
  <2>2. me.b.kind = "settings"
    BY AskedOK
  <2>3. me.b \in Bodies[c]
    BY AskedOK
  <2>4. me.b # None /\ me.b.ses \in Sessions
    BY <2>3, CallsAssumption
  <2>5. call[c].pc = "new"
    BY AskedOK
  <2>6. Cardinality(AtWork) < MaxAtWork
    BY AskedOK
  <2> QED BY <2>1, <2>2, <2>3, <2>4, <2>5, <2>6
<1> DEFINE m == [me EXCEPT !.ref = NoRef]
           q == Left(m, "written")
<1>4. m \in CallRecords /\ m.b = me.b
  BY <1>3 DEF CallRecords
<1>5. GoesOn(c, m, "written")
  BY <1>1
<1> HIDE DEF m
<1>6. MayBeAt(m, "written") /\ "written" \in Pcs \ {"new"}
  BY <1>3, <1>4 DEF MayBeAt, KindsAt, Holders, Hushers, Pcs
<1>7. CallOK(q) /\ q.pc = "written" /\ q.b = me.b
  BY <1>4, <1>6, LeftOK
<1>8. call' = [call EXCEPT ![c] = q]
  BY <1>5 DEF GoesOn, Goes, Left
<1> HIDE DEF q
<1>9. Moves(c, q)
  BY <1>2, <1>3, <1>7, <1>8 DEF Moves
<1>10. \A f \in DOMAIN me.b.set : me.b.set[f] \in BOOLEAN
  BY <1>3, CallsAssumption
<1>11. settings \in Settings /\ settings' \in Settings
  <2>1. settings \in Settings
    BY StatesOK DEF VoiceInv
  <2> QED BY <2>1, <1>1, <1>10 DEF Settings
<1>12. Keeps
  <2>1. UNCHANGED entry /\ Forget(objs)
    BY <1>5 DEF GoesOn
  <2>2. objs \in [Refs -> States]
    BY DEF VoiceInv, RecordsOK, TypeOK, States
  <2> QED BY <2>1, <2>2, <1>11, UnchangedKeeps DEF VoiceInv, Keeps
<1>13. Quiet(c, q) /\ Forgets(c, q)
  BY <1>2, <1>3, <1>7 DEF Quiet, Hushers, Forgets, Clears, VoiceInv, RecordsOK, TypeOK
<1>14. mutedBy' \in Tones
  BY <1>1, <1>3 DEF VoiceInv, RecordsOK, Tones
<1>15. RecordsOK' /\ MetOK' /\ SoundOK' /\ LiveOK'
  BY <1>9, <1>12, <1>13, <1>14, QuietKeeps
<1>16. MutedOK'
  <2>1. CASE "micMuted" \notin DOMAIN me.b.set
    <3>1. settings'.micMuted = settings.micMuted /\ mutedBy' = mutedBy
      BY <2>1, <1>1, <1>11 DEF Settings
    <3>2. Unmuted(c, q)
      BY <3>1, <1>3, <1>7 DEF Unmuted, Opening, Busy
    <3> QED BY <3>2, <1>2, <1>9, MutedStays DEF VoiceInv
  <2>2. CASE "micMuted" \in DOMAIN me.b.set /\ ~me.b.set["micMuted"]
    <3>1. ~settings'.micMuted /\ mutedBy' = None
      BY <2>2, <1>1, <1>11 DEF Settings
    <3> QED BY <3>1 DEF MutedOK, MuteHolds
  <2>3. CASE "micMuted" \in DOMAIN me.b.set /\ me.b.set["micMuted"]
    <3>1. mutedBy' = [by |-> c, ses |-> me.b.ses] /\ mutedBy' # None
      BY <2>3, <1>1, <1>3, ConstantsOK
    <3>2. call'[c] = q /\ c \in AtWork' /\ \A d \in Calls \ {c} : call'[d] = call[d]
      BY <1>7, <1>9, WorkMoves DEF VoiceInv, Busy
    <3>3. ASSUME NEW d \in Calls, Opening(call'[d]) PROVE c \in met'[d]
      <4>1. d # c
        BY <3>2, <3>3, <1>7 DEF Opening
      <4>2. d \in AtWork' /\ Begins(call'[d].b)
        <5>1. CallOK(call'[d])
          BY <1>9, WorkMoves DEF VoiceInv
        <5>2. Busy(call'[d])
          BY <3>3 DEF Opening, Busy
        <5>3. call'[d].b # None /\ call'[d].b.kind = "recordStart"
          BY <5>1, <5>2, <3>3 DEF CallOK, KindsAt, Opening
        <5> QED BY <5>2, <5>3 DEF Begins, AtWork, Busy
      <4> QED BY <4>1, <4>2, <3>2, <1>15 DEF MetOK
    <3>4. MuteHolds'
      BY <3>1, <3>2 DEF MuteHolds
    <3>5. mutedBy'.by = c /\ mutedBy'.ses = me.b.ses
      BY <3>1
    <3>6. call'[c].pc # "new" /\ call'[c].b.kind = "settings" /\ call'[c].b.ses = me.b.ses
      BY <3>2, <1>3, <1>7
    <3>7. \A d \in Calls : Opening(call'[d]) => c \in met'[d]
      BY <3>3
    <3> QED BY <3>1, <3>4, <3>5, <3>6, <3>7 DEF MutedOK
  <2> QED BY <2>1, <2>2, <2>3
<1> QED BY <1>15, <1>16 DEF VoiceInv

-----------------------------------------------------------------------------
(* How a call goes on. *)

LEMMA AtOK ==
  ASSUME VoiceInv, NEW c \in Calls, Busy(call[c])
  PROVE  /\ call[c] \in CallRecords /\ call[c].b # None /\ call[c].b.ses \in Sessions
         /\ call[c].b.kind \in KindsAt(call[c].pc)
         /\ Holds(call[c]) => call[c].ref \in Refs /\ St(call[c]) \in States
         /\ call[c].pc \in Hushers \cup {"stopping"} =>
              call[c].held # None /\ call[c].held.by \in Calls /\ call[c].held.ses \in Sessions
         /\ call[c].b.kind = "mode" => call[c].b.on \in BOOLEAN
<1>1. CallOK(call[c])
  BY DEF VoiceInv, RecordsOK
<1>2. call[c] \in CallRecords /\ call[c].b # None /\ call[c].b.kind \in KindsAt(call[c].pc)
  BY <1>1 DEF CallOK
<1>3. PICK d \in Calls : call[c].b \in Bodies[d]
  BY <1>2 DEF CallRecords, SomeBody
<1>4. call[c].b.ses \in Sessions /\ (call[c].b.kind = "mode" => call[c].b.on \in BOOLEAN)
  BY <1>3, CallsAssumption
<1>5. Holds(call[c]) => call[c].ref \in Refs /\ St(call[c]) \in States
  BY <1>1, StatesOK DEF CallOK, VoiceInv, St
<1>6. call[c].pc \in Hushers \cup {"stopping"} =>
        call[c].held # None /\ call[c].held.by \in Calls /\ call[c].held.ses \in Sessions
  BY <1>1, <1>2 DEF CallOK, CallRecords, Tones
<1> QED BY <1>2, <1>4, <1>5, <1>6

LEMMA SavesKeeps ==
  ASSUME VoiceInv, NEW c \in Calls, NEW me, me.b.ses \in Sessions, NEW st \in States, NEW pc,
         Saves(c, me, st, pc), UNCHANGED settings
  PROVE  Goes(c, me, pc) /\ Keeps
<1>1. Goes(c, me, pc) /\ Persist(me.ref, me.b.ses, st)
  BY DEF Saves
<1> QED BY <1>1, PersistKeeps, StatesOK DEF VoiceInv, Keeps

LEMMA GoesOnKeeps ==
  ASSUME VoiceInv, NEW c \in Calls, NEW me, NEW pc, GoesOn(c, me, pc), UNCHANGED settings
  PROVE  Goes(c, me, pc) /\ Keeps
<1>1. Goes(c, me, pc) /\ UNCHANGED entry /\ Forget(objs)
  BY DEF GoesOn
<1> QED BY <1>1, UnchangedKeeps, StatesOK DEF VoiceInv, Keeps, RecordsOK, TypeOK, States

LEMMA ThrowsKeeps ==
  ASSUME VoiceInv, NEW c \in Calls, NEW me, me.b.ses \in Sessions, Throws(c, me), UNCHANGED settings
  PROVE  Goes(c, me, "over") /\ Keeps
<1>1. CASE me.auto
  <2> DEFINE s == me.b.ses
             st == [objs[entry[s]] EXCEPT !.speakingState = "error"]
  <2>1. s \in Sessions /\ objs[entry[s]] \in States
    BY StatesOK DEF VoiceInv
  <2>2. st \in States
    BY <2>1 DEF States
  <2>3. Goes(c, me, "over") /\ Persist(entry[s], s, st)
    BY <1>1 DEF Throws
  <2> HIDE DEF st, s
  <2> QED BY <2>1, <2>2, <2>3, PersistKeeps, StatesOK DEF VoiceInv, Keeps
<1>2. CASE ~me.auto
  BY <1>2, GoesOnKeeps DEF Throws
<1> QED BY <1>1, <1>2

\* What GoesQuietly asks for, said of the place a call is left at.
LEMMA GoesOnQuietly ==
  ASSUME VoiceInv, NEW c \in Calls, Busy(call[c]), UNCHANGED <<met, mutedBy, playing>>,
         NEW m \in CallRecords, m.b = call[c].b, NEW pc \in Pcs \ {"new"}, Goes(c, m, pc),
         MayBeAt(m, pc), Keeps, settings'.micMuted = settings.micMuted,
         recording' \in {recording, None}, speech' \in {speech, None},
         speech' # speech => call[c].pc \in Hushers /\ Dead(call[c].held.by),
         killed' = killed \/ (speech # None /\ Kill(speech.by)),
         \/ handle' = handle
         \/ pc = "cancelling" /\ recording # None /\ Cancels(recording.by)
         \/ /\ pc = "transcribing" /\ m.b.kind = "recordStop"
            /\ handle' \in [Calls -> {"none", "open", "stopped", "cancelled"}],
         pc \in {"health", "opening"} => call[c].pc \in {"health", "opening"} \/ speech' = None,
         pc \in {"speakReady", "silencing", "voicing"} =>
           call[c].pc \in {"speakReady", "silencing", "voicing"} \/ recording' = None,
         pc = "voicing" => speech' = None,
         pc \in Hushers => m.held = speech',
         pc \in {"health", "opening"} \/ (pc = "hushing" /\ m.b.kind = "recordStart") =>
           Opening(call[c]) \/ ~settings.micMuted,
         pc = "over" /\ call[c].b.kind = "settings" /\ settings.micMuted /\ recording' # None =>
           recording.ses # call[c].b.ses,
         Clears(call[c]) => recording' = None
  PROVE  VoiceInv'
<1> DEFINE q == Left(m, pc)
<1>1. q.pc = pc /\ (pc # "over" => q.b = m.b /\ q.held = m.held)
  BY LeftOK
<1> HIDE DEF q
<1>2. Quiet(c, q)
  <2>1. killed \subseteq killed' /\ killed' \subseteq playing
    BY DEF Kill, VoiceInv, MetOK, RecordsOK, TypeOK
  <2> QED BY <2>1, <1>1 DEF Quiet, Dead, Hushers
<1>3. Unmuted(c, q)
  BY <1>1 DEF Unmuted, Opening
<1>4. Forgets(c, q)
  <2>1. handle \in [Calls -> {"none", "open", "stopped", "cancelled"}]
    BY DEF VoiceInv, RecordsOK, TypeOK
  <2>2. handle' \in [Calls -> {"none", "open", "stopped", "cancelled"}]
    BY <2>1 DEF Cancels
  <2> QED BY <2>2, <1>1 DEF Forgets, Clears
<1> QED BY <1>2, <1>3, <1>4, GoesQuietly DEF q

\* The same for a step that touches no sound, but may tell the active speech to end.
LEMMA GoesSilently ==
  ASSUME VoiceInv, NEW c \in Calls, Busy(call[c]),
         UNCHANGED <<met, mutedBy, playing, recording, speech, handle>>,
         killed' = killed \/ (speech # None /\ Kill(speech.by)),
         NEW m \in CallRecords, m.b = call[c].b, NEW pc \in Pcs \ {"new"}, Goes(c, m, pc),
         MayBeAt(m, pc), Keeps, settings'.micMuted = settings.micMuted,
         pc \in {"health", "opening"} => call[c].pc \in {"health", "opening"} \/ speech = None,
         pc \in {"speakReady", "silencing", "voicing"} =>
           call[c].pc \in {"speakReady", "silencing", "voicing"} \/ recording = None,
         pc = "voicing" => speech = None,
         pc \in Hushers => m.held = speech,
         pc \in {"health", "opening"} \/ (pc = "hushing" /\ m.b.kind = "recordStart") =>
           Opening(call[c]) \/ ~settings.micMuted,
         pc = "over" /\ call[c].b.kind = "settings" /\ settings.micMuted /\ recording # None =>
           recording.ses # call[c].b.ses,
         ~Clears(call[c])
  PROVE  VoiceInv'
BY GoesOnQuietly

LEMMA OverFits ==
  /\ \A me : MayBeAt(me, "over")
  /\ {"over", "hushing", "speak", "speakReady", "silencing", "voicing", "written", "cancelling",
      "silencingMode", "transcribing", "listen", "chat", "health", "opening"} \subseteq Pcs \ {"new"}
BY DEF MayBeAt, Holders, Hushers, Pcs

LEMMA HushesStays ==
  ASSUME VoiceInv, NEW c \in Calls, Hushes(c), UNCHANGED mutedBy
  PROVE  VoiceInv'
<1> DEFINE m == [call[c] EXCEPT !.held = None]
           pc == AfterHush[call[c].b.kind]
           s == call[c].held.ses
           st == [objs[entry[s]] EXCEPT !.speakingState = "idle", !.voiceModeState = Idle(settings)]
<1>1. /\ call[c].pc = "hushing" /\ Dead(call[c].held.by) /\ Goes(c, m, pc)
      /\ speech' = None /\ Persist(entry[s], s, st)
      /\ UNCHANGED <<settings, recording, handle, playing, killed, met>>
  BY DEF Hushes, Hushed
<1>2. Busy(call[c]) /\ call[c].pc \in Hushers
  BY <1>1 DEF Busy, Hushers
<1>3. /\ call[c] \in CallRecords /\ call[c].b # None /\ s \in Sessions
      /\ call[c].b.kind \in {"stopSpeaking", "listenStart", "recordStart"}
      /\ call[c].b.kind # "stopSpeaking" => call[c].ref \in Refs
  BY <1>1, <1>2, AtOK DEF KindsAt, Holds
<1>4. m \in CallRecords /\ m.b = call[c].b /\ m.ref = call[c].ref
  BY <1>3 DEF CallRecords, Tones
<1>5. /\ call[c].b.kind = "stopSpeaking" => pc = "over"
      /\ call[c].b.kind = "listenStart" => pc = "listen"
      /\ call[c].b.kind = "recordStart" => pc = "health"
  BY DEF AfterHush
<1>6. st \in States
  <2>1. objs[entry[s]] \in States /\ Idle(settings) \in VoiceModeStates
    BY <1>3, StatesOK DEF VoiceInv
  <2> QED BY <2>1 DEF States
<1> HIDE DEF m, pc, st, s
<1>7. Keeps
  BY <1>1, <1>3, <1>6, PersistKeeps, StatesOK DEF VoiceInv, Keeps
<1>8. MayBeAt(m, pc) /\ pc \in Pcs \ {"new"} /\ pc \in {"over", "listen", "health"}
  BY <1>3, <1>4, <1>5 DEF MayBeAt, KindsAt, Holders, Hushers, Pcs
<1>9. /\ pc = "health" => Opening(call[c])
      /\ ~Clears(call[c]) /\ call[c].b.kind # "settings"
  BY <1>1, <1>3, <1>5 DEF Opening, Clears
<1> QED BY <1>1, <1>2, <1>4, <1>7, <1>8, <1>9, GoesOnQuietly DEF Hushers

LEMMA ChecksSpeechStays ==
  ASSUME VoiceInv, NEW c \in Calls, ChecksSpeech(c), UNCHANGED mutedBy
  PROVE  VoiceInv'
<1>1. call[c].pc = "speak" /\ UNCHANGED <<settings, recording, handle, speech, playing, killed, met>>
  BY DEF ChecksSpeech, Sound
<1>2. Busy(call[c]) /\ ~Clears(call[c])
  BY <1>1 DEF Busy, Clears
<1>3. /\ call[c] \in CallRecords /\ call[c].b # None /\ call[c].b.ses \in Sessions
      /\ call[c].b.kind \in {"speak", "chat", "listenStop", "recordStop"}
  BY <1>1, <1>2, AtOK DEF KindsAt
<1>4. CASE MaySpeak
  <2> DEFINE m == [call[c] EXCEPT !.ref = entry[call[c].b.ses]]
  <2>1. m \in CallRecords /\ m.b = call[c].b /\ m.ref \in Refs
    BY <1>3, StatesOK DEF CallRecords, VoiceInv
  <2>2. GoesOn(c, m, "speakReady") /\ recording = None
    BY <1>4 DEF ChecksSpeech, MaySpeak
  <2> HIDE DEF m
  <2>3. MayBeAt(m, "speakReady")
    BY <1>3, <2>1 DEF MayBeAt, KindsAt, Hushers
  <2>4. Goes(c, m, "speakReady") /\ Keeps
    BY <1>1, <2>2, GoesOnKeeps
  <2> QED BY <1>1, <1>2, <2>1, <2>2, <2>3, <2>4, OverFits, GoesSilently DEF Hushers
<1>5. CASE ~MaySpeak
  <2>1. Goes(c, call[c], "over") /\ Keeps
    BY <1>1, <1>3, <1>5, ThrowsKeeps DEF ChecksSpeech
  <2> QED BY <1>1, <1>2, <1>3, <2>1, OverFits, GoesSilently DEF Hushers
<1> QED BY <1>4, <1>5

LEMMA SilencesOtherStays ==
  ASSUME VoiceInv, NEW c \in Calls, SilencesOther(c), UNCHANGED mutedBy
  PROVE  VoiceInv'
<1>1. call[c].pc = "speakReady" /\ UNCHANGED <<settings, recording, handle, speech, playing, met>>
  BY DEF SilencesOther
<1>2. Busy(call[c]) /\ ~Clears(call[c])
  BY <1>1 DEF Busy, Clears
<1>3. /\ call[c] \in CallRecords /\ call[c].b # None /\ call[c].b.ses \in Sessions
      /\ call[c].b.kind \in {"speak", "chat", "listenStop", "recordStop"}
      /\ call[c].ref \in Refs
  BY <1>1, <1>2, AtOK DEF KindsAt, Holds, Holders
<1>4. CASE Throws(c, call[c]) /\ UNCHANGED killed
  <2>1. Goes(c, call[c], "over") /\ Keeps
    BY <1>1, <1>3, <1>4, ThrowsKeeps
  <2> QED BY <1>1, <1>2, <1>3, <1>4, <2>1, OverFits, GoesSilently DEF Hushers
<1>5. CASE speech = None /\ GoesOn(c, call[c], "voicing") /\ UNCHANGED killed
  <2>1. Goes(c, call[c], "voicing") /\ Keeps
    BY <1>1, <1>5, GoesOnKeeps
  <2>2. MayBeAt(call[c], "voicing")
    BY <1>3 DEF MayBeAt, KindsAt, Hushers
  <2> QED BY <1>1, <1>2, <1>3, <1>5, <2>1, <2>2, OverFits, GoesSilently DEF Hushers
<1>6. CASE speech # None /\ GoesOn(c, [call[c] EXCEPT !.held = speech], "silencing") /\ Kill(speech.by)
  <2> DEFINE m == [call[c] EXCEPT !.held = speech]
  <2>1. m \in CallRecords /\ m.b = call[c].b /\ m.ref = call[c].ref /\ m.held = speech
    BY <1>3 DEF CallRecords, VoiceInv, RecordsOK, TypeOK, Tones
  <2>2. GoesOn(c, m, "silencing")
    BY <1>6
  <2> HIDE DEF m
  <2>3. MayBeAt(m, "silencing")
    BY <1>3, <1>6, <2>1 DEF MayBeAt, KindsAt, Hushers
  <2>4. Goes(c, m, "silencing") /\ Keeps
    BY <1>1, <2>2, GoesOnKeeps
  <2> QED BY <1>1, <1>2, <1>6, <2>1, <2>3, <2>4, OverFits, GoesSilently
<1> QED BY <1>4, <1>5, <1>6 DEF SilencesOther, Silences

LEMMA OtherSilentStays ==
  ASSUME VoiceInv, NEW c \in Calls, OtherSilent(c), UNCHANGED mutedBy
  PROVE  VoiceInv'
<1> DEFINE m == [call[c] EXCEPT !.held = None]
<1>1. /\ call[c].pc = "silencing" /\ Dead(call[c].held.by) /\ speech' = None
      /\ GoesOn(c, m, "voicing") /\ UNCHANGED <<settings, recording, handle, playing, killed, met>>
  BY DEF OtherSilent
<1>2. Busy(call[c]) /\ ~Clears(call[c]) /\ call[c].pc \in Hushers
  BY <1>1 DEF Busy, Clears, Hushers
<1>3. /\ call[c] \in CallRecords /\ call[c].b # None
      /\ call[c].b.kind \in {"speak", "chat", "listenStop", "recordStop"}
      /\ call[c].ref \in Refs
  BY <1>1, <1>2, AtOK DEF KindsAt, Holds, Holders
<1>4. m \in CallRecords /\ m.b = call[c].b /\ m.ref = call[c].ref
  BY <1>3 DEF CallRecords, Tones
<1> HIDE DEF m
<1>5. Goes(c, m, "voicing") /\ Keeps
  BY <1>1, GoesOnKeeps
<1>6. MayBeAt(m, "voicing")
  BY <1>3, <1>4 DEF MayBeAt, KindsAt, Hushers
<1> QED BY <1>1, <1>2, <1>4, <1>5, <1>6, OverFits, GoesOnQuietly DEF Hushers

LEMMA VoicingFailsStays ==
  ASSUME VoiceInv, NEW c \in Calls, VoicingFails(c), UNCHANGED mutedBy
  PROVE  VoiceInv'
<1> DEFINE st == [St(call[c]) EXCEPT !.speakingState = "error", !.voiceModeState = "error"]
<1>1. /\ call[c].pc = "voicing" /\ Saves(c, call[c], st, "over")
      /\ UNCHANGED <<settings, recording, handle, speech, playing, killed, met>>
  BY DEF VoicingFails, Sound
<1>2. Busy(call[c]) /\ ~Clears(call[c])
  BY <1>1 DEF Busy, Clears
<1>3. /\ call[c] \in CallRecords /\ call[c].b.ses \in Sessions /\ St(call[c]) \in States
      /\ call[c].b.kind \in {"speak", "chat", "listenStop", "recordStop"}
  BY <1>1, <1>2, AtOK DEF KindsAt, Holds, Holders
<1>4. st \in States
  BY <1>3 DEF States, VoiceModeStates
<1> HIDE DEF st
<1>5. Goes(c, call[c], "over") /\ Keeps
  BY <1>1, <1>3, <1>4, SavesKeeps
<1> QED BY <1>1, <1>2, <1>3, <1>5, OverFits, GoesSilently DEF Hushers

LEMMA RestatedOK ==
  ASSUME VoiceInv, NEW st \in States
  PROVE  Restated(st) \in States
<1>1. settings.voiceModeEnabled \in BOOLEAN
  <2>1. settings \in Settings
    BY StatesOK DEF VoiceInv
  <2> QED BY <2>1 DEF Settings
<1>2. PICK state \in VoiceModeStates :
        Restated(st) = [st EXCEPT !.wakeModeEnabled = settings.voiceModeEnabled, !.voiceModeState = state]
  <2>1. st.voiceModeState \in VoiceModeStates /\ {"muted", "off", "conversation_waiting"} \subseteq VoiceModeStates
    BY DEF States, VoiceModeStates
  <2> QED BY <2>1 DEF Restated
<1> QED BY <1>1, <1>2 DEF States

LEMMA SettingsWrittenStays ==
  ASSUME VoiceInv, NEW c \in Calls, SettingsWritten(c), UNCHANGED mutedBy
  PROVE  VoiceInv'
<1> DEFINE m == [call[c] EXCEPT !.ref = entry[call[c].b.ses]]
<1>1. /\ call[c].pc = "written" /\ call[c].b.kind = "settings"
      /\ UNCHANGED <<settings, recording, speech, playing, killed, met>>
      /\ IF MuteCancels(m.b.ses)
         THEN GoesOn(c, m, "cancelling") /\ Cancels(recording.by)
         ELSE Saves(c, m, Restated(St(m)), "over") /\ UNCHANGED handle
  BY DEF SettingsWritten
<1>2. Busy(call[c]) /\ ~Clears(call[c])
  BY <1>1 DEF Busy, Clears
<1>3. call[c] \in CallRecords /\ call[c].b # None /\ call[c].b.ses \in Sessions
  BY <1>2, AtOK
<1>4. m \in CallRecords /\ m.b = call[c].b /\ m.ref \in Refs
  BY <1>3, StatesOK DEF CallRecords, VoiceInv
<1> HIDE DEF m
<1>5. CASE MuteCancels(m.b.ses)
  <2>1. GoesOn(c, m, "cancelling") /\ Cancels(recording.by) /\ recording # None
    BY <1>1, <1>5 DEF MuteCancels, RecordingOf
  <2>2. MayBeAt(m, "cancelling")
    BY <1>1, <1>3, <1>4 DEF MayBeAt, KindsAt, Holders, Hushers
  <2>3. Goes(c, m, "cancelling") /\ Keeps
    BY <1>1, <2>1, GoesOnKeeps
  <2> QED BY <1>1, <1>2, <1>4, <2>1, <2>2, <2>3, OverFits, GoesOnQuietly DEF Hushers
<1>6. CASE ~MuteCancels(m.b.ses)
  <2>1. St(m) \in States
    BY <1>4, StatesOK DEF VoiceInv, St
  <2>2. Restated(St(m)) \in States
    BY <2>1, RestatedOK
  <2>3. Goes(c, m, "over") /\ Keeps /\ UNCHANGED handle
    BY <1>1, <1>3, <1>4, <1>6, <2>2, SavesKeeps
  <2>4. settings.micMuted /\ recording # None => recording.ses # call[c].b.ses
    BY <1>4, <1>6 DEF MuteCancels, RecordingOf
  <2> QED BY <1>1, <1>2, <1>4, <2>3, <2>4, OverFits, GoesSilently DEF Hushers
<1> QED BY <1>5, <1>6

LEMMA SettingsCancelledStays ==
  ASSUME VoiceInv, NEW c \in Calls, SettingsCancelled(c), UNCHANGED mutedBy
  PROVE  VoiceInv'
<1> DEFINE st == [St(call[c]) EXCEPT !.recordingState = "idle"]
<1>1. /\ call[c].pc = "cancelling" /\ call[c].b.kind = "settings"
      /\ recording' = None /\ Saves(c, call[c], Restated(st), "over")
      /\ UNCHANGED <<settings, handle, speech, playing, killed, met>>
  BY DEF SettingsCancelled
<1>2. Busy(call[c])
  BY <1>1 DEF Busy
<1>3. call[c] \in CallRecords /\ call[c].b.ses \in Sessions /\ St(call[c]) \in States
  BY <1>1, <1>2, AtOK DEF Holds
<1>4. st \in States
  BY <1>3 DEF States
<1> HIDE DEF st
<1>5. Restated(st) \in States
  BY <1>4, RestatedOK
<1>6. Goes(c, call[c], "over") /\ Keeps
  BY <1>1, <1>3, <1>5, SavesKeeps
<1> QED BY <1>1, <1>2, <1>3, <1>6, OverFits, GoesOnQuietly DEF Hushers

\* The call goes on with the mode, once its recording is forgotten.
LEMMA ModeCancelledStays ==
  ASSUME VoiceInv, NEW c \in Calls, ModeCancelled(c), UNCHANGED mutedBy
  PROVE  VoiceInv'
<1> DEFINE st == [St(call[c]) EXCEPT !.recordingState = "idle"]
<1>1. /\ call[c].pc = "cancelling" /\ call[c].b.kind = "mode" /\ recording' = None
      /\ SetsMode(c, call[c], st) /\ UNCHANGED <<handle, speech, playing, met>>
  BY DEF ModeCancelled
<1>2. Busy(call[c])
  BY <1>1 DEF Busy
<1>3. /\ call[c] \in CallRecords /\ call[c].b # None /\ call[c].ref \in Refs /\ call[c].b.on \in BOOLEAN
      /\ St(call[c]) \in States
  BY <1>1, <1>2, AtOK DEF Holds
<1>4. st \in States
  BY <1>3 DEF States
<1> HIDE DEF st
<1>5. Keeps /\ settings'.micMuted = settings.micMuted
  BY <1>1, <1>3, <1>4, SetsModeKeeps
<1>6. \/ /\ SpeechOf(call[c].b.ses) /\ Kill(speech.by)
         /\ Goes(c, [call[c] EXCEPT !.held = speech], "silencingMode")
      \/ Goes(c, call[c], "written") /\ killed' = killed
  BY <1>1 DEF SetsMode
<1>7. CASE /\ SpeechOf(call[c].b.ses) /\ Kill(speech.by)
           /\ Goes(c, [call[c] EXCEPT !.held = speech], "silencingMode")
  <2> DEFINE m == [call[c] EXCEPT !.held = speech]
  <2>1. m \in CallRecords /\ m.b = call[c].b /\ m.ref = call[c].ref /\ m.held = speech /\ speech # None
    BY <1>3, <1>7 DEF CallRecords, VoiceInv, RecordsOK, TypeOK, Tones, SpeechOf
  <2>2. Goes(c, m, "silencingMode")
    BY <1>7
  <2> HIDE DEF m
  <2>3. MayBeAt(m, "silencingMode")
    BY <1>1, <1>3, <2>1 DEF MayBeAt, KindsAt, Holders
  <2> QED BY <1>1, <1>2, <1>5, <1>7, <2>1, <2>2, <2>3, OverFits, GoesOnQuietly
<1>8. CASE Goes(c, call[c], "written") /\ killed' = killed
  <2>1. MayBeAt(call[c], "written")
    BY <1>1, <1>3 DEF MayBeAt, KindsAt, Holders, Hushers
  <2> QED BY <1>1, <1>2, <1>3, <1>5, <1>8, <2>1, OverFits, GoesOnQuietly DEF Hushers
<1> QED BY <1>6, <1>7, <1>8

LEMMA ModeSilencedStays ==
  ASSUME VoiceInv, NEW c \in Calls, ModeSilenced(c), UNCHANGED mutedBy
  PROVE  VoiceInv'
<1> DEFINE m == [call[c] EXCEPT !.held = None]
           content == [objs EXCEPT ![call[c].ref].speakingState = "idle"]
<1>1. /\ call[c].pc = "silencingMode" /\ Dead(call[c].held.by) /\ speech' = None
      /\ settings' = [settings EXCEPT !.voiceModeEnabled = FALSE]
      /\ Goes(c, m, "written") /\ UNCHANGED entry /\ Forget(content)
      /\ UNCHANGED <<recording, handle, playing, killed, met>>
  BY DEF ModeSilenced
<1>2. Busy(call[c]) /\ ~Clears(call[c]) /\ call[c].pc \in Hushers
  BY <1>1 DEF Busy, Clears, Hushers
<1>3. call[c] \in CallRecords /\ call[c].b # None /\ call[c].b.kind = "mode" /\ call[c].ref \in Refs
  BY <1>1, <1>2, AtOK DEF KindsAt, Holds, Holders
<1>4. m \in CallRecords /\ m.b = call[c].b /\ m.ref = call[c].ref
  BY <1>3 DEF CallRecords, Tones
<1>5. content \in [Refs -> States]
  <2>1. objs \in [Refs -> States]
    BY DEF VoiceInv, RecordsOK, TypeOK, States
  <2>2. [objs[call[c].ref] EXCEPT !.speakingState = "idle"] \in States
    BY <2>1, <1>3 DEF States
  <2>3. content = [objs EXCEPT ![call[c].ref] = [objs[call[c].ref] EXCEPT !.speakingState = "idle"]]
    BY <2>1, <1>3
  <2> QED BY <2>1, <2>2, <2>3
<1> HIDE DEF m, content
<1>6. settings' \in Settings /\ settings'.micMuted = settings.micMuted
  BY <1>1, StatesOK DEF VoiceInv, Settings
<1>7. Keeps
  BY <1>1, <1>5, <1>6, UnchangedKeeps DEF VoiceInv, Keeps
<1>8. MayBeAt(m, "written")
  BY <1>3, <1>4 DEF MayBeAt, KindsAt, Holders, Hushers
<1> QED BY <1>1, <1>2, <1>4, <1>6, <1>7, <1>8, OverFits, GoesOnQuietly DEF Hushers

LEMMA ModeWrittenStays ==
  ASSUME VoiceInv, NEW c \in Calls, ModeWritten(c), UNCHANGED mutedBy
  PROVE  VoiceInv'
<1> DEFINE st == [IdleState(call[c]) EXCEPT !.wakeModeEnabled = call[c].b.on]
<1>1. /\ call[c].pc = "written" /\ call[c].b.kind = "mode" /\ Saves(c, call[c], st, "over")
      /\ UNCHANGED <<settings, recording, handle, speech, playing, killed, met>>
  BY DEF ModeWritten, Sound
<1>2. Busy(call[c]) /\ ~Clears(call[c])
  BY <1>1 DEF Busy, Clears
<1>3. /\ call[c] \in CallRecords /\ call[c].b.ses \in Sessions /\ call[c].b.on \in BOOLEAN
      /\ St(call[c]) \in States
  BY <1>1, <1>2, AtOK DEF Holds
<1>4. st \in States
  <2>1. IdleState(call[c]) \in States
    BY <1>3, StatesOK DEF VoiceInv, IdleState
  <2> QED BY <2>1, <1>3 DEF States
<1> HIDE DEF st
<1>5. Goes(c, call[c], "over") /\ Keeps
  BY <1>1, <1>3, <1>4, SavesKeeps
<1> QED BY <1>1, <1>2, <1>3, <1>5, OverFits, GoesSilently DEF Hushers

\* A step that saves the call's own record and touches no sound.
LEMMA SavesSilently ==
  ASSUME VoiceInv, NEW c \in Calls, Busy(call[c]), ~Clears(call[c]), call[c].b.kind # "settings",
         NEW st \in States, NEW pc \in {"over", "chat"}, MayBeAt(call[c], pc),
         Saves(c, call[c], st, pc), UNCHANGED <<settings, Sound, met, mutedBy>>
  PROVE  VoiceInv'
<1>1. call[c] \in CallRecords /\ call[c].b.ses \in Sessions
  BY AtOK
<1>2. Goes(c, call[c], pc) /\ Keeps
  BY <1>1, SavesKeeps
<1>3. pc \in Pcs \ {"new"}
  BY OverFits
<1> QED BY <1>1, <1>2, <1>3, GoesSilently DEF Hushers, Sound

LEMMA WakeTranscribedStays ==
  ASSUME VoiceInv, NEW c \in Calls, WakeTranscribed(c), UNCHANGED mutedBy
  PROVE  VoiceInv'
<1>1. /\ call[c].pc = "transcribing" /\ call[c].b.kind = "wake"
      /\ UNCHANGED <<settings, Sound, met>>
  BY DEF WakeTranscribed
<1>2. PICK state \in {"wake_detected", "wake_listening", "error"} :
        Saves(c, call[c], [St(call[c]) EXCEPT !.voiceModeState = state], "over")
  <2>1. PICK heard \in {"text", "nothing", "fails"} :
          \E state \in CASE heard = "text" -> {"wake_detected", "wake_listening"}
                         [] heard = "nothing" -> {"wake_listening"}
                         [] heard = "fails" -> {"error"} :
            Saves(c, call[c], [St(call[c]) EXCEPT !.voiceModeState = state], "over")
    BY DEF WakeTranscribed, Transcriptions, Heard
  <2> QED BY <2>1
<1>3. Busy(call[c]) /\ ~Clears(call[c])
  BY <1>1 DEF Busy, Clears
<1>4. St(call[c]) \in States
  BY <1>1, <1>3, AtOK DEF Holds, Holders
<1> DEFINE st == [St(call[c]) EXCEPT !.voiceModeState = state]
<1>5. st \in States
  BY <1>4 DEF States, VoiceModeStates
<1>6. Saves(c, call[c], st, "over")
  BY <1>2
<1> HIDE DEF st
<1> QED BY <1>1, <1>3, <1>5, <1>6, OverFits, SavesSilently

LEMMA ListensStays ==
  ASSUME VoiceInv, NEW c \in Calls, Listens(c), UNCHANGED mutedBy
  PROVE  VoiceInv'
<1>1. /\ call[c].pc = "listen" /\ Saves(c, call[c], Listening(St(call[c])), "over")
      /\ UNCHANGED <<settings, Sound, met>>
  BY DEF Listens
<1>2. Busy(call[c]) /\ ~Clears(call[c])
  BY <1>1 DEF Busy, Clears
<1>3. St(call[c]) \in States /\ call[c].b.kind = "listenStart"
  BY <1>1, <1>2, AtOK DEF KindsAt, Holds, Holders
<1>4. Listening(St(call[c])) \in States
  BY <1>3 DEF States, Listening, VoiceModeStates
<1> QED BY <1>1, <1>2, <1>3, <1>4, OverFits, SavesSilently

LEMMA TurnFailsStays ==
  ASSUME VoiceInv, NEW c \in Calls, Busy(call[c]), ~Clears(call[c]), call[c].b.kind # "settings",
         St(call[c]) \in States, TurnFails(c, call[c]), UNCHANGED <<settings, Sound, met, mutedBy>>
  PROVE  VoiceInv'
<1> DEFINE st == [IdleState(call[c]) EXCEPT !.voiceModeState = "error"]
<1>1. IdleState(call[c]) \in States
  BY StatesOK DEF VoiceInv, IdleState
<1>2. st \in States
  BY <1>1 DEF States, VoiceModeStates
<1>3. Saves(c, call[c], st, "over")
  BY DEF TurnFails
<1> HIDE DEF st
<1> QED BY <1>2, <1>3, OverFits, SavesSilently

LEMMA TurnTranscribedStays ==
  ASSUME VoiceInv, NEW c \in Calls, TurnTranscribed(c), UNCHANGED mutedBy
  PROVE  VoiceInv'
<1> DEFINE st == [IdleState(call[c]) EXCEPT !.voiceModeState = "processing"]
<1>1. /\ call[c].pc = "transcribing" /\ call[c].b.kind = "listenStop"
      /\ UNCHANGED <<settings, Sound, met>>
      /\ \/ Saves(c, call[c], st, "chat")
         \/ Saves(c, call[c], IdleState(call[c]), "over")
         \/ TurnFails(c, call[c])
  BY DEF TurnTranscribed
<1>2. Busy(call[c]) /\ ~Clears(call[c])
  BY <1>1 DEF Busy, Clears
<1>3. St(call[c]) \in States /\ call[c].b # None /\ call[c].ref \in Refs
  BY <1>1, <1>2, AtOK DEF Holds, Holders
<1>4. IdleState(call[c]) \in States
  BY <1>3, StatesOK DEF VoiceInv, IdleState
<1>5. st \in States
  BY <1>4 DEF States, VoiceModeStates
<1> HIDE DEF st
<1>6. MayBeAt(call[c], "chat")
  BY <1>1, <1>3 DEF MayBeAt, KindsAt, Hushers
<1>7. CASE Saves(c, call[c], st, "chat")
  BY <1>1, <1>2, <1>5, <1>6, <1>7, SavesSilently
<1>8. CASE Saves(c, call[c], IdleState(call[c]), "over")
  BY <1>1, <1>2, <1>4, <1>8, OverFits, SavesSilently
<1>9. CASE TurnFails(c, call[c])
  BY <1>1, <1>2, <1>3, <1>9, TurnFailsStays
<1> QED BY <1>1, <1>7, <1>8, <1>9

\* An answer that comes is read, or not.
LEMMA ReadsSilently ==
  ASSUME VoiceInv, NEW c \in Calls, call[c].pc = "chat", NEW st \in States,
         \/ Goes(c, Reads(call[c]), "speak")
         \/ Goes(c, call[c], "over"),
         Persist(call[c].ref, call[c].b.ses, st), UNCHANGED <<settings, Sound, met, mutedBy>>
  PROVE  VoiceInv'
<1>1. Busy(call[c]) /\ ~Clears(call[c])
  BY DEF Busy, Clears
<1>2. /\ call[c] \in CallRecords /\ call[c].b # None /\ call[c].b.ses \in Sessions
      /\ call[c].b.kind \in {"listenStop", "recordStop"}
  BY <1>1, AtOK DEF KindsAt
<1>3. Keeps
  BY <1>2, PersistKeeps, StatesOK DEF VoiceInv, Keeps
<1>4. CASE Goes(c, Reads(call[c]), "speak")
  <2>1. Reads(call[c]) \in CallRecords /\ Reads(call[c]).b = call[c].b
    BY <1>2 DEF CallRecords, Reads
  <2>2. MayBeAt(Reads(call[c]), "speak")
    BY <1>2, <2>1 DEF MayBeAt, KindsAt, Holders, Hushers
  <2> QED BY <1>1, <1>2, <1>3, <1>4, <2>1, <2>2, OverFits, GoesSilently DEF Hushers, Sound
<1>5. CASE Goes(c, call[c], "over")
  BY <1>1, <1>2, <1>3, <1>5, OverFits, GoesSilently DEF Hushers, Sound
<1> QED BY <1>4, <1>5

LEMMA TurnAnsweredStays ==
  ASSUME VoiceInv, NEW c \in Calls, TurnAnswered(c), UNCHANGED mutedBy
  PROVE  VoiceInv'
<1> DEFINE st == [St(call[c]) EXCEPT !.voiceModeState =
                    IF settings.autoReadResponses THEN "processing" ELSE Idle(settings)]
<1>1. /\ call[c].pc = "chat" /\ call[c].b.kind = "listenStop" /\ UNCHANGED <<settings, Sound, met>>
      /\ \/ /\ \/ Goes(c, Reads(call[c]), "speak")
               \/ Goes(c, call[c], "over")
            /\ Persist(call[c].ref, call[c].b.ses, st)
         \/ TurnFails(c, call[c])
  BY DEF TurnAnswered
<1>2. Busy(call[c]) /\ ~Clears(call[c])
  BY <1>1 DEF Busy, Clears
<1>3. St(call[c]) \in States
  BY <1>1, <1>2, AtOK DEF Holds, Holders
<1>4. st \in States
  BY <1>3, StatesOK DEF States, VoiceModeStates, VoiceInv
<1> HIDE DEF st
<1>5. CASE /\ \/ Goes(c, Reads(call[c]), "speak")
              \/ Goes(c, call[c], "over")
           /\ Persist(call[c].ref, call[c].b.ses, st)
  BY <1>1, <1>4, <1>5, ReadsSilently
<1>6. CASE TurnFails(c, call[c])
  BY <1>1, <1>2, <1>3, <1>6, TurnFailsStays
<1> QED BY <1>1, <1>5, <1>6

LEMMA ChecksRecordingStays ==
  ASSUME VoiceInv, NEW c \in Calls, ChecksRecording(c), UNCHANGED mutedBy
  PROVE  VoiceInv'
<1> DEFINE m == [call[c] EXCEPT !.ref = entry[call[c].b.ses]]
           st == [St(m) EXCEPT !.voiceModeState = "muted", !.recordingState = "idle"]
<1>1. /\ call[c].pc = "record" /\ UNCHANGED <<settings, recording, handle, speech, playing, met>>
      /\ \/ Saves(c, m, st, "over") /\ UNCHANGED killed
         \/ GoesOn(c, m, "over") /\ UNCHANGED killed
         \/ /\ ~settings.micMuted /\ recording = None /\ speech # None
            /\ GoesOn(c, [m EXCEPT !.held = speech], "hushing") /\ Kill(speech.by)
         \/ /\ ~settings.micMuted /\ recording = None /\ speech = None
            /\ GoesOn(c, m, "health") /\ UNCHANGED killed
  BY DEF ChecksRecording, Silences
<1>2. Busy(call[c]) /\ ~Clears(call[c])
  BY <1>1 DEF Busy, Clears
<1>3. /\ call[c] \in CallRecords /\ call[c].b # None /\ call[c].b.ses \in Sessions
      /\ call[c].b.kind = "recordStart"
  BY <1>1, <1>2, AtOK DEF KindsAt
<1>4. m \in CallRecords /\ m.b = call[c].b /\ m.ref \in Refs
  BY <1>3, StatesOK DEF CallRecords, VoiceInv
<1> HIDE DEF m
<1>5. St(m) \in States
  BY <1>4, StatesOK DEF VoiceInv, St
<1>6. st \in States
  BY <1>5 DEF States, VoiceModeStates
<1> HIDE DEF st
<1>7. CASE Saves(c, m, st, "over") /\ UNCHANGED killed
  <2>1. Goes(c, m, "over") /\ Keeps
    BY <1>1, <1>3, <1>4, <1>6, <1>7, SavesKeeps
  <2> QED BY <1>1, <1>2, <1>3, <1>4, <1>7, <2>1, OverFits, GoesSilently DEF Hushers
<1>8. CASE GoesOn(c, m, "over") /\ UNCHANGED killed
  <2>1. Goes(c, m, "over") /\ Keeps
    BY <1>1, <1>8, GoesOnKeeps
  <2> QED BY <1>1, <1>2, <1>3, <1>4, <1>8, <2>1, OverFits, GoesSilently DEF Hushers
<1>9. CASE /\ ~settings.micMuted /\ speech # None
           /\ GoesOn(c, [m EXCEPT !.held = speech], "hushing") /\ Kill(speech.by)
  <2> DEFINE n == [m EXCEPT !.held = speech]
  <2>1. n \in CallRecords /\ n.b = call[c].b /\ n.ref = m.ref /\ n.held = speech
    BY <1>4 DEF CallRecords, VoiceInv, RecordsOK, TypeOK, Tones
  <2>2. GoesOn(c, n, "hushing")
    BY <1>9
  <2> HIDE DEF n
  <2>3. MayBeAt(n, "hushing")
    BY <1>3, <1>4, <1>9, <2>1 DEF MayBeAt, KindsAt, Holders
  <2>4. Goes(c, n, "hushing") /\ Keeps
    BY <1>1, <2>2, GoesOnKeeps
  <2> QED BY <1>1, <1>2, <1>9, <2>1, <2>3, <2>4, OverFits, GoesSilently
<1>10. CASE /\ ~settings.micMuted /\ recording = None /\ speech = None
            /\ GoesOn(c, m, "health") /\ UNCHANGED killed
  <2>1. Goes(c, m, "health") /\ Keeps
    BY <1>1, <1>10, GoesOnKeeps
  <2>2. MayBeAt(m, "health")
    BY <1>3, <1>4 DEF MayBeAt, KindsAt, Hushers
  <2> QED BY <1>1, <1>2, <1>4, <1>10, <2>1, <2>2, OverFits, GoesSilently DEF Hushers
<1> QED BY <1>1, <1>7, <1>8, <1>9, <1>10

LEMMA ChecksProviderStays ==
  ASSUME VoiceInv, NEW c \in Calls, ChecksProvider(c), UNCHANGED mutedBy
  PROVE  VoiceInv'
<1>1. /\ call[c].pc = "health" /\ UNCHANGED <<settings, recording, handle, speech, playing, killed, met>>
      /\ GoesOn(c, call[c], "opening") \/ GoesOn(c, call[c], "over")
  BY DEF ChecksProvider, Sound
<1>2. Busy(call[c]) /\ ~Clears(call[c]) /\ Opening(call[c])
  BY <1>1 DEF Busy, Clears, Opening
<1>3. /\ call[c] \in CallRecords /\ call[c].b # None /\ call[c].b.kind = "recordStart"
      /\ call[c].ref \in Refs
  BY <1>1, <1>2, AtOK DEF KindsAt, Holds, Holders
<1>4. CASE GoesOn(c, call[c], "opening")
  <2>1. Goes(c, call[c], "opening") /\ Keeps
    BY <1>1, <1>4, GoesOnKeeps
  <2>2. MayBeAt(call[c], "opening")
    BY <1>3 DEF MayBeAt, KindsAt, Hushers
  <2> QED BY <1>1, <1>2, <1>3, <2>1, <2>2, OverFits, GoesSilently DEF Hushers
<1>5. CASE GoesOn(c, call[c], "over")
  <2>1. Goes(c, call[c], "over") /\ Keeps
    BY <1>1, <1>5, GoesOnKeeps
  <2> QED BY <1>1, <1>2, <1>3, <2>1, OverFits, GoesSilently DEF Hushers
<1> QED BY <1>1, <1>4, <1>5

\* A recording is forgotten, whichever it is by now.
LEMMA RecordingFailsStays ==
  ASSUME VoiceInv, NEW c \in Calls, Busy(call[c]), call[c].b.kind # "settings",
         St(call[c]) \in States, RecordingFails(c, call[c]),
         UNCHANGED <<settings, handle, speech, playing, killed, met, mutedBy>>
  PROVE  VoiceInv'
<1> DEFINE st == [St(call[c]) EXCEPT !.recordingState = "error"]
<1>1. recording' = None /\ Saves(c, call[c], st, "over")
  BY DEF RecordingFails
<1>2. st \in States
  BY DEF States
<1> HIDE DEF st
<1>3. call[c] \in CallRecords /\ call[c].b.ses \in Sessions
  BY AtOK
<1>4. Goes(c, call[c], "over") /\ Keeps
  BY <1>1, <1>2, <1>3, SavesKeeps
<1> QED BY <1>1, <1>3, <1>4, OverFits, GoesOnQuietly DEF Hushers

LEMMA StopsHandleStays ==
  ASSUME VoiceInv, NEW c \in Calls, StopsHandle(c), UNCHANGED mutedBy
  PROVE  VoiceInv'
<1>1. /\ call[c].pc = "stopping" /\ UNCHANGED <<settings, speech, playing, killed, met>>
      /\ \/ /\ handle' = [handle EXCEPT ![call[c].held.by] = "stopped"]
            /\ GoesOn(c, call[c], "transcribing") /\ UNCHANGED recording
         \/ RecordingFails(c, call[c]) /\ UNCHANGED handle
  BY DEF StopsHandle
<1>2. Busy(call[c]) /\ ~Clears(call[c])
  BY <1>1 DEF Busy, Clears
<1>3. /\ call[c] \in CallRecords /\ call[c].b # None /\ call[c].b.kind = "recordStop"
      /\ call[c].ref \in Refs /\ St(call[c]) \in States
  BY <1>1, <1>2, AtOK DEF KindsAt, Holds, Holders
<1>4. CASE /\ handle' = [handle EXCEPT ![call[c].held.by] = "stopped"]
           /\ GoesOn(c, call[c], "transcribing") /\ UNCHANGED recording
  <2>1. handle' \in [Calls -> {"none", "open", "stopped", "cancelled"}]
    BY <1>4 DEF VoiceInv, RecordsOK, TypeOK
  <2>2. Goes(c, call[c], "transcribing") /\ Keeps
    BY <1>1, <1>4, GoesOnKeeps
  <2>3. MayBeAt(call[c], "transcribing")
    BY <1>3 DEF MayBeAt, KindsAt, Hushers
  <2> QED BY <1>1, <1>2, <1>3, <1>4, <2>1, <2>2, <2>3, OverFits, GoesOnQuietly DEF Hushers
<1>5. CASE RecordingFails(c, call[c]) /\ UNCHANGED handle
  BY <1>1, <1>2, <1>3, <1>5, RecordingFailsStays
<1> QED BY <1>1, <1>4, <1>5

LEMMA RecordingTranscribedStays ==
  ASSUME VoiceInv, NEW c \in Calls, RecordingTranscribed(c), UNCHANGED mutedBy
  PROVE  VoiceInv'
<1>1. /\ call[c].pc = "transcribing" /\ call[c].b.kind = "recordStop"
      /\ UNCHANGED <<settings, handle, speech, playing, killed, met>>
      /\ \/ recording' = None /\ GoesOn(c, call[c], "chat")
         \/ RecordingFails(c, call[c])
  BY DEF RecordingTranscribed
<1>2. Busy(call[c])
  BY <1>1 DEF Busy
<1>3. /\ call[c] \in CallRecords /\ call[c].b # None /\ call[c].ref \in Refs /\ St(call[c]) \in States
  BY <1>1, <1>2, AtOK DEF Holds, Holders
<1>4. CASE recording' = None /\ GoesOn(c, call[c], "chat")
  <2>1. Goes(c, call[c], "chat") /\ Keeps
    BY <1>1, <1>4, GoesOnKeeps
  <2>2. MayBeAt(call[c], "chat")
    BY <1>1, <1>3 DEF MayBeAt, KindsAt, Hushers
  <2> QED BY <1>1, <1>2, <1>3, <1>4, <2>1, <2>2, OverFits, GoesOnQuietly DEF Hushers
<1>5. CASE RecordingFails(c, call[c])
  BY <1>1, <1>2, <1>3, <1>5, RecordingFailsStays
<1> QED BY <1>1, <1>4, <1>5

LEMMA RecordingAnsweredStays ==
  ASSUME VoiceInv, NEW c \in Calls, RecordingAnswered(c), UNCHANGED mutedBy
  PROVE  VoiceInv'
<1> DEFINE st == [St(call[c]) EXCEPT !.recordingState = "idle"]
<1>1. /\ call[c].pc = "chat" /\ call[c].b.kind = "recordStop"
      /\ UNCHANGED <<settings, handle, speech, playing, killed, met>>
      /\ \/ /\ \/ Goes(c, Reads(call[c]), "speak")
               \/ Goes(c, call[c], "over")
            /\ Persist(call[c].ref, call[c].b.ses, st) /\ UNCHANGED recording
         \/ RecordingFails(c, call[c])
  BY DEF RecordingAnswered
<1>2. Busy(call[c])
  BY <1>1 DEF Busy
<1>3. St(call[c]) \in States
  BY <1>1, <1>2, AtOK DEF Holds, Holders
<1>4. st \in States
  BY <1>3 DEF States
<1> HIDE DEF st
<1>5. CASE /\ \/ Goes(c, Reads(call[c]), "speak")
              \/ Goes(c, call[c], "over")
           /\ Persist(call[c].ref, call[c].b.ses, st) /\ UNCHANGED recording
  BY <1>1, <1>4, <1>5, ReadsSilently DEF Sound
<1>6. CASE RecordingFails(c, call[c])
  BY <1>1, <1>2, <1>3, <1>6, RecordingFailsStays
<1> QED BY <1>1, <1>5, <1>6

LEMMA RecordingCancelledStays ==
  ASSUME VoiceInv, NEW c \in Calls, RecordingCancelled(c), UNCHANGED mutedBy
  PROVE  VoiceInv'
<1> DEFINE m == [call[c] EXCEPT !.ref = entry[call[c].b.ses]]
           st == [St(m) EXCEPT !.recordingState = "idle"]
<1>1. /\ call[c].pc = "cancelling" /\ call[c].b.kind = "recordCancel"
      /\ recording' = None /\ Saves(c, m, st, "over")
      /\ UNCHANGED <<settings, handle, speech, playing, killed, met>>
  BY DEF RecordingCancelled
<1>2. Busy(call[c])
  BY <1>1 DEF Busy
<1>3. call[c] \in CallRecords /\ call[c].b.ses \in Sessions
  BY <1>2, AtOK
<1>4. m \in CallRecords /\ m.b = call[c].b /\ m.ref \in Refs
  BY <1>3, StatesOK DEF CallRecords, VoiceInv
<1> HIDE DEF m
<1>5. St(m) \in States
  BY <1>4, StatesOK DEF VoiceInv, St
<1>6. st \in States
  BY <1>5 DEF States
<1> HIDE DEF st
<1>7. Goes(c, m, "over") /\ Keeps
  BY <1>1, <1>3, <1>4, <1>6, SavesKeeps
<1> QED BY <1>1, <1>2, <1>4, <1>7, OverFits, GoesOnQuietly DEF Hushers

-----------------------------------------------------------------------------
(* The three steps at which something begins or ends to sound. *)

\* A call is over.
LEMMA EndsCall ==
  ASSUME VoiceInv, NEW c \in Calls, Busy(call[c]), Goes(c, call[c], "over"), UNCHANGED met
  PROVE  /\ Moves(c, Over) /\ call'[c] = Over /\ \A d \in Calls \ {c} : call'[d] = call[d]
         /\ AtWork' = AtWork \ {c} /\ Over.pc = "over"
<1>1. call[c] \in CallRecords
  BY AtOK
<1>2. CallOK(Over) /\ Over.pc = "over"
  <2>1. Left(call[c], "over") = Over
    BY DEF Left
  <2>2. CallOK(Left(call[c], "over")) /\ Left(call[c], "over").pc = "over"
    BY <1>1, OverFits, LeftOK
  <2> QED BY <2>1, <2>2
<1>3. call' = [call EXCEPT ![c] = Over]
  BY DEF Goes
<1>4. ~Busy(Over)
  BY <1>2 DEF Busy
<1>5. Moves(c, Over)
  BY <1>2, <1>3, <1>4 DEF Moves
<1>6. /\ call'[c] = Over /\ \A d \in Calls \ {c} : call'[d] = call[d]
      /\ AtWork' = AtWork \ {c}
  <2>1. RecordsOK
    BY DEF VoiceInv
  <2> QED BY <2>1, <1>4, <1>5, WorkMoves
<1> QED BY <1>2, <1>5, <1>6

LEMMA OpensRecordingStays ==
  ASSUME VoiceInv, NEW c \in Calls, OpensRecording(c), UNCHANGED mutedBy
  PROVE  VoiceInv'
<1> DEFINE open == [St(call[c]) EXCEPT !.recordingState = "recording"]
           failed == [St(call[c]) EXCEPT !.recordingState = "error"]
<1>1. /\ call[c].pc = "opening" /\ UNCHANGED <<settings, speech, playing, killed, met>>
      /\ \/ /\ recording' = [by |-> c, ses |-> call[c].b.ses]
            /\ handle' = [handle EXCEPT ![c] = "open"]
            /\ Saves(c, call[c], open, "over")
         \/ Saves(c, call[c], failed, "over") /\ UNCHANGED <<recording, handle>>
  BY DEF OpensRecording
<1>2. Busy(call[c]) /\ ~Clears(call[c]) /\ Opening(call[c]) /\ c \in AtWork
  BY <1>1 DEF Busy, Clears, Opening, AtWork
<1>3. /\ St(call[c]) \in States /\ call[c].b.kind = "recordStart" /\ call[c].b.ses \in Sessions
      /\ call[c].b # None
  BY <1>1, <1>2, AtOK DEF KindsAt, Holds, Holders
<1>4. open \in States /\ failed \in States
  BY <1>3 DEF States
<1> HIDE DEF open, failed
<1>5. CASE Saves(c, call[c], failed, "over") /\ UNCHANGED <<recording, handle>>
  BY <1>1, <1>2, <1>3, <1>4, <1>5, OverFits, SavesSilently DEF Sound
<1>6. CASE /\ recording' = [by |-> c, ses |-> call[c].b.ses]
           /\ handle' = [handle EXCEPT ![c] = "open"]
           /\ Saves(c, call[c], open, "over")
  <2>1. Goes(c, call[c], "over") /\ Keeps
    BY <1>1, <1>3, <1>4, <1>6, SavesKeeps
  <2>2. Moves(c, Over) /\ AtWork' = AtWork \ {c} /\ Over.pc = "over"
    BY <1>1, <1>2, <2>1, EndsCall
  <2>3. call'[c] = Over /\ \A d \in Calls \ {c} : call'[d] = call[d]
    BY <1>1, <1>2, <2>1, EndsCall
  <2>4. recording' \in Tones /\ recording' # None /\ recording'.by = c /\ recording'.ses = call[c].b.ses
    BY <1>3, <1>6, ConstantsOK DEF Tones
  <2>5. /\ speech' \in Tones /\ mutedBy' \in Tones /\ killed' \subseteq playing' /\ playing' \subseteq Calls
        /\ handle' \in [Calls -> {"none", "open", "stopped", "cancelled"}] /\ handle'[c] = "open"
    BY <1>1, <1>6 DEF VoiceInv, RecordsOK, TypeOK, Tones
  <2>6. RecordsOK'
    BY <2>1, <2>2, <2>4, <2>5, RecordsStay DEF VoiceInv
  <2>7. MetOK'
    <3>1. speech' # None => speech'.by \in playing'
      BY <1>1 DEF VoiceInv, MetOK
    <3> QED BY <1>1, <2>2, <2>4, <2>5, <3>1, MetStays DEF VoiceInv
  <2>8. SoundOK'
    <3>1. ListensOrSpeaks'
      BY <1>1, <2>4 DEF ListensOrSpeaks, VoiceInv, SoundOK
    <3>2. OneVoice'
      BY <1>1 DEF OneVoice, VoiceInv, SoundOK
    <3>3. ASSUME NEW d \in Calls, d # c, call[d].pc \in {"speakReady", "silencing", "voicing"}
          PROVE  d \in met[c]
      <4>1. d \in AtWork
        BY <3>3 DEF AtWork
      <4>2. Begins(call[c].b)
        BY <1>3 DEF Begins
      <4> QED BY <4>1, <4>2, <1>2, <3>3 DEF VoiceInv, MetOK
    <3>4. ASSUME NEW d \in Calls
          PROVE  /\ call'[d].pc \in {"health", "opening"} /\ speech' # None => speech'.by \in met'[d]
                 /\ call'[d].pc \in {"speakReady", "silencing", "voicing"} /\ recording' # None =>
                      d \in met'[recording'.by]
                 /\ call'[d].pc = "voicing" /\ speech' # None => met'[speech'.by] # {}
                 /\ call'[d].pc \in Hushers /\ speech' # None =>
                      speech' = call'[d].held \/ met'[speech'.by] # {}
      <4>1. CASE d = c
        BY <4>1, <2>2, <2>3 DEF Hushers
      <4>2. CASE d # c
        <5>1. call'[d] = call[d]
          BY <4>2, <2>3
        <5> QED BY <5>1, <4>2, <3>3, <1>1, <2>4 DEF VoiceInv, SoundOK
      <4> QED BY <4>1, <4>2
    <3> QED BY <3>1, <3>2, <3>4 DEF SoundOK
  <2>9. MutedOK'
    <3>1. settings.micMuted => mutedBy # None /\ mutedBy.by \in met[c]
      BY <1>2 DEF VoiceInv, MutedOK
    <3>2. MuteHolds'
      BY <3>1, <1>1, <2>4 DEF MuteHolds
    <3>3. ASSUME NEW d \in Calls, settings'.micMuted, Opening(call'[d])
          PROVE  mutedBy' # None /\ mutedBy'.by \in met'[d]
      <4>1. d # c
        BY <3>3, <2>2, <2>3 DEF Opening
      <4>2. call'[d] = call[d]
        BY <4>1, <2>3
      <4> QED BY <4>2, <3>3, <1>1 DEF VoiceInv, MutedOK
    <3>4. ASSUME mutedBy # None
          PROVE  /\ call'[mutedBy.by].pc # "new"
                 /\ mutedBy.by \in AtWork' =>
                      call'[mutedBy.by].b.kind = "settings" /\ call'[mutedBy.by].b.ses = mutedBy.ses
      <4>1. mutedBy.by \in Calls
        BY <3>4 DEF VoiceInv, RecordsOK, Tones
      <4> QED BY <4>1, <3>4, <2>2, <2>3 DEF VoiceInv, MutedOK
    <3> QED BY <3>2, <3>3, <3>4 DEF MutedOK
  <2>10. LiveOK'
    BY <2>4, <2>5 DEF LiveOK
  <2> QED BY <2>6, <2>7, <2>8, <2>9, <2>10 DEF VoiceInv
<1> QED BY <1>1, <1>5, <1>6

LEMMA VoicesStays ==
  ASSUME VoiceInv, NEW c \in Calls, Voices(c), UNCHANGED mutedBy
  PROVE  VoiceInv'
<1> DEFINE st == [St(call[c]) EXCEPT !.speakingState = "speaking",
                    !.voiceModeState = IF settings.voiceModeEnabled THEN "speaking" ELSE @]
<1>1. /\ call[c].pc = "voicing" /\ speech' = [by |-> c, ses |-> call[c].b.ses]
      /\ playing' = playing \cup {c} /\ Saves(c, call[c], st, "over")
      /\ UNCHANGED <<settings, recording, handle, killed, met>>
  BY DEF Voices
<1>2. Busy(call[c]) /\ ~Clears(call[c]) /\ c \in AtWork
  BY <1>1 DEF Busy, Clears, AtWork
<1>3. /\ St(call[c]) \in States /\ call[c].b.ses \in Sessions /\ call[c].b # None
      /\ call[c].b.kind \in {"speak", "chat", "listenStop", "recordStop"}
  BY <1>1, <1>2, AtOK DEF KindsAt, Holds, Holders
<1>4. st \in States
  BY <1>3 DEF States, VoiceModeStates
<1> HIDE DEF st
<1>5. Goes(c, call[c], "over") /\ Keeps
  BY <1>1, <1>3, <1>4, SavesKeeps
<1>6. Moves(c, Over) /\ AtWork' = AtWork \ {c} /\ Over.pc = "over"
  BY <1>1, <1>2, <1>5, EndsCall
<1>7. call'[c] = Over /\ \A d \in Calls \ {c} : call'[d] = call[d]
  BY <1>1, <1>2, <1>5, EndsCall
<1>8. speech' \in Tones /\ speech' # None /\ speech'.by = c /\ c \in playing'
  BY <1>1, <1>3, ConstantsOK DEF Tones
<1>9. /\ recording' \in Tones /\ mutedBy' \in Tones /\ killed' \subseteq playing' /\ playing' \subseteq Calls
      /\ handle' \in [Calls -> {"none", "open", "stopped", "cancelled"}]
  BY <1>1 DEF VoiceInv, RecordsOK, TypeOK, Tones
<1>10. RecordsOK'
  BY <1>5, <1>6, <1>8, <1>9, RecordsStay DEF VoiceInv
<1>11. MetOK'
  BY <1>1, <1>6, <1>8, <1>9, MetStays DEF VoiceInv
<1>12. SoundOK'
  <2>1. ListensOrSpeaks'
    BY <1>1, <1>8 DEF ListensOrSpeaks, VoiceInv, SoundOK
  <2>2. OneVoice'
    <3> SUFFICES ASSUME NEW p \in playing', p \notin killed', p # c PROVE met[p] # {}
      BY <1>1, <1>8 DEF OneVoice
    <3>1. p \in playing \ killed
      BY <1>1
    <3>2. (speech # None /\ speech.by = p) \/ met[p] # {}
      BY <3>1 DEF VoiceInv, SoundOK, OneVoice
    <3> QED BY <3>2, <1>1 DEF VoiceInv, SoundOK
  <2>3. ASSUME NEW d \in Calls, d # c, call[d].pc \in {"health", "opening"} \cup {"voicing"} \cup Hushers
        PROVE  /\ call[d].pc \in {"health", "opening"} => c \in met[d]
               /\ met[c] # {}
    <3>1. d \in AtWork
      BY <2>3 DEF AtWork, Hushers
    <3>2. Begins(call[c].b)
      BY <1>3 DEF Begins
    <3>3. d \in met[c]
      BY <3>1, <3>2, <1>2, <2>3 DEF VoiceInv, MetOK
    <3>4. ASSUME call[d].pc \in {"health", "opening"} PROVE c \in met[d]
      <4>1. Busy(call[d])
        BY <3>4 DEF Busy
      <4>2. call[d].b # None /\ call[d].b.kind = "recordStart"
        BY <3>4, <4>1, AtOK DEF KindsAt
      <4>3. Begins(call[d].b)
        BY <4>2 DEF Begins
      <4> QED BY <4>3, <3>1, <1>2, <2>3 DEF VoiceInv, MetOK
    <3> QED BY <3>3, <3>4
  <2>4. ASSUME NEW d \in Calls
        PROVE  /\ call'[d].pc \in {"health", "opening"} /\ speech' # None => speech'.by \in met'[d]
               /\ call'[d].pc \in {"speakReady", "silencing", "voicing"} /\ recording' # None =>
                    d \in met'[recording'.by]
               /\ call'[d].pc = "voicing" /\ speech' # None => met'[speech'.by] # {}
               /\ call'[d].pc \in Hushers /\ speech' # None =>
                    speech' = call'[d].held \/ met'[speech'.by] # {}
    <3>1. CASE d = c
      BY <3>1, <1>6, <1>7 DEF Hushers
    <3>2. CASE d # c
      <4>1. call'[d] = call[d]
        BY <3>2, <1>7
      <4>2. call[d].pc \in {"speakReady", "silencing", "voicing"} /\ recording # None =>
              d \in met[recording.by]
        BY DEF VoiceInv, SoundOK
      <4> QED BY <4>1, <4>2, <3>2, <2>3, <1>1, <1>8
    <3> QED BY <3>1, <3>2
  <2> QED BY <2>1, <2>2, <2>4 DEF SoundOK
<1>13. MutedOK'
  <2>1. Unmuted(c, Over)
    BY <1>1, <1>3, <1>6 DEF Unmuted, Opening
  <2> QED BY <2>1, <1>1, <1>6, MutedStays DEF VoiceInv
<1>14. LiveOK'
  <2>1. Forgets(c, Over)
    BY <1>1, <1>2, <1>9 DEF Forgets
  <2> QED BY <2>1, <1>1, <1>6, LiveStays DEF VoiceInv
<1> QED BY <1>10, <1>11, <1>12, <1>13, <1>14 DEF VoiceInv

\* The end of a speech changes no call.
LEMMA PlaybackEndsStays ==
  ASSUME VoiceInv, NEW p \in Calls, PlaybackEnds(p), UNCHANGED mutedBy
  PROVE  VoiceInv'
<1>1. /\ p \in playing /\ playing' = playing \ {p} /\ killed' = killed \ {p}
      /\ UNCHANGED <<settings, recording, handle, call, met>>
  BY DEF PlaybackEnds
<1>2. \/ speech # None /\ speech.by = p /\ speech' = None
      \/ speech' = speech /\ (speech # None => speech.by # p)
  BY DEF PlaybackEnds
<1>3. Numbered' /\ objs' \in [Refs -> States]
  <2>1. CASE speech # None /\ speech.by = p
    <3>1. PICK well \in BOOLEAN :
            Persist(entry[speech.ses], speech.ses, Ended(objs[entry[speech.ses]], well))
      BY <2>1 DEF PlaybackEnds
    <3>2. speech.ses \in Sessions
      BY <2>1 DEF VoiceInv, RecordsOK, TypeOK
    <3> DEFINE st == Ended(objs[entry[speech.ses]], well)
    <3>3. objs[entry[speech.ses]] \in States /\ Idle(settings) \in VoiceModeStates
      BY <3>2, StatesOK DEF VoiceInv
    <3>4. st \in States
      BY <3>3 DEF Ended, States, VoiceModeStates
    <3> HIDE DEF st
    <3> QED BY <3>1, <3>2, <3>4, PersistKeeps DEF VoiceInv, st
  <2>2. CASE ~(speech # None /\ speech.by = p)
    <3>1. UNCHANGED <<entry, objs>>
      BY <2>2 DEF PlaybackEnds
    <3> QED BY <3>1 DEF VoiceInv, RecordsOK, TypeOK, Numbered, States
  <2> QED BY <2>1, <2>2
<1>4. AtWork' = AtWork
  BY <1>1 DEF AtWork
<1>5. RecordsOK'
  <2>1. TypeOK'
    BY <1>1, <1>2, <1>3 DEF VoiceInv, RecordsOK, TypeOK, Numbered, States
  <2> QED BY <2>1, <1>1, <1>4 DEF VoiceInv, RecordsOK
<1>6. MetOK'
  BY <1>1, <1>2, <1>4 DEF VoiceInv, MetOK
<1>7. SoundOK'
  <2>1. ListensOrSpeaks'
    BY <1>1, <1>2 DEF VoiceInv, SoundOK, ListensOrSpeaks
  <2>2. OneVoice'
    BY <1>1, <1>2 DEF VoiceInv, SoundOK, OneVoice
  <2> QED BY <2>1, <2>2, <1>1, <1>2 DEF VoiceInv, SoundOK
<1>8. MutedOK'
  BY <1>1, <1>4 DEF VoiceInv, MutedOK, MuteHolds
<1>9. LiveOK'
  BY <1>1 DEF VoiceInv, LiveOK
<1> QED BY <1>5, <1>6, <1>7, <1>8, <1>9 DEF VoiceInv

-----------------------------------------------------------------------------
(* The invariant of the records and of the sound, and what follows from it. *)

LEMMA InitInv == Init => VoiceInv
<1> SUFFICES ASSUME Init PROVE VoiceInv
  OBVIOUS
<1>1. AtWork = {} /\ IsFiniteSet(AtWork) /\ Cardinality(AtWork) = 0
  <2>1. AtWork = {}
    BY DEF Init, AtWork, Unasked
  <2> QED BY <2>1, FS_EmptySet
<1>2. settings \in Settings
  <2>1. PICK s \in Saved, begun \in BOOLEAN : settings = [s EXCEPT !.voiceModeEnabled = begun]
    BY DEF Init
  <2>2. s \in Settings
    BY CallsAssumption DEF Settings
  <2> QED BY <2>1, <2>2 DEF Settings
<1>3. entry \in [Sessions -> 1 .. Cardinality(Sessions)] /\ \A s, t \in Sessions : s # t => entry[s] # entry[t]
  <2>1. \E order \in [Sessions -> 1 .. Cardinality(Sessions)] :
          \A s, t \in Sessions : s # t => order[s] # order[t]
    <3> DEFINE n == Cardinality(Sessions)
    <3>1. n \in Nat /\ IsFiniteSet(Sessions) /\ IsFiniteSet(1 .. n) /\ Cardinality(1 .. n) = n
      <4>1. n \in Nat /\ IsFiniteSet(Sessions)
        BY ConstantsOK
      <4>2. IsFiniteSet(1 .. n)
            /\ Cardinality(1 .. n) = IF 1 > n THEN 0 ELSE n - 1 + 1
        <5> HIDE DEF n
        <5>1. 1 \in Int /\ n \in Int
          BY <4>1
        <5> QED BY <5>1, FS_Interval
      <4> QED BY <4>1, <4>2
    <3>3. ExistsBijection(Sessions, 1 .. n)
      BY <3>1, FS_SameCardinalityBij
    <3>4. PICK order \in Bijection(Sessions, 1 .. n) : TRUE
      BY <3>3 DEF ExistsBijection
    <3> QED BY <3>4 DEF Bijection, Injection, IsInjective
  <2> QED BY <2>1 DEF Init
<1>4. entry \in [Sessions -> Refs]
  BY <1>3, ConstantsOK DEF Refs
<1>5. objs \in [Refs -> States]
  <2>1. NewState(settings) \in States /\ Blank \in States
    BY <1>2 DEF Blank, NewState, States, Settings, Idle, VoiceModeStates
  <2> QED BY <2>1 DEF Init
<1>6. Unasked \in CallRecords /\ CallOK(Unasked) /\ Unasked.pc = "new"
  <2>1. Unasked \in CallRecords /\ Unasked.pc = "new" /\ Unasked.ref = NoRef /\ Unasked.b = None
    BY DEF Unasked, CallRecords, Pcs, Tones
  <2> QED BY <2>1 DEF CallOK, Busy, Holds, Holders, Hushers
<1>7. RecordsOK
  <2>1. TypeOK
    BY <1>2, <1>3, <1>4, <1>5 DEF Init, TypeOK, States, Settings
  <2>2. call \in [Calls -> CallRecords] /\ \A c \in Calls : CallOK(call[c])
    BY <1>6 DEF Init
  <2> QED BY <2>1, <2>2, <1>1, ConstantsOK DEF RecordsOK, Init, Tones
<1>8. MetOK
  BY <1>1 DEF Init, MetOK
<1>9. SoundOK
  BY DEF Init, SoundOK, ListensOrSpeaks, OneVoice
<1>10. MutedOK
  BY <1>6 DEF Init, MutedOK, MuteHolds, Opening
<1>11. LiveOK
  BY DEF Init, LiveOK
<1> QED BY <1>7, <1>8, <1>9, <1>10, <1>11 DEF VoiceInv

LEMMA NextInv == VoiceInv /\ [Next]_vars => VoiceInv'
<1> SUFFICES ASSUME VoiceInv, [Next]_vars PROVE VoiceInv'
  OBVIOUS
<1>1. CASE UNCHANGED vars
  <2>1. RecordsOK'
    BY <1>1 DEF vars, VoiceInv, RecordsOK, TypeOK, AtWork
  <2>2. MetOK'
    BY <1>1 DEF vars, VoiceInv, MetOK, AtWork
  <2>3. SoundOK' /\ LiveOK'
    BY <1>1 DEF vars, VoiceInv, SoundOK, ListensOrSpeaks, OneVoice, LiveOK
  <2>4. MutedOK'
    BY <1>1 DEF vars, VoiceInv, MutedOK, MuteHolds, AtWork
  <2> QED BY <2>1, <2>2, <2>3, <2>4 DEF VoiceInv
<1>2. ASSUME NEW c \in Calls, UpdateSettings(c) PROVE VoiceInv'
  BY <1>2, UpdateSettingsStays
<1>3. ASSUME NEW c \in Calls, Asks(c), UNCHANGED mutedBy PROVE VoiceInv'
  BY <1>3, StopSpeakingStays, SpeakStays, AnswersChatStays, UpdateVoiceModeStays, SubmitWakeWindowStays,
     StartActiveListeningStays, UpdateActiveListeningStateStays, CancelActiveListeningStays,
     StopActiveListeningStays, StartRecordingStays, StopRecordingStays, CancelRecordingStays DEF Asks
<1>4. ASSUME NEW c \in Calls, PlaybackEnds(c), UNCHANGED mutedBy PROVE VoiceInv'
  BY <1>4, PlaybackEndsStays
<1>5. ASSUME NEW c \in Calls, GoesFurther(c), UNCHANGED mutedBy PROVE VoiceInv'
  BY <1>5, HushesStays, ChecksSpeechStays, SilencesOtherStays, OtherSilentStays, VoicesStays,
     VoicingFailsStays, SettingsWrittenStays, SettingsCancelledStays, ModeCancelledStays,
     ModeSilencedStays, ModeWrittenStays, WakeTranscribedStays, ListensStays, TurnTranscribedStays,
     TurnAnsweredStays, ChecksRecordingStays, ChecksProviderStays, OpensRecordingStays,
     StopsHandleStays, RecordingTranscribedStays, RecordingAnsweredStays, RecordingCancelledStays
     DEF GoesFurther
<1> QED BY <1>1, <1>2, <1>3, <1>4, <1>5 DEF Next, Waits

LEMMA InvAlways == Spec => []VoiceInv
BY InitInv, NextInv, PTL DEF Spec

\* However calls of all sessions meet, the records of the coordinator stay well formed;
\* the agent listens and speaks at once only for two calls that were at work together,
\* and a voice that no stop can reach has begun beside another call.
THEOREM VoiceAlwaysSound == Spec => []VoiceSound
<1>1. VoiceInv => VoiceSound
  BY DEF VoiceInv, RecordsOK, SoundOK, VoiceSound
<1> QED BY <1>1, InvAlways, PTL

\* While the microphone is muted no recording is active that the mute was meant for,
\* but one that its call is about to cancel or that was started beside it.
THEOREM MuteAlwaysHolds == Spec => []MuteHolds
<1>1. VoiceInv => MuteHolds
  BY DEF VoiceInv, MutedOK
<1> QED BY <1>1, InvAlways, PTL

\* A recording that was stopped or cancelled never stays behind: when nobody is at work
\* the active one can still be stopped.
THEOREM RecordingAlwaysLive == Spec => []RecordingIsLive
<1>1. VoiceInv => RecordingIsLive
  <2> SUFFICES ASSUME VoiceInv, AtWork = {}, recording # None PROVE handle[recording.by] = "open"
    BY DEF RecordingIsLive
  <2>1. \A c \in Calls : ~Clears(call[c])
    BY DEF AtWork, Clears
  <2> QED BY <2>1 DEF VoiceInv, LiveOK
<1> QED BY <1>1, InvAlways, PTL

-----------------------------------------------------------------------------
(* What a session shows.  As long as no call and no end of a speech has come beside a *)
(* call, one call is at work, and its step knows the record it has taken.             *)

\* What a record says of the speech; that no turn is left half way; who is half way.
Honest(st, s, sp) ==
  /\ st.speakingState = "speaking" => sp # None /\ sp.ses = s
  /\ sp # None /\ sp.ses = s => st.speakingState # "idle"
  /\ st.voiceModeState = "speaking" => sp # None /\ sp.ses = s
Settled(st) == st.recordingState # "transcribing" /\ st.voiceModeState # "transcribing"
Midway(q) ==
  \/ q.pc = "stopping"
  \/ q.pc = "transcribing" /\ q.b.kind \in {"listenStop", "recordStop"}
  \/ q.pc = "chat" /\ q.b.kind = "recordStop"

\* The record of a call that is half way: stopRecording leaves the mode alone.
Settles(st, q) ==
  Settled(st) \/ (Midway(q) /\ (q.b.kind = "recordStop" => st.voiceModeState # "transcribing"))

\* Where a call has taken its session's record and nothing has replaced it since.
Fresh(q, sp) ==
  \/ q.pc \in {"speakReady", "cancelling"}
  \/ q.pc \in Hushers /\ sp # None /\ sp.ses = q.b.ses

Truth ==
  /\ \A c, d \in AtWork : c = d
  /\ \A c \in Calls : met[c] = {}
  /\ \A p \in playing : call[p].pc = "over"
  /\ speech # None /\ speech.by \in killed => \E c \in AtWork : call[c].pc \in Hushers
  /\ \A s \in Sessions :
       /\ Honest(objs[entry[s]], s, speech)
       /\ Settled(objs[entry[s]]) \/ \E c \in AtWork : Midway(call[c]) /\ call[c].b.ses = s
  /\ \A c \in AtWork :
       /\ \A t \in Sessions : call[c].ref = entry[t] => t = call[c].b.ses
       /\ call[c].ref # NoRef =>
            /\ Honest(objs[call[c].ref], call[c].b.ses, speech)
            /\ Settles(objs[call[c].ref], call[c])
            /\ Fresh(call[c], speech) => call[c].ref = entry[call[c].b.ses]

\* The client's loop (wake-mode-loop.ts) reports that a turn goes on, never that it
\* is transcribed: that is the call's that stops it.
NothingTranscribedReported ==
  \A c \in Calls : \A b \in Bodies[c] : b.kind = "listenState" => b.state # "transcribing"

\* The step of a call that is alone.
Alone(c) == AtWork \subseteq {c} /\ \A d \in Calls : met'[d] = {}

LEMMA AloneArrives ==
  ASSUME VoiceInv, Truth, NEW c \in Calls, Arrives(c), ~crossed', \A d \in Calls \ {c} : call'[d] = call[d]
  PROVE  Alone(c) /\ AtWork = {}
<1>1. AtWork = {}
  BY DEF Arrives
<1>2. ASSUME NEW d \in Calls PROVE met'[d] = {}
  <2>1. CASE d = c
    BY <2>1, <1>1 DEF Arrives, Truth
  <2>2. CASE d # c
    <3>1. call'[d].b = None
      BY <2>2, <1>1 DEF AtWork, VoiceInv, RecordsOK, CallOK
    <3> QED BY <3>1 DEF Arrives, Begins, Truth
  <2> QED BY <2>1, <2>2
<1> QED BY <1>1, <1>2 DEF Alone

LEMMA AloneGoes ==
  ASSUME Truth, NEW c \in Calls, Busy(call[c]), UNCHANGED met
  PROVE  Alone(c) /\ AtWork = {c}
<1>1. c \in AtWork
  BY DEF AtWork, Busy
<1> QED BY <1>1 DEF Truth, Alone

LEMMA TruthStays ==
  ASSUME Truth, NEW c \in Calls, Alone(c), NEW q, call' = [call EXCEPT ![c] = q],
         call \in [Calls -> CallRecords], NEW s \in Sessions,
         Busy(q) => q.b.ses = s,
         \A p \in playing' : p \in Calls /\ (p \in playing \/ p = c),
         c \in playing' => q.pc = "over",
         speech' # None /\ speech'.by \in killed' => q.pc \in Hushers,
         \A t \in Sessions \ {s} : Honest(objs'[entry'[t]], t, speech') /\ Settled(objs'[entry'[t]]),
         Honest(objs'[entry'[s]], s, speech'),
         Settled(objs'[entry'[s]]) \/ Midway(q),
         Busy(q) => \A t \in Sessions : q.ref = entry'[t] => t = s,
         Busy(q) /\ q.ref # NoRef =>
           /\ Honest(objs'[q.ref], s, speech')
           /\ Settles(objs'[q.ref], q)
           /\ Fresh(q, speech') => q.ref = entry'[s]
  PROVE  Truth'
<1>1. call'[c] = q /\ \A d \in Calls \ {c} : call'[d] = call[d]
  OBVIOUS
<1>2. AtWork' = IF Busy(q) THEN {c} ELSE {}
  BY <1>1 DEF AtWork, Busy, Alone
<1>3. Midway(q) => Busy(q)
  BY DEF Midway, Busy
<1>4. q.pc \in Hushers => Busy(q)
  BY DEF Hushers, Busy
<1>5. \A p \in playing' : call'[p].pc = "over"
  BY <1>1 DEF Truth
<1>6. \A d \in Calls : met'[d] = {}
  BY DEF Alone
<1>7. speech' # None /\ speech'.by \in killed' => \E d \in AtWork' : call'[d].pc \in Hushers
  BY <1>1, <1>2, <1>4
<1>8. ASSUME NEW t \in Sessions
      PROVE  /\ Honest(objs'[entry'[t]], t, speech')
             /\ Settled(objs'[entry'[t]]) \/ \E d \in AtWork' : Midway(call'[d]) /\ call'[d].b.ses = t
  BY <1>1, <1>2, <1>3
<1>9. ASSUME NEW d \in AtWork'
      PROVE  /\ \A t \in Sessions : call'[d].ref = entry'[t] => t = call'[d].b.ses
             /\ call'[d].ref # NoRef =>
                  /\ Honest(objs'[call'[d].ref], call'[d].b.ses, speech')
                  /\ Settles(objs'[call'[d].ref], call'[d])
                  /\ Fresh(call'[d], speech') => call'[d].ref = entry'[call'[d].b.ses]
  <2>1. d = c /\ Busy(q) /\ call'[d] = q /\ q.b.ses = s
    BY <1>1, <1>2
  <2> QED BY <2>1
<1>10. \A d, e \in AtWork' : d = e
  BY <1>2
<1> QED BY <1>5, <1>6, <1>7, <1>8, <1>9, <1>10 DEF Truth

\* The records of the other sessions.
LEMMA OthersOK ==
  ASSUME Truth, NEW c \in Calls, Alone(c), NEW s \in Sessions, Busy(call[c]) => call[c].b.ses = s,
         NEW t \in Sessions, t # s
  PROVE  Honest(objs[entry[t]], t, speech) /\ Settled(objs[entry[t]])
<1>1. \A d \in AtWork : d = c /\ Busy(call[c])
  BY DEF Alone, AtWork, Busy
<1> QED BY <1>1 DEF Truth

LEMMA OwnOK ==
  ASSUME Truth, NEW c \in Calls, Alone(c), NEW s \in Sessions,
         ~Busy(call[c]) \/ ~Midway(call[c])
  PROVE  Honest(objs[entry[s]], s, speech) /\ Settled(objs[entry[s]])
<1>1. \A d \in AtWork : d = c /\ Busy(call[c])
  BY DEF Alone, AtWork, Busy
<1> QED BY <1>1 DEF Truth

LEMMA PersistTells ==
  ASSUME VoiceInv, NEW o, NEW s \in Sessions, NEW st, Persist(o, s, st)
  PROVE  /\ entry' = [entry EXCEPT ![s] = NewRef] /\ NewRef \in Refs \ Held
         /\ entry'[s] = NewRef /\ \A t \in Sessions : t # s => entry'[t] = entry[t]
         /\ objs'[entry'[s]] = st
         /\ \A t \in Sessions : t # s => objs'[entry'[t]] = IF entry[t] = o THEN st ELSE objs[entry[t]]
         /\ \A d \in Calls : call'[d].ref # NoRef /\ call'[d].ref \in Refs \ {NewRef} =>
              objs'[call'[d].ref] = IF call'[d].ref = o THEN st ELSE objs[call'[d].ref]
<1>1. NewRef \in Refs \ Held
  BY NewRefIsNew DEF VoiceInv
<1>2. entry \in [Sessions -> Refs] /\ objs \in [Refs -> States]
  BY DEF VoiceInv, RecordsOK, TypeOK, States
<1>3. entry' = [entry EXCEPT ![s] = NewRef]
  BY DEF Persist
<1>4. objs' = [r \in Refs |-> IF r \in Held' THEN [objs EXCEPT ![o] = st, ![NewRef] = st][r] ELSE Blank]
  BY DEF Persist, Forget
<1>5. entry'[s] = NewRef /\ \A t \in Sessions : t # s => entry'[t] = entry[t] /\ entry[t] # NewRef
  BY <1>1, <1>2, <1>3 DEF Held
<1>6. \A t \in Sessions : entry'[t] \in Held' /\ entry'[t] \in Refs
  BY <1>1, <1>2, <1>5 DEF Held
<1>7. objs'[entry'[s]] = st
  BY <1>1, <1>2, <1>4, <1>5, <1>6
<1>8. ASSUME NEW t \in Sessions, t # s PROVE objs'[entry'[t]] = IF entry[t] = o THEN st ELSE objs[entry[t]]
  BY <1>8, <1>1, <1>2, <1>4, <1>5, <1>6
<1>9. ASSUME NEW d \in Calls, call'[d].ref # NoRef, call'[d].ref \in Refs \ {NewRef}
      PROVE  objs'[call'[d].ref] = IF call'[d].ref = o THEN st ELSE objs[call'[d].ref]
  <2>1. call'[d].ref \in Held'
    BY <1>9 DEF Held
  <2> QED BY <2>1, <1>9, <1>1, <1>2, <1>4
<1> QED BY <1>1, <1>3, <1>5, <1>7, <1>8, <1>9

LEMMA ForgetTells ==
  ASSUME VoiceInv, NEW content, Forget(content), UNCHANGED entry
  PROVE  /\ \A t \in Sessions : entry'[t] = entry[t] /\ objs'[entry'[t]] = content[entry[t]]
         /\ \A d \in Calls : call'[d].ref # NoRef /\ call'[d].ref \in Refs =>
              objs'[call'[d].ref] = content[call'[d].ref]
<1>1. entry \in [Sessions -> Refs]
  BY DEF VoiceInv, RecordsOK, TypeOK
<1>2. \A t \in Sessions : entry'[t] = entry[t] /\ entry'[t] \in Held' /\ entry'[t] \in Refs
  BY <1>1 DEF Held
<1>3. \A d \in Calls : call'[d].ref # NoRef /\ call'[d].ref \in Refs => call'[d].ref \in Held'
  BY DEF Held
<1> QED BY <1>2, <1>3 DEF Forget

\* What a call does alone: where it is left, and with which of its records.
LEMMA SoloPersist ==
  ASSUME VoiceInv, Truth, NEW c \in Calls, Alone(c), NEW s \in Sessions,
         Busy(call[c]) => call[c].b.ses = s, call[c].pc \notin Hushers \/ speech = None,
         NEW m \in CallRecords,
         NEW pc \in {"over", "transcribing", "chat", "stopping", "speak"}, Goes(c, m, pc),
         pc # "over" => m.b.ses = s,
         NEW o \in Refs, \A t \in Sessions \ {s} : entry[t] # o,
         m.ref \in {NoRef, o} \/ pc = "over",
         NEW st, Persist(o, s, st), UNCHANGED <<speech, playing, killed>>,
         Honest(st, s, speech), Settles(st, Left(m, pc)),
         c \notin playing
  PROVE  Truth'
<1> DEFINE q == Left(m, pc)
<1>1. /\ q.pc = pc /\ (pc = "over" => q.ref = NoRef)
      /\ (pc # "over" => q.b = m.b /\ q.ref = m.ref)
  BY DEF Left, Over, Unasked, CallRecords
<1>2. call' = [call EXCEPT ![c] = q]
  BY DEF Goes, Left
<1> HIDE DEF q
<1>3. call \in [Calls -> CallRecords] /\ playing \subseteq Calls
  BY DEF VoiceInv, RecordsOK, TypeOK
<1>4. call'[c] = q
  BY <1>2, <1>3
<1>5. /\ entry'[s] = NewRef /\ \A t \in Sessions : t # s => entry'[t] = entry[t]
      /\ NewRef \in Refs \ Held
      /\ objs'[entry'[s]] = st
      /\ \A t \in Sessions : t # s => objs'[entry'[t]] = objs[entry[t]]
  BY PersistTells
<1>6. Busy(q) => q.b.ses = s
  BY <1>1 DEF Busy
<1>7. ~(speech # None /\ speech.by \in killed)
  <2>1. speech # None => \A d \in AtWork : call[d].pc \notin Hushers
    BY DEF Alone, AtWork
  <2> QED BY <2>1 DEF Truth
<1>8. \A t \in Sessions \ {s} : Honest(objs'[entry'[t]], t, speech') /\ Settled(objs'[entry'[t]])
  BY <1>5, OthersOK
<1>9. q.ref # NoRef => q.ref = o
  BY <1>1
<1>10. ASSUME Busy(q), NEW t \in Sessions, q.ref = entry'[t] PROVE t = s
  <2>1. CASE q.ref = NoRef
    BY <2>1, <1>10, <1>5, ConstantsOK, StatesOK DEF VoiceInv
  <2>2. CASE q.ref = o
    BY <2>2, <1>10, <1>5
  <2> QED BY <2>1, <2>2, <1>9
<1>11. Busy(q) /\ q.ref # NoRef => objs'[q.ref] = st
  <2> SUFFICES ASSUME Busy(q), q.ref # NoRef PROVE objs'[q.ref] = st
    OBVIOUS
  <2>1. q.ref = o /\ call'[c].ref = o
    BY <1>4, <1>9
  <2>2. CASE o = NewRef
    BY <2>1, <2>2, <1>5
  <2>3. CASE o # NewRef
    <3>1. objs'[call'[c].ref] = IF call'[c].ref = o THEN st ELSE objs[call'[c].ref]
      BY <2>1, <2>3, ConstantsOK, PersistTells
    <3> QED BY <3>1, <2>1
  <2> QED BY <2>2, <2>3
<1>12. ~Fresh(q, speech')
  BY <1>1 DEF Fresh, Hushers
<1>13. Settles(st, q) /\ (Settled(st) \/ Midway(q))
  BY DEF q, Settles
<1>14. Honest(objs'[entry'[s]], s, speech') /\ (Settled(objs'[entry'[s]]) \/ Midway(q))
  BY <1>5, <1>13
<1>15. Busy(q) /\ q.ref # NoRef =>
        /\ Honest(objs'[q.ref], s, speech')
        /\ Settles(objs'[q.ref], q)
        /\ Fresh(q, speech') => q.ref = entry'[s]
  BY <1>11, <1>12, <1>13
<1>16. (\A p \in playing' : p \in Calls /\ (p \in playing \/ p = c)) /\ c \notin playing'
  BY <1>3
<1>17. speech' # None /\ speech'.by \in killed' => q.pc \in Hushers
  BY <1>7
<1>18. Busy(q) => \A t \in Sessions : q.ref = entry'[t] => t = s
  BY <1>10
<1> QED BY <1>2, <1>3, <1>6, <1>8, <1>14, <1>15, <1>16, <1>17, <1>18, TruthStays

LEMMA SoloGoes ==
  ASSUME VoiceInv, Truth, NEW c \in Calls, Alone(c), NEW s \in Sessions,
         Busy(call[c]) => call[c].b.ses = s,
         NEW m \in CallRecords, NEW pc \in Pcs, Goes(c, m, pc), pc # "over" => m.b.ses = s,
         NEW content, Forget(content), UNCHANGED <<entry, speech, playing>>,
         \A t \in Sessions \ {s} : content[entry[t]] = objs[entry[t]],
         Honest(content[entry[s]], s, speech), Settled(content[entry[s]]) \/ Midway(Left(m, pc)),
         pc \in Hushers \/ (killed' = killed /\ (call[c].pc \notin Hushers \/ speech = None)),
         pc # "over" /\ m.ref # NoRef =>
           /\ m.ref \in Refs /\ \A t \in Sessions : m.ref = entry[t] => t = s
           /\ Honest(content[m.ref], s, speech) /\ Settles(content[m.ref], Left(m, pc))
           /\ pc \in {"speakReady", "cancelling"} \cup Hushers => m.ref = entry[s],
         c \notin playing
  PROVE  Truth'
<1> DEFINE q == Left(m, pc)
<1>1. /\ q.pc = pc /\ (pc = "over" => q.ref = NoRef)
      /\ (pc # "over" => q.b = m.b /\ q.ref = m.ref)
  BY DEF Left, Over, Unasked, CallRecords
<1>2. call' = [call EXCEPT ![c] = q]
  BY DEF Goes, Left
<1> HIDE DEF q
<1>3. call \in [Calls -> CallRecords] /\ playing \subseteq Calls
  BY DEF VoiceInv, RecordsOK, TypeOK
<1>4. call'[c] = q
  BY <1>2, <1>3
<1>5. \A t \in Sessions : entry'[t] = entry[t] /\ objs'[entry'[t]] = content[entry[t]]
  BY ForgetTells
<1>6. Busy(q) => q.b.ses = s /\ pc # "over"
  BY <1>1 DEF Busy
<1>7. speech # None /\ speech.by \in killed' => q.pc \in Hushers
  <2>1. \A d \in AtWork : d = c
    BY DEF Alone
  <2> QED BY <2>1, <1>1 DEF Truth
<1>8. \A t \in Sessions \ {s} : Honest(objs'[entry'[t]], t, speech') /\ Settled(objs'[entry'[t]])
  BY <1>5, OthersOK
<1>9. Settled(content[entry[s]]) \/ Midway(q)
  BY DEF q
<1>10. ASSUME Busy(q), q.ref # NoRef
       PROVE  /\ Honest(objs'[q.ref], s, speech')
              /\ Settles(objs'[q.ref], q)
              /\ Fresh(q, speech') => q.ref = entry'[s]
  <2>1. pc # "over" /\ q.ref = m.ref /\ m.ref # NoRef /\ m.ref \in Refs
    BY <1>1, <1>6, <1>10
  <2>2. objs'[q.ref] = content[m.ref]
    BY <2>1, <1>4, ForgetTells
  <2>3. Settles(content[m.ref], q)
    BY <2>1 DEF q
  <2>4. Fresh(q, speech') => q.ref = entry'[s]
    BY <2>1, <1>1, <1>5 DEF Fresh
  <2> QED BY <2>1, <2>2, <2>3, <2>4
<1>11. ASSUME Busy(q), NEW t \in Sessions, q.ref = entry'[t] PROVE t = s
  <2>1. pc # "over" /\ q.ref = m.ref /\ m.ref = entry[t]
    BY <1>1, <1>5, <1>6, <1>11
  <2>2. entry[t] # NoRef
    BY StatesOK, ConstantsOK DEF VoiceInv
  <2> QED BY <2>1, <2>2
<1>12. (\A p \in playing' : p \in Calls /\ (p \in playing \/ p = c)) /\ c \notin playing'
  BY <1>3
<1>13. Honest(objs'[entry'[s]], s, speech') /\ (Settled(objs'[entry'[s]]) \/ Midway(q))
  BY <1>5, <1>9
<1>14. speech' # None /\ speech'.by \in killed' => q.pc \in Hushers
  BY <1>7
<1>15. Busy(q) => \A t \in Sessions : q.ref = entry'[t] => t = s
  BY <1>11
<1>16. Busy(q) /\ q.ref # NoRef =>
        /\ Honest(objs'[q.ref], s, speech')
        /\ Settles(objs'[q.ref], q)
        /\ Fresh(q, speech') => q.ref = entry'[s]
  BY <1>10
<1> QED BY <1>2, <1>3, <1>6, <1>8, <1>12, <1>13, <1>14, <1>15, <1>16, TruthStays

\* A call that arrives finds nobody at work.
LEMMA AskedTruth ==
  ASSUME VoiceInv, Truth, NEW c \in Calls, NEW kind, NEW me \in Asked(c, kind), Arrives(c), ~crossed',
         NEW m, NEW pc, Goes(c, m, pc)
  PROVE  /\ Alone(c) /\ ~Busy(call[c]) /\ call[c].pc \notin Hushers /\ c \notin playing
         /\ me \in CallRecords /\ me.b.ses \in Sessions /\ me.ref = entry[me.b.ses] /\ me.ref \in Refs
         /\ St(me) \in States
         /\ Honest(St(me), me.b.ses, speech) /\ Settled(St(me))
<1>1. call[c].pc = "new"
  BY AskedOK
<1>2. me \in CallRecords /\ me.b.ses \in Sessions /\ me.ref = entry[me.b.ses] /\ me.ref \in Refs
  <2>1. me \in CallRecords
    BY AskedOK
  <2>2. me.b.ses \in Sessions
    BY AskedOK
  <2>3. me.ref = entry[me.b.ses]
    <3>1. PICK b \in Bodies[c] : me = [Unasked EXCEPT !.b = b, !.ref = entry[b.ses]]
      BY DEF Asked
    <3> QED BY <3>1 DEF Unasked
  <2>4. me.ref \in Refs
    BY AskedOK
  <2> QED BY <2>1, <2>2, <2>3, <2>4
<1>4. \A d \in Calls \ {c} : call'[d] = call[d]
  BY DEF Goes, VoiceInv, RecordsOK
<1>5. Alone(c)
  BY <1>4, AloneArrives
<1>6. ~Busy(call[c]) /\ call[c].pc \notin Hushers /\ c \notin playing
  BY <1>1 DEF Busy, Hushers, Truth
<1>7. Honest(St(me), me.b.ses, speech) /\ Settled(St(me))
  BY <1>2, <1>5, <1>6, OwnOK DEF St
<1>8. St(me) \in States
  BY <1>2, StatesOK DEF VoiceInv, St
<1> QED BY <1>2, <1>5, <1>6, <1>7, <1>8

LEMMA EntriesDiffer ==
  ASSUME VoiceInv, NEW s \in Sessions
  PROVE  /\ entry[s] \in Refs /\ entry[s] # NoRef
         /\ \A t \in Sessions \ {s} : entry[t] # entry[s]
BY ConstantsOK DEF VoiceInv, RecordsOK, TypeOK

LEMMA AsksTrulySaves ==
  ASSUME VoiceInv, Truth, NEW c \in Calls, NEW kind, NEW me \in Asked(c, kind), Arrives(c), ~crossed',
         NEW m \in CallRecords, m.b = me.b, m.ref = me.ref,
         NEW pc \in {"over", "transcribing", "stopping"}, NEW st, Saves(c, m, st, pc),
         UNCHANGED <<speech, playing, killed>>,
         Honest(st, me.b.ses, speech), Settles(st, Left(m, pc))
  PROVE  Truth'
<1> DEFINE s == me.b.ses
           o == me.ref
<1>1. Goes(c, m, pc) /\ Persist(o, s, st)
  BY DEF Saves
<1>2. /\ Alone(c) /\ ~Busy(call[c]) /\ call[c].pc \notin Hushers /\ c \notin playing
      /\ s \in Sessions /\ o = entry[s] /\ o \in Refs
  BY <1>1, AskedTruth
<1>3. \A t \in Sessions \ {s} : entry[t] # o
  BY <1>2, EntriesDiffer
<1>4. m.b.ses = s /\ m.ref = o /\ Honest(st, s, speech)
  OBVIOUS
<1> HIDE DEF s, o
<1> QED BY <1>1, <1>2, <1>3, <1>4, SoloPersist

LEMMA AsksTrulyGoes ==
  ASSUME VoiceInv, Truth, NEW c \in Calls, NEW kind, NEW me \in Asked(c, kind), Arrives(c), ~crossed',
         NEW m \in CallRecords, m.b = me.b, m.ref \in {NoRef, me.ref},
         NEW pc \in Pcs, GoesOn(c, m, pc),
         UNCHANGED <<speech, playing>>, pc \in Hushers \/ killed' = killed
  PROVE  Truth'
<1> DEFINE s == me.b.ses
<1>1. Goes(c, m, pc) /\ UNCHANGED entry /\ Forget(objs)
  BY DEF GoesOn
<1>2. /\ Alone(c) /\ ~Busy(call[c]) /\ call[c].pc \notin Hushers /\ c \notin playing
      /\ s \in Sessions /\ me.ref = entry[s] /\ me.ref \in Refs
      /\ Honest(St(me), s, speech) /\ Settled(St(me))
  BY <1>1, AskedTruth
<1>3. entry[s] \in Refs /\ entry[s] # NoRef /\ \A t \in Sessions \ {s} : entry[t] # entry[s]
  BY <1>2, EntriesDiffer
<1>4. m.b.ses = s /\ Honest(objs[entry[s]], s, speech) /\ Settled(objs[entry[s]])
  BY <1>2 DEF St
<1>5. m.ref # NoRef => m.ref = entry[s]
  BY <1>2
<1> HIDE DEF s
<1>6. pc # "over" /\ m.ref # NoRef =>
           /\ m.ref \in Refs /\ \A t \in Sessions : m.ref = entry[t] => t = s
           /\ Honest(objs[m.ref], s, speech) /\ Settles(objs[m.ref], Left(m, pc))
           /\ pc \in {"speakReady", "cancelling"} \cup Hushers => m.ref = entry[s]
  BY <1>3, <1>4, <1>5 DEF Settles
<1> QED BY <1>1, <1>2, <1>3, <1>4, <1>6, SoloGoes

\* A call that goes on is the only one.
LEMMA GoesTruth ==
  ASSUME VoiceInv, Truth, NEW c \in Calls, Busy(call[c]), UNCHANGED met
  PROVE  /\ Alone(c) /\ c \notin playing
         /\ call[c] \in CallRecords /\ call[c].b.ses \in Sessions
         /\ ~Midway(call[c]) => Settled(objs[entry[call[c].b.ses]])
         /\ Honest(objs[entry[call[c].b.ses]], call[c].b.ses, speech)
         /\ call[c].ref # NoRef =>
              /\ call[c].ref \in Refs /\ \A t \in Sessions : call[c].ref = entry[t] => t = call[c].b.ses
              /\ Honest(St(call[c]), call[c].b.ses, speech)
              /\ ~Midway(call[c]) => Settled(St(call[c]))
              /\ Settles(St(call[c]), call[c])
              /\ Fresh(call[c], speech) => call[c].ref = entry[call[c].b.ses]
<1>1. Alone(c) /\ AtWork = {c} /\ c \in AtWork
  BY AloneGoes
<1>2. c \notin playing
  BY DEF Busy, Truth
<1>3. call[c] \in CallRecords /\ call[c].b.ses \in Sessions
  BY AtOK
<1>4. call[c].ref # NoRef => call[c].ref \in Refs
  BY <1>3 DEF CallRecords
<1> DEFINE s == call[c].b.ses
<1>5. /\ Honest(objs[entry[s]], s, speech)
      /\ Settled(objs[entry[s]]) \/ Midway(call[c])
  BY <1>1, <1>3 DEF Truth
<1>6. /\ \A t \in Sessions : call[c].ref = entry[t] => t = s
      /\ call[c].ref # NoRef =>
           /\ Honest(objs[call[c].ref], s, speech)
           /\ Settles(objs[call[c].ref], call[c])
           /\ Fresh(call[c], speech) => call[c].ref = entry[s]
  BY <1>1 DEF Truth
<1>7. call[c].ref # NoRef /\ ~Midway(call[c]) => Settled(objs[call[c].ref])
  BY <1>6 DEF Settles
<1> QED BY <1>1, <1>2, <1>3, <1>4, <1>5, <1>6, <1>7 DEF St

LEMMA GoesTrulySaves ==
  ASSUME VoiceInv, Truth, NEW c \in Calls, Busy(call[c]), UNCHANGED met,
         call[c].pc \notin Hushers,
         NEW m \in CallRecords, m.b = call[c].b, m.ref \in Refs,
         m.ref \in {call[c].ref, entry[call[c].b.ses]},
         NEW pc \in {"over", "chat"}, NEW st, Saves(c, m, st, pc),
         UNCHANGED <<speech, playing, killed>>,
         Honest(st, call[c].b.ses, speech), Settles(st, Left(m, pc))
  PROVE  Truth'
<1> DEFINE s == call[c].b.ses
           o == m.ref
<1>1. Goes(c, m, pc) /\ Persist(o, s, st)
  BY DEF Saves
<1>2. Alone(c) /\ c \notin playing /\ s \in Sessions
  BY GoesTruth
<1>3. \A t \in Sessions \ {s} : entry[t] # o
  <2>1. o # NoRef
    BY ConstantsOK
  <2>2. CASE m.ref = call[c].ref
    BY <2>1, <2>2, GoesTruth
  <2>3. CASE m.ref = entry[s]
    BY <2>3, <1>2, EntriesDiffer
  <2> QED BY <2>2, <2>3
<1>4. m.b.ses = s /\ m.ref = o /\ o \in Refs /\ Honest(st, s, speech) /\ call[c].b.ses = s
  OBVIOUS
<1> HIDE DEF s, o
<1> QED BY <1>1, <1>2, <1>3, <1>4, SoloPersist

LEMMA GoesTrulyGoes ==
  ASSUME VoiceInv, Truth, NEW c \in Calls, Busy(call[c]), UNCHANGED met,
         NEW m \in CallRecords, m.b = call[c].b,
         m.ref \in {NoRef, call[c].ref, entry[call[c].b.ses]},
         NEW pc \in Pcs, GoesOn(c, m, pc), UNCHANGED <<speech, playing>>,
         pc \in Hushers \/ (killed' = killed /\ (call[c].pc \notin Hushers \/ speech = None)),
         pc \in {"speakReady", "cancelling"} \cup Hushers /\ m.ref # NoRef => m.ref = entry[call[c].b.ses],
         Midway(call[c]) => m.ref = call[c].ref /\ Midway(Left(m, pc))
  PROVE  Truth'
<1> DEFINE s == call[c].b.ses
<1>1. Goes(c, m, pc) /\ UNCHANGED entry /\ Forget(objs)
  BY DEF GoesOn
<1>2. Alone(c) /\ c \notin playing /\ s \in Sessions
  BY GoesTruth
<1>3. entry[s] \in Refs /\ entry[s] # NoRef /\ \A t \in Sessions \ {s} : entry[t] # entry[s]
  BY <1>2, EntriesDiffer
<1>4. Honest(objs[entry[s]], s, speech) /\ (Settled(objs[entry[s]]) \/ Midway(Left(m, pc)))
  BY GoesTruth
<1>5. m.ref # NoRef =>
        /\ m.ref \in Refs /\ \A t \in Sessions : m.ref = entry[t] => t = s
        /\ Honest(objs[m.ref], s, speech) /\ Settles(objs[m.ref], Left(m, pc))
  <2>1. CASE m.ref = call[c].ref
    <3>1. m.ref # NoRef => /\ m.ref \in Refs /\ \A t \in Sessions : m.ref = entry[t] => t = s
                           /\ Honest(objs[m.ref], s, speech) /\ Settles(objs[m.ref], call[c])
      BY <2>1, GoesTruth DEF St
    <3>2. Midway(Left(m, pc)) => Left(m, pc).b = call[c].b
      BY DEF Midway, Left, Over, Unasked, CallRecords
    <3> QED BY <3>1, <3>2 DEF Settles
  <2>2. CASE m.ref = entry[s] /\ m.ref # call[c].ref
    <3>1. Settled(objs[entry[s]])
      BY <2>2, GoesTruth
    <3> QED BY <3>1, <2>2, <1>3, <1>4 DEF Settles
  <2> QED BY <2>1, <2>2
<1>6. m.b.ses = s /\ call[c].b.ses = s
  OBVIOUS
<1>7. pc \in {"speakReady", "cancelling"} \cup Hushers /\ m.ref # NoRef => m.ref = entry[s]
  OBVIOUS
<1> HIDE DEF s
<1> QED BY <1>1, <1>2, <1>4, <1>5, <1>6, <1>7, SoloGoes

\* Who has waited for the end of a speech finds none.
LEMMA NobodySpeaks ==
  ASSUME VoiceInv, Truth, NEW c \in Calls, call[c].pc \in Hushers, Dead(call[c].held.by)
  PROVE  speech = None
<1> SUFFICES ASSUME speech # None PROVE FALSE
  OBVIOUS
<1>1. speech.by \in playing /\ speech.by \in Calls
  BY DEF VoiceInv, MetOK, RecordsOK, TypeOK
<1>2. speech = call[c].held \/ met[speech.by] # {}
  BY DEF VoiceInv, SoundOK
<1> QED BY <1>1, <1>2 DEF Truth, Dead

-----------------------------------------------------------------------------
(* The steps at which a call arrives. *)

\* A call that leaves the session's record alone.
LEMMA AsksWithoutRecord ==
  ASSUME VoiceInv, Truth, NEW c \in Calls, NEW kind, NEW me \in Asked(c, kind), Arrives(c), ~crossed',
         NEW m, m = [me EXCEPT !.ref = NoRef] \/ m = Reads(me), NEW pc \in Pcs, GoesOn(c, m, pc),
         UNCHANGED <<speech, playing, killed>>
  PROVE  Truth'
<1>1. me \in CallRecords
  BY AskedOK
<1>2. m \in CallRecords /\ m.b = me.b /\ m.ref = NoRef
  BY <1>1 DEF CallRecords, Reads
<1> QED BY <1>2, AsksTrulyGoes

LEMMA AskedOver ==
  ASSUME VoiceInv, Truth, NEW c \in Calls, NEW kind, NEW me \in Asked(c, kind), Arrives(c), ~crossed',
         GoesOn(c, me, "over"), UNCHANGED <<speech, playing, killed>>
  PROVE  Truth'
<1>1. me \in CallRecords
  BY AskedOK
<1>2. "over" \in Pcs
  BY DEF Pcs
<1> QED BY <1>1, <1>2, AsksTrulyGoes

\* A call that tells the active speech to end.
LEMMA AsksToHush ==
  ASSUME VoiceInv, Truth, NEW c \in Calls, NEW kind, NEW me \in Asked(c, kind), Arrives(c), ~crossed',
         NEW m, \/ m = [me EXCEPT !.held = speech]
                \/ m = [me EXCEPT !.held = speech, !.ref = NoRef],
         GoesOn(c, m, "hushing"), UNCHANGED <<speech, playing>>
  PROVE  Truth'
<1>1. me \in CallRecords
  BY AskedOK
<1>2. m \in CallRecords /\ m.b = me.b /\ m.ref \in {NoRef, me.ref}
  <2>1. speech \in Tones
    BY DEF Tones, VoiceInv, RecordsOK, TypeOK
  <2> QED BY <1>1, <2>1 DEF CallRecords
<1>3. "hushing" \in Pcs /\ "hushing" \in Hushers
  BY DEF Pcs, Hushers
<1> QED BY <1>2, <1>3, AsksTrulyGoes

LEMMA StopSpeakingTruth ==
  ASSUME VoiceInv, Truth, NEW c \in Calls, StopSpeaking(c), ~crossed' PROVE Truth'
<1>1. PICK me \in Asked(c, "stopSpeaking") :
        \/ GoesOn(c, [me EXCEPT !.held = speech, !.ref = NoRef], "hushing")
        \/ GoesOn(c, me, "over") /\ UNCHANGED killed
  BY DEF StopSpeaking
<1>2. Arrives(c) /\ UNCHANGED <<speech, playing>>
  BY DEF StopSpeaking
<1>3. CASE GoesOn(c, [me EXCEPT !.held = speech, !.ref = NoRef], "hushing")
  BY <1>2, <1>3, AsksToHush
<1>4. CASE GoesOn(c, me, "over") /\ UNCHANGED killed
  BY <1>2, <1>4, AskedOver
<1> QED BY <1>1, <1>3, <1>4

LEMMA SpeakTruth ==
  ASSUME VoiceInv, Truth, NEW c \in Calls, Speak(c) \/ AnswersChat(c) \/ StartRecording(c), ~crossed'
  PROVE  Truth'
<1>1. Arrives(c) /\ UNCHANGED <<speech, playing, killed>>
  BY DEF Speak, AnswersChat, StartRecording, Sound
<1>2. PICK kind \in {"speak", "chat", "recordStart"} : \E me \in Asked(c, kind) :
        \E m \in {[me EXCEPT !.ref = NoRef], Reads(me)} : \E pc \in {"speak", "record"} : GoesOn(c, m, pc)
  BY DEF Speak, AnswersChat, StartRecording
<1>3. PICK me \in Asked(c, kind) :
        \E m \in {[me EXCEPT !.ref = NoRef], Reads(me)} : \E pc \in {"speak", "record"} : GoesOn(c, m, pc)
  BY <1>2
<1>4. PICK m \in {[me EXCEPT !.ref = NoRef], Reads(me)}, pc \in {"speak", "record"} : GoesOn(c, m, pc)
  BY <1>3
<1>5. pc \in Pcs
  BY DEF Pcs
<1> QED BY <1>1, <1>4, <1>5, AsksWithoutRecord

LEMMA CancelRecordingTruth ==
  ASSUME VoiceInv, Truth, NEW c \in Calls, CancelRecording(c), ~crossed' PROVE Truth'
<1>1. PICK me \in Asked(c, "recordCancel") :
        GoesOn(c, [me EXCEPT !.ref = NoRef], "cancelling") \/ GoesOn(c, me, "over")
  BY DEF CancelRecording
<1>2. Arrives(c) /\ UNCHANGED <<speech, playing, killed>>
  BY DEF CancelRecording
<1>3. CASE GoesOn(c, [me EXCEPT !.ref = NoRef], "cancelling")
  <2>1. "cancelling" \in Pcs
    BY DEF Pcs
  <2> QED BY <2>1, <1>2, <1>3, AsksWithoutRecord
<1>4. CASE GoesOn(c, me, "over")
  BY <1>2, <1>4, AskedOver
<1> QED BY <1>1, <1>3, <1>4

LEMMA UpdateSettingsTruth ==
  ASSUME VoiceInv, Truth, NEW c \in Calls, UpdateSettings(c), ~crossed' PROVE Truth'
<1>1. PICK me \in Asked(c, "settings") : GoesOn(c, [me EXCEPT !.ref = NoRef], "written")
  BY DEF UpdateSettings
<1>2. Arrives(c) /\ UNCHANGED <<speech, playing, killed>>
  BY DEF UpdateSettings, Sound
<1>3. "written" \in Pcs
  BY DEF Pcs
<1> QED BY <1>1, <1>2, <1>3, AsksWithoutRecord

\* A call that saves the record it has taken, and is over or transcribes.
LEMMA AsksAndTells ==
  ASSUME VoiceInv, Truth, NEW c \in Calls, NEW kind, NEW me \in Asked(c, kind), Arrives(c), ~crossed',
         NEW pc \in {"over", "transcribing"}, NEW st, Saves(c, me, st, pc),
         UNCHANGED <<speech, playing, killed>>,
         Honest(st, me.b.ses, speech), Settles(st, Left(me, pc))
  PROVE  Truth'
<1>1. me \in CallRecords
  BY AskedOK
<1> QED BY <1>1, AsksTrulySaves

\* The record a call has taken on its arrival.
LEMMA TakenOK ==
  ASSUME VoiceInv, Truth, NEW c \in Calls, NEW kind, NEW me \in Asked(c, kind), Arrives(c), ~crossed',
         NEW m, NEW pc, NEW st, Goes(c, m, pc) \/ GoesOn(c, m, pc) \/ Saves(c, m, st, pc)
  PROVE  St(me) \in States /\ Honest(St(me), me.b.ses, speech) /\ Settled(St(me))
<1>1. Goes(c, m, pc)
  BY DEF GoesOn, Saves
<1> QED BY <1>1, AskedTruth

\* What a record says after the turn of its session.
LEMMA IdleTells ==
  ASSUME VoiceInv, NEW me, NEW s, St(me) \in States, Honest(St(me), s, speech)
  PROVE  Honest(IdleState(me), s, speech) /\ Settled(IdleState(me)) /\ IdleState(me) \in States
<1>1. Idle(settings) \in {"off", "muted", "conversation_waiting"}
  BY DEF Idle
<1>2. IdleState(me) \in States
  BY StatesOK DEF VoiceInv, IdleState
<1>3. /\ IdleState(me).recordingState = "idle" /\ IdleState(me).voiceModeState = Idle(settings)
      /\ IdleState(me).speakingState = St(me).speakingState
  BY DEF IdleState, States
<1> QED BY <1>1, <1>2, <1>3 DEF Honest, Settled

LEMMA SubmitWakeWindowTruth ==
  ASSUME VoiceInv, Truth, NEW c \in Calls, SubmitWakeWindow(c), ~crossed' PROVE Truth'
<1>1. PICK me \in Asked(c, "wake") :
        \/ Saves(c, me, [St(me) EXCEPT !.wakeModeEnabled = settings.voiceModeEnabled,
                                       !.voiceModeState = Idle(settings)], "over")
        \/ SpeechOf(me.b.ses) /\ Saves(c, me, [St(me) EXCEPT !.voiceModeState = "speaking"], "over")
        \/ Saves(c, me, [St(me) EXCEPT !.voiceModeState = "wake_listening"], "transcribing")
  BY DEF SubmitWakeWindow
<1>2. PICK state \in VoiceModeStates, on \in BOOLEAN, pc \in {"over", "transcribing"} :
        /\ Saves(c, me, [St(me) EXCEPT !.wakeModeEnabled = on, !.voiceModeState = state], pc)
        /\ state # "transcribing" /\ (state = "speaking" => SpeechOf(me.b.ses))
  <2>1. me.ref \in Refs
    BY AskedOK
  <2>2. St(me) \in States /\ settings \in Settings /\ Idle(settings) \in VoiceModeStates
    BY <2>1, StatesOK DEF VoiceInv, St
  <2>3. /\ [St(me) EXCEPT !.voiceModeState = "speaking"] =
             [St(me) EXCEPT !.wakeModeEnabled = St(me).wakeModeEnabled, !.voiceModeState = "speaking"]
        /\ [St(me) EXCEPT !.voiceModeState = "wake_listening"] =
             [St(me) EXCEPT !.wakeModeEnabled = St(me).wakeModeEnabled, !.voiceModeState = "wake_listening"]
        /\ St(me).wakeModeEnabled \in BOOLEAN
    BY <2>2 DEF States
  <2>4. settings.voiceModeEnabled \in BOOLEAN /\ Idle(settings) \notin {"transcribing", "speaking"}
    BY <2>2 DEF Settings, Idle
  <2>5. {"speaking", "wake_listening"} \subseteq VoiceModeStates
    BY DEF VoiceModeStates
  <2> QED BY <1>1, <2>2, <2>3, <2>4, <2>5
<1>3. Arrives(c) /\ UNCHANGED <<speech, playing, killed>>
  BY DEF SubmitWakeWindow, Sound
<1> DEFINE st == [St(me) EXCEPT !.wakeModeEnabled = on, !.voiceModeState = state]
<1>4. Saves(c, me, st, pc)
  BY <1>2
<1>5. St(me) \in States /\ Honest(St(me), me.b.ses, speech) /\ Settled(St(me))
  BY <1>3, <1>4, TakenOK
<1>6. Honest(st, me.b.ses, speech) /\ Settles(st, Left(me, pc))
  <2>1. /\ st.voiceModeState = state /\ st.speakingState = St(me).speakingState
        /\ st.recordingState = St(me).recordingState
    BY <1>5 DEF States
  <2> QED BY <2>1, <1>2, <1>5 DEF Honest, Settles, Settled, SpeechOf
<1> HIDE DEF st
<1> QED BY <1>3, <1>4, <1>6, AsksAndTells

LEMMA StartActiveListeningTruth ==
  ASSUME VoiceInv, Truth, NEW c \in Calls, StartActiveListening(c), ~crossed' PROVE Truth'
<1>1. PICK me \in Asked(c, "listenStart") :
        \/ GoesOn(c, me, "over") /\ UNCHANGED killed
        \/ Saves(c, me, IdleState(me), "over") /\ UNCHANGED killed
        \/ GoesOn(c, [me EXCEPT !.held = speech], "hushing")
        \/ Saves(c, me, Listening(St(me)), "over") /\ UNCHANGED killed
  BY DEF StartActiveListening
<1>2. Arrives(c) /\ UNCHANGED <<speech, playing>>
  BY DEF StartActiveListening
<1>3. CASE GoesOn(c, me, "over") /\ UNCHANGED killed
  BY <1>2, <1>3, AskedOver
<1>4. CASE GoesOn(c, [me EXCEPT !.held = speech], "hushing")
  BY <1>2, <1>4, AsksToHush
<1>5. CASE Saves(c, me, IdleState(me), "over") /\ UNCHANGED killed
  <2>1. St(me) \in States /\ Honest(St(me), me.b.ses, speech)
    BY <1>2, <1>5, TakenOK
  <2>2. Honest(IdleState(me), me.b.ses, speech) /\ Settles(IdleState(me), Left(me, "over"))
    BY <2>1, IdleTells DEF Settles
  <2> QED BY <1>2, <1>5, <2>2, AsksAndTells
<1>6. CASE Saves(c, me, Listening(St(me)), "over") /\ UNCHANGED killed
  <2>1. St(me) \in States /\ Honest(St(me), me.b.ses, speech)
    BY <1>2, <1>6, TakenOK
  <2>2. Honest(Listening(St(me)), me.b.ses, speech) /\ Settles(Listening(St(me)), Left(me, "over"))
    BY <2>1 DEF Settles, Settled, Honest, Listening, States
  <2> QED BY <1>2, <1>6, <2>2, AsksAndTells
<1> QED BY <1>1, <1>3, <1>4, <1>5, <1>6

LEMMA UpdateActiveListeningStateTruth ==
  ASSUME NothingTranscribedReported, VoiceInv, Truth, NEW c \in Calls, UpdateActiveListeningState(c),
         ~crossed'
  PROVE  Truth'
<1>1. PICK me \in Asked(c, "listenState") :
        \/ /\ me.b.state \in Reportable
           /\ Saves(c, me, [St(me) EXCEPT !.voiceModeState = me.b.state], "over")
        \/ GoesOn(c, me, "over")
  BY DEF UpdateActiveListeningState
<1>2. Arrives(c) /\ UNCHANGED <<speech, playing, killed>>
  BY DEF UpdateActiveListeningState, Sound
<1>3. CASE /\ me.b.state \in Reportable
           /\ Saves(c, me, [St(me) EXCEPT !.voiceModeState = me.b.state], "over")
  <2> DEFINE st == [St(me) EXCEPT !.voiceModeState = me.b.state]
  <2>1. Saves(c, me, st, "over")
    BY <1>3
  <2>2. St(me) \in States /\ Honest(St(me), me.b.ses, speech) /\ Settled(St(me))
    BY <1>2, <2>1, TakenOK
  <2>3. me.b \in Bodies[c]
    BY AskedOK
  <2>4. me.b.kind = "listenState"
    BY AskedOK
  <2>5. me.b.state \notin {"transcribing", "speaking"}
    BY <1>3, <2>3, <2>4 DEF NothingTranscribedReported, Reportable
  <2>6. Honest(st, me.b.ses, speech) /\ Settles(st, Left(me, "over"))
    BY <2>2, <2>5 DEF Settles, Settled, Honest, States
  <2> HIDE DEF st
  <2> QED BY <1>2, <2>1, <2>6, AsksAndTells
<1>4. CASE GoesOn(c, me, "over")
  BY <1>2, <1>4, AskedOver
<1> QED BY <1>1, <1>3, <1>4

LEMMA CancelActiveListeningTruth ==
  ASSUME VoiceInv, Truth, NEW c \in Calls, CancelActiveListening(c), ~crossed' PROVE Truth'
<1>1. PICK me \in Asked(c, "listenCancel") : Saves(c, me, IdleState(me), "over")
  BY DEF CancelActiveListening
<1>2. Arrives(c) /\ UNCHANGED <<speech, playing, killed>>
  BY DEF CancelActiveListening, Sound
<1>3. St(me) \in States /\ Honest(St(me), me.b.ses, speech)
  BY <1>1, <1>2, TakenOK
<1>4. Honest(IdleState(me), me.b.ses, speech) /\ Settles(IdleState(me), Left(me, "over"))
  BY <1>3, IdleTells DEF Settles
<1> QED BY <1>1, <1>2, <1>4, AsksAndTells

LEMMA StopActiveListeningTruth ==
  ASSUME VoiceInv, Truth, NEW c \in Calls, StopActiveListening(c), ~crossed' PROVE Truth'
<1>1. PICK me \in Asked(c, "listenStop") :
        \/ Saves(c, me, IdleState(me), "over")
        \/ Saves(c, me, [St(me) EXCEPT !.voiceModeState = "transcribing",
                                       !.recordingState = "transcribing"], "transcribing")
  BY DEF StopActiveListening
<1>2. Arrives(c) /\ UNCHANGED <<speech, playing, killed>>
  BY DEF StopActiveListening, Sound
<1>3. CASE Saves(c, me, IdleState(me), "over")
  <2>1. St(me) \in States /\ Honest(St(me), me.b.ses, speech)
    BY <1>2, <1>3, TakenOK
  <2>2. Honest(IdleState(me), me.b.ses, speech) /\ Settles(IdleState(me), Left(me, "over"))
    BY <2>1, IdleTells DEF Settles
  <2> QED BY <1>2, <1>3, <2>2, AsksAndTells
<1>4. CASE Saves(c, me, [St(me) EXCEPT !.voiceModeState = "transcribing",
                                       !.recordingState = "transcribing"], "transcribing")
  <2> DEFINE st == [St(me) EXCEPT !.voiceModeState = "transcribing", !.recordingState = "transcribing"]
  <2>1. Saves(c, me, st, "transcribing")
    BY <1>4
  <2>2. St(me) \in States /\ Honest(St(me), me.b.ses, speech)
    BY <1>2, <2>1, TakenOK
  <2>3. Honest(st, me.b.ses, speech)
    BY <2>2 DEF Honest, States
  <2>4. me \in CallRecords
    BY AskedOK
  <2>5. me.b.kind = "listenStop"
    BY AskedOK
  <2>6. Settles(st, Left(me, "transcribing"))
    <3>1. Left(me, "transcribing").pc = "transcribing" /\ Left(me, "transcribing").b = me.b
      BY <2>4 DEF Left, CallRecords
    <3> QED BY <3>1, <2>5 DEF Settles, Midway
  <2> HIDE DEF st
  <2> QED BY <1>2, <2>1, <2>3, <2>6, AsksAndTells
<1> QED BY <1>1, <1>3, <1>4

LEMMA StopRecordingTruth ==
  ASSUME VoiceInv, Truth, NEW c \in Calls, StopRecording(c), ~crossed' PROVE Truth'
<1>1. PICK me \in Asked(c, "recordStop") :
        \/ Saves(c, [me EXCEPT !.held = recording],
                 [St(me) EXCEPT !.recordingState = "transcribing"], "stopping")
        \/ GoesOn(c, me, "over")
  BY DEF StopRecording
<1>2. Arrives(c) /\ UNCHANGED <<speech, playing, killed>>
  BY DEF StopRecording, Sound
<1>3. CASE Saves(c, [me EXCEPT !.held = recording],
                 [St(me) EXCEPT !.recordingState = "transcribing"], "stopping")
  <2> DEFINE m == [me EXCEPT !.held = recording]
             st == [St(me) EXCEPT !.recordingState = "transcribing"]
  <2>1. Saves(c, m, st, "stopping")
    BY <1>3
  <2>2. St(me) \in States /\ Honest(St(me), me.b.ses, speech) /\ Settled(St(me))
    <3> HIDE DEF m, st
    <3> QED BY <1>2, <2>1, TakenOK
  <2>3. me \in CallRecords
    BY AskedOK
  <2>4. m \in CallRecords /\ m.b = me.b /\ m.ref = me.ref
    BY <2>3 DEF CallRecords, Tones, VoiceInv, RecordsOK, TypeOK
  <2>5. Honest(st, me.b.ses, speech) /\ st.voiceModeState # "transcribing"
    BY <2>2 DEF Honest, States, Settled
  <2> HIDE DEF m, st
  <2>6. Settles(st, Left(m, "stopping"))
    <3>1. Left(m, "stopping").pc = "stopping"
      BY <2>4 DEF Left, CallRecords
    <3> QED BY <3>1, <2>5 DEF Settles, Midway
  <2> QED BY <1>2, <2>1, <2>4, <2>5, <2>6, AsksTrulySaves
<1>4. CASE GoesOn(c, me, "over")
  BY <1>2, <1>4, AskedOver
<1> QED BY <1>1, <1>3, <1>4

\* A call that sets the mode does it with its session's record.
LEMMA SetsModeTruly ==
  ASSUME VoiceInv, Truth, NEW c \in Calls, Alone(c), NEW s \in Sessions, c \notin playing,
         Busy(call[c]) => call[c].b.ses = s, call[c].pc \notin Hushers,
         NEW me \in CallRecords, me.b.ses = s, me.ref = entry[s],
         NEW st, Honest(st, s, speech), Settled(st), SetsMode(c, me, st), UNCHANGED <<speech, playing>>
  PROVE  Truth'
<1> DEFINE content == [objs EXCEPT ![me.ref] = st]
<1>1. UNCHANGED entry /\ Forget(content)
  BY DEF SetsMode
<1>2. /\ entry[s] \in Refs /\ \A t \in Sessions \ {s} : entry[t] # entry[s]
  BY EntriesDiffer
<1>3. /\ content[entry[s]] = st
      /\ \A t \in Sessions \ {s} : content[entry[t]] = objs[entry[t]]
  <2>1. objs \in [Refs -> States] /\ entry \in [Sessions -> Refs]
    BY DEF VoiceInv, RecordsOK, TypeOK, States
  <2> QED BY <2>1, <1>2
<1> HIDE DEF content
<1>4. CASE Goes(c, [me EXCEPT !.held = speech], "silencingMode")
  <2> DEFINE m == [me EXCEPT !.held = speech]
  <2>1. m \in CallRecords /\ m.b = me.b /\ m.ref = me.ref
    BY DEF CallRecords, Tones, VoiceInv, RecordsOK, TypeOK
  <2>2. Goes(c, m, "silencingMode")
    BY <1>4
  <2> HIDE DEF m
  <2>3. "silencingMode" \in Pcs /\ "silencingMode" \in Hushers
    BY DEF Pcs, Hushers
  <2>4. Settles(content[entry[s]], Left(m, "silencingMode"))
    BY <1>3 DEF Settles
  <2>5. /\ m.ref \in Refs /\ (\A t \in Sessions : m.ref = entry[t] => t = s)
        /\ Honest(content[m.ref], s, speech) /\ Settles(content[m.ref], Left(m, "silencingMode"))
        /\ m.ref = entry[s]
    BY <1>2, <1>3, <2>1, <2>4
  <2> QED BY <1>1, <1>3, <2>1, <2>2, <2>3, <2>5, SoloGoes
<1>5. CASE Goes(c, me, "written") /\ UNCHANGED killed
  <2>1. "written" \in Pcs
    BY DEF Pcs
  <2>2. Settles(content[entry[s]], Left(me, "written"))
    BY <1>3 DEF Settles
  <2>3. /\ me.ref \in Refs /\ (\A t \in Sessions : me.ref = entry[t] => t = s)
        /\ Honest(content[me.ref], s, speech) /\ Settles(content[me.ref], Left(me, "written"))
        /\ me.ref = entry[s]
    BY <1>2, <1>3, <2>2
  <2> QED BY <1>1, <1>3, <1>5, <2>1, <2>3, SoloGoes
<1> QED BY <1>4, <1>5 DEF SetsMode

LEMMA UpdateVoiceModeTruth ==
  ASSUME VoiceInv, Truth, NEW c \in Calls, UpdateVoiceMode(c), ~crossed' PROVE Truth'
<1>1. PICK me \in Asked(c, "mode") :
        \/ GoesOn(c, me, "cancelling") /\ UNCHANGED killed
        \/ SetsMode(c, me, St(me))
  BY DEF UpdateVoiceMode
<1>2. Arrives(c) /\ UNCHANGED <<speech, playing>>
  BY DEF UpdateVoiceMode
<1>3. me \in CallRecords
  BY AskedOK
<1>4. CASE GoesOn(c, me, "cancelling") /\ UNCHANGED killed
  <2>1. "cancelling" \in Pcs
    BY DEF Pcs
  <2> QED BY <1>2, <1>3, <1>4, <2>1, AsksTrulyGoes
<1>5. CASE SetsMode(c, me, St(me))
  <2>1. PICK m \in {[me EXCEPT !.held = speech], me}, pc \in {"silencingMode", "written"} :
          Goes(c, m, pc)
    BY <1>5 DEF SetsMode
  <2>2. /\ Alone(c) /\ ~Busy(call[c]) /\ call[c].pc \notin Hushers /\ c \notin playing
        /\ me.b.ses \in Sessions /\ me.ref = entry[me.b.ses]
        /\ Honest(St(me), me.b.ses, speech) /\ Settled(St(me))
    BY <1>2, <2>1, AskedTruth
  <2> DEFINE s == me.b.ses
             st == St(me)
  <2>3. /\ s \in Sessions /\ me.b.ses = s /\ me.ref = entry[s] /\ Honest(st, s, speech) /\ Settled(st)
        /\ SetsMode(c, me, st)
    BY <1>5, <2>2
  <2> HIDE DEF s, st
  <2> QED BY <1>2, <1>3, <2>2, <2>3, SetsModeTruly
<1> QED BY <1>1, <1>4, <1>5

-----------------------------------------------------------------------------
(* The steps of a call that goes on. *)

\* Where calls that go on are not about to hush or half way.
LEMMA PlacesDiffer ==
  ASSUME NEW q
  PROVE  /\ q.pc \in {"speak", "speakReady", "voicing", "written", "listen", "cancelling", "record",
                      "health", "opening"} => Busy(q) /\ q.pc \notin Hushers /\ ~Midway(q)
         /\ q.pc \in {"transcribing", "chat", "stopping"} => Busy(q) /\ q.pc \notin Hushers
         /\ q.pc = "transcribing" /\ q.b.kind = "wake" => ~Midway(q)
         /\ q.pc = "chat" /\ q.b.kind = "listenStop" => ~Midway(q)
         /\ q.pc \in Hushers => Busy(q) /\ ~Midway(q)
BY DEF Busy, Hushers, Midway

LEMMA ThrowsTruly ==
  ASSUME VoiceInv, Truth, NEW c \in Calls, Busy(call[c]), call[c].pc \notin Hushers, ~Midway(call[c]),
         Throws(c, call[c]), UNCHANGED <<met, speech, playing, killed>>
  PROVE  Truth'
<1> DEFINE s == call[c].b.ses
           o == entry[s]
           st == [objs[o] EXCEPT !.speakingState = "error"]
<1>1. /\ Alone(c) /\ c \notin playing /\ call[c] \in CallRecords /\ s \in Sessions
      /\ Honest(objs[o], s, speech) /\ Settled(objs[o])
  BY GoesTruth
<1>2. CASE call[c].auto
  <2>1. Goes(c, call[c], "over") /\ Persist(o, s, st)
    BY <1>2 DEF Throws
  <2>2. o \in Refs /\ \A t \in Sessions \ {s} : entry[t] # o
    BY <1>1, EntriesDiffer
  <2>3. objs[o] \in States
    BY <1>1, StatesOK DEF VoiceInv
  <2>4. Honest(st, s, speech) /\ Settles(st, Left(call[c], "over"))
    BY <1>1, <2>3 DEF Honest, Settles, Settled, States
  <2>5. call[c].b.ses = s
    OBVIOUS
  <2> HIDE DEF s, o, st
  <2> QED BY <1>1, <2>1, <2>2, <2>4, <2>5, SoloPersist
<1>3. CASE ~call[c].auto
  <2>1. GoesOn(c, call[c], "over") /\ "over" \in Pcs
    BY <1>3 DEF Throws, Pcs
  <2>2. "over" \notin {"speakReady", "cancelling"} \cup Hushers
    BY DEF Hushers
  <2> QED BY <1>1, <2>1, <2>2, GoesTrulyGoes
<1> QED BY <1>2, <1>3

LEMMA ChecksSpeechTruth ==
  ASSUME VoiceInv, Truth, NEW c \in Calls, ChecksSpeech(c) PROVE Truth'
<1>1. call[c].pc = "speak" /\ UNCHANGED <<speech, playing, killed, met>>
  BY DEF ChecksSpeech, Sound
<1>2. Busy(call[c]) /\ call[c].pc \notin Hushers /\ ~Midway(call[c])
  BY <1>1, PlacesDiffer
<1>3. CASE MaySpeak
  <2> DEFINE m == [call[c] EXCEPT !.ref = entry[call[c].b.ses]]
  <2>1. call[c] \in CallRecords /\ entry[call[c].b.ses] \in Refs
    BY <1>1, <1>2, GoesTruth, EntriesDiffer
  <2>2. m \in CallRecords /\ m.b = call[c].b /\ m.ref = entry[call[c].b.ses]
    BY <2>1 DEF CallRecords
  <2>3. GoesOn(c, m, "speakReady") /\ "speakReady" \in Pcs
    BY <1>3 DEF ChecksSpeech, Pcs
  <2> HIDE DEF m
  <2> QED BY <1>1, <1>2, <2>2, <2>3, GoesTrulyGoes
<1>4. CASE ~MaySpeak
  BY <1>1, <1>2, <1>4, ThrowsTruly DEF ChecksSpeech
<1> QED BY <1>3, <1>4

\* A call that goes on with the record it has, for a place where that need not be the
\* session's any more.
LEMMA GoesAlong ==
  ASSUME VoiceInv, Truth, NEW c \in Calls, Busy(call[c]), UNCHANGED <<met, speech, playing, killed>>,
         call[c].pc \notin Hushers, NEW pc \in {"over", "voicing", "opening", "transcribing", "chat"},
         GoesOn(c, call[c], pc), Midway(call[c]) => Midway(Left(call[c], pc))
  PROVE  Truth'
<1>1. call[c] \in CallRecords
  BY GoesTruth
<1>2. pc \in Pcs /\ pc \notin {"speakReady", "cancelling"} \cup Hushers
  BY DEF Pcs, Hushers
<1> QED BY <1>1, <1>2, GoesTrulyGoes

LEMMA SilencesOtherTruth ==
  ASSUME VoiceInv, Truth, NEW c \in Calls, SilencesOther(c) PROVE Truth'
<1>1. call[c].pc = "speakReady" /\ UNCHANGED <<speech, playing, met>>
  BY DEF SilencesOther
<1>2. Busy(call[c]) /\ call[c].pc \notin Hushers /\ ~Midway(call[c])
  BY <1>1, PlacesDiffer
<1>3. call[c] \in CallRecords /\ (call[c].ref # NoRef => call[c].ref = entry[call[c].b.ses])
  <2>1. Fresh(call[c], speech)
    BY <1>1 DEF Fresh
  <2> QED BY <1>1, <1>2, <2>1, GoesTruth
<1>4. CASE Throws(c, call[c]) /\ UNCHANGED killed
  BY <1>1, <1>2, <1>4, ThrowsTruly
<1>5. CASE GoesOn(c, call[c], "voicing") /\ UNCHANGED killed
  BY <1>1, <1>2, <1>5, GoesAlong
<1>6. CASE GoesOn(c, [call[c] EXCEPT !.held = speech], "silencing")
  <2> DEFINE m == [call[c] EXCEPT !.held = speech]
  <2>1. m \in CallRecords /\ m.b = call[c].b /\ m.ref = call[c].ref
    BY <1>3 DEF CallRecords, Tones, VoiceInv, RecordsOK, TypeOK
  <2>2. GoesOn(c, m, "silencing") /\ "silencing" \in Pcs /\ "silencing" \in Hushers
    BY <1>6 DEF Pcs, Hushers
  <2> HIDE DEF m
  <2> QED BY <1>1, <1>2, <1>3, <2>1, <2>2, GoesTrulyGoes
<1> QED BY <1>4, <1>5, <1>6 DEF SilencesOther

LEMMA OtherSilentTruth ==
  ASSUME VoiceInv, Truth, NEW c \in Calls, OtherSilent(c) PROVE Truth'
<1> DEFINE m == [call[c] EXCEPT !.held = None]
<1>1. /\ call[c].pc = "silencing" /\ Dead(call[c].held.by) /\ speech' = None
      /\ GoesOn(c, m, "voicing") /\ UNCHANGED <<playing, killed, met>>
  BY DEF OtherSilent
<1>2. call[c].pc \in Hushers
  BY <1>1 DEF Hushers
<1>3. Busy(call[c]) /\ ~Midway(call[c])
  BY <1>2, PlacesDiffer
<1>4. speech = None /\ speech' = speech
  BY <1>1, <1>2, NobodySpeaks
<1>5. call[c] \in CallRecords
  BY <1>1, <1>3, GoesTruth
<1>6. m \in CallRecords /\ m.b = call[c].b /\ m.ref = call[c].ref
  BY <1>5 DEF CallRecords, Tones
<1>7. "voicing" \in Pcs /\ "voicing" \notin {"speakReady", "cancelling"} \cup Hushers
  BY DEF Pcs, Hushers
<1> HIDE DEF m
<1> QED BY <1>1, <1>3, <1>4, <1>6, <1>7, GoesTrulyGoes

\* What a call knows of the record it holds.
LEMMA OwnTells ==
  ASSUME VoiceInv, Truth, NEW c \in Calls, Busy(call[c]), Holds(call[c]), UNCHANGED met
  PROVE  /\ call[c] \in CallRecords /\ call[c].ref \in Refs /\ call[c].ref # NoRef
         /\ St(call[c]) \in States
         /\ Honest(St(call[c]), call[c].b.ses, speech) /\ Settles(St(call[c]), call[c])
         /\ ~Midway(call[c]) => Settled(St(call[c]))
<1>1. call[c] \in CallRecords /\ call[c].ref \in Refs /\ St(call[c]) \in States
  BY AtOK
<1>2. call[c].ref # NoRef
  BY <1>1, ConstantsOK
<1> QED BY <1>1, <1>2, GoesTruth

LEMMA SavesTruly ==
  ASSUME VoiceInv, Truth, NEW c \in Calls, Busy(call[c]), Holds(call[c]), call[c].pc \notin Hushers,
         NEW pc \in {"over", "chat"}, NEW st, Saves(c, call[c], st, pc),
         UNCHANGED <<met, speech, playing, killed>>,
         Honest(st, call[c].b.ses, speech), Settles(st, Left(call[c], pc))
  PROVE  Truth'
<1>1. call[c] \in CallRecords /\ call[c].ref \in Refs
  BY OwnTells
<1> QED BY <1>1, GoesTrulySaves

LEMMA VoicingFailsTruth ==
  ASSUME VoiceInv, Truth, NEW c \in Calls, VoicingFails(c) PROVE Truth'
<1> DEFINE st == [St(call[c]) EXCEPT !.speakingState = "error", !.voiceModeState = "error"]
<1>1. /\ call[c].pc = "voicing" /\ Saves(c, call[c], st, "over")
      /\ UNCHANGED <<speech, playing, killed, met>>
  BY DEF VoicingFails, Sound
<1>2. Busy(call[c]) /\ call[c].pc \notin Hushers /\ ~Midway(call[c]) /\ Holds(call[c])
  BY <1>1, PlacesDiffer DEF Holds, Holders
<1>3. /\ St(call[c]) \in States /\ Honest(St(call[c]), call[c].b.ses, speech) /\ Settled(St(call[c]))
  BY <1>1, <1>2, OwnTells
<1>4. Honest(st, call[c].b.ses, speech) /\ Settles(st, Left(call[c], "over"))
  BY <1>3 DEF Honest, Settles, Settled, States
<1> HIDE DEF st
<1> QED BY <1>1, <1>2, <1>4, SavesTruly

\* The end of a transcription and of a turn leave the record idle, or with an error.
LEMMA IdleSaves ==
  ASSUME VoiceInv, Truth, NEW c \in Calls, Busy(call[c]), Holds(call[c]), call[c].pc \notin Hushers,
         NEW pc \in {"over", "chat"}, NEW st,
         \/ st = IdleState(call[c])
         \/ \E state \in {"error", "processing"} : st = [IdleState(call[c]) EXCEPT !.voiceModeState = state]
         \/ st = [IdleState(call[c]) EXCEPT !.wakeModeEnabled = call[c].b.on],
         Saves(c, call[c], st, pc), UNCHANGED <<met, speech, playing, killed>>
  PROVE  Truth'
<1>1. St(call[c]) \in States /\ Honest(St(call[c]), call[c].b.ses, speech)
  BY OwnTells
<1>2. /\ Honest(IdleState(call[c]), call[c].b.ses, speech) /\ Settled(IdleState(call[c]))
      /\ IdleState(call[c]) \in States
  BY <1>1, IdleTells
<1>3. Honest(st, call[c].b.ses, speech) /\ Settles(st, Left(call[c], pc))
  BY <1>2 DEF Honest, Settles, Settled, States
<1> QED BY <1>3, SavesTruly

LEMMA ModeWrittenTruth ==
  ASSUME VoiceInv, Truth, NEW c \in Calls, ModeWritten(c) PROVE Truth'
<1>1. /\ call[c].pc = "written" /\ call[c].b.kind = "mode"
      /\ Saves(c, call[c], [IdleState(call[c]) EXCEPT !.wakeModeEnabled = call[c].b.on], "over")
      /\ UNCHANGED <<speech, playing, killed, met>>
  BY DEF ModeWritten, Sound
<1>2. Busy(call[c]) /\ call[c].pc \notin Hushers /\ Holds(call[c])
  BY <1>1, PlacesDiffer DEF Holds
<1> QED BY <1>1, <1>2, IdleSaves

LEMMA WakeTranscribedTruth ==
  ASSUME VoiceInv, Truth, NEW c \in Calls, WakeTranscribed(c) PROVE Truth'
<1>1. /\ call[c].pc = "transcribing" /\ call[c].b.kind = "wake" /\ UNCHANGED <<speech, playing, killed, met>>
  BY DEF WakeTranscribed, Sound
<1>2. PICK state \in {"wake_detected", "wake_listening", "error"} :
        Saves(c, call[c], [St(call[c]) EXCEPT !.voiceModeState = state], "over")
  <2>1. PICK heard \in {"text", "nothing", "fails"} :
          \E state \in CASE heard = "text" -> {"wake_detected", "wake_listening"}
                         [] heard = "nothing" -> {"wake_listening"}
                         [] heard = "fails" -> {"error"} :
            Saves(c, call[c], [St(call[c]) EXCEPT !.voiceModeState = state], "over")
    BY DEF WakeTranscribed, Transcriptions, Heard
  <2> QED BY <2>1
<1> DEFINE st == [St(call[c]) EXCEPT !.voiceModeState = state]
<1>3. Busy(call[c]) /\ call[c].pc \notin Hushers /\ ~Midway(call[c]) /\ Holds(call[c])
  BY <1>1, PlacesDiffer DEF Holds, Holders
<1>4. St(call[c]) \in States /\ Honest(St(call[c]), call[c].b.ses, speech) /\ Settled(St(call[c]))
  BY <1>1, <1>3, OwnTells
<1>5. Honest(st, call[c].b.ses, speech) /\ Settles(st, Left(call[c], "over"))
  BY <1>4 DEF Honest, Settles, Settled, States
<1>6. Saves(c, call[c], st, "over")
  BY <1>2
<1> HIDE DEF st
<1> QED BY <1>1, <1>3, <1>5, <1>6, SavesTruly

LEMMA ListensTruth ==
  ASSUME VoiceInv, Truth, NEW c \in Calls, Listens(c) PROVE Truth'
<1> DEFINE st == Listening(St(call[c]))
<1>1. call[c].pc = "listen" /\ Saves(c, call[c], st, "over") /\ UNCHANGED <<speech, playing, killed, met>>
  BY DEF Listens, Sound
<1>2. Busy(call[c]) /\ call[c].pc \notin Hushers /\ Holds(call[c])
  BY <1>1, PlacesDiffer DEF Holds, Holders
<1>3. St(call[c]) \in States /\ Honest(St(call[c]), call[c].b.ses, speech)
  BY <1>1, <1>2, OwnTells
<1>4. Honest(st, call[c].b.ses, speech) /\ Settles(st, Left(call[c], "over"))
  BY <1>3 DEF Honest, Settles, Settled, States, Listening
<1> HIDE DEF st
<1> QED BY <1>1, <1>2, <1>4, SavesTruly

LEMMA TurnTranscribedTruth ==
  ASSUME VoiceInv, Truth, NEW c \in Calls, TurnTranscribed(c) PROVE Truth'
<1>1. /\ call[c].pc = "transcribing" /\ UNCHANGED <<speech, playing, killed, met>>
      /\ \E pc \in {"over", "chat"} :
           \E st \in {IdleState(call[c])}
                       \cup {[IdleState(call[c]) EXCEPT !.voiceModeState = state] : state \in {"error", "processing"}} :
             Saves(c, call[c], st, pc)
  BY DEF TurnTranscribed, TurnFails, Sound
<1>2. Busy(call[c]) /\ call[c].pc \notin Hushers /\ Holds(call[c])
  BY <1>1, PlacesDiffer DEF Holds, Holders
<1> QED BY <1>1, <1>2, IdleSaves

\* A call that takes its session's record anew.
LEMMA TakesAnew ==
  ASSUME VoiceInv, Truth, NEW c \in Calls, Busy(call[c]), ~Midway(call[c]), UNCHANGED met,
         NEW m, m = [call[c] EXCEPT !.ref = entry[call[c].b.ses]]
  PROVE  /\ m \in CallRecords /\ m.b = call[c].b /\ m.ref = entry[call[c].b.ses] /\ m.ref \in Refs
         /\ St(m) \in States /\ Honest(St(m), call[c].b.ses, speech) /\ Settled(St(m))
<1>1. /\ call[c] \in CallRecords /\ call[c].b.ses \in Sessions
      /\ Settled(objs[entry[call[c].b.ses]]) /\ Honest(objs[entry[call[c].b.ses]], call[c].b.ses, speech)
  BY GoesTruth
<1>2. entry[call[c].b.ses] \in Refs
  BY <1>1, EntriesDiffer
<1>3. m \in CallRecords /\ m.b = call[c].b /\ m.ref = entry[call[c].b.ses]
  BY <1>1, <1>2 DEF CallRecords
<1>4. St(m) \in States
  BY <1>2, <1>3, StatesOK DEF VoiceInv, St
<1> QED BY <1>1, <1>2, <1>3, <1>4 DEF St

\* New settings do not make a record say what is not so.
LEMMA RestatedTells ==
  ASSUME NEW st \in States, NEW s, Honest(st, s, speech), st.voiceModeState # "transcribing",
         st.recordingState # "transcribing"
  PROVE  Honest(Restated(st), s, speech) /\ Settled(Restated(st))
BY DEF Restated, States, Honest, Settled

LEMMA SettingsWrittenTruth ==
  ASSUME VoiceInv, Truth, NEW c \in Calls, SettingsWritten(c) PROVE Truth'
<1> DEFINE m == [call[c] EXCEPT !.ref = entry[call[c].b.ses]]
           st == Restated(St(m))
<1>1. /\ call[c].pc = "written" /\ UNCHANGED <<speech, playing, killed, met>>
      /\ GoesOn(c, m, "cancelling") \/ Saves(c, m, st, "over")
  BY DEF SettingsWritten
<1>2. Busy(call[c]) /\ call[c].pc \notin Hushers /\ ~Midway(call[c])
  BY <1>1, PlacesDiffer
<1>3. /\ m \in CallRecords /\ m.b = call[c].b /\ m.ref = entry[call[c].b.ses] /\ m.ref \in Refs
      /\ St(m) \in States /\ Honest(St(m), call[c].b.ses, speech) /\ Settled(St(m))
  BY <1>1, <1>2, TakesAnew
<1> HIDE DEF m
<1>4. CASE GoesOn(c, m, "cancelling")
  <2>1. "cancelling" \in Pcs
    BY DEF Pcs
  <2> QED BY <1>1, <1>2, <1>3, <1>4, <2>1, GoesTrulyGoes
<1>5. CASE Saves(c, m, st, "over")
  <2>1. Honest(st, call[c].b.ses, speech) /\ Settles(st, Left(m, "over"))
    BY <1>3, RestatedTells DEF Settles, Settled
  <2> HIDE DEF st
  <2> QED BY <1>1, <1>2, <1>3, <1>5, <2>1, GoesTrulySaves
<1> QED BY <1>1, <1>4, <1>5

LEMMA SettingsCancelledTruth ==
  ASSUME VoiceInv, Truth, NEW c \in Calls, SettingsCancelled(c) PROVE Truth'
<1> DEFINE was == [St(call[c]) EXCEPT !.recordingState = "idle"]
           st == Restated(was)
<1>1. /\ call[c].pc = "cancelling" /\ call[c].b.kind = "settings" /\ Saves(c, call[c], st, "over")
      /\ UNCHANGED <<speech, playing, killed, met>>
  BY DEF SettingsCancelled
<1>2. Busy(call[c]) /\ call[c].pc \notin Hushers /\ ~Midway(call[c]) /\ Holds(call[c])
  BY <1>1, PlacesDiffer DEF Holds
<1>3. St(call[c]) \in States /\ Honest(St(call[c]), call[c].b.ses, speech) /\ Settled(St(call[c]))
  BY <1>1, <1>2, OwnTells
<1>4. /\ was \in States /\ Honest(was, call[c].b.ses, speech) /\ was.voiceModeState # "transcribing"
      /\ was.recordingState # "transcribing"
  BY <1>3 DEF Honest, Settled, States
<1> HIDE DEF was
<1>5. Honest(st, call[c].b.ses, speech) /\ Settles(st, Left(call[c], "over"))
  BY <1>4, RestatedTells DEF Settles
<1> HIDE DEF st
<1> QED BY <1>1, <1>2, <1>5, SavesTruly

LEMMA ModeCancelledTruth ==
  ASSUME VoiceInv, Truth, NEW c \in Calls, ModeCancelled(c) PROVE Truth'
<1> DEFINE s == call[c].b.ses
           st == [St(call[c]) EXCEPT !.recordingState = "idle"]
<1>1. /\ call[c].pc = "cancelling" /\ call[c].b.kind = "mode" /\ SetsMode(c, call[c], st)
      /\ UNCHANGED <<speech, playing, met>>
  BY DEF ModeCancelled
<1>2. Busy(call[c]) /\ call[c].pc \notin Hushers /\ ~Midway(call[c]) /\ Holds(call[c])
  BY <1>1, PlacesDiffer DEF Holds
<1>3. /\ St(call[c]) \in States /\ Honest(St(call[c]), s, speech) /\ Settled(St(call[c]))
      /\ call[c] \in CallRecords /\ call[c].ref # NoRef
  BY <1>1, <1>2, OwnTells
<1>4. Honest(st, s, speech) /\ Settled(st)
  BY <1>3 DEF Honest, Settled, States
<1>5. Fresh(call[c], speech)
  BY <1>1 DEF Fresh
<1>6. Alone(c) /\ c \notin playing /\ s \in Sessions /\ call[c].ref = entry[s]
  BY <1>1, <1>2, <1>3, <1>5, GoesTruth
<1>7. call[c].b.ses = s
  OBVIOUS
<1> HIDE DEF s, st
<1> QED BY <1>1, <1>2, <1>3, <1>4, <1>6, <1>7, SetsModeTruly

LEMMA ChecksRecordingTruth ==
  ASSUME VoiceInv, Truth, NEW c \in Calls, ChecksRecording(c) PROVE Truth'
<1> DEFINE m == [call[c] EXCEPT !.ref = entry[call[c].b.ses]]
           st == [St(m) EXCEPT !.voiceModeState = "muted", !.recordingState = "idle"]
<1>1. /\ call[c].pc = "record" /\ UNCHANGED <<speech, playing, met>>
      /\ \/ Saves(c, m, st, "over") /\ UNCHANGED killed
         \/ \E pc \in {"over", "health"} : GoesOn(c, m, pc) /\ UNCHANGED killed
         \/ GoesOn(c, [m EXCEPT !.held = speech], "hushing")
  BY DEF ChecksRecording
<1>2. Busy(call[c]) /\ call[c].pc \notin Hushers /\ ~Midway(call[c])
  BY <1>1, PlacesDiffer
<1>3. /\ m \in CallRecords /\ m.b = call[c].b /\ m.ref = entry[call[c].b.ses] /\ m.ref \in Refs
      /\ St(m) \in States /\ Honest(St(m), call[c].b.ses, speech) /\ Settled(St(m))
  BY <1>1, <1>2, TakesAnew
<1> HIDE DEF m
<1>4. CASE Saves(c, m, st, "over") /\ UNCHANGED killed
  <2>1. Honest(st, call[c].b.ses, speech) /\ Settles(st, Left(m, "over"))
    BY <1>3 DEF Honest, Settles, Settled, States
  <2> HIDE DEF st
  <2> QED BY <1>1, <1>2, <1>3, <1>4, <2>1, GoesTrulySaves
<1>5. ASSUME NEW pc \in {"over", "health"}, GoesOn(c, m, pc), UNCHANGED killed PROVE Truth'
  <2>1. pc \in Pcs
    BY DEF Pcs
  <2> QED BY <1>1, <1>2, <1>3, <1>5, <2>1, GoesTrulyGoes
<1>6. CASE GoesOn(c, [m EXCEPT !.held = speech], "hushing")
  <2> DEFINE n == [m EXCEPT !.held = speech]
  <2>1. n \in CallRecords /\ n.b = call[c].b /\ n.ref = entry[call[c].b.ses]
    BY <1>3 DEF CallRecords, Tones, VoiceInv, RecordsOK, TypeOK
  <2>2. GoesOn(c, n, "hushing") /\ "hushing" \in Pcs /\ "hushing" \in Hushers
    BY <1>6 DEF Pcs, Hushers
  <2> HIDE DEF n
  <2> QED BY <1>1, <1>2, <2>1, <2>2, GoesTrulyGoes
<1> QED BY <1>1, <1>4, <1>5, <1>6

LEMMA ChecksProviderTruth ==
  ASSUME VoiceInv, Truth, NEW c \in Calls, ChecksProvider(c) PROVE Truth'
<1>1. /\ call[c].pc = "health" /\ UNCHANGED <<speech, playing, killed, met>>
      /\ \E pc \in {"opening", "over"} : GoesOn(c, call[c], pc)
  BY DEF ChecksProvider, Sound
<1>2. Busy(call[c]) /\ call[c].pc \notin Hushers /\ ~Midway(call[c])
  BY <1>1, PlacesDiffer
<1> QED BY <1>1, <1>2, GoesAlong

LEMMA OpensRecordingTruth ==
  ASSUME VoiceInv, Truth, NEW c \in Calls, OpensRecording(c) PROVE Truth'
<1>1. /\ call[c].pc = "opening" /\ UNCHANGED <<speech, playing, killed, met>>
      /\ \E state \in {"recording", "error"} :
           Saves(c, call[c], [St(call[c]) EXCEPT !.recordingState = state], "over")
  BY DEF OpensRecording
<1>2. PICK state \in {"recording", "error"} :
        Saves(c, call[c], [St(call[c]) EXCEPT !.recordingState = state], "over")
  BY <1>1
<1> DEFINE st == [St(call[c]) EXCEPT !.recordingState = state]
<1>3. Busy(call[c]) /\ call[c].pc \notin Hushers /\ ~Midway(call[c]) /\ Holds(call[c])
  BY <1>1, PlacesDiffer DEF Holds, Holders
<1>4. St(call[c]) \in States /\ Honest(St(call[c]), call[c].b.ses, speech) /\ Settled(St(call[c]))
  BY <1>1, <1>3, OwnTells
<1>5. Honest(st, call[c].b.ses, speech) /\ Settles(st, Left(call[c], "over"))
  BY <1>4 DEF Honest, Settles, Settled, States
<1>6. Saves(c, call[c], st, "over")
  BY <1>2
<1> HIDE DEF st
<1> QED BY <1>1, <1>3, <1>5, <1>6, SavesTruly

\* A recording that fails is shown: what was half way is settled.
LEMMA RecordingFailsTruth ==
  ASSUME VoiceInv, Truth, NEW c \in Calls, Busy(call[c]), Holds(call[c]), call[c].pc \notin Hushers,
         call[c].b.kind = "recordStop", RecordingFails(c, call[c]), UNCHANGED <<met, speech, playing, killed>>
  PROVE  Truth'
<1> DEFINE st == [St(call[c]) EXCEPT !.recordingState = "error"]
<1>1. Saves(c, call[c], st, "over")
  BY DEF RecordingFails
<1>2. /\ St(call[c]) \in States /\ Honest(St(call[c]), call[c].b.ses, speech)
      /\ St(call[c]).voiceModeState # "transcribing"
  BY OwnTells DEF Settles, Settled
<1>3. Honest(st, call[c].b.ses, speech) /\ Settles(st, Left(call[c], "over"))
  BY <1>2 DEF Honest, Settles, Settled, States
<1> HIDE DEF st
<1> QED BY <1>1, <1>3, SavesTruly

LEMMA StopsHandleTruth ==
  ASSUME VoiceInv, Truth, NEW c \in Calls, StopsHandle(c) PROVE Truth'
<1>1. /\ call[c].pc = "stopping" /\ UNCHANGED <<speech, playing, killed, met>>
      /\ GoesOn(c, call[c], "transcribing") \/ RecordingFails(c, call[c])
  BY DEF StopsHandle
<1>2. Busy(call[c]) /\ call[c].pc \notin Hushers /\ Holds(call[c])
  BY <1>1, PlacesDiffer DEF Holds, Holders
<1>3. call[c] \in CallRecords /\ call[c].b.kind = "recordStop"
  BY <1>1, <1>2, AtOK DEF KindsAt
<1>4. Midway(Left(call[c], "transcribing"))
  BY <1>3 DEF Midway, Left, CallRecords
<1> QED BY <1>1, <1>2, <1>3, <1>4, GoesAlong, RecordingFailsTruth

LEMMA RecordingTranscribedTruth ==
  ASSUME VoiceInv, Truth, NEW c \in Calls, RecordingTranscribed(c) PROVE Truth'
<1>1. /\ call[c].pc = "transcribing" /\ call[c].b.kind = "recordStop"
      /\ UNCHANGED <<speech, playing, killed, met>>
      /\ GoesOn(c, call[c], "chat") \/ RecordingFails(c, call[c])
  BY DEF RecordingTranscribed
<1>2. Busy(call[c]) /\ call[c].pc \notin Hushers /\ Holds(call[c])
  BY <1>1, PlacesDiffer DEF Holds, Holders
<1>3. call[c] \in CallRecords
  BY <1>2, AtOK
<1>4. Midway(Left(call[c], "chat"))
  BY <1>1, <1>3 DEF Midway, Left, CallRecords
<1> QED BY <1>1, <1>2, <1>4, GoesAlong, RecordingFailsTruth

LEMMA RecordingCancelledTruth ==
  ASSUME VoiceInv, Truth, NEW c \in Calls, RecordingCancelled(c) PROVE Truth'
<1> DEFINE m == [call[c] EXCEPT !.ref = entry[call[c].b.ses]]
           st == [St(m) EXCEPT !.recordingState = "idle"]
<1>1. /\ call[c].pc = "cancelling" /\ Saves(c, m, st, "over") /\ UNCHANGED <<speech, playing, killed, met>>
  BY DEF RecordingCancelled
<1>2. Busy(call[c]) /\ call[c].pc \notin Hushers /\ ~Midway(call[c])
  BY <1>1, PlacesDiffer
<1>3. /\ m \in CallRecords /\ m.b = call[c].b /\ m.ref = entry[call[c].b.ses] /\ m.ref \in Refs
      /\ St(m) \in States /\ Honest(St(m), call[c].b.ses, speech) /\ Settled(St(m))
  BY <1>1, <1>2, TakesAnew
<1> HIDE DEF m
<1>4. Honest(st, call[c].b.ses, speech) /\ Settles(st, Left(m, "over"))
  BY <1>3 DEF Honest, Settles, Settled, States
<1> HIDE DEF st
<1> QED BY <1>1, <1>2, <1>3, <1>4, GoesTrulySaves

\* An answer has come: it is read, or not.
LEMMA AnswersTruly ==
  ASSUME VoiceInv, Truth, NEW c \in Calls, call[c].pc = "chat", NEW st,
         \/ Goes(c, Reads(call[c]), "speak")
         \/ Goes(c, call[c], "over"),
         Persist(call[c].ref, call[c].b.ses, st), UNCHANGED <<met, speech, playing, killed>>,
         Honest(st, call[c].b.ses, speech), Settled(st)
  PROVE  Truth'
<1> DEFINE s == call[c].b.ses
           o == call[c].ref
<1>1. Busy(call[c]) /\ call[c].pc \notin Hushers /\ Holds(call[c])
  BY PlacesDiffer DEF Holds, Holders
<1>2. call[c] \in CallRecords /\ o \in Refs /\ o # NoRef
  BY <1>1, OwnTells
<1>3. Alone(c) /\ c \notin playing /\ s \in Sessions /\ \A t \in Sessions : o = entry[t] => t = s
  BY <1>1, <1>2, GoesTruth
<1>4. Persist(o, s, st) /\ Honest(st, s, speech) /\ call[c].b.ses = s /\ call[c].ref = o
  OBVIOUS
<1> HIDE DEF s, o
<1>5. CASE Goes(c, Reads(call[c]), "speak")
  <2> DEFINE m == Reads(call[c])
  <2>1. m \in CallRecords /\ m.b = call[c].b /\ m.ref = NoRef
    BY <1>2 DEF CallRecords, Reads
  <2>2. Goes(c, m, "speak") /\ m.b.ses = s
    BY <1>4, <1>5, <2>1
  <2> HIDE DEF m
  <2>3. Settles(st, Left(m, "speak"))
    BY DEF Settles
  <2> QED BY <1>1, <1>2, <1>3, <1>4, <2>1, <2>2, <2>3, SoloPersist
<1>6. CASE Goes(c, call[c], "over")
  <2>1. Settles(st, Left(call[c], "over"))
    BY DEF Settles
  <2> QED BY <1>1, <1>2, <1>3, <1>4, <1>6, <2>1, SoloPersist
<1> QED BY <1>5, <1>6

LEMMA TurnAnsweredTruth ==
  ASSUME VoiceInv, Truth, NEW c \in Calls, TurnAnswered(c) PROVE Truth'
<1> DEFINE st == [St(call[c]) EXCEPT !.voiceModeState =
                    IF settings.autoReadResponses THEN "processing" ELSE Idle(settings)]
<1>1. /\ call[c].pc = "chat" /\ call[c].b.kind = "listenStop" /\ UNCHANGED <<met, speech, playing, killed>>
      /\ \/ /\ \/ Goes(c, Reads(call[c]), "speak")
               \/ Goes(c, call[c], "over")
            /\ Persist(call[c].ref, call[c].b.ses, st)
         \/ TurnFails(c, call[c])
  BY DEF TurnAnswered, Sound
<1>2. Busy(call[c]) /\ call[c].pc \notin Hushers /\ Holds(call[c]) /\ ~Midway(call[c])
  BY <1>1, PlacesDiffer DEF Holds, Holders
<1>3. St(call[c]) \in States /\ Honest(St(call[c]), call[c].b.ses, speech) /\ Settled(St(call[c]))
  BY <1>1, <1>2, OwnTells
<1>4. Honest(st, call[c].b.ses, speech) /\ Settled(st)
  BY <1>3 DEF Honest, Settled, States, Idle
<1> HIDE DEF st
<1>5. CASE /\ \/ Goes(c, Reads(call[c]), "speak")
              \/ Goes(c, call[c], "over")
           /\ Persist(call[c].ref, call[c].b.ses, st)
  BY <1>1, <1>4, <1>5, AnswersTruly
<1>6. CASE TurnFails(c, call[c])
  BY <1>1, <1>2, <1>6, IdleSaves DEF TurnFails
<1> QED BY <1>1, <1>5, <1>6

LEMMA RecordingAnsweredTruth ==
  ASSUME VoiceInv, Truth, NEW c \in Calls, RecordingAnswered(c) PROVE Truth'
<1> DEFINE st == [St(call[c]) EXCEPT !.recordingState = "idle"]
<1>1. /\ call[c].pc = "chat" /\ call[c].b.kind = "recordStop" /\ UNCHANGED <<met, speech, playing, killed>>
      /\ \/ /\ \/ Goes(c, Reads(call[c]), "speak")
               \/ Goes(c, call[c], "over")
            /\ Persist(call[c].ref, call[c].b.ses, st)
         \/ RecordingFails(c, call[c])
  BY DEF RecordingAnswered
<1>2. Busy(call[c]) /\ call[c].pc \notin Hushers /\ Holds(call[c])
  BY <1>1, PlacesDiffer DEF Holds, Holders
<1>3. /\ St(call[c]) \in States /\ Honest(St(call[c]), call[c].b.ses, speech)
      /\ St(call[c]).voiceModeState # "transcribing"
  BY <1>1, <1>2, OwnTells DEF Settles, Settled
<1>4. Honest(st, call[c].b.ses, speech) /\ Settled(st)
  BY <1>3 DEF Honest, Settled, States
<1> HIDE DEF st
<1>5. CASE /\ \/ Goes(c, Reads(call[c]), "speak")
              \/ Goes(c, call[c], "over")
           /\ Persist(call[c].ref, call[c].b.ses, st)
  BY <1>1, <1>4, <1>5, AnswersTruly
<1>6. CASE RecordingFails(c, call[c])
  BY <1>1, <1>2, <1>6, RecordingFailsTruth
<1> QED BY <1>1, <1>5, <1>6

LEMMA ModeSilencedTruth ==
  ASSUME VoiceInv, Truth, NEW c \in Calls, ModeSilenced(c) PROVE Truth'
<1> DEFINE m == [call[c] EXCEPT !.held = None]
           s == call[c].b.ses
           o == call[c].ref
           content == [objs EXCEPT ![o].speakingState = "idle"]
<1>1. /\ call[c].pc = "silencingMode" /\ Dead(call[c].held.by) /\ speech' = None
      /\ Goes(c, m, "written") /\ UNCHANGED entry /\ Forget(content) /\ UNCHANGED <<playing, killed, met>>
  BY DEF ModeSilenced
<1>2. call[c].pc \in Hushers /\ Holds(call[c])
  BY <1>1 DEF Hushers, Holds, Holders
<1>3. Busy(call[c]) /\ ~Midway(call[c])
  BY <1>2, PlacesDiffer
<1>4. speech = None /\ speech' = speech
  BY <1>1, <1>2, NobodySpeaks
<1>5. /\ call[c] \in CallRecords /\ o \in Refs /\ o # NoRef /\ objs[o] \in States
      /\ Honest(objs[o], s, speech) /\ Settled(objs[o])
  BY <1>1, <1>2, <1>3, OwnTells DEF St
<1>6. /\ Alone(c) /\ c \notin playing /\ s \in Sessions
      /\ Honest(objs[entry[s]], s, speech) /\ Settled(objs[entry[s]])
      /\ \A t \in Sessions : o = entry[t] => t = s
  BY <1>1, <1>3, <1>5, GoesTruth
<1>7. m \in CallRecords /\ m.b = call[c].b /\ m.ref = o
  BY <1>5 DEF CallRecords, Tones
<1>8. /\ content[o] = [objs[o] EXCEPT !.speakingState = "idle"]
      /\ \A r \in Refs \ {o} : content[r] = objs[r]
  <2>1. objs \in [Refs -> States]
    BY DEF VoiceInv, RecordsOK, TypeOK, States
  <2> QED BY <2>1, <1>5
<1>9. Honest(content[o], s, speech) /\ Settled(content[o])
  BY <1>4, <1>5, <1>8 DEF Honest, Settled, States
<1>10. entry \in [Sessions -> Refs]
  BY DEF VoiceInv, RecordsOK, TypeOK
<1>11. call[c].b.ses = s /\ m.b.ses = s
  BY <1>7
<1> HIDE DEF m, s, o, content
<1>12. \A t \in Sessions \ {s} : content[entry[t]] = objs[entry[t]]
  BY <1>6, <1>8, <1>10
<1>13. Honest(content[entry[s]], s, speech) /\ Settled(content[entry[s]])
  BY <1>6, <1>8, <1>9, <1>10
<1>14. "written" \in Pcs /\ "written" \notin {"speakReady", "cancelling"} \cup Hushers
  BY DEF Pcs, Hushers
<1>15. Settles(content[o], Left(m, "written"))
  BY <1>9 DEF Settles
<1>16. UNCHANGED <<entry, speech, playing>>
  BY <1>1, <1>4
<1> QED BY <1>1, <1>4, <1>5, <1>6, <1>7, <1>9, <1>11, <1>12, <1>13, <1>14, <1>15, <1>16, SoloGoes

\* The end of stopSpeaking, of whichever session's speech: nobody speaks by then.
LEMMA HushesTruth ==
  ASSUME VoiceInv, Truth, NEW c \in Calls, Hushes(c) PROVE Truth'
<1> DEFINE m == [call[c] EXCEPT !.held = None]
           pc == AfterHush[call[c].b.kind]
           q == Left(m, pc)
           s == call[c].b.ses
           t == call[c].held.ses
           o == entry[t]
           st == [objs[o] EXCEPT !.speakingState = "idle", !.voiceModeState = Idle(settings)]
<1>1. /\ call[c].pc = "hushing" /\ Dead(call[c].held.by) /\ Goes(c, m, pc) /\ speech' = None
      /\ Persist(o, t, st) /\ UNCHANGED <<playing, killed, met>>
  BY DEF Hushes, Hushed
<1>2. call[c].pc \in Hushers
  BY <1>1 DEF Hushers
<1>3. Busy(call[c]) /\ ~Midway(call[c])
  BY <1>2, PlacesDiffer
<1>4. speech = None /\ speech' = speech
  BY <1>1, <1>2, NobodySpeaks
<1>5. /\ call[c] \in CallRecords /\ t \in Sessions
      /\ call[c].b.kind \in {"stopSpeaking", "listenStart", "recordStart"}
  BY <1>1, <1>2, <1>3, AtOK DEF KindsAt
<1>6. /\ Alone(c) /\ c \notin playing /\ s \in Sessions
      /\ call[c].ref # NoRef =>
           /\ call[c].ref \in Refs /\ \A u \in Sessions : call[c].ref = entry[u] => u = s
           /\ Honest(objs[call[c].ref], s, speech) /\ Settled(objs[call[c].ref])
  BY <1>1, <1>3, GoesTruth DEF St
<1>7. m \in CallRecords /\ m.b = call[c].b /\ m.ref = call[c].ref
  BY <1>5 DEF CallRecords, Tones
<1>8. pc \in {"over", "listen", "health"}
  BY <1>5 DEF AfterHush
<1>9. \A u \in Sessions : Honest(objs[entry[u]], u, speech) /\ Settled(objs[entry[u]])
  BY <1>3, <1>6, OwnOK
<1>10. objs[o] \in States
  BY <1>5, StatesOK DEF VoiceInv
<1>11. \A u : Honest(st, u, speech') /\ Settled(st)
  BY <1>4, <1>5, <1>9, <1>10 DEF Honest, Settled, States, Idle
<1> HIDE DEF m, pc, s, t, o, st
<1>12. /\ q.pc = pc /\ (pc = "over" => q.ref = NoRef)
       /\ pc # "over" => q.b = call[c].b /\ q.ref = call[c].ref
  BY <1>7 DEF Left, Over, Unasked, CallRecords
<1>13. call' = [call EXCEPT ![c] = q]
  BY <1>1 DEF Goes, Left
<1> HIDE DEF q
<1>14. call \in [Calls -> CallRecords] /\ playing \subseteq Calls
  BY DEF VoiceInv, RecordsOK, TypeOK
<1>15. call'[c] = q
  BY <1>13, <1>14
<1>16. /\ entry'[t] = NewRef /\ \A u \in Sessions : u # t => entry'[u] = entry[u]
       /\ NewRef \in Refs \ Held
       /\ objs'[entry'[t]] = st
       /\ \A u \in Sessions : u # t => objs'[entry'[u]] = IF entry[u] = o THEN st ELSE objs[entry[u]]
  BY <1>1, <1>5, PersistTells
<1>17. \A u \in Sessions : Honest(objs'[entry'[u]], u, speech') /\ Settled(objs'[entry'[u]])
  <2> TAKE u \in Sessions
  <2>1. CASE objs'[entry'[u]] = st
    BY <2>1, <1>11
  <2>2. CASE objs'[entry'[u]] = objs[entry[u]]
    BY <2>2, <1>4, <1>9
  <2> QED BY <2>1, <2>2, <1>16
<1>18. Busy(q) => q.b.ses = s /\ pc # "over" /\ q.ref = call[c].ref
  BY <1>12 DEF Busy, s
<1>19. call[c].ref # NoRef => call[c].ref \in Held
  BY DEF Held
<1>20. ASSUME Busy(q), NEW u \in Sessions, q.ref = entry'[u] PROVE u = s
  <2>1. entry[u] # NoRef /\ NewRef # NoRef
    BY <1>16, EntriesDiffer, ConstantsOK
  <2>2. q.ref # NoRef
    BY <2>1, <1>16, <1>20
  <2>3. q.ref = call[c].ref /\ q.ref \in Held
    BY <2>2, <1>18, <1>19, <1>20
  <2>4. entry'[u] = entry[u]
    BY <2>3, <1>16, <1>20
  <2> QED BY <2>2, <2>3, <2>4, <1>6, <1>20
<1>21. ASSUME Busy(q), q.ref # NoRef
       PROVE  Honest(objs'[q.ref], s, speech') /\ Settled(objs'[q.ref])
  <2>1. q.ref = call[c].ref /\ q.ref \in Refs \ {NewRef} /\ call'[c].ref = q.ref
    BY <1>6, <1>15, <1>16, <1>18, <1>19, <1>21
  <2>2. objs'[call'[c].ref] = IF call'[c].ref = o THEN st ELSE objs[call'[c].ref]
    <3>1. call'[c].ref # NoRef /\ call'[c].ref \in Refs \ {NewRef}
      BY <2>1, <1>21
    <3>2. Persist(o, t, st) /\ t \in Sessions
      BY <1>1, <1>5
    <3>3. \A d \in Calls : call'[d].ref # NoRef /\ call'[d].ref \in Refs \ {NewRef} =>
            objs'[call'[d].ref] = IF call'[d].ref = o THEN st ELSE objs[call'[d].ref]
      BY <3>2, PersistTells
    <3> QED BY <3>1, <3>3
  <2>3. CASE objs'[q.ref] = st
    BY <2>3, <1>11
  <2>4. CASE objs'[q.ref] = objs[q.ref]
    BY <2>1, <2>4, <1>4, <1>6, <1>21
  <2> QED BY <2>1, <2>2, <2>3, <2>4
<1>22. ~Fresh(q, speech')
  BY <1>8, <1>12 DEF Fresh, Hushers
<1>23. (\A p \in playing' : p \in Calls /\ (p \in playing \/ p = c)) /\ c \notin playing'
  BY <1>1, <1>6, <1>14
<1>24. Busy(q) => q.b.ses = s
  BY <1>18
<1>25. Busy(q) => \A u \in Sessions : q.ref = entry'[u] => u = s
  BY <1>20
<1>26. Busy(q) /\ q.ref # NoRef =>
         /\ Honest(objs'[q.ref], s, speech')
         /\ Settles(objs'[q.ref], q)
         /\ Fresh(q, speech') => q.ref = entry'[s]
  BY <1>21, <1>22 DEF Settles
<1> QED BY <1>1, <1>6, <1>13, <1>14, <1>17, <1>23, <1>24, <1>25, <1>26, TruthStays

LEMMA VoicesTruth ==
  ASSUME VoiceInv, Truth, NEW c \in Calls, Voices(c) PROVE Truth'
<1> DEFINE s == call[c].b.ses
           o == call[c].ref
           st == [St(call[c]) EXCEPT !.speakingState = "speaking",
                    !.voiceModeState = IF settings.voiceModeEnabled THEN "speaking" ELSE @]
<1>1. /\ call[c].pc = "voicing" /\ speech' = [by |-> c, ses |-> s] /\ playing' = playing \cup {c}
      /\ Goes(c, call[c], "over") /\ Persist(o, s, st) /\ UNCHANGED <<killed, met>>
  BY DEF Voices, Saves
<1>2. Busy(call[c]) /\ call[c].pc \notin Hushers /\ ~Midway(call[c]) /\ Holds(call[c])
  BY <1>1, PlacesDiffer DEF Holds, Holders
<1>3. speech = None
  <2> SUFFICES ASSUME speech # None PROVE FALSE
    OBVIOUS
  <2>1. met[speech.by] # {} /\ speech.by \in Calls
    BY <1>1 DEF VoiceInv, SoundOK, RecordsOK, TypeOK
  <2> QED BY <2>1 DEF Truth
<1>4. /\ call[c] \in CallRecords /\ o \in Refs /\ o # NoRef /\ St(call[c]) \in States
      /\ Settled(St(call[c]))
  BY <1>1, <1>2, OwnTells
<1>5. Alone(c) /\ c \notin playing /\ s \in Sessions /\ \A t \in Sessions : o = entry[t] => t = s
  BY <1>1, <1>2, <1>4, GoesTruth
<1>6. \A t \in Sessions : Honest(objs[entry[t]], t, speech) /\ Settled(objs[entry[t]])
  BY <1>2, <1>5, OwnOK
<1>7. speech' # None /\ speech'.by = c /\ speech'.ses = s
  BY <1>1, <1>5, ConstantsOK
<1>8. Honest(st, s, speech') /\ Settled(st)
  BY <1>4, <1>7 DEF Honest, Settled, States
<1>9. call[c].b.ses = s
  OBVIOUS
<1> HIDE DEF s, o, st
<1>10. /\ entry'[s] = NewRef /\ \A u \in Sessions : u # s => entry'[u] = entry[u]
       /\ objs'[entry'[s]] = st
       /\ \A u \in Sessions : u # s => objs'[entry'[u]] = IF entry[u] = o THEN st ELSE objs[entry[u]]
  <2>1. Persist(o, s, st) /\ s \in Sessions
    BY <1>1, <1>5
  <2>2. entry'[s] = NewRef /\ \A u \in Sessions : u # s => entry'[u] = entry[u]
    BY <2>1, PersistTells
  <2>3. objs'[entry'[s]] = st
    BY <2>1, PersistTells
  <2>4. \A u \in Sessions : u # s => objs'[entry'[u]] = IF entry[u] = o THEN st ELSE objs[entry[u]]
    BY <2>1, PersistTells
  <2> QED BY <2>2, <2>3, <2>4
<1>11. \A t \in Sessions \ {s} : Honest(objs'[entry'[t]], t, speech') /\ Settled(objs'[entry'[t]])
  <2> TAKE t \in Sessions \ {s}
  <2>1. objs'[entry'[t]] = objs[entry[t]]
    BY <1>5, <1>10
  <2> QED BY <2>1, <1>3, <1>6, <1>7 DEF Honest
<1>12. call' = [call EXCEPT ![c] = Over] /\ Over.pc = "over" /\ ~Busy(Over)
  BY <1>1 DEF Goes, Over, Unasked, Busy
<1>13. call \in [Calls -> CallRecords] /\ playing \subseteq Calls /\ killed \subseteq playing
  BY DEF VoiceInv, RecordsOK, TypeOK
<1>14. speech'.by \notin killed'
  BY <1>1, <1>5, <1>7, <1>13
<1>15. \A p \in playing' : p \in Calls /\ (p \in playing \/ p = c)
  BY <1>1, <1>13
<1>16. Honest(objs'[entry'[s]], s, speech') /\ Settled(objs'[entry'[s]])
  BY <1>8, <1>10
<1> QED BY <1>5, <1>11, <1>12, <1>13, <1>14, <1>15, <1>16, TruthStays

\* The end of a speech: of one nobody minds, or of one a call has told to end.
LEMMA PlaybackEndsTruth ==
  ASSUME VoiceInv, Truth, NEW p \in Calls, PlaybackEnds(p), ~crossed' PROVE Truth'
<1>1. /\ p \in playing /\ playing' = playing \ {p} /\ killed' = killed \ {p}
      /\ UNCHANGED <<call, met>> /\ (p \in killed \/ AtWork = {})
  BY DEF PlaybackEnds
<1>2. AtWork' = AtWork
  BY <1>1 DEF AtWork
<1>3. (\A c, d \in AtWork' : c = d) /\ (\A c \in Calls : met'[c] = {}) /\ \A d \in playing' : call'[d].pc = "over"
  BY <1>1, <1>2 DEF Truth
<1>4. CASE speech # None /\ speech.by = p
  <2> DEFINE t == speech.ses
             o == entry[t]
  <2>1. PICK well \in BOOLEAN : speech' = None /\ Persist(o, t, Ended(objs[o], well))
    BY <1>4 DEF PlaybackEnds
  <2> DEFINE st == Ended(objs[o], well)
  <2>2. t \in Sessions
    BY <1>4 DEF VoiceInv, RecordsOK, TypeOK
  <2>3. objs[o] \in States /\ Idle(settings) \in VoiceModeStates
    BY <2>2, StatesOK DEF VoiceInv
  <2>4. \A u : Honest(st, u, None)
    BY <2>3 DEF Ended, Honest, States, Idle
  <2>5. Settled(objs[o]) => Settled(st)
    BY <2>3 DEF Ended, Settled, States, Idle
  <2>6. \A st2, u : u # t /\ Honest(st2, u, speech) => Honest(st2, u, None)
    BY <1>4 DEF Honest
  <2>7. Persist(o, t, st) /\ o = entry[t]
    BY <2>1
  <2>8. \A c \in AtWork : call[c].pc \in Hushers /\ (call[c].b.ses = t => Fresh(call[c], speech))
    BY <1>1, <1>4 DEF Truth, Fresh
  <2> HIDE DEF t, o, st
  <2>9. /\ entry'[t] = NewRef /\ \A u \in Sessions : u # t => entry'[u] = entry[u]
        /\ NewRef \in Refs \ Held
        /\ objs'[entry'[t]] = st
        /\ \A u \in Sessions : u # t => objs'[entry'[u]] = IF entry[u] = o THEN st ELSE objs[entry[u]]
        /\ \A d \in Calls : call'[d].ref # NoRef /\ call'[d].ref \in Refs \ {NewRef} =>
             objs'[call'[d].ref] = IF call'[d].ref = o THEN st ELSE objs[call'[d].ref]
    BY <2>2, <2>7, PersistTells
  <2>10. \A u \in Sessions : u # t => entry[u] # o
    BY <2>2, <2>7, EntriesDiffer
  <2>11. ASSUME NEW s \in Sessions
         PROVE  /\ Honest(objs'[entry'[s]], s, speech')
                /\ Settled(objs'[entry'[s]]) \/ \E c \in AtWork' : Midway(call'[c]) /\ call'[c].b.ses = s
    <3>1. Honest(objs[entry[s]], s, speech)
          /\ (Settled(objs[entry[s]]) \/ \E c \in AtWork : Midway(call[c]) /\ call[c].b.ses = s)
      BY DEF Truth
    <3>2. CASE s = t
      BY <3>1, <3>2, <1>1, <1>2, <2>1, <2>4, <2>5, <2>7, <2>9
    <3>3. CASE s # t
      <4>1. objs'[entry'[s]] = objs[entry[s]]
        BY <3>3, <2>9, <2>10
      <4> QED BY <4>1, <3>1, <3>3, <1>1, <1>2, <2>1, <2>6
    <3> QED BY <3>2, <3>3
  <2>12. ASSUME NEW c \in AtWork'
         PROVE  /\ \A u \in Sessions : call'[c].ref = entry'[u] => u = call'[c].b.ses
                /\ call'[c].ref # NoRef =>
                     /\ Honest(objs'[call'[c].ref], call'[c].b.ses, speech')
                     /\ Settles(objs'[call'[c].ref], call'[c])
                     /\ Fresh(call'[c], speech') => call'[c].ref = entry'[call'[c].b.ses]
    <3>1. c \in AtWork /\ c \in Calls /\ call'[c] = call[c]
      BY <1>1, <1>2 DEF AtWork
    <3>2. /\ \A u \in Sessions : call[c].ref = entry[u] => u = call[c].b.ses
          /\ call[c].ref # NoRef =>
               /\ Honest(objs[call[c].ref], call[c].b.ses, speech)
               /\ Settles(objs[call[c].ref], call[c])
               /\ Fresh(call[c], speech) => call[c].ref = entry[call[c].b.ses]
      BY <3>1 DEF Truth
    <3>3. call[c] \in CallRecords /\ call[c].pc \in Hushers
      BY <3>1, <2>8 DEF VoiceInv, RecordsOK
    <3>4. ~Midway(call[c]) /\ ~Fresh(call[c], None)
      BY <3>3, PlacesDiffer DEF Fresh, Hushers
    <3>5. call[c].ref # NoRef => call[c].ref \in Refs \ {NewRef} /\ call[c].ref \in Held
      BY <3>1, <3>3, <2>9 DEF CallRecords, Held
    <3>6. ASSUME NEW u \in Sessions, call'[c].ref = entry'[u] PROVE u = call'[c].b.ses
      <4>1. entry[u] # NoRef /\ NewRef # NoRef
        BY <2>9, EntriesDiffer, ConstantsOK
      <4>2. call[c].ref # NoRef
        BY <4>1, <3>1, <3>6, <2>9
      <4>3. entry'[u] = entry[u]
        BY <4>2, <3>1, <3>5, <3>6, <2>9
      <4> QED BY <4>3, <3>1, <3>2, <3>6
    <3>7. ASSUME call[c].ref # NoRef
          PROVE  Honest(objs'[call[c].ref], call[c].b.ses, None) /\ Settled(objs'[call[c].ref])
      <4>1. objs'[call[c].ref] = IF call[c].ref = o THEN st ELSE objs[call[c].ref]
        BY <3>1, <3>5, <3>7, <2>9
      <4>2. Honest(objs[call[c].ref], call[c].b.ses, speech) /\ Settled(objs[call[c].ref])
        BY <3>2, <3>4, <3>7 DEF Settles
      <4>3. CASE call[c].ref = o
        BY <4>1, <4>2, <4>3, <2>4, <2>5
      <4>4. CASE call[c].ref # o
        <5>1. call[c].b.ses # t
          BY <4>4, <3>1, <3>2, <3>7, <2>7, <2>8
        <5> QED BY <5>1, <4>1, <4>2, <4>4, <2>6
      <4> QED BY <4>3, <4>4
    <3> QED BY <3>1, <3>4, <3>6, <3>7, <2>1 DEF Settles
  <2>13. speech' = None
    BY <2>1
  <2> QED BY <1>3, <2>11, <2>12, <2>13 DEF Truth
<1>5. CASE ~(speech # None /\ speech.by = p)
  <2>1. UNCHANGED <<speech, entry, objs, call>> /\ killed' \subseteq killed
    BY <1>1, <1>5 DEF PlaybackEnds
  <2> QED BY <1>2, <1>3, <2>1 DEF Truth
<1> QED BY <1>4, <1>5

LEMMA InitTruth == ASSUME Init PROVE Truth
<1>1. AtWork = {} /\ playing = {} /\ speech = None /\ \A c \in Calls : met[c] = {}
  BY DEF Init, AtWork, Unasked
<1>2. ASSUME NEW s \in Sessions PROVE Honest(objs[entry[s]], s, speech) /\ Settled(objs[entry[s]])
  <2>1. entry[s] \in Refs /\ entry[s] \in Held
    BY InitInv, StatesOK DEF VoiceInv, Held
  <2>2. objs[entry[s]] = NewState(settings)
    BY <2>1 DEF Init
  <2> QED BY <1>1, <2>2 DEF NewState, Idle, Honest, Settled
<1> QED BY <1>1, <1>2 DEF Truth

LEMMA NextTruth ==
  ASSUME NothingTranscribedReported, VoiceInv, ~crossed => Truth, [Next]_vars, ~crossed' PROVE Truth'
<1>1. CASE UNCHANGED vars
  <2>1. AtWork' = AtWork /\ UNCHANGED <<call, met, playing, killed, speech, entry, objs>> /\ ~crossed
    BY <1>1 DEF vars, AtWork
  <2> QED BY <2>1 DEF Truth
<1>2. ASSUME NEW c \in Calls, UpdateSettings(c) PROVE Truth'
  <2>1. ~crossed
    BY <1>2 DEF UpdateSettings, Arrives
  <2> QED BY <2>1, <1>2, UpdateSettingsTruth
<1>3. ASSUME NEW c \in Calls, Asks(c) PROVE Truth'
  <2>1. Arrives(c)
    BY <1>3 DEF Asks, StopSpeaking, Speak, AnswersChat, UpdateVoiceMode, SubmitWakeWindow,
      StartActiveListening, UpdateActiveListeningState, CancelActiveListening, StopActiveListening,
      StartRecording, StopRecording, CancelRecording
  <2>2. Truth
    BY <2>1 DEF Arrives
  <2> QED BY <2>2, <1>3, StopSpeakingTruth, SpeakTruth, UpdateVoiceModeTruth, SubmitWakeWindowTruth,
        StartActiveListeningTruth, UpdateActiveListeningStateTruth, CancelActiveListeningTruth,
        StopActiveListeningTruth, StopRecordingTruth, CancelRecordingTruth DEF Asks
<1>4. ASSUME NEW c \in Calls, PlaybackEnds(c) PROVE Truth'
  <2>1. ~crossed
    BY <1>4 DEF PlaybackEnds
  <2> QED BY <2>1, <1>4, PlaybackEndsTruth
<1>5. ASSUME NEW c \in Calls, GoesFurther(c), UNCHANGED crossed PROVE Truth'
  BY <1>5, HushesTruth, ChecksSpeechTruth, SilencesOtherTruth, OtherSilentTruth, VoicesTruth,
     VoicingFailsTruth, SettingsWrittenTruth, SettingsCancelledTruth, ModeCancelledTruth,
     ModeSilencedTruth, ModeWrittenTruth, WakeTranscribedTruth, ListensTruth, TurnTranscribedTruth,
     TurnAnsweredTruth, ChecksRecordingTruth, ChecksProviderTruth, OpensRecordingTruth,
     StopsHandleTruth, RecordingTranscribedTruth, RecordingAnsweredTruth, RecordingCancelledTruth
     DEF GoesFurther
<1> QED BY <1>1, <1>2, <1>3, <1>4, <1>5 DEF Next, Waits

\* With a client that reports no transcription itself, what a session shows when no call is
\* at work is true, as long as no two calls and no end of a speech have come beside a call.
THEOREM TruthAlwaysShown == ASSUME NothingTranscribedReported PROVE Spec => []ShowsTheTruth
<1> DEFINE I == VoiceInv /\ (~crossed => Truth)
<1>1. Init => I
  BY InitInv, InitTruth
<1>2. I /\ [Next]_vars => I'
  BY NextInv, NextTruth
<1>3. I => ShowsTheTruth
  <2> SUFFICES ASSUME VoiceInv, Truth, AtWork = {}, NEW s \in Sessions
               PROVE  /\ objs[entry[s]].speakingState = "speaking" => SpeechOf(s)
                      /\ SpeechOf(s) => objs[entry[s]].speakingState \in {"speaking", "error"}
                      /\ objs[entry[s]].recordingState # "transcribing"
                      /\ objs[entry[s]].voiceModeState # "transcribing"
                      /\ objs[entry[s]].voiceModeState = "speaking" => SpeechOf(s)
    BY DEF ShowsTheTruth
  <2>1. Honest(objs[entry[s]], s, speech) /\ Settled(objs[entry[s]])
    BY DEF Truth
  <2>2. objs[entry[s]].speakingState \in {"idle", "speaking", "error"}
    <3>1. objs[entry[s]] \in States
      BY StatesOK DEF VoiceInv
    <3> QED BY <3>1 DEF States
  <2> QED BY <2>1, <2>2 DEF Honest, Settled, SpeechOf
<1> HIDE DEF I
<1> QED BY <1>1, <1>2, <1>3, PTL DEF Spec
=============================================================================
