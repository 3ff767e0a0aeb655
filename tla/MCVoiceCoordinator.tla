------------------------- MODULE MCVoiceCoordinator -------------------------
EXTENDS VoiceCoordinator, TLC
CONSTANTS c1, c2, c3, s1, s2

Set(f, v) == [kind |-> "settings", ses |-> s1, set |-> (f :> v)]
Ask(kind, s) == [kind |-> kind, ses |-> s]
Mode(on) == [kind |-> "mode", ses |-> s1, on |-> on]
Sent(kind, audio) == [kind |-> kind, ses |-> s1, audio |-> audio]

SomeBodies ==
  {Set("micMuted", TRUE), Set("micMuted", FALSE), Mode(FALSE), Mode(TRUE)}
  \cup {Ask(k, s1) : k \in {"stopSpeaking", "listenStart", "listenCancel", "recordCancel"}}
  \cup {Ask(k, s) : k \in {"speak", "recordStart"}, s \in {s1, s2}}
  \cup {Sent("wake", "speech"), Sent("listenStop", "speech"), Sent("recordStop", "noise"),
        Sent("recordStop", "speech"), Ask("chat", s1)}
  \cup {[kind |-> "listenState", ses |-> s1, state |-> "speech_detected"]}

AnyBody == [c \in Calls |-> SomeBodies]
SomeSaved == [voiceModeEnabled : {TRUE}, micMuted : BOOLEAN, autoReadResponses : BOOLEAN]
Symmetry == Permutations(Calls)
=============================================================================
