CONSTANTS
  c1 = c1  c2 = c2  c3 = c3
  s1 = s1  s2 = s2
  Calls = {c1, c2, c3}
  Sessions = {s1, s2}
  None = None
  MaxAtWork = 3
CONSTANT Bodies <- AnyBody
CONSTANT Saved <- SomeSaved
SYMMETRY Symmetry
SPECIFICATION Spec
INVARIANTS VoiceSound MuteHolds RecordingIsLive ShowsTheTruth
