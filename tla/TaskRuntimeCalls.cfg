CONSTANTS
  t1 = t1
  t2 = t2
  t3 = t3
  r1 = r1
  r2 = r2
  s1 = s1
  TaskIds = {t1}
  Sessions = {s1}
  SessionOf <- OneSession
  NoTask = NoTask
  MaxSteps = 1
  MaxArtifacts = 0
  Progress = {0, 100}
  Requests = {r1, r2}
  Kinds = {"create", "start", "pause", "resume", "cancel", "refine", "complete", "fail"}
  StartEventFails = TRUE
SPECIFICATION RuntimeSpec
INVARIANT RuntimeSound
PROPERTY ImplementsTaskManager
SYMMETRY Symmetry
