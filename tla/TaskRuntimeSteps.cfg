CONSTANTS
  t1 = t1
  t2 = t2
  t3 = t3
  r1 = r1
  r2 = r2
  s1 = s1
  TaskIds = {t1, t2}
  Sessions = {s1}
  SessionOf <- OneSession
  NoTask = NoTask
  MaxSteps = 2
  MaxArtifacts = 0
  Progress = {0, 50, 100}
  Requests = {r1}
  Kinds = {"create", "pause", "resume", "cancel"}
  StartEventFails = TRUE
SPECIFICATION RuntimeSpec
INVARIANT ProgressIsShareOfSteps
PROPERTIES StepsCompleteByRunning PausedGetsNoStep
SYMMETRY Symmetry
