CONSTANTS
  t1 = t1
  t2 = t2
  s1 = s1
  TaskIds = {t1, t2}
  Sessions = {s1}
  SessionOf <- OneSession
  NoTask = NoTask
  MaxSteps = 2
  MaxArtifacts = 1
  Progress <- HalfDone
SPECIFICATION CurrentTaskSpec
INVARIANTS PointerSound ActiveStepIsCurrent FinishedIsSettled SingleActive
SYMMETRY SameSessionSymmetry
CHECK_DEADLOCK FALSE
