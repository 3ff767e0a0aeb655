CONSTANTS
  c1 = c1
  c2 = c2
  c3 = c3
  Clients = {c1, c2, c3}
  MaxAttempts = 5
  RenameMayStick = TRUE
SPECIFICATION FairStoreSpec
INVARIANT AcknowledgedSurvives
PROPERTIES ImplementsAtomicStore CallsAreAnswered
