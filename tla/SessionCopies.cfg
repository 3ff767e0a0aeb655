CONSTANTS
  r1 = r1
  r2 = r2
  r3 = r3
  n1 = n1
  n2 = n2
  Requests = {r1, r2, r3}
  Names = {n1, n2}
  LeftName = n1
  Bodies <- TwoAndOne
  Earlier = Earlier
  NoAction = NoAction
  FirstMode <- Live
  SavesFail = TRUE
  MaxAtWork = 2
SPECIFICATION Spec
INVARIANT SessionSound
PROPERTIES FreshSavesLoseNothing RunsConfirmed
SYMMETRY Symmetry
CHECK_DEADLOCK FALSE
