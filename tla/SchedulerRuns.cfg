CONSTANTS
  NoProfile = NoProfile
  ProfileIds = {p1, p2}
  TaskIds = {t1}
  NoTask = NoTask
  Calls = {c1, c2}
SPECIFICATION Spec
INVARIANT StoresSound
PROPERTY RunsOnlyRecord
SYMMETRY Symmetry
