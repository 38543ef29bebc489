SPECIFICATION Spec
CONSTANTS
  Clients = {c1, c2}
  Tasks = {t1}
  c1 = c1
  c2 = c2
  t1 = t1
  Uses <- UsesC
  Daemons = {d1, d2}
  None = None
  Bounds <- BoundsSafety
INVARIANTS AckMeansSynced FailureIsSeen
PROPERTIES GenerationsGrow
SYMMETRY MCSymmetry
CHECK_DEADLOCK FALSE
