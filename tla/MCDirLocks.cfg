CONSTANTS
  p1 = p1
  p2 = p2
  p3 = p3
  Nobody = Nobody
  Procs = {p1, p2, p3}
  Kinds = {"install", "isolation", "verify", "store"}
  MaxFaults = 2

SPECIFICATION FairSpec

INVARIANTS
  Exclusive
  LeavesNothing

PROPERTIES
  AskedIsAnswered

CHECK_DEADLOCK FALSE
