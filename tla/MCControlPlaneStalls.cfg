SPECIFICATION Spec
CONSTANTS
  w1 = w1
  w2 = w2
  q1 = q1
  NoWorker = NoWorker
  Workers = {w1, w2}
  Subs = {1, 2}
  Requests = {q1}
  Faults = {"crash", "abort", "error", "stall"}
  MaxFaults = 1
SYMMETRY MCSymmetry
INVARIANTS OneSuccessor CancelIsHonoured
CHECK_DEADLOCK FALSE
