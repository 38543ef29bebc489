SPECIFICATION ProviderSpec
CONSTANTS
  w1 = w1
  w2 = w2
  NoWorker = NoWorker
  Workers = {w1, w2}
  Subs = {1, 2}
  Requests = {}
  Faults = {"crash", "abort", "error"}
  MaxFaults = 2
  MaxExecutions = 2
SYMMETRY MCSymmetry
INVARIANTS ExclusiveMutation SettlingExecutesOnce SettledByRecord
PROPERTIES RecordIsFinal
CHECK_DEADLOCK FALSE
