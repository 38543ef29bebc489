SPECIFICATION FairSpec
CONSTANTS
  w1 = w1
  w2 = w2
  q1 = q1
  NoWorker = NoWorker
  Workers = {w1, w2}
  Subs = {1, 2}
  Requests = {q1}
  Faults = {}
  MaxFaults = 0
PROPERTIES OwnershipIsBounded
CHECK_DEADLOCK FALSE
