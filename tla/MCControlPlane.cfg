SPECIFICATION FairSpec
CONSTANTS
  w1 = w1
  w2 = w2
  q1 = q1
  NoWorker = NoWorker
  Workers = {w1, w2}
  Subs = {1, 2}
  Requests = {}
  Faults = {"crash", "abort", "error"}
  MaxFaults = 2
INVARIANTS TypeOK ExclusiveMutation ExecutedAtMostOnce MutationIsAnnounced ActiveRunIsQueued
  OutcomeBackedByRecord
PROPERTIES EndIsFinal EverySubmissionEnds
CHECK_DEADLOCK FALSE
