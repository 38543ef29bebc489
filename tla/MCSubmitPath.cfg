SPECIFICATION SubmitSpec
CONSTANTS
  w1 = w1
  w2 = w2
  k1 = k1
  k2 = k2
  q1 = q1
  a1 = a1
  NoWorker = NoWorker
  Workers = {w1}
  Subs = {1, 2, 3}
  Requests = {}
  Approvals = {a1}
  Keys = {k1, k2}
  Kinds = {"deploy", "promotion"}
  Impatient = FALSE
  MaxTime = 2
  Faults = {"drop"}
  MaxFaults = 1
SYMMETRY MCSymmetry
INVARIANTS SubmitTypeOK OneSubmissionPerKey SupersedenceIsNarrow OneSurvives AcceptedRunIsQueued
PROPERTIES EndedIsNotRevived
CHECK_DEADLOCK FALSE
