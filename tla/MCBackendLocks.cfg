SPECIFICATION Spec
CONSTANTS
  a = a
  b = b
  c = c
  NoRun = NoRun
  Runs <- MCRuns
  Needs <- MCNeeds
  Scopes = {1, 2}
  Lease = 2
  MaxTime = 2
  Punctual = {a, b}
INVARIANTS MutualExclusion NoCircularWait NothingLeftBehind
PROPERTIES ImplementsLease
CHECK_DEADLOCK FALSE
