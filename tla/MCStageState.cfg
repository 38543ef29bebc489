SPECIFICATION Spec
CONSTANTS
  a = a
  b = b
  c = c
  d = d
  NoRun = NoRun
  Runs <- MCRuns
  Lineage <- MCLineage
SYMMETRY MCSymmetry
INVARIANTS LinearHistory StageChainIntact AuditTellsHistory BackupFollowsCurrent
CHECK_DEADLOCK FALSE
