SPECIFICATION FairSpec
CONSTANTS
  Clients = {c1, c2}
  Tasks = {t1}
  c1 = c1
  c2 = c2
  t1 = t1
  Uses <- UsesOne
  Daemons = {d1, d2}
  None = None
  Bounds <- BoundsLiveness
PROPERTIES EveryChangeIsBuilt
CHECK_DEADLOCK FALSE
