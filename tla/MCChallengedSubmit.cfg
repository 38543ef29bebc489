SPECIFICATION Spec
CONSTANTS
  r1 = r1
  r2 = r2
  r3 = r3
  s1 = s1
  s2 = s2
  k1 = k1
  b1 = b1
  b2 = b2
  c1 = c1
  c2 = c2
  Nobody = Nobody
  NoKey = NoKey
  Attempts = {r1, r2, r3}
  Subs = {s1, s2}
  Keys = {k1}
  Bodies = {b1, b2}
  Challenges = {c1, c2}
  Faults = {"error", "lost", "crash", "keep"}
  MaxFaults = 1
  MaxTime = 2
SYMMETRY MCSymmetry
INVARIANTS OneUsePerChallenge OneAcceptPerKey AcceptedIsWhole
