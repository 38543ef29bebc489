SPECIFICATION Spec
CONSTANTS
  a = a
  b = b
  c = c
  d = d
  Writers = {a, b, c, d}
  ContentOf <- MCContentOf
INVARIANTS NothingSwallowed LinksResolve
CHECK_DEADLOCK FALSE
