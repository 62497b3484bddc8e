SPECIFICATION Spec
CONSTANTS
  k1 = k1
  k2 = k2
  a = a
  b = b
  Conns = {k1, k2}
  Joiners = {k1, k2}
  Seats = {a, b}
  None = None
  Placeholder = Placeholder
  CountMod = 8
  MaxAsks = 1
INVARIANT ServerRuns
CHECK_DEADLOCK FALSE
