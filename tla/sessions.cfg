SPECIFICATION FairSpec
CONSTANTS
  k1 = k1
  k2 = k2
  a = a
  b = b
  Conns = {k1, k2}
  Joiners = {k1, k2}
  Seats = {a, b}
  None = None
  Placeholder = Placeholder
  CountMod = 8
  MaxAsks = 2
INVARIANTS TypeOK ConnectedKept Reachable AwayIsTended OneSeatOneClient
PROPERTIES Presences AwayResolved HandlersReturn
CHECK_DEADLOCK FALSE
