SPECIFICATION Spec
CONSTANTS
  s1 = s1
  s2 = s2
  s3 = s3
  None = None
  Seats = {s1, s2, s3}
  ChipMod = 64
  StartChips = 4
  Ante = 2
  DoubleEvery = 10
  Bets = {3}
  Pauses = {"PostBetting", "RunOut"}
  MaxRounds = 1
SYMMETRY Symmetry
INVARIANTS TypeOK SeatsMatch RingOrder TurnHolder BettingListExact BetCovers EveryoneCalled ShowdownAtRiver RiverInv BetsInv
PROPERTIES TurnPasses NobodyReturns BetsReachThePot HandPromises
CHECK_DEADLOCK FALSE
