SPECIFICATION FairSpec
CONSTANTS
  s1 = s1
  s2 = s2
  s3 = s3
  None = None
  Seats = {s1, s2}
  ChipMod = 64
  StartChips = 5
  Ante = 1
  DoubleEvery = 1
  Bets = {3}
  Pauses = {"PostBetting", "RunOut", "NewRound"}
  MaxRounds = 2
INVARIANTS BetCovers
PROPERTIES LockReleased
CHECK_DEADLOCK FALSE
