SPECIFICATION HandSpec
CONSTANTS
  s1 = s1
  s2 = s2
  s3 = s3
  s4 = s4
  None = None
  Seats = {s1, s2, s3, s4}
  ChipMod = 256
  StartChips = 4
  Ante = 2
  DoubleEvery = 10
  Bets = {4}
  Pauses = {}
  MaxRounds = 2
  Order <- Four
  Stacks = {1, 2, 3, 4, 5, 6, 7, 8, 9, 10}
  Total = 8
  Leavers = {s1, s2, s3, s4}
INVARIANTS EveryoneActed BetsInv PotsInv
PROPERTIES TurnPasses
CHECK_DEADLOCK FALSE
