SPECIFICATION FairHandSpec
CONSTANTS
  s1 = s1
  s2 = s2
  s3 = s3
  s4 = s4
  None = None
  Seats = {s1, s2, s3}
  ChipMod = 256
  StartChips = 4
  Ante = 2
  DoubleEvery = 10
  Bets = {4}
  Pauses = {}
  MaxRounds = 2
  Order <- Three
  Stacks = {1, 2, 4}
  Total = 7
  Leavers = {}
PROPERTIES HandEnds
CHECK_DEADLOCK FALSE
