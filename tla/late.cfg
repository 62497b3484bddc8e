SPECIFICATION RacingSpec
CONSTANTS
  s1 = s1
  s2 = s2
  s3 = s3
  None = None
  Seats = {s1, s2, s3}
  ChipMod = 64
  StartChips = 3
  Ante = 2
  DoubleEvery = 10
  Bets = {}
  Pauses = {}
  MaxRounds = 1
  MaxLate = 1
SYMMETRY Symmetry
INVARIANTS RingOrder RacingInv AloneOnlyByLateStart
PROPERTIES JoinersWait
CHECK_DEADLOCK FALSE
