SPECIFICATION Spec
CONSTANTS
  p1 = p1
  p2 = p2
  Players = {p1, p2}
  CardAce = 7
  Deck <- ShortDeck
SYMMETRY Symmetry
INVARIANTS BestFive WinnersBest
CHECK_DEADLOCK FALSE
