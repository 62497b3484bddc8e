------------------------------ MODULE Showdown ------------------------------
(***************************************************************************)
(* The cards of one round: Deal and the community cards of                 *)
(* internal/poker/community.go, then BestHand.  Rounds abstracts all of it *)
(* to how the hands compare.                                               *)
(*                                                                         *)
(* cardsSort is stable for so few cards, so of the order in which cards    *)
(* were dealt only that of equal values matters: community and holes are   *)
(* kept sorted.                                                            *)
(***************************************************************************)
EXTENDS HandRanking

CONSTANTS
  Players,
  Deck      \* the cards, 52 in the code

ASSUME DeckAssumption ==
  /\ IsFiniteSet(Deck) /\ IsFiniteSet(Players) /\ Players # {}
  /\ \A c \in Deck : c.value \in 2 .. CardAce

VARIABLES
  hole,       \* Hole.Cards of every player
  community,  \* Community
  hand,       \* Hand of every player
  winners     \* what BestHand returns

vars == << hole, community, hand, winners >>

Init ==
  /\ hole = [p \in Players |-> << >>]
  /\ community = << >>
  /\ hand = [p \in Players |-> Muck]
  /\ winners = {}

\* The cards that were not popped off the shuffled deck.
Left == Deck \ (ToSet(community) \cup UNION {ToSet(hole[p]) : p \in Players})

\* Deal: two cards for a player.
Deal(p) ==
  /\ hole[p] = << >>
  /\ \E c, d \in Left : c # d /\ c.value <= d.value /\ hole' = [hole EXCEPT ![p] = << c, d >>]
  /\ UNCHANGED << community, hand, winners >>

\* DoFlop, DoTurn and DoRiver: five times a community card.
AddToCommunity(c) ==
  /\ \A p \in Players : hole[p] # << >>
  /\ Len(community) < 5
  /\ community' = SortInto(community, c)
  /\ UNCHANGED << hole, hand, winners >>

\* The cards AssembleBestHand looks at.
Cards(p) == FoldLeft(SortInto, community, hole[p])

\* FinishRound: the hands are assembled and compared.
FinishRound ==
  /\ Len(community) = 5
  /\ winners = {}
  /\ hand' = [p \in Players |-> AssembleBestHand(Cards(p))]
  /\ winners' = BestHand(hand', Players)
  /\ UNCHANGED << hole, community >>

Next ==
  \/ \E p \in Players : Deal(p)
  \/ \E c \in Left : AddToCommunity(c)
  \/ FinishRound

Spec == Init /\ [][Next]_vars

-----------------------------------------------------------------------------
(* The rules of poker, for five cards: the reference.                      *)

\* The ace counts as the lowest card in an ace-to-five straight.
WheelValues == {2, 3, 4, 5, CardAce}

InSequence(values) ==
  values = WheelValues \/ (Cardinality(values) = 5 /\ Max(values) - Min(values) = 4)

Values(five) == {c.value : c \in five}

Suited(five) == Cardinality({c.suit : c \in five}) = 1

StraightFlush(five) == Suited(five) /\ InSequence(Values(five))

Times(five, v) == Cardinality({c \in five : c.value = v})

\* Without a flush or a straight, the rank follows from how many values there
\* are and from how often the most frequent one occurs.
MatchRank(values, most) ==
  CASE values = 5              -> Rank.HighCard
    [] values = 4              -> Rank.Pair
    [] values = 3 /\ most = 2  -> Rank.TwoPair
    [] values = 3 /\ most = 3  -> Rank.Trips
    [] values = 2 /\ most = 3  -> Rank.FullHouse
    [] values = 2 /\ most = 4  -> Rank.Quads

RankOf(five) ==
  LET values == Values(five)
  IN  IF StraightFlush(five)
      THEN IF Min(values) = CardAce - 4 THEN Rank.RoyalFlush ELSE Rank.StraightFlush
      ELSE IF Suited(five) THEN Rank.Flush
      ELSE IF InSequence(values) THEN Rank.Straight
      ELSE MatchRank(Cardinality(values), Max({Times(five, v) : v \in values}))

\* Between hands of a rank, cards that occur more often count first, then
\* higher ones.  The strength is a number with the values as its digits.
Base == CardAce + 1

ValueStrength(five) ==
  LET values == Values(five)
      weight == [v \in values |-> IF values = WheelValues /\ v = CardAce THEN 0
                                  ELSE Times(five, v) * Base + v]
      below == [v \in values |-> Cardinality({c \in five : weight[c.value] < weight[v]})]
      Ones(n) == (Base ^ n - 1) \div (Base - 1)
  IN  MapThenSumSet(LAMBDA v : v * Ones(Times(five, v)) * Base ^ below[v], values)

\* The five-card hands of player p.
Fives(p) == kSubset(5, ToSet(Cards(p)))

Strongest(p) ==
  LET top == Max({RankOf(five) : five \in Fives(p)})
  IN  top * Base ^ 5 + Max({ValueStrength(five) : five \in {f \in Fives(p) : RankOf(f) = top}})

\* The strength of the code's hand, whose cards are in ascending order: below
\* its rank, the values from the highest card on are the digits.
HandStrength(h) ==
  LET Digit(more, k) == more * Base + h.cards[k].value
  IN  Digit(Digit(Digit(Digit(Digit(h.rank, 5), 4), 3), 2), 1)

-----------------------------------------------------------------------------
(* Properties.                                                             *)

\* The flop, the turn or the river has been dealt: sendCurHands shows every
\* player its hand then.
Shown == Len(community) >= 3 /\ winners = {}

\* Hand h is a straight flush, and player p has one: both or neither.
SeesStraightFlush(p, h) ==
  h.rank >= Rank.StraightFlush <=> \E five \in Fives(p) : StraightFlush(five)

\* Five cards and a rank.
IsHand(h) == h.rank \in Int /\ h.cards \in [1 .. 5 -> Deck]

\* Of the cards on the table and in its hand a player gets five, the best as
\* the rules rank them, with the kickers that decide ties: on the flop, on the
\* turn and on the river; unless a straight flush is overlooked or imagined
\* (see StraightFlushes).
BestFive ==
  Shown => \A p \in Players :
    LET h == AssembleBestHand(Cards(p))
    IN  /\ IsHand(h) /\ ToSet(h.cards) \in Fives(p)
        /\ SeesStraightFlush(p, h) => HandStrength(h) = Strongest(p)

\* The pot goes to exactly the players whose best five cards are strongest,
\* and is split only between equal hands.
WinnersBest ==
  winners # {} /\ (\A p \in Players : SeesStraightFlush(p, hand[p])) =>
    LET best == Max({Strongest(p) : p \in Players})
    IN  winners = {p \in Players : Strongest(p) = best}

\* "best possible hands with no matches in order: royal flush, straight flush,
\* flush, straight or high card" (hand_ranking.go:325): without matches, a
\* hand is a straight flush if and only if the cards contain one.
StraightFlushes ==
  Shown => \A p \in Players :
    Cardinality(Values(ToSet(Cards(p)))) = Len(Cards(p))
      => SeesStraightFlush(p, AssembleBestHand(Cards(p)))
=============================================================================
