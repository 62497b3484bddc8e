----------------------------- MODULE HandRanking -----------------------------
(***************************************************************************)
(* Hand ranking, internal/poker/hand_ranking.go: AssembleBestHand finds    *)
(* the best five of a player's cards, BestHand and checkTies compare the   *)
(* hands of several players.  A card is a record of a value and a suit.    *)
(***************************************************************************)
EXTENDS Integers, SequencesExt, FiniteSetsExt

CONSTANT CardAce   \* the highest value, 14 in the code; the lowest is 2

ASSUME CardAceAssumption == CardAce \in Nat /\ CardAce > 5

Rank == [Muck |-> -1, HighCard |-> 0, Pair |-> 1, TwoPair |-> 2, Trips |-> 3, Straight |-> 4,
         Flush |-> 5, FullHouse |-> 6, Quads |-> 7, StraightFlush |-> 8, RoyalFlush |-> 9]

Muck == [rank |-> Rank.Muck, cards |-> << >>]

-----------------------------------------------------------------------------
(* AssembleBestHand, for sorted cards.                                     *)

\* One step of cardsSort: behind the cards of the same value.
SortInto(cards, c) ==
  InsertAt(cards, 1 + Cardinality({i \in DOMAIN cards : cards[i].value <= c.value}), c)

OfValue(cards, v) == SelectSeq(cards, LAMBDA c : c.value = v)

\* The values of which there are n cards: the pairs, trips and quads.
Matches(cards, n) == {v \in 2 .. CardAce : Len(OfValue(cards, v)) = n}

LastCards(cards, n) == SubSeq(cards, Len(cards) - n + 1, Len(cards))

\* Mutant: kickers may repeat the values that were matched.
TopCardsOfAll(cards, n, except) == LastCards(cards, n)

TopCards(cards, n, except) ==
  LastCards(SelectSeq(cards, LAMBDA c : c.value \notin except), n)

\* The cards of the suit of which there are five, if there is one.
FlushCards(cards) ==
  SelectSeq(cards, LAMBDA c : Len(SelectSeq(cards, LAMBDA d : d.suit = c.suit)) >= 5)

\* Every value once, by the card of the flush suit or else by the first.
UniqueCards(cards) ==
  LET InFlush(c) == c \in ToSet(FlushCards(cards))
      Kept(c) == LET same == OfValue(cards, c.value)
                 IN  IF \E d \in ToSet(same) : InFlush(d) THEN InFlush(c) ELSE c = same[1]
  IN  SelectSeq(cards, Kept)

\* The cards from position i to position j have consecutive values.
Consecutive(cards, i, j) == \A k \in i + 1 .. j : cards[k].value = cards[k - 1].value + 1

\* The positions at which a straight ends, and the ace-to-five straight.
Highs(cards) == {i \in 5 .. Len(cards) : Consecutive(cards, i - 4, i)}

AceLow(cards) ==
  /\ Len(cards) >= 5
  /\ cards[1].value = 2 /\ Consecutive(cards, 1, 4) /\ Last(cards).value = CardAce

\* gotStraight for the highest straight.  Of an ace-to-five straight the suit
\* of the two is not compared with the ace's.
StraightHand(cards) ==
  LET low == Highs(cards) = {}
      high == IF low THEN 4 ELSE Max(Highs(cards))
      suited == IF low THEN \A k \in 2 .. 4 : cards[k].suit = Last(cards).suit
                ELSE \A k \in high - 3 .. high : cards[k].suit = cards[k - 1].suit
  IN  [rank |-> IF ~suited THEN Rank.Straight
                ELSE IF cards[high].value = CardAce THEN Rank.RoyalFlush
                ELSE Rank.StraightFlush,
       cards |-> IF low THEN << Last(cards) >> \o SubSeq(cards, 1, 4)
                 ELSE SubSeq(cards, high - 4, high)]

\* The value of the pair in a full house with these trips.
PairValue(cards) ==
  Max((Matches(cards, 3) \ {Max(Matches(cards, 3))}) \cup Matches(cards, 2))

FullHouse(cards) ==
  [rank |-> Rank.FullHouse,
   cards |-> SubSeq(OfValue(cards, PairValue(cards)), 1, 2)
             \o OfValue(cards, Max(Matches(cards, 3)))]

TwoPair(cards) ==
  LET high == Max(Matches(cards, 2))
      low == Max(Matches(cards, 2) \ {high})
  IN  [rank |-> Rank.TwoPair,
       cards |-> TopCards(cards, 1, {high, low}) \o OfValue(cards, low) \o OfValue(cards, high)]

\* n cards of the highest such value behind the best kickers.
OfAKind(rank, cards, n) ==
  LET v == Max(Matches(cards, n))
  IN  [rank |-> rank, cards |-> TopCards(cards, 5 - n, {v}) \o OfValue(cards, v)]

AssembleBestHand(cards) ==
  LET trips == Matches(cards, 3)
      pairs == Matches(cards, 2)
      unique == UniqueCards(cards)
      isStraight == Highs(unique) # {} \/ AceLow(unique)
  IN  IF Matches(cards, 4) # {} THEN OfAKind(Rank.Quads, cards, 4)
      ELSE IF trips # {} /\ Cardinality(trips \cup pairs) > 1 THEN FullHouse(cards)
      ELSE IF isStraight /\ StraightHand(unique).rank # Rank.Straight
           THEN StraightHand(unique)
      ELSE IF FlushCards(cards) # << >>
           THEN [rank |-> Rank.Flush, cards |-> LastCards(FlushCards(cards), 5)]
      ELSE IF isStraight THEN StraightHand(unique)
      ELSE IF trips # {} THEN OfAKind(Rank.Trips, cards, 3)
      ELSE IF Cardinality(pairs) > 1 THEN TwoPair(cards)
      ELSE IF pairs # {} THEN OfAKind(Rank.Pair, cards, 2)
      ELSE [rank |-> Rank.HighCard, cards |-> LastCards(cards, 5)]

-----------------------------------------------------------------------------
(* BestHand and checkTies, for players p with hands h[p].                  *)

\* Those of the players whose k-th card is highest.
BestAt(h, players, k) ==
  {p \in players : \A q \in players : h[q].cards[k].value <= h[p].cards[k].value}

\* Those with the highest rank.
Ranked(h, players) == {p \in players : \A q \in players : h[q].rank <= h[p].rank}

\* Mutant: the cards are compared from the lowest.
BestHandFromLowest(h, players) ==
  LET At(best, k) == BestAt(h, best, k)
  IN  At(At(At(At(At(Ranked(h, players), 1), 2), 3), 4), 5)

BestHand(h, players) ==
  LET At(best, k) == BestAt(h, best, k)
  IN  At(At(At(At(At(Ranked(h, players), 5), 4), 3), 2), 1)
=============================================================================
