--------------------------- MODULE ShowdownProofs ---------------------------
(***************************************************************************)
(* The comparison of hands, for any number of players: BestHand and        *)
(* checkTies find exactly the strongest hands.  So the right players win   *)
(* as long as everybody is given the best five of its cards, which is for  *)
(* TLC to find out.                                                        *)
(***************************************************************************)
EXTENDS Showdown, TLAPS

-----------------------------------------------------------------------------
(* The strength of a hand as a number.                                     *)

\* Numbers are compared by what is above the last digit, then by that digit.
LEMMA DigitsCompare ==
  ASSUME NEW a \in Int, NEW b \in Int, NEW base \in Nat, NEW x \in 0 .. base - 1, NEW y \in 0 .. base - 1
  PROVE  /\ a * base + x \in Int
         /\ a * base + x <= b * base + y <=> a < b \/ (a = b /\ x <= y)
<1>1. a * base \in Int /\ b * base \in Int
  OBVIOUS
<1>2. ASSUME NEW c \in Int, NEW d \in Int, c < d
      PROVE  c * base + base <= d * base
  <2>1. d - c - 1 \in Nat
    BY <1>2
  <2>2. (d - c - 1) * base \in Nat
    BY <2>1
  <2>3. (d - c - 1) * base = d * base - c * base - base
    OBVIOUS
  <2>4. c * base \in Int /\ d * base \in Int
    OBVIOUS
  <2> QED BY <2>2, <2>3, <2>4
<1>3. CASE a < b
  <2>1. a * base + base <= b * base
    BY <1>2, <1>3
  <2> QED BY <1>1, <1>3, <2>1
<1>4. CASE b < a
  <2>1. b * base + base <= a * base
    BY <1>2, <1>4
  <2> QED BY <1>1, <1>4, <2>1
<1>5. CASE a = b
  BY <1>1, <1>5
<1> QED BY <1>3, <1>4, <1>5

\* The values of a hand are digits.
LEMMA ValuesAreDigits ==
  ASSUME NEW g, IsHand(g), NEW k \in 1 .. 5
  PROVE  g.cards[k].value \in 0 .. Base - 1
<1>1. g.cards[k] \in Deck
  BY DEF IsHand
<1> QED BY <1>1, DeckAssumption, CardAceAssumption DEF Base

\* Hands are compared by rank, then card by card from the highest on.
LEMMA StrengthsCompare ==
  ASSUME NEW f, IsHand(f), NEW g, IsHand(g)
  PROVE  /\ HandStrength(f) \in Int
         /\ HandStrength(f) <= HandStrength(g) <=>
              \/ f.rank < g.rank
              \/ /\ f.rank = g.rank
                 /\ \/ f.cards[5].value < g.cards[5].value
                    \/ /\ f.cards[5].value = g.cards[5].value
                       /\ \/ f.cards[4].value < g.cards[4].value
                          \/ /\ f.cards[4].value = g.cards[4].value
                             /\ \/ f.cards[3].value < g.cards[3].value
                                \/ /\ f.cards[3].value = g.cards[3].value
                                   /\ \/ f.cards[2].value < g.cards[2].value
                                      \/ /\ f.cards[2].value = g.cards[2].value
                                         /\ f.cards[1].value <= g.cards[1].value
<1> DEFINE F(k) == f.cards[k].value
           G(k) == g.cards[k].value
           fr == f.rank
           gr == g.rank
           f5 == fr * Base + F(5)
           g5 == gr * Base + G(5)
           f4 == f5 * Base + F(4)
           g4 == g5 * Base + G(4)
           f3 == f4 * Base + F(3)
           g3 == g4 * Base + G(3)
           f2 == f3 * Base + F(2)
           g2 == g3 * Base + G(2)
           f1 == f2 * Base + F(1)
           g1 == g2 * Base + G(1)
<1>1. Base \in Nat
  BY CardAceAssumption DEF Base
<1>2. \A k \in 1 .. 5 : F(k) \in 0 .. Base - 1 /\ G(k) \in 0 .. Base - 1
  BY ValuesAreDigits
<1>3. fr \in Int /\ gr \in Int
  BY DEF IsHand
<1>4. HandStrength(f) = f1 /\ HandStrength(g) = g1
  BY DEF HandStrength
<1> HIDE DEF F, G, fr, gr
<1>5. /\ F(1) \in 0 .. Base - 1 /\ F(2) \in 0 .. Base - 1 /\ F(3) \in 0 .. Base - 1
      /\ F(4) \in 0 .. Base - 1 /\ F(5) \in 0 .. Base - 1
      /\ G(1) \in 0 .. Base - 1 /\ G(2) \in 0 .. Base - 1 /\ G(3) \in 0 .. Base - 1
      /\ G(4) \in 0 .. Base - 1 /\ G(5) \in 0 .. Base - 1
  BY <1>2
<1>6. /\ f5 \in Int /\ g5 \in Int
      /\ f5 <= g5 <=> fr < gr \/ (fr = gr /\ F(5) <= G(5))
      /\ g5 <= f5 <=> gr < fr \/ (gr = fr /\ G(5) <= F(5))
  BY <1>1, <1>3, <1>5, DigitsCompare
<1> HIDE DEF f5, g5
<1>7. /\ f4 \in Int /\ g4 \in Int
      /\ f4 <= g4 <=> f5 < g5 \/ (f5 = g5 /\ F(4) <= G(4))
      /\ g4 <= f4 <=> g5 < f5 \/ (g5 = f5 /\ G(4) <= F(4))
  BY <1>1, <1>5, <1>6, DigitsCompare
<1> HIDE DEF f4, g4
<1>8. /\ f3 \in Int /\ g3 \in Int
      /\ f3 <= g3 <=> f4 < g4 \/ (f4 = g4 /\ F(3) <= G(3))
      /\ g3 <= f3 <=> g4 < f4 \/ (g4 = f4 /\ G(3) <= F(3))
  BY <1>1, <1>5, <1>7, DigitsCompare
<1> HIDE DEF f3, g3
<1>9. /\ f2 \in Int /\ g2 \in Int
      /\ f2 <= g2 <=> f3 < g3 \/ (f3 = g3 /\ F(2) <= G(2))
      /\ g2 <= f2 <=> g3 < f3 \/ (g3 = f3 /\ G(2) <= F(2))
  BY <1>1, <1>5, <1>8, DigitsCompare
<1> HIDE DEF f2, g2
<1>10. /\ f1 \in Int
       /\ f1 <= g1 <=> f2 < g2 \/ (f2 = g2 /\ F(1) <= G(1))
  BY <1>1, <1>5, <1>9, DigitsCompare
<1> HIDE DEF f1, g1
<1>11. f1 <= g1 <=>
         \/ fr < gr
         \/ /\ fr = gr
            /\ \/ F(5) < G(5)
               \/ /\ F(5) = G(5)
                  /\ \/ F(4) < G(4)
                     \/ /\ F(4) = G(4)
                        /\ \/ F(3) < G(3)
                           \/ /\ F(3) = G(3)
                              /\ \/ F(2) < G(2)
                                 \/ /\ F(2) = G(2)
                                    /\ F(1) <= G(1)
  BY <1>3, <1>5, <1>6, <1>7, <1>8, <1>9, <1>10
<1> QED BY <1>4, <1>10, <1>11 DEF F, G, fr, gr

-----------------------------------------------------------------------------
(* Who wins.                                                               *)

\* BestHand and checkTies, which narrow the players down by rank and then card
\* by card, leave exactly those whose hand nobody's is stronger than.
THEOREM BestHandFindsStrongest ==
  ASSUME NEW h, NEW players, \A p \in players : IsHand(h[p])
  PROVE  BestHand(h, players) =
           {p \in players : \A q \in players : HandStrength(h[q]) <= HandStrength(h[p])}
<1> DEFINE V(p, k) == h[p].cards[k].value
           r == Ranked(h, players)
           b5 == BestAt(h, r, 5)
           b4 == BestAt(h, b5, 4)
           b3 == BestAt(h, b4, 3)
           b2 == BestAt(h, b3, 2)
           b1 == BestAt(h, b2, 1)
           Lower(q, p) ==
             \/ h[q].rank < h[p].rank
             \/ /\ h[q].rank = h[p].rank
                /\ \/ V(q, 5) < V(p, 5)
                   \/ /\ V(q, 5) = V(p, 5)
                      /\ \/ V(q, 4) < V(p, 4)
                         \/ /\ V(q, 4) = V(p, 4)
                            /\ \/ V(q, 3) < V(p, 3)
                               \/ /\ V(q, 3) = V(p, 3)
                                  /\ \/ V(q, 2) < V(p, 2)
                                     \/ /\ V(q, 2) = V(p, 2)
                                        /\ V(q, 1) <= V(p, 1)
<1>1. BestHand(h, players) = b1
  BY DEF BestHand
<1>2. \A p, q \in players : HandStrength(h[q]) <= HandStrength(h[p]) <=> Lower(q, p)
  BY StrengthsCompare
<1>3. \A p \in players : /\ h[p].rank \in Int
                         /\ V(p, 1) \in Int /\ V(p, 2) \in Int /\ V(p, 3) \in Int
                         /\ V(p, 4) \in Int /\ V(p, 5) \in Int
  <2> SUFFICES ASSUME NEW p \in players
               PROVE  /\ h[p].rank \in Int
                      /\ V(p, 1) \in Int /\ V(p, 2) \in Int /\ V(p, 3) \in Int
                      /\ V(p, 4) \in Int /\ V(p, 5) \in Int
    OBVIOUS
  <2>1. IsHand(h[p]) /\ h[p].rank \in Int
    BY DEF IsHand
  <2>2. \A k \in 1 .. 5 : V(p, k) \in 0 .. Base - 1
    BY <2>1, ValuesAreDigits
  <2> QED BY <2>1, <2>2
<1>4. r = {p \in players : \A q \in players : h[q].rank <= h[p].rank}
  BY DEF Ranked
<1>5. /\ b5 = {p \in r : \A q \in r : V(q, 5) <= V(p, 5)}
      /\ b4 = {p \in b5 : \A q \in b5 : V(q, 4) <= V(p, 4)}
      /\ b3 = {p \in b4 : \A q \in b4 : V(q, 3) <= V(p, 3)}
      /\ b2 = {p \in b3 : \A q \in b3 : V(q, 2) <= V(p, 2)}
      /\ b1 = {p \in b2 : \A q \in b2 : V(q, 1) <= V(p, 1)}
  BY DEF BestAt
<1> HIDE DEF V, r, b5, b4, b3, b2, b1
<1>6. ASSUME NEW p \in b1, NEW q \in players PROVE Lower(q, p)
  <2>1. p \in b2 /\ p \in b3 /\ p \in b4 /\ p \in b5 /\ p \in r /\ p \in players
    BY <1>4, <1>5, <1>6
  <2>2. CASE q \notin r
    <3>1. PICK x \in players : ~(h[x].rank <= h[q].rank)
      BY <1>4, <2>2
    <3>2. h[x].rank <= h[p].rank
      BY <1>4, <2>1
    <3> QED BY <1>3, <2>1, <3>1, <3>2
  <2>3. ASSUME q \in r PROVE h[q].rank = h[p].rank /\ V(q, 5) <= V(p, 5)
    <3>1. h[q].rank <= h[p].rank /\ h[p].rank <= h[q].rank /\ V(q, 5) <= V(p, 5)
      BY <1>4, <1>5, <2>1, <2>3
    <3> QED BY <1>3, <2>1, <3>1
  <2>4. ASSUME q \in r, q \notin b5 PROVE V(q, 5) < V(p, 5)
    <3>1. PICK x \in r : ~(V(x, 5) <= V(q, 5))
      BY <1>5, <2>4
    <3>2. V(x, 5) <= V(p, 5) /\ x \in players
      BY <1>4, <1>5, <2>1
    <3> QED BY <1>3, <2>1, <3>1, <3>2
  <2>5. ASSUME q \in b5, q \notin b4 PROVE V(q, 4) < V(p, 4)
    <3>1. PICK x \in b5 : ~(V(x, 4) <= V(q, 4))
      BY <1>5, <2>5
    <3>2. V(x, 4) <= V(p, 4) /\ x \in players
      BY <1>4, <1>5, <2>1
    <3> QED BY <1>3, <2>1, <3>1, <3>2
  <2>6. ASSUME q \in b4, q \notin b3 PROVE V(q, 3) < V(p, 3)
    <3>1. PICK x \in b4 : ~(V(x, 3) <= V(q, 3))
      BY <1>5, <2>6
    <3>2. V(x, 3) <= V(p, 3) /\ x \in players
      BY <1>4, <1>5, <2>1
    <3> QED BY <1>3, <2>1, <3>1, <3>2
  <2>7. ASSUME q \in b3, q \notin b2 PROVE V(q, 2) < V(p, 2)
    <3>1. PICK x \in b3 : ~(V(x, 2) <= V(q, 2))
      BY <1>5, <2>7
    <3>2. V(x, 2) <= V(p, 2) /\ x \in players
      BY <1>4, <1>5, <2>1
    <3> QED BY <1>3, <2>1, <3>1, <3>2
  <2>8. /\ q \in b5 => q \in r /\ V(q, 5) <= V(p, 5) /\ V(p, 5) <= V(q, 5)
        /\ q \in b4 => q \in b5 /\ V(q, 4) <= V(p, 4) /\ V(p, 4) <= V(q, 4)
        /\ q \in b3 => q \in b4 /\ V(q, 3) <= V(p, 3) /\ V(p, 3) <= V(q, 3)
        /\ q \in b2 => q \in b3 /\ V(q, 2) <= V(p, 2) /\ V(p, 2) <= V(q, 2)
        /\ q \in b2 => V(q, 1) <= V(p, 1)
    BY <1>5, <1>6, <2>1
  <2>9. /\ q \in b5 => V(q, 5) = V(p, 5)
        /\ q \in b4 => V(q, 4) = V(p, 4)
        /\ q \in b3 => V(q, 3) = V(p, 3)
        /\ q \in b2 => V(q, 2) = V(p, 2)
    BY <1>3, <2>1, <2>8
  <2> QED BY <2>2, <2>3, <2>4, <2>5, <2>6, <2>7, <2>8, <2>9
<1>7. ASSUME NEW p \in players, \A q \in players : Lower(q, p) PROVE p \in b1
  <2>1. p \in r
    BY <1>3, <1>4, <1>7
  <2>2. p \in b5
    <3>1. \A q \in r : q \in players /\ h[q].rank = h[p].rank
      BY <1>3, <1>4, <2>1
    <3> QED BY <1>3, <1>5, <1>7, <2>1, <3>1
  <2>3. \A q \in b5 : q \in players /\ h[q].rank = h[p].rank /\ V(q, 5) = V(p, 5)
    BY <1>3, <1>4, <1>5, <2>1, <2>2
  <2>4. p \in b4
    BY <1>3, <1>5, <1>7, <2>2, <2>3
  <2>5. \A q \in b4 : q \in b5 /\ V(q, 4) = V(p, 4)
    BY <1>3, <1>5, <2>2, <2>3, <2>4
  <2>6. p \in b3
    BY <1>3, <1>5, <1>7, <2>3, <2>4, <2>5
  <2>7. \A q \in b3 : q \in b4 /\ V(q, 3) = V(p, 3)
    BY <1>3, <1>5, <2>3, <2>4, <2>5, <2>6
  <2>8. p \in b2
    BY <1>3, <1>5, <1>7, <2>3, <2>5, <2>6, <2>7
  <2>9. \A q \in b2 : q \in b3 /\ V(q, 2) = V(p, 2)
    BY <1>3, <1>5, <2>3, <2>5, <2>6, <2>7, <2>8
  <2> QED BY <1>3, <1>5, <1>7, <2>3, <2>5, <2>7, <2>8, <2>9
<1>8. b1 \subseteq players
  BY <1>4, <1>5
<1> QED BY <1>1, <1>2, <1>6, <1>7, <1>8

\* What the last step of a round leaves: everybody's best five, compared.
Compared ==
  winners # {} =>
    /\ Len(community) = 5
    /\ winners = BestHand(hand, Players)
    /\ \A p \in Players : /\ IsHand(hand[p])
                          /\ SeesStraightFlush(p, hand[p]) => HandStrength(hand[p]) = Strongest(p)

\* Community cards are dealt after the holes.
HolesFirst == community # << >> => \A p \in Players : hole[p] # << >>

\* What is compared is what BestFive has said of the cards just before.
LEMMA HandsCompared ==
  ASSUME BestFive, FinishRound
  PROVE  Compared'
<1>1. /\ Len(community) = 5 /\ winners = {} /\ UNCHANGED << hole, community >>
      /\ hand' = [p \in Players |-> AssembleBestHand(Cards(p))]
      /\ winners' = BestHand(hand', Players)
  BY DEF FinishRound
<1>2. Shown
  BY <1>1 DEF Shown
<1>3. ASSUME NEW p \in Players
      PROVE  /\ IsHand(hand[p])'
             /\ SeesStraightFlush(p, hand[p])' => HandStrength(hand[p])' = Strongest(p)'
  <2> DEFINE best == AssembleBestHand(Cards(p))
  <2>1. Fives(p)' = Fives(p) /\ hand[p]' = best
    BY <1>1 DEF Fives, Cards
  <2>2. IsHand(best) /\ (SeesStraightFlush(p, best) => HandStrength(best) = Strongest(p))
    BY <1>2 DEF BestFive
  <2> HIDE DEF best
  <2>3. IsHand(hand[p])'
    BY <2>1, <2>2 DEF IsHand
  <2>4. SeesStraightFlush(p, hand[p])' <=> SeesStraightFlush(p, best)
    BY <2>1 DEF SeesStraightFlush
  <2>5. HandStrength(hand[p])' = HandStrength(best)
    BY <2>1 DEF HandStrength
  <2>6. Strongest(p)' = Strongest(p)
    BY <2>1 DEF Strongest
  <2> QED BY <2>2, <2>3, <2>4, <2>5, <2>6
<1> QED BY <1>1, <1>3 DEF Compared

\* Everybody who wins is one of the strongest, and all of them win.
LEMMA ComparedWins ==
  ASSUME Compared
  PROVE  WinnersBest
<1> SUFFICES ASSUME winners # {}, \A p \in Players : SeesStraightFlush(p, hand[p])
             PROVE  winners = {p \in Players : Strongest(p) = Max({Strongest(q) : q \in Players})}
  BY DEF WinnersBest
<1>1. \A p \in Players : IsHand(hand[p]) /\ HandStrength(hand[p]) = Strongest(p)
  BY DEF Compared
<1>2. \A p \in Players : Strongest(p) \in Int
  <2> SUFFICES ASSUME NEW p \in Players PROVE Strongest(p) \in Int
    OBVIOUS
  <2> QED BY <1>1, StrengthsCompare
<1>3. winners = {p \in Players : \A q \in Players : Strongest(q) <= Strongest(p)}
  BY <1>1, BestHandFindsStrongest DEF Compared
<1> DEFINE S == {Strongest(q) : q \in Players}
<1>4. PICK w \in Players : \A q \in Players : Strongest(q) <= Strongest(w)
  BY <1>3
<1>5. Max(S) \in S /\ \A x \in S : Max(S) >= x
  <2>1. \E m \in S : \A x \in S : m >= x
    BY <1>2, <1>4
  <2> QED BY <2>1 DEF Max
<1>6. Max(S) = Strongest(w)
  BY <1>2, <1>4, <1>5
<1> QED BY <1>2, <1>3, <1>4, <1>6

\* If on the flop, the turn and the river everybody is shown the best five of
\* its cards, then at the end the pot goes to exactly the players with the
\* strongest cards, however many they are.
THEOREM BestFiveWins == Spec /\ []BestFive => []WinnersBest
<1> DEFINE Inv == Compared /\ HolesFirst
<1>1. Init => Inv
  BY DEF Init, Compared, HolesFirst
<1>2. Inv /\ BestFive /\ [Next]_vars => Inv'
  <2> SUFFICES ASSUME Inv, BestFive, [Next]_vars PROVE Inv'
    OBVIOUS
  <2>1. CASE FinishRound
    BY <2>1, HandsCompared DEF HolesFirst, FinishRound
  <2>2. ASSUME NEW p \in Players, Deal(p) PROVE Inv'
    <3>1. community = << >>
      BY <2>2 DEF Deal, HolesFirst
    <3>2. winners = {}
      BY <3>1 DEF Compared
    <3> QED BY <2>2, <3>1, <3>2 DEF Deal, Compared, HolesFirst
  <2>3. ASSUME NEW c \in Left, AddToCommunity(c) PROVE Inv'
    <3>1. winners = {}
      BY <2>3 DEF AddToCommunity, Compared
    <3> QED BY <2>3, <3>1 DEF AddToCommunity, Compared, HolesFirst
  <2>4. CASE UNCHANGED vars
    <3>1. UNCHANGED << hole, community, hand, winners >>
      BY <2>4 DEF vars
    <3>2. \A p \in Players : Fives(p)' = Fives(p)
      BY <3>1 DEF Fives, Cards
    <3>3. \A p \in Players : /\ Strongest(p)' = Strongest(p)
                             /\ SeesStraightFlush(p, hand[p])' <=> SeesStraightFlush(p, hand[p])
      BY <3>1, <3>2 DEF Strongest, SeesStraightFlush
    <3> QED BY <3>1, <3>3 DEF Compared, HolesFirst
  <2> QED BY <2>1, <2>2, <2>3, <2>4 DEF Next
<1>3. Inv => WinnersBest
  BY ComparedWins
<1> QED BY <1>1, <1>2, <1>3, PTL DEF Spec
=============================================================================
