------------------------------ MODULE SidePots ------------------------------
(***************************************************************************)
(* The pots of one hand: internal/poker/pot.go and sidepot.go.             *)
(*                                                                         *)
(* A value of type AllPots holds the main pot, the betting side pot (if it *)
(* exists yet) and the all-in side pots.  The slice AllInPots.Pots holds   *)
(* pointers, and one pot may appear in it twice; order is therefore the    *)
(* sequence of the names of the pots and side maps a name to the pot.  A   *)
(* pot is named by the seat whose all-in created it: a seat goes all-in at *)
(* most once in a hand, and creates at most one pot by it.                 *)
(***************************************************************************)
EXTENDS Integers, Sequences, FiniteSets

CONSTANTS
  Seats,    \* the seats of the table
  ChipMod   \* chips are unsigned: 2^64 in the code, smaller for TLC

ASSUME SeatsAssumption   == IsFiniteSet(Seats)
ASSUME ChipModAssumption == ChipMod \in Nat \ {0}

\* The Go type Chips: additions and subtractions wrap.
Chips == 0 .. ChipMod - 1
Plus(a, b)  == (a + b) % ChipMod
MinusSigned(a, b) == a - b   \* mutant: chips are signed
Minus(a, b) == (a - b) % ChipMod
Times(a, b) == (a * b) % ChipMod

Pot == [bet : Chips, total : Chips, players : SUBSET Seats, closed : BOOLEAN,
        mustBet : Chips, mustPlayers : SUBSET Seats]

AllPots == [main : Pot, betting : Pot, hasBetting : BOOLEAN,
            order : Seq(Seats), side : [Seats -> Pot]]

NewPot(bet, players) ==
  [bet |-> bet, total |-> 0, players |-> players, closed |-> FALSE,
   mustBet |-> 0, mustPlayers |-> {}]

NoPot == NewPot(0, {})

NoPots == [main |-> NoPot, betting |-> NoPot, hasBetting |-> FALSE,
           order |-> << >>, side |-> [s \in Seats |-> NoPot]]

IsEmpty(P) == P.order = << >> /\ ~P.hasBetting

AddTo(pot, p) == [pot EXCEPT !.players = @ \cup {p}]

-----------------------------------------------------------------------------
(* The open all-in pots, as positions in order.                            *)

OpenPots(P) == {i \in DOMAIN P.order : ~P.side[P.order[i]].closed}

BetAt(P, i) == P.side[P.order[i]].bet

LastOf(S) == CHOOSE i \in S : \A j \in S : j <= i
FirstOf(S) == CHOOSE i \in S : \A j \in S : i <= j

\* The open pots are in the order of their bets; only a pot that Insert put in
\* twice is beside itself.
Ordered(P) ==
  \A i, j \in OpenPots(P) : i < j => BetAt(P, i) < BetAt(P, j) \/ P.order[i] = P.order[j]

\* They lie on the main pot, the lowest one first.
Stacked(P) ==
  Ordered(P) /\ (~P.main.closed => \A i \in OpenPots(P) : P.main.bet < BetAt(P, i))

\* The bet a new largest pot, or the first open pot, is measured from.
MainBase(P) == IF P.main.closed THEN 0 ELSE P.main.bet

\* Calculate, for every open pot: a pot that is in the slice twice gets its
\* MustCall chips twice; the second time its own bet is the previous one.
CalculateSidePotTotals(P) ==
  LET Open == OpenPots(P)
      Lower(i) == {j \in Open : j < i}
      PrevBet(i) == IF Lower(i) = {} THEN MainBase(P) ELSE BetAt(P, LastOf(Lower(i)))
      At(s) == {i \in Open : P.order[i] = s}
      Must(s) == Times(Cardinality(At(s)),
                       Times(P.side[s].mustBet, Cardinality(P.side[s].mustPlayers)))
      Gain(s) == Plus(Must(s), Times(Minus(P.side[s].bet, PrevBet(FirstOf(At(s)))),
                                     Cardinality(P.side[s].players)))
  IN  [P EXCEPT !.side = [s \in Seats |->
         IF At(s) = {} THEN P.side[s] ELSE [P.side[s] EXCEPT !.total = Plus(@, Gain(s))]]]

CloseSidePots(P) ==
  IF ~P.hasBetting THEN P
  ELSE [P EXCEPT !.main.closed = TRUE,
                 !.betting.bet = 0,
                 !.side = [s \in Seats |->
                    IF \E i \in OpenPots(P) : P.order[i] = s
                    THEN [P.side[s] EXCEPT !.closed = TRUE] ELSE P.side[s]]]

-----------------------------------------------------------------------------
(* handleSidePots.  The step of a player is a record: the player, the kind *)
(* of action, the bet it amounts to, what the player had put in before in  *)
(* this street (prev), all the player's chips (full), the table's bet, the *)
(* raised flag of the table and the set of players ahead of it in          *)
(* curPlayers.                                                             *)

Step == [player : Seats, kind : {"AllIn", "Bet", "Call"}, amount : Chips, prev : Chips,
         full : Chips, bet : Chips, raised : BOOLEAN, ahead : SUBSET Seats]

\* The first all-in of the hand turns the main pot into the pot for that
\* bet, and opens the betting pot for what the players ahead bet above it.
FirstSidePot(P, h) ==
  LET over   == Minus(h.bet, h.amount)
      called == IF over = 0 THEN {} ELSE h.ahead
      moved  == Times(over, Cardinality(called))
  IN  [P EXCEPT !.main.bet     = h.amount,
                !.main.total   = Plus(Minus(Minus(@, h.prev), moved), h.amount),
                !.main.players = @ \cup {h.player},
                !.betting      = [NewPot(over, called) EXCEPT !.total = moved],
                !.hasBetting   = TRUE]

\* An all-in below the main pot's bet: the main pot as it was becomes the
\* first side pot, and the main pot shrinks to the new bet.
SplitMainPot(P, h) ==
  LET back == Times(Minus(P.main.bet, h.amount), Cardinality(P.main.players))
  IN  [P EXCEPT !.main.bet     = h.amount,
                !.main.total   = Plus(Minus(@, back), Minus(h.amount, h.prev)),
                !.main.players = @ \cup {h.player},
                !.order        = << h.player >> \o @,
                !.side[h.player] = NewPot(P.main.bet, P.main.players)]

JoinMainPot(P, h) ==
  [P EXCEPT !.main.players = @ \cup {h.player},
            !.main.total   = Plus(@, Minus(P.main.bet, h.prev))]

\* The all-in joins every open pot up to its bet; the loop stops at the
\* first one that matches or exceeds it.
JoinLowerPots(P, h) ==
  LET Open == OpenPots(P)
      Joined == {i \in Open : /\ BetAt(P, i) <= h.amount
                              /\ \A j \in Open : j < i => BetAt(P, j) < h.amount}
      Join(pot) == [AddTo(pot, h.player) EXCEPT
                      !.mustPlayers = IF P.main.closed THEN @ \ {h.player} ELSE @]
  IN  [P EXCEPT !.side = [s \in Seats |->
         IF \E i \in Joined : P.order[i] = s THEN Join(P.side[s]) ELSE P.side[s]]]

\* An all-in above all the open ones takes its share of the betting pot, or
\* the whole of it: then who bet there must call, and the betting pot is
\* emptied, with what it held from earlier streets.
AddLargestPot(P, h) ==
  LET Open == OpenPots(P)
      base == IF Open = {} THEN MainBase(P) ELSE BetAt(P, LastOf(Open))
      diff == Minus(h.amount, base)
      b    == P.betting
      above == diff > b.bet
      pot == IF above
             THEN [NewPot(h.amount, {h.player}) EXCEPT
                     !.mustBet = b.bet,
                     !.mustPlayers = IF b.bet = 0 THEN {} ELSE b.players]
             ELSE NewPot(h.amount, b.players \cup {h.player})
      rest == IF above THEN NoPot
              ELSE [b EXCEPT !.bet = Minus(@, diff),
                             !.total = Minus(@, Times(diff, Cardinality(b.players)))]
  IN  [P EXCEPT !.order = Append(@, h.player), !.side[h.player] = pot, !.betting = rest]

\* SidePotArray.Insert.  For a position other than the first the inner
\* append writes into the array the outer one reads from, so the pot that
\* was at position k is overwritten and the new one appears twice.
Insert(order, s, k) ==
  IF k = 1 THEN << s >> \o order
  ELSE SubSeq(order, 1, k - 1) \o << s, s >> \o SubSeq(order, k + 1, Len(order))

InsertPot(P, h, k) ==
  LET Larger == {P.order[i] : i \in k .. Len(P.order)}
      players == P.betting.players \cup {h.player} \cup UNION {P.side[s].players : s \in Larger}
  IN  [P EXCEPT !.order = Insert(@, h.player, k),
                !.side[h.player] = NewPot(h.amount, players)]

\* Mutant: every all-in appends a pot.
AppendPot(P, h) == AddLargestPot(JoinLowerPots(P, h), h)

AllInPots(P, h) ==
  LET Q == JoinLowerPots(P, h)
      Reached == {i \in OpenPots(P) : BetAt(P, i) >= h.amount}
  IN  IF Reached = {} THEN AddLargestPot(Q, h)
      ELSE IF BetAt(P, FirstOf(Reached)) = h.amount THEN Q
      ELSE InsertPot(Q, h, FirstOf(Reached))

LaterAllIn(P, h) ==
  IF P.main.closed THEN AllInPots(P, h)
  ELSE IF P.main.bet > h.amount THEN SplitMainPot(P, h)
  ELSE IF P.main.bet = h.amount THEN JoinMainPot(P, h)
  ELSE AllInPots(IF h.player \in P.main.players THEN P ELSE JoinMainPot(P, h), h)

\* What a re-raise does not put into the betting pot: the bet of the last
\* open pot below the betting pot's, or that of the open main pot.
BelowBettingPot(P) ==
  LET Lower == {i \in OpenPots(P) : BetAt(P, i) < P.betting.bet}
      below == IF Lower = {} THEN 0 ELSE BetAt(P, LastOf(Lower))
  IN  IF below = 0 THEN MainBase(P) ELSE below

Reraises(P, h) == h.kind = "Bet" /\ h.raised /\ h.amount > P.betting.bet

\* A bet or a call while side pots exist.
BetOrCall(P, h) ==
  LET p == h.player
      joins == ~P.main.closed /\ p \notin P.main.players
      share == IF P.main.bet > h.prev THEN Minus(P.main.bet, h.prev) ELSE P.main.bet
      bet == IF h.kind = "Call" THEN P.betting.bet
             ELSE IF Reraises(P, h) THEN Minus(h.amount, BelowBettingPot(P)) ELSE h.amount
      Join(pot) == [AddTo(pot, p) EXCEPT !.mustPlayers = @ \ {p}]
  IN  [P EXCEPT
         !.main = IF joins THEN [AddTo(P.main, p) EXCEPT !.total = Plus(@, share)] ELSE P.main,
         !.betting = [AddTo(P.betting, p) EXCEPT !.bet = bet, !.total = Plus(@, bet)],
         !.side = [s \in Seats |-> IF \E i \in OpenPots(P) : P.order[i] = s
                                   THEN Join(P.side[s]) ELSE P.side[s]]]

HandleSidePots(P, h) ==
  IF IsEmpty(P) THEN FirstSidePot(P, h)
  ELSE IF h.kind = "AllIn" THEN LaterAllIn(P, h)
  ELSE BetOrCall(P, h)

\* The three assertions of handleSidePots; a failed one panics.
SidePotAsserts(P, h) ==
  ~IsEmpty(P) /\ h.kind # "AllIn" =>
    /\ ~P.main.closed /\ h.player \notin P.main.players => h.full >= P.main.bet
    /\ \A i \in OpenPots(P) : h.full >= BetAt(P, i)
    /\ Reraises(P, h) => BelowBettingPot(P) <= h.amount

-----------------------------------------------------------------------------
\* Table.PublicInfo, called for every message that carries the table, makes
\* a new Players map on the table's own main pot and copies that onto itself.
PublicInfo(P) == [P EXCEPT !.main.players = {}]
=============================================================================
