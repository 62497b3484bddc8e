-------------------------------- MODULE Hand --------------------------------
(***************************************************************************)
(* One hand of a game that has been played for a while: every seat is      *)
(* taken, the players hold what earlier hands left them, and nobody joins. *)
(* Game starts all players with equal chips, so it reaches few of the side *)
(* pots that unequal ones make; this module starts from any.               *)
(***************************************************************************)
EXTENDS Game

CONSTANTS
  Order,    \* the seats around the table, from the dealer of the last hand
  Stacks,   \* the chips a player may hold when the hand begins
  Total,    \* the chips of all players
  Leavers   \* the players who may leave during the hand

ASSUME HandAssumption ==
  /\ Order \in Seq(Seats) /\ Distinct(Order) /\ Members(Order) = Seats
  /\ Len(Order) >= 2
  /\ Stacks \subseteq Chips \ {0}
  /\ Leavers \subseteq Seats

Sum(f) == FoldFunction(+, 0, f)

\* The table that Table.NewRound prepared: the seats have not been rotated.
HandInit ==
  /\ act = [s \in Seats |-> "FirstAction"]
  /\ amt = [s \in Seats |-> 0]
  /\ chips \in {c \in [Seats -> Stacks] : Sum(c) = Total}
  /\ activePlayers = Order /\ curPlayers = Order /\ curPlayer = Order[1]
  /\ dealer = Order[1]
  /\ smallBlind = NextOf(Order, dealer)
  /\ bigBlind = NextOf(Order, smallBlind)
  /\ numPlayers = Len(Order) /\ roundCount = 1 /\ ante = Ante /\ bet = Ante
  /\ state = "NewRound" /\ commState = "River"
  /\ pots = [NoPots EXCEPT !.main.bet = Ante]
  /\ winners = {Order[1]} /\ rank = [s \in Seats |-> 0] /\ nextPot = 0
  /\ phase = "Blinds"

\* The hand is over when the round is finished.
HandNext ==
  /\ phase \notin {"Eliminate", "GameOver"}
  /\ \/ \E p \in Seats : Turn(p)
     \/ \E p \in Leavers : Leave(p)
     \/ Flow

HandSpec == HandInit /\ [][HandNext]_vars

\* The players answer when it is their turn, and the handlers go on.
FairHandSpec == HandSpec /\ WF_vars(HandNext)

-----------------------------------------------------------------------------
(* Properties.                                                             *)

\* As long as there is no side pot, the chips of the players and the main
\* pot add up to what the players had, through all streets of the hand.
ChipsConserved ==
  phase \notin {"Blinds", "Award", "Eliminate"} /\ IsEmpty(pots)
    => Sum(chips) + pots.main.total = Total

\* While nobody leaves, no open pot asks for more than the bet that is to be
\* called, so a player who can call it passes the assertions of
\* handleSidePots.
PotsBelowBet ==
  Betting /\ ~IsEmpty(pots) =>
    /\ \A i \in OpenPots(pots) : BetAt(pots, i) <= bet
    /\ pots.main.closed \/ pots.main.bet <= bet

\* While nobody leaves, the server does not panic, with one exception: the
\* assertion of FinishRound (round.go:77) that a hand won by folds has no side
\* pots.
OnlyFoldWinsPanic ==
  phase = "Panicked" => state = "RoundOver" /\ Cardinality(NonFolded(act)) = 1

\* If the players answer when it is their turn, the hand comes to its end.
HandEnds == phase = "Blinds" ~> phase \in {"Eliminate", "Panicked"}

-----------------------------------------------------------------------------
(* The inductive invariant of HandProofs for a hand that nobody leaves, in *)
(* parts.                                                                  *)

\* Everybody was dealt in and has a seat until the hand is over.
AllStay ==
  /\ phase \in {"Blinds", "SmallBlindAllIn", "BigBlindAllIn", "Open", "PostBetting", "RunOut",
               "FinishRound", "Award", "Eliminate", "Panicked"}
  /\ \A s \in Seats : act[s] \notin {"VacantSeat", "MidroundAddition"}
  /\ smallBlind # None
  /\ state # "NotStarted"

\* Somebody holds cards, and whose turn it is has somebody to play against.
Contested ==
  /\ NonFolded(act) # {}
  /\ Betting => NonFolded(act) # {curPlayer}
  /\ phase = "FinishRound" => state = "RoundOver"
  /\ phase = "Award" => \A s \in NonFolded(act) : rank[s] # 0

\* The bets that the open pots ask for.
Asked(P) ==
  {P.side[s].bet : s \in {q \in Members(P.order) : ~P.side[q].closed}}
    \cup (IF P.main.closed THEN {} ELSE {P.main.bet})

\* Somebody is all-in with what an open pot asks for, so that no bet of the
\* chip leader is limited to less; the end of a street closes every pot.
Backed ==
  /\ phase \in {"Blinds", "SmallBlindAllIn", "BigBlindAllIn"} => IsEmpty(pots)
  /\ phase \notin {"Award", "Eliminate"} /\ ~pots.hasBetting => pots.order = << >>
  /\ Betting /\ ~IsEmpty(pots) =>
       \A b \in Asked(pots) : b <= bet /\ \E q \in Seats : act[q] = "AllIn" /\ b <= amt[q]
  /\ phase = "PostBetting" /\ ~BettingIsImpossible /\ ~IsEmpty(pots) => Asked(pots) = {}

\* Nothing has been lost, and what the players have in front lies in the main
\* pot.
Conserved ==
  /\ phase = "Blinds" => Sum(chips) = Total /\ Sum(amt) = 0
  /\ phase \notin {"Blinds", "Award", "Eliminate"} /\ IsEmpty(pots) =>
       Sum(chips) + pots.main.total = Total /\ Sum(amt) <= pots.main.total

\* Why PotsBelowBet, OnlyFoldWinsPanic and ChipsConserved hold after every step
\* while nobody leaves.
StayInv == AllStay /\ Contested /\ OnlyFoldWinsPanic /\ Backed /\ Conserved

-----------------------------------------------------------------------------
(* A statement of the source that the code does not keep.                  *)

\* A player joins the main pot with its whole bet only if it "hadn't added to
\* the previous (smaller) mainpot bet" (sidepot.go:403): the players never
\* end a hand with more chips than they had.
NoChipsMinted == phase = "Eliminate" => Sum(chips) <= Total
=============================================================================
