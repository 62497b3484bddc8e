------------------------------ MODULE Requests ------------------------------
(***************************************************************************)
(* Requests that race for the room lock: internal/net/server_requests.go.  *)
(* Every request runs in a goroutine of its own.  An action is let through *)
(* before the lock is taken (the room is not locked, the table has a game, *)
(* it is the player's turn) and carried out under the lock, for a player   *)
(* whose turn may be over then.  A start is let through and carried out    *)
(* without the lock.  Module Game has each of these pairs as one step.     *)
(*                                                                         *)
(* Of the late actions, the checks and folds of players with chips are     *)
(* modelled.                                                               *)
(***************************************************************************)
EXTENDS Game

CONSTANT MaxLate  \* so many actions wait for the lock

ASSUME RequestsAssumption == MaxLate \in Nat

VARIABLES
  waiting,  \* the players whose action has been let through
  late,     \* how many there were
  starting  \* a start has been let through

races == << waiting, late, starting >>

RacingInit == Init /\ waiting = {} /\ late = 0 /\ starting = FALSE

\* Mutant: whoever is on the seat.
NotRevalidated == UNCHANGED waiting

\* A player who has left is not the one whose action was let through, even
\* if the seat is taken again: pointer identity and IsVacant.
Revalidated == waiting' = waiting \cap Occupied(act')

\* A step of Game, which follows the code as long as the turn is with a player
\* who may bet.  A start that comes after the game has begun does nothing: it
\* is dropped here (one that is late by a whole game is not modelled).
InOrder ==
  /\ curPlayers # << >> => Members(curPlayers) \cap Eligible(act) # {}
  /\ Betting => curPlayer \in Eligible(act)
  /\ Next /\ Revalidated
  /\ starting' = (starting /\ state' = "NotStarted")
  /\ UNCHANGED late

-----------------------------------------------------------------------------
(* handlePlayerAction.                                                     *)

LetThrough(p) ==
  /\ phase = "Open"
  /\ roundCount < MaxRounds /\ late < MaxLate
  /\ p \in Occupied(act) \ waiting
  /\ state # "NotStarted"
  /\ p = curPlayer
  /\ waiting' = waiting \cup {p}
  /\ late' = late + 1
  /\ UNCHANGED << vars, starting >>

\* The lock is free, and p is one of those who get it.
GotLock(p) == phase = "Open" /\ p \in waiting

\* The table takes no action.
TooLate(p) ==
  /\ GotLock(p)
  /\ state \notin BettingStates
  /\ waiting' = waiting \ {p}
  /\ UNCHANGED << vars, late, starting >>

\* PlayerAction for any player: the turn that ends is that of curPlayer.
Late(p, kind) ==
  /\ GotLock(p)
  /\ state \in BettingStates
  /\ chips[p] # 0
  /\ waiting' = waiting \ {p}
  /\ EndTurn([act EXCEPT ![p] = kind], curPlayers, state, pots)
  /\ UNCHANGED << amt, chips, bet, late, starting >>

LateCheck(p) ==
  /\ state # "PlayerRaised" /\ ~IsSmallBlindPreFlop(p)
  /\ Late(p, "Check")

LateFold(p) == Late(p, "Fold")

-----------------------------------------------------------------------------
(* handleStartGame.                                                        *)

LetStart ==
  /\ ~starting
  /\ numPlayers >= 2
  /\ state = "NotStarted"
  /\ starting' = TRUE
  /\ UNCHANGED << vars, waiting, late >>

\* NextTableAction: the game begins with whoever is there.
LateStart ==
  /\ starting
  /\ phase = "Open" /\ state = "NotStarted"
  /\ IF activePlayers = << >> THEN Panic ELSE BeginGame
  /\ starting' = FALSE
  /\ UNCHANGED << waiting, late >>

-----------------------------------------------------------------------------

RacingNext ==
  \/ InOrder
  \/ \E p \in Seats : LetThrough(p) \/ TooLate(p) \/ LateCheck(p) \/ LateFold(p)
  \/ LetStart
  \/ LateStart

RacingSpec == RacingInit /\ [][RacingNext]_<< vars, races >>

-----------------------------------------------------------------------------
(* Properties.                                                             *)

\* A player who sits down during a hand stays out of it, even on the seat of
\* one who left it while an action was waiting.
JoinersWait ==
  [][\A s \in Seats :
       act[s] = "MidroundAddition" /\ act'[s] # act[s]
         => act'[s] = "VacantSeat" \/ phase \in {"NewRound", "GameOver"}]_vars

\* A player who is alone in a game got there by a late start, holds both
\* blinds and plays the first hand: departures never leave one behind, and a
\* game that began with one player does not go on with one.
AloneOnlyByLateStart ==
  Betting /\ Len(activePlayers) = 1 =>
    roundCount = 0 /\ commState = "PreFlop" /\ smallBlind = bigBlind

\* "it's not your turn" (server_requests.go:345): the turn passes when the
\* player who has it acts or leaves, not when another player does.
OnlyTurnHolderActs ==
  [][Betting /\ Betting' /\ curPlayer' # curPlayer =>
       act'[curPlayer] # act[curPlayer] \/ amt'[curPlayer] # amt[curPlayer]]_vars

-----------------------------------------------------------------------------
(* The inductive invariant of RequestsProofs, in parts.                    *)

\* What a late action can meet or leave: a street that can be bet on, or one
\* that is just over.
InStreet == phase = "PostBetting" \/ (phase = "Open" /\ state # "NotStarted")

\* Somebody may act, in this street or in the next.
StillBets == Betting \/ (phase = "PostBetting" /\ ~BettingIsImpossible)

\* What is left of TurnInv in a street: a late action may put a player back
\* into the hand that is not in the betting list, or leave one there that has
\* folded; but it moves nobody within the lists.
Street ==
  /\ Seated
  /\ commState # "NotStarted"
  /\ SameRing(curPlayers, activePlayers)
  /\ state \in BettingStates \cup {"DoneBetting"}
  /\ phase = "PostBetting" => state = "DoneBetting"
  /\ phase = "Open" /\ state = "DoneBetting" => curPlayers = << >>
  /\ Betting => curPlayer \in Members(curPlayers)
  /\ StillBets => \A s \in Members(curPlayers) : act[s] # "MidroundAddition"

\* Nobody waits for the lock who sat down during the hand, as long as that
\* could make a difference.
WaitingPlay ==
  /\ waiting \subseteq Occupied(act)
  /\ StillBets => \A p \in waiting : act[p] # "MidroundAddition"

\* A game begins with the first round, and the blinds of others are two.
FirstRound ==
  /\ phase = "Open" /\ state = "NotStarted" => roundCount = 0
  /\ phase \in {"SmallBlindAllIn", "BigBlindAllIn"} => Len(activePlayers) >= 2

\* Why RingOrder, SeatsMatch, JoinersWait and AloneOnlyByLateStart hold after
\* every step.
RacingInv ==
  /\ TypeOK
  /\ Following => /\ IF InStreet THEN Street ELSE TurnInv
                  /\ WaitingPlay /\ FirstRound /\ AloneOnlyByLateStart
=============================================================================
