------------------------------- MODULE Table -------------------------------
(***************************************************************************)
(* The poker table: internal/poker/poker.go and seats.go.  This module has *)
(* the state of a table, whose turn it is (SetNextPlayerTurn) and what a   *)
(* player may do in it (PlayerAction).                                     *)
(*                                                                         *)
(* A player is the seat it sits on: the seats are a fixed pool of Player   *)
(* structs, reused when a player leaves.  A seat is vacant exactly when    *)
(* its action is "VacantSeat".                                             *)
(***************************************************************************)
EXTENDS PlayerList, SidePots

CONSTANTS
  None,        \* no player (nil)
  StartChips,  \* ChipCount of a vacant seat, 1e5 in the code
  Ante,        \* Ante of a new table, 10 in the code
  DoubleEvery, \* the ante doubles every so many rounds, 10 in the code
  Bets,        \* the amounts that clients ask to bet
  MaxRounds    \* players neither act nor join after so many rounds

ASSUME TableAssumption ==
  /\ None \notin Seats
  /\ StartChips \in Chips /\ Ante \in Chips
  /\ DoubleEvery \in Nat \ {0}
  /\ Bets \subseteq Chips
  /\ MaxRounds \in Nat

VARIABLES
  act, amt, chips,              \* of every seat: Action.Action, Action.Amount, ChipCount
  activePlayers, curPlayers,    \* the lists, from their Head
  curPlayer,                    \* whose turn it is
  dealer, smallBlind, bigBlind,
  numPlayers, roundCount, ante, bet,
  state, commState,             \* State and CommState
  pots,                         \* MainPot and sidePots
  winners, rank,                \* Winners, and how the hands compare at showdown
  phase, nextPot                \* where the handler that holds the room lock is

players == << act, amt, chips >>
lists   == << activePlayers, curPlayers >>
buttons == << dealer, smallBlind, bigBlind >>
levels  == << numPlayers, roundCount, ante >>
finish  == << winners, rank, nextPot >>
vars == << players, lists, curPlayer, buttons, levels, bet, state, commState, pots, finish, phase >>

Actions == {"VacantSeat", "MidroundAddition", "FirstAction",
            "AllIn", "Bet", "Call", "Check", "Fold"}

BettingStates == {"PreFlop", "Rounds", "PlayerRaised"}

States == BettingStates \cup {"NotStarted", "DoneBetting", "ShowHands", "SplitPot",
                              "RoundOver", "NewRound", "GameOver"}

CommStates == {"NotStarted", "PreFlop", "Flop", "Turn", "River"}

Occupied(a) == {s \in Seats : a[s] # "VacantSeat"}

Eligible(a) == {s \in Seats : a[s] \notin {"VacantSeat", "MidroundAddition", "Fold", "AllIn"}}

\* GetNonFoldedPlayers without its assertion that there is one.
NonFolded(a) == {s \in Seats : a[s] \notin {"VacantSeat", "MidroundAddition", "Fold"}}

AllInCount(a) == Cardinality({s \in Members(activePlayers) : a[s] = "AllIn"})

BettingIsImpossible == Len(curPlayers) < 2

-----------------------------------------------------------------------------
(* SetNextPlayerTurn, as a function of the actions, the list of players    *)
(* still betting, the state and the pots that its caller leaves.  A        *)
(* curPlayer that is no longer in the list is met only when the list is    *)
(* empty: then nothing changes but what DoneBetting repeats.               *)

\* Mutant: a lone all-in player counts as everybody having folded.
WonByFoldsToAllIn(a) == AllInCount(a) <= 1

\* The last player of the betting list is the last one in the hand.
WonByFolds(a) == AllInCount(a) = 0 \/ (AllInCount(a) = 1 /\ a[curPlayer] = "Fold")

\* Mutant: who folds stays in the betting list.
KeepFolded(a, cur) == cur

\* The betting list without the current player, if it folds.
DropFolded(a, cur) == IF a[curPlayer] = "Fold" THEN RemovePlayer(cur, curPlayer) ELSE cur

\* Mutants: any player who has acted ends the street; the head of the list
\* does, acted or not; only the one who raised does.
DoneAtAnyActed(a, cur, turn)  == a[turn] # "FirstAction"
DoneAtHead(a, cur, turn)      == turn = cur[1]
DoneAtBetter(a, cur, turn)    == turn = cur[1] /\ a[turn] = "Bet"

\* The turn comes back to the head of the list, who has acted.
DoneAt(a, cur, turn) == turn = cur[1] /\ a[turn] # "FirstAction"

\* Mutant: a single player is asked for an action, too.
NobodyLeft(a, list) == Len(list) = 0 /\ AllInCount(a) = 0

\* Everybody else folded.
OneLeft(a, list) == Len(list) = 1 /\ AllInCount(a) = 0

\* Mutant: the turns go round the other way.
PrevTurn(cur) == PrevOf(cur, curPlayer)

NextTurn(cur) == NextOf(cur, curPlayer)

SetNextPlayerTurn(a, cur, st, P) ==
  LET p == curPlayer
      only == Len(cur) = 1
      seated == p \in Members(cur)
      turn == IF only \/ ~seated THEN p ELSE NextTurn(cur)
      folded == IF only THEN cur ELSE DropFolded(a, cur)
      st1 == IF only THEN IF WonByFolds(a) THEN "RoundOver" ELSE "DoneBetting"
             ELSE IF ~seated THEN st
             ELSE IF OneLeft(a, folded) THEN "RoundOver"
             ELSE IF DoneAt(a, folded, turn) THEN "DoneBetting"
             ELSE st
  IN  IF st = "NotStarted"
      THEN [cur |-> cur, curPlayer |-> p, state |-> st, pots |-> P]
      ELSE [cur |-> IF a[p] = "AllIn" THEN RemovePlayer(folded, p) ELSE folded,
            curPlayer |-> turn,
            state |-> st1,
            pots |-> IF st1 = "DoneBetting"
                     THEN CloseSidePots(CalculateSidePotTotals(P)) ELSE P]

\* The room's next phase once a turn has ended in state st.
PhaseAfter(st) == CASE st = "DoneBetting" -> "PostBetting"
                    [] st = "RoundOver"   -> "FinishRound"
                    [] OTHER              -> "Open"

\* handlePlayerAction after a legal action: SetNextPlayerTurn, then
\* postPlayerAction, whose message about the action carries the table
\* unless the round is over.
EndTurn(a, cur, st, P) ==
  LET t == SetNextPlayerTurn(a, cur, st, P)
  IN  /\ act' = a
      /\ curPlayers' = t.cur
      /\ curPlayer' = t.curPlayer
      /\ state' = t.state
      /\ pots' = IF t.state = "RoundOver" THEN t.pots ELSE PublicInfo(t.pots)
      /\ phase' = PhaseAfter(t.state)
      /\ UNCHANGED << activePlayers, buttons, levels, commState, finish >>

\* A failed assertion or a nil dereference ends the server process.
Panic == phase' = "Panicked"
         /\ UNCHANGED << players, lists, curPlayer, buttons, levels, bet, state, commState,
                         pots, finish >>

-----------------------------------------------------------------------------
(* PlayerAction: one action for each request.                              *)

\* It is p's turn, and the table takes actions.  The code looks at the turn
\* before it takes the room lock; here the look and the action are one step.
MayAct(p) ==
  /\ phase = "Open"
  /\ roundCount < MaxRounds
  /\ p = curPlayer
  /\ act[p] # "VacantSeat"
  /\ state \in BettingStates

Full(p) == Plus(chips[p], amt[p])

\* Mutant: a player's whole stack is taken for its bet.
StepOfStack(p, kind, amount, cur, newBet, raised) ==
  [player |-> p, kind |-> kind, amount |-> Full(p), prev |-> amt[p], full |-> Full(p),
   bet |-> newBet, raised |-> raised, ahead |-> Before(cur, p)]

\* The step of handleSidePots for player p, who now holds the list cur.
StepOf(p, kind, amount, cur, newBet, raised) ==
  [player |-> p, kind |-> kind, amount |-> amount, prev |-> amt[p], full |-> Full(p),
   bet |-> newBet, raised |-> raised, ahead |-> Before(cur, p)]

\* Mutant: what the player has in front already is taken a second time.
PutAgain(p, kind, amount) ==
  /\ amt' = [amt EXCEPT ![p] = amount]
  /\ chips' = [chips EXCEPT ![p] = Minus(@, amount)]

\* Player p has amount in front of it, as an action of the given kind.
Put(p, kind, amount) ==
  /\ amt' = [amt EXCEPT ![p] = amount]
  /\ chips' = [chips EXCEPT ![p] = Minus(Full(p), amount)]

\* getChipLeaders(true), for a player whose real chip count is own.
Real(p, own, q) == IF q = p THEN own ELSE Plus(chips[q], amt[q])

ChipLeader(p, own) ==
  CHOOSE c \in {Real(p, own, q) : q \in NonFolded(act)} :
    \A q \in NonFolded(act) : Real(p, own, q) <= c

SecondChipLeader(p, own) ==
  LET lead == ChipLeader(p, own)
      Lower == {Real(p, own, q) : q \in NonFolded(act)} \ {lead, 0}
      tied == Cardinality({q \in NonFolded(act) : Real(p, own, q) = lead}) > 1
  IN  IF tied \/ Lower = {} THEN lead ELSE LastOf(Lower)

\* A request to go all-in, and any other request of a player without chips.
\* The amount already in front of the player is added to its bet before the
\* chip leaders are compared, so it counts three times in its own real chip
\* count.
AllInAmount(p) ==
  LET own == Plus(Full(p), Times(2, amt[p]))
  IN  IF BettingIsImpossible THEN (IF bet < Full(p) THEN bet ELSE Full(p))
      ELSE IF Full(p) >= bet /\ Full(p) = ChipLeader(p, own)
           THEN SecondChipLeader(p, own) ELSE Full(p)

AllIn(p) ==
  /\ MayAct(p)
  /\ BettingIsImpossible => chips[p] = 0
  /\ LET amount == AllInAmount(p)
         raises == ~BettingIsImpossible /\ amount > bet
         cur == IF raises THEN SetHead(curPlayers, p) ELSE curPlayers
         st == IF raises THEN "PlayerRaised" ELSE state
         newBet == IF raises THEN amount ELSE bet
         h == StepOf(p, "AllIn", amount, cur, newBet, st = "PlayerRaised")
     IN  /\ Put(p, "AllIn", amount)
         /\ bet' = newBet
         /\ EndTurn([act EXCEPT ![p] = "AllIn"], cur, st, HandleSidePots(pots, h))

\* The bet that is made when a client asks to bet a.
BetAmount(p, a) ==
  IF Full(p) # ChipLeader(p, Full(p)) \/ a < SecondChipLeader(p, Full(p)) THEN a
  ELSE SecondChipLeader(p, Full(p))

\* The side pots are brought up to date before the table's bet is, so the
\* step carries the bet that was raised.
Bet(p, a) ==
  /\ MayAct(p)
  /\ ~BettingIsImpossible
  /\ chips[p] # 0
  /\ a >= ante /\ a > bet /\ a <= Full(p)
  /\ LET kind == IF a = Full(p) THEN "AllIn" ELSE "Bet"
         amount == BetAmount(p, a)
         h == StepOf(p, kind, amount, curPlayers, bet, state = "PlayerRaised")
         inMain == [pots EXCEPT !.main.total = Plus(@, Minus(amount, amt[p]))]
         sided == kind = "AllIn" \/ ~IsEmpty(pots)
     IN  IF sided /\ ~SidePotAsserts(pots, h) THEN Panic
         ELSE /\ Put(p, kind, amount)
              /\ bet' = amount
              /\ EndTurn([act EXCEPT ![p] = kind], SetHead(curPlayers, p), "PlayerRaised",
                         IF sided THEN HandleSidePots(pots, h) ELSE inMain)

\* The small blind owes the rest of the big blind as long as nobody raised.
IsSmallBlindPreFlop(p) ==
  commState = "PreFlop" /\ state # "PlayerRaised" /\ p = smallBlind

Call(p) ==
  /\ MayAct(p)
  /\ chips[p] # 0
  /\ state = "PlayerRaised" \/ IsSmallBlindPreFlop(p)
  /\ LET kind == IF bet >= Full(p) THEN "AllIn" ELSE "Call"
         amount == IF bet >= Full(p) THEN Full(p) ELSE bet
         h == StepOf(p, kind, amount, curPlayers, bet, state = "PlayerRaised")
         inMain == [pots EXCEPT !.main.total = Plus(@, Minus(bet, amt[p]))]
         sided == kind = "AllIn" \/ ~IsEmpty(pots)
     IN  IF sided /\ ~SidePotAsserts(pots, h) THEN Panic
         ELSE /\ Put(p, kind, amount)
              /\ UNCHANGED bet
              /\ EndTurn([act EXCEPT ![p] = kind], curPlayers, state,
                         IF sided THEN HandleSidePots(pots, h) ELSE inMain)

Check(p) ==
  /\ MayAct(p)
  /\ chips[p] # 0
  /\ state # "PlayerRaised" /\ ~IsSmallBlindPreFlop(p)
  /\ EndTurn([act EXCEPT ![p] = "Check"], curPlayers, state, pots)
  /\ UNCHANGED << amt, chips, bet >>

Fold(p) ==
  /\ MayAct(p)
  /\ chips[p] # 0
  /\ EndTurn([act EXCEPT ![p] = "Fold"], curPlayers, state, pots)
  /\ UNCHANGED << amt, chips, bet >>
=============================================================================
