-------------------------------- MODULE Game --------------------------------
(***************************************************************************)
(* A table in its room (internal/net/room.go): players take and leave      *)
(* seats, the admin starts games, hands are played, players without chips  *)
(* are removed and the last one wins the game.                             *)
(*                                                                         *)
(* Requests are served one at a time, under the room lock: the phase is    *)
(* "Open" when the lock is free.  A new connection sits down without the   *)
(* lock, so it may do so in the pauses of a handler, too.                  *)
(***************************************************************************)
EXTENDS Rounds, Functions

CONSTANT Pauses  \* phases in which new connections sit down while the lock is held

\* Where the handler sleeps for seconds; GameOver after a departure is as short
\* as any other step.
ASSUME GameAssumption == Pauses \subseteq {"PostBetting", "RunOut", "NewRound", "GameOver"}

\* The pauses within a hand.  In the others a player who sits down meets the
\* end of the game or of the players (GameOver and NewRound below).
PausesInRounds == Pauses \subseteq {"PostBetting", "RunOut"}

Init ==
  /\ act = [s \in Seats |-> "VacantSeat"]
  /\ amt = [s \in Seats |-> 0]
  /\ chips = [s \in Seats |-> StartChips]
  /\ activePlayers = << >> /\ curPlayers = << >> /\ curPlayer = None
  /\ dealer = None /\ smallBlind = None /\ bigBlind = None
  /\ numPlayers = 0 /\ roundCount = 0 /\ ante = Ante /\ bet = 0
  /\ state = "NotStarted" /\ commState = "NotStarted"
  /\ pots = NoPots
  /\ winners = {} /\ rank = [s \in Seats |-> 0] /\ nextPot = 0
  /\ phase = "Open"

\* GetSeat and addPlayer: before the game starts a player takes part at
\* once, afterwards from the next hand on.  handleNewPlayer has the room lock,
\* handleNewConn only the table's mutex for GetSeat.
Join(p) ==
  /\ phase \in {"Open"} \cup Pauses
  /\ roundCount < MaxRounds
  /\ act[p] = "VacantSeat"
  /\ LET started == state # "NotStarted"
         active == AddPlayer(activePlayers, p)
         cur == IF started THEN curPlayers ELSE AddPlayer(curPlayers, p)
     IN  /\ act' = [act EXCEPT ![p] = IF started THEN "MidroundAddition" ELSE "FirstAction"]
         /\ activePlayers' = active
         /\ curPlayers' = cur
         /\ curPlayer' = IF curPlayer = None /\ cur # << >> THEN cur[1] ELSE curPlayer
         /\ dealer' = IF dealer = None THEN active[1] ELSE dealer
         /\ smallBlind' = IF dealer # None /\ smallBlind = None THEN NextOf(active, dealer)
                          ELSE smallBlind
         /\ bigBlind' = IF dealer # None /\ smallBlind # None /\ bigBlind = None
                        THEN NextOf(active, smallBlind) ELSE bigBlind
         /\ numPlayers' = numPlayers + 1
         /\ UNCHANGED << amt, chips, roundCount, ante, bet, state, commState, pots, finish, phase >>

\* NextTableAction and ReorderPlayers before the first hand: the seats are
\* completed, the blinds are posted.
BeginGame ==
  /\ LET seating == HandleOrphanedSeats
     IN  /\ SetButtons(seating)
         /\ PostBlinds(seating.smallBlind, seating.bigBlind)
         /\ ReorderPreFlop(curPlayers, seating.bigBlind)
  /\ state' = "PreFlop"
  /\ commState' = "PreFlop"
  /\ UNCHANGED << act, levels, finish, phase >>

\* handleStartGame.
StartGame ==
  /\ phase = "Open"
  /\ numPlayers >= 2
  /\ state = "NotStarted"
  /\ BeginGame

-----------------------------------------------------------------------------
(* removePlayer.                                                           *)

\* Table.Reset(player) from the given list of betting players; None stands
\* for nil.  Every other seat is cleared, the list of active players is not.
Reset(keep, cur) ==
  /\ act' = [s \in Seats |-> IF s = keep THEN "FirstAction" ELSE "VacantSeat"]
  /\ amt' = [s \in Seats |-> 0]
  /\ chips' = [s \in Seats |-> IF s = keep THEN chips[s] ELSE StartChips]
  /\ curPlayers' = IF keep = None THEN << >> ELSE << keep >>
  /\ curPlayer' = IF keep = None THEN None
                  ELSE IF keep \in Members(cur) THEN keep ELSE curPlayer
  /\ smallBlind' = None /\ bigBlind' = None
  /\ numPlayers' = IF keep = None THEN 0 ELSE 1
  /\ roundCount' = 0 /\ ante' = Ante /\ bet' = 0
  /\ state' = "NotStarted"
  /\ pots' = NoPots
  /\ winners' = {}
  /\ UNCHANGED << commState, rank, nextPot >>

Without(button, p) == IF button = p THEN None ELSE button

\* Mutants of Unlist: the betting list is forgotten, or the count.
UnlistActiveOnly(p, cur) ==
  /\ activePlayers' = RemovePlayer(activePlayers, p)
  /\ curPlayers' = cur
  /\ numPlayers' = numPlayers - 1

UnlistUncounted(p, cur) ==
  /\ activePlayers' = RemovePlayer(activePlayers, p)
  /\ curPlayers' = RemovePlayer(cur, p)
  /\ UNCHANGED numPlayers

\* Player p leaves the lists; cur is the betting list so far.
Unlist(p, cur) ==
  /\ activePlayers' = RemovePlayer(activePlayers, p)
  /\ curPlayers' = RemovePlayer(cur, p)
  /\ numPlayers' = numPlayers - 1

\* Player p leaves the table, on which the actions are a.
Unseat(p, a, cur) ==
  /\ Unlist(p, cur)
  /\ dealer' = Without(dealer, p)
  /\ smallBlind' = Without(smallBlind, p)
  /\ bigBlind' = Without(bigBlind, p)
  /\ act' = [a EXCEPT ![p] = "VacantSeat"]
  /\ amt' = [amt EXCEPT ![p] = 0]
  /\ chips' = [chips EXCEPT ![p] = StartChips]

\* The last player leaves: Reset(nil).
LeaveLast(p) ==
  /\ phase = "Open"
  /\ act[p] # "VacantSeat"
  /\ numPlayers = 1
  /\ Reset(None, << >>)
  /\ activePlayers' = RemovePlayer(activePlayers, p)
  /\ dealer' = None
  /\ UNCHANGED phase

\* Mutant: a game goes on with a single player.
GoesOnAlone == numPlayers > 1

\* When one player leaves, others are left to play with each other.
GoesOn == numPlayers > 2

\* cleanupPlayerOnExit and removePlayer: a player whose turn it is folds
\* first.  What follows depends on how many are left.
Leave(p) ==
  /\ phase = "Open"
  /\ act[p] # "VacantSeat"
  /\ numPlayers > 1
  /\ LET inTurn == Len(activePlayers) > 1 /\ curPlayer = p
         a == IF inTurn THEN [act EXCEPT ![p] = "Fold"] ELSE act
         t == IF inTurn THEN SetNextPlayerTurn(a, curPlayers, state, pots)
              ELSE [cur |-> curPlayers, curPlayer |-> curPlayer, state |-> state, pots |-> pots]
     IN  /\ Unseat(p, a, t.cur)
         /\ curPlayer' = t.curPlayer
         /\ state' = t.state
         /\ pots' = PublicInfo(t.pots)
         /\ phase' = IF GoesOn THEN PhaseAfter(t.state)
                     ELSE IF state = "NotStarted" THEN "Open" ELSE "Abandoned"
  /\ UNCHANGED << roundCount, ante, bet, commState, finish >>

\* One player is left in a game that had started: FinishRound, then the
\* game is over.  A player who folded wins, but not the pots.
AbandonPots ==
  /\ phase = "Abandoned"
  /\ act[activePlayers[1]] = "Fold"
  /\ winners' = {activePlayers[1]}
  /\ state' = "GameOver"
  /\ phase' = "GameOver"
  /\ UNCHANGED << players, lists, curPlayer, buttons, levels, bet, commState, pots, rank,
                  nextPot >>

AbandonToLast == phase = "Abandoned" /\ WinByFolds("GameOver")

\* The last player joined during the hand and holds no cards.
AbandonToJoiner ==
  /\ phase = "Abandoned"
  /\ act[activePlayers[1]] = "MidroundAddition"
  /\ Panic

-----------------------------------------------------------------------------
(* removeEliminatedPlayers, gameOver.                                      *)

Broke == {s \in Members(activePlayers) : chips[s] = 0}

\* GetEliminatedPlayers.
Eliminate ==
  /\ phase = "Eliminate"
  /\ state' = IF Cardinality(Broke) = numPlayers - 1 THEN "GameOver" ELSE state
  /\ phase' = "Eliminating"
  /\ UNCHANGED << players, lists, curPlayer, buttons, levels, bet, commState, pots, finish >>

\* removePlayer for one of them.  When the last player is broke, too, the
\* table is reset in the middle of the round's end.  If the round was won by
\* folds and more than one player is left, the deferred call of
\* postPlayerAction finishes the round a second time, inside the first:
\* this module follows the code no further then.
RemoveEliminated ==
  /\ phase = "Eliminating"
  /\ Broke # {}
  /\ LET p == FirstIn(activePlayers, Broke)
     IN  IF numPlayers = 1
         THEN /\ Reset(None, << >>)
              /\ activePlayers' = RemovePlayer(activePlayers, p)
              /\ dealer' = None
              /\ UNCHANGED phase
         ELSE /\ Unseat(p, act, curPlayers)
              /\ pots' = PublicInfo(pots)
              /\ phase' = IF numPlayers > 2 /\ state = "RoundOver" THEN "Lost" ELSE phase
              /\ UNCHANGED << curPlayer, roundCount, ante, bet, state, commState, finish >>

EliminationDone ==
  /\ phase = "Eliminating"
  /\ Broke = {}
  /\ phase' = IF state = "GameOver" THEN "GameOver" ELSE "NewRound"
  /\ UNCHANGED << players, lists, curPlayer, buttons, levels, bet, state, commState, pots, finish >>

\* The game restarts around one of the winners: Winners was collected from
\* a map, so any of them may come first.  A winner who left during the hand
\* (its seat was still in a pot) makes Reset clear the seat of the player who
\* is left, without taking it off the active players.  This module follows
\* the code no further then.
GameOver ==
  /\ phase = "GameOver"
  /\ \E w \in winners :
       /\ Reset(w, curPlayers)
       /\ phase' = IF w \in Members(activePlayers) THEN "Open" ELSE "Lost"
  /\ dealer' = activePlayers[1]
  /\ UNCHANGED activePlayers

-----------------------------------------------------------------------------

\* What a player asks for on its turn.
Turn(p) ==
  \/ AllIn(p)
  \/ \E a \in Bets : Bet(p, a)
  \/ Call(p)
  \/ Check(p)
  \/ Fold(p)

\* What clients ask for.
Request ==
  \/ \E p \in Seats : Turn(p)
  \/ \E p \in Seats : Join(p)
  \/ \E p \in Seats : Leave(p)
  \/ \E p \in Seats : LeaveLast(p)
  \/ StartGame

\* What the handler that holds the room lock goes on to do.
Flow ==
  \/ NewRound
  \/ Blinds
  \/ SmallBlindAllIn
  \/ BigBlindAllIn
  \/ ShowDownEarly
  \/ RunOut
  \/ RiverDone
  \/ DealStreet
  \/ FinishByFolds
  \/ NoHandsLeft
  \/ ShowHands
  \/ AwardSidePot
  \/ AwardDone
  \/ AbandonPots
  \/ AbandonToLast
  \/ AbandonToJoiner
  \/ Eliminate
  \/ RemoveEliminated
  \/ EliminationDone
  \/ GameOver

Next == Request \/ Flow

Spec == Init /\ [][Next]_vars

FairSpec == Spec /\ WF_vars(Flow)

-----------------------------------------------------------------------------
(* Properties.                                                             *)

FlowPhases == {"NewRound", "Blinds", "SmallBlindAllIn", "BigBlindAllIn", "PostBetting", "RunOut",
               "FinishRound", "Award", "Abandoned", "Eliminate", "Eliminating", "GameOver"}

\* The type of every variable.
TypeOK ==
  /\ act \in [Seats -> Actions]
  /\ amt \in [Seats -> Chips]
  /\ chips \in [Seats -> Chips]
  /\ activePlayers \in Seq(Seats)
  /\ curPlayers \in Seq(Seats)
  /\ curPlayer \in Seats \cup {None}
  /\ dealer \in Seats \cup {None}
  /\ smallBlind \in Seats \cup {None}
  /\ bigBlind \in Seats \cup {None}
  /\ numPlayers \in Nat
  /\ roundCount \in Nat
  /\ ante \in Chips
  /\ bet \in Chips
  /\ state \in States
  /\ commState \in CommStates
  /\ pots \in AllPots
  /\ winners \subseteq Seats
  /\ rank \in [Seats -> Nat]
  /\ nextPot \in Nat
  /\ phase \in FlowPhases \cup {"Open", "Panicked", "Lost"}

\* The program is running, and this module follows it.
Following == phase \notin {"Panicked", "Lost"}

\* The room waits for a player to act.
Betting == phase = "Open" /\ state \in BettingStates

\* The fixed pool of seats, the list of active players and the counter
\* NumPlayers, kept up to date by different functions (GetOpenSeat, addPlayer,
\* removePlayer, Player.Clear, Reset), agree on who is at the table.
SeatsMatch ==
  Following => Members(activePlayers) = Occupied(act) /\ numPlayers = Len(activePlayers)

\* The first of the players in S after p on the way around the table.
NextAround(p, S) == FirstIn(SetHead(activePlayers, NextOf(activePlayers, p)), S)

\* curPlayers is the ring of active players without those who do not bet:
\* heads set by raises, removals by folds, all-ins and departures, and the
\* reordering for a new street never permute it, and nobody is in a list
\* twice.
RingOrder ==
  Following =>
    /\ Distinct(activePlayers) /\ Distinct(curPlayers)
    /\ Members(curPlayers) \subseteq Members(activePlayers)
    /\ \A p \in Members(curPlayers) :
         NextOf(curPlayers, p) = NextAround(p, Members(curPlayers))

\* Whenever the room waits for an action, it waits for a player who may
\* still bet: not for one who left, folded, is all-in or joined during the
\* hand.  Otherwise the table hangs.
TurnHolder == Betting => curPlayer \in Members(curPlayers) \cap Eligible(act)

\* The list the turns are taken from holds exactly the players who may bet.
BettingListExact == Betting => Members(curPlayers) = Eligible(act)

\* Nobody who still bets has more in front than the bet to be called: the
\* subtraction of the two (betDiff) does not wrap.
BetCovers == Betting => \A p \in Members(curPlayers) : amt[p] <= bet

\* After the flop and without side pots, a street is over only when every
\* player still betting has put in the same bet, unless nobody has put in the
\* bet: who raised has left, and the next player folded.
EveryoneCalled ==
  (/\ phase = "PostBetting" /\ ~BettingIsImpossible /\ IsEmpty(pots) /\ commState # "PreFlop"
   /\ \E p \in Members(curPlayers) : amt[p] = bet)
    => \A p \in Members(curPlayers) : amt[p] = bet

\* Every player still betting has acted in a street that is over.
EveryoneActed ==
  phase = "PostBetting" /\ ~BettingIsImpossible
    => \A p \in Members(curPlayers) : act[p] # "FirstAction"

\* The turn passes to the next player around the table who may bet,
\* whatever SetHead and RemovePlayer did to the betting list meanwhile.
TurnPasses ==
  [][Betting /\ Betting' /\ curPlayer' # curPlayer =>
       curPlayer' = NextAround(curPlayer, Eligible(act'))]_vars

\* Who folded, is all-in or waits for the next hand stays so until the next
\* hand begins or the seat is given up: clearing the actions for a new street
\* brings nobody back.
NobodyReturns ==
  [][\A s \in Seats :
       act[s] \in {"Fold", "AllIn", "MidroundAddition"} /\ act'[s] # act[s]
         => act'[s] = "VacantSeat" \/ phase \in {"NewRound", "GameOver"}]_vars

\* As long as there is no side pot, what the players of a hand bet is taken
\* from their chips and put into the main pot, chip by chip.
Money == FoldFunction(Plus, pots.main.total, chips)

BetsReachThePot ==
  [][(/\ phase \in {"Open", "PostBetting", "RunOut"} /\ state # "NotStarted"
      /\ Occupied(act') = Occupied(act)
      /\ IsEmpty(pots'))
     => Money' = Money]_vars

\* The open all-in pots are in the order of their bets, as CalculateSidePot-
\* Totals and the re-raise need it (sidepot.go:452), whatever order the
\* players went all-in in.
PotsOrdered == Ordered(pots)

\* Hands are compared only when all five community cards are there: a round
\* that ends before the river has one player left who holds cards.
ShowdownAtRiver ==
  phase = "FinishRound" /\ Cardinality(NonFolded(act)) > 1 => commState = "River"

\* A handler that holds the room lock comes to its end and releases it: rounds
\* that end by themselves and eliminations do not chain for ever.
LockReleased == phase \in FlowPhases ~> phase \notin FlowPhases

-----------------------------------------------------------------------------
(* The inductive invariant of GameProofs, in parts.                        *)

\* The lists, the counter, the buttons and the seats agree.
Seated ==
  /\ Members(activePlayers) = Occupied(act)
  /\ numPlayers = Len(activePlayers)
  /\ Distinct(activePlayers) /\ Distinct(curPlayers)
  /\ Members(curPlayers) \subseteq Members(activePlayers)
  /\ {dealer, smallBlind, bigBlind} \subseteq Members(activePlayers) \cup {None}

\* Community cards are dealt as soon as a game has started.
Dealt == (phase = "Open" /\ state = "NotStarted") \/ commState # "NotStarted"

\* Between requests.
Waiting ==
  phase = "Open" =>
    /\ state \in BettingStates \cup {"NotStarted", "DoneBetting"}
    /\ state = "NotStarted" => /\ Members(curPlayers) = Members(activePlayers)
                               /\ \A s \in Members(activePlayers) : act[s] = "FirstAction"
    /\ state # "NotStarted" => Members(curPlayers) = Eligible(act)
    /\ state \in BettingStates => curPlayer \in Members(curPlayers)

\* While the blinds are posted.
Posting ==
  /\ phase = "NewRound" => Len(activePlayers) # 1
  /\ phase = "Blinds" =>
       /\ Len(activePlayers) >= 2
       /\ curPlayers = activePlayers
       /\ {dealer, smallBlind, bigBlind} \subseteq Members(activePlayers)
       /\ \A s \in Members(activePlayers) : act[s] = "FirstAction"
  /\ phase = "SmallBlindAllIn" =>
       /\ {smallBlind, bigBlind} \subseteq Members(activePlayers)
       /\ Members(curPlayers) = Members(activePlayers)
       /\ \A s \in Members(activePlayers) :
            act[s] = "FirstAction" \/ (act[s] = "AllIn" /\ s \in {smallBlind, bigBlind})
       /\ state = "PreFlop"
       /\ curPlayer \in Members(curPlayers)
  /\ phase = "BigBlindAllIn" =>
       /\ bigBlind \in Members(activePlayers)
       /\ act[bigBlind] \in {"FirstAction", "AllIn"}
       /\ Members(curPlayers) \ {bigBlind} = Eligible(act) \ {bigBlind}
       /\ act[bigBlind] = "FirstAction" => bigBlind \in Members(curPlayers)
       /\ state \in {"PreFlop", "DoneBetting"}
       /\ state = "PreFlop" => curPlayer \in Members(curPlayers)

\* From the end of a street to the end of the game.
Ending ==
  /\ phase = "PostBetting" =>
       /\ state = "DoneBetting"
       /\ ~BettingIsImpossible => Members(curPlayers) = Eligible(act)
  /\ phase \in {"Award", "Eliminate"} => state # "GameOver"
  /\ phase = "Award" => nextPot # 0
  /\ phase = "Eliminating" => (state = "GameOver" <=> Cardinality(Broke) = numPlayers - 1)
  /\ phase \in {"Abandoned", "GameOver"} => Len(activePlayers) = 1

\* Why TypeOK, SeatsMatch, TurnHolder and BettingListExact hold after every
\* step: each of them needs the others and what the phases know.
IInv == TypeOK /\ (Following => Seated /\ Dealt /\ Waiting /\ Posting /\ Ending)

\* What the blinds leave behind: the turn is with the head of a list of at
\* least two, who has not acted, so a blind that goes all-in ends the street
\* only when it was the last one who could bet.  Cards run out only in a game.
Posted ==
  /\ phase = "SmallBlindAllIn" => Len(curPlayers) >= 2 /\ curPlayers[1] = curPlayer
  /\ phase = "BigBlindAllIn" =>
       /\ state = "PreFlop"
       /\ \A s \in Members(activePlayers) : act[s] \in {"FirstAction", "AllIn"}
  /\ phase = "Open" /\ state = "DoneBetting" => curPlayers = << >>
  /\ phase = "RunOut" => state # "NotStarted"

\* Why ShowdownAtRiver holds after every step: a round that is over while the
\* room waits must have been won by folds.
RiverInv == IInv /\ Posted /\ ShowdownAtRiver

-----------------------------------------------------------------------------
(* The inductive invariant of TurnProofs and BetsProofs, in parts.         *)

\* The betting list goes around the table as the list of active players does,
\* and before the first hand the two are the same.
OneRing ==
  /\ phase = "Open" /\ state = "NotStarted" => curPlayers = activePlayers
  /\ SameRing(curPlayers, activePlayers)

\* The players of a list act in its order: nobody ahead of the turn has an
\* action to come, and whoever acted before the turn came back to the head (it
\* was raised) is last.
ActedInOrder(list, turn, a) ==
  \A p, q \in Members(list) :
    LET k == Position(list, turn)
        i == Position(list, p)
        j == Position(list, q)
    IN  /\ i < k => a[p] # "FirstAction"
        /\ k <= i /\ i < j /\ a[p] # "FirstAction" => a[q] # "FirstAction"

\* A street starts at the head of the betting list.
ActInOrder ==
  /\ phase = "BigBlindAllIn" => curPlayers[1] = curPlayer
  /\ Betting => ActedInOrder(curPlayers, curPlayer, act)

\* Why RingOrder, TurnPasses and EveryoneActed hold after every step.
TurnInv == IInv /\ Posted /\ (Following => OneRing /\ ActInOrder) /\ EveryoneActed

\* What a player has and what it has in front add up to a number of chips.
\* Before the first hand everybody has the chips of a new player, save for the
\* one who won the last game.
Funded ==
  /\ \A s \in Seats : act[s] \in {"VacantSeat", "MidroundAddition"} => amt[s] = 0
  /\ phase = "Open" /\ state = "NotStarted" =>
       /\ ante = Ante
       /\ \A s \in Seats : amt[s] = 0
       /\ \A s \in Seats :
            chips[s] = StartChips \/ (activePlayers # << >> /\ s = activePlayers[1] /\ s # bigBlind)
  /\ phase = "Blinds" => \A s \in Seats : amt[s] = 0
  /\ phase \in {"Open", "SmallBlindAllIn", "BigBlindAllIn", "PostBetting"} =>
       /\ \A s \in Seats : chips[s] + amt[s] < ChipMod
       /\ \A p \in Members(curPlayers) : amt[p] <= bet

\* Who is charged both blinds of the first hand can pay them.
BlindsAffordable == 2 * Ante <= StartChips

\* Those ahead of the turn have called the raise to b, the others have not: a
\* is what the players have in front.
CalledInOrder(list, turn, a, b) ==
  \A p \in Members(list) :
    IF Position(list, p) < Position(list, turn) THEN a[p] = b ELSE a[p] < b

\* Who has bet, called or checked has chips left, and so has everybody who
\* still bets after the flop.  There a bet is a raise, called in turn.
Called ==
  /\ phase \in {"SmallBlindAllIn", "BigBlindAllIn"} => commState = "PreFlop"
  /\ phase \in {"Open", "SmallBlindAllIn", "BigBlindAllIn", "PostBetting"} =>
       \A s \in Seats : act[s] \in {"Bet", "Call", "Check"} => chips[s] # 0
  /\ Betting /\ commState # "PreFlop" =>
       /\ state # "PreFlop"
       /\ \A p \in Members(curPlayers) : chips[p] # 0
       /\ IsEmpty(pots) =>
            /\ state = "Rounds" => bet = 0
            /\ state = "PlayerRaised" => CalledInOrder(curPlayers, curPlayer, amt, bet)

\* The open pots lie on the main pot in the order of their bets, and only who
\* has gone all-in has given a pot its name.
PotsNamed ==
  /\ phase = "Open" /\ state = "NotStarted" => pots.order = << >>
  /\ Stacked(pots)
  /\ Members(pots.order) \cap Eligible(act) = {}

\* Why BetCovers, EveryoneCalled and PotsOrdered hold after every step.
BetsInv == TurnInv /\ ShowdownAtRiver /\ Funded /\ Called /\ EveryoneCalled
PotsInv == RiverInv /\ PotsNamed

-----------------------------------------------------------------------------
(* The promises to the players, and what of the table they speak of.       *)

Standing(a) ==
  IF a = "VacantSeat" THEN "free"
  ELSE IF a = "MidroundAddition" THEN "waiting"
  ELSE IF a = "AllIn" THEN "allIn"
  ELSE IF a = "Fold" THEN "folded" ELSE "in"

SeatOf == [s \in Seats |-> Standing(act[s])]

\* An open room whose blinds are all-in is between streets for good.
StageOf ==
  IF phase \in {"Panicked", "Lost"} THEN "stopped"
  ELSE IF phase = "Blinds" THEN "dealt"
  ELSE IF phase = "Open" /\ state = "NotStarted" THEN "idle"
  ELSE IF phase = "Open" /\ state \in BettingStates THEN "betting"
  ELSE IF phase \in {"Open", "SmallBlindAllIn", "BigBlindAllIn", "PostBetting", "RunOut"}
  THEN "street" ELSE "over"

TurnOf == IF Betting THEN curPlayer ELSE None

H == INSTANCE HandProtocol WITH seat <- SeatOf, turn <- TurnOf, stage <- StageOf

\* The game implements HandProtocol: whatever joins, departures, all-ins, side
\* pots and eliminations do to the lists, the turn stays with one player who
\* may bet, nobody is brought back into a hand, and betting that ends a hand
\* at once leaves one player with cards at most.
HandPromises == H!Spec
=============================================================================
