------------------------------- MODULE Rounds -------------------------------
(***************************************************************************)
(* A hand from the blinds to the showdown: internal/poker/round.go,        *)
(* community.go and the seating part of seats.go, in the steps in which    *)
(* the room runs them (postPlayerAction, postBetting, roundOver, newRound  *)
(* and gameOver of internal/net/room.go).  The room lock is held from one  *)
(* phase to the next until the phase is "Open" again.                      *)
(***************************************************************************)
EXTENDS Table

-----------------------------------------------------------------------------
(* Dealer and blinds.                                                      *)

Seating == [dealer : Seats, smallBlind : Seats, bigBlind : Seats]

\* handleOrphanedSeats, for a nonempty list of active players.
HandleOrphanedSeats ==
  LET list == activePlayers
      d == IF dealer # None THEN dealer
           ELSE IF smallBlind # None THEN PrevOf(list, smallBlind)
           ELSE IF bigBlind # None THEN PrevOf(list, PrevOf(list, bigBlind))
           ELSE list[1]
      s == IF smallBlind # None THEN smallBlind ELSE NextOf(list, d)
      b == IF bigBlind # None THEN bigBlind ELSE NextOf(list, s)
  IN  [dealer |-> d, smallBlind |-> s, bigBlind |-> b]

\* rotatePlayers, from complete seats.
RotatePlayers(seating) ==
  LET list == activePlayers
      d == IF NextOf(list, seating.bigBlind) = seating.dealer
           THEN seating.bigBlind ELSE NextOf(list, seating.dealer)
      s == NextOf(list, d)
  IN  IF Len(list) < 2 THEN seating
      ELSE [dealer |-> d, smallBlind |-> s, bigBlind |-> NextOf(list, s)]

SetButtons(seating) ==
  /\ dealer' = seating.dealer
  /\ smallBlind' = seating.smallBlind
  /\ bigBlind' = seating.bigBlind

\* ReorderPlayers before the flop: the player behind the big blind is first.
ReorderPreFlop(cur, big) ==
  LET first == NextOf(activePlayers, big)
  IN  /\ activePlayers' = SetHead(activePlayers, first)
      /\ curPlayers' = SetHead(cur, first)
      /\ curPlayer' = first

\* The seat from which the first player of a later street is looked for.
PostFlopSeat ==
  IF smallBlind # None THEN smallBlind
  ELSE IF dealer # None THEN NextOf(activePlayers, dealer)
  ELSE IF bigBlind # None THEN PrevOf(activePlayers, bigBlind)
  ELSE HandleOrphanedSeats.smallBlind

\* ReorderPlayers after the flop.  A small blind who left is replaced only
\* when the dealer and the big blind left, too; SmallBlind.Next() is then
\* evaluated without one if the substitute does not bet any more.
SmallBlindLost ==
  smallBlind = None /\ (dealer # None \/ bigBlind # None)
  /\ PostFlopSeat \notin Members(curPlayers)

PostFlopFirst ==
  IF PostFlopSeat \in Members(curPlayers) THEN PostFlopSeat
  ELSE FirstIn(SetHead(activePlayers, NextOf(activePlayers, PostFlopSeat)), Eligible(act))

\* The player who is found must be in the list; one whom a late check brought
\* back from its fold may bet and is not.
NobodyStarts == SmallBlindLost \/ PostFlopFirst \notin Members(curPlayers)

ReorderPostFlop ==
  /\ curPlayers' = SetHead(curPlayers, PostFlopFirst)
  /\ curPlayer' = PostFlopFirst
  /\ IF dealer = None /\ smallBlind = None /\ bigBlind = None
     THEN SetButtons(HandleOrphanedSeats) ELSE UNCHANGED buttons
  /\ UNCHANGED activePlayers

\* NextTableAction charges the blinds one after the other: a player who is
\* both is charged the big blind twice.
Blind(seat, share) == IF share < chips[seat] THEN share ELSE chips[seat]

\* Mutant: the table's bet is not set.
PostBlindsOnly(s, b) ==
  /\ amt' = [amt EXCEPT ![s] = Blind(s, ante \div 2), ![b] = Blind(b, ante)]
  /\ chips' = [x \in Seats |-> Minus(chips[x], IF x \in {s, b} THEN amt'[x] ELSE 0)]
  /\ pots' = PublicInfo([pots EXCEPT !.main.total = Plus(amt'[s], amt'[b])])
  /\ UNCHANGED bet

PostBlinds(s, b) ==
  LET a1 == [amt EXCEPT ![s] = Blind(s, ante \div 2)]
      a2 == [a1 EXCEPT ![b] = Blind(b, ante)]
      c1 == [chips EXCEPT ![s] = Minus(@, a2[s])]
  IN  /\ amt' = a2
      /\ chips' = [c1 EXCEPT ![b] = Minus(@, a2[b])]
      /\ bet' = ante
      /\ pots' = PublicInfo([pots EXCEPT !.main.total = Plus(a2[s], a2[b])])

-----------------------------------------------------------------------------
(* A new hand: Table.NewRound, NextTableAction and checkBlindsAutoAllIn.   *)

\* handleOrphanedSeats takes the successor of activePlayers.Head.
NewRound ==
  /\ phase = "NewRound"
  /\ IF activePlayers = << >> THEN Panic
     ELSE
     LET count == roundCount + 1
         members == Members(activePlayers)
         newAnte == IF count % DoubleEvery = 0 THEN Times(2, ante) ELSE ante
     IN  /\ act' = [s \in Seats |-> IF s \in members THEN "FirstAction" ELSE act[s]]
         /\ amt' = [s \in Seats |-> IF s \in members THEN 0 ELSE amt[s]]
         /\ roundCount' = count
         /\ ante' = newAnte
         /\ SetButtons(HandleOrphanedSeats)
         /\ curPlayers' = activePlayers
         /\ bet' = newAnte
         /\ pots' = [NoPots EXCEPT !.main.bet = newAnte]
         /\ state' = "NewRound"
         /\ phase' = "Blinds"
         /\ UNCHANGED << chips, activePlayers, curPlayer, numPlayers, commState, finish >>

Blinds ==
  /\ phase = "Blinds"
  /\ LET seating == RotatePlayers([dealer |-> dealer, smallBlind |-> smallBlind,
                                   bigBlind |-> bigBlind])
         s == seating.smallBlind
         b == seating.bigBlind
     IN  /\ SetButtons(seating)
         /\ IF Len(activePlayers) < 2 THEN UNCHANGED << lists, curPlayer >>
            ELSE ReorderPreFlop(curPlayers, b)
         /\ PostBlinds(s, b)
         /\ act' = [x \in Seats |-> IF x \in {s, b} /\ chips'[x] = 0 THEN "AllIn" ELSE act[x]]
         /\ state' = "PreFlop"
         /\ commState' = "PreFlop"
         /\ phase' = "SmallBlindAllIn"
         /\ UNCHANGED << levels, finish >>

\* A blind that took the last chips leaves the list of betting players, with
\* SetNextPlayerTurn if it would be first to act.
BlindAllIn(this, blind, next) ==
  /\ phase = this
  /\ phase' = next
  /\ IF act[blind] # "AllIn" THEN UNCHANGED << curPlayers, curPlayer, state, pots >>
     ELSE IF curPlayer = blind
     THEN LET t == SetNextPlayerTurn(act, curPlayers, state, pots)
          IN  /\ curPlayers' = t.cur /\ curPlayer' = t.curPlayer
              /\ state' = t.state /\ pots' = PublicInfo(t.pots)
     ELSE /\ curPlayers' = RemovePlayer(curPlayers, blind)
          /\ pots' = PublicInfo(pots)
          /\ UNCHANGED << curPlayer, state >>
  /\ UNCHANGED << players, activePlayers, buttons, levels, bet, commState, finish >>

SmallBlindAllIn == BlindAllIn("SmallBlindAllIn", smallBlind, "BigBlindAllIn")
BigBlindAllIn   == BlindAllIn("BigBlindAllIn", bigBlind, "Open")

-----------------------------------------------------------------------------
(* postBetting.                                                            *)

\* Mutant: there is no river.
NextStreetNoRiver == [PreFlop |-> "Flop", Flop |-> "Turn", Turn |-> "Turn"]

NextStreet == [PreFlop |-> "Flop", Flop |-> "Turn", Turn |-> "River"]

\* Nobody is left to bet against: the hands are shown (which asserts that
\* there are some) and the community cards are dealt one street at a time.
ShowDownEarly ==
  /\ phase = "PostBetting"
  /\ BettingIsImpossible
  /\ IF NonFolded(act) = {} THEN Panic
     ELSE /\ phase' = "RunOut"
          /\ UNCHANGED << players, lists, curPlayer, buttons, levels, bet, state, commState,
                          pots, finish >>

RunOut ==
  /\ phase = "RunOut"
  /\ IF commState = "River"
     THEN state' = "RoundOver" /\ phase' = "FinishRound" /\ UNCHANGED commState
     ELSE state' = "Rounds" /\ commState' = NextStreet[commState] /\ UNCHANGED phase
  /\ UNCHANGED << players, lists, curPlayer, buttons, levels, bet, pots, finish >>

\* The betting of the last street is done.
RiverDone ==
  /\ phase = "PostBetting"
  /\ ~BettingIsImpossible
  /\ commState = "River"
  /\ state' = "RoundOver"
  /\ phase' = "FinishRound"
  /\ UNCHANGED << players, lists, curPlayer, buttons, levels, bet, commState, pots, finish >>

\* The next street: the players still betting start it without a bet.
DealStreet ==
  /\ phase = "PostBetting"
  /\ ~BettingIsImpossible
  /\ commState # "River"
  /\ IF NobodyStarts THEN Panic
     ELSE /\ commState' = NextStreet[commState]
          /\ state' = "Rounds"
          /\ bet' = 0
          /\ act' = [s \in Seats |-> IF s \in Members(curPlayers) THEN "FirstAction" ELSE act[s]]
          /\ amt' = [s \in Seats |-> IF s \in Members(curPlayers) THEN 0 ELSE amt[s]]
          /\ ReorderPostFlop
          /\ phase' = "Open"
          /\ UNCHANGED << chips, levels, pots, finish >>

-----------------------------------------------------------------------------
(* FinishRound.                                                            *)

\* The totals are brought up to date and an empty betting pot is dropped.
FinalPots ==
  LET P == CalculateSidePotTotals(pots)
  IN  IF P.hasBetting /\ P.betting.total = 0
      THEN [P EXCEPT !.hasBetting = FALSE, !.betting = NoPot] ELSE P

\* AssembleBestHand for those who hold cards, abstracted to how their hands
\* compare; a seat without cards holds a muck, below every hand.
Ranks == {r \in [Seats -> 0 .. Cardinality(Seats)] :
            \A s \in Seats : /\ r[s] = 0 <=> s \notin NonFolded(act)
                             /\ r[s] > 1 => \E q \in Seats : r[q] = r[s] - 1}

BestOf(r, S) == {s \in S : \A q \in S : r[q] <= r[s]}

\* The chips of a pot go to its winners in equal shares; the rest is lost.
Award(total, W) ==
  chips' = [s \in Seats |-> IF s \in W THEN Plus(chips[s], total \div Cardinality(W))
                                       ELSE chips[s]]

\* Everybody else folded.
WinByFolds(next) ==
  /\ Cardinality(NonFolded(act)) = 1
  /\ IF ~IsEmpty(FinalPots) THEN Panic
     ELSE /\ pots' = FinalPots
          /\ Award(pots.main.total, NonFolded(act))
          /\ winners' = NonFolded(act)
          /\ state' = IF next = "GameOver" THEN "GameOver" ELSE "RoundOver"
          /\ phase' = next
          /\ UNCHANGED << act, amt, lists, curPlayer, buttons, levels, bet, commState, rank,
                          nextPot >>

FinishByFolds == phase = "FinishRound" /\ WinByFolds("Eliminate")

NoHandsLeft == phase = "FinishRound" /\ NonFolded(act) = {} /\ Panic

\* The main pot goes to the best of all hands.
ShowHands ==
  /\ phase = "FinishRound"
  /\ Cardinality(NonFolded(act)) > 1
  /\ \E r \in Ranks :
       LET best == BestOf(r, NonFolded(act))
       IN  /\ rank' = r
           /\ winners' = best
           /\ Award(pots.main.total, best)
           /\ state' = IF Cardinality(best) = 1 THEN "ShowHands" ELSE "SplitPot"
  /\ pots' = FinalPots
  /\ nextPot' = 1
  /\ phase' = "Award"
  /\ UNCHANGED << act, amt, lists, curPlayer, buttons, levels, bet, commState >>

\* GetAllPots: the all-in pots in their order, then the betting pot.
AllPotsCount == Len(pots.order) + (IF pots.hasBetting THEN 1 ELSE 0)

PotAt(i) == IF i <= Len(pots.order) THEN pots.side[pots.order[i]] ELSE pots.betting

\* One side pot.  checkTies compares the cards of the best hands one by one
\* and finds none if those are mucks.
AwardSidePot ==
  /\ phase = "Award"
  /\ nextPot <= AllPotsCount
  /\ LET in == {s \in PotAt(nextPot).players : act[s] # "Fold"}
         best == BestOf(rank, in)
     IN  IF \E s, q \in best : s # q /\ rank[s] = 0 THEN Panic
         ELSE /\ IF in = {} THEN UNCHANGED chips ELSE Award(PotAt(nextPot).total, best)
              /\ winners' = winners \cup best
              /\ nextPot' = nextPot + 1
              /\ UNCHANGED << act, amt, lists, curPlayer, buttons, levels, bet, state,
                              commState, pots, rank, phase >>

\* FinishRound is through.
AwardDone ==
  /\ phase = "Award"
  /\ nextPot > AllPotsCount
  /\ nextPot' = 0
  /\ rank' = [s \in Seats |-> 0]
  /\ phase' = "Eliminate"
  /\ UNCHANGED << players, lists, curPlayer, buttons, levels, bet, state, commState, pots,
                  winners >>
=============================================================================
