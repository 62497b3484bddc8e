----------------------------- MODULE TurnProofs -----------------------------
(***************************************************************************)
(* For any seats, stacks, blinds, bets and number of rounds: a round that  *)
(* ends before the river leaves at most one player with cards, so hands    *)
(* are compared only when the community cards are complete; the game       *)
(* implements HandProtocol; the betting list goes around the table, the    *)
(* turn passes to the next player who may bet, and a street is over only   *)
(* when everybody has acted in it.                                         *)
(***************************************************************************)
EXTENDS GameProofs

-----------------------------------------------------------------------------
(* How a turn ends.                                                        *)

\* How a turn ends the street or the round.
LEMMA TurnState ==
  ASSUME NEW a, NEW cur, NEW st, st # "NotStarted", NEW P
  PROVE  LET t == SetNextPlayerTurn(a, cur, st, P)
         IN  /\ Len(cur) = 1 => t.state = IF WonByFolds(a) THEN "RoundOver" ELSE "DoneBetting"
             /\ Len(cur) # 1 /\ curPlayer \in Members(cur) => t.curPlayer = NextTurn(cur)
             /\ Len(cur) # 1 /\ curPlayer \in Members(cur) =>
                  t.state = IF OneLeft(a, DropFolded(a, cur)) THEN "RoundOver"
                            ELSE IF DoneAt(a, DropFolded(a, cur), NextTurn(cur))
                            THEN "DoneBetting" ELSE st
             /\ Len(cur) # 1 /\ curPlayer \notin Members(cur) => t.state = st
  BY DEF SetNextPlayerTurn

\* Those who hold cards are those who may bet and those who are all-in.
LEMMA HoldersCounted ==
  ASSUME activePlayers \in Seq(Seats), NEW a, Members(activePlayers) = Occupied(a)
  PROVE  /\ AllInCount(a) = Cardinality({s \in Seats : a[s] = "AllIn"})
         /\ AllInCount(a) = 0 => NonFolded(a) = Eligible(a)
         /\ Eligible(a) = {} => Cardinality(NonFolded(a)) = AllInCount(a)
<1> DEFINE In == {s \in Seats : a[s] = "AllIn"}
<1>1. {s \in Members(activePlayers) : a[s] = "AllIn"} = In
  BY DEF Occupied
<1>2. NonFolded(a) = Eligible(a) \cup In
  BY DEF NonFolded, Eligible
<1>3. AllInCount(a) = Cardinality(In)
  BY <1>1 DEF AllInCount
<1>4. Cardinality(In) = 0 => In = {}
  <2>1. IsFiniteSet(In)
    BY SeatsCounted
  <2> QED BY <2>1, FS_EmptySet
<1> QED BY <1>2, <1>3, <1>4

AtMostOne(S) == \A x, y \in S : x = y

\* Such a set has no two members to compare.
LEMMA AtMostOneCounted ==
  ASSUME NEW S, AtMostOne(S)
  PROVE  ~(Cardinality(S) > 1)
<1>1. CASE S = {}
  <2>1. Cardinality({}) = 0
    BY FS_EmptySet
  <2> QED BY <1>1, <2>1
<1>2. CASE S # {}
  <2>1. PICK x \in S : S = {x}
    BY <1>2 DEF AtMostOne
  <2>2. Cardinality({x}) = 1
    BY FS_Singleton
  <2> QED BY <2>1, <2>2
<1> QED BY <1>1, <1>2

\* A turn that ends the round leaves at most one player who holds cards.
LEMMA RoundOverLeavesOne ==
  ASSUME activePlayers \in Seq(Seats), NEW a, Members(activePlayers) = Occupied(a),
         NEW cur \in Seq(Seats), Distinct(cur), curPlayer \in Members(cur),
         Members(cur) \ {curPlayer} \subseteq Eligible(a),
         Eligible(a) \subseteq Members(cur),
         a[curPlayer] = "Fold" => curPlayer \notin Eligible(a),
         NEW st, st \notin {"NotStarted", "RoundOver"}, NEW P,
         SetNextPlayerTurn(a, cur, st, P).state = "RoundOver"
  PROVE  AtMostOne(NonFolded(a))
<1>1. CASE Len(cur) = 1
  <2>1. WonByFolds(a)
    BY <1>1, TurnState
  <2>2. Members(cur) = {curPlayer}
    BY <1>1, AloneInList
  <2>3. CASE AllInCount(a) = 0
    <3>1. NonFolded(a) \subseteq {curPlayer}
      BY <2>2, <2>3, HoldersCounted
    <3> QED BY <3>1 DEF AtMostOne
  <2>4. CASE AllInCount(a) = 1 /\ a[curPlayer] = "Fold"
    <3>1. Eligible(a) = {}
      BY <2>2, <2>4
    <3>2. NonFolded(a) \in SUBSET Seats /\ Cardinality(NonFolded(a)) = 1
      BY <2>4, <3>1, HoldersCounted DEF NonFolded
    <3>3. \E x : NonFolded(a) = {x}
      BY <3>2, SeatsCounted, FS_Singleton
    <3> QED BY <3>3 DEF AtMostOne
  <2> QED BY <2>1, <2>3, <2>4 DEF WonByFolds
<1>2. CASE Len(cur) # 1
  <2> DEFINE folded == DropFolded(a, cur)
  <2>1. OneLeft(a, folded)
    BY <1>2, TurnState
  <2>2. Len(folded) = 1 /\ AllInCount(a) = 0
    BY <2>1 DEF OneLeft
  <2>3. a[curPlayer] = "Fold" /\ folded = RemovePlayer(cur, curPlayer)
    BY <1>2, <2>2 DEF DropFolded
  <2>4. folded \in Seq(Seats) /\ Members(folded) = Members(cur) \ {curPlayer}
    BY <2>3, RemovePlayerKeeps
  <2> HIDE DEF folded
  <2>5. Members(folded) = {folded[1]}
    BY <2>2, <2>4, AloneInList
  <2>6. NonFolded(a) \subseteq {folded[1]}
    BY <2>2, <2>3, <2>4, <2>5, HoldersCounted
  <2> QED BY <2>6 DEF AtMostOne
<1> QED BY <1>1, <1>2

-----------------------------------------------------------------------------
(* The requests.                                                           *)

\* A player's action ends its turn, unless an assertion fails.
LEMMA ActionEndsTurn ==
  ASSUME NEW p \in Seats, Turn(p)
  PROVE  \/ Panic
         \/ /\ MayAct(p)
            /\ \E kind \in {"AllIn", "Bet", "Call", "Check", "Fold"},
                  cur \in {curPlayers, SetHead(curPlayers, p)}, st \in BettingStates :
                 \E P : EndTurn([act EXCEPT ![p] = kind], cur, st, P)
<1>1. MayAct(p)
  BY DEF Turn, AllIn, Bet, Call, Check, Fold
<1>2. state \in BettingStates /\ "PlayerRaised" \in BettingStates
  BY <1>1 DEF MayAct, BettingStates
<1>3. ASSUME NEW b \in Bets, Bet(p, b), ~Panic
      PROVE  \E kind \in {"AllIn", "Bet"} : \E P :
               EndTurn([act EXCEPT ![p] = kind], SetHead(curPlayers, p), "PlayerRaised", P)
  BY <1>3 DEF Bet
<1>4. ASSUME Call(p), ~Panic
      PROVE  \E kind \in {"AllIn", "Call"} : \E P :
               EndTurn([act EXCEPT ![p] = kind], curPlayers, state, P)
  BY <1>4 DEF Call
<1>5. ASSUME AllIn(p)
      PROVE  \E cur \in {curPlayers, SetHead(curPlayers, p)}, st \in {"PlayerRaised", state} :
               \E P : EndTurn([act EXCEPT ![p] = "AllIn"], cur, st, P)
  BY <1>5 DEF AllIn
<1>6. ASSUME Check(p) \/ Fold(p)
      PROVE  \E kind \in {"Check", "Fold"} : EndTurn([act EXCEPT ![p] = kind], curPlayers, state, pots)
  BY <1>6 DEF Check, Fold
<1> QED BY <1>1, <1>2, <1>3, <1>4, <1>5, <1>6 DEF Turn

\* What a player's action leaves: only its own seat changes, the turn passes
\* to another player, or the street is over, or one player is left.
LEMMA TurnEnds ==
  ASSUME IInv, NEW p \in Seats, Turn(p), ~Panic
  PROVE  /\ phase = "Open" /\ state \in BettingStates /\ curPlayer = p
         /\ \E kind \in {"AllIn", "Bet", "Call", "Check", "Fold"} : act' = [act EXCEPT ![p] = kind]
         /\ phase' \in {"Open", "PostBetting", "FinishRound"}
         /\ phase' = "Open" => state' \in BettingStates /\ curPlayer' # p
         /\ phase' = "FinishRound" => AtMostOne(NonFolded(act'))
<1>0. PICK kind \in {"AllIn", "Bet", "Call", "Check", "Fold"},
           cur \in {curPlayers, SetHead(curPlayers, p)}, st \in BettingStates :
        MayAct(p) /\ \E P : EndTurn([act EXCEPT ![p] = kind], cur, st, P)
  BY ActionEndsTurn
<1>1. PICK P : MayAct(p) /\ EndTurn([act EXCEPT ![p] = kind], cur, st, P)
  BY <1>0
<1>2. /\ p = curPlayer /\ p \in Eligible(act)
      /\ Members(curPlayers) = Eligible(act) /\ curPlayers \in Seq(Seats) /\ Distinct(curPlayers)
      /\ phase = "Open" /\ state \in BettingStates
      /\ activePlayers \in Seq(Seats) /\ act \in [Seats -> Actions]
      /\ Members(activePlayers) = Occupied(act)
  BY <1>1, ActorKnown DEF TypeOK, Seated
<1> DEFINE a == [act EXCEPT ![p] = kind]
           t == SetNextPlayerTurn(a, cur, st, P)
<1>3. act' = a /\ state' = t.state /\ phase' = PhaseAfter(t.state) /\ curPlayer' = t.curPlayer
  BY <1>1 DEF EndTurn
<1>4. cur \in Seq(Seats) /\ Distinct(cur) /\ Members(cur) = Eligible(act)
  BY <1>2, SetHeadKeeps
<1>5. /\ Occupied(a) = Occupied(act) /\ a[p] = kind
      /\ Eligible(a) = IF kind \in {"AllIn", "Fold"} THEN Eligible(act) \ {p} ELSE Eligible(act)
  BY <1>2 DEF Actions, Occupied, Eligible
<1>6. \E k \in {"AllIn", "Bet", "Call", "Check", "Fold"} : act' = [act EXCEPT ![p] = k]
  BY <1>3
<1> HIDE DEF a
<1>7. st \notin {"NotStarted", "RoundOver", "DoneBetting"}
  BY DEF BettingStates
<1>8. t.state = "RoundOver" => AtMostOne(NonFolded(a))
  <2>1. /\ Members(cur) \ {curPlayer} \subseteq Eligible(a)
        /\ Eligible(a) \subseteq Members(cur)
        /\ a[curPlayer] = "Fold" => curPlayer \notin Eligible(a)
    BY <1>2, <1>4, <1>5
  <2> QED BY <1>2, <1>4, <1>5, <1>7, <2>1, RoundOverLeavesOne
<1>9. t.state \in {st, "RoundOver", "DoneBetting"}
      /\ (t.state = st => t.curPlayer # p)
  <2>1. CASE Len(cur) = 1
    BY <1>7, <2>1, TurnState
  <2>2. CASE Len(cur) # 1
    <3>1. NextTurn(cur) # p
      BY <1>2, <1>4, <2>2, NextOfKeeps DEF NextTurn
    <3> QED BY <1>2, <1>4, <1>7, <2>2, <3>1, TurnState
  <2> QED BY <2>1, <2>2
<1> HIDE DEF t
<1>10. /\ phase' \in {"Open", "PostBetting", "FinishRound"}
       /\ phase' = "FinishRound" => t.state = "RoundOver"
       /\ phase' = "Open" => t.state = st
  BY <1>3, <1>7, <1>9 DEF PhaseAfter
<1> QED BY <1>2, <1>3, <1>6, <1>8, <1>9, <1>10

\* A player's action.
LEMMA TurnAtRiver ==
  ASSUME IInv, NEW p \in Seats, Turn(p)
  PROVE  Posted' /\ ShowdownAtRiver'
<1>1. CASE Panic
  BY <1>1 DEF Panic, Posted, ShowdownAtRiver
<1>2. CASE ~Panic
  <2>1. phase' = "Open" => state' # "DoneBetting"
    BY <1>2, TurnEnds DEF BettingStates
  <2> QED BY <1>2, <2>1, TurnEnds, AtMostOneCounted DEF Posted, ShowdownAtRiver
<1> QED BY <1>1, <1>2

\* A new player sits down while the room waits or pauses, never in the middle
\* of the blinds, and without joining the betting list of a running hand.
LEMMA JoinAtRiver ==
  ASSUME PausesInRounds, IInv, Posted, NEW p \in Seats, Join(p)
  PROVE  Posted' /\ ShowdownAtRiver'
<1>1. /\ phase \in {"Open", "PostBetting", "RunOut"} /\ phase' = phase /\ state' = state
      /\ state # "NotStarted" => curPlayers' = curPlayers
  BY DEF Join, PausesInRounds
<1> QED BY <1>1 DEF Posted, ShowdownAtRiver

\* What a departure leaves: the turn stays with whoever else has it, and the
\* round is over only if the player's fold ends it.
LEMMA LeaveEnds ==
  ASSUME IInv, Posted, NEW p \in Seats, Leave(p)
  PROVE  /\ phase = "Open" /\ act[p] # "VacantSeat"
         /\ act' = [act EXCEPT ![p] = "VacantSeat"]
         /\ phase' \in {"Open", "PostBetting", "FinishRound", "Abandoned"}
         /\ state = "NotStarted" => phase' = "Open"
         /\ phase' = "Open" => /\ state' = state /\ state # "DoneBetting"
                               /\ curPlayer # p => curPlayer' = curPlayer
         /\ phase' = "FinishRound" => AtMostOne(NonFolded(act'))
<1> DEFINE inTurn == Len(activePlayers) > 1 /\ curPlayer = p
           a == IF inTurn THEN [act EXCEPT ![p] = "Fold"] ELSE act
           t == IF inTurn THEN SetNextPlayerTurn(a, curPlayers, state, pots)
                ELSE [cur |-> curPlayers, curPlayer |-> curPlayer, state |-> state, pots |-> pots]
<1>1. /\ act' = [a EXCEPT ![p] = "VacantSeat"] /\ state' = t.state
      /\ phase' = IF numPlayers > 2 THEN PhaseAfter(t.state)
                  ELSE IF state = "NotStarted" THEN "Open" ELSE "Abandoned"
      /\ phase = "Open" /\ act[p] # "VacantSeat" /\ curPlayer' = t.curPlayer
  BY DEF Leave, Unseat, GoesOn
<1>2. /\ TypeOK /\ Seated /\ Waiting
      /\ activePlayers \in Seq(Seats) /\ Members(activePlayers) = Occupied(act)
      /\ curPlayers \in Seq(Seats) /\ Distinct(curPlayers) /\ act \in [Seats -> Actions]
  BY <1>1 DEF IInv, Following, TypeOK, Seated
<1>3. /\ state \in BettingStates \cup {"NotStarted", "DoneBetting"}
      /\ state # "NotStarted" => Members(curPlayers) = Eligible(act)
      /\ state \in BettingStates => curPlayer \in Members(curPlayers)
      /\ state = "DoneBetting" => curPlayers = << >>
  BY <1>1, <1>2 DEF Waiting, Posted
<1>4. state \notin {"RoundOver"} /\ (state \in BettingStates => state \notin {"NotStarted", "DoneBetting"})
  BY <1>3 DEF BettingStates
<1>5. t.state = "RoundOver" => AtMostOne(NonFolded(act'))
  <2> SUFFICES ASSUME t.state = "RoundOver" PROVE AtMostOne(NonFolded(act'))
    OBVIOUS
  <2>1. inTurn
    BY <1>4
  <2>2. /\ a = [act EXCEPT ![p] = "Fold"] /\ curPlayer = p
        /\ SetNextPlayerTurn(a, curPlayers, state, pots).state = "RoundOver"
    BY <2>1
  <2>3. /\ Occupied(a) = Occupied(act) /\ a[p] = "Fold" /\ Eligible(a) = Eligible(act) \ {p}
        /\ NonFolded([a EXCEPT ![p] = "VacantSeat"]) = NonFolded(a)
    BY <1>1, <1>2, <2>2 DEF Actions, Occupied, Eligible, NonFolded
  <2> HIDE DEF a, t, inTurn
  <2>4. state \in BettingStates
    <3>1. state # "NotStarted"
      BY <1>4, <2>2 DEF SetNextPlayerTurn
    <3>2. state # "DoneBetting"
      <4> SUFFICES ASSUME state = "DoneBetting" PROVE FALSE
        OBVIOUS
      <4>1. Len(curPlayers) # 1 /\ curPlayer \notin Members(curPlayers)
        BY <1>3 DEF Members
      <4> QED BY <2>2, <3>1, <4>1, TurnState
    <3> QED BY <1>3, <3>1, <3>2
  <2>5. /\ curPlayer \in Members(curPlayers)
        /\ Members(curPlayers) \ {curPlayer} \subseteq Eligible(a)
        /\ Eligible(a) \subseteq Members(curPlayers)
        /\ curPlayer \notin Eligible(a) /\ state \notin {"NotStarted", "RoundOver"}
    BY <1>3, <1>4, <2>2, <2>3, <2>4
  <2>6. AtMostOne(NonFolded(a))
    BY <1>2, <2>2, <2>3, <2>5, RoundOverLeavesOne
  <2> QED BY <1>1, <2>3, <2>6
<1>6. /\ t.state \in {state, "RoundOver", "DoneBetting"}
      /\ state = "NotStarted" => t.state = "NotStarted"
      /\ curPlayer # p => t.curPlayer = curPlayer
      /\ state = "DoneBetting" => t.state \in {"RoundOver", "DoneBetting"}
  BY DEF SetNextPlayerTurn
<1>7. act' = [act EXCEPT ![p] = "VacantSeat"]
  BY <1>1, <1>2
<1> HIDE DEF t, a
<1>8. PhaseAfter(t.state) = IF t.state = "DoneBetting" THEN "PostBetting"
                            ELSE IF t.state = "RoundOver" THEN "FinishRound" ELSE "Open"
  BY DEF PhaseAfter
<1>9. /\ phase' \in {"Open", "PostBetting", "FinishRound", "Abandoned"}
      /\ state = "NotStarted" => phase' = "Open"
      /\ phase' = "Open" => t.state = state /\ state # "DoneBetting"
      /\ phase' = "FinishRound" => t.state = "RoundOver"
  BY <1>1, <1>6, <1>8
<1> QED BY <1>1, <1>5, <1>6, <1>7, <1>9

\* A player leaves.
LEMMA LeaveAtRiver ==
  ASSUME IInv, Posted, NEW p \in Seats, Leave(p)
  PROVE  Posted' /\ ShowdownAtRiver'
  BY LeaveEnds, AtMostOneCounted DEF Posted, ShowdownAtRiver

\* What clients ask for.
LEMMA RequestAtRiver ==
  ASSUME PausesInRounds, IInv, Posted, Request
  PROVE  Posted' /\ ShowdownAtRiver'
<1>1. ASSUME NEW p \in Seats, LeaveLast(p) PROVE Posted' /\ ShowdownAtRiver'
  BY <1>1 DEF LeaveLast, Reset, Posted, ShowdownAtRiver
<1>2. StartGame => Posted' /\ ShowdownAtRiver'
  BY DEF StartGame, BeginGame, Posted, ShowdownAtRiver
<1> QED BY <1>1, <1>2, TurnAtRiver, JoinAtRiver, LeaveAtRiver DEF Request

-----------------------------------------------------------------------------
(* The blinds.                                                             *)

\* The blinds are posted: the turn is with the head of the list.
LEMMA BlindsAtRiver ==
  ASSUME IInv, Blinds
  PROVE  Posted' /\ ShowdownAtRiver'
<1> DEFINE seating == RotatePlayers([dealer |-> dealer, smallBlind |-> smallBlind,
                                     bigBlind |-> bigBlind])
           b == seating.bigBlind
           first == NextOf(activePlayers, b)
<1>1. /\ activePlayers \in Seq(Seats) /\ Distinct(activePlayers)
      /\ curPlayers = activePlayers /\ Len(activePlayers) >= 2
      /\ {dealer, smallBlind, bigBlind} \subseteq Members(activePlayers)
  BY DEF Blinds, IInv, Following, TypeOK, Seated, Posting
<1>2. b \in Members(activePlayers)
  <2>1. [dealer |-> dealer, smallBlind |-> smallBlind, bigBlind |-> bigBlind]
          \in [dealer : Members(activePlayers), smallBlind : Members(activePlayers),
               bigBlind : Members(activePlayers)]
    BY <1>1
  <2>2. seating \in [dealer : Members(activePlayers), smallBlind : Members(activePlayers),
                     bigBlind : Members(activePlayers)]
    BY <1>1, <2>1, RotateKeeps
  <2> HIDE DEF seating
  <2> QED BY <2>2
<1>3. /\ ReorderPreFlop(curPlayers, b) /\ phase' = "SmallBlindAllIn"
  <2>1. ~(Len(activePlayers) < 2)
    BY <1>1
  <2> QED BY <2>1 DEF Blinds
<1> HIDE DEF b
<1>4. first \in Members(activePlayers)
  BY <1>1, <1>2, NextOfKeeps
<1>5. curPlayers' = SetHead(curPlayers, first) /\ curPlayer' = first
  BY <1>3 DEF ReorderPreFlop
<1> HIDE DEF first
<1>6. Len(curPlayers') = Len(curPlayers) /\ curPlayers'[1] = first
  BY <1>1, <1>4, <1>5, SetHeadKeeps
<1> QED BY <1>1, <1>3, <1>5, <1>6 DEF Posted, ShowdownAtRiver

\* A blind went all-in and had the turn: everybody else is still to act, so
\* the street ends only if nobody else is in the betting list.
LEMMA BlindInTurn ==
  ASSUME activePlayers \in Seq(Seats), NEW cur \in Seq(Seats), curPlayer \in Members(cur),
         act[curPlayer] = "AllIn", curPlayer \in Members(activePlayers), NEW P, Len(cur) # 1,
         Distinct(cur),
         cur[1] = curPlayer \/ (\A s \in Members(cur) \ {curPlayer} : act[s] = "FirstAction")
  PROVE  SetNextPlayerTurn(act, cur, "PreFlop", P).state = "PreFlop"
<1>1. NextTurn(cur) \in Members(cur) \ {curPlayer}
  BY NextOfKeeps DEF NextTurn
<1>2. DropFolded(act, cur) = cur
  BY DEF DropFolded
<1>3. ~OneLeft(act, cur) /\ ~DoneAt(act, cur, NextTurn(cur))
  BY <1>1 DEF OneLeft, DoneAt
<1>4. "PreFlop" # "NotStarted"
  OBVIOUS
<1> QED BY <1>2, <1>3, <1>4, TurnState

\* The small blind may be all-in with it.
LEMMA SmallBlindAtRiver ==
  ASSUME IInv, Posted, SmallBlindAllIn
  PROVE  Posted' /\ ShowdownAtRiver'
<1>1. /\ phase = "SmallBlindAllIn" /\ phase' = "BigBlindAllIn"
      /\ act' = act /\ activePlayers' = activePlayers
  BY DEF SmallBlindAllIn, BlindAllIn, players
<1>2. /\ smallBlind \in Members(activePlayers)
      /\ \A s \in Members(activePlayers) : act[s] \in {"FirstAction", "AllIn"}
      /\ state = "PreFlop" /\ curPlayer \in Members(curPlayers)
      /\ Len(curPlayers) >= 2 /\ curPlayers[1] = curPlayer
      /\ activePlayers \in Seq(Seats) /\ curPlayers \in Seq(Seats) /\ Distinct(curPlayers)
  BY <1>1 DEF IInv, Following, Posting, Posted, TypeOK, Seated
<1>3. state' = "PreFlop"
  <2>1. CASE act[smallBlind] = "AllIn" /\ curPlayer = smallBlind
    <3>1. Len(curPlayers) # 1
      <4>1. ~(1 >= 2)
        OBVIOUS
      <4> QED BY <1>2, <4>1
    <3>2. SetNextPlayerTurn(act, curPlayers, "PreFlop", pots).state = "PreFlop"
      BY <1>2, <2>1, <3>1, BlindInTurn
    <3>3. state' = SetNextPlayerTurn(act, curPlayers, state, pots).state
      BY <2>1 DEF SmallBlindAllIn, BlindAllIn
    <3> QED BY <1>2, <3>2, <3>3
  <2>2. CASE ~(act[smallBlind] = "AllIn" /\ curPlayer = smallBlind)
    BY <1>2, <2>2 DEF SmallBlindAllIn, BlindAllIn
  <2> QED BY <2>1, <2>2
<1> QED BY <1>1, <1>2, <1>3 DEF Posted, ShowdownAtRiver

\* The big blind may be all-in with it.
LEMMA BigBlindAtRiver ==
  ASSUME IInv, Posted, BigBlindAllIn
  PROVE  Posted' /\ ShowdownAtRiver'
<1>1. phase = "BigBlindAllIn" /\ phase' = "Open"
  BY DEF BigBlindAllIn, BlindAllIn
<1>2. /\ bigBlind \in Members(activePlayers)
      /\ Members(curPlayers) \ {bigBlind} = Eligible(act) \ {bigBlind}
      /\ \A s \in Members(activePlayers) : act[s] \in {"FirstAction", "AllIn"}
      /\ state = "PreFlop" /\ curPlayer \in Members(curPlayers)
      /\ activePlayers \in Seq(Seats) /\ curPlayers \in Seq(Seats) /\ Distinct(curPlayers)
      /\ Members(curPlayers) \subseteq Members(activePlayers)
  BY <1>1 DEF IInv, Following, Posting, Posted, TypeOK, Seated
<1>3. state' = "DoneBetting" => curPlayers' = << >>
  <2>1. CASE ~(act[bigBlind] = "AllIn" /\ curPlayer = bigBlind)
    BY <1>2, <2>1 DEF BigBlindAllIn, BlindAllIn
  <2>2. CASE act[bigBlind] = "AllIn" /\ curPlayer = bigBlind
    <3> DEFINE t == SetNextPlayerTurn(act, curPlayers, "PreFlop", pots)
    <3>1. state' = t.state /\ curPlayers' = t.cur
      BY <1>2, <2>2 DEF BigBlindAllIn, BlindAllIn
    <3>2. CASE Len(curPlayers) # 1
      <4>1. \A s \in Members(curPlayers) \ {curPlayer} : act[s] = "FirstAction"
        BY <1>2, <2>2 DEF Eligible
      <4>2. t.state = "PreFlop"
        BY <1>2, <2>2, <3>2, <4>1, BlindInTurn
      <4> QED BY <3>1, <4>2
    <3>3. CASE Len(curPlayers) = 1
      <4>1. t.cur = RemovePlayer(curPlayers, curPlayer)
        BY <2>2, <3>3 DEF SetNextPlayerTurn
      <4>2. Members(RemovePlayer(curPlayers, curPlayer)) = {}
            /\ RemovePlayer(curPlayers, curPlayer) \in Seq(Seats)
        BY <1>2, <3>3, RemovePlayerKeeps, AloneInList
      <4>3. RemovePlayer(curPlayers, curPlayer) = << >>
        BY <4>2, AloneInList
      <4> QED BY <3>1, <4>1, <4>3
    <3> QED BY <3>2, <3>3
  <2> QED BY <2>1, <2>2
<1> QED BY <1>1, <1>3 DEF Posted, ShowdownAtRiver

-----------------------------------------------------------------------------
(* Every step.                                                             *)

\* What the room does on its own.
LEMMA FlowAtRiver ==
  ASSUME IInv, Posted, Flow
  PROVE  Posted' /\ ShowdownAtRiver'
<1>1. RunOut \/ RiverDone => Posted' /\ ShowdownAtRiver'
  BY DEF RunOut, RiverDone, Posted, ShowdownAtRiver
<1>2. GameOver => Posted' /\ ShowdownAtRiver'
  BY DEF GameOver, Reset, Posted, ShowdownAtRiver
<1>3. ShowDownEarly => Posted' /\ ShowdownAtRiver'
  <2>1. phase = "PostBetting" => state = "DoneBetting"
    BY DEF IInv, Following, Ending
  <2> QED BY <2>1 DEF ShowDownEarly, Panic, Posted, ShowdownAtRiver
<1>4. DealStreet \/ NewRound \/ NoHandsLeft \/ AbandonToJoiner
        => Posted' /\ ShowdownAtRiver'
  BY DEF DealStreet, NewRound, NoHandsLeft, AbandonToJoiner, Panic, Posted,
         ShowdownAtRiver
<1>5. FinishByFolds \/ AbandonToLast \/ ShowHands \/ AwardSidePot \/ AwardDone \/ AbandonPots
        => Posted' /\ ShowdownAtRiver'
  BY DEF FinishByFolds, AbandonToLast, WinByFolds, ShowHands, AwardSidePot, AwardDone,
         AbandonPots, Panic, Posted, ShowdownAtRiver
<1>6. Eliminate \/ RemoveEliminated \/ EliminationDone => Posted' /\ ShowdownAtRiver'
  BY DEF Eliminate, RemoveEliminated, EliminationDone, Posted, ShowdownAtRiver
<1> QED BY <1>1, <1>2, <1>3, <1>4, <1>5, <1>6, BlindsAtRiver, SmallBlindAtRiver, BigBlindAtRiver DEF Flow

\* No step at all.
LEMMA StutterAtRiver ==
  ASSUME Posted, ShowdownAtRiver, UNCHANGED vars
  PROVE  Posted' /\ ShowdownAtRiver'
<1>1. UNCHANGED << act, activePlayers, curPlayers, curPlayer, state, commState, phase >>
  BY DEF vars, players, lists
<1> QED BY <1>1 DEF Posted, ShowdownAtRiver, NonFolded

\* The inductive invariant with what the blinds leave behind.
THEOREM AlwaysRiverInv ==
  ASSUME PausesInRounds
  PROVE  Spec => []RiverInv
<1>1. Init => RiverInv
  <2>1. Init => Posted /\ ShowdownAtRiver
    BY DEF Init, Posted, ShowdownAtRiver
  <2> QED BY <2>1, InitKeeps DEF RiverInv
<1>2. RiverInv /\ [Next]_vars => RiverInv'
  BY NextKeeps, RequestAtRiver, FlowAtRiver, StutterAtRiver DEF RiverInv, Next
<1> QED BY <1>1, <1>2, PTL DEF Spec

\* Hands are compared only when all five community cards are there: a round
\* that ends before the river leaves one player who holds cards.
THEOREM AlwaysShowdownAtRiver ==
  ASSUME PausesInRounds
  PROVE  Spec => []ShowdownAtRiver
<1>1. RiverInv => ShowdownAtRiver
  BY DEF RiverInv
<1> QED BY <1>1, AlwaysRiverInv, PTL

-----------------------------------------------------------------------------
(* The promises.                                                           *)

\* What the promises see.
View == << SeatOf, TurnOf, StageOf >>

\* The seats as the promises see them.
LEMMA SeatView ==
  ASSUME NEW a \in [Seats -> Actions], NEW f, f = [s \in Seats |-> Standing(a[s])]
  PROVE  /\ f \in [Seats -> H!Kinds]
         /\ H!MayBet(f) = Eligible(a) /\ H!HoldCards(f) = NonFolded(a) /\ H!Taken(f) = Occupied(a)
         /\ \A s \in Seats : f[s] = "free" <=> a[s] = "VacantSeat"
  BY DEF Standing, Actions, H!Kinds, H!MayBet, H!HoldCards, H!Taken, Eligible, NonFolded, Occupied

\* The same before and after a step.
LEMMA SeatViews ==
  ASSUME IInv, IInv'
  PROVE  /\ act \in [Seats -> Actions] /\ act' \in [Seats -> Actions]
         /\ SeatOf' = [s \in Seats |-> Standing(act'[s])]
         /\ SeatOf \in [Seats -> H!Kinds] /\ SeatOf' \in [Seats -> H!Kinds]
         /\ H!MayBet(SeatOf) = Eligible(act) /\ H!MayBet(SeatOf') = Eligible(act')
         /\ H!HoldCards(SeatOf) = NonFolded(act) /\ H!HoldCards(SeatOf') = NonFolded(act')
         /\ H!Taken(SeatOf) = Occupied(act)
         /\ \A s \in Seats : SeatOf[s] = "free" <=> act[s] = "VacantSeat"
<1>1. act \in [Seats -> Actions] /\ act' \in [Seats -> Actions]
  BY DEF IInv, TypeOK
<1>2. /\ SeatOf = [s \in Seats |-> Standing(act[s])]
      /\ SeatOf' = [s \in Seats |-> Standing(act'[s])]
  BY DEF SeatOf
<1> QED BY <1>1, <1>2, SeatView

\* The turn is seen while the room waits for an action.
LEMMA TurnView ==
  ASSUME IInv, IInv'
  PROVE  /\ StageOf = "betting" <=> Betting
         /\ StageOf' = "betting" <=> Betting'
         /\ Betting => TurnOf = curPlayer /\ curPlayer \in Eligible(act) /\ curPlayer # None
         /\ Betting' => TurnOf' = curPlayer' /\ curPlayer' \in Eligible(act')
         /\ ~Betting => TurnOf = None
         /\ ~Betting' => TurnOf' = None
<1>1. /\ StageOf = "betting" <=> Betting
      /\ StageOf' = "betting" <=> Betting'
  BY DEF StageOf, Betting, BettingStates
<1>2. Betting => curPlayer \in Eligible(act)
  BY DEF Betting, IInv, Following, Waiting, BettingStates
<1>3. Betting' => curPlayer' \in Eligible(act')
  BY DEF Betting, IInv, Following, Waiting, BettingStates
<1>4. None \notin Eligible(act)
  BY TableAssumption DEF Eligible
<1> QED BY <1>1, <1>2, <1>3, <1>4 DEF TurnOf

\* Nothing that the promises are about happens.
LEMMA Quiet ==
  ASSUME IInv, IInv', act' = act, StageOf' = StageOf, ~Betting
  PROVE  UNCHANGED View
  BY TurnView DEF SeatOf, View

\* The server stops, or this module follows it no further.
LEMMA Stops ==
  ASSUME IInv, IInv', phase' \in {"Panicked", "Lost"}
  PROVE  H!Next
<1>1. StageOf' = "stopped" /\ ~Betting'
  BY DEF StageOf, Betting
<1> QED BY <1>1, SeatViews, TurnView DEF H!Stop, H!Next

-----------------------------------------------------------------------------
(* The requests.                                                           *)

\* A player sits down.
LEMMA JoinKeepsPromise ==
  ASSUME PausesInRounds, IInv, Posted, IInv', NEW p \in Seats, Join(p)
  PROVE  H!Next
<1>1. /\ phase \in {"Open", "PostBetting", "RunOut"} /\ phase' = phase /\ state' = state
      /\ act[p] = "VacantSeat"
      /\ curPlayer # None => curPlayer' = curPlayer
      /\ act' = [act EXCEPT ![p] = IF state # "NotStarted" THEN "MidroundAddition" ELSE "FirstAction"]
  BY DEF Join, PausesInRounds
<1>2. /\ StageOf = "idle" <=> state = "NotStarted"
      /\ StageOf \in {"idle", "betting", "street"} /\ StageOf' = StageOf
  BY <1>1 DEF StageOf, IInv, Following, Ending, Posted
<1>3. TurnOf' = TurnOf
  BY <1>1, <1>2, TurnView
<1>4. SeatOf[p] = "free"
  BY <1>1, SeatViews
<1>5. SeatOf' = [SeatOf EXCEPT ![p] = IF StageOf = "idle" THEN "in" ELSE "waiting"]
  BY <1>1, <1>2, SeatViews DEF SeatOf, Standing
<1>6. H!Sit(p)
  BY <1>2, <1>3, <1>4, <1>5 DEF H!Sit
<1> QED BY <1>6 DEF H!Next

\* The first hand begins.
LEMMA StartKeepsPromise ==
  ASSUME IInv, IInv', StartGame
  PROVE  H!Next
<1>1. /\ phase = "Open" /\ state = "NotStarted" /\ phase' = "Open" /\ state' = "PreFlop"
      /\ act' = act /\ numPlayers >= 2
  BY DEF StartGame, BeginGame
<1>2. StageOf = "idle" /\ Betting'
  BY <1>1 DEF StageOf, Betting, BettingStates
<1>3. \E s, q \in Occupied(act) : s # q
  <2>1. /\ activePlayers \in Seq(Seats) /\ Distinct(activePlayers)
        /\ Members(activePlayers) = Occupied(act) /\ numPlayers = Len(activePlayers)
    BY <1>1 DEF IInv, Following, Seated, TypeOK
  <2>2. Len(activePlayers) # 0 /\ Len(activePlayers) # 1
    <3>1. ~(0 >= 2) /\ ~(1 >= 2)
      OBVIOUS
    <3> QED BY <1>1, <2>1, <3>1
  <2>3. activePlayers[1] \in Members(activePlayers)
    BY <2>1, <2>2, HeadIsMember
  <2>4. /\ NextOf(activePlayers, activePlayers[1]) \in Members(activePlayers)
        /\ NextOf(activePlayers, activePlayers[1]) # activePlayers[1]
    BY <2>1, <2>2, <2>3, NextOfKeeps
  <2> QED BY <2>1, <2>3, <2>4
<1>4. SeatOf' = SeatOf
  BY <1>1 DEF SeatOf
<1>5. H!Resume
  BY <1>1, <1>2, <1>3, <1>4, SeatViews, TurnView DEF H!Resume
<1> QED BY <1>5 DEF H!Next

\* A player acts.
LEMMA TurnKeepsPromise ==
  ASSUME IInv, IInv', NEW p \in Seats, Turn(p)
  PROVE  H!Next
<1>1. CASE Panic
  BY <1>1, Stops DEF Panic
<1>2. CASE ~Panic
  <2>1. /\ phase = "Open" /\ state \in BettingStates /\ curPlayer = p
        /\ phase' \in {"Open", "PostBetting", "FinishRound"}
        /\ phase' = "Open" => state' \in BettingStates /\ curPlayer' # p
        /\ phase' = "FinishRound" => AtMostOne(NonFolded(act'))
    BY <1>2, TurnEnds
  <2>2. PICK kind \in {"AllIn", "Bet", "Call", "Check", "Fold"} : act' = [act EXCEPT ![p] = kind]
    BY <1>2, TurnEnds
  <2>3. Betting /\ StageOf = "betting" /\ TurnOf = p /\ p # None
    BY <2>1, TurnView DEF Betting
  <2>4. /\ Standing(kind) \in {"in", "allIn", "folded"}
        /\ SeatOf' = [SeatOf EXCEPT ![TurnOf] = Standing(kind)]
    BY <2>2, <2>3, SeatViews DEF SeatOf, Standing
  <2>5. CASE phase' = "Open"
    <3>1. Betting' /\ StageOf' = "betting" /\ TurnOf' = curPlayer' /\ curPlayer' \in Eligible(act')
      BY <2>1, <2>5, TurnView DEF Betting
    <3>2. H!GoesOn /\ TurnOf' # TurnOf
      BY <2>1, <2>3, <2>5, <3>1, SeatViews DEF H!GoesOn, AtMostOne
    <3>3. H!Act
      BY <2>3, <2>4, <3>2 DEF H!Act
    <3> QED BY <3>3 DEF H!Next
  <2>6. CASE phase' # "Open"
    <3>1. /\ ~Betting' /\ TurnOf' = None
          /\ StageOf' = IF phase' = "PostBetting" THEN "street" ELSE "over"
      BY <2>1, <2>6, TurnView DEF Betting, StageOf
    <3>2. H!GoesOn /\ TurnOf' # TurnOf
      BY <2>1, <2>3, <2>6, <3>1, SeatViews DEF H!GoesOn, AtMostOne
    <3>3. H!Act
      BY <2>3, <2>4, <3>2 DEF H!Act
    <3> QED BY <3>3 DEF H!Next
  <2> QED BY <2>5, <2>6
<1> QED BY <1>1, <1>2

\* A player leaves.
LEMMA LeaveKeepsPromise ==
  ASSUME IInv, Posted, IInv', NEW p \in Seats, Leave(p)
  PROVE  H!Next
<1>1. /\ phase = "Open" /\ act[p] # "VacantSeat"
      /\ act' = [act EXCEPT ![p] = "VacantSeat"]
      /\ phase' \in {"Open", "PostBetting", "FinishRound", "Abandoned"}
      /\ state = "NotStarted" => phase' = "Open"
      /\ phase' = "Open" => /\ state' = state /\ state # "DoneBetting"
                            /\ curPlayer # p => curPlayer' = curPlayer
      /\ phase' = "FinishRound" => AtMostOne(NonFolded(act'))
  BY LeaveEnds
<1>2. SeatOf[p] # "free" /\ SeatOf' = [SeatOf EXCEPT ![p] = "free"]
  BY <1>1, SeatViews DEF SeatOf, Standing
<1>3. state \in BettingStates \cup {"NotStarted", "DoneBetting"}
  BY <1>1 DEF IInv, Following, Waiting
<1>4. phase' = "Abandoned" => AtMostOne(NonFolded(act'))
  <2> SUFFICES ASSUME phase' = "Abandoned" PROVE AtMostOne(NonFolded(act'))
    OBVIOUS
  <2>1. /\ Len(activePlayers') = 1 /\ activePlayers' \in Seq(Seats)
        /\ Members(activePlayers') = Occupied(act')
    BY DEF IInv, Following, Ending, Seated, TypeOK
  <2>2. Members(activePlayers') = {activePlayers'[1]}
    BY <2>1, AloneInList
  <2>3. NonFolded(act') \subseteq {activePlayers'[1]}
    BY <2>1, <2>2 DEF NonFolded, Occupied
  <2> QED BY <2>3 DEF AtMostOne
<1>5. CASE phase' = "Open" /\ state = "NotStarted"
  <2>1. StageOf = "idle" /\ StageOf' = "idle" /\ TurnOf' = TurnOf
    BY <1>1, <1>5, TurnView DEF StageOf
  <2>2. H!Leave(p)
    BY <1>2, <2>1 DEF H!Leave
  <2> QED BY <2>2 DEF H!Next
<1>6. CASE phase' = "Open" /\ state # "NotStarted"
  <2>1. Betting /\ Betting'
    BY <1>1, <1>3, <1>6 DEF Betting
  <2>2. /\ StageOf = "betting" /\ StageOf' = "betting" /\ TurnOf = curPlayer
        /\ TurnOf' = curPlayer' /\ curPlayer' \in Eligible(act')
    BY <2>1, TurnView
  <2>3. H!GoesOn
    BY <2>2, SeatViews DEF H!GoesOn, AtMostOne
  <2>4. H!Leave(p)
    BY <1>1, <1>2, <1>6, <2>2, <2>3 DEF H!Leave
  <2> QED BY <2>4 DEF H!Next
<1>7. CASE phase' # "Open"
  <2>1. /\ StageOf' = IF phase' = "PostBetting" THEN "street" ELSE "over"
        /\ TurnOf' = None
        /\ StageOf \in {"betting", "street"}
    BY <1>1, <1>3, <1>7, TurnView DEF StageOf
  <2>2. H!GoesOn /\ StageOf' # "betting"
    BY <1>1, <1>4, <1>7, <2>1, SeatViews DEF H!GoesOn, AtMostOne
  <2>3. H!Leave(p)
    BY <1>2, <2>1, <2>2 DEF H!Leave
  <2> QED BY <2>3 DEF H!Next
<1> QED BY <1>5, <1>6, <1>7

\* The last player leaves.
LEMMA LeaveLastKeepsPromise ==
  ASSUME IInv, IInv', NEW p \in Seats, LeaveLast(p)
  PROVE  H!Next
<1>1. /\ phase = "Open" /\ phase' = "Open" /\ act[p] # "VacantSeat" /\ numPlayers = 1
      /\ state' = "NotStarted"
      /\ act' = [s \in Seats |-> IF s = None THEN "FirstAction" ELSE "VacantSeat"]
  BY DEF LeaveLast, Reset
<1>2. Occupied(act) = {p}
  <2>1. /\ activePlayers \in Seq(Seats) /\ Len(activePlayers) = 1
        /\ Members(activePlayers) = Occupied(act)
    BY <1>1 DEF IInv, Following, Seated, TypeOK
  <2>2. p \in Occupied(act)
    BY <1>1 DEF Occupied
  <2> QED BY <2>1, <2>2, AloneInList
<1>3. H!Taken(SeatOf) = {p}
  BY <1>2, SeatViews
<1>4. SeatOf' = [SeatOf EXCEPT ![p] = "free"]
  BY <1>1, <1>2, SeatViews, TableAssumption DEF Occupied, SeatOf, Standing
<1>5. StageOf \in {"idle", "betting", "street"} /\ StageOf' = "idle" /\ TurnOf' = None
  BY <1>1, TurnView DEF StageOf
<1>6. H!LeaveLast(p)
  BY <1>3, <1>4, <1>5 DEF H!LeaveLast, H!Goes
<1> QED BY <1>6 DEF H!Next

\* What clients ask for.
LEMMA RequestKeepsPromise ==
  ASSUME PausesInRounds, IInv, Posted, IInv', Request
  PROVE  H!Next
  BY JoinKeepsPromise, StartKeepsPromise, TurnKeepsPromise, LeaveKeepsPromise,
     LeaveLastKeepsPromise DEF Request

-----------------------------------------------------------------------------
(* What the room does on its own.                                          *)

\* The cards of the next hand are dealt to everybody at the table.
LEMMA NewRoundKeepsPromise ==
  ASSUME IInv, IInv', NewRound
  PROVE  H!Next
<1>1. CASE activePlayers = << >>
  BY <1>1, Stops DEF NewRound, Panic
<1>2. CASE activePlayers # << >>
  <2>1. /\ phase = "NewRound" /\ phase' = "Blinds"
        /\ act' = [s \in Seats |-> IF s \in Members(activePlayers) THEN "FirstAction" ELSE act[s]]
    BY <1>2 DEF NewRound
  <2>2. Members(activePlayers) = Occupied(act)
    BY <2>1 DEF IInv, Following, Seated
  <2>3. SeatOf' = [s \in Seats |-> IF SeatOf[s] = "free" THEN "free" ELSE "in"]
    BY <2>1, <2>2, SeatViews DEF Occupied, SeatOf, Standing
  <2>4. StageOf = "over" /\ StageOf' = "dealt" /\ TurnOf' = None
    BY <2>1, TurnView DEF StageOf
  <2>5. H!Deal
    BY <2>3, <2>4 DEF H!Deal, H!Goes
  <2> QED BY <2>5 DEF H!Next
<1> QED BY <1>1, <1>2

\* The blinds are charged to two players, who may be all-in with them.
LEMMA BlindsKeepPromise ==
  ASSUME IInv, IInv', Blinds
  PROVE  H!Next
<1> DEFINE seating == RotatePlayers([dealer |-> dealer, smallBlind |-> smallBlind,
                                     bigBlind |-> bigBlind])
           s == seating.smallBlind
           b == seating.bigBlind
           S == {x \in {s, b} : chips'[x] = 0}
<1>1. /\ phase = "Blinds" /\ activePlayers \in Seq(Seats)
      /\ {dealer, smallBlind, bigBlind} \subseteq Members(activePlayers)
      /\ \A x \in Members(activePlayers) : act[x] = "FirstAction"
      /\ Members(activePlayers) \subseteq Seats
  BY MembersType DEF Blinds, IInv, Following, TypeOK, Seated, Posting
<1>2. s \in Members(activePlayers) /\ b \in Members(activePlayers)
  <2>1. [dealer |-> dealer, smallBlind |-> smallBlind, bigBlind |-> bigBlind]
          \in [dealer : Members(activePlayers), smallBlind : Members(activePlayers),
               bigBlind : Members(activePlayers)]
    BY <1>1
  <2>2. seating \in [dealer : Members(activePlayers), smallBlind : Members(activePlayers),
                     bigBlind : Members(activePlayers)]
    BY <1>1, <2>1, RotateKeeps
  <2> HIDE DEF seating
  <2> QED BY <2>2
<1>3. /\ act' = [x \in Seats |-> IF x \in {s, b} /\ chips'[x] = 0 THEN "AllIn" ELSE act[x]]
      /\ phase' = "SmallBlindAllIn"
  BY DEF Blinds
<1> HIDE DEF s, b
<1>4. s \in H!MayBet(SeatOf) /\ b \in H!MayBet(SeatOf)
  BY <1>1, <1>2, SeatViews DEF Eligible
<1>5. SeatOf' = [x \in Seats |-> IF x \in S THEN "allIn" ELSE SeatOf[x]]
  BY <1>3, SeatViews DEF SeatOf, Standing
<1>6. StageOf = "dealt" /\ StageOf' = "street" /\ TurnOf' = None
  BY <1>1, <1>3, TurnView DEF StageOf
<1>7. H!PostBlinds
  <2>1. S \in SUBSET {s, b}
    OBVIOUS
  <2> HIDE DEF S
  <2> QED BY <1>4, <1>5, <1>6, <2>1 DEF H!PostBlinds, H!Goes
<1> QED BY <1>7 DEF H!Next

\* Betting starts or goes on, with the turn at a player who may bet.
LEMMA Resumes ==
  ASSUME IInv, IInv', SeatOf' = SeatOf, StageOf = "street", Betting'
  PROVE  H!Next
<1>1. H!Resume
  BY SeatViews, TurnView DEF H!Resume
<1> QED BY <1>1 DEF H!Next

\* The hand is over.
LEMMA Finishes ==
  ASSUME IInv, IInv', act' = act, StageOf = "street", StageOf' = "over"
  PROVE  H!Next
<1>1. H!Finish
  BY TurnView DEF H!Finish, H!Goes, SeatOf
<1> QED BY <1>1 DEF H!Next

\* A blind is taken off the betting list; behind the big blind the betting starts.
LEMMA BlindAllInKeepsPromise ==
  ASSUME IInv, IInv', Posted, SmallBlindAllIn \/ BigBlindAllIn
  PROVE  H!Next \/ UNCHANGED View
<1>1. /\ phase \in {"SmallBlindAllIn", "BigBlindAllIn"}
      /\ phase' = IF phase = "SmallBlindAllIn" THEN "BigBlindAllIn" ELSE "Open"
      /\ act' = act
  BY DEF SmallBlindAllIn, BigBlindAllIn, BlindAllIn, players
<1>2. StageOf = "street" /\ ~Betting
  BY <1>1 DEF StageOf, Betting
<1>3. CASE phase' = "BigBlindAllIn"
  BY <1>1, <1>2, <1>3, Quiet DEF StageOf
<1>4. CASE phase' = "Open"
  <2>1. state = "PreFlop" /\ BigBlindAllIn
    BY <1>1, <1>4 DEF Posted, SmallBlindAllIn, BlindAllIn
  <2>2. state' # "NotStarted"
    BY <2>1 DEF BigBlindAllIn, BlindAllIn, SetNextPlayerTurn
  <2>3. state' \in BettingStates \cup {"DoneBetting"}
    BY <1>4, <2>2 DEF IInv, Following, Waiting
  <2>4. CASE state' \in BettingStates
    BY <1>1, <1>2, <1>4, <2>4, Resumes DEF SeatOf, Betting
  <2>5. CASE state' = "DoneBetting"
    BY <1>1, <1>2, <1>4, <2>5, Quiet DEF StageOf, BettingStates
  <2> QED BY <2>3, <2>4, <2>5
<1> QED BY <1>1, <1>3, <1>4

\* A street is over.
LEMMA StreetKeepsPromise ==
  ASSUME IInv, IInv', ShowDownEarly \/ RunOut \/ RiverDone \/ DealStreet
  PROVE  H!Next \/ UNCHANGED View
<1>1. phase \in {"PostBetting", "RunOut"} /\ StageOf = "street" /\ ~Betting
  BY DEF ShowDownEarly, RunOut, RiverDone, DealStreet, StageOf, Betting
<1>2. ASSUME phase' = "Panicked" PROVE H!Next
  BY <1>2, Stops
<1>3. ASSUME act' = act, phase' = "FinishRound" PROVE H!Next
  BY <1>1, <1>3, Finishes DEF StageOf
<1>4. ASSUME act' = act, phase' = "RunOut" PROVE UNCHANGED View
  BY <1>1, <1>4, Quiet DEF StageOf
<1>5. ASSUME DealStreet, phase' # "Panicked" PROVE H!Next
  <2>1. /\ phase' = "Open" /\ state' = "Rounds" /\ phase = "PostBetting"
        /\ act' = [s \in Seats |-> IF s \in Members(curPlayers) THEN "FirstAction" ELSE act[s]]
        /\ Members(curPlayers) = Eligible(act)
    BY <1>5 DEF DealStreet, Panic, IInv, Following, Ending
  <2>2. SeatOf' = SeatOf
    BY <2>1, SeatViews DEF SeatOf, Standing, Eligible
  <2>3. Betting'
    BY <2>1 DEF Betting, BettingStates
  <2> QED BY <1>1, <2>2, <2>3, Resumes
<1> QED BY <1>2, <1>3, <1>4, <1>5 DEF ShowDownEarly, RunOut, RiverDone, Panic, players

Ended == {"FinishRound", "Award", "Abandoned", "Eliminate", "Eliminating", "GameOver", "NewRound"}

\* The round is finished: pots are paid and players without chips counted.
LEMMA FinishKeepsPromise ==
  ASSUME IInv, IInv', phase \in Ended, act' = act, phase' \in Ended \cup {"Panicked"}
  PROVE  H!Next \/ UNCHANGED View
<1>1. CASE phase' = "Panicked"
  BY <1>1, Stops
<1>2. CASE phase' \in Ended
  BY <1>2, Quiet DEF Ended, StageOf, Betting
<1> QED BY <1>1, <1>2

\* A player without chips is removed.
LEMMA EliminationKeepsPromise ==
  ASSUME IInv, IInv', RemoveEliminated
  PROVE  H!Next
<1> DEFINE p == FirstIn(activePlayers, Broke)
<1>1. /\ phase = "Eliminating" /\ Broke # {} /\ activePlayers \in Seq(Seats)
      /\ Members(activePlayers) = Occupied(act) /\ numPlayers = Len(activePlayers)
  BY DEF RemoveEliminated, IInv, Following, Seated, TypeOK
<1>2. p \in Occupied(act) /\ p \in Seats
  <2>1. Members(activePlayers) \cap Broke # {}
    BY <1>1 DEF Broke
  <2>2. p \in Members(activePlayers)
    BY <1>1, <2>1, FirstInKeeps
  <2> HIDE DEF p
  <2> QED BY <1>1, <2>2, MembersType
<1> HIDE DEF p
<1>3. CASE phase' = "Lost"
  BY <1>3, Stops
<1>4. CASE phase' # "Lost"
  <2>1. /\ phase' = "Eliminating"
        /\ \/ /\ numPlayers = 1
              /\ act' = [s \in Seats |-> IF s = None THEN "FirstAction" ELSE "VacantSeat"]
           \/ act' = [act EXCEPT ![p] = "VacantSeat"]
    BY <1>1, <1>4 DEF RemoveEliminated, Reset, Unseat, p
  <2>2. act' = [act EXCEPT ![p] = "VacantSeat"]
    <3>1. numPlayers = 1 => Occupied(act) = {p}
      BY <1>1, <1>2, AloneInList
    <3> QED BY <1>2, <2>1, <3>1, SeatViews, TableAssumption DEF Occupied
  <2>3. SeatOf' = [SeatOf EXCEPT ![p] = "free"] /\ SeatOf[p] # "free"
    BY <1>2, <2>2, SeatViews DEF SeatOf, Standing, Occupied
  <2>4. StageOf = "over" /\ StageOf' = "over" /\ TurnOf' = TurnOf
    BY <1>1, <2>1, TurnView DEF StageOf
  <2>5. H!Leave(p)
    BY <2>3, <2>4 DEF H!Leave
  <2> QED BY <1>2, <2>5 DEF H!Next
<1> QED BY <1>3, <1>4

\* The game is over.
LEMMA GameOverKeepsPromise ==
  ASSUME IInv, IInv', GameOver
  PROVE  H!Next
<1>1. PICK w \in winners :
        /\ act' = [s \in Seats |-> IF s = w THEN "FirstAction" ELSE "VacantSeat"]
        /\ state' = "NotStarted"
        /\ phase' = IF w \in Members(activePlayers) THEN "Open" ELSE "Lost"
  BY DEF GameOver, Reset
<1>2. CASE w \notin Members(activePlayers)
  BY <1>1, <1>2, Stops
<1>3. CASE w \in Members(activePlayers)
  <2>1. /\ phase = "GameOver" /\ Len(activePlayers) = 1 /\ activePlayers \in Seq(Seats)
        /\ Members(activePlayers) = Occupied(act) /\ w \in Seats
    BY DEF GameOver, IInv, Following, Seated, Ending, TypeOK
  <2>2. Occupied(act) = {w}
    BY <1>3, <2>1, AloneInList
  <2>3. SeatOf' = [SeatOf EXCEPT ![w] = "in"] /\ H!Taken(SeatOf) = {w}
    BY <1>1, <2>2, SeatViews DEF SeatOf, Standing, Occupied
  <2>4. StageOf = "over" /\ StageOf' = "idle" /\ TurnOf' = None
    BY <1>1, <1>3, <2>1, TurnView DEF StageOf
  <2>5. H!Restart(w)
    BY <2>3, <2>4 DEF H!Restart, H!Goes
  <2> QED BY <2>1, <2>5 DEF H!Next
<1> QED BY <1>2, <1>3

\* What the room does on its own.
LEMMA FlowKeepsPromise ==
  ASSUME IInv, IInv', Posted, Flow
  PROVE  H!Next \/ UNCHANGED View
<1>1. FinishByFolds \/ AbandonToLast \/ ShowHands \/ AwardSidePot \/ AwardDone \/ AbandonPots
        => H!Next \/ UNCHANGED View
  BY FinishKeepsPromise DEF FinishByFolds, AbandonToLast, WinByFolds, ShowHands, AwardSidePot,
     AwardDone, AbandonPots, Panic, players, Ended
<1>2. NoHandsLeft \/ AbandonToJoiner \/ Eliminate \/ EliminationDone => H!Next \/ UNCHANGED View
  BY FinishKeepsPromise DEF NoHandsLeft, AbandonToJoiner, Eliminate, EliminationDone, Panic,
     players, Ended
<1> QED BY <1>1, <1>2, NewRoundKeepsPromise, BlindsKeepPromise, BlindAllInKeepsPromise,
           StreetKeepsPromise, EliminationKeepsPromise, GameOverKeepsPromise DEF Flow

-----------------------------------------------------------------------------

\* The game implements HandProtocol: the turn is always with one player who
\* may bet, nobody is brought back into a hand or dealt into a running one,
\* and betting that ends a hand at once leaves one player with cards at most.
THEOREM GameImplementsHandProtocol ==
  ASSUME PausesInRounds
  PROVE  Spec => HandPromises
<1>1. Init => H!Init
  BY DEF Init, H!Init, SeatOf, Standing, TurnOf, Betting, StageOf, BettingStates
<1>2. RiverInv /\ RiverInv' /\ [Next]_vars => [H!Next]_View
  <2>1. ASSUME RiverInv, RiverInv', Next PROVE H!Next \/ UNCHANGED View
    BY <2>1, RequestKeepsPromise, FlowKeepsPromise DEF Next, RiverInv
  <2>2. UNCHANGED vars => UNCHANGED View
    BY DEF vars, players, View, SeatOf, TurnOf, StageOf, Betting
  <2> QED BY <2>1, <2>2
<1>3. [][H!Next]_View => [][H!Next]_<< SeatOf, TurnOf, StageOf >>
  BY DEF View
<1> QED BY <1>1, <1>2, <1>3, AlwaysRiverInv, PTL DEF Spec, HandPromises, H!Spec

-----------------------------------------------------------------------------
(* The order in which the players of a list act.                           *)

\* The players of a list have positions.
LEMMA Positions ==
  ASSUME NEW list \in Seq(Seats)
  PROVE  \A p \in Members(list) : Position(list, p) \in 1 .. Len(list)
  BY PositionType

\* Somebody else may leave the list.
LEMMA RemoveKeepsOrder ==
  ASSUME NEW list \in Seq(Seats), Distinct(list), NEW turn \in Members(list), NEW a,
         ActedInOrder(list, turn, a), NEW x, x # turn
  PROVE  ActedInOrder(RemovePlayer(list, x), turn, a)
<1>1. CASE x \notin Members(list)
  BY <1>1, RemovePlayerKeeps
<1>2. CASE x \in Members(list)
  <2> DEFINE short == RemovePlayer(list, x)
  <2>1. Members(short) = Members(list) \ {x}
    BY RemovePlayerKeeps
  <2>2. \A s \in Members(short) : Position(short, s)
          = IF Position(list, s) < Position(list, x) THEN Position(list, s) ELSE Position(list, s) - 1
    BY <1>2, <2>1, RemovePosition
  <2>3. \A s \in Members(list) : Position(list, s) \in Int
    BY Positions
  <2>4. \A s \in Members(short) : Position(list, s) # Position(list, x)
    BY <1>2, <2>1, PositionsDiffer
  <2> HIDE DEF short
  <2>5. \A p, q \in Members(short) :
          /\ Position(short, p) < Position(short, q) <=> Position(list, p) < Position(list, q)
          /\ Position(short, p) <= Position(short, q) <=> Position(list, p) <= Position(list, q)
    BY <1>2, <2>1, <2>2, <2>3, <2>4
  <2>6. turn \in Members(short)
    BY <2>1
  <2>7. ActedInOrder(short, turn, a)
    BY <2>1, <2>5, <2>6 DEF ActedInOrder
  <2> QED BY <2>7 DEF short
<1> QED BY <1>1, <1>2

\* Whoever has the turn may become the head.
LEMMA SetHeadKeepsOrder ==
  ASSUME NEW list \in Seq(Seats), Distinct(list), NEW turn \in Members(list), NEW a,
         ActedInOrder(list, turn, a)
  PROVE  ActedInOrder(SetHead(list, turn), turn, a)
<1> DEFINE ring == SetHead(list, turn)
           k == Position(list, turn)
<1>1. Members(ring) = Members(list)
  BY SetHeadKeeps
<1>2. \A s \in Members(list) : Position(ring, s)
        = IF Position(list, s) < k THEN Position(list, s) - k + 1 + Len(list)
          ELSE Position(list, s) - k + 1
  BY SetHeadPosition
<1>3. \A s \in Members(list) : Position(list, s) \in 1 .. Len(list)
  BY Positions
<1>4. Position(ring, turn) = 1
  BY <1>2, <1>3
<1> HIDE DEF ring
<1> SUFFICES ASSUME NEW p \in Members(list), NEW q \in Members(list)
             PROVE  /\ ~(Position(ring, p) < 1)
                    /\ Position(ring, p) < Position(ring, q) /\ a[p] # "FirstAction"
                         => a[q] # "FirstAction"
  BY <1>1, <1>4 DEF ActedInOrder, ring
<1>5. ~(Position(ring, p) < 1)
  BY <1>2, <1>3
<1>6. ASSUME Position(ring, p) < Position(ring, q), a[p] # "FirstAction"
      PROVE  a[q] # "FirstAction"
  <2>1. CASE Position(list, q) < k
    BY <2>1 DEF ActedInOrder
  <2>2. CASE k <= Position(list, q)
    <3>1. k <= Position(list, p) /\ Position(list, p) < Position(list, q)
      BY <1>2, <1>3, <1>6, <2>2
    <3> QED BY <1>6, <3>1 DEF ActedInOrder
  <2> QED BY <1>3, <2>1, <2>2
<1> QED BY <1>5, <1>6

\* The turn goes on to the next one in the list.
LEMMA NextKeepsOrder ==
  ASSUME NEW list \in Seq(Seats), Distinct(list), NEW turn \in Members(list), NEW a, NEW b,
         ActedInOrder(list, turn, a), \A s \in Members(list) \ {turn} : b[s] = a[s],
         b[turn] # "FirstAction", Position(list, turn) # Len(list)
  PROVE  ActedInOrder(list, NextOf(list, turn), b)
<1> DEFINE k == Position(list, turn)
<1>1. Position(list, NextOf(list, turn)) = k + 1
  BY NextPosition
<1>2. \A s \in Members(list) : Position(list, s) \in 1 .. Len(list)
  BY Positions
<1>3. \A s \in Members(list) : Position(list, s) = k => s = turn
  BY PositionsDiffer
<1> HIDE DEF k
<1> SUFFICES ASSUME NEW p \in Members(list), NEW q \in Members(list)
             PROVE  /\ Position(list, p) < k + 1 => b[p] # "FirstAction"
                    /\ k + 1 <= Position(list, p) /\ Position(list, p) < Position(list, q)
                         /\ b[p] # "FirstAction" => b[q] # "FirstAction"
  BY <1>1 DEF ActedInOrder, k
<1>4. k \in 1 .. Len(list)
  BY <1>2 DEF k
<1>5. ASSUME Position(list, p) < k + 1 PROVE b[p] # "FirstAction"
  <2>1. CASE p = turn
    BY <2>1
  <2>2. CASE p # turn
    <3>1. Position(list, p) < k
      BY <1>2, <1>3, <1>4, <1>5, <2>2
    <3> QED BY <2>2, <3>1 DEF ActedInOrder, k
  <2> QED BY <2>1, <2>2
<1>6. ASSUME k + 1 <= Position(list, p), Position(list, p) < Position(list, q),
             b[p] # "FirstAction"
      PROVE  b[q] # "FirstAction"
  <2>1. /\ k <= Position(list, p) /\ p # turn /\ q # turn
    BY <1>2, <1>4, <1>6 DEF k
  <2> QED BY <1>6, <2>1 DEF ActedInOrder, k
<1> QED BY <1>5, <1>6

\* A street begins.
LEMMA StreetInOrder ==
  ASSUME NEW list \in Seq(Seats), Distinct(list), Len(list) # 0, NEW a,
         \A s \in Members(list) : a[s] = "FirstAction"
  PROVE  ActedInOrder(list, list[1], a)
<1>1. 1 \in 1 .. Len(list)
  OBVIOUS
<1>2. Position(list, list[1]) = 1
  BY <1>1, PositionIs
<1>3. \A s \in Members(list) : Position(list, s) \in 1 .. Len(list)
  BY Positions
<1>4. ASSUME NEW s \in Members(list) PROVE ~(Position(list, s) < 1)
  <2>1. Position(list, s) \in 1 .. Len(list)
    BY <1>3
  <2> QED BY <2>1
<1> QED BY <1>2, <1>4 DEF ActedInOrder

\* The head of a list that loses a player.
LEMMA HeadAfterRemove ==
  ASSUME NEW list \in Seq(Seats), Distinct(list), Len(list) # 0, Len(list) # 1,
         NEW x \in Members(list)
  PROVE  RemovePlayer(list, x)[1] = IF x = list[1] THEN NextOf(list, x) ELSE list[1]
<1>1. /\ Position(list, x) \in 1 .. Len(list) /\ list[Position(list, x)] = x
      /\ Len(list) \in Nat
  BY PositionType
<1>2. x = list[1] <=> Position(list, x) = 1
  <2>1. 1 \in 1 .. Len(list)
    BY <1>1
  <2>2. Position(list, list[1]) = 1
    BY <2>1, PositionIs
  <2> QED BY <1>1, <2>2
<1> DEFINE n == Len(list)
           k == Position(list, x)
<1> HIDE DEF n, k
<1>3. n >= 2 /\ n \in Nat /\ k \in 1 .. n
  <2>1. n \in Nat /\ n # 0 /\ n # 1 /\ k \in 1 .. n
    BY <1>1 DEF n, k
  <2> QED BY <2>1
<1>4. RemovePlayer(list, x)[1] = IF 1 < Position(list, x) THEN list[1] ELSE list[2]
  <2>1. RemovePlayer(list, x) = [i \in 1 .. n - 1 |-> IF i < k THEN list[i] ELSE list[i + 1]]
    BY DEF RemovePlayer, n, k
  <2>2. 1 \in 1 .. n - 1
    BY <1>3
  <2> QED BY <2>1, <2>2 DEF k
<1>5. NextOf(list, x) = IF k = n THEN list[1] ELSE list[k + 1]
  BY DEF NextOf, n, k
<1>6. CASE k = 1
  <2>1. k # n /\ ~(1 < k) /\ k + 1 = 2
    BY <1>3, <1>6
  <2> QED BY <1>2, <1>4, <1>5, <1>6, <2>1 DEF k
<1>7. CASE k # 1
  <2>1. 1 < k
    BY <1>3, <1>7
  <2> QED BY <1>2, <1>4, <1>7, <2>1 DEF k
<1> QED BY <1>6, <1>7

\* Only the actions of those in the list matter.
LEMMA SameOrder ==
  ASSUME NEW list \in Seq(Seats), NEW turn, NEW a, NEW b, ActedInOrder(list, turn, a),
         \A s \in Members(list) : b[s] = a[s]
  PROVE  ActedInOrder(list, turn, b)
  BY DEF ActedInOrder

-----------------------------------------------------------------------------
(* How the turn passes.                                                    *)

\* The list without the player p if that one does not bet any more.
Left(a, cur, p) == IF a[p] \in {"Fold", "AllIn"} THEN RemovePlayer(cur, p) ELSE cur

\* What SetNextPlayerTurn does with a player who is in the list.
LEMMA TurnGoesOn ==
  ASSUME NEW a, NEW cur \in Seq(Seats), curPlayer \in Members(cur), NEW st \in BettingStates,
         NEW P, NEW t, t = SetNextPlayerTurn(a, cur, st, P)
  PROVE  /\ Len(cur) = 1 => /\ t.state \in {"RoundOver", "DoneBetting"}
                            /\ t.cur \in {cur, RemovePlayer(cur, curPlayer)}
         /\ Len(cur) # 1 =>
              /\ t.cur = Left(a, cur, curPlayer)
              /\ t.curPlayer = NextOf(cur, curPlayer)
              /\ t.state \in {"RoundOver", "DoneBetting", st}
              /\ t.state = "DoneBetting" <=> DoneAt(a, DropFolded(a, cur), NextOf(cur, curPlayer))
                                               /\ t.state # "RoundOver"
<1>1. st \notin {"NotStarted", "RoundOver", "DoneBetting"}
  BY DEF BettingStates
<1>2. CASE Len(cur) = 1
  <2>1. /\ t.state = IF WonByFolds(a) THEN "RoundOver" ELSE "DoneBetting"
        /\ t.cur = IF a[curPlayer] = "AllIn" THEN RemovePlayer(cur, curPlayer) ELSE cur
    BY <1>1, <1>2 DEF SetNextPlayerTurn
  <2> QED BY <1>2, <2>1
<1>3. CASE Len(cur) # 1
  <2>1. /\ t.cur = IF a[curPlayer] = "AllIn" THEN RemovePlayer(DropFolded(a, cur), curPlayer)
                   ELSE DropFolded(a, cur)
        /\ t.curPlayer = NextTurn(cur)
        /\ t.state = IF OneLeft(a, DropFolded(a, cur)) THEN "RoundOver"
                     ELSE IF DoneAt(a, DropFolded(a, cur), NextTurn(cur)) THEN "DoneBetting" ELSE st
    BY <1>1, <1>3 DEF SetNextPlayerTurn
  <2>2. t.cur = Left(a, cur, curPlayer)
    BY <2>1 DEF DropFolded, Left
  <2> QED BY <1>1, <1>3, <2>1, <2>2 DEF NextTurn
<1> QED BY <1>2, <1>3

\* The street is over when the turn comes back to the head of the list, or
\* when the head folds before somebody who has acted.
LEMMA WhenDone ==
  ASSUME NEW cur \in Seq(Seats), Distinct(cur), Len(cur) # 1, NEW p \in Members(cur), p = curPlayer,
         NEW a, NEW b, ActedInOrder(cur, p, a), \A s \in Members(cur) \ {p} : b[s] = a[s]
  PROVE  LET done == DoneAt(b, DropFolded(b, cur), NextOf(cur, p))
             k == Position(cur, p)
         IN  /\ k = Len(cur) => done
             /\ done => k = Len(cur) \/ (k = 1 /\ b[p] = "Fold")
<1> DEFINE n == Len(cur)
           k == Position(cur, p)
           next == NextOf(cur, p)
           folded == DropFolded(b, cur)
<1>1. /\ \A s \in Members(cur) : Position(cur, s) \in 1 .. n
      /\ \A s \in Members(cur) : Position(cur, s) = k => s = p
  BY Positions, PositionsDiffer
<1>2. /\ next \in Members(cur) /\ next # p
      /\ Position(cur, next) = IF k = n THEN 1 ELSE k + 1
  BY NextOfKeeps, NextPosition
<1>3. /\ cur[1] \in Members(cur) /\ Position(cur, cur[1]) = 1
      /\ \A s \in Members(cur) : Position(cur, s) = 1 => s = cur[1]
  <2>1. cur[1] \in Members(cur) /\ n \in Nat \ {0}
    BY HeadIsMember
  <2>2. 1 \in 1 .. n
    BY <2>1
  <2>3. Position(cur, cur[1]) = 1
    BY <2>2, PositionIs
  <2> QED BY <2>1, <2>3, PositionsDiffer
<1>4. folded[1] = IF b[p] = "Fold" /\ p = cur[1] THEN next ELSE cur[1]
  <2>1. CASE b[p] = "Fold"
    <3>1. folded = RemovePlayer(cur, p)
      BY <2>1 DEF DropFolded
    <3>2. Len(cur) # 0
      BY HeadIsMember
    <3> QED BY <2>1, <3>1, <3>2, HeadAfterRemove
  <2>2. CASE b[p] # "Fold"
    BY <2>2 DEF DropFolded
  <2> QED BY <2>1, <2>2
<1>5. DoneAt(b, folded, next) <=> next = folded[1] /\ b[next] # "FirstAction"
  BY DEF DoneAt
<1> HIDE DEF n, next, folded
<1>6. CASE k = n
  <2>1. Position(cur, next) = 1 /\ k # 1
    BY <1>1, <1>2, <1>6 DEF next
  <2>2. next = cur[1] /\ p # cur[1]
    BY <1>2, <1>3, <2>1
  <2>3. 1 < k
    BY <1>1, <2>1
  <2>4. b[next] # "FirstAction"
    BY <1>2, <2>1, <2>3 DEF ActedInOrder
  <2> QED BY <1>4, <1>5, <1>6, <2>2, <2>4 DEF next, folded, n
<1>7. CASE k # n
  <2>1. Position(cur, next) = k + 1 /\ k \in 1 .. n
    BY <1>1, <1>2, <1>7
  <2>2. next # cur[1]
    BY <1>3, <2>1
  <2>3. DoneAt(b, folded, next) => b[p] = "Fold" /\ p = cur[1]
    BY <1>4, <1>5, <2>2
  <2> QED BY <1>3, <1>7, <2>3 DEF next, folded, n
<1> QED BY <1>6, <1>7

\* The turn passes to a player who has an action to come and all behind it
\* have, or the street is over and nobody has.
LEMMA PassKeepsOrder ==
  ASSUME NEW cur \in Seq(Seats), Distinct(cur), Len(cur) # 1, NEW p \in Members(cur), p = curPlayer,
         NEW a, NEW b, ActedInOrder(cur, p, a), \A s \in Members(cur) \ {p} : b[s] = a[s],
         b[p] # "FirstAction"
  PROVE  IF DoneAt(b, DropFolded(b, cur), NextOf(cur, p))
         THEN \A s \in Members(Left(b, cur, p)) : b[s] # "FirstAction"
         ELSE ActedInOrder(Left(b, cur, p), NextOf(cur, p), b)
<1> DEFINE n == Len(cur)
           k == Position(cur, p)
           next == NextOf(cur, p)
           done == DoneAt(b, DropFolded(b, cur), next)
<1>1. /\ \A s \in Members(cur) : Position(cur, s) \in 1 .. n
      /\ \A s \in Members(cur) : Position(cur, s) = k => s = p
  BY Positions, PositionsDiffer
<1>2. /\ next \in Members(cur) /\ next # p
      /\ Position(cur, next) = IF k = n THEN 1 ELSE k + 1
  BY NextOfKeeps, NextPosition
<1>3. Members(Left(b, cur, p)) \subseteq Members(cur)
      /\ (b[p] = "Fold" => Members(Left(b, cur, p)) = Members(cur) \ {p})
  BY RemovePlayerKeeps DEF Left
<1>4. /\ k = n => done
      /\ done => (k = n \/ (k = 1 /\ b[p] = "Fold")) /\ b[next] # "FirstAction"
  BY WhenDone DEF DoneAt
<1> HIDE DEF n, next, done
<1>5. CASE k = n
  <2>1. ASSUME NEW s \in Members(cur) PROVE b[s] # "FirstAction"
    <3>1. CASE s = p
      BY <3>1
    <3>2. CASE s # p
      <4>1. Position(cur, s) \in 1 .. n /\ Position(cur, s) # n /\ n \in Nat
        BY <1>1, <1>5, <3>2 DEF n
      <4>2. Position(cur, s) < n
        BY <4>1
      <4>3. Position(cur, s) < k
        BY <1>5, <4>2
      <4> QED BY <3>2, <4>3 DEF ActedInOrder
    <3> QED BY <3>1, <3>2
  <2> QED BY <1>3, <1>4, <1>5, <2>1 DEF next, done
<1>6. CASE k # n
  <2>1. Position(cur, next) = k + 1 /\ k \in 1 .. n
    BY <1>1, <1>2, <1>6
  <2>2. CASE done
    <3>1. b[p] = "Fold" /\ k = 1 /\ b[next] # "FirstAction"
      BY <1>4, <1>6, <2>2
    <3>2. ASSUME NEW s \in Members(cur) \ {p} PROVE b[s] # "FirstAction"
      <4>1. CASE s = next
        BY <3>1, <4>1
      <4>2. CASE s # next
        <5>1. Position(cur, s) \in 1 .. n /\ Position(cur, s) # 1 /\ Position(cur, s) # 2
          <6>1. Position(cur, s) # Position(cur, next)
            BY <1>2, <4>2, PositionsDiffer
          <6> QED BY <1>1, <2>1, <3>1, <6>1
        <5>2. k <= Position(cur, next) /\ Position(cur, next) < Position(cur, s)
          BY <2>1, <3>1, <5>1
        <5>3. a[next] # "FirstAction" => a[s] # "FirstAction"
          BY <1>2, <5>2 DEF ActedInOrder
        <5> QED BY <1>2, <3>1, <5>3
      <4> QED BY <4>1, <4>2
    <3> QED BY <1>3, <2>2, <3>1, <3>2 DEF next, done
  <2>3. CASE ~done
    <3>1. ActedInOrder(cur, next, b)
      BY <1>6, NextKeepsOrder DEF next, n
    <3>2. ActedInOrder(RemovePlayer(cur, p), next, b)
      BY <1>2, <3>1, RemoveKeepsOrder
    <3> QED BY <2>3, <3>1, <3>2 DEF Left, next, done
  <2> QED BY <2>2, <2>3
<1> QED BY <1>5, <1>6

\* After a turn the list is in order again, or the street is over and
\* everybody has acted.
LEMMA PassStep ==
  ASSUME NEW cur \in Seq(Seats), Distinct(cur), curPlayer \in Members(cur),
         SameRing(cur, activePlayers), ActedInOrder(cur, curPlayer, act),
         NEW st \in BettingStates, NEW P,
         NEW a, \A s \in Members(cur) \ {curPlayer} : a[s] = act[s], a[curPlayer] # "FirstAction",
         NEW t, t = SetNextPlayerTurn(a, cur, st, P)
  PROVE  /\ SameRing(t.cur, activePlayers)
         /\ t.cur \in Seq(Seats) /\ Distinct(t.cur) /\ Members(t.cur) \subseteq Members(cur)
         /\ PhaseAfter(t.state) = "Open" => ActedInOrder(t.cur, t.curPlayer, a)
         /\ PhaseAfter(t.state) = "PostBetting" =>
              Len(t.cur) < 2 \/ \A s \in Members(t.cur) : a[s] # "FirstAction"
         /\ PhaseAfter(t.state) \in {"Open", "PostBetting", "FinishRound"}
<1>1. t.cur \in {cur, RemovePlayer(cur, curPlayer)}
  BY TurnGoesOn DEF Left
<1>2. /\ SameRing(t.cur, activePlayers)
      /\ t.cur \in Seq(Seats) /\ Distinct(t.cur) /\ Members(t.cur) \subseteq Members(cur)
  BY <1>1, ShortKeepsRing, RemovePlayerKeeps
<1>3. CASE Len(cur) = 1
  <2>1. t.state \in {"RoundOver", "DoneBetting"}
    BY <1>3, TurnGoesOn
  <2>2. Len(t.cur) < 2
    <3>1. Len(RemovePlayer(cur, curPlayer)) = Len(cur) - 1
      BY RemovePlayerKeeps
    <3>2. t.cur = cur \/ t.cur = RemovePlayer(cur, curPlayer)
      BY <1>1
    <3> QED BY <1>3, <3>1, <3>2
  <2> QED BY <1>2, <2>1, <2>2 DEF PhaseAfter
<1>4. CASE Len(cur) # 1
  <2> DEFINE done == DoneAt(a, DropFolded(a, cur), NextOf(cur, curPlayer))
  <2>1. /\ t.cur = Left(a, cur, curPlayer) /\ t.curPlayer = NextOf(cur, curPlayer)
        /\ t.state \in {"RoundOver", "DoneBetting", st}
        /\ t.state = "DoneBetting" <=> done /\ t.state # "RoundOver"
    BY <1>4, TurnGoesOn
  <2>2. IF done THEN \A s \in Members(t.cur) : a[s] # "FirstAction"
                ELSE ActedInOrder(t.cur, t.curPlayer, a)
    BY <1>4, <2>1, PassKeepsOrder
  <2> HIDE DEF done
  <2>3. /\ PhaseAfter(t.state) \in {"Open", "PostBetting", "FinishRound"}
        /\ PhaseAfter(t.state) = "Open" => t.state \notin {"RoundOver", "DoneBetting"}
        /\ PhaseAfter(t.state) = "PostBetting" => t.state = "DoneBetting"
    BY DEF PhaseAfter
  <2> QED BY <1>2, <2>1, <2>2, <2>3
<1> QED BY <1>3, <1>4

-----------------------------------------------------------------------------
(* The steps.                                                              *)

\* The lists, as TurnInv knows them.
LEMMA ListsKnown ==
  ASSUME TurnInv, Following
  PROVE  /\ IInv /\ Posted /\ OneRing /\ ActInOrder /\ EveryoneActed
         /\ TypeOK /\ Seated /\ Waiting /\ Posting /\ Ending
         /\ activePlayers \in Seq(Seats) /\ Distinct(activePlayers)
         /\ curPlayers \in Seq(Seats) /\ Distinct(curPlayers)
         /\ Members(curPlayers) \subseteq Members(activePlayers)
         /\ Members(activePlayers) = Occupied(act) /\ numPlayers = Len(activePlayers)
         /\ act \in [Seats -> Actions]
         /\ SameRing(curPlayers, activePlayers)
  BY DEF TurnInv, IInv, TypeOK, Seated, OneRing

\* What has to be shown of a step.
Orderly == (Following => OneRing /\ ActInOrder) /\ EveryoneActed

\* The server stops, or this module follows it no further.
LEMMA StopInOrder ==
  ASSUME phase' \in {"Panicked", "Lost"}
  PROVE  Orderly'
  BY DEF Orderly, Following, EveryoneActed

\* No betting begins or ends.
LEMMA QuietInOrder ==
  ASSUME OneRing, UNCHANGED lists, phase' \notin {"Open", "PostBetting", "BigBlindAllIn"}
  PROVE  Orderly'
<1>1. UNCHANGED << activePlayers, curPlayers >>
  BY DEF lists
<1> QED BY <1>1 DEF Orderly, OneRing, ActInOrder, EveryoneActed, Betting

\* A player acts.
LEMMA TurnInOrder ==
  ASSUME TurnInv, NEW p \in Seats, Turn(p)
  PROVE  Orderly'
<1>1. CASE Panic
  BY <1>1, StopInOrder DEF Panic
<1>2. CASE ~Panic
  <2>0. PICK kind \in {"AllIn", "Bet", "Call", "Check", "Fold"},
             cur \in {curPlayers, SetHead(curPlayers, p)}, st \in BettingStates :
          MayAct(p) /\ \E P : EndTurn([act EXCEPT ![p] = kind], cur, st, P)
    BY <1>2, ActionEndsTurn
  <2>1. PICK P : MayAct(p) /\ EndTurn([act EXCEPT ![p] = kind], cur, st, P)
    BY <2>0
  <2> DEFINE a == [act EXCEPT ![p] = kind]
             t == SetNextPlayerTurn(a, cur, st, P)
  <2>2. /\ p = curPlayer /\ phase = "Open" /\ state \in BettingStates
        /\ act' = a /\ curPlayers' = t.cur /\ curPlayer' = t.curPlayer
        /\ state' = t.state /\ phase' = PhaseAfter(t.state) /\ activePlayers' = activePlayers
    BY <2>1 DEF MayAct, EndTurn
  <2>3. Following /\ Betting
    BY <2>2 DEF Following, Betting
  <2>4. /\ curPlayers \in Seq(Seats) /\ Distinct(curPlayers) /\ act \in [Seats -> Actions]
        /\ p \in Members(curPlayers) /\ SameRing(curPlayers, activePlayers)
        /\ ActedInOrder(curPlayers, p, act)
    <3>1. curPlayer \in Members(curPlayers)
      BY <2>2, <2>3, ListsKnown DEF Waiting
    <3> QED BY <2>2, <2>3, <3>1, ListsKnown DEF ActInOrder
  <2>5. /\ cur \in Seq(Seats) /\ Distinct(cur) /\ p \in Members(cur)
        /\ SameRing(cur, activePlayers) /\ ActedInOrder(cur, p, act)
    <3>1. CASE cur = curPlayers
      BY <2>4, <3>1
    <3>2. CASE cur = SetHead(curPlayers, p)
      BY <2>4, <3>2, SetHeadKeeps, ShortKeepsRing, SetHeadKeepsOrder
    <3> QED BY <3>1, <3>2
  <2>6. /\ \A s \in Members(cur) \ {p} : a[s] = act[s]
        /\ a[p] # "FirstAction"
    <3>1. Members(cur) \subseteq Seats
      BY <2>5, MembersType
    <3> QED BY <2>4, <3>1
  <2> HIDE DEF a, t
  <2>7. /\ SameRing(t.cur, activePlayers)
        /\ phase' = "Open" => ActedInOrder(t.cur, t.curPlayer, a)
        /\ phase' = "PostBetting" =>
              Len(t.cur) < 2 \/ \A s \in Members(t.cur) : a[s] # "FirstAction"
        /\ phase' \in {"Open", "PostBetting", "FinishRound"}
    BY <2>2, <2>5, <2>6, PassStep DEF t
  <2>8. phase' = "Open" => state' # "NotStarted"
    <3>1. t.state \in {"RoundOver", "DoneBetting", st}
      BY <2>2, <2>5, TurnGoesOn DEF t
    <3> QED BY <2>2, <3>1 DEF BettingStates
  <2>9. OneRing'
    BY <2>2, <2>7, <2>8 DEF OneRing
  <2>10. ActInOrder'
    BY <2>2, <2>7 DEF ActInOrder, Betting
  <2>11. EveryoneActed'
    BY <2>2, <2>7 DEF EveryoneActed, BettingIsImpossible
  <2> QED BY <2>9, <2>10, <2>11 DEF Orderly
<1> QED BY <1>1, <1>2

\* A player sits down.
LEMMA JoinInOrder ==
  ASSUME PausesInRounds, TurnInv, NEW p \in Seats, Join(p)
  PROVE  Orderly'
<1> DEFINE started == state # "NotStarted"
<1>1. /\ phase \in {"Open", "PostBetting", "RunOut"} /\ phase' = phase /\ state' = state
      /\ act[p] = "VacantSeat" /\ activePlayers' = AddPlayer(activePlayers, p)
      /\ curPlayers' = IF started THEN curPlayers ELSE AddPlayer(curPlayers, p)
      /\ curPlayer # None => curPlayer' = curPlayer
      /\ act' = [act EXCEPT ![p] = IF started THEN "MidroundAddition" ELSE "FirstAction"]
  BY DEF Join, PausesInRounds
<1>2. Following
  BY <1>1 DEF Following
<1>3. p \notin Members(activePlayers) /\ p \notin Members(curPlayers)
  BY <1>1, <1>2, ListsKnown DEF Occupied
<1>4. OneRing'
  <2>1. CASE started
    <3>1. SameRing(curPlayers, AddPlayer(activePlayers, p))
      BY <1>2, <1>3, ListsKnown, LongKeepsRing
    <3> QED BY <1>1, <2>1, <3>1 DEF OneRing
  <2>2. CASE ~started
    <3>1. phase = "Open"
      BY <1>1, <1>2, <2>2, ListsKnown DEF Ending, Posted
    <3>2. curPlayers = activePlayers
      BY <1>2, <2>2, <3>1, ListsKnown DEF OneRing
    <3>3. activePlayers' \in Seq(Seats)
      BY <1>1, <1>2, ListsKnown, AddPlayerKeeps
    <3>4. SameRing(activePlayers', activePlayers') /\ curPlayers' = activePlayers'
      BY <1>1, <2>2, <3>2, <3>3, RingsAlike
    <3> QED BY <3>4 DEF OneRing
  <2> QED BY <2>1, <2>2
<1>5. ActInOrder'
  <2> SUFFICES ASSUME Betting' PROVE ActedInOrder(curPlayers', curPlayer', act')
    BY <1>1 DEF ActInOrder
  <2>1. Betting /\ started
    BY <1>1 DEF Betting, BettingStates
  <2>2. curPlayer \in Members(curPlayers) /\ ActedInOrder(curPlayers, curPlayer, act)
    BY <1>2, <2>1, ListsKnown DEF Waiting, Betting, ActInOrder
  <2>3. curPlayer # None
    BY <1>2, <2>2, ListsKnown, MembersType, TableAssumption
  <2>4. curPlayers' = curPlayers /\ curPlayer' = curPlayer
    BY <1>1, <2>1, <2>3
  <2>5. \A s \in Members(curPlayers) : act'[s] = act[s]
    BY <1>1, <1>2, <1>3, ListsKnown
  <2> QED BY <1>2, <2>2, <2>4, <2>5, ListsKnown, SameOrder
<1>6. EveryoneActed'
  <2> SUFFICES ASSUME phase' = "PostBetting", ~BettingIsImpossible', NEW s \in Members(curPlayers')
               PROVE  act'[s] # "FirstAction"
    BY DEF EveryoneActed
  <2>1. phase = "PostBetting" /\ started
    BY <1>1, <1>2, ListsKnown DEF Ending
  <2>2. curPlayers' = curPlayers
    BY <1>1, <2>1
  <2>3. act[s] # "FirstAction"
    BY <1>2, <2>1, <2>2, ListsKnown DEF EveryoneActed, BettingIsImpossible
  <2> QED BY <1>1, <1>2, <1>3, <2>2, <2>3, ListsKnown
<1> QED BY <1>4, <1>5, <1>6 DEF Orderly

\* A player leaves, in turn or out of it.
LEMMA LeaveInOrder ==
  ASSUME TurnInv, NEW p \in Seats, Leave(p)
  PROVE  Orderly'
<1> DEFINE inTurn == Len(activePlayers) > 1 /\ curPlayer = p
           a == IF inTurn THEN [act EXCEPT ![p] = "Fold"] ELSE act
           t == IF inTurn THEN SetNextPlayerTurn(a, curPlayers, state, pots)
                ELSE [cur |-> curPlayers, curPlayer |-> curPlayer, state |-> state, pots |-> pots]
<1>1. /\ phase = "Open" /\ act[p] # "VacantSeat" /\ numPlayers > 1
      /\ act' = [a EXCEPT ![p] = "VacantSeat"] /\ state' = t.state
      /\ phase' = IF numPlayers > 2 THEN PhaseAfter(t.state)
                  ELSE IF state = "NotStarted" THEN "Open" ELSE "Abandoned"
      /\ curPlayer' = t.curPlayer
      /\ activePlayers' = RemovePlayer(activePlayers, p)
      /\ curPlayers' = RemovePlayer(t.cur, p)
  BY DEF Leave, Unseat, Unlist, GoesOn
<1>2. Following
  BY <1>1 DEF Following
<1>3. /\ p \in Members(activePlayers) /\ p \notin Members(activePlayers')
      /\ activePlayers' \in Seq(Seats)
      /\ Members(curPlayers) \subseteq Members(activePlayers)
  BY <1>1, <1>2, ListsKnown, RemovePlayerKeeps DEF Occupied
<1>4. /\ state \in BettingStates \cup {"NotStarted", "DoneBetting"}
      /\ state = "NotStarted" => curPlayers = activePlayers
      /\ state = "DoneBetting" => curPlayers = << >>
      /\ state \in BettingStates => /\ curPlayer \in Members(curPlayers)
                                    /\ ActedInOrder(curPlayers, curPlayer, act)
  BY <1>1, <1>2, ListsKnown DEF Waiting, OneRing, Posted, ActInOrder, Betting
<1>5. ASSUME NEW cur \in Seq(Seats), Distinct(cur), Members(cur) \subseteq Members(activePlayers),
             SameRing(cur, activePlayers), curPlayers' = RemovePlayer(cur, p)
      PROVE  SameRing(curPlayers', activePlayers')
  <2>1. /\ Members(curPlayers') \subseteq Members(activePlayers) /\ p \notin Members(curPlayers')
        /\ SameRing(curPlayers', activePlayers)
    BY <1>5, RemovePlayerKeeps, ShortKeepsRing
  <2> QED BY <1>1, <1>2, <2>1, ListsKnown, LongKeepsRing
<1>6. CASE state = "NotStarted"
  <2>1. t.cur = curPlayers /\ t.state = "NotStarted"
    BY <1>6 DEF SetNextPlayerTurn
  <2>2. curPlayers' = activePlayers'
    BY <1>1, <1>4, <1>6, <2>1
  <2>3. OneRing'
    BY <1>3, <2>2, RingsAlike DEF OneRing
  <2>4. phase' = "Open" /\ state' = "NotStarted"
    BY <1>1, <1>6, <2>1 DEF PhaseAfter
  <2> QED BY <2>3, <2>4 DEF Orderly, ActInOrder, EveryoneActed, Betting, BettingStates
<1>7. CASE state = "DoneBetting"
  <2>1. curPlayers = << >> /\ Members(curPlayers) = {} /\ Len(curPlayers) = 0
    BY <1>4, <1>7 DEF Members
  <2>2. t.cur = << >>
    <3>1. CASE ~inTurn
      BY <2>1, <3>1
    <3>2. CASE inTurn
      <4>1. DropFolded(a, << >>) = << >>
        BY <2>1 DEF DropFolded, RemovePlayer
      <4> HIDE DEF a
      <4>2. t.cur = IF a[p] = "AllIn" THEN RemovePlayer(<< >>, p) ELSE << >>
        BY <1>7, <2>1, <3>2, <4>1 DEF SetNextPlayerTurn
      <4> QED BY <2>1, <4>2 DEF RemovePlayer
    <3> QED BY <3>1, <3>2
  <2>3. curPlayers' = << >>
    BY <1>1, <2>1, <2>2 DEF RemovePlayer
  <2>4. Len(curPlayers') = 0 /\ curPlayers' \in Seq(Seats)
    BY <2>3
  <2>5. t.state \in {"RoundOver", "DoneBetting"}
    BY <1>7 DEF SetNextPlayerTurn
  <2>6. phase' # "Open" /\ phase' # "BigBlindAllIn"
    BY <1>1, <1>7, <2>5 DEF PhaseAfter
  <2>7. SameRing(curPlayers', activePlayers')
    BY <2>4, RingsAlike
  <2> QED BY <2>4, <2>6, <2>7 DEF Orderly, OneRing, ActInOrder, EveryoneActed, Betting,
                                   BettingIsImpossible
<1>8. CASE state \in BettingStates /\ ~inTurn
  <2>1. /\ curPlayer # p /\ curPlayers' = RemovePlayer(curPlayers, p)
        /\ curPlayer' = curPlayer /\ state' = state
        /\ act' = [act EXCEPT ![p] = "VacantSeat"]
    BY <1>1, <1>2, <1>8, ListsKnown
  <2>2. SameRing(curPlayers', activePlayers')
    BY <1>2, <1>5, <2>1, ListsKnown
  <2>3. ActedInOrder(curPlayers', curPlayer, act)
    BY <1>2, <1>4, <1>8, <2>1, ListsKnown, RemoveKeepsOrder
  <2>4. curPlayers' \in Seq(Seats) /\ p \notin Members(curPlayers')
    BY <1>2, <2>1, ListsKnown, RemovePlayerKeeps
  <2>5. ActedInOrder(curPlayers', curPlayer', act')
    <3>1. \A s \in Members(curPlayers') : act'[s] = act[s]
      BY <1>2, <2>1, <2>4, ListsKnown, MembersType
    <3> QED BY <2>1, <2>3, <2>4, <3>1, SameOrder
  <2>6. state' # "NotStarted" /\ phase' \in {"Open", "Abandoned"}
    BY <1>1, <1>8, <2>1 DEF PhaseAfter, BettingStates
  <2> QED BY <2>2, <2>5, <2>6 DEF Orderly, OneRing, ActInOrder, EveryoneActed
<1>9. CASE state \in BettingStates /\ inTurn
  <2>1. /\ t = SetNextPlayerTurn(a, curPlayers, state, pots) /\ curPlayer = p
        /\ a = [act EXCEPT ![p] = "Fold"] /\ state # "NotStarted"
    BY <1>9 DEF BettingStates
  <2>2. /\ \A s \in Members(curPlayers) \ {p} : a[s] = act[s]
        /\ a[p] = "Fold"
    BY <1>2, <2>1, ListsKnown, MembersType
  <2> HIDE DEF a, t
  <2>3. /\ SameRing(t.cur, activePlayers)
        /\ t.cur \in Seq(Seats) /\ Distinct(t.cur) /\ Members(t.cur) \subseteq Members(curPlayers)
        /\ PhaseAfter(t.state) = "Open" => ActedInOrder(t.cur, t.curPlayer, a)
        /\ PhaseAfter(t.state) = "PostBetting" =>
             Len(t.cur) < 2 \/ \A s \in Members(t.cur) : a[s] # "FirstAction"
        /\ PhaseAfter(t.state) \in {"Open", "PostBetting", "FinishRound"}
    <3>1. /\ curPlayers \in Seq(Seats) /\ Distinct(curPlayers) /\ curPlayer \in Members(curPlayers)
          /\ SameRing(curPlayers, activePlayers) /\ ActedInOrder(curPlayers, curPlayer, act)
          /\ state \in BettingStates
      BY <1>2, <1>4, <1>9, ListsKnown
    <3>2. /\ \A s \in Members(curPlayers) \ {curPlayer} : a[s] = act[s]
          /\ a[curPlayer] # "FirstAction"
      BY <2>1, <2>2
    <3>3. t = SetNextPlayerTurn(a, curPlayers, state, pots)
      BY <2>1
    <3> QED BY <3>1, <3>2, <3>3, PassStep
  <2>4. /\ SameRing(curPlayers', activePlayers')
        /\ Members(curPlayers') = Members(t.cur) \ {p}
        /\ curPlayers' \in Seq(Seats)
        /\ Len(curPlayers') = IF p \in Members(t.cur) THEN Len(t.cur) - 1 ELSE Len(t.cur)
    <3>1. Members(t.cur) \subseteq Members(activePlayers)
      BY <1>3, <2>3
    <3> QED BY <1>1, <1>5, <2>3, <3>1, RemovePlayerKeeps
  <2>5. \A s \in Members(curPlayers') : act'[s] = a[s]
    BY <1>1, <2>1, <2>4, ListsKnown, MembersType, <1>2
  <2>6. state' # "NotStarted"
    <3>1. t.state \in {"RoundOver", "DoneBetting", state}
      BY <1>2, <1>4, <1>9, <2>1, ListsKnown, TurnGoesOn
    <3> QED BY <1>1, <2>1, <3>1
  <2>7. ASSUME phase' = "Open" PROVE ActedInOrder(curPlayers', curPlayer', act')
    <3>1. PhaseAfter(t.state) = "Open"
      BY <1>1, <2>1, <2>7
    <3>2. p \notin Members(t.cur)
      <4>1. Len(curPlayers) # 1
        <5>1. Len(curPlayers) = 1 => t.state \in {"RoundOver", "DoneBetting"}
          BY <1>2, <1>4, <1>9, <2>1, ListsKnown, TurnGoesOn
        <5> QED BY <3>1, <5>1 DEF PhaseAfter
      <4>2. t.cur = Left(a, curPlayers, p)
        BY <1>2, <1>4, <1>9, <2>1, <4>1, ListsKnown, TurnGoesOn
      <4> QED BY <1>2, <2>2, <4>2, ListsKnown, RemovePlayerKeeps DEF Left
    <3>3. curPlayers' = t.cur /\ curPlayer' = t.curPlayer
      BY <1>1, <2>3, <3>2, RemovePlayerKeeps
    <3> QED BY <2>3, <2>5, <3>1, <3>3, SameOrder
  <2>8. ASSUME phase' = "PostBetting", ~BettingIsImpossible'
        PROVE  \A s \in Members(curPlayers') : act'[s] # "FirstAction"
    <3>1. PhaseAfter(t.state) = "PostBetting"
      BY <1>1, <2>8
    <3>2. ~(Len(t.cur) < 2)
      <4>1. ~(Len(curPlayers') < 2)
        BY <2>8 DEF BettingIsImpossible
      <4>2. Len(t.cur) \in Nat
        BY <2>3
      <4> QED BY <2>4, <4>1, <4>2
    <3> QED BY <2>3, <2>4, <2>5, <3>1, <3>2
  <2>9. phase' # "BigBlindAllIn"
    BY <1>1, <2>3
  <2> QED BY <2>4, <2>6, <2>7, <2>8, <2>9 DEF Orderly, OneRing, ActInOrder, EveryoneActed, Betting
<1> QED BY <1>4, <1>6, <1>7, <1>8, <1>9

\* The last player leaves.
LEMMA LeaveLastInOrder ==
  ASSUME TypeOK, Seated, NEW p \in Seats, LeaveLast(p)
  PROVE  Orderly'
<1>1. activePlayers' = << >> /\ curPlayers' = << >> /\ phase' = "Open" /\ state' = "NotStarted"
  BY LastLeaves
<1>2. << >> \in Seq(Seats) /\ Len(<< >>) = 0
  OBVIOUS
<1>3. SameRing(curPlayers', activePlayers')
  BY <1>1, <1>2, RingsAlike
<1> QED BY <1>1, <1>3 DEF Orderly, OneRing, ActInOrder, EveryoneActed, Betting, BettingStates

\* The lists are rotated together before the flop.
LEMMA PreFlopInOrder ==
  ASSUME NEW list \in Seq(Seats), Distinct(list), activePlayers = list, NEW b \in Members(list),
         ReorderPreFlop(list, b)
  PROVE  /\ curPlayers' = activePlayers' /\ SameRing(curPlayers', activePlayers')
         /\ curPlayers' \in Seq(Seats) /\ Distinct(curPlayers') /\ Len(curPlayers') = Len(list)
         /\ Members(curPlayers') = Members(list) /\ curPlayers'[1] = curPlayer'
<1> DEFINE first == NextOf(activePlayers, b)
<1>1. first \in Members(list)
  BY NextOfKeeps
<1>2. activePlayers' = SetHead(list, first) /\ curPlayers' = SetHead(list, first) /\ curPlayer' = first
  BY DEF ReorderPreFlop
<1> HIDE DEF first
<1>3. /\ curPlayers' \in Seq(Seats) /\ Distinct(curPlayers') /\ Len(curPlayers') = Len(list)
      /\ Members(curPlayers') = Members(list) /\ curPlayers'[1] = first
  BY <1>1, <1>2, SetHeadKeeps
<1> QED BY <1>2, <1>3, RingsAlike

\* A game begins with those who are there, one player or more.
LEMMA BeginInOrder ==
  ASSUME TurnInv, phase = "Open", state = "NotStarted", activePlayers # << >>, BeginGame
  PROVE  Orderly'
<1> DEFINE seating == HandleOrphanedSeats
           list == activePlayers
<1>1. /\ phase' = "Open" /\ state' = "PreFlop"
      /\ act' = act /\ ReorderPreFlop(curPlayers, seating.bigBlind)
  BY DEF BeginGame
<1>2. /\ list \in Seq(Seats) /\ Distinct(list) /\ curPlayers = list
      /\ \A s \in Members(list) : act[s] = "FirstAction"
      /\ {dealer, smallBlind, bigBlind} \subseteq Members(list) \cup {None}
  BY ListsKnown DEF Following, OneRing, Waiting, Seated
<1>3. list[1] \in Members(list) /\ Len(list) # 0
  <2>1. Len(list) # 0
    BY <1>2, AloneInList
  <2> QED BY <1>2, <2>1, HeadIsMember
<1>4. seating.bigBlind \in Members(list)
  <2>1. seating \in [dealer : Members(list), smallBlind : Members(list), bigBlind : Members(list)]
    BY <1>2, <1>3, SeatingKeeps
  <2> HIDE DEF seating
  <2> QED BY <2>1
<1> HIDE DEF seating
<1>5. /\ curPlayers' = activePlayers' /\ SameRing(curPlayers', activePlayers')
      /\ curPlayers' \in Seq(Seats) /\ Distinct(curPlayers') /\ Len(curPlayers') = Len(list)
      /\ Members(curPlayers') = Members(list) /\ curPlayers'[1] = curPlayer'
  BY <1>1, <1>2, <1>4, PreFlopInOrder
<1>6. ActedInOrder(curPlayers', curPlayer', act')
  BY <1>1, <1>2, <1>3, <1>5, StreetInOrder
<1> QED BY <1>1, <1>5, <1>6 DEF Orderly, OneRing, ActInOrder, EveryoneActed

\* The same with the rest of the invariant.
LEMMA BeginKeepsTurns ==
  ASSUME TurnInv, phase = "Open", state = "NotStarted", activePlayers # << >>, BeginGame
  PROVE  TurnInv'
<1>1. IInv' /\ Orderly'
  BY BeginInOrder, BeginGameKeeps DEF TurnInv
<1>2. phase' = "Open" /\ state' = "PreFlop"
  BY DEF BeginGame
<1> QED BY <1>1, <1>2 DEF TurnInv, Orderly, Posted

\* The admin starts the game.
LEMMA StartInOrder ==
  ASSUME TurnInv, StartGame
  PROVE  Orderly'
<1>1. phase = "Open" /\ state = "NotStarted" /\ numPlayers >= 2 /\ BeginGame
  BY DEF StartGame
<1>2. activePlayers \in Seq(Seats) /\ Len(activePlayers) >= 2
  BY <1>1, ListsKnown DEF Following
<1>3. activePlayers # << >>
  BY <1>2, AloneInList
<1> QED BY <1>1, <1>3, BeginInOrder

-----------------------------------------------------------------------------
(* What the room does on its own.                                          *)

\* The next hand is for everybody at the table.
LEMMA NewRoundInOrder ==
  ASSUME TurnInv, NewRound
  PROVE  Orderly'
<1>1. CASE activePlayers = << >>
  BY <1>1, StopInOrder DEF NewRound, Panic
<1>2. CASE activePlayers # << >>
  <2>1. /\ phase = "NewRound" /\ phase' = "Blinds"
        /\ curPlayers' = activePlayers /\ activePlayers' = activePlayers
    BY <1>2 DEF NewRound
  <2>2. SameRing(activePlayers, activePlayers)
    BY <2>1, ListsKnown, RingsAlike DEF Following
  <2> QED BY <2>1, <2>2 DEF Orderly, OneRing, ActInOrder, EveryoneActed, Betting
<1> QED BY <1>1, <1>2

\* The blinds are posted.
LEMMA BlindsInOrder ==
  ASSUME TurnInv, Blinds
  PROVE  Orderly'
<1> DEFINE old == [dealer |-> dealer, smallBlind |-> smallBlind, bigBlind |-> bigBlind]
           seating == RotatePlayers(old)
           b == seating.bigBlind
<1>1. /\ activePlayers \in Seq(Seats) /\ Distinct(activePlayers)
      /\ curPlayers = activePlayers /\ Len(activePlayers) >= 2
      /\ {dealer, smallBlind, bigBlind} \subseteq Members(activePlayers)
  BY ListsKnown DEF Blinds, Following, Posting
<1>2. b \in Members(activePlayers)
  <2>1. old \in [dealer : Members(activePlayers), smallBlind : Members(activePlayers),
                 bigBlind : Members(activePlayers)]
    BY <1>1
  <2>2. seating \in [dealer : Members(activePlayers), smallBlind : Members(activePlayers),
                     bigBlind : Members(activePlayers)]
    BY <1>1, <2>1, RotateKeeps
  <2> HIDE DEF seating
  <2> QED BY <2>2
<1>3. /\ ReorderPreFlop(curPlayers, b) /\ phase' = "SmallBlindAllIn"
  <2>1. ~(Len(activePlayers) < 2)
    BY <1>1
  <2> QED BY <2>1 DEF Blinds
<1> HIDE DEF b
<1>4. SameRing(curPlayers', activePlayers')
  BY <1>1, <1>2, <1>3, PreFlopInOrder
<1> QED BY <1>3, <1>4 DEF Orderly, OneRing, ActInOrder, EveryoneActed, Betting

\* What a blind that is all-in leaves of the betting list.
LEMMA BlindLeaves ==
  ASSUME TurnInv, Following, NEW this, NEW next, NEW blind, BlindAllIn(this, blind, next),
         state = "PreFlop", curPlayer \in Members(curPlayers),
         Len(curPlayers) # 1 \/ curPlayer # blind \/ act[blind] # "AllIn",
         \A s \in Members(curPlayers) : s = blind \/ act[s] = "FirstAction" \/ curPlayers[1] = curPlayer
  PROVE  /\ phase' = next /\ activePlayers' = activePlayers /\ act' = act /\ state' = "PreFlop"
         /\ curPlayers' = IF act[blind] = "AllIn" THEN RemovePlayer(curPlayers, blind) ELSE curPlayers
         /\ curPlayer' = IF act[blind] = "AllIn" /\ curPlayer = blind THEN NextOf(curPlayers, blind)
                         ELSE curPlayer
         /\ SameRing(curPlayers', activePlayers')
<1>1. /\ phase' = next /\ activePlayers' = activePlayers /\ act' = act
  BY DEF BlindAllIn, players
<1>2. /\ curPlayers \in Seq(Seats) /\ Distinct(curPlayers) /\ SameRing(curPlayers, activePlayers)
      /\ activePlayers \in Seq(Seats) /\ Members(curPlayers) \subseteq Members(activePlayers)
  BY ListsKnown
<1>3. CASE act[blind] = "AllIn" /\ curPlayer = blind
  <2> DEFINE t == SetNextPlayerTurn(act, curPlayers, "PreFlop", pots)
  <2>1. state' = t.state /\ curPlayers' = t.cur /\ curPlayer' = t.curPlayer
    BY <1>3 DEF BlindAllIn
  <2>2. t.state = "PreFlop"
    <3>1. curPlayers[1] = curPlayer \/ \A s \in Members(curPlayers) \ {curPlayer} : act[s] = "FirstAction"
      BY <1>3
    <3> QED BY <1>2, <1>3, <3>1, BlindInTurn
  <2>3. t.cur = Left(act, curPlayers, curPlayer) /\ t.curPlayer = NextOf(curPlayers, curPlayer)
    <3>1. "PreFlop" \in BettingStates /\ t = SetNextPlayerTurn(act, curPlayers, "PreFlop", pots)
      BY DEF BettingStates
    <3> HIDE DEF t
    <3> QED BY <1>2, <1>3, <3>1, TurnGoesOn
  <2> HIDE DEF t
  <2>4. curPlayers' = RemovePlayer(curPlayers, blind)
    BY <1>3, <2>1, <2>3 DEF Left
  <2> QED BY <1>1, <1>2, <1>3, <2>1, <2>2, <2>3, <2>4, ShortKeepsRing
<1>4. CASE act[blind] = "AllIn" /\ curPlayer # blind
  <2>1. curPlayers' = RemovePlayer(curPlayers, blind) /\ curPlayer' = curPlayer /\ state' = state
    BY <1>4 DEF BlindAllIn
  <2> QED BY <1>1, <1>2, <1>4, <2>1, ShortKeepsRing
<1>5. CASE act[blind] # "AllIn"
  <2>1. curPlayers' = curPlayers /\ curPlayer' = curPlayer /\ state' = state
    BY <1>5 DEF BlindAllIn
  <2> QED BY <1>1, <1>2, <1>5, <2>1
<1> QED BY <1>3, <1>4, <1>5

\* The small blind may be all-in with it.
LEMMA SmallBlindInOrder ==
  ASSUME TurnInv, SmallBlindAllIn
  PROVE  Orderly'
<1>1. /\ phase = "SmallBlindAllIn" /\ BlindAllIn("SmallBlindAllIn", smallBlind, "BigBlindAllIn")
  BY DEF SmallBlindAllIn, BlindAllIn
<1>2. /\ state = "PreFlop" /\ curPlayer \in Members(curPlayers)
      /\ Len(curPlayers) >= 2 /\ curPlayers[1] = curPlayer
      /\ curPlayers \in Seq(Seats) /\ Distinct(curPlayers)
      /\ smallBlind \in Members(curPlayers) /\ Following
  BY <1>1, ListsKnown DEF Following, Posting, Posted
<1>3. Len(curPlayers) # 1 /\ Len(curPlayers) # 0
  <2>1. \A n \in Nat : n >= 2 => n # 1 /\ n # 0
    OBVIOUS
  <2> QED BY <1>2, <2>1
<1>4. /\ phase' = "BigBlindAllIn" /\ state' = "PreFlop"
      /\ curPlayers' = IF act[smallBlind] = "AllIn" THEN RemovePlayer(curPlayers, smallBlind)
                       ELSE curPlayers
      /\ curPlayer' = IF act[smallBlind] = "AllIn" /\ curPlayer = smallBlind
                      THEN NextOf(curPlayers, smallBlind) ELSE curPlayer
      /\ SameRing(curPlayers', activePlayers')
  BY <1>1, <1>2, <1>3, BlindLeaves
<1>5. curPlayers'[1] = curPlayer'
  BY <1>2, <1>3, <1>4, HeadAfterRemove
<1> QED BY <1>4, <1>5 DEF Orderly, OneRing, ActInOrder, EveryoneActed, Betting

\* The big blind may be all-in with it.  The betting begins.
LEMMA BigBlindInOrder ==
  ASSUME TurnInv, BigBlindAllIn
  PROVE  Orderly'
<1>1. phase = "BigBlindAllIn" /\ BlindAllIn("BigBlindAllIn", bigBlind, "Open")
  BY DEF BigBlindAllIn, BlindAllIn
<1>2. /\ state = "PreFlop" /\ curPlayer \in Members(curPlayers) /\ curPlayers[1] = curPlayer
      /\ Members(curPlayers) \ {bigBlind} = Eligible(act) \ {bigBlind}
      /\ act[bigBlind] = "FirstAction" \/ act[bigBlind] = "AllIn"
      /\ \A s \in Members(activePlayers) : act[s] \in {"FirstAction", "AllIn"}
      /\ curPlayers \in Seq(Seats) /\ Distinct(curPlayers) /\ Following
      /\ Members(curPlayers) \subseteq Members(activePlayers)
      /\ SameRing(curPlayers, activePlayers)
  BY <1>1, ListsKnown DEF Following, Posting, Posted, ActInOrder
<1>3. \A s \in Members(curPlayers) : s = bigBlind \/ act[s] = "FirstAction"
  BY <1>2 DEF Eligible
<1>4. CASE Len(curPlayers) = 1 /\ curPlayer = bigBlind /\ act[bigBlind] = "AllIn"
  <2> DEFINE t == SetNextPlayerTurn(act, curPlayers, "PreFlop", pots)
  <2>1. /\ phase' = "Open" /\ state' = t.state /\ curPlayers' = t.cur
        /\ activePlayers' = activePlayers
    BY <1>1, <1>2, <1>4 DEF BlindAllIn
  <2>2. t.state \in {"RoundOver", "DoneBetting"} /\ t.cur \in {curPlayers, RemovePlayer(curPlayers, curPlayer)}
    <3>1. "PreFlop" \in BettingStates /\ t = SetNextPlayerTurn(act, curPlayers, "PreFlop", pots)
      BY DEF BettingStates
    <3> HIDE DEF t
    <3> QED BY <1>2, <1>4, <3>1, TurnGoesOn
  <2> HIDE DEF t
  <2>3. SameRing(curPlayers', activePlayers')
    BY <1>2, <2>1, <2>2, ShortKeepsRing
  <2> QED BY <2>1, <2>2, <2>3 DEF Orderly, OneRing, ActInOrder, EveryoneActed, Betting, BettingStates
<1>5. CASE Len(curPlayers) # 1 \/ curPlayer # bigBlind \/ act[bigBlind] # "AllIn"
  <2>1. /\ phase' = "Open" /\ state' = "PreFlop" /\ act' = act
        /\ curPlayers' = IF act[bigBlind] = "AllIn" THEN RemovePlayer(curPlayers, bigBlind)
                         ELSE curPlayers
        /\ curPlayer' = IF act[bigBlind] = "AllIn" /\ curPlayer = bigBlind
                        THEN NextOf(curPlayers, bigBlind) ELSE curPlayer
        /\ SameRing(curPlayers', activePlayers')
    BY <1>1, <1>2, <1>3, <1>5, BlindLeaves
  <2>2. /\ curPlayers' \in Seq(Seats) /\ Distinct(curPlayers')
        /\ \A s \in Members(curPlayers') : act'[s] = "FirstAction"
    BY <1>2, <1>3, <2>1, RemovePlayerKeeps
  <2>3. curPlayers'[1] = curPlayer' /\ Len(curPlayers') # 0
    <3>1. Len(curPlayers) \in Nat \ {0}
      BY <1>2, HeadIsMember
    <3>2. CASE act[bigBlind] # "AllIn" \/ bigBlind \notin Members(curPlayers)
      <4>1. curPlayers' = curPlayers /\ curPlayer' = curPlayer
        BY <1>2, <2>1, <3>2, RemovePlayerKeeps
      <4> QED BY <1>2, <3>1, <4>1
    <3>3. CASE act[bigBlind] = "AllIn" /\ bigBlind \in Members(curPlayers)
      <4>1. Len(curPlayers) # 1
        <5>1. Len(curPlayers) = 1 => curPlayer = bigBlind
          BY <1>2, <3>3, AloneInList
        <5> QED BY <1>5, <3>3, <5>1
      <4>2. Len(curPlayers') = Len(curPlayers) - 1
        BY <1>2, <2>1, <3>3, RemovePlayerKeeps
      <4>3. \A n \in Nat \ {0} : n # 1 => n - 1 # 0
        OBVIOUS
      <4>4. curPlayers'[1] = curPlayer'
        BY <1>2, <2>1, <3>1, <3>3, <4>1, HeadAfterRemove
      <4> QED BY <3>1, <4>1, <4>2, <4>3, <4>4
    <3> QED BY <3>2, <3>3
  <2>4. ActedInOrder(curPlayers', curPlayer', act')
    BY <2>2, <2>3, StreetInOrder
  <2> QED BY <2>1, <2>4 DEF Orderly, OneRing, ActInOrder, EveryoneActed
<1> QED BY <1>4, <1>5

\* The next street begins with the players who may bet.
LEMMA DealInOrder ==
  ASSUME TurnInv, DealStreet
  PROVE  Orderly'
<1>1. CASE NobodyStarts
  BY <1>1, StopInOrder DEF DealStreet, Panic
<1>2. CASE ~NobodyStarts
  <2>1. /\ phase' = "Open" /\ state' = "Rounds" /\ activePlayers' = activePlayers
        /\ curPlayers' = SetHead(curPlayers, PostFlopFirst) /\ curPlayer' = PostFlopFirst
        /\ act' = [s \in Seats |-> IF s \in Members(curPlayers) THEN "FirstAction" ELSE act[s]]
        /\ phase = "PostBetting"
    BY <1>2 DEF DealStreet, ReorderPostFlop
  <2>2. /\ PostFlopFirst \in Members(curPlayers) /\ curPlayers \in Seq(Seats) /\ Distinct(curPlayers)
        /\ SameRing(curPlayers, activePlayers) /\ Members(curPlayers) \subseteq Seats
    BY <2>1, FirstOfStreet, ListsKnown, MembersType DEF Following
  <2>3. /\ curPlayers' \in Seq(Seats) /\ Distinct(curPlayers')
        /\ Members(curPlayers') = Members(curPlayers) /\ curPlayers'[1] = curPlayer'
        /\ Len(curPlayers') # 0
    <3>1. /\ curPlayers' \in Seq(Seats) /\ Distinct(curPlayers')
          /\ Members(curPlayers') = Members(curPlayers) /\ curPlayers'[1] = curPlayer'
      BY <2>1, <2>2, SetHeadKeeps
    <3> QED BY <2>2, <3>1, AloneInList
  <2>4. SameRing(curPlayers', activePlayers')
    BY <2>1, <2>2, ShortKeepsRing
  <2>5. \A s \in Members(curPlayers') : act'[s] = "FirstAction"
    BY <2>1, <2>2, <2>3
  <2>6. ActedInOrder(curPlayers', curPlayer', act')
    BY <2>3, <2>5, StreetInOrder
  <2> QED BY <2>1, <2>4, <2>6 DEF Orderly, OneRing, ActInOrder, EveryoneActed
<1> QED BY <1>1, <1>2

\* From the end of a street to the end of the game the lists stay as they are.
LEMMA FinishInOrder ==
  ASSUME TurnInv, ShowDownEarly \/ RunOut \/ RiverDone \/ FinishByFolds \/ NoHandsLeft \/ ShowHands
                  \/ AwardSidePot \/ AwardDone \/ AbandonPots \/ AbandonToLast \/ AbandonToJoiner
                  \/ Eliminate \/ EliminationDone
  PROVE  Orderly'
<1>1. Following
  BY DEF Following, ShowDownEarly, RunOut, RiverDone, FinishByFolds, NoHandsLeft, ShowHands, AwardSidePot,
         AwardDone, AbandonPots, AbandonToLast, AbandonToJoiner, Eliminate, EliminationDone
<1> DEFINE Still == /\ UNCHANGED lists
                     /\ phase' \notin {"Open", "PostBetting", "BigBlindAllIn"}
<1>2. phase' = "Panicked" \/ Still
  <2>1. ShowDownEarly \/ RunOut \/ RiverDone => phase' = "Panicked" \/ Still
    BY DEF ShowDownEarly, RunOut, RiverDone, Panic
  <2>2. FinishByFolds \/ NoHandsLeft \/ ShowHands \/ AwardSidePot \/ AwardDone => phase' = "Panicked" \/ Still
    BY DEF FinishByFolds, WinByFolds, NoHandsLeft, ShowHands, AwardSidePot, AwardDone, Panic
  <2>3. AbandonPots \/ AbandonToLast \/ AbandonToJoiner \/ Eliminate \/ EliminationDone => phase' = "Panicked" \/ Still
    BY DEF AbandonPots, AbandonToLast, WinByFolds, AbandonToJoiner, Eliminate, EliminationDone, Panic
  <2> QED BY <2>1, <2>2, <2>3
<1> QED BY <1>1, <1>2, ListsKnown, StopInOrder, QuietInOrder

\* Who lost its last chips leaves the lists.
LEMMA RemovalInOrder ==
  ASSUME TurnInv, RemoveEliminated
  PROVE  Orderly'
<1> DEFINE p == FirstIn(activePlayers, Broke)
<1>1. /\ phase = "Eliminating" /\ phase' \in {"Eliminating", "Lost"}
      /\ IF numPlayers = 1 THEN curPlayers' = << >>
         ELSE /\ curPlayers' = RemovePlayer(curPlayers, p)
              /\ activePlayers' = RemovePlayer(activePlayers, p)
  BY DEF RemoveEliminated, Reset, Unseat, Unlist
<1>2. /\ activePlayers \in Seq(Seats) /\ Distinct(activePlayers)
      /\ curPlayers \in Seq(Seats) /\ Distinct(curPlayers)
      /\ Members(curPlayers) \subseteq Members(activePlayers)
      /\ SameRing(curPlayers, activePlayers)
  BY <1>1, ListsKnown DEF Following
<1> HIDE DEF p
<1>3. SameRing(curPlayers', activePlayers')
  <2>1. CASE numPlayers = 1
    <3>1. curPlayers' \in Seq(Seats) /\ Len(curPlayers') = 0
      BY <1>1, <2>1
    <3> QED BY <3>1, RingsAlike
  <2>2. CASE numPlayers # 1
    <3>1. /\ SameRing(curPlayers', activePlayers) /\ p \notin Members(curPlayers')
          /\ Members(curPlayers') \subseteq Members(activePlayers)
      BY <1>1, <1>2, <2>2, ShortKeepsRing, RemovePlayerKeeps
    <3> QED BY <1>1, <1>2, <2>2, <3>1, LongKeepsRing
  <2> QED BY <2>1, <2>2
<1> QED BY <1>1, <1>3 DEF Orderly, OneRing, ActInOrder, EveryoneActed, Betting

\* The game restarts with the one who won it.
LEMMA GameOverInOrder ==
  ASSUME TurnInv, GameOver
  PROVE  Orderly'
<1>1. PICK w \in winners : /\ Reset(w, curPlayers)
                           /\ phase' = IF w \in Members(activePlayers) THEN "Open" ELSE "Lost"
  BY DEF GameOver
<1>2. CASE w \notin Members(activePlayers)
  BY <1>1, <1>2, StopInOrder
<1>3. CASE w \in Members(activePlayers)
  <2>1. /\ phase = "GameOver" /\ activePlayers' = activePlayers
        /\ phase' = "Open" /\ state' = "NotStarted" /\ w \in Seats
    BY <1>1, <1>3, ListsKnown DEF GameOver, Reset, Following, TypeOK
  <2>2. /\ activePlayers \in Seq(Seats) /\ Len(activePlayers) = 1
        /\ curPlayers' = IF w = None THEN << >> ELSE << w >>
    BY <1>1, <2>1, ListsKnown DEF Following, Ending, Reset
  <2>3. curPlayers' = << w >>
    BY <2>1, <2>2, TableAssumption
  <2>4. activePlayers = << w >>
    <3>1. w = activePlayers[1]
      BY <1>3, <2>2, AloneInList
    <3> QED BY <2>2, <3>1
  <2>5. SameRing(activePlayers', activePlayers')
    BY <2>1, <2>2, RingsAlike
  <2> QED BY <2>1, <2>3, <2>4, <2>5 DEF Orderly, OneRing, ActInOrder, EveryoneActed, Betting, BettingStates
<1> QED BY <1>2, <1>3

\* No step at all.
LEMMA StutterInOrder ==
  ASSUME Orderly, UNCHANGED vars
  PROVE  Orderly'
<1>1. UNCHANGED << activePlayers, curPlayers, curPlayer, act, state, phase >>
  BY DEF vars, lists, players
<1> QED BY <1>1 DEF Orderly, Following, OneRing, ActInOrder, EveryoneActed, Betting,
                    BettingIsImpossible

\* Every step.
LEMMA StepInOrder ==
  ASSUME PausesInRounds, TurnInv, [Next]_vars
  PROVE  Orderly'
<1>1. ASSUME Request PROVE Orderly'
  <2>1. ASSUME NEW p \in Seats, LeaveLast(p) PROVE Orderly'
    BY <2>1, ListsKnown, LeaveLastInOrder DEF LeaveLast, Following
  <2> QED BY <1>1, <2>1, TurnInOrder, JoinInOrder, LeaveInOrder, StartInOrder DEF Request
<1>2. ASSUME Flow PROVE Orderly'
  BY <1>2, NewRoundInOrder, BlindsInOrder, SmallBlindInOrder, BigBlindInOrder, DealInOrder,
     FinishInOrder, RemovalInOrder, GameOverInOrder DEF Flow
<1>3. ASSUME UNCHANGED vars PROVE Orderly'
  <2>1. Orderly
    BY DEF TurnInv, Orderly
  <2> QED BY <1>3, <2>1, StutterInOrder
<1> QED BY <1>1, <1>2, <1>3 DEF Next

\* The parts together.
LEMMA StepKeepsTurns ==
  ASSUME PausesInRounds, TurnInv, [Next]_vars
  PROVE  TurnInv'
<1>1. IInv /\ Posted
  BY DEF TurnInv
<1>2. IInv'
  BY <1>1, NextKeeps
<1>3. Posted'
  <2>1. CASE UNCHANGED vars
    <3>1. UNCHANGED << act, activePlayers, curPlayers, curPlayer, state, phase >>
      BY <2>1 DEF vars, players, lists
    <3> QED BY <1>1, <3>1 DEF Posted
  <2> QED BY <1>1, <2>1, RequestAtRiver, FlowAtRiver DEF Next
<1>4. Orderly'
  BY StepInOrder
<1> QED BY <1>2, <1>3, <1>4 DEF TurnInv, Orderly

\* The initial states.
LEMMA InitTurns == Init => TurnInv
<1> SUFFICES ASSUME Init PROVE TurnInv
  OBVIOUS
<1>1. /\ phase = "Open" /\ state = "NotStarted" /\ curPlayers = << >> /\ activePlayers = << >>
  BY DEF Init
<1>2. SameRing(curPlayers, activePlayers)
  <2>1. curPlayers \in Seq(Seats) /\ Len(curPlayers) = 0
    BY <1>1
  <2> QED BY <2>1, RingsAlike
<1>3. IInv /\ Posted
  BY <1>1, InitKeeps DEF Posted
<1> QED BY <1>1, <1>2, <1>3 DEF TurnInv, OneRing, ActInOrder, EveryoneActed, Betting, BettingStates

\* The inductive invariant with the order of the lists.
THEOREM AlwaysTurnInv ==
  ASSUME PausesInRounds
  PROVE  Spec => []TurnInv
<1>1. TurnInv /\ [Next]_vars => TurnInv'
  BY StepKeepsTurns
<1> QED BY <1>1, InitTurns, PTL DEF Spec

-----------------------------------------------------------------------------
(* What the order of the lists is for.                                     *)

\* Lists that go around the table alike have the players in its order.
LEMMA ListsAreOrdered ==
  ASSUME activePlayers \in Seq(Seats), Distinct(activePlayers),
         curPlayers \in Seq(Seats), Distinct(curPlayers),
         Members(curPlayers) \subseteq Members(activePlayers),
         SameRing(curPlayers, activePlayers)
  PROVE  RingOrder
<1>1. ASSUME NEW p \in Members(curPlayers)
      PROVE  NextOf(curPlayers, p) = NextAround(p, Members(curPlayers))
  BY RingNext DEF NextAround
<1> QED BY <1>1 DEF RingOrder

\* The lists of the invariant do.
LEMMA RingIsOrdered ==
  ASSUME TurnInv
  PROVE  RingOrder
<1>1. Following => RingOrder
  BY ListsKnown, ListsAreOrdered
<1> QED BY <1>1 DEF RingOrder

\* curPlayers is the ring of active players without those who do not bet:
\* heads set by raises, removals by folds, all-ins and departures, and the
\* reordering for a new street never permute it.
THEOREM AlwaysRingOrder ==
  ASSUME PausesInRounds
  PROVE  Spec => []RingOrder
  BY RingIsOrdered, AlwaysTurnInv, PTL

\* A street is over only when everybody who still bets has acted in it.
THEOREM AlwaysEveryoneActed ==
  ASSUME PausesInRounds
  PROVE  Spec => []EveryoneActed
<1>1. TurnInv => EveryoneActed
  BY DEF TurnInv
<1> QED BY <1>1, AlwaysTurnInv, PTL

\* The next in any list that goes around the table with those who may bet.
LEMMA NextOfRing ==
  ASSUME TurnInv, TurnInv', Betting, Betting',
         NEW cur \in Seq(Seats), Distinct(cur), Members(cur) \subseteq Members(curPlayers),
         SameRing(cur, activePlayers), curPlayer \in Members(cur),
         Members(cur) \ {curPlayer} \subseteq Members(curPlayers'),
         Members(curPlayers') \subseteq Members(cur)
  PROVE  NextOf(cur, curPlayer) = NextAround(curPlayer, Eligible(act'))
<1>1. /\ activePlayers \in Seq(Seats) /\ Distinct(activePlayers)
      /\ Members(curPlayers) \subseteq Members(activePlayers)
  BY ListsKnown DEF Betting, Following
<1>2. Members(curPlayers') = Eligible(act') /\ curPlayer' \in Members(curPlayers')
  BY DEF TurnInv, IInv, Betting, Following, Waiting, BettingStates
<1> QED BY <1>1, <1>2, RingNext DEF NextAround

\* A step from one wait for a player to another.
LEMMA StepPassesTurn ==
  ASSUME TurnInv, TurnInv', [Next]_vars
  PROVE  [Betting /\ Betting' /\ curPlayer' # curPlayer =>
            curPlayer' = NextAround(curPlayer, Eligible(act'))]_vars
<1>0. TurnInv /\ TurnInv' /\ [Next]_vars
  OBVIOUS
<1> SUFFICES ASSUME Next, Betting, Betting', curPlayer' # curPlayer
             PROVE  curPlayer' = NextAround(curPlayer, Eligible(act'))
  BY <1>0
<1>1. /\ phase = "Open" /\ phase' = "Open" /\ state \in BettingStates /\ state' \in BettingStates
      /\ state # "NotStarted" /\ state' # "NotStarted"
      /\ PhaseAfter(state') = "Open" /\ Following
  BY <1>0, ListsKnown DEF Betting, BettingStates, PhaseAfter, Following
<1>2. /\ curPlayers \in Seq(Seats) /\ Distinct(curPlayers) /\ SameRing(curPlayers, activePlayers)
      /\ curPlayer \in Members(curPlayers) /\ act \in [Seats -> Actions]
      /\ Members(curPlayers) \subseteq Members(activePlayers)
  BY <1>0, <1>1, ListsKnown DEF Waiting
<1>3. ASSUME NEW p \in Seats, Turn(p)
      PROVE  curPlayer' = NextAround(curPlayer, Eligible(act'))
  <2>1. ~Panic
    BY <1>1 DEF Panic
  <2>2. PICK kind \in {"AllIn", "Bet", "Call", "Check", "Fold"},
             cur \in {curPlayers, SetHead(curPlayers, p)}, st \in BettingStates :
          MayAct(p) /\ \E P : EndTurn([act EXCEPT ![p] = kind], cur, st, P)
    BY <1>3, <2>1, ActionEndsTurn
  <2>3. PICK P : EndTurn([act EXCEPT ![p] = kind], cur, st, P)
    BY <2>2
  <2> DEFINE a == [act EXCEPT ![p] = kind]
             t == SetNextPlayerTurn(a, cur, st, P)
  <2>4. curPlayers' = t.cur /\ curPlayer' = t.curPlayer /\ state' = t.state /\ p = curPlayer
    BY <2>2, <2>3 DEF EndTurn, MayAct
  <2>5. /\ cur \in Seq(Seats) /\ Distinct(cur) /\ Members(cur) = Members(curPlayers)
        /\ SameRing(cur, activePlayers)
    <3>1. CASE cur = curPlayers
      BY <1>2, <3>1
    <3>2. CASE cur = SetHead(curPlayers, p)
      BY <1>2, <2>4, <3>2, SetHeadKeeps, ShortKeepsRing
    <3> QED BY <3>1, <3>2
  <2> HIDE DEF a
  <2>6. t = SetNextPlayerTurn(a, cur, st, P)
    OBVIOUS
  <2> HIDE DEF t
  <2>7. Len(cur) # 1 /\ t.cur = Left(a, cur, curPlayer) /\ t.curPlayer = NextOf(cur, curPlayer)
    <3>1. state' \notin {"RoundOver", "DoneBetting"}
      BY <1>1 DEF BettingStates
    <3> QED BY <1>2, <2>4, <2>5, <2>6, <3>1, TurnGoesOn
  <2>8. /\ Members(cur) \ {curPlayer} \subseteq Members(curPlayers')
        /\ Members(curPlayers') \subseteq Members(cur)
    BY <2>4, <2>5, <2>7, RemovePlayerKeeps DEF Left
  <2> QED BY <1>0, <1>2, <2>4, <2>5, <2>7, <2>8, NextOfRing
<1>4. ASSUME NEW p \in Seats, Leave(p)
      PROVE  curPlayer' = NextAround(curPlayer, Eligible(act'))
  <2> DEFINE a == [act EXCEPT ![p] = "Fold"]
             t == SetNextPlayerTurn(a, curPlayers, state, pots)
  <2>1. /\ curPlayer = p /\ curPlayer' = t.curPlayer /\ state' = t.state
        /\ curPlayers' = RemovePlayer(t.cur, p)
    BY <1>4 DEF Leave, Unseat, Unlist
  <2>2. a[p] = "Fold"
    BY <1>2
  <2> HIDE DEF a
  <2>3. t = SetNextPlayerTurn(a, curPlayers, state, pots)
    OBVIOUS
  <2> HIDE DEF t
  <2>4. t.cur = RemovePlayer(curPlayers, p) /\ t.curPlayer = NextOf(curPlayers, p)
    <3>1. state' \notin {"RoundOver", "DoneBetting"}
      BY <1>1 DEF BettingStates
    <3>2. t.cur = Left(a, curPlayers, p) /\ t.curPlayer = NextOf(curPlayers, p)
      BY <1>1, <1>2, <2>1, <2>3, <3>1, TurnGoesOn
    <3> QED BY <2>2, <3>2 DEF Left
  <2>5. Members(curPlayers') = Members(curPlayers) \ {p}
    BY <1>2, <2>1, <2>4, RemovePlayerKeeps
  <2> QED BY <1>0, <1>2, <2>1, <2>4, <2>5, NextOfRing
<1>5. ASSUME NEW p \in Seats, Join(p) PROVE FALSE
  <2>1. curPlayer # None
    BY <1>2, MembersType, TableAssumption
  <2> QED BY <1>5, <2>1 DEF Join
<1>6. ASSUME NEW p \in Seats, LeaveLast(p) PROVE FALSE
  BY <1>1, <1>6 DEF LeaveLast, Reset
<1>7. ASSUME StartGame PROVE FALSE
  BY <1>1, <1>7 DEF StartGame
<1>8. ASSUME Flow PROVE FALSE
  BY <1>1, <1>8 DEF Flow, NewRound, Blinds, SmallBlindAllIn, BigBlindAllIn, BlindAllIn, ShowDownEarly,
                    RunOut, RiverDone, DealStreet, FinishByFolds, NoHandsLeft, ShowHands, AwardSidePot,
                    AwardDone, AbandonPots, AbandonToLast, AbandonToJoiner, Eliminate,
                    RemoveEliminated, EliminationDone, GameOver
<1> QED BY <1>3, <1>4, <1>5, <1>6, <1>7, <1>8 DEF Next, Request

\* The turn passes to the next player around the table who may bet.
THEOREM AlwaysTurnPasses ==
  ASSUME PausesInRounds
  PROVE  Spec => TurnPasses
<1> DEFINE Passes == Betting /\ Betting' /\ curPlayer' # curPlayer =>
                       curPlayer' = NextAround(curPlayer, Eligible(act'))
<1>1. TurnInv /\ TurnInv' /\ [Next]_vars => [Passes]_vars
  BY StepPassesTurn
<1> QED BY <1>1, AlwaysTurnInv, PTL DEF Spec, TurnPasses
=============================================================================
