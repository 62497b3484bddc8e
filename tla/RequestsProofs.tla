--------------------------- MODULE RequestsProofs ---------------------------
(***************************************************************************)
(* With requests that race for the room lock, for any seats, stacks, bets, *)
(* number of rounds and number of late actions: the lists keep the order   *)
(* of the table, who joins during a hand stays out of it, and only a late  *)
(* start leaves a player alone in a game.  A hand is followed street by    *)
(* street; between the streets the invariant of module TurnProofs holds.   *)
(***************************************************************************)
EXTENDS Requests, TurnProofs

-----------------------------------------------------------------------------
(* The lists in a street.                                                  *)

\* A list within a list of one player has one player at most.
LEMMA ListOfOne ==
  ASSUME NEW long \in Seq(Seats), Len(long) = 1,
         NEW short \in Seq(Seats), Distinct(short), Members(short) \subseteq Members(long)
  PROVE  Len(short) \in {0, 1}
<1>1. Members(long) = {long[1]}
  BY AloneInList
<1>2. Len(short) \in Nat
  OBVIOUS
<1>3. ASSUME Len(short) \notin {0, 1} PROVE FALSE
  <2>1. 1 \in 1 .. Len(short) /\ 2 \in 1 .. Len(short)
    BY <1>2, <1>3
  <2>2. short[1] \in Members(short) /\ short[2] \in Members(short)
    BY <2>1 DEF Members
  <2>3. short[1] = short[2]
    BY <1>1, <2>2
  <2> QED BY <2>1, <2>3, DistinctPositions
<1> QED BY <1>3

\* What is known in a street.
LEMMA StreetKnown ==
  ASSUME TypeOK, InStreet, Street
  PROVE  /\ Following /\ Seated /\ commState # "NotStarted" /\ state # "NotStarted"
         /\ activePlayers \in Seq(Seats) /\ Distinct(activePlayers)
         /\ curPlayers \in Seq(Seats) /\ Distinct(curPlayers)
         /\ Members(curPlayers) \subseteq Members(activePlayers)
         /\ Members(activePlayers) = Occupied(act) /\ Members(activePlayers) \subseteq Seats
         /\ numPlayers = Len(activePlayers) /\ numPlayers \in Nat
         /\ SameRing(curPlayers, activePlayers)
         /\ act \in [Seats -> Actions]
<1>1. Following
  BY DEF InStreet, Following
<1>2. state # "NotStarted"
  BY DEF Street, BettingStates
<1>3. Seated
  BY DEF Street
<1> QED BY <1>1, <1>2, <1>3 DEF Street, Seated, TypeOK, Occupied

\* Between requests served in turn, the lists are those of TurnProofs.
LEMMA StreetOfTurns ==
  ASSUME TurnInv, InStreet
  PROVE  Street
<1>1. Following
  BY DEF InStreet, Following
<1>2. /\ TypeOK /\ Seated /\ Dealt /\ Waiting /\ Ending /\ Posted
      /\ SameRing(curPlayers, activePlayers)
  BY <1>1, ListsKnown DEF IInv
<1>3. commState # "NotStarted"
  BY <1>2 DEF Dealt, InStreet
<1>4. /\ state \in BettingStates \cup {"DoneBetting"}
      /\ phase = "PostBetting" => state = "DoneBetting"
  BY <1>2 DEF Waiting, Ending, InStreet
<1>5. phase = "Open" /\ state = "DoneBetting" => curPlayers = << >>
  BY <1>2 DEF Posted
<1>6. Betting => curPlayer \in Members(curPlayers)
  BY <1>2 DEF Waiting, Betting
<1>7. StillBets => Members(curPlayers) = Eligible(act)
  BY <1>2 DEF StillBets, Waiting, Ending, Betting, BettingStates
<1>8. StillBets => \A s \in Members(curPlayers) : act[s] # "MidroundAddition"
  BY <1>7 DEF Eligible
<1> QED BY <1>2, <1>3, <1>4, <1>5, <1>6, <1>8 DEF Street

\* Only the seats of those who come and of those who go change between a
\* player who waits for the next hand and another one.
JoinersStay ==
  \A s \in Seats : act'[s] # act[s] =>
    "VacantSeat" \in {act[s], act'[s]} \/ "MidroundAddition" \notin {act[s], act'[s]}

\* What has to be shown of a step in a street.
StreetGoesOn ==
  /\ TypeOK'
  /\ Following' => /\ IF InStreet' THEN Street' ELSE TurnInv'
                   /\ FirstRound' /\ AloneOnlyByLateStart'
                   /\ StillBets' => StillBets
  /\ JoinersStay

\* The server stops.
LEMMA StopGoesOn ==
  ASSUME TypeOK, Panic
  PROVE  StreetGoesOn
<1>1. TypeOK'
  BY DEF Panic, TypeOK, players, lists, buttons, levels, finish
<1> QED BY <1>1 DEF Panic, Following, StreetGoesOn, JoinersStay, players

\* A street is over, and so is the betting of the hand.
LEMMA StreetOver ==
  ASSUME TypeOK', Seated', commState' # "NotStarted", SameRing(curPlayers', activePlayers'),
         phase' \in {"FinishRound", "RunOut", "Abandoned"},
         phase' = "Abandoned" => Len(activePlayers') = 1,
         phase' = "RunOut" => state' # "NotStarted",
         JoinersStay
  PROVE  StreetGoesOn
<1>1. Dealt' /\ Waiting' /\ Posting' /\ Ending'
  BY DEF Dealt, Waiting, Posting, Ending
<1>2. IInv'
  BY <1>1 DEF IInv
<1>3. Posted' /\ EveryoneActed'
  BY DEF Posted, EveryoneActed
<1>4. OneRing' /\ ActInOrder'
  BY DEF OneRing, ActInOrder, Betting
<1>5. TurnInv'
  BY <1>2, <1>3, <1>4 DEF TurnInv
<1>6. ~InStreet' /\ FirstRound' /\ ~Betting' /\ ~StillBets'
  BY DEF InStreet, FirstRound, Betting, StillBets
<1> QED BY <1>5, <1>6 DEF StreetGoesOn, AloneOnlyByLateStart

-----------------------------------------------------------------------------
(* Steps in a street.                                                      *)

\* A turn that ends takes nobody off the betting list but its player.
LEMMA TurnList ==
  ASSUME NEW a, NEW cur, NEW st, NEW P
  PROVE  SetNextPlayerTurn(a, cur, st, P).cur \in {cur, RemovePlayer(cur, curPlayer)}
<1>1. CASE a[curPlayer] = "AllIn"
  BY <1>1 DEF SetNextPlayerTurn, DropFolded
<1>2. CASE a[curPlayer] # "AllIn"
  BY <1>2 DEF SetNextPlayerTurn, DropFolded
<1> QED BY <1>1, <1>2

\* The turn ends with an action of any player who takes part in the hand.
LEMMA TurnGoesRound ==
  ASSUME TypeOK, InStreet, Street, Betting, NEW p \in Seats,
         act[p] \notin {"VacantSeat", "MidroundAddition"},
         NEW kind \in {"AllIn", "Bet", "Call", "Check", "Fold"},
         NEW cur \in {curPlayers, SetHead(curPlayers, curPlayer)}, NEW st \in BettingStates,
         NEW P \in AllPots, EndTurn([act EXCEPT ![p] = kind], cur, st, P),
         amt' \in [Seats -> Chips], chips' \in [Seats -> Chips], bet' \in Chips
  PROVE  StreetGoesOn
<1> DEFINE a == [act EXCEPT ![p] = kind]
<1>1. /\ Seated /\ commState # "NotStarted"
      /\ activePlayers \in Seq(Seats) /\ curPlayers \in Seq(Seats) /\ Distinct(curPlayers)
      /\ Members(curPlayers) \subseteq Members(activePlayers)
      /\ SameRing(curPlayers, activePlayers) /\ act \in [Seats -> Actions]
  BY StreetKnown
<1>2. /\ curPlayer \in Members(curPlayers)
      /\ \A s \in Members(curPlayers) : act[s] # "MidroundAddition"
  BY DEF Street, StillBets
<1>3. /\ cur \in Seq(Seats) /\ Distinct(cur) /\ Members(cur) = Members(curPlayers)
      /\ SameRing(cur, activePlayers)
  BY <1>1, <1>2, SetHeadKeeps, ShortKeepsRing
<1>4. /\ a \in [Seats -> Actions] /\ Occupied(a) = Occupied(act)
      /\ \A s \in Seats : a[s] = act[s] \/ (s = p /\ a[s] \notin {"VacantSeat", "MidroundAddition"})
  BY <1>1 DEF Actions, Occupied
<1>5. EndTurn(a, cur, st, P)
  OBVIOUS
<1> HIDE DEF a
<1>6. /\ TypeOK' /\ Seated' /\ act' = a
      /\ Members(curPlayers') \subseteq Members(curPlayers)
      /\ phase' \in {"Open", "PostBetting", "FinishRound"}
      /\ phase' = "Open" => state' = st /\ Len(cur) # 1 /\ curPlayer' \in Members(curPlayers')
      /\ phase' = "PostBetting" => state' = "DoneBetting"
      /\ activePlayers' = activePlayers /\ commState' = commState
  BY <1>1, <1>2, <1>3, <1>4, <1>5, EndTurnSeats
<1>7. SameRing(curPlayers', activePlayers')
  <2>1. curPlayers' \in {cur, RemovePlayer(cur, curPlayer)}
    BY <1>5, TurnList DEF EndTurn
  <2> QED BY <1>3, <1>6, <2>1, ShortKeepsRing
<1>8. JoinersStay
  BY <1>4, <1>6 DEF JoinersStay
<1>9. CASE phase' = "FinishRound"
  BY <1>1, <1>6, <1>7, <1>8, <1>9, StreetOver
<1>10. CASE phase' \in {"Open", "PostBetting"}
  <2>1. state' # "NotStarted" /\ (phase' = "Open" => state' \in BettingStates)
    BY <1>6, <1>10 DEF BettingStates
  <2>2. InStreet' /\ FirstRound'
    BY <1>10, <2>1 DEF InStreet, FirstRound
  <2>3. \A s \in Members(curPlayers') : act'[s] # "MidroundAddition"
    <3>1. Members(curPlayers) \subseteq Seats
      BY <1>1, MembersType
    <3> QED BY <1>2, <1>4, <1>6, <3>1
  <2>4. Street'
    BY <1>1, <1>6, <1>7, <1>10, <2>1, <2>3 DEF Street, Betting, BettingStates
  <2>5. ~(Betting' /\ Len(activePlayers') = 1)
    <3> SUFFICES ASSUME phase' = "Open", Len(activePlayers) = 1 PROVE FALSE
      BY <1>6 DEF Betting
    <3>1. Len(cur) \in {0, 1}
      BY <1>1, <1>3, ListOfOne
    <3>2. Len(cur) # 0
      BY <1>2, <1>3, AloneInList
    <3> QED BY <1>6, <3>1, <3>2
  <2>6. StillBets
    BY DEF StillBets
  <2> QED BY <1>6, <1>8, <2>2, <2>4, <2>5, <2>6 DEF StreetGoesOn, AloneOnlyByLateStart
<1> QED BY <1>6, <1>9, <1>10

\* A player takes its turn.
LEMMA TurnInStreet ==
  ASSUME TypeOK, InStreet, Street, Betting => curPlayer \in Eligible(act),
         NEW p \in Seats, Turn(p)
  PROVE  StreetGoesOn
<1>1. MayAct(p)
  BY DEF Turn, AllIn, Bet, Call, Check, Fold
<1>2. Betting /\ p = curPlayer
  BY <1>1 DEF MayAct, Betting
<1>3. p \in Eligible(act) /\ p \in Members(curPlayers)
  BY <1>2 DEF Street
<1>4. curPlayers \in Seq(Seats) /\ Distinct(curPlayers)
  BY StreetKnown
<1>5. p \in NonFolded(act) /\ act[p] \notin {"VacantSeat", "MidroundAddition"}
  BY <1>3 DEF Eligible, NonFolded
<1>6. ActorReady(p)
  BY <1>1, <1>3, <1>4, <1>5 DEF ActorReady, PlayersType, TypeOK, MayAct
<1>7. CASE Panic
  BY <1>7, StopGoesOn
<1>8. CASE ~Panic
  <2>1. PICK kind \in {"AllIn", "Bet", "Call", "Check", "Fold"},
             cur \in {curPlayers, SetHead(curPlayers, p)}, st \in BettingStates, P \in AllPots :
          EndTurn([act EXCEPT ![p] = kind], cur, st, P)
    BY <1>6, <1>8, ActionTyped DEF TurnTyped
  <2>2. amt' \in [Seats -> Chips] /\ chips' \in [Seats -> Chips] /\ bet' \in Chips
    BY <1>6, <1>8, ActionTyped DEF TurnTyped
  <2> QED BY <1>2, <1>5, <2>1, <2>2, TurnGoesRound
<1> QED BY <1>7, <1>8

\* A player sits down during the hand.
LEMMA JoinInStreet ==
  ASSUME PausesInRounds, TypeOK, InStreet, Street, NEW p \in Seats, Join(p)
  PROVE  StreetGoesOn
<1>1. /\ Seated /\ commState # "NotStarted" /\ state # "NotStarted"
      /\ activePlayers \in Seq(Seats) /\ Distinct(activePlayers)
      /\ curPlayers \in Seq(Seats) /\ Distinct(curPlayers)
      /\ Members(curPlayers) \subseteq Members(activePlayers)
      /\ SameRing(curPlayers, activePlayers) /\ act \in [Seats -> Actions]
  BY StreetKnown
<1>2. /\ TypeOK' /\ Seated'
      /\ act' = [act EXCEPT ![p] = "MidroundAddition"]
      /\ act[p] = "VacantSeat" /\ p \notin Members(activePlayers)
      /\ activePlayers' = AddPlayer(activePlayers, p)
      /\ Len(activePlayers') = Len(activePlayers) + 1
      /\ curPlayers' = curPlayers
      /\ curPlayer \in Members(curPlayers) => curPlayer' = curPlayer
      /\ state' = state /\ commState' = commState /\ phase' = phase
  BY <1>1, JoinSeats
<1>3. SameRing(curPlayers', activePlayers')
  BY <1>1, <1>2, LongKeepsRing
<1>4. JoinersStay
  BY <1>1, <1>2 DEF JoinersStay
<1>5. (InStreet' <=> InStreet) /\ (Betting' <=> Betting) /\ (StillBets' <=> StillBets)
  BY <1>2 DEF InStreet, Betting, StillBets, BettingIsImpossible
<1>6. StillBets => \A s \in Members(curPlayers) : act'[s] # "MidroundAddition"
  <2>1. StillBets => \A s \in Members(curPlayers) : act[s] # "MidroundAddition"
    BY DEF Street
  <2>2. p \notin Members(curPlayers) /\ Members(curPlayers) \subseteq Seats
    BY <1>1, <1>2, MembersType
  <2> QED BY <1>1, <1>2, <2>1, <2>2
<1>7. Street'
  BY <1>2, <1>3, <1>5, <1>6 DEF Street
<1>8. FirstRound'
  BY <1>1, <1>2 DEF FirstRound, InStreet
<1>9. ~(Betting' /\ Len(activePlayers') = 1)
  <2> SUFFICES ASSUME Betting, Len(activePlayers) + 1 = 1 PROVE FALSE
    BY <1>2, <1>5
  <2>1. Len(activePlayers) = 0
    BY <1>1
  <2>2. Members(activePlayers) = {} /\ curPlayer \in Members(curPlayers)
    BY <1>1, <2>1, AloneInList DEF Street
  <2> QED BY <1>1, <2>2
<1> QED BY <1>2, <1>4, <1>5, <1>7, <1>8, <1>9 DEF StreetGoesOn, AloneOnlyByLateStart

\* A player leaves during the hand, in turn or out of it.
LEMMA LeaveInStreet ==
  ASSUME TypeOK, InStreet, Street, NEW p \in Seats, Leave(p)
  PROVE  StreetGoesOn
<1>1. /\ Seated /\ commState # "NotStarted" /\ state # "NotStarted"
      /\ activePlayers \in Seq(Seats) /\ Distinct(activePlayers)
      /\ curPlayers \in Seq(Seats) /\ Distinct(curPlayers)
      /\ Members(curPlayers) \subseteq Members(activePlayers)
      /\ SameRing(curPlayers, activePlayers) /\ act \in [Seats -> Actions]
  BY StreetKnown
<1>2. /\ state \in BettingStates \cup {"DoneBetting"}
      /\ state = "DoneBetting" => curPlayers = << >>
      /\ Betting => curPlayer \in Members(curPlayers)
      /\ StillBets => \A s \in Members(curPlayers) : act[s] # "MidroundAddition"
  BY DEF Street, Leave
<1>3. /\ TypeOK' /\ Seated'
      /\ numPlayers = Len(activePlayers) /\ numPlayers > 1 /\ phase = "Open"
      /\ p \in Members(activePlayers)
      /\ Members(activePlayers') = Members(activePlayers) \ {p}
      /\ Len(activePlayers') = Len(activePlayers) - 1
      /\ Members(curPlayers') = Members(curPlayers) \ {p}
      /\ \A s \in Seats \ {p} : act'[s] = act[s]
      /\ act'[p] = "VacantSeat"
      /\ phase' = IF numPlayers > 2 THEN PhaseAfter(state') ELSE "Abandoned"
      /\ state' \in {state, "RoundOver", "DoneBetting"}
      /\ state' = state /\ state \in BettingStates /\ curPlayer \in Members(curPlayers)
           => curPlayer' \in Members(curPlayers')
      /\ commState' = commState
  BY <1>1, <1>2, LeaveSeats
<1>4. SameRing(curPlayers', activePlayers')
  <2>1. PICK cur : /\ cur \in {curPlayers, RemovePlayer(curPlayers, curPlayer)}
                   /\ curPlayers' = RemovePlayer(cur, p)
                   /\ activePlayers' = RemovePlayer(activePlayers, p)
    <3> DEFINE inTurn == Len(activePlayers) > 1 /\ curPlayer = p
               a == IF inTurn THEN [act EXCEPT ![p] = "Fold"] ELSE act
               t == IF inTurn THEN SetNextPlayerTurn(a, curPlayers, state, pots)
                    ELSE [cur |-> curPlayers, curPlayer |-> curPlayer, state |-> state, pots |-> pots]
    <3>1. Unseat(p, a, t.cur)
      BY DEF Leave
    <3>2. t.cur \in {curPlayers, RemovePlayer(curPlayers, curPlayer)}
      BY TurnList
    <3> HIDE DEF t, a
    <3> QED BY <3>1, <3>2 DEF Unseat, Unlist
  <2>2. cur \in Seq(Seats) /\ Distinct(cur) /\ SameRing(cur, activePlayers)
    BY <1>1, <2>1, RemovePlayerKeeps, ShortKeepsRing
  <2>3. SameRing(curPlayers', activePlayers)
    BY <2>1, <2>2, ShortKeepsRing
  <2>4. p \notin Members(curPlayers') /\ Members(curPlayers') \subseteq Members(activePlayers)
    BY <1>1, <1>3
  <2> QED BY <1>1, <2>1, <2>3, <2>4, LongKeepsRing
<1>5. JoinersStay
  BY <1>3 DEF JoinersStay
<1>6. numPlayers \in Nat
  BY DEF TypeOK
<1>7. CASE phase' \in {"Abandoned", "FinishRound"}
  <2>1. phase' = "Abandoned" => Len(activePlayers') = 1
    BY <1>3, <1>6 DEF PhaseAfter
  <2> QED BY <1>1, <1>3, <1>4, <1>5, <1>7, <2>1, StreetOver
<1>8. CASE phase' \notin {"Abandoned", "FinishRound"}
  <2>1. numPlayers > 2 /\ phase' = PhaseAfter(state')
    BY <1>3, <1>8
  <2>2. /\ phase' \in {"Open", "PostBetting"}
        /\ phase' = "PostBetting" => state' = "DoneBetting"
        /\ phase' = "Open" => state' = state /\ state \in BettingStates
    BY <1>2, <1>3, <1>8, <2>1 DEF PhaseAfter
  <2>3. InStreet' /\ FirstRound'
    BY <2>2 DEF InStreet, FirstRound, BettingStates
  <2>4. Betting' => Betting /\ curPlayer' \in Members(curPlayers')
    BY <1>2, <1>3, <2>2 DEF Betting
  <2>5. StillBets' => StillBets
    <3>1. state = "DoneBetting" => Members(curPlayers) = {}
      BY <1>1, <1>2, AloneInList
    <3>2. state = "DoneBetting" => curPlayers' \in Seq(Seats) /\ Members(curPlayers') = {}
      BY <1>3, <3>1 DEF TypeOK
    <3>3. state = "DoneBetting" => Len(curPlayers') = 0
      BY <3>2, AloneInList
    <3>4. state = "DoneBetting" => BettingIsImpossible' /\ ~Betting'
      <4>1. 0 < 2
        OBVIOUS
      <4> QED BY <2>4, <3>3, <4>1 DEF BettingIsImpossible, Betting, BettingStates
    <3>5. state # "DoneBetting" => Betting
      BY <1>2, <1>3 DEF Betting
    <3> QED BY <3>4, <3>5 DEF StillBets
  <2>6. StillBets' => \A s \in Members(curPlayers') : act'[s] # "MidroundAddition"
    BY <1>1, <1>2, <1>3, <2>5, MembersType
  <2>7. Street'
    BY <1>1, <1>3, <1>4, <2>2, <2>4, <2>6 DEF Street, BettingStates
  <2>8. Len(activePlayers') # 1
    BY <1>3, <1>6, <2>1
  <2> QED BY <1>3, <1>5, <2>3, <2>5, <2>7, <2>8 DEF StreetGoesOn, AloneOnlyByLateStart
<1> QED BY <1>7, <1>8

\* The last player leaves the hand.
LEMMA LeaveLastInStreet ==
  ASSUME TypeOK, InStreet, Street, NEW p \in Seats, LeaveLast(p)
  PROVE  StreetGoesOn
<1>1. Seated
  BY DEF Street
<1>2. /\ IInv' /\ phase' = "Open" /\ state' = "NotStarted" /\ roundCount' = 0
      /\ Orderly'
  BY <1>1, LastLeaves, LeaveLastInOrder
<1>3. TurnInv'
  BY <1>2 DEF TurnInv, Orderly, Posted
<1>4. /\ ~InStreet' /\ ~Betting' /\ ~StillBets' /\ FirstRound'
  BY <1>2 DEF InStreet, Betting, StillBets, BettingStates, FirstRound
<1>5. JoinersStay
  <2>1. act' = [s \in Seats |-> IF s = None THEN "FirstAction" ELSE "VacantSeat"]
    BY DEF LeaveLast, Reset
  <2> QED BY <2>1, TableAssumption DEF JoinersStay
<1> QED BY <1>2, <1>3, <1>4, <1>5 DEF StreetGoesOn, AloneOnlyByLateStart, IInv

\* The street is over: the rest is dealt, or the hand is over, too.
LEMMA RestInStreet ==
  ASSUME TypeOK, InStreet, Street, ShowDownEarly \/ RiverDone
  PROVE  StreetGoesOn
<1>1. CASE Panic
  BY <1>1, StopGoesOn
<1>2. CASE ~Panic
  <2>1. /\ UNCHANGED << players, lists, curPlayer, buttons, levels, bet, commState, pots, finish >>
        /\ phase' \in {"RunOut", "FinishRound"} /\ phase = "PostBetting"
        /\ state' \in {state, "RoundOver"} /\ (phase' = "RunOut" => state' = state)
    BY <1>2 DEF ShowDownEarly, RiverDone
  <2>2. /\ Seated /\ commState # "NotStarted" /\ state # "NotStarted"
        /\ SameRing(curPlayers, activePlayers)
    BY StreetKnown
  <2>3. TypeOK'
    BY <2>1 DEF TypeOK, players, lists, buttons, levels, finish, States, FlowPhases
  <2>4. Seated' /\ SameRing(curPlayers', activePlayers') /\ commState' # "NotStarted"
    BY <2>1, <2>2, SeatedStays DEF players, lists, levels
  <2>5. JoinersStay
    BY <2>1 DEF JoinersStay, players
  <2> QED BY <2>1, <2>2, <2>3, <2>4, <2>5, StreetOver
<1> QED BY <1>1, <1>2

\* The next street begins with those who are in the betting list.
LEMMA DealInStreet ==
  ASSUME TypeOK, InStreet, Street, DealStreet
  PROVE  StreetGoesOn
<1>1. CASE NobodyStarts
  BY <1>1, StopGoesOn DEF DealStreet
<1>2. CASE ~NobodyStarts
  <2>1. /\ Seated /\ commState # "NotStarted"
        /\ activePlayers \in Seq(Seats) /\ Distinct(activePlayers)
        /\ curPlayers \in Seq(Seats) /\ Distinct(curPlayers)
        /\ Members(curPlayers) \subseteq Members(activePlayers)
        /\ Members(activePlayers) = Occupied(act)
        /\ Members(activePlayers) \subseteq Seats
        /\ SameRing(curPlayers, activePlayers) /\ act \in [Seats -> Actions]
    BY StreetKnown
  <2>2. /\ phase = "PostBetting" /\ ~BettingIsImpossible /\ phase' = "Open" /\ state' = "Rounds"
        /\ act' = [s \in Seats |-> IF s \in Members(curPlayers) THEN "FirstAction" ELSE act[s]]
        /\ amt' = [s \in Seats |-> IF s \in Members(curPlayers) THEN 0 ELSE amt[s]]
        /\ bet' = 0 /\ commState' = NextStreet[commState] /\ commState # "River" /\ ReorderPostFlop
        /\ UNCHANGED << chips, levels, pots, finish >>
    BY <1>2 DEF DealStreet
  <2>3. PostFlopFirst \in Members(curPlayers)
    BY <1>2 DEF NobodyStarts
  <2>4. /\ curPlayers' \in Seq(Seats) /\ Distinct(curPlayers')
        /\ Members(curPlayers') = Members(curPlayers)
        /\ curPlayer' \in Members(curPlayers') /\ activePlayers' = activePlayers
        /\ SameRing(curPlayers', activePlayers')
    BY <2>1, <2>2, <2>3, SetHeadKeeps, ShortKeepsRing DEF ReorderPostFlop
  <2>5. {dealer', smallBlind', bigBlind'} \subseteq Members(activePlayers) \cup {None}
    <3>1. activePlayers[1] \in Members(activePlayers)
      BY <2>1, <2>3, HeadIsMember
    <3>2. HandleOrphanedSeats \in [dealer : Members(activePlayers),
                                  smallBlind : Members(activePlayers),
                                  bigBlind : Members(activePlayers)]
      BY <2>1, <3>1, SeatingKeeps DEF Seated
    <3> QED BY <2>1, <2>2, <3>2 DEF ReorderPostFlop, SetButtons, buttons, Seated
  <2>6. commState' \in CommStates \ {"NotStarted"}
    BY <2>1, <2>2 DEF TypeOK, CommStates, NextStreet
  <2>7. StillBets /\ \A s \in Members(curPlayers) : act[s] # "MidroundAddition"
    BY <2>2 DEF StillBets, Street
  <2>8. /\ act' \in [Seats -> Actions] /\ amt' \in [Seats -> Chips]
        /\ Occupied(act') = Occupied(act) /\ JoinersStay
        /\ \A s \in Members(curPlayers) : act'[s] # "MidroundAddition"
    <3>1. act' \in [Seats -> Actions]
      BY <2>1, <2>2 DEF Actions
    <3>2. amt' \in [Seats -> Chips]
      BY <2>2, ChipArithmetic DEF TypeOK
    <3>3. Occupied(act') = Occupied(act)
      BY <2>1, <2>2 DEF Occupied
    <3>4. JoinersStay
      BY <2>1, <2>2, <2>7 DEF JoinersStay
    <3>5. \A s \in Members(curPlayers) : act'[s] # "MidroundAddition"
      BY <2>1, <2>2
    <3> QED BY <3>1, <3>2, <3>3, <3>4, <3>5
  <2>9. TypeOK'
    <3>1. bet' \in Chips /\ state' \in States /\ phase' \in FlowPhases \cup {"Open"}
      BY <2>2, ChipArithmetic DEF States, BettingStates
    <3>2. {dealer', smallBlind', bigBlind', curPlayer'} \subseteq Seats \cup {None}
      BY <2>1, <2>4, <2>5
    <3> QED BY <2>1, <2>2, <2>4, <2>6, <2>8, <3>1, <3>2 DEF TypeOK, levels, finish
  <2>10. Seated'
    BY <2>1, <2>2, <2>4, <2>5, <2>8 DEF Seated, levels
  <2>11. Street' /\ InStreet' /\ FirstRound'
    BY <2>2, <2>4, <2>6, <2>8, <2>10 DEF Street, InStreet, FirstRound, BettingStates
  <2>12. Len(activePlayers') # 1
    <3>1. Len(activePlayers) = 1 => Len(curPlayers) \in {0, 1}
      BY <2>1, ListOfOne
    <3>2. ~(Len(curPlayers) < 2)
      BY <2>2 DEF BettingIsImpossible
    <3>3. 0 < 2 /\ 1 < 2
      OBVIOUS
    <3> QED BY <2>4, <3>1, <3>2, <3>3
  <2> QED BY <2>7, <2>8, <2>9, <2>11, <2>12 DEF StreetGoesOn, AloneOnlyByLateStart
<1> QED BY <1>1, <1>2

\* Every step of Game in a street, with the turn at a player who may bet.
LEMMA StepInStreet ==
  ASSUME PausesInRounds, TypeOK, InStreet, Street, Betting => curPlayer \in Eligible(act), Next
  PROVE  StreetGoesOn
<1>1. CASE Request
  <2>1. ~StartGame
    <3>1. state # "NotStarted"
      BY StreetKnown
    <3> QED BY <3>1 DEF StartGame
  <2> QED BY <1>1, <2>1, TurnInStreet, JoinInStreet, LeaveInStreet, LeaveLastInStreet DEF Request
<1>2. CASE Flow
  <2>1. phase \in {"Open", "PostBetting"}
    BY DEF InStreet
  <2>2. ~NewRound /\ ~Blinds /\ ~SmallBlindAllIn /\ ~BigBlindAllIn /\ ~RunOut
    BY <2>1 DEF NewRound, Blinds, SmallBlindAllIn, BigBlindAllIn, BlindAllIn, RunOut
  <2>3. ~FinishByFolds /\ ~NoHandsLeft /\ ~ShowHands /\ ~AwardSidePot /\ ~AwardDone
    BY <2>1 DEF FinishByFolds, NoHandsLeft, ShowHands, AwardSidePot, AwardDone
  <2>4. ~AbandonPots /\ ~AbandonToLast /\ ~AbandonToJoiner
    BY <2>1 DEF AbandonPots, AbandonToLast, AbandonToJoiner
  <2>5. ~Eliminate /\ ~RemoveEliminated /\ ~EliminationDone /\ ~GameOver
    BY <2>1 DEF Eliminate, RemoveEliminated, EliminationDone, GameOver
  <2> QED BY <1>2, <2>2, <2>3, <2>4, <2>5, RestInStreet, DealInStreet DEF Flow
<1> QED BY <1>1, <1>2 DEF Next

-----------------------------------------------------------------------------
(* Steps between the streets.                                              *)

\* Where a step leads that does not begin in a street.
LEMMA StepsBetween ==
  ASSUME PausesInRounds, TurnInv, ~InStreet, Following, FirstRound, Next
  PROVE  \/ phase' \notin {"Open", "PostBetting", "BigBlindAllIn"}
         \/ phase' = "Open" /\ state' = "NotStarted" /\ roundCount' = 0
         \/ StartGame
         \/ /\ phase = "SmallBlindAllIn" /\ phase' = "BigBlindAllIn"
            /\ activePlayers' = activePlayers
         \/ /\ phase = "BigBlindAllIn" /\ phase' = "Open" /\ state' \in {"PreFlop", "DoneBetting"}
            /\ act' = act /\ activePlayers' = activePlayers
<1> DEFINE Led ==
      \/ phase' \notin {"Open", "PostBetting", "BigBlindAllIn"}
      \/ phase' = "Open" /\ state' = "NotStarted" /\ roundCount' = 0
      \/ StartGame
      \/ /\ phase = "SmallBlindAllIn" /\ phase' = "BigBlindAllIn"
         /\ activePlayers' = activePlayers
      \/ /\ phase = "BigBlindAllIn" /\ phase' = "Open" /\ state' \in {"PreFlop", "DoneBetting"}
         /\ act' = act /\ activePlayers' = activePlayers
<1>1. TypeOK /\ Seated /\ Posting /\ Posted
  BY ListsKnown
<1>2. /\ phase # "PostBetting"
      /\ phase = "Open" => state = "NotStarted" /\ roundCount = 0
  BY DEF InStreet, FirstRound
<1>3. ASSUME NEW p \in Seats PROVE ~Turn(p)
  <2>1. "NotStarted" \notin BettingStates
    BY DEF BettingStates
  <2> QED BY <1>2, <2>1 DEF Turn, AllIn, Bet, Call, Check, Fold, MayAct
<1>4. ASSUME NEW p \in Seats, Join(p) PROVE Led
  <2>1. phase' = phase /\ state' = state /\ roundCount' = roundCount /\ phase \in {"Open", "PostBetting", "RunOut"}
    BY <1>4 DEF Join, PausesInRounds
  <2> QED BY <1>2, <2>1
<1>5. ASSUME NEW p \in Seats, Leave(p) PROVE Led
  <2>1. phase = "Open"
    BY <1>5 DEF Leave
  <2>2. /\ phase' = IF numPlayers > 2 THEN PhaseAfter(state') ELSE "Open"
        /\ state' = "NotStarted" /\ roundCount' = roundCount
    BY <1>1, <1>2, <1>5, <2>1, LeaveSeats
  <2> QED BY <1>2, <2>1, <2>2 DEF PhaseAfter
<1>6. ASSUME NEW p \in Seats, LeaveLast(p) PROVE Led
  BY <1>1, <1>6, LastLeaves
<1>7. ASSUME BlindAllIn("SmallBlindAllIn", smallBlind, "BigBlindAllIn") PROVE Led
  BY <1>7 DEF BlindAllIn
<1>8. ASSUME BlindAllIn("BigBlindAllIn", bigBlind, "Open") PROVE Led
  <2>1. /\ phase = "BigBlindAllIn" /\ phase' = "Open" /\ act' = act /\ activePlayers' = activePlayers
        /\ act[bigBlind] # "AllIn" => state' = state
    BY <1>8 DEF BlindAllIn, players
  <2>2. bigBlind \in Members(activePlayers) /\ state \in {"PreFlop", "DoneBetting"}
    BY <1>1, <2>1 DEF Posting
  <2>3. act[bigBlind] = "AllIn" => state' \in {"PreFlop", "DoneBetting"}
    BY <1>1, <1>8, <2>2, BlindAllInType
  <2> QED BY <2>1, <2>2, <2>3
<1>9. ASSUME NewRound \/ Blinds \/ RunOut \/ FinishByFolds \/ NoHandsLeft \/ ShowHands
      PROVE  Led
  BY <1>9 DEF NewRound, Blinds, RunOut, FinishByFolds, NoHandsLeft, ShowHands, WinByFolds, Panic
<1>10. ASSUME AwardSidePot \/ AwardDone \/ AbandonPots \/ AbandonToLast \/ AbandonToJoiner
       PROVE  Led
  BY <1>10 DEF AwardSidePot, AwardDone, AbandonPots, AbandonToLast, AbandonToJoiner, WinByFolds, Panic
<1>11. ASSUME Eliminate \/ RemoveEliminated \/ EliminationDone PROVE Led
  BY <1>11 DEF Eliminate, RemoveEliminated, EliminationDone
<1>12. ASSUME GameOver PROVE Led
  BY <1>12 DEF GameOver, Reset
<1>13. ~ShowDownEarly /\ ~RiverDone /\ ~DealStreet
  BY <1>2 DEF ShowDownEarly, RiverDone, DealStreet
<1>14. Request => Led
  BY <1>3, <1>4, <1>5, <1>6 DEF Request
<1>15. Flow => Led
  BY <1>7, <1>8, <1>9, <1>10, <1>11, <1>12, <1>13 DEF Flow, SmallBlindAllIn, BigBlindAllIn
<1> QED BY <1>14, <1>15 DEF Next

\* What has to be shown of such a step.
HandGoesOn ==
  /\ TypeOK'
  /\ Following' => /\ IF InStreet' THEN Street' ELSE TurnInv'
                   /\ FirstRound' /\ AloneOnlyByLateStart'
                   /\ StillBets' => act' = act /\ \A s \in Occupied(act) : act[s] # "MidroundAddition"

\* The invariant of TurnProofs is all that is needed of it, but for the blinds.
LEMMA TurnsGoOn ==
  ASSUME TurnInv'
  PROVE  /\ TypeOK'
         /\ Following' => /\ IF InStreet' THEN Street' ELSE TurnInv'
                          /\ phase' = "SmallBlindAllIn" => Len(activePlayers') >= 2
<1>1. TypeOK'
  BY DEF TurnInv, IInv
<1>2. InStreet' => Street'
  <2>1. (TurnInv /\ InStreet => Street)'
    BY StreetOfTurns, PTL
  <2> QED BY <2>1
<1>3. ASSUME phase' = "SmallBlindAllIn" PROVE Len(activePlayers') >= 2
  <2>1. /\ Len(curPlayers') >= 2 /\ curPlayers' \in Seq(Seats) /\ Distinct(curPlayers')
        /\ activePlayers' \in Seq(Seats) /\ Members(curPlayers') \subseteq Members(activePlayers')
    BY <1>1, <1>3 DEF TurnInv, IInv, Following, Posted, Seated, TypeOK
  <2>2. Len(activePlayers') # 1
    <3> SUFFICES ASSUME Len(activePlayers') = 1 PROVE FALSE
      OBVIOUS
    <3>1. Len(curPlayers') \in {0, 1}
      BY <2>1, ListOfOne
    <3>2. ~(0 >= 2) /\ ~(1 >= 2)
      OBVIOUS
    <3> QED BY <2>1, <3>1, <3>2
  <2>3. Len(activePlayers') # 0
    <3> SUFFICES ASSUME Len(activePlayers') = 0 PROVE FALSE
      OBVIOUS
    <3>1. Members(activePlayers') = {}
      BY <2>1, AloneInList
    <3>2. Members(curPlayers') = {}
      BY <2>1, <3>1
    <3>3. Len(curPlayers') = 0
      BY <2>1, <3>2, AloneInList
    <3>4. ~(0 >= 2)
      OBVIOUS
    <3> QED BY <2>1, <3>3, <3>4
  <2>4. Len(activePlayers') \in Nat
    BY <2>1
  <2>5. \A n \in Nat : n = 0 \/ n = 1 \/ n >= 2
    OBVIOUS
  <2> QED BY <2>2, <2>3, <2>4, <2>5
<1> QED BY <1>1, <1>2, <1>3

\* Every step of Game between the streets.
LEMMA StepBetween ==
  ASSUME PausesInRounds, TurnInv, ~InStreet, Following, FirstRound, Next
  PROVE  HandGoesOn
<1>1. TurnInv'
  BY StepKeepsTurns
<1>2. /\ TypeOK'
      /\ Following' => /\ IF InStreet' THEN Street' ELSE TurnInv'
                       /\ phase' = "SmallBlindAllIn" => Len(activePlayers') >= 2
  BY <1>1, TurnsGoOn
<1>3. TypeOK /\ Seated /\ Waiting /\ Posting /\ Posted /\ Members(activePlayers) = Occupied(act)
  BY ListsKnown
<1>4. \A n \in Nat : n >= 2 => n # 1
  OBVIOUS
<1>5. CASE phase' \notin {"Open", "PostBetting", "BigBlindAllIn"}
  <2>1. ~Betting' /\ ~StillBets' /\ (Following' => FirstRound')
    BY <1>2, <1>5 DEF Betting, StillBets, FirstRound
  <2> QED BY <1>2, <2>1 DEF HandGoesOn, AloneOnlyByLateStart
<1>6. CASE phase' = "Open" /\ state' = "NotStarted" /\ roundCount' = 0
  <2>1. ~Betting' /\ ~StillBets' /\ FirstRound'
    BY <1>6 DEF Betting, StillBets, FirstRound, BettingStates
  <2> QED BY <1>2, <2>1 DEF HandGoesOn, AloneOnlyByLateStart
<1>7. CASE StartGame
  <2>1. phase = "Open" /\ state = "NotStarted" /\ numPlayers >= 2 /\ BeginGame
    BY <1>7 DEF StartGame
  <2>2. activePlayers \in Seq(Seats) /\ Len(activePlayers) \in Nat /\ Len(activePlayers) >= 2
    BY <1>3, <2>1 DEF TypeOK, Seated
  <2>3. Len(activePlayers') = Len(activePlayers)
    <3>1. activePlayers # << >>
      BY <2>2, AloneInList
    <3> QED BY <2>1, <3>1, BeginGameKeeps DEF TurnInv
  <2>4. phase' = "Open" /\ state' = "PreFlop" /\ act' = act
    BY <2>1 DEF BeginGame
  <2>5. \A s \in Occupied(act) : act[s] # "MidroundAddition"
    BY <1>3, <2>1 DEF Waiting
  <2>6. FirstRound'
    BY <2>4 DEF FirstRound
  <2> QED BY <1>2, <1>4, <2>2, <2>3, <2>4, <2>5, <2>6 DEF HandGoesOn, AloneOnlyByLateStart
<1>8. CASE /\ phase = "SmallBlindAllIn" /\ phase' = "BigBlindAllIn"
           /\ activePlayers' = activePlayers
  <2>1. ~Betting' /\ ~StillBets' /\ FirstRound'
    BY <1>8 DEF Betting, StillBets, FirstRound
  <2> QED BY <1>2, <2>1 DEF HandGoesOn, AloneOnlyByLateStart
<1>9. CASE /\ phase = "BigBlindAllIn" /\ phase' = "Open" /\ state' \in {"PreFlop", "DoneBetting"}
           /\ act' = act /\ activePlayers' = activePlayers
  <2>1. activePlayers \in Seq(Seats) /\ Len(activePlayers) \in Nat /\ Len(activePlayers) >= 2
    BY <1>3, <1>9 DEF TypeOK, FirstRound
  <2>2. \A s \in Occupied(act) : act[s] # "MidroundAddition"
    BY <1>3, <1>9 DEF Posted
  <2>3. FirstRound'
    BY <1>9 DEF FirstRound
  <2> QED BY <1>2, <1>4, <1>9, <2>1, <2>2, <2>3 DEF HandGoesOn, AloneOnlyByLateStart
<1> QED BY <1>5, <1>6, <1>7, <1>8, <1>9, StepsBetween

\* A late start begins a game with those who are there, be it one player.
LEMMA LateStartBegins ==
  ASSUME TurnInv, FirstRound, LateStart, activePlayers # << >>
  PROVE  HandGoesOn /\ act' = act
<1>1. phase = "Open" /\ state = "NotStarted" /\ BeginGame
  BY DEF LateStart
<1>2. TurnInv'
  BY <1>1, BeginKeepsTurns
<1>3. /\ TypeOK'
      /\ Following' => IF InStreet' THEN Street' ELSE TurnInv'
  BY <1>2, TurnsGoOn
<1>4. /\ phase' = "Open" /\ state' = "PreFlop" /\ commState' = "PreFlop"
      /\ act' = act /\ roundCount' = roundCount
  BY <1>1 DEF BeginGame, levels
<1>5. roundCount = 0
  BY <1>1 DEF FirstRound
<1>6. Len(activePlayers') = 1 => smallBlind' = bigBlind'
  <2>1. /\ Len(activePlayers') = Len(activePlayers)
        /\ {smallBlind', bigBlind'} \subseteq Members(activePlayers)
    BY <1>1, BeginGameKeeps DEF TurnInv
  <2>2. activePlayers \in Seq(Seats)
    BY <1>1, ListsKnown DEF Following
  <2>3. Len(activePlayers) = 1 => Members(activePlayers) = {activePlayers[1]}
    BY <2>2, AloneInList
  <2> QED BY <2>1, <2>3
<1>7. \A s \in Occupied(act) : act[s] # "MidroundAddition"
  BY <1>1, ListsKnown DEF Waiting, Following
<1>8. FirstRound'
  BY <1>4 DEF FirstRound
<1> QED BY <1>3, <1>4, <1>5, <1>6, <1>7, <1>8 DEF HandGoesOn, AloneOnlyByLateStart

\* A server that has stopped takes no step of Game.
LEMMA NextFollows ==
  ASSUME Next
  PROVE  Following
<1>1. Request => phase \in {"Open"} \cup Pauses
  BY DEF Request, Turn, AllIn, Bet, Call, Check, Fold, MayAct, Join, Leave, LeaveLast, StartGame
<1>2. Flow => phase \in FlowPhases
  BY DEF Flow, NewRound, Blinds, SmallBlindAllIn, BigBlindAllIn, BlindAllIn, ShowDownEarly, RunOut,
         RiverDone, DealStreet, FinishByFolds, NoHandsLeft, ShowHands, AwardSidePot, AwardDone,
         AbandonPots, AbandonToLast, AbandonToJoiner, Eliminate, RemoveEliminated,
         EliminationDone, GameOver, FlowPhases
<1> QED BY <1>1, <1>2, GameAssumption DEF Next, Following, FlowPhases

-----------------------------------------------------------------------------
(* Steps of the race.                                                      *)

\* The table stays as it is, and so do those of the waiting who still wait.
LEMMA RestInRace ==
  ASSUME PausesInRounds, RacingInv, UNCHANGED vars,
         Following => /\ waiting' \subseteq Occupied(act)
                      /\ StillBets => \A p \in waiting' : act[p] # "MidroundAddition"
  PROVE  RacingInv'
<1>1. /\ UNCHANGED << act, amt, chips, activePlayers, curPlayers, curPlayer, dealer, smallBlind >>
      /\ UNCHANGED << bigBlind, numPlayers, roundCount, ante, bet, state, commState, pots >>
      /\ UNCHANGED << winners, rank, nextPot, phase >>
  BY DEF vars, players, lists, buttons, levels, finish
<1>2. TypeOK'
  BY <1>1 DEF RacingInv, TypeOK
<1>3. Following' => Following /\ FirstRound' /\ AloneOnlyByLateStart'
  BY <1>1 DEF RacingInv, Following, FirstRound, AloneOnlyByLateStart, Betting
<1>4. StillBets' => StillBets
  BY <1>1 DEF StillBets, Betting, BettingIsImpossible
<1>5. Following' => WaitingPlay'
  BY <1>1, <1>3, <1>4 DEF WaitingPlay, Occupied
<1>6. ASSUME Following' PROVE IF InStreet' THEN Street' ELSE TurnInv'
  <2>1. CASE InStreet
    <3>1. InStreet' /\ Street
      BY <1>1, <1>3, <1>6, <2>1 DEF RacingInv, InStreet
    <3>2. Seated'
      BY <1>1, <3>1 DEF Street, Seated, Occupied
    <3>3. Street'
      BY <1>1, <1>4, <3>1, <3>2 DEF Street, Betting
    <3> QED BY <3>1, <3>3
  <2>2. CASE ~InStreet
    <3>1. ~InStreet' /\ TurnInv
      BY <1>1, <1>3, <1>6, <2>2 DEF RacingInv, InStreet
    <3>2. TurnInv'
      BY <3>1, StepKeepsTurns
    <3> QED BY <3>1, <3>2
  <2> QED BY <2>1, <2>2
<1> QED BY <1>2, <1>3, <1>5, <1>6 DEF RacingInv

\* A step in a street.
LEMMA StreetInRace ==
  ASSUME StreetGoesOn, WaitingPlay, waiting' \subseteq waiting \cap Occupied(act')
  PROVE  RacingInv'
<1>1. ASSUME StillBets', Following', NEW p \in waiting' PROVE act'[p] # "MidroundAddition"
  <2>1. p \in Seats /\ act[p] \notin {"VacantSeat", "MidroundAddition"} /\ act'[p] # "VacantSeat"
    BY <1>1 DEF StreetGoesOn, WaitingPlay, Occupied
  <2> QED BY <2>1 DEF StreetGoesOn, JoinersStay
<1>2. Following' => WaitingPlay'
  BY <1>1 DEF WaitingPlay
<1> QED BY <1>2 DEF StreetGoesOn, RacingInv

\* A step between the streets.
LEMMA BetweenInRace ==
  ASSUME HandGoesOn, WaitingPlay, waiting' \subseteq waiting \cap Occupied(act')
  PROVE  RacingInv'
<1>1. ASSUME StillBets', Following', NEW p \in waiting' PROVE act'[p] # "MidroundAddition"
  BY <1>1 DEF HandGoesOn
<1>2. Following' => WaitingPlay'
  BY <1>1 DEF WaitingPlay
<1> QED BY <1>2 DEF HandGoesOn, RacingInv

\* An action that was let through is carried out while another turn runs.
LEMMA LateGoesOn ==
  ASSUME RacingInv, NEW p \in Seats, LateCheck(p) \/ LateFold(p)
  PROVE  /\ StreetGoesOn /\ Following /\ WaitingPlay
         /\ waiting' \subseteq waiting \cap Occupied(act')
<1>1. PICK kind \in {"Check", "Fold"} : Late(p, kind)
  BY DEF LateCheck, LateFold
<1>2. Betting /\ InStreet /\ Following /\ StillBets /\ p \in waiting
  BY <1>1 DEF Late, GotLock, Betting, InStreet, Following, StillBets, BettingStates
<1>3. TypeOK /\ Street /\ WaitingPlay
  BY <1>2 DEF RacingInv
<1>4. act[p] \notin {"VacantSeat", "MidroundAddition"}
  BY <1>2, <1>3 DEF WaitingPlay, Occupied
<1>5. /\ EndTurn([act EXCEPT ![p] = kind], curPlayers, state, pots)
      /\ waiting' = waiting \ {p} /\ UNCHANGED << amt, chips, bet >> /\ state \in BettingStates
  BY <1>1 DEF Late
<1>6. pots \in AllPots /\ amt \in [Seats -> Chips] /\ chips \in [Seats -> Chips] /\ bet \in Chips
  BY <1>3 DEF TypeOK
<1>7. StreetGoesOn
  BY <1>2, <1>3, <1>4, <1>5, <1>6, TurnGoesRound
<1>8. act' = [act EXCEPT ![p] = kind]
  BY <1>5 DEF EndTurn
<1>9. waiting' \subseteq Occupied(act')
  BY <1>3, <1>5, <1>8 DEF WaitingPlay, Occupied
<1> QED BY <1>2, <1>3, <1>5, <1>7, <1>9

\* Every step of the race is one of these.
LEMMA RaceSteps ==
  ASSUME PausesInRounds, RacingInv, RacingNext
  PROVE  \/ /\ UNCHANGED vars
            /\ Following => /\ waiting' \subseteq Occupied(act)
                            /\ StillBets => \A p \in waiting' : act[p] # "MidroundAddition"
         \/ /\ Following /\ WaitingPlay /\ waiting' \subseteq waiting \cap Occupied(act')
            /\ \/ StreetGoesOn
               \/ HandGoesOn /\ IInv /\ Next
               \/ HandGoesOn /\ act' = act
<1>1. CASE InOrder
  <2>1. Next /\ waiting' = waiting \cap Occupied(act') /\ (Betting => curPlayer \in Eligible(act))
    BY <1>1 DEF InOrder, Revalidated
  <2>2. Following /\ WaitingPlay /\ TypeOK /\ FirstRound
    BY <2>1, NextFollows DEF RacingInv
  <2>3. InStreet => StreetGoesOn
    BY <2>1, <2>2, StepInStreet DEF RacingInv
  <2>4. ~InStreet => HandGoesOn /\ IInv
    BY <2>1, <2>2, StepBetween DEF RacingInv, TurnInv
  <2> QED BY <2>1, <2>2, <2>3, <2>4
<1>2. ASSUME NEW p \in Seats, LetThrough(p)
      PROVE  /\ UNCHANGED vars
             /\ Following => /\ waiting' \subseteq Occupied(act)
                             /\ StillBets => \A q \in waiting' : act[q] # "MidroundAddition"
  <2>1. /\ UNCHANGED vars /\ waiting' = waiting \cup {p} /\ p \in Occupied(act) /\ p = curPlayer
        /\ phase = "Open" /\ state # "NotStarted"
    BY <1>2 DEF LetThrough
  <2>2. InStreet /\ Following /\ Street /\ WaitingPlay
    BY <2>1 DEF InStreet, Following, RacingInv
  <2>3. StillBets => Betting
    BY <2>1 DEF StillBets
  <2>4. StillBets => act[p] # "MidroundAddition"
    BY <2>1, <2>2, <2>3 DEF Street
  <2> QED BY <2>1, <2>2, <2>4 DEF WaitingPlay
<1>3. ASSUME NEW p \in Seats, TooLate(p)
      PROVE  /\ UNCHANGED vars
             /\ Following => /\ waiting' \subseteq Occupied(act)
                             /\ StillBets => \A q \in waiting' : act[q] # "MidroundAddition"
  BY <1>3 DEF TooLate, RacingInv, WaitingPlay
<1>4. CASE \E p \in Seats : LateCheck(p) \/ LateFold(p)
  BY <1>4, LateGoesOn
<1>5. CASE LetStart
  BY <1>5 DEF LetStart, RacingInv, WaitingPlay
<1>6. CASE LateStart
  <2>1. Following /\ ~InStreet /\ waiting' = waiting /\ phase = "Open" /\ state = "NotStarted"
    BY <1>6 DEF LateStart, InStreet, Following
  <2>2. TypeOK /\ TurnInv /\ FirstRound /\ WaitingPlay
    BY <2>1 DEF RacingInv
  <2>3. HandGoesOn /\ act' = act
    <3>1. CASE activePlayers = << >>
      <4>1. Panic
        BY <1>6, <3>1 DEF LateStart
      <4>2. StreetGoesOn
        BY <2>2, <4>1, StopGoesOn
      <4> QED BY <4>1, <4>2 DEF Panic, Following, StreetGoesOn, HandGoesOn, players
    <3>2. CASE activePlayers # << >>
      BY <1>6, <2>2, <3>2, LateStartBegins
    <3> QED BY <3>1, <3>2
  <2>4. waiting' \subseteq waiting \cap Occupied(act')
    BY <2>1, <2>2, <2>3 DEF WaitingPlay
  <2> QED BY <2>1, <2>2, <2>3, <2>4
<1> QED BY <1>1, <1>2, <1>3, <1>4, <1>5, <1>6 DEF RacingNext

\* Every step of the race keeps the invariant.
LEMMA RaceKeeps ==
  ASSUME PausesInRounds, RacingInv, [RacingNext]_<< vars, races >>
  PROVE  RacingInv'
<1>1. CASE UNCHANGED << vars, races >>
  <2>1. UNCHANGED vars /\ waiting' = waiting
    BY <1>1 DEF races
  <2> QED BY <2>1, RestInRace DEF RacingInv, WaitingPlay
<1>2. CASE RacingNext
  BY <1>2, RaceSteps, RestInRace, StreetInRace, BetweenInRace
<1> QED BY <1>1, <1>2

\* The initial states.
LEMMA RaceBegins == RacingInit => RacingInv
<1> SUFFICES ASSUME RacingInit PROVE RacingInv
  OBVIOUS
<1>1. TurnInv
  BY InitTurns DEF RacingInit
<1>2. TypeOK
  BY <1>1 DEF TurnInv, IInv
<1>3. phase = "Open" /\ state = "NotStarted" /\ roundCount = 0 /\ waiting = {}
  BY DEF RacingInit, Init
<1>4. ~InStreet /\ ~Betting /\ ~StillBets
  BY <1>3 DEF InStreet, Betting, StillBets, BettingStates
<1> QED BY <1>1, <1>2, <1>3, <1>4 DEF RacingInv, WaitingPlay, FirstRound, AloneOnlyByLateStart

\* The invariant of the race.
THEOREM AlwaysRacingInv ==
  ASSUME PausesInRounds
  PROVE  RacingSpec => []RacingInv
  BY RaceBegins, RaceKeeps, PTL DEF RacingSpec

-----------------------------------------------------------------------------
(* What holds in spite of the race.                                        *)

\* Seats, lists and counter agree, whichever requests come late.
THEOREM RacingSeatsMatch ==
  ASSUME PausesInRounds
  PROVE  RacingSpec => []SeatsMatch
<1>1. RacingInv => SeatsMatch
  BY DEF RacingInv, Street, Seated, TurnInv, IInv, SeatsMatch
<1> QED BY <1>1, AlwaysRacingInv, PTL

\* The betting list keeps the order of the table, though late actions move the
\* turn of another player.
THEOREM RacingRingOrder ==
  ASSUME PausesInRounds
  PROVE  RacingSpec => []RingOrder
<1>1. ASSUME RacingInv, Following, InStreet PROVE RingOrder
  BY <1>1, StreetKnown, ListsAreOrdered DEF RacingInv
<1>2. ASSUME RacingInv, Following, ~InStreet PROVE RingOrder
  BY <1>2, RingIsOrdered DEF RacingInv
<1>3. ~Following => RingOrder
  BY DEF RingOrder
<1>4. RacingInv => RingOrder
  BY <1>1, <1>2, <1>3
<1> QED BY <1>4, AlwaysRacingInv, PTL

\* A player is alone in a game only in the first hand of one that was started
\* late, and with both blinds.
THEOREM RacingAloneOnlyByLateStart ==
  ASSUME PausesInRounds
  PROVE  RacingSpec => []AloneOnlyByLateStart
<1>1. RacingInv => AloneOnlyByLateStart
  BY DEF RacingInv, AloneOnlyByLateStart, Betting, Following
<1> QED BY <1>1, AlwaysRacingInv, PTL

\* Who sat down during the hand stays out of it in every step.
LEMMA StepLetsNobodyIn ==
  ASSUME PausesInRounds, RacingInv, [RacingNext]_<< vars, races >>,
         NEW s \in Seats, act[s] = "MidroundAddition", act'[s] # act[s]
  PROVE  act'[s] = "VacantSeat" \/ phase \in {"NewRound", "GameOver"}
<1>1. act' # act
  OBVIOUS
<1>2. ~UNCHANGED vars
  BY <1>1 DEF vars, players
<1>3. RacingNext
  BY <1>2
<1>4. StreetGoesOn \/ (IInv /\ Next)
  BY <1>1, <1>2, <1>3, RaceSteps
<1>5. CASE StreetGoesOn
  BY <1>5 DEF StreetGoesOn, JoinersStay
<1>6. CASE IInv /\ Next
  BY <1>6, StepReturnsNobody
<1> QED BY <1>4, <1>5, <1>6

\* A player who sits down during a hand stays out of it, even on the seat of
\* one who left it while an action was waiting.
THEOREM RacingJoinersWait ==
  ASSUME PausesInRounds
  PROVE  RacingSpec => JoinersWait
<1> DEFINE StaysOut == \A s \in Seats :
       act[s] = "MidroundAddition" /\ act'[s] # act[s]
         => act'[s] = "VacantSeat" \/ phase \in {"NewRound", "GameOver"}
<1>1. RacingInv /\ [RacingNext]_<< vars, races >> => [StaysOut]_vars
  BY StepLetsNobodyIn
<1>2. RacingSpec => [][StaysOut]_vars
  BY <1>1, AlwaysRacingInv, PTL DEF RacingSpec
<1> QED BY <1>2 DEF JoinersWait
=============================================================================
