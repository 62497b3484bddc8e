----------------------------- MODULE GameProofs -----------------------------
(***************************************************************************)
(* For any seats, stacks, blinds, bets and number of rounds: the type of   *)
(* the table, and the agreement of its lists, counters, buttons and turn.  *)
(***************************************************************************)
EXTENDS Game, TableProofs

-----------------------------------------------------------------------------
(* What SetNextPlayerTurn does to the betting list and to the turn, and    *)
(* the type of the amounts that PlayerAction puts into the pots.           *)

\* Seats that are all-in are counted.
LEMMA AllInCounted ==
  ASSUME activePlayers \in Seq(Seats), NEW a, NEW p \in Members(activePlayers), a[p] = "AllIn"
  PROVE  AllInCount(a) # 0
<1> DEFINE In == {s \in Members(activePlayers) : a[s] = "AllIn"}
<1>1. In \in SUBSET Seats /\ p \in In
  BY MembersType
<1>2. IsFiniteSet(In)
  BY <1>1, SeatsCounted
<1> QED BY <1>1, <1>2, FS_EmptySet DEF AllInCount

\* The turn: the betting list loses at most the current player, who stays in
\* it unless it folded or went all-in; the turn goes to another player of the
\* list, and a list of one player ends the betting.
LEMMA TurnKeeps ==
  ASSUME NEW a \in [Seats -> Actions], NEW cur \in Seq(Seats), Distinct(cur),
         NEW st \in States, NEW P \in AllPots, curPlayer \in Seats \cup {None},
         NEW t, t = SetNextPlayerTurn(a, cur, st, P)
  PROVE  /\ t.cur \in Seq(Seats) /\ Distinct(t.cur)
         /\ Members(cur) \ {curPlayer} \subseteq Members(t.cur)
         /\ Members(t.cur) \subseteq Members(cur)
         /\ t.curPlayer \in Seats \cup {None}
         /\ t.state \in {st, "RoundOver", "DoneBetting"}
         /\ t.pots \in AllPots
         /\ st = "NotStarted" => t.cur = cur /\ t.state = st
         /\ a[curPlayer] \notin {"Fold", "AllIn"} => Members(t.cur) = Members(cur)
         /\ Len(cur) = 1 => Len(t.cur) \in {0, 1}
         /\ st # "NotStarted" =>
              /\ a[curPlayer] = "AllIn" => curPlayer \notin Members(t.cur)
              /\ a[curPlayer] = "Fold" /\ Len(cur) # 1 => curPlayer \notin Members(t.cur)
              /\ Len(cur) = 1 => t.state \in {"RoundOver", "DoneBetting"}
              /\ Len(cur) # 1 /\ curPlayer \in Members(cur)
                   => t.curPlayer \in Members(cur) \ {curPlayer}
              /\ Len(cur) # 1 /\ curPlayer \notin Members(cur) => t.state = st
              /\ AllInCount(a) # 0 /\ a[curPlayer] # "Fold" => t.state \in {st, "DoneBetting"}
<1> DEFINE p == curPlayer
           only == Len(cur) = 1
           seated == p \in Members(cur)
           turn == IF only \/ ~seated THEN p ELSE NextTurn(cur)
           folded == IF only THEN cur ELSE DropFolded(a, cur)
           left == IF a[p] = "AllIn" THEN RemovePlayer(folded, p) ELSE folded
           st1 == IF only THEN IF WonByFolds(a) THEN "RoundOver" ELSE "DoneBetting"
                  ELSE IF ~seated THEN st
                  ELSE IF OneLeft(a, folded) THEN "RoundOver"
                  ELSE IF DoneAt(a, folded, turn) THEN "DoneBetting"
                  ELSE st
           pots1 == IF st1 = "DoneBetting" THEN CloseSidePots(CalculateSidePotTotals(P)) ELSE P
<1>1. t = IF st = "NotStarted" THEN [cur |-> cur, curPlayer |-> p, state |-> st, pots |-> P]
          ELSE [cur |-> left, curPlayer |-> turn, state |-> st1, pots |-> pots1]
  BY DEF SetNextPlayerTurn
<1>2. /\ folded \in Seq(Seats) /\ Distinct(folded)
      /\ Members(folded) = IF ~only /\ a[p] = "Fold" THEN Members(cur) \ {p} ELSE Members(cur)
      /\ only => folded = cur
  BY RemovePlayerKeeps DEF DropFolded
<1> HIDE DEF folded
<1>3. /\ left \in Seq(Seats) /\ Distinct(left)
      /\ Members(left) = IF a[p] = "AllIn" THEN Members(folded) \ {p} ELSE Members(folded)
  BY <1>2, RemovePlayerKeeps
<1>4. only => Len(left) \in {0, 1}
  <2>1. only /\ p \in Members(cur) => Len(RemovePlayer(cur, p)) = 0
    BY RemovePlayerKeeps
  <2>2. p \notin Members(cur) => RemovePlayer(cur, p) = cur
    BY RemovePlayerKeeps
  <2>3. only => left = cur \/ left = RemovePlayer(cur, p)
    BY <1>2
  <2> HIDE DEF left
  <2> QED BY <2>1, <2>2, <2>3
<1>5. /\ turn \in Seats \cup {None}
      /\ ~only /\ seated => turn \in Members(cur) \ {p}
  <2>1. CASE only \/ ~seated
    BY <2>1
  <2>2. CASE ~only /\ seated
    <3>1. NextOf(cur, p) \in Members(cur) /\ NextOf(cur, p) # p
      BY <2>2, NextOfKeeps
    <3>2. Members(cur) \subseteq Seats
      BY MembersType
    <3> QED BY <2>2, <3>1, <3>2 DEF NextTurn
  <2> QED BY <2>1, <2>2
<1>6. pots1 \in AllPots
  BY PotsClosedType
<1>7. /\ st1 \in {st, "RoundOver", "DoneBetting"}
      /\ only => st1 \in {"RoundOver", "DoneBetting"}
      /\ ~only /\ ~seated => st1 = st
  OBVIOUS
<1>8. AllInCount(a) # 0 /\ a[p] # "Fold" => st1 \in {st, "DoneBetting"}
  BY DEF WonByFolds, OneLeft
<1> HIDE DEF left, turn, pots1, st1
<1>9. CASE st = "NotStarted"
  <2>1. t.cur = cur /\ t.curPlayer = p /\ t.state = st /\ t.pots = P
    BY <1>1, <1>9
  <2> QED BY <2>1, <1>9
<1>10. CASE st # "NotStarted"
  <2>1. t.cur = left /\ t.curPlayer = turn /\ t.state = st1 /\ t.pots = pots1
    BY <1>1, <1>10
  <2>2. /\ Members(cur) \ {p} \subseteq Members(left) /\ Members(left) \subseteq Members(cur)
        /\ a[p] \notin {"Fold", "AllIn"} => Members(left) = Members(cur)
        /\ a[p] = "AllIn" => p \notin Members(left)
        /\ a[p] = "Fold" /\ ~only => p \notin Members(left)
    BY <1>2, <1>3
  <2>3. /\ only => Len(t.cur) \in {0, 1} /\ t.state \in {"RoundOver", "DoneBetting"}
        /\ ~only /\ seated => t.curPlayer \in Members(cur) \ {p}
        /\ ~only /\ ~seated => t.state = st
        /\ AllInCount(a) # 0 /\ a[p] # "Fold" => t.state \in {st, "DoneBetting"}
        /\ t.state \in {st, "RoundOver", "DoneBetting"}
        /\ t.curPlayer \in Seats \cup {None} /\ t.pots \in AllPots
    BY <2>1, <1>4, <1>5, <1>6, <1>7, <1>8
  <2>4. /\ t.cur \in Seq(Seats) /\ Distinct(t.cur)
        /\ Members(cur) \ {p} \subseteq Members(t.cur) /\ Members(t.cur) \subseteq Members(cur)
        /\ a[p] \notin {"Fold", "AllIn"} => Members(t.cur) = Members(cur)
        /\ a[p] = "AllIn" => p \notin Members(t.cur)
        /\ a[p] = "Fold" /\ ~only => p \notin Members(t.cur)
    BY <2>1, <2>2, <1>3
  <2> QED BY <2>3, <2>4, <1>10
<1> QED BY <1>9, <1>10

-----------------------------------------------------------------------------

\* The types that PlayerAction relies on.
PlayersType ==
  /\ act \in [Seats -> Actions] /\ amt \in [Seats -> Chips] /\ chips \in [Seats -> Chips]
  /\ bet \in Chips

\* A nonempty set of chips has a greatest element.
LEMMA MostChips ==
  ASSUME NEW T \in SUBSET Chips, T # {}
  PROVE  \E c \in T : \A d \in T : d <= c
<1>1. T \subseteq Nat /\ ChipMod - 1 \in Nat /\ \A d \in T : d <= ChipMod - 1
  BY ChipModAssumption DEF Chips
<1> QED BY <1>1, GreatestExists

\* All the chips of a player.
LEMMA FullType ==
  ASSUME PlayersType, NEW p \in Seats
  PROVE  Full(p) \in Chips /\ amt[p] \in Chips /\ chips[p] \in Chips
  BY ChipArithmetic DEF PlayersType, Full

\* getChipLeaders finds chips, as long as a player asks who has not folded.
LEMMA ChipLeadersType ==
  ASSUME PlayersType, NEW p \in NonFolded(act), NEW own \in Chips
  PROVE  ChipLeader(p, own) \in Chips /\ SecondChipLeader(p, own) \in Chips
<1> DEFINE All == {Real(p, own, q) : q \in NonFolded(act)}
           lead == ChipLeader(p, own)
           Lower == All \ {lead, 0}
<1>1. All \in SUBSET Chips
  <2>1. \A q \in Seats : Real(p, own, q) \in Chips
    BY ChipArithmetic DEF Real, PlayersType
  <2> QED BY <2>1 DEF NonFolded
<1>2. All # {}
  OBVIOUS
<1>3. lead \in All
  <2>1. \E c \in All : \A d \in All : d <= c
    BY <1>1, <1>2, MostChips
  <2>2. \E c \in All : \A q \in NonFolded(act) : Real(p, own, q) <= c
    BY <2>1
  <2> QED BY <2>2 DEF ChipLeader
<1> HIDE DEF All, lead
<1>4. Lower # {} => LastOf(Lower) \in Lower
  <2>1. Lower \in SUBSET Chips
    BY <1>1
  <2> HIDE DEF Lower
  <2> QED BY <2>1, MostChips DEF LastOf
<1>5. SecondChipLeader(p, own) \in {lead, LastOf(Lower)}
      /\ (SecondChipLeader(p, own) = LastOf(Lower) => Lower # {} \/ LastOf(Lower) = lead)
  BY DEF SecondChipLeader, All, lead
<1> QED BY <1>1, <1>3, <1>4, <1>5 DEF lead

\* The amounts of an all-in and of a bet.
LEMMA AmountsType ==
  ASSUME PlayersType, NEW p \in NonFolded(act), NEW a \in Chips
  PROVE  AllInAmount(p) \in Chips /\ BetAmount(p, a) \in Chips
<1>1. Full(p) \in Chips /\ amt[p] \in Chips /\ bet \in Chips
  BY FullType DEF PlayersType, NonFolded
<1>2. Plus(Full(p), Times(2, amt[p])) \in Chips
  <2>1. Times(2, amt[p]) \in Chips
    BY <1>1, ChipArithmetic
  <2> QED BY <1>1, <2>1, ChipArithmetic
<1>3. /\ SecondChipLeader(p, Plus(Full(p), Times(2, amt[p]))) \in Chips
      /\ SecondChipLeader(p, Full(p)) \in Chips
  BY <1>1, <1>2, ChipLeadersType
<1> QED BY <1>1, <1>3 DEF AllInAmount, BetAmount

\* The step that handleSidePots gets.
LEMMA StepOfType ==
  ASSUME PlayersType, NEW cur \in Seq(Seats), NEW p \in Members(cur),
         NEW kind \in {"AllIn", "Bet", "Call"}, NEW amount \in Chips, NEW newBet \in Chips,
         NEW raised \in BOOLEAN
  PROVE  StepOf(p, kind, amount, cur, newBet, raised) \in Step
<1>1. p \in Seats /\ Position(cur, p) \in 1 .. Len(cur)
  BY MembersType, PositionType
<1>2. Before(cur, p) \in SUBSET Seats
  BY <1>1 DEF Before
<1>3. Full(p) \in Chips /\ amt[p] \in Chips
  BY <1>1, FullType
<1> QED BY <1>1, <1>2, <1>3 DEF StepOf, Step

\* What a player puts in front of it.
LEMMA PutType ==
  ASSUME PlayersType, NEW p \in Seats, NEW kind, NEW amount \in Chips, Put(p, kind, amount)
  PROVE  amt' \in [Seats -> Chips] /\ chips' \in [Seats -> Chips]
<1>1. Minus(Full(p), amount) \in Chips
  BY FullType, ChipArithmetic
<1> QED BY <1>1 DEF Put, PlayersType

-----------------------------------------------------------------------------
(* Lists, counters, buttons and turn agree.                                *)

\* A step that leaves the seats and the lists alone keeps them in agreement.
LEMMA SeatedStays ==
  ASSUME Seated, UNCHANGED << act, lists, buttons, numPlayers >>
  PROVE  Seated'
  BY DEF Seated, Occupied, lists, buttons

\* A panicking or a lost server keeps nothing but its types.
LEMMA PanicKeeps ==
  ASSUME IInv, Panic
  PROVE  IInv'
  BY DEF IInv, Panic, TypeOK, Following, players, lists, buttons, levels, finish

\* The empty table.
LEMMA InitKeeps == Init => IInv
<1> SUFFICES ASSUME Init PROVE IInv
  OBVIOUS
<1>1. TypeOK
  BY NoPotsType, TableAssumption, ChipArithmetic
  DEF Init, TypeOK, Actions, States, CommStates, FlowPhases
<1>2. Seated
  <2>1. Members(<< >>) = {} /\ Distinct(<< >>)
    BY DEF Members, Distinct
  <2> QED BY <2>1 DEF Init, Seated, Occupied
<1>3. Dealt /\ Waiting /\ Posting /\ Ending
  <2>1. Members(<< >>) = {}
    BY DEF Members
  <2> QED BY <2>1 DEF Init, Dealt, Waiting, Posting, Ending, BettingStates
<1> QED BY <1>1, <1>2, <1>3 DEF IInv

\* handleOrphanedSeats seats the dealer and the blinds among the players.
LEMMA SeatingKeeps ==
  ASSUME activePlayers \in Seq(Seats), activePlayers[1] \in Members(activePlayers),
         {dealer, smallBlind, bigBlind} \subseteq Members(activePlayers) \cup {None}
  PROVE  HandleOrphanedSeats \in [dealer : Members(activePlayers),
                                  smallBlind : Members(activePlayers),
                                  bigBlind : Members(activePlayers)]
<1> DEFINE list == activePlayers
           d == IF dealer # None THEN dealer
                ELSE IF smallBlind # None THEN PrevOf(list, smallBlind)
                ELSE IF bigBlind # None THEN PrevOf(list, PrevOf(list, bigBlind))
                ELSE list[1]
           s == IF smallBlind # None THEN smallBlind ELSE NextOf(list, d)
           b == IF bigBlind # None THEN bigBlind ELSE NextOf(list, s)
<1>1. \A p \in Members(list) : NextOf(list, p) \in Members(list) /\ PrevOf(list, p) \in Members(list)
  BY NextOfKeeps, PrevOfKeeps
<1>2. d \in Members(list)
  BY <1>1
<1> HIDE DEF d
<1>3. s \in Members(list)
  BY <1>1, <1>2
<1> HIDE DEF s
<1>4. b \in Members(list)
  BY <1>1, <1>3
<1> HIDE DEF b
<1> QED BY <1>2, <1>3, <1>4 DEF HandleOrphanedSeats, d, s, b

-----------------------------------------------------------------------------
(* The end of a street and of a hand.                                      *)

\* Nobody is left to bet against.
LEMMA ShowDownEarlyKeeps ==
  ASSUME IInv, ShowDownEarly
  PROVE  IInv'
<1>1. CASE NonFolded(act) = {}
  BY <1>1, PanicKeeps DEF ShowDownEarly
<1>2. CASE NonFolded(act) # {}
  <2>1. Seated' /\ Dealt'
    BY <1>2, SeatedStays
    DEF IInv, Following, ShowDownEarly, Dealt, players, levels
  <2>2. TypeOK'
    BY <1>2 DEF IInv, ShowDownEarly, TypeOK, players, lists, buttons, levels, finish, FlowPhases
  <2>3. Waiting' /\ Posting' /\ Ending'
    BY <1>2 DEF ShowDownEarly, Waiting, Posting, Ending
  <2> QED BY <2>1, <2>2, <2>3 DEF IInv
<1> QED BY <1>1, <1>2

\* The community cards are dealt without betting.
LEMMA RunOutKeeps ==
  ASSUME IInv, RunOut
  PROVE  IInv'
<1>1. commState \in CommStates \ {"NotStarted"}
  BY DEF IInv, TypeOK, Following, RunOut, Dealt
<1>2. commState # "River" => NextStreet[commState] \in CommStates \ {"NotStarted"}
  BY <1>1 DEF CommStates, NextStreet
<1>3. TypeOK'
  BY <1>1, <1>2 DEF IInv, RunOut, TypeOK, players, lists, buttons, levels, finish,
                    FlowPhases, States, BettingStates
<1>4. Seated'
  BY SeatedStays DEF IInv, Following, RunOut, players, levels
<1>5. Dealt' /\ Waiting' /\ Posting' /\ Ending'
  BY <1>1, <1>2 DEF RunOut, Dealt, Waiting, Posting, Ending
<1> QED BY <1>3, <1>4, <1>5 DEF IInv

\* The betting of the last street is over.
LEMMA RiverDoneKeeps ==
  ASSUME IInv, RiverDone
  PROVE  IInv'
<1>1. TypeOK'
  BY DEF IInv, RiverDone, TypeOK, players, lists, buttons, levels, finish, FlowPhases, States
<1>2. Seated'
  BY SeatedStays DEF IInv, Following, RiverDone, players, levels
<1>3. Dealt' /\ Waiting' /\ Posting' /\ Ending'
  BY DEF RiverDone, Dealt, Waiting, Posting, Ending
<1> QED BY <1>1, <1>2, <1>3 DEF IInv

\* The street is dealt to players who may bet, one of whom is the first.
LEMMA StreetHasPlayers ==
  ASSUME IInv, phase = "PostBetting", ~BettingIsImpossible
  PROVE  /\ TypeOK /\ Seated /\ Dealt
         /\ state = "DoneBetting" /\ Members(curPlayers) = Eligible(act)
         /\ Members(curPlayers) # {}
         /\ activePlayers \in Seq(Seats) /\ curPlayers \in Seq(Seats)
         /\ Members(activePlayers) \subseteq Seats /\ Members(curPlayers) \subseteq Members(activePlayers)
         /\ Distinct(activePlayers) /\ Distinct(curPlayers)
         /\ HandleOrphanedSeats \in [dealer : Members(activePlayers),
                                     smallBlind : Members(activePlayers),
                                     bigBlind : Members(activePlayers)]
         /\ PostFlopFirst \in Members(curPlayers)
<1>1. /\ TypeOK /\ Seated /\ Dealt
      /\ state = "DoneBetting" /\ Members(curPlayers) = Eligible(act)
      /\ Members(curPlayers) # {}
  <2>1. TypeOK /\ Seated /\ Dealt /\ Ending
    BY DEF IInv, Following
  <2>2. state = "DoneBetting" /\ Members(curPlayers) = Eligible(act)
    BY <2>1 DEF Ending
  <2>3. Len(curPlayers) # 0 /\ curPlayers \in Seq(Seats)
    BY <2>1 DEF BettingIsImpossible, TypeOK
  <2> QED BY <2>1, <2>2, <2>3, AloneInList
<1>2. /\ activePlayers \in Seq(Seats) /\ curPlayers \in Seq(Seats)
      /\ Members(activePlayers) \subseteq Seats /\ Members(curPlayers) \subseteq Members(activePlayers)
      /\ Distinct(activePlayers) /\ Distinct(curPlayers)
      /\ activePlayers[1] \in Members(activePlayers)
  <2>1. activePlayers \in Seq(Seats) /\ curPlayers \in Seq(Seats)
    BY <1>1 DEF TypeOK
  <2>2. Members(activePlayers) # {}
    BY <1>1 DEF Seated
  <2>3. activePlayers[1] \in Members(activePlayers)
    BY <2>1, <2>2, HeadIsMember
  <2>4. Members(activePlayers) \subseteq Seats
    BY <2>1, MembersType
  <2> QED BY <1>1, <2>1, <2>3, <2>4 DEF Seated
<1>3. HandleOrphanedSeats \in [dealer : Members(activePlayers), smallBlind : Members(activePlayers),
                               bigBlind : Members(activePlayers)]
  BY <1>1, <1>2, SeatingKeeps DEF Seated
<1>4. PostFlopSeat \in Members(activePlayers)
  <2>1. {dealer, smallBlind, bigBlind} \subseteq Members(activePlayers) \cup {None}
    BY <1>1 DEF Seated
  <2>2. \A p \in Members(activePlayers) :
           NextOf(activePlayers, p) \in Members(activePlayers)
           /\ PrevOf(activePlayers, p) \in Members(activePlayers)
    BY <1>2, NextOfKeeps, PrevOfKeeps
  <2> QED BY <1>3, <2>1, <2>2 DEF PostFlopSeat
<1>5. PostFlopFirst \in Members(curPlayers)
  <2>1. CASE PostFlopSeat \in Members(curPlayers)
    BY <2>1 DEF PostFlopFirst
  <2>2. CASE PostFlopSeat \notin Members(curPlayers)
    <3> DEFINE next == NextOf(activePlayers, PostFlopSeat)
               ring == SetHead(activePlayers, next)
    <3>1. next \in Members(activePlayers)
      BY <1>2, <1>4, NextOfKeeps
    <3>2. ring \in Seq(Seats) /\ Members(ring) = Members(activePlayers)
      BY <1>2, <3>1, SetHeadKeeps
    <3>3. Members(ring) \cap Eligible(act) # {}
      BY <1>1, <1>2, <3>2
    <3>4. FirstIn(ring, Eligible(act)) \in Eligible(act)
      BY <3>2, <3>3, FirstInKeeps
    <3> QED BY <1>1, <2>2, <3>4 DEF PostFlopFirst
  <2> QED BY <2>1, <2>2
<1> QED BY <1>1, <1>2, <1>3, <1>5

\* As the step that deals the street finds it.
LEMMA FirstOfStreet ==
  ASSUME IInv, DealStreet
  PROVE  /\ TypeOK /\ Seated /\ Dealt
         /\ state = "DoneBetting" /\ Members(curPlayers) = Eligible(act)
         /\ Members(curPlayers) # {}
         /\ activePlayers \in Seq(Seats) /\ curPlayers \in Seq(Seats)
         /\ Members(activePlayers) \subseteq Seats /\ Members(curPlayers) \subseteq Members(activePlayers)
         /\ Distinct(activePlayers) /\ Distinct(curPlayers)
         /\ HandleOrphanedSeats \in [dealer : Members(activePlayers),
                                     smallBlind : Members(activePlayers),
                                     bigBlind : Members(activePlayers)]
         /\ PostFlopFirst \in Members(curPlayers)
BY StreetHasPlayers DEF DealStreet

\* The seats of a hand that began with the players it dealt cards to are
\* replaced by FirstAction for those who still bet.
LEMMA DealStreetKeeps ==
  ASSUME IInv, DealStreet
  PROVE  IInv'
<1>1. CASE NobodyStarts
  BY <1>1, PanicKeeps DEF DealStreet
<1>2. CASE ~NobodyStarts
  <2>1. /\ TypeOK /\ Seated /\ Dealt
        /\ state = "DoneBetting" /\ Members(curPlayers) = Eligible(act)
        /\ Members(curPlayers) # {}
        /\ activePlayers \in Seq(Seats) /\ curPlayers \in Seq(Seats)
        /\ Members(activePlayers) \subseteq Seats /\ Members(curPlayers) \subseteq Members(activePlayers)
        /\ Distinct(activePlayers) /\ Distinct(curPlayers)
        /\ HandleOrphanedSeats \in [dealer : Members(activePlayers),
                                    smallBlind : Members(activePlayers),
                                    bigBlind : Members(activePlayers)]
        /\ PostFlopFirst \in Members(curPlayers)
    BY FirstOfStreet
  <2>6. /\ curPlayers' \in Seq(Seats) /\ Distinct(curPlayers')
        /\ Members(curPlayers') = Members(curPlayers)
        /\ curPlayer' \in Members(curPlayers') /\ activePlayers' = activePlayers
    BY <1>2, <2>1, SetHeadKeeps DEF DealStreet, ReorderPostFlop
  <2>7. {dealer', smallBlind', bigBlind'} \subseteq Members(activePlayers) \cup {None}
    BY <1>2, <2>1 DEF DealStreet, ReorderPostFlop, SetButtons, buttons, Seated
  <2>8. commState' \in CommStates \ {"NotStarted"}
    BY <1>2, <2>1 DEF DealStreet, Dealt, TypeOK, CommStates, NextStreet
  <2>9. /\ act' \in [Seats -> Actions] /\ amt' \in [Seats -> Chips]
        /\ Occupied(act') = Occupied(act) /\ Eligible(act') = Eligible(act)
    <3>1. act \in [Seats -> Actions] /\ amt \in [Seats -> Chips]
      BY <2>1 DEF TypeOK
    <3>2. act' = [s \in Seats |-> IF s \in Eligible(act) THEN "FirstAction" ELSE act[s]]
      BY <1>2, <2>1 DEF DealStreet
    <3>3. amt' \in [Seats -> Chips]
      BY <1>2, <3>1, ChipArithmetic DEF DealStreet
    <3> QED BY <3>1, <3>2, <3>3 DEF Occupied, Eligible, Actions
  <2>10. TypeOK'
    <3>1. bet' \in Chips /\ state' \in States /\ phase' \in FlowPhases \cup {"Open"}
      BY <1>2, ChipArithmetic DEF DealStreet, States, BettingStates
    <3>2. {dealer', smallBlind', bigBlind', curPlayer'} \subseteq Seats \cup {None}
      BY <2>1, <2>6, <2>7
    <3>3. UNCHANGED << chips, levels, pots, finish >>
      BY <1>2 DEF DealStreet
    <3> QED BY <2>1, <2>6, <2>8, <2>9, <3>1, <3>2, <3>3 DEF TypeOK, levels, finish
  <2>11. Seated'
    <3>1. numPlayers' = numPlayers
      BY <1>2 DEF DealStreet, levels
    <3> QED BY <2>1, <2>6, <2>7, <2>9, <3>1 DEF Seated
  <2>12. Dealt' /\ Waiting' /\ Posting' /\ Ending'
    <3>1. state' = "Rounds" /\ phase' = "Open"
      BY <1>2 DEF DealStreet
    <3> QED BY <2>1, <2>6, <2>8, <2>9, <3>1 DEF Dealt, Waiting, Posting, Ending, BettingStates
  <2> QED BY <2>10, <2>11, <2>12 DEF IInv
<1> QED BY <1>1, <1>2

-----------------------------------------------------------------------------
(* FinishRound.                                                            *)

\* The pots that are paid out.
LEMMA FinalPotsType ==
  ASSUME pots \in AllPots
  PROVE  FinalPots \in AllPots
<1> DEFINE P == CalculateSidePotTotals(pots)
<1>1. P \in AllPots /\ NoPot \in Pot
  BY CalculateSidePotTotalsType, NoPotsType
<1> HIDE DEF P
<1> QED BY <1>1 DEF FinalPots, P, AllPots

\* Chips are paid out to seats.
LEMMA AwardType ==
  ASSUME chips \in [Seats -> Chips], NEW total \in Chips, NEW W \in SUBSET Seats, Award(total, W)
  PROVE  chips' \in [Seats -> Chips]
<1>1. ASSUME NEW s \in W PROVE Plus(chips[s], total \div Cardinality(W)) \in Chips
  <2>1. IsFiniteSet(W) /\ Cardinality(W) \in Nat /\ Cardinality(W) # 0
    BY <1>1, SeatsCounted, FS_EmptySet
  <2>2. total \in Nat
    BY ChipModAssumption DEF Chips
  <2>3. total \div Cardinality(W) \in Nat
    BY <2>1, <2>2
  <2> QED BY <2>3, ChipArithmetic
<1> QED BY <1>1 DEF Award

\* A win by folds, from a phase in which a round is finished.
LEMMA WinByFoldsKeeps ==
  ASSUME IInv, NEW next \in {"Eliminate", "GameOver"}, WinByFolds(next), Following,
         commState # "NotStarted", next = "GameOver" => Len(activePlayers) = 1
  PROVE  IInv'
<1>1. CASE ~IsEmpty(FinalPots)
  BY <1>1, PanicKeeps DEF WinByFolds
<1>2. CASE IsEmpty(FinalPots)
  <2>1. pots.main.total \in Chips /\ NonFolded(act) \in SUBSET Seats
    BY PotsFields DEF IInv, TypeOK, NonFolded, Pot
  <2>2. chips' \in [Seats -> Chips]
    BY <1>2, <2>1, AwardType DEF IInv, TypeOK, WinByFolds
  <2>3. /\ state' = IF next = "GameOver" THEN "GameOver" ELSE "RoundOver"
        /\ phase' = next /\ winners' \in SUBSET Seats /\ pots' \in AllPots
    BY <1>2, <2>1, FinalPotsType DEF WinByFolds, IInv, TypeOK
  <2>4. /\ UNCHANGED << act, amt, lists, curPlayer, buttons, levels, bet, commState, rank, nextPot >>
    BY <1>2 DEF WinByFolds
  <2>5. TypeOK'
    BY <2>2, <2>3, <2>4 DEF IInv, TypeOK, lists, buttons, levels, FlowPhases, States
  <2>6. Seated'
    BY <2>4, SeatedStays DEF IInv, levels
  <2>7. Dealt' /\ Waiting' /\ Posting' /\ Ending'
    BY <2>3, <2>4 DEF Dealt, Waiting, Posting, Ending, lists
  <2> QED BY <2>5, <2>6, <2>7 DEF IInv
<1> QED BY <1>1, <1>2

\* A round is won by folds.
LEMMA FinishByFoldsKeeps ==
  ASSUME IInv, FinishByFolds
  PROVE  IInv'
  BY WinByFoldsKeeps DEF FinishByFolds, IInv, Following, Dealt

\* The main pot goes to the best hands.
LEMMA ShowHandsKeeps ==
  ASSUME IInv, ShowHands
  PROVE  IInv'
<1>1. PICK r \in Ranks :
        /\ rank' = r /\ winners' = BestOf(r, NonFolded(act))
        /\ Award(pots.main.total, BestOf(r, NonFolded(act)))
        /\ state' = IF Cardinality(BestOf(r, NonFolded(act))) = 1 THEN "ShowHands" ELSE "SplitPot"
  BY DEF ShowHands
<1>2. r \in [Seats -> Nat]
  <2>1. Cardinality(Seats) \in Nat
    BY SeatsAssumption, FS_CardinalityType
  <2> QED BY <2>1 DEF Ranks
<1>3. BestOf(r, NonFolded(act)) \in SUBSET Seats
  BY DEF BestOf, NonFolded
<1>4. pots.main.total \in Chips
  BY PotsFields DEF IInv, TypeOK, Pot
<1>5. chips' \in [Seats -> Chips]
  BY <1>1, <1>3, <1>4, AwardType DEF IInv, TypeOK
<1>6. pots' \in AllPots
  BY FinalPotsType DEF ShowHands, IInv, TypeOK
<1>7. /\ UNCHANGED << act, amt, lists, curPlayer, buttons, levels, bet, commState >>
      /\ phase' = "Award" /\ nextPot' = 1
  BY DEF ShowHands
<1>8. TypeOK'
  BY <1>1, <1>2, <1>3, <1>5, <1>6, <1>7 DEF IInv, TypeOK, lists, buttons, levels, FlowPhases, States
<1>9. Seated'
  BY <1>7, SeatedStays DEF IInv, Following, ShowHands, levels
<1>10. Dealt' /\ Waiting' /\ Posting' /\ Ending'
  BY <1>1, <1>7 DEF IInv, Following, ShowHands, Dealt, Waiting, Posting, Ending
<1> QED BY <1>8, <1>9, <1>10 DEF IInv

\* One side pot goes to its best hands.
LEMMA AwardSidePotKeeps ==
  ASSUME IInv, AwardSidePot
  PROVE  IInv'
<1> DEFINE in == {s \in PotAt(nextPot).players : act[s] # "Fold"}
           best == BestOf(rank, in)
<1>1. CASE \E s, q \in best : s # q /\ rank[s] = 0
  BY <1>1, PanicKeeps DEF AwardSidePot
<1>2. CASE ~\E s, q \in best : s # q /\ rank[s] = 0
  <2>1. PotAt(nextPot) \in Pot
    <3>1. nextPot \in Nat \ {0}
      BY DEF IInv, TypeOK, Following, Ending, AwardSidePot
    <3>2. pots.order \in Seq(Seats) /\ pots.side \in [Seats -> Pot] /\ pots.betting \in Pot
      BY PotsFields DEF IInv, TypeOK
    <3>3. nextPot <= Len(pots.order) => pots.order[nextPot] \in Seats
      BY <3>1, <3>2
    <3> QED BY <3>2, <3>3 DEF PotAt
  <2>2. best \in SUBSET Seats /\ PotAt(nextPot).total \in Chips
    BY <2>1 DEF BestOf, Pot
  <2>3. chips' \in [Seats -> Chips]
    <3>1. IF in = {} THEN UNCHANGED chips ELSE Award(PotAt(nextPot).total, best)
      BY <1>2 DEF AwardSidePot
    <3> HIDE DEF best, in
    <3> QED BY <2>2, <3>1, AwardType DEF IInv, TypeOK
  <2>4. winners' \in SUBSET Seats /\ nextPot' \in Nat \ {0}
    <3>1. winners' = winners \cup best /\ nextPot' = nextPot + 1
      BY <1>2 DEF AwardSidePot
    <3> HIDE DEF best
    <3> QED BY <2>2, <3>1 DEF IInv, TypeOK
  <2>5. UNCHANGED << act, amt, lists, curPlayer, buttons, levels, bet, state, commState, pots, rank,
                     phase >>
    BY <1>2 DEF AwardSidePot
  <2>6. phase = "Award"
    BY DEF AwardSidePot
  <2>7. TypeOK'
    BY <2>3, <2>4, <2>5 DEF IInv, TypeOK, lists, buttons, levels
  <2>8. Seated'
    BY <2>5, <2>6, SeatedStays DEF IInv, Following, levels
  <2>9. Dealt' /\ Waiting' /\ Posting' /\ Ending'
    BY <2>4, <2>5, <2>6 DEF IInv, Following, Dealt, Waiting, Posting, Ending
  <2> QED BY <2>7, <2>8, <2>9 DEF IInv
<1> QED BY <1>1, <1>2

\* All the pots are paid out.
LEMMA AwardDoneKeeps ==
  ASSUME IInv, AwardDone
  PROVE  IInv'
<1>1. rank' \in [Seats -> Nat] /\ nextPot' = 0 /\ phase = "Award" /\ phase' = "Eliminate"
      /\ UNCHANGED << players, lists, curPlayer, buttons, levels, bet, state, commState, pots,
                      winners >>
  BY DEF AwardDone
<1>2. TypeOK'
  BY <1>1 DEF IInv, TypeOK, players, lists, buttons, levels, FlowPhases
<1>3. Seated'
  BY <1>1, SeatedStays DEF IInv, Following, players, levels
<1>4. Dealt' /\ Waiting' /\ Posting' /\ Ending'
  BY <1>1 DEF IInv, Following, Dealt, Waiting, Posting, Ending
<1> QED BY <1>2, <1>3, <1>4 DEF IInv

\* The player who is left had folded.
LEMMA AbandonPotsKeeps ==
  ASSUME IInv, AbandonPots
  PROVE  IInv'
<1>1. /\ phase = "Abandoned" /\ phase' = "GameOver" /\ state' = "GameOver"
      /\ winners' = {activePlayers[1]}
      /\ UNCHANGED << players, lists, curPlayer, buttons, levels, bet, commState, pots, rank, nextPot >>
  BY DEF AbandonPots
<1>2. Len(activePlayers) = 1 /\ activePlayers \in Seq(Seats)
  BY <1>1 DEF IInv, Following, Ending, TypeOK
<1>3. activePlayers[1] \in Seats
  BY <1>2, HeadIsMember, MembersType
<1>4. TypeOK'
  BY <1>1, <1>3 DEF IInv, TypeOK, players, lists, buttons, levels, FlowPhases, States
<1>5. Seated'
  BY <1>1, SeatedStays DEF IInv, Following, players, levels
<1>6. Dealt' /\ Waiting' /\ Posting' /\ Ending'
  BY <1>1, <1>2 DEF IInv, Following, Dealt, Waiting, Posting, Ending, lists
<1> QED BY <1>4, <1>5, <1>6 DEF IInv

\* The player who is left wins the pots.
LEMMA AbandonToLastKeeps ==
  ASSUME IInv, AbandonToLast
  PROVE  IInv'
  BY WinByFoldsKeeps DEF AbandonToLast, IInv, Following, Dealt, Ending

-----------------------------------------------------------------------------
(* Eliminations and the end of the game.                                   *)

\* The players without chips are counted.
LEMMA EliminateKeeps ==
  ASSUME IInv, Eliminate
  PROVE  IInv'
<1>1. /\ phase = "Eliminate" /\ phase' = "Eliminating"
      /\ state' = IF Cardinality(Broke) = numPlayers - 1 THEN "GameOver" ELSE state
      /\ UNCHANGED << players, lists, curPlayer, buttons, levels, bet, commState, pots, finish >>
  BY DEF Eliminate
<1>2. state # "GameOver" /\ TypeOK /\ Dealt
  BY <1>1 DEF IInv, Following, Ending
<1>3. Broke' = Broke /\ numPlayers' = numPlayers
  BY <1>1 DEF Broke, lists, players, levels
<1>4. TypeOK'
  BY <1>1, <1>2 DEF TypeOK, players, lists, buttons, levels, finish, FlowPhases, States
<1>5. Seated'
  BY <1>1, SeatedStays DEF IInv, Following, players, levels
<1>6. Dealt' /\ Waiting' /\ Posting' /\ Ending'
  BY <1>1, <1>2, <1>3 DEF Dealt, Waiting, Posting, Ending
<1> QED BY <1>4, <1>5, <1>6 DEF IInv

\* Nobody without chips is left.
LEMMA EliminationDoneKeeps ==
  ASSUME IInv, EliminationDone
  PROVE  IInv'
<1>1. /\ phase = "Eliminating" /\ Broke = {}
      /\ phase' = IF state = "GameOver" THEN "GameOver" ELSE "NewRound"
      /\ UNCHANGED << players, lists, curPlayer, buttons, levels, bet, state, commState, pots, finish >>
  BY DEF EliminationDone
<1>2. state = "GameOver" <=> Len(activePlayers) = 1
  <2>1. Cardinality(Broke) = 0
    BY <1>1, FS_EmptySet
  <2>2. numPlayers = Len(activePlayers) /\ numPlayers \in Nat
    BY <1>1 DEF IInv, Following, Seated, TypeOK
  <2> QED BY <1>1, <2>1, <2>2 DEF IInv, Following, Ending
<1>3. TypeOK'
  BY <1>1 DEF IInv, TypeOK, players, lists, buttons, levels, finish, FlowPhases
<1>4. Seated'
  BY <1>1, SeatedStays DEF IInv, Following, players, levels
<1>5. Dealt' /\ Waiting' /\ Posting' /\ Ending'
  BY <1>1, <1>2 DEF IInv, Following, Dealt, Waiting, Posting, Ending, lists
<1> QED BY <1>3, <1>4, <1>5 DEF IInv

\* The table after Reset, before it is known who is still at it.
LEMMA ResetType ==
  ASSUME TypeOK, NEW keep \in Seats \cup {None}, NEW cur, Reset(keep, cur),
         activePlayers' \in Seq(Seats), dealer' \in Seats \cup {None},
         phase' \in FlowPhases \cup {"Open", "Lost"}
  PROVE  /\ TypeOK'
         /\ Occupied(act') = IF keep = None THEN {} ELSE {keep}
         /\ Members(curPlayers') = IF keep = None THEN {} ELSE {keep}
         /\ Distinct(curPlayers')
<1>1. None \notin Seats
  BY TableAssumption
<1>2. Members(<< >>) = {} /\ Distinct(<< >>) /\ << >> \in Seq(Seats)
  BY DEF Members, Distinct
<1>3. keep # None => Members(<< keep >>) = {keep} /\ Distinct(<< keep >>) /\ << keep >> \in Seq(Seats)
  BY DEF Members, Distinct
<1>4. /\ act' = [s \in Seats |-> IF s = keep THEN "FirstAction" ELSE "VacantSeat"]
      /\ amt' = [s \in Seats |-> 0]
      /\ chips' = [s \in Seats |-> IF s = keep THEN chips[s] ELSE StartChips]
      /\ curPlayers' = IF keep = None THEN << >> ELSE << keep >>
      /\ curPlayer' = IF keep = None THEN None
                      ELSE IF keep \in Members(cur) THEN keep ELSE curPlayer
      /\ smallBlind' = None /\ bigBlind' = None
      /\ numPlayers' = IF keep = None THEN 0 ELSE 1
      /\ roundCount' = 0 /\ ante' = Ante /\ bet' = 0
      /\ state' = "NotStarted" /\ pots' = NoPots /\ winners' = {}
      /\ UNCHANGED << commState, rank, nextPot >>
  BY DEF Reset
<1>5. TypeOK'
  <2>1. act' \in [Seats -> Actions] /\ amt' \in [Seats -> Chips] /\ chips' \in [Seats -> Chips]
    BY <1>4, ChipArithmetic, TableAssumption DEF TypeOK, Actions
  <2>2. curPlayers' \in Seq(Seats) /\ curPlayer' \in Seats \cup {None}
    BY <1>2, <1>3, <1>4 DEF TypeOK
  <2>3. ante' \in Chips /\ bet' \in Chips /\ pots' \in AllPots
    BY <1>4, ChipArithmetic, NoPotsType, TableAssumption
  <2> QED BY <1>4, <2>1, <2>2, <2>3 DEF TypeOK, States
<1>6. Occupied(act') = IF keep = None THEN {} ELSE {keep}
  BY <1>1, <1>4 DEF Occupied
<1> QED BY <1>2, <1>3, <1>4, <1>5, <1>6

\* A table that is reset around the players that are left, if any.
LEMMA ResetKeeps ==
  ASSUME TypeOK, NEW keep \in Seats \cup {None}, NEW cur, Reset(keep, cur),
         activePlayers' \in Seq(Seats), Distinct(activePlayers'),
         Members(activePlayers') = IF keep = None THEN {} ELSE {keep},
         Len(activePlayers') = IF keep = None THEN 0 ELSE 1,
         dealer' \in Members(activePlayers') \cup {None},
         phase' = "Open" \/ (phase' = "Eliminating" /\ keep = None /\ commState # "NotStarted")
  PROVE  IInv'
<1>1. /\ TypeOK' /\ Distinct(curPlayers')
      /\ Occupied(act') = Members(activePlayers') /\ Members(curPlayers') = Members(activePlayers')
  <2>1. dealer' \in Seats \cup {None} /\ phase' \in FlowPhases \cup {"Open", "Lost"}
    BY MembersType DEF FlowPhases
  <2> QED BY <2>1, ResetType
<1>2. /\ numPlayers' = IF keep = None THEN 0 ELSE 1
      /\ smallBlind' = None /\ bigBlind' = None
      /\ state' = "NotStarted" /\ commState' = commState
      /\ act' = [s \in Seats |-> IF s = keep THEN "FirstAction" ELSE "VacantSeat"]
  BY DEF Reset
<1>3. Seated'
  BY <1>1, <1>2 DEF Seated
<1>4. Dealt' /\ Waiting' /\ Posting'
  BY <1>1, <1>2 DEF Dealt, Waiting, Posting, BettingStates
<1>5. Ending'
  <2>1. CASE phase' = "Open"
    BY <2>1 DEF Ending
  <2>2. CASE phase' = "Eliminating" /\ keep = None
    <3>1. Broke' = {}
      BY <2>2 DEF Broke
    <3>2. Cardinality(Broke') = 0 /\ numPlayers' = 0
      BY <1>2, <2>2, <3>1, FS_EmptySet
    <3> QED BY <1>2, <2>2, <3>2 DEF Ending
  <2> QED BY <2>1, <2>2
<1> QED BY <1>1, <1>3, <1>4, <1>5 DEF IInv

\* The table restarts around a winner.
LEMMA GameOverKeeps ==
  ASSUME IInv, GameOver
  PROVE  IInv'
<1>1. PICK w \in winners :
        /\ Reset(w, curPlayers)
        /\ phase' = IF w \in Members(activePlayers) THEN "Open" ELSE "Lost"
  BY DEF GameOver
<1>2. dealer' = activePlayers[1] /\ activePlayers' = activePlayers /\ phase = "GameOver"
  BY DEF GameOver
<1>3. /\ TypeOK /\ activePlayers \in Seq(Seats) /\ Len(activePlayers) = 1
      /\ Distinct(activePlayers) /\ w \in Seats
  BY <1>2 DEF IInv, TypeOK, Following, Seated, Ending
<1>4. Members(activePlayers) = {activePlayers[1]} /\ activePlayers[1] \in Seats
  BY <1>3, AloneInList, MembersType
<1>5. CASE w \in Members(activePlayers)
  BY <1>1, <1>2, <1>3, <1>4, <1>5, ResetKeeps, TableAssumption
<1>6. CASE w \notin Members(activePlayers)
  BY <1>1, <1>2, <1>3, <1>4, <1>6, ResetType DEF IInv, Following
<1> QED BY <1>5, <1>6

\* Player p leaves the lists; cur is the betting list it leaves.
LEMMA UnseatKeeps ==
  ASSUME TypeOK, Seated, NEW p \in Members(activePlayers), NEW a \in [Seats -> Actions],
         \A s \in Seats \ {p} : a[s] = act[s],
         NEW cur \in Seq(Seats), Distinct(cur), Members(cur) \subseteq Members(activePlayers),
         Unseat(p, a, cur)
  PROVE  /\ Seated'
         /\ activePlayers' \in Seq(Seats) /\ curPlayers' \in Seq(Seats)
         /\ curPlayers' = RemovePlayer(cur, p)
         /\ Members(activePlayers') = Members(activePlayers) \ {p}
         /\ Members(curPlayers') = Members(cur) \ {p}
         /\ Len(activePlayers') = Len(activePlayers) - 1
         /\ {dealer', smallBlind', bigBlind'} \subseteq Seats \cup {None}
         /\ act' \in [Seats -> Actions] /\ amt' \in [Seats -> Chips] /\ chips' \in [Seats -> Chips]
         /\ \A s \in Seats \ {p} : act'[s] = act[s] /\ chips'[s] = chips[s]
         /\ act'[p] = "VacantSeat" /\ Eligible(act') = Eligible(act) \ {p}
         /\ numPlayers' = numPlayers - 1 /\ numPlayers' \in Nat
<1>1. /\ activePlayers' = RemovePlayer(activePlayers, p)
      /\ curPlayers' = RemovePlayer(cur, p)
      /\ numPlayers' = numPlayers - 1
      /\ dealer' = Without(dealer, p) /\ smallBlind' = Without(smallBlind, p)
      /\ bigBlind' = Without(bigBlind, p)
      /\ act' = [a EXCEPT ![p] = "VacantSeat"]
      /\ amt' = [amt EXCEPT ![p] = 0] /\ chips' = [chips EXCEPT ![p] = StartChips]
  BY DEF Unseat, Unlist
<1>2. /\ activePlayers \in Seq(Seats) /\ Distinct(activePlayers) /\ p \in Seats
      /\ numPlayers = Len(activePlayers) /\ numPlayers \in Nat
      /\ act \in [Seats -> Actions] /\ amt \in [Seats -> Chips] /\ chips \in [Seats -> Chips]
      /\ Members(activePlayers) = Occupied(act)
      /\ {dealer, smallBlind, bigBlind} \subseteq Members(activePlayers) \cup {None}
  BY MembersType DEF TypeOK, Seated
<1>3. /\ activePlayers' \in Seq(Seats) /\ Distinct(activePlayers')
      /\ Members(activePlayers') = Members(activePlayers) \ {p}
      /\ Len(activePlayers') = Len(activePlayers) - 1
  BY <1>1, <1>2, RemovePlayerKeeps
<1>4. /\ curPlayers' \in Seq(Seats) /\ Distinct(curPlayers') /\ Members(curPlayers') = Members(cur) \ {p}
  BY <1>1, RemovePlayerKeeps
<1>5. {dealer', smallBlind', bigBlind'} \subseteq Members(activePlayers') \cup {None}
  BY <1>1, <1>2, <1>3 DEF Without
<1>6. /\ act' \in [Seats -> Actions] /\ amt' \in [Seats -> Chips] /\ chips' \in [Seats -> Chips]
      /\ \A s \in Seats \ {p} : act'[s] = act[s] /\ chips'[s] = chips[s]
      /\ act'[p] = "VacantSeat"
  BY <1>1, <1>2, ChipArithmetic, TableAssumption DEF Actions
<1>7. Occupied(act') = Occupied(act) \ {p} /\ Eligible(act') = Eligible(act) \ {p}
  BY <1>2, <1>6 DEF Occupied, Eligible
<1>8. numPlayers' \in Nat /\ numPlayers' = Len(activePlayers')
  <2>1. Len(activePlayers') \in Nat
    BY <1>3
  <2> QED BY <1>1, <1>2, <1>3, <2>1
<1>9. Members(activePlayers') \subseteq Seats
  BY <1>3, MembersType
<1>10. Seated'
  BY <1>2, <1>3, <1>4, <1>5, <1>7, <1>8 DEF Seated
<1> QED BY <1>1, <1>3, <1>4, <1>5, <1>6, <1>7, <1>8, <1>9, <1>10

\* A player without chips leaves the table.
LEMMA RemoveEliminatedKeeps ==
  ASSUME IInv, RemoveEliminated
  PROVE  IInv'
<1> DEFINE p == FirstIn(activePlayers, Broke)
<1>1. /\ TypeOK /\ Seated /\ phase = "Eliminating" /\ Broke # {}
      /\ commState # "NotStarted"
      /\ state = "GameOver" <=> Cardinality(Broke) = numPlayers - 1
  BY DEF RemoveEliminated, IInv, Following, Dealt, Ending
<1>2. /\ activePlayers \in Seq(Seats) /\ Distinct(activePlayers)
      /\ curPlayers \in Seq(Seats) /\ Distinct(curPlayers)
      /\ Members(curPlayers) \subseteq Members(activePlayers)
      /\ numPlayers = Len(activePlayers) /\ act \in [Seats -> Actions]
      /\ numPlayers \in Nat
  BY <1>1 DEF TypeOK, Seated
<1>3. p \in Members(activePlayers) /\ p \in Broke
  <2>1. Members(activePlayers) \cap Broke # {}
    BY <1>1 DEF Broke
  <2> QED BY <1>2, <2>1, FirstInKeeps
<1>4. Broke \in SUBSET Seats
  BY <1>2, MembersType DEF Broke
<1> HIDE DEF p
<1>5. CASE numPlayers = 1
  <2>1. /\ Reset(None, << >>) /\ activePlayers' = RemovePlayer(activePlayers, p)
        /\ dealer' = None /\ phase' = phase
    BY <1>5 DEF RemoveEliminated, p
  <2>2. /\ activePlayers' \in Seq(Seats) /\ Distinct(activePlayers')
        /\ Len(activePlayers') = 0 /\ Members(activePlayers') = {}
    <3>1. /\ activePlayers' \in Seq(Seats) /\ Distinct(activePlayers')
          /\ Len(activePlayers') = Len(activePlayers) - 1
      BY <1>2, <1>3, <2>1, RemovePlayerKeeps
    <3>2. Len(activePlayers') = 0
      <4>1. Len(activePlayers) = 1
        BY <1>2, <1>5
      <4> QED BY <3>1, <4>1
    <3> QED BY <3>1, <3>2, AloneInList
  <2> QED BY <1>1, <2>1, <2>2, ResetKeeps
<1>6. CASE numPlayers # 1
  <2>1. /\ Unseat(p, act, curPlayers) /\ pots' = PublicInfo(pots)
        /\ phase' = IF numPlayers > 2 /\ state = "RoundOver" THEN "Lost" ELSE phase
        /\ UNCHANGED << curPlayer, roundCount, ante, bet, state, commState, finish >>
    BY <1>6 DEF RemoveEliminated, p
  <2>2. /\ Seated'
        /\ activePlayers' \in Seq(Seats) /\ curPlayers' \in Seq(Seats)
        /\ Members(activePlayers') = Members(activePlayers) \ {p}
        /\ {dealer', smallBlind', bigBlind'} \subseteq Seats \cup {None}
        /\ act' \in [Seats -> Actions] /\ amt' \in [Seats -> Chips] /\ chips' \in [Seats -> Chips]
        /\ \A s \in Seats \ {p} : chips'[s] = chips[s]
        /\ numPlayers' = numPlayers - 1 /\ numPlayers' \in Nat
    BY <1>1, <1>2, <1>3, <2>1, UnseatKeeps
  <2>3. pots' \in AllPots
    BY <1>1, <2>1, PublicInfoType DEF TypeOK
  <2>4. TypeOK'
    BY <1>1, <2>1, <2>2, <2>3 DEF TypeOK, finish
  <2>5. CASE phase' = "Lost"
    BY <2>4, <2>5 DEF IInv, Following
  <2>6. CASE phase' = "Eliminating"
    <3>1. Members(activePlayers) \subseteq Seats
      BY <1>2, MembersType
    <3>2. Broke' = Broke \ {p}
      BY <2>2, <3>1 DEF Broke
    <3>3. Cardinality(Broke') = Cardinality(Broke) - 1 /\ Cardinality(Broke) \in Nat
      BY <1>3, <1>4, <3>2, SeatsCounted, FS_RemoveElement
    <3>4. state' = "GameOver" <=> Cardinality(Broke') = numPlayers' - 1
      BY <1>1, <1>2, <2>1, <2>2, <3>3
    <3>5. Dealt' /\ Waiting' /\ Posting' /\ Ending'
      BY <1>1, <2>1, <2>6, <3>4 DEF Dealt, Waiting, Posting, Ending
    <3> QED BY <2>2, <2>4, <3>5 DEF IInv
  <2> QED BY <1>1, <2>1, <2>5, <2>6
<1> QED BY <1>5, <1>6

-----------------------------------------------------------------------------
(* Players take and leave seats; the first hand begins.                    *)

\* The last player leaves the table empty.
LEMMA LastLeaves ==
  ASSUME TypeOK, Seated, NEW p \in Seats, LeaveLast(p)
  PROVE  /\ IInv' /\ activePlayers' = << >> /\ curPlayers' = << >> /\ phase' = "Open"
         /\ state' = "NotStarted" /\ roundCount' = 0
<1>1. TypeOK /\ Seated /\ phase = "Open" /\ numPlayers = 1 /\ p \in Occupied(act)
  BY DEF LeaveLast, Occupied
<1>2. /\ Reset(None, << >>) /\ activePlayers' = RemovePlayer(activePlayers, p)
      /\ dealer' = None /\ phase' = phase
  BY DEF LeaveLast
<1>3. /\ activePlayers \in Seq(Seats) /\ Distinct(activePlayers)
      /\ Len(activePlayers) = 1 /\ p \in Members(activePlayers)
  BY <1>1 DEF TypeOK, Seated
<1>4. /\ activePlayers' \in Seq(Seats) /\ Distinct(activePlayers')
      /\ Len(activePlayers') = 0 /\ Members(activePlayers') = {} /\ activePlayers' = << >>
  BY <1>2, <1>3, RemovePlayerKeeps, AloneInList
<1>5. IInv'
  BY <1>1, <1>2, <1>4, ResetKeeps
<1>6. curPlayers' = << >> /\ state' = "NotStarted" /\ roundCount' = 0
  BY <1>2 DEF Reset
<1> QED BY <1>1, <1>2, <1>4, <1>5, <1>6

LEMMA LeaveLastKeeps ==
  ASSUME IInv, NEW p \in Seats, LeaveLast(p)
  PROVE  IInv'
  BY LastLeaves DEF LeaveLast, IInv, Following

\* A player takes a vacant seat, between requests or in a pause of a round.
LEMMA JoinSeats ==
  ASSUME PausesInRounds, TypeOK, Seated, NEW p \in Seats, Join(p)
  PROVE  /\ TypeOK' /\ Seated'
         /\ act' = [act EXCEPT ![p] = IF state # "NotStarted" THEN "MidroundAddition" ELSE "FirstAction"]
         /\ act[p] = "VacantSeat" /\ p \notin Members(activePlayers)
         /\ activePlayers' = AddPlayer(activePlayers, p)
         /\ Members(activePlayers') = Members(activePlayers) \cup {p}
         /\ Len(activePlayers') = Len(activePlayers) + 1
         /\ state # "NotStarted" => /\ curPlayers' = curPlayers /\ Eligible(act') = Eligible(act)
                                    /\ curPlayer \in Members(curPlayers) => curPlayer' = curPlayer
         /\ state = "NotStarted" => Members(curPlayers') = Members(curPlayers) \cup {p}
         /\ UNCHANGED << amt, chips, roundCount, ante, bet, state, commState, pots, finish, phase >>
         /\ phase \in {"Open", "PostBetting", "RunOut"}
<1> DEFINE started == state # "NotStarted"
           active == AddPlayer(activePlayers, p)
           cur == IF started THEN curPlayers ELSE AddPlayer(curPlayers, p)
<1>1. /\ act' = [act EXCEPT ![p] = IF started THEN "MidroundAddition" ELSE "FirstAction"]
      /\ activePlayers' = active /\ curPlayers' = cur
      /\ curPlayer' = IF curPlayer = None /\ cur # << >> THEN cur[1] ELSE curPlayer
      /\ dealer' = IF dealer = None THEN active[1] ELSE dealer
      /\ smallBlind' = IF dealer # None /\ smallBlind = None THEN NextOf(active, dealer)
                       ELSE smallBlind
      /\ bigBlind' = IF dealer # None /\ smallBlind # None /\ bigBlind = None
                     THEN NextOf(active, smallBlind) ELSE bigBlind
      /\ numPlayers' = numPlayers + 1
      /\ UNCHANGED << amt, chips, roundCount, ante, bet, state, commState, pots, finish, phase >>
      /\ phase \in {"Open", "PostBetting", "RunOut"} /\ act[p] = "VacantSeat"
  BY DEF Join, PausesInRounds
<1>2. /\ TypeOK /\ Seated
      /\ activePlayers \in Seq(Seats) /\ Distinct(activePlayers)
      /\ curPlayers \in Seq(Seats) /\ Distinct(curPlayers)
      /\ Members(curPlayers) \subseteq Members(activePlayers)
      /\ Members(activePlayers) = Occupied(act) /\ p \notin Members(activePlayers)
      /\ numPlayers = Len(activePlayers) /\ numPlayers \in Nat
      /\ {dealer, smallBlind, bigBlind} \subseteq Members(activePlayers) \cup {None}
      /\ act \in [Seats -> Actions] /\ curPlayer \in Seats \cup {None}
  BY <1>1 DEF TypeOK, Seated, Occupied
<1>3. /\ active \in Seq(Seats) /\ Distinct(active) /\ Members(active) = Members(activePlayers) \cup {p}
      /\ Len(active) = Len(activePlayers) + 1
  BY <1>2, AddPlayerKeeps
<1>4. /\ cur \in Seq(Seats) /\ Distinct(cur) /\ Members(cur) \subseteq Members(active)
      /\ Members(cur) = IF started THEN Members(curPlayers) ELSE Members(curPlayers) \cup {p}
  <2>1. p \notin Members(curPlayers)
    BY <1>2
  <2>2. /\ AddPlayer(curPlayers, p) \in Seq(Seats) /\ Distinct(AddPlayer(curPlayers, p))
        /\ Members(AddPlayer(curPlayers, p)) = Members(curPlayers) \cup {p}
    BY <1>2, <2>1, AddPlayerKeeps
  <2> HIDE DEF active
  <2> QED BY <1>2, <1>3, <2>2
<1> HIDE DEF active, cur
<1>5. active[1] \in Members(active) /\ Members(active) \subseteq Seats
      /\ (cur # << >> => cur[1] \in Seats)
  <2>1. cur # << >> => Len(cur) # 0
    BY <1>4, AloneInList
  <2>2. Members(cur) \subseteq Seats
    BY <1>4, MembersType
  <2> QED BY <1>3, <1>4, <2>1, <2>2, HeadIsMember, MembersType
<1>6. {dealer', smallBlind', bigBlind'} \subseteq Members(active) \cup {None}
  <2>1. \A q \in Members(active) : NextOf(active, q) \in Members(active)
    BY <1>3, NextOfKeeps
  <2> QED BY <1>1, <1>2, <1>3, <1>5, <2>1
<1>7. /\ act' \in [Seats -> Actions] /\ Occupied(act') = Occupied(act) \cup {p}
      /\ started => Eligible(act') = Eligible(act)
  BY <1>1, <1>2 DEF Actions, Occupied, Eligible
<1>8. TypeOK'
  <2>1. curPlayer' \in Seats \cup {None} /\ {dealer', smallBlind', bigBlind'} \subseteq Seats \cup {None}
    BY <1>1, <1>2, <1>5, <1>6
  <2> QED BY <1>1, <1>2, <1>3, <1>4, <1>7, <2>1 DEF TypeOK, finish
<1>9. Seated'
  BY <1>1, <1>2, <1>3, <1>4, <1>6, <1>7 DEF Seated
<1>10. started /\ curPlayer \in Members(curPlayers) => curPlayer' = curPlayer
  BY <1>1, <1>2, MembersType, TableAssumption
<1>11. started => curPlayers' = curPlayers
  BY <1>1 DEF cur
<1> QED BY <1>1, <1>2, <1>3, <1>4, <1>7, <1>8, <1>9, <1>10, <1>11 DEF active

LEMMA JoinKeeps ==
  ASSUME PausesInRounds, IInv, NEW p \in Seats, Join(p)
  PROVE  IInv'
<1>1. TypeOK /\ Seated /\ Waiting /\ Dealt /\ Following
  BY DEF IInv, Following, Join, PausesInRounds
<1>2. /\ TypeOK' /\ Seated'
      /\ act' = [act EXCEPT ![p] = IF state # "NotStarted" THEN "MidroundAddition" ELSE "FirstAction"]
      /\ act[p] = "VacantSeat" /\ p \notin Members(activePlayers)
      /\ Members(activePlayers') = Members(activePlayers) \cup {p}
      /\ state # "NotStarted" => /\ curPlayers' = curPlayers /\ Eligible(act') = Eligible(act)
                                 /\ curPlayer \in Members(curPlayers) => curPlayer' = curPlayer
      /\ state = "NotStarted" => Members(curPlayers') = Members(curPlayers) \cup {p}
      /\ UNCHANGED << amt, chips, roundCount, ante, bet, state, commState, pots, finish, phase >>
      /\ phase \in {"Open", "PostBetting", "RunOut"}
  BY <1>1, JoinSeats
<1>3. Waiting'
  <2> SUFFICES ASSUME phase = "Open" PROVE Waiting'
    BY <1>2 DEF Waiting
  <2>1. CASE state # "NotStarted"
    BY <1>1, <1>2, <2>1 DEF Waiting, BettingStates
  <2>2. CASE state = "NotStarted"
    <3>1. \A s \in Members(activePlayers) \cup {p} : act'[s] = "FirstAction"
      BY <1>1, <1>2, <2>2, MembersType DEF Waiting, TypeOK
    <3>2. Members(curPlayers) = Members(activePlayers)
      BY <1>1, <2>2 DEF Waiting
    <3> QED BY <1>2, <2>2, <3>1, <3>2 DEF Waiting, BettingStates
  <2> QED BY <2>1, <2>2
<1>4. Ending'
  <2>1. phase = "PostBetting" => curPlayers' = curPlayers /\ Eligible(act') = Eligible(act)
    BY <1>1, <1>2 DEF IInv, Ending
  <2> QED BY <1>1, <1>2, <2>1 DEF IInv, Ending, BettingIsImpossible
<1>5. Dealt' /\ Posting'
  BY <1>1, <1>2 DEF Dealt, Posting
<1> QED BY <1>2, <1>3, <1>4, <1>5 DEF IInv

\* A player leaves a table at which others stay.
LEMMA LeaveSeats ==
  ASSUME TypeOK, Seated, NEW p \in Seats, Leave(p),
         state \in BettingStates \cup {"NotStarted", "DoneBetting"}
  PROVE  /\ TypeOK' /\ Seated'
         /\ numPlayers = Len(activePlayers) /\ numPlayers > 1 /\ phase = "Open"
         /\ p \in Members(activePlayers)
         /\ Members(activePlayers') = Members(activePlayers) \ {p}
         /\ Len(activePlayers') = Len(activePlayers) - 1
         /\ Members(curPlayers') = Members(curPlayers) \ {p}
         /\ \A s \in Seats \ {p} : act'[s] = act[s]
         /\ act'[p] = "VacantSeat" /\ Eligible(act') = Eligible(act) \ {p}
         /\ phase' = IF numPlayers > 2 THEN PhaseAfter(state')
                     ELSE IF state = "NotStarted" THEN "Open" ELSE "Abandoned"
         /\ state' \in {state, "RoundOver", "DoneBetting"}
         /\ state = "NotStarted" => state' = "NotStarted"
         /\ state' = state /\ state \in BettingStates /\ curPlayer \in Members(curPlayers)
              => curPlayer' \in Members(curPlayers')
         /\ UNCHANGED << roundCount, ante, bet, commState, finish >>
<1> DEFINE inTurn == Len(activePlayers) > 1 /\ curPlayer = p
           a == IF inTurn THEN [act EXCEPT ![p] = "Fold"] ELSE act
           t == IF inTurn THEN SetNextPlayerTurn(a, curPlayers, state, pots)
                ELSE [cur |-> curPlayers, curPlayer |-> curPlayer, state |-> state, pots |-> pots]
<1>1. /\ Unseat(p, a, t.cur)
      /\ curPlayer' = t.curPlayer /\ state' = t.state /\ pots' = PublicInfo(t.pots)
      /\ phase' = IF numPlayers > 2 THEN PhaseAfter(t.state)
                  ELSE IF state = "NotStarted" THEN "Open" ELSE "Abandoned"
      /\ UNCHANGED << roundCount, ante, bet, commState, finish >>
      /\ phase = "Open" /\ act[p] # "VacantSeat" /\ numPlayers > 1
  BY DEF Leave, GoesOn
<1>2. /\ TypeOK /\ Seated
      /\ activePlayers \in Seq(Seats) /\ Distinct(activePlayers)
      /\ curPlayers \in Seq(Seats) /\ Distinct(curPlayers)
      /\ Members(curPlayers) \subseteq Members(activePlayers)
      /\ p \in Members(activePlayers)
      /\ numPlayers = Len(activePlayers) /\ numPlayers \in Nat
      /\ act \in [Seats -> Actions] /\ curPlayer \in Seats \cup {None} /\ state \in States
      /\ pots \in AllPots
  BY <1>1 DEF TypeOK, Seated, Occupied
<1>3. inTurn <=> curPlayer = p
  <2>1. Len(activePlayers) > 1
    BY <1>1, <1>2
  <2> QED BY <2>1
<1>4. a \in [Seats -> Actions] /\ (\A s \in Seats \ {p} : a[s] = act[s])
      /\ (inTurn => a[p] = "Fold")
  BY <1>2 DEF Actions
<1> HIDE DEF inTurn, a
<1>5. /\ t.cur \in Seq(Seats) /\ Distinct(t.cur)
      /\ Members(t.cur) \ {p} = Members(curPlayers) \ {p}
      /\ Members(t.cur) \subseteq Members(curPlayers)
      /\ t.curPlayer \in Seats \cup {None}
      /\ t.state \in {state, "RoundOver", "DoneBetting"}
      /\ t.pots \in AllPots
      /\ state = "NotStarted" => t.state = "NotStarted"
      /\ state # "NotStarted" /\ t.state = state /\ p \in Members(curPlayers) /\ inTurn
           => t.state = "DoneBetting" \/ t.curPlayer \in Members(curPlayers) \ {p}
      /\ ~inTurn => t.curPlayer = curPlayer /\ t.state = state
  <2>1. CASE inTurn
    <3>1. t = SetNextPlayerTurn(a, curPlayers, state, pots)
      BY <2>1
    <3> HIDE DEF t
    <3>2. /\ t.cur \in Seq(Seats) /\ Distinct(t.cur)
          /\ Members(curPlayers) \ {curPlayer} \subseteq Members(t.cur)
          /\ Members(t.cur) \subseteq Members(curPlayers)
          /\ t.curPlayer \in Seats \cup {None}
          /\ t.state \in {state, "RoundOver", "DoneBetting"}
          /\ t.pots \in AllPots
          /\ state = "NotStarted" => t.state = state
      BY <1>2, <1>4, <3>1, TurnKeeps
    <3>3. state # "NotStarted" =>
            /\ Len(curPlayers) = 1 => t.state \in {"RoundOver", "DoneBetting"}
            /\ Len(curPlayers) # 1 /\ curPlayer \in Members(curPlayers)
                 => t.curPlayer \in Members(curPlayers) \ {curPlayer}
      BY <1>2, <1>4, <3>1, TurnKeeps
    <3>4. state # "RoundOver"
      BY DEF BettingStates
    <3> QED BY <1>3, <2>1, <3>2, <3>3, <3>4
  <2>2. CASE ~inTurn
    BY <1>2, <2>2
  <2> QED BY <2>1, <2>2
<1> HIDE DEF t
<1>6. /\ Seated' /\ activePlayers' \in Seq(Seats) /\ curPlayers' \in Seq(Seats)
      /\ Members(activePlayers') = Members(activePlayers) \ {p}
      /\ Members(curPlayers') = Members(t.cur) \ {p}
      /\ Len(activePlayers') = Len(activePlayers) - 1
      /\ {dealer', smallBlind', bigBlind'} \subseteq Seats \cup {None}
      /\ act' \in [Seats -> Actions] /\ amt' \in [Seats -> Chips] /\ chips' \in [Seats -> Chips]
      /\ \A s \in Seats \ {p} : act'[s] = act[s]
      /\ act'[p] = "VacantSeat" /\ Eligible(act') = Eligible(act) \ {p}
      /\ numPlayers' \in Nat
  <2>1. Members(t.cur) \subseteq Members(activePlayers)
    BY <1>2, <1>5
  <2> QED BY <1>1, <1>2, <1>4, <1>5, <2>1, UnseatKeeps
<1>7. t.state \in {"NotStarted", "PreFlop", "Rounds", "PlayerRaised", "DoneBetting", "RoundOver"}
  BY <1>5 DEF BettingStates
<1>8. TypeOK'
  <2>1. pots' \in AllPots
    BY <1>1, <1>5, PublicInfoType
  <2>2. state' \in States /\ phase' \in FlowPhases \cup {"Open"}
    BY <1>1, <1>7 DEF PhaseAfter, FlowPhases, States, BettingStates
  <2> QED BY <1>1, <1>2, <1>5, <1>6, <2>1, <2>2 DEF TypeOK, finish
<1>9. ASSUME state' = state, state \in BettingStates, curPlayer \in Members(curPlayers)
      PROVE  curPlayer' \in Members(curPlayers')
  <2>1. state # "NotStarted" /\ state # "DoneBetting" /\ t.state = state
    BY <1>1, <1>9 DEF BettingStates
  <2>2. t.curPlayer \in Members(curPlayers) \ {p}
    BY <1>3, <1>5, <1>9, <2>1
  <2> QED BY <1>1, <1>5, <1>6, <2>2
<1>10. Members(curPlayers') = Members(curPlayers) \ {p}
  BY <1>5, <1>6
<1> QED BY <1>1, <1>2, <1>5, <1>6, <1>8, <1>9, <1>10

LEMMA LeaveKeeps ==
  ASSUME IInv, NEW p \in Seats, Leave(p)
  PROVE  IInv'
<1>1. TypeOK /\ Seated /\ Waiting /\ Dealt /\ phase = "Open"
  BY DEF IInv, Following, Leave
<1>2. state \in BettingStates \cup {"NotStarted", "DoneBetting"}
  BY <1>1 DEF Waiting
<1>3. /\ TypeOK' /\ Seated'
      /\ numPlayers = Len(activePlayers) /\ numPlayers > 1
      /\ Members(activePlayers') = Members(activePlayers) \ {p}
      /\ Len(activePlayers') = Len(activePlayers) - 1
      /\ Members(curPlayers') = Members(curPlayers) \ {p}
      /\ \A s \in Seats \ {p} : act'[s] = act[s]
      /\ Eligible(act') = Eligible(act) \ {p}
      /\ phase' = IF numPlayers > 2 THEN PhaseAfter(state')
                  ELSE IF state = "NotStarted" THEN "Open" ELSE "Abandoned"
      /\ state' \in {state, "RoundOver", "DoneBetting"}
      /\ state = "NotStarted" => state' = "NotStarted"
      /\ state' = state /\ state \in BettingStates /\ curPlayer \in Members(curPlayers)
           => curPlayer' \in Members(curPlayers')
      /\ commState' = commState
  BY <1>1, <1>2, LeaveSeats
<1>4. phase' \in {"Open", "PostBetting", "FinishRound", "Abandoned"}
  BY <1>3 DEF PhaseAfter
<1>5. Dealt'
  <2>1. state = "NotStarted" => state' = "NotStarted" /\ phase' = "Open"
    BY <1>3 DEF PhaseAfter
  <2> QED BY <1>1, <1>3, <2>1 DEF Dealt
<1>6. Waiting'
  <2> SUFFICES ASSUME phase' = "Open" PROVE Waiting'
    BY DEF Waiting
  <2>1. CASE state = "NotStarted"
    <3>1. /\ Members(curPlayers) = Members(activePlayers)
          /\ \A s \in Members(activePlayers) : act[s] = "FirstAction"
      BY <1>1, <2>1 DEF Waiting
    <3>2. \A s \in Members(activePlayers') : act'[s] = "FirstAction"
      BY <1>1, <1>3, <3>1, MembersType DEF TypeOK
    <3> QED BY <1>3, <2>1, <3>1, <3>2 DEF Waiting, BettingStates
  <2>2. CASE state # "NotStarted"
    <3>1. state' = state /\ state \in BettingStates
      BY <1>2, <1>3, <2>2 DEF PhaseAfter, BettingStates
    <3>2. Members(curPlayers) = Eligible(act) /\ curPlayer \in Members(curPlayers)
      BY <1>1, <2>2, <3>1 DEF Waiting
    <3> QED BY <1>3, <2>2, <3>1, <3>2 DEF Waiting
  <2> QED BY <2>1, <2>2
<1>7. Posting'
  BY <1>4 DEF Posting
<1>8. Ending'
  <2>1. phase' = "PostBetting" => state' = "DoneBetting" /\ state # "NotStarted"
    BY <1>3 DEF PhaseAfter
  <2>2. state # "NotStarted" => Members(curPlayers') = Eligible(act')
    BY <1>1, <1>3 DEF Waiting
  <2>3. phase' = "Abandoned" => Len(activePlayers') = 1
    <3>1. phase' = "Abandoned" => ~(numPlayers > 2)
      BY <1>3 DEF PhaseAfter
    <3>2. Len(activePlayers) \in Nat
      BY <1>1 DEF TypeOK
    <3> QED BY <1>3, <3>1, <3>2
  <2> QED BY <1>4, <2>1, <2>2, <2>3 DEF Ending
<1> QED BY <1>3, <1>5, <1>6, <1>7, <1>8 DEF IInv

-----------------------------------------------------------------------------
(* The blinds.                                                             *)

\* The blinds are chips.
LEMMA PostBlindsType ==
  ASSUME TypeOK, NEW s \in Seats, NEW b \in Seats, PostBlinds(s, b)
  PROVE  /\ amt' \in [Seats -> Chips] /\ chips' \in [Seats -> Chips]
         /\ bet' \in Chips /\ pots' \in AllPots
<1> DEFINE a1 == [amt EXCEPT ![s] = Blind(s, ante \div 2)]
           a2 == [a1 EXCEPT ![b] = Blind(b, ante)]
           c1 == [chips EXCEPT ![s] = Minus(chips[s], a2[s])]
<1>1. amt \in [Seats -> Chips] /\ chips \in [Seats -> Chips] /\ ante \in Chips /\ pots \in AllPots
  BY DEF TypeOK
<1>2. ante \div 2 \in Chips
  BY <1>1, ChipModAssumption DEF Chips
<1>3. \A x \in Seats : Blind(x, ante \div 2) \in Chips /\ Blind(x, ante) \in Chips
  BY <1>1, <1>2 DEF Blind
<1>4. a2 \in [Seats -> Chips]
  BY <1>1, <1>3
<1> HIDE DEF a2
<1>5. c1 \in [Seats -> Chips]
  BY <1>1, <1>4, ChipArithmetic
<1> HIDE DEF c1
<1>6. [c1 EXCEPT ![b] = Minus(c1[b], a2[b])] \in [Seats -> Chips]
  BY <1>4, <1>5, ChipArithmetic
<1>7. Plus(a2[s], a2[b]) \in Chips
  BY <1>4, ChipArithmetic
<1>8. [pots EXCEPT !.main.total = Plus(a2[s], a2[b])] \in AllPots
  <2>1. [pots.main EXCEPT !.total = Plus(a2[s], a2[b])] \in Pot
    BY <1>1, <1>7, PotsFields DEF Pot
  <2> QED BY <1>1, <2>1 DEF AllPots
<1>9. /\ amt' = a2 /\ chips' = [c1 EXCEPT ![b] = Minus(c1[b], a2[b])] /\ bet' = ante
      /\ pots' = PublicInfo([pots EXCEPT !.main.total = Plus(a2[s], a2[b])])
  BY DEF PostBlinds, a2, c1
<1> QED BY <1>1, <1>4, <1>6, <1>8, <1>9, PublicInfoType

\* The lists are rotated together.
LEMMA ReorderKeeps ==
  ASSUME activePlayers \in Seq(Seats), Distinct(activePlayers),
         NEW cur \in Seq(Seats), Distinct(cur), Members(cur) = Members(activePlayers),
         NEW b \in Members(activePlayers), ReorderPreFlop(cur, b)
  PROVE  /\ activePlayers' \in Seq(Seats) /\ Distinct(activePlayers')
         /\ Len(activePlayers') = Len(activePlayers)
         /\ Members(activePlayers') = Members(activePlayers)
         /\ curPlayers' \in Seq(Seats) /\ Distinct(curPlayers')
         /\ Members(curPlayers') = Members(activePlayers)
         /\ curPlayer' \in Members(curPlayers') /\ curPlayer' \in Seats
<1> DEFINE first == NextOf(activePlayers, b)
<1>1. first \in Members(activePlayers) /\ first \in Seats
  BY NextOfKeeps, MembersType
<1>2. /\ activePlayers' = SetHead(activePlayers, first) /\ curPlayers' = SetHead(cur, first)
      /\ curPlayer' = first
  BY DEF ReorderPreFlop
<1> HIDE DEF first
<1>3. /\ activePlayers' \in Seq(Seats) /\ Distinct(activePlayers')
      /\ Len(activePlayers') = Len(activePlayers)
      /\ Members(activePlayers') = Members(activePlayers)
  BY <1>1, <1>2, SetHeadKeeps
<1>4. /\ curPlayers' \in Seq(Seats) /\ Distinct(curPlayers')
      /\ Members(curPlayers') = Members(activePlayers)
  BY <1>1, <1>2, SetHeadKeeps
<1> QED BY <1>1, <1>2, <1>3, <1>4

\* A game begins with those who are there, one player or more.
LEMMA BeginGameKeeps ==
  ASSUME IInv, phase = "Open", state = "NotStarted", activePlayers # << >>, BeginGame
  PROVE  /\ IInv'
         /\ Len(activePlayers') = Len(activePlayers)
         /\ {smallBlind', bigBlind'} \subseteq Members(activePlayers)
<1> DEFINE seating == HandleOrphanedSeats
<1>1. /\ SetButtons(seating) /\ PostBlinds(seating.smallBlind, seating.bigBlind)
      /\ ReorderPreFlop(curPlayers, seating.bigBlind)
      /\ state' = "PreFlop" /\ commState' = "PreFlop"
      /\ UNCHANGED << act, levels, finish, phase >>
  BY DEF BeginGame
<1>2. /\ TypeOK
      /\ activePlayers \in Seq(Seats) /\ Distinct(activePlayers)
      /\ curPlayers \in Seq(Seats) /\ Distinct(curPlayers)
      /\ Members(activePlayers) = Occupied(act)
      /\ numPlayers = Len(activePlayers) /\ numPlayers \in Nat
      /\ {dealer, smallBlind, bigBlind} \subseteq Members(activePlayers) \cup {None}
      /\ Members(curPlayers) = Members(activePlayers)
      /\ \A s \in Members(activePlayers) : act[s] = "FirstAction"
  BY DEF IInv, Following, TypeOK, Seated, Waiting
<1>3. activePlayers[1] \in Members(activePlayers) /\ Members(activePlayers) \subseteq Seats
  <2>1. Len(activePlayers) # 0
    BY <1>2, AloneInList
  <2> QED BY <1>2, <2>1, HeadIsMember, MembersType
<1>4. seating \in [dealer : Members(activePlayers), smallBlind : Members(activePlayers),
                   bigBlind : Members(activePlayers)]
  BY <1>2, <1>3, SeatingKeeps
<1> HIDE DEF seating
<1>5. /\ amt' \in [Seats -> Chips] /\ chips' \in [Seats -> Chips] /\ bet' \in Chips /\ pots' \in AllPots
  BY <1>1, <1>2, <1>3, <1>4, PostBlindsType
<1>6. /\ activePlayers' \in Seq(Seats) /\ Distinct(activePlayers')
      /\ Len(activePlayers') = Len(activePlayers)
      /\ Members(activePlayers') = Members(activePlayers)
      /\ curPlayers' \in Seq(Seats) /\ Distinct(curPlayers')
      /\ Members(curPlayers') = Members(activePlayers)
      /\ curPlayer' \in Members(curPlayers') /\ curPlayer' \in Seats
  BY <1>1, <1>2, <1>4, ReorderKeeps
<1>7. {dealer', smallBlind', bigBlind'} \subseteq Members(activePlayers)
  BY <1>1, <1>4 DEF SetButtons
<1>8. Eligible(act') = Members(activePlayers) /\ Occupied(act') = Occupied(act)
  BY <1>1, <1>2, <1>3 DEF Eligible, Occupied
<1>9. TypeOK'
  BY <1>1, <1>2, <1>3, <1>5, <1>6, <1>7
  DEF TypeOK, levels, finish, States, BettingStates, CommStates
<1>10. Seated'
  BY <1>1, <1>2, <1>6, <1>7, <1>8 DEF Seated, levels
<1>11. Dealt' /\ Waiting' /\ Posting' /\ Ending'
  BY <1>1, <1>6, <1>8 DEF Dealt, Waiting, Posting, Ending, BettingStates
<1> QED BY <1>6, <1>7, <1>9, <1>10, <1>11 DEF IInv

\* The admin starts the game.
LEMMA StartGameKeeps ==
  ASSUME IInv, StartGame
  PROVE  IInv'
<1>1. phase = "Open" /\ state = "NotStarted" /\ numPlayers >= 2 /\ BeginGame
  BY DEF StartGame
<1>2. activePlayers \in Seq(Seats) /\ Len(activePlayers) >= 2
  BY <1>1 DEF IInv, Following, TypeOK, Seated
<1>3. activePlayers # << >>
  BY <1>2, AloneInList
<1> QED BY <1>1, <1>3, BeginGameKeeps

\* The next hand is prepared.
LEMMA NewRoundKeeps ==
  ASSUME IInv, NewRound
  PROVE  IInv'
<1>1. CASE activePlayers = << >>
  BY <1>1, PanicKeeps DEF NewRound
<1>2. CASE activePlayers # << >>
  <2> DEFINE count == roundCount + 1
             members == Members(activePlayers)
             newAnte == IF count % DoubleEvery = 0 THEN Times(2, ante) ELSE ante
  <2>1. /\ phase = "NewRound"
        /\ act' = [s \in Seats |-> IF s \in members THEN "FirstAction" ELSE act[s]]
        /\ amt' = [s \in Seats |-> IF s \in members THEN 0 ELSE amt[s]]
        /\ roundCount' = count /\ ante' = newAnte
        /\ SetButtons(HandleOrphanedSeats)
        /\ curPlayers' = activePlayers /\ bet' = newAnte
        /\ pots' = [NoPots EXCEPT !.main.bet = newAnte]
        /\ state' = "NewRound" /\ phase' = "Blinds"
        /\ UNCHANGED << chips, activePlayers, curPlayer, numPlayers, commState, finish >>
    BY <1>2 DEF NewRound
  <2>2. /\ TypeOK /\ Dealt
        /\ activePlayers \in Seq(Seats) /\ Distinct(activePlayers)
        /\ members = Occupied(act) /\ numPlayers = Len(activePlayers)
        /\ {dealer, smallBlind, bigBlind} \subseteq members \cup {None}
        /\ Len(activePlayers) # 1
        /\ act \in [Seats -> Actions] /\ amt \in [Seats -> Chips] /\ ante \in Chips
        /\ roundCount \in Nat
    BY <2>1 DEF IInv, Following, TypeOK, Seated, Posting
  <2>3. /\ activePlayers[1] \in members /\ members \subseteq Seats
        /\ Len(activePlayers) >= 2
    <3>1. Len(activePlayers) # 0
      BY <1>2, <2>2, AloneInList
    <3>2. Len(activePlayers) \in Nat
      BY <2>2
    <3> QED BY <2>2, <3>1, <3>2, HeadIsMember, MembersType
  <2>4. HandleOrphanedSeats \in [dealer : members, smallBlind : members, bigBlind : members]
    BY <2>2, <2>3, SeatingKeeps
  <2>5. {dealer', smallBlind', bigBlind'} \subseteq members
    BY <2>1, <2>4 DEF SetButtons
  <2>6. newAnte \in Chips
    BY <2>2, ChipArithmetic
  <2>7. pots' \in AllPots
    <3>1. [NoPots.main EXCEPT !.bet = newAnte] \in Pot
      BY <2>6, NoPotsType, PotsFields DEF Pot
    <3> QED BY <2>1, <3>1, NoPotsType DEF AllPots
  <2>8. /\ act' \in [Seats -> Actions] /\ amt' \in [Seats -> Chips]
        /\ Occupied(act') = Occupied(act)
        /\ \A s \in members : act'[s] = "FirstAction"
    BY <2>1, <2>2, <2>3, ChipArithmetic DEF Actions, Occupied
  <2> HIDE DEF newAnte, members
  <2>9. TypeOK'
    <3>1. roundCount' \in Nat /\ ante' \in Chips /\ bet' \in Chips
      BY <2>1, <2>2, <2>6
    <3> QED BY <2>1, <2>2, <2>3, <2>5, <2>7, <2>8, <3>1 DEF TypeOK, finish, States, FlowPhases
  <2>10. Seated'
    BY <2>1, <2>2, <2>5, <2>8 DEF Seated, members
  <2>11. Dealt' /\ Waiting' /\ Posting' /\ Ending'
    BY <2>1, <2>2, <2>3, <2>5, <2>8 DEF Dealt, Waiting, Posting, Ending, members
  <2> QED BY <2>9, <2>10, <2>11 DEF IInv
<1> QED BY <1>1, <1>2

\* The seats after a rotation are players.
LEMMA RotateKeeps ==
  ASSUME activePlayers \in Seq(Seats),
         NEW seating \in [dealer : Members(activePlayers), smallBlind : Members(activePlayers),
                          bigBlind : Members(activePlayers)]
  PROVE  RotatePlayers(seating) \in [dealer : Members(activePlayers),
                                     smallBlind : Members(activePlayers),
                                     bigBlind : Members(activePlayers)]
<1> DEFINE list == activePlayers
           d == IF NextOf(list, seating.bigBlind) = seating.dealer
                THEN seating.bigBlind ELSE NextOf(list, seating.dealer)
           s == NextOf(list, d)
<1>1. \A p \in Members(list) : NextOf(list, p) \in Members(list)
  BY NextOfKeeps
<1>2. d \in Members(list)
  BY <1>1
<1> HIDE DEF d
<1>3. s \in Members(list) /\ NextOf(list, s) \in Members(list)
  BY <1>1, <1>2
<1> HIDE DEF s
<1> QED BY <1>2, <1>3 DEF RotatePlayers, s, d

\* The seats are rotated and the blinds posted.
LEMMA BlindsKeeps ==
  ASSUME IInv, Blinds
  PROVE  IInv'
<1> DEFINE seating == RotatePlayers([dealer |-> dealer, smallBlind |-> smallBlind,
                                     bigBlind |-> bigBlind])
           s == seating.smallBlind
           b == seating.bigBlind
<1>1. /\ TypeOK /\ Seated /\ Dealt /\ phase = "Blinds"
      /\ activePlayers \in Seq(Seats) /\ Distinct(activePlayers)
      /\ curPlayers = activePlayers /\ Len(activePlayers) >= 2
      /\ Members(activePlayers) = Occupied(act) /\ numPlayers = Len(activePlayers)
      /\ {dealer, smallBlind, bigBlind} \subseteq Members(activePlayers)
      /\ \A x \in Members(activePlayers) : act[x] = "FirstAction"
      /\ act \in [Seats -> Actions]
  BY DEF Blinds, IInv, Following, TypeOK, Seated, Posting
<1>2. /\ s \in Members(activePlayers) /\ b \in Members(activePlayers)
      /\ seating.dealer \in Members(activePlayers) /\ Members(activePlayers) \subseteq Seats
  <2>1. [dealer |-> dealer, smallBlind |-> smallBlind, bigBlind |-> bigBlind]
          \in [dealer : Members(activePlayers), smallBlind : Members(activePlayers),
               bigBlind : Members(activePlayers)]
    BY <1>1
  <2>2. seating \in [dealer : Members(activePlayers), smallBlind : Members(activePlayers),
                     bigBlind : Members(activePlayers)]
    BY <1>1, <2>1, RotateKeeps
  <2> HIDE DEF seating
  <2> QED BY <1>1, <2>2, MembersType
<1>3. /\ SetButtons(seating) /\ ReorderPreFlop(curPlayers, b) /\ PostBlinds(s, b)
      /\ act' = [x \in Seats |-> IF x \in {s, b} /\ chips'[x] = 0 THEN "AllIn" ELSE act[x]]
      /\ state' = "PreFlop" /\ commState' = "PreFlop" /\ phase' = "SmallBlindAllIn"
      /\ UNCHANGED << levels, finish >>
  <2>1. ~(Len(activePlayers) < 2)
    BY <1>1
  <2> QED BY <2>1 DEF Blinds
<1>4. dealer' = seating.dealer /\ smallBlind' = s /\ bigBlind' = b
  BY <1>3 DEF SetButtons
<1> HIDE DEF seating, s, b
<1>5. /\ amt' \in [Seats -> Chips] /\ chips' \in [Seats -> Chips] /\ bet' \in Chips /\ pots' \in AllPots
  BY <1>1, <1>2, <1>3, PostBlindsType
<1>6. /\ activePlayers' \in Seq(Seats) /\ Distinct(activePlayers')
      /\ Len(activePlayers') = Len(activePlayers)
      /\ Members(activePlayers') = Members(activePlayers)
      /\ curPlayers' \in Seq(Seats) /\ Distinct(curPlayers')
      /\ Members(curPlayers') = Members(activePlayers)
      /\ curPlayer' \in Members(curPlayers') /\ curPlayer' \in Seats
  BY <1>1, <1>2, <1>3, ReorderKeeps
<1>7. /\ act' \in [Seats -> Actions] /\ Occupied(act') = Occupied(act)
      /\ \A x \in Members(activePlayers) :
           act'[x] = "FirstAction" \/ (act'[x] = "AllIn" /\ x \in {s, b})
  BY <1>1, <1>2, <1>3 DEF Actions, Occupied
<1>8. TypeOK'
  BY <1>1, <1>2, <1>3, <1>4, <1>5, <1>6, <1>7
  DEF TypeOK, levels, finish, States, BettingStates, CommStates, FlowPhases
<1>9. Seated'
  BY <1>1, <1>2, <1>3, <1>4, <1>6, <1>7 DEF Seated, levels
<1>10. Dealt' /\ Waiting' /\ Posting' /\ Ending'
  BY <1>2, <1>3, <1>4, <1>6, <1>7 DEF Dealt, Waiting, Posting, Ending
<1> QED BY <1>8, <1>9, <1>10 DEF IInv

\* One of the blinds, who may have gone all-in with it.
LEMMA BlindAllInType ==
  ASSUME TypeOK, Seated, NEW this, NEW next \in {"BigBlindAllIn", "Open"},
         NEW blind \in Members(activePlayers), act[blind] = "AllIn",
         BlindAllIn(this, blind, next), state \in {"PreFlop", "DoneBetting"}
  PROVE  /\ TypeOK' /\ Seated' /\ phase' = next
         /\ UNCHANGED << players, activePlayers, buttons, levels, bet, commState, finish >>
         /\ Members(curPlayers') = Members(curPlayers) \ {blind}
         /\ state' \in {"PreFlop", "DoneBetting"}
         /\ state' = "PreFlop" => state = "PreFlop"
         /\ state' = "PreFlop" /\ curPlayer \in Members(curPlayers)
              => curPlayer' \in Members(curPlayers')
<1>1. /\ act \in [Seats -> Actions] /\ activePlayers \in Seq(Seats) /\ pots \in AllPots
      /\ curPlayers \in Seq(Seats) /\ Distinct(curPlayers)
      /\ Members(curPlayers) \subseteq Members(activePlayers)
      /\ curPlayer \in Seats \cup {None} /\ state \in States
  BY DEF TypeOK, Seated
<1>2. UNCHANGED << players, activePlayers, buttons, levels, bet, commState, finish >>
      /\ phase' = next
  BY DEF BlindAllIn
<1>3. /\ curPlayers' \in Seq(Seats) /\ Distinct(curPlayers')
      /\ Members(curPlayers') = Members(curPlayers) \ {blind}
      /\ curPlayer' \in Seats \cup {None} /\ pots' \in AllPots
      /\ state' \in {state, "DoneBetting"}
      /\ state' = "PreFlop" /\ curPlayer \in Members(curPlayers)
           => curPlayer' \in Members(curPlayers')
  <2>1. CASE curPlayer = blind
    <3> DEFINE t == SetNextPlayerTurn(act, curPlayers, state, pots)
    <3>1. /\ curPlayers' = t.cur /\ curPlayer' = t.curPlayer /\ state' = t.state
          /\ pots' = PublicInfo(t.pots)
      BY <2>1 DEF BlindAllIn
    <3>2. AllInCount(act) # 0
      BY <1>1, AllInCounted
    <3>3. /\ t.cur \in Seq(Seats) /\ Distinct(t.cur)
          /\ Members(curPlayers) \ {curPlayer} \subseteq Members(t.cur)
          /\ Members(t.cur) \subseteq Members(curPlayers)
          /\ t.curPlayer \in Seats \cup {None}
          /\ t.pots \in AllPots
          /\ state # "NotStarted" =>
               /\ act[curPlayer] = "AllIn" => curPlayer \notin Members(t.cur)
               /\ Len(curPlayers) = 1 => t.state \in {"RoundOver", "DoneBetting"}
               /\ Len(curPlayers) # 1 /\ curPlayer \in Members(curPlayers)
                    => t.curPlayer \in Members(curPlayers) \ {curPlayer}
               /\ AllInCount(act) # 0 /\ act[curPlayer] # "Fold" => t.state \in {state, "DoneBetting"}
      BY <1>1, TurnKeeps
    <3> HIDE DEF t
    <3>4. Members(t.cur) = Members(curPlayers) \ {blind} /\ t.state \in {state, "DoneBetting"}
      BY <2>1, <3>2, <3>3
    <3>5. pots' \in AllPots
      BY <3>1, <3>3, PublicInfoType
    <3> QED BY <2>1, <3>1, <3>3, <3>4, <3>5
  <2>2. CASE curPlayer # blind
    <3>1. /\ curPlayers' = RemovePlayer(curPlayers, blind) /\ pots' = PublicInfo(pots)
          /\ curPlayer' = curPlayer /\ state' = state
      BY <2>2 DEF BlindAllIn
    <3>2. /\ curPlayers' \in Seq(Seats) /\ Distinct(curPlayers')
          /\ Members(curPlayers') = Members(curPlayers) \ {blind}
      BY <1>1, <3>1, RemovePlayerKeeps
    <3>3. pots' \in AllPots
      BY <1>1, <3>1, PublicInfoType
    <3> QED BY <1>1, <2>2, <3>1, <3>2, <3>3
  <2> QED BY <2>1, <2>2
<1>4. TypeOK'
  BY <1>2, <1>3 DEF TypeOK, players, buttons, levels, finish, States, FlowPhases
<1>5. Seated'
  BY <1>1, <1>2, <1>3 DEF Seated, players, buttons, levels, Occupied
<1> QED BY <1>2, <1>3, <1>4, <1>5

\* The small blind may be all-in with it.
LEMMA SmallBlindAllInKeeps ==
  ASSUME IInv, SmallBlindAllIn
  PROVE  IInv'
<1>1. /\ TypeOK /\ Seated /\ Dealt /\ phase = "SmallBlindAllIn"
      /\ {smallBlind, bigBlind} \subseteq Members(activePlayers)
      /\ Members(curPlayers) = Members(activePlayers)
      /\ Members(activePlayers) = Occupied(act) /\ Members(activePlayers) \subseteq Seats
      /\ \A s \in Members(activePlayers) :
           act[s] = "FirstAction" \/ (act[s] = "AllIn" /\ s \in {smallBlind, bigBlind})
      /\ state = "PreFlop" /\ curPlayer \in Members(curPlayers)
  BY MembersType DEF SmallBlindAllIn, BlindAllIn, IInv, Following, Posting, Seated, TypeOK
<1>2. BlindAllIn("SmallBlindAllIn", smallBlind, "BigBlindAllIn")
  BY DEF SmallBlindAllIn
<1>3. Eligible(act) = {s \in Members(activePlayers) : act[s] = "FirstAction"}
  BY <1>1 DEF Eligible, Occupied
<1>4. CASE act[smallBlind] # "AllIn"
  <2>1. /\ UNCHANGED << curPlayers, curPlayer, state, pots >> /\ phase' = "BigBlindAllIn"
        /\ UNCHANGED << players, activePlayers, buttons, levels, bet, commState, finish >>
    BY <1>2, <1>4 DEF BlindAllIn
  <2>2. TypeOK'
    BY <1>1, <2>1 DEF TypeOK, players, buttons, levels, finish, FlowPhases
  <2>3. Seated'
    BY <1>1, <2>1 DEF Seated, players, buttons, levels, Occupied
  <2>4. Posting'
    BY <1>1, <1>3, <1>4, <2>1 DEF Posting, players, buttons, Eligible
  <2>5. Dealt' /\ Waiting' /\ Ending'
    BY <1>1, <2>1 DEF Dealt, Waiting, Ending
  <2> QED BY <2>2, <2>3, <2>4, <2>5 DEF IInv
<1>5. CASE act[smallBlind] = "AllIn"
  <2>1. /\ TypeOK' /\ Seated' /\ phase' = "BigBlindAllIn"
        /\ UNCHANGED << players, activePlayers, buttons, levels, bet, commState, finish >>
        /\ Members(curPlayers') = Members(curPlayers) \ {smallBlind}
        /\ state' \in {"PreFlop", "DoneBetting"}
        /\ state' = "PreFlop" => curPlayer' \in Members(curPlayers')
    BY <1>1, <1>2, <1>5, BlindAllInType
  <2>2. /\ act' = act /\ bigBlind' = bigBlind /\ activePlayers' = activePlayers
        /\ commState' = commState
    BY <2>1 DEF players, buttons
  <2>3. Posting'
    BY <1>1, <1>3, <1>5, <2>1, <2>2 DEF Posting
  <2>4. Dealt' /\ Waiting' /\ Ending'
    BY <1>1, <2>1, <2>2 DEF Dealt, Waiting, Ending
  <2> QED BY <2>1, <2>3, <2>4 DEF IInv
<1> QED BY <1>4, <1>5

\* The big blind may be all-in with it.
LEMMA BigBlindAllInKeeps ==
  ASSUME IInv, BigBlindAllIn
  PROVE  IInv'
<1>1. /\ TypeOK /\ Seated /\ Dealt /\ phase = "BigBlindAllIn"
      /\ bigBlind \in Members(activePlayers) /\ Members(activePlayers) \subseteq Seats
      /\ act[bigBlind] \in {"FirstAction", "AllIn"}
      /\ Members(curPlayers) \ {bigBlind} = Eligible(act) \ {bigBlind}
      /\ act[bigBlind] = "FirstAction" => bigBlind \in Members(curPlayers)
      /\ state \in {"PreFlop", "DoneBetting"}
      /\ state = "PreFlop" => curPlayer \in Members(curPlayers)
  BY MembersType DEF BigBlindAllIn, BlindAllIn, IInv, Following, Posting, TypeOK
<1>2. BlindAllIn("BigBlindAllIn", bigBlind, "Open")
  BY DEF BigBlindAllIn
<1>3. bigBlind \in Eligible(act) <=> act[bigBlind] = "FirstAction"
  BY <1>1 DEF Eligible
<1>4. CASE act[bigBlind] # "AllIn"
  <2>1. /\ UNCHANGED << curPlayers, curPlayer, state, pots >> /\ phase' = "Open"
        /\ UNCHANGED << players, activePlayers, buttons, levels, bet, commState, finish >>
    BY <1>2, <1>4 DEF BlindAllIn
  <2>2. TypeOK'
    BY <1>1, <2>1 DEF TypeOK, players, buttons, levels, finish
  <2>3. Seated'
    BY <1>1, <2>1 DEF Seated, players, buttons, levels, Occupied
  <2>4. Members(curPlayers) = Eligible(act)
    BY <1>1, <1>3, <1>4
  <2>5. Waiting'
    BY <1>1, <2>1, <2>4 DEF Waiting, players, BettingStates, Eligible
  <2>6. Dealt' /\ Posting' /\ Ending'
    BY <1>1, <2>1 DEF Dealt, Posting, Ending
  <2> QED BY <2>2, <2>3, <2>5, <2>6 DEF IInv
<1>5. CASE act[bigBlind] = "AllIn"
  <2>1. /\ TypeOK' /\ Seated' /\ phase' = "Open"
        /\ UNCHANGED << players, activePlayers, buttons, levels, bet, commState, finish >>
        /\ Members(curPlayers') = Members(curPlayers) \ {bigBlind}
        /\ state' \in {"PreFlop", "DoneBetting"}
        /\ state' = "PreFlop" => curPlayer' \in Members(curPlayers')
    BY <1>1, <1>2, <1>5, BlindAllInType
  <2>2. act' = act /\ commState' = commState
    BY <2>1 DEF players
  <2>3. Waiting'
    BY <1>1, <1>3, <1>5, <2>1, <2>2 DEF Waiting, BettingStates
  <2>4. Dealt' /\ Posting' /\ Ending'
    BY <1>1, <2>1, <2>2 DEF Dealt, Posting, Ending
  <2> QED BY <2>1, <2>3, <2>4 DEF IInv
<1> QED BY <1>4, <1>5

-----------------------------------------------------------------------------
(* PlayerAction.                                                           *)

\* A player who may act is in the betting list, which is exact.
LEMMA ActorKnown ==
  ASSUME IInv, NEW p \in Seats, MayAct(p)
  PROVE  /\ TypeOK /\ Seated /\ Dealt /\ PlayersType
         /\ phase = "Open" /\ state \in BettingStates /\ p = curPlayer
         /\ Members(curPlayers) = Eligible(act) /\ p \in Eligible(act) /\ p \in NonFolded(act)
         /\ curPlayers \in Seq(Seats) /\ Distinct(curPlayers) /\ pots \in AllPots
<1>1. phase = "Open" /\ state \in BettingStates /\ p = curPlayer
  BY DEF MayAct
<1>2. TypeOK /\ Seated /\ Dealt /\ Waiting
  BY <1>1 DEF IInv, Following
<1>3. "NotStarted" \notin BettingStates
  BY DEF BettingStates
<1>4. Members(curPlayers) = Eligible(act) /\ curPlayer \in Members(curPlayers)
  BY <1>1, <1>2, <1>3 DEF Waiting
<1> QED BY <1>1, <1>2, <1>4 DEF TypeOK, Seated, PlayersType, Eligible, NonFolded

\* The end of a turn: the actions of the players are a, whoever acted; the
\* betting list, possibly read from another player on, loses the current one
\* by an all-in or a fold, or the street is over.
LEMMA EndTurnSeats ==
  ASSUME TypeOK, Seated, commState # "NotStarted", curPlayer \in Members(curPlayers),
         NEW a \in [Seats -> Actions], Occupied(a) = Occupied(act),
         NEW cur \in Seq(Seats), Distinct(cur), Members(cur) = Members(curPlayers),
         NEW st \in BettingStates, NEW P \in AllPots, EndTurn(a, cur, st, P),
         amt' \in [Seats -> Chips], chips' \in [Seats -> Chips], bet' \in Chips
  PROVE  /\ TypeOK' /\ Seated' /\ act' = a
         /\ Members(curPlayers) \ {curPlayer} \subseteq Members(curPlayers')
         /\ Members(curPlayers') \subseteq Members(curPlayers)
         /\ a[curPlayer] \notin {"Fold", "AllIn"} => Members(curPlayers') = Members(curPlayers)
         /\ Len(cur) # 1 /\ a[curPlayer] \in {"Fold", "AllIn"} => curPlayer \notin Members(curPlayers')
         /\ Len(cur) = 1 => Len(curPlayers') \in {0, 1}
         /\ phase' \in {"Open", "PostBetting", "FinishRound"}
         /\ phase' = "Open" => state' = st /\ Len(cur) # 1 /\ curPlayer' \in Members(curPlayers')
         /\ phase' = "PostBetting" => state' = "DoneBetting"
         /\ UNCHANGED << activePlayers, buttons, levels, commState, finish >>
<1> DEFINE t == SetNextPlayerTurn(a, cur, st, P)
<1>1. /\ act' = a /\ curPlayers' = t.cur /\ curPlayer' = t.curPlayer /\ state' = t.state
      /\ pots' = IF t.state = "RoundOver" THEN t.pots ELSE PublicInfo(t.pots)
      /\ phase' = PhaseAfter(t.state)
      /\ UNCHANGED << activePlayers, buttons, levels, commState, finish >>
  BY DEF EndTurn
<1>2. curPlayer \in Seats \cup {None} /\ activePlayers \in Seq(Seats)
  BY DEF TypeOK
<1>3. st \in States /\ st # "NotStarted"
  BY DEF BettingStates, States
<1>4. /\ t.cur \in Seq(Seats) /\ Distinct(t.cur)
      /\ Members(cur) \ {curPlayer} \subseteq Members(t.cur)
      /\ Members(t.cur) \subseteq Members(cur)
      /\ t.curPlayer \in Seats \cup {None}
      /\ t.state \in {st, "RoundOver", "DoneBetting"}
      /\ t.pots \in AllPots
      /\ a[curPlayer] \notin {"Fold", "AllIn"} => Members(t.cur) = Members(cur)
      /\ Len(cur) = 1 => Len(t.cur) \in {0, 1}
      /\ a[curPlayer] = "AllIn" => curPlayer \notin Members(t.cur)
      /\ a[curPlayer] = "Fold" /\ Len(cur) # 1 => curPlayer \notin Members(t.cur)
      /\ Len(cur) = 1 => t.state \in {"RoundOver", "DoneBetting"}
      /\ Len(cur) # 1 /\ curPlayer \in Members(cur) => t.curPlayer \in Members(cur) \ {curPlayer}
  BY <1>2, <1>3, TurnKeeps
<1> HIDE DEF t
<1>5. TypeOK'
  <2>1. pots' \in AllPots
    BY <1>1, <1>4, PublicInfoType
  <2>2. state' \in States /\ phase' \in FlowPhases \cup {"Open"}
    BY <1>1, <1>3, <1>4 DEF PhaseAfter, FlowPhases, States
  <2> QED BY <1>1, <1>4, <2>1, <2>2 DEF TypeOK, buttons, levels, finish
<1>6. Seated'
  BY <1>1, <1>4 DEF Seated, buttons, levels
<1>7. /\ phase' \in {"Open", "PostBetting", "FinishRound"}
      /\ phase' = "Open" => state' = st /\ Len(cur) # 1
      /\ phase' = "PostBetting" => state' = "DoneBetting"
  BY <1>1, <1>4 DEF PhaseAfter
<1>8. phase' = "Open" => curPlayer' \in Members(curPlayers')
  BY <1>1, <1>4, <1>7
<1> QED BY <1>1, <1>4, <1>5, <1>6, <1>7, <1>8

\* The end of a turn in which p took an action of the given kind.
LEMMA EndTurnKeeps ==
  ASSUME IInv, NEW p \in Seats, MayAct(p), NEW kind \in {"AllIn", "Bet", "Call", "Check", "Fold"},
         NEW cur \in Seq(Seats), Distinct(cur), Members(cur) = Members(curPlayers),
         NEW st \in BettingStates, NEW P \in AllPots,
         EndTurn([act EXCEPT ![p] = kind], cur, st, P),
         amt' \in [Seats -> Chips], chips' \in [Seats -> Chips], bet' \in Chips
  PROVE  IInv'
<1> DEFINE a == [act EXCEPT ![p] = kind]
<1>1. /\ TypeOK /\ Seated /\ Dealt /\ p = curPlayer
      /\ phase = "Open" /\ state \in BettingStates
      /\ Members(curPlayers) = Eligible(act) /\ p \in Eligible(act)
      /\ act \in [Seats -> Actions]
  BY ActorKnown DEF TypeOK
<1>2. commState # "NotStarted" /\ st # "NotStarted"
  BY <1>1 DEF Dealt, BettingStates
<1>3. /\ a \in [Seats -> Actions] /\ a[curPlayer] = kind /\ Occupied(a) = Occupied(act)
      /\ Eligible(a) = IF kind \in {"AllIn", "Fold"} THEN Eligible(act) \ {p} ELSE Eligible(act)
  BY <1>1 DEF Actions, Occupied, Eligible
<1>4. EndTurn(a, cur, st, P)
  OBVIOUS
<1> HIDE DEF a
<1>5. /\ TypeOK' /\ Seated' /\ act' = a
      /\ Members(curPlayers) \ {curPlayer} \subseteq Members(curPlayers')
      /\ Members(curPlayers') \subseteq Members(curPlayers)
      /\ a[curPlayer] \notin {"Fold", "AllIn"} => Members(curPlayers') = Members(curPlayers)
      /\ Len(cur) # 1 /\ a[curPlayer] \in {"Fold", "AllIn"} => curPlayer \notin Members(curPlayers')
      /\ Len(cur) = 1 => Len(curPlayers') \in {0, 1}
      /\ phase' \in {"Open", "PostBetting", "FinishRound"}
      /\ phase' = "Open" => state' = st /\ Len(cur) # 1 /\ curPlayer' \in Members(curPlayers')
      /\ phase' = "PostBetting" => state' = "DoneBetting"
      /\ commState' = commState
  BY <1>1, <1>2, <1>3, <1>4, EndTurnSeats
<1>6. Len(cur) # 1 => Members(curPlayers') = Eligible(act')
  <2>1. CASE kind \in {"AllIn", "Fold"}
    <3>1. Eligible(a) = Members(curPlayers) \ {p}
      BY <1>1, <1>3, <2>1
    <3>2. Len(cur) # 1 => p \notin Members(curPlayers')
      BY <1>1, <1>3, <1>5, <2>1
    <3> QED BY <1>1, <1>5, <3>1, <3>2
  <2>2. CASE kind \notin {"AllIn", "Fold"}
    <3>1. Eligible(a) = Members(curPlayers) /\ Members(curPlayers') = Members(curPlayers)
      BY <1>1, <1>3, <1>5, <2>2
    <3> QED BY <1>5, <3>1
  <2> QED BY <2>1, <2>2
<1>7. Dealt' /\ Posting'
  BY <1>2, <1>5 DEF Dealt, Posting
<1>8. Waiting'
  BY <1>2, <1>5, <1>6 DEF Waiting
<1>9. Ending'
  <2>1. Len(cur) = 1 => BettingIsImpossible'
    <3>1. 0 < 2 /\ 1 < 2
      OBVIOUS
    <3> QED BY <1>5, <3>1 DEF BettingIsImpossible
  <2> QED BY <1>5, <1>6, <2>1 DEF Ending
<1> QED BY <1>5, <1>7, <1>8, <1>9 DEF IInv

\* What a bet or a call adds to the main pot while there is no side pot.
LEMMA InMainType ==
  ASSUME pots \in AllPots, NEW x \in Chips
  PROVE  [pots EXCEPT !.main.total = Plus(@, x)] \in AllPots
<1>1. pots.main \in Pot /\ pots.main.total \in Chips
  BY PotsFields DEF Pot
<1>2. Plus(pots.main.total, x) \in Chips
  BY <1>1, ChipArithmetic
<1>3. [pots.main EXCEPT !.total = Plus(pots.main.total, x)] \in Pot
  BY <1>1, <1>2 DEF Pot
<1>4. [pots EXCEPT !.main.total = Plus(@, x)]
        = [pots EXCEPT !.main = [pots.main EXCEPT !.total = Plus(pots.main.total, x)]]
  BY DEF AllPots
<1> QED BY <1>3, <1>4 DEF AllPots

\* A player whose turn it is, as far as the types of what it does depend on it.
ActorReady(p) ==
  /\ PlayersType /\ pots \in AllPots /\ state \in BettingStates
  /\ curPlayers \in Seq(Seats) /\ Distinct(curPlayers)
  /\ p \in NonFolded(act) /\ p \in Members(curPlayers)

\* The turn of p ends with amounts of chips, unless the server panics.
TurnTyped(p) ==
  \/ Panic
  \/ /\ MayAct(p)
     /\ \E kind \in {"AllIn", "Bet", "Call", "Check", "Fold"},
           cur \in {curPlayers, SetHead(curPlayers, p)}, st \in BettingStates, P \in AllPots :
          EndTurn([act EXCEPT ![p] = kind], cur, st, P)
     /\ amt' \in [Seats -> Chips] /\ chips' \in [Seats -> Chips] /\ bet' \in Chips

\* An all-in.
LEMMA AllInTyped ==
  ASSUME NEW p \in Seats, ActorReady(p), AllIn(p)
  PROVE  TurnTyped(p)
<1> DEFINE amount == AllInAmount(p)
           raises == ~BettingIsImpossible /\ amount > bet
           cur == IF raises THEN SetHead(curPlayers, p) ELSE curPlayers
           st == IF raises THEN "PlayerRaised" ELSE state
           newBet == IF raises THEN amount ELSE bet
           h == StepOf(p, "AllIn", amount, cur, newBet, st = "PlayerRaised")
<1>1. /\ MayAct(p) /\ Put(p, "AllIn", amount) /\ bet' = newBet
      /\ EndTurn([act EXCEPT ![p] = "AllIn"], cur, st, HandleSidePots(pots, h))
  BY DEF AllIn
<1>2. /\ PlayersType /\ state \in BettingStates /\ pots \in AllPots /\ p \in NonFolded(act)
      /\ p \in Members(curPlayers) /\ curPlayers \in Seq(Seats) /\ Distinct(curPlayers)
      /\ bet \in Chips
  BY DEF ActorReady, PlayersType
<1>3. amount \in Chips
  BY <1>2, AmountsType, ChipArithmetic
<1> HIDE DEF amount
<1>4. /\ cur \in Seq(Seats) /\ Distinct(cur) /\ Members(cur) = Members(curPlayers)
      /\ cur \in {curPlayers, SetHead(curPlayers, p)} /\ st \in BettingStates /\ newBet \in Chips
  BY <1>2, <1>3, SetHeadKeeps DEF BettingStates
<1> HIDE DEF cur, st, newBet
<1>5. h \in Step
  BY <1>2, <1>3, <1>4, StepOfType
<1>6. HandleSidePots(pots, h) \in AllPots
  BY <1>2, <1>5, HandleSidePotsType
<1>7. amt' \in [Seats -> Chips] /\ chips' \in [Seats -> Chips] /\ bet' \in Chips
  BY <1>1, <1>2, <1>3, <1>4, PutType
<1> HIDE DEF h
<1> QED BY <1>1, <1>4, <1>6, <1>7 DEF TurnTyped

\* A bet.
LEMMA BetTyped ==
  ASSUME NEW p \in Seats, ActorReady(p), NEW b \in Bets, Bet(p, b)
  PROVE  TurnTyped(p)
<1> DEFINE kind == IF b = Full(p) THEN "AllIn" ELSE "Bet"
           amount == BetAmount(p, b)
           h == StepOf(p, kind, amount, curPlayers, bet, state = "PlayerRaised")
           inMain == [pots EXCEPT !.main.total = Plus(@, Minus(amount, amt[p]))]
           sided == kind = "AllIn" \/ ~IsEmpty(pots)
           P == IF sided THEN HandleSidePots(pots, h) ELSE inMain
<1>1. CASE sided /\ ~SidePotAsserts(pots, h)
  BY <1>1 DEF Bet, TurnTyped
<1>2. CASE ~(sided /\ ~SidePotAsserts(pots, h))
  <2>1. /\ MayAct(p) /\ Put(p, kind, amount) /\ bet' = amount
        /\ EndTurn([act EXCEPT ![p] = kind], SetHead(curPlayers, p), "PlayerRaised", P)
    BY <1>2 DEF Bet
  <2>2. /\ PlayersType /\ pots \in AllPots /\ p \in NonFolded(act)
        /\ p \in Members(curPlayers) /\ curPlayers \in Seq(Seats) /\ Distinct(curPlayers)
        /\ bet \in Chips /\ b \in Chips
    BY TableAssumption DEF ActorReady, PlayersType
  <2>3. amount \in Chips /\ amt[p] \in Chips /\ kind \in {"AllIn", "Bet"}
    BY <2>2, AmountsType, FullType
  <2> HIDE DEF amount, kind
  <2>4. h \in Step
    BY <2>2, <2>3, StepOfType
  <2>5. HandleSidePots(pots, h) \in AllPots
    BY <2>2, <2>4, HandleSidePotsType
  <2>6. inMain \in AllPots
    <3>1. Minus(amount, amt[p]) \in Chips
      BY <2>3, ChipArithmetic
    <3> QED BY <2>2, <3>1, InMainType
  <2> HIDE DEF h, inMain
  <2>7. P \in AllPots
    BY <2>5, <2>6
  <2>8. "PlayerRaised" \in BettingStates
    BY DEF BettingStates
  <2>9. amt' \in [Seats -> Chips] /\ chips' \in [Seats -> Chips] /\ bet' \in Chips
    BY <2>1, <2>2, <2>3, PutType
  <2> HIDE DEF P
  <2> QED BY <2>1, <2>3, <2>7, <2>8, <2>9 DEF TurnTyped
<1> QED BY <1>1, <1>2

\* A call.
LEMMA CallTyped ==
  ASSUME NEW p \in Seats, ActorReady(p), Call(p)
  PROVE  TurnTyped(p)
<1> DEFINE kind == IF bet >= Full(p) THEN "AllIn" ELSE "Call"
           amount == IF bet >= Full(p) THEN Full(p) ELSE bet
           h == StepOf(p, kind, amount, curPlayers, bet, state = "PlayerRaised")
           inMain == [pots EXCEPT !.main.total = Plus(@, Minus(bet, amt[p]))]
           sided == kind = "AllIn" \/ ~IsEmpty(pots)
           P == IF sided THEN HandleSidePots(pots, h) ELSE inMain
<1>1. CASE sided /\ ~SidePotAsserts(pots, h)
  BY <1>1 DEF Call, TurnTyped
<1>2. CASE ~(sided /\ ~SidePotAsserts(pots, h))
  <2>1. /\ MayAct(p) /\ Put(p, kind, amount) /\ bet' = bet
        /\ EndTurn([act EXCEPT ![p] = kind], curPlayers, state, P)
    BY <1>2 DEF Call
  <2>2. /\ PlayersType /\ pots \in AllPots /\ state \in BettingStates
        /\ p \in Members(curPlayers) /\ curPlayers \in Seq(Seats) /\ Distinct(curPlayers)
        /\ bet \in Chips
    BY DEF ActorReady, PlayersType
  <2>3. amount \in Chips /\ amt[p] \in Chips /\ kind \in {"AllIn", "Call"}
    BY <2>2, FullType
  <2> HIDE DEF amount, kind
  <2>4. h \in Step
    BY <2>2, <2>3, StepOfType
  <2>5. HandleSidePots(pots, h) \in AllPots
    BY <2>2, <2>4, HandleSidePotsType
  <2>6. inMain \in AllPots
    <3>1. Minus(bet, amt[p]) \in Chips
      BY <2>2, <2>3, ChipArithmetic
    <3> QED BY <2>2, <3>1, InMainType
  <2> HIDE DEF h, inMain
  <2>7. P \in AllPots
    BY <2>5, <2>6
  <2>8. amt' \in [Seats -> Chips] /\ chips' \in [Seats -> Chips] /\ bet' \in Chips
    BY <2>1, <2>2, <2>3, PutType
  <2> HIDE DEF P
  <2> QED BY <2>1, <2>2, <2>3, <2>7, <2>8 DEF TurnTyped
<1> QED BY <1>1, <1>2

\* A check or a fold.
LEMMA CheckOrFoldTyped ==
  ASSUME NEW p \in Seats, ActorReady(p), Check(p) \/ Fold(p)
  PROVE  TurnTyped(p)
<1>1. PICK kind \in {"Check", "Fold"} :
        /\ MayAct(p) /\ EndTurn([act EXCEPT ![p] = kind], curPlayers, state, pots)
        /\ UNCHANGED << amt, chips, bet >>
  BY DEF Check, Fold
<1>2. state \in BettingStates /\ pots \in AllPots /\ PlayersType
  BY DEF ActorReady
<1>3. amt' \in [Seats -> Chips] /\ chips' \in [Seats -> Chips] /\ bet' \in Chips
  BY <1>1, <1>2 DEF PlayersType
<1> QED BY <1>1, <1>2, <1>3 DEF TurnTyped

\* Every action.
LEMMA ActionTyped ==
  ASSUME NEW p \in Seats, ActorReady(p), Turn(p)
  PROVE  TurnTyped(p)
  BY AllInTyped, BetTyped, CallTyped, CheckOrFoldTyped DEF Turn

\* A player acts.
LEMMA ActionKeeps ==
  ASSUME IInv, NEW p \in Seats, Turn(p)
  PROVE  IInv'
<1>1. MayAct(p)
  BY DEF Turn, AllIn, Bet, Call, Check, Fold
<1>2. ActorReady(p)
  BY <1>1, ActorKnown DEF ActorReady
<1>3. TurnTyped(p)
  BY <1>2, ActionTyped
<1>4. \A cur \in {curPlayers, SetHead(curPlayers, p)} :
        cur \in Seq(Seats) /\ Distinct(cur) /\ Members(cur) = Members(curPlayers)
  BY <1>2, SetHeadKeeps DEF ActorReady
<1> QED BY <1>1, <1>3, <1>4, PanicKeeps, EndTurnKeeps DEF TurnTyped

-----------------------------------------------------------------------------
(* Every step, and what follows.                                           *)

\* The requests of the clients.
LEMMA RequestKeeps ==
  ASSUME PausesInRounds, IInv, Request
  PROVE  IInv'
  BY ActionKeeps, JoinKeeps, LeaveKeeps, LeaveLastKeeps, StartGameKeeps DEF Request

\* What the room does on its own.
LEMMA FlowKeeps ==
  ASSUME IInv, Flow
  PROVE  IInv'
<1>1. NoHandsLeft \/ AbandonToJoiner => IInv'
  BY PanicKeeps DEF NoHandsLeft, AbandonToJoiner
<1> QED
  BY <1>1, NewRoundKeeps, BlindsKeeps, SmallBlindAllInKeeps, BigBlindAllInKeeps,
     ShowDownEarlyKeeps, RunOutKeeps, RiverDoneKeeps, DealStreetKeeps, FinishByFoldsKeeps,
     ShowHandsKeeps, AwardSidePotKeeps, AwardDoneKeeps, AbandonPotsKeeps, AbandonToLastKeeps,
     EliminateKeeps, RemoveEliminatedKeeps, EliminationDoneKeeps, GameOverKeeps
  DEF Flow

\* No step at all.
LEMMA StutterKeeps ==
  ASSUME IInv, UNCHANGED vars
  PROVE  IInv'
<1>1. /\ UNCHANGED << act, amt, chips, activePlayers, curPlayers, curPlayer >>
      /\ UNCHANGED << dealer, smallBlind, bigBlind, numPlayers, roundCount, ante, bet >>
      /\ UNCHANGED << state, commState, pots, winners, rank, nextPot, phase >>
  BY DEF vars, players, lists, buttons, levels, finish
<1>2. TypeOK => TypeOK'
  BY <1>1 DEF TypeOK
<1>3. Seated => Seated'
  BY <1>1 DEF Seated, Occupied
<1>4. Dealt /\ Waiting /\ Posting /\ Ending => Dealt' /\ Waiting' /\ Posting' /\ Ending'
  BY <1>1 DEF Dealt, Waiting, Posting, Ending, Eligible, BettingIsImpossible, Broke
<1> QED BY <1>1, <1>2, <1>3, <1>4 DEF IInv, Following

\* Every step of the table and its room, of clients' requests and of the
\* handlers that answer them, keeps the inductive invariant.
THEOREM NextKeeps == PausesInRounds /\ IInv /\ [Next]_vars => IInv'
  BY RequestKeeps, FlowKeeps, StutterKeeps DEF Next

\* The inductive invariant holds in every reachable state.
THEOREM AlwaysIInv ==
  ASSUME PausesInRounds
  PROVE  Spec => []IInv
  BY InitKeeps, NextKeeps, PTL DEF Spec

\* Every variable keeps its type, so no chips wrap outside 0 .. ChipMod - 1
\* and the lists of players hold players.
THEOREM AlwaysTypeOK ==
  ASSUME PausesInRounds
  PROVE  Spec => []TypeOK
<1>1. IInv => TypeOK
  BY DEF IInv
<1> QED BY <1>1, AlwaysIInv, PTL

\* The pool of seats, the list of active players and the counter of players
\* agree after every join, departure, elimination and reset.
THEOREM AlwaysSeatsMatch ==
  ASSUME PausesInRounds
  PROVE  Spec => []SeatsMatch
<1>1. IInv => SeatsMatch
  BY DEF IInv, SeatsMatch, Seated
<1> QED BY <1>1, AlwaysIInv, PTL

\* "couldn't find a nonfolded player after Sb" (seats.go:174) is not met when a
\* street is dealt, whoever left before.
FirstPlayerFound ==
  phase = "PostBetting" /\ ~BettingIsImpossible => PostFlopFirst \in Members(curPlayers)

\* The search for the first player of a street, from the small blind or from
\* what is left of the seats, ends at a player who is still in the betting list.
THEOREM AlwaysFirstPlayerFound ==
  ASSUME PausesInRounds
  PROVE  Spec => []FirstPlayerFound
<1>1. IInv => FirstPlayerFound
  BY StreetHasPlayers DEF FirstPlayerFound
<1> QED BY <1>1, AlwaysIInv, PTL

\* The list the turns are taken from holds exactly those who may bet.
THEOREM AlwaysBettingListExact ==
  ASSUME PausesInRounds
  PROVE  Spec => []BettingListExact
<1>1. IInv => BettingListExact
  BY DEF IInv, Following, BettingListExact, Betting, Waiting, BettingStates
<1> QED BY <1>1, AlwaysIInv, PTL

\* The room never waits for a player who has no right to act.
THEOREM AlwaysTurnHolder ==
  ASSUME PausesInRounds
  PROVE  Spec => []TurnHolder
<1>1. IInv => TurnHolder
  BY DEF IInv, Following, TurnHolder, Betting, Waiting, BettingStates
<1> QED BY <1>1, AlwaysIInv, PTL

-----------------------------------------------------------------------------
(* Nobody returns to a hand.                                               *)

\* The actions of the seats after a step of the invariant's states: a new
\* street clears those of the betting list alone, which holds nobody who is out.
LEMMA StepReturnsNobody ==
  ASSUME IInv, Next, NEW s \in Seats, act[s] \in {"Fold", "AllIn", "MidroundAddition"},
         act'[s] # act[s]
  PROVE  act'[s] = "VacantSeat" \/ phase \in {"NewRound", "GameOver"}
<1> DEFINE Out == act'[s] = "VacantSeat" \/ phase \in {"NewRound", "GameOver"}
<1>1. act \in [Seats -> Actions] /\ s \notin Eligible(act)
  BY DEF IInv, TypeOK, Eligible
<1>2. ASSUME NEW p \in Seats, Turn(p) PROVE Out
  <2>1. MayAct(p) /\ (Panic \/ \E kind \in Actions : act' = [act EXCEPT ![p] = kind])
    BY <1>2 DEF Turn, AllIn, Bet, Call, Check, Fold, EndTurn, Actions
  <2>2. p # s
    BY <1>1, <2>1, ActorKnown
  <2> QED BY <1>1, <2>1, <2>2 DEF Panic, players
<1>3. ASSUME NEW p \in Seats, Join(p) PROVE Out
  BY <1>1, <1>3 DEF Join
<1>4. ASSUME NEW p \in Seats, Leave(p) PROVE Out
  <2>1. PICK a \in {act, [act EXCEPT ![p] = "Fold"]} : \E cur : Unseat(p, a, cur)
    BY <1>4 DEF Leave
  <2> QED BY <1>1, <2>1 DEF Unseat
<1>5. ASSUME NEW p \in Seats, LeaveLast(p) PROVE Out
  BY <1>5, TableAssumption DEF LeaveLast, Reset
<1>6. StartGame => Out
  BY DEF StartGame, BeginGame
<1>7. RemoveEliminated => Out
  BY <1>1, TableAssumption DEF RemoveEliminated, Reset, Unseat
<1>8. Blinds => Out
  <2>1. Blinds => s \in Members(activePlayers) /\ act[s] = "FirstAction"
    BY DEF Blinds, IInv, Following, Seated, Occupied, Posting
  <2> QED BY <2>1
<1>9. DealStreet => Out
  <2>1. CASE NobodyStarts
    BY <2>1 DEF DealStreet, Panic, players
  <2>2. CASE DealStreet /\ ~NobodyStarts
    <3>1. Members(curPlayers) = Eligible(act)
      BY <2>2 DEF DealStreet, IInv, Following, Ending
    <3>2. act' = [x \in Seats |-> IF x \in Members(curPlayers) THEN "FirstAction" ELSE act[x]]
      BY <2>2 DEF DealStreet
    <3> QED BY <1>1, <3>1, <3>2
  <2> QED BY <2>1, <2>2
<1>10. Flow => Out
  BY <1>7, <1>8, <1>9 DEF Flow, NewRound, GameOver, SmallBlindAllIn, BigBlindAllIn, BlindAllIn,
     ShowDownEarly, RunOut, RiverDone, FinishByFolds, WinByFolds, NoHandsLeft, ShowHands,
     AwardSidePot, AwardDone, AbandonPots, AbandonToLast, AbandonToJoiner, Eliminate,
     EliminationDone, Panic, players
<1> QED BY <1>2, <1>3, <1>4, <1>5, <1>6, <1>10 DEF Next, Request

\* Who folded, is all-in or waits for the next hand stays so until the next
\* hand begins or the seat is given up.
THEOREM AlwaysNobodyReturns ==
  ASSUME PausesInRounds
  PROVE  Spec => NobodyReturns
<1> DEFINE Same == \A s \in Seats :
       act[s] \in {"Fold", "AllIn", "MidroundAddition"} /\ act'[s] # act[s]
         => act'[s] = "VacantSeat" \/ phase \in {"NewRound", "GameOver"}
<1>1. IInv /\ [Next]_vars => [Same]_vars
  BY StepReturnsNobody
<1>2. Spec => [][Same]_vars
  BY <1>1, AlwaysIInv, PTL DEF Spec
<1> QED BY <1>2 DEF NobodyReturns
=============================================================================
