----------------------------- MODULE BetsProofs -----------------------------
(***************************************************************************)
(* For any seats, stacks, blinds, bets and number of rounds: nobody has    *)
(* more in front than the bet to be called, a street without side pots is  *)
(* over when everybody has called, and the side pots are in the order of   *)
(* their bets.                                                             *)
(***************************************************************************)
EXTENDS TurnProofs

-----------------------------------------------------------------------------
(* What a player puts in front of it.                                      *)

\* Chips do not wrap below their bounds.
LEMMA NoWrap ==
  ASSUME NEW a \in Chips, NEW b \in Chips
  PROVE  /\ a + b < ChipMod => Plus(a, b) = a + b
         /\ b <= a => Minus(a, b) = a - b
<1>1. ChipMod \in Nat \ {0} /\ a \in Nat /\ b \in Nat /\ a < ChipMod /\ b < ChipMod
  BY ChipModAssumption DEF Chips
<1>2. \A n \in Nat : n < ChipMod => n % ChipMod = n
  BY <1>1
<1>3. a + b \in Nat /\ (b <= a => a - b \in Nat /\ a - b < ChipMod)
  BY <1>1
<1> QED BY <1>2, <1>3 DEF Plus, Minus

\* What a player has and what it has in front of it are chips.
Solvent == \A s \in Seats : chips[s] + amt[s] < ChipMod

\* All the chips of a player who is solvent.
LEMMA FullIs ==
  ASSUME PlayersType, Solvent, NEW p \in Seats
  PROVE  /\ Full(p) = chips[p] + amt[p] /\ Full(p) \in Chips
         /\ chips[p] \in Nat /\ amt[p] \in Nat /\ Full(p) \in Nat
<1>1. chips[p] \in Chips /\ amt[p] \in Chips /\ chips[p] + amt[p] < ChipMod
  BY DEF PlayersType, Solvent
<1> QED BY <1>1, NoWrap, FullType, ChipModAssumption DEF Full, Chips

\* A player puts in at most what it has.
LEMMA PutFunds ==
  ASSUME PlayersType, Solvent, NEW p \in Seats, NEW kind, NEW amount \in Chips, amount <= Full(p),
         Put(p, kind, amount)
  PROVE  /\ Solvent'
         /\ amt'[p] = amount /\ chips'[p] = Full(p) - amount
         /\ \A s \in Seats \ {p} : amt'[s] = amt[s] /\ chips'[s] = chips[s]
<1>1. Full(p) = chips[p] + amt[p] /\ Full(p) \in Chips
  BY FullIs
<1>2. Minus(Full(p), amount) = Full(p) - amount
  BY <1>1, NoWrap
<1>3. /\ amt'[p] = amount /\ chips'[p] = Full(p) - amount
      /\ \A s \in Seats \ {p} : amt'[s] = amt[s] /\ chips'[s] = chips[s]
  BY <1>2 DEF Put, PlayersType
<1>4. chips'[p] + amt'[p] < ChipMod
  <2>1. chips'[p] + amt'[p] = Full(p)
    BY <1>1, <1>3, ChipModAssumption DEF Chips
  <2> QED BY <1>1, <2>1, ChipModAssumption DEF Chips
<1> QED BY <1>3, <1>4 DEF Solvent

\* The chip leader has the most chips, the second one no more.
LEMMA LeaderIs ==
  ASSUME PlayersType, NEW p \in NonFolded(act), NEW own \in Chips
  PROVE  /\ \A q \in NonFolded(act) : Real(p, own, q) <= ChipLeader(p, own)
         /\ SecondChipLeader(p, own) <= ChipLeader(p, own)
         /\ \A q \in NonFolded(act) \ {p} :
              own = ChipLeader(p, own) => Real(p, own, q) <= SecondChipLeader(p, own)
<1> DEFINE All == {Real(p, own, q) : q \in NonFolded(act)}
           lead == ChipLeader(p, own)
           Lower == All \ {lead, 0}
           Tied == {q \in NonFolded(act) : Real(p, own, q) = lead}
<1>1. All \in SUBSET Chips
  <2>1. \A q \in Seats : Real(p, own, q) \in Chips
    BY ChipArithmetic DEF Real, PlayersType
  <2> QED BY <2>1 DEF NonFolded
<1>2. lead \in All /\ \A q \in NonFolded(act) : Real(p, own, q) <= lead
  <2>1. All # {}
    OBVIOUS
  <2>2. \E c \in All : \A d \in All : d <= c
    BY <1>1, <2>1, MostChips
  <2>3. \E c \in All : \A q \in NonFolded(act) : Real(p, own, q) <= c
    BY <2>2
  <2> QED BY <2>3 DEF ChipLeader
<1>3. SecondChipLeader(p, own) = IF Cardinality(Tied) > 1 \/ Lower = {} THEN lead ELSE LastOf(Lower)
  BY DEF SecondChipLeader
<1>4. Real(p, own, p) = own
  BY DEF Real
<1>5. \A q \in NonFolded(act) : Real(p, own, q) \in All
  OBVIOUS
<1> HIDE DEF lead
<1>6. Lower # {} => LastOf(Lower) \in Lower /\ \A d \in Lower : d <= LastOf(Lower)
  <2>1. Lower \in SUBSET Chips
    BY <1>1
  <2> HIDE DEF Lower
  <2> QED BY <2>1, MostChips DEF LastOf
<1>7. SecondChipLeader(p, own) <= lead
  <2>1. \A d \in All : d <= lead
    BY <1>2
  <2>2. Lower \subseteq All
    OBVIOUS
  <2> HIDE DEF All, Lower, Tied
  <2> QED BY <1>2, <1>3, <1>6, <2>1, <2>2
<1>8. ASSUME own = lead, NEW q \in NonFolded(act) \ {p}
      PROVE  Real(p, own, q) <= SecondChipLeader(p, own)
  <2>1. CASE Cardinality(Tied) > 1 \/ Lower = {}
    BY <1>2, <1>3, <2>1
  <2>2. CASE ~(Cardinality(Tied) > 1) /\ Lower # {}
    <3>1. q \notin Tied
      <4> SUFFICES ASSUME q \in Tied PROVE FALSE
        OBVIOUS
      <4>1. p \in Tied /\ Tied \in SUBSET Seats
        BY <1>4, <1>8 DEF NonFolded
      <4>2. IsFiniteSet(Tied) /\ Cardinality(Tied) \in Nat
        BY <4>1, SeatsCounted
      <4>3. {p, q} \subseteq Tied /\ p # q
        BY <1>8, <4>1
      <4>4. Cardinality({p, q}) = 2 /\ Cardinality({p, q}) <= Cardinality(Tied)
        <5>1. IsFiniteSet({p}) /\ Cardinality({p}) = 1
          BY FS_Singleton
        <5>2. Cardinality({p} \cup {q}) = 2 /\ {p} \cup {q} = {p, q}
          BY <4>3, <5>1, FS_AddElement
        <5> QED BY <4>2, <4>3, <5>2, FS_Subset
      <4> HIDE DEF Tied
      <4> QED BY <2>2, <4>2, <4>4
    <3>2. Real(p, own, q) \in Lower \/ Real(p, own, q) = 0
      BY <3>1
    <3>3. LastOf(Lower) \in Nat
      <4>1. Lower \subseteq Chips
        BY <1>1
      <4> HIDE DEF Lower
      <4>2. LastOf(Lower) \in Chips
        BY <1>6, <2>2, <4>1
      <4> QED BY <4>2, ChipModAssumption DEF Chips
    <3>4. SecondChipLeader(p, own) = LastOf(Lower)
      BY <1>3, <2>2
    <3> HIDE DEF Lower
    <3> QED BY <1>6, <2>2, <3>2, <3>3, <3>4
  <2> QED BY <2>1, <2>2
<1> QED BY <1>2, <1>7, <1>8 DEF lead

-----------------------------------------------------------------------------
(* Side pots, once there, stay until the end of the hand.                  *)

\* An all-in leaves side pots, and no action takes the last one away.
LEMMA SidePotsStay ==
  ASSUME NEW P \in AllPots, NEW h \in Step
  PROVE  ~IsEmpty(HandleSidePots(P, h))
<1>1. IsEmpty(P) => ~IsEmpty(FirstSidePot(P, h))
  BY DEF FirstSidePot, IsEmpty, AllPots
<1>2. \A Q \in AllPots : ~IsEmpty(Q) => ~IsEmpty(JoinLowerPots(Q, h)) /\ ~IsEmpty(JoinMainPot(Q, h))
  BY DEF JoinLowerPots, JoinMainPot, IsEmpty, AllPots
<1>3. h.player \in Seats
  BY DEF Step
<1>4. ~IsEmpty(SplitMainPot(P, h))
  <2>1. << h.player >> \o P.order # << >>
    BY <1>3, PotsFields
  <2>2. SplitMainPot(P, h).order = << h.player >> \o P.order
    BY PotsFields DEF SplitMainPot, AllPots
  <2> QED BY <2>1, <2>2 DEF IsEmpty
<1>5. ASSUME NEW Q \in AllPots PROVE ~IsEmpty(AddLargestPot(Q, h))
  <2>1. Append(Q.order, h.player) # << >>
    BY <1>3, PotsFields
  <2>2. AddLargestPot(Q, h).order = Append(Q.order, h.player)
    BY DEF AddLargestPot, AllPots
  <2> QED BY <2>1, <2>2 DEF IsEmpty
<1>6. ASSUME NEW Q \in AllPots, NEW k \in 1 .. Len(Q.order) PROVE ~IsEmpty(InsertPot(Q, h, k))
  <2>1. InsertPot(Q, h, k).order = Insert(Q.order, h.player, k)
    BY DEF InsertPot, AllPots
  <2>2. Q.order \in Seq(Seats)
    BY PotsFields
  <2>3. Insert(Q.order, h.player, k) # << >>
    <3>1. CASE k = 1
      BY <1>3, <2>2, <3>1 DEF Insert
    <3>2. CASE k # 1
      <4>1. /\ SubSeq(Q.order, 1, k - 1) \in Seq(Seats) /\ << h.player, h.player >> \in Seq(Seats)
            /\ SubSeq(Q.order, k + 1, Len(Q.order)) \in Seq(Seats)
        BY <1>3, <2>2
      <4> QED BY <3>2, <4>1 DEF Insert
    <3> QED BY <3>1, <3>2
  <2> QED BY <2>1, <2>3 DEF IsEmpty
<1>7. ASSUME NEW Q \in AllPots, ~IsEmpty(Q) PROVE ~IsEmpty(AllInPots(Q, h))
  <2> DEFINE Reached == {i \in OpenPots(Q) : BetAt(Q, i) >= h.amount}
  <2>1. JoinLowerPots(Q, h) \in AllPots /\ ~IsEmpty(JoinLowerPots(Q, h))
    BY <1>2, <1>7, JoinLowerPotsType
  <2>2. Reached # {} => FirstOf(Reached) \in 1 .. Len(JoinLowerPots(Q, h).order)
    <3>1. JoinLowerPots(Q, h).order = Q.order
      BY DEF JoinLowerPots, AllPots
    <3>2. Reached \in SUBSET OpenPots(Q)
      OBVIOUS
    <3> HIDE DEF Reached
    <3> QED BY <3>1, <3>2, OpenPotsOrdered
  <2> QED BY <1>5, <1>6, <2>1, <2>2 DEF AllInPots
<1>8. ~IsEmpty(P) => ~IsEmpty(LaterAllIn(P, h))
  BY <1>2, <1>4, <1>7, JoinMainPotType DEF LaterAllIn
<1>9. ~IsEmpty(P) => ~IsEmpty(BetOrCall(P, h))
  BY DEF BetOrCall, IsEmpty, AllPots
<1> QED BY <1>1, <1>8, <1>9 DEF HandleSidePots

\* The totals and the end of a street leave the side pots.
LEMMA PotsKept ==
  ASSUME NEW P \in AllPots
  PROVE  /\ IsEmpty(CloseSidePots(CalculateSidePotTotals(P))) <=> IsEmpty(P)
         /\ IsEmpty(PublicInfo(P)) <=> IsEmpty(P)
<1>1. CalculateSidePotTotals(P) \in AllPots /\ (IsEmpty(CalculateSidePotTotals(P)) <=> IsEmpty(P))
  <2>1. /\ CalculateSidePotTotals(P).order = P.order
        /\ CalculateSidePotTotals(P).hasBetting = P.hasBetting
    BY DEF CalculateSidePotTotals, AllPots
  <2> QED BY <2>1, CalculateSidePotTotalsType DEF IsEmpty
<1>2. \A Q \in AllPots : IsEmpty(CloseSidePots(Q)) <=> IsEmpty(Q)
  BY DEF CloseSidePots, IsEmpty, AllPots
<1>3. IsEmpty(PublicInfo(P)) <=> IsEmpty(P)
  BY DEF PublicInfo, IsEmpty, AllPots
<1> QED BY <1>1, <1>2, <1>3

-----------------------------------------------------------------------------
(* What a player does in its turn, with the bets.                          *)

\* The players as Funded knows them when one of them acts.
LEMMA BettorKnown ==
  ASSUME IInv, Funded, NEW p \in Seats, MayAct(p)
  PROVE  /\ PlayersType /\ Solvent /\ pots \in AllPots /\ p = curPlayer
         /\ curPlayers \in Seq(Seats) /\ Distinct(curPlayers) /\ p \in Members(curPlayers)
         /\ Members(curPlayers) \subseteq NonFolded(act) /\ p \in NonFolded(act)
         /\ \A q \in Members(curPlayers) : amt[q] <= bet
         /\ \A q \in Seats : Full(q) = chips[q] + amt[q] /\ chips[q] \in Nat /\ amt[q] \in Nat
         /\ state \in BettingStates /\ bet \in Chips /\ phase = "Open"
<1>1. /\ phase = "Open" /\ state \in BettingStates /\ p = curPlayer
      /\ PlayersType /\ pots \in AllPots /\ curPlayers \in Seq(Seats) /\ Distinct(curPlayers)
      /\ Members(curPlayers) = Eligible(act) /\ p \in Eligible(act)
  BY ActorKnown
<1>2. bet \in Chips
  BY <1>1 DEF PlayersType
<1>3. Members(curPlayers) \subseteq NonFolded(act) /\ p \in NonFolded(act)
  BY <1>1 DEF Eligible, NonFolded
<1>4. Solvent /\ \A q \in Members(curPlayers) : amt[q] <= bet
  BY <1>1 DEF Funded, Solvent
<1> QED BY <1>1, <1>2, <1>3, <1>4, FullIs

\* What the action of player p did.
Played(p, kind, cur, st, P) ==
  /\ EndTurn([act EXCEPT ![p] = kind], cur, st, P)
  /\ cur \in {curPlayers, SetHead(curPlayers, p)}
  /\ st \in {state, "PlayerRaised"} /\ st \in BettingStates
  /\ P \in AllPots /\ (IsEmpty(P) => IsEmpty(pots) /\ kind # "AllIn")
  /\ Solvent'
  /\ \A s \in Seats \ {p} : amt'[s] = amt[s] /\ chips'[s] = chips[s]
  /\ \A q \in Members(curPlayers) : amt'[q] <= bet'
  /\ kind \in {"Bet", "Call", "Check"} => chips'[p] # 0
  /\ kind = "Bet" =>
       /\ amt'[p] = bet' /\ cur = SetHead(curPlayers, p) /\ st = "PlayerRaised"
       /\ \A q \in Members(curPlayers) \ {p} : chips[q] # 0 => amt[q] < bet'
  /\ kind \in {"Call", "Check", "Fold"} => bet' = bet /\ cur = curPlayers /\ st = state
  /\ kind = "Call" => amt'[p] = bet /\ (state = "PlayerRaised" \/ commState = "PreFlop")
  /\ kind = "Check" => state # "PlayerRaised"
  /\ kind \in {"Check", "Fold"} => amt' = amt

\* A check or a fold.
LEMMA PassIsPlayed ==
  ASSUME IInv, Funded, NEW p \in Seats, Check(p) \/ Fold(p)
  PROVE  \E kind \in {"Check", "Fold"} : Played(p, kind, curPlayers, state, pots)
<1>1. MayAct(p) /\ chips[p] # 0 /\ amt' = amt /\ chips' = chips /\ bet' = bet
  BY DEF Check, Fold
<1>2. PICK kind \in {"Check", "Fold"} :
        /\ EndTurn([act EXCEPT ![p] = kind], curPlayers, state, pots)
        /\ kind = "Check" => state # "PlayerRaised"
  BY DEF Check, Fold
<1>3. Solvent'
  BY <1>1, BettorKnown DEF Solvent
<1>4. Played(p, kind, curPlayers, state, pots)
  BY <1>1, <1>2, <1>3, BettorKnown DEF Played
<1> QED BY <1>4

\* What a step that puts chips into the pots makes of them.
LEMMA PotsAfter ==
  ASSUME PlayersType, pots \in AllPots, NEW cur \in Seq(Seats), NEW p \in Members(cur),
         NEW kind \in {"AllIn", "Bet", "Call"}, NEW amount \in Chips, NEW newBet \in Chips,
         NEW raised \in BOOLEAN
  PROVE  LET P == HandleSidePots(pots, StepOf(p, kind, amount, cur, newBet, raised))
         IN  P \in AllPots /\ ~IsEmpty(P)
<1>1. StepOf(p, kind, amount, cur, newBet, raised) \in Step
  BY StepOfType
<1> QED BY <1>1, HandleSidePotsType, SidePotsStay

\* Chips that go into the main pot alone.
LEMMA InMainPot ==
  ASSUME pots \in AllPots, NEW c \in Chips, NEW d \in Chips
  PROVE  LET P == [pots EXCEPT !.main.total = Plus(@, Minus(c, d))]
         IN  P \in AllPots /\ (IsEmpty(P) <=> IsEmpty(pots))
<1> DEFINE total == Plus(pots.main.total, Minus(c, d))
           P == [pots EXCEPT !.main.total = total]
<1>1. total \in Chips
  BY PotsFields, ChipArithmetic DEF Pot
<1> HIDE DEF total
<1>2. [pots.main EXCEPT !.total = total] \in Pot
  BY <1>1, PotsFields DEF Pot
<1>3. P \in AllPots /\ P.order = pots.order /\ P.hasBetting = pots.hasBetting
  BY <1>2 DEF AllPots
<1> HIDE DEF P
<1>4. P \in AllPots /\ (IsEmpty(P) <=> IsEmpty(pots))
  BY <1>3 DEF IsEmpty
<1> QED BY <1>4 DEF P, total

\* A call, with all chips or not.
LEMMA CallIsPlayed ==
  ASSUME IInv, Funded, NEW p \in Seats, Call(p), ~Panic
  PROVE  \E kind \in {"AllIn", "Call"} : \E P : Played(p, kind, curPlayers, state, P)
<1> DEFINE kind == IF bet >= Full(p) THEN "AllIn" ELSE "Call"
           amount == IF bet >= Full(p) THEN Full(p) ELSE bet
           h == StepOf(p, kind, amount, curPlayers, bet, state = "PlayerRaised")
           inMain == [pots EXCEPT !.main.total = Plus(@, Minus(bet, amt[p]))]
           sided == kind = "AllIn" \/ ~IsEmpty(pots)
           P == IF sided THEN HandleSidePots(pots, h) ELSE inMain
<1>1. /\ MayAct(p) /\ Put(p, kind, amount) /\ bet' = bet
      /\ EndTurn([act EXCEPT ![p] = kind], curPlayers, state, P)
      /\ state = "PlayerRaised" \/ commState = "PreFlop"
  BY DEF Call, IsSmallBlindPreFlop
<1>2. /\ PlayersType /\ Solvent /\ pots \in AllPots
      /\ curPlayers \in Seq(Seats) /\ p \in Members(curPlayers) /\ Members(curPlayers) \subseteq Seats
      /\ \A q \in Members(curPlayers) : amt[q] <= bet
      /\ Full(p) = chips[p] + amt[p] /\ Full(p) \in Chips /\ bet \in Chips /\ amt[p] \in Chips
      /\ state \in BettingStates
  BY <1>1, BettorKnown, FullType, MembersType
<1>3. amount \in Chips /\ amount <= Full(p) /\ amount <= bet
      /\ kind \in {"AllIn", "Call"} /\ (kind = "Call" => amount = bet /\ amount < Full(p))
  BY <1>2, ChipModAssumption DEF Chips
<1>4. P \in AllPots /\ (IsEmpty(P) => IsEmpty(pots) /\ kind # "AllIn")
  <2>1. (state = "PlayerRaised") \in BOOLEAN
    OBVIOUS
  <2>2. HandleSidePots(pots, h) \in AllPots /\ ~IsEmpty(HandleSidePots(pots, h))
    <3> HIDE DEF kind, amount
    <3> QED BY <1>2, <1>3, <2>1, PotsAfter
  <2>3. inMain \in AllPots /\ (IsEmpty(inMain) <=> IsEmpty(pots))
    BY <1>2, InMainPot
  <2> HIDE DEF h, inMain, kind
  <2> QED BY <2>2, <2>3
<1> HIDE DEF P, kind, amount
<1>5. /\ Solvent' /\ amt'[p] = amount /\ chips'[p] = Full(p) - amount
      /\ \A s \in Seats \ {p} : amt'[s] = amt[s] /\ chips'[s] = chips[s]
  BY <1>1, <1>2, <1>3, PutFunds
<1>6. \A q \in Members(curPlayers) : amt'[q] <= bet'
  BY <1>1, <1>2, <1>3, <1>5
<1>7. kind = "Call" => chips'[p] # 0
  BY <1>2, <1>3, <1>5, ChipModAssumption DEF Chips
<1>8. Played(p, kind, curPlayers, state, P)
  BY <1>1, <1>2, <1>3, <1>4, <1>5, <1>6, <1>7 DEF Played
<1> QED BY <1>3, <1>8

\* The amount of a bet, and of an all-in.
LEMMA AmountsKnown ==
  ASSUME IInv, Funded, NEW p \in Seats, MayAct(p), NEW a \in Chips, a <= Full(p), bet < a
  PROVE  LET amount == BetAmount(p, a)
         IN  /\ amount \in Chips /\ amount <= Full(p)
             /\ a < Full(p) => amount < Full(p)
             /\ \A q \in Members(curPlayers) \ {p} :
                  amt[q] <= amount /\ (chips[q] # 0 => amt[q] < amount)
<1> DEFINE lead == ChipLeader(p, Full(p))
           second == SecondChipLeader(p, Full(p))
<1>1. /\ PlayersType /\ p \in NonFolded(act) /\ Full(p) \in Chips
      /\ Members(curPlayers) \subseteq NonFolded(act) /\ Members(curPlayers) \subseteq Seats
      /\ \A q \in Members(curPlayers) : amt[q] <= bet
      /\ \A q \in Seats : Full(q) = chips[q] + amt[q] /\ chips[q] \in Nat /\ amt[q] \in Nat
      /\ bet \in Chips
  BY BettorKnown, FullType, MembersType
<1>2. lead \in Chips /\ second \in Chips /\ second <= lead
  BY <1>1, ChipLeadersType, LeaderIs
<1>3. ASSUME Full(p) = lead, NEW q \in Members(curPlayers) \ {p}
      PROVE  Full(q) <= second
  <2>1. Real(p, Full(p), q) = Full(q)
    BY <1>3 DEF Real, Full
  <2> QED BY <1>1, <1>3, <2>1, LeaderIs
<1>4. BetAmount(p, a) = IF Full(p) # lead \/ a < second THEN a ELSE second
  BY DEF BetAmount
<1> HIDE DEF lead, second
<1>5. \A c \in Chips : c \in Nat
  BY ChipModAssumption DEF Chips
<1>6. CASE Full(p) # lead \/ a < second
  <2>1. BetAmount(p, a) = a
    BY <1>4, <1>6
  <2>2. ASSUME NEW q \in Members(curPlayers) \ {p} PROVE amt[q] <= a /\ amt[q] < a
    BY <1>1, <1>5
  <2> QED BY <2>1, <2>2
<1>7. CASE Full(p) = lead /\ ~(a < second)
  <2>1. BetAmount(p, a) = second
    BY <1>4, <1>7
  <2>2. ASSUME NEW q \in Members(curPlayers) \ {p}
        PROVE  amt[q] <= second /\ (chips[q] # 0 => amt[q] < second)
    <3>1. Full(q) <= second /\ Full(q) = chips[q] + amt[q] /\ chips[q] \in Nat /\ amt[q] \in Nat
      BY <1>1, <1>3, <1>7
    <3>2. second \in Nat
      BY <1>2, <1>5
    <3> QED BY <3>1, <3>2
  <2>3. second <= Full(p) /\ (a < Full(p) => second < Full(p))
    <3>1. second \in Nat /\ a \in Nat /\ Full(p) \in Nat
      BY <1>1, <1>2, <1>5
    <3> QED BY <1>2, <1>7, <3>1
  <2> QED BY <1>2, <2>1, <2>2, <2>3
<1> QED BY <1>6, <1>7

\* A bet, with all chips or not.
LEMMA BetIsPlayed ==
  ASSUME IInv, Funded, NEW p \in Seats, NEW a \in Bets, Bet(p, a), ~Panic
  PROVE  \E kind \in {"AllIn", "Bet"} : \E P :
           Played(p, kind, SetHead(curPlayers, p), "PlayerRaised", P)
<1> DEFINE kind == IF a = Full(p) THEN "AllIn" ELSE "Bet"
           amount == BetAmount(p, a)
           h == StepOf(p, kind, amount, curPlayers, bet, state = "PlayerRaised")
           inMain == [pots EXCEPT !.main.total = Plus(@, Minus(amount, amt[p]))]
           sided == kind = "AllIn" \/ ~IsEmpty(pots)
           P == IF sided THEN HandleSidePots(pots, h) ELSE inMain
<1>1. /\ MayAct(p) /\ Put(p, kind, amount) /\ bet' = amount /\ a > bet /\ a <= Full(p)
      /\ EndTurn([act EXCEPT ![p] = kind], SetHead(curPlayers, p), "PlayerRaised", P)
  BY DEF Bet
<1>2. /\ PlayersType /\ Solvent /\ pots \in AllPots
      /\ curPlayers \in Seq(Seats) /\ p \in Members(curPlayers) /\ Members(curPlayers) \subseteq Seats
      /\ Full(p) \in Chips /\ bet \in Chips /\ amt[p] \in Chips /\ a \in Chips
  BY <1>1, BettorKnown, FullType, MembersType, TableAssumption
<1>3. /\ amount \in Chips /\ amount <= Full(p) /\ (a < Full(p) => amount < Full(p))
      /\ \A q \in Members(curPlayers) \ {p} :
                  amt[q] <= amount /\ (chips[q] # 0 => amt[q] < amount)
  <2>1. bet < a
    BY <1>1, <1>2, ChipModAssumption DEF Chips
  <2> QED BY <1>1, <1>2, <2>1, AmountsKnown
<1> HIDE DEF amount
<1>4. kind \in {"AllIn", "Bet"} /\ (kind = "Bet" => amount < Full(p))
  BY <1>1, <1>2, <1>3, ChipModAssumption DEF Chips
<1>5. P \in AllPots /\ (IsEmpty(P) => IsEmpty(pots) /\ kind # "AllIn")
  <2>1. (state = "PlayerRaised") \in BOOLEAN
    OBVIOUS
  <2>2. HandleSidePots(pots, h) \in AllPots /\ ~IsEmpty(HandleSidePots(pots, h))
    <3> HIDE DEF kind
    <3> QED BY <1>2, <1>3, <1>4, <2>1, PotsAfter
  <2>3. inMain \in AllPots /\ (IsEmpty(inMain) <=> IsEmpty(pots))
    BY <1>2, <1>3, InMainPot
  <2> HIDE DEF h, inMain, kind
  <2> QED BY <2>2, <2>3
<1> HIDE DEF P, kind
<1>6. /\ Solvent' /\ amt'[p] = amount /\ chips'[p] = Full(p) - amount
      /\ \A s \in Seats \ {p} : amt'[s] = amt[s] /\ chips'[s] = chips[s]
  BY <1>1, <1>2, <1>3, PutFunds
<1>7. \A q \in Members(curPlayers) : amt'[q] <= bet'
  <2>1. amount <= amount
    BY <1>3, ChipModAssumption DEF Chips
  <2> QED BY <1>1, <1>2, <1>3, <1>6, <2>1
<1>8. kind = "Bet" => chips'[p] # 0
  BY <1>2, <1>3, <1>4, <1>6, ChipModAssumption DEF Chips
<1>9. Played(p, kind, SetHead(curPlayers, p), "PlayerRaised", P)
  <2>1. "PlayerRaised" \in BettingStates
    BY DEF BettingStates
  <2> QED BY <1>1, <1>3, <1>4, <1>5, <1>6, <1>7, <1>8, <2>1 DEF Played
<1> QED BY <1>4, <1>9

\* An all-in, asked for or forced.
LEMMA AllInIsPlayed ==
  ASSUME IInv, Funded, NEW p \in Seats, AllIn(p)
  PROVE  \E cur \in {curPlayers, SetHead(curPlayers, p)}, st \in BettingStates : \E P :
           Played(p, "AllIn", cur, st, P)
<1> DEFINE amount == AllInAmount(p)
           raises == ~BettingIsImpossible /\ amount > bet
           cur == IF raises THEN SetHead(curPlayers, p) ELSE curPlayers
           st == IF raises THEN "PlayerRaised" ELSE state
           newBet == IF raises THEN amount ELSE bet
           h == StepOf(p, "AllIn", amount, cur, newBet, st = "PlayerRaised")
           P == HandleSidePots(pots, h)
           own == Plus(Full(p), Times(2, amt[p]))
<1>1. /\ MayAct(p) /\ Put(p, "AllIn", amount) /\ bet' = newBet
      /\ EndTurn([act EXCEPT ![p] = "AllIn"], cur, st, P)
  BY DEF AllIn
<1>2. /\ PlayersType /\ Solvent /\ pots \in AllPots
      /\ curPlayers \in Seq(Seats) /\ p \in Members(curPlayers) /\ Members(curPlayers) \subseteq Seats
      /\ Full(p) \in Chips /\ bet \in Chips /\ amt[p] \in Chips /\ p \in NonFolded(act)
      /\ \A q \in Members(curPlayers) : amt[q] <= bet
      /\ state \in BettingStates /\ Distinct(curPlayers)
  BY <1>1, BettorKnown, FullType, MembersType
<1>3. \A c \in Chips : c \in Nat
  BY ChipModAssumption DEF Chips
<1>4. own \in Chips
  <2>1. Times(2, amt[p]) \in Chips
    BY <1>2, ChipArithmetic
  <2> QED BY <1>2, <2>1, ChipArithmetic
<1>5. /\ SecondChipLeader(p, own) \in Chips /\ ChipLeader(p, own) \in Chips
      /\ SecondChipLeader(p, own) <= ChipLeader(p, own)
  BY <1>2, <1>4, ChipLeadersType, LeaderIs
<1>6. /\ amount \in Chips /\ amount <= Full(p)
      /\ BettingIsImpossible => amount <= bet
  <2>1. amount = IF BettingIsImpossible THEN (IF bet < Full(p) THEN bet ELSE Full(p))
                 ELSE IF Full(p) >= bet /\ Full(p) = ChipLeader(p, own)
                      THEN SecondChipLeader(p, own) ELSE Full(p)
    BY DEF AllInAmount
  <2> HIDE DEF amount, own
  <2> QED BY <1>2, <1>3, <1>5, <2>1
<1> HIDE DEF amount
<1>7. newBet \in Chips /\ amount <= newBet /\ bet <= newBet
  BY <1>2, <1>3, <1>6
<1>8. /\ cur \in {curPlayers, SetHead(curPlayers, p)}
      /\ st \in {state, "PlayerRaised"} /\ st \in BettingStates
      /\ cur \in Seq(Seats) /\ p \in Members(cur) /\ (st = "PlayerRaised") \in BOOLEAN
  BY <1>2, SetHeadKeeps DEF BettingStates
<1> HIDE DEF newBet, cur, st
<1>9. P \in AllPots /\ ~IsEmpty(P)
  BY <1>2, <1>6, <1>7, <1>8, PotsAfter
<1> HIDE DEF P
<1>10. /\ Solvent' /\ amt'[p] = amount
       /\ \A s \in Seats \ {p} : amt'[s] = amt[s] /\ chips'[s] = chips[s]
  BY <1>1, <1>2, <1>6, PutFunds
<1>11. \A q \in Members(curPlayers) : amt'[q] <= bet'
  <2>1. amt \in [Seats -> Chips]
    BY <1>2 DEF PlayersType
  <2> SUFFICES ASSUME NEW q \in Members(curPlayers) PROVE amt'[q] <= bet'
    OBVIOUS
  <2>2. q \in Seats /\ amt[q] \in Chips /\ amt[q] <= bet
    BY <1>2, <2>1
  <2>3. amt[q] \in Nat /\ bet \in Nat /\ newBet \in Nat /\ amount \in Nat
    BY <1>2, <1>3, <1>6, <1>7, <2>2
  <2>4. amt[q] <= newBet
    BY <1>7, <2>2, <2>3
  <2> QED BY <1>1, <1>7, <1>10, <2>2, <2>4
<1>12. Played(p, "AllIn", cur, st, P)
  BY <1>1, <1>8, <1>9, <1>10, <1>11 DEF Played
<1> QED BY <1>8, <1>12

\* Every action of a player is one of these.
LEMMA ActionIsPlayed ==
  ASSUME IInv, Funded, NEW p \in Seats, Turn(p), ~Panic
  PROVE  \E kind \in {"AllIn", "Bet", "Call", "Check", "Fold"},
            cur \in {curPlayers, SetHead(curPlayers, p)}, st \in BettingStates :
           MayAct(p) /\ \E P : Played(p, kind, cur, st, P)
<1>1. MayAct(p)
  BY DEF Turn, AllIn, Bet, Call, Check, Fold
<1>2. state \in BettingStates /\ "PlayerRaised" \in BettingStates
  BY <1>1 DEF MayAct, BettingStates
<1>3. CASE AllIn(p)
  BY <1>1, <1>3, AllInIsPlayed
<1>4. CASE \E a \in Bets : Bet(p, a)
  <2>1. PICK kind \in {"AllIn", "Bet"} : \E P :
           Played(p, kind, SetHead(curPlayers, p), "PlayerRaised", P)
    BY <1>4, BetIsPlayed
  <2> QED BY <1>1, <1>2, <2>1
<1>5. CASE Call(p)
  <2>1. PICK kind \in {"AllIn", "Call"} : \E P : Played(p, kind, curPlayers, state, P)
    BY <1>5, CallIsPlayed
  <2> QED BY <1>1, <1>2, <2>1
<1>6. CASE Check(p) \/ Fold(p)
  <2>1. PICK kind \in {"Check", "Fold"} : Played(p, kind, curPlayers, state, pots)
    BY <1>6, PassIsPlayed
  <2> QED BY <1>1, <1>2, <2>1
<1> QED BY <1>3, <1>4, <1>5, <1>6 DEF Turn

\* What the action of a player leaves.
LEMMA PlayedLeaves ==
  ASSUME IInv, NEW p \in Seats, MayAct(p),
         NEW kind \in {"AllIn", "Bet", "Call", "Check", "Fold"},
         NEW cur, NEW st, NEW P, Played(p, kind, cur, st, P)
  PROVE  /\ act' = [act EXCEPT ![p] = kind] /\ p = curPlayer
         /\ Members(curPlayers') \subseteq Members(curPlayers)
         /\ state' \in {st, "RoundOver", "DoneBetting"} /\ state' # "NotStarted"
         /\ phase' = PhaseAfter(state') /\ phase' \in {"Open", "PostBetting", "FinishRound"}
         /\ UNCHANGED << activePlayers, commState >>
<1> DEFINE a == [act EXCEPT ![p] = kind]
           t == SetNextPlayerTurn(a, cur, st, P)
<1>1. /\ act' = a /\ curPlayers' = t.cur /\ state' = t.state /\ phase' = PhaseAfter(t.state)
      /\ UNCHANGED << activePlayers, commState >>
      /\ cur \in {curPlayers, SetHead(curPlayers, p)} /\ st \in BettingStates /\ P \in AllPots
  BY DEF Played, EndTurn
<1>2. /\ p = curPlayer /\ curPlayers \in Seq(Seats) /\ Distinct(curPlayers) /\ p \in Members(curPlayers)
      /\ act \in [Seats -> Actions]
  BY ActorKnown DEF TypeOK
<1>3. cur \in Seq(Seats) /\ Distinct(cur) /\ Members(cur) = Members(curPlayers)
  BY <1>1, <1>2, SetHeadKeeps
<1>4. a \in [Seats -> Actions] /\ st \in States /\ curPlayer \in Seats \cup {None}
  BY <1>1, <1>2 DEF Actions, States
<1> HIDE DEF a
<1>5. t = SetNextPlayerTurn(a, cur, st, P)
  OBVIOUS
<1> HIDE DEF t
<1>6. Members(t.cur) \subseteq Members(cur) /\ t.state \in {st, "RoundOver", "DoneBetting"}
  BY <1>1, <1>3, <1>4, <1>5, TurnKeeps
<1>7. t.state # "NotStarted" /\ PhaseAfter(t.state) \in {"Open", "PostBetting", "FinishRound"}
  BY <1>1, <1>6 DEF BettingStates, PhaseAfter
<1> QED BY <1>1, <1>2, <1>3, <1>6, <1>7 DEF a

-----------------------------------------------------------------------------
(* What the players have and have in front adds up.                        *)

\* A player acts.
LEMMA TurnKeepsFunded ==
  ASSUME IInv, Funded, NEW p \in Seats, Turn(p), ~Panic
  PROVE  Funded'
<1>1. PICK kind \in {"AllIn", "Bet", "Call", "Check", "Fold"},
           cur \in {curPlayers, SetHead(curPlayers, p)}, st \in BettingStates :
        MayAct(p) /\ \E P : Played(p, kind, cur, st, P)
  BY ActionIsPlayed
<1>2. PICK P : Played(p, kind, cur, st, P)
  BY <1>1
<1>3. /\ act' = [act EXCEPT ![p] = kind] /\ act \in [Seats -> Actions]
      /\ Members(curPlayers') \subseteq Members(curPlayers)
      /\ state' # "NotStarted" /\ phase' \in {"Open", "PostBetting", "FinishRound"}
  BY <1>1, <1>2, PlayedLeaves, ActorKnown DEF TypeOK
<1>4. /\ \A s \in Seats : chips'[s] + amt'[s] < ChipMod
      /\ \A q \in Members(curPlayers') : amt'[q] <= bet'
      /\ \A s \in Seats \ {p} : amt'[s] = amt[s]
  BY <1>2, <1>3 DEF Played, Solvent
<1>5. \A s \in Seats : act'[s] \in {"VacantSeat", "MidroundAddition"} => amt'[s] = 0
  <2> SUFFICES ASSUME NEW s \in Seats, act'[s] \in {"VacantSeat", "MidroundAddition"}
               PROVE  amt'[s] = 0
    OBVIOUS
  <2>1. s # p /\ act[s] \in {"VacantSeat", "MidroundAddition"}
    BY <1>3
  <2> QED BY <1>4, <2>1 DEF Funded
<1> QED BY <1>3, <1>4, <1>5 DEF Funded

\* A hand that is over.
LEMMA OverKeepsFunded ==
  ASSUME Funded, UNCHANGED << act, amt >>,
         phase' \notin {"Open", "Blinds", "SmallBlindAllIn", "BigBlindAllIn", "PostBetting"}
  PROVE  Funded'
  BY DEF Funded

\* A player sits down.
LEMMA JoinKeepsFunded ==
  ASSUME PausesInRounds, IInv, Funded, NEW p \in Seats, Join(p)
  PROVE  Funded'
<1> DEFINE started == state # "NotStarted"
           active == AddPlayer(activePlayers, p)
<1>1. /\ phase \in {"Open", "PostBetting", "RunOut"} /\ phase' = phase /\ state' = state
      /\ act[p] = "VacantSeat" /\ activePlayers' = active
      /\ curPlayers' = IF started THEN curPlayers ELSE AddPlayer(curPlayers, p)
      /\ bigBlind' = IF dealer # None /\ smallBlind # None /\ bigBlind = None
                     THEN NextOf(active, smallBlind) ELSE bigBlind
      /\ act' = [act EXCEPT ![p] = IF started THEN "MidroundAddition" ELSE "FirstAction"]
      /\ UNCHANGED << amt, chips, ante, bet >>
  BY DEF Join, PausesInRounds
<1>2. /\ TypeOK /\ Seated /\ Following
  BY <1>1 DEF IInv, Following
<1>3. /\ activePlayers \in Seq(Seats) /\ curPlayers \in Seq(Seats) /\ act \in [Seats -> Actions]
      /\ bet \in Chips /\ amt[p] = 0 /\ Distinct(activePlayers)
      /\ smallBlind \in Members(activePlayers) \cup {None} /\ bigBlind \in Members(activePlayers) \cup {None}
      /\ p \notin Members(activePlayers)
  BY <1>1, <1>2 DEF TypeOK, Seated, Funded, Occupied
<1>4. \A s \in Seats : act'[s] \in {"VacantSeat", "MidroundAddition"} => amt'[s] = 0
  BY <1>1, <1>3 DEF Funded
<1>5. phase' \in {"Open", "PostBetting"} =>
        /\ \A s \in Seats : chips'[s] + amt'[s] < ChipMod
        /\ \A q \in Members(curPlayers') : amt'[q] <= bet'
  <2> SUFFICES ASSUME phase' \in {"Open", "PostBetting"}
               PROVE  /\ \A s \in Seats : chips'[s] + amt'[s] < ChipMod
                      /\ \A q \in Members(curPlayers') : amt'[q] <= bet'
    OBVIOUS
  <2>1. Members(curPlayers') \subseteq Members(curPlayers) \cup {p}
    <3>1. Members(AddPlayer(curPlayers, p)) = Members(curPlayers) \cup {p}
      BY <1>3, AddPlayerKeeps
    <3>2. curPlayers' = curPlayers \/ curPlayers' = AddPlayer(curPlayers, p)
      BY <1>1
    <3> QED BY <3>1, <3>2
  <2>2. 0 <= bet
    BY <1>3, ChipModAssumption DEF Chips
  <2> QED BY <1>1, <1>3, <2>1, <2>2 DEF Funded
<1>6. ASSUME phase' = "Open", state' = "NotStarted", NEW s \in Seats
      PROVE  chips'[s] = StartChips
             \/ (activePlayers' # << >> /\ s = activePlayers'[1] /\ s # bigBlind')
  <2>1. chips[s] = StartChips \/ (activePlayers # << >> /\ s = activePlayers[1] /\ s # bigBlind)
    BY <1>1, <1>6 DEF Funded
  <2>2. CASE chips[s] = StartChips
    BY <1>1, <2>2
  <2>3. CASE activePlayers # << >> /\ s = activePlayers[1] /\ s # bigBlind
    <3>1. Len(activePlayers) \in Nat \ {0} /\ s \in Members(activePlayers)
      BY <1>3, <2>3, HeadIsMember, AloneInList
    <3>2. /\ active \in Seq(Seats) /\ Distinct(active) /\ Len(active) = Len(activePlayers) + 1
          /\ Members(active) = Members(activePlayers) \cup {p} /\ active # << >>
          /\ active[1] = s
      <4>1. /\ active \in Seq(Seats) /\ Distinct(active) /\ Len(active) = Len(activePlayers) + 1
            /\ Members(active) = Members(activePlayers) \cup {p}
        BY <1>3, AddPlayerKeeps
      <4>2. active # << >> /\ active[1] = s
        BY <1>3, <2>3, <3>1 DEF AddPlayer
      <4> QED BY <4>1, <4>2
    <3>3. ASSUME smallBlind \in Members(activePlayers) PROVE NextOf(active, smallBlind) # s
      <4>1. /\ smallBlind \in Members(active)
            /\ Position(active, smallBlind) = Position(activePlayers, smallBlind)
            /\ Position(activePlayers, smallBlind) \in 1 .. Len(activePlayers)
        BY <1>3, <3>2, <3>3, AddPosition, PositionType
      <4>2. Position(active, smallBlind) # Len(active)
        BY <3>1, <3>2, <4>1
      <4>3. Position(active, NextOf(active, smallBlind)) = Position(active, smallBlind) + 1
        BY <3>2, <4>1, <4>2, NextPosition
      <4>4. Position(active, s) = 1
        <5>1. 1 \in 1 .. Len(active)
          BY <3>1, <3>2
        <5> QED BY <3>2, <5>1, PositionIs
      <4> QED BY <3>1, <4>1, <4>3, <4>4
    <3>4. s # bigBlind'
      BY <1>1, <1>3, <2>3, <3>3
    <3> QED BY <1>1, <3>2, <3>4
  <2> QED BY <2>1, <2>2, <2>3
<1>7. phase' = "Open" /\ state' = "NotStarted" => ante' = Ante /\ \A s \in Seats : amt'[s] = 0
  BY <1>1 DEF Funded
<1> QED BY <1>1, <1>4, <1>5, <1>6, <1>7 DEF Funded

\* What a departure leaves.
LEMMA LeaveLeaves ==
  ASSUME TurnInv, NEW p \in Seats, Leave(p)
  PROVE  /\ phase = "Open" /\ act[p] # "VacantSeat" /\ p \in Members(activePlayers)
         /\ act' = [act EXCEPT ![p] = "VacantSeat"]
         /\ amt' = [amt EXCEPT ![p] = 0] /\ chips' = [chips EXCEPT ![p] = StartChips]
         /\ activePlayers' = RemovePlayer(activePlayers, p) /\ Len(activePlayers) > 1
         /\ Members(curPlayers') \subseteq Members(curPlayers) \ {p}
         /\ bigBlind' \in {None, bigBlind}
         /\ phase' \in {"Open", "PostBetting", "FinishRound", "Abandoned"}
         /\ phase' = "Open" => state' = state
         /\ UNCHANGED << ante, bet, commState >>
<1> DEFINE inTurn == Len(activePlayers) > 1 /\ curPlayer = p
           a == IF inTurn THEN [act EXCEPT ![p] = "Fold"] ELSE act
           u == SetNextPlayerTurn(a, curPlayers, state, pots)
           t == IF inTurn THEN u
                ELSE [cur |-> curPlayers, curPlayer |-> curPlayer, state |-> state, pots |-> pots]
<1>1. /\ phase = "Open" /\ act[p] # "VacantSeat" /\ numPlayers > 1
      /\ Unseat(p, a, t.cur)
      /\ UNCHANGED << ante, bet, commState >>
  BY DEF Leave
<1>2. Following
  BY <1>1 DEF Following
<1>3. /\ TypeOK /\ Seated /\ IInv /\ Posted /\ act \in [Seats -> Actions]
      /\ curPlayers \in Seq(Seats) /\ Distinct(curPlayers)
      /\ Members(curPlayers) \subseteq Members(activePlayers)
      /\ p \in Members(activePlayers) /\ numPlayers = Len(activePlayers)
  BY <1>1, <1>2, ListsKnown DEF Occupied
<1>4. a \in [Seats -> Actions]
  BY <1>3 DEF Actions
<1>5. u.cur \in Seq(Seats) /\ Distinct(u.cur) /\ Members(u.cur) \subseteq Members(curPlayers)
  <2>1. state \in States /\ pots \in AllPots /\ curPlayer \in Seats \cup {None}
    BY <1>3 DEF TypeOK
  <2>2. u = SetNextPlayerTurn(a, curPlayers, state, pots)
    OBVIOUS
  <2> HIDE DEF a, u
  <2> QED BY <1>3, <1>4, <2>1, <2>2, TurnKeeps
<1>6. /\ t.cur \in Seq(Seats) /\ Distinct(t.cur) /\ Members(t.cur) \subseteq Members(curPlayers)
  <2>1. t.cur = IF inTurn THEN u.cur ELSE curPlayers
    OBVIOUS
  <2> HIDE DEF t, u
  <2> QED BY <1>3, <1>5, <2>1
<1> HIDE DEF t, a
<1>7. /\ activePlayers' = RemovePlayer(activePlayers, p) /\ curPlayers' = RemovePlayer(t.cur, p)
      /\ amt' = [amt EXCEPT ![p] = 0] /\ chips' = [chips EXCEPT ![p] = StartChips]
      /\ bigBlind' \in {None, bigBlind}
  BY <1>1 DEF Unseat, Unlist, Without
<1>8. Members(curPlayers') = Members(t.cur) \ {p}
  BY <1>6, <1>7, RemovePlayerKeeps
<1>9. /\ act' = [act EXCEPT ![p] = "VacantSeat"]
      /\ phase' \in {"Open", "PostBetting", "FinishRound", "Abandoned"}
      /\ phase' = "Open" => state' = state
  BY <1>3, LeaveEnds
<1> QED BY <1>1, <1>3, <1>6, <1>7, <1>8, <1>9

\* A player leaves, not the last one.
LEMMA LeaveKeepsFunded ==
  ASSUME TurnInv, Funded, NEW p \in Seats, Leave(p)
  PROVE  Funded'
<1>1. /\ phase = "Open" /\ p \in Members(activePlayers)
      /\ act' = [act EXCEPT ![p] = "VacantSeat"]
      /\ amt' = [amt EXCEPT ![p] = 0] /\ chips' = [chips EXCEPT ![p] = StartChips]
      /\ activePlayers' = RemovePlayer(activePlayers, p) /\ Len(activePlayers) > 1
      /\ Members(curPlayers') \subseteq Members(curPlayers) \ {p}
      /\ bigBlind' \in {None, bigBlind}
      /\ phase' \in {"Open", "PostBetting", "FinishRound", "Abandoned"}
      /\ phase' = "Open" => state' = state
      /\ UNCHANGED << ante, bet >>
  BY LeaveLeaves
<1>2. /\ act \in [Seats -> Actions] /\ amt \in [Seats -> Chips] /\ chips \in [Seats -> Chips]
      /\ activePlayers \in Seq(Seats) /\ Distinct(activePlayers)
      /\ curPlayers \in Seq(Seats) /\ Members(curPlayers) \subseteq Seats
  BY <1>1, ListsKnown, MembersType DEF Following, TypeOK
<1>3. /\ amt'[p] = 0 /\ chips'[p] = StartChips
      /\ \A s \in Seats \ {p} : act'[s] = act[s] /\ amt'[s] = amt[s] /\ chips'[s] = chips[s]
  BY <1>1, <1>2
<1>4. \A s \in Seats : act'[s] \in {"VacantSeat", "MidroundAddition"} => amt'[s] = 0
  <2> SUFFICES ASSUME NEW s \in Seats, act'[s] \in {"VacantSeat", "MidroundAddition"}
               PROVE  amt'[s] = 0
    OBVIOUS
  <2> QED BY <1>3 DEF Funded
<1>5. /\ \A s \in Seats : chips'[s] + amt'[s] < ChipMod
      /\ \A q \in Members(curPlayers') : amt'[q] <= bet'
  <2>1. StartChips \in Nat /\ StartChips < ChipMod
    BY TableAssumption, ChipModAssumption DEF Chips
  <2>2. \A s \in Seats : chips[s] + amt[s] < ChipMod
    BY <1>1 DEF Funded
  <2>3. \A q \in Members(curPlayers) : amt[q] <= bet
    BY <1>1 DEF Funded
  <2> QED BY <1>1, <1>2, <1>3, <2>1, <2>2, <2>3
<1>6. ASSUME phase' = "Open", state' = "NotStarted"
      PROVE  /\ ante' = Ante
             /\ \A s \in Seats : amt'[s] = 0
             /\ \A s \in Seats : chips'[s] = StartChips
                  \/ (activePlayers' # << >> /\ s = activePlayers'[1] /\ s # bigBlind')
  <2>1. /\ ante = Ante /\ \A s \in Seats : amt[s] = 0
        /\ \A s \in Seats : chips[s] = StartChips
             \/ (activePlayers # << >> /\ s = activePlayers[1] /\ s # bigBlind)
    BY <1>1, <1>6 DEF Funded
  <2>2. activePlayers' # << >>
    <3>1. activePlayers' \in Seq(Seats) /\ Len(activePlayers') = Len(activePlayers) - 1
      BY <1>1, <1>2, RemovePlayerKeeps
    <3>2. \A n \in Nat : n > 1 => n - 1 # 0
      OBVIOUS
    <3>3. Len(activePlayers') # 0
      <4>1. Len(activePlayers) \in Nat
        BY <1>2
      <4> QED BY <1>1, <3>1, <3>2, <4>1
    <3> QED BY <3>3
  <2>3. p # activePlayers[1] => activePlayers'[1] = activePlayers[1]
    <3>1. Len(activePlayers) # 0 /\ Len(activePlayers) # 1
      <4>1. \A n \in Nat : n > 1 => n # 0 /\ n # 1
        OBVIOUS
      <4> QED BY <1>1, <1>2, <4>1
    <3> QED BY <1>1, <1>2, <3>1, HeadAfterRemove
  <2>4. ASSUME NEW s \in Seats
        PROVE  chips'[s] = StartChips
               \/ (activePlayers' # << >> /\ s = activePlayers'[1] /\ s # bigBlind')
    <3>1. s # None
      BY TableAssumption
    <3> QED BY <1>1, <1>3, <2>1, <2>2, <2>3, <3>1
  <2> QED BY <1>1, <1>3, <2>1, <2>4
<1>7. phase' # "Blinds"
  BY <1>1
<1> QED BY <1>4, <1>5, <1>6, <1>7 DEF Funded

\* The table is cleared, around one player or without any.
LEMMA ResetFunds ==
  ASSUME TypeOK, NEW keep, NEW cur, Reset(keep, cur),
         \A s \in Seats : s = keep => activePlayers' # << >> /\ s = activePlayers'[1],
         Members(curPlayers') \subseteq Seats
  PROVE  Funded'
<1>1. /\ act' = [s \in Seats |-> IF s = keep THEN "FirstAction" ELSE "VacantSeat"]
      /\ amt' = [s \in Seats |-> 0]
      /\ chips' = [s \in Seats |-> IF s = keep THEN chips[s] ELSE StartChips]
      /\ bigBlind' = None /\ ante' = Ante /\ bet' = 0
  BY DEF Reset
<1>2. \A s \in Seats : chips'[s] \in Chips /\ amt'[s] = 0
  BY <1>1, TableAssumption DEF TypeOK
<1>3. \A s \in Seats : chips'[s] + amt'[s] < ChipMod
  BY <1>2, ChipModAssumption DEF Chips
<1>4. \A s \in Seats : s # None
  BY TableAssumption
<1>5. \A s \in Seats : chips'[s] = StartChips
                       \/ (activePlayers' # << >> /\ s = activePlayers'[1] /\ s # bigBlind')
  BY <1>1, <1>4
<1> QED BY <1>1, <1>2, <1>3, <1>5 DEF Funded

\* The last player leaves.
LEMMA LeaveLastKeepsFunded ==
  ASSUME TurnInv, NEW p \in Seats, LeaveLast(p)
  PROVE  Funded'
<1>1. phase = "Open" /\ Reset(None, << >>)
  BY DEF LeaveLast
<1>2. TypeOK
  BY <1>1, ListsKnown DEF Following
<1>3. Members(curPlayers') \subseteq Seats
  BY <1>1 DEF Reset, Members
<1> QED BY <1>1, <1>2, <1>3, ResetFunds, TableAssumption

\* Who lost its last chips leaves the lists.
LEMMA RemovalKeepsFunded ==
  ASSUME TurnInv, Funded, RemoveEliminated
  PROVE  Funded'
<1> DEFINE p == FirstIn(activePlayers, Broke)
<1>1. phase = "Eliminating" /\ phase' \in {"Eliminating", "Lost"}
  BY DEF RemoveEliminated, Reset
<1>2. TypeOK
  BY <1>1, ListsKnown DEF Following
<1>3. CASE numPlayers = 1
  <2>1. Reset(None, << >>)
    BY <1>3 DEF RemoveEliminated
  <2>2. Members(curPlayers') \subseteq Seats
    BY <2>1 DEF Reset, Members
  <2> QED BY <1>2, <2>1, <2>2, ResetFunds, TableAssumption
<1>4. CASE numPlayers # 1
  <2>1. act' = [act EXCEPT ![p] = "VacantSeat"] /\ amt' = [amt EXCEPT ![p] = 0]
    BY <1>4 DEF RemoveEliminated, Unseat
  <2> HIDE DEF p
  <2>2. act \in [Seats -> Actions] /\ amt \in [Seats -> Chips]
    BY <1>2 DEF TypeOK
  <2>3. \A s \in Seats : act'[s] \in {"VacantSeat", "MidroundAddition"} => amt'[s] = 0
    BY <2>1, <2>2 DEF Funded
  <2> QED BY <1>1, <2>3 DEF Funded
<1> QED BY <1>3, <1>4

\* The game restarts with the one who won it.
LEMMA GameOverKeepsFunded ==
  ASSUME TurnInv, Funded, GameOver
  PROVE  Funded'
<1>1. PICK w \in winners : /\ Reset(w, curPlayers)
                           /\ phase' = IF w \in Members(activePlayers) THEN "Open" ELSE "Lost"
  BY DEF GameOver
<1>2. /\ phase = "GameOver" /\ activePlayers' = activePlayers /\ TypeOK /\ w \in Seats
      /\ activePlayers \in Seq(Seats) /\ Len(activePlayers) = 1
  BY ListsKnown DEF GameOver, Following, TypeOK, Ending
<1>3. CASE w \in Members(activePlayers)
  <2>1. w = activePlayers[1] /\ activePlayers' # << >>
    BY <1>2, <1>3, AloneInList
  <2>2. Members(curPlayers') \subseteq Seats
    BY <1>1, <1>2, TableAssumption DEF Reset, Members
  <2> QED BY <1>1, <1>2, <2>1, <2>2, ResetFunds
<1>4. CASE w \notin Members(activePlayers)
  <2>1. phase' = "Lost" /\ \A s \in Seats : amt'[s] = 0
    BY <1>1, <1>4 DEF Reset
  <2> QED BY <2>1 DEF Funded
<1> QED BY <1>3, <1>4

\* The blinds of a hand, posted by players with nothing in front of them.
LEMMA PostBlindsFunds ==
  ASSUME TypeOK, \A x \in Seats : amt[x] = 0, NEW s \in Seats, NEW b \in Seats, PostBlinds(s, b),
         s = b => 2 * ante <= chips[b]
  PROVE  /\ \A x \in Seats : chips'[x] + amt'[x] < ChipMod
         /\ \A x \in Seats : amt'[x] <= bet'
         /\ \A x \in Seats \ {s, b} : amt'[x] = 0
         /\ bet' = ante
<1>1. /\ amt \in [Seats -> Chips] /\ chips \in [Seats -> Chips] /\ ante \in Chips
  BY DEF TypeOK
<1>2. \A c \in Chips : c \in Nat /\ c < ChipMod
  BY ChipModAssumption DEF Chips
<1>3. ante \in Nat /\ ante \div 2 \in Nat /\ ante \div 2 <= ante
  <2>1. ante \in Nat
    BY <1>1, <1>2
  <2>2. \A n \in Nat : n \div 2 \in Nat /\ n \div 2 <= n
    OBVIOUS
  <2> QED BY <2>1, <2>2
<1> DEFINE half == Blind(s, ante \div 2)
           whole == Blind(b, ante)
<1>4. /\ half \in Chips /\ half <= ante /\ half <= chips[s]
      /\ whole \in Chips /\ whole <= ante /\ whole <= chips[b]
      /\ half \in Nat /\ whole \in Nat /\ chips[s] \in Chips /\ chips[b] \in Chips
  <2>1. chips[s] \in Chips /\ chips[b] \in Chips
    BY <1>1
  <2>2. chips[s] \in Nat /\ chips[b] \in Nat /\ chips[s] < ChipMod /\ chips[b] < ChipMod
    BY <1>2, <2>1
  <2>3. half = (IF ante \div 2 < chips[s] THEN ante \div 2 ELSE chips[s])
        /\ whole = (IF ante < chips[b] THEN ante ELSE chips[b])
    BY DEF Blind
  <2> HIDE DEF half, whole
  <2>4. half \in Nat /\ half <= ante /\ half <= chips[s] /\ whole \in Nat /\ whole <= ante
        /\ whole <= chips[b]
    BY <1>3, <2>2, <2>3
  <2> QED BY <2>1, <2>2, <2>4, ChipModAssumption DEF Chips
<1>5. /\ amt' = [[amt EXCEPT ![s] = half] EXCEPT ![b] = whole]
      /\ chips' = [[chips EXCEPT ![s] = Minus(@, amt'[s])] EXCEPT ![b] = Minus(@, amt'[b])]
      /\ bet' = ante
  BY DEF PostBlinds
<1> HIDE DEF half, whole
<1>6. /\ amt'[b] = whole /\ (s # b => amt'[s] = half)
      /\ \A x \in Seats \ {s, b} : amt'[x] = 0 /\ chips'[x] = chips[x]
  BY <1>1, <1>5
<1>7. chips'[b] + amt'[b] < ChipMod /\ chips'[s] + amt'[s] < ChipMod
  <2>1. CASE s # b
    <3>1. chips'[s] = Minus(chips[s], half) /\ chips'[b] = Minus(chips[b], whole)
      BY <1>1, <1>5, <1>6, <2>1
    <3>2. chips'[s] = chips[s] - half /\ chips'[b] = chips[b] - whole
      BY <1>4, <3>1, NoWrap
    <3>3. chips[s] \in Nat /\ chips[b] \in Nat /\ chips[s] < ChipMod /\ chips[b] < ChipMod
      BY <1>2, <1>4
    <3> QED BY <1>4, <1>6, <2>1, <3>2, <3>3
  <2>2. CASE s = b
    <3>1. chips'[b] = Minus(Minus(chips[b], whole), whole)
      BY <1>1, <1>5, <1>6, <2>2
    <3>2. chips[b] \in Nat /\ chips[b] < ChipMod
      BY <1>2, <1>4
    <3>3. Minus(chips[b], whole) = chips[b] - whole
      BY <1>4, NoWrap
    <3>4. chips[b] - whole \in Chips /\ whole <= chips[b] - whole
      BY <1>3, <1>4, <2>2, <3>2, ChipModAssumption DEF Chips
    <3>5. chips'[b] = (chips[b] - whole) - whole
      BY <1>4, <3>1, <3>3, <3>4, NoWrap
    <3>6. \A c, w \in Nat : c < ChipMod => ((c - w) - w) + w < ChipMod
      BY ChipModAssumption
    <3>7. chips'[b] + whole < ChipMod
      BY <1>4, <3>2, <3>5, <3>6
    <3> QED BY <1>6, <2>2, <3>7
  <2> QED BY <2>1, <2>2
<1>8. \A x \in Seats \ {s, b} : chips'[x] + amt'[x] < ChipMod
  <2> SUFFICES ASSUME NEW x \in Seats \ {s, b} PROVE chips'[x] + amt'[x] < ChipMod
    OBVIOUS
  <2>1. chips[x] \in Nat /\ chips[x] < ChipMod
    BY <1>1, <1>2
  <2> QED BY <1>6, <2>1
<1>9. \A x \in Seats : amt'[x] <= bet'
  <2>1. bet' = ante /\ 0 <= ante
    BY <1>3, <1>5
  <2>2. amt'[s] <= ante /\ amt'[b] <= ante
    BY <1>4, <1>6
  <2> QED BY <1>6, <2>1, <2>2
<1> QED BY <1>5, <1>6, <1>7, <1>8, <1>9

\* The first hand begins: the small blind and the big blind are the same only
\* where the big blind was a seat of its own before.
LEMMA StartKeepsFunded ==
  ASSUME BlindsAffordable, TurnInv, Funded, StartGame
  PROVE  Funded'
<1> DEFINE list == activePlayers
           s == HandleOrphanedSeats.smallBlind
           b == HandleOrphanedSeats.bigBlind
<1>1. /\ phase = "Open" /\ phase' = "Open" /\ state = "NotStarted" /\ state' = "PreFlop"
      /\ act' = act /\ numPlayers >= 2 /\ ReorderPreFlop(curPlayers, b) /\ PostBlinds(s, b)
  BY DEF StartGame, BeginGame
<1>2. /\ list \in Seq(Seats) /\ Distinct(list) /\ curPlayers = list /\ TypeOK
      /\ numPlayers = Len(list) /\ Members(list) \subseteq Seats /\ Members(list) = Occupied(act)
      /\ {dealer, smallBlind, bigBlind} \subseteq Members(list) \cup {None}
      /\ \A x \in Members(list) : act[x] = "FirstAction"
  BY <1>1, ListsKnown, MembersType DEF Following, OneRing, Seated, Waiting
<1>3. Len(list) # 0 /\ Len(list) # 1 /\ list[1] \in Members(list)
  <2>1. \A n \in Nat : n >= 2 => n # 0 /\ n # 1
    OBVIOUS
  <2>2. Len(list) # 0 /\ Len(list) # 1
    BY <1>1, <1>2, <2>1
  <2> QED BY <1>2, <2>2, HeadIsMember
<1>4. s \in Members(list) /\ b \in Members(list)
  <2>1. HandleOrphanedSeats \in [dealer : Members(list), smallBlind : Members(list),
                                 bigBlind : Members(list)]
    BY <1>2, <1>3, SeatingKeeps
  <2> QED BY <2>1
<1>5. s = b => b = bigBlind
  <2>1. b = IF bigBlind # None THEN bigBlind ELSE NextOf(list, s)
    BY DEF HandleOrphanedSeats
  <2>2. NextOf(list, s) # s
    BY <1>2, <1>3, <1>4, NextOfKeeps
  <2> QED BY <2>1, <2>2
<1> HIDE DEF s, b
<1>6. /\ ante = Ante /\ \A x \in Seats : amt[x] = 0
      /\ \A x \in Seats : chips[x] = StartChips \/ x # bigBlind
  BY <1>1 DEF Funded
<1>7. s = b => 2 * ante <= chips[b]
  BY <1>2, <1>4, <1>5, <1>6 DEF BlindsAffordable
<1>8. /\ \A x \in Seats : chips'[x] + amt'[x] < ChipMod
      /\ \A x \in Seats : amt'[x] <= bet'
      /\ \A x \in Seats \ {s, b} : amt'[x] = 0
  BY <1>1, <1>2, <1>4, <1>6, <1>7, PostBlindsFunds
<1>9. Members(curPlayers') \subseteq Seats
  <2>1. Members(curPlayers') = Members(list)
    BY <1>1, <1>2, <1>4, PreFlopInOrder
  <2> QED BY <1>2, <2>1
<1>10. \A x \in Seats : act'[x] \in {"VacantSeat", "MidroundAddition"} => amt'[x] = 0
  <2>1. act[s] = "FirstAction" /\ act[b] = "FirstAction"
    BY <1>2, <1>4
  <2> QED BY <1>1, <1>8, <2>1
<1> QED BY <1>1, <1>8, <1>9, <1>10 DEF Funded

\* The next hand begins without bets.
LEMMA NewRoundKeepsFunded ==
  ASSUME TurnInv, Funded, NewRound
  PROVE  Funded'
<1>1. CASE activePlayers = << >>
  BY <1>1 DEF NewRound, Panic, players, Funded
<1>2. CASE activePlayers # << >>
  <2>1. /\ phase = "NewRound" /\ phase' = "Blinds"
        /\ act' = [s \in Seats |-> IF s \in Members(activePlayers) THEN "FirstAction" ELSE act[s]]
        /\ amt' = [s \in Seats |-> IF s \in Members(activePlayers) THEN 0 ELSE amt[s]]
    BY <1>2 DEF NewRound
  <2>2. Members(activePlayers) = Occupied(act)
    BY <2>1, ListsKnown DEF Following
  <2>3. \A s \in Seats : s \notin Members(activePlayers) => amt[s] = 0
    BY <2>2 DEF Funded, Occupied
  <2>4. \A s \in Seats : amt'[s] = 0
    BY <2>1, <2>3
  <2> QED BY <2>1, <2>4 DEF Funded
<1> QED BY <1>1, <1>2

\* The blinds of a later hand are two players.
LEMMA BlindsApart ==
  ASSUME TurnInv, Blinds
  PROVE  \E s, b \in Members(activePlayers) :
           /\ s # b /\ PostBlinds(s, b) /\ ReorderPreFlop(curPlayers, b)
           /\ act' = [x \in Seats |-> IF x \in {s, b} /\ chips'[x] = 0 THEN "AllIn" ELSE act[x]]
<1> DEFINE list == activePlayers
           old == [dealer |-> dealer, smallBlind |-> smallBlind, bigBlind |-> bigBlind]
           seating == RotatePlayers(old)
           s == seating.smallBlind
           b == seating.bigBlind
<1>1. /\ list \in Seq(Seats) /\ Distinct(list) /\ Len(list) >= 2
      /\ {dealer, smallBlind, bigBlind} \subseteq Members(list)
  BY ListsKnown DEF Blinds, Following, Posting
<1>2. Len(list) # 1 /\ ~(Len(list) < 2)
  <2>1. \A n \in Nat : n >= 2 => n # 1 /\ ~(n < 2)
    OBVIOUS
  <2>2. Len(list) \in Nat
    BY <1>1
  <2> QED BY <1>1, <2>1, <2>2
<1>3. s \in Members(list) /\ b \in Members(list)
  <2>1. old \in [dealer : Members(list), smallBlind : Members(list), bigBlind : Members(list)]
    BY <1>1
  <2>2. seating \in [dealer : Members(list), smallBlind : Members(list), bigBlind : Members(list)]
    BY <1>1, <2>1, RotateKeeps
  <2> HIDE DEF seating
  <2> QED BY <2>2
<1>4. b = NextOf(list, s)
  BY <1>2 DEF RotatePlayers
<1>5. /\ PostBlinds(s, b) /\ ReorderPreFlop(curPlayers, b)
      /\ act' = [x \in Seats |-> IF x \in {s, b} /\ chips'[x] = 0 THEN "AllIn" ELSE act[x]]
  BY <1>2 DEF Blinds
<1> HIDE DEF s, b
<1>6. s # b
  BY <1>1, <1>2, <1>3, <1>4, NextOfKeeps
<1> QED BY <1>3, <1>5, <1>6

\* They pay no more than they have.
LEMMA BlindsKeepFunded ==
  ASSUME TurnInv, Funded, Blinds
  PROVE  Funded'
<1> DEFINE list == activePlayers
<1>1. /\ list \in Seq(Seats) /\ Distinct(list) /\ curPlayers = list /\ TypeOK
      /\ phase = "Blinds" /\ phase' = "SmallBlindAllIn" /\ state' = "PreFlop"
      /\ Members(list) \subseteq Seats /\ \A x \in Members(list) : act[x] = "FirstAction"
  BY ListsKnown, MembersType DEF Blinds, Following, Posting
<1>2. PICK s, b \in Members(list) :
        /\ s # b /\ PostBlinds(s, b) /\ ReorderPreFlop(curPlayers, b)
        /\ act' = [x \in Seats |-> IF x \in {s, b} /\ chips'[x] = 0 THEN "AllIn" ELSE act[x]]
  BY BlindsApart
<1>3. \A x \in Seats : amt[x] = 0
  BY <1>1 DEF Funded
<1>4. /\ \A x \in Seats : chips'[x] + amt'[x] < ChipMod
      /\ \A x \in Seats : amt'[x] <= bet'
      /\ \A x \in Seats \ {s, b} : amt'[x] = 0
  BY <1>1, <1>2, <1>3, PostBlindsFunds
<1>5. Members(curPlayers') \subseteq Seats
  <2>1. Members(curPlayers') = Members(list)
    BY <1>1, <1>2, PreFlopInOrder
  <2> QED BY <1>1, <2>1
<1>6. \A x \in Seats : act'[x] \in {"VacantSeat", "MidroundAddition"} => amt'[x] = 0
  <2>1. act[s] = "FirstAction" /\ act[b] = "FirstAction"
    BY <1>1
  <2> QED BY <1>2, <1>4, <2>1
<1> QED BY <1>1, <1>4, <1>5, <1>6 DEF Funded

\* A blind that is all-in leaves the betting list and nothing else changes.
LEMMA BlindsLeave ==
  ASSUME TurnInv, SmallBlindAllIn \/ BigBlindAllIn
  PROVE  /\ phase \in {"SmallBlindAllIn", "BigBlindAllIn"} /\ phase' \in {"BigBlindAllIn", "Open"}
         /\ phase' = "BigBlindAllIn" <=> phase = "SmallBlindAllIn"
         /\ UNCHANGED << act, amt, chips, activePlayers, ante, bet, commState >>
         /\ Members(curPlayers') \subseteq Members(curPlayers)
         /\ state' \in {"PreFlop", "DoneBetting"}
<1>1. PICK blind, this, next :
        /\ << blind, this, next >> \in {<< smallBlind, "SmallBlindAllIn", "BigBlindAllIn" >>,
                                        << bigBlind, "BigBlindAllIn", "Open" >>}
        /\ BlindAllIn(this, blind, next)
  BY DEF SmallBlindAllIn, BigBlindAllIn
<1>2. /\ phase = this /\ phase' = next /\ this \in {"SmallBlindAllIn", "BigBlindAllIn"}
      /\ next \in {"BigBlindAllIn", "Open"} /\ (next = "BigBlindAllIn" <=> this = "SmallBlindAllIn")
      /\ UNCHANGED << act, amt, chips, activePlayers, ante, bet, commState >>
  BY <1>1 DEF BlindAllIn, players, levels
<1>3. /\ TypeOK /\ Seated /\ blind \in Members(activePlayers) /\ state \in {"PreFlop", "DoneBetting"}
  BY <1>1, <1>2, ListsKnown DEF Following, Posting
<1>4. CASE act[blind] # "AllIn"
  <2>1. curPlayers' = curPlayers /\ state' = state
    BY <1>1, <1>4 DEF BlindAllIn
  <2> QED BY <1>2, <1>3, <2>1
<1>5. CASE act[blind] = "AllIn"
  <2>1. /\ Members(curPlayers') = Members(curPlayers) \ {blind}
        /\ state' \in {"PreFlop", "DoneBetting"}
    BY <1>1, <1>2, <1>3, <1>5, BlindAllInType
  <2> QED BY <1>2, <2>1
<1> QED BY <1>4, <1>5

\* A blind may be all-in.
LEMMA BlindAllInKeepsFunded ==
  ASSUME TurnInv, Funded, SmallBlindAllIn \/ BigBlindAllIn
  PROVE  Funded'
  BY BlindsLeave DEF Funded

\* The next street begins without bets.
LEMMA DealKeepsFunded ==
  ASSUME TurnInv, Funded, DealStreet
  PROVE  Funded'
<1>1. CASE NobodyStarts
  BY <1>1 DEF DealStreet, Panic, players, Funded
<1>2. CASE ~NobodyStarts
  <2>1. /\ phase = "PostBetting" /\ phase' = "Open" /\ state' = "Rounds" /\ bet' = 0
        /\ act' = [s \in Seats |-> IF s \in Members(curPlayers) THEN "FirstAction" ELSE act[s]]
        /\ amt' = [s \in Seats |-> IF s \in Members(curPlayers) THEN 0 ELSE amt[s]]
        /\ chips' = chips /\ curPlayers' = SetHead(curPlayers, PostFlopFirst)
    BY <1>2 DEF DealStreet, ReorderPostFlop
  <2>2. /\ PostFlopFirst \in Members(curPlayers) /\ curPlayers \in Seq(Seats) /\ Distinct(curPlayers)
        /\ Members(curPlayers) \subseteq Seats /\ TypeOK
    BY <2>1, FirstOfStreet, ListsKnown, MembersType DEF Following
  <2>3. Members(curPlayers') = Members(curPlayers)
    BY <2>1, <2>2, SetHeadKeeps
  <2>4. \A s \in Seats : act'[s] \in {"VacantSeat", "MidroundAddition"} => amt'[s] = 0
    <3> SUFFICES ASSUME NEW s \in Seats, act'[s] \in {"VacantSeat", "MidroundAddition"}
                 PROVE  amt'[s] = 0
      OBVIOUS
    <3>1. s \notin Members(curPlayers) /\ act[s] \in {"VacantSeat", "MidroundAddition"}
      BY <2>1
    <3> QED BY <2>1, <3>1 DEF Funded
  <2>5. \A s \in Seats : chips'[s] + amt'[s] < ChipMod
    <3> SUFFICES ASSUME NEW s \in Seats PROVE chips'[s] + amt'[s] < ChipMod
      OBVIOUS
    <3>1. chips[s] + amt[s] < ChipMod /\ chips[s] \in Chips /\ amt[s] \in Chips
      BY <2>1, <2>2 DEF Funded, TypeOK
    <3>2. chips[s] \in Nat /\ amt[s] \in Nat /\ ChipMod \in Nat /\ chips[s] < ChipMod
      BY <3>1, ChipModAssumption DEF Chips
    <3>3. amt'[s] \in {0, amt[s]}
      BY <2>1
    <3> QED BY <2>1, <3>1, <3>2, <3>3
  <2>6. \A q \in Members(curPlayers') : amt'[q] <= bet'
    BY <2>1, <2>2, <2>3
  <2> QED BY <2>1, <2>4, <2>5, <2>6 DEF Funded
<1> QED BY <1>1, <1>2

\* From the end of a street to the end of the game the bets stay as they are.
LEMMA FinishKeepsFunded ==
  ASSUME Funded, ShowDownEarly \/ RunOut \/ RiverDone \/ FinishByFolds \/ NoHandsLeft \/ ShowHands
                 \/ AwardSidePot \/ AwardDone \/ AbandonPots \/ AbandonToLast \/ AbandonToJoiner
                 \/ Eliminate \/ EliminationDone
  PROVE  Funded'
<1> DEFINE Still == /\ UNCHANGED << act, amt >>
                     /\ phase' \notin {"Open", "Blinds", "SmallBlindAllIn", "BigBlindAllIn", "PostBetting"}
<1>1. ShowDownEarly \/ RunOut \/ RiverDone => Still
  BY DEF ShowDownEarly, RunOut, RiverDone, Panic, players
<1>2. FinishByFolds \/ NoHandsLeft \/ ShowHands \/ AwardDone => Still
  BY DEF FinishByFolds, WinByFolds, NoHandsLeft, ShowHands, AwardDone, Panic, players
<1>3. AwardSidePot => Still
  BY DEF AwardSidePot, Panic, players
<1>4. AbandonPots \/ AbandonToLast \/ AbandonToJoiner \/ Eliminate \/ EliminationDone => Still
  BY DEF AbandonPots, AbandonToLast, WinByFolds, AbandonToJoiner, Eliminate, EliminationDone, Panic, players
<1> QED BY <1>1, <1>2, <1>3, <1>4, OverKeepsFunded

\* A failed assertion.
LEMMA PanicKeepsFunded ==
  ASSUME Funded, Panic
  PROVE  Funded'
  BY DEF Funded, Panic, players

\* No step at all.
LEMMA StutterKeepsFunded ==
  ASSUME Funded, UNCHANGED vars
  PROVE  Funded'
  BY DEF vars, players, lists, buttons, levels, Funded

\* Every step.
LEMMA StepKeepsFunded ==
  ASSUME PausesInRounds, BlindsAffordable, TurnInv, Funded, [Next]_vars
  PROVE  Funded'
<1>1. ASSUME NEW p \in Seats, Turn(p) PROVE Funded'
  <2>1. CASE Panic
    BY <2>1, PanicKeepsFunded
  <2>2. CASE ~Panic
    <3>1. MayAct(p)
      BY <1>1 DEF Turn, AllIn, Bet, Call, Check, Fold
    <3>2. IInv
      BY DEF TurnInv
    <3> QED BY <1>1, <2>2, <3>2, TurnKeepsFunded
  <2> QED BY <2>1, <2>2
<1>2. ASSUME NEW p \in Seats, Join(p) PROVE Funded'
  BY <1>2, JoinKeepsFunded DEF TurnInv
<1>3. ASSUME Request PROVE Funded'
  BY <1>1, <1>2, <1>3, LeaveKeepsFunded, LeaveLastKeepsFunded, StartKeepsFunded DEF Request
<1>4. ASSUME Flow PROVE Funded'
  BY <1>4, NewRoundKeepsFunded, BlindsKeepFunded, BlindAllInKeepsFunded, DealKeepsFunded,
     FinishKeepsFunded, RemovalKeepsFunded, GameOverKeepsFunded DEF Flow
<1>5. ASSUME UNCHANGED vars PROVE Funded'
  BY <1>5, StutterKeepsFunded
<1> QED BY <1>3, <1>4, <1>5 DEF Next

\* Chips never wrap, and nobody has more in front than the bet to be called:
\* the subtractions of a hand are those of natural numbers.
THEOREM AlwaysFunded ==
  ASSUME PausesInRounds, BlindsAffordable
  PROVE  Spec => []Funded
<1>1. Init => Funded
  <2> SUFFICES ASSUME Init PROVE Funded
    OBVIOUS
  <2>1. /\ \A s \in Seats : amt[s] = 0 /\ chips[s] = StartChips
        /\ ante = Ante /\ bet = 0 /\ phase = "Open" /\ curPlayers = << >>
    BY DEF Init
  <2>2. StartChips + 0 < ChipMod
    BY TableAssumption, ChipModAssumption DEF Chips
  <2>3. Members(curPlayers) = {}
    BY <2>1 DEF Members
  <2> QED BY <2>1, <2>2, <2>3 DEF Funded
<1>2. TurnInv /\ Funded /\ [Next]_vars => Funded'
  BY StepKeepsFunded
<1> QED BY <1>1, <1>2, AlwaysTurnInv, PTL DEF Spec

\* Nobody who still bets has more in front than the bet to be called: the
\* difference of the two does not wrap.
THEOREM AlwaysBetCovers ==
  ASSUME PausesInRounds, BlindsAffordable
  PROVE  Spec => []BetCovers
<1>1. Funded => BetCovers
  BY DEF Funded, BetCovers, Betting
<1> QED BY <1>1, AlwaysFunded, PTL

-----------------------------------------------------------------------------
(* A raise goes around and is called in turn.                              *)

\* Somebody else leaves the list.
LEMMA RemoveKeepsCalled ==
  ASSUME NEW list \in Seq(Seats), Distinct(list), NEW turn \in Members(list), NEW a, NEW b,
         CalledInOrder(list, turn, a, b), NEW x, x # turn
  PROVE  CalledInOrder(RemovePlayer(list, x), turn, a, b)
<1>1. CASE x \notin Members(list)
  BY <1>1, RemovePlayerKeeps
<1>2. CASE x \in Members(list)
  <2> DEFINE short == RemovePlayer(list, x)
  <2>1. Members(short) = Members(list) \ {x}
    BY RemovePlayerKeeps
  <2>2. \A s \in Members(short) : Position(short, s)
          = IF Position(list, s) < Position(list, x) THEN Position(list, s) ELSE Position(list, s) - 1
    BY <1>2, <2>1, RemovePosition
  <2>3. \A s \in Members(list) : Position(list, s) \in Int
    BY Positions
  <2>4. \A s \in Members(short) : Position(list, s) # Position(list, x)
    BY <1>2, <2>1, PositionsDiffer
  <2> HIDE DEF short
  <2>5. turn \in Members(short)
    BY <2>1
  <2>6. \A p \in Members(short) :
          Position(short, p) < Position(short, turn) <=> Position(list, p) < Position(list, turn)
    BY <1>2, <2>1, <2>2, <2>3, <2>4, <2>5
  <2>7. CalledInOrder(short, turn, a, b)
    BY <2>1, <2>6 DEF CalledInOrder
  <2> QED BY <2>7 DEF short
<1> QED BY <1>1, <1>2

\* Who has the turn calls and passes it on.
LEMMA NextKeepsCalled ==
  ASSUME NEW list \in Seq(Seats), Distinct(list), NEW turn \in Members(list), NEW a, NEW b, NEW c,
         CalledInOrder(list, turn, a, b), Position(list, turn) # Len(list),
         c[turn] = b, \A s \in Members(list) \ {turn} : c[s] = a[s]
  PROVE  CalledInOrder(list, NextOf(list, turn), c, b)
<1> DEFINE k == Position(list, turn)
<1>1. Position(list, NextOf(list, turn)) = k + 1
  BY NextPosition
<1>2. /\ \A s \in Members(list) : Position(list, s) \in 1 .. Len(list)
      /\ \A s \in Members(list) : Position(list, s) = k => s = turn
      /\ k \in 1 .. Len(list)
  BY Positions, PositionsDiffer
<1> SUFFICES ASSUME NEW p \in Members(list)
             PROVE  IF Position(list, p) < k + 1 THEN c[p] = b ELSE c[p] < b
  BY <1>1 DEF CalledInOrder
<1>3. IF Position(list, p) < k THEN a[p] = b ELSE a[p] < b
  BY DEF CalledInOrder
<1> HIDE DEF k
<1>4. CASE p = turn
  <2>1. k < k + 1
    BY <1>2
  <2> QED BY <1>4, <2>1 DEF k
<1>5. CASE p # turn
  <2>1. Position(list, p) < k + 1 <=> Position(list, p) < k
    BY <1>2, <1>5
  <2> QED BY <1>3, <1>5, <2>1
<1> QED BY <1>4, <1>5

\* Who has the turn leaves the list and passes it on.
LEMMA FoldKeepsCalled ==
  ASSUME NEW list \in Seq(Seats), Distinct(list), NEW turn \in Members(list), NEW a, NEW b,
         CalledInOrder(list, turn, a, b), Position(list, turn) # Len(list)
  PROVE  CalledInOrder(RemovePlayer(list, turn), NextOf(list, turn), a, b)
<1> DEFINE k == Position(list, turn)
           next == NextOf(list, turn)
           short == RemovePlayer(list, turn)
<1>1. /\ \A s \in Members(list) : Position(list, s) \in 1 .. Len(list)
      /\ \A s \in Members(list) : Position(list, s) = k => s = turn
      /\ k \in 1 .. Len(list)
  BY Positions, PositionsDiffer
<1>2. Position(list, next) = k + 1 /\ next \in Members(list)
  BY NextPosition, NextOfKeeps
<1>3. next # turn
  <2>1. k + 1 # k
    BY <1>1
  <2> QED BY <1>2, <2>1
<1>4. /\ Members(short) = Members(list) \ {turn}
      /\ \A s \in Members(short) : Position(short, s)
           = IF Position(list, s) < k THEN Position(list, s) ELSE Position(list, s) - 1
  <2>1. Members(short) = Members(list) \ {turn}
    BY RemovePlayerKeeps
  <2> QED BY <2>1, RemovePosition
<1> HIDE DEF k, next, short
<1>5. Position(short, next) = k
  BY <1>1, <1>2, <1>3, <1>4
<1>6. ASSUME NEW p \in Members(short)
      PROVE  IF Position(short, p) < Position(short, next) THEN a[p] = b ELSE a[p] < b
  <2>1. IF Position(list, p) < k THEN a[p] = b ELSE a[p] < b
    BY <1>4, <1>6 DEF CalledInOrder, k
  <2>2. Position(short, p) < k <=> Position(list, p) < k
    BY <1>1, <1>4, <1>6
  <2> QED BY <1>5, <2>1, <2>2
<1> QED BY <1>6 DEF CalledInOrder, short, next

\* Who raises becomes the head of the list.
LEMMA HeadIsFirst ==
  ASSUME NEW list \in Seq(Seats), Distinct(list), NEW p \in Members(list)
  PROVE  Position(SetHead(list, p), p) = 1
<1>1. Position(list, p) \in 1 .. Len(list)
  BY Positions
<1>2. Position(SetHead(list, p), p) = Position(list, p) - Position(list, p) + 1
  BY <1>1, SetHeadPosition
<1> QED BY <1>1, <1>2

\* The head has raised and passes the turn on: the others are to call.
LEMMA RaiseIsCalled ==
  ASSUME NEW ring \in Seq(Seats), Distinct(ring), NEW p \in Members(ring), Len(ring) # 1,
         Position(ring, p) = 1, NEW c, NEW b, c[p] = b, \A s \in Members(ring) \ {p} : c[s] < b
  PROVE  CalledInOrder(ring, NextOf(ring, p), c, b)
<1>1. Position(ring, NextOf(ring, p)) = 2
  <2>1. Position(ring, NextOf(ring, p)) = IF Position(ring, p) = Len(ring) THEN 1 ELSE Position(ring, p) + 1
    BY NextPosition
  <2> QED BY <2>1
<1>2. \A s \in Members(ring) : Position(ring, s) < 2 <=> s = p
  <2>1. \A s \in Members(ring) : Position(ring, s) \in 1 .. Len(ring)
    BY Positions
  <2>2. \A s \in Members(ring) : Position(ring, s) = 1 => s = p
    BY PositionsDiffer
  <2> SUFFICES ASSUME NEW s \in Members(ring) PROVE Position(ring, s) < 2 <=> s = p
    OBVIOUS
  <2>3. Position(ring, s) \in Nat /\ Position(ring, s) >= 1
    BY <2>1
  <2>4. Position(ring, s) < 2 <=> Position(ring, s) = 1
    BY <2>3
  <2> QED BY <2>2, <2>4
<1> QED BY <1>1, <1>2 DEF CalledInOrder

\* At the end of the list everybody else has called.
LEMMA LastToCall ==
  ASSUME NEW list \in Seq(Seats), Distinct(list), NEW turn \in Members(list), NEW a, NEW b,
         CalledInOrder(list, turn, a, b)
  PROVE  /\ Position(list, turn) = Len(list) => \A s \in Members(list) \ {turn} : a[s] = b
         /\ Position(list, turn) = 1 => \A s \in Members(list) : a[s] < b
<1>1. /\ \A s \in Members(list) : Position(list, s) \in 1 .. Len(list)
      /\ \A s \in Members(list) : Position(list, s) = Position(list, turn) => s = turn
  BY Positions, PositionsDiffer
<1>2. ASSUME Position(list, turn) = Len(list), NEW s \in Members(list) \ {turn} PROVE a[s] = b
  <2>1. Position(list, s) < Position(list, turn)
    BY <1>1, <1>2
  <2> QED BY <2>1 DEF CalledInOrder
<1>3. ASSUME Position(list, turn) = 1, NEW s \in Members(list) PROVE a[s] < b
  <2>1. ~(Position(list, s) < Position(list, turn))
    BY <1>1, <1>3
  <2> QED BY <2>1 DEF CalledInOrder
<1> QED BY <1>2, <1>3

\* A player alone in the list ends the street or the hand.
LEMMA AloneEnds ==
  ASSUME NEW cur \in Seq(Seats), Distinct(cur), curPlayer \in Members(cur), Len(cur) = 1,
         NEW st \in BettingStates, NEW P, NEW a, NEW t, t = SetNextPlayerTurn(a, cur, st, P)
  PROVE  PhaseAfter(t.state) # "Open" /\ Len(t.cur) < 2
<1>1. t.state \in {"RoundOver", "DoneBetting"}
  BY TurnGoesOn
<1>2. t.cur \in {cur, RemovePlayer(cur, curPlayer)}
  BY TurnGoesOn
<1>3. Len(RemovePlayer(cur, curPlayer)) = Len(cur) - 1
  BY RemovePlayerKeeps
<1>4. Len(t.cur) < 2
  <2>1. t.cur = cur \/ t.cur = RemovePlayer(cur, curPlayer)
    BY <1>2
  <2>2. t.cur \in Seq(Seats)
    BY <2>1, RemovePlayerKeeps
  <2> QED BY <1>3, <2>1, <2>2
<1>5. PhaseAfter(t.state) # "Open"
  BY <1>1 DEF PhaseAfter
<1> QED BY <1>4, <1>5

\* A check, a call, a fold or a departure: the turn passes on with everybody
\* ahead of it called, or the street is over and all have called, or whoever
\* raised has left and none of them has.
LEMMA CallStep ==
  ASSUME NEW cur \in Seq(Seats), Distinct(cur), curPlayer \in Members(cur),
         ActedInOrder(cur, curPlayer, act), NEW st \in BettingStates, st # "PreFlop", NEW P,
         NEW a, \A s \in Members(cur) \ {curPlayer} : a[s] = act[s],
         a[curPlayer] \in {"Check", "Call", "Fold"},
         bet' \in Int,
         st = "Rounds" => \A s \in Members(cur) : amt'[s] = bet',
         st = "PlayerRaised" => /\ CalledInOrder(cur, curPlayer, amt, bet')
                                /\ \A s \in Members(cur) \ {curPlayer} : amt'[s] = amt[s]
                                /\ amt'[curPlayer] = bet' \/ a[curPlayer] = "Fold",
         NEW t, t = SetNextPlayerTurn(a, cur, st, P)
  PROVE  /\ PhaseAfter(t.state) = "Open" /\ st = "PlayerRaised" =>
              CalledInOrder(t.cur, t.curPlayer, amt', bet')
         /\ PhaseAfter(t.state) = "PostBetting" /\ (\E s \in Members(t.cur) : amt'[s] = bet') =>
              Len(t.cur) < 2 \/ \A s \in Members(t.cur) : amt'[s] = bet'
<1> DEFINE k == Position(cur, curPlayer)
           done == DoneAt(a, DropFolded(a, cur), NextOf(cur, curPlayer))
<1>1. st \in {"Rounds", "PlayerRaised"}
  BY DEF BettingStates
<1>2. CASE Len(cur) = 1
  BY <1>2, AloneEnds
<1>3. CASE Len(cur) # 1
  <2>1. /\ t.cur = Left(a, cur, curPlayer) /\ t.curPlayer = NextOf(cur, curPlayer)
        /\ t.state \in {"RoundOver", "DoneBetting", st}
        /\ t.state = "DoneBetting" <=> done /\ t.state # "RoundOver"
    BY <1>3, TurnGoesOn
  <2>2. /\ k = Len(cur) => done
        /\ done => k = Len(cur) \/ (k = 1 /\ a[curPlayer] = "Fold")
    BY <1>3, WhenDone
  <2>3. /\ a[curPlayer] = "Fold" => t.cur = RemovePlayer(cur, curPlayer)
        /\ a[curPlayer] # "Fold" => t.cur = cur
        /\ Members(RemovePlayer(cur, curPlayer)) = Members(cur) \ {curPlayer}
    BY <2>1, RemovePlayerKeeps DEF Left
  <2> HIDE DEF k, done
  <2>4. CASE st = "Rounds"
    BY <2>3, <2>4
  <2>5. CASE st = "PlayerRaised"
    <3>1. ASSUME PhaseAfter(t.state) = "Open" PROVE CalledInOrder(t.cur, t.curPlayer, amt', bet')
      <4>1. k # Len(cur)
        BY <2>1, <2>2, <3>1 DEF PhaseAfter
      <4>2. CASE a[curPlayer] = "Fold"
        <5>1. CalledInOrder(t.cur, t.curPlayer, amt, bet')
          BY <2>1, <2>3, <2>5, <4>1, <4>2, FoldKeepsCalled DEF k
        <5> QED BY <2>1, <2>3, <2>5, <4>2, <5>1 DEF CalledInOrder
      <4>3. CASE a[curPlayer] # "Fold"
        BY <2>1, <2>3, <2>5, <4>1, <4>3, NextKeepsCalled DEF k
      <4> QED BY <4>2, <4>3
    <3>2. ASSUME PhaseAfter(t.state) = "PostBetting", NEW s \in Members(t.cur), amt'[s] = bet'
          PROVE  \A q \in Members(t.cur) : amt'[q] = bet'
      <4>1. done
        BY <2>1, <2>5, <3>2 DEF PhaseAfter
      <4>2. CASE k = Len(cur)
        <5>1. \A q \in Members(cur) \ {curPlayer} : amt'[q] = bet'
          BY <2>5, <4>2, LastToCall DEF k
        <5> QED BY <2>3, <2>5, <5>1
      <4>3. CASE k = 1 /\ a[curPlayer] = "Fold"
        <5>1. \A q \in Members(cur) : amt[q] < bet'
          BY <2>5, <4>3, LastToCall DEF k
        <5>2. amt'[s] < bet'
          BY <2>3, <2>5, <3>2, <4>3, <5>1
        <5> QED BY <3>2, <5>2
      <4> QED BY <2>2, <4>1, <4>2, <4>3
    <3> QED BY <3>1, <3>2
  <2> QED BY <1>1, <2>4, <2>5
<1> QED BY <1>2, <1>3

\* A raise: the turn passes on with everybody else to call.
LEMMA RaiseStep ==
  ASSUME NEW cur \in Seq(Seats), Distinct(cur), curPlayer \in Members(cur),
         Position(cur, curPlayer) = 1, ActedInOrder(cur, curPlayer, act),
         NEW st \in BettingStates, NEW P,
         NEW a, \A s \in Members(cur) \ {curPlayer} : a[s] = act[s], a[curPlayer] = "Bet",
         amt'[curPlayer] = bet', \A s \in Members(cur) \ {curPlayer} : amt'[s] < bet',
         NEW t, t = SetNextPlayerTurn(a, cur, st, P)
  PROVE  /\ PhaseAfter(t.state) = "Open" => CalledInOrder(t.cur, t.curPlayer, amt', bet')
         /\ PhaseAfter(t.state) = "PostBetting" => Len(t.cur) < 2
<1> DEFINE done == DoneAt(a, DropFolded(a, cur), NextOf(cur, curPlayer))
<1>1. CASE Len(cur) = 1
  BY <1>1, AloneEnds
<1>2. CASE Len(cur) # 1
  <2>1. /\ t.cur = Left(a, cur, curPlayer) /\ t.curPlayer = NextOf(cur, curPlayer)
        /\ t.state \in {"RoundOver", "DoneBetting", st}
        /\ t.state = "DoneBetting" <=> done /\ t.state # "RoundOver"
    BY <1>2, TurnGoesOn
  <2>2. done => Position(cur, curPlayer) = Len(cur) \/ a[curPlayer] = "Fold"
    BY <1>2, WhenDone
  <2>3. t.cur = cur
    BY <2>1 DEF Left
  <2>4. CalledInOrder(cur, NextOf(cur, curPlayer), amt', bet')
    BY <1>2, RaiseIsCalled
  <2> HIDE DEF done
  <2>5. t.state # "DoneBetting"
    BY <1>2, <2>1, <2>2
  <2> QED BY <2>1, <2>3, <2>4, <2>5 DEF PhaseAfter, BettingStates
<1> QED BY <1>1, <1>2

-----------------------------------------------------------------------------
(* The steps.                                                              *)

\* Nothing is called while nobody bets and no street is over.
LEMMA QuietKeepsCalled ==
  ASSUME phase' \notin {"Open", "SmallBlindAllIn", "BigBlindAllIn", "PostBetting"}
  PROVE  Called' /\ EveryoneCalled'
  BY DEF Called, Betting, EveryoneCalled

\* The turn of a player who has not gone all-in, after the flop.
LEMMA PlayedCalls ==
  ASSUME TurnInv, Funded, Called, NEW p \in Seats, MayAct(p),
         NEW kind \in {"AllIn", "Bet", "Call", "Check", "Fold"},
         NEW cur, NEW st, NEW P, Played(p, kind, cur, st, P),
         commState # "PreFlop", IsEmpty(P)
  PROVE  /\ phase' = "Open" => /\ state' = "Rounds" => bet' = 0
                               /\ state' = "PlayerRaised" =>
                                    CalledInOrder(curPlayers', curPlayer', amt', bet')
         /\ phase' = "PostBetting" /\ (\E s \in Members(curPlayers') : amt'[s] = bet') =>
              Len(curPlayers') < 2 \/ \A s \in Members(curPlayers') : amt'[s] = bet'
<1> DEFINE a == [act EXCEPT ![p] = kind]
           t == SetNextPlayerTurn(a, cur, st, P)
<1>1. /\ curPlayers' = t.cur /\ curPlayer' = t.curPlayer /\ state' = t.state
      /\ phase' = PhaseAfter(t.state)
  BY DEF Played, EndTurn
<1>2. /\ IInv /\ p = curPlayer /\ curPlayers \in Seq(Seats) /\ Distinct(curPlayers)
      /\ p \in Members(curPlayers) /\ Members(curPlayers) \subseteq Seats
      /\ Betting /\ state \in BettingStates /\ bet \in Chips /\ act \in [Seats -> Actions]
      /\ ActedInOrder(curPlayers, p, act)
  <2>1. IInv /\ Following /\ Betting
    BY DEF TurnInv, MayAct, Following, Betting
  <2> QED BY <2>1, BettorKnown, ListsKnown, MembersType DEF ActInOrder
<1>3. /\ IsEmpty(pots) /\ kind # "AllIn"
      /\ state \in {"Rounds", "PlayerRaised"}
      /\ state = "Rounds" => bet = 0
      /\ state = "PlayerRaised" => CalledInOrder(curPlayers, curPlayer, amt, bet)
      /\ \A q \in Members(curPlayers) : chips[q] # 0
  BY <1>2 DEF Played, Called, Betting, BettingStates
<1>4. \A s \in Members(curPlayers) \ {p} : a[s] = act[s]
  BY <1>2
<1>5. a[p] = kind
  BY <1>2
<1>6. /\ \A q \in Members(curPlayers) : amt'[q] <= bet'
      /\ \A q \in Members(curPlayers) \ {p} : amt'[q] = amt[q]
  BY <1>2 DEF Played
<1>7. t.state \in {st, "RoundOver", "DoneBetting"}
  <2>1. cur \in Seq(Seats) /\ p \in Members(cur) /\ st \in BettingStates
    BY <1>2, SetHeadKeeps DEF Played
  <2> HIDE DEF a
  <2>2. t = SetNextPlayerTurn(a, cur, st, P)
    OBVIOUS
  <2> HIDE DEF t
  <2> QED BY <1>2, <2>1, <2>2, TurnGoesOn
<1> HIDE DEF a
<1>8. CASE kind = "Bet"
  <2>1. /\ cur = SetHead(curPlayers, p) /\ st = "PlayerRaised" /\ amt'[p] = bet' /\ st \in BettingStates
        /\ \A q \in Members(curPlayers) \ {p} : amt'[q] < bet'
    BY <1>3, <1>6, <1>8 DEF Played
  <2>2. /\ cur \in Seq(Seats) /\ Distinct(cur) /\ Members(cur) = Members(curPlayers)
        /\ Position(cur, p) = 1 /\ ActedInOrder(cur, p, act)
    BY <1>2, <2>1, SetHeadKeeps, HeadIsFirst, SetHeadKeepsOrder
  <2>3. t = SetNextPlayerTurn(a, cur, st, P)
    OBVIOUS
  <2> HIDE DEF t
  <2>4. /\ PhaseAfter(t.state) = "Open" => CalledInOrder(t.cur, t.curPlayer, amt', bet')
        /\ PhaseAfter(t.state) = "PostBetting" => Len(t.cur) < 2
    BY <1>2, <1>4, <1>5, <1>8, <2>1, <2>2, <2>3, RaiseStep
  <2>5. state' # "Rounds"
    BY <1>1, <1>7, <2>1
  <2> QED BY <1>1, <2>4, <2>5
<1>9. CASE kind \in {"Call", "Check", "Fold"}
  <2>1. /\ cur = curPlayers /\ st = state /\ bet' = bet
        /\ kind = "Call" => amt'[p] = bet
        /\ kind = "Check" => state # "PlayerRaised"
        /\ bet' \in Int
    BY <1>2, <1>9, ChipModAssumption DEF Played, Chips
  <2>2. state = "Rounds" => \A s \in Members(curPlayers) : amt'[s] = bet'
    <3>1. \A s \in Members(curPlayers) : amt[s] \in Nat
      BY <1>2, BettorKnown
    <3>2. state = "Rounds" => amt' = amt
      BY <1>9 DEF Played
    <3> QED BY <1>3, <1>6, <2>1, <3>1, <3>2
  <2>3. state = "PlayerRaised" =>
          /\ CalledInOrder(curPlayers, curPlayer, amt, bet')
          /\ \A s \in Members(curPlayers) \ {curPlayer} : amt'[s] = amt[s]
          /\ amt'[curPlayer] = bet' \/ a[curPlayer] = "Fold"
    BY <1>2, <1>3, <1>5, <1>6, <1>9, <2>1
  <2>4. /\ t = SetNextPlayerTurn(a, curPlayers, state, P)
        /\ \A s \in Members(curPlayers) \ {curPlayer} : a[s] = act[s]
        /\ a[curPlayer] \in {"Check", "Call", "Fold"}
        /\ curPlayer \in Members(curPlayers) /\ ActedInOrder(curPlayers, curPlayer, act)
    BY <1>2, <1>4, <1>5, <1>9, <2>1
  <2> HIDE DEF t
  <2>5. /\ PhaseAfter(t.state) = "Open" /\ state = "PlayerRaised" =>
             CalledInOrder(t.cur, t.curPlayer, amt', bet')
        /\ PhaseAfter(t.state) = "PostBetting" /\ (\E s \in Members(t.cur) : amt'[s] = bet') =>
             Len(t.cur) < 2 \/ \A s \in Members(t.cur) : amt'[s] = bet'
    BY <1>2, <1>3, <2>1, <2>2, <2>3, <2>4, CallStep
  <2>6. /\ state' = "Rounds" => bet' = 0
        /\ state' = "PlayerRaised" => state = "PlayerRaised"
    BY <1>1, <1>3, <1>7, <2>1
  <2> QED BY <1>1, <2>5, <2>6
<1> QED BY <1>3, <1>8, <1>9

\* A turn leaves side pots where there were some.
LEMMA TurnKeepsPots ==
  ASSUME NEW P \in AllPots, NEW a, NEW cur, NEW st \in BettingStates, NEW t,
         t = SetNextPlayerTurn(a, cur, st, P)
  PROVE  /\ t.pots \in AllPots
         /\ IsEmpty(t.pots) => IsEmpty(P)
         /\ IsEmpty(PublicInfo(t.pots)) => IsEmpty(P)
<1>1. t.pots = P \/ t.pots = CloseSidePots(CalculateSidePotTotals(P))
  BY DEF SetNextPlayerTurn, BettingStates
<1>2. CalculateSidePotTotals(P) \in AllPots
  BY CalculateSidePotTotalsType
<1>3. CloseSidePots(CalculateSidePotTotals(P)) \in AllPots
  BY <1>2, CloseSidePotsType
<1>4. t.pots \in AllPots
  BY <1>1, <1>3
<1>5. IsEmpty(t.pots) => IsEmpty(P)
  BY <1>1, PotsKept
<1>6. IsEmpty(PublicInfo(t.pots)) <=> IsEmpty(t.pots)
  BY <1>4, PotsKept
<1> QED BY <1>4, <1>5, <1>6

\* Those in the betting list may bet while the room waits for a player.
LEMMA TurnWaits ==
  ASSUME TurnInv', Betting'
  PROVE  Members(curPlayers') = Eligible(act)'
<1>1. IInv' /\ Following' /\ phase' = "Open" /\ state' \in BettingStates
  BY DEF TurnInv, Following, Betting
<1>2. Waiting' /\ state' # "NotStarted"
  BY <1>1 DEF IInv, BettingStates
<1> QED BY <1>1, <1>2 DEF Waiting

\* A player acts.
LEMMA TurnKeepsCalled ==
  ASSUME TurnInv, TurnInv', Funded, Called, NEW p \in Seats, Turn(p), ~Panic
  PROVE  Called' /\ EveryoneCalled'
<1>0. IInv
  BY DEF TurnInv
<1>1. PICK kind \in {"AllIn", "Bet", "Call", "Check", "Fold"},
           cur \in {curPlayers, SetHead(curPlayers, p)}, st \in BettingStates :
        MayAct(p) /\ \E P : Played(p, kind, cur, st, P)
  BY <1>0, ActionIsPlayed
<1>2. PICK P : Played(p, kind, cur, st, P)
  BY <1>1
<1>3. /\ act' = [act EXCEPT ![p] = kind] /\ act \in [Seats -> Actions] /\ p = curPlayer
      /\ Members(curPlayers') \subseteq Members(curPlayers)
      /\ state' \in {st, "RoundOver", "DoneBetting"}
      /\ phase' \in {"Open", "PostBetting", "FinishRound"} /\ commState' = commState
  BY <1>0, <1>1, <1>2, PlayedLeaves, ActorKnown DEF TypeOK
<1>4. /\ \A s \in Seats \ {p} : chips'[s] = chips[s] /\ act'[s] = act[s]
      /\ act'[p] = kind
      /\ kind \in {"Bet", "Call", "Check"} => chips'[p] # 0
  BY <1>2, <1>3 DEF Played
<1>5. phase = "Open" /\ state \in BettingStates /\ Betting
  BY <1>1 DEF MayAct, Betting
<1>6. \A s \in Seats : act'[s] \in {"Bet", "Call", "Check"} => chips'[s] # 0
  <2> SUFFICES ASSUME NEW s \in Seats, act'[s] \in {"Bet", "Call", "Check"} PROVE chips'[s] # 0
    OBVIOUS
  <2>1. CASE s = p
    BY <1>4, <2>1
  <2>2. CASE s # p
    BY <1>4, <1>5, <2>2 DEF Called
  <2> QED BY <2>1, <2>2
<1>7. ASSUME Betting', commState' # "PreFlop"
      PROVE  state' # "PreFlop" /\ \A q \in Members(curPlayers') : chips'[q] # 0
  <2>1. /\ state # "PreFlop"
        /\ \A q \in Members(curPlayers) : chips[q] # 0
    BY <1>3, <1>5, <1>7 DEF Called
  <2>2. state' # "PreFlop"
    BY <1>2, <1>3, <1>7, <2>1 DEF Played, Betting, BettingStates
  <2>3. ASSUME NEW q \in Members(curPlayers') PROVE chips'[q] # 0
    <3>1. q \in Eligible(act)' /\ q \in Members(curPlayers)
      BY <1>3, <1>7, <2>3, TurnWaits
    <3>2. CASE q = p
      <4>1. act'[p] \notin {"AllIn", "Fold"}
        BY <3>1, <3>2 DEF Eligible
      <4> QED BY <1>4, <3>2, <4>1
    <3>3. CASE q # p
      <4>1. q \in Seats
        BY <3>1 DEF Eligible
      <4> QED BY <1>4, <2>1, <3>1, <3>3, <4>1
    <3> QED BY <3>2, <3>3
  <2> QED BY <2>2, <2>3
<1>8. IsEmpty(pots') => IsEmpty(P)
  <2> DEFINE t == SetNextPlayerTurn([act EXCEPT ![p] = kind], cur, st, P)
  <2>1. /\ P \in AllPots
        /\ pots' = IF t.state = "RoundOver" THEN t.pots ELSE PublicInfo(t.pots)
    BY <1>2 DEF Played, EndTurn
  <2>2. /\ IsEmpty(t.pots) => IsEmpty(P)
        /\ IsEmpty(PublicInfo(t.pots)) => IsEmpty(P)
    BY <2>1, TurnKeepsPots
  <2> HIDE DEF t
  <2> QED BY <2>1, <2>2
<1>9. commState # "PreFlop" /\ IsEmpty(pots') =>
        /\ phase' = "Open" => /\ state' = "Rounds" => bet' = 0
                              /\ state' = "PlayerRaised" =>
                                   CalledInOrder(curPlayers', curPlayer', amt', bet')
        /\ phase' = "PostBetting" /\ (\E s \in Members(curPlayers') : amt'[s] = bet') =>
             Len(curPlayers') < 2 \/ \A s \in Members(curPlayers') : amt'[s] = bet'
  BY <1>1, <1>2, <1>8, PlayedCalls
<1>10. Called'
  BY <1>3, <1>6, <1>7, <1>9 DEF Called, Betting
<1>11. EveryoneCalled'
  BY <1>3, <1>9 DEF EveryoneCalled, BettingIsImpossible
<1> QED BY <1>10, <1>11

\* A player sits down.
LEMMA JoinKeepsCalled ==
  ASSUME PausesInRounds, TurnInv, Called, EveryoneCalled, NEW p \in Seats, Join(p)
  PROVE  Called' /\ EveryoneCalled'
<1> DEFINE started == state # "NotStarted"
<1>1. /\ phase \in {"Open", "PostBetting", "RunOut"} /\ phase' = phase /\ state' = state
      /\ curPlayers' = IF started THEN curPlayers ELSE AddPlayer(curPlayers, p)
      /\ curPlayer # None => curPlayer' = curPlayer
      /\ act' = [act EXCEPT ![p] = IF started THEN "MidroundAddition" ELSE "FirstAction"]
      /\ UNCHANGED << amt, chips, bet, commState, pots >>
  BY DEF Join, PausesInRounds, finish
<1>2. Following
  BY <1>1 DEF Following
<1>3. \A s \in Seats : act'[s] \in {"Bet", "Call", "Check"} => act'[s] = act[s]
  BY <1>1, <1>2, ListsKnown
<1>4. ASSUME phase = "PostBetting" \/ Betting PROVE curPlayers' = curPlayers
  BY <1>1, <1>2, <1>4, ListsKnown DEF Ending, Betting, BettingStates
<1>5. Betting => curPlayer' = curPlayer
  <2>1. Betting => curPlayer \in Members(curPlayers)
    BY <1>2, ListsKnown DEF Waiting, Betting
  <2>2. \A s \in Members(curPlayers) : s # None
    BY <1>2, ListsKnown, MembersType, TableAssumption
  <2> QED BY <1>1, <2>1, <2>2
<1>6. Betting' <=> Betting
  BY <1>1 DEF Betting
<1>7. Called'
  BY <1>1, <1>3, <1>4, <1>5, <1>6 DEF Called
<1>8. EveryoneCalled'
  BY <1>1, <1>4 DEF EveryoneCalled, BettingIsImpossible
<1> QED BY <1>7, <1>8

\* A departure in turn: what follows the fold.
LEMMA DepartureCalls ==
  ASSUME TurnInv, Funded, Called, NEW p \in Seats, Leave(p), Betting, curPlayer = p,
         commState # "PreFlop", IsEmpty(pots)
  PROVE  /\ phase' = "Open" /\ state = "PlayerRaised" =>
              CalledInOrder(curPlayers', curPlayer', amt', bet')
         /\ phase' = "PostBetting" /\ (\E s \in Members(curPlayers') : amt'[s] = bet') =>
              BettingIsImpossible' \/ \A s \in Members(curPlayers') : amt'[s] = bet'
<1> DEFINE a == [act EXCEPT ![p] = "Fold"]
           t == SetNextPlayerTurn(a, curPlayers, state, pots)
<1>1. /\ p \in Members(activePlayers) /\ Len(activePlayers) > 1
      /\ amt' = [amt EXCEPT ![p] = 0] /\ bet' = bet
  BY LeaveLeaves
<1>2. /\ curPlayers' = RemovePlayer(t.cur, p) /\ curPlayer' = t.curPlayer /\ state' = t.state
      /\ phase' = IF numPlayers > 2 THEN PhaseAfter(t.state)
                  ELSE IF state = "NotStarted" THEN "Open" ELSE "Abandoned"
  BY <1>1 DEF Leave, Unseat, Unlist, GoesOn
<1>3. /\ curPlayers \in Seq(Seats) /\ Distinct(curPlayers) /\ p \in Members(curPlayers)
      /\ Members(curPlayers) \subseteq Seats /\ ActedInOrder(curPlayers, p, act)
      /\ act \in [Seats -> Actions] /\ amt \in [Seats -> Chips] /\ bet \in Chips
      /\ state \in BettingStates /\ state # "PreFlop" /\ state # "NotStarted" /\ phase = "Open"
  <2>1. Following /\ phase = "Open" /\ state \in BettingStates
    BY DEF Betting, Following
  <2>2. state # "PreFlop" /\ state # "NotStarted"
    BY <2>1 DEF Called, BettingStates
  <2> QED BY <2>1, <2>2, ListsKnown, MembersType DEF Waiting, ActInOrder, TypeOK
<1>4. /\ a[p] = "Fold" /\ \A s \in Members(curPlayers) \ {p} : a[s] = act[s]
      /\ amt'[p] = 0 /\ \A s \in Members(curPlayers) \ {p} : amt'[s] = amt[s]
  BY <1>1, <1>3
<1>5. /\ state = "Rounds" => bet = 0
      /\ state = "PlayerRaised" => CalledInOrder(curPlayers, curPlayer, amt, bet')
      /\ \A q \in Members(curPlayers) : amt[q] <= bet
  BY <1>1, <1>3 DEF Called, Funded
<1>6. bet' \in Int /\ \A q \in Members(curPlayers) : amt[q] \in Nat
  BY <1>1, <1>3, ChipModAssumption DEF Chips
<1>7. state = "Rounds" => \A s \in Members(curPlayers) : amt'[s] = bet'
  BY <1>1, <1>4, <1>5, <1>6
<1>8. state = "PlayerRaised" =>
        /\ CalledInOrder(curPlayers, curPlayer, amt, bet')
        /\ \A s \in Members(curPlayers) \ {curPlayer} : amt'[s] = amt[s]
        /\ amt'[curPlayer] = bet' \/ a[curPlayer] = "Fold"
  BY <1>4, <1>5
<1>9. /\ \A s \in Members(curPlayers) \ {curPlayer} : a[s] = act[s]
      /\ a[curPlayer] \in {"Check", "Call", "Fold"}
      /\ curPlayer \in Members(curPlayers) /\ ActedInOrder(curPlayers, curPlayer, act)
  BY <1>3, <1>4
<1> HIDE DEF a
<1>10. t = SetNextPlayerTurn(a, curPlayers, state, pots)
  OBVIOUS
<1> HIDE DEF t
<1>11. /\ PhaseAfter(t.state) = "Open" /\ state = "PlayerRaised" =>
            CalledInOrder(t.cur, t.curPlayer, amt', bet')
       /\ PhaseAfter(t.state) = "PostBetting" /\ (\E s \in Members(t.cur) : amt'[s] = bet') =>
            Len(t.cur) < 2 \/ \A s \in Members(t.cur) : amt'[s] = bet'
  BY <1>3, <1>6, <1>7, <1>8, <1>9, <1>10, CallStep
<1>12. /\ PhaseAfter(t.state) = "Open" => Len(curPlayers) # 1
       /\ Len(curPlayers) # 1 => t.cur = RemovePlayer(curPlayers, p)
       /\ t.cur = curPlayers \/ t.cur = RemovePlayer(curPlayers, p)
  <2>1. CASE Len(curPlayers) = 1
    <3>1. t.state \in {"RoundOver", "DoneBetting"} /\ t.cur \in {curPlayers, RemovePlayer(curPlayers, p)}
      BY <1>3, <1>9, <1>10, <2>1, TurnGoesOn
    <3> QED BY <2>1, <3>1 DEF PhaseAfter
  <2>2. CASE Len(curPlayers) # 1
    <3>1. t.cur = Left(a, curPlayers, curPlayer)
      BY <1>3, <1>9, <1>10, <2>2, TurnGoesOn
    <3> QED BY <1>4, <2>2, <3>1 DEF Left
  <2> QED BY <2>1, <2>2
<1>13. /\ t.cur \in Seq(Seats) /\ Distinct(t.cur) /\ Members(curPlayers') \subseteq Members(t.cur)
       /\ curPlayers' = t.cur \/ Len(curPlayers') = Len(t.cur) - 1
  <2>1. t.cur \in Seq(Seats) /\ Distinct(t.cur)
    BY <1>3, <1>12, RemovePlayerKeeps
  <2> QED BY <1>2, <2>1, RemovePlayerKeeps
<1>14. ASSUME phase' = "Open", state = "PlayerRaised"
       PROVE  CalledInOrder(curPlayers', curPlayer', amt', bet')
  <2>1. PhaseAfter(t.state) = "Open"
    BY <1>2, <1>3, <1>14
  <2>2. p \notin Members(t.cur)
    BY <1>3, <1>12, <2>1, RemovePlayerKeeps
  <2>3. curPlayers' = t.cur
    BY <1>2, <1>13, <2>2, RemovePlayerKeeps
  <2> QED BY <1>2, <1>11, <1>14, <2>1, <2>3
<1>15. ASSUME phase' = "PostBetting", NEW s \in Members(curPlayers'), amt'[s] = bet'
       PROVE  BettingIsImpossible' \/ \A q \in Members(curPlayers') : amt'[q] = bet'
  <2>1. PhaseAfter(t.state) = "PostBetting"
    BY <1>2, <1>15
  <2>2. Len(t.cur) < 2 \/ \A q \in Members(t.cur) : amt'[q] = bet'
    BY <1>11, <1>13, <1>15, <2>1
  <2>3. Len(t.cur) < 2 => Len(curPlayers') < 2
    <3>1. Len(t.cur) \in Nat
      BY <1>13
    <3>2. \A n \in Nat : n < 2 => n - 1 < 2
      OBVIOUS
    <3> QED BY <1>13, <3>1, <3>2
  <2> QED BY <1>13, <2>2, <2>3 DEF BettingIsImpossible
<1> QED BY <1>14, <1>15

\* A player leaves, not the last one.
LEMMA LeaveKeepsCalled ==
  ASSUME TurnInv, Funded, Called, NEW p \in Seats, Leave(p)
  PROVE  Called' /\ EveryoneCalled'
<1> DEFINE inTurn == Len(activePlayers) > 1 /\ curPlayer = p
           a == IF inTurn THEN [act EXCEPT ![p] = "Fold"] ELSE act
           t == IF inTurn THEN SetNextPlayerTurn(a, curPlayers, state, pots)
                ELSE [cur |-> curPlayers, curPlayer |-> curPlayer, state |-> state, pots |-> pots]
<1>1. /\ phase = "Open" /\ Len(activePlayers) > 1
      /\ act' = [act EXCEPT ![p] = "VacantSeat"]
      /\ amt' = [amt EXCEPT ![p] = 0] /\ chips' = [chips EXCEPT ![p] = StartChips]
      /\ Members(curPlayers') \subseteq Members(curPlayers) \ {p}
      /\ phase' \in {"Open", "PostBetting", "FinishRound", "Abandoned"}
      /\ phase' = "Open" => state' = state
      /\ UNCHANGED << bet, commState >>
  BY LeaveLeaves
<1>2. /\ curPlayers' = RemovePlayer(t.cur, p) /\ curPlayer' = t.curPlayer /\ state' = t.state
      /\ pots' = PublicInfo(t.pots)
      /\ phase' = "PostBetting" => PhaseAfter(t.state) = "PostBetting"
  BY DEF Leave, Unseat, Unlist, PhaseAfter
<1>3. Following
  BY <1>1 DEF Following
<1>4. /\ act \in [Seats -> Actions] /\ amt \in [Seats -> Chips] /\ chips \in [Seats -> Chips]
      /\ curPlayers \in Seq(Seats) /\ Distinct(curPlayers) /\ Members(curPlayers) \subseteq Seats
      /\ pots \in AllPots
      /\ state \in BettingStates \cup {"NotStarted", "DoneBetting"}
      /\ state = "DoneBetting" => curPlayers = << >>
      /\ state \in BettingStates => Betting /\ curPlayer \in Members(curPlayers)
  BY <1>1, <1>3, ListsKnown, MembersType DEF TypeOK, Waiting, Posted, Betting
<1>5. \A s \in Seats \ {p} : act'[s] = act[s] /\ amt'[s] = amt[s] /\ chips'[s] = chips[s]
  BY <1>1, <1>4
<1>6. \A s \in Seats : act'[s] \in {"Bet", "Call", "Check"} => chips'[s] # 0
  <2>1. act'[p] = "VacantSeat"
    BY <1>1, <1>4
  <2> QED BY <1>1, <1>5, <2>1 DEF Called
<1>7. ASSUME state \in BettingStates, IsEmpty(pots') PROVE IsEmpty(pots)
  <2>1. CASE inTurn
    BY <1>2, <1>4, <1>7, <2>1, TurnKeepsPots
  <2>2. CASE ~inTurn
    BY <1>2, <1>4, <1>7, <2>2, PotsKept
  <2> QED BY <2>1, <2>2
<1>8. ASSUME state \in BettingStates, commState # "PreFlop", IsEmpty(pots')
      PROVE  /\ phase' = "Open" /\ state = "PlayerRaised" =>
                  CalledInOrder(curPlayers', curPlayer', amt', bet')
             /\ phase' = "PostBetting" /\ (\E s \in Members(curPlayers') : amt'[s] = bet') =>
                  BettingIsImpossible' \/ \A s \in Members(curPlayers') : amt'[s] = bet'
  <2>1. CASE curPlayer = p
    BY <1>4, <1>7, <1>8, <2>1, DepartureCalls
  <2>2. CASE curPlayer # p
    <3>1. curPlayers' = RemovePlayer(curPlayers, p) /\ curPlayer' = curPlayer
          /\ PhaseAfter(t.state) = "Open"
      BY <1>2, <1>8, <2>2 DEF PhaseAfter, BettingStates
    <3>2. ASSUME state = "PlayerRaised" PROVE CalledInOrder(curPlayers', curPlayer', amt', bet')
      <4>1. CalledInOrder(curPlayers, curPlayer, amt, bet)
        BY <1>4, <1>7, <1>8, <3>2 DEF Called
      <4>2. CalledInOrder(curPlayers', curPlayer, amt, bet)
        BY <1>4, <1>8, <2>2, <3>1, <4>1, RemoveKeepsCalled
      <4>3. \A s \in Members(curPlayers') : amt'[s] = amt[s]
        BY <1>1, <1>4, <1>5
      <4> QED BY <1>1, <3>1, <4>2, <4>3 DEF CalledInOrder
    <3> QED BY <1>2, <3>1, <3>2
  <2> QED BY <2>1, <2>2
<1> HIDE DEF t
<1>9. Called'
  <2>1. Betting' => phase' = "Open" /\ state' = state /\ state \in BettingStates /\ Betting
    BY <1>1, <1>4 DEF Betting
  <2>2. ASSUME Betting', commState' # "PreFlop"
        PROVE  state' # "PreFlop" /\ \A q \in Members(curPlayers') : chips'[q] # 0
    BY <1>1, <1>4, <1>5, <2>1, <2>2 DEF Called
  <2>3. ASSUME Betting', commState' # "PreFlop", IsEmpty(pots')
        PROVE  /\ state' = "Rounds" => bet' = 0
               /\ state' = "PlayerRaised" => CalledInOrder(curPlayers', curPlayer', amt', bet')
    BY <1>1, <1>7, <1>8, <2>1, <2>3 DEF Called
  <2> QED BY <1>1, <1>6, <2>2, <2>3 DEF Called
<1>10. EveryoneCalled'
  <2> SUFFICES ASSUME phase' = "PostBetting", ~BettingIsImpossible', IsEmpty(pots'),
                      commState' # "PreFlop", \E s \in Members(curPlayers') : amt'[s] = bet'
               PROVE  \A s \in Members(curPlayers') : amt'[s] = bet'
    BY DEF EveryoneCalled
  <2>1. CASE state \in BettingStates
    BY <1>1, <1>8, <2>1
  <2>2. CASE state = "DoneBetting"
    BY <1>1, <1>4, <2>2 DEF Members
  <2>3. CASE state = "NotStarted"
    <3>1. t.state = "NotStarted"
      BY <2>3 DEF t, SetNextPlayerTurn
    <3> QED BY <1>2, <3>1 DEF PhaseAfter
  <2> QED BY <1>4, <2>1, <2>2, <2>3
<1> QED BY <1>9, <1>10

\* The table is cleared.
LEMMA ResetCalls ==
  ASSUME NEW keep, NEW cur, Reset(keep, cur), phase' \in {"Open", "Eliminating", "Lost"}
  PROVE  Called' /\ EveryoneCalled'
<1>1. /\ \A s \in Seats : act'[s] \in {"FirstAction", "VacantSeat"}
      /\ state' = "NotStarted"
  BY DEF Reset
<1>2. ~Betting'
  BY <1>1 DEF Betting, BettingStates
<1> QED BY <1>1, <1>2 DEF Called, EveryoneCalled

\* The last player leaves, the winner of the game stays, or who lost its last
\* chips leaves the lists.
LEMMA ClearingKeepsCalled ==
  ASSUME (\E p \in Seats : LeaveLast(p)) \/ GameOver \/ RemoveEliminated
  PROVE  Called' /\ EveryoneCalled'
<1>1. CASE \E p \in Seats : LeaveLast(p)
  BY <1>1, ResetCalls DEF LeaveLast
<1>2. CASE GameOver
  BY <1>2, ResetCalls DEF GameOver
<1>3. CASE RemoveEliminated
  <2>1. phase' \in {"Eliminating", "Lost"}
    BY <1>3 DEF RemoveEliminated
  <2> QED BY <2>1, QuietKeepsCalled
<1> QED BY <1>1, <1>2, <1>3

\* A hand begins: nobody has acted.
LEMMA BlindsKeepCalled ==
  ASSUME TurnInv, StartGame \/ NewRound \/ Blinds
  PROVE  Called' /\ EveryoneCalled'
<1>1. CASE NewRound
  <2>1. phase' \in {"Blinds", "Panicked"}
    BY <1>1 DEF NewRound, Panic
  <2> QED BY <2>1, QuietKeepsCalled
<1>2. CASE StartGame \/ Blinds
  <2>1. /\ phase' \in {"Open", "SmallBlindAllIn"} /\ commState' = "PreFlop"
        /\ \A x \in Seats : act'[x] \in {act[x], "AllIn"}
        /\ (phase = "Open" /\ state = "NotStarted") \/ phase = "Blinds"
    BY <1>2 DEF StartGame, BeginGame, Blinds
  <2>2. \A x \in Members(activePlayers) : act[x] = "FirstAction"
    BY <2>1, ListsKnown DEF Following, Waiting, Posting
  <2>3. \A x \in Seats : x \notin Members(activePlayers) => act[x] = "VacantSeat"
    BY <2>1, ListsKnown DEF Following, Occupied
  <2>4. \A x \in Seats : act'[x] \notin {"Bet", "Call", "Check"}
    BY <2>1, <2>2, <2>3
  <2> QED BY <2>1, <2>4 DEF Called, EveryoneCalled
<1> QED BY <1>1, <1>2

\* A blind may be all-in.
LEMMA BlindAllInKeepsCalled ==
  ASSUME TurnInv, Called, SmallBlindAllIn \/ BigBlindAllIn
  PROVE  Called' /\ EveryoneCalled'
<1>1. /\ phase \in {"SmallBlindAllIn", "BigBlindAllIn"} /\ phase' \in {"BigBlindAllIn", "Open"}
      /\ UNCHANGED << act, chips, commState >>
  BY BlindsLeave
<1>2. commState = "PreFlop" /\ \A s \in Seats : act[s] \in {"Bet", "Call", "Check"} => chips[s] # 0
  BY <1>1 DEF Called
<1> QED BY <1>1, <1>2 DEF Called, EveryoneCalled

\* The next street begins: whoever still bets has acted, and has chips left.
LEMMA DealKeepsCalled ==
  ASSUME TurnInv, Called, DealStreet
  PROVE  Called' /\ EveryoneCalled'
<1>1. CASE NobodyStarts
  <2>1. phase' = "Panicked"
    BY <1>1 DEF DealStreet, Panic
  <2> QED BY <2>1, QuietKeepsCalled
<1>2. CASE ~NobodyStarts
  <2>1. /\ phase = "PostBetting" /\ phase' = "Open" /\ state' = "Rounds" /\ bet' = 0
        /\ ~BettingIsImpossible /\ chips' = chips
        /\ act' = [s \in Seats |-> IF s \in Members(curPlayers) THEN "FirstAction" ELSE act[s]]
        /\ curPlayers' = SetHead(curPlayers, PostFlopFirst)
    BY <1>2 DEF DealStreet, ReorderPostFlop
  <2>2. /\ PostFlopFirst \in Members(curPlayers) /\ curPlayers \in Seq(Seats) /\ Distinct(curPlayers)
        /\ Members(curPlayers) \subseteq Seats /\ act \in [Seats -> Actions]
        /\ Members(curPlayers) = Eligible(act) /\ EveryoneActed
    BY <2>1, FirstOfStreet, ListsKnown, MembersType DEF Following, Ending
  <2>3. Members(curPlayers') = Members(curPlayers)
    BY <2>1, <2>2, SetHeadKeeps
  <2>4. ASSUME NEW q \in Members(curPlayers) PROVE chips[q] # 0
    <3>1. q \in Eligible(act) /\ q \in Seats /\ act[q] \in Actions /\ act[q] # "FirstAction"
      BY <2>1, <2>2, <2>4 DEF EveryoneActed
    <3>2. act[q] \in {"Bet", "Call", "Check"}
      BY <3>1 DEF Eligible, Actions
    <3> QED BY <2>1, <3>1, <3>2 DEF Called
  <2>5. \A s \in Seats : act'[s] \in {"Bet", "Call", "Check"} => chips'[s] # 0
    <3> SUFFICES ASSUME NEW s \in Seats, act'[s] \in {"Bet", "Call", "Check"} PROVE chips'[s] # 0
      OBVIOUS
    <3>1. act[s] = act'[s]
      BY <2>1
    <3> QED BY <2>1, <3>1 DEF Called
  <2> QED BY <2>1, <2>3, <2>4, <2>5 DEF Called, EveryoneCalled
<1> QED BY <1>1, <1>2

\* The end of a hand.
LEMMA FinishKeepsCalled ==
  ASSUME ShowDownEarly \/ RunOut \/ RiverDone \/ FinishByFolds \/ NoHandsLeft \/ ShowHands
         \/ AwardSidePot \/ AwardDone \/ AbandonPots \/ AbandonToLast \/ AbandonToJoiner
         \/ Eliminate \/ EliminationDone
  PROVE  Called' /\ EveryoneCalled'
<1> DEFINE Over == phase' \notin {"Open", "SmallBlindAllIn", "BigBlindAllIn", "PostBetting"}
<1>1. ShowDownEarly \/ RunOut \/ RiverDone => Over
  BY DEF ShowDownEarly, RunOut, RiverDone, Panic
<1>2. FinishByFolds \/ NoHandsLeft \/ ShowHands \/ AwardSidePot \/ AwardDone => Over
  BY DEF FinishByFolds, WinByFolds, NoHandsLeft, ShowHands, AwardSidePot, AwardDone, Panic
<1>3. AbandonPots \/ AbandonToLast \/ AbandonToJoiner \/ Eliminate \/ EliminationDone => Over
  BY DEF AbandonPots, AbandonToLast, WinByFolds, AbandonToJoiner, Eliminate, EliminationDone, Panic
<1> QED BY <1>1, <1>2, <1>3, QuietKeepsCalled

\* No step at all.
LEMMA StutterKeepsCalled ==
  ASSUME Called, EveryoneCalled, UNCHANGED vars
  PROVE  Called' /\ EveryoneCalled'
  BY DEF vars, players, lists, buttons, levels, Called, EveryoneCalled, Betting,
     BettingIsImpossible

\* Every step.
LEMMA StepKeepsCalled ==
  ASSUME PausesInRounds, BetsInv, TurnInv', [Next]_vars
  PROVE  Called' /\ EveryoneCalled'
<1>1. TurnInv /\ Funded /\ Called /\ EveryoneCalled
  BY DEF BetsInv
<1>2. ASSUME NEW p \in Seats, Turn(p) PROVE Called' /\ EveryoneCalled'
  <2>1. CASE Panic
    BY <2>1, QuietKeepsCalled DEF Panic
  <2>2. CASE ~Panic
    BY <1>1, <1>2, <2>2, TurnKeepsCalled
  <2> QED BY <2>1, <2>2
<1>3. ASSUME NEW p \in Seats, Join(p) PROVE Called' /\ EveryoneCalled'
  BY <1>1, <1>3, JoinKeepsCalled
<1>4. ASSUME NEW p \in Seats, Leave(p) PROVE Called' /\ EveryoneCalled'
  BY <1>1, <1>4, LeaveKeepsCalled
<1>5. ASSUME Request PROVE Called' /\ EveryoneCalled'
  BY <1>1, <1>2, <1>3, <1>4, <1>5, ClearingKeepsCalled, BlindsKeepCalled DEF Request
<1>6. ASSUME Flow PROVE Called' /\ EveryoneCalled'
  BY <1>1, <1>6, ClearingKeepsCalled, BlindsKeepCalled, BlindAllInKeepsCalled, DealKeepsCalled,
     FinishKeepsCalled DEF Flow
<1>7. ASSUME UNCHANGED vars PROVE Called' /\ EveryoneCalled'
  BY <1>1, <1>7, StutterKeepsCalled
<1> QED BY <1>5, <1>6, <1>7 DEF Next

\* The invariant of the bets.
THEOREM AlwaysBetsInv ==
  ASSUME PausesInRounds, BlindsAffordable
  PROVE  Spec => []BetsInv
<1>1. Init => Called /\ EveryoneCalled
  BY DEF Init, Called, EveryoneCalled, Betting, BettingStates
<1>2. BetsInv /\ TurnInv' /\ [Next]_vars => Called' /\ EveryoneCalled'
  BY StepKeepsCalled
<1>3. BetsInv <=> TurnInv /\ ShowdownAtRiver /\ Funded /\ Called /\ EveryoneCalled
  BY DEF BetsInv
<1> QED BY <1>1, <1>2, <1>3, AlwaysTurnInv, AlwaysShowdownAtRiver, AlwaysFunded, PTL DEF Spec

\* After the flop and without side pots, a street is over only when everybody
\* who still bets has put in the same bet, unless nobody has put in the bet.
THEOREM AlwaysEveryoneCalled ==
  ASSUME PausesInRounds, BlindsAffordable
  PROVE  Spec => []EveryoneCalled
<1>1. BetsInv => EveryoneCalled
  BY DEF BetsInv
<1> QED BY <1>1, AlwaysBetsInv, PTL

-----------------------------------------------------------------------------
(* The side pots are in the order of their bets.                           *)

\* What an action of player p makes of the side pots: only an all-in adds
\* pots, of player p.
PutsOn(p, kind, P) ==
  /\ P \in AllPots /\ Stacked(P)
  /\ Members(P.order) \subseteq Members(pots.order) \cup (IF kind = "AllIn" THEN {p} ELSE {})

\* Player p ends its turn with these pots.
PlayedPots(p, kind, st, P) ==
  PutsOn(p, kind, P) /\ \E cur : EndTurn([act EXCEPT ![p] = kind], cur, st, P)

\* Chips go into the side pots.
LEMMA SidedStacks ==
  ASSUME PlayersType, pots \in AllPots, Stacked(pots),
         NEW cur \in Seq(Seats), NEW p \in Members(cur), p \notin Members(pots.order),
         NEW kind \in {"AllIn", "Bet", "Call"}, NEW amount \in Chips, NEW newBet \in Chips,
         NEW raised \in BOOLEAN
  PROVE  PutsOn(p, kind, HandleSidePots(pots, StepOf(p, kind, amount, cur, newBet, raised)))
<1> DEFINE h == StepOf(p, kind, amount, cur, newBet, raised)
<1>1. h \in Step
  BY StepOfType
<1>2. h.player = p /\ h.kind = kind
  BY DEF StepOf
<1> HIDE DEF h
<1>3. HandleSidePots(pots, h) \in AllPots
  BY <1>1, HandleSidePotsType
<1>4. /\ Stacked(HandleSidePots(pots, h))
      /\ Members(HandleSidePots(pots, h).order)
           \subseteq Members(pots.order) \cup (IF kind = "AllIn" THEN {p} ELSE {})
  BY <1>1, <1>2, HandleSidePotsStacked
<1> QED BY <1>3, <1>4 DEF PutsOn, h

\* Chips go into the main pot alone.
LEMMA InMainStacks ==
  ASSUME pots \in AllPots, Stacked(pots), NEW p, NEW kind, NEW x \in Chips
  PROVE  PutsOn(p, kind, [pots EXCEPT !.main.total = Plus(@, x)])
<1> DEFINE P == [pots EXCEPT !.main.total = Plus(@, x)]
<1>1. P \in AllPots
  BY InMainType
<1>2. /\ P.order = pots.order /\ P.side = pots.side
      /\ P.main.closed = pots.main.closed /\ P.main.bet = pots.main.bet
  BY PotsFields DEF AllPots, Pot
<1> HIDE DEF P
<1>3. Stacked(P)
  BY <1>1, <1>2, SameBets
<1> QED BY <1>1, <1>2, <1>3 DEF PutsOn, P

\* The one who acts has no pot of its own.
LEMMA ActorHasNoPot ==
  ASSUME IInv, PotsNamed, NEW p \in Seats, MayAct(p)
  PROVE  /\ PlayersType /\ state \in BettingStates /\ pots \in AllPots /\ p \in NonFolded(act)
         /\ p \in Members(curPlayers) /\ curPlayers \in Seq(Seats) /\ Distinct(curPlayers)
         /\ bet \in Chips /\ Full(p) \in Chips /\ amt[p] \in Chips
         /\ Stacked(pots) /\ p \notin Members(pots.order)
<1>1. /\ PlayersType /\ state \in BettingStates /\ pots \in AllPots /\ p \in NonFolded(act)
      /\ p \in Members(curPlayers) /\ curPlayers \in Seq(Seats) /\ Distinct(curPlayers)
      /\ p \in Eligible(act)
  BY ActorKnown
<1>2. bet \in Chips /\ Full(p) \in Chips /\ amt[p] \in Chips
  BY <1>1, FullType DEF PlayersType
<1>3. Stacked(pots) /\ p \notin Members(pots.order)
  BY <1>1 DEF PotsNamed
<1> QED BY <1>1, <1>2, <1>3

\* An all-in.
LEMMA AllInPlaysPots ==
  ASSUME IInv, PotsNamed, NEW p \in Seats, AllIn(p)
  PROVE  \E st \in BettingStates : \E P : PlayedPots(p, "AllIn", st, P)
<1> DEFINE amount == AllInAmount(p)
           raises == ~BettingIsImpossible /\ amount > bet
           cur == IF raises THEN SetHead(curPlayers, p) ELSE curPlayers
           st == IF raises THEN "PlayerRaised" ELSE state
           newBet == IF raises THEN amount ELSE bet
           h == StepOf(p, "AllIn", amount, cur, newBet, st = "PlayerRaised")
<1>1. MayAct(p) /\ EndTurn([act EXCEPT ![p] = "AllIn"], cur, st, HandleSidePots(pots, h))
  BY DEF AllIn
<1>2. /\ PlayersType /\ state \in BettingStates /\ pots \in AllPots /\ p \in NonFolded(act)
      /\ p \in Members(curPlayers) /\ curPlayers \in Seq(Seats) /\ Distinct(curPlayers)
      /\ bet \in Chips /\ Stacked(pots) /\ p \notin Members(pots.order)
  BY <1>1, ActorHasNoPot
<1>3. amount \in Chips
  BY <1>2, AmountsType, ChipArithmetic
<1> HIDE DEF amount
<1>4. /\ cur \in Seq(Seats) /\ Members(cur) = Members(curPlayers)
      /\ st \in BettingStates /\ newBet \in Chips /\ (st = "PlayerRaised") \in BOOLEAN
  BY <1>2, <1>3, SetHeadKeeps DEF BettingStates
<1> HIDE DEF cur, st, newBet
<1>5. PutsOn(p, "AllIn", HandleSidePots(pots, h))
  BY <1>2, <1>3, <1>4, SidedStacks
<1> HIDE DEF h
<1> QED BY <1>1, <1>4, <1>5 DEF PlayedPots

\* A bet.
LEMMA BetPlaysPots ==
  ASSUME IInv, PotsNamed, NEW p \in Seats, NEW b \in Bets, Bet(p, b), ~Panic
  PROVE  \E kind \in {"AllIn", "Bet"} : \E P : PlayedPots(p, kind, "PlayerRaised", P)
<1> DEFINE raised == state = "PlayerRaised"
           kind == IF b = Full(p) THEN "AllIn" ELSE "Bet"
           amount == BetAmount(p, b)
           h == StepOf(p, kind, amount, curPlayers, bet, raised)
           inMain == [pots EXCEPT !.main.total = Plus(@, Minus(amount, amt[p]))]
           sided == kind = "AllIn" \/ ~IsEmpty(pots)
           P == IF sided THEN HandleSidePots(pots, h) ELSE inMain
<1>1. MayAct(p) /\ EndTurn([act EXCEPT ![p] = kind], SetHead(curPlayers, p), "PlayerRaised", P)
  BY DEF Bet
<1>2. /\ PlayersType /\ pots \in AllPots /\ p \in NonFolded(act) /\ amt[p] \in Chips
      /\ p \in Members(curPlayers) /\ curPlayers \in Seq(Seats) /\ bet \in Chips /\ b \in Chips
      /\ Stacked(pots) /\ p \notin Members(pots.order)
  BY <1>1, ActorHasNoPot, TableAssumption
<1>3. amount \in Chips /\ kind \in {"AllIn", "Bet"} /\ kind \in {"AllIn", "Bet", "Call"}
  BY <1>2, AmountsType, FullType
<1>4. raised \in BOOLEAN
  OBVIOUS
<1> HIDE DEF amount, kind, raised
<1>5. PutsOn(p, kind, HandleSidePots(pots, h))
  BY <1>2, <1>3, <1>4, SidedStacks
<1>6. Minus(amount, amt[p]) \in Chips
  BY <1>2, <1>3, ChipArithmetic
<1>7. PutsOn(p, kind, inMain)
  BY <1>2, <1>6, InMainStacks
<1> HIDE DEF h, inMain, sided
<1>8. PutsOn(p, kind, P)
  BY <1>5, <1>7
<1> HIDE DEF P
<1> QED BY <1>1, <1>3, <1>8 DEF PlayedPots

\* A call.
LEMMA CallPlaysPots ==
  ASSUME IInv, PotsNamed, NEW p \in Seats, Call(p), ~Panic
  PROVE  \E kind \in {"AllIn", "Call"} : \E P : PlayedPots(p, kind, state, P)
<1> DEFINE raised == state = "PlayerRaised"
           kind == IF bet >= Full(p) THEN "AllIn" ELSE "Call"
           amount == IF bet >= Full(p) THEN Full(p) ELSE bet
           h == StepOf(p, kind, amount, curPlayers, bet, raised)
           inMain == [pots EXCEPT !.main.total = Plus(@, Minus(bet, amt[p]))]
           sided == kind = "AllIn" \/ ~IsEmpty(pots)
           P == IF sided THEN HandleSidePots(pots, h) ELSE inMain
<1>1. MayAct(p) /\ EndTurn([act EXCEPT ![p] = kind], curPlayers, state, P)
  BY DEF Call
<1>2. /\ PlayersType /\ pots \in AllPots /\ amt[p] \in Chips /\ Full(p) \in Chips
      /\ p \in Members(curPlayers) /\ curPlayers \in Seq(Seats) /\ bet \in Chips
      /\ Stacked(pots) /\ p \notin Members(pots.order)
  BY <1>1, ActorHasNoPot
<1>3. amount \in Chips /\ kind \in {"AllIn", "Call"} /\ kind \in {"AllIn", "Bet", "Call"}
  BY <1>2
<1>4. raised \in BOOLEAN
  OBVIOUS
<1> HIDE DEF amount, kind, raised
<1>5. PutsOn(p, kind, HandleSidePots(pots, h))
  BY <1>2, <1>3, <1>4, SidedStacks
<1>6. Minus(bet, amt[p]) \in Chips
  BY <1>2, ChipArithmetic
<1>7. PutsOn(p, kind, inMain)
  BY <1>2, <1>6, InMainStacks
<1> HIDE DEF h, inMain, sided
<1>8. PutsOn(p, kind, P)
  BY <1>5, <1>7
<1> HIDE DEF P
<1> QED BY <1>1, <1>3, <1>8 DEF PlayedPots

\* A check or a fold.
LEMMA PassPlaysPots ==
  ASSUME IInv, PotsNamed, NEW p \in Seats, Check(p) \/ Fold(p)
  PROVE  \E kind \in {"Check", "Fold"} : PlayedPots(p, kind, state, pots)
<1>1. MayAct(p)
  BY DEF Check, Fold
<1>2. PICK kind \in {"Check", "Fold"} : EndTurn([act EXCEPT ![p] = kind], curPlayers, state, pots)
  BY DEF Check, Fold
<1>3. PutsOn(p, kind, pots)
  BY <1>1, ActorHasNoPot DEF PutsOn
<1> QED BY <1>2, <1>3 DEF PlayedPots

\* What the end of a turn makes of the pots.
LEMMA EndStacked ==
  ASSUME NEW P \in AllPots, Stacked(P), NEW a, NEW cur, NEW st, NEW t,
         t = SetNextPlayerTurn(a, cur, st, P)
  PROVE  /\ t.pots \in AllPots /\ Stacked(t.pots) /\ t.pots.order = P.order
         /\ PublicInfo(t.pots).order = P.order /\ Stacked(PublicInfo(t.pots))
         /\ t.state \in {st, "RoundOver", "DoneBetting"}
<1>1. /\ t.pots = P \/ t.pots = CloseSidePots(CalculateSidePotTotals(P))
      /\ t.state \in {st, "RoundOver", "DoneBetting"}
  BY DEF SetNextPlayerTurn
<1> DEFINE C == CalculateSidePotTotals(P)
<1>2. C \in AllPots /\ Stacked(C) /\ C.order = P.order
  BY CalculateSidePotTotalsType, TotalsStacked
<1> HIDE DEF C
<1>3. CloseSidePots(C) \in AllPots /\ Stacked(CloseSidePots(C)) /\ CloseSidePots(C).order = P.order
  BY <1>2, CloseSidePotsType, TotalsStacked
<1>4. t.pots \in AllPots /\ Stacked(t.pots) /\ t.pots.order = P.order
  BY <1>1, <1>3 DEF C
<1> QED BY <1>1, <1>4, TotalsStacked

\* Nobody gets a pot or is dealt in.
LEMMA QuietKeepsNamed ==
  ASSUME PotsNamed, Stacked(pots'), Members(pots'.order) \subseteq Members(pots.order),
         Eligible(act') \subseteq Eligible(act), ~(phase' = "Open" /\ state' = "NotStarted")
  PROVE  PotsNamed'
  BY DEF PotsNamed

\* There is no all-in pot.
LEMMA NoneNamed ==
  ASSUME pots'.order = << >>
  PROVE  PotsNamed'
<1>1. Members(pots'.order) = {} /\ Stacked(pots')
  BY NoneStacked DEF Members
<1> QED BY <1>1 DEF PotsNamed

\* A failed assertion.
LEMMA PanicKeepsNamed ==
  ASSUME PotsNamed, Panic
  PROVE  PotsNamed'
<1>1. pots' = pots /\ act' = act /\ phase' = "Panicked"
  BY DEF Panic, players
<1>2. Stacked(pots)
  BY DEF PotsNamed
<1> QED BY <1>1, <1>2, QuietKeepsNamed

\* A player acts.
LEMMA TurnKeepsNamed ==
  ASSUME IInv, PotsNamed, NEW p \in Seats, Turn(p), ~Panic
  PROVE  PotsNamed'
<1>1. PICK kind \in {"AllIn", "Bet", "Call", "Check", "Fold"}, st \in BettingStates :
        \E P : PlayedPots(p, kind, st, P)
  <2>1. MayAct(p)
    BY DEF Turn, AllIn, Bet, Call, Check, Fold
  <2>2. state \in BettingStates /\ "PlayerRaised" \in BettingStates
    BY <2>1 DEF MayAct, BettingStates
  <2> QED BY <2>2, AllInPlaysPots, BetPlaysPots, CallPlaysPots, PassPlaysPots DEF Turn
<1>2. PICK P : PlayedPots(p, kind, st, P)
  BY <1>1
<1>3. PICK cur : EndTurn([act EXCEPT ![p] = kind], cur, st, P)
  BY <1>2 DEF PlayedPots
<1> DEFINE a == [act EXCEPT ![p] = kind]
           t == SetNextPlayerTurn(a, cur, st, P)
<1>4. /\ P \in AllPots /\ Stacked(P)
      /\ Members(P.order) \subseteq Members(pots.order) \cup (IF kind = "AllIn" THEN {p} ELSE {})
  BY <1>2 DEF PlayedPots, PutsOn
<1>5. /\ act' = a /\ state' = t.state
      /\ pots' = t.pots \/ pots' = PublicInfo(t.pots)
  BY <1>3 DEF EndTurn
<1>6. t = SetNextPlayerTurn(a, cur, st, P)
  OBVIOUS
<1> HIDE DEF t, a
<1>7. Stacked(pots') /\ pots'.order = P.order /\ state' \in {st, "RoundOver", "DoneBetting"}
  BY <1>4, <1>5, <1>6, EndStacked
<1>8. Members(pots'.order) \cap Eligible(act') = {}
  <2>1. act \in [Seats -> Actions]
    BY DEF IInv, TypeOK
  <2>2. Members(pots.order) \cap Eligible(act) = {}
    BY DEF PotsNamed
  <2>3. act'[p] = kind /\ \A s \in Seats \ {p} : act'[s] = act[s]
    BY <1>5, <2>1 DEF a
  <2>4. p \in Eligible(act)
    BY ActorKnown DEF Turn, AllIn, Bet, Call, Check, Fold
  <2>5. Eligible(act') \subseteq Eligible(act)
    BY <2>3, <2>4 DEF Eligible
  <2>6. kind = "AllIn" => p \notin Eligible(act')
    BY <2>3 DEF Eligible
  <2> QED BY <1>4, <1>7, <2>2, <2>5, <2>6
<1>9. state' # "NotStarted"
  BY <1>7 DEF BettingStates
<1> QED BY <1>7, <1>8, <1>9 DEF PotsNamed
\* A player sits down: before the first hand nobody has gone all-in, afterwards
\* it waits, and may not bet.
LEMMA JoinKeepsNamed ==
  ASSUME PausesInRounds, RiverInv, PotsNamed, NEW p \in Seats, Join(p)
  PROVE  PotsNamed'
<1>1. /\ phase \in {"Open"} \cup Pauses /\ pots' = pots /\ phase' = phase /\ state' = state
      /\ act' = [act EXCEPT ![p] = IF state # "NotStarted" THEN "MidroundAddition" ELSE "FirstAction"]
  BY DEF Join, finish
<1>2. IInv /\ Posted
  BY DEF RiverInv
<1>3. phase \in {"Open", "PostBetting", "RunOut"}
  BY <1>1 DEF PausesInRounds
<1>4. Ending /\ act \in [Seats -> Actions]
  BY <1>2, <1>3 DEF IInv, TypeOK, Following
<1>5. CASE state = "NotStarted"
  <2>1. phase = "Open"
    BY <1>2, <1>3, <1>4, <1>5 DEF Ending, Posted
  <2>2. pots.order = << >>
    BY <1>5, <2>1 DEF PotsNamed
  <2> QED BY <1>1, <2>2, NoneNamed
<1>6. CASE state # "NotStarted"
  <2>1. Eligible(act') \subseteq Eligible(act)
    BY <1>1, <1>4, <1>6 DEF Eligible
  <2>2. Stacked(pots)
    BY DEF PotsNamed
  <2> QED BY <1>1, <1>6, <2>1, <2>2, QuietKeepsNamed
<1> QED BY <1>5, <1>6

\* A player leaves: its pots stay, under its name.
LEMMA LeaveKeepsNamed ==
  ASSUME IInv, PotsNamed, NEW p \in Seats, Leave(p)
  PROVE  PotsNamed'
<1> DEFINE inTurn == Len(activePlayers) > 1 /\ curPlayer = p
           a == IF inTurn THEN [act EXCEPT ![p] = "Fold"] ELSE act
           t == IF inTurn THEN SetNextPlayerTurn(a, curPlayers, state, pots)
                ELSE [cur |-> curPlayers, curPlayer |-> curPlayer, state |-> state, pots |-> pots]
<1>1. /\ phase = "Open" /\ act' = [a EXCEPT ![p] = "VacantSeat"]
      /\ state' = t.state /\ pots' = PublicInfo(t.pots)
  BY DEF Leave, Unseat
<1>2. pots \in AllPots /\ act \in [Seats -> Actions]
  BY DEF IInv, TypeOK
<1>3. Stacked(pots) /\ (state = "NotStarted" => pots.order = << >>)
  BY <1>1 DEF PotsNamed
<1>4. /\ Stacked(pots') /\ pots'.order = pots.order /\ (state' = "NotStarted" => state = "NotStarted")
  <2>1. CASE inTurn
    <3> DEFINE u == SetNextPlayerTurn(a, curPlayers, state, pots)
    <3>1. state' = u.state /\ pots' = PublicInfo(u.pots)
      BY <1>1, <2>1
    <3>2. u = SetNextPlayerTurn(a, curPlayers, state, pots)
      OBVIOUS
    <3> HIDE DEF u, a
    <3> QED BY <1>2, <1>3, <3>1, <3>2, EndStacked
  <2>2. CASE ~inTurn
    <3>1. state' = state /\ pots' = PublicInfo(pots)
      BY <1>1, <2>2
    <3> QED BY <1>2, <1>3, <3>1, TotalsStacked
  <2> QED BY <2>1, <2>2
<1>5. Eligible(act') \subseteq Eligible(act)
  <2>1. \A s \in Seats \ {p} : act'[s] = act[s]
    BY <1>1, <1>2
  <2>2. act'[p] = "VacantSeat"
    BY <1>1, <1>2
  <2> QED BY <2>1, <2>2 DEF Eligible
<1> HIDE DEF t, a
<1>6. CASE state' = "NotStarted"
  BY <1>3, <1>4, <1>6, NoneNamed
<1>7. CASE state' # "NotStarted"
  BY <1>4, <1>5, <1>7, QuietKeepsNamed
<1> QED BY <1>6, <1>7

\* The table is cleared, or the pots of a hand are new.
LEMMA FreshKeepsNamed ==
  ASSUME IInv, PotsNamed, (\E p \in Seats : LeaveLast(p)) \/ GameOver \/ StartGame \/ NewRound
  PROVE  PotsNamed'
<1>1. NoPots.order = << >> /\ [NoPots EXCEPT !.main.bet = bet'].order = << >>
  BY DEF NoPots
<1>2. CASE (\E p \in Seats : LeaveLast(p)) \/ GameOver
  <2>1. pots' = NoPots
    BY <1>2 DEF LeaveLast, GameOver, Reset
  <2> QED BY <1>1, <2>1, NoneNamed
<1>3. CASE StartGame
  <2>1. phase = "Open" /\ state = "NotStarted" /\ \E x : pots' = PublicInfo([pots EXCEPT !.main.total = x])
    BY <1>3 DEF StartGame, BeginGame, PostBlinds
  <2>2. pots' .order = pots.order
    BY <2>1 DEF PublicInfo, IInv, TypeOK, AllPots
  <2> QED BY <2>1, <2>2, NoneNamed DEF PotsNamed
<1>4. CASE NewRound
  <2>1. CASE Panic
    BY <2>1, PanicKeepsNamed
  <2>2. CASE ~Panic
    <3>1. pots' = [NoPots EXCEPT !.main.bet = bet']
      BY <1>4, <2>2 DEF NewRound
    <3> QED BY <1>1, <3>1, NoneNamed
  <2> QED BY <2>1, <2>2
<1> QED BY <1>2, <1>3, <1>4

\* Who lost its last chips leaves the lists, or the table is cleared.
LEMMA RemovalKeepsNamed ==
  ASSUME IInv, PotsNamed, RemoveEliminated
  PROVE  PotsNamed'
<1>1. CASE numPlayers = 1
  <2>1. pots' = NoPots
    BY <1>1 DEF RemoveEliminated, Reset
  <2> QED BY <2>1, NoneNamed DEF NoPots
<1>2. CASE numPlayers # 1
  <2>1. /\ pots' = PublicInfo(pots) /\ phase' \in {"Eliminating", "Lost"}
        /\ \E p : act' = [act EXCEPT ![p] = "VacantSeat"]
    BY <1>2 DEF RemoveEliminated, Unseat
  <2>2. pots \in AllPots /\ act \in [Seats -> Actions] /\ Stacked(pots)
    BY DEF IInv, TypeOK, PotsNamed
  <2>3. Stacked(pots') /\ pots'.order = pots.order
    BY <2>1, <2>2, TotalsStacked
  <2>4. \A s \in Seats : act'[s] \in {act[s], "VacantSeat"}
    BY <2>1, <2>2
  <2>5. Eligible(act') \subseteq Eligible(act)
    BY <2>4 DEF Eligible
  <2> QED BY <2>1, <2>3, <2>5, QuietKeepsNamed
<1> QED BY <1>1, <1>2

\* The blinds of a hand, and whom they leave all-in.
LEMMA BlindsKeepNamed ==
  ASSUME IInv, IInv', PotsNamed, Blinds
  PROVE  PotsNamed'
<1>0. \A s, b : PostBlinds(s, b) => \E x : pots' = PublicInfo([pots EXCEPT !.main.total = x])
  BY DEF PostBlinds
<1>1. /\ phase' = "SmallBlindAllIn" /\ \E s, b : PostBlinds(s, b)
      /\ \A x \in Seats : act'[x] \in {act[x], "AllIn"}
  BY DEF Blinds
<1>2. pots \in AllPots /\ pots' \in AllPots /\ Stacked(pots)
  BY DEF IInv, TypeOK, PotsNamed
<1>3. /\ pots'.order = pots.order /\ pots'.side = pots.side
      /\ pots'.main.closed = pots.main.closed /\ pots'.main.bet = pots.main.bet
  <2>1. PICK x : pots' = PublicInfo([pots EXCEPT !.main.total = x])
    BY <1>0, <1>1
  <2>2. pots' = [pots EXCEPT !.main = [pots.main EXCEPT !.total = x, !.players = {}]]
    BY <1>2, <2>1 DEF PublicInfo, AllPots
  <2>3. pots.main \in Pot
    BY <1>2, PotsFields
  <2> QED BY <1>2, <2>2, <2>3 DEF AllPots, Pot
<1>4. Stacked(pots')
  BY <1>2, <1>3, SameBets
<1>5. Eligible(act') \subseteq Eligible(act)
  BY <1>1 DEF Eligible
<1> QED BY <1>1, <1>3, <1>4, <1>5, QuietKeepsNamed

\* A blind that is all-in leaves the betting list.
LEMMA BlindAllInKeepsNamed ==
  ASSUME RiverInv, PotsNamed, SmallBlindAllIn \/ BigBlindAllIn
  PROVE  PotsNamed'
<1>1. /\ phase \in {"SmallBlindAllIn", "BigBlindAllIn"}
      /\ phase' = "Open" => phase = "BigBlindAllIn"
      /\ act' = act
      /\ \/ pots' = pots /\ state' = state
         \/ pots' = PublicInfo(pots) /\ state' = state
         \/ LET t == SetNextPlayerTurn(act, curPlayers, state, pots)
            IN  pots' = PublicInfo(t.pots) /\ state' = t.state
  BY DEF SmallBlindAllIn, BigBlindAllIn, BlindAllIn, players
<1>2. pots \in AllPots /\ Stacked(pots) /\ (phase = "BigBlindAllIn" => state = "PreFlop")
  BY DEF RiverInv, Posted, IInv, TypeOK, PotsNamed
<1> DEFINE t == SetNextPlayerTurn(act, curPlayers, state, pots)
<1>3. /\ Stacked(PublicInfo(t.pots)) /\ PublicInfo(t.pots).order = pots.order
      /\ t.state \in {state, "RoundOver", "DoneBetting"}
  <2>1. t = SetNextPlayerTurn(act, curPlayers, state, pots)
    OBVIOUS
  <2> HIDE DEF t
  <2> QED BY <1>2, <2>1, EndStacked
<1>4. Stacked(PublicInfo(pots)) /\ PublicInfo(pots).order = pots.order
  BY <1>2, TotalsStacked
<1>5. /\ Stacked(pots') /\ pots'.order = pots.order
      /\ state' \in {state, "RoundOver", "DoneBetting"}
  BY <1>1, <1>2, <1>3, <1>4
<1>6. ~(phase' = "Open" /\ state' = "NotStarted")
  BY <1>1, <1>2, <1>5
<1> QED BY <1>1, <1>5, <1>6, QuietKeepsNamed

\* The next street is dealt to those who bet.
LEMMA DealKeepsNamed ==
  ASSUME IInv, PotsNamed, DealStreet
  PROVE  PotsNamed'
<1>1. CASE Panic
  BY <1>1, PanicKeepsNamed
<1>2. CASE ~Panic
  <2>1. /\ phase = "PostBetting" /\ ~BettingIsImpossible /\ state' = "Rounds" /\ pots' = pots
        /\ act' = [s \in Seats |-> IF s \in Members(curPlayers) THEN "FirstAction" ELSE act[s]]
    BY <1>2 DEF DealStreet
  <2>2. Members(curPlayers) = Eligible(act) /\ Stacked(pots)
    BY <2>1 DEF IInv, Following, Ending, PotsNamed
  <2>3. \A s \in Seats : act'[s] = act[s] \/ s \in Eligible(act)
    BY <2>1, <2>2
  <2>4. Eligible(act') \subseteq Eligible(act)
    BY <2>3 DEF Eligible
  <2> QED BY <2>1, <2>2, <2>4, QuietKeepsNamed
<1> QED BY <1>1, <1>2

\* The end of a hand.
LEMMA FinishKeepsNamed ==
  ASSUME IInv, PotsNamed, ShowDownEarly \/ RunOut \/ RiverDone \/ FinishByFolds \/ NoHandsLeft
         \/ ShowHands \/ AwardSidePot \/ AwardDone \/ AbandonPots \/ AbandonToLast \/ AbandonToJoiner
         \/ Eliminate \/ EliminationDone
  PROVE  PotsNamed'
<1> DEFINE Over == act' = act /\ phase' # "Open" /\ (pots' = pots \/ pots' = FinalPots)
<1>1. ShowDownEarly \/ RunOut \/ RiverDone => Over
  BY DEF ShowDownEarly, RunOut, RiverDone, Panic, players
<1>2. FinishByFolds \/ NoHandsLeft \/ ShowHands \/ AwardDone => Over
  BY DEF FinishByFolds, WinByFolds, NoHandsLeft, ShowHands, AwardDone, Panic, players
<1>3. AwardSidePot => Over
  <2>1. AwardSidePot => act' = act /\ pots' = pots /\ (phase' = phase \/ phase' = "Panicked")
    BY DEF AwardSidePot, Panic, players
  <2> QED BY <2>1 DEF AwardSidePot
<1>4. AbandonPots \/ AbandonToLast \/ AbandonToJoiner \/ Eliminate \/ EliminationDone => Over
  BY DEF AbandonPots, AbandonToLast, WinByFolds, AbandonToJoiner, Eliminate, EliminationDone, Panic, players
<1>5. pots \in AllPots /\ Stacked(pots)
  BY DEF IInv, TypeOK, PotsNamed
<1>6. Stacked(FinalPots) /\ FinalPots.order = pots.order
  <2> DEFINE C == CalculateSidePotTotals(pots)
  <2>1. C \in AllPots /\ Stacked(C) /\ C.order = pots.order
    BY <1>5, CalculateSidePotTotalsType, TotalsStacked
  <2> HIDE DEF C
  <2>2. FinalPots = C \/ FinalPots = [C EXCEPT !.hasBetting = FALSE, !.betting = NoPot]
    BY DEF FinalPots, C
  <2>3. /\ FinalPots.order = C.order /\ FinalPots.side = C.side /\ FinalPots.main = C.main
    BY <2>1, <2>2 DEF AllPots
  <2>4. FinalPots \in AllPots
    BY <1>5, FinalPotsType
  <2> QED BY <2>1, <2>3, <2>4, SameBets
<1>7. Over
  BY <1>1, <1>2, <1>3, <1>4
<1>8. Stacked(pots') /\ pots'.order = pots.order
  BY <1>5, <1>6, <1>7
<1> QED BY <1>7, <1>8, QuietKeepsNamed

\* No step at all.
LEMMA StutterKeepsNamed ==
  ASSUME PotsNamed, UNCHANGED vars
  PROVE  PotsNamed'
  BY DEF vars, players, lists, PotsNamed

\* Every step.
LEMMA StepKeepsNamed ==
  ASSUME PausesInRounds, RiverInv, RiverInv', PotsNamed, [Next]_vars
  PROVE  PotsNamed'
<1>1. IInv /\ IInv'
  BY DEF RiverInv
<1>2. ASSUME NEW p \in Seats, Turn(p) PROVE PotsNamed'
  BY <1>1, <1>2, TurnKeepsNamed, PanicKeepsNamed
<1>3. ASSUME Request PROVE PotsNamed'
  BY <1>1, <1>2, <1>3, JoinKeepsNamed, LeaveKeepsNamed, FreshKeepsNamed DEF Request
<1>4. ASSUME Flow PROVE PotsNamed'
  BY <1>1, <1>4, FreshKeepsNamed, BlindsKeepNamed, BlindAllInKeepsNamed, DealKeepsNamed,
     FinishKeepsNamed, RemovalKeepsNamed DEF Flow
<1>5. ASSUME UNCHANGED vars PROVE PotsNamed'
  BY <1>5, StutterKeepsNamed
<1> QED BY <1>3, <1>4, <1>5 DEF Next

\* The invariant of the side pots.
THEOREM AlwaysPotsInv ==
  ASSUME PausesInRounds
  PROVE  Spec => []PotsInv
<1>1. Init => PotsNamed
  <2>1. Init => pots.order = << >>
    BY DEF Init, NoPots
  <2>2. pots.order = << >> => PotsNamed
    BY NoneStacked DEF PotsNamed, Members
  <2> QED BY <2>1, <2>2
<1>2. RiverInv /\ RiverInv' /\ PotsNamed /\ [Next]_vars => PotsNamed'
  BY StepKeepsNamed
<1>3. PotsInv <=> RiverInv /\ PotsNamed
  BY DEF PotsInv
<1> QED BY <1>1, <1>2, <1>3, AlwaysRiverInv, PTL DEF Spec

\* Whatever order the players go all-in in, the open side pots are in the order
\* of their bets.
THEOREM AlwaysPotsOrdered ==
  ASSUME PausesInRounds
  PROVE  Spec => []PotsOrdered
<1>1. PotsInv => PotsOrdered
  BY DEF PotsInv, PotsNamed, PotsOrdered, Stacked
<1> QED BY <1>1, AlwaysPotsInv, PTL
=============================================================================
