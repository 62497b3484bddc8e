---------------------------- MODULE TableProofs ----------------------------
(***************************************************************************)
(* What a table is built from.  The operations on the ring of players keep *)
(* the type of the list, every player once, who is in it and the order of  *)
(* the ring.  Every operation on the pots keeps their type, whatever the   *)
(* chips, the order of the pots and the players of a step are.             *)
(***************************************************************************)
EXTENDS PlayerList, SidePots, FiniteSetTheorems, SequenceTheorems, WellFoundedInduction, TLAPS

-----------------------------------------------------------------------------
(* Least and greatest elements, which the models take with CHOOSE: the     *)
(* first player from a seat on, the first and the last of the open pots,   *)
(* the chip leader.                                                        *)

\* A nonempty set of natural numbers has a least element.
LEMMA LeastExists ==
  ASSUME NEW T, T \subseteq Nat, T # {}
  PROVE  \E i \in T : \A j \in T : i <= j
<1>1. PICK i \in T : \A j \in T : ~(<< j, i >> \in OpToRel(<, Nat))
  BY NatLessThanWellFounded, WFMin
<1>2. \A j \in T : ~(j < i)
  BY <1>1 DEF OpToRel
<1> QED BY <1>2

\* A nonempty bounded set of natural numbers has a greatest element: the
\* least of its upper bounds.
LEMMA GreatestExists ==
  ASSUME NEW T, T \subseteq Nat, T # {}, NEW n \in Nat, \A j \in T : j <= n
  PROVE  \E i \in T : \A j \in T : j <= i
<1> DEFINE Bounds == {m \in Nat : \A j \in T : j <= m}
<1>1. Bounds \subseteq Nat /\ n \in Bounds
  OBVIOUS
<1>2. PICK m \in Bounds : \A l \in Bounds : m <= l
  BY <1>1, LeastExists
<1>3. m \in T
  <2>1. SUFFICES ASSUME m \notin T PROVE FALSE
    OBVIOUS
  <2>2. \A j \in T : j < m
    BY <2>1
  <2>3. PICK k \in T : TRUE
    OBVIOUS
  <2>4. m - 1 \in Bounds
    BY <2>2, <2>3
  <2> QED BY <1>2, <2>4
<1> QED BY <1>3

-----------------------------------------------------------------------------
(* Lists as sets of players.                                               *)

\* A member has a position.
LEMMA PositionType ==
  ASSUME NEW S, NEW list \in Seq(S), NEW p \in Members(list)
  PROVE  /\ Position(list, p) \in 1 .. Len(list)
         /\ list[Position(list, p)] = p
  BY DEF Members, Position

\* Two positions of a list in which every player is once hold two players.
LEMMA DistinctPositions ==
  ASSUME NEW S, NEW list \in Seq(S)
  PROVE  Distinct(list) <=>
           \A i, j \in 1 .. Len(list) : list[i] = list[j] => i = j
<1>1. DOMAIN list = 1 .. Len(list)
  OBVIOUS
<1> QED BY <1>1 DEF Distinct

\* The players of a list are elements of the set it is a sequence over.
LEMMA MembersType ==
  ASSUME NEW S, NEW list \in Seq(S)
  PROVE  Members(list) \subseteq S
  BY DEF Members

\* AddPlayer adds a player who is not in the list yet.
LEMMA AddPlayerKeeps ==
  ASSUME NEW S, NEW list \in Seq(S), NEW p \in S
  PROVE  /\ AddPlayer(list, p) \in Seq(S)
         /\ Len(AddPlayer(list, p)) = Len(list) + 1
         /\ Members(AddPlayer(list, p)) = Members(list) \cup {p}
         /\ Distinct(list) /\ p \notin Members(list) => Distinct(AddPlayer(list, p))
  BY DEF AddPlayer, Members, Distinct

\* RemovePlayer takes one player out and leaves the others.
LEMMA RemovePlayerKeeps ==
  ASSUME NEW S, NEW list \in Seq(S), NEW p, Distinct(list)
  PROVE  /\ RemovePlayer(list, p) \in Seq(S)
         /\ Members(RemovePlayer(list, p)) = Members(list) \ {p}
         /\ Distinct(RemovePlayer(list, p))
         /\ p \in Members(list) => Len(RemovePlayer(list, p)) = Len(list) - 1
         /\ p \notin Members(list) => RemovePlayer(list, p) = list
<1>1. CASE p \notin Members(list)
  BY <1>1 DEF RemovePlayer, Members
<1>2. CASE p \in Members(list)
  <2> DEFINE k == Position(list, p)
             short == RemovePlayer(list, p)
  <2>1. k \in 1 .. Len(list) /\ list[k] = p
    BY <1>2, PositionType
  <2>2. short = [i \in 1 .. Len(list) - 1 |-> IF i < k THEN list[i] ELSE list[i + 1]]
    BY <1>2 DEF RemovePlayer
  <2> HIDE DEF k
  <2>3. Len(list) - 1 \in Nat
    BY <2>1
  <2>4. short \in Seq(S) /\ Len(short) = Len(list) - 1
    BY <2>1, <2>2, <2>3
  <2>5. \A i \in 1 .. Len(list) - 1 : short[i] = IF i < k THEN list[i] ELSE list[i + 1]
    BY <2>2
  <2> HIDE DEF short
  <2>6. Members(short) \subseteq Members(list) \ {p}
    BY <2>1, <2>4, <2>5 DEF Members, Distinct
  <2>7. ASSUME NEW q \in Members(list), q # p PROVE q \in Members(short)
    <3>1. PICK i \in 1 .. Len(list) : list[i] = q
      BY <2>7 DEF Members
    <3>2. CASE i < k
      BY <2>1, <2>4, <2>5, <3>1, <3>2 DEF Members
    <3>3. CASE i > k
      <4>1. i - 1 \in 1 .. Len(list) - 1 /\ ~(i - 1 < k)
        BY <2>1, <3>1, <3>3
      <4>2. short[i - 1] = q
        BY <2>5, <3>1, <4>1
      <4> QED BY <2>4, <4>1, <4>2 DEF Members
    <3> QED BY <2>1, <2>7, <3>1, <3>2, <3>3
  <2>8. ASSUME NEW i \in 1 .. Len(list) - 1, NEW j \in 1 .. Len(list) - 1, short[i] = short[j]
        PROVE  i = j
    <3> DEFINE from(m) == IF m < k THEN m ELSE m + 1
    <3>1. from(i) \in 1 .. Len(list) /\ from(j) \in 1 .. Len(list)
      BY <2>1
    <3>2. list[from(i)] = list[from(j)]
      BY <2>5, <2>8
    <3>3. from(i) = from(j)
      BY <3>1, <3>2, DistinctPositions
    <3> QED BY <2>1, <3>3
  <2> QED BY <1>2, <2>4, <2>6, <2>7, <2>8 DEF short, Distinct
<1> QED BY <1>1, <1>2

\* SetHead rotates: the same players, the given one in front.
LEMMA SetHeadKeeps ==
  ASSUME NEW S, NEW list \in Seq(S), NEW p \in Members(list), Distinct(list)
  PROVE  /\ SetHead(list, p) \in Seq(S)
         /\ Len(SetHead(list, p)) = Len(list)
         /\ Members(SetHead(list, p)) = Members(list)
         /\ Distinct(SetHead(list, p))
         /\ SetHead(list, p)[1] = p
<1> DEFINE k == Position(list, p)
           n == Len(list)
           ring == SetHead(list, p)
<1>1. k \in 1 .. n /\ list[k] = p /\ n \in Nat \ {0}
  BY PositionType
<1>2. ring = [i \in 1 .. n |-> IF i + k - 1 <= n THEN list[i + k - 1] ELSE list[i + k - 1 - n]]
  BY DEF SetHead
<1> HIDE DEF k
<1>3. ring \in Seq(S) /\ Len(ring) = n
  BY <1>1, <1>2
<1>4. \A i \in 1 .. n : ring[i] = IF i + k - 1 <= n THEN list[i + k - 1] ELSE list[i + k - 1 - n]
  BY <1>2
<1> DEFINE from(i) == IF i + k - 1 <= n THEN i + k - 1 ELSE i + k - 1 - n
<1>5. \A i \in 1 .. n : from(i) \in 1 .. n /\ ring[i] = list[from(i)]
  BY <1>1, <1>4
<1>6. \A i \in 1 .. n : \E j \in 1 .. n : from(j) = i
  <2> SUFFICES ASSUME NEW i \in 1 .. n PROVE \E j \in 1 .. n : from(j) = i
    OBVIOUS
  <2>1. CASE i >= k
    <3>1. i - k + 1 \in 1 .. n /\ from(i - k + 1) = i
      BY <1>1, <2>1
    <3> QED BY <3>1
  <2>2. CASE i < k
    <3>1. i - k + 1 + n \in 1 .. n /\ from(i - k + 1 + n) = i
      BY <1>1, <2>2
    <3> QED BY <3>1
  <2> QED BY <1>1, <2>1, <2>2
<1>7. \A i, j \in 1 .. n : from(i) = from(j) => i = j
  BY <1>1
<1>8. DOMAIN ring = 1 .. n /\ DOMAIN list = 1 .. n
  BY <1>2
<1>9. ring[1] = p
  BY <1>1, <1>4
<1> HIDE DEF ring, from, n
<1>10. Members(ring) = Members(list)
  <2>1. ASSUME NEW q \in Members(list) PROVE q \in Members(ring)
    <3>1. PICK i \in 1 .. n : q = list[i]
      BY <1>8 DEF Members
    <3>2. PICK j \in 1 .. n : from(j) = i
      BY <1>6
    <3> QED BY <1>5, <1>8, <3>1, <3>2 DEF Members
  <2>2. ASSUME NEW q \in Members(ring) PROVE q \in Members(list)
    BY <1>5, <1>8 DEF Members
  <2> QED BY <2>1, <2>2
<1>11. Distinct(ring)
  BY <1>5, <1>7, <1>8 DEF Distinct
<1> QED BY <1>3, <1>9, <1>10, <1>11 DEF ring, n

\* The successor of a member is a member, and another one unless it is alone.
LEMMA NextOfKeeps ==
  ASSUME NEW S, NEW list \in Seq(S), NEW p \in Members(list)
  PROVE  /\ NextOf(list, p) \in Members(list)
         /\ Distinct(list) /\ Len(list) # 1 => NextOf(list, p) # p
<1>1. Position(list, p) \in 1 .. Len(list) /\ list[Position(list, p)] = p
  BY PositionType
<1>2. NextOf(list, p) \in Members(list)
  BY <1>1 DEF NextOf, Members
<1>3. ASSUME Distinct(list), Len(list) # 1 PROVE NextOf(list, p) # p
  <2>1. \A i, j \in 1 .. Len(list) : list[i] = list[j] => i = j
    BY <1>3, DistinctPositions
  <2>2. CASE Position(list, p) = Len(list)
    BY <1>1, <1>3, <2>1, <2>2 DEF NextOf
  <2>3. CASE Position(list, p) # Len(list)
    <3>1. /\ Position(list, p) + 1 \in 1 .. Len(list)
          /\ Position(list, p) + 1 # Position(list, p)
      BY <1>1, <2>3
    <3> QED BY <1>1, <2>1, <2>3, <3>1 DEF NextOf
  <2> QED BY <2>2, <2>3
<1> QED BY <1>2, <1>3

\* The predecessor of a member is a member.
LEMMA PrevOfKeeps ==
  ASSUME NEW S, NEW list \in Seq(S), NEW p \in Members(list)
  PROVE  PrevOf(list, p) \in Members(list)
<1>1. Position(list, p) \in 1 .. Len(list)
  BY PositionType
<1> QED BY <1>1 DEF PrevOf, Members

\* The player FirstIn looks for is a member with the property, if any is.
LEMMA FirstInKeeps ==
  ASSUME NEW S, NEW list \in Seq(S), NEW T, Members(list) \cap T # {}
  PROVE  FirstIn(list, T) \in Members(list) \cap T
<1> DEFINE Found == {i \in 1 .. Len(list) : list[i] \in T}
<1>1. DOMAIN list = 1 .. Len(list)
  OBVIOUS
<1>2. Found \subseteq Nat /\ Found # {}
  BY <1>1 DEF Members
<1>3. PICK i \in Found : \A j \in Found : i <= j
  BY <1>2, LeastExists
<1>4. \A j \in 1 .. i - 1 : list[j] \notin T
  BY <1>3
<1>5. \E m \in DOMAIN list : list[m] \in T /\ \A j \in 1 .. m - 1 : list[j] \notin T
  BY <1>1, <1>3, <1>4
<1> QED BY <1>5 DEF FirstIn, Members

\* A list with players starts with one of them.
LEMMA HeadIsMember ==
  ASSUME NEW S, NEW list \in Seq(S), Members(list) # {} \/ Len(list) # 0
  PROVE  list[1] \in Members(list) /\ Len(list) \in Nat \ {0} /\ Members(list) # {}
<1>1. DOMAIN list = 1 .. Len(list) /\ Len(list) \in Nat
  OBVIOUS
<1>2. Len(list) # 0
  BY <1>1 DEF Members
<1> QED BY <1>1, <1>2 DEF Members

\* A list of one player is that player.
LEMMA AloneInList ==
  ASSUME NEW S, NEW list \in Seq(S)
  PROVE  /\ Len(list) = 1 => Members(list) = {list[1]}
         /\ Len(list) = 0 <=> Members(list) = {}
         /\ list = << >> <=> Len(list) = 0
<1>1. DOMAIN list = 1 .. Len(list) /\ Len(list) \in Nat
  OBVIOUS
<1>2. Members(list) = {list[i] : i \in 1 .. Len(list)}
  BY <1>1 DEF Members
<1>3. Len(list) = 1 => Members(list) = {list[1]}
  BY <1>2
<1>4. Len(list) = 0 <=> Members(list) = {}
  <2>1. Len(list) = 0 => Members(list) = {}
    BY <1>2
  <2>2. Len(list) # 0 => list[1] \in Members(list)
    BY <1>1, <1>2
  <2> QED BY <2>1, <2>2
<1> QED BY <1>3, <1>4

-----------------------------------------------------------------------------
(* Where the operations put the players.                                   *)

\* The position of a player is the one it is at, and the only one.
LEMMA PositionIs ==
  ASSUME NEW S, NEW list \in Seq(S), Distinct(list), NEW i \in 1 .. Len(list)
  PROVE  Position(list, list[i]) = i
<1>1. \A j \in 1 .. Len(list) : list[j] = list[i] => j = i
  BY DistinctPositions
<1>2. list[i] \in Members(list)
  BY DEF Members
<1> QED BY <1>1, <1>2, PositionType

\* Two players have two positions.
LEMMA PositionsDiffer ==
  ASSUME NEW S, NEW list \in Seq(S), NEW p \in Members(list), NEW q \in Members(list),
         Position(list, p) = Position(list, q)
  PROVE  p = q
  BY PositionType

\* The players behind the one who is removed move up.
LEMMA RemovePosition ==
  ASSUME NEW S, NEW list \in Seq(S), Distinct(list), NEW x \in Members(list),
         NEW p \in Members(list), p # x
  PROVE  Position(RemovePlayer(list, x), p)
           = IF Position(list, p) < Position(list, x) THEN Position(list, p) ELSE Position(list, p) - 1
<1> DEFINE k == Position(list, x)
           i == Position(list, p)
           short == RemovePlayer(list, x)
           m == IF i < k THEN i ELSE i - 1
<1>1. /\ k \in 1 .. Len(list) /\ i \in 1 .. Len(list) /\ i # k /\ list[i] = p
  BY PositionType
<1>2. short = [j \in 1 .. Len(list) - 1 |-> IF j < k THEN list[j] ELSE list[j + 1]]
  BY DEF RemovePlayer
<1>3. short \in Seq(S) /\ Distinct(short) /\ Len(short) = Len(list) - 1
  BY RemovePlayerKeeps
<1> HIDE DEF k, i, short
<1>4. m \in 1 .. Len(list) - 1
  BY <1>1
<1>5. short[m] = p
  BY <1>1, <1>2, <1>4
<1>6. Position(short, short[m]) = m
  BY <1>3, <1>4, PositionIs
<1> QED BY <1>5, <1>6 DEF k, i, short

\* Rotating the ring moves every player by the same number of places.
LEMMA SetHeadPosition ==
  ASSUME NEW S, NEW list \in Seq(S), Distinct(list), NEW x \in Members(list),
         NEW p \in Members(list)
  PROVE  Position(SetHead(list, x), p)
           = IF Position(list, p) < Position(list, x)
             THEN Position(list, p) - Position(list, x) + 1 + Len(list)
             ELSE Position(list, p) - Position(list, x) + 1
<1> DEFINE k == Position(list, x)
           i == Position(list, p)
           n == Len(list)
           ring == SetHead(list, x)
           m == IF i < k THEN i - k + 1 + n ELSE i - k + 1
<1>1. k \in 1 .. n /\ i \in 1 .. n /\ list[i] = p /\ n \in Nat
  BY PositionType
<1>2. ring = [j \in 1 .. n |-> IF j + k - 1 <= n THEN list[j + k - 1] ELSE list[j + k - 1 - n]]
  BY DEF SetHead
<1>3. ring \in Seq(S) /\ Distinct(ring) /\ Len(ring) = n
  BY SetHeadKeeps
<1> HIDE DEF k, i, ring, n
<1>4. m \in 1 .. n /\ (IF m + k - 1 <= n THEN m + k - 1 ELSE m + k - 1 - n) = i
  BY <1>1
<1>5. ring[m] = p
  BY <1>1, <1>2, <1>4
<1>6. Position(ring, ring[m]) = m
  BY <1>3, <1>4, PositionIs
<1> QED BY <1>5, <1>6 DEF k, i, ring, n

\* A new player leaves the others where they are.
LEMMA AddPosition ==
  ASSUME NEW S, NEW list \in Seq(S), Distinct(list), NEW x \in S, x \notin Members(list),
         NEW p \in Members(list)
  PROVE  Position(AddPlayer(list, x), p) = Position(list, p)
<1>1. Position(list, p) \in 1 .. Len(list) /\ list[Position(list, p)] = p
  BY PositionType
<1>2. /\ AddPlayer(list, x) \in Seq(S) /\ Distinct(AddPlayer(list, x))
      /\ Len(AddPlayer(list, x)) = Len(list) + 1
  BY AddPlayerKeeps
<1>3. AddPlayer(list, x)[Position(list, p)] = p /\ Position(list, p) \in 1 .. Len(list) + 1
  BY <1>1 DEF AddPlayer
<1> QED BY <1>2, <1>3, PositionIs

\* The successor is one place further on, or at the head.
LEMMA NextPosition ==
  ASSUME NEW S, NEW list \in Seq(S), Distinct(list), NEW p \in Members(list)
  PROVE  Position(list, NextOf(list, p))
           = IF Position(list, p) = Len(list) THEN 1 ELSE Position(list, p) + 1
<1>1. Position(list, p) \in 1 .. Len(list)
  BY PositionType
<1>2. CASE Position(list, p) = Len(list)
  <2>1. 1 \in 1 .. Len(list) /\ NextOf(list, p) = list[1]
    BY <1>1, <1>2 DEF NextOf
  <2> QED BY <1>2, <2>1, PositionIs
<1>3. CASE Position(list, p) # Len(list)
  <2>1. Position(list, p) + 1 \in 1 .. Len(list) /\ NextOf(list, p) = list[Position(list, p) + 1]
    BY <1>1, <1>3 DEF NextOf
  <2> QED BY <1>3, <2>1, PositionIs
<1> QED BY <1>2, <1>3

\* The player FirstIn finds is the one nearest to the head.
LEMMA FirstInIs ==
  ASSUME NEW S, NEW list \in Seq(S), Distinct(list), NEW T, NEW x \in Members(list) \cap T,
         \A r \in Members(list) \cap T : Position(list, x) <= Position(list, r)
  PROVE  FirstIn(list, T) = x
<1> DEFINE i == Position(list, x)
           Is(m) == list[m] \in T /\ \A j \in 1 .. m - 1 : list[j] \notin T
<1>1. DOMAIN list = 1 .. Len(list) /\ i \in 1 .. Len(list) /\ list[i] = x /\ Len(list) \in Nat
  BY PositionType
<1>2. \A j \in 1 .. Len(list) : list[j] \in T => i <= j
  <2> SUFFICES ASSUME NEW j \in 1 .. Len(list), list[j] \in T PROVE i <= j
    OBVIOUS
  <2>1. list[j] \in Members(list) \cap T
    BY <1>1 DEF Members
  <2>2. Position(list, list[j]) = j
    BY PositionIs
  <2> QED BY <2>1, <2>2
<1> HIDE DEF i
<1>3. Is(i)
  BY <1>1, <1>2
<1>4. \A m \in DOMAIN list : Is(m) => m = i
  <2> SUFFICES ASSUME NEW m \in DOMAIN list, Is(m) PROVE m = i
    OBVIOUS
  <2>1. i <= m /\ m \in Nat
    BY <1>1, <1>2
  <2>2. i \notin 1 .. m - 1
    BY <1>1
  <2> QED BY <1>1, <2>1, <2>2
<1>5. (CHOOSE m \in DOMAIN list : Is(m)) = i
  BY <1>1, <1>3, <1>4
<1>6. FirstIn(list, T) = list[CHOOSE m \in DOMAIN list : Is(m)]
  BY DEF FirstIn
<1> HIDE DEF Is
<1> QED BY <1>1, <1>5, <1>6

-----------------------------------------------------------------------------
(* What keeps the order of a ring.                                         *)

\* Removing a player leaves the others in their order.
LEMMA RemoveKeepsAround ==
  ASSUME NEW S, NEW list \in Seq(S), Distinct(list), NEW x \in Members(list),
         NEW p \in Members(list) \ {x}, NEW q \in Members(list) \ {x},
         NEW r \in Members(list) \ {x}
  PROVE  Around(RemovePlayer(list, x), p, q, r) <=> Around(list, p, q, r)
<1>1. \A s \in {p, q, r} : Position(list, s) \in Int /\ Position(list, s) # Position(list, x)
  BY PositionType, PositionsDiffer
<1>2. \A s \in {p, q, r} : Position(RemovePlayer(list, x), s)
        = IF Position(list, s) < Position(list, x) THEN Position(list, s) ELSE Position(list, s) - 1
  BY RemovePosition
<1>3. Position(list, x) \in Int
  BY PositionType
<1> QED BY <1>1, <1>2, <1>3 DEF Around

\* So does another head.
LEMMA SetHeadKeepsAround ==
  ASSUME NEW S, NEW list \in Seq(S), Distinct(list), NEW x \in Members(list),
         NEW p \in Members(list), NEW q \in Members(list), NEW r \in Members(list)
  PROVE  Around(SetHead(list, x), p, q, r) <=> Around(list, p, q, r)
<1>1. \A s \in {p, q, r, x} : Position(list, s) \in 1 .. Len(list)
  BY PositionType
<1>2. \A s \in {p, q, r} : Position(SetHead(list, x), s)
           = IF Position(list, s) < Position(list, x)
             THEN Position(list, s) - Position(list, x) + 1 + Len(list)
             ELSE Position(list, s) - Position(list, x) + 1
  BY SetHeadPosition
<1> QED BY <1>1, <1>2 DEF Around

\* And a new player.
LEMMA AddKeepsAround ==
  ASSUME NEW S, NEW list \in Seq(S), Distinct(list), NEW x \in S, x \notin Members(list),
         NEW p \in Members(list), NEW q \in Members(list), NEW r \in Members(list)
  PROVE  Around(AddPlayer(list, x), p, q, r) <=> Around(list, p, q, r)
<1>1. \A s \in {p, q, r} : Position(AddPlayer(list, x), s) = Position(list, s)
  BY AddPosition
<1> QED BY <1>1 DEF Around

\* The betting list is rotated, or loses a player.
LEMMA ShortKeepsRing ==
  ASSUME NEW S, NEW short \in Seq(S), Distinct(short), NEW long, SameRing(short, long), NEW x
  PROVE  /\ SameRing(RemovePlayer(short, x), long)
         /\ x \in Members(short) => SameRing(SetHead(short, x), long)
<1>1. CASE x \in Members(short)
  <2>1. Members(RemovePlayer(short, x)) = Members(short) \ {x}
    BY RemovePlayerKeeps
  <2>2. Members(SetHead(short, x)) = Members(short)
    BY <1>1, SetHeadKeeps
  <2>3. SameRing(RemovePlayer(short, x), long)
    BY <1>1, <2>1, RemoveKeepsAround DEF SameRing
  <2>4. SameRing(SetHead(short, x), long)
    BY <1>1, <2>2, SetHeadKeepsAround DEF SameRing
  <2> QED BY <2>3, <2>4
<1>2. CASE x \notin Members(short)
  BY <1>2, RemovePlayerKeeps
<1> QED BY <1>1, <1>2

\* The list of active players is rotated, loses a player who does not bet, or
\* gets a new one.
LEMMA LongKeepsRing ==
  ASSUME NEW S, NEW long \in Seq(S), Distinct(long), NEW short,
         Members(short) \subseteq Members(long), SameRing(short, long), NEW x
  PROVE  /\ x \notin Members(short) => SameRing(short, RemovePlayer(long, x))
         /\ x \in Members(long) => SameRing(short, SetHead(long, x))
         /\ x \in S /\ x \notin Members(long) => SameRing(short, AddPlayer(long, x))
<1>1. ASSUME x \notin Members(short) PROVE SameRing(short, RemovePlayer(long, x))
  <2>1. CASE x \in Members(long)
    BY <1>1, <2>1, RemoveKeepsAround DEF SameRing
  <2>2. CASE x \notin Members(long)
    BY <2>2, RemovePlayerKeeps
  <2> QED BY <2>1, <2>2
<1>2. ASSUME x \in Members(long) PROVE SameRing(short, SetHead(long, x))
  BY <1>2, SetHeadKeepsAround DEF SameRing
<1>3. ASSUME x \in S, x \notin Members(long) PROVE SameRing(short, AddPlayer(long, x))
  BY <1>3, AddKeepsAround DEF SameRing
<1> QED BY <1>1, <1>2, <1>3

\* The list of all the players, and one that is empty or has one.
LEMMA RingsAlike ==
  ASSUME NEW S, NEW list \in Seq(S)
  PROVE  /\ SameRing(list, list)
         /\ Len(list) \in {0, 1} => \A long : SameRing(list, long)
<1>1. \A p \in Members(list) : Position(list, p) \in 1 .. Len(list)
  BY PositionType
<1>2. ASSUME Len(list) = 0 \/ Len(list) = 1, NEW p \in Members(list), NEW q \in Members(list),
             NEW r \in Members(list)
      PROVE  ~Around(list, p, q, r)
  <2>1. \A i, j \in 1 .. Len(list) : i = j
    BY <1>2
  <2>2. /\ Position(list, p) = Position(list, q) /\ Position(list, q) = Position(list, r)
        /\ Position(list, p) \in Int
    BY <1>1, <2>1
  <2> QED BY <2>2 DEF Around
<1> QED BY <1>2 DEF SameRing

\* The successor in the betting list is the next player around the table: the
\* first one from the player's neighbour on who is in the betting list, the
\* player itself aside.
LEMMA RingNext ==
  ASSUME NEW S, NEW short \in Seq(S), Distinct(short), NEW long \in Seq(S), Distinct(long),
         Members(short) \subseteq Members(long), SameRing(short, long), NEW p \in Members(short),
         NEW T, T \subseteq Members(short), Members(short) \ {p} \subseteq T, T # {}
  PROVE  NextOf(short, p) = FirstIn(SetHead(long, NextOf(long, p)), T)
<1> DEFINE m == NextOf(long, p)
           L == SetHead(long, m)
           n == Len(long)
           s == NextOf(short, p)
<1>1. /\ m \in Members(long) /\ n \in Nat
      /\ Position(long, m) = IF Position(long, p) = n THEN 1 ELSE Position(long, p) + 1
      /\ Position(long, p) \in 1 .. n
  BY NextOfKeeps, NextPosition, PositionType
<1>2. L \in Seq(S) /\ Distinct(L) /\ Members(L) = Members(long) /\ Len(L) = n
  BY <1>1, SetHeadKeeps
<1>3. Position(L, p) = n
  <2>1. Position(L, p) = IF Position(long, p) < Position(long, m)
                         THEN Position(long, p) - Position(long, m) + 1 + n
                         ELSE Position(long, p) - Position(long, m) + 1
    BY <1>1, SetHeadPosition
  <2> HIDE DEF m, L, n
  <2> QED BY <1>1, <2>1
<1>4. s \in Members(short) /\ (Len(short) # 1 => s # p)
  BY NextOfKeeps
<1>5. s \in T
  <2>1. CASE Len(short) = 1
    <3>1. Members(short) = {p}
      BY <2>1, AloneInList
    <3> QED BY <1>4, <3>1
  <2>2. CASE Len(short) # 1
    BY <1>4, <2>2
  <2> QED BY <2>1, <2>2
<1>6. ASSUME NEW r \in Members(L) \cap T PROVE Position(L, s) <= Position(L, r)
  <2>1. /\ Position(L, s) \in 1 .. n /\ Position(L, r) \in 1 .. n
        /\ r \in Members(short)
    BY <1>2, <1>4, PositionType
  <2>2. CASE r = p
    BY <1>1, <1>3, <2>1, <2>2
  <2>3. CASE r = s
    BY <2>1, <2>3
  <2>4. CASE r # p /\ r # s
    <3>1. Len(short) # 1
      <4> SUFFICES ASSUME Len(short) = 1 PROVE FALSE
        OBVIOUS
      <4>1. Members(short) = {short[1]}
        BY AloneInList
      <4> QED BY <2>1, <2>4, <4>1
    <3>2. s # p
      BY <1>4, <3>1
    <3>3. Around(short, p, s, r)
      <4>1. /\ Position(short, p) \in 1 .. Len(short) /\ Position(short, r) \in 1 .. Len(short)
            /\ Position(short, s) \in 1 .. Len(short)
            /\ Position(short, s) # Position(short, r) /\ Position(short, p) # Position(short, r)
        BY <1>4, <2>1, <2>4, PositionType, PositionsDiffer
      <4>2. Position(short, s)
              = IF Position(short, p) = Len(short) THEN 1 ELSE Position(short, p) + 1
        BY NextPosition
      <4> HIDE DEF s
      <4> QED BY <4>1, <4>2 DEF Around
    <3>4. Around(long, p, s, r)
      BY <1>4, <2>1, <3>3 DEF SameRing
    <3>5. Around(L, p, s, r)
      BY <1>1, <1>4, <2>1, <3>4, SetHeadKeepsAround
    <3> HIDE DEF L, s, n
    <3> QED BY <1>1, <1>3, <2>1, <3>5 DEF Around
  <2> QED BY <2>2, <2>3, <2>4
<1>7. s \in Members(L) \cap T
  BY <1>2, <1>4, <1>5
<1> HIDE DEF L, s
<1>8. FirstIn(L, T) = s
  BY <1>2, <1>6, <1>7, FirstInIs
<1> QED BY <1>8 DEF L, s

-----------------------------------------------------------------------------
(* The chips and the pots.                                                 *)

\* The remainder by ChipMod is a number of chips.
LEMMA Wraps ==
  ASSUME NEW x \in Int
  PROVE  x % ChipMod \in Chips
  BY ChipModAssumption DEF Chips

\* The arithmetic of chips stays within chips, products with a number of
\* players included.
LEMMA ChipArithmetic ==
  /\ 0 \in Chips
  /\ \A a, b \in Chips : Plus(a, b) \in Chips /\ Minus(a, b) \in Chips
  /\ \A a \in Chips, n \in Nat : Times(a, n) \in Chips /\ Times(n, a) \in Chips
                                 /\ Plus(a, n) \in Chips
<1>1. 0 \in Chips /\ Chips \subseteq Int
  BY ChipModAssumption DEF Chips
<1>2. ASSUME NEW a \in Int, NEW b \in Int
      PROVE  Plus(a, b) \in Chips /\ Minus(a, b) \in Chips /\ Times(a, b) \in Chips
  <2>1. a + b \in Int /\ a - b \in Int /\ a * b \in Int
    OBVIOUS
  <2> QED BY <2>1, Wraps DEF Plus, Minus, Times
<1> QED BY <1>1, <1>2

\* Sets of seats have a natural number of elements.
LEMMA SeatsCounted ==
  ASSUME NEW T \in SUBSET Seats
  PROVE  IsFiniteSet(T) /\ Cardinality(T) \in Nat
  BY SeatsAssumption, FS_Subset, FS_CardinalityType

\* So do sets of open pots, and they have a first and a last one.
LEMMA OpenPotsOrdered ==
  ASSUME NEW P \in AllPots, NEW T \in SUBSET OpenPots(P)
  PROVE  /\ T \subseteq 1 .. Len(P.order)
         /\ Cardinality(T) \in Nat
         /\ T # {} => /\ LastOf(T) \in T /\ BetAt(P, LastOf(T)) \in Chips
                      /\ FirstOf(T) \in T /\ BetAt(P, FirstOf(T)) \in Chips
<1>1. P.order \in Seq(Seats) /\ P.side \in [Seats -> Pot]
  BY DEF AllPots
<1>2. DOMAIN P.order = 1 .. Len(P.order) /\ Len(P.order) \in Nat
  BY <1>1
<1>3. T \subseteq 1 .. Len(P.order)
  BY <1>2 DEF OpenPots
<1>4. Cardinality(T) \in Nat
  <2>1. IsFiniteSet(1 .. Len(P.order))
    BY <1>2, FS_Interval
  <2>2. IsFiniteSet(T)
    BY <1>3, <2>1, FS_Subset
  <2> QED BY <2>2, FS_CardinalityType
<1>5. ASSUME T # {} PROVE LastOf(T) \in T /\ FirstOf(T) \in T
  <2>1. T \subseteq Nat /\ \A j \in T : j <= Len(P.order)
    BY <1>2, <1>3
  <2>2. \E i \in T : \A j \in T : j <= i
    BY <1>2, <1>5, <2>1, GreatestExists
  <2>3. \E i \in T : \A j \in T : i <= j
    BY <1>5, <2>1, LeastExists
  <2> QED BY <2>2, <2>3 DEF LastOf, FirstOf
<1>6. \A i \in T : BetAt(P, i) \in Chips
  BY <1>1, <1>3 DEF BetAt, Pot
<1> QED BY <1>3, <1>4, <1>5, <1>6

\* The bet from which the lowest pot is measured.
LEMMA MainBaseType ==
  ASSUME NEW P \in AllPots
  PROVE  MainBase(P) \in Chips
  BY ChipArithmetic DEF MainBase, AllPots, Pot

\* A fresh pot.
LEMMA NewPotType ==
  ASSUME NEW b \in Chips, NEW players \in SUBSET Seats
  PROVE  NewPot(b, players) \in Pot
  BY ChipArithmetic DEF NewPot, Pot

\* The pots of a new hand.
LEMMA NoPotsType == NoPots \in AllPots /\ NoPot \in Pot
<1>1. NoPot \in Pot
  BY ChipArithmetic, NewPotType DEF NoPot
<1> QED BY <1>1 DEF NoPots, AllPots

\* Replacing the all-in pots by other pots keeps the type.
LEMMA SideType ==
  ASSUME NEW P \in AllPots, NEW Q \in [Seats -> Pot]
  PROVE  [P EXCEPT !.side = Q] \in AllPots
  BY DEF AllPots

\* The fields of the pots.
LEMMA PotsFields ==
  ASSUME NEW P \in AllPots
  PROVE  /\ P.main \in Pot /\ P.betting \in Pot /\ P.hasBetting \in BOOLEAN
         /\ P.order \in Seq(Seats) /\ P.side \in [Seats -> Pot]
  BY DEF AllPots

-----------------------------------------------------------------------------

\* CalculateSidePotTotals.
LEMMA CalculateSidePotTotalsType ==
  ASSUME NEW P \in AllPots
  PROVE  CalculateSidePotTotals(P) \in AllPots
<1> DEFINE Open == OpenPots(P)
           Lower(i) == {j \in Open : j < i}
           PrevBet(i) == IF Lower(i) = {} THEN MainBase(P) ELSE BetAt(P, LastOf(Lower(i)))
           At(s) == {i \in Open : P.order[i] = s}
           Must(s) == Times(Cardinality(At(s)),
                            Times(P.side[s].mustBet, Cardinality(P.side[s].mustPlayers)))
           Gain(s) == Plus(Must(s), Times(Minus(P.side[s].bet, PrevBet(FirstOf(At(s)))),
                                          Cardinality(P.side[s].players)))
<1>1. P.side \in [Seats -> Pot]
  BY PotsFields
<1>2. ASSUME NEW i \in Open PROVE PrevBet(i) \in Chips
  <2>1. Lower(i) \in SUBSET Open
    OBVIOUS
  <2> QED BY <2>1, OpenPotsOrdered, MainBaseType
<1>3. ASSUME NEW s \in Seats, At(s) # {} PROVE Plus(P.side[s].total, Gain(s)) \in Chips
  <2>1. FirstOf(At(s)) \in Open /\ Cardinality(At(s)) \in Nat
    BY <1>3, OpenPotsOrdered
  <2>2. PrevBet(FirstOf(At(s))) \in Chips
    BY <1>2, <2>1
  <2> HIDE DEF PrevBet, At
  <2>3. /\ P.side[s].mustBet \in Chips /\ P.side[s].bet \in Chips /\ P.side[s].total \in Chips
        /\ Cardinality(P.side[s].mustPlayers) \in Nat /\ Cardinality(P.side[s].players) \in Nat
    BY <1>1, SeatsCounted DEF Pot
  <2>4. Must(s) \in Chips
    BY <2>1, <2>3, ChipArithmetic
  <2>5. Gain(s) \in Chips
    BY <2>2, <2>3, <2>4, ChipArithmetic
  <2> QED BY <2>3, <2>5, ChipArithmetic
<1> DEFINE Q == [s \in Seats |-> IF At(s) = {} THEN P.side[s]
                                 ELSE [P.side[s] EXCEPT !.total = Plus(P.side[s].total, Gain(s))]]
<1>4. CalculateSidePotTotals(P) = [P EXCEPT !.side = Q]
  BY DEF CalculateSidePotTotals
<1> HIDE DEF Gain, At
<1>5. Q \in [Seats -> Pot]
  BY <1>1, <1>3 DEF Pot
<1> QED BY <1>4, <1>5, SideType

\* CloseSidePots.
LEMMA CloseSidePotsType ==
  ASSUME NEW P \in AllPots
  PROVE  CloseSidePots(P) \in AllPots
  BY ChipArithmetic DEF CloseSidePots, AllPots, Pot

\* What a turn that ends the street does to the pots.
LEMMA PotsClosedType ==
  ASSUME NEW P \in AllPots
  PROVE  CloseSidePots(CalculateSidePotTotals(P)) \in AllPots
  BY CalculateSidePotTotalsType, CloseSidePotsType

\* PublicInfo.
LEMMA PublicInfoType ==
  ASSUME NEW P \in AllPots
  PROVE  PublicInfo(P) \in AllPots
  BY DEF PublicInfo, AllPots, Pot

-----------------------------------------------------------------------------
(* handleSidePots.                                                         *)

\* The fields of a step.
LEMMA StepFields ==
  ASSUME NEW h \in Step
  PROVE  /\ h.player \in Seats /\ h.ahead \in SUBSET Seats
         /\ h.amount \in Chips /\ h.prev \in Chips /\ h.full \in Chips /\ h.bet \in Chips
  BY DEF Step

\* The first side pot.
LEMMA FirstSidePotType ==
  ASSUME NEW P \in AllPots, NEW h \in Step
  PROVE  FirstSidePot(P, h) \in AllPots
<1> DEFINE over   == Minus(h.bet, h.amount)
           called == IF over = 0 THEN {} ELSE h.ahead
           moved  == Times(over, Cardinality(called))
           total  == Plus(Minus(Minus(P.main.total, h.prev), moved), h.amount)
<1>1. over \in Chips /\ called \in SUBSET Seats
  BY StepFields, ChipArithmetic
<1>2. moved \in Chips
  BY <1>1, SeatsCounted, ChipArithmetic
<1>3. total \in Chips
  <2>1. P.main.total \in Chips
    BY PotsFields DEF Pot
  <2> HIDE DEF moved
  <2> QED BY <1>2, <2>1, StepFields, ChipArithmetic
<1> DEFINE main == [P.main EXCEPT !.bet = h.amount, !.total = total,
                                  !.players = @ \cup {h.player}]
           betting == [NewPot(over, called) EXCEPT !.total = moved]
<1>4. main \in Pot
  BY <1>3, PotsFields, StepFields DEF Pot
<1>5. betting \in Pot
  BY <1>1, <1>2, NewPotType DEF Pot
<1>6. FirstSidePot(P, h) = [P EXCEPT !.main = main, !.betting = betting, !.hasBetting = TRUE]
  BY PotsFields DEF FirstSidePot, Pot, AllPots
<1> HIDE DEF main, betting
<1> QED BY <1>4, <1>5, <1>6 DEF AllPots

\* An all-in below the main pot's bet.
LEMMA SplitMainPotType ==
  ASSUME NEW P \in AllPots, NEW h \in Step
  PROVE  SplitMainPot(P, h) \in AllPots
<1> DEFINE back == Times(Minus(P.main.bet, h.amount), Cardinality(P.main.players))
           total == Plus(Minus(P.main.total, back), Minus(h.amount, h.prev))
<1>1. /\ P.main.bet \in Chips /\ P.main.total \in Chips
      /\ P.main.players \in SUBSET Seats /\ Cardinality(P.main.players) \in Nat
  BY PotsFields, SeatsCounted DEF Pot
<1>2. back \in Chips
  BY <1>1, StepFields, ChipArithmetic
<1>3. total \in Chips
  <2> HIDE DEF back
  <2> QED BY <1>1, <1>2, StepFields, ChipArithmetic
<1> DEFINE main == [P.main EXCEPT !.bet = h.amount, !.total = total,
                                  !.players = @ \cup {h.player}]
           side == [P.side EXCEPT ![h.player] = NewPot(P.main.bet, P.main.players)]
           order == << h.player >> \o P.order
<1>4. main \in Pot
  BY <1>3, PotsFields, StepFields DEF Pot
<1>5. side \in [Seats -> Pot]
  BY <1>1, PotsFields, NewPotType
<1>6. order \in Seq(Seats)
  BY PotsFields, StepFields
<1>7. SplitMainPot(P, h) = [P EXCEPT !.main = main, !.order = order, !.side = side]
  BY PotsFields DEF SplitMainPot, Pot, AllPots
<1> HIDE DEF main, order, side
<1> QED BY <1>4, <1>5, <1>6, <1>7 DEF AllPots

\* An all-in of the main pot's bet.
LEMMA JoinMainPotType ==
  ASSUME NEW P \in AllPots, NEW h \in Step
  PROVE  JoinMainPot(P, h) \in AllPots
<1>1. P.main.bet \in Chips /\ P.main.total \in Chips /\ P.main.players \in SUBSET Seats
  BY PotsFields DEF Pot
<1>2. Plus(P.main.total, Minus(P.main.bet, h.prev)) \in Chips
  BY <1>1, StepFields, ChipArithmetic
<1> DEFINE main == [P.main EXCEPT !.players = @ \cup {h.player},
                                  !.total = Plus(P.main.total, Minus(P.main.bet, h.prev))]
<1>3. main \in Pot
  BY <1>2, PotsFields, StepFields DEF Pot
<1>4. JoinMainPot(P, h) = [P EXCEPT !.main = main]
  BY PotsFields DEF JoinMainPot, AllPots, Pot
<1> HIDE DEF main
<1> QED BY <1>3, <1>4 DEF AllPots

\* The open pots that an all-in joins.
LEMMA JoinLowerPotsType ==
  ASSUME NEW P \in AllPots, NEW h \in Step
  PROVE  JoinLowerPots(P, h) \in AllPots
<1> DEFINE Joined == {i \in OpenPots(P) :
                        /\ BetAt(P, i) <= h.amount
                        /\ \A j \in OpenPots(P) : j < i => BetAt(P, j) < h.amount}
           Join(pot) == [AddTo(pot, h.player) EXCEPT
                           !.mustPlayers = IF P.main.closed THEN @ \ {h.player} ELSE @]
           side == [s \in Seats |-> IF \E i \in Joined : P.order[i] = s
                                    THEN Join(P.side[s]) ELSE P.side[s]]
<1>1. \A pot \in Pot : Join(pot) \in Pot
  BY StepFields DEF AddTo, Pot
<1>2. side \in [Seats -> Pot]
  <2> HIDE DEF Joined, Join
  <2> QED BY <1>1, PotsFields
<1>3. JoinLowerPots(P, h) = [P EXCEPT !.side = side]
  BY DEF JoinLowerPots
<1> HIDE DEF side
<1> QED BY <1>2, <1>3, SideType

\* An all-in above all the open pots.
LEMMA AddLargestPotType ==
  ASSUME NEW P \in AllPots, NEW h \in Step
  PROVE  AddLargestPot(P, h) \in AllPots
<1> DEFINE Open == OpenPots(P)
           base == IF Open = {} THEN MainBase(P) ELSE BetAt(P, LastOf(Open))
           diff == Minus(h.amount, base)
           b    == P.betting
           above == diff > b.bet
           pot == IF above
                  THEN [NewPot(h.amount, {h.player}) EXCEPT
                          !.mustBet = b.bet,
                          !.mustPlayers = IF b.bet = 0 THEN {} ELSE b.players]
                  ELSE NewPot(h.amount, b.players \cup {h.player})
           total == Minus(b.total, Times(diff, Cardinality(b.players)))
           rest == IF above THEN NoPot
                   ELSE [b EXCEPT !.bet = Minus(b.bet, diff), !.total = total]
           order == Append(P.order, h.player)
           side == [P.side EXCEPT ![h.player] = pot]
<1>1. base \in Chips
  BY OpenPotsOrdered, MainBaseType
<1>2. diff \in Chips
  <2> HIDE DEF base
  <2> QED BY <1>1, StepFields, ChipArithmetic
<1>3. /\ b \in Pot /\ b.bet \in Chips /\ b.total \in Chips
      /\ b.players \in SUBSET Seats /\ Cardinality(b.players) \in Nat
  BY PotsFields, SeatsCounted DEF Pot
<1>4. total \in Chips /\ Minus(b.bet, diff) \in Chips
  <2> HIDE DEF diff, b
  <2> QED BY <1>2, <1>3, ChipArithmetic
<1>5. AddLargestPot(P, h) = [P EXCEPT !.order = order, !.side = side, !.betting = rest]
  BY DEF AddLargestPot
<1> HIDE DEF total, diff, b, above
<1>6. rest \in Pot
  BY <1>3, <1>4, NoPotsType DEF Pot
<1>7. pot \in Pot
  <2>1. NewPot(h.amount, {h.player}) \in Pot /\ NewPot(h.amount, b.players \cup {h.player}) \in Pot
    BY <1>3, StepFields, NewPotType
  <2> QED BY <1>3, <2>1 DEF Pot
<1> HIDE DEF pot, rest
<1>8. side \in [Seats -> Pot] /\ order \in Seq(Seats)
  BY <1>7, PotsFields, StepFields
<1> HIDE DEF side, order
<1> QED BY <1>5, <1>6, <1>8 DEF AllPots

\* A pot is inserted in front of the k-th.
LEMMA InsertPotType ==
  ASSUME NEW P \in AllPots, NEW h \in Step, NEW k \in 1 .. Len(P.order)
  PROVE  InsertPot(P, h, k) \in AllPots
<1> DEFINE Larger == {P.order[i] : i \in k .. Len(P.order)}
           players == P.betting.players \cup {h.player} \cup UNION {P.side[s].players : s \in Larger}
           order == Insert(P.order, h.player, k)
           side == [P.side EXCEPT ![h.player] = NewPot(h.amount, players)]
<1>1. P.order \in Seq(Seats) /\ P.side \in [Seats -> Pot] /\ h.player \in Seats
  BY PotsFields, StepFields
<1>2. players \in SUBSET Seats
  <2>1. Larger \in SUBSET Seats
    BY <1>1
  <2>2. P.betting.players \in SUBSET Seats /\ \A s \in Seats : P.side[s].players \in SUBSET Seats
    BY <1>1, PotsFields DEF Pot
  <2> HIDE DEF Larger
  <2> QED BY <1>1, <2>1, <2>2
<1>3. side \in [Seats -> Pot]
  <2> HIDE DEF players
  <2> QED BY <1>1, <1>2, StepFields, NewPotType
<1>4. order \in Seq(Seats)
  <2>1. << h.player >> \o P.order \in Seq(Seats)
    BY <1>1
  <2>2. SubSeq(P.order, 1, k - 1) \in Seq(Seats) /\ SubSeq(P.order, k + 1, Len(P.order)) \in Seq(Seats)
    BY <1>1
  <2>3. SubSeq(P.order, 1, k - 1) \o << h.player, h.player >> \o SubSeq(P.order, k + 1, Len(P.order))
          \in Seq(Seats)
    BY <1>1, <2>2
  <2> QED BY <2>1, <2>3 DEF Insert
<1>5. InsertPot(P, h, k) = [P EXCEPT !.order = order, !.side = side]
  BY DEF InsertPot
<1> HIDE DEF order, side
<1> QED BY <1>3, <1>4, <1>5 DEF AllPots

\* An all-in above the main pot.
LEMMA AllInPotsType ==
  ASSUME NEW P \in AllPots, NEW h \in Step
  PROVE  AllInPots(P, h) \in AllPots
<1> DEFINE Q == JoinLowerPots(P, h)
           Reached == {i \in OpenPots(P) : BetAt(P, i) >= h.amount}
<1>1. Q \in AllPots /\ AddLargestPot(Q, h) \in AllPots
  BY JoinLowerPotsType, AddLargestPotType
<1>2. ASSUME Reached # {} PROVE FirstOf(Reached) \in 1 .. Len(Q.order)
  <2>1. Q.order = P.order
    BY DEF JoinLowerPots, AllPots
  <2>2. Reached \in SUBSET OpenPots(P)
    OBVIOUS
  <2>3. FirstOf(Reached) \in Reached /\ Reached \subseteq 1 .. Len(P.order)
    BY <1>2, <2>2, OpenPotsOrdered
  <2> QED BY <2>1, <2>3
<1> HIDE DEF Q, Reached
<1>3. Reached # {} => InsertPot(Q, h, FirstOf(Reached)) \in AllPots
  BY <1>1, <1>2, InsertPotType
<1> QED BY <1>1, <1>3 DEF AllInPots, Q, Reached

\* An all-in while side pots exist.
LEMMA LaterAllInType ==
  ASSUME NEW P \in AllPots, NEW h \in Step
  PROVE  LaterAllIn(P, h) \in AllPots
  BY SplitMainPotType, JoinMainPotType, AllInPotsType DEF LaterAllIn

\* A bet or a call while side pots exist.
LEMMA BetOrCallType ==
  ASSUME NEW P \in AllPots, NEW h \in Step
  PROVE  BetOrCall(P, h) \in AllPots
<1> DEFINE p == h.player
           joins == ~P.main.closed /\ p \notin P.main.players
           share == IF P.main.bet > h.prev THEN Minus(P.main.bet, h.prev) ELSE P.main.bet
           bet == IF h.kind = "Call" THEN P.betting.bet
                  ELSE IF Reraises(P, h) THEN Minus(h.amount, BelowBettingPot(P)) ELSE h.amount
           Join(pot) == [AddTo(pot, p) EXCEPT !.mustPlayers = @ \ {p}]
           main == IF joins THEN [AddTo(P.main, p) EXCEPT !.total = Plus(P.main.total, share)]
                   ELSE P.main
           betting == [AddTo(P.betting, p) EXCEPT !.bet = bet, !.total = Plus(P.betting.total, bet)]
           side == [s \in Seats |-> IF \E i \in OpenPots(P) : P.order[i] = s
                                    THEN Join(P.side[s]) ELSE P.side[s]]
<1>1. /\ P.main.bet \in Chips /\ P.main.total \in Chips
      /\ P.betting.bet \in Chips /\ P.betting.total \in Chips
  BY PotsFields DEF Pot
<1>2. share \in Chips
  BY <1>1, StepFields, ChipArithmetic
<1>3. BelowBettingPot(P) \in Chips
  <2> DEFINE Lower == {i \in OpenPots(P) : BetAt(P, i) < P.betting.bet}
             below == IF Lower = {} THEN 0 ELSE BetAt(P, LastOf(Lower))
  <2>1. Lower \in SUBSET OpenPots(P)
    OBVIOUS
  <2>2. below \in Chips
    BY <2>1, OpenPotsOrdered, ChipArithmetic
  <2> HIDE DEF Lower
  <2> QED BY <2>2, MainBaseType DEF BelowBettingPot, Lower
<1>4. bet \in Chips
  BY <1>1, <1>3, StepFields, ChipArithmetic
<1> HIDE DEF share, bet
<1>5. main \in Pot
  <2>1. Plus(P.main.total, share) \in Chips
    BY <1>1, <1>2, ChipArithmetic
  <2> QED BY <2>1, PotsFields, StepFields DEF AddTo, Pot
<1>6. betting \in Pot
  <2>1. Plus(P.betting.total, bet) \in Chips
    BY <1>1, <1>4, ChipArithmetic
  <2> QED BY <1>4, <2>1, PotsFields, StepFields DEF AddTo, Pot
<1>7. side \in [Seats -> Pot]
  <2>1. \A pot \in Pot : Join(pot) \in Pot
    BY StepFields DEF AddTo, Pot
  <2> HIDE DEF Join
  <2> QED BY <2>1, PotsFields
<1>8. BetOrCall(P, h) = [P EXCEPT !.main = main, !.betting = betting, !.side = side]
  BY PotsFields DEF BetOrCall, AddTo, Pot, AllPots, bet, share
<1> HIDE DEF main, betting, side
<1> QED BY <1>5, <1>6, <1>7, <1>8 DEF AllPots

\* Whatever the pots and the step are, handleSidePots leaves pots.
THEOREM HandleSidePotsType ==
  ASSUME NEW P \in AllPots, NEW h \in Step
  PROVE  HandleSidePots(P, h) \in AllPots
  BY FirstSidePotType, LaterAllInType, BetOrCallType DEF HandleSidePots

-----------------------------------------------------------------------------
(* The open pots stay in the order of their bets.                          *)

\* A hand without all-in pots.
LEMMA NoneStacked ==
  ASSUME NEW P, P.order = << >>
  PROVE  Stacked(P)
<1>1. OpenPots(P) = {}
  BY DEF OpenPots
<1> QED BY <1>1 DEF Stacked, Ordered

\* What changes neither the order of the pots nor their bets, and opens none.
LEMMA SameBets ==
  ASSUME NEW P \in AllPots, Stacked(P), NEW Q \in AllPots, Q.order = P.order,
         \A s \in Seats : Q.side[s].bet = P.side[s].bet /\ (P.side[s].closed => Q.side[s].closed),
         ~Q.main.closed => ~P.main.closed /\ Q.main.bet = P.main.bet
  PROVE  Stacked(Q)
<1>1. P.order \in Seq(Seats)
  BY PotsFields
<1>2. \A i \in DOMAIN P.order : P.order[i] \in Seats
  BY <1>1
<1>3. \A i \in OpenPots(Q) : i \in OpenPots(P) /\ BetAt(Q, i) = BetAt(P, i)
  BY <1>2 DEF OpenPots, BetAt
<1>4. Ordered(Q)
  BY <1>3 DEF Stacked, Ordered
<1> QED BY <1>3, <1>4 DEF Stacked

\* A pot of seat s is put between the others: src is where those were before.
LEMMA WithNewPot ==
  ASSUME NEW P \in AllPots, Stacked(P), NEW Q \in AllPots, NEW s \in Seats,
         s \notin Members(P.order),
         \A q \in Seats \ {s} : Q.side[q] = P.side[q],
         ~Q.main.closed => /\ Q.main.bet < Q.side[s].bet
                           /\ \A i \in OpenPots(P) : Q.main.bet < BetAt(P, i),
         NEW src \in [DOMAIN Q.order -> Int],
         \A i \in DOMAIN Q.order :
           Q.order[i] = s \/ (src[i] \in DOMAIN P.order /\ Q.order[i] = P.order[src[i]]),
         \A i, j \in DOMAIN Q.order :
           i < j /\ Q.order[i] # s /\ Q.order[j] # s => src[i] < src[j],
         \A i, j \in DOMAIN Q.order :
           Q.order[i] = s /\ Q.order[j] # s /\ src[j] \in OpenPots(P) =>
             /\ i < j => Q.side[s].bet < BetAt(P, src[j])
             /\ j < i => BetAt(P, src[j]) < Q.side[s].bet
  PROVE  Stacked(Q)
<1>1. P.order \in Seq(Seats)
  BY PotsFields
<1>2. ASSUME NEW i \in OpenPots(Q), Q.order[i] # s
      PROVE  src[i] \in OpenPots(P) /\ BetAt(Q, i) = BetAt(P, src[i]) /\ Q.order[i] = P.order[src[i]]
  <2>1. i \in DOMAIN Q.order /\ ~Q.side[Q.order[i]].closed
    BY DEF OpenPots
  <2>2. src[i] \in DOMAIN P.order /\ Q.order[i] = P.order[src[i]]
    BY <1>2, <2>1
  <2>3. Q.order[i] \in Seats \ {s}
    BY <1>1, <1>2, <2>2
  <2> QED BY <2>1, <2>2, <2>3 DEF OpenPots, BetAt
<1>3. \A i \in OpenPots(Q) : i \in DOMAIN Q.order /\ i \in Int
  BY PotsFields DEF OpenPots
<1>4. Ordered(Q)
  <2> SUFFICES ASSUME NEW i \in OpenPots(Q), NEW j \in OpenPots(Q), i < j
               PROVE  BetAt(Q, i) < BetAt(Q, j) \/ Q.order[i] = Q.order[j]
    BY DEF Ordered
  <2>1. CASE Q.order[i] # s /\ Q.order[j] # s
    <3>1. src[i] < src[j]
      BY <1>3, <2>1
    <3> QED BY <1>2, <2>1, <3>1 DEF Stacked, Ordered
  <2>2. CASE Q.order[i] = s /\ Q.order[j] # s
    <3>1. BetAt(Q, i) = Q.side[s].bet
      BY <2>2 DEF BetAt
    <3> QED BY <1>2, <1>3, <2>2, <3>1
  <2>3. CASE Q.order[i] # s /\ Q.order[j] = s
    <3>1. BetAt(Q, j) = Q.side[s].bet
      BY <2>3 DEF BetAt
    <3> QED BY <1>2, <1>3, <2>3, <3>1
  <2> QED BY <2>1, <2>2, <2>3
<1>5. ASSUME ~Q.main.closed, NEW i \in OpenPots(Q) PROVE Q.main.bet < BetAt(Q, i)
  <2>1. CASE Q.order[i] = s
    BY <1>5, <2>1 DEF BetAt
  <2>2. CASE Q.order[i] # s
    BY <1>2, <1>5, <2>2
  <2> QED BY <2>1, <2>2
<1> QED BY <1>4, <1>5 DEF Stacked

\* The totals, the end of a street and the copy for the clients.
LEMMA TotalsStacked ==
  ASSUME NEW P \in AllPots, Stacked(P)
  PROVE  /\ Stacked(CalculateSidePotTotals(P)) /\ Stacked(CloseSidePots(P)) /\ Stacked(PublicInfo(P))
         /\ CalculateSidePotTotals(P).order = P.order /\ CloseSidePots(P).order = P.order
         /\ PublicInfo(P).order = P.order
<1>1. /\ CalculateSidePotTotals(P).order = P.order
      /\ CalculateSidePotTotals(P).main = P.main
      /\ \A s \in Seats : /\ CalculateSidePotTotals(P).side[s].bet = P.side[s].bet
                          /\ CalculateSidePotTotals(P).side[s].closed = P.side[s].closed
  BY PotsFields DEF CalculateSidePotTotals, AllPots, Pot
<1>2. /\ CloseSidePots(P).order = P.order
      /\ CloseSidePots(P).main.closed \/ CloseSidePots(P).main = P.main
      /\ \A s \in Seats : /\ CloseSidePots(P).side[s].bet = P.side[s].bet
                          /\ P.side[s].closed => CloseSidePots(P).side[s].closed
  BY PotsFields DEF CloseSidePots, AllPots, Pot
<1>3. /\ PublicInfo(P).order = P.order /\ PublicInfo(P).side = P.side
      /\ PublicInfo(P).main.closed = P.main.closed /\ PublicInfo(P).main.bet = P.main.bet
  BY PotsFields DEF PublicInfo, AllPots, Pot
<1>4. Stacked(CalculateSidePotTotals(P))
  BY <1>1, CalculateSidePotTotalsType, SameBets
<1>5. Stacked(CloseSidePots(P))
  BY <1>2, CloseSidePotsType, SameBets
<1>6. Stacked(PublicInfo(P))
  BY <1>3, PublicInfoType, SameBets
<1> QED BY <1>1, <1>2, <1>3, <1>4, <1>5, <1>6

\* An all-in below the main pot: what the main pot was goes below the others.
LEMMA SplitMainPotStacked ==
  ASSUME NEW P \in AllPots, Stacked(P), NEW h \in Step, h.player \notin Members(P.order),
         ~P.main.closed, h.amount < P.main.bet
  PROVE  /\ Stacked(SplitMainPot(P, h))
         /\ Members(SplitMainPot(P, h).order) \subseteq Members(P.order) \cup {h.player}
<1> DEFINE Q == SplitMainPot(P, h)
           p == h.player
           src == [i \in DOMAIN Q.order |-> i - 1]
<1>1. Q \in AllPots /\ p \in Seats /\ P.order \in Seq(Seats)
  BY SplitMainPotType, StepFields, PotsFields
<1>2. /\ Q.order = << p >> \o P.order /\ Q.main.bet = h.amount
      /\ Q.side = [P.side EXCEPT ![p] = NewPot(P.main.bet, P.main.players)]
  BY PotsFields DEF SplitMainPot, AllPots, Pot
<1>3. Q.side[p].bet = P.main.bet /\ \A q \in Seats \ {p} : Q.side[q] = P.side[q]
  BY <1>1, <1>2, PotsFields DEF NewPot
<1>4. /\ Len(Q.order) = Len(P.order) + 1 /\ Len(P.order) \in Nat
      /\ DOMAIN Q.order = 1 .. Len(P.order) + 1 /\ DOMAIN P.order = 1 .. Len(P.order)
      /\ Q.order[1] = p /\ \A i \in 2 .. Len(P.order) + 1 : Q.order[i] = P.order[i - 1]
  BY <1>1, <1>2
<1>5. \A i \in DOMAIN Q.order : Q.order[i] = p \/ (i - 1 \in DOMAIN P.order /\ Q.order[i] = P.order[i - 1])
  BY <1>4
<1>6. \A i \in 2 .. Len(P.order) + 1 : Q.order[i] # p
  BY <1>1, <1>4 DEF Members
<1>7. \A i \in OpenPots(P) : P.main.bet < BetAt(P, i) /\ BetAt(P, i) \in Nat
  <2>1. \A i \in OpenPots(P) : BetAt(P, i) \in Chips
    BY PotsFields DEF OpenPots, BetAt, Pot
  <2> QED BY <2>1, ChipModAssumption DEF Stacked, Chips
<1>8. h.amount \in Nat /\ P.main.bet \in Nat
  BY PotsFields, StepFields, ChipModAssumption DEF Pot, Chips
<1> HIDE DEF Q
<1>9. Stacked(Q)
  <2>1. src \in [DOMAIN Q.order -> Int]
    BY <1>4
  <2>2. \A i, j \in DOMAIN Q.order : i < j => src[i] < src[j]
    BY <1>4
  <2>3. \A i \in DOMAIN Q.order :
           Q.order[i] = p \/ (src[i] \in DOMAIN P.order /\ Q.order[i] = P.order[src[i]])
    BY <1>5
  <2>4. \A i, j \in DOMAIN Q.order : Q.order[i] = p /\ Q.order[j] # p => i = 1 /\ i < j
    BY <1>4, <1>6
  <2>5. \A i, j \in DOMAIN Q.order : i < j => ~(j < i)
    BY <1>4
  <2>6. Q.main.bet < Q.side[p].bet /\ \A i \in OpenPots(P) : Q.main.bet < BetAt(P, i)
    BY <1>2, <1>3, <1>7, <1>8
  <2> HIDE DEF src
  <2> QED BY <1>1, <1>3, <1>7, <2>1, <2>2, <2>3, <2>4, <2>5, <2>6, WithNewPot
<1>10. Members(Q.order) \subseteq Members(P.order) \cup {p}
  BY <1>5 DEF Members
<1> QED BY <1>9, <1>10 DEF Q
\* Who joins the main pot or the open pots leaves their bets as they were.
LEMMA JoinsStacked ==
  ASSUME NEW P \in AllPots, Stacked(P), NEW h \in Step
  PROVE  /\ Stacked(JoinMainPot(P, h)) /\ Stacked(JoinLowerPots(P, h)) /\ Stacked(BetOrCall(P, h))
         /\ JoinMainPot(P, h).order = P.order /\ JoinLowerPots(P, h).order = P.order
         /\ BetOrCall(P, h).order = P.order
<1>1. /\ JoinMainPot(P, h).order = P.order /\ JoinMainPot(P, h).side = P.side
      /\ JoinMainPot(P, h).main.closed = P.main.closed /\ JoinMainPot(P, h).main.bet = P.main.bet
  BY PotsFields DEF JoinMainPot, AllPots, Pot
<1>2. /\ JoinLowerPots(P, h).order = P.order /\ JoinLowerPots(P, h).main = P.main
      /\ \A s \in Seats : /\ JoinLowerPots(P, h).side[s].bet = P.side[s].bet
                          /\ JoinLowerPots(P, h).side[s].closed = P.side[s].closed
  BY PotsFields DEF JoinLowerPots, AddTo, AllPots, Pot
<1>3. /\ BetOrCall(P, h).order = P.order
      /\ BetOrCall(P, h).main.closed = P.main.closed /\ BetOrCall(P, h).main.bet = P.main.bet
      /\ \A s \in Seats : /\ BetOrCall(P, h).side[s].bet = P.side[s].bet
                          /\ BetOrCall(P, h).side[s].closed = P.side[s].closed
  BY PotsFields DEF BetOrCall, AddTo, AllPots, Pot
<1>4. Stacked(JoinMainPot(P, h))
  BY <1>1, JoinMainPotType, SameBets
<1>5. Stacked(JoinLowerPots(P, h))
  BY <1>2, JoinLowerPotsType, SameBets
<1>6. Stacked(BetOrCall(P, h))
  BY <1>3, BetOrCallType, SameBets
<1> QED BY <1>1, <1>2, <1>3, <1>4, <1>5, <1>6

\* The bets of the open pots are natural numbers.
LEMMA BetsNatural ==
  ASSUME NEW P \in AllPots, NEW h \in Step
  PROVE  /\ \A i \in OpenPots(P) : BetAt(P, i) \in Nat
         /\ h.amount \in Nat /\ P.main.bet \in Nat
<1>1. \A i \in OpenPots(P) : BetAt(P, i) \in Chips
  BY PotsFields DEF OpenPots, BetAt, Pot
<1> QED BY <1>1, PotsFields, StepFields, ChipModAssumption DEF Pot, Chips

\* An all-in above all the open pots goes on top of them.
LEMMA AddLargestPotStacked ==
  ASSUME NEW P \in AllPots, Stacked(P), NEW h \in Step, h.player \notin Members(P.order),
         ~P.main.closed => P.main.bet < h.amount,
         \A i \in OpenPots(P) : BetAt(P, i) < h.amount
  PROVE  /\ Stacked(AddLargestPot(P, h))
         /\ Members(AddLargestPot(P, h).order) \subseteq Members(P.order) \cup {h.player}
<1> DEFINE Q == AddLargestPot(P, h)
           p == h.player
           src == [i \in DOMAIN Q.order |-> i]
<1>1. Q \in AllPots /\ p \in Seats /\ P.order \in Seq(Seats)
  BY AddLargestPotType, StepFields, PotsFields
<1>2. Q.order = Append(P.order, p) /\ Q.main = P.main
  BY PotsFields DEF AddLargestPot, AllPots
<1>3. Q.side[p].bet = h.amount /\ \A q \in Seats \ {p} : Q.side[q] = P.side[q]
  BY <1>1, PotsFields DEF AddLargestPot, AllPots, NewPot
<1> HIDE DEF Q
<1>4. /\ Len(P.order) \in Nat
      /\ DOMAIN Q.order = 1 .. Len(P.order) + 1 /\ DOMAIN P.order = 1 .. Len(P.order)
      /\ Q.order[Len(P.order) + 1] = p /\ \A i \in 1 .. Len(P.order) : Q.order[i] = P.order[i]
  BY <1>1, <1>2
<1>5. \A i \in DOMAIN Q.order : Q.order[i] = p \/ (i \in DOMAIN P.order /\ Q.order[i] = P.order[i])
  BY <1>4
<1>6. \A i \in 1 .. Len(P.order) : Q.order[i] # p
  BY <1>1, <1>4 DEF Members
<1>7. Stacked(Q)
  <2>1. src \in [DOMAIN Q.order -> Int]
    BY <1>4
  <2>2. \A i, j \in DOMAIN Q.order : i < j => src[i] < src[j]
    OBVIOUS
  <2>3. \A i \in DOMAIN Q.order :
           Q.order[i] = p \/ (src[i] \in DOMAIN P.order /\ Q.order[i] = P.order[src[i]])
    BY <1>5
  <2>4. \A i, j \in DOMAIN Q.order : Q.order[i] = p /\ Q.order[j] # p => ~(i < j)
    BY <1>4, <1>6
  <2>5. ~Q.main.closed => /\ Q.main.bet < Q.side[p].bet
                          /\ \A i \in OpenPots(P) : Q.main.bet < BetAt(P, i)
    BY <1>2, <1>3 DEF Stacked
  <2> HIDE DEF src
  <2> QED BY <1>1, <1>3, <2>1, <2>2, <2>3, <2>4, <2>5, WithNewPot
<1>8. Members(Q.order) \subseteq Members(P.order) \cup {p}
  BY <1>5 DEF Members
<1> QED BY <1>7, <1>8 DEF Q

\* The list with a name inserted at position k: in front of the first name, or
\* twice in the place of the k-th.
LEMMA InsertIs ==
  ASSUME NEW order \in Seq(Seats), NEW s \in Seats, NEW k \in 1 .. Len(order)
  PROVE  LET o == Insert(order, s, k)
             after == IF k = 1 THEN 1 ELSE k + 1
         IN  /\ DOMAIN o = 1 .. Len(order) + 1 /\ k <= after /\ after \in Nat
             /\ \A i \in 1 .. Len(order) + 1 :
                  o[i] = IF i < k THEN order[i] ELSE IF i <= after THEN s ELSE order[i - 1]
<1> DEFINE n == Len(order)
<1>1. n \in Nat /\ k \in 1 .. n /\ DOMAIN order = 1 .. n
  OBVIOUS
<1>2. CASE k = 1
  <2>1. Insert(order, s, k) = << s >> \o order
    BY <1>2 DEF Insert
  <2>2. /\ Len(<< s >> \o order) = n + 1 /\ DOMAIN (<< s >> \o order) = 1 .. n + 1
        /\ \A i \in 1 .. n + 1 : (<< s >> \o order)[i] = IF i <= 1 THEN s ELSE order[i - 1]
    BY <1>1
  <2> QED BY <1>1, <1>2, <2>1, <2>2
<1>3. CASE k # 1
  <2> DEFINE low == SubSeq(order, 1, k - 1)
             high == SubSeq(order, k + 1, n)
             two == << s, s >>
  <2>1. Insert(order, s, k) = low \o two \o high
    BY <1>3 DEF Insert
  <2>2. low \in Seq(Seats) /\ Len(low) = k - 1 /\ \A i \in 1 .. k - 1 : low[i] = order[i]
    <3>1. \A i \in 1 .. k - 1 : order[i] \in Seats
      BY <1>1
    <3> QED BY <1>1, <3>1, SubSeqProperties
  <2>3. high \in Seq(Seats) /\ Len(high) = n - k /\ \A i \in 1 .. n - k : high[i] = order[i + k]
    <3>1. \A i \in k + 1 .. n : order[i] \in Seats
      BY <1>1
    <3>2. k + 1 \in Int /\ n \in Int
      BY <1>1
    <3>3. /\ high \in Seq(Seats) /\ Len(high) = IF k + 1 <= n THEN n - (k + 1) + 1 ELSE 0
          /\ \A i \in 1 .. n - (k + 1) + 1 : high[i] = order[k + 1 + i - 1]
      BY <3>1, <3>2, SubSeqProperties
    <3> HIDE DEF high
    <3>4. Len(high) = n - k
      <4>1. \A m \in Nat : \A j \in 1 .. m : (j + 1 <= m => m - (j + 1) + 1 = m - j)
                                             /\ (~(j + 1 <= m) => m - j = 0)
        OBVIOUS
      <4>2. (k + 1 <= n => n - (k + 1) + 1 = n - k) /\ (~(k + 1 <= n) => n - k = 0)
        BY <1>1, <4>1
      <4> QED BY <3>3, <4>2
    <3>5. ASSUME NEW i \in 1 .. n - k PROVE high[i] = order[i + k]
      <4>1. k + 1 + i - 1 = i + k /\ i \in 1 .. n - (k + 1) + 1
        BY <1>1
      <4>2. high[i] = order[k + 1 + i - 1]
        BY <3>3, <4>1
      <4> QED BY <4>1, <4>2
    <3> QED BY <3>3, <3>4, <3>5
  <2>4. two \in Seq(Seats) /\ Len(two) = 2 /\ two[1] = s /\ two[2] = s
    OBVIOUS
  <2> HIDE DEF low, high, two
  <2> DEFINE head == low \o two
  <2>5. /\ head \in Seq(Seats) /\ Len(head) = k + 1
        /\ \A i \in 1 .. k + 1 : head[i] = IF i < k THEN order[i] ELSE s
    <3>1. /\ head \in Seq(Seats) /\ Len(head) = Len(low) + Len(two)
          /\ \A i \in 1 .. Len(low) + Len(two) :
               head[i] = IF i <= Len(low) THEN low[i] ELSE two[i - Len(low)]
      BY <2>2, <2>4, ConcatProperties
    <3> HIDE DEF head
    <3>2. \A i \in 1 .. k + 1 : i < k \/ i - (k - 1) = 1 \/ i - (k - 1) = 2
      BY <1>1
    <3> QED BY <1>1, <2>2, <2>4, <3>1, <3>2
  <2> HIDE DEF head
  <2>6. /\ head \o high \in Seq(Seats) /\ Len(head \o high) = n + 1
        /\ \A i \in 1 .. n + 1 :
             (head \o high)[i] = IF i <= k + 1 THEN head[i] ELSE high[i - (k + 1)]
    <3>1. /\ head \o high \in Seq(Seats) /\ Len(head \o high) = Len(head) + Len(high)
          /\ \A i \in 1 .. Len(head) + Len(high) :
               (head \o high)[i] = IF i <= Len(head) THEN head[i] ELSE high[i - Len(head)]
      BY <2>3, <2>5, ConcatProperties
    <3>2. Len(head) = k + 1 /\ Len(head) + Len(high) = n + 1
      BY <1>1, <2>3, <2>5
    <3> QED BY <3>1, <3>2
  <2> DEFINE o == head \o high
  <2> HIDE DEF o
  <2>7. \A i \in 1 .. n + 1 :
          o[i] = IF i < k THEN order[i] ELSE IF i <= k + 1 THEN s ELSE order[i - 1]
    <3> SUFFICES ASSUME NEW i \in 1 .. n + 1
                 PROVE  o[i] = IF i < k THEN order[i] ELSE IF i <= k + 1 THEN s ELSE order[i - 1]
      OBVIOUS
    <3>1. CASE i <= k + 1
      BY <1>1, <2>5, <2>6, <3>1 DEF o
    <3>2. CASE ~(i <= k + 1)
      <4>1. i - (k + 1) \in 1 .. n - k /\ i - (k + 1) + k = i - 1 /\ ~(i < k)
        BY <1>1, <3>2
      <4> QED BY <2>3, <2>6, <3>2, <4>1 DEF o
    <3> QED BY <3>1, <3>2
  <2>8. DOMAIN o = 1 .. n + 1
    BY <1>1, <2>6 DEF o
  <2> QED BY <1>1, <1>3, <2>1, <2>7, <2>8 DEF o, head
<1> QED BY <1>2, <1>3
\* A pot inserted below the k-th, which is the first above it.
LEMMA InsertPotStacked ==
  ASSUME NEW P \in AllPots, Stacked(P), NEW h \in Step, h.player \notin Members(P.order),
         NEW k \in OpenPots(P), h.amount < BetAt(P, k),
         \A i \in OpenPots(P) : i < k => BetAt(P, i) < h.amount,
         ~P.main.closed => P.main.bet < h.amount
  PROVE  /\ Stacked(InsertPot(P, h, k))
         /\ Members(InsertPot(P, h, k).order) \subseteq Members(P.order) \cup {h.player}
<1> DEFINE Q == InsertPot(P, h, k)
           p == h.player
           after == IF k = 1 THEN 1 ELSE k + 1
           src == [i \in DOMAIN Q.order |-> IF i < k THEN i ELSE i - 1]
<1>1. /\ p \in Seats /\ P.order \in Seq(Seats) /\ k \in 1 .. Len(P.order) /\ Len(P.order) \in Nat
      /\ DOMAIN P.order = 1 .. Len(P.order)
  BY StepFields, PotsFields DEF OpenPots
<1>2. Q \in AllPots
  BY <1>1, InsertPotType
<1>3. Q.order = Insert(P.order, p, k) /\ Q.main = P.main
  BY PotsFields DEF InsertPot, AllPots
<1>4. Q.side[p].bet = h.amount /\ \A q \in Seats \ {p} : Q.side[q] = P.side[q]
  BY <1>1, PotsFields DEF InsertPot, AllPots, NewPot
<1> HIDE DEF Q
<1>5. /\ DOMAIN Q.order = 1 .. Len(P.order) + 1 /\ k <= after /\ after \in Nat
      /\ \A i \in 1 .. Len(P.order) + 1 :
           Q.order[i] = IF i < k THEN P.order[i] ELSE IF i <= after THEN p ELSE P.order[i - 1]
  BY <1>1, <1>3, InsertIs
<1>6. \A i \in 1 .. Len(P.order) : P.order[i] # p
  BY <1>1 DEF Members
<1>7. /\ \A i \in DOMAIN Q.order : Q.order[i] = p <=> (k <= i /\ i <= after)
      /\ \A i \in DOMAIN Q.order : Q.order[i] # p =>
           src[i] \in 1 .. Len(P.order) /\ Q.order[i] = P.order[src[i]] /\ (src[i] < k <=> i < k)
  <2> SUFFICES ASSUME NEW i \in DOMAIN Q.order
               PROVE  /\ Q.order[i] = p <=> (k <= i /\ i <= after)
                      /\ Q.order[i] # p => /\ src[i] \in 1 .. Len(P.order)
                                           /\ Q.order[i] = P.order[src[i]] /\ (src[i] < k <=> i < k)
    OBVIOUS
  <2>1. i \in 1 .. Len(P.order) + 1
    BY <1>5
  <2>2. CASE i < k
    <3>1. i \in 1 .. Len(P.order) /\ src[i] = i /\ Q.order[i] = P.order[i] /\ ~(k <= i)
      BY <1>1, <1>5, <2>1, <2>2
    <3> QED BY <1>6, <2>2, <3>1
  <2>3. CASE k <= i /\ i <= after
    BY <1>1, <1>5, <2>1, <2>3
  <2>4. CASE ~(i < k) /\ ~(i <= after)
    <3>1. i - 1 \in 1 .. Len(P.order) /\ src[i] = i - 1 /\ ~(i - 1 < k)
      BY <1>1, <1>5, <2>1, <2>4
    <3>2. Q.order[i] = P.order[i - 1]
      BY <1>5, <2>1, <2>4
    <3> QED BY <1>6, <2>4, <3>1, <3>2
  <2>5. i < k \/ k <= i
    BY <1>1, <2>1
  <2> QED BY <2>2, <2>3, <2>4, <2>5
<1>8. \A i \in OpenPots(P) : k <= i => h.amount < BetAt(P, i)
  <2> SUFFICES ASSUME NEW i \in OpenPots(P), k <= i PROVE h.amount < BetAt(P, i)
    OBVIOUS
  <2>1. h.amount \in Nat /\ BetAt(P, i) \in Nat /\ BetAt(P, k) \in Nat /\ i \in Nat
    BY <1>1, BetsNatural DEF OpenPots
  <2>2. CASE i = k
    BY <2>2
  <2>3. CASE k < i
    <3>1. BetAt(P, k) <= BetAt(P, i)
      BY <2>1, <2>3 DEF Stacked, Ordered, BetAt
    <3> QED BY <2>1, <3>1
  <2> QED BY <1>1, <2>1, <2>2, <2>3
<1>9. Stacked(Q)
  <2>1. src \in [DOMAIN Q.order -> Int]
    BY <1>5
  <2>2. \A i, j \in DOMAIN Q.order : i < j /\ Q.order[i] # p /\ Q.order[j] # p => src[i] < src[j]
    <3> SUFFICES ASSUME NEW i \in DOMAIN Q.order, NEW j \in DOMAIN Q.order, i < j,
                        Q.order[i] # p, Q.order[j] # p
                 PROVE  src[i] < src[j]
      OBVIOUS
    <3>1. i \in Nat /\ j \in Nat /\ ~(k <= j /\ j <= after) /\ ~(k <= i /\ i <= after)
      BY <1>5, <1>7
    <3>2. src[i] = (IF i < k THEN i ELSE i - 1) /\ src[j] = (IF j < k THEN j ELSE j - 1)
      OBVIOUS
    <3>3. j < k \/ j > k
      BY <1>1, <1>5, <3>1
    <3> QED BY <1>1, <3>1, <3>2, <3>3
  <2>3. \A i \in DOMAIN Q.order :
           Q.order[i] = p \/ (src[i] \in DOMAIN P.order /\ Q.order[i] = P.order[src[i]])
    BY <1>1, <1>7
  <2>4. ASSUME NEW i \in DOMAIN Q.order, NEW j \in DOMAIN Q.order, Q.order[i] = p, Q.order[j] # p,
               src[j] \in OpenPots(P)
        PROVE  /\ i < j => Q.side[p].bet < BetAt(P, src[j])
               /\ j < i => BetAt(P, src[j]) < Q.side[p].bet
    <3>0. i \in Nat /\ j \in Nat
      BY <1>5
    <3>1. /\ k <= i /\ i <= after /\ ~(k <= j /\ j <= after)
          /\ src[j] < k <=> j < k
      <4> HIDE DEF src, after
      <4> QED BY <1>7, <2>4
    <3>2. src[j] \in Nat
      BY <1>1, <2>4 DEF OpenPots
    <3>3. i < j => k <= src[j]
      BY <1>1, <3>0, <3>1, <3>2
    <3>4. j < i => src[j] < k
      BY <1>1, <1>5, <3>0, <3>1, <3>2
    <3> HIDE DEF src
    <3> QED BY <1>4, <1>8, <2>4, <3>3, <3>4
  <2>5. ~Q.main.closed => /\ Q.main.bet < Q.side[p].bet
                          /\ \A i \in OpenPots(P) : Q.main.bet < BetAt(P, i)
    BY <1>3, <1>4 DEF Stacked
  <2> HIDE DEF src
  <2> QED BY <1>1, <1>2, <1>4, <2>1, <2>2, <2>3, <2>4, <2>5, WithNewPot
<1>10. Members(Q.order) \subseteq Members(P.order) \cup {p}
  <2> SUFFICES ASSUME NEW i \in DOMAIN Q.order PROVE Q.order[i] \in Members(P.order) \cup {p}
    BY DEF Members
  <2>1. Q.order[i] = p \/ (src[i] \in DOMAIN P.order /\ Q.order[i] = P.order[src[i]])
    BY <1>1, <1>7
  <2> HIDE DEF src
  <2> QED BY <2>1 DEF Members
<1> QED BY <1>9, <1>10 DEF Q

\* An all-in above the main pot.
LEMMA AllInPotsStacked ==
  ASSUME NEW P \in AllPots, Stacked(P), NEW h \in Step, h.player \notin Members(P.order),
         ~P.main.closed => P.main.bet < h.amount
  PROVE  /\ Stacked(AllInPots(P, h))
         /\ Members(AllInPots(P, h).order) \subseteq Members(P.order) \cup {h.player}
<1> DEFINE Q == JoinLowerPots(P, h)
           Reached == {i \in OpenPots(P) : BetAt(P, i) >= h.amount}
           k == FirstOf(Reached)
<1>1. Q \in AllPots /\ Stacked(Q) /\ Q.order = P.order
  BY JoinLowerPotsType, JoinsStacked
<1>2. Q.main = P.main /\ OpenPots(Q) = OpenPots(P) /\ \A i \in OpenPots(P) : BetAt(Q, i) = BetAt(P, i)
  <2>1. /\ Q.main = P.main
        /\ \A s \in Seats : Q.side[s].bet = P.side[s].bet /\ Q.side[s].closed = P.side[s].closed
    BY PotsFields DEF JoinLowerPots, AddTo, AllPots, Pot
  <2>2. \A i \in DOMAIN P.order : P.order[i] \in Seats
    BY PotsFields
  <2> HIDE DEF Q
  <2> QED BY <1>1, <2>1, <2>2 DEF OpenPots, BetAt
<1> HIDE DEF Q
<1>3. /\ \A i \in OpenPots(P) : BetAt(P, i) \in Nat /\ i \in Nat
      /\ h.amount \in Nat
  BY BetsNatural, PotsFields DEF OpenPots
<1>4. CASE Reached = {}
  <2>1. \A i \in OpenPots(Q) : BetAt(Q, i) < h.amount
    BY <1>2, <1>3, <1>4
  <2>2. AllInPots(P, h) = AddLargestPot(Q, h)
    BY <1>4 DEF AllInPots, Q
  <2> QED BY <1>1, <1>2, <2>1, <2>2, AddLargestPotStacked
<1>5. CASE Reached # {}
  <2>1. k \in Reached /\ \A j \in Reached : k <= j
    <3>1. Reached \subseteq Nat
      BY <1>3
    <3>2. \E i \in Reached : \A j \in Reached : i <= j
      BY <1>5, <3>1, LeastExists
    <3> QED BY <3>2 DEF FirstOf
  <2>2. CASE BetAt(P, k) = h.amount
    BY <1>1, <1>5, <2>2 DEF AllInPots, Q
  <2>3. CASE BetAt(P, k) # h.amount
    <3>1. k \in OpenPots(Q) /\ h.amount < BetAt(Q, k)
      BY <1>2, <1>3, <2>1, <2>3
    <3>2. ASSUME NEW i \in OpenPots(Q), i < k PROVE BetAt(Q, i) < h.amount
      <4>1. k \in Nat /\ i \in OpenPots(P) /\ i \in Nat
        BY <1>2, <1>3, <2>1, <3>2
      <4>2. i \notin Reached
        BY <2>1, <3>2, <4>1
      <4> QED BY <1>2, <1>3, <4>1, <4>2
    <3>3. AllInPots(P, h) = InsertPot(Q, h, k)
      BY <1>5, <2>3 DEF AllInPots, Q
    <3> QED BY <1>1, <1>2, <3>1, <3>2, <3>3, InsertPotStacked
  <2> QED BY <2>2, <2>3
<1> QED BY <1>4, <1>5

\* An all-in while side pots exist.
LEMMA LaterAllInStacked ==
  ASSUME NEW P \in AllPots, Stacked(P), NEW h \in Step, h.player \notin Members(P.order)
  PROVE  /\ Stacked(LaterAllIn(P, h))
         /\ Members(LaterAllIn(P, h).order) \subseteq Members(P.order) \cup {h.player}
<1> DEFINE J == JoinMainPot(P, h)
<1>1. h.amount \in Nat /\ P.main.bet \in Nat
  BY BetsNatural
<1>2. J \in AllPots /\ Stacked(J) /\ J.order = P.order
  BY JoinMainPotType, JoinsStacked
<1>3. J.main.bet = P.main.bet /\ J.main.closed = P.main.closed
  BY PotsFields DEF JoinMainPot, AllPots, Pot
<1> HIDE DEF J
<1>4. CASE P.main.closed
  BY <1>4, AllInPotsStacked DEF LaterAllIn
<1>5. CASE ~P.main.closed /\ P.main.bet > h.amount
  BY <1>5, SplitMainPotStacked DEF LaterAllIn
<1>6. CASE ~P.main.closed /\ P.main.bet = h.amount
  <2>1. LaterAllIn(P, h) = J
    BY <1>1, <1>6 DEF LaterAllIn, J
  <2> QED BY <1>2, <2>1
<1>7. CASE ~P.main.closed /\ P.main.bet < h.amount
  <2>1. LaterAllIn(P, h) = AllInPots(IF h.player \in P.main.players THEN P ELSE J, h)
    BY <1>1, <1>7 DEF LaterAllIn, J
  <2>2. /\ Stacked(AllInPots(P, h))
        /\ Members(AllInPots(P, h).order) \subseteq Members(P.order) \cup {h.player}
    BY <1>7, AllInPotsStacked
  <2>3. /\ Stacked(AllInPots(J, h))
        /\ Members(AllInPots(J, h).order) \subseteq Members(P.order) \cup {h.player}
    BY <1>2, <1>3, <1>7, AllInPotsStacked
  <2> QED BY <2>1, <2>2, <2>3
<1> QED BY <1>1, <1>4, <1>5, <1>6, <1>7

\* Whatever all-ins, bets and calls come, in whatever order of their amounts:
\* handleSidePots keeps the open pots in the order of their bets, above the
\* main pot, and only an all-in of a player adds pots of that player.
THEOREM HandleSidePotsStacked ==
  ASSUME NEW P \in AllPots, Stacked(P), NEW h \in Step, h.player \notin Members(P.order)
  PROVE  /\ Stacked(HandleSidePots(P, h))
         /\ Members(HandleSidePots(P, h).order)
              \subseteq Members(P.order) \cup (IF h.kind = "AllIn" THEN {h.player} ELSE {})
<1>1. CASE IsEmpty(P)
  <2>1. P.order = << >> /\ HandleSidePots(P, h) = FirstSidePot(P, h)
    BY <1>1 DEF HandleSidePots, IsEmpty
  <2>2. FirstSidePot(P, h).order = P.order
    BY PotsFields DEF FirstSidePot, AllPots
  <2> QED BY <2>1, <2>2, NoneStacked
<1>2. CASE ~IsEmpty(P) /\ h.kind = "AllIn"
  BY <1>2, LaterAllInStacked DEF HandleSidePots
<1>3. CASE ~IsEmpty(P) /\ h.kind # "AllIn"
  <2>1. HandleSidePots(P, h) = BetOrCall(P, h)
    BY <1>3 DEF HandleSidePots
  <2>2. Stacked(BetOrCall(P, h)) /\ BetOrCall(P, h).order = P.order
    BY JoinsStacked
  <2> QED BY <2>1, <2>2
<1> QED BY <1>1, <1>2, <1>3
=============================================================================
