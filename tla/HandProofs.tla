----------------------------- MODULE HandProofs -----------------------------
(***************************************************************************)
(* What the chips of a hand add up to, for any stacks: sums over the       *)
(* seats, and that chips are moved one for one.  Then a hand that nobody   *)
(* leaves: its side pots can be called, and its assertions hold.           *)
(***************************************************************************)
EXTENDS Hand, BetsProofs

-----------------------------------------------------------------------------
(* Sums over the seats.  Sum and Money are folds of the community modules, *)
(* which take the elements of a set one by one in an order of their own.   *)
(* The lemmas below say what a fold returns, by induction on the number of *)
(* elements taken; they speak of sets of numbers, since a fact with an     *)
(* operator as a parameter cannot be used.                                 *)

\* A set of numbers with zero and every successor holds all of them.
LEMMA SetInduction ==
  ASSUME NEW T, T \subseteq Nat, 0 \in T, \A n \in T : n + 1 \in T
  PROVE  T = Nat
<1>1. SUFFICES ASSUME Nat \ T # {} PROVE FALSE
  OBVIOUS
<1>2. PICK m \in Nat \ T : \A j \in Nat \ T : m <= j
  BY <1>1, LeastExists
<1>3. m # 0 /\ m - 1 \in Nat
  BY <1>2
<1>4. m - 1 \in T
  BY <1>2, <1>3
<1> QED BY <1>2, <1>3, <1>4

Chosen(s) == CHOOSE x \in s : TRUE

\* g maps every set of elements of T to the sum of f over it.
IsSum(g, f, T) ==
  g = [s \in SUBSET T |-> IF s = {} THEN 0 ELSE f[Chosen(s)] + g[s \ {Chosen(s)}]]

\* The sets with up to n elements.
UpTo(T, n) == {s \in SUBSET T : Cardinality(s) <= n}

LEMMA ChosenIn ==
  ASSUME NEW T, IsFiniteSet(T), NEW s \in SUBSET T, s # {}
  PROVE  /\ Chosen(s) \in s /\ Chosen(s) \in T
         /\ s \ {Chosen(s)} \in SUBSET T
         /\ IsFiniteSet(s) /\ Cardinality(s) \in Nat \ {0}
         /\ Cardinality(s \ {Chosen(s)}) = Cardinality(s) - 1
<1>1. Chosen(s) \in s
  BY DEF Chosen
<1>2. IsFiniteSet(s)
  BY FS_Subset
<1> QED BY <1>1, <1>2, FS_RemoveElement, FS_CardinalityType, FS_EmptySet

\* There is such a map, level by level.
LEMMA SumExists ==
  ASSUME NEW T, IsFiniteSet(T), NEW f \in [T -> Int]
  PROVE  \E g : IsSum(g, f, T)
<1> DEFINE Level(g, n) ==
             g = [s \in UpTo(T, n) |->
                    IF s = {} THEN 0 ELSE f[Chosen(s)] + g[s \ {Chosen(s)}]]
           Good == {n \in Nat : \E g : Level(g, n)}
<1>1. 0 \in Good
  <2> DEFINE g == [s \in UpTo(T, 0) |-> 0]
  <2>1. \A s \in UpTo(T, 0) : s = {}
    BY FS_Subset, FS_EmptySet, FS_CardinalityType DEF UpTo
  <2>2. Level(g, 0)
    BY <2>1
  <2> QED BY <2>2
<1>2. ASSUME NEW n \in Good PROVE n + 1 \in Good
  <2>1. PICK g : Level(g, n)
    OBVIOUS
  <2> DEFINE h == [s \in UpTo(T, n + 1) |->
                     IF s = {} THEN 0 ELSE f[Chosen(s)] + g[s \ {Chosen(s)}]]
  <2>2. \A s \in UpTo(T, n) : s \in UpTo(T, n + 1) /\ h[s] = g[s]
    <3> SUFFICES ASSUME NEW s \in UpTo(T, n) PROVE s \in UpTo(T, n + 1) /\ h[s] = g[s]
      OBVIOUS
    <3>1. s \in UpTo(T, n + 1)
      BY FS_Subset, FS_CardinalityType DEF UpTo
    <3>2. g[s] = IF s = {} THEN 0 ELSE f[Chosen(s)] + g[s \ {Chosen(s)}]
      BY <2>1
    <3> QED BY <3>1, <3>2
  <2>3. \A s \in UpTo(T, n + 1) : s # {} => s \ {Chosen(s)} \in UpTo(T, n)
    BY ChosenIn DEF UpTo
  <2>4. \A s \in UpTo(T, n + 1) :
          h[s] = IF s = {} THEN 0 ELSE f[Chosen(s)] + h[s \ {Chosen(s)}]
    BY <2>2, <2>3
  <2> HIDE DEF h
  <2>5. h = [s \in UpTo(T, n + 1) |->
                IF s = {} THEN 0 ELSE f[Chosen(s)] + h[s \ {Chosen(s)}]]
    <3>1. h = [s \in UpTo(T, n + 1) |-> h[s]]
      BY DEF h
    <3> QED BY <3>1, <2>4
  <2> QED BY <2>5
<1>3. Good = Nat
  <2> HIDE DEF Good
  <2> QED BY <1>1, <1>2, SetInduction DEF Good
<1>4. PICK g : Level(g, Cardinality(T))
  BY <1>3, FS_CardinalityType
<1>5. UpTo(T, Cardinality(T)) = SUBSET T
  BY FS_Subset, FS_CardinalityType DEF UpTo
<1> QED BY <1>4, <1>5 DEF IsSum

Sums(f, T) == CHOOSE g : IsSum(g, f, T)

LEMMA SumIs == ASSUME NEW f PROVE Sum(f) = Sums(f, DOMAIN f)[DOMAIN f]
BY DEF Sum, FoldFunction, FoldFunctionOnSet, MapThenFoldSet, Sums, IsSum, Chosen

\* What holds of the empty set, and of a set when it holds without one
\* element, holds of all subsets of a finite set.
LEMMA SubsetInduction ==
  ASSUME NEW T, IsFiniteSet(T), NEW G, {} \in G,
         \A s \in SUBSET T : s # {} /\ s \ {Chosen(s)} \in G => s \in G
  PROVE  SUBSET T \subseteq G
<1> DEFINE Good == {n \in Nat : UpTo(T, n) \subseteq G}
<1>1. 0 \in Good
  <2>1. \A s \in UpTo(T, 0) : s = {}
    BY FS_Subset, FS_EmptySet, FS_CardinalityType DEF UpTo
  <2> QED BY <2>1
<1>2. ASSUME NEW n \in Good PROVE n + 1 \in Good
  <2>1. \A s \in UpTo(T, n + 1) : s # {} => s \ {Chosen(s)} \in UpTo(T, n)
    BY ChosenIn DEF UpTo
  <2>2. \A s \in UpTo(T, n + 1) : s \in G
    BY <2>1 DEF UpTo
  <2> QED BY <2>2
<1>3. Good = Nat
  <2> HIDE DEF Good
  <2> QED BY <1>1, <1>2, SetInduction DEF Good
<1>4. UpTo(T, Cardinality(T)) = SUBSET T
  BY FS_Subset, FS_CardinalityType DEF UpTo
<1> QED BY <1>3, <1>4, FS_CardinalityType

LEMMA SumsType ==
  ASSUME NEW T, IsFiniteSet(T), NEW f \in [T -> Int]
  PROVE  /\ Sums(f, T)[{}] = 0
         /\ \A s \in SUBSET T : s # {} =>
              Sums(f, T)[s] = f[Chosen(s)] + Sums(f, T)[s \ {Chosen(s)}]
         /\ \A s \in SUBSET T : Sums(f, T)[s] \in Int
<1> DEFINE g == Sums(f, T)
<1>1. IsSum(g, f, T)
  BY SumExists DEF Sums
<1> HIDE DEF g
<1>2. \A s \in SUBSET T : g[s] = IF s = {} THEN 0 ELSE f[Chosen(s)] + g[s \ {Chosen(s)}]
  BY <1>1 DEF IsSum
<1>3. g[{}] = 0
  BY <1>2
<1> DEFINE G == {s \in SUBSET T : g[s] \in Int}
<1>4. {} \in G
  BY <1>3
<1>5. ASSUME NEW s \in SUBSET T, s # {}, s \ {Chosen(s)} \in G PROVE s \in G
  <2>1. g[s] = f[Chosen(s)] + g[s \ {Chosen(s)}]
    BY <1>2, <1>5
  <2>2. f[Chosen(s)] \in Int /\ g[s \ {Chosen(s)}] \in Int
    BY <1>5, ChosenIn
  <2>3. g[s] \in Int
    BY <2>1, <2>2
  <2> QED BY <2>3
<1>6. SUBSET T \subseteq G
  <2> HIDE DEF G
  <2> QED BY <1>4, <1>5, SubsetInduction
<1> QED BY <1>2, <1>3, <1>6 DEF g

\* A sum of numbers is a number.
LEMMA SumType ==
  ASSUME NEW T, IsFiniteSet(T), NEW f \in [T -> Int]
  PROVE  Sum(f) \in Int
  BY SumIs, SumsType

\* Changing one element changes the sum by as much.
LEMMA SumUpdate ==
  ASSUME NEW T, IsFiniteSet(T), NEW f \in [T -> Int], NEW p \in T, NEW v \in Int
  PROVE  Sum([f EXCEPT ![p] = v]) = Sum(f) - f[p] + v
<1> DEFINE h == [f EXCEPT ![p] = v]
           gf == Sums(f, T)
           gh == Sums(h, T)
           G == {s \in SUBSET T : gh[s] = IF p \in s THEN gf[s] - f[p] + v ELSE gf[s]}
<1>1. h \in [T -> Int] /\ h[p] = v /\ \A q \in T : q # p => h[q] = f[q]
  OBVIOUS
<1>2. /\ gf[{}] = 0
      /\ \A s \in SUBSET T : s # {} => gf[s] = f[Chosen(s)] + gf[s \ {Chosen(s)}]
      /\ \A s \in SUBSET T : gf[s] \in Int
  BY SumsType
<1>3. /\ gh[{}] = 0
      /\ \A s \in SUBSET T : s # {} => gh[s] = h[Chosen(s)] + gh[s \ {Chosen(s)}]
      /\ \A s \in SUBSET T : gh[s] \in Int
  BY <1>1, SumsType
<1> HIDE DEF h, gf, gh
<1>4. {} \in G
  BY <1>2, <1>3
<1>5. ASSUME NEW s \in SUBSET T, s # {}, s \ {Chosen(s)} \in G PROVE s \in G
  <2>1. Chosen(s) \in s /\ Chosen(s) \in T /\ s \ {Chosen(s)} \in SUBSET T
    BY <1>5, ChosenIn
  <2> DEFINE c == Chosen(s)
             r == s \ {Chosen(s)}
  <2>2. /\ gf[s] = f[c] + gf[r] /\ gh[s] = h[c] + gh[r]
        /\ gf[r] \in Int /\ gh[r] \in Int /\ f[c] \in Int /\ f[p] \in Int
    BY <1>2, <1>3, <1>5, <2>1
  <2>3. gh[r] = IF p \in r THEN gf[r] - f[p] + v ELSE gf[r]
    BY <1>5
  <2>4. p \in r <=> p \in s /\ p # c
    OBVIOUS
  <2>5. c \in s /\ h[c] = IF c = p THEN v ELSE f[c]
    BY <1>1, <2>1
  <2> HIDE DEF c, r
  <2>6. gh[s] = IF p \in s THEN gf[s] - f[p] + v ELSE gf[s]
    BY <2>2, <2>3, <2>4, <2>5
  <2> QED BY <2>6
<1>6. SUBSET T \subseteq G
  <2> HIDE DEF G
  <2> QED BY <1>4, <1>5, SubsetInduction
<1>7. gh[T] = gf[T] - f[p] + v
  BY <1>6
<1>8. Sum(f) = gf[T] /\ Sum(h) = gh[T]
  BY <1>1, SumIs DEF gf, gh
<1> QED BY <1>7, <1>8 DEF h

\* A sum grows with its elements.
LEMMA SumMonotone ==
  ASSUME NEW T, IsFiniteSet(T), NEW f \in [T -> Int], NEW h \in [T -> Int],
         \A p \in T : f[p] <= h[p]
  PROVE  Sum(f) <= Sum(h)
<1> DEFINE gf == Sums(f, T)
           gh == Sums(h, T)
           G == {s \in SUBSET T : gf[s] <= gh[s]}
<1>2. /\ gf[{}] = 0
      /\ \A s \in SUBSET T : s # {} => gf[s] = f[Chosen(s)] + gf[s \ {Chosen(s)}]
      /\ \A s \in SUBSET T : gf[s] \in Int
  BY SumsType
<1>3. /\ gh[{}] = 0
      /\ \A s \in SUBSET T : s # {} => gh[s] = h[Chosen(s)] + gh[s \ {Chosen(s)}]
      /\ \A s \in SUBSET T : gh[s] \in Int
  BY SumsType
<1> HIDE DEF gf, gh
<1>4. {} \in G
  BY <1>2, <1>3
<1>5. ASSUME NEW s \in SUBSET T, s # {}, s \ {Chosen(s)} \in G PROVE s \in G
  <2>1. Chosen(s) \in s /\ Chosen(s) \in T /\ s \ {Chosen(s)} \in SUBSET T
    BY <1>5, ChosenIn
  <2> DEFINE c == Chosen(s)
             r == s \ {Chosen(s)}
  <2>2. /\ gf[s] = f[c] + gf[r] /\ gh[s] = h[c] + gh[r]
        /\ gf[r] \in Int /\ gh[r] \in Int /\ f[c] \in Int /\ h[c] \in Int
        /\ f[c] <= h[c] /\ gf[r] <= gh[r]
    BY <1>2, <1>3, <1>5, <2>1
  <2> HIDE DEF c, r
  <2>3. gf[s] <= gh[s]
    BY <2>2
  <2> QED BY <2>3
<1>6. SUBSET T \subseteq G
  <2> HIDE DEF G
  <2> QED BY <1>4, <1>5, SubsetInduction
<1>7. gf[T] <= gh[T]
  BY <1>6
<1>8. Sum(f) = gf[T] /\ Sum(h) = gh[T]
  BY SumIs DEF gf, gh
<1> QED BY <1>7, <1>8

\* The sum of zeros is zero.
LEMMA SumOfNone ==
  ASSUME NEW T, IsFiniteSet(T)
  PROVE  Sum([s \in T |-> 0]) = 0
<1> DEFINE f == [s \in T |-> 0]
           g == Sums(f, T)
           G == {s \in SUBSET T : g[s] = 0}
<1>1. f \in [T -> Int] /\ \A s \in T : f[s] = 0
  OBVIOUS
<1>2. /\ g[{}] = 0
      /\ \A s \in SUBSET T : s # {} => g[s] = f[Chosen(s)] + g[s \ {Chosen(s)}]
  BY <1>1, SumsType
<1>3. Sum(f) = g[T]
  BY SumIs
<1> HIDE DEF f, g
<1>4. ASSUME NEW s \in SUBSET T, s # {}, s \ {Chosen(s)} \in G PROVE s \in G
  <2>1. g[s] = f[Chosen(s)] + g[s \ {Chosen(s)}]
    BY <1>2, <1>4
  <2>2. f[Chosen(s)] = 0 /\ g[s \ {Chosen(s)}] = 0
    BY <1>1, <1>4, ChosenIn
  <2> QED BY <2>1, <2>2
<1>5. SUBSET T \subseteq G
  <2>1. {} \in G
    BY <1>2
  <2> HIDE DEF G
  <2> QED BY <1>4, <2>1, SubsetInduction
<1> QED BY <1>3, <1>5 DEF f

-----------------------------------------------------------------------------
(* Sums of chips wrap.                                                     *)

\* Adding a remainder is adding the number, in remainders.
LEMMA ModPlus ==
  ASSUME NEW M \in Nat \ {0}, NEW x \in Int, NEW y \in Int
  PROVE  (x + (y % M)) % M = (x + y) % M
<1> DEFINE q == y \div M
           r == y % M
<1>1. q \in Int /\ r \in 0 .. M - 1 /\ y = M * q + r
  OBVIOUS
<1> HIDE DEF q, r
<1> DEFINE k == (x + r) \div M
           t == (x + r) % M
<1>2. k \in Int /\ t \in 0 .. M - 1 /\ x + r = M * k + t
  BY <1>1
<1> HIDE DEF k, t
<1>3. x + y = M * (k + q) + t
  BY <1>1, <1>2
<1> DEFINE z == x + y
           e == (x + y) \div M
           w == (x + y) % M
<1>4. e \in Int /\ w \in 0 .. M - 1 /\ x + y = M * e + w
  OBVIOUS
<1> HIDE DEF e, w
<1>5. M * (e - (k + q)) = t - w
  BY <1>1, <1>2, <1>3, <1>4
<1>6. e - (k + q) = 0
  <2>1. ASSUME e - (k + q) >= 1 PROVE FALSE
    BY <1>1, <1>2, <1>4, <1>5, <2>1
  <2>2. ASSUME e - (k + q) <= -1 PROVE FALSE
    BY <1>1, <1>2, <1>4, <1>5, <2>2
  <2> QED BY <1>1, <1>2, <1>4, <2>1, <2>2
<1>7. t = w
  BY <1>2, <1>4, <1>5, <1>6
<1> QED BY <1>7 DEF t, w, r

\* Equal sums with equal remainders: only the remainders of what is added
\* count.
LEMMA ModPlusBoth ==
  ASSUME NEW M \in Nat \ {0}, NEW x \in Int, NEW y \in Int
  PROVE  ((x % M) + (y % M)) % M = (x + y) % M
<1>1. x % M \in Int /\ y % M \in Int
  OBVIOUS
<1>2. ((x % M) + (y % M)) % M = ((x % M) + y) % M
  BY <1>1, ModPlus
<1>3. (y + (x % M)) % M = (y + x) % M
  BY ModPlus
<1>4. (x % M) + y = y + (x % M) /\ x + y = y + x
  BY <1>1
<1> QED BY <1>2, <1>3, <1>4

\* g maps every set of elements of T to b and f over it, added as chips are.
IsWrapped(g, b, f, T) ==
  g = [s \in SUBSET T |-> IF s = {} THEN b ELSE Plus(f[Chosen(s)], g[s \ {Chosen(s)}])]

\* Chips added one by one, with every sum wrapped, are their sum wrapped.
LEMMA WrappedSum ==
  ASSUME NEW T, IsFiniteSet(T), NEW f \in [T -> Int], NEW b \in 0 .. ChipMod - 1
  PROVE  FoldFunction(Plus, b, f) = (b + Sum(f)) % ChipMod
<1> DEFINE h == CHOOSE g : IsWrapped(g, b, f, T)
           g == Sums(f, T)
           m == [s \in SUBSET T |-> (b + g[s]) % ChipMod]
<1>1. FoldFunction(Plus, b, f) = h[T]
  <2>1. DOMAIN f = T
    OBVIOUS
  <2>2. FoldFunction(Plus, b, f) = (CHOOSE g_1 : IsWrapped(g_1, b, f, DOMAIN f))[DOMAIN f]
    BY DEF FoldFunction, FoldFunctionOnSet, MapThenFoldSet, IsWrapped, Chosen
  <2> QED BY <2>1, <2>2
<1>2. /\ g[{}] = 0
      /\ \A s \in SUBSET T : s # {} => g[s] = f[Chosen(s)] + g[s \ {Chosen(s)}]
      /\ \A s \in SUBSET T : g[s] \in Int
  BY SumsType
<1>3. g[T] = Sum(f)
  BY SumIs
<1> HIDE DEF g
<1>4. ASSUME NEW s \in SUBSET T
      PROVE  m[s] = IF s = {} THEN b ELSE Plus(f[Chosen(s)], m[s \ {Chosen(s)}])
  <2>1. CASE s = {}
    <3>1. b % ChipMod = b
      BY ChipModAssumption
    <3> QED BY <1>2, <2>1, <3>1
  <2>2. CASE s # {}
    <3> DEFINE c == Chosen(s)
               r == s \ {Chosen(s)}
    <3>1. r \in SUBSET T /\ f[c] \in Int /\ g[r] \in Int /\ g[s] = f[c] + g[r]
      BY <1>2, <2>2, ChosenIn
    <3>2. m[s] = (b + g[s]) % ChipMod /\ m[r] = (b + g[r]) % ChipMod
      BY <3>1
    <3> HIDE DEF c, r, m
    <3>3. (f[c] + ((b + g[r]) % ChipMod)) % ChipMod = (f[c] + (b + g[r])) % ChipMod
      BY <3>1, ModPlus, ChipModAssumption
    <3>4. f[c] + (b + g[r]) = b + g[s]
      BY <3>1
    <3>5. m[s] = Plus(f[c], m[r])
      BY <3>2, <3>3, <3>4 DEF Plus
    <3> QED BY <2>2, <3>5 DEF c, r
  <2> QED BY <2>1, <2>2
<1>5. IsWrapped(m, b, f, T)
  <2>1. m = [s \in SUBSET T |-> m[s]]
    OBVIOUS
  <2> HIDE DEF m
  <2> QED BY <1>4, <2>1 DEF IsWrapped
<1>6. IsWrapped(h, b, f, T)
  BY <1>5
<1> HIDE DEF h
<1>7. \A s \in SUBSET T : h[s] = IF s = {} THEN b ELSE Plus(f[Chosen(s)], h[s \ {Chosen(s)}])
  BY <1>6 DEF IsWrapped
<1> DEFINE G == {s \in SUBSET T : h[s] = m[s]}
<1>8. {} \in G
  <2>1. h[{}] = b /\ m[{}] = b
    BY <1>4, <1>7
  <2> QED BY <2>1
<1>9. ASSUME NEW s \in SUBSET T, s # {}, s \ {Chosen(s)} \in G PROVE s \in G
  <2>1. h[s] = Plus(f[Chosen(s)], h[s \ {Chosen(s)}])
    BY <1>7, <1>9
  <2>2. m[s] = Plus(f[Chosen(s)], m[s \ {Chosen(s)}])
    BY <1>4, <1>9
  <2>3. h[s \ {Chosen(s)}] = m[s \ {Chosen(s)}]
    BY <1>9
  <2>4. h[s] = m[s]
    BY <2>1, <2>2, <2>3
  <2> QED BY <2>4
<1>10. SUBSET T \subseteq G
  <2> HIDE DEF G
  <2> QED BY <1>8, <1>9, SubsetInduction
<1>11. h[T] = m[T]
  BY <1>10
<1>12. m[T] = (b + g[T]) % ChipMod
  OBVIOUS
<1> QED BY <1>1, <1>3, <1>11, <1>12

-----------------------------------------------------------------------------
(* Chips are moved one for one.                                            *)

\* The main pot and the chips of the players.
LEMMA MoneyIs ==
  ASSUME NEW P \in AllPots, NEW c \in [Seats -> Chips]
  PROVE  /\ FoldFunction(Plus, P.main.total, c) = (P.main.total + Sum(c)) % ChipMod
         /\ P.main.total \in Chips /\ P.main.total \in 0 .. ChipMod - 1
         /\ Sum(c) \in Int /\ c \in [Seats -> Int]
<1>1. P.main.total \in 0 .. ChipMod - 1
  BY PotsFields DEF Pot, Chips
<1>2. c \in [Seats -> Int]
  BY ChipModAssumption DEF Chips
<1> QED BY <1>1, <1>2, WrappedSum, SumType, SeatsAssumption DEF Chips

\* Adding wrapped chips is adding the chips.
LEMMA WrapOnce ==
  ASSUME NEW i \in Int, NEW j \in Int
  PROVE  /\ (i + (j % ChipMod)) % ChipMod = (i + j) % ChipMod
         /\ j % ChipMod \in Int
<1>1. (i + (j % ChipMod)) % ChipMod = (i + j) % ChipMod
  BY ModPlus, ChipModAssumption
<1> QED BY <1>1, ChipModAssumption

\* Player p takes the m chips in front of it back and puts a there; c are its
\* other chips, t the main pot's and s the sum of the players' chips.
LEMMA MovesOut ==
  ASSUME NEW t \in Chips, NEW s \in Int, NEW c \in Chips, NEW m \in Chips, NEW a \in Chips
  PROVE  (Plus(t, Minus(a, m)) + (s - c + Minus(Plus(c, m), a))) % ChipMod = (t + s) % ChipMod
<1>1. t \in Int /\ c \in Int /\ m \in Int /\ a \in Int
  BY ChipModAssumption DEF Chips
<1> DEFINE u == t + (a - m)
           v == (c + m) - a
           wrapped(i) == i % ChipMod
<1>2. u \in Int /\ v \in Int /\ a - m \in Int /\ c + m \in Int /\ 0 - a \in Int
  BY <1>1
<1>3. wrapped(u) \in Int /\ wrapped(v) \in Int /\ wrapped(a - m) \in Int /\ wrapped(c + m) \in Int
  BY <1>2, WrapOnce
<1>4. \A i, j \in Int : wrapped(i + wrapped(j)) = wrapped(i + j)
  BY WrapOnce
<1>5. Plus(t, Minus(a, m)) = wrapped(t + wrapped(a - m))
      /\ Minus(Plus(c, m), a) = wrapped(wrapped(c + m) - a)
  BY DEF Plus, Minus
<1> HIDE DEF wrapped
<1>6. Plus(t, Minus(a, m)) = wrapped(u)
  BY <1>1, <1>2, <1>4, <1>5
<1>7. Minus(Plus(c, m), a) = wrapped(v)
  <2>1. wrapped((0 - a) + wrapped(c + m)) = wrapped((0 - a) + (c + m))
    BY <1>2, <1>4
  <2>2. (0 - a) + wrapped(c + m) = wrapped(c + m) - a /\ (0 - a) + (c + m) = v
    BY <1>1, <1>3
  <2> QED BY <1>5, <2>1, <2>2
<1> HIDE DEF u, v
<1>8. wrapped((wrapped(u) + (s - c)) + wrapped(v)) = wrapped((wrapped(u) + (s - c)) + v)
  <2>1. wrapped(u) + (s - c) \in Int
    BY <1>1, <1>3
  <2> QED BY <1>2, <1>4, <2>1
<1>9. wrapped(((s - c) + v) + wrapped(u)) = wrapped(((s - c) + v) + u)
  <2>1. (s - c) + v \in Int
    BY <1>1, <1>2
  <2> QED BY <1>2, <1>4, <2>1
<1>10. /\ wrapped(u) + (s - c + wrapped(v)) = (wrapped(u) + (s - c)) + wrapped(v)
       /\ (wrapped(u) + (s - c)) + v = ((s - c) + v) + wrapped(u)
  BY <1>1, <1>2, <1>3
<1>11. ((s - c) + v) + u = t + s
  BY <1>1 DEF u, v
<1>12. wrapped(wrapped(u) + (s - c + wrapped(v))) = wrapped(t + s)
  BY <1>8, <1>9, <1>10, <1>11
<1> QED BY <1>6, <1>7, <1>12 DEF wrapped

\* Closing the side pots leaves the chips in the main pot alone.
LEMMA ClosingKeepsTotal ==
  ASSUME NEW P \in AllPots
  PROVE  /\ PublicInfo(P).main.total = P.main.total
         /\ CloseSidePots(CalculateSidePotTotals(P)).main.total = P.main.total
<1>1. PublicInfo(P).main.total = P.main.total
  BY DEF PublicInfo, AllPots, Pot
<1>2. CalculateSidePotTotals(P).main = P.main
  BY DEF CalculateSidePotTotals, AllPots
<1>3. CalculateSidePotTotals(P) \in AllPots
  BY CalculateSidePotTotalsType
<1> QED BY <1>1, <1>2, <1>3 DEF CloseSidePots, AllPots, Pot

\* The end of a turn leaves the chips in the main pot alone, and side pots
\* where there are some.
LEMMA EndTurnKeepsTotal ==
  ASSUME NEW P \in AllPots, NEW a, NEW cur, NEW st \in BettingStates, EndTurn(a, cur, st, P)
  PROVE  /\ pots'.main.total = P.main.total /\ (IsEmpty(pots') => IsEmpty(P))
         /\ phase' \in {"Open", "PostBetting", "FinishRound"}
<1> DEFINE t == SetNextPlayerTurn(a, cur, st, P)
<1>1. pots' \in {t.pots, PublicInfo(t.pots)} /\ phase' = PhaseAfter(t.state)
  BY DEF EndTurn
<1>2. t.pots = P \/ t.pots = CloseSidePots(CalculateSidePotTotals(P))
  BY DEF SetNextPlayerTurn, BettingStates
<1>3. t.pots \in AllPots /\ (IsEmpty(pots') => IsEmpty(P))
  BY <1>1, TurnKeepsPots
<1> HIDE DEF t
<1>4. t.pots.main.total = P.main.total
  BY <1>2, ClosingKeepsTotal
<1>5. PublicInfo(t.pots).main.total = t.pots.main.total
  BY <1>3, ClosingKeepsTotal
<1>6. phase' \in {"Open", "PostBetting", "FinishRound"}
  BY <1>1 DEF PhaseAfter
<1> QED BY <1>1, <1>3, <1>4, <1>5, <1>6

\* Player p has put the given amount in front of it and the difference into
\* the main pot.
PaysIn(p, amount) ==
  /\ \E kind : Put(p, kind, amount)
  /\ pots'.main.total = Plus(pots.main.total, Minus(amount, amt[p]))

\* Player p has not moved any chips.
Passes == /\ UNCHANGED << amt, chips >>
          /\ pots'.main.total = pots.main.total

\* A turn without side pots afterwards.
LEMMA TurnPays ==
  ASSUME IInv, NEW p \in Seats, Turn(p), ~Panic, IsEmpty(pots')
  PROVE  /\ IsEmpty(pots) /\ phase = "Open" /\ pots' \in AllPots
         /\ phase' \in {"Open", "PostBetting", "FinishRound"}
         /\ \/ Passes
            \/ \E a \in Bets : a <= Full(p) /\ bet < a /\ BetAmount(p, a) \in Chips
                               /\ MayAct(p) /\ PaysIn(p, BetAmount(p, a))
            \/ bet < Full(p) /\ bet \in Chips /\ PaysIn(p, bet)
<1>1. MayAct(p)
  BY DEF Turn, AllIn, Bet, Call, Check, Fold
<1>2. /\ PlayersType /\ state \in BettingStates /\ pots \in AllPots /\ p \in NonFolded(act)
      /\ p \in Members(curPlayers) /\ curPlayers \in Seq(Seats) /\ Distinct(curPlayers)
      /\ bet \in Chips /\ phase = "Open" /\ amt[p] \in Chips /\ Full(p) \in Chips
  BY <1>1, ActorKnown, FullType DEF PlayersType
<1>3. IInv'
  BY ActionKeeps
<1>4. pots' \in AllPots
  <2>1. TypeOK'
    BY <1>3 DEF IInv
  <2> QED BY <2>1 DEF TypeOK
<1>5. "PlayerRaised" \in BettingStates /\ (state = "PlayerRaised") \in BOOLEAN
  BY DEF BettingStates
<1>6. ASSUME AllIn(p) PROVE FALSE
  <2> DEFINE amount == AllInAmount(p)
             raises == ~BettingIsImpossible /\ amount > bet
             cur == IF raises THEN SetHead(curPlayers, p) ELSE curPlayers
             st == IF raises THEN "PlayerRaised" ELSE state
             newBet == IF raises THEN amount ELSE bet
             P == HandleSidePots(pots, StepOf(p, "AllIn", amount, cur, newBet, st = "PlayerRaised"))
  <2>1. EndTurn([act EXCEPT ![p] = "AllIn"], cur, st, P)
    BY <1>6 DEF AllIn
  <2>2. amount \in Chips
    BY <1>2, AmountsType, ChipArithmetic
  <2> HIDE DEF amount
  <2>3. cur \in Seq(Seats) /\ p \in Members(cur) /\ st \in BettingStates /\ newBet \in Chips
        /\ (st = "PlayerRaised") \in BOOLEAN
    BY <1>2, <1>5, <2>2, SetHeadKeeps
  <2> HIDE DEF cur, st, newBet
  <2>4. P \in AllPots /\ ~IsEmpty(P)
    BY <1>2, <2>2, <2>3, PotsAfter
  <2> HIDE DEF P
  <2> QED BY <2>1, <2>3, <2>4, EndTurnKeepsTotal
<1>7. ASSUME NEW a \in Bets, Bet(p, a)
      PROVE  /\ IsEmpty(pots) /\ phase' \in {"Open", "PostBetting", "FinishRound"}
             /\ a <= Full(p) /\ bet < a /\ BetAmount(p, a) \in Chips
             /\ PaysIn(p, BetAmount(p, a))
  <2> DEFINE kind == IF a = Full(p) THEN "AllIn" ELSE "Bet"
             amount == BetAmount(p, a)
             h == StepOf(p, kind, amount, curPlayers, bet, state = "PlayerRaised")
             inMain == [pots EXCEPT !.main.total = Plus(@, Minus(amount, amt[p]))]
             sided == kind = "AllIn" \/ ~IsEmpty(pots)
             P == IF sided THEN HandleSidePots(pots, h) ELSE inMain
  <2>1. /\ Put(p, kind, amount) /\ a > bet /\ a <= Full(p)
        /\ EndTurn([act EXCEPT ![p] = kind], SetHead(curPlayers, p), "PlayerRaised", P)
    BY <1>7 DEF Bet
  <2>2. a \in Chips /\ amount \in Chips /\ kind \in {"AllIn", "Bet"}
    BY <1>2, AmountsType, TableAssumption
  <2> HIDE DEF amount, kind
  <2>3. HandleSidePots(pots, h) \in AllPots /\ ~IsEmpty(HandleSidePots(pots, h))
    BY <1>2, <1>5, <2>2, PotsAfter
  <2>4. inMain \in AllPots /\ (IsEmpty(inMain) <=> IsEmpty(pots))
    BY <1>2, <2>2, InMainPot
  <2>5. inMain.main.total = Plus(pots.main.total, Minus(amount, amt[p]))
    BY <1>2 DEF AllPots, Pot
  <2> HIDE DEF h, inMain
  <2>6. P \in AllPots
    BY <2>3, <2>4
  <2>7. /\ pots'.main.total = P.main.total /\ IsEmpty(P)
        /\ phase' \in {"Open", "PostBetting", "FinishRound"}
    <3> HIDE DEF P
    <3> QED BY <1>5, <2>1, <2>6, EndTurnKeepsTotal
  <2>8. IsEmpty(pots) /\ P = inMain
    BY <2>3, <2>4, <2>7
  <2>9. bet < a
    BY <1>2, <2>1, <2>2, ChipModAssumption DEF Chips
  <2> QED BY <2>1, <2>2, <2>5, <2>7, <2>8, <2>9 DEF PaysIn, amount
<1>8. ASSUME Call(p)
      PROVE  /\ IsEmpty(pots) /\ phase' \in {"Open", "PostBetting", "FinishRound"}
             /\ bet < Full(p) /\ PaysIn(p, bet)
  <2> DEFINE kind == IF bet >= Full(p) THEN "AllIn" ELSE "Call"
             amount == IF bet >= Full(p) THEN Full(p) ELSE bet
             h == StepOf(p, kind, amount, curPlayers, bet, state = "PlayerRaised")
             inMain == [pots EXCEPT !.main.total = Plus(@, Minus(bet, amt[p]))]
             sided == kind = "AllIn" \/ ~IsEmpty(pots)
             P == IF sided THEN HandleSidePots(pots, h) ELSE inMain
  <2>1. Put(p, kind, amount) /\ EndTurn([act EXCEPT ![p] = kind], curPlayers, state, P)
    BY <1>8 DEF Call
  <2>2. /\ amount \in Chips /\ kind \in {"AllIn", "Call"}
        /\ kind # "AllIn" => amount = bet /\ bet < Full(p)
    BY <1>2, ChipModAssumption DEF Chips
  <2> HIDE DEF amount, kind
  <2>3. HandleSidePots(pots, h) \in AllPots /\ ~IsEmpty(HandleSidePots(pots, h))
    BY <1>2, <1>5, <2>2, PotsAfter
  <2>4. inMain \in AllPots /\ (IsEmpty(inMain) <=> IsEmpty(pots))
    BY <1>2, InMainPot
  <2>5. inMain.main.total = Plus(pots.main.total, Minus(bet, amt[p]))
    BY <1>2 DEF AllPots, Pot
  <2> HIDE DEF h, inMain
  <2>6. P \in AllPots
    BY <2>3, <2>4
  <2>7. /\ pots'.main.total = P.main.total /\ IsEmpty(P)
        /\ phase' \in {"Open", "PostBetting", "FinishRound"}
    <3> HIDE DEF P
    <3> QED BY <1>2, <2>1, <2>6, EndTurnKeepsTotal
  <2>8. IsEmpty(pots) /\ P = inMain /\ kind # "AllIn"
    BY <2>3, <2>4, <2>7
  <2> QED BY <2>1, <2>2, <2>5, <2>7, <2>8 DEF PaysIn
<1>9. ASSUME Check(p) \/ Fold(p)
      PROVE  IsEmpty(pots) /\ phase' \in {"Open", "PostBetting", "FinishRound"} /\ Passes
  <2>1. PICK kind \in {"Check", "Fold"} :
          EndTurn([act EXCEPT ![p] = kind], curPlayers, state, pots)
    BY <1>9 DEF Check, Fold
  <2>2. UNCHANGED << amt, chips >>
    BY <1>9 DEF Check, Fold
  <2> QED BY <1>2, <2>1, <2>2, EndTurnKeepsTotal DEF Passes
<1> QED BY <1>1, <1>2, <1>4, <1>6, <1>7, <1>8, <1>9 DEF Turn

\* Who pays in moves chips from its stack to the main pot.
LEMMA PayKeepsMoney ==
  ASSUME TypeOK, NEW p \in Seats, NEW amount \in Chips, PaysIn(p, amount), pots' \in AllPots
  PROVE  Money' = Money
<1>1. chips \in [Seats -> Chips] /\ amt \in [Seats -> Chips] /\ pots \in AllPots
  BY DEF TypeOK
<1> DEFINE left == Minus(Plus(chips[p], amt[p]), amount)
<1>2. chips' = [chips EXCEPT ![p] = left]
  BY DEF PaysIn, Put, Full
<1>3. left \in Chips
  BY <1>1, ChipArithmetic
<1> HIDE DEF left
<1>4. chips' \in [Seats -> Chips] /\ chips \in [Seats -> Int] /\ left \in Int
  BY <1>1, <1>2, <1>3, ChipModAssumption DEF Chips
<1>5. Sum(chips') = Sum(chips) - chips[p] + left
  <2>1. Sum([chips EXCEPT ![p] = left]) = Sum(chips) - chips[p] + left
    BY <1>4, SeatsAssumption, SumUpdate
  <2> QED BY <1>2, <2>1
<1>6. Money = (pots.main.total + Sum(chips)) % ChipMod
  BY <1>1, MoneyIs DEF Money
<1>7. Money' = (pots'.main.total + Sum(chips')) % ChipMod
  BY <1>4, MoneyIs DEF Money
<1>8. pots.main.total \in Chips /\ Sum(chips) \in Int /\ chips[p] \in Chips /\ amt[p] \in Chips
  BY <1>1, MoneyIs
<1>9. (Plus(pots.main.total, Minus(amount, amt[p])) + (Sum(chips) - chips[p] + left)) % ChipMod
        = (pots.main.total + Sum(chips)) % ChipMod
  BY <1>8, MovesOut DEF left
<1>10. pots'.main.total = Plus(pots.main.total, Minus(amount, amt[p]))
  BY DEF PaysIn
<1> QED BY <1>5, <1>6, <1>7, <1>9, <1>10

\* Who takes or gives up a seat is seen to do so.
LEMMA SeatsSeen ==
  ASSUME TypeOK,
         (\E p \in Seats : Join(p)) \/ (\E p \in Seats : Leave(p)) \/ (\E p \in Seats : LeaveLast(p))
  PROVE  Occupied(act') # Occupied(act)
<1>1. act \in [Seats -> Actions]
  BY DEF TypeOK
<1>2. ASSUME NEW p \in Seats, Join(p) PROVE Occupied(act') # Occupied(act)
  <2>1. act[p] = "VacantSeat" /\ act'[p] # "VacantSeat"
    BY <1>1, <1>2 DEF Join
  <2> QED BY <2>1 DEF Occupied
<1>3. ASSUME NEW p \in Seats, Leave(p) PROVE Occupied(act') # Occupied(act)
  <2>1. act[p] # "VacantSeat"
    BY <1>3 DEF Leave
  <2>2. PICK a \in [Seats -> Actions] : act' = [a EXCEPT ![p] = "VacantSeat"]
    BY <1>1, <1>3 DEF Leave, Unseat, Actions
  <2>3. act'[p] = "VacantSeat"
    BY <2>2
  <2> QED BY <2>1, <2>3 DEF Occupied
<1>4. ASSUME NEW p \in Seats, LeaveLast(p) PROVE Occupied(act') # Occupied(act)
  <2>1. act[p] # "VacantSeat" /\ Reset(None, << >>)
    BY <1>4 DEF LeaveLast
  <2>2. act'[p] = "VacantSeat"
    BY <2>1, TableAssumption DEF Reset
  <2> QED BY <2>1, <2>2 DEF Occupied
<1> QED BY <1>2, <1>3, <1>4

\* In a hand without side pots, the chips that leave a stack are in the main
\* pot: no step but the bets moves any before the pots are awarded.
THEOREM AlwaysBetsReachThePot ==
  ASSUME PausesInRounds
  PROVE  Spec => BetsReachThePot
<1> DEFINE A == (/\ phase \in {"Open", "PostBetting", "RunOut"} /\ state # "NotStarted"
                 /\ Occupied(act') = Occupied(act) /\ IsEmpty(pots'))
                => Money' = Money
<1>1. IInv /\ [Next]_vars => [A]_vars
  <2> SUFFICES ASSUME IInv, Next, phase \in {"Open", "PostBetting", "RunOut"},
                      state # "NotStarted", Occupied(act') = Occupied(act), IsEmpty(pots')
               PROVE  Money' = Money
    OBVIOUS
  <2>1. TypeOK
    BY DEF IInv
  <2>2. CASE \E p \in Seats : Turn(p)
    <3>1. PICK p \in Seats : Turn(p)
      BY <2>2
    <3>2. Panic => Money' = Money
      BY DEF Panic, players, Money
    <3>3. Passes => Money' = Money
      BY DEF Passes, Money
    <3>4. ~Panic => Passes \/ \E amount \in Chips : PaysIn(p, amount) /\ pots' \in AllPots
      <4>1. SUFFICES ASSUME ~Panic PROVE Passes \/ \E amount \in Chips : PaysIn(p, amount) /\ pots' \in AllPots
        OBVIOUS
      <4> QED BY <3>1, <4>1, TurnPays
    <3> QED BY <2>1, <3>2, <3>3, <3>4, PayKeepsMoney
  <2>3. CASE Request /\ ~\E p \in Seats : Turn(p)
    BY <2>1, <2>3, SeatsSeen DEF Request, StartGame
  <2>4. CASE Flow
    <3>1. ShowDownEarly \/ RunOut \/ RiverDone \/ DealStreet
      BY <2>4 DEF Flow, NewRound, Blinds, SmallBlindAllIn, BigBlindAllIn, BlindAllIn, FinishByFolds,
        NoHandsLeft, ShowHands, AwardSidePot, AwardDone, AbandonPots, AbandonToLast,
        AbandonToJoiner, Eliminate, RemoveEliminated, EliminationDone, GameOver
    <3>2. UNCHANGED << chips, pots >>
      BY <3>1 DEF ShowDownEarly, RunOut, RiverDone, DealStreet, Panic, players
    <3> QED BY <3>2 DEF Money
  <2> QED BY <2>2, <2>3, <2>4 DEF Next
<1>2. Spec => [][A]_vars
  BY <1>1, AlwaysIInv, PTL DEF Spec
<1> QED BY <1>2, PTL DEF BetsReachThePot

-----------------------------------------------------------------------------
(* A hand from any stacks: the invariants of the game hold in it, too,     *)
(* without a condition on the blinds, which the players may not afford.    *)

\* Every step of the hand is one of the game.
LEMMA HandStep ==
  ASSUME [HandNext]_vars
  PROVE  \/ \E p \in Seats : Turn(p)
         \/ \E p \in Seats : Leave(p)
         \/ Flow
         \/ UNCHANGED vars
  BY HandAssumption DEF HandNext

\* The hand begins with the players in their seats, the blinds to come.
LEMMA HandStart ==
  ASSUME HandInit
  PROVE  BetsInv /\ PotsInv
<1>1. /\ Order \in Seq(Seats) /\ Distinct(Order) /\ Members(Order) = Seats /\ Len(Order) >= 2
      /\ Order[1] \in Seats
  BY HandAssumption
<1>2. /\ act = [s \in Seats |-> "FirstAction"] /\ amt = [s \in Seats |-> 0]
      /\ activePlayers = Order /\ curPlayers = Order /\ curPlayer = Order[1]
      /\ {dealer, smallBlind, bigBlind} \subseteq Seats
      /\ numPlayers = Len(Order) /\ state = "NewRound" /\ commState = "River" /\ phase = "Blinds"
      /\ pots.order = << >> /\ winners \subseteq Seats
  <2>1. dealer = Order[1] /\ smallBlind = NextOf(Order, dealer) /\ bigBlind = NextOf(Order, smallBlind)
    BY DEF HandInit
  <2>2. \A p \in Seats : NextOf(Order, p) \in Seats
    BY <1>1, NextOfKeeps
  <2> QED BY <1>1, <2>1, <2>2 DEF HandInit, NoPots
<1>3. TypeOK
  <2>1. 0 \in Chips
    BY ChipModAssumption DEF Chips
  <2>2. chips \in [Seats -> Chips]
    BY HandAssumption DEF HandInit
  <2>3. NoPots \in AllPots /\ NoPots.main \in Pot
    BY NoPotsType, PotsFields
  <2>4. pots \in AllPots
    <3>1. pots = [NoPots EXCEPT !.main.bet = Ante] /\ Ante \in Chips
      BY TableAssumption DEF HandInit
    <3> QED BY <2>3, <3>1 DEF AllPots, Pot
  <2>5. ante \in Chips /\ bet \in Chips /\ roundCount \in Nat /\ nextPot \in Nat
        /\ numPlayers \in Nat /\ rank \in [Seats -> Nat]
    BY <1>1, TableAssumption DEF HandInit
  <2> QED BY <1>1, <1>2, <2>1, <2>2, <2>4, <2>5
          DEF TypeOK, Actions, States, CommStates, FlowPhases
<1>4. IInv
  <2>1. Occupied(act) = Seats
    BY <1>2 DEF Occupied
  <2> QED BY <1>1, <1>2, <1>3, <2>1
          DEF IInv, Seated, Dealt, Waiting, Posting, Ending
<1>5. RiverInv
  BY <1>2, <1>4 DEF RiverInv, Posted, ShowdownAtRiver
<1>6. TurnInv
  <2>1. SameRing(curPlayers, activePlayers)
    BY <1>1, <1>2, RingsAlike
  <2> QED BY <1>2, <1>5, <2>1 DEF TurnInv, RiverInv, OneRing, ActInOrder, EveryoneActed, Betting
<1>7. Funded /\ Called /\ EveryoneCalled
  BY <1>2 DEF Funded, Called, EveryoneCalled, Betting
<1>8. PotsNamed
  BY <1>2, NoneStacked DEF PotsNamed, Members
<1> QED BY <1>5, <1>6, <1>7, <1>8 DEF BetsInv, PotsInv, RiverInv

\* The lists and the turns.
LEMMA HandKeepsTurns ==
  ASSUME TurnInv, ShowdownAtRiver, [HandNext]_vars
  PROVE  TurnInv' /\ ShowdownAtRiver'
<1>1. IInv /\ Posted /\ ShowdownAtRiver /\ Orderly
  BY DEF TurnInv, Orderly
<1>2. IInv'
  BY <1>1, HandStep, ActionKeeps, LeaveKeeps, FlowKeeps,
     StutterKeeps
<1>3. Posted' /\ ShowdownAtRiver'
  BY <1>1, HandStep, TurnAtRiver, LeaveAtRiver, FlowAtRiver, StutterAtRiver
<1>4. ASSUME Flow PROVE Orderly'
  BY <1>4, NewRoundInOrder, BlindsInOrder, SmallBlindInOrder, BigBlindInOrder, DealInOrder,
     FinishInOrder, RemovalInOrder, GameOverInOrder DEF Flow
<1>5. ASSUME UNCHANGED vars PROVE Orderly'
  BY <1>1, <1>5, StutterInOrder
<1>6. Orderly'
  BY <1>4, <1>5, HandStep, TurnInOrder, LeaveInOrder
<1> QED BY <1>2, <1>3, <1>6 DEF TurnInv, Orderly

\* The bets.
LEMMA HandKeepsBets ==
  ASSUME BetsInv, [HandNext]_vars
  PROVE  BetsInv'
<1>1. TurnInv /\ ShowdownAtRiver /\ Funded /\ Called /\ EveryoneCalled /\ IInv
  BY DEF BetsInv, TurnInv
<1>2. TurnInv' /\ ShowdownAtRiver'
  BY <1>1, HandKeepsTurns
<1>3. ASSUME NEW p \in Seats, Turn(p) PROVE Funded' /\ Called' /\ EveryoneCalled'
  <2>1. Panic => Funded' /\ Called' /\ EveryoneCalled'
    BY <1>1, PanicKeepsFunded, QuietKeepsCalled DEF Panic
  <2> QED BY <1>1, <1>2, <1>3, <2>1, TurnKeepsFunded, TurnKeepsCalled
<1>4. ASSUME NEW p \in Seats, Leave(p) PROVE Funded' /\ Called' /\ EveryoneCalled'
  BY <1>1, <1>4, LeaveKeepsFunded, LeaveKeepsCalled
<1>5. ASSUME Flow PROVE Funded'
  BY <1>1, <1>5, NewRoundKeepsFunded, BlindsKeepFunded, BlindAllInKeepsFunded, DealKeepsFunded,
     FinishKeepsFunded, RemovalKeepsFunded, GameOverKeepsFunded DEF Flow
<1>6. ASSUME Flow PROVE Called' /\ EveryoneCalled'
  BY <1>1, <1>6, ClearingKeepsCalled, BlindsKeepCalled, BlindAllInKeepsCalled, DealKeepsCalled,
     FinishKeepsCalled DEF Flow
<1>7. ASSUME UNCHANGED vars PROVE Funded' /\ Called' /\ EveryoneCalled'
  BY <1>1, <1>7, StutterKeepsFunded, StutterKeepsCalled
<1> QED BY <1>2, <1>3, <1>4, <1>5, <1>6, <1>7, HandStep DEF BetsInv

\* The side pots.
LEMMA HandKeepsPots ==
  ASSUME PotsInv, IInv', [HandNext]_vars
  PROVE  PotsNamed'
<1>1. RiverInv /\ IInv /\ PotsNamed
  BY DEF PotsInv, RiverInv
<1>2. ASSUME NEW p \in Seats, Turn(p) PROVE PotsNamed'
  BY <1>1, <1>2, TurnKeepsNamed, PanicKeepsNamed
<1>3. ASSUME Flow PROVE PotsNamed'
  BY <1>1, <1>3, FreshKeepsNamed, BlindsKeepNamed, BlindAllInKeepsNamed, DealKeepsNamed,
     FinishKeepsNamed, RemovalKeepsNamed DEF Flow
<1>4. ASSUME UNCHANGED vars PROVE PotsNamed'
  BY <1>1, <1>4, StutterKeepsNamed
<1> QED BY <1>1, <1>2, <1>3, <1>4, HandStep, LeaveKeepsNamed

\* In a hand from any stacks, whoever leaves: the lists, the turns and the bets
\* keep their order.
THEOREM HandKeepsBetsInv == HandSpec => []BetsInv
<1>1. HandInit => BetsInv
  BY HandStart
<1>2. BetsInv /\ [HandNext]_vars => BetsInv'
  BY HandKeepsBets
<1> QED BY <1>1, <1>2, PTL DEF HandSpec

\* The open side pots lie on the main pot in the order of their bets, and only
\* who is all-in has given one its name.
THEOREM HandKeepsPotsInv == HandSpec => []PotsInv
<1>1. HandInit => PotsInv
  BY HandStart
<1>2. PotsInv /\ BetsInv' /\ [HandNext]_vars => PotsInv'
  BY HandKeepsPots DEF PotsInv, BetsInv, TurnInv, RiverInv
<1> QED BY <1>1, <1>2, HandKeepsBetsInv, PTL DEF HandSpec

\* However stacks and departures shorten it, the betting list goes around the
\* table as the active players do.
THEOREM HandKeepsRing == HandSpec => []RingOrder
<1>1. BetsInv => RingOrder
  BY RingIsOrdered DEF BetsInv
<1> QED BY <1>1, HandKeepsBetsInv, PTL

\* Every player still betting has acted in a street that is over.
THEOREM HandKeepsActing == HandSpec => []EveryoneActed
<1>1. BetsInv => EveryoneActed
  BY DEF BetsInv, TurnInv
<1> QED BY <1>1, HandKeepsBetsInv, PTL

\* The open all-in pots are in the order of their bets, whatever the stacks of
\* those who went all-in.
THEOREM HandKeepsOrder == HandSpec => []PotsOrdered
<1>1. PotsInv => PotsOrdered
  BY DEF PotsInv, PotsNamed, PotsOrdered, Stacked
<1> QED BY <1>1, HandKeepsPotsInv, PTL

\* The turn passes to the next player around the table who may bet, also past
\* those who went all-in or left.
THEOREM HandPassesTurn == HandSpec => TurnPasses
<1> DEFINE On == Betting /\ Betting' /\ curPlayer' # curPlayer =>
                   curPlayer' = NextAround(curPlayer, Eligible(act'))
<1>1. BetsInv /\ BetsInv' /\ [HandNext]_vars => [On]_vars
  <2> SUFFICES ASSUME BetsInv, BetsInv', [HandNext]_vars PROVE [On]_vars
    OBVIOUS
  <2>1. [Next]_vars
    BY HandStep DEF Next, Request
  <2>2. TurnInv /\ TurnInv'
    BY DEF BetsInv
  <2> QED BY <2>1, <2>2, StepPassesTurn
<1> QED BY <1>1, HandKeepsBetsInv, PTL DEF HandSpec, TurnPasses

-----------------------------------------------------------------------------
(* What the pots ask for, and what an action makes of it.                  *)

\* Pots whose bets are old ones or in B ask for no others.
LEMMA AskedFrom ==
  ASSUME NEW P, NEW Q, NEW B,
         \A s \in Members(Q.order) :
           \/ Q.side[s].bet \in B
           \/ /\ s \in Members(P.order) /\ Q.side[s].bet = P.side[s].bet
              /\ P.side[s].closed => Q.side[s].closed,
         Q.main.closed \/ Q.main.bet \in B \/ (~P.main.closed /\ Q.main.bet = P.main.bet)
  PROVE  Asked(Q) \subseteq Asked(P) \cup B
  BY DEF Asked

\* A player joins pots.
LEMMA JoinsAsk ==
  ASSUME NEW P \in AllPots, NEW h \in Step
  PROVE  /\ Asked(JoinMainPot(P, h)) \subseteq Asked(P)
         /\ Asked(JoinLowerPots(P, h)) \subseteq Asked(P)
         /\ Asked(BetOrCall(P, h)) \subseteq Asked(P)
         /\ JoinMainPot(P, h).hasBetting = P.hasBetting
         /\ JoinLowerPots(P, h).hasBetting = P.hasBetting
         /\ BetOrCall(P, h).hasBetting = P.hasBetting
<1>1. /\ JoinMainPot(P, h).order = P.order /\ JoinMainPot(P, h).side = P.side
      /\ JoinMainPot(P, h).main.closed = P.main.closed /\ JoinMainPot(P, h).main.bet = P.main.bet
  BY PotsFields DEF JoinMainPot, AllPots, Pot
<1>2. /\ JoinLowerPots(P, h).order = P.order /\ JoinLowerPots(P, h).main = P.main
      /\ \A s \in Seats : /\ JoinLowerPots(P, h).side[s].bet = P.side[s].bet
                          /\ JoinLowerPots(P, h).side[s].closed = P.side[s].closed
  BY PotsFields DEF JoinLowerPots, AddTo, AllPots, Pot
<1>3. /\ BetOrCall(P, h).order = P.order
      /\ BetOrCall(P, h).main.closed = P.main.closed /\ BetOrCall(P, h).main.bet = P.main.bet
      /\ \A s \in Seats : /\ BetOrCall(P, h).side[s].bet = P.side[s].bet
                          /\ BetOrCall(P, h).side[s].closed = P.side[s].closed
  BY PotsFields DEF BetOrCall, AddTo, AllPots, Pot
<1>4. Members(P.order) \subseteq Seats
  BY PotsFields, MembersType
<1>5. /\ Asked(JoinMainPot(P, h)) \subseteq Asked(P) \cup {}
      /\ Asked(JoinLowerPots(P, h)) \subseteq Asked(P) \cup {}
      /\ Asked(BetOrCall(P, h)) \subseteq Asked(P) \cup {}
  BY <1>1, <1>2, <1>3, <1>4, AskedFrom
<1>6. /\ JoinMainPot(P, h).hasBetting = P.hasBetting
      /\ JoinLowerPots(P, h).hasBetting = P.hasBetting
      /\ BetOrCall(P, h).hasBetting = P.hasBetting
  BY DEF JoinMainPot, JoinLowerPots, BetOrCall, AllPots
<1> QED BY <1>5, <1>6

\* Whom the order of the pots names when a pot is added.
LEMMA AddedTo ==
  ASSUME NEW order \in Seq(Seats), NEW s \in Seats
  PROVE  /\ Members(Append(order, s)) \subseteq Members(order) \cup {s}
         /\ Members(<< s >> \o order) \subseteq Members(order) \cup {s}
         /\ \A k \in 1 .. Len(order) : Members(Insert(order, s, k)) \subseteq Members(order) \cup {s}
<1> DEFINE n == Len(order)
<1>1. n \in Nat /\ DOMAIN order = 1 .. n
  OBVIOUS
<1>2. /\ DOMAIN Append(order, s) = 1 .. n + 1
      /\ \A i \in 1 .. n + 1 : Append(order, s)[i] = IF i <= n THEN order[i] ELSE s
  BY <1>1
<1>3. /\ DOMAIN (<< s >> \o order) = 1 .. n + 1
      /\ \A i \in 1 .. n + 1 : (<< s >> \o order)[i] = IF i <= 1 THEN s ELSE order[i - 1]
  BY <1>1
<1>4. ASSUME NEW k \in 1 .. n
      PROVE  \A i \in DOMAIN Insert(order, s, k) :
               Insert(order, s, k)[i] = s \/ \E j \in 1 .. n : Insert(order, s, k)[i] = order[j]
  <2> DEFINE after == IF k = 1 THEN 1 ELSE k + 1
  <2>1. /\ DOMAIN Insert(order, s, k) = 1 .. n + 1 /\ k <= after /\ after \in Nat
        /\ \A i \in 1 .. n + 1 : Insert(order, s, k)[i] =
             IF i < k THEN order[i] ELSE IF i <= after THEN s ELSE order[i - 1]
    BY <1>4, InsertIs
  <2>2. ASSUME NEW i \in 1 .. n + 1
        PROVE  Insert(order, s, k)[i] = s \/ \E j \in 1 .. n : Insert(order, s, k)[i] = order[j]
    <3>1. CASE i < k
      <4>1. i \in 1 .. n
        BY <1>1, <3>1
      <4> QED BY <2>1, <3>1, <4>1
    <3>2. CASE ~(i < k) /\ i <= after
      BY <2>1, <3>2
    <3>3. CASE ~(i < k) /\ ~(i <= after)
      <4>1. i - 1 \in 1 .. n
        BY <1>1, <2>1, <3>3
      <4> QED BY <2>1, <3>3, <4>1
    <3> QED BY <3>1, <3>2, <3>3
  <2> QED BY <2>1, <2>2
<1>5. Members(Append(order, s)) \subseteq Members(order) \cup {s}
  BY <1>1, <1>2 DEF Members
<1>6. Members(<< s >> \o order) \subseteq Members(order) \cup {s}
  <2>1. \A i \in 1 .. n + 1 : i <= 1 \/ i - 1 \in 1 .. n
    BY <1>1
  <2> QED BY <1>1, <1>3, <2>1 DEF Members
<1>7. \A k \in 1 .. n : Members(Insert(order, s, k)) \subseteq Members(order) \cup {s}
  BY <1>1, <1>4 DEF Members
<1> QED BY <1>5, <1>6, <1>7

\* A player adds a pot for its all-in.
LEMMA NewPotAsks ==
  ASSUME NEW P \in AllPots, NEW h \in Step
  PROVE  /\ Asked(AddLargestPot(P, h)) \subseteq Asked(P) \cup {h.amount}
         /\ ~P.main.closed => Asked(SplitMainPot(P, h)) \subseteq Asked(P) \cup {h.amount}
         /\ \A k \in 1 .. Len(P.order) :
              /\ Asked(InsertPot(P, h, k)) \subseteq Asked(P) \cup {h.amount}
              /\ InsertPot(P, h, k).hasBetting = P.hasBetting
         /\ AddLargestPot(P, h).hasBetting = P.hasBetting
         /\ SplitMainPot(P, h).hasBetting = P.hasBetting
<1> DEFINE p == h.player
           L == AddLargestPot(P, h)
           M == SplitMainPot(P, h)
<1>1. p \in Seats /\ P.order \in Seq(Seats) /\ Members(P.order) \subseteq Seats
  BY StepFields, PotsFields, MembersType
<1>2. /\ L.order = Append(P.order, p) /\ L.main = P.main /\ L.hasBetting = P.hasBetting
      /\ L.side[p].bet = h.amount /\ \A q \in Seats \ {p} : L.side[q] = P.side[q]
  BY <1>1, PotsFields DEF AddLargestPot, AllPots, NewPot
<1>3. /\ M.order = << p >> \o P.order /\ M.main.bet = h.amount /\ M.hasBetting = P.hasBetting
      /\ M.side[p].bet = P.main.bet /\ \A q \in Seats \ {p} : M.side[q] = P.side[q]
  BY <1>1, PotsFields DEF SplitMainPot, AllPots, Pot, NewPot
<1>4. ASSUME NEW k \in 1 .. Len(P.order)
      PROVE  LET I == InsertPot(P, h, k)
             IN  /\ I.order = Insert(P.order, p, k) /\ I.main = P.main /\ I.hasBetting = P.hasBetting
                 /\ I.side[p].bet = h.amount /\ \A q \in Seats \ {p} : I.side[q] = P.side[q]
  BY <1>1, PotsFields DEF InsertPot, AllPots, NewPot
<1> HIDE DEF L, M, p
<1> DEFINE With(Q, b) ==
             \A s \in Members(Q.order) :
               Q.side[s].bet = b \/ (s \in Members(P.order) /\ Q.side[s] = P.side[s])
<1>5. Asked(L) \subseteq Asked(P) \cup {h.amount}
  <2>1. Members(L.order) \subseteq Members(P.order) \cup {p}
    BY <1>1, <1>2, AddedTo
  <2>2. With(L, h.amount)
    BY <1>1, <1>2, <2>1
  <2> QED BY <1>2, <2>2, AskedFrom
<1>6. ~P.main.closed => Asked(M) \subseteq Asked(P) \cup {h.amount}
  <2>1. ~P.main.closed => Asked(M) \subseteq Asked(P) \cup {h.amount, P.main.bet}
    <3>1. Members(M.order) \subseteq Members(P.order) \cup {p}
      BY <1>1, <1>3, AddedTo
    <3>2. With(M, P.main.bet)
      BY <1>1, <1>3, <3>1
    <3> DEFINE B == {h.amount, P.main.bet}
    <3>3. P.main.bet \in B /\ M.main.bet \in B
      BY <1>3
    <3> HIDE DEF B
    <3>4. Asked(M) \subseteq Asked(P) \cup B
      BY <3>2, <3>3, AskedFrom
    <3> QED BY <3>4 DEF B
  <2>2. ~P.main.closed => P.main.bet \in Asked(P)
    BY DEF Asked
  <2> QED BY <2>1, <2>2
<1>7. ASSUME NEW k \in 1 .. Len(P.order)
      PROVE  /\ Asked(InsertPot(P, h, k)) \subseteq Asked(P) \cup {h.amount}
             /\ InsertPot(P, h, k).hasBetting = P.hasBetting
  <2> DEFINE I == InsertPot(P, h, k)
  <2>1. /\ I.order = Insert(P.order, p, k) /\ I.main = P.main /\ I.hasBetting = P.hasBetting
        /\ I.side[p].bet = h.amount /\ \A q \in Seats \ {p} : I.side[q] = P.side[q]
    BY <1>4
  <2> HIDE DEF I
  <2>2. Members(I.order) \subseteq Members(P.order) \cup {p}
    BY <1>1, <2>1, AddedTo
  <2>3. With(I, h.amount)
    BY <1>1, <2>1, <2>2
  <2>4. Asked(I) \subseteq Asked(P) \cup {h.amount}
    BY <2>1, <2>3, AskedFrom
  <2> QED BY <2>1, <2>4 DEF I
<1> QED BY <1>2, <1>3, <1>5, <1>6, <1>7 DEF L, M

\* A player goes all-in while side pots exist.
LEMMA LaterAllInAsks ==
  ASSUME NEW P \in AllPots, NEW h \in Step
  PROVE  /\ Asked(LaterAllIn(P, h)) \subseteq Asked(P) \cup {h.amount}
         /\ LaterAllIn(P, h).hasBetting = P.hasBetting
<1>1. ASSUME NEW Q \in AllPots
      PROVE  /\ Asked(AllInPots(Q, h)) \subseteq Asked(Q) \cup {h.amount}
             /\ AllInPots(Q, h).hasBetting = Q.hasBetting
  <2> DEFINE Reached == {i \in OpenPots(Q) : BetAt(Q, i) >= h.amount}
             R == JoinLowerPots(Q, h)
  <2>1. R \in AllPots /\ Asked(R) \subseteq Asked(Q) /\ R.hasBetting = Q.hasBetting
    BY JoinLowerPotsType, JoinsAsk
  <2>2. Reached # {} => FirstOf(Reached) \in 1 .. Len(R.order)
    <3>1. R.order = Q.order
      BY DEF JoinLowerPots, AllPots
    <3>2. Reached \in SUBSET OpenPots(Q)
      OBVIOUS
    <3> HIDE DEF Reached
    <3> QED BY <3>1, <3>2, OpenPotsOrdered
  <2> HIDE DEF Reached, R
  <2>3. /\ Asked(AddLargestPot(R, h)) \subseteq Asked(R) \cup {h.amount}
        /\ AddLargestPot(R, h).hasBetting = R.hasBetting
        /\ \A k \in 1 .. Len(R.order) :
             /\ Asked(InsertPot(R, h, k)) \subseteq Asked(R) \cup {h.amount}
             /\ InsertPot(R, h, k).hasBetting = R.hasBetting
    BY <2>1, NewPotAsks
  <2>4. AllInPots(Q, h) \in {AddLargestPot(R, h), R, InsertPot(R, h, FirstOf(Reached))}
        /\ (Reached = {} => AllInPots(Q, h) = AddLargestPot(R, h))
    BY DEF AllInPots, R, Reached
  <2> QED BY <2>1, <2>2, <2>3, <2>4
<1>2. /\ JoinMainPot(P, h) \in AllPots /\ Asked(JoinMainPot(P, h)) \subseteq Asked(P)
      /\ JoinMainPot(P, h).hasBetting = P.hasBetting
  BY JoinMainPotType, JoinsAsk
<1>3. /\ ~P.main.closed => Asked(SplitMainPot(P, h)) \subseteq Asked(P) \cup {h.amount}
      /\ SplitMainPot(P, h).hasBetting = P.hasBetting
  BY NewPotAsks
<1>4. \/ LaterAllIn(P, h) = AllInPots(P, h)
      \/ LaterAllIn(P, h) = AllInPots(JoinMainPot(P, h), h)
      \/ LaterAllIn(P, h) = JoinMainPot(P, h)
      \/ ~P.main.closed /\ LaterAllIn(P, h) = SplitMainPot(P, h)
  BY DEF LaterAllIn
<1> QED BY <1>1, <1>2, <1>3, <1>4

\* What handleSidePots makes of the open pots: they ask for nothing new but what
\* the player goes all-in with.
LEMMA HandleSidePotsAsks ==
  ASSUME NEW P \in AllPots, NEW h \in Step, ~P.hasBetting => P.order = << >>
  PROVE  /\ Asked(HandleSidePots(P, h)) \subseteq
              (IF IsEmpty(P) THEN {} ELSE Asked(P))
                \cup (IF IsEmpty(P) \/ h.kind = "AllIn" THEN {h.amount} ELSE {})
         /\ HandleSidePots(P, h).hasBetting
<1>1. CASE IsEmpty(P)
  <2> DEFINE F == FirstSidePot(P, h)
  <2>1. F.order = << >> /\ F.main.bet = h.amount /\ F.hasBetting
    BY <1>1, PotsFields DEF FirstSidePot, IsEmpty, AllPots, Pot
  <2>2. Members(F.order) = {}
    BY <2>1 DEF Members
  <2> HIDE DEF F
  <2>3. Asked(F) \subseteq {h.amount}
    BY <2>1, <2>2 DEF Asked
  <2>4. HandleSidePots(P, h) = F
    BY <1>1 DEF HandleSidePots, F
  <2> QED BY <1>1, <2>1, <2>3, <2>4
<1>2. CASE ~IsEmpty(P)
  <2>1. P.hasBetting
    BY <1>2, PotsFields DEF IsEmpty
  <2>2. HandleSidePots(P, h) = IF h.kind = "AllIn" THEN LaterAllIn(P, h) ELSE BetOrCall(P, h)
    BY <1>2 DEF HandleSidePots
  <2> QED BY <1>2, <2>1, <2>2, LaterAllInAsks, JoinsAsk
<1> QED BY <1>1, <1>2

\* Messages and the end of a street: all pots are closed then.
LEMMA ClosedAsk ==
  ASSUME NEW P \in AllPots
  PROVE  /\ Asked(PublicInfo(P)) = Asked(P)
         /\ PublicInfo(P).hasBetting = P.hasBetting /\ PublicInfo(P).order = P.order
         /\ LET Q == CloseSidePots(CalculateSidePotTotals(P))
            IN  /\ Q.hasBetting = P.hasBetting /\ Q.order = P.order
                /\ P.hasBetting => Asked(Q) = {}
<1>1. /\ PublicInfo(P).order = P.order /\ PublicInfo(P).side = P.side
      /\ PublicInfo(P).hasBetting = P.hasBetting
      /\ PublicInfo(P).main.bet = P.main.bet /\ PublicInfo(P).main.closed = P.main.closed
  BY PotsFields DEF PublicInfo, AllPots, Pot
<1> DEFINE C == CalculateSidePotTotals(P)
           Q == CloseSidePots(C)
<1>2. C \in AllPots /\ C.order = P.order /\ C.hasBetting = P.hasBetting
  BY CalculateSidePotTotalsType DEF CalculateSidePotTotals, AllPots
<1> HIDE DEF C
<1>3. Q.hasBetting = P.hasBetting /\ Q.order = P.order
  BY <1>2 DEF CloseSidePots, AllPots
<1>4. ASSUME P.hasBetting PROVE Asked(Q) = {}
  <2>1. Q.main.closed
    BY <1>2, <1>4, PotsFields DEF CloseSidePots, AllPots, Pot
  <2>2. \A s \in Members(C.order) : s \in Seats /\ \E i \in DOMAIN C.order : C.order[i] = s
    BY <1>2, PotsFields, MembersType DEF Members
  <2>3. \A s \in Members(C.order) :
          ~C.side[s].closed => \E i \in OpenPots(C) : C.order[i] = s
    BY <2>2 DEF OpenPots
  <2>4. \A s \in Seats : Q.side[s] = IF \E i \in OpenPots(C) : C.order[i] = s
                                     THEN [C.side[s] EXCEPT !.closed = TRUE] ELSE C.side[s]
    BY <1>2, <1>4 DEF CloseSidePots, AllPots
  <2>5. \A s \in Members(C.order) : Q.side[s].closed
    <3>1. \A s \in Seats : [C.side[s] EXCEPT !.closed = TRUE].closed
      BY <1>2, PotsFields DEF Pot
    <3> HIDE DEF Q
    <3> SUFFICES ASSUME NEW s \in Members(C.order) PROVE Q.side[s].closed
      OBVIOUS
    <3>2. CASE \E i \in OpenPots(C) : C.order[i] = s
      <4>1. Q.side[s] = [C.side[s] EXCEPT !.closed = TRUE]
        BY <2>2, <2>4, <3>2
      <4> QED BY <2>2, <3>1, <4>1
    <3>3. CASE ~\E i \in OpenPots(C) : C.order[i] = s
      <4>1. Q.side[s] = C.side[s]
        BY <2>2, <2>4, <3>3
      <4> QED BY <2>3, <3>3, <4>1
    <3> QED BY <3>2, <3>3
  <2> HIDE DEF Q
  <2> QED BY <1>2, <1>3, <2>1, <2>5 DEF Asked
<1>5. Asked(PublicInfo(P)) = Asked(P)
  BY <1>1 DEF Asked
<1> QED BY <1>1, <1>3, <1>4, <1>5 DEF C

-----------------------------------------------------------------------------
(* A player's turn in a hand that nobody leaves.                           *)

\* Every open pot asks for a bet of Asked, and what lies below the betting pot
\* is one of them, too, or nothing.
LEMMA AskedAre ==
  ASSUME NEW P \in AllPots
  PROVE  /\ \A i \in OpenPots(P) : BetAt(P, i) \in Asked(P)
         /\ ~P.main.closed => P.main.bet \in Asked(P)
         /\ BelowBettingPot(P) \in Asked(P) \cup {0}
<1>1. \A i \in OpenPots(P) : BetAt(P, i) \in Asked(P)
  BY DEF OpenPots, BetAt, Asked, Members
<1>2. ~P.main.closed => P.main.bet \in Asked(P)
  BY DEF Asked
<1>3. MainBase(P) \in Asked(P) \cup {0}
  BY <1>2 DEF MainBase
<1>4. BelowBettingPot(P) \in Asked(P) \cup {0}
  <2> DEFINE Lower == {i \in OpenPots(P) : BetAt(P, i) < P.betting.bet}
             below == IF Lower = {} THEN 0 ELSE BetAt(P, LastOf(Lower))
  <2>1. Lower \in SUBSET OpenPots(P)
    OBVIOUS
  <2>2. BelowBettingPot(P) = IF below = 0 THEN MainBase(P) ELSE below
    BY DEF BelowBettingPot
  <2> HIDE DEF Lower
  <2>3. Lower # {} => LastOf(Lower) \in OpenPots(P)
    BY <2>1, OpenPotsOrdered
  <2>4. below = 0 \/ below \in Asked(P)
    BY <1>1, <2>3
  <2> QED BY <1>3, <2>2, <2>4
<1> QED BY <1>1, <1>2, <1>4

\* All open pots can be called with the bet.
Covered(b) == ~IsEmpty(pots) => \A c \in Asked(pots) : c \in Nat /\ c <= b

\* Somebody is all-in with it.
Held(a, m) ==
  ~IsEmpty(pots) => \A c \in Asked(pots) : \E q \in Seats : a[q] = "AllIn" /\ c <= m[q]

\* What open pots ask for is a number of chips.
LEMMA AskedType ==
  ASSUME NEW P \in AllPots
  PROVE  Asked(P) \subseteq Nat
<1>1. P.main.bet \in Nat /\ \A s \in Seats : P.side[s].bet \in Nat
  BY PotsFields, ChipModAssumption DEF Pot, Chips
<1>2. Members(P.order) \subseteq Seats
  BY PotsFields, MembersType
<1> QED BY <1>1, <1>2 DEF Asked

\* What the actor knows of the pots.
LEMMA PotsKnown ==
  ASSUME IInv, Backed, NEW p \in Seats, MayAct(p)
  PROVE  /\ Covered(bet) /\ Held(act, amt) /\ act[p] # "AllIn"
         /\ ~pots.hasBetting => pots.order = << >>
<1>1. /\ phase = "Open" /\ state \in BettingStates /\ pots \in AllPots /\ p \in Eligible(act)
  BY ActorKnown
<1>2. Asked(pots) \subseteq Nat
  BY <1>1, AskedType
<1> QED BY <1>1, <1>2 DEF Backed, Betting, Covered, Held, Eligible

\* The chip leader cannot bet less than an open pot asks for.
LEMMA BetCoversPots ==
  ASSUME IInv, Funded, Backed, NEW p \in Seats, MayAct(p),
         NEW a \in Chips, a <= Full(p), bet < a
  PROVE  Covered(BetAmount(p, a))
<1>1. /\ PlayersType /\ Solvent /\ pots \in AllPots /\ p \in NonFolded(act)
      /\ \A q \in Seats : Full(q) = chips[q] + amt[q] /\ chips[q] \in Nat /\ amt[q] \in Nat
      /\ bet \in Chips /\ Full(p) \in Chips
  BY BettorKnown, FullIs
<1>2. Covered(bet) /\ Held(act, amt) /\ act[p] # "AllIn"
  BY PotsKnown
<1>3. bet \in Nat /\ a \in Nat
  BY <1>1, ChipModAssumption DEF Chips
<1> SUFFICES ASSUME ~IsEmpty(pots), NEW c \in Asked(pots)
             PROVE  c \in Nat /\ c <= BetAmount(p, a)
  BY DEF Covered
<1>4. c \in Nat /\ c <= a
  BY <1>2, <1>3 DEF Covered
<1>5. CASE BetAmount(p, a) = a
  BY <1>4, <1>5
<1>6. CASE BetAmount(p, a) # a
  <2>1. Full(p) = ChipLeader(p, Full(p)) /\ BetAmount(p, a) = SecondChipLeader(p, Full(p))
    BY <1>6 DEF BetAmount
  <2>2. PICK q \in Seats : act[q] = "AllIn" /\ c <= amt[q]
    BY <1>2 DEF Held
  <2>3. q \in NonFolded(act) \ {p}
    BY <1>2, <2>2 DEF NonFolded
  <2>4. Real(p, Full(p), q) <= SecondChipLeader(p, Full(p))
    BY <1>1, <2>1, <2>3, LeaderIs
  <2>5. Real(p, Full(p), q) = chips[q] + amt[q]
    BY <1>1, <2>3 DEF Real, Full
  <2>6. SecondChipLeader(p, Full(p)) \in Nat
    BY <1>1, ChipLeadersType, ChipModAssumption DEF Chips
  <2> QED BY <1>1, <1>4, <2>1, <2>2, <2>4, <2>5, <2>6
<1> QED BY <1>5, <1>6

\* The assertions of handleSidePots hold for a bet and a call.
LEMMA AssertsHold ==
  ASSUME IInv, Funded, Backed, NEW p \in Seats, MayAct(p), bet < Full(p),
         NEW kind \in {"AllIn", "Bet", "Call"}, NEW amount \in Chips,
         kind = "Bet" => Covered(amount)
  PROVE  SidePotAsserts(pots, StepOf(p, kind, amount, curPlayers, bet, state = "PlayerRaised"))
<1> DEFINE h == StepOf(p, kind, amount, curPlayers, bet, state = "PlayerRaised")
<1>1. h.player = p /\ h.kind = kind /\ h.full = Full(p) /\ h.amount = amount
  BY DEF StepOf
<1> HIDE DEF h
<1> SUFFICES ASSUME ~IsEmpty(pots), kind # "AllIn"
             PROVE  /\ ~pots.main.closed /\ p \notin pots.main.players => Full(p) >= pots.main.bet
                    /\ \A i \in OpenPots(pots) : Full(p) >= BetAt(pots, i)
                    /\ kind = "Bet" => BelowBettingPot(pots) <= amount
  BY <1>1 DEF SidePotAsserts, Reraises, h
<1>2. pots \in AllPots /\ bet \in Nat /\ Full(p) \in Nat /\ amount \in Nat
  BY BettorKnown, FullIs, ChipModAssumption DEF Chips
<1>3. \A c \in Asked(pots) : c \in Nat /\ c <= bet
  BY PotsKnown DEF Covered
<1>4. \A c \in Asked(pots) : Full(p) >= c
  BY <1>2, <1>3
<1>5. /\ \A i \in OpenPots(pots) : BetAt(pots, i) \in Asked(pots)
      /\ ~pots.main.closed => pots.main.bet \in Asked(pots)
      /\ BelowBettingPot(pots) \in Asked(pots) \cup {0}
  BY <1>2, AskedAre
<1>6. kind = "Bet" => \A c \in Asked(pots) \cup {0} : c <= amount
  BY <1>2 DEF Covered
<1> QED BY <1>4, <1>5, <1>6

\* A turn never stops the server.
LEMMA TurnNeverPanics ==
  ASSUME IInv, Funded, Backed, NEW p \in Seats, Turn(p)
  PROVE  ~Panic
<1>1. MayAct(p)
  BY DEF Turn, AllIn, Bet, Call, Check, Fold
<1>2. \A a, cur, st, P : EndTurn(a, cur, st, P) => ~Panic
  BY DEF EndTurn, PhaseAfter, Panic
<1>3. Full(p) \in Chips /\ bet \in Chips /\ PlayersType /\ p \in NonFolded(act)
  BY <1>1, BettorKnown, FullIs
<1>4. ASSUME NEW a \in Bets, Bet(p, a) PROVE ~Panic
  <2> DEFINE kind == IF a = Full(p) THEN "AllIn" ELSE "Bet"
             amount == BetAmount(p, a)
             asserted == SidePotAsserts(pots, StepOf(p, kind, amount, curPlayers, bet,
                                                     state = "PlayerRaised"))
  <2>1. a > bet /\ a <= Full(p) /\ a \in Chips
    BY <1>4, TableAssumption DEF Bet
  <2>2. bet < a /\ bet < Full(p)
    BY <1>3, <2>1, ChipModAssumption DEF Chips
  <2>3. amount \in Chips
    BY <1>3, <2>1, AmountsType
  <2>4. Covered(amount)
    BY <1>1, <2>1, <2>2, BetCoversPots
  <2>5. kind \in {"AllIn", "Bet", "Call"}
    OBVIOUS
  <2>6. ~asserted \/ \E x, cur, st, P : EndTurn(x, cur, st, P)
    BY <1>4 DEF Bet
  <2> HIDE DEF kind, amount
  <2>7. asserted
    BY <1>1, <2>2, <2>3, <2>4, <2>5, AssertsHold
  <2> QED BY <1>2, <2>6, <2>7
<1>5. ASSUME Call(p) PROVE ~Panic
  <2> DEFINE kind == IF bet >= Full(p) THEN "AllIn" ELSE "Call"
             amount == IF bet >= Full(p) THEN Full(p) ELSE bet
             asserted == SidePotAsserts(pots, StepOf(p, kind, amount, curPlayers, bet,
                                                     state = "PlayerRaised"))
  <2>1. ~asserted \/ \E x, cur, st, P : EndTurn(x, cur, st, P)
    BY <1>5 DEF Call
  <2>2. amount \in Chips /\ kind \in {"AllIn", "Bet", "Call"} /\ kind # "Bet"
    BY <1>3
  <2>3. kind # "AllIn" => bet < Full(p)
    BY <1>3, ChipModAssumption DEF Chips
  <2> HIDE DEF kind, amount
  <2>4. kind # "AllIn" => asserted
    BY <1>1, <2>2, <2>3, AssertsHold
  <2>5. kind = "AllIn" => asserted
    BY DEF SidePotAsserts, StepOf
  <2> QED BY <1>2, <2>1, <2>4, <2>5
<1>6. AllIn(p) \/ Check(p) \/ Fold(p) => \E x, cur, st, P : EndTurn(x, cur, st, P)
  BY DEF AllIn, Check, Fold
<1> QED BY <1>2, <1>4, <1>5, <1>6 DEF Turn

\* What the action of player p makes of the pots.
LeavesPots(p, kind, cur, st, P) ==
  /\ EndTurn([act EXCEPT ![p] = kind], cur, st, P)
  /\ P \in AllPots /\ (~P.hasBetting => P.order = << >>)
  /\ ~IsEmpty(P) => Asked(P) \subseteq (IF IsEmpty(pots) THEN {} ELSE Asked(pots))
                                        \cup (IF kind = "AllIn" THEN {amt'[p]} ELSE {})
  /\ Covered(bet')
  /\ kind = "AllIn" => amt'[p] \in Nat /\ amt'[p] <= bet'
  /\ \A s \in Seats \ {p} : amt'[s] = amt[s]

\* Chips go into the side pots.
LEMMA SidedAsks ==
  ASSUME PlayersType, pots \in AllPots, ~pots.hasBetting => pots.order = << >>,
         NEW cur \in Seq(Seats), NEW p \in Members(cur), NEW kind \in {"AllIn", "Bet", "Call"},
         NEW amount \in Chips, NEW newBet \in Chips, NEW raised \in BOOLEAN,
         kind = "AllIn" \/ ~IsEmpty(pots)
  PROVE  LET P == HandleSidePots(pots, StepOf(p, kind, amount, cur, newBet, raised))
         IN  /\ P \in AllPots /\ P.hasBetting
             /\ Asked(P) \subseteq (IF IsEmpty(pots) THEN {} ELSE Asked(pots))
                                  \cup (IF kind = "AllIn" THEN {amount} ELSE {})
<1> DEFINE h == StepOf(p, kind, amount, cur, newBet, raised)
<1>1. h \in Step
  BY StepOfType
<1>2. h.amount = amount /\ h.kind = kind
  BY DEF StepOf
<1> HIDE DEF h
<1>3. HandleSidePots(pots, h) \in AllPots
  BY <1>1, HandleSidePotsType
<1>4. HandleSidePots(pots, h).hasBetting
      /\ Asked(HandleSidePots(pots, h)) \subseteq
           (IF IsEmpty(pots) THEN {} ELSE Asked(pots))
             \cup (IF IsEmpty(pots) \/ h.kind = "AllIn" THEN {h.amount} ELSE {})
  BY <1>1, HandleSidePotsAsks
<1> QED BY <1>2, <1>3, <1>4 DEF h

\* Chips go into the main pot alone.
LEMMA InMainAsks ==
  ASSUME pots \in AllPots, ~pots.hasBetting => pots.order = << >>, IsEmpty(pots), NEW x \in Chips
  PROVE  LET P == [pots EXCEPT !.main.total = Plus(@, x)]
         IN  P \in AllPots /\ IsEmpty(P) /\ (~P.hasBetting => P.order = << >>)
<1> DEFINE P == [pots EXCEPT !.main.total = Plus(@, x)]
<1>1. P \in AllPots
  BY InMainType
<1>2. P.order = pots.order /\ P.hasBetting = pots.hasBetting
  BY DEF AllPots
<1> HIDE DEF P
<1>3. IsEmpty(P) /\ (~P.hasBetting => P.order = << >>)
  BY <1>2 DEF IsEmpty
<1> QED BY <1>1, <1>3 DEF P

\* Every action.
LEMMA ActionLeavesPots ==
  ASSUME IInv, Funded, Backed, NEW p \in Seats, Turn(p)
  PROVE  \E kind \in {"AllIn", "Bet", "Call", "Check", "Fold"},
            cur \in {curPlayers, SetHead(curPlayers, p)}, st \in BettingStates :
           \E P : LeavesPots(p, kind, cur, st, P)
<1>1. MayAct(p) /\ ~Panic
  BY TurnNeverPanics DEF Turn, AllIn, Bet, Call, Check, Fold
<1>2. /\ PlayersType /\ state \in BettingStates /\ pots \in AllPots /\ p \in NonFolded(act)
      /\ p \in Members(curPlayers) /\ curPlayers \in Seq(Seats) /\ Distinct(curPlayers)
      /\ bet \in Chips /\ Full(p) \in Chips /\ amt[p] \in Chips /\ amt \in [Seats -> Chips]
  BY <1>1, BettorKnown, FullIs DEF PlayersType
<1>3. /\ Covered(bet) /\ (~pots.hasBetting => pots.order = << >>)
  BY <1>1, PotsKnown
<1>4. "PlayerRaised" \in BettingStates /\ (state = "PlayerRaised") \in BOOLEAN
      /\ SetHead(curPlayers, p) \in Seq(Seats) /\ p \in Members(SetHead(curPlayers, p))
  BY <1>2, SetHeadKeeps DEF BettingStates
<1>5. \A kind, m : Put(p, kind, m) => amt'[p] = m /\ \A s \in Seats \ {p} : amt'[s] = amt[s]
  BY <1>2 DEF Put
<1>6. \A m \in Chips : m \in Nat
  BY ChipModAssumption DEF Chips
<1>7. ASSUME AllIn(p)
      PROVE  \E cur \in {curPlayers, SetHead(curPlayers, p)}, st \in BettingStates :
               \E P : LeavesPots(p, "AllIn", cur, st, P)
  <2> DEFINE amount == AllInAmount(p)
             raises == ~BettingIsImpossible /\ amount > bet
             cur == IF raises THEN SetHead(curPlayers, p) ELSE curPlayers
             st == IF raises THEN "PlayerRaised" ELSE state
             newBet == IF raises THEN amount ELSE bet
             P == HandleSidePots(pots, StepOf(p, "AllIn", amount, cur, newBet, st = "PlayerRaised"))
  <2>1. /\ Put(p, "AllIn", amount) /\ bet' = newBet
        /\ EndTurn([act EXCEPT ![p] = "AllIn"], cur, st, P)
    BY <1>7 DEF AllIn
  <2>2. amount \in Chips /\ amount \in Nat /\ bet \in Nat
    BY <1>2, <1>6, AmountsType
  <2>3. amount <= newBet /\ bet <= newBet /\ newBet \in Chips
    <3>1. BettingIsImpossible => amount <= bet
      BY <1>2, <1>6 DEF AllInAmount
    <3> HIDE DEF amount
    <3> QED BY <1>2, <2>2, <3>1
  <2> HIDE DEF amount
  <2>4. cur \in Seq(Seats) /\ p \in Members(cur) /\ st \in BettingStates
        /\ (st = "PlayerRaised") \in BOOLEAN /\ cur \in {curPlayers, SetHead(curPlayers, p)}
    BY <1>2, <1>4
  <2>5. newBet \in Nat
    BY <1>6, <2>3
  <2> HIDE DEF cur, st, newBet
  <2>6. /\ P \in AllPots /\ P.hasBetting
        /\ Asked(P) \subseteq (IF IsEmpty(pots) THEN {} ELSE Asked(pots)) \cup {amount}
    BY <1>2, <1>3, <2>2, <2>3, <2>4, SidedAsks
  <2> HIDE DEF P
  <2>7. Covered(bet')
    BY <1>3, <2>1, <2>2, <2>3, <2>5 DEF Covered
  <2>8. LeavesPots(p, "AllIn", cur, st, P)
    BY <1>5, <2>1, <2>2, <2>3, <2>6, <2>7 DEF LeavesPots
  <2> QED BY <2>4, <2>8
<1>8. ASSUME NEW a \in Bets, Bet(p, a)
      PROVE  \E kind \in {"AllIn", "Bet"} :
               \E P : LeavesPots(p, kind, SetHead(curPlayers, p), "PlayerRaised", P)
  <2> DEFINE kind == IF a = Full(p) THEN "AllIn" ELSE "Bet"
             amount == BetAmount(p, a)
             h == StepOf(p, kind, amount, curPlayers, bet, state = "PlayerRaised")
             inMain == [pots EXCEPT !.main.total = Plus(@, Minus(amount, amt[p]))]
             sided == kind = "AllIn" \/ ~IsEmpty(pots)
             P == IF sided THEN HandleSidePots(pots, h) ELSE inMain
  <2>1. /\ Put(p, kind, amount) /\ bet' = amount /\ a > bet /\ a <= Full(p)
        /\ EndTurn([act EXCEPT ![p] = kind], SetHead(curPlayers, p), "PlayerRaised", P)
    BY <1>1, <1>8 DEF Bet
  <2>2. a \in Chips /\ amount \in Chips /\ amount \in Nat /\ bet < a
    <3>1. a \in Chips
      BY TableAssumption
    <3> QED BY <1>2, <1>6, <2>1, <3>1, AmountsType
  <2>3. Covered(amount)
    BY <1>1, <2>1, <2>2, BetCoversPots
  <2>4. kind \in {"AllIn", "Bet", "Call"} /\ kind \in {"AllIn", "Bet"}
    OBVIOUS
  <2>5. Minus(amount, amt[p]) \in Chips
    BY <1>2, <2>2, ChipArithmetic
  <2> HIDE DEF amount, kind
  <2>6. sided => /\ HandleSidePots(pots, h) \in AllPots /\ HandleSidePots(pots, h).hasBetting
                 /\ Asked(HandleSidePots(pots, h)) \subseteq
                      (IF IsEmpty(pots) THEN {} ELSE Asked(pots))
                        \cup (IF kind = "AllIn" THEN {amount} ELSE {})
    BY <1>2, <1>3, <1>4, <2>2, <2>4, SidedAsks
  <2>7. ~sided => inMain \in AllPots /\ IsEmpty(inMain) /\ (~inMain.hasBetting => inMain.order = << >>)
    BY <1>2, <1>3, <2>5, InMainAsks
  <2> HIDE DEF h, inMain, sided
  <2>8. /\ P \in AllPots /\ (~P.hasBetting => P.order = << >>)
        /\ ~IsEmpty(P) => Asked(P) \subseteq (IF IsEmpty(pots) THEN {} ELSE Asked(pots))
                                             \cup (IF kind = "AllIn" THEN {amount} ELSE {})
    BY <2>6, <2>7
  <2> HIDE DEF P
  <2>9. amount <= amount
    BY <2>2
  <2>10. Covered(bet')
    BY <2>1, <2>3 DEF Covered
  <2>11. LeavesPots(p, kind, SetHead(curPlayers, p), "PlayerRaised", P)
    BY <1>5, <2>1, <2>2, <2>8, <2>9, <2>10 DEF LeavesPots
  <2> QED BY <2>4, <2>11
<1>9. ASSUME Call(p)
      PROVE  \E kind \in {"AllIn", "Call"} : \E P : LeavesPots(p, kind, curPlayers, state, P)
  <2> DEFINE kind == IF bet >= Full(p) THEN "AllIn" ELSE "Call"
             amount == IF bet >= Full(p) THEN Full(p) ELSE bet
             h == StepOf(p, kind, amount, curPlayers, bet, state = "PlayerRaised")
             inMain == [pots EXCEPT !.main.total = Plus(@, Minus(bet, amt[p]))]
             sided == kind = "AllIn" \/ ~IsEmpty(pots)
             P == IF sided THEN HandleSidePots(pots, h) ELSE inMain
  <2>1. /\ Put(p, kind, amount) /\ bet' = bet
        /\ EndTurn([act EXCEPT ![p] = kind], curPlayers, state, P)
    BY <1>1, <1>9 DEF Call
  <2>2. amount \in Chips /\ amount \in Nat /\ amount <= bet
    BY <1>2, <1>6
  <2>3. kind \in {"AllIn", "Bet", "Call"} /\ kind \in {"AllIn", "Call"}
    OBVIOUS
  <2>4. Minus(bet, amt[p]) \in Chips
    BY <1>2, ChipArithmetic
  <2> HIDE DEF amount, kind
  <2>5. sided => /\ HandleSidePots(pots, h) \in AllPots /\ HandleSidePots(pots, h).hasBetting
                 /\ Asked(HandleSidePots(pots, h)) \subseteq
                      (IF IsEmpty(pots) THEN {} ELSE Asked(pots))
                        \cup (IF kind = "AllIn" THEN {amount} ELSE {})
    BY <1>2, <1>3, <1>4, <2>2, <2>3, SidedAsks
  <2>6. ~sided => inMain \in AllPots /\ IsEmpty(inMain) /\ (~inMain.hasBetting => inMain.order = << >>)
    BY <1>2, <1>3, <2>4, InMainAsks
  <2> HIDE DEF h, inMain, sided
  <2>7. /\ P \in AllPots /\ (~P.hasBetting => P.order = << >>)
        /\ ~IsEmpty(P) => Asked(P) \subseteq (IF IsEmpty(pots) THEN {} ELSE Asked(pots))
                                             \cup (IF kind = "AllIn" THEN {amount} ELSE {})
    BY <2>5, <2>6
  <2> HIDE DEF P
  <2>8. Covered(bet')
    BY <1>3, <2>1 DEF Covered
  <2>9. LeavesPots(p, kind, curPlayers, state, P)
    BY <1>5, <2>1, <2>2, <2>7, <2>8 DEF LeavesPots
  <2> QED BY <2>3, <2>9
<1>10. ASSUME Check(p) \/ Fold(p)
       PROVE  \E kind \in {"Check", "Fold"} : LeavesPots(p, kind, curPlayers, state, pots)
  <2>1. amt' = amt /\ bet' = bet
    BY <1>10 DEF Check, Fold
  <2>2. PICK kind \in {"Check", "Fold"} : EndTurn([act EXCEPT ![p] = kind], curPlayers, state, pots)
    BY <1>10 DEF Check, Fold
  <2>3. Covered(bet')
    BY <1>3, <2>1 DEF Covered
  <2>4. LeavesPots(p, kind, curPlayers, state, pots)
    BY <1>2, <1>3, <2>1, <2>2, <2>3 DEF LeavesPots
  <2> QED BY <2>4
<1> QED BY <1>2, <1>4, <1>7, <1>8, <1>9, <1>10 DEF Turn

\* What stays true while nobody leaves, the chips aside.
Stays == AllStay /\ Contested /\ OnlyFoldWinsPanic /\ Backed

\* Everybody has a seat, and there are two of them at least.
LEMMA AllSeated ==
  ASSUME AllStay
  PROVE  /\ Occupied(act) = Seats
         /\ \A x : Seats # {x}
<1>1. Occupied(act) = Seats
  BY DEF AllStay, Occupied
<1>2. Order[1] \in Seats /\ Order[2] \in Seats /\ Order[1] # Order[2]
  BY HandAssumption, DistinctPositions
<1> QED BY <1>1, <1>2

\* A player's turn.
LEMMA TurnStays ==
  ASSUME BetsInv, AllStay, Contested, Backed, NEW p \in Seats, Turn(p)
  PROVE  Stays'
<1>1. IInv /\ Funded
  BY DEF BetsInv, TurnInv, RiverInv
<1>2. MayAct(p)
  BY DEF Turn, AllIn, Bet, Call, Check, Fold
<1>3. /\ TypeOK /\ phase = "Open" /\ state \in BettingStates /\ p = curPlayer /\ Seated
      /\ Members(curPlayers) = Eligible(act) /\ p \in Eligible(act) /\ p \in NonFolded(act)
      /\ curPlayers \in Seq(Seats) /\ Distinct(curPlayers) /\ act \in [Seats -> Actions]
  BY <1>1, <1>2, ActorKnown DEF TypeOK
<1>4. /\ Covered(bet) /\ Held(act, amt) /\ act[p] # "AllIn"
  BY <1>1, <1>2, PotsKnown
<1>5. PICK kind \in {"AllIn", "Bet", "Call", "Check", "Fold"},
           cur \in {curPlayers, SetHead(curPlayers, p)}, st \in BettingStates :
        \E P : LeavesPots(p, kind, cur, st, P)
  BY <1>1, ActionLeavesPots
<1>6. PICK P : LeavesPots(p, kind, cur, st, P)
  BY <1>5
<1>7. cur \in Seq(Seats) /\ Members(cur) = Members(curPlayers) /\ Distinct(cur)
  BY <1>3, SetHeadKeeps
<1> DEFINE a == [act EXCEPT ![p] = kind]
           t == SetNextPlayerTurn(a, cur, st, P)
<1>8. /\ act' = a /\ curPlayers' = t.cur /\ curPlayer' = t.curPlayer /\ state' = t.state
      /\ pots' \in {t.pots, PublicInfo(t.pots)} /\ phase' = PhaseAfter(t.state)
      /\ UNCHANGED << smallBlind, activePlayers >>
  BY <1>6 DEF LeavesPots, EndTurn, buttons
<1>9. a[p] = kind /\ \A s \in Seats \ {p} : a[s] = act[s]
  BY <1>3
<1>19. t = SetNextPlayerTurn(a, cur, st, P)
  OBVIOUS
<1> HIDE DEF a, t
<1>10. /\ Len(cur) = 1 => t.state \in {"RoundOver", "DoneBetting"}
       /\ Len(cur) # 1 => t.curPlayer = NextOf(cur, p) /\ t.state \in {"RoundOver", "DoneBetting", st}
  <2>1. curPlayer \in Members(cur) /\ p = curPlayer
    BY <1>3, <1>7
  <2>2. Len(cur) = 1 => t.state \in {"RoundOver", "DoneBetting"}
    BY <1>7, <1>19, <2>1, TurnGoesOn
  <2>3. Len(cur) # 1 => t.curPlayer = NextOf(cur, curPlayer)
    <3>1. st # "NotStarted"
      BY DEF BettingStates
    <3> QED BY <1>19, <2>1, <3>1 DEF SetNextPlayerTurn, NextTurn
  <2>4. Len(cur) # 1 => t.state \in {"RoundOver", "DoneBetting", st}
    BY <1>7, <1>19, <2>1, TurnGoesOn
  <2> QED BY <2>1, <2>2, <2>3, <2>4
<1>11. st \notin {"NotStarted", "RoundOver", "DoneBetting"}
  BY DEF BettingStates
<1>12. t.pots = IF t.state = "DoneBetting" THEN CloseSidePots(CalculateSidePotTotals(P)) ELSE P
  BY <1>11, <1>19 DEF SetNextPlayerTurn
<1>13. /\ Len(cur) # 1 /\ t.state # "RoundOver" => ~OneLeft(a, DropFolded(a, cur))
  BY <1>3, <1>7, <1>11, <1>19 DEF SetNextPlayerTurn
<1>14. /\ phase' \in {"Open", "PostBetting", "FinishRound"} /\ state' # "NotStarted"
       /\ phase' = "FinishRound" => state' = "RoundOver"
       /\ phase' = "PostBetting" => state' = "DoneBetting"
       /\ phase' = "Open" => state' = st /\ Len(cur) # 1 /\ curPlayer' = NextOf(cur, p)
  BY <1>8, <1>10, <1>11 DEF PhaseAfter
<1>15. AllStay'
  BY <1>8, <1>9, <1>14 DEF AllStay
<1>16. Contested'
  <2>1. NonFolded(act') # {}
    <3>1. PICK q \in NonFolded(act) : q # p
      BY <1>3, <1>2 DEF Contested, Betting
    <3> QED BY <1>8, <1>9, <3>1 DEF NonFolded
  <2>2. ASSUME phase' = "Open" PROVE NonFolded(act') # {curPlayer'}
    <3>1. curPlayer' \in Members(cur) /\ curPlayer' # p
      BY <1>3, <1>7, <1>14, <2>2, NextOfKeeps
    <3>2. CASE kind # "Fold"
      <4>1. p \in NonFolded(act')
        BY <1>8, <1>9, <3>2 DEF NonFolded
      <4> QED BY <3>1, <4>1
    <3>3. CASE kind = "Fold"
      <4>1. DropFolded(a, cur) = RemovePlayer(cur, p)
        BY <1>3, <1>9, <3>3 DEF DropFolded
      <4>2. ~OneLeft(a, RemovePlayer(cur, p))
        BY <1>8, <1>11, <1>13, <1>14, <2>2, <4>1
      <4> DEFINE rest == RemovePlayer(cur, p)
      <4>3. rest \in Seq(Seats) /\ Distinct(rest) /\ Members(rest) = Members(cur) \ {p}
        BY <1>7, RemovePlayerKeeps
      <4> HIDE DEF rest
      <4>4. CASE Len(rest) # 1
        <5>1. NextOf(rest, curPlayer') \in Members(rest) /\ NextOf(rest, curPlayer') # curPlayer'
          BY <3>1, <4>3, <4>4, NextOfKeeps
        <5>2. NextOf(rest, curPlayer') \in Eligible(act) \ {p}
          BY <1>3, <1>7, <4>3, <5>1
        <5>3. NextOf(rest, curPlayer') \in NonFolded(act')
          BY <1>8, <1>9, <5>2 DEF Eligible, NonFolded
        <5> QED BY <5>1, <5>3
      <4>5. CASE AllInCount(a) # 0
        <5>1. {s \in Members(activePlayers) : a[s] = "AllIn"} # {}
          BY <4>5, FS_EmptySet DEF AllInCount
        <5>2. PICK q \in Members(activePlayers) : a[q] = "AllIn"
          BY <5>1
        <5>3. q \in NonFolded(act')
          BY <1>3, <1>8, <5>2, MembersType DEF NonFolded, TypeOK
        <5>4. curPlayer' \in Eligible(act) \ {p}
          BY <1>3, <1>7, <3>1
        <5>5. a[curPlayer'] # "AllIn"
          BY <1>9, <5>4 DEF Eligible
        <5> QED BY <5>2, <5>3, <5>5
      <4> QED BY <4>2, <4>4, <4>5 DEF OneLeft, rest
    <3> QED BY <3>2, <3>3
  <2> QED BY <1>14, <2>1, <2>2 DEF Contested, Betting
<1>17. OnlyFoldWinsPanic'
  BY <1>14 DEF OnlyFoldWinsPanic
<1>18. Backed'
  <2>1. P \in AllPots /\ (~P.hasBetting => P.order = << >>)
    BY <1>6 DEF LeavesPots
  <2> DEFINE Q == CloseSidePots(CalculateSidePotTotals(P))
  <2>2. /\ Q \in AllPots /\ Q.hasBetting = P.hasBetting /\ Q.order = P.order
        /\ P.hasBetting => Asked(Q) = {}
    BY <2>1, ClosedAsk, PotsClosedType
  <2>3. /\ Asked(PublicInfo(P)) = Asked(P) /\ Asked(PublicInfo(Q)) = Asked(Q)
        /\ PublicInfo(P).hasBetting = P.hasBetting /\ PublicInfo(P).order = P.order
        /\ PublicInfo(Q).hasBetting = Q.hasBetting /\ PublicInfo(Q).order = Q.order
    BY <2>1, <2>2, ClosedAsk
  <2> HIDE DEF Q
  <2>4. /\ pots'.hasBetting = P.hasBetting /\ pots'.order = P.order
        /\ state' = "DoneBetting" /\ P.hasBetting => Asked(pots') = {}
        /\ state' # "DoneBetting" => Asked(pots') = Asked(P)
    BY <1>8, <1>12, <2>2, <2>3 DEF Q
  <2>5. (IsEmpty(pots') <=> IsEmpty(P)) /\ (~IsEmpty(P) => P.hasBetting)
    BY <2>1, <2>4 DEF IsEmpty
  <2>6. ASSUME phase' = "Open", ~IsEmpty(pots'), NEW b \in Asked(pots')
        PROVE  b <= bet' /\ \E q \in Seats : act'[q] = "AllIn" /\ b <= amt'[q]
    <3>1. b \in (IF IsEmpty(pots) THEN {} ELSE Asked(pots))
                  \cup (IF kind = "AllIn" THEN {amt'[p]} ELSE {})
      BY <1>6, <1>11, <1>14, <2>4, <2>5, <2>6 DEF LeavesPots
    <3>2. CASE ~IsEmpty(pots) /\ b \in Asked(pots)
      <4>1. b <= bet'
        BY <1>6, <3>2 DEF LeavesPots, Covered
      <4>2. PICK q \in Seats : act[q] = "AllIn" /\ b <= amt[q]
        BY <1>4, <3>2 DEF Held
      <4>3. q # p /\ amt'[q] = amt[q] /\ act'[q] = "AllIn"
        BY <1>4, <1>6, <1>8, <1>9, <4>2 DEF LeavesPots
      <4> QED BY <4>1, <4>2, <4>3
    <3>3. CASE kind = "AllIn" /\ b = amt'[p]
      <4>1. amt'[p] \in Nat /\ amt'[p] <= bet' /\ act'[p] = "AllIn"
        BY <1>6, <1>8, <1>9, <3>3 DEF LeavesPots
      <4> QED BY <3>3, <4>1
    <3> QED BY <3>1, <3>2, <3>3
  <2> QED BY <1>14, <2>1, <2>4, <2>5, <2>6 DEF Backed, Betting
<1> QED BY <1>15, <1>16, <1>17, <1>18 DEF Stays

\* What BetsInv says of types.
LEMMA StayTypes ==
  ASSUME BetsInv, Following
  PROVE  /\ IInv /\ Posted /\ Funded /\ TypeOK /\ Seated /\ Waiting /\ Posting /\ Ending
         /\ pots \in AllPots /\ act \in [Seats -> Actions]
         /\ curPlayers \in Seq(Seats) /\ Distinct(curPlayers)
BY DEF BetsInv, TurnInv, RiverInv, IInv, Seated, TypeOK

\* The blinds.
LEMMA BlindsStay ==
  ASSUME BetsInv, BetsInv', Stays, Blinds
  PROVE  Stays'
<1>1. phase = "Blinds" /\ phase' = "SmallBlindAllIn" /\ state' = "PreFlop"
      /\ act' = [x \in Seats |-> IF x \in {RotatePlayers([dealer |-> dealer, smallBlind |-> smallBlind,
                                                          bigBlind |-> bigBlind]).smallBlind,
                                           RotatePlayers([dealer |-> dealer, smallBlind |-> smallBlind,
                                                          bigBlind |-> bigBlind]).bigBlind}
                                    /\ chips'[x] = 0
                                 THEN "AllIn" ELSE act[x]]
      /\ \E s, b : PostBlinds(s, b)
  BY DEF Blinds
<1>2. \A x \in Seats : act'[x] \in {"AllIn", act[x]}
  BY <1>1
<1>3. smallBlind' # None
  <2>1. Following' /\ phase' = "SmallBlindAllIn"
    BY <1>1 DEF Following
  <2>2. smallBlind' \in Members(activePlayers') /\ activePlayers' \in Seq(Seats)
    BY <2>1 DEF BetsInv, TurnInv, RiverInv, IInv, Posting, TypeOK
  <2> QED BY <2>2, MembersType, TableAssumption
<1>4. AllStay'
  BY <1>1, <1>2, <1>3 DEF Stays, AllStay
<1>5. Contested'
  <2>1. \A x \in NonFolded(act) : x \in NonFolded(act')
    BY <1>2 DEF NonFolded
  <2> QED BY <1>1, <2>1 DEF Stays, Contested, Betting
<1>6. IsEmpty(pots')
  <2>1. PICK s, b : PostBlinds(s, b)
    BY <1>1
  <2>2. pots' = PublicInfo([pots EXCEPT !.main.total = Plus(amt'[s], amt'[b])])
    BY <2>1 DEF PostBlinds
  <2>3. IsEmpty(pots) /\ pots \in AllPots
    BY <1>1 DEF Stays, Backed, BetsInv, TurnInv, RiverInv, IInv, TypeOK
  <2> QED BY <2>2, <2>3 DEF PublicInfo, IsEmpty, AllPots
<1>7. Backed' /\ OnlyFoldWinsPanic'
  BY <1>1, <1>6 DEF Backed, OnlyFoldWinsPanic, IsEmpty, Betting
<1> QED BY <1>4, <1>5, <1>7 DEF Stays

\* A blind is all-in: the pots are still empty.
LEMMA BlindAllInStays ==
  ASSUME BetsInv, Stays, SmallBlindAllIn \/ BigBlindAllIn
  PROVE  Stays'
<1>1. /\ phase \in {"SmallBlindAllIn", "BigBlindAllIn"} /\ phase' \in {"BigBlindAllIn", "Open"}
      /\ phase = "SmallBlindAllIn" => phase' = "BigBlindAllIn"
      /\ UNCHANGED << act, smallBlind, rank >>
      /\ \/ UNCHANGED << state, pots >>
         \/ state' = SetNextPlayerTurn(act, curPlayers, state, pots).state
            /\ pots' = PublicInfo(SetNextPlayerTurn(act, curPlayers, state, pots).pots)
         \/ state' = state /\ pots' = PublicInfo(pots)
  BY DEF SmallBlindAllIn, BigBlindAllIn, BlindAllIn, players, buttons, finish
<1>2. /\ IInv /\ Posted /\ pots \in AllPots /\ IsEmpty(pots) /\ AllStay /\ Contested /\ Posting
  BY <1>1, StayTypes DEF Following, Stays, Backed
<1>3. state = "PreFlop"
  BY <1>1, <1>2 DEF Posting, Posted
<1>4. /\ SetNextPlayerTurn(act, curPlayers, state, pots).state \in {"RoundOver", "DoneBetting", state}
      /\ SetNextPlayerTurn(act, curPlayers, state, pots).pots
           \in {pots, CloseSidePots(CalculateSidePotTotals(pots))}
  BY <1>3 DEF SetNextPlayerTurn
<1>5. IsEmpty(pots')
  <2> DEFINE Q == CloseSidePots(CalculateSidePotTotals(pots))
  <2>1. IsEmpty(Q) /\ Q \in AllPots
    BY <1>2, PotsKept, PotsClosedType
  <2> HIDE DEF Q
  <2>2. IsEmpty(PublicInfo(Q)) /\ IsEmpty(PublicInfo(pots))
    BY <1>2, <2>1, PotsKept
  <2> QED BY <1>1, <1>2, <1>4, <2>2 DEF Q
<1>6. state' # "NotStarted"
  BY <1>1, <1>3, <1>4
<1>7. AllStay'
  BY <1>1, <1>2, <1>6 DEF AllStay
<1>8. Contested'
  <2>1. Occupied(act) = Seats /\ \A x : Seats # {x}
    BY <1>2, AllSeated
  <2>2. Betting' => phase = "BigBlindAllIn"
    BY <1>1 DEF Betting
  <2>3. phase = "BigBlindAllIn" => NonFolded(act') = Seats
    <3>1. Members(activePlayers) = Seats
      BY <1>1, <2>1, StayTypes DEF Following, Seated
    <3> QED BY <1>1, <1>2, <3>1 DEF Posted, NonFolded
  <2>4. NonFolded(act') # {}
    BY <1>1, <1>2 DEF Contested
  <2> QED BY <1>1, <2>1, <2>2, <2>3, <2>4 DEF Contested
<1>9. Backed' /\ OnlyFoldWinsPanic'
  BY <1>1, <1>5 DEF Backed, OnlyFoldWinsPanic, IsEmpty
<1> QED BY <1>7, <1>8, <1>9 DEF Stays

\* The end of a street, and the last cards.
LEMMA StreetStays ==
  ASSUME BetsInv, Stays, ShowDownEarly \/ RunOut \/ RiverDone
  PROVE  Stays'
<1>1. AllStay /\ Contested /\ Backed
  BY DEF Stays
<1>2. /\ phase \in {"PostBetting", "RunOut"} /\ phase' \in {"RunOut", "FinishRound"}
      /\ UNCHANGED << act, smallBlind, rank, pots >>
      /\ state' \in {state, "RoundOver", "Rounds"}
      /\ phase' = "FinishRound" => state' = "RoundOver"
  BY <1>1 DEF ShowDownEarly, RunOut, RiverDone, Contested, players, buttons, finish
<1>3. AllStay'
  BY <1>1, <1>2 DEF AllStay
<1>4. Contested'
  BY <1>1, <1>2 DEF Contested, Betting
<1>5. Backed' /\ OnlyFoldWinsPanic'
  BY <1>1, <1>2 DEF Backed, OnlyFoldWinsPanic, Betting
<1> QED BY <1>3, <1>4, <1>5 DEF Stays

\* The next street.
LEMMA DealStays ==
  ASSUME BetsInv, Stays, DealStreet
  PROVE  Stays'
<1>1. AllStay /\ Contested /\ Backed /\ phase = "PostBetting" /\ ~BettingIsImpossible
  BY DEF Stays, DealStreet
<1>2. curPlayers \in Seq(Seats) /\ Distinct(curPlayers) /\ Len(curPlayers) >= 2 /\ act \in [Seats -> Actions]
  BY <1>1, StayTypes DEF Following, BettingIsImpossible
<1>3. ~NobodyStarts
  <2>1. IInv
    BY DEF BetsInv, TurnInv, RiverInv
  <2> QED BY <1>1, <2>1, FirstOfStreet DEF NobodyStarts, SmallBlindLost, AllStay
<1>4. /\ state' = "Rounds" /\ phase' = "Open" /\ UNCHANGED << pots, rank >>
      /\ act' = [s \in Seats |-> IF s \in Members(curPlayers) THEN "FirstAction" ELSE act[s]]
      /\ smallBlind' \in {smallBlind, HandleOrphanedSeats.smallBlind}
      /\ smallBlind # None => smallBlind' = smallBlind
  BY <1>1, <1>3 DEF DealStreet, ReorderPostFlop, SetButtons, AllStay, buttons, finish
<1>5. AllStay'
  BY <1>1, <1>4 DEF AllStay
<1>6. \A x : NonFolded(act') # {x}
  <2>1. /\ curPlayers[1] \in Members(curPlayers)
        /\ NextOf(curPlayers, curPlayers[1]) \in Members(curPlayers)
        /\ NextOf(curPlayers, curPlayers[1]) # curPlayers[1]
    <3>1. curPlayers[1] \in Members(curPlayers)
      BY <1>2 DEF Members
    <3>2. Len(curPlayers) # 1
      <4> DEFINE n == Len(curPlayers)
      <4>1. n \in Nat /\ n >= 2
        BY <1>2
      <4> HIDE DEF n
      <4>2. n # 1
        BY <4>1
      <4> QED BY <4>2 DEF n
    <3> QED BY <1>2, <3>1, <3>2, NextOfKeeps
  <2>2. Members(curPlayers) \subseteq NonFolded(act')
    BY <1>2, <1>4, MembersType DEF NonFolded
  <2> QED BY <2>1, <2>2
<1>7. NonFolded(act') # {}
  <2>1. \A s \in NonFolded(act) : s \in NonFolded(act')
    BY <1>4 DEF NonFolded
  <2> QED BY <1>1, <2>1 DEF Contested
<1>8. Contested'
  BY <1>4, <1>6, <1>7 DEF Contested
<1>9. Backed' /\ OnlyFoldWinsPanic'
  BY <1>1, <1>4 DEF Backed, OnlyFoldWinsPanic, Betting, Asked, OpenPots, IsEmpty
<1> QED BY <1>5, <1>8, <1>9 DEF Stays

\* Everybody else folded: the only way to a failed assertion.
LEMMA FoldsStay ==
  ASSUME BetsInv, Stays, FinishByFolds \/ NoHandsLeft
  PROVE  Stays'
<1>1. AllStay /\ Contested /\ phase = "FinishRound" /\ state = "RoundOver" /\ FinishByFolds
  BY DEF Stays, Contested, FinishByFolds, NoHandsLeft
<1>2. /\ Cardinality(NonFolded(act)) = 1 /\ UNCHANGED << act, smallBlind, rank >>
      /\ phase' \in {"Panicked", "Eliminate"} /\ state' = "RoundOver"
      /\ phase' = "Panicked" => UNCHANGED pots
  BY <1>1 DEF FinishByFolds, WinByFolds, Panic, players, buttons, finish
<1>3. AllStay'
  BY <1>1, <1>2 DEF AllStay
<1>4. Contested' /\ OnlyFoldWinsPanic'
  BY <1>1, <1>2 DEF Contested, Betting, OnlyFoldWinsPanic, NonFolded
<1>5. Backed'
  BY <1>1, <1>2 DEF Backed, Stays, Betting
<1> QED BY <1>3, <1>4, <1>5 DEF Stays

\* checkTies compares the hands of players who hold cards.
LEMMA AwardNeverPanics ==
  ASSUME BetsInv, Stays, AwardSidePot
  PROVE  UNCHANGED << act, smallBlind, rank, state, phase >>
<1> DEFINE in == {s \in PotAt(nextPot).players : act[s] # "Fold"}
<1>1. /\ IInv /\ pots \in AllPots /\ nextPot \in Nat \ {0} /\ phase = "Award"
      /\ AllStay /\ Contested
  BY StayTypes DEF AwardSidePot, Following, TypeOK, Ending, Stays
<1>2. PotAt(nextPot).players \subseteq Seats
  <2>1. pots.order \in Seq(Seats) /\ pots.side \in [Seats -> Pot] /\ pots.betting \in Pot
    BY <1>1, PotsFields
  <2>2. nextPot <= Len(pots.order) => pots.order[nextPot] \in Seats
    BY <1>1, <2>1
  <2> QED BY <2>1, <2>2 DEF PotAt, Pot
<1>3. \A s \in BestOf(rank, in) : rank[s] # 0
  BY <1>1, <1>2 DEF BestOf, AllStay, Contested, NonFolded
<1> QED BY <1>3 DEF AwardSidePot, buttons

\* The hands are compared and the pots awarded: only those who hold cards win.
LEMMA AwardsStay ==
  ASSUME BetsInv, Stays, ShowHands \/ AwardSidePot \/ AwardDone
  PROVE  Stays'
<1>1. AllStay /\ Contested /\ phase \in {"FinishRound", "Award"}
  BY DEF Stays, ShowHands, AwardSidePot, AwardDone
<1>2. CASE ShowHands
  <2>1. PICK r \in Ranks : rank' = r /\ state' \in {"ShowHands", "SplitPot"}
    BY <1>2 DEF ShowHands
  <2>2. UNCHANGED << act, smallBlind >> /\ phase' = "Award"
    BY <1>2 DEF ShowHands, buttons
  <2>3. \A s \in NonFolded(act) : rank'[s] # 0
    BY <2>1 DEF Ranks, NonFolded
  <2>4. NonFolded(act') = NonFolded(act)
    BY <2>2 DEF NonFolded
  <2> QED BY <1>1, <2>1, <2>2, <2>3, <2>4
      DEF Stays, AllStay, Contested, Backed, OnlyFoldWinsPanic, Betting
<1>3. CASE AwardSidePot
  <2>1. phase = "Award" /\ UNCHANGED << act, smallBlind, rank, state, phase >>
    BY <1>3, AwardNeverPanics DEF AwardSidePot
  <2>2. UNCHANGED pots
    BY <1>3 DEF AwardSidePot, Panic
  <2> QED BY <1>1, <2>1, <2>2
      DEF Stays, AllStay, Contested, Backed, OnlyFoldWinsPanic, Betting, NonFolded
<1>4. CASE AwardDone
  <2>1. UNCHANGED << act, smallBlind, state >> /\ phase' = "Eliminate"
    BY <1>4 DEF AwardDone, players, buttons
  <2> QED BY <1>1, <2>1
      DEF Stays, AllStay, Contested, Backed, OnlyFoldWinsPanic, Betting, NonFolded
<1> QED BY <1>2, <1>3, <1>4

-----------------------------------------------------------------------------
(* The chips of a hand that nobody leaves.                                 *)

\* A sum of natural numbers is one, and none of them is larger.
LEMMA SumNatural ==
  ASSUME NEW f \in [Seats -> Nat]
  PROVE  Sum(f) \in Nat /\ \A p \in Seats : f[p] <= Sum(f)
<1>1. ASSUME NEW g \in [Seats -> Nat] PROVE Sum(g) \in Int /\ 0 <= Sum(g)
  <2> DEFINE zero == [s \in Seats |-> 0]
  <2>1. g \in [Seats -> Int] /\ zero \in [Seats -> Int] /\ \A p \in Seats : zero[p] <= g[p]
    BY <1>1
  <2>2. Sum(zero) = 0
    BY SeatsAssumption, SumOfNone
  <2> HIDE DEF zero
  <2> QED BY <2>1, <2>2, SeatsAssumption, SumType, SumMonotone
<1>2. ASSUME NEW p \in Seats PROVE f[p] <= Sum(f)
  <2> DEFINE g == [f EXCEPT ![p] = 0]
  <2>1. g \in [Seats -> Nat] /\ f \in [Seats -> Int] /\ f[p] \in Int /\ 0 \in Int
    BY <1>2
  <2>2. Sum([f EXCEPT ![p] = 0]) = Sum(f) - f[p] + 0
    <3>1. p \in Seats /\ 0 \in Int /\ f \in [Seats -> Int]
      BY <1>2
    <3> HIDE DEF g
    <3> QED BY <3>1, SeatsAssumption, SumUpdate
  <2>4. Sum(g) = Sum(f) - f[p] + 0
    BY <2>2
  <2> HIDE DEF g
  <2>3. Sum(g) \in Int /\ 0 <= Sum(g) /\ Sum(f) \in Int
    BY <1>1, <2>1
  <2> QED BY <2>1, <2>4, <2>3
<1> QED BY <1>1, <1>2

\* Chips are numbers.
LEMMA ChipsAreNatural ==
  ASSUME NEW f \in [Seats -> Chips]
  PROVE  f \in [Seats -> Nat] /\ f \in [Seats -> Int]
BY ChipModAssumption DEF Chips

\* What is in the main pot and what the players hold makes up the total, and
\* what they have in front is in the main pot.
AddsUp(c, m, t) == Sum(c) + t = Total /\ Sum(m) <= t

\* The sums when c and m become c + m - a and a.
LEMMA Balance ==
  ASSUME NEW sc \in Int, NEW sm \in Int, NEW t \in Int, NEW c \in Int, NEW m \in Int, NEW a \in Int,
         NEW T \in Int, sc + t = T, sm <= t
  PROVE  /\ (sc - c + (c + m - a)) + (t + a - m) = T
         /\ sm - m + a <= t + a - m
OBVIOUS

\* Player p pays in: the total stays far from where chips wrap.
LEMMA PayConserves ==
  ASSUME TypeOK, Total \in Chips, Solvent, NEW p \in Seats, NEW amount \in Chips, amount <= Full(p),
         PaysIn(p, amount), amt' \in [Seats -> Chips], chips' \in [Seats -> Chips],
         AddsUp(chips, amt, pots.main.total)
  PROVE  AddsUp(chips', amt', pots'.main.total)
<1> DEFINE t == pots.main.total
<1>1. /\ PlayersType /\ chips \in [Seats -> Chips] /\ amt \in [Seats -> Chips] /\ pots \in AllPots
  BY DEF TypeOK, PlayersType
<1>2. /\ t \in Chips /\ t \in Nat /\ amount \in Nat /\ Total \in Nat /\ Total < ChipMod
      /\ chips[p] \in Nat /\ amt[p] \in Nat /\ amt[p] \in Chips /\ ChipMod \in Nat \ {0}
  BY <1>1, MoneyIs, ChipModAssumption DEF Chips
<1>3. PICK kind : Put(p, kind, amount)
  BY DEF PaysIn
<1>4. /\ amt'[p] = amount /\ chips'[p] = Full(p) - amount /\ Full(p) = chips[p] + amt[p]
      /\ \A s \in Seats \ {p} : amt'[s] = amt[s] /\ chips'[s] = chips[s]
  BY <1>1, <1>3, FullIs, PutFunds
<1>5. amt' = [amt EXCEPT ![p] = amount] /\ chips' = [chips EXCEPT ![p] = Full(p) - amount]
  BY <1>1, <1>4
<1>6. /\ Sum(amt') = Sum(amt) - amt[p] + amount
      /\ Sum(chips') = Sum(chips) - chips[p] + (chips[p] + amt[p] - amount)
  <2>1. amt \in [Seats -> Int] /\ chips \in [Seats -> Int] /\ amount \in Int
        /\ chips[p] + amt[p] - amount \in Int
    BY <1>1, <1>2, ChipsAreNatural
  <2>2. chips' = [chips EXCEPT ![p] = chips[p] + amt[p] - amount]
    <3>1. Full(p) - amount = chips[p] + amt[p] - amount
      BY <1>2, <1>4
    <3> QED BY <1>5, <3>1
  <2>3. Sum([amt EXCEPT ![p] = amount]) = Sum(amt) - amt[p] + amount
    BY <2>1, SeatsAssumption, SumUpdate
  <2>4. Sum([chips EXCEPT ![p] = chips[p] + amt[p] - amount])
          = Sum(chips) - chips[p] + (chips[p] + amt[p] - amount)
    BY <2>1, SeatsAssumption, SumUpdate
  <2> QED BY <1>5, <2>2, <2>3, <2>4
<1>7. /\ Sum(amt) \in Nat /\ amt[p] <= Sum(amt) /\ Sum(chips') \in Nat /\ Sum(chips) \in Nat
      /\ Sum(amt') \in Nat
  BY <1>1, ChipsAreNatural, SumNatural
<1>8. pots'.main.total = t + amount - amt[p]
  <2>1. pots'.main.total = (t + ((amount - amt[p]) % ChipMod)) % ChipMod
    BY DEF PaysIn, Plus, Minus
  <2>2. pots'.main.total = (t + (amount - amt[p])) % ChipMod
    <3> DEFINE d == amount - amt[p]
    <3>1. d \in Int /\ t \in Int
      BY <1>2
    <3> HIDE DEF d, t
    <3>2. (t + (d % ChipMod)) % ChipMod = (t + d) % ChipMod
      BY <1>2, <3>1, ModPlus
    <3> QED BY <2>1, <3>2 DEF d, t
  <2>3. t + (amount - amt[p]) \in 0 .. ChipMod - 1
    BY <1>2, <1>6, <1>7 DEF AddsUp
  <2>4. \A x \in 0 .. ChipMod - 1 : x % ChipMod = x
    BY <1>2
  <2> QED BY <1>2, <2>2, <2>3, <2>4
<1>9. /\ (Sum(chips) - chips[p] + (chips[p] + amt[p] - amount)) + (t + amount - amt[p]) = Total
      /\ Sum(amt) - amt[p] + amount <= t + amount - amt[p]
  <2>1. Sum(chips) + t = Total /\ Sum(amt) <= t
    BY DEF AddsUp
  <2>2. /\ Sum(chips) \in Int /\ Sum(amt) \in Int /\ t \in Int /\ chips[p] \in Int
        /\ amt[p] \in Int /\ amount \in Int /\ Total \in Int
    BY <1>2, <1>7
  <2> HIDE DEF t
  <2> QED BY <2>1, <2>2, Balance
<1> HIDE DEF t
<1> QED BY <1>6, <1>8, <1>9 DEF AddsUp

\* Two elements are changed.
LEMMA SumOfTwo ==
  ASSUME NEW f \in [Seats -> Int], NEW p \in Seats, NEW q \in Seats, p # q,
         NEW v \in Int, NEW w \in Int
  PROVE  Sum([[f EXCEPT ![p] = v] EXCEPT ![q] = w]) = Sum(f) - f[p] - f[q] + v + w
<1> DEFINE g == [f EXCEPT ![p] = v]
<1>1. g \in [Seats -> Int] /\ g[q] = f[q] /\ f[p] \in Int /\ f[q] \in Int
  OBVIOUS
<1>2. Sum(g) = Sum(f) - f[p] + v
  BY SeatsAssumption, SumUpdate
<1>3. Sum(f) \in Int
  BY SeatsAssumption, SumType
<1> HIDE DEF g
<1>4. Sum([g EXCEPT ![q] = w]) = Sum(g) - g[q] + w
  BY <1>1, SeatsAssumption, SumUpdate
<1>5. Sum([g EXCEPT ![q] = w]) = Sum(f) - f[p] - f[q] + v + w
  BY <1>1, <1>2, <1>3, <1>4
<1> QED BY <1>5 DEF g

\* What the blinds pay, out of their chips, is in the main pot.
LEMMA BlindsMove ==
  ASSUME TypeOK, NEW s \in Seats, NEW b \in Seats, s # b, PostBlinds(s, b)
  PROVE  \E x, y \in Chips :
           /\ pots'.main.total = Plus(x, y)
           /\ Sum(chips') = Sum(chips) - x - y
           /\ Sum(amt') = Sum(amt) - amt[s] - amt[b] + x + y
<1> DEFINE half == Blind(s, ante \div 2)
           whole == Blind(b, ante)
<1>1. /\ chips \in [Seats -> Chips] /\ amt \in [Seats -> Chips] /\ ante \in Chips /\ pots \in AllPots
      /\ chips \in [Seats -> Int] /\ amt \in [Seats -> Int]
  <2>1. /\ chips \in [Seats -> Chips] /\ amt \in [Seats -> Chips] /\ ante \in Chips
        /\ pots \in AllPots
    BY DEF TypeOK
  <2> QED BY <2>1, ChipsAreNatural
<1>2. /\ half \in Chips /\ half <= chips[s] /\ whole \in Chips /\ whole <= chips[b]
      /\ half \in Nat /\ whole \in Nat /\ chips[s] \in Chips /\ chips[b] \in Chips
      /\ chips[s] \in Nat /\ chips[b] \in Nat
  <2>1. chips[s] \in Chips /\ chips[b] \in Chips /\ ante \div 2 \in Chips
    BY <1>1, ChipModAssumption DEF Chips
  <2>2. \A c \in Chips : c \in Nat
    BY ChipModAssumption DEF Chips
  <2>3. half = (IF ante \div 2 < chips[s] THEN ante \div 2 ELSE chips[s])
        /\ whole = (IF ante < chips[b] THEN ante ELSE chips[b])
    BY DEF Blind
  <2> HIDE DEF half, whole
  <2> QED BY <1>1, <2>1, <2>2, <2>3
<1>3. /\ amt' = [[amt EXCEPT ![s] = half] EXCEPT ![b] = whole]
      /\ chips' = [[chips EXCEPT ![s] = Minus(@, amt'[s])] EXCEPT ![b] = Minus(@, amt'[b])]
      /\ pots' = PublicInfo([pots EXCEPT !.main.total = Plus(amt'[s], amt'[b])])
  BY DEF PostBlinds
<1> HIDE DEF half, whole
<1>4. amt'[s] = half /\ amt'[b] = whole
  BY <1>1, <1>3
<1> DEFINE v == chips[s] - half
           w == chips[b] - whole
<1>5. chips' = [[chips EXCEPT ![s] = v] EXCEPT ![b] = w] /\ v \in Int /\ w \in Int
  <2>1. Minus(chips[s], half) = v /\ Minus(chips[b], whole) = w
    BY <1>2, NoWrap
  <2>2. v \in Int /\ w \in Int
    BY <1>2
  <2> HIDE DEF v, w
  <2>3. chips' = [[chips EXCEPT ![s] = Minus(chips[s], half)] EXCEPT ![b] = Minus(chips[b], whole)]
    BY <1>1, <1>3, <1>4
  <2> QED BY <2>1, <2>2, <2>3
<1>6. pots'.main.total = Plus(half, whole)
  BY <1>1, <1>3, <1>4 DEF PublicInfo, AllPots, Pot
<1> HIDE DEF v, w
<1>7. Sum(amt') = Sum(amt) - amt[s] - amt[b] + half + whole
  <2>1. half \in Int /\ whole \in Int /\ amt' = [[amt EXCEPT ![s] = half] EXCEPT ![b] = whole]
    BY <1>2, <1>3
  <2> QED BY <1>1, <2>1, SumOfTwo
<1>8. Sum(chips') = Sum(chips) - chips[s] - chips[b] + v + w
  BY <1>1, <1>5, SumOfTwo
<1>9. Sum(chips) \in Int
  BY <1>1, SeatsAssumption, SumType
<1>10. Sum(chips') = Sum(chips) - half - whole
  BY <1>2, <1>8, <1>9 DEF v, w
<1> QED BY <1>2, <1>6, <1>7, <1>10

\* The blinds are paid into the empty main pot.
LEMMA BlindsConserve ==
  ASSUME TypeOK, Total \in Chips, \A x \in Seats : amt[x] = 0, Sum(chips) = Total, Sum(amt) = 0,
         NEW s \in Seats, NEW b \in Seats, s # b, PostBlinds(s, b), chips' \in [Seats -> Chips]
  PROVE  AddsUp(chips', amt', pots'.main.total)
<1>1. PICK x, y \in Chips : /\ pots'.main.total = Plus(x, y) /\ Sum(chips') = Sum(chips) - x - y
                            /\ Sum(amt') = Sum(amt) - amt[s] - amt[b] + x + y
  BY BlindsMove
<1>2. Total \in Nat /\ Total < ChipMod /\ ChipMod \in Nat /\ x \in Nat /\ y \in Nat
  BY ChipModAssumption DEF Chips
<1>3. amt[s] = 0 /\ amt[b] = 0
  OBVIOUS
<1>4. Sum(chips') \in Nat
  BY ChipsAreNatural, SumNatural
<1>5. Plus(x, y) = x + y
  <2>1. x + y < ChipMod
    BY <1>1, <1>2, <1>4
  <2> QED BY <2>1, NoWrap
<1>6. Sum(amt') = x + y
  BY <1>1, <1>2, <1>3
<1> QED BY <1>1, <1>2, <1>5, <1>6 DEF AddsUp

\* A player's turn.
LEMMA TurnConserves ==
  ASSUME BetsInv, Stays, Conserved, TypeOK', Total \in Chips, NEW p \in Seats, Turn(p)
  PROVE  Conserved'
<1>1. IInv /\ Funded /\ Backed /\ MayAct(p) /\ TypeOK
  BY DEF BetsInv, TurnInv, RiverInv, Stays, IInv, Turn, AllIn, Bet, Call, Check, Fold
<1>2. ~Panic
  BY <1>1, TurnNeverPanics
<1>3. /\ PlayersType /\ Solvent /\ phase = "Open" /\ bet \in Chips /\ Full(p) \in Chips
      /\ amt' \in [Seats -> Chips] /\ chips' \in [Seats -> Chips]
  BY <1>1, BettorKnown, FullIs DEF TypeOK
<1>4. phase' # "Blinds"
  <2>1. phase' \in {"Open", "PostBetting", "FinishRound"}
    BY <1>1, <1>2, TurnEnds
  <2> QED BY <2>1
<1> SUFFICES ASSUME IsEmpty(pots')
             PROVE  AddsUp(chips', amt', pots'.main.total)
  BY <1>4 DEF Conserved, AddsUp
<1>5. IsEmpty(pots)
  BY <1>1, <1>2, TurnPays
<1>6. AddsUp(chips, amt, pots.main.total)
  BY <1>3, <1>5 DEF Conserved, AddsUp
<1>7. ASSUME NEW amount \in Chips, amount <= Full(p), PaysIn(p, amount)
      PROVE  AddsUp(chips', amt', pots'.main.total)
  BY <1>1, <1>3, <1>6, <1>7, PayConserves
<1>8. CASE Passes
  BY <1>6, <1>8 DEF Passes, AddsUp
<1>9. CASE \E a \in Bets : a <= Full(p) /\ bet < a /\ BetAmount(p, a) \in Chips
                           /\ MayAct(p) /\ PaysIn(p, BetAmount(p, a))
  <2>1. PICK a \in Bets : a <= Full(p) /\ bet < a /\ PaysIn(p, BetAmount(p, a))
    BY <1>9
  <2>2. a \in Chips
    BY TableAssumption
  <2>3. BetAmount(p, a) \in Chips /\ BetAmount(p, a) <= Full(p)
    BY <1>1, <2>1, <2>2, AmountsKnown
  <2> QED BY <1>7, <2>1, <2>3
<1>10. CASE bet < Full(p) /\ bet \in Chips /\ PaysIn(p, bet)
  <2>1. bet <= Full(p)
    BY <1>3, <1>10, ChipModAssumption DEF Chips
  <2> QED BY <1>7, <1>10, <2>1
<1> QED BY <1>1, <1>2, <1>8, <1>9, <1>10, TurnPays

\* What the handler goes on to do in a hand that nobody leaves.
LEMMA HandFlow ==
  ASSUME AllStay, phase # "Eliminate", Flow
  PROVE  \/ Blinds
         \/ SmallBlindAllIn \/ BigBlindAllIn
         \/ ShowDownEarly \/ RunOut \/ RiverDone
         \/ DealStreet
         \/ FinishByFolds \/ NoHandsLeft
         \/ ShowHands \/ AwardSidePot \/ AwardDone
BY DEF AllStay, Flow, NewRound, AbandonPots, AbandonToLast, AbandonToJoiner, Eliminate,
       RemoveEliminated, EliminationDone, GameOver

\* Between the players' turns: the blinds are posted, what the players have in
\* front is cleared for a new street, nothing else moves chips before the end.
LEMMA FlowConserves ==
  ASSUME BetsInv, Stays, Conserved, TypeOK', Total \in Chips, Flow, phase # "Eliminate"
  PROVE  Conserved'
<1>1. /\ IInv /\ AllStay /\ TurnInv /\ Funded /\ TypeOK
  BY DEF BetsInv, TurnInv, RiverInv, IInv, Stays
<1>2. /\ pots \in AllPots /\ chips \in [Seats -> Chips] /\ amt \in [Seats -> Chips]
      /\ chips' \in [Seats -> Chips] /\ amt' \in [Seats -> Chips]
  BY <1>1 DEF TypeOK
<1>3. CASE Blinds
  <2>1. phase = "Blinds" /\ phase' = "SmallBlindAllIn"
    BY <1>3 DEF Blinds
  <2>2. PICK s, b \in Members(activePlayers) : s # b /\ PostBlinds(s, b)
    BY <1>1, <1>3, BlindsApart
  <2>3. s \in Seats /\ b \in Seats
    BY <1>1, MembersType DEF TypeOK
  <2>4. \A x \in Seats : amt[x] = 0
    BY <1>1, <2>1 DEF Funded
  <2>5. Sum(chips) = Total /\ Sum(amt) = 0
    BY <2>1 DEF Conserved
  <2>6. AddsUp(chips', amt', pots'.main.total)
    BY <1>1, <1>2, <2>2, <2>3, <2>4, <2>5, BlindsConserve
  <2> QED BY <2>1, <2>6 DEF Conserved, AddsUp
<1>4. CASE SmallBlindAllIn \/ BigBlindAllIn
  <2>1. /\ phase \in {"SmallBlindAllIn", "BigBlindAllIn"} /\ phase' \in {"BigBlindAllIn", "Open"}
        /\ UNCHANGED << chips, amt >>
        /\ \/ pots' = pots
           \/ pots' = PublicInfo(SetNextPlayerTurn(act, curPlayers, state, pots).pots)
           \/ pots' = PublicInfo(pots)
    BY <1>4 DEF SmallBlindAllIn, BigBlindAllIn, BlindAllIn, players
  <2>2. SetNextPlayerTurn(act, curPlayers, state, pots).pots
          \in {pots, CloseSidePots(CalculateSidePotTotals(pots))}
    BY DEF SetNextPlayerTurn
  <2>3. pots'.main.total = pots.main.total
    <3> DEFINE Q == CloseSidePots(CalculateSidePotTotals(pots))
    <3>1. Q \in AllPots /\ Q.main.total = pots.main.total
      BY <1>2, ClosingKeepsTotal, PotsClosedType
    <3> HIDE DEF Q
    <3>2. PublicInfo(Q).main.total = Q.main.total /\ PublicInfo(pots).main.total = pots.main.total
      BY <1>2, <3>1, ClosingKeepsTotal
    <3> QED BY <2>1, <2>2, <3>1, <3>2 DEF Q
  <2>4. IsEmpty(pots)
    BY <2>1 DEF Stays, Backed
  <2> QED BY <2>1, <2>3, <2>4 DEF Conserved
<1>5. CASE ShowDownEarly \/ RunOut \/ RiverDone
  <2>1. /\ phase \in {"PostBetting", "RunOut"} /\ UNCHANGED << chips, amt, pots >>
        /\ phase' # "Blinds"
    BY <1>5 DEF ShowDownEarly, RunOut, RiverDone, Panic, players
  <2> QED BY <2>1 DEF Conserved
<1>6. CASE DealStreet
  <2>1. phase = "PostBetting" /\ phase' # "Blinds" /\ UNCHANGED << chips, pots >>
        /\ (amt' = amt \/ amt' = [s \in Seats |-> IF s \in Members(curPlayers) THEN 0 ELSE amt[s]])
    BY <1>6 DEF DealStreet, Panic, players
  <2>2. Sum(amt') <= Sum(amt) /\ Sum(amt') \in Nat /\ Sum(amt) \in Nat
    <3>1. amt \in [Seats -> Int] /\ amt' \in [Seats -> Int]
          /\ \A s \in Seats : amt[s] \in Nat
      BY <1>2, ChipsAreNatural
    <3>2. \A s \in Seats : amt'[s] <= amt[s]
      BY <2>1, <3>1
    <3>3. Sum(amt') <= Sum(amt)
      BY <3>1, <3>2, SeatsAssumption, SumMonotone
    <3> QED BY <1>2, <3>3, ChipsAreNatural, SumNatural
  <2>3. pots.main.total \in Nat
    BY <1>2, MoneyIs, ChipModAssumption DEF Chips
  <2> QED BY <2>1, <2>2, <2>3 DEF Conserved
<1>7. CASE FinishByFolds \/ NoHandsLeft
  <2>1. phase = "FinishRound" /\ (phase' = "Eliminate" \/ (UNCHANGED << chips, amt, pots >> /\ phase' = "Panicked"))
    BY <1>7 DEF FinishByFolds, NoHandsLeft, WinByFolds, Panic, players
  <2> QED BY <2>1 DEF Conserved
<1>8. CASE ShowHands \/ AwardSidePot \/ AwardDone
  <2>1. phase' \in {"Award", "Eliminate"}
    <3>1. AwardSidePot => phase = "Award" /\ phase' = phase
      BY AwardNeverPanics DEF AwardSidePot
    <3> QED BY <1>8, <3>1 DEF ShowHands, AwardDone
  <2> QED BY <2>1 DEF Conserved
<1> QED BY <1>1, <1>3, <1>4, <1>5, <1>6, <1>7, <1>8, HandFlow

\* A step of a hand that nobody leaves.
LEMMA StepStays ==
  ASSUME Leavers = {}, BetsInv, BetsInv', Stays, [HandNext]_vars
  PROVE  Stays'
<1>1. CASE HandNext
  <2>1. AllStay /\ Contested /\ Backed /\ phase # "Eliminate"
    BY <1>1 DEF Stays, HandNext
  <2>2. CASE \E p \in Seats : Turn(p)
    BY <2>1, <2>2, TurnStays
  <2>3. CASE Flow
    BY <2>1, <2>3, HandFlow, BlindsStay, BlindAllInStays, StreetStays, DealStays, FoldsStay,
       AwardsStay
  <2> QED BY <1>1, <2>2, <2>3 DEF HandNext
<1>2. CASE UNCHANGED vars
  <2>1. UNCHANGED << act, amt, curPlayers, curPlayer, smallBlind, bet, state, pots, rank, phase >>
    BY <1>2 DEF vars, players, lists, buttons, finish
  <2>2. AllStay' /\ Contested' /\ OnlyFoldWinsPanic'
    BY <2>1 DEF Stays, AllStay, Contested, OnlyFoldWinsPanic, Betting, NonFolded
  <2>3. Backed'
    BY <2>1 DEF Stays, Backed, Betting, BettingIsImpossible
  <2> QED BY <2>2, <2>3 DEF Stays
<1> QED BY <1>1, <1>2

\* A step of a hand that nobody leaves, and the chips.
LEMMA StepConserves ==
  ASSUME Leavers = {}, Total \in Chips, BetsInv, BetsInv', Stays, Conserved, [HandNext]_vars
  PROVE  Conserved'
<1>1. TypeOK'
  BY DEF BetsInv, TurnInv, RiverInv, IInv
<1>2. CASE HandNext
  <2>1. phase # "Eliminate"
    BY <1>2 DEF HandNext
  <2> QED BY <1>1, <1>2, <2>1, TurnConserves, FlowConserves DEF HandNext
<1>3. CASE UNCHANGED vars
  BY <1>3 DEF vars, players, Conserved
<1> QED BY <1>2, <1>3

\* The hand begins with everybody in, and without side pots.
LEMMA StayStart ==
  ASSUME HandInit
  PROVE  Stays /\ Conserved
<1>1. /\ Order \in Seq(Seats) /\ Distinct(Order) /\ Order[1] \in Seats
      /\ phase = "Blinds" /\ act = [s \in Seats |-> "FirstAction"] /\ state = "NewRound"
      /\ smallBlind = NextOf(Order, Order[1])
  BY HandAssumption DEF HandInit
<1>2. smallBlind # None
  <2>1. Order[1] \in Members(Order)
    BY HandAssumption
  <2>2. NextOf(Order, Order[1]) \in Seats
    BY <1>1, <2>1, HandAssumption, NextOfKeeps
  <2> QED BY <1>1, <2>2, TableAssumption
<1>3. NonFolded(act) = Seats
  BY <1>1 DEF NonFolded
<1>4. pots.order = << >> /\ ~pots.hasBetting
  BY DEF HandInit, NoPots
<1>5. Sum(chips) = Total /\ Sum(amt) = 0
  BY SumOfNone, SeatsAssumption DEF HandInit
<1> QED BY <1>1, <1>2, <1>3, <1>4, <1>5
        DEF Stays, AllStay, Contested, OnlyFoldWinsPanic, Backed, Conserved, Betting, IsEmpty

-----------------------------------------------------------------------------
(* What that gives for a hand that nobody leaves.                          *)

\* Somebody is all-in with what every open pot asks for, and no assertion
\* fails but one.
THEOREM HandStays ==
  ASSUME Leavers = {}
  PROVE  HandSpec => []Stays
<1>1. HandInit => Stays
  BY StayStart
<1>2. BetsInv /\ BetsInv' /\ Stays /\ [HandNext]_vars => Stays'
  BY StepStays
<1> QED BY <1>1, <1>2, HandKeepsBetsInv, PTL DEF HandSpec

\* No open pot asks for more than the bet, so a player who can call it passes
\* the assertions of handleSidePots.
THEOREM HandKeepsPotsBelowBet ==
  ASSUME Leavers = {}
  PROVE  HandSpec => []PotsBelowBet
<1>1. BetsInv /\ Stays => PotsBelowBet
  <2> SUFFICES ASSUME BetsInv, Backed, Betting, ~IsEmpty(pots) PROVE PotsBelowBet
    BY DEF Stays, PotsBelowBet
  <2>1. pots \in AllPots
    BY DEF BetsInv, TurnInv, RiverInv, IInv, TypeOK
  <2>2. \A b \in Asked(pots) : b <= bet
    BY DEF Backed
  <2>3. \A i \in OpenPots(pots) : BetAt(pots, i) \in Asked(pots)
    BY <2>1, AskedAre
  <2> QED BY <2>2, <2>3 DEF PotsBelowBet, Asked
<1> QED BY <1>1, HandStays, HandKeepsBetsInv, PTL

\* The server panics at most over a hand won by folds.
THEOREM HandPanicsOnlyOnFoldWins ==
  ASSUME Leavers = {}
  PROVE  HandSpec => []OnlyFoldWinsPanic
<1>1. Stays => OnlyFoldWinsPanic
  BY DEF Stays
<1> QED BY <1>1, HandStays, PTL

\* The same with the chips, if an unsigned integer holds all of them together.
THEOREM HandKeepsStayInv ==
  ASSUME Leavers = {}, Total \in Chips
  PROVE  HandSpec => []StayInv
<1>1. HandInit => Conserved
  BY StayStart
<1>2. BetsInv /\ BetsInv' /\ Stays /\ Conserved /\ [HandNext]_vars => Conserved'
  BY StepConserves
<1>3. Stays /\ Conserved => StayInv
  BY DEF Stays, StayInv
<1> QED BY <1>1, <1>2, <1>3, HandStays, HandKeepsBetsInv, PTL DEF HandSpec

\* While there is no side pot no chip is lost or made up: the stacks and the
\* main pot add up to the same total through all streets.
THEOREM HandConservesChips ==
  ASSUME Leavers = {}, Total \in Chips
  PROVE  HandSpec => []ChipsConserved
<1>1. StayInv => ChipsConserved
  BY DEF StayInv, Conserved, ChipsConserved
<1> QED BY <1>1, HandKeepsStayInv, PTL
=============================================================================
