----------------------------- MODULE MCShowdown -----------------------------
(* A short deck for TLC; see README.md for why it is enough.               *)
EXTENDS Showdown, TLC

CONSTANTS p1, p2

Card(v, s) == [value |-> v, suit |-> s]

ShortDeck ==
  {Card(v, "c") : v \in 2 .. 7} \cup
  {Card(2, "d"), Card(6, "d"), Card(7, "d"), Card(7, "h"), Card(7, "s")}

\* The players at a showdown differ only in their cards.
Symmetry == Permutations(Players)
=============================================================================
