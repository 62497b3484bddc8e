------------------------------- MODULE MCGame -------------------------------
(* Model values and bounds for TLC; see README.md for the bounds.          *)
EXTENDS Game, TLC

CONSTANTS s1, s2, s3

\* Seats are interchangeable: a free seat may be asked for by its number.
Symmetry == Permutations(Seats)
=============================================================================
