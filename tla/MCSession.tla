------------------------------ MODULE MCSession ------------------------------
(* Model values for TLC; see README.md for the bounds.                     *)
EXTENDS Session

CONSTANTS k1, k2, a, b
=============================================================================
