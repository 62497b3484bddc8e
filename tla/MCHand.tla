------------------------------- MODULE MCHand -------------------------------
(* Model values and bounds for TLC; see README.md for the bounds.          *)
EXTENDS Hand

CONSTANTS s1, s2, s3, s4

Three == << s1, s2, s3 >>
Four  == << s1, s2, s3, s4 >>
=============================================================================
