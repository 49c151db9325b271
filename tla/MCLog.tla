------------------------------- MODULE MCLog --------------------------------
(* Instances of Log for TLC. *)
EXTENDS Log

CONSTANTS p1, p2, b1, b2, b3

MCProcs == {p1, p2}
MCBlocks == {b1, b2, b3}
MCVals == 0 .. 1
=============================================================================
