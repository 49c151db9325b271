----------------------------- MODULE MCConsole ------------------------------
(* An instance of Console for TLC. *)
EXTENDS Console

CONSTANTS p1, p2

TwoReaders == {p1, p2}
=============================================================================
