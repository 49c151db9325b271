------------------------------- MODULE MCProc -------------------------------
(* Instances of Proc for TLC. *)
EXTENDS Proc, TLC

CONSTANTS c1, c2

OneCPU == {c1}
TwoCPUs == {c1, c2}
Symmetry == Permutations({c1, c2})
=============================================================================
