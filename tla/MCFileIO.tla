------------------------------ MODULE MCFileIO ------------------------------
(* Instances of FileIO for TLC. *)
EXTENDS FileIO, TLC

CONSTANTS p1, p2

TwoProcs == {p1, p2}
Symmetry == Permutations(TwoProcs)
OneByte == [p \in Procs |-> 1]

\* With ".", ".." and one file the root has an entry to spare; with none, its
\* entries fill a block.
TwoDirs == {<<<<2, 2, 2>>>>, <<>>}
=============================================================================
