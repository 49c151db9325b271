------------------------------- MODULE MCBio --------------------------------
(* Instances of Bio for TLC. *)
EXTENDS Bio

CONSTANTS p1, p2, s1, s2, s3, s4, v1, v2

TwoProcs == {p1, p2}
ThreeSectors == {s1, s2, s3}
TwoVals == {v1, v2}
FourSectors == {s1, s2, s3, s4}
=============================================================================
