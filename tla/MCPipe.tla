------------------------------- MODULE MCPipe -------------------------------
(* Instances of Pipe for TLC. *)
EXTENDS Pipe

CONSTANTS w1, r1

OneWriter == {w1}
OneReader == {r1}
=============================================================================
