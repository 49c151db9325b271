----------------------------- MODULE ByteStream -----------------------------
(***************************************************************************)
(* What a pipe promises: a bounded first-in first-out queue of bytes with  *)
(* two ends, each of which closes once.                                    *)
(***************************************************************************)
EXTENDS Naturals, Sequences

CONSTANTS Size, Bytes

VARIABLES queue, ropen, wopen

svars == <<queue, ropen, wopen>>

SInit == queue = <<>> /\ ropen = TRUE /\ wopen = TRUE

SPut(v) ==
    /\ wopen /\ Len(queue) < Size
    /\ queue' = Append(queue, v)
    /\ UNCHANGED <<ropen, wopen>>

SGet ==
    /\ ropen /\ queue # <<>>
    /\ queue' = Tail(queue)
    /\ UNCHANGED <<ropen, wopen>>

SClose ==
    /\ \/ wopen /\ wopen' = FALSE /\ UNCHANGED ropen
       \/ ropen /\ ropen' = FALSE /\ UNCHANGED wopen
    /\ UNCHANGED queue

\* The memory is given to a new pipe.
SOpen ==
    /\ ~ropen /\ ~wopen
    /\ queue' = <<>> /\ ropen' = TRUE /\ wopen' = TRUE

SNext == SGet \/ SClose \/ SOpen \/ \E v \in Bytes : SPut(v)

SSpec == SInit /\ [][SNext]_svars
=============================================================================
