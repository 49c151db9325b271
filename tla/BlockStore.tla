----------------------------- MODULE BlockStore -----------------------------
(***************************************************************************)
(* What the buffer cache and the disk driver promise to the file system: a *)
(* store of sectors, each with at most one user at a time.  The user alone *)
(* changes the sector's contents; the disk follows at some time before the *)
(* user is done, or later if the sector stays pinned; no change is lost.   *)
(***************************************************************************)
CONSTANTS Procs, Sectors, Vals, NoProc

VARIABLES content,  \* what bread returns
          stable,   \* what is on the disk
          user      \* the process that has the sector's buffer

bsvars == <<content, stable, user>>

BSInit ==
    /\ content \in [Sectors -> Vals]
    /\ stable = content
    /\ user = [s \in Sectors |-> NoProc]

BSTake(p, s) ==
    /\ user[s] = NoProc
    /\ user' = [user EXCEPT ![s] = p]
    /\ UNCHANGED <<content, stable>>

BSModify(p, s, v) ==
    /\ user[s] = p
    /\ content' = [content EXCEPT ![s] = v]
    /\ UNCHANGED <<stable, user>>

BSSync(s) ==
    /\ user[s] # NoProc
    /\ stable' = [stable EXCEPT ![s] = content[s]]
    /\ UNCHANGED <<content, user>>

BSGive(p, s) ==
    /\ user[s] = p
    /\ user' = [user EXCEPT ![s] = NoProc]
    /\ UNCHANGED <<content, stable>>

BSNext ==
    \E s \in Sectors :
        \/ BSSync(s)
        \/ \E p \in Procs : BSTake(p, s) \/ BSGive(p, s) \/ \E v \in Vals : BSModify(p, s, v)

BSSpec == BSInit /\ [][BSNext]_bsvars
=============================================================================
