----------------------------- MODULE AtomicDisk -----------------------------
(***************************************************************************)
(* What the redo log of kernel/log.c promises to the file system: a disk   *)
(* whose blocks change durably only by whole transactions, one transaction *)
(* at a time, and that comes back from a crash as the last committed       *)
(* transaction left it.                                                    *)
(***************************************************************************)
CONSTANTS Procs,   \* processes that run transactions
          Blocks,  \* home blocks of the file system
          Vals,    \* what a block can hold
          NoProc   \* "no process is in a transaction"

VARIABLES durable, \* block contents a crash cannot take away
          current, \* block contents the running system sees
          owner,   \* the process in the transaction, or NoProc
          up       \* the file system is usable (false from a crash to the end of recovery)

avars == <<durable, current, owner, up>>

AInit ==
    /\ durable \in [Blocks -> Vals]
    /\ current = durable
    /\ owner = NoProc
    /\ up = FALSE

\* One process at a time enters a transaction.
ABegin(p) ==
    /\ up /\ owner = NoProc
    /\ owner' = p
    /\ UNCHANGED <<durable, current, up>>

\* The transaction's writes are visible but not durable.
AWrite(p, b, v) ==
    /\ up /\ owner = p
    /\ current' = [current EXCEPT ![b] = v]
    /\ UNCHANGED <<durable, owner, up>>

\* All the writes of the transaction become durable in one step.
ACommit(p) ==
    /\ up /\ owner = p
    /\ durable' = current
    /\ UNCHANGED <<current, owner, up>>

\* A transaction ends only when nothing it wrote can be lost any more.
AEnd(p) ==
    /\ up /\ owner = p
    /\ durable = current
    /\ owner' = NoProc
    /\ UNCHANGED <<durable, current, up>>

\* A crash loses exactly what was not committed; a panic stops the machine
\* and leaves what is durable to the next boot.
ACrash ==
    /\ up' = FALSE
    /\ owner' = NoProc
    /\ current' = durable
    /\ UNCHANGED durable

ARecover ==
    /\ ~up
    /\ up' = TRUE
    /\ UNCHANGED <<durable, current, owner>>

ANext ==
    \/ \E p \in Procs : ABegin(p) \/ ACommit(p) \/ AEnd(p)
    \/ \E p \in Procs, b \in Blocks, v \in Vals : AWrite(p, b, v)
    \/ ACrash
    \/ ARecover

ASpec == AInit /\ [][ANext]_avars
=============================================================================
