----------------------------- MODULE MCSpinlock -----------------------------
(* Instances of Spinlock for TLC: ptable.lock and a lock taken under it, as *)
(* kmem.lock is in wait; SpinlockProof has any number of locks on both sides. *)
EXTENDS Spinlock, TLC

CONSTANTS c1, c2, t1, t2

MCCPUs == {c1, c2}
MCThreads == {t1, t2}
Symmetry == Permutations({c1, c2}) \cup Permutations({t1, t2})
=============================================================================
