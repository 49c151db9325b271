------------------------------ MODULE Spinlock ------------------------------
(***************************************************************************)
(* kernel/spinlock.c on several CPUs, with interrupts, and the part of     *)
(* proc.c that carries the interrupt flag through a context switch         *)
(* (sched, scheduler, forkret).                                            *)
(*                                                                         *)
(* A context is a kernel thread or a CPU's scheduler loop (named by the    *)
(* CPU).  Each has a stack of frames: its own code, and the interrupt      *)
(* handlers that interrupted it.  Frames call acquire and release, and     *)
(* bare pushcli and popcli as switchuvm does; the steps of these functions *)
(* that another CPU or an interrupt can observe are separate actions.      *)
(*                                                                         *)
(* Locks are numbers, and a frame takes them in increasing order: some     *)
(* order that all code keeps to.  ptable.lock may be anywhere in it, for   *)
(* sleep takes it under another lock and wait takes kmem.lock under it.    *)
(***************************************************************************)
EXTENDS Naturals, Sequences, FiniteSets

CONSTANTS CPUs,     \* processors
          Threads,  \* processes, each with its kernel stack
          NLocks,   \* number of spinlocks
          PTable,   \* ptable.lock
          MaxDepth, \* bound on the frames of a context
          NoCPU     \* lk->cpu = 0

ASSUME SpinlockAssumption ==
    /\ CPUs \cap Threads = {}
    /\ NoCPU \notin CPUs
    /\ NLocks \in Nat \ {0} /\ PTable \in 1 .. NLocks
    /\ MaxDepth \in Nat \ {0}

Locks == 1 .. NLocks

VARIABLES
    fl_if,   \* EFLAGS.IF of each CPU
    ncli,    \* cpu->ncli
    intena,  \* cpu->intena
    locked,  \* lk->locked
    lkcpu,   \* lk->cpu
    run,     \* the context each CPU executes
    stk,     \* the frames of each context, innermost last
    saved,   \* the local variable intena of a thread's sched()
    panicked \* panic() was called

vars == <<fl_if, ncli, intena, locked, lkcpu, run, stk, saved, panicked>>
flags == <<fl_if, ncli, intena>>
locks == <<locked, lkcpu>>
switch == <<run, saved>>

Contexts == Threads \cup CPUs

\* kind "code": the context's own code; "fork": a thread not yet past
\* forkret; "intr": an interrupt handler.  pc is the next step inside
\* acquire or release of lk, or "run".  mine: the locks the frame holds
\* whenever it executes.  ef: pushcli's local variable eflags.
Frame(kind, mine) == [kind |-> kind, pc |-> "run", lk |-> PTable, mine |-> mine, ef |-> FALSE]

Init ==
    /\ fl_if = [c \in CPUs |-> TRUE]
    /\ ncli = [c \in CPUs |-> 0]
    /\ intena = [c \in CPUs |-> FALSE]
    /\ locked = [l \in Locks |-> FALSE]
    /\ lkcpu = [l \in Locks |-> NoCPU]
    /\ run = [c \in CPUs |-> c]
    /\ stk = [x \in Contexts |-> IF x \in CPUs THEN <<Frame("code", {})>>
                                 ELSE <<Frame("fork", {PTable})>>]
    /\ saved = [t \in Threads |-> FALSE]
    /\ panicked = FALSE

Top(c) == stk[run[c]][Len(stk[run[c]])]
SetTop(c, f) == stk' = [stk EXCEPT ![run[c]][Len(stk[run[c]])] = f]
At(c, pc) == ~panicked /\ Top(c).pc = pc

holding(c, l) == locked[l] /\ lkcpu[l] = c

\* panic() never returns.
panic == panicked' = TRUE /\ UNCHANGED <<flags, locks, switch, stk>>
-----------------------------------------------------------------------------
(* acquire, and pushcli alone *)

\* pushcli reads eflags.  A frame takes a lock above all those it holds.
pushcli_read(c, l) ==
    /\ At(c, "run")
    /\ Top(c).kind # "fork"
    /\ \A m \in Top(c).mine : m < l
    /\ SetTop(c, [Top(c) EXCEPT !.pc = "cli", !.lk = l, !.ef = fl_if[c]])
    /\ UNCHANGED <<flags, locks, switch, panicked>>

\* The rest of pushcli: cli, ncli++, and intena for the outermost one.
pushcli(c) ==
    /\ At(c, "cli")
    /\ fl_if' = [fl_if EXCEPT ![c] = FALSE]
    /\ ncli' = [ncli EXCEPT ![c] = @ + 1]
    /\ intena' = [intena EXCEPT ![c] = IF ncli[c] = 0 THEN Top(c).ef ELSE @]
    /\ SetTop(c, [Top(c) EXCEPT !.pc = "spin", !.ef = FALSE])
    /\ UNCHANGED <<locks, switch, panicked>>

\* xchg(&lk->locked, 1) found 0: test and set are one step.
Bug_xchg_wins(l) == TRUE
xchg_wins(l) == ~locked[l]

\* acquire: panic if this CPU holds the lock; the successful xchg.
acquire(c) ==
    LET l == Top(c).lk IN
    /\ At(c, "spin")
    /\ IF holding(c, l)
       THEN panic
       ELSE /\ xchg_wins(l)
            /\ locked' = [locked EXCEPT ![l] = TRUE]
            /\ SetTop(c, [Top(c) EXCEPT !.pc = "record"])
            /\ UNCHANGED <<flags, lkcpu, switch, panicked>>

\* acquire: lk->cpu = cpu.
acquire_record(c) ==
    /\ At(c, "record")
    /\ lkcpu' = [lkcpu EXCEPT ![Top(c).lk] = c]
    /\ SetTop(c, Frame(Top(c).kind, Top(c).mine \cup {Top(c).lk}))
    /\ UNCHANGED <<flags, locked, switch, panicked>>

\* switchuvm (in the scheduler, under ptable.lock, and in exec and growproc)
\* calls pushcli and popcli and takes no lock between them.
switchuvm(c) ==
    /\ At(c, "spin")
    /\ SetTop(c, [Top(c) EXCEPT !.pc = "pop"])
    /\ UNCHANGED <<flags, locks, switch, panicked>>
-----------------------------------------------------------------------------
(* release *)

\* release clears lk->cpu before it unlocks.
Bug_forget_cpu(l) == lkcpu
forget_cpu(l) == [lkcpu EXCEPT ![l] = NoCPU]

\* release: panic unless holding; lk->cpu = 0.
release(c, l) ==
    /\ At(c, "run")
    /\ l \in Top(c).mine
    /\ IF ~holding(c, l)
       THEN panic
       ELSE /\ lkcpu' = forget_cpu(l)
            /\ SetTop(c, [Top(c) EXCEPT !.pc = "unlock", !.lk = l])
            /\ UNCHANGED <<flags, locked, switch, panicked>>

\* release: xchg(&lk->locked, 0).
release_xchg(c) ==
    /\ At(c, "unlock")
    /\ locked' = [locked EXCEPT ![Top(c).lk] = FALSE]
    /\ SetTop(c, [Top(c) EXCEPT !.pc = "pop", !.mine = @ \ {Top(c).lk}])
    /\ UNCHANGED <<flags, lkcpu, switch, panicked>>

\* sti only when the outermost popcli finds intena set.
Bug_popcli_sti(c) == intena[c]
popcli_sti(c) == ncli[c] = 1 /\ intena[c]

\* popcli: two panics; the outermost one restores the interrupt flag.
popcli(c) ==
    /\ At(c, "pop")
    /\ IF fl_if[c] \/ ncli[c] = 0
       THEN panic
       ELSE /\ ncli' = [ncli EXCEPT ![c] = @ - 1]
            /\ fl_if' = [fl_if EXCEPT ![c] = popcli_sti(c)]
            /\ SetTop(c, Frame(Top(c).kind, Top(c).mine))
            /\ UNCHANGED <<intena, locks, switch, panicked>>
-----------------------------------------------------------------------------
(* Interrupts *)

\* tvinit gives devices interrupt gates, which enter the handler with IF clear.
Bug_gate_if(c) == fl_if[c]
gate_if(c) == FALSE

\* A device or timer interrupt.
Interrupt(c) ==
    /\ ~panicked
    /\ fl_if[c]
    /\ Len(stk[run[c]]) < MaxDepth
    /\ fl_if' = [fl_if EXCEPT ![c] = gate_if(c)]
    /\ stk' = [stk EXCEPT ![run[c]] = Append(@, Frame("intr", {}))]
    /\ UNCHANGED <<ncli, intena, locks, switch, panicked>>

\* The handler returns: iret restores the interrupted code's IF, which was set.
iret(c) ==
    /\ At(c, "run")
    /\ Top(c).kind = "intr" /\ Top(c).mine = {}
    /\ fl_if' = [fl_if EXCEPT ![c] = TRUE]
    /\ stk' = [stk EXCEPT ![run[c]] = SubSeq(@, 1, Len(@) - 1)]
    /\ UNCHANGED <<ncli, intena, locks, switch, panicked>>
-----------------------------------------------------------------------------
(* Context switches *)

\* Thread code in sleep or exit, or the timer's handler in yield, holds
\* ptable.lock and calls sched, which panics if it holds another lock.
CallsSched(c) ==
    /\ At(c, "run")
    /\ run[c] \in Threads
    /\ Top(c).kind # "fork" /\ Top(c).mine = {PTable}

sched(c) ==
    /\ CallsSched(c)
    /\ IF ~holding(c, PTable) \/ ncli[c] # 1 \/ fl_if[c]
       THEN panic
       ELSE /\ saved' = [saved EXCEPT ![run[c]] = intena[c]]
            /\ run' = [run EXCEPT ![c] = c]
            /\ UNCHANGED <<flags, locks, stk, panicked>>

\* scheduler: sti() at the top of the loop.
scheduler_sti(c) ==
    /\ At(c, "run")
    /\ run[c] = c
    /\ Top(c).kind = "code" /\ Top(c).mine = {}
    /\ ~fl_if[c]
    /\ fl_if' = [fl_if EXCEPT ![c] = TRUE]
    /\ UNCHANGED <<ncli, intena, locks, switch, stk, panicked>>

\* A thread that left through sched continues there and sets cpu->intena
\* from its own copy; a new one starts in forkret.
Bug_intena_after(c, t) == intena[c]
intena_after(c, t) == IF stk[t][Len(stk[t])].kind = "fork" THEN intena[c] ELSE saved[t]

\* scheduler: swtch to a thread that is on no CPU.
swtch(c, t) ==
    /\ At(c, "run")
    /\ run[c] = c
    /\ Top(c).kind = "code" /\ Top(c).mine = {PTable}
    /\ \A d \in CPUs : run[d] # t
    /\ run' = [run EXCEPT ![c] = t]
    /\ intena' = [intena EXCEPT ![c] = intena_after(c, t)]
    /\ UNCHANGED <<fl_if, ncli, locks, stk, saved, panicked>>

\* forkret has released ptable.lock; trapret's iret enters user space with IF set.
forkret_iret(c) ==
    /\ At(c, "run")
    /\ Top(c).kind = "fork" /\ Top(c).mine = {}
    /\ fl_if' = [fl_if EXCEPT ![c] = TRUE]
    /\ SetTop(c, [Top(c) EXCEPT !.kind = "code"])
    /\ UNCHANGED <<ncli, intena, locks, switch, panicked>>

Next ==
    \/ \E c \in CPUs :
          \/ pushcli(c) \/ acquire(c) \/ acquire_record(c)
          \/ switchuvm(c) \/ release_xchg(c) \/ popcli(c)
          \/ Interrupt(c) \/ iret(c)
          \/ sched(c) \/ scheduler_sti(c) \/ forkret_iret(c)
    \/ \E c \in CPUs, l \in Locks : pushcli_read(c, l) \/ release(c, l)
    \/ \E c \in CPUs, t \in Threads : swtch(c, t)

Spec == Init /\ [][Next]_vars
-----------------------------------------------------------------------------
(* Properties *)

FrameType == [kind : {"code", "fork", "intr"},
              pc : {"run", "cli", "spin", "record", "unlock", "pop"},
              lk : Locks, mine : SUBSET Locks, ef : BOOLEAN]

TypeOK ==
    /\ fl_if \in [CPUs -> BOOLEAN]
    /\ ncli \in [CPUs -> 0 .. NLocks]
    /\ intena \in [CPUs -> BOOLEAN]
    /\ locked \in [Locks -> BOOLEAN]
    /\ lkcpu \in [Locks -> CPUs \cup {NoCPU}]
    /\ run \in [CPUs -> Contexts]
    /\ stk \in [Contexts -> Seq(FrameType)]
    /\ \A x \in Contexts : Len(stk[x]) \in 1 .. 2  \* no handler interrupts a handler
    /\ saved \in [Threads -> BOOLEAN]
    /\ panicked \in BOOLEAN

\* The locks the frames of CPU c's context hold or are letting go of.
HeldOn(c) == UNION {stk[run[c]][i].mine : i \in 1 .. Len(stk[run[c]])}

\* A lock is held on at most one CPU at a time, also across swtch, where the
\* thread that leaves and the one that arrives share ptable.lock.
MutualExclusion ==
    \A c, d \in CPUs : c # d => HeldOn(c) \cap HeldOn(d) = {} /\ run[c] # run[d]

\* The consistency checks of acquire, release, popcli and sched never fire.
NoPanic == ~panicked

\* A CPU that holds a spinlock, or spins for one, takes no interrupt; so a
\* handler never spins for a lock its own CPU holds.
NoInterruptsUnderLock ==
    \A c \in CPUs :
        /\ (HeldOn(c) # {} \/ Top(c).pc \notin {"run", "cli"}) => ~fl_if[c]
        /\ \A i \in 1 .. Len(stk[run[c]]) - 1 : stk[run[c]][i].mine = {}

\* "If interrupts are off, then pushcli, popcli leaves them off", and on
\* otherwise: thread code with no lock runs with interrupts on, a handler
\* with interrupts off, whatever context switches went between.
InterruptFlagRestored ==
    \A c \in CPUs :
        (run[c] \in Threads /\ Top(c).pc = "run" /\ Top(c).mine = {} /\ Top(c).kind # "fork")
            => fl_if[c] = (Top(c).kind = "code")

\* acquire and release keep their discipline: one holder at a time, no
\* interrupt on a CPU that has a lock or wants one, and no state in which
\* the code's own checks fail.
LockDiscipline == TypeOK /\ MutualExclusion /\ NoInterruptsUnderLock /\ NoPanic
=============================================================================
