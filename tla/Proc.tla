-------------------------------- MODULE Proc --------------------------------
(***************************************************************************)
(* kernel/proc.c: the process table, the per-CPU schedulers, sleep and     *)
(* wakeup, and the process system calls, on several CPUs.                  *)
(*                                                                         *)
(* ptable.lock is explicit because it is held across swtch.  What a CPU    *)
(* does between acquiring and releasing it without a switch is one step;   *)
(* what fork and allocproc write without it are steps of their own.  The   *)
(* client of sleep and wakeup is the pair begin_trans / commit_trans of    *)
(* log.c with its spinlock log.lock.                                       *)
(***************************************************************************)
EXTENDS Naturals

CONSTANTS NPROC,   \* param.h: slots of the process table
          CPUs,    \* processors
          MaxPid,  \* bound on the pids given out
          NoCPU    \* ptable.lock is free

ASSUME ProcAssumption ==
    /\ NPROC \in Nat \ {0}
    /\ MaxPid \in Nat \ {0}
    /\ NoCPU \notin CPUs

Slots == 1 .. NPROC
None == 0            \* a null struct proc pointer, or no channel
initproc == 1
LogChan == NPROC + 1 \* the address &log; &ptable.proc[i] is the channel i
States == {"UNUSED", "EMBRYO", "SLEEPING", "RUNNABLE", "RUNNING", "ZOMBIE"}

VARIABLES
    state, pid, parent, chan, killed, kstack, \* struct proc
    context,  \* where a process left its CPU: p->context
    pc,       \* where a process is in the kernel, "user" in user space
    np,       \* fork's local variable
    nextpid,
    ptlock,   \* the CPU that holds ptable.lock
    curproc,  \* cpu->proc
    scan,     \* scheduler's position in the table; None between rounds
    loglock,  \* the process that holds log.lock
    busy,     \* log.busy
    panicked  \* panic() froze the machine

ptable == <<state, pid, parent, chan, killed, kstack>>
cpus == <<ptlock, curproc, scan>>
client == <<loglock, busy>>
vars == <<ptable, context, pc, np, nextpid, cpus, client, panicked>>

Init ==
    /\ state = [p \in Slots |-> IF p = initproc THEN "RUNNABLE" ELSE "UNUSED"]
    /\ pid = [p \in Slots |-> IF p = initproc THEN 1 ELSE 0]
    /\ parent = [p \in Slots |-> None]
    /\ chan = [p \in Slots |-> None]
    /\ killed = [p \in Slots |-> FALSE]
    /\ kstack = [p \in Slots |-> p = initproc]
    /\ context = [p \in Slots |-> "forkret"]
    /\ pc = [p \in Slots |-> "user"]
    /\ np = [p \in Slots |-> None]
    /\ nextpid = 2
    /\ ptlock = NoCPU
    /\ curproc = [c \in CPUs |-> None]
    /\ scan = [c \in CPUs |-> None]
    /\ loglock = None
    /\ busy = FALSE
    /\ panicked = FALSE

\* The process on CPU c executes kernel code at l (not resuming from a switch).
At(c, l) ==
    /\ ~panicked
    /\ curproc[c] # None
    /\ context[curproc[c]] = "none"
    /\ pc[curproc[c]] = l
\* A system call begins: trap() has seen that the process is not killed.
Call(c) == At(c, "user") /\ ~killed[curproc[c]]
Goto(c, l) == pc' = [pc EXCEPT ![curproc[c]] = l]
PTFree == ptlock = NoCPU
\* A loop over the table stops at the first slot of those it looks for.
IsFirst(p, S) == p \in S /\ \A q \in S : p <= q

\* wakeup1: the states after every sleeper on ch has been made RUNNABLE.
Bug_wakeup1(s, ch) ==
    [p \in Slots |-> IF s[p] = "SLEEPING" /\ chan[p] = ch /\ p < NPROC THEN "RUNNABLE" ELSE s[p]]
wakeup1(s, ch) ==
    [p \in Slots |-> IF s[p] = "SLEEPING" /\ chan[p] = ch THEN "RUNNABLE" ELSE s[p]]

\* scheduler: the slot after the one that has just left the CPU.
Bug_next_slot(s) == s + 2
Bug_next_slot_restart(s) == 1
next_slot(s) == s + 1

\* sched: leave the CPU to its scheduler, which holds ptable.lock and goes
\* on with the next slot.
sched(c, ctx) ==
    /\ context' = [context EXCEPT ![curproc[c]] = ctx]
    /\ curproc' = [curproc EXCEPT ![c] = None]
    /\ scan' = [scan EXCEPT ![c] = next_slot(@)]
    /\ ptlock' = c
-----------------------------------------------------------------------------
(* scheduler *)

scheduler_round(c) ==
    /\ ~panicked
    /\ curproc[c] = None /\ scan[c] = None
    /\ PTFree
    /\ ptlock' = c
    /\ scan' = [scan EXCEPT ![c] = 1]
    /\ UNCHANGED <<ptable, context, pc, np, nextpid, curproc, client, panicked>>

\* The slots the loop still has before it.
Bug_Ahead(c) == {p \in Slots : state[p] \in {"RUNNABLE", "EMBRYO"} /\ p >= scan[c]}
Ahead(c) == {p \in Slots : state[p] = "RUNNABLE" /\ p >= scan[c]}

scheduler_next(c) ==
    /\ ~panicked
    /\ curproc[c] = None /\ ptlock = c
    /\ IF Ahead(c) # {}
       THEN \E p \in Slots :
            /\ IsFirst(p, Ahead(c))
            /\ state' = [state EXCEPT ![p] = "RUNNING"]
            /\ curproc' = [curproc EXCEPT ![c] = p]
            /\ scan' = [scan EXCEPT ![c] = p]
            /\ UNCHANGED ptlock
       ELSE /\ scan' = [scan EXCEPT ![c] = None]
            /\ ptlock' = NoCPU
            /\ UNCHANGED <<state, curproc>>
    /\ UNCHANGED <<pid, parent, chan, killed, kstack, context, pc, np, nextpid, client, panicked>>

\* The process continues where it left: after sched() in yield, sleep or
\* wait, or for the first time in forkret.  Only wait's sleep keeps the lock.
resume(c) ==
    LET p == curproc[c] IN
    /\ ~panicked
    /\ p # None /\ context[p] # "none"
    /\ context' = [context EXCEPT ![p] = "none"]
    /\ chan' = [chan EXCEPT ![p] = None]
    /\ ptlock' = IF context[p] = "wait" THEN c ELSE NoCPU
    /\ UNCHANGED <<state, pid, parent, killed, kstack, pc, np, nextpid, curproc, scan, client, panicked>>

\* Code that holds a spinlock runs with interrupts off.
HoldsSpinlock(c) == ptlock = c \/ loglock = curproc[c]

\* A timer interrupt in user space (where trap() makes a killed process exit
\* instead), or in kernel code that holds no lock.
yield(c) ==
    LET p == curproc[c] IN
    /\ ~panicked
    /\ p # None /\ context[p] = "none" /\ ~HoldsSpinlock(c)
    /\ ~(pc[p] = "user" /\ killed[p])
    /\ PTFree
    /\ state' = [state EXCEPT ![p] = "RUNNABLE"]
    /\ sched(c, "yield")
    /\ UNCHANGED <<pid, parent, chan, killed, kstack, pc, np, nextpid, client, panicked>>
-----------------------------------------------------------------------------
(* fork *)

\* allocproc up to its release: the first UNUSED slot.
allocproc(c) ==
    /\ Call(c) /\ PTFree
    /\ nextpid <= MaxPid
    /\ \E q \in Slots :
        /\ IsFirst(q, {p \in Slots : state[p] = "UNUSED"})
        /\ state' = [state EXCEPT ![q] = "EMBRYO"]
        /\ pid' = [pid EXCEPT ![q] = nextpid]
        /\ np' = [np EXCEPT ![curproc[c]] = q]
    /\ nextpid' = nextpid + 1
    /\ Goto(c, "kstack")
    /\ UNCHANGED <<parent, chan, killed, kstack, context, cpus, client, panicked>>

\* fork returns -1 for want of a slot; init's answer to that is exit() (init.c).
fork_full(c) ==
    /\ Call(c) /\ PTFree
    /\ curproc[c] = initproc
    /\ \A p \in Slots : state[p] # "UNUSED"
    /\ Goto(c, "exit")
    /\ UNCHANGED <<ptable, context, np, nextpid, cpus, client, panicked>>

\* A failed step of fork gives the slot back without ptable.lock; init
\* exits then too.
fork_fails(c) ==
    LET p == curproc[c] IN
    /\ At(c, "kstack") \/ At(c, "copyuvm")
    /\ kstack' = [kstack EXCEPT ![np[p]] = FALSE]
    /\ state' = [state EXCEPT ![np[p]] = "UNUSED"]
    /\ Goto(c, IF p = initproc THEN "exit" ELSE "ret")
    /\ np' = [np EXCEPT ![p] = None]
    /\ UNCHANGED <<pid, parent, chan, killed, context, nextpid, cpus, client, panicked>>

\* The rest of allocproc: the kernel stack, with the context of forkret.
allocproc_kstack(c) ==
    LET p == curproc[c] IN
    /\ At(c, "kstack")
    /\ kstack' = [kstack EXCEPT ![np[p]] = TRUE]
    /\ context' = [context EXCEPT ![np[p]] = "forkret"]
    /\ pc' = [pc EXCEPT ![p] = "copyuvm", ![np[p]] = "user"]
    /\ UNCHANGED <<state, pid, parent, chan, killed, np, nextpid, cpus, client, panicked>>

fork_copy(c) ==
    LET p == curproc[c] IN
    /\ At(c, "copyuvm")
    /\ parent' = [parent EXCEPT ![np[p]] = p]
    /\ Goto(c, "runnable")
    /\ UNCHANGED <<state, pid, chan, killed, kstack, context, np, nextpid, cpus, client, panicked>>

fork_runnable(c) ==
    LET p == curproc[c] IN
    /\ At(c, "runnable")
    /\ state' = [state EXCEPT ![np[p]] = "RUNNABLE"]
    /\ np' = [np EXCEPT ![p] = None]
    /\ Goto(c, "ret")
    /\ UNCHANGED <<pid, parent, chan, killed, kstack, context, nextpid, cpus, client, panicked>>
-----------------------------------------------------------------------------
(* exit, wait, kill *)

\* trap(): back to user space, unless the process has been killed.
trap_return(c) ==
    /\ At(c, "ret")
    /\ Goto(c, IF killed[curproc[c]] THEN "exit" ELSE "user")
    /\ UNCHANGED <<ptable, context, np, nextpid, cpus, client, panicked>>

\* The exit system call, a fault, or a trap that finds the process killed.
exit_call(c) ==
    /\ At(c, "user")
    /\ killed[curproc[c]] \/ curproc[c] # initproc
    /\ Goto(c, "exit")
    /\ UNCHANGED <<ptable, context, np, nextpid, cpus, client, panicked>>

\* exit: children pass to init, which is woken if it sleeps in wait and one
\* of them is a zombie.
Adopted(p) == {q \in Slots : parent[q] = p}
Bug_exit_wakeups(p) == state
exit_wakeups(p) ==
    IF \E q \in Adopted(p) : state[q] = "ZOMBIE"
    THEN wakeup1(wakeup1(state, parent[p]), initproc)
    ELSE wakeup1(state, parent[p])
Bug_reparent(p) == parent
reparent(p) == [q \in Slots |-> IF parent[q] = p THEN initproc ELSE parent[q]]

exit(c) ==
    LET p == curproc[c] IN
    /\ At(c, "exit")
    /\ p # initproc
    /\ PTFree
    /\ state' = [exit_wakeups(p) EXCEPT ![p] = "ZOMBIE"]
    /\ parent' = reparent(p)
    /\ sched(c, "zombie")
    /\ UNCHANGED <<pid, chan, killed, kstack, pc, np, nextpid, client, panicked>>

exit_panic(c) ==
    /\ At(c, "exit")
    /\ curproc[c] = initproc
    /\ panicked' = TRUE
    /\ UNCHANGED <<ptable, context, pc, np, nextpid, cpus, client>>

\* wait: one pass over the table, from the call or after a wakeup, where
\* sleep returns with ptable.lock held.
WaitScan(c) == (Call(c) /\ PTFree) \/ (At(c, "wait") /\ ptlock = c)
Kids(p) == {q \in Slots : parent[q] = p}
Zombies(p) == {q \in Kids(p) : state[q] = "ZOMBIE"}

wait_reap(c) ==
    /\ WaitScan(c)
    /\ \E q \in Slots :
        /\ IsFirst(q, Zombies(curproc[c]))
        /\ kstack' = [kstack EXCEPT ![q] = FALSE]
        /\ state' = [state EXCEPT ![q] = "UNUSED"]
        /\ pid' = [pid EXCEPT ![q] = 0]
        /\ parent' = [parent EXCEPT ![q] = None]
        /\ killed' = [killed EXCEPT ![q] = FALSE]
    /\ ptlock' = NoCPU
    /\ Goto(c, "ret")
    /\ UNCHANGED <<chan, context, np, nextpid, curproc, scan, client, panicked>>

wait_none(c) ==
    LET p == curproc[c] IN
    /\ WaitScan(c)
    /\ Zombies(p) = {}
    /\ Kids(p) = {} \/ killed[p]
    /\ ptlock' = NoCPU
    /\ Goto(c, "ret")
    /\ UNCHANGED <<ptable, context, np, nextpid, curproc, scan, client, panicked>>

wait_sleep(c) ==
    LET p == curproc[c] IN
    /\ WaitScan(c)
    /\ Zombies(p) = {} /\ Kids(p) # {} /\ ~killed[p]
    /\ chan' = [chan EXCEPT ![p] = p]
    /\ state' = [state EXCEPT ![p] = "SLEEPING"]
    /\ sched(c, "wait")
    /\ Goto(c, "wait")
    /\ UNCHANGED <<pid, parent, killed, kstack, np, nextpid, client, panicked>>

\* "Wake process from sleep if necessary."
Bug_kill_wakes(q) == state
kill_wakes(q) == [state EXCEPT ![q] = IF @ = "SLEEPING" THEN "RUNNABLE" ELSE @]

\* kill: the first slot with that pid, whatever its state.
kill(c, k) ==
    /\ Call(c) /\ PTFree
    /\ \E q \in Slots :
        /\ IsFirst(q, {p \in Slots : pid[p] = k})
        /\ killed' = [killed EXCEPT ![q] = TRUE]
        /\ state' = kill_wakes(q)
    /\ Goto(c, "ret")
    /\ UNCHANGED <<pid, parent, chan, kstack, context, np, nextpid, cpus, client, panicked>>
-----------------------------------------------------------------------------
(* sleep and wakeup under a spinlock: begin_trans and commit_trans *)

\* acquire(&log.lock): on entry, and at the end of sleep.
log_acquire(c) ==
    LET p == curproc[c] IN
    /\ (Call(c) /\ p # initproc) \/ At(c, "relock")
    /\ loglock = None
    /\ loglock' = p
    /\ Goto(c, "begin")
    /\ UNCHANGED <<ptable, context, np, nextpid, cpus, busy, panicked>>

begin_trans(c) ==
    /\ At(c, "begin")
    /\ ~busy
    /\ busy' = TRUE
    /\ loglock' = None
    /\ Goto(c, "trans")
    /\ UNCHANGED <<ptable, context, np, nextpid, cpus, panicked>>

\* sleep: "Once we hold ptable.lock ... it's okay to release lk."
sleep_lock(c) ==
    /\ At(c, "begin")
    /\ busy
    /\ PTFree
    /\ ptlock' = c
    /\ loglock' = None
    /\ Goto(c, "sleep")
    /\ UNCHANGED <<ptable, context, np, nextpid, curproc, scan, busy, panicked>>

sleep(c) ==
    LET p == curproc[c] IN
    /\ At(c, "sleep") /\ ptlock = c
    /\ chan' = [chan EXCEPT ![p] = LogChan]
    /\ state' = [state EXCEPT ![p] = "SLEEPING"]
    /\ sched(c, "sleep")
    /\ Goto(c, "relock")
    /\ UNCHANGED <<pid, parent, killed, kstack, np, nextpid, client, panicked>>

\* commit_trans: log.busy = 0 under log.lock ...
commit_trans(c) ==
    /\ At(c, "trans")
    /\ loglock = None
    /\ loglock' = curproc[c]
    /\ busy' = FALSE
    /\ Goto(c, "wakeup")
    /\ UNCHANGED <<ptable, context, np, nextpid, cpus, panicked>>

\* ... and wakeup(&log), then release.
wakeup(c) ==
    /\ At(c, "wakeup")
    /\ PTFree
    /\ state' = wakeup1(state, LogChan)
    /\ loglock' = None
    /\ Goto(c, "ret")
    /\ UNCHANGED <<pid, parent, chan, killed, kstack, context, np, nextpid, cpus, busy, panicked>>

\* panic() loops forever.
Halted == panicked /\ UNCHANGED vars

Scheduler(c) == scheduler_round(c) \/ scheduler_next(c) \/ resume(c)

Wait(c) == wait_reap(c) \/ wait_none(c) \/ wait_sleep(c)

Step(c) ==
    \/ allocproc(c) \/ fork_full(c) \/ allocproc_kstack(c) \/ fork_fails(c)
    \/ fork_copy(c) \/ fork_runnable(c)
    \/ trap_return(c) \/ exit_call(c) \/ exit(c) \/ exit_panic(c)
    \/ Wait(c) \/ \E k \in 0 .. MaxPid : kill(c, k)
    \/ log_acquire(c) \/ begin_trans(c) \/ sleep_lock(c) \/ sleep(c)
    \/ commit_trans(c) \/ wakeup(c)

Next ==
    \/ \E c \in CPUs : Scheduler(c) \/ yield(c) \/ Step(c)
    \/ Halted

Spec == Init /\ [][Next]_vars

\* The scheduler keeps running; a timer interrupt that is pending is taken as
\* soon as interrupts are on; a process in the kernel executes instructions
\* between two timer interrupts, and init, in user space, calls wait in a
\* loop (init.c).
Fairness ==
    \A c \in CPUs :
        /\ WF_vars(Scheduler(c))
        /\ SF_vars(yield(c) \/ (exit_call(c) /\ killed[curproc[c]]))
        /\ \A p \in Slots : SF_vars(curproc[c] = p /\ ~At(c, "user") /\ Step(c))
        /\ SF_vars(curproc[c] = initproc /\ Wait(c))

FairSpec == Spec /\ Fairness
-----------------------------------------------------------------------------
(* Properties *)

Live == {p \in Slots : state[p] \notin {"UNUSED", "EMBRYO"}}

TypeOK ==
    /\ state \in [Slots -> States]
    /\ pid \in [Slots -> 0 .. MaxPid]
    /\ parent \in [Slots -> Slots \cup {None}]
    /\ chan \in [Slots -> 0 .. LogChan]
    /\ killed \in [Slots -> BOOLEAN]
    /\ kstack \in [Slots -> BOOLEAN]
    /\ context \in [Slots -> {"none", "forkret", "yield", "sleep", "wait", "zombie"}]
    /\ pc \in [Slots -> {"user", "kstack", "copyuvm", "runnable", "ret", "exit", "wait",
                         "begin", "sleep", "relock", "trans", "wakeup"}]
    /\ np \in [Slots -> Slots \cup {None}]
    /\ nextpid \in 1 .. MaxPid + 1
    /\ ptlock \in CPUs \cup {NoCPU}
    /\ curproc \in [CPUs -> Slots \cup {None}]
    /\ scan \in [CPUs -> 0 .. NPROC + 1]
    /\ loglock \in Slots \cup {None}
    /\ busy \in BOOLEAN
    /\ panicked \in BOOLEAN

\* A process runs on one CPU at a time, exactly while it is RUNNING, and on
\* a kernel stack that has not been freed under it (wait frees it only after
\* the zombie has left the CPU, because sched hands ptable.lock over).
RunsOnOneCPU ==
    /\ \A c, d \in CPUs : curproc[c] = curproc[d] /\ curproc[c] # None => c = d
    /\ \A c \in CPUs : curproc[c] # None => state[curproc[c]] = "RUNNING" /\ kstack[curproc[c]]
    /\ \A p \in Slots : state[p] = "RUNNING" => \E c \in CPUs : curproc[c] = p

\* Every process but init has a parent that is alive to wait for it: exit
\* leaves no child behind with a dead parent.
ParentsAreAlive ==
    \A p \in Live \ {initproc} :
        parent[p] \in Live /\ state[parent[p]] # "ZOMBIE"

\* A process asleep in wait has a child, none of them is a zombie it missed,
\* and it has not been killed.
WaitMissesNothing ==
    \A p \in Slots : state[p] = "SLEEPING" /\ chan[p] = p =>
        Kids(p) # {} /\ Zombies(p) = {} /\ ~killed[p]

\* sleep: "we can be guaranteed that we won't miss any wakeup".  A process
\* asleep on &log has log.busy to wait for, or a wakeup on its way.
NoLostWakeup ==
    (\E p \in Slots : state[p] = "SLEEPING" /\ chan[p] = LogChan)
        => busy \/ \E q \in Slots : state[q] = "RUNNING" /\ pc[q] = "wakeup"

\* proc.h, "If non-zero, have been killed": a process is not born killed.
BornUnkilled ==
    [][\A p \in Slots : state[p] = "UNUSED" /\ state'[p] = "EMBRYO" => ~killed'[p]]_vars

\* Every runnable process gets a CPU: the loop of scheduler goes round.
RunnableRuns ==
    \A p \in Slots : state[p] = "RUNNABLE" ~> (state[p] = "RUNNING" \/ panicked)

\* kill, "Wake process from sleep if necessary": a process killed in wait
\* leaves it and exits, even if its children never do.
KilledWaiterExits ==
    \A p \in Slots : (killed[p] /\ pc[p] = "wait" /\ state[p] # "UNUSED")
                        ~> (state[p] \in {"ZOMBIE", "UNUSED"} \/ panicked)

\* A zombie that init is the parent of is reaped, whoever its parent was
\* when it exited.
OrphansAreReaped ==
    \A p \in Slots : (state[p] = "ZOMBIE" /\ parent[p] = initproc) ~> (state[p] = "UNUSED" \/ panicked)

\* The process table is sound: no process on two CPUs or on a freed stack,
\* and none without a parent to reap it.
TableIsSound == TypeOK /\ RunsOnOneCPU /\ ParentsAreAlive

\* Neither wait nor begin_trans sleeps through what it waits for.
NothingIsMissed == WaitMissesNothing /\ NoLostWakeup
=============================================================================
