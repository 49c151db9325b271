------------------------------ MODULE ProcProof ------------------------------
(***************************************************************************)
(* Proofs about Proc for any number of slots, CPUs and pids: the process   *)
(* table is sound (TableIsSound), and neither wait nor begin_trans sleeps  *)
(* through what it waits for (NothingIsMissed).                            *)
(*                                                                         *)
(* Neither is inductive.  That a process runs on one CPU rests on where    *)
(* the schedulers' loops stand; that no wakeup is lost, on who holds which *)
(* lock at each point of sleep and wakeup; that every child has a living   *)
(* parent, on fork's EMBRYO being nobody's child before fork says so.      *)
(* IInv says all of that.  Four lemmas carry the steps: PcStep (a process  *)
(* moves on in the kernel), SwitchStep (it leaves its CPU), SlotStep (it   *)
(* works on a slot at rest) and WakeStep (it wakes sleepers).              *)
(***************************************************************************)
EXTENDS Proc, TLAPS

\* What runs is where cpu->proc and the scheduler's loop say it is.
Running ==
    /\ RunsOnOneCPU
    /\ \A c \in CPUs : curproc[c] # None => scan[c] = curproc[c]

\* Where a process is that left its CPU through ctx, and what it sleeps on.
LeftAt(ctx, l) ==
    /\ ctx = "forkret" => l = "user"
    /\ ctx = "yield" => l \notin {"wait", "sleep", "begin", "wakeup"}
    /\ ctx = "sleep" => l = "relock"
    /\ ctx = "wait" => l = "wait"
    /\ ctx = "zombie" => l = "exit"
ChanOf(p, ctx) == IF ctx = "sleep" THEN LogChan ELSE IF ctx = "wait" THEN p ELSE None
ContextsOf(s) ==
    CASE s = "RUNNING"  -> {"none", "forkret", "yield", "sleep", "wait"}
      [] s = "RUNNABLE" -> {"forkret", "yield", "sleep", "wait"}
      [] s = "SLEEPING" -> {"sleep", "wait"}
      [] s = "ZOMBIE"   -> {"zombie"}
      [] OTHER          -> {"forkret", "zombie"}
Contexts ==
    \A p \in Slots : /\ context[p] \in ContextsOf(state[p])
                     /\ LeftAt(context[p], pc[p])
                     /\ chan[p] = ChanOf(p, context[p])

\* fork's np is an EMBRYO of its own, which nobody has for a child before
\* fork is through with it.
InFork == {"kstack", "copyuvm", "runnable"}
ForkOf(p) ==
    /\ np[p] # None <=> pc[p] \in InFork
    /\ pc[p] \in InFork => state[p] \in {"RUNNING", "RUNNABLE"} /\ state[np[p]] = "EMBRYO"
    /\ pc[p] \in {"copyuvm", "runnable"} => kstack[np[p]] /\ context[np[p]] = "forkret"
    /\ pc[p] \in {"kstack", "copyuvm"} => parent[np[p]] = None
    /\ pc[p] = "runnable" => parent[np[p]] = p
OwnEmbryos == \A p, q \in Slots : np[p] = np[q] /\ np[p] # None => p = q
Forking == OwnEmbryos /\ \A p \in Slots : ForkOf(p)

\* Who is between a switch and its release of ptable.lock, or asleep on its
\* feet in sleep or wait, has the lock; begin_trans and wakeup have log.lock.
Locking ==
    /\ \A c \in CPUs : curproc[c] # None /\ (context[curproc[c]] # "none" \/ pc[curproc[c]] \in {"wait", "sleep"})
                          => ptlock = c
    /\ \A p \in Slots : pc[p] \in {"begin", "wakeup"} => loglock = p
    /\ \A p \in Slots : pc[p] \in {"begin", "wakeup", "sleep"} => context[p] = "none"

\* init lives for ever, a live process has its kernel stack and a parent to
\* wait for it, a free slot is nobody's child.
FamilyOf(p) ==
    /\ parent[p] # p
    /\ state[p] = "UNUSED" => parent[p] = None
    /\ state[p] \notin {"UNUSED", "EMBRYO"} =>
          /\ kstack[p]
          /\ p # initproc => parent[p] \in Slots /\ state[parent[p]] \notin {"UNUSED", "EMBRYO", "ZOMBIE"}
Families ==
    /\ state[initproc] \notin {"UNUSED", "EMBRYO", "ZOMBIE"} /\ parent[initproc] = None
    /\ \A p \in Slots : FamilyOf(p)

\* As WaitMissesNothing, child by child.
Waiting ==
    \A p \in Slots : state[p] = "SLEEPING" /\ chan[p] = p =>
        /\ \E q \in Slots : parent[q] = p
        /\ \A q \in Slots : parent[q] = p => state[q] # "ZOMBIE"
        /\ ~killed[p]

\* As NoLostWakeup, from the moment sleep has given up log.lock.
Waking ==
    (\E p \in Slots : (state[p] = "SLEEPING" /\ chan[p] = LogChan) \/ pc[p] = "sleep")
        => busy \/ \E q \in Slots : state[q] = "RUNNING" /\ pc[q] = "wakeup"

\* The inductive invariant.
IInv == TypeOK /\ Running /\ Contexts /\ Forking /\ Locking /\ Families /\ Waiting /\ Waking
-----------------------------------------------------------------------------
(* Facts the proofs keep needing *)

\* The slots, the null pointer and the two kinds of channel are told apart.
LEMMA SlotFacts ==
    /\ initproc \in Slots
    /\ None \notin Slots /\ LogChan \notin Slots /\ LogChan # None
    /\ NoCPU \notin CPUs
  BY ProcAssumption DEF Slots, initproc, None, LogChan

\* What the variables that point into the table range over.
LEMMA BoundFacts ==
    /\ 1 \in 0 .. NPROC + 1 /\ None \in 0 .. NPROC + 1
    /\ \A q \in Slots : /\ q \in 0 .. NPROC + 1 /\ q + 1 \in 0 .. NPROC + 1
                         /\ q \in 0 .. LogChan
    /\ 0 \in 0 .. MaxPid
    /\ None \in 0 .. LogChan /\ LogChan \in 0 .. LogChan
  BY ProcAssumption DEF Slots, None, LogChan

\* cpu->proc is a slot, and RUNNING.
LEMMA OnCPU ==
    ASSUME IInv, NEW c \in CPUs, curproc[c] # None
    PROVE  /\ curproc[c] \in Slots /\ state[curproc[c]] = "RUNNING"
           /\ \A d \in CPUs : d # c => curproc[d] # curproc[c]
  BY DEF IInv, TypeOK, Running, RunsOnOneCPU

\* cpu->proc is a slot or null.
LEMMA CurIsSlot == ASSUME IInv PROVE \A d \in CPUs : curproc[d] \in Slots \cup {None}
  BY Zenon DEF IInv, TypeOK
\* fork's np is an EMBRYO while fork is under way.
LEMMA Embryos ==
    ASSUME IInv
    PROVE  \A q \in Slots : pc[q] \in InFork => np[q] \in Slots /\ state[np[q]] = "EMBRYO"
  BY DEF IInv, TypeOK, Forking, ForkOf

\* What a step must leave alone for a fork to go on.
LEMMA KeepForkOf ==
    ASSUME IInv, NEW q \in Slots, pc'[q] = pc[q], np'[q] = np[q],
           pc[q] \in InFork => /\ state'[q] \in {"RUNNING", "RUNNABLE"}
                               /\ state'[np[q]] = "EMBRYO"
                               /\ kstack[np[q]] => kstack'[np[q]]
                               /\ context'[np[q]] = context[np[q]]
                               /\ parent'[np[q]] = parent[np[q]]
    PROVE  ForkOf(q)'
  BY DEF IInv, Forking, ForkOf, InFork

\* A step of a process outside fork that leaves the EMBRYOs alone.
LEMMA KeepForking ==
    ASSUME IInv, UNCHANGED <<np, kstack, parent>>,
           NEW p \in Slots, pc[p] \notin InFork, pc'[p] \notin InFork,
           \A q \in Slots : q # p => pc'[q] = pc[q],
           \A q \in Slots : state[q] = "EMBRYO" => state'[q] = "EMBRYO" /\ context'[q] = context[q],
           \A q \in Slots : q # p /\ state[q] \in {"RUNNING", "RUNNABLE"}
                               => state'[q] \in {"RUNNING", "RUNNABLE"}
    PROVE  Forking'
<1>1. OwnEmbryos'
  BY Zenon DEF IInv, Forking, OwnEmbryos
<1>2. ForkOf(p)'
  BY Zenon DEF IInv, Forking, ForkOf, InFork
<1>3. ASSUME NEW q \in Slots, q # p PROVE ForkOf(q)'
  <2>1. pc[q] \in InFork => /\ state'[q] \in {"RUNNING", "RUNNABLE"} /\ state'[np[q]] = "EMBRYO"
                            /\ context'[np[q]] = context[np[q]]
    BY <1>3, Embryos, Zenon DEF IInv, Forking, ForkOf
  <2>. QED BY <1>3, <2>1, KeepForkOf, Zenon
<1>. QED BY <1>1, <1>2, <1>3, Zenon DEF Forking

\* A step that moves processes between RUNNING, RUNNABLE and SLEEPING.
LEMMA KeepFamilies ==
    ASSUME IInv, UNCHANGED <<kstack, parent>>,
           \A q \in Slots : \/ state'[q] = state[q]
                            \/ {state[q], state'[q]} \subseteq {"RUNNING", "RUNNABLE", "SLEEPING"}
    PROVE  Families'
<1>1. \A q \in Slots : /\ state'[q] \in {"UNUSED", "EMBRYO"} <=> state[q] \in {"UNUSED", "EMBRYO"}
                       /\ state'[q] = "UNUSED" <=> state[q] = "UNUSED"
                       /\ state'[q] = "ZOMBIE" <=> state[q] = "ZOMBIE"
  BY Zenon
<1>. QED BY <1>1, SlotFacts, Zenon DEF IInv, Families, FamilyOf
-----------------------------------------------------------------------------
(* Steps on a slot at rest *)

\* The EMBRYO that fork works on is its own, and at rest.
LEMMA EmbryoOf ==
    ASSUME IInv, NEW p \in Slots, pc[p] \in InFork
    PROVE  /\ np[p] \in Slots /\ np[p] # p /\ state[np[p]] = "EMBRYO"
           /\ parent[np[p]] \in {None, p}
           /\ context[np[p]] \in {"forkret", "zombie"} /\ pc[np[p]] \in {"user", "exit"}
           /\ \A q \in Slots : q # p => np[q] # np[p]
<1>1. np[p] \in Slots /\ np[p] # p /\ state[np[p]] = "EMBRYO"
  BY Embryos, Zenon DEF IInv, Forking, ForkOf
<1>2. parent[np[p]] \in {None, p} /\ \A q \in Slots : q # p => np[q] # np[p]
  BY <1>1, SlotFacts DEF IInv, Forking, ForkOf, OwnEmbryos, InFork
<1>3. context[np[p]] \in {"forkret", "zombie"} /\ pc[np[p]] \in {"user", "exit"}
  BY <1>1, Zenon DEF IInv, Contexts, ContextsOf, LeftAt
<1>. QED BY <1>1, <1>2, <1>3, Zenon

\* A step of p on a slot m at rest: allocproc, the steps of fork, and wait
\* that frees a zombie.
LEMMA SlotStep ==
    ASSUME IInv, TypeOK', NEW c \in CPUs, NEW p \in Slots, p = curproc[c], context[p] = "none",
           NEW m \in Slots, m # p, state[m] \in {"UNUSED", "EMBRYO", "ZOMBIE"},
           parent[m] \in {None, p}, \A q \in Slots : q # p => np[q] # m,
           pc[p] \in InFork \cup {"user", "wait"}, pc'[p] \in InFork \cup {"ret", "exit"},
           np'[p] \in {None, m}, ForkOf(p)',
           \A q \in Slots : q # p /\ q # m => pc'[q] = pc[q],
           \A q \in Slots : q # p => np'[q] = np[q],
           \A q \in Slots : q # m => /\ state'[q] = state[q] /\ context'[q] = context[q]
                                     /\ parent'[q] = parent[q]
                                     /\ kstack'[q] <=> kstack[q]
                                     /\ killed'[q] <=> killed[q],
           UNCHANGED <<chan, curproc, scan, loglock, busy>>,
           ptlock' = ptlock \/ (ptlock \in {NoCPU, c} /\ ptlock' = NoCPU),
           state'[m] \in {"UNUSED", "EMBRYO", "RUNNABLE"}, parent'[m] \in {None, p},
           context'[m] \in {"forkret", "zombie"}, LeftAt(context'[m], pc'[m]),
           state'[m] = "UNUSED" => parent'[m] = None,
           state'[m] = "RUNNABLE" => context'[m] = "forkret" /\ kstack'[m] /\ parent'[m] = p
    PROVE  IInv'
<1>1. /\ state[p] = "RUNNING" /\ \A d \in CPUs : d # c => curproc[d] # p
      /\ m # initproc /\ \A d \in CPUs : curproc[d] # m
  BY OnCPU, SlotFacts DEF IInv, Families, Running, RunsOnOneCPU
<1>2. context[m] \in {"forkret", "zombie"} /\ chan[m] = None /\ pc'[m] \in {"user", "exit"}
  BY Zenon DEF IInv, Contexts, ContextsOf, ChanOf, LeftAt
<1>3. Running'
  BY <1>1, CurIsSlot DEF IInv, Running, RunsOnOneCPU
<1>4. Contexts'
  BY <1>2 DEF IInv, Contexts, ContextsOf, ChanOf, LeftAt, InFork
<1>5. Forking'
  <2>1. OwnEmbryos'
    BY SlotFacts DEF IInv, Forking, OwnEmbryos
  <2>2. ForkOf(m)'
    BY <1>2, SlotFacts DEF IInv, Forking, ForkOf, InFork
  <2>3. ASSUME NEW q \in Slots, q # p, q # m PROVE ForkOf(q)'
    <3>1. pc[q] \in InFork => /\ np[q] \in Slots /\ np[q] # m /\ state[np[q]] = "EMBRYO"
                              /\ state[q] \in {"RUNNING", "RUNNABLE"}
      BY <2>3, Embryos DEF IInv, Forking, ForkOf
    <3>. QED BY <2>3, <3>1, KeepForkOf
  <2>. QED BY <2>1, <2>2, <2>3, Zenon DEF Forking
<1>6. Locking'
  BY <1>1, <1>2, SlotFacts, CurIsSlot DEF IInv, Locking, InFork
<1>7. Families'
  BY <1>1, SlotFacts DEF IInv, Families, FamilyOf
<1>8. Waiting'
  BY <1>1, SlotFacts DEF IInv, Waiting
<1>9. Waking'
  BY <1>2 DEF IInv, Waking, InFork
<1>. QED BY <1>3, <1>4, <1>5, <1>6, <1>7, <1>8, <1>9, Zenon DEF IInv

\* allocproc takes the first UNUSED slot.
LEMMA AllocprocInv ==
    ASSUME IInv, NEW c \in CPUs, allocproc(c)
    PROVE  IInv'
<1>1. PICK p \in Slots : p = curproc[c] /\ context[p] = "none" /\ pc[p] = "user" /\ state[p] = "RUNNING"
  BY OnCPU, Zenon DEF allocproc, Call, At
<1>2. PICK m \in Slots : /\ state[m] = "UNUSED"
                         /\ state' = [state EXCEPT ![m] = "EMBRYO"]
                         /\ pid' = [pid EXCEPT ![m] = nextpid]
                         /\ np' = [np EXCEPT ![p] = m]
  BY <1>1, Zenon DEF allocproc, IsFirst
<1>3. /\ nextpid <= MaxPid /\ nextpid' = nextpid + 1 /\ pc' = [pc EXCEPT ![p] = "kstack"]
      /\ UNCHANGED <<parent, chan, killed, kstack, context, ptlock, curproc, scan, loglock, busy, panicked>>
  BY <1>1, Zenon DEF allocproc, Goto, cpus, client
<1>4. TypeOK'
  <2>1. nextpid \in 0 .. MaxPid /\ nextpid' \in 1 .. MaxPid + 1
    BY <1>3, ProcAssumption DEF IInv, TypeOK
  <2>. QED BY <1>2, <1>3, <2>1, Zenon DEF IInv, TypeOK, States
<1>5. /\ m # p /\ parent[m] = None /\ context[m] \in {"forkret", "zombie"} /\ LeftAt(context[m], pc[m])
      /\ \A q \in Slots : np[q] # m
  BY <1>1, <1>2, SlotFacts, Embryos DEF IInv, Families, FamilyOf, Contexts, ContextsOf, Forking, ForkOf
<1>6. \A q \in Slots : /\ state'[q] = IF q = m THEN "EMBRYO" ELSE state[q]
                       /\ np'[q] = IF q = p THEN m ELSE np[q]
                       /\ pc'[q] = IF q = p THEN "kstack" ELSE pc[q]
  BY <1>2, <1>3, Zenon DEF IInv, TypeOK
<1>7. ForkOf(p)'
  BY <1>1, <1>3, <1>5, <1>6, SlotFacts, SMTT(30) DEF ForkOf, InFork
<1>. QED BY <1>1, <1>2, <1>3, <1>4, <1>5, <1>6, <1>7, SlotStep DEF InFork

\* fork gives its slot back.
LEMMA ForkFailsInv ==
    ASSUME IInv, NEW c \in CPUs, fork_fails(c)
    PROVE  IInv'
<1>1. PICK p \in Slots : p = curproc[c] /\ context[p] = "none" /\ pc[p] \in {"kstack", "copyuvm"} /\ state[p] = "RUNNING"
  BY OnCPU, Zenon DEF fork_fails, At
<1>2. PICK m \in Slots : m = np[p]
  BY <1>1, EmbryoOf, Zenon DEF InFork
<1>3. /\ kstack' = [kstack EXCEPT ![m] = FALSE] /\ state' = [state EXCEPT ![m] = "UNUSED"]
      /\ pc' = [pc EXCEPT ![p] = IF p = initproc THEN "exit" ELSE "ret"] /\ np' = [np EXCEPT ![p] = None]
      /\ UNCHANGED <<pid, parent, chan, killed, context, nextpid, ptlock, curproc, scan, loglock, busy, panicked>>
  BY <1>1, <1>2, Zenon DEF fork_fails, Goto, cpus, client
<1>4. TypeOK'
  BY <1>3, Zenon DEF IInv, TypeOK, States
<1>5. /\ m # p /\ state[m] = "EMBRYO" /\ parent[m] = None /\ context[m] \in {"forkret", "zombie"}
      /\ LeftAt(context[m], pc[m]) /\ \A q \in Slots : q # p => np[q] # m
  BY <1>1, <1>2, EmbryoOf DEF InFork, IInv, Contexts, Forking, ForkOf
<1>6. \A q \in Slots : /\ state'[q] = IF q = m THEN "UNUSED" ELSE state[q]
                       /\ kstack'[q] <=> q # m /\ kstack[q]
                       /\ np'[q] = IF q = p THEN None ELSE np[q]
                       /\ pc'[q] = IF q = p THEN (IF p = initproc THEN "exit" ELSE "ret") ELSE pc[q]
  BY <1>3, ZenonT(40) DEF IInv, TypeOK
<1>7. ForkOf(p)'
  BY <1>6 DEF ForkOf, InFork
<1>. QED BY <1>1, <1>3, <1>4, <1>5, <1>6, <1>7, SlotStep DEF InFork

\* allocproc gives the EMBRYO a stack.
LEMMA KstackInv ==
    ASSUME IInv, NEW c \in CPUs, allocproc_kstack(c)
    PROVE  IInv'
<1>1. PICK p \in Slots : p = curproc[c] /\ context[p] = "none" /\ pc[p] = "kstack" /\ state[p] = "RUNNING"
  BY OnCPU, Zenon DEF allocproc_kstack, At
<1>2. PICK m \in Slots : m = np[p]
  BY <1>1, EmbryoOf, Zenon DEF InFork
<1>3. /\ kstack' = [kstack EXCEPT ![m] = TRUE] /\ context' = [context EXCEPT ![m] = "forkret"]
      /\ pc' = [pc EXCEPT ![p] = "copyuvm", ![m] = "user"]
  BY <1>1, <1>2, Zenon DEF allocproc_kstack
<1>4. UNCHANGED <<state, pid, parent, chan, killed, np, nextpid, ptlock, curproc, scan, loglock, busy, panicked>>
  BY Zenon DEF allocproc_kstack, cpus, client
<1>5. TypeOK'
  BY <1>3, <1>4, Zenon DEF IInv, TypeOK
<1>6. /\ m # p /\ state[m] = "EMBRYO" /\ parent[m] = None /\ \A q \in Slots : q # p => np[q] # m
  BY <1>1, <1>2, EmbryoOf DEF InFork, IInv, Forking, ForkOf
<1>7. \A q \in Slots : /\ context'[q] = IF q = m THEN "forkret" ELSE context[q]
                       /\ kstack'[q] <=> q = m \/ kstack[q]
                       /\ pc'[q] = IF q = m THEN "user" ELSE IF q = p THEN "copyuvm" ELSE pc[q]
  BY <1>3, Zenon DEF IInv, TypeOK
<1>8. ForkOf(p)'
  BY <1>1, <1>2, <1>6, <1>7, <1>4, SlotFacts, ZenonT(40) DEF ForkOf, InFork
<1>. QED BY <1>1, <1>2, <1>5, <1>6, <1>7, <1>8, <1>4, SlotStep DEF InFork, LeftAt

\* fork makes itself the parent.
LEMMA ForkCopyInv ==
    ASSUME IInv, NEW c \in CPUs, fork_copy(c)
    PROVE  IInv'
<1>1. PICK p \in Slots : p = curproc[c] /\ context[p] = "none" /\ pc[p] = "copyuvm" /\ state[p] = "RUNNING"
  BY OnCPU, Zenon DEF fork_copy, At
<1>2. PICK m \in Slots : m = np[p]
  BY <1>1, EmbryoOf, Zenon DEF InFork
<1>3. /\ parent' = [parent EXCEPT ![m] = p] /\ pc' = [pc EXCEPT ![p] = "runnable"]
      /\ UNCHANGED <<state, pid, chan, killed, kstack, context, np, nextpid, ptlock, curproc, scan, loglock, busy, panicked>>
  BY <1>1, <1>2, Zenon DEF fork_copy, Goto, cpus, client
<1>4. TypeOK'
  BY <1>3, ZenonT(40) DEF IInv, TypeOK
<1>5. /\ m # p /\ state[m] = "EMBRYO" /\ parent[m] = None /\ kstack[m] /\ context[m] = "forkret"
      /\ LeftAt(context[m], pc[m]) /\ \A q \in Slots : q # p => np[q] # m
  BY <1>1, <1>2, EmbryoOf DEF InFork, IInv, Contexts, Forking, ForkOf
<1>6. \A q \in Slots : /\ parent'[q] = IF q = m THEN p ELSE parent[q]
                       /\ pc'[q] = IF q = p THEN "runnable" ELSE pc[q]
  BY <1>3, ZenonT(40) DEF IInv, TypeOK
<1>7. ForkOf(p)'
  BY <1>1, <1>2, <1>3, <1>5, <1>6, SlotFacts DEF ForkOf, InFork
<1>. QED BY <1>1, <1>2, <1>3, <1>4, <1>5, <1>6, <1>7, SlotStep DEF InFork

\* fork lets the child go.
LEMMA ForkRunnableInv ==
    ASSUME IInv, NEW c \in CPUs, fork_runnable(c)
    PROVE  IInv'
<1>1. PICK p \in Slots : p = curproc[c] /\ context[p] = "none" /\ pc[p] = "runnable" /\ state[p] = "RUNNING"
  BY OnCPU, Zenon DEF fork_runnable, At
<1>2. PICK m \in Slots : m = np[p]
  BY <1>1, EmbryoOf, Zenon DEF InFork
<1>3. /\ state' = [state EXCEPT ![m] = "RUNNABLE"] /\ np' = [np EXCEPT ![p] = None]
      /\ pc' = [pc EXCEPT ![p] = "ret"]
      /\ UNCHANGED <<pid, parent, chan, killed, kstack, context, nextpid, ptlock, curproc, scan, loglock, busy, panicked>>
  BY <1>1, <1>2, Zenon DEF fork_runnable, Goto, cpus, client
<1>4. TypeOK'
  BY <1>3, Zenon DEF IInv, TypeOK, States
<1>5. /\ m # p /\ state[m] = "EMBRYO" /\ parent[m] = p /\ kstack[m] /\ context[m] = "forkret"
      /\ LeftAt(context[m], pc[m]) /\ \A q \in Slots : q # p => np[q] # m
  BY <1>1, <1>2, EmbryoOf DEF InFork, IInv, Contexts, Forking, ForkOf
<1>6. \A q \in Slots : /\ state'[q] = IF q = m THEN "RUNNABLE" ELSE state[q]
                       /\ np'[q] = IF q = p THEN None ELSE np[q]
                       /\ pc'[q] = IF q = p THEN "ret" ELSE pc[q]
  BY <1>3, ZenonT(40) DEF IInv, TypeOK
<1>7. ForkOf(p)'
  BY <1>6, Zenon DEF ForkOf, InFork
<1>. QED BY <1>1, <1>3, <1>4, <1>5, <1>6, <1>7, SlotStep DEF InFork

\* wait frees the first zombie among the children.
LEMMA WaitReapInv ==
    ASSUME IInv, NEW c \in CPUs, wait_reap(c)
    PROVE  IInv'
<1>1. PICK p \in Slots : /\ p = curproc[c] /\ context[p] = "none" /\ pc[p] \in {"user", "wait"}
                         /\ state[p] = "RUNNING" /\ ptlock \in {NoCPU, c}
  BY OnCPU, Zenon DEF wait_reap, WaitScan, Call, At, PTFree
<1>2. PICK m \in Slots : /\ state[m] = "ZOMBIE" /\ parent[m] = p
                         /\ kstack' = [kstack EXCEPT ![m] = FALSE]
                         /\ state' = [state EXCEPT ![m] = "UNUSED"]
                         /\ pid' = [pid EXCEPT ![m] = 0]
                         /\ parent' = [parent EXCEPT ![m] = None]
                         /\ killed' = [killed EXCEPT ![m] = FALSE]
  BY <1>1, Zenon DEF wait_reap, IsFirst, Zombies, Kids
<1>3. /\ ptlock' = NoCPU /\ pc' = [pc EXCEPT ![p] = "ret"]
      /\ UNCHANGED <<chan, context, np, nextpid, curproc, scan, loglock, busy, panicked>>
  BY <1>1, Zenon DEF wait_reap, Goto, client
<1>4. TypeOK'
  BY <1>2, <1>3, BoundFacts, Zenon DEF IInv, TypeOK, States
<1>5. /\ m # p /\ context[m] = "zombie" /\ LeftAt(context[m], pc[m]) /\ \A q \in Slots : np[q] # m
  BY <1>1, <1>2, SlotFacts, Embryos DEF IInv, Contexts, ContextsOf, Forking, ForkOf
<1>6. \A q \in Slots : /\ state'[q] = IF q = m THEN "UNUSED" ELSE state[q]
                       /\ parent'[q] = IF q = m THEN None ELSE parent[q]
                       /\ kstack'[q] <=> q # m /\ kstack[q]
                       /\ killed'[q] <=> q # m /\ killed[q]
                       /\ pc'[q] = IF q = p THEN "ret" ELSE pc[q]
  BY <1>2, <1>3, ZenonT(40) DEF IInv, TypeOK
<1>7. np[p] = None /\ ForkOf(p)'
  BY <1>1, <1>3, <1>6 DEF IInv, Forking, ForkOf, InFork
<1>. QED BY <1>1, <1>2, <1>3, <1>4, <1>5, <1>6, <1>7, SlotStep DEF InFork
-----------------------------------------------------------------------------
(* Steps that wake *)

\* A step of p that makes sleepers RUNNABLE: kill, and wakeup for a log that
\* is free or about to be.
LEMMA WakeStep ==
    ASSUME IInv, TypeOK', NEW c \in CPUs, NEW p \in Slots, p = curproc[c], context[p] = "none",
           pc[p] \in {"user", "wakeup"}, \A q \in Slots : pc'[q] = IF q = p THEN "ret" ELSE pc[q],
           \A q \in Slots : \/ state'[q] = state[q]
                            \/ state[q] = "SLEEPING" /\ state'[q] = "RUNNABLE",
           \A q \in Slots : state'[q] = "SLEEPING" => (killed'[q] <=> killed[q]),
           UNCHANGED <<parent, chan, kstack, context, np, curproc, scan, ptlock, busy>>,
           loglock' = loglock \/ (loglock = p /\ loglock' = None),
           pc[p] = "wakeup" => \A q \in Slots : state'[q] = "SLEEPING" => chan[q] # LogChan,
           pc[p] = "wakeup" => ptlock = NoCPU
    PROVE  IInv'
<1>1. state[p] = "RUNNING" /\ \A q \in Slots : state'[q] = "RUNNING" <=> state[q] = "RUNNING"
  BY OnCPU, SlotFacts, Zenon
<1>2. Running'
  BY <1>1, CurIsSlot, ZenonT(40) DEF IInv, Running, RunsOnOneCPU
<1>3. Contexts'
  BY DEF IInv, Contexts, LeftAt, ContextsOf
<1>4. Forking'
  BY <1>1, KeepForking, SMTT(30) DEF InFork
<1>5. Locking'
  BY SlotFacts, CurIsSlot DEF IInv, Locking
<1>6. Families'
  BY KeepFamilies, Zenon
<1>7. Waiting'
  BY DEF IInv, Waiting
<1>8. Waking'
  <2>1. CASE pc[p] = "user"
    BY <1>1, <2>1 DEF IInv, Waking
  <2>2. CASE pc[p] = "wakeup"
    <3>1. ASSUME NEW q \in Slots, pc[q] = "sleep" PROVE FALSE
      <4>1. context[q] = "none" /\ state[q] = "RUNNING"
        BY <3>1, Zenon DEF IInv, Locking, Contexts, ContextsOf
      <4>2. PICK d \in CPUs : curproc[d] = q
        BY <4>1, Zenon DEF IInv, Running, RunsOnOneCPU
      <4>3. ptlock = d
        BY <3>1, <4>2, SlotFacts, Zenon DEF IInv, Locking
      <4>. QED BY <2>2, <4>3, SlotFacts, Zenon
    <3>. QED BY <2>2, <3>1, Zenon DEF Waking
  <2>. QED BY <2>1, <2>2, Zenon
<1>. QED BY <1>2, <1>3, <1>4, <1>5, <1>6, <1>7, <1>8, Zenon DEF IInv

\* commit_trans wakes the sleepers.
LEMMA WakeupInv ==
    ASSUME IInv, NEW c \in CPUs, wakeup(c)
    PROVE  IInv'
<1>1. PICK p \in Slots : p = curproc[c] /\ context[p] = "none" /\ pc[p] = "wakeup"
  BY OnCPU, Zenon DEF wakeup, At
<1>2. /\ state' = [q \in Slots |-> IF state[q] = "SLEEPING" /\ chan[q] = LogChan THEN "RUNNABLE" ELSE state[q]]
      /\ pc' = [pc EXCEPT ![p] = "ret"] /\ loglock' = None /\ ptlock = NoCPU
      /\ UNCHANGED <<pid, parent, chan, killed, kstack, context, np, nextpid, ptlock, curproc, scan, busy, panicked>>
  BY <1>1, Zenon DEF wakeup, PTFree, wakeup1, Goto, cpus
<1>3. TypeOK'
  BY <1>2, Zenon DEF IInv, TypeOK, States
<1>4. \A q \in Slots : pc'[q] = IF q = p THEN "ret" ELSE pc[q]
  BY <1>2, Zenon DEF IInv, TypeOK
<1>5. loglock = p
  BY <1>1, Zenon DEF IInv, Locking
<1>. QED BY <1>1, <1>2, <1>3, <1>4, <1>5, WakeStep, Zenon

\* kill marks a process and wakes it.
LEMMA KillInv ==
    ASSUME IInv, NEW c \in CPUs, NEW k, kill(c, k)
    PROVE  IInv'
<1>1. PICK p \in Slots : p = curproc[c] /\ context[p] = "none" /\ pc[p] = "user"
  BY OnCPU, Zenon DEF kill, Call, At
<1>2. PICK m \in Slots : /\ killed' = [killed EXCEPT ![m] = TRUE]
                         /\ state' = [state EXCEPT ![m] = IF @ = "SLEEPING" THEN "RUNNABLE" ELSE @]
  BY Zenon DEF kill, kill_wakes
<1>3. /\ pc' = [pc EXCEPT ![p] = "ret"]
      /\ UNCHANGED <<pid, parent, chan, kstack, context, np, nextpid, ptlock, curproc, scan, loglock, busy, panicked>>
  BY <1>1, Zenon DEF kill, Goto, cpus, client
<1>4. TypeOK'
  BY <1>2, <1>3, Zenon DEF IInv, TypeOK, States
<1>5. \A q \in Slots : /\ pc'[q] = IF q = p THEN "ret" ELSE pc[q]
                       /\ killed'[q] <=> q = m \/ killed[q]
                       /\ state'[q] = IF q = m /\ state[q] = "SLEEPING" THEN "RUNNABLE" ELSE state[q]
  BY <1>2, <1>3, Zenon DEF IInv, TypeOK
<1>6. \A q \in Slots : /\ state'[q] = state[q] \/ (state[q] = "SLEEPING" /\ state'[q] = "RUNNABLE")
                       /\ state'[q] = "SLEEPING" => (killed'[q] <=> killed[q])
  BY <1>5, Zenon
<1>7. \A q \in Slots : pc'[q] = IF q = p THEN "ret" ELSE pc[q]
  BY <1>5, Zenon
<1>. QED BY <1>1, <1>3, <1>4, <1>6, <1>7, WakeStep, ZenonT(40)

-----------------------------------------------------------------------------
(* Steps through the kernel, and between processes *)

\* The scheduler takes ptable.lock for a round, and gives it back at the end.
LEMMA RoundInv ==
    ASSUME IInv, NEW c \in CPUs, scheduler_round(c) \/ (scheduler_next(c) /\ Ahead(c) = {})
    PROVE  IInv'
<1>1. /\ curproc[c] = None /\ ptlock \in {NoCPU, c} /\ ptlock' \in {NoCPU, c}
      /\ scan' = [scan EXCEPT ![c] = 1] \/ scan' = [scan EXCEPT ![c] = None]
      /\ UNCHANGED <<state, pid, parent, chan, killed, kstack, context, pc, np, nextpid,
                     curproc, loglock, busy, panicked>>
  BY Zenon DEF scheduler_round, scheduler_next, PTFree, ptable, client
<1>2. TypeOK'
  BY <1>1, BoundFacts, Zenon DEF IInv, TypeOK
<1>3. \A d \in CPUs : d # c => scan'[d] = scan[d]
  BY <1>1, Zenon DEF IInv, TypeOK
<1>4. Running'
  BY <1>1, <1>3, Zenon DEF IInv, Running, RunsOnOneCPU
<1>7. Locking'
  BY <1>1, SlotFacts, ZenonT(40) DEF IInv, Locking
<1>5. Contexts' /\ Forking'
  BY <1>1, Zenon DEF IInv, Contexts, Forking, ForkOf, OwnEmbryos
<1>6. Families' /\ Waiting' /\ Waking'
  BY <1>1 DEF IInv, Families, FamilyOf, Waiting, Waking
<1>. QED BY <1>2, <1>4, <1>5, <1>6, <1>7, Zenon DEF IInv

\* What moves a process along in the kernel, outside fork, and takes or
\* releases one of the locks.
LEMMA PcStep ==
    ASSUME IInv, NEW c \in CPUs, NEW p \in Slots, p = curproc[c], context[p] = "none",
           NEW l \in {"user", "ret", "exit", "begin", "trans", "wakeup", "sleep"},
           pc[p] \notin InFork \cup {"wakeup"}, pc' = [pc EXCEPT ![p] = l],
           UNCHANGED <<state, pid, parent, chan, killed, kstack, context, np, nextpid,
                       curproc, scan, panicked>>,
           ptlock' = ptlock \/ (ptlock \in {NoCPU, c} /\ ptlock' \in {NoCPU, c}),
           loglock' = loglock \/ (loglock \in {None, p} /\ loglock' \in {None, p}),
           l = "sleep" => ptlock' = c,
           l \in {"begin", "wakeup"} => loglock' = p,
           busy' \in BOOLEAN, l = "sleep" => busy', busy => busy' \/ l = "wakeup"
    PROVE  IInv'
<1>1. state[p] = "RUNNING" /\ \A d \in CPUs : d # c => curproc[d] # p
  BY OnCPU, SlotFacts, Zenon
<1>2. TypeOK'
  BY ZenonT(40) DEF IInv, TypeOK
<1>3. \A q \in Slots : pc'[q] = IF q = p THEN l ELSE pc[q]
  BY Zenon DEF IInv, TypeOK
<1>4. Running' /\ Families' /\ Waiting'
  BY DEF IInv, Running, RunsOnOneCPU, Families, FamilyOf, Waiting
<1>5. Contexts'
  BY <1>3 DEF IInv, Contexts, LeftAt
<1>6. Forking'
  BY <1>3, KeepForking, ZenonT(40) DEF InFork
<1>7. Locking'
  <2>1. ASSUME NEW d \in CPUs, curproc[d] # None, context[curproc[d]] # "none" \/ pc'[curproc[d]] \in {"wait", "sleep"}
        PROVE  ptlock' = d
    <3>1. CASE d = c
      BY <1>3, <2>1, <3>1, Zenon
    <3>2. CASE d # c
      <4>1. curproc[d] \in Slots /\ curproc[d] # p
        BY <1>1, <2>1, <3>2, CurIsSlot, Zenon
      <4>2. ptlock = d
        BY <1>3, <2>1, <4>1, Zenon DEF IInv, Locking
      <4>. QED BY <3>2, <4>2, SlotFacts, Zenon
    <3>. QED BY <3>1, <3>2, Zenon
  <2>2. ASSUME NEW q \in Slots, pc'[q] \in {"begin", "wakeup"} PROVE loglock' = q
    BY <1>3, <2>2, SlotFacts DEF IInv, Locking
  <2>. QED BY <1>3, <2>1, <2>2, Zenon DEF IInv, Locking
<1>8. Waking'
  BY <1>1, <1>3, ZenonT(40) DEF IInv, Waking
<1>. QED BY <1>2, <1>4, <1>5, <1>6, <1>7, <1>8, Zenon DEF IInv

\* init finds the table full; a system call returns; a process enters exit;
\* wait has nothing to wait for.
LEMMA ReturnInv ==
    ASSUME IInv, NEW c \in CPUs, fork_full(c) \/ trap_return(c) \/ exit_call(c) \/ wait_none(c)
    PROVE  IInv'
<1>1. PICK p \in Slots : p = curproc[c]
  BY OnCPU, Zenon DEF fork_full, trap_return, exit_call, wait_none, WaitScan, Call, At
<1>2. /\ context[p] = "none" /\ pc[p] \in {"user", "ret", "wait"}
      /\ \E l \in {"user", "ret", "exit"} : pc' = [pc EXCEPT ![p] = l]
      /\ ptlock' = ptlock \/ (ptlock \in {NoCPU, c} /\ ptlock' \in {NoCPU, c})
      /\ UNCHANGED <<state, pid, parent, chan, killed, kstack, context, np, nextpid,
                     curproc, scan, loglock, busy, panicked>>
  BY <1>1, Zenon DEF fork_full, trap_return, exit_call, wait_none, WaitScan, Call, At, Goto, PTFree, ptable, cpus, client
<1>3. PICK l \in {"user", "ret", "exit"} : pc' = [pc EXCEPT ![p] = l]
  BY <1>2, Zenon
<1>4. busy' \in BOOLEAN /\ pc[p] \notin InFork \cup {"wakeup"}
  BY <1>2, Zenon DEF IInv, TypeOK, InFork
<1>. QED BY <1>1, <1>2, <1>3, <1>4, PcStep, Zenon

\* begin_trans and commit_trans take log.lock; begin_trans reserves the log,
\* or exchanges log.lock for ptable.lock in sleep.
LEMMA TransInv ==
    ASSUME IInv, NEW c \in CPUs, log_acquire(c) \/ begin_trans(c) \/ sleep_lock(c) \/ commit_trans(c)
    PROVE  IInv'
<1>1. PICK p \in Slots : p = curproc[c]
  BY OnCPU, Zenon DEF log_acquire, begin_trans, sleep_lock, commit_trans, Call, At
<1>2. /\ context[p] = "none" /\ pc[p] \in {"user", "relock", "begin", "trans"}
      /\ UNCHANGED <<state, pid, parent, chan, killed, kstack, context, np, nextpid,
                     curproc, scan, panicked>>
  BY <1>1, Zenon DEF log_acquire, begin_trans, sleep_lock, commit_trans, Call, At, ptable, cpus
<1>3. busy' \in BOOLEAN /\ pc[p] \notin InFork \cup {"wakeup"}
  BY <1>2, Zenon DEF IInv, TypeOK, InFork, log_acquire, begin_trans, sleep_lock, commit_trans
<1>4. CASE log_acquire(c)
  BY <1>1, <1>2, <1>3, <1>4, PcStep, Zenon DEF log_acquire, Goto, cpus
<1>5. CASE begin_trans(c)
  <2>1. loglock = p
    BY <1>1, <1>5, Zenon DEF begin_trans, At, IInv, Locking
  <2>. QED BY <1>1, <1>2, <1>3, <1>5, <2>1, PcStep, ZenonT(40) DEF begin_trans, Goto, cpus
<1>6. CASE sleep_lock(c)
  <2>1. loglock = p
    BY <1>1, <1>6, Zenon DEF sleep_lock, At, IInv, Locking
  <2>. QED BY <1>1, <1>2, <1>3, <1>6, <2>1, PcStep, Zenon DEF sleep_lock, Goto, PTFree
<1>7. CASE commit_trans(c)
  BY <1>1, <1>2, <1>3, <1>7, PcStep, Zenon DEF commit_trans, Goto, cpus
<1>. QED BY <1>4, <1>5, <1>6, <1>7, Zenon

\* What leaves the CPU through sched to come back to l.
LEMMA SwitchStep ==
    ASSUME IInv, NEW c \in CPUs, NEW p \in Slots, p = curproc[c], context[p] = "none",
           NEW s \in {"RUNNABLE", "SLEEPING"}, NEW ctx \in {"yield", "sleep", "wait"}, NEW l,
           ctx \in ContextsOf(s), LeftAt(ctx, l),
           l = pc[p] \/ (l \in {"relock", "wait"} /\ pc[p] \in {"user", "wait", "sleep"} /\ np[p] = None),
           pc[p] \notin {"begin", "wakeup"}, l # "sleep", s = "SLEEPING" => pc[p] \notin InFork,
           ptlock \in {NoCPU, c}, sched(c, ctx),
           state' = [state EXCEPT ![p] = s], chan' = [chan EXCEPT ![p] = ChanOf(p, ctx)],
           pc' = [pc EXCEPT ![p] = l],
           UNCHANGED <<pid, parent, killed, kstack, np, nextpid, loglock, busy, panicked>>,
           ctx = "wait" => /\ \E q \in Slots : parent[q] = p
                           /\ \A q \in Slots : parent[q] = p => state[q] # "ZOMBIE"
                           /\ ~killed[p],
           ctx = "sleep" => pc[p] = "sleep"
    PROVE  IInv'
<1>1. /\ state[p] = "RUNNING" /\ scan[c] = p
      /\ \A d \in CPUs : d # c => curproc[d] # p
  BY OnCPU, SlotFacts, Zenon DEF IInv, Running
<1>. DEFINE ch == ChanOf(p, ctx)
<1>2. ch \in 0 .. LogChan /\ l \in {"user", "kstack", "copyuvm", "runnable", "ret", "exit", "wait",
                                    "begin", "sleep", "relock", "trans", "wakeup"}
  BY BoundFacts, Zenon DEF ChanOf, IInv, TypeOK
<1>3. /\ context' = [context EXCEPT ![p] = ctx] /\ curproc' = [curproc EXCEPT ![c] = None]
      /\ scan' = [scan EXCEPT ![c] = p + 1] /\ ptlock' = c /\ chan' = [chan EXCEPT ![p] = ch]
  BY <1>1, ZenonT(40) DEF sched, next_slot, IInv, TypeOK
<1>. HIDE DEF ch
<1>4. TypeOK'
  BY <1>2, <1>3, SlotFacts, BoundFacts DEF IInv, TypeOK, States
<1>5. \A q \in Slots : /\ state'[q] = IF q = p THEN s ELSE state[q]
                       /\ context'[q] = IF q = p THEN ctx ELSE context[q]
                       /\ chan'[q] = IF q = p THEN ch ELSE chan[q]
                       /\ pc'[q] = IF q = p THEN l ELSE pc[q]
  BY <1>3 DEF IInv, TypeOK
<1>6. \A d \in CPUs : /\ curproc'[d] = IF d = c THEN None ELSE curproc[d]
                      /\ d # c => scan'[d] = scan[d]
  BY <1>3, ZenonT(40) DEF IInv, TypeOK
<1>7. Running'
  BY <1>1, <1>5, <1>6, SlotFacts, CurIsSlot, SMTT(30) DEF IInv, Running, RunsOnOneCPU
<1>8. Contexts'
  BY <1>5 DEF IInv, Contexts, ch
<1>9. Forking'
  <2>1. OwnEmbryos'
    BY Zenon DEF IInv, Forking, OwnEmbryos
  <2>2. ASSUME NEW q \in Slots PROVE ForkOf(q)'
    <3>1. CASE l # pc[p]
      BY <1>1, <1>3, <1>5, <2>2, <3>1, KeepForking DEF Forking, InFork
    <3>2. CASE l = pc[p]
      <4>1. pc[q] \in InFork => /\ state[q] \in {"RUNNING", "RUNNABLE"} /\ np[q] \in Slots
                                /\ np[q] # p /\ state[np[q]] = "EMBRYO"
        BY <1>1, Embryos, Zenon DEF IInv, Forking, ForkOf
      <4>. QED BY <1>1, <1>5, <3>2, <4>1, KeepForkOf, ZenonT(40)
    <3>. QED BY <3>1, <3>2, Zenon
  <2>. QED BY <2>1, <2>2, Zenon DEF Forking
<1>10. Locking'
  <2>1. ASSUME NEW d \in CPUs, curproc'[d] # None PROVE context'[curproc'[d]] = "none" /\ pc'[curproc'[d]] \notin {"wait", "sleep"}
    <3>1. d # c /\ curproc'[d] = curproc[d] /\ curproc[d] \in Slots /\ curproc[d] # p
      BY <1>1, <1>6, <2>1, CurIsSlot, Zenon
    <3>2. context[curproc[d]] = "none" /\ pc[curproc[d]] \notin {"wait", "sleep"}
      BY <3>1, SlotFacts, Zenon DEF IInv, Locking
    <3>. QED BY <1>5, <3>1, <3>2, ZenonT(40)
  <2>2. \A q \in Slots : pc'[q] \in {"begin", "wakeup", "sleep"} => q # p /\ pc'[q] = pc[q] /\ context'[q] = context[q]
    BY <1>5
  <2>. QED BY <2>1, <2>2, Zenon DEF IInv, Locking
<1>11. Families'
  BY <1>1, <1>5, KeepFamilies
<1>12. Waiting'
  BY <1>1, <1>5, SlotFacts, SMTT(30) DEF IInv, Waiting, ch, ChanOf
<1>13. Waking'
  BY <1>1, <1>5, SlotFacts DEF IInv, Waking, ch, ChanOf
<1>. QED BY <1>4, <1>7, <1>8, <1>9, <1>10, <1>11, <1>12, <1>13, Zenon DEF IInv

\* A timer interrupt takes the CPU away.
LEMMA YieldInv ==
    ASSUME IInv, NEW c \in CPUs, yield(c)
    PROVE  IInv'
<1>1. PICK p \in Slots : p = curproc[c]
  BY OnCPU, Zenon DEF yield
<1>2. /\ context[p] = "none" /\ ptlock = NoCPU /\ pc[p] \notin {"wait", "sleep", "begin", "wakeup"}
  BY <1>1, SlotFacts, Zenon DEF yield, HoldsSpinlock, PTFree, IInv, Locking
<1>3. /\ chan' = [chan EXCEPT ![p] = ChanOf(p, "yield")]
      /\ pc' = [pc EXCEPT ![p] = pc[p]]
  BY <1>1, <1>2, Zenon DEF yield, IInv, TypeOK, Contexts, ChanOf
<1>. QED BY <1>1, <1>2, <1>3, SwitchStep, Zenon DEF yield, ContextsOf, LeftAt, client

\* wait gives the CPU up when no child is a zombie yet.
LEMMA WaitSleepInv ==
    ASSUME IInv, NEW c \in CPUs, wait_sleep(c)
    PROVE  IInv'
<1>1. PICK p \in Slots : p = curproc[c]
  BY OnCPU, Zenon DEF wait_sleep, WaitScan, Call, At
<1>2. /\ context[p] = "none" /\ ptlock \in {NoCPU, c} /\ pc[p] \in {"user", "wait"}
      /\ sched(c, "wait") /\ state' = [state EXCEPT ![p] = "SLEEPING"] /\ chan' = [chan EXCEPT ![p] = p]
      /\ pc' = [pc EXCEPT ![p] = "wait"] /\ ~killed[p]
      /\ UNCHANGED <<pid, parent, killed, kstack, np, nextpid, loglock, busy, panicked>>
  BY <1>1, Zenon DEF wait_sleep, WaitScan, Call, At, Goto, PTFree, client
<1>3. /\ \E q \in Slots : parent[q] = p
      /\ \A q \in Slots : parent[q] = p => state[q] # "ZOMBIE"
  BY <1>1, Zenon DEF wait_sleep, Kids, Zombies
<1>4. np[p] = None
  BY <1>2, Zenon DEF IInv, Forking, ForkOf, InFork
<1>. QED BY <1>1, <1>2, <1>3, <1>4, SwitchStep, ZenonT(40) DEF ContextsOf, LeftAt, ChanOf, InFork

\* sleep gives the CPU up.
LEMMA SleepInv ==
    ASSUME IInv, NEW c \in CPUs, sleep(c)
    PROVE  IInv'
<1>1. PICK p \in Slots : p = curproc[c]
  BY OnCPU, Zenon DEF sleep, At
<1>2. /\ context[p] = "none" /\ ptlock = c /\ pc[p] = "sleep"
      /\ sched(c, "sleep") /\ state' = [state EXCEPT ![p] = "SLEEPING"] /\ chan' = [chan EXCEPT ![p] = LogChan]
      /\ pc' = [pc EXCEPT ![p] = "relock"]
      /\ UNCHANGED <<pid, parent, killed, kstack, np, nextpid, loglock, busy, panicked>>
  BY <1>1, Zenon DEF sleep, At, Goto, client
<1>3. np[p] = None
  BY <1>2, Zenon DEF IInv, Forking, ForkOf, InFork
<1>. QED BY <1>1, <1>2, <1>3, SwitchStep, ZenonT(40) DEF ContextsOf, LeftAt, ChanOf, InFork

\* A process comes back from swtch.
LEMMA ResumeInv ==
    ASSUME IInv, NEW c \in CPUs, resume(c)
    PROVE  IInv'
<1>1. PICK p \in Slots : /\ p = curproc[c] /\ state[p] = "RUNNING" /\ context[p] # "none"
                         /\ \A d \in CPUs : d # c => curproc[d] # p
  BY OnCPU, Zenon DEF resume
<1>2. ptlock = c /\ (context[p] # "wait" => pc[p] \notin {"wait", "sleep"})
  BY <1>1, SlotFacts, Zenon DEF IInv, Locking, Contexts, ContextsOf, LeftAt
<1>3. /\ context' = [context EXCEPT ![p] = "none"] /\ chan' = [chan EXCEPT ![p] = None]
      /\ ptlock' = IF context[p] = "wait" THEN c ELSE NoCPU
  BY <1>1, Zenon DEF resume
<1>4. UNCHANGED <<state, pid, parent, killed, kstack, pc, np, nextpid, curproc, scan, loglock, busy, panicked>>
  BY Zenon DEF resume, client
<1>5. TypeOK'
  BY <1>3, <1>4, BoundFacts, Zenon DEF IInv, TypeOK
<1>6. \A q \in Slots : /\ context'[q] = IF q = p THEN "none" ELSE context[q]
                       /\ chan'[q] = IF q = p THEN None ELSE chan[q]
  BY <1>3, ZenonT(40) DEF IInv, TypeOK
<1>7. Running' /\ Families'
  BY <1>4 DEF IInv, Running, RunsOnOneCPU, Families, FamilyOf
<1>8. Contexts'
  BY <1>1, <1>4, <1>6, SlotFacts, SMTT(30) DEF IInv, Contexts, LeftAt, ChanOf, ContextsOf
<1>9. Forking'
  BY <1>1, <1>4, <1>6, Embryos, SMTT(30) DEF IInv, Forking, ForkOf, OwnEmbryos, InFork
<1>10. Locking'
  BY <1>1, <1>2, <1>3, <1>4, <1>6, CurIsSlot DEF IInv, Locking
<1>11. Waiting' /\ Waking'
  BY <1>1, <1>4, <1>6, SlotFacts, ZenonT(40) DEF IInv, Waiting, Waking
<1>. QED BY <1>5, <1>7, <1>8, <1>9, <1>10, <1>11, Zenon DEF IInv

\* The scheduler switches to the next RUNNABLE process.
LEMMA SchedulerSwitchInv ==
    ASSUME IInv, NEW c \in CPUs, scheduler_next(c), Ahead(c) # {}
    PROVE  IInv'
<1>1. PICK p \in Slots : /\ state[p] = "RUNNABLE"
                         /\ state' = [state EXCEPT ![p] = "RUNNING"]
                         /\ curproc' = [curproc EXCEPT ![c] = p]
                         /\ scan' = [scan EXCEPT ![c] = p]
  BY Zenon DEF scheduler_next, IsFirst, Ahead
<1>2. /\ curproc[c] = None /\ ptlock = c
      /\ UNCHANGED <<pid, parent, chan, killed, kstack, context, pc, np, nextpid, ptlock, loglock, busy, panicked>>
  BY Zenon DEF scheduler_next, client
<1>3. TypeOK'
  BY <1>1, <1>2, BoundFacts, Zenon DEF IInv, TypeOK, States
<1>4. \A q \in Slots : state'[q] = IF q = p THEN "RUNNING" ELSE state[q]
  BY <1>1, Zenon DEF IInv, TypeOK
<1>5. \A d \in CPUs : /\ curproc'[d] = IF d = c THEN p ELSE curproc[d]
                      /\ scan'[d] = IF d = c THEN p ELSE scan[d]
  BY <1>1, Zenon DEF IInv, TypeOK
<1>6. kstack[p] /\ \A d \in CPUs : curproc[d] # p
  BY <1>1, SlotFacts DEF IInv, Families, FamilyOf, Running, RunsOnOneCPU
<1>7. Running'
  BY <1>2, <1>4, <1>5, <1>6, SlotFacts, CurIsSlot DEF IInv, Running, RunsOnOneCPU
<1>8. Contexts'
  BY <1>1, <1>2, <1>4, SMTT(30) DEF IInv, Contexts, ContextsOf
<1>9. Forking'
  BY <1>1, <1>2, <1>4, Embryos DEF IInv, Forking, ForkOf, OwnEmbryos, InFork
<1>10. Locking'
  BY <1>1, <1>2, <1>5, ZenonT(40) DEF IInv, Locking
<1>11. Families'
  BY <1>1, <1>2, <1>4, KeepFamilies, Zenon
<1>12. Waiting'
  <2>1. \A q \in Slots : /\ state'[q] = "SLEEPING" <=> state[q] = "SLEEPING"
                         /\ state'[q] = "ZOMBIE" <=> state[q] = "ZOMBIE"
    BY <1>1, <1>4
  <2>. QED BY <1>2, <2>1, Zenon DEF IInv, Waiting
<1>13. Waking'
  BY <1>1, <1>2, <1>4 DEF IInv, Waking
<1>. QED BY <1>3, <1>7, <1>8, <1>9, <1>10, <1>11, <1>12, <1>13, Zenon DEF IInv

\* A process exits.
LEMMA ExitInv ==
    ASSUME IInv, NEW c \in CPUs, exit(c)
    PROVE  IInv'
<1>1. PICK p \in Slots : /\ p = curproc[c] /\ state[p] = "RUNNING"
                         /\ \A d \in CPUs : d # c => curproc[d] # p
  BY OnCPU, ZenonT(40) DEF exit, At
<1>2. /\ context[p] = "none" /\ pc[p] = "exit" /\ p # initproc
      /\ ptlock = NoCPU /\ scan[c] = p
  BY <1>1, SlotFacts, Zenon DEF exit, At, PTFree, IInv, Running
<1>3. /\ state' = [exit_wakeups(p) EXCEPT ![p] = "ZOMBIE"]
      /\ parent' = [q \in Slots |-> IF parent[q] = p THEN initproc ELSE parent[q]]
      /\ context' = [context EXCEPT ![p] = "zombie"]
      /\ curproc' = [curproc EXCEPT ![c] = None]
      /\ scan' = [scan EXCEPT ![c] = @ + 1]
      /\ ptlock' = c
  BY <1>1, ZenonT(40) DEF exit, reparent, sched, next_slot
<1>same. UNCHANGED <<pid, chan, killed, kstack, pc, np, nextpid, loglock, busy, panicked>>
  BY ZenonT(40) DEF exit, client
<1>4. /\ exit_wakeups(p) \in [Slots -> States]
      /\ \A q \in Slots : \/ exit_wakeups(p)[q] = state[q]
                          \/ state[q] = "SLEEPING" /\ exit_wakeups(p)[q] = "RUNNABLE"
      /\ \A q \in Slots : state[q] = "SLEEPING" /\ chan[q] = parent[p] => exit_wakeups(p)[q] = "RUNNABLE"
      /\ (\E q \in Slots : parent[q] = p /\ state[q] = "ZOMBIE") =>
            \A q \in Slots : state[q] = "SLEEPING" /\ chan[q] = initproc => exit_wakeups(p)[q] = "RUNNABLE"
  BY ZenonT(40) DEF exit_wakeups, wakeup1, Adopted, IInv, TypeOK, States
<1>5. TypeOK'
  BY <1>1, <1>2, <1>3, <1>4, <1>same, SlotFacts, BoundFacts, Zenon DEF IInv, TypeOK, States
<1>state. \A q \in Slots : state'[q] = IF q = p THEN "ZOMBIE" ELSE exit_wakeups(p)[q]
  BY <1>1, <1>3, <1>4, ZenonT(40)
<1>woken. /\ state'[p] = "ZOMBIE"
          /\ \A q \in Slots : q # p => \/ state'[q] = state[q]
                                       \/ state[q] = "SLEEPING" /\ state'[q] = "RUNNABLE"
  BY <1>1, <1>4, <1>state, ZenonT(40)
<1>parent. \A q \in Slots : parent'[q] = IF parent[q] = p THEN initproc ELSE parent[q]
  BY <1>3, Zenon
<1>context. \A q \in Slots : context'[q] = IF q = p THEN "zombie" ELSE context[q]
  BY <1>3, Zenon DEF IInv, TypeOK
<1>curproc. \A d \in CPUs : curproc'[d] = IF d = c THEN None ELSE curproc[d]
  BY <1>3, Zenon DEF IInv, TypeOK
<1>scan. \A d \in CPUs : d # c => scan'[d] = scan[d]
  BY <1>3, Zenon DEF IInv, TypeOK
<1>lock. ptlock' = c
  BY <1>3, ZenonT(40)
<1>7. Running'
  BY <1>1, <1>2, <1>same, <1>woken, <1>curproc, <1>scan, SlotFacts, CurIsSlot DEF IInv, Running, RunsOnOneCPU
<1>8. Contexts'
  BY <1>1, <1>2, <1>same, <1>context, <1>woken, SlotFacts DEF IInv, Contexts, LeftAt, ChanOf, ContextsOf
<1>9. Forking'
  <2>1. OwnEmbryos'
    BY <1>same, Zenon DEF IInv, Forking, OwnEmbryos
  <2>2. ASSUME NEW q \in Slots PROVE ForkOf(q)'
    <3>1. pc[q] \in InFork => /\ q # p /\ np[q] \in Slots /\ state[np[q]] = "EMBRYO"
                              /\ state[q] \in {"RUNNING", "RUNNABLE"}
      BY <1>2, Embryos, ZenonT(40) DEF IInv, Forking, ForkOf, InFork
    <3>2. pc[q] \in InFork => parent[np[q]] # p
      BY <1>1, <3>1, SlotFacts DEF IInv, Forking, ForkOf, InFork
    <3>. QED BY <1>1, <1>same, <1>woken, <1>context, <1>parent, <3>1, <3>2, KeepForkOf, ZenonT(40)
  <2>. QED BY <2>1, <2>2, Zenon DEF Forking
<1>10. Locking'
  BY <1>1, <1>2, <1>same, <1>curproc, <1>lock, <1>context, SlotFacts, CurIsSlot DEF IInv, Locking
<1>11. Families'
  <2>1. \A q \in Slots : /\ state'[q] \in {"UNUSED", "EMBRYO"} <=> state[q] \in {"UNUSED", "EMBRYO"}
                         /\ state'[q] = "UNUSED" <=> state[q] = "UNUSED"
                         /\ state'[q] = "ZOMBIE" <=> q = p \/ state[q] = "ZOMBIE"
    BY <1>1, <1>woken, Zenon
  <2>2. state'[initproc] \notin {"UNUSED", "EMBRYO", "ZOMBIE"} /\ parent'[initproc] = None
    BY <1>1, <1>2, <1>parent, <2>1, SlotFacts, ZenonT(40) DEF IInv, Families
  <2>3. ASSUME NEW q \in Slots PROVE FamilyOf(q)'
    <3>1. CASE parent[q] = p
      BY <1>1, <1>2, <1>same, <1>parent, <2>1, <2>2, <3>1, SlotFacts, SMTT(30) DEF IInv, Families, FamilyOf
    <3>2. CASE parent[q] # p
      BY <1>1, <1>2, <1>same, <1>parent, <2>1, <3>2, SlotFacts DEF IInv, Families, FamilyOf
    <3>. QED BY <3>1, <3>2, ZenonT(40)
  <2>. QED BY <2>2, <2>3, Zenon DEF Families
<1>12. Waiting'
  <2>. SUFFICES ASSUME NEW r \in Slots, state'[r] = "SLEEPING", chan'[r] = r
                PROVE  /\ \E q \in Slots : parent'[q] = r
                       /\ \A q \in Slots : parent'[q] = r => state'[q] # "ZOMBIE"
                       /\ ~killed'[r]
    BY Zenon DEF Waiting
  <2>1. /\ r # p /\ state[r] = "SLEEPING" /\ chan[r] = r
        /\ exit_wakeups(p)[r] = "SLEEPING"
    BY <1>1, <1>woken, <1>state, <1>same, ZenonT(40)
  <2>2. /\ \E q \in Slots : parent[q] = r
        /\ \A q \in Slots : parent[q] = r => state[q] # "ZOMBIE"
        /\ ~killed[r]
    BY <2>1, ZenonT(40) DEF IInv, Waiting
  <2>3. \E q \in Slots : parent'[q] = r
    BY <2>1, <2>2, <1>parent, Zenon
  <2>4. ASSUME NEW q \in Slots, parent'[q] = r PROVE state'[q] # "ZOMBIE"
    <3>1. CASE q = p
      <4>1. parent[p] # r
        BY <1>4, <2>1, Zenon
      <4>. QED BY <2>4, <3>1, <4>1, <1>parent, Zenon DEF IInv, Families, FamilyOf
    <3>2. CASE q # p /\ parent[q] = r
      BY <2>2, <3>2, <1>woken, Zenon
    <3>3. CASE q # p /\ parent[q] = p /\ r = initproc
      BY <1>4, <2>1, <3>3, <1>woken, ZenonT(40)
    <3>. QED BY <2>4, <3>1, <3>2, <3>3, <1>parent, Zenon
  <2>. QED BY <2>2, <2>3, <2>4, <1>same, Zenon
<1>13. Waking'
  BY <1>1, <1>2, <1>same, <1>woken, SlotFacts, Zenon DEF IInv, Waking
<1>. QED BY <1>5, <1>7, <1>8, <1>9, <1>10, <1>11, <1>12, <1>13, Zenon DEF IInv
-----------------------------------------------------------------------------
(* The theorems *)

\* The table userinit leaves: one RUNNABLE process, init.
LEMMA InitInv == Init => IInv
<1>. SUFFICES ASSUME Init PROVE IInv
  BY Zenon
<1>1. TypeOK
  <2>1. /\ 1 \in 0 .. MaxPid /\ 2 \in 1 .. MaxPid + 1
    BY ProcAssumption
  <2>. QED BY <2>1, SlotFacts, BoundFacts, Zenon DEF Init, TypeOK, States
<1>2. Running
  BY SlotFacts, Zenon DEF Init, Running, RunsOnOneCPU
<1>3. Contexts
  BY SlotFacts, Zenon DEF Init, Contexts, LeftAt, ChanOf, ContextsOf
<1>4. Forking
  BY SlotFacts, Zenon DEF Init, Forking, ForkOf, OwnEmbryos, InFork
<1>5. Locking
  BY SlotFacts, Zenon DEF Init, Locking
<1>6. Families
  BY SlotFacts, ZenonT(40) DEF Init, Families, FamilyOf
<1>7. Waiting
  BY SlotFacts, Zenon DEF Init, Waiting
<1>8. Waking
  BY SlotFacts, Zenon DEF Init, Waking
<1>. QED BY <1>1, <1>2, <1>3, <1>4, <1>5, <1>6, <1>7, <1>8, Zenon DEF IInv

\* Every step keeps the invariant.
LEMMA NextInv == IInv /\ [Next]_vars => IInv'
<1>. SUFFICES ASSUME IInv, [Next]_vars PROVE IInv'
  BY Zenon
<1>1. ASSUME NEW c \in CPUs, Scheduler(c) \/ yield(c) PROVE IInv'
  BY <1>1, RoundInv, SchedulerSwitchInv, ResumeInv, YieldInv, Zenon DEF Scheduler
<1>2. ASSUME NEW c \in CPUs, \/ allocproc(c) \/ allocproc_kstack(c) \/ fork_fails(c)
                             \/ fork_copy(c) \/ fork_runnable(c)
      PROVE  IInv'
  BY <1>2, AllocprocInv, KstackInv, ForkFailsInv, ForkCopyInv, ForkRunnableInv, Zenon
<1>3. ASSUME NEW c \in CPUs, fork_full(c) \/ trap_return(c) \/ exit_call(c) \/ exit(c) PROVE IInv'
  BY <1>3, ReturnInv, ExitInv, Zenon
<1>4. ASSUME NEW c \in CPUs, exit_panic(c) PROVE IInv'
  <2>1. UNCHANGED <<state, pid, parent, chan, killed, kstack, context, pc, np, nextpid,
                    ptlock, curproc, scan, loglock, busy>> /\ panicked' = TRUE
    BY <1>4, Zenon DEF exit_panic, ptable, cpus, client
  <2>2. TypeOK' /\ Running' /\ Contexts'
    BY <2>1, ZenonT(40) DEF IInv, TypeOK, Running, RunsOnOneCPU, Contexts
  <2>3. Forking' /\ Locking'
    BY <2>1, ZenonT(40) DEF IInv, Forking, ForkOf, OwnEmbryos, Locking
  <2>4. Families' /\ Waiting' /\ Waking'
    BY <2>1, ZenonT(40) DEF IInv, Families, FamilyOf, Waiting, Waking
  <2>. QED BY <2>2, <2>3, <2>4, Zenon DEF IInv
<1>5. ASSUME NEW c \in CPUs, Wait(c) PROVE IInv'
  BY <1>5, WaitReapInv, ReturnInv, WaitSleepInv, Zenon DEF Wait
<1>6. ASSUME NEW c \in CPUs, NEW k \in 0 .. MaxPid, kill(c, k) PROVE IInv'
  BY <1>6, KillInv, Zenon
<1>7. ASSUME NEW c \in CPUs, \/ log_acquire(c) \/ begin_trans(c) \/ sleep_lock(c)
                             \/ sleep(c) \/ commit_trans(c) \/ wakeup(c)
      PROVE  IInv'
  BY <1>7, TransInv, SleepInv, WakeupInv, Zenon
<1>8. ASSUME UNCHANGED vars PROVE IInv'
  <2>1. UNCHANGED <<state, pid, parent, chan, killed, kstack, context, pc, np, nextpid,
                    ptlock, curproc, scan, loglock, busy, panicked>>
    BY <1>8, Zenon DEF vars, ptable, cpus, client
  <2>2. TypeOK' /\ Running' /\ Contexts'
    BY <2>1, ZenonT(40) DEF IInv, TypeOK, Running, RunsOnOneCPU, Contexts
  <2>3. Forking' /\ Locking'
    BY <2>1, ZenonT(40) DEF IInv, Forking, ForkOf, OwnEmbryos, Locking
  <2>4. Families' /\ Waiting' /\ Waking'
    BY <2>1, Zenon DEF IInv, Families, FamilyOf, Waiting, Waking
  <2>. QED BY <2>2, <2>3, <2>4, Zenon DEF IInv
<1>. QED BY <1>1, <1>2, <1>3, <1>4, <1>5, <1>6, <1>7, <1>8, Zenon DEF Next, Step, Halted

\* The inductive invariant holds throughout, for any table, CPUs and pids.
THEOREM Inductive == Spec => []IInv
  BY InitInv, NextInv, PTL DEF Spec

\* TableIsSound, for any number of slots and CPUs: no process runs on two
\* CPUs or on a kernel stack that wait has freed, and exit leaves no child
\* without a living parent.
THEOREM Sound == Spec => []TableIsSound
<1>1. IInv => ParentsAreAlive
  BY Zenon DEF IInv, Families, FamilyOf, ParentsAreAlive, Live
<1>2. IInv => TableIsSound
  BY <1>1, Zenon DEF IInv, Running, TableIsSound
<1>. QED BY <1>2, Inductive, PTL

\* NothingIsMissed, for any number of slots and CPUs: whatever the order of
\* sleep and wakeup, wait never sleeps over a zombie child and begin_trans
\* never over a log that is free.
THEOREM NothingMissed == Spec => []NothingIsMissed
<1>1. ASSUME IInv PROVE NothingIsMissed
  <2>1. WaitMissesNothing
    BY <1>1, Zenon DEF IInv, Waiting, WaitMissesNothing, Kids, Zombies
  <2>2. NoLostWakeup
    BY <1>1, Zenon DEF IInv, Waking, NoLostWakeup
  <2>. QED BY <2>1, <2>2, Zenon DEF NothingIsMissed
<1>. QED BY <1>1, Inductive, PTL
=============================================================================
