--------------------------- MODULE SpinlockProof ----------------------------
(***************************************************************************)
(* Proofs about Spinlock, for any number of CPUs, threads and locks:       *)
(* LockDiscipline and InterruptFlagRestored.                               *)
(***************************************************************************)
EXTENDS Spinlock, Integers, FiniteSetTheorems, SequenceTheorems, TLAPS

Typed ==
    /\ fl_if \in [CPUs -> BOOLEAN] /\ ncli \in [CPUs -> Nat] /\ intena \in [CPUs -> BOOLEAN]
    /\ locked \in [Locks -> BOOLEAN] /\ lkcpu \in [Locks -> CPUs \cup {NoCPU}]
    /\ run \in [CPUs -> Contexts] /\ stk \in [Contexts -> Seq(FrameType)]
    /\ saved \in [Threads -> BOOLEAN]

\* lk of a frame lies above the locks it holds while it takes it, and is one
\* of them until it has let go of it.
Ordered(f) ==
    /\ f.pc \in {"cli", "spin", "record"} => \A m \in f.mine : m < f.lk
    /\ f.pc = "unlock" => f.lk \in f.mine
    /\ f.pc = "pop" => f.lk \notin f.mine

\* What an interrupt may interrupt: code without a lock, and pushcli before
\* its cli.
Interruptible(f) == f.mine = {} /\ f.pc \in {"run", "cli"} /\ (f.pc = "cli" => f.ef)

\* A context is its own code, or that code and one handler above it.
Stacked(s, onCPU) ==
    /\ Len(s) \in 1 .. 2
    /\ Ordered(s[Len(s)])
    /\ s[1].kind # "intr"
    /\ Len(s) = 2 => s[2].kind = "intr" /\ Interruptible(s[1])
    /\ onCPU => s[1].kind = "code"
Frames == \A x \in Contexts : Stacked(stk[x], x \in CPUs)

\* A context is on one CPU at most, a scheduler on its own.
Placed ==
    /\ \A c \in CPUs : run[c] \in Threads \cup {c}
    /\ \A c, d \in CPUs : c # d => run[c] # run[d]

\* A context that is on no CPU left it in sched, in swtch or is new: it will
\* go on with ptable.lock, and a thread with the intena it has saved.
LeftBySwitch(x, f) ==
    /\ f.pc = "run" /\ f.mine = {PTable}
    /\ x \in CPUs => Len(stk[x]) = 1
    /\ x \in Threads /\ f.kind = "intr" => ~saved[x]
    /\ x \in Threads /\ f.kind = "code" => saved[x]
Switched ==
    \A x \in Contexts : (\A c \in CPUs : run[c] # x) => LeftBySwitch(x, stk[x][Len(stk[x])])

\* ncli counts the locks that are held, and one that pushcli was called for
\* or popcli was not yet.
Pushed(f) == IF f.pc \in {"spin", "record", "pop"} THEN 1 ELSE 0
Counted == \A c \in CPUs : ncli[c] = Cardinality(Top(c).mine) + Pushed(Top(c))

\* The interrupt flag i and intena a of a CPU that executes the frame f: of a
\* thread's code, of a handler or of a scheduler.  pushed: ncli is not 0.
Flagged(f, thread, pushed, i, a) ==
    /\ i => f.mine = {} /\ f.pc \in {"run", "cli"} /\ f.kind # "intr"
    /\ f.pc = "cli" => (f.ef <=> i)
    /\ thread /\ f.kind = "code" /\ f.mine = {} /\ f.pc \in {"run", "cli"} => i
    /\ pushed /\ f.kind = "intr" => ~a
    /\ pushed /\ f.kind = "code" /\ thread => a
Flags == \A c \in CPUs : Flagged(Top(c), run[c] \in Threads, ncli[c] # 0, fl_if[c], intena[c])

\* The words of a lock: lk->locked is set for its holder, and lk->cpu is the
\* holder's except in the middle of acquire and of release.
Has(f, l) == l \in f.mine \/ (f.pc = "record" /\ f.lk = l)
Passing(f, l) == f.pc \in {"record", "unlock"} /\ f.lk = l
Owners ==
    /\ \A c \in CPUs, l \in Locks :
          /\ Has(Top(c), l) => locked[l] /\ lkcpu[l] = IF Passing(Top(c), l) THEN NoCPU ELSE c
          /\ lkcpu[l] = c => l \in Top(c).mine
    /\ \A c, d \in CPUs, l \in Locks : Has(Top(c), l) /\ Has(Top(d), l) => c = d

\* The inductive invariant.
IInv == Typed /\ Frames /\ Placed /\ Switched /\ Counted /\ Flags /\ Owners /\ panicked = FALSE
-----------------------------------------------------------------------------
(* Frames and counts *)

\* What is on a CPU is a context with an ordered frame on top.
LEMMA OnCPU ==
    ASSUME Typed, Frames, NEW c \in CPUs
    PROVE  /\ run[c] \in Contexts /\ stk[run[c]] \in Seq(FrameType) /\ Len(stk[run[c]]) \in 1 .. 2
           /\ Top(c) = stk[run[c]][Len(stk[run[c]])] /\ Top(c) \in FrameType /\ Ordered(Top(c))
           /\ Len(stk[run[c]]) = 1 => Top(c).kind # "intr"
           /\ Len(stk[run[c]]) = 2 => Top(c).kind = "intr"
<1>1. run[c] \in Contexts /\ stk[run[c]] \in Seq(FrameType)
  BY Zenon DEF Typed
<1>2. Stacked(stk[run[c]], run[c] \in CPUs)
  BY <1>1, Zenon DEF Frames
<1>. QED BY <1>1, <1>2 DEF Stacked, Top

\* The locks of a frame are finitely many.
LEMMA MineIsFinite ==
    ASSUME NEW f \in FrameType
    PROVE  /\ IsFiniteSet(f.mine) /\ Cardinality(f.mine) \in Nat
           /\ Cardinality(f.mine) = 0 <=> f.mine = {}
<1>1. IsFiniteSet(Locks)
  BY SpinlockAssumption, FS_Interval DEF Locks
<1>2. f.mine \in SUBSET Locks
  BY Zenon DEF FrameType
<1>3. IsFiniteSet(f.mine)
  BY <1>1, <1>2, FS_Subset, Zenon
<1>. QED BY <1>3, FS_CardinalityType, FS_EmptySet, Zenon

\* pushcli is never called more often than there are locks.
LEMMA CountBound ==
    ASSUME NEW f \in FrameType, Ordered(f)
    PROVE  Cardinality(f.mine) + Pushed(f) \in 0 .. NLocks
<1>. DEFINE k == Cardinality(f.mine)
<1>1. k \in Nat /\ IsFiniteSet(f.mine)
  BY MineIsFinite, Zenon
<1>2. f.mine \in SUBSET Locks /\ f.lk \in Locks
  BY Zenon DEF FrameType
<1>3. IsFiniteSet(Locks) /\ Cardinality(Locks) = NLocks
  BY SpinlockAssumption, FS_Interval DEF Locks
<1>4. k <= NLocks
  BY <1>2, <1>3, FS_Subset, Zenon
<1>5. f.lk \notin f.mine => k + 1 <= NLocks
  <2>. SUFFICES ASSUME f.lk \notin f.mine PROVE k + 1 <= NLocks
    BY Zenon
  <2>1. Cardinality(f.mine \cup {f.lk}) = k + 1
    BY <1>1, FS_AddElement, Zenon
  <2>2. f.mine \cup {f.lk} \in SUBSET Locks
    BY <1>2, Zenon
  <2>. QED BY <2>1, <2>2, <1>3, FS_Subset
<1>6. f.pc \in {"spin", "record", "pop"} => f.lk \notin f.mine
  <2>1. f.lk \in Int
    BY <1>2 DEF Locks
  <2>. QED BY <2>1 DEF Ordered
<1>. QED BY <1>1, <1>4, <1>5, <1>6, SpinlockAssumption DEF Pushed

\* ncli is 0 for a frame without locks that is not inside acquire or release.
LEMMA CountIs ==
    ASSUME IInv, NEW c \in CPUs
    PROVE  /\ ncli[c] = 0 <=> Top(c).mine = {} /\ Top(c).pc \notin {"spin", "record", "pop"}
           /\ Top(c).pc = "pop" => (ncli[c] = 1 <=> Top(c).mine = {})
           /\ Top(c).pc = "run" /\ Top(c).mine = {PTable} => ncli[c] = 1
<1>1. Top(c) \in FrameType
  BY OnCPU, Zenon DEF IInv
<1>2. Cardinality(Top(c).mine) \in Nat /\ (Cardinality(Top(c).mine) = 0 <=> Top(c).mine = {})
  BY <1>1, MineIsFinite, Zenon
<1>3. ncli[c] = Cardinality(Top(c).mine) + Pushed(Top(c))
  BY Zenon DEF IInv, Counted
<1>4. Cardinality({PTable}) = 1
  BY FS_Singleton, Zenon
<1>5. Top(c).mine = {PTable} => Cardinality(Top(c).mine) = 1
  BY <1>4, Zenon
<1>. QED BY <1>2, <1>3, <1>5 DEF Pushed
-----------------------------------------------------------------------------
(* Steps of one context *)

\* A sequence whose last element is replaced.
LEMMA LastReplaced ==
    ASSUME NEW S, NEW q \in Seq(S), Len(q) \in 1 .. 2, NEW f \in S
    PROVE  LET u == [q EXCEPT ![Len(q)] = f]
           IN  /\ u \in Seq(S) /\ Len(u) = Len(q) /\ u[Len(u)] = f
               /\ Len(q) = 2 => u[1] = q[1]
               /\ Len(q) = 1 => u[1] = f
<1>. DEFINE n == Len(q)
<1>0. n \in 1 .. 2
  BY Zenon
<1>. HIDE DEF n
<1>1. n \in 1 .. n
  BY <1>0
<1>2. /\ [q EXCEPT ![Len(q)] = f] \in Seq(S) /\ Len([q EXCEPT ![Len(q)] = f]) = Len(q)
      /\ \A j \in 1 .. Len(q) : [q EXCEPT ![Len(q)] = f][j] = IF j = Len(q) THEN f ELSE q[j]
  BY <1>1, ExceptSeq DEF n
<1>. QED BY <1>0, <1>2 DEF n

\* A sequence of one element that gets a second one.
LEMMA SecondPushed ==
    ASSUME NEW S, NEW q \in Seq(S), Len(q) = 1, NEW f \in S
    PROVE  LET u == Append(q, f)
           IN  u \in Seq(S) /\ Len(u) = 2 /\ u[1] = q[1] /\ u[2] = f
<1>1. Append(q, f) \in Seq(S)
  BY AppendProperties, Zenon
<1>2. Len(Append(q, f)) = Len(q) + 1
  OBVIOUS
<1>3. Append(q, f)[1] = q[1]
  BY AppendProperties
<1>4. Append(q, f)[2] = f
  BY AppendProperties
<1>. QED BY <1>1, <1>2, <1>3, <1>4

\* A CPU changes the stack of the context it executes and leaves everything
\* else in place.
LEMMA ChangeStack ==
    ASSUME Typed, Frames, Placed, Switched, NEW c \in CPUs, NEW u \in Seq(FrameType),
           Stacked(u, run[c] \in CPUs), stk' = [stk EXCEPT ![run[c]] = u], run' = run, saved' = saved
    PROVE  /\ Top(c)' = u[Len(u)] /\ \A d \in CPUs \ {c} : Top(d)' = Top(d)
           /\ stk' \in [Contexts -> Seq(FrameType)] /\ Frames' /\ Placed' /\ Switched'
<1>. DEFINE x == run[c]
<1>1. x \in Contexts /\ stk \in [Contexts -> Seq(FrameType)]
  BY Zenon DEF Typed
<1>4. stk'[x] = u /\ \A y \in Contexts \ {x} : stk'[y] = stk[y]
  BY <1>1, Zenon
<1>5. stk' \in [Contexts -> Seq(FrameType)]
  BY <1>1, Zenon
<1>6. Top(c)' = u[Len(u)]
  BY <1>4, Zenon DEF Top
<1>7. \A d \in CPUs \ {c} : run[d] \in Contexts \ {x}
  BY Zenon DEF Placed, Typed
<1>8. \A d \in CPUs \ {c} : Top(d)' = Top(d)
  BY <1>4, <1>7, Zenon DEF Top
<1>9. Frames'
  <2>1. \A y \in Contexts : Stacked(stk'[y], y \in CPUs)
    BY <1>4, Zenon DEF Frames
  <2>. QED BY <2>1, Zenon DEF Frames
<1>10. Placed'
  BY Zenon DEF Placed
<1>11. Switched'
  <2>. SUFFICES ASSUME NEW y \in Contexts, \A d \in CPUs : run[d] # y
                PROVE  LeftBySwitch(y, stk[y][Len(stk[y])])'
    BY Zenon DEF Switched
  <2>1. stk'[y] = stk[y]
    BY <1>4, Zenon
  <2>2. LeftBySwitch(y, stk[y][Len(stk[y])])
    BY Zenon DEF Switched
  <2>. QED BY <2>1, <2>2, Zenon DEF LeftBySwitch
<1>. QED BY <1>5, <1>6, <1>8, <1>9, <1>10, <1>11, Zenon

\* The same when only the frame on top changes.
LEMMA ChangeTop ==
    ASSUME Typed, Frames, Placed, Switched, NEW c \in CPUs, NEW f \in FrameType, Ordered(f),
           f.kind = Top(c).kind \/ (Top(c).kind = "fork" /\ f.kind = "code"),
           SetTop(c, f), run' = run, saved' = saved
    PROVE  /\ Top(c)' = f /\ \A d \in CPUs \ {c} : Top(d)' = Top(d)
           /\ stk' \in [Contexts -> Seq(FrameType)] /\ Frames' /\ Placed' /\ Switched'
<1>. DEFINE x == run[c]
            u == [stk[x] EXCEPT ![Len(stk[x])] = f]
<1>1. /\ x \in Contexts /\ stk[x] \in Seq(FrameType) /\ Len(stk[x]) \in 1 .. 2
      /\ Top(c) = stk[x][Len(stk[x])]
  BY OnCPU, Zenon
<1>2. stk' = [stk EXCEPT ![x] = u]
  BY Zenon DEF SetTop, Typed
<1>3. /\ u \in Seq(FrameType) /\ Len(u) = Len(stk[x]) /\ u[Len(u)] = f
      /\ Len(stk[x]) = 2 => u[1] = stk[x][1]
      /\ Len(stk[x]) = 1 => u[1] = f
  BY <1>1, LastReplaced
<1>. HIDE DEF u
<1>4. Stacked(stk[x], x \in CPUs)
  BY <1>1, Zenon DEF Frames
<1>5. Stacked(u, x \in CPUs)
  BY <1>1, <1>3, <1>4 DEF Stacked
<1>. QED BY <1>2, <1>3, <1>5, ChangeStack, Zenon

\* The flags and counts of the other CPUs stay what they are.
LEMMA ChangeFlags ==
    ASSUME Counted, Flags, NEW c \in CPUs, \A d \in CPUs \ {c} : Top(d)' = Top(d),
           \A d \in CPUs \ {c} : /\ run'[d] = run[d] /\ ncli'[d] = ncli[d]
                                 /\ fl_if'[d] = fl_if[d] /\ intena'[d] = intena[d],
           ncli'[c] = Cardinality(Top(c)'.mine) + Pushed(Top(c)'),
           Flagged(Top(c)', run'[c] \in Threads, ncli'[c] # 0, fl_if'[c], intena'[c])
    PROVE  Counted' /\ Flags'
<1>1. Counted'
  BY Zenon DEF Counted
<1>2. \A d \in CPUs : Flagged(Top(d)', run'[d] \in Threads, ncli'[d] # 0, fl_if'[d], intena'[d])
  <2>. SUFFICES ASSUME NEW d \in CPUs \ {c}
                PROVE  Flagged(Top(d)', run'[d] \in Threads, ncli'[d] # 0, fl_if'[d], intena'[d])
    BY Zenon
  <2>1. Flagged(Top(d), run[d] \in Threads, ncli[d] # 0, fl_if[d], intena[d])
    BY Zenon DEF Flags
  <2>. QED BY <2>1, Zenon
<1>. QED BY <1>1, <1>2, Zenon DEF Flags

\* The frame g is to the lock l what f was.
KeepsHold(f, g, l) ==
    /\ l \in g.mine <=> l \in f.mine
    /\ Has(g, l) <=> Has(f, l)
    /\ Passing(g, l) <=> Passing(f, l)

\* A lock's words stay right when no frame's hold on a lock changes.
LEMMA KeepOwners ==
    ASSUME Owners, locked' = locked, lkcpu' = lkcpu, NEW c \in CPUs,
           \A d \in CPUs \ {c} : Top(d)' = Top(d),
           \A l \in Locks : KeepsHold(Top(c), Top(c)', l)
    PROVE  Owners'
<1>1. \A d \in CPUs, l \in Locks : KeepsHold(Top(d), Top(d)', l)
  BY Zenon DEF KeepsHold
<1>. QED BY <1>1, Zenon DEF Owners, KeepsHold

\* One CPU changes its hold on a lock that nobody else has.
ChangesHold(c, l) ==
    /\ \A d \in CPUs \ {c} : Top(d)' = Top(d) /\ ~Has(Top(d), l)
    /\ \A m \in Locks \ {l} : KeepsHold(Top(c), Top(c)', m)
    /\ \A m \in Locks \ {l} : locked'[m] = locked[m] /\ lkcpu'[m] = lkcpu[m]
    /\ lkcpu'[l] \in {c, NoCPU}
    /\ lkcpu'[l] = c => l \in Top(c)'.mine
    /\ Has(Top(c)', l) => locked'[l] /\ lkcpu'[l] = IF Passing(Top(c)', l) THEN NoCPU ELSE c

\* Then the lock's words stay right for all CPUs.
LEMMA ChangeOwners ==
    ASSUME Owners, NEW c \in CPUs, NEW l \in Locks, ChangesHold(c, l)
    PROVE  Owners'
<1>1. ASSUME NEW d \in CPUs, NEW m \in Locks
      PROVE  /\ Has(Top(d)', m) => locked'[m] /\ lkcpu'[m] = IF Passing(Top(d)', m) THEN NoCPU ELSE d
             /\ lkcpu'[m] = d => m \in Top(d)'.mine
  <2>1. /\ Has(Top(d), m) => locked[m] /\ lkcpu[m] = IF Passing(Top(d), m) THEN NoCPU ELSE d
        /\ lkcpu[m] = d => m \in Top(d).mine
    BY Zenon DEF Owners
  <2>2. CASE d = c /\ m = l
    BY <2>2, Zenon DEF ChangesHold
  <2>3. CASE d = c /\ m # l
    BY <2>1, <2>3, Zenon DEF ChangesHold, KeepsHold
  <2>4. CASE d # c /\ m = l
    BY <2>1, <2>4, SpinlockAssumption, Zenon DEF ChangesHold
  <2>5. CASE d # c /\ m # l
    BY <2>1, <2>5, Zenon DEF ChangesHold
  <2>. QED BY <2>2, <2>3, <2>4, <2>5, ZenonT(40)
<1>2. ASSUME NEW d \in CPUs, NEW e \in CPUs, NEW m \in Locks, Has(Top(d)', m), Has(Top(e)', m)
      PROVE  d = e
  <2>1. Has(Top(d), m) /\ Has(Top(e), m) => d = e
    BY Zenon DEF Owners
  <2>. QED BY <1>2, <2>1, Zenon DEF ChangesHold, KeepsHold
<1>. QED BY <1>1, <1>2, Zenon DEF Owners
-----------------------------------------------------------------------------
(* The actions *)

\* acquire's pushcli reads eflags.
LEMMA PushcliReadInv ==
    ASSUME IInv, NEW c \in CPUs, NEW l \in Locks, pushcli_read(c, l)
    PROVE  IInv'
<1>. DEFINE f == [Top(c) EXCEPT !.pc = "cli", !.lk = l, !.ef = fl_if[c]]
<1>1. Top(c) \in FrameType /\ Ordered(Top(c)) /\ Top(c).pc = "run" /\ fl_if[c] \in BOOLEAN
  BY OnCPU, Zenon DEF IInv, pushcli_read, At, Typed
<1>2. /\ f \in FrameType /\ f.kind = Top(c).kind /\ f.mine = Top(c).mine /\ f.pc = "cli"
      /\ f.lk = l /\ f.ef = fl_if[c]
  BY <1>1, Zenon DEF FrameType
<1>3. SetTop(c, f) /\ UNCHANGED <<fl_if, ncli, intena, locked, lkcpu, run, saved, panicked>>
  BY Zenon DEF pushcli_read, flags, locks, switch
<1>. HIDE DEF f
<1>4. Ordered(f)
  BY <1>2, Zenon DEF Ordered, pushcli_read
<1>5. /\ Top(c)' = f /\ \A d \in CPUs \ {c} : Top(d)' = Top(d)
      /\ stk' \in [Contexts -> Seq(FrameType)] /\ Frames' /\ Placed' /\ Switched'
  BY <1>2, <1>3, <1>4, ChangeTop, Zenon DEF IInv
<1>6. Counted' /\ Flags'
  <2>1. ncli'[c] = Cardinality(f.mine) + Pushed(f)
    BY <1>1, <1>2, <1>3, Zenon DEF IInv, Counted, Pushed
  <2>2. Flagged(f, run'[c] \in Threads, ncli'[c] # 0, fl_if'[c], intena'[c])
    BY <1>1, <1>2, <1>3, Zenon DEF IInv, Flags, Flagged
  <2>. QED BY <1>3, <1>5, <2>1, <2>2, ChangeFlags, Zenon DEF IInv
<1>7. Owners'
  BY <1>1, <1>2, <1>3, <1>5, KeepOwners, Zenon DEF IInv, KeepsHold, Has, Passing
<1>. QED BY <1>3, <1>5, <1>6, <1>7, Zenon DEF IInv, Typed

\* pushcli: cli, and intena for the outermost one.
LEMMA PushcliInv ==
    ASSUME IInv, NEW c \in CPUs, pushcli(c)
    PROVE  IInv'
<1>. DEFINE f == [Top(c) EXCEPT !.pc = "spin", !.ef = FALSE]
<1>1. Top(c) \in FrameType /\ Ordered(Top(c)) /\ Top(c).pc = "cli" /\ ncli[c] \in Nat
  BY OnCPU, Zenon DEF IInv, pushcli, At, Typed
<1>2. /\ f \in FrameType /\ f.kind = Top(c).kind /\ f.mine = Top(c).mine /\ f.pc = "spin"
      /\ f.lk = Top(c).lk
  BY <1>1, Zenon DEF FrameType
<1>3. /\ SetTop(c, f) /\ UNCHANGED <<locked, lkcpu, run, saved, panicked>>
      /\ fl_if' = [fl_if EXCEPT ![c] = FALSE]
      /\ ncli' = [ncli EXCEPT ![c] = @ + 1]
      /\ intena' = [intena EXCEPT ![c] = IF ncli[c] = 0 THEN Top(c).ef ELSE @]
  BY Zenon DEF pushcli, locks, switch
<1>. HIDE DEF f
<1>4. Ordered(f)
  BY <1>1, <1>2, Zenon DEF Ordered
<1>5. /\ Top(c)' = f /\ \A d \in CPUs \ {c} : Top(d)' = Top(d)
      /\ stk' \in [Contexts -> Seq(FrameType)] /\ Frames' /\ Placed' /\ Switched'
  BY <1>2, <1>3, <1>4, ChangeTop, Zenon DEF IInv
<1>6. Typed'
  <2>1. Top(c).ef \in BOOLEAN /\ intena[c] \in BOOLEAN
    BY <1>1, Zenon DEF IInv, Typed, FrameType
  <2>2. intena' \in [CPUs -> BOOLEAN]
    BY <1>3, <2>1, Zenon DEF IInv, Typed
  <2>. QED BY <1>1, <1>3, <1>5, <2>2 DEF IInv, Typed
<1>7. Counted' /\ Flags'
  <2>1. ncli'[c] = ncli[c] + 1 /\ ~fl_if'[c] /\ (intena'[c] <=> IF ncli[c] = 0 THEN Top(c).ef ELSE intena[c])
    BY <1>3, Zenon DEF IInv, Typed
  <2>2. Cardinality(f.mine) \in Nat
    BY <1>2, MineIsFinite, Zenon
  <2>3. ncli'[c] = Cardinality(f.mine) + Pushed(f)
    BY <1>1, <1>2, <2>1, <2>2 DEF IInv, Counted, Pushed
  <2>4. ncli[c] = 0 <=> Top(c).mine = {}
    BY <1>1, CountIs, Zenon
  <2>5. Flagged(Top(c), run[c] \in Threads, ncli[c] # 0, fl_if[c], intena[c])
    BY Zenon DEF IInv, Flags
  <2>6. Flagged(f, run'[c] \in Threads, ncli'[c] # 0, fl_if'[c], intena'[c])
    BY <1>1, <1>2, <1>3, <2>1, <2>4, <2>5, ZenonT(40) DEF Flagged
  <2>. QED BY <1>3, <1>5, <2>3, <2>6, ChangeFlags, Zenon DEF IInv, Typed
<1>8. Owners'
  BY <1>1, <1>2, <1>3, <1>5, KeepOwners, Zenon DEF IInv, KeepsHold, Has, Passing
<1>. QED BY <1>3, <1>5, <1>6, <1>7, <1>8, Zenon DEF IInv

\* acquire: it does not hold the lock already, and the xchg wins only when
\* nobody has it.
LEMMA AcquireInv ==
    ASSUME IInv, NEW c \in CPUs, acquire(c)
    PROVE  IInv'
<1>. DEFINE f == [Top(c) EXCEPT !.pc = "record"]
<1>0. Top(c) \in FrameType /\ Ordered(Top(c)) /\ Top(c).pc = "spin" /\ Top(c).lk \in Locks
  BY OnCPU, Zenon DEF IInv, acquire, At, FrameType
<1>. PICK l \in Locks : l = Top(c).lk
  BY <1>0, Zenon
<1>1. Top(c) \in FrameType /\ Ordered(Top(c)) /\ Top(c).pc = "spin" /\ Top(c).lk = l /\ l \in Nat
  BY <1>0 DEF Locks
<1>2. /\ f \in FrameType /\ f.kind = Top(c).kind /\ f.mine = Top(c).mine /\ f.pc = "record"
      /\ f.lk = l
  BY <1>1, Zenon DEF FrameType
<1>3. l \notin Top(c).mine
  BY <1>1 DEF Ordered
<1>4. ~holding(c, l)
  BY <1>1, <1>3, Zenon DEF IInv, Owners, holding
<1>5. /\ SetTop(c, f) /\ ~locked[l] /\ locked' = [locked EXCEPT ![l] = TRUE]
      /\ UNCHANGED <<fl_if, ncli, intena, lkcpu, run, saved, panicked>>
  BY <1>4, Zenon DEF acquire, xchg_wins, flags, switch
<1>. HIDE DEF f
<1>6. Ordered(f)
  BY <1>1, <1>2, Zenon DEF Ordered
<1>7. /\ Top(c)' = f /\ \A d \in CPUs \ {c} : Top(d)' = Top(d)
      /\ stk' \in [Contexts -> Seq(FrameType)] /\ Frames' /\ Placed' /\ Switched'
  BY <1>2, <1>5, <1>6, ChangeTop, Zenon DEF IInv
<1>8. Counted' /\ Flags'
  <2>1. ncli'[c] = Cardinality(f.mine) + Pushed(f)
    BY <1>1, <1>2, <1>5, Zenon DEF IInv, Counted, Pushed
  <2>2. Flagged(f, run'[c] \in Threads, ncli'[c] # 0, fl_if'[c], intena'[c])
    BY <1>1, <1>2, <1>5, Zenon DEF IInv, Flags, Flagged
  <2>. QED BY <1>5, <1>7, <2>1, <2>2, ChangeFlags, Zenon DEF IInv
<1>9. Owners'
  <2>1. \A d \in CPUs : ~Has(Top(d), l)
    BY <1>1, <1>5, Zenon DEF IInv, Owners
  <2>2. lkcpu[l] = NoCPU
    <3>1. lkcpu[l] \in CPUs => l \in Top(lkcpu[l]).mine
      BY <1>1, Zenon DEF IInv, Owners
    <3>. QED BY <1>1, <2>1, <3>1, Zenon DEF IInv, Typed, Has
  <2>3. locked'[l] /\ \A m \in Locks \ {l} : locked'[m] = locked[m]
    BY <1>1, <1>5, Zenon DEF IInv, Typed
  <2>4. \A m \in Locks \ {l} : KeepsHold(Top(c), f, m)
    BY <1>1, <1>2, Zenon DEF KeepsHold, Has, Passing
  <2>5. Passing(f, l)
    BY <1>2, Zenon DEF Passing
  <2>6. ChangesHold(c, l)
    BY <1>5, <1>7, <2>1, <2>2, <2>3, <2>4, <2>5, SpinlockAssumption, ZenonT(40) DEF ChangesHold
  <2>. QED BY <2>6, ChangeOwners, Zenon DEF IInv
<1>. QED BY <1>1, <1>5, <1>7, <1>8, <1>9, Zenon DEF IInv, Typed

\* acquire notes the holder.
LEMMA AcquireRecordInv ==
    ASSUME IInv, NEW c \in CPUs, acquire_record(c)
    PROVE  IInv'
<1>. DEFINE f == Frame(Top(c).kind, Top(c).mine \cup {Top(c).lk})
<1>0. Top(c) \in FrameType /\ Ordered(Top(c)) /\ Top(c).pc = "record" /\ Top(c).lk \in Locks
  BY OnCPU, Zenon DEF IInv, acquire_record, At, FrameType
<1>. PICK l \in Locks : l = Top(c).lk
  BY <1>0, Zenon
<1>1. Top(c) \in FrameType /\ Ordered(Top(c)) /\ Top(c).pc = "record" /\ Top(c).lk = l /\ l \in Nat
  BY <1>0 DEF Locks
<1>2. /\ f \in FrameType /\ f.kind = Top(c).kind /\ f.mine = Top(c).mine \cup {l} /\ f.pc = "run"
  BY <1>1, SpinlockAssumption DEF FrameType, Frame, Locks
<1>3. l \notin Top(c).mine
  BY <1>1 DEF Ordered
<1>4. /\ SetTop(c, f) /\ lkcpu' = [lkcpu EXCEPT ![l] = c]
      /\ UNCHANGED <<fl_if, ncli, intena, locked, run, saved, panicked>>
  BY <1>1, Zenon DEF acquire_record, flags, switch
<1>. HIDE DEF f
<1>5. Ordered(f)
  BY <1>2, Zenon DEF Ordered
<1>6. /\ Top(c)' = f /\ \A d \in CPUs \ {c} : Top(d)' = Top(d)
      /\ stk' \in [Contexts -> Seq(FrameType)] /\ Frames' /\ Placed' /\ Switched'
  BY <1>2, <1>4, <1>5, ChangeTop, Zenon DEF IInv
<1>7. Counted' /\ Flags'
  <2>1. IsFiniteSet(Top(c).mine) /\ Cardinality(Top(c).mine) \in Nat
    BY <1>1, MineIsFinite, Zenon
  <2>0. Cardinality(Top(c).mine \cup {l}) = Cardinality(Top(c).mine) + 1
    BY <1>3, <2>1, FS_AddElement, ZenonT(40)
  <2>2. Cardinality(f.mine) = Cardinality(Top(c).mine) + 1
    BY <1>2, <2>0, Zenon
  <2>3. ncli'[c] = Cardinality(f.mine) + Pushed(f)
    BY <1>1, <1>2, <1>4, <2>1, <2>2 DEF IInv, Counted, Pushed
  <2>4. Flagged(f, run'[c] \in Threads, ncli'[c] # 0, fl_if'[c], intena'[c])
    BY <1>1, <1>2, <1>4, ZenonT(40) DEF IInv, Flags, Flagged
  <2>. QED BY <1>4, <1>6, <2>3, <2>4, ChangeFlags, Zenon DEF IInv
<1>8. Owners'
  <2>1. locked[l] /\ \A d \in CPUs \ {c} : ~Has(Top(d), l)
    BY <1>1, Zenon DEF IInv, Owners, Has
  <2>2. lkcpu'[l] = c /\ \A m \in Locks \ {l} : lkcpu'[m] = lkcpu[m]
    BY <1>4, Zenon DEF IInv, Typed
  <2>3. \A m \in Locks \ {l} : KeepsHold(Top(c), f, m)
    BY <1>1, <1>2, Zenon DEF KeepsHold, Has, Passing
  <2>4. ~Passing(f, l) /\ l \in f.mine
    BY <1>2, Zenon DEF Passing
  <2>5. ChangesHold(c, l)
    BY <1>4, <1>6, <2>1, <2>2, <2>3, <2>4, Zenon DEF ChangesHold
  <2>. QED BY <2>5, ChangeOwners, Zenon DEF IInv
<1>. QED BY <1>4, <1>6, <1>7, <1>8, Zenon DEF IInv, Typed

\* release: it holds the lock, and forgets the holder.
LEMMA ReleaseInv ==
    ASSUME IInv, NEW c \in CPUs, NEW l \in Locks, release(c, l)
    PROVE  IInv'
<1>. DEFINE f == [Top(c) EXCEPT !.pc = "unlock", !.lk = l]
<1>1. Top(c) \in FrameType /\ Ordered(Top(c)) /\ Top(c).pc = "run" /\ l \in Top(c).mine
  BY OnCPU, Zenon DEF IInv, release, At
<1>2. f \in FrameType /\ f.kind = Top(c).kind /\ f.mine = Top(c).mine /\ f.pc = "unlock" /\ f.lk = l
  BY <1>1, Zenon DEF FrameType
<1>3. /\ locked[l] /\ lkcpu[l] = c
      /\ \A d \in CPUs \ {c} : ~Has(Top(d), l)
  BY <1>1, Zenon DEF IInv, Owners, Has, Passing
<1>4. /\ SetTop(c, f) /\ lkcpu' = [lkcpu EXCEPT ![l] = NoCPU]
      /\ UNCHANGED <<fl_if, ncli, intena, locked, run, saved, panicked>>
  BY <1>3, Zenon DEF release, holding, forget_cpu, flags, switch
<1>. HIDE DEF f
<1>5. Ordered(f)
  BY <1>1, <1>2, Zenon DEF Ordered
<1>6. /\ Top(c)' = f /\ \A d \in CPUs \ {c} : Top(d)' = Top(d)
      /\ stk' \in [Contexts -> Seq(FrameType)] /\ Frames' /\ Placed' /\ Switched'
  BY <1>2, <1>4, <1>5, ChangeTop, Zenon DEF IInv
<1>7. Counted' /\ Flags'
  <2>1. ncli'[c] = Cardinality(f.mine) + Pushed(f)
    BY <1>1, <1>2, <1>4, Zenon DEF IInv, Counted, Pushed
  <2>2. Flagged(f, run'[c] \in Threads, ncli'[c] # 0, fl_if'[c], intena'[c])
    BY <1>1, <1>2, <1>4, Zenon DEF IInv, Flags, Flagged
  <2>. QED BY <1>4, <1>6, <2>1, <2>2, ChangeFlags, Zenon DEF IInv
<1>8. Owners'
  <2>1. lkcpu'[l] = NoCPU /\ \A m \in Locks \ {l} : lkcpu'[m] = lkcpu[m]
    BY <1>4, Zenon DEF IInv, Typed
  <2>2. \A m \in Locks \ {l} : KeepsHold(Top(c), f, m)
    BY <1>1, <1>2, Zenon DEF KeepsHold, Has, Passing
  <2>3. Passing(f, l)
    BY <1>2, Zenon DEF Passing
  <2>4. ChangesHold(c, l)
    BY <1>3, <1>4, <1>6, <2>1, <2>2, <2>3, SpinlockAssumption, Zenon DEF ChangesHold
  <2>. QED BY <2>4, ChangeOwners, Zenon DEF IInv
<1>. QED BY <1>4, <1>6, <1>7, <1>8, Zenon DEF IInv, Typed

\* release unlocks.
LEMMA ReleaseXchgInv ==
    ASSUME IInv, NEW c \in CPUs, release_xchg(c)
    PROVE  IInv'
<1>. DEFINE f == [Top(c) EXCEPT !.pc = "pop", !.mine = @ \ {Top(c).lk}]
<1>0. Top(c) \in FrameType /\ Ordered(Top(c)) /\ Top(c).pc = "unlock" /\ Top(c).lk \in Locks
  BY OnCPU, Zenon DEF IInv, release_xchg, At, FrameType
<1>. PICK l \in Locks : l = Top(c).lk
  BY <1>0, Zenon
<1>1. Top(c) \in FrameType /\ Top(c).pc = "unlock" /\ Top(c).lk = l /\ l \in Top(c).mine
  BY <1>0, Zenon DEF Ordered
<1>2. /\ f \in FrameType /\ f.kind = Top(c).kind /\ f.mine = Top(c).mine \ {l} /\ f.pc = "pop"
      /\ f.lk = l
  BY <1>1, ZenonT(40) DEF FrameType
<1>3. /\ locked[l] /\ lkcpu[l] = NoCPU
      /\ \A d \in CPUs \ {c} : ~Has(Top(d), l)
  BY <1>1 DEF IInv, Owners, Has, Passing
<1>4. /\ SetTop(c, f) /\ locked' = [locked EXCEPT ![l] = FALSE]
      /\ UNCHANGED <<fl_if, ncli, intena, lkcpu, run, saved, panicked>>
  BY <1>1, Zenon DEF release_xchg, flags, switch
<1>. HIDE DEF f
<1>5. Ordered(f)
  BY <1>1, <1>2, Zenon DEF Ordered
<1>6. /\ Top(c)' = f /\ \A d \in CPUs \ {c} : Top(d)' = Top(d)
      /\ stk' \in [Contexts -> Seq(FrameType)] /\ Frames' /\ Placed' /\ Switched'
  BY <1>2, <1>4, <1>5, ChangeTop, Zenon DEF IInv
<1>7. Counted' /\ Flags'
  <2>1. IsFiniteSet(Top(c).mine) /\ Cardinality(Top(c).mine) \in Nat
    BY <1>1, MineIsFinite, Zenon
  <2>0. Cardinality(Top(c).mine \ {l}) = Cardinality(Top(c).mine) - 1
    BY <1>1, <2>1, FS_RemoveElement, ZenonT(40)
  <2>2. Cardinality(f.mine) = Cardinality(Top(c).mine) - 1
    BY <1>2, <2>0, Zenon
  <2>3. ncli'[c] = Cardinality(f.mine) + Pushed(f)
    BY <1>1, <1>2, <1>4, <2>1, <2>2 DEF IInv, Counted, Pushed
  <2>4. Flagged(f, run'[c] \in Threads, ncli'[c] # 0, fl_if'[c], intena'[c])
    BY <1>1, <1>2, <1>4, ZenonT(40) DEF IInv, Flags, Flagged
  <2>. QED BY <1>4, <1>6, <2>3, <2>4, ChangeFlags, ZenonT(40) DEF IInv
<1>8. Owners'
  <2>1. \A m \in Locks \ {l} : locked'[m] = locked[m]
    BY <1>4, Zenon DEF IInv, Typed
  <2>2. \A m \in Locks \ {l} : KeepsHold(Top(c), f, m)
    BY <1>1, <1>2, Zenon DEF KeepsHold, Has, Passing
  <2>3. ~Has(f, l)
    BY <1>2, Zenon DEF Has
  <2>4. ChangesHold(c, l)
    BY <1>3, <1>4, <1>6, <2>1, <2>2, <2>3, SpinlockAssumption, ZenonT(40) DEF ChangesHold
  <2>. QED BY <2>4, ChangeOwners, Zenon DEF IInv
<1>. QED BY <1>4, <1>6, <1>7, <1>8, Zenon DEF IInv, Typed

\* switchuvm's pushcli is done, and its popcli comes.
LEMMA SwitchuvmInv ==
    ASSUME IInv, NEW c \in CPUs, switchuvm(c)
    PROVE  IInv'
<1>. DEFINE f == [Top(c) EXCEPT !.pc = "pop"]
<1>1. Top(c) \in FrameType /\ Ordered(Top(c)) /\ Top(c).pc = "spin" /\ Top(c).lk \in Nat
  BY OnCPU, SpinlockAssumption DEF IInv, switchuvm, At, FrameType, Locks
<1>2. /\ f \in FrameType /\ f.kind = Top(c).kind /\ f.mine = Top(c).mine /\ f.pc = "pop"
      /\ f.lk = Top(c).lk
  BY <1>1, Zenon DEF FrameType
<1>3. SetTop(c, f) /\ UNCHANGED <<fl_if, ncli, intena, locked, lkcpu, run, saved, panicked>>
  BY Zenon DEF switchuvm, flags, locks, switch
<1>. HIDE DEF f
<1>4. Ordered(f)
  BY <1>1, <1>2 DEF Ordered
<1>5. /\ Top(c)' = f /\ \A d \in CPUs \ {c} : Top(d)' = Top(d)
      /\ stk' \in [Contexts -> Seq(FrameType)] /\ Frames' /\ Placed' /\ Switched'
  BY <1>2, <1>3, <1>4, ChangeTop, Zenon DEF IInv
<1>6. Counted' /\ Flags'
  <2>1. ncli'[c] = Cardinality(f.mine) + Pushed(f)
    BY <1>1, <1>2, <1>3, Zenon DEF IInv, Counted, Pushed
  <2>2. Flagged(f, run'[c] \in Threads, ncli'[c] # 0, fl_if'[c], intena'[c])
    BY <1>1, <1>2, <1>3, Zenon DEF IInv, Flags, Flagged
  <2>. QED BY <1>3, <1>5, <2>1, <2>2, ChangeFlags, Zenon DEF IInv
<1>7. Owners'
  BY <1>1, <1>2, <1>3, <1>5, KeepOwners, Zenon DEF IInv, KeepsHold, Has, Passing
<1>. QED BY <1>3, <1>5, <1>6, <1>7, Zenon DEF IInv, Typed

\* popcli: interrupts are off and ncli is positive; the outermost one gives
\* the flag back.
LEMMA PopcliInv ==
    ASSUME IInv, NEW c \in CPUs, popcli(c)
    PROVE  IInv'
<1>. DEFINE f == Frame(Top(c).kind, Top(c).mine)
<1>1. Top(c) \in FrameType /\ Top(c).pc = "pop" /\ ncli[c] \in Nat
  BY OnCPU, Zenon DEF IInv, popcli, At, Typed
<1>2. f \in FrameType /\ f.kind = Top(c).kind /\ f.mine = Top(c).mine /\ f.pc = "run"
  BY <1>1, SpinlockAssumption DEF FrameType, Frame, Locks
<1>3. ncli[c] # 0 /\ (ncli[c] = 1 <=> Top(c).mine = {})
  BY <1>1, CountIs, Zenon
<1>4. Flagged(Top(c), run[c] \in Threads, ncli[c] # 0, fl_if[c], intena[c])
  BY DEF IInv, Flags
<1>5. /\ SetTop(c, f) /\ ncli' = [ncli EXCEPT ![c] = @ - 1]
      /\ fl_if' = [fl_if EXCEPT ![c] = (ncli[c] = 1 /\ intena[c])]
      /\ UNCHANGED <<intena, locked, lkcpu, run, saved, panicked>>
  BY <1>1, <1>3, <1>4, Zenon DEF popcli, popcli_sti, Flagged, locks, switch
<1>. HIDE DEF f
<1>6. Ordered(f)
  BY <1>2, Zenon DEF Ordered
<1>7. /\ Top(c)' = f /\ \A d \in CPUs \ {c} : Top(d)' = Top(d)
      /\ stk' \in [Contexts -> Seq(FrameType)] /\ Frames' /\ Placed' /\ Switched'
  BY <1>2, <1>5, <1>6, ChangeTop, Zenon DEF IInv
<1>8. Typed'
  BY <1>1, <1>3, <1>5, <1>7 DEF IInv, Typed
<1>9. Counted' /\ Flags'
  <2>1. ncli'[c] = ncli[c] - 1 /\ (fl_if'[c] <=> ncli[c] = 1 /\ intena[c])
    BY <1>5, ZenonT(40) DEF IInv, Typed
  <2>2. Cardinality(f.mine) \in Nat
    BY <1>2, MineIsFinite, Zenon
  <2>3. ncli'[c] = Cardinality(f.mine) + Pushed(f)
    BY <1>1, <1>2, <2>1, <2>2 DEF IInv, Counted, Pushed
  <2>4. Flagged(f, run'[c] \in Threads, ncli'[c] # 0, fl_if'[c], intena'[c])
    BY <1>1, <1>2, <1>3, <1>4, <1>5, <2>1, ZenonT(40) DEF Flagged
  <2>. QED BY <1>5, <1>7, <2>3, <2>4, ChangeFlags, Zenon DEF IInv, Typed
<1>10. Owners'
  BY <1>1, <1>2, <1>5, <1>7, KeepOwners, ZenonT(40) DEF IInv, KeepsHold, Has, Passing
<1>. QED BY <1>5, <1>7, <1>8, <1>9, <1>10, Zenon DEF IInv

\* forkret's return to user space.
LEMMA ForkretInv ==
    ASSUME IInv, NEW c \in CPUs, forkret_iret(c)
    PROVE  IInv'
<1>. DEFINE f == [Top(c) EXCEPT !.kind = "code"]
<1>1. Top(c) \in FrameType /\ Top(c).pc = "run" /\ Top(c).kind = "fork" /\ Top(c).mine = {}
  BY OnCPU, Zenon DEF IInv, forkret_iret, At
<1>2. f \in FrameType /\ f.kind = "code" /\ f.mine = {} /\ f.pc = "run" /\ f.lk = Top(c).lk
  BY <1>1, Zenon DEF FrameType
<1>3. ncli[c] = 0
  BY <1>1, CountIs, Zenon
<1>4. /\ SetTop(c, f) /\ fl_if' = [fl_if EXCEPT ![c] = TRUE]
      /\ UNCHANGED <<ncli, intena, locked, lkcpu, run, saved, panicked>>
  BY Zenon DEF forkret_iret, locks, switch
<1>. HIDE DEF f
<1>5. Ordered(f)
  BY <1>2, Zenon DEF Ordered
<1>6. /\ Top(c)' = f /\ \A d \in CPUs \ {c} : Top(d)' = Top(d)
      /\ stk' \in [Contexts -> Seq(FrameType)] /\ Frames' /\ Placed' /\ Switched'
  BY <1>1, <1>2, <1>4, <1>5, ChangeTop, Zenon DEF IInv
<1>7. Counted' /\ Flags'
  <2>1. ncli'[c] = Cardinality(f.mine) + Pushed(f)
    BY <1>1, <1>2, <1>4, Zenon DEF IInv, Counted, Pushed
  <2>2. Flagged(f, run'[c] \in Threads, ncli'[c] # 0, fl_if'[c], intena'[c])
    BY <1>2, <1>3, <1>4, Zenon DEF IInv, Typed, Flagged
  <2>. QED BY <1>4, <1>6, <2>1, <2>2, ChangeFlags, ZenonT(40) DEF IInv, Typed
<1>8. Owners'
  BY <1>1, <1>2, <1>4, <1>6, KeepOwners, Zenon DEF IInv, KeepsHold, Has, Passing
<1>. QED BY <1>4, <1>6, <1>7, <1>8, Zenon DEF IInv, Typed

\* The scheduler's sti.
LEMMA SchedulerStiInv ==
    ASSUME IInv, NEW c \in CPUs, scheduler_sti(c)
    PROVE  IInv'
<1>1. Top(c).pc = "run" /\ Top(c).kind = "code" /\ Top(c).mine = {}
  BY Zenon DEF scheduler_sti, At
<1>2. ncli[c] = 0
  BY <1>1, CountIs, Zenon
<1>3. /\ fl_if' = [fl_if EXCEPT ![c] = TRUE]
      /\ UNCHANGED <<ncli, intena, locked, lkcpu, run, saved, stk, panicked>>
  BY Zenon DEF scheduler_sti, locks, switch
<1>4. \A d \in CPUs : Top(d)' = Top(d)
  BY <1>3, Zenon DEF Top
<1>5. Frames' /\ Placed' /\ Switched'
  BY <1>3, Zenon DEF IInv, Frames, Placed, Switched, LeftBySwitch
<1>6. Counted' /\ Flags'
  <2>1. ncli'[c] = Cardinality(Top(c)'.mine) + Pushed(Top(c)')
    BY <1>3, <1>4, Zenon DEF IInv, Counted
  <2>2. Flagged(Top(c), run'[c] \in Threads, ncli'[c] # 0, fl_if'[c], intena'[c])
    BY <1>1, <1>2, <1>3, Zenon DEF IInv, Typed, Flagged
  <2>. QED BY <1>3, <1>4, <2>1, <2>2, ChangeFlags, ZenonT(40) DEF IInv, Typed
<1>7. Owners'
  BY <1>3, <1>4, KeepOwners, Zenon DEF IInv, KeepsHold
<1>. QED BY <1>3, <1>5, <1>6, <1>7, Zenon DEF IInv, Typed

\* An interrupt finds code that holds no lock, and no handler.
LEMMA InterruptInv ==
    ASSUME IInv, NEW c \in CPUs, Interrupt(c)
    PROVE  IInv'
<1>. DEFINE x == run[c]
            g == Frame("intr", {})
            u == Append(stk[x], g)
<1>1. /\ x \in Contexts /\ stk[x] \in Seq(FrameType) /\ Len(stk[x]) \in 1 .. 2
      /\ Top(c) = stk[x][Len(stk[x])] /\ Top(c) \in FrameType
      /\ Len(stk[x]) = 2 => Top(c).kind = "intr"
  BY OnCPU, ZenonT(40) DEF IInv
<1>2. Interruptible(Top(c)) /\ Top(c).kind # "intr" /\ Len(stk[x]) = 1
  BY <1>1 DEF IInv, Interrupt, Flags, Flagged, Interruptible
<1>3. ncli[c] = 0
  BY <1>2, CountIs, Zenon DEF Interruptible
<1>4. g \in FrameType /\ g.kind = "intr" /\ g.mine = {} /\ g.pc = "run"
  BY SpinlockAssumption DEF FrameType, Frame, Locks
<1>5. /\ stk' = [stk EXCEPT ![x] = u] /\ fl_if' = [fl_if EXCEPT ![c] = FALSE]
      /\ UNCHANGED <<ncli, intena, locked, lkcpu, run, saved, panicked>>
  BY Zenon DEF Interrupt, gate_if, locks, switch
<1>. HIDE DEF g
<1>6. u \in Seq(FrameType) /\ Len(u) = 2 /\ u[1] = Top(c) /\ u[2] = g
  BY <1>1, <1>2, <1>4, SecondPushed
<1>. HIDE DEF u
<1>7. Stacked(u, x \in CPUs)
  <2>1. Stacked(stk[x], x \in CPUs)
    BY <1>1, Zenon DEF IInv, Frames
  <2>. QED BY <1>1, <1>2, <1>4, <1>6, <2>1 DEF Stacked, Ordered
<1>8. /\ Top(c)' = g /\ \A d \in CPUs \ {c} : Top(d)' = Top(d)
      /\ stk' \in [Contexts -> Seq(FrameType)] /\ Frames' /\ Placed' /\ Switched'
  BY <1>5, <1>6, <1>7, ChangeStack, Zenon DEF IInv
<1>9. Counted' /\ Flags'
  <2>1. ncli'[c] = Cardinality(g.mine) + Pushed(g)
    BY <1>3, <1>4, <1>5, FS_EmptySet DEF Pushed
  <2>2. Flagged(g, run'[c] \in Threads, ncli'[c] # 0, fl_if'[c], intena'[c])
    BY <1>3, <1>4, <1>5, Zenon DEF IInv, Typed, Flagged
  <2>. QED BY <1>5, <1>8, <2>1, <2>2, ChangeFlags, ZenonT(40) DEF IInv, Typed
<1>10. Owners'
  BY <1>2, <1>4, <1>5, <1>8, KeepOwners, Zenon DEF IInv, KeepsHold, Has, Passing, Interruptible
<1>. QED BY <1>5, <1>8, <1>9, <1>10, Zenon DEF IInv, Typed

\* A handler returns to what it interrupted.
LEMMA IretInv ==
    ASSUME IInv, NEW c \in CPUs, iret(c)
    PROVE  IInv'
<1>. DEFINE x == run[c]
            g == stk[x][1]
            u == SubSeq(stk[x], 1, Len(stk[x]) - 1)
<1>1. /\ x \in Contexts /\ stk[x] \in Seq(FrameType) /\ Len(stk[x]) = 2
      /\ Top(c).mine = {} /\ Top(c).pc = "run"
  BY OnCPU DEF IInv, iret, At
<1>2. Stacked(stk[x], x \in CPUs)
  BY <1>1, Zenon DEF IInv, Frames
<1>3. Interruptible(g) /\ g.kind # "intr" /\ g \in FrameType /\ (x \in CPUs => g.kind = "code")
  BY <1>1, <1>2 DEF Stacked
<1>4. ncli[c] = 0
  BY <1>1, CountIs, Zenon
<1>5. /\ stk' = [stk EXCEPT ![x] = u] /\ fl_if' = [fl_if EXCEPT ![c] = TRUE]
      /\ UNCHANGED <<ncli, intena, locked, lkcpu, run, saved, panicked>>
  BY Zenon DEF iret, locks, switch
<1>6. u \in Seq(FrameType) /\ Len(u) = 1 /\ u[1] = g
  BY <1>1
<1>. HIDE DEF u, g
<1>7. Stacked(u, x \in CPUs)
  BY <1>3, <1>6 DEF Stacked, Interruptible, Ordered
<1>8. /\ Top(c)' = g /\ \A d \in CPUs \ {c} : Top(d)' = Top(d)
      /\ stk' \in [Contexts -> Seq(FrameType)] /\ Frames' /\ Placed' /\ Switched'
  BY <1>5, <1>6, <1>7, ChangeStack, Zenon DEF IInv
<1>9. Counted' /\ Flags'
  <2>1. ncli'[c] = Cardinality(g.mine) + Pushed(g)
    BY <1>3, <1>4, <1>5, FS_EmptySet DEF Pushed, Interruptible
  <2>2. Flagged(g, run'[c] \in Threads, ncli'[c] # 0, fl_if'[c], intena'[c])
    BY <1>3, <1>4, <1>5, Zenon DEF IInv, Typed, Flagged, Interruptible
  <2>. QED BY <1>5, <1>8, <2>1, <2>2, ChangeFlags, ZenonT(40) DEF IInv, Typed
<1>10. Owners'
  BY <1>1, <1>3, <1>5, <1>8, KeepOwners, ZenonT(40) DEF IInv, KeepsHold, Has, Passing, Interruptible
<1>. QED BY <1>5, <1>8, <1>9, <1>10, ZenonT(40) DEF IInv, Typed

\* sched: ptable.lock is held once and interrupts are off; the thread takes
\* intena with it and the scheduler goes on where it left off.
LEMMA SchedInv ==
    ASSUME IInv, NEW c \in CPUs, sched(c)
    PROVE  IInv'
<1>. DEFINE f == Top(c)
            g == stk[c][Len(stk[c])]
<1>0. run[c] \in Threads
  BY Zenon DEF sched, CallsSched
<1>. PICK t \in Threads : t = run[c]
  BY <1>0, Zenon
<1>1. f \in FrameType /\ f.pc = "run" /\ f.kind # "fork" /\ f.mine = {PTable} /\ PTable \in Locks
  BY OnCPU, SpinlockAssumption DEF IInv, sched, CallsSched, At, Locks
<1>2. Flagged(f, TRUE, ncli[c] # 0, fl_if[c], intena[c]) /\ ncli[c] = 1
  BY <1>1, CountIs, ZenonT(40) DEF IInv, Flags
<1>3. holding(c, PTable) /\ ~fl_if[c]
  BY <1>1, <1>2, Zenon DEF IInv, Owners, Has, Passing, holding, Flagged
<1>4. /\ saved' = [saved EXCEPT ![t] = intena[c]] /\ run' = [run EXCEPT ![c] = c]
      /\ UNCHANGED <<fl_if, ncli, intena, locked, lkcpu, stk, panicked>>
  BY <1>2, <1>3, Zenon DEF sched, flags, locks
<1>5. c \in Contexts /\ t \in Contexts /\ t # c /\ c \notin Threads /\ t \notin CPUs
  BY SpinlockAssumption, Zenon DEF Contexts
<1>6. \A d \in CPUs : run[d] # c
  BY <1>5, Zenon DEF IInv, Placed
<1>7. g.pc = "run" /\ g.mine = {PTable} /\ Len(stk[c]) = 1 /\ g.kind = "code"
  <2>1. LeftBySwitch(c, g)
    BY <1>5, <1>6, Zenon DEF IInv, Switched
  <2>2. Stacked(stk[c], c \in CPUs)
    BY <1>5, Zenon DEF IInv, Frames
  <2>. QED BY <2>1, <2>2, Zenon DEF LeftBySwitch, Stacked
<1>8. run'[c] = c /\ \A d \in CPUs \ {c} : run'[d] = run[d]
  BY <1>4, Zenon DEF IInv, Typed
<1>9. Top(c)' = g /\ \A d \in CPUs \ {c} : Top(d)' = Top(d)
  BY <1>4, <1>8, Zenon DEF Top
<1>10. Typed' /\ Frames'
  BY <1>4, <1>5, Zenon DEF IInv, Typed, Frames
<1>11. Placed'
  BY <1>6, <1>8, Zenon DEF IInv, Placed
<1>12. Switched'
  <2>. SUFFICES ASSUME NEW y \in Contexts, \A d \in CPUs : run'[d] # y
                PROVE  LeftBySwitch(y, stk[y][Len(stk[y])])'
    BY Zenon DEF Switched
  <2>1. CASE y = t
    <3>1. saved'[t] = intena[c]
      BY <1>4, Zenon DEF IInv, Typed
    <3>2. stk[y][Len(stk[y])] = f
      BY <2>1, Zenon DEF Top
    <3>. QED BY <1>1, <1>2, <1>4, <1>5, <2>1, <3>1, <3>2 DEF LeftBySwitch, Flagged
  <2>2. CASE y # t
    <3>1. \A d \in CPUs : run[d] # y
      BY <1>8, <2>2, Zenon
    <3>2. LeftBySwitch(y, stk[y][Len(stk[y])])
      BY <3>1, Zenon DEF IInv, Switched
    <3>3. y \in Threads => saved'[y] = saved[y]
      BY <1>4, <2>2, Zenon DEF IInv, Typed
    <3>. QED BY <1>4, <3>2, <3>3, ZenonT(40) DEF LeftBySwitch
  <2>. QED BY <2>1, <2>2, Zenon
<1>13. Counted' /\ Flags'
  <2>1. ncli'[c] = Cardinality(g.mine) + Pushed(g)
    BY <1>1, <1>4, <1>7, ZenonT(40) DEF IInv, Counted, Pushed
  <2>2. Flagged(g, run'[c] \in Threads, ncli'[c] # 0, fl_if'[c], intena'[c])
    BY <1>3, <1>4, <1>5, <1>7, <1>8, Zenon DEF Flagged
  <2>. QED BY <1>4, <1>8, <1>9, <2>1, <2>2, ChangeFlags, ZenonT(40) DEF IInv
<1>14. Owners'
  BY <1>1, <1>4, <1>7, <1>9, KeepOwners, Zenon DEF IInv, KeepsHold, Has, Passing
<1>. QED BY <1>4, <1>10, <1>11, <1>12, <1>13, <1>14, ZenonT(40) DEF IInv

\* scheduler: swtch to a thread, which goes on with ptable.lock and with the
\* intena it saved.
LEMMA SwtchInv ==
    ASSUME IInv, NEW c \in CPUs, NEW t \in Threads, swtch(c, t)
    PROVE  IInv'
<1>. DEFINE f == Top(c)
            g == stk[t][Len(stk[t])]
<1>1. /\ f \in FrameType /\ f.pc = "run" /\ f.kind = "code" /\ f.mine = {PTable} /\ run[c] = c
      /\ Len(stk[c]) = 1 /\ f = stk[c][Len(stk[c])]
  BY OnCPU DEF IInv, swtch, At
<1>2. ncli[c] = 1 /\ ~fl_if[c]
  BY <1>1, CountIs, Zenon DEF IInv, Flags, Flagged
<1>3. /\ run' = [run EXCEPT ![c] = t] /\ (\A d \in CPUs : run[d] # t)
      /\ intena' = [intena EXCEPT ![c] = IF g.kind = "fork" THEN @ ELSE saved[t]]
      /\ UNCHANGED <<fl_if, ncli, locked, lkcpu, stk, saved, panicked>>
  BY Zenon DEF swtch, intena_after, locks
<1>4. c \in Contexts /\ t \in Contexts /\ t # c /\ c \notin Threads /\ t \notin CPUs
  BY SpinlockAssumption, Zenon DEF Contexts
<1>5. LeftBySwitch(t, g)
  BY <1>3, <1>4, Zenon DEF IInv, Switched
<1>6. run'[c] = t /\ \A d \in CPUs \ {c} : run'[d] = run[d]
  BY <1>3, Zenon DEF IInv, Typed
<1>7. Top(c)' = g /\ \A d \in CPUs \ {c} : Top(d)' = Top(d)
  BY <1>3, <1>6, Zenon DEF Top
<1>8. Typed' /\ Frames'
  <2>1. saved[t] \in BOOLEAN /\ intena[c] \in BOOLEAN
    BY Zenon DEF IInv, Typed
  <2>2. intena' \in [CPUs -> BOOLEAN]
    BY <1>3, <2>1, Zenon DEF IInv, Typed
  <2>. QED BY <1>3, <1>4, <2>2, Zenon DEF IInv, Typed, Frames
<1>9. Placed'
  BY <1>3, <1>6 DEF IInv, Placed
<1>10. Switched'
  <2>. SUFFICES ASSUME NEW y \in Contexts, \A d \in CPUs : run'[d] # y
                PROVE  LeftBySwitch(y, stk[y][Len(stk[y])])'
    BY Zenon DEF Switched
  <2>1. CASE y = c
    BY <1>1, <1>3, <1>4, <2>1, Zenon DEF LeftBySwitch
  <2>2. CASE y # c
    <3>1. \A d \in CPUs : run[d] # y
      BY <1>1, <1>6, <2>2, Zenon
    <3>2. LeftBySwitch(y, stk[y][Len(stk[y])])
      BY <3>1, Zenon DEF IInv, Switched
    <3>. QED BY <1>3, <3>2, Zenon DEF LeftBySwitch
  <2>. QED BY <2>1, <2>2, Zenon
<1>11. Counted' /\ Flags'
  <2>1. g.pc = "run" /\ g.mine = {PTable} /\ (g.kind = "intr" => ~saved[t]) /\ (g.kind = "code" => saved[t])
    BY <1>5, Zenon DEF LeftBySwitch
  <2>2. ncli'[c] = Cardinality(g.mine) + Pushed(g)
    BY <1>1, <1>3, <2>1, ZenonT(40) DEF IInv, Counted, Pushed
  <2>3. g.kind # "fork" => intena'[c] = saved[t]
    BY <1>3, Zenon DEF IInv, Typed
  <2>4. Flagged(g, run'[c] \in Threads, ncli'[c] # 0, fl_if'[c], intena'[c])
    BY <1>2, <1>3, <2>1, <2>3, Zenon DEF Flagged
  <2>. QED BY <1>3, <1>6, <1>7, <2>2, <2>4, ChangeFlags, ZenonT(40) DEF IInv, Typed
<1>12. Owners'
  BY <1>1, <1>3, <1>5, <1>7, KeepOwners, Zenon DEF IInv, KeepsHold, Has, Passing, LeftBySwitch
<1>. QED BY <1>3, <1>8, <1>9, <1>10, <1>11, <1>12, ZenonT(40) DEF IInv
-----------------------------------------------------------------------------
(* The theorems *)

\* At boot every CPU runs its scheduler and every thread is new.
LEMMA InitInv == Init => IInv
<1>. SUFFICES ASSUME Init PROVE IInv
  BY Zenon
<1>. DEFINE k == Frame("code", {})
            n == Frame("fork", {PTable})
<1>1. PTable \in Locks
  BY SpinlockAssumption DEF Locks
<1>2. /\ k \in FrameType /\ k.kind = "code" /\ k.pc = "run" /\ k.mine = {}
      /\ n \in FrameType /\ n.kind = "fork" /\ n.pc = "run" /\ n.mine = {PTable}
  BY <1>1, Zenon DEF FrameType, Frame
<1>3. stk = [x \in Contexts |-> IF x \in CPUs THEN <<k>> ELSE <<n>>]
  BY Zenon DEF Init
<1>. HIDE DEF k, n
<1>. DEFINE K == <<k>>
            N == <<n>>
<1>k. K \in Seq(FrameType) /\ Len(K) = 1 /\ K[1] = k
  BY <1>2
<1>n. N \in Seq(FrameType) /\ Len(N) = 1 /\ N[1] = n
  BY <1>2
<1>. HIDE DEF K, N
<1>s. stk = [x \in Contexts |-> IF x \in CPUs THEN K ELSE N]
  BY <1>3, Zenon DEF K, N
<1>4. Typed
  <2>1. stk \in [Contexts -> Seq(FrameType)]
    BY <1>k, <1>n, <1>s, ZenonT(40)
  <2>2. run \in [CPUs -> Contexts]
    BY Zenon DEF Init, Contexts
  <2>. QED BY <2>1, <2>2, Zenon DEF Init, Typed
<1>5. /\ \A x \in CPUs : stk[x] = K /\ Top(x) = k
      /\ \A x \in Contexts \ CPUs : stk[x] = N
  BY <1>s, <1>k, Zenon DEF Init, Top, Contexts
<1>6. Frames
  <2>1. Stacked(K, TRUE) /\ Stacked(N, FALSE)
    BY <1>2, <1>k, <1>n DEF Stacked, Ordered
  <2>2. ASSUME NEW x \in Contexts PROVE Stacked(stk[x], x \in CPUs)
    BY <1>5, <2>1, Zenon DEF Stacked
  <2>. QED BY <2>2, Zenon DEF Frames
<1>7. Placed
  BY Zenon DEF Init, Placed
<1>8. Switched
  <2>. SUFFICES ASSUME NEW x \in Contexts, \A c \in CPUs : run[c] # x
                PROVE  LeftBySwitch(x, stk[x][Len(stk[x])])
    BY Zenon DEF Switched
  <2>1. x \notin CPUs
    BY Zenon DEF Init
  <2>2. stk[x][Len(stk[x])] = n
    BY <1>5, <1>n, <2>1, Zenon
  <2>. QED BY <1>2, <2>1, <2>2, Zenon DEF LeftBySwitch
<1>9. Counted
  <2>1. Cardinality(k.mine) = 0
    BY <1>2, FS_EmptySet, Zenon
  <2>2. \A c \in CPUs : ncli[c] = 0 /\ Top(c) = k
    BY <1>5, Zenon DEF Init
  <2>3. Cardinality(k.mine) + Pushed(k) = 0
    BY <1>2, <2>1 DEF Pushed
  <2>. QED BY <2>2, <2>3, Zenon DEF Counted
<1>10. Flags
  BY <1>2, <1>5, SpinlockAssumption, Zenon DEF Init, Flags, Flagged
<1>11. Owners
  BY <1>2, <1>5, SpinlockAssumption, Zenon DEF Init, Owners, Has
<1>. QED BY <1>4, <1>6, <1>7, <1>8, <1>9, <1>10, <1>11, ZenonT(40) DEF IInv, Init

\* Every step keeps the inductive invariant.
LEMMA NextInv == IInv /\ [Next]_vars => IInv'
<1>. SUFFICES ASSUME IInv, [Next]_vars PROVE IInv'
  BY Zenon
<1>1. ASSUME NEW c \in CPUs,
             pushcli(c) \/ acquire(c) \/ acquire_record(c) \/ switchuvm(c) \/ release_xchg(c) \/ popcli(c)
      PROVE  IInv'
  BY <1>1, PushcliInv, AcquireInv, AcquireRecordInv, SwitchuvmInv, ReleaseXchgInv, PopcliInv, ZenonT(40)
<1>2. ASSUME NEW c \in CPUs,
             Interrupt(c) \/ iret(c) \/ sched(c) \/ scheduler_sti(c) \/ forkret_iret(c)
      PROVE  IInv'
  BY <1>2, InterruptInv, IretInv, SchedInv, SchedulerStiInv, ForkretInv, ZenonT(40)
<1>3. ASSUME NEW c \in CPUs, NEW l \in Locks, pushcli_read(c, l) \/ release(c, l)
      PROVE  IInv'
  BY <1>3, PushcliReadInv, ReleaseInv, Zenon
<1>4. ASSUME NEW c \in CPUs, NEW t \in Threads, swtch(c, t)
      PROVE  IInv'
  BY <1>4, SwtchInv, ZenonT(40)
<1>5. CASE UNCHANGED vars
  BY <1>5 DEF vars, IInv, Typed, Frames, Placed, Switched, LeftBySwitch, Counted, Flags, Owners, Top
<1>. QED BY <1>1, <1>2, <1>3, <1>4, <1>5, Zenon DEF Next

\* The inductive invariant of spinlock.c with interrupts and context switches.
THEOREM Inductive == Spec => []IInv
BY InitInv, NextInv, PTL DEF Spec

\* Of the frames of a CPU's context only the one on top holds locks.
LEMMA TopHolds ==
    ASSUME IInv, NEW c \in CPUs
    PROVE  /\ HeldOn(c) = Top(c).mine
           /\ \A i \in 1 .. Len(stk[run[c]]) - 1 : stk[run[c]][i].mine = {}
<1>. DEFINE s == stk[run[c]]
<1>1. Len(s) \in 1 .. 2 /\ Top(c) = s[Len(s)] /\ run[c] \in Contexts
  BY OnCPU, Zenon DEF IInv
<1>2. Len(s) = 2 => s[1].mine = {}
  BY <1>1, Zenon DEF IInv, Frames, Stacked, Interruptible
<1>3. HeldOn(c) = UNION {s[i].mine : i \in 1 .. Len(s)}
  BY Zenon DEF HeldOn
<1>. HIDE DEF s
<1>4. CASE Len(s) = 1
  BY <1>1, <1>3, <1>4 DEF s
<1>5. CASE Len(s) = 2
  BY <1>1, <1>2, <1>3, <1>5 DEF s
<1>. QED BY <1>1, <1>4, <1>5

\* acquire and release keep one holder per lock and no interrupt beside a
\* lock, and the panics of acquire, release, popcli and sched are never
\* reached, for any number of CPUs, threads and locks.
THEOREM Discipline == Spec => []LockDiscipline
<1>1. IInv => LockDiscipline
  <2>. SUFFICES ASSUME IInv PROVE LockDiscipline
    BY Zenon
  <2>1. TypeOK
    <3>1. \A c \in CPUs : ncli[c] \in 0 .. NLocks
      BY OnCPU, CountBound, Zenon DEF IInv, Counted
    <3>2. ncli \in [CPUs -> 0 .. NLocks]
      BY <3>1, Zenon DEF IInv, Typed
    <3>3. \A x \in Contexts : Len(stk[x]) \in 1 .. 2
      BY Zenon DEF IInv, Frames, Stacked
    <3>. QED BY <3>2, <3>3, Zenon DEF IInv, Typed, TypeOK
  <2>2. MutualExclusion
    <3>. SUFFICES ASSUME NEW c \in CPUs, NEW d \in CPUs, c # d
                  PROVE  HeldOn(c) \cap HeldOn(d) = {} /\ run[c] # run[d]
      BY Zenon DEF MutualExclusion
    <3>1. Top(c).mine \in SUBSET Locks
      BY OnCPU, Zenon DEF IInv, FrameType
    <3>2. \A l \in Locks : ~(l \in Top(c).mine /\ l \in Top(d).mine)
      BY Zenon DEF IInv, Owners, Has
    <3>3. run[c] # run[d]
      BY Zenon DEF IInv, Placed
    <3>. QED BY <3>1, <3>2, <3>3, TopHolds, Zenon
  <2>3. NoInterruptsUnderLock
    BY TopHolds, ZenonT(40) DEF IInv, Flags, Flagged, NoInterruptsUnderLock
  <2>. QED BY <2>1, <2>2, <2>3, Zenon DEF IInv, LockDiscipline, NoPanic
<1>. QED BY <1>1, Inductive, PTL

\* popcli leaves the interrupt flag as pushcli found it, across the switches
\* of sched and swtch between any CPUs.
THEOREM FlagRestored == Spec => []InterruptFlagRestored
<1>1. IInv => InterruptFlagRestored
  <2>. SUFFICES ASSUME IInv, NEW c \in CPUs, run[c] \in Threads, Top(c).pc = "run",
                       Top(c).mine = {}, Top(c).kind # "fork"
                PROVE  fl_if[c] = (Top(c).kind = "code")
    BY Zenon DEF InterruptFlagRestored
  <2>1. fl_if[c] \in BOOLEAN /\ Top(c).kind \in {"code", "fork", "intr"}
    BY OnCPU, Zenon DEF IInv, Typed, FrameType
  <2>2. fl_if[c] <=> Top(c).kind = "code"
    BY <2>1, Zenon DEF IInv, Flags, Flagged
  <2>. QED BY <2>1, <2>2, Zenon
<1>. QED BY <1>1, Inductive, PTL
=============================================================================
