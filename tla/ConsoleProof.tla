---------------------------- MODULE ConsoleProof ----------------------------
(***************************************************************************)
(* Proofs about Console, for any number of readers, any INPUT_BUF and any  *)
(* width W of the indices that it divides: InputIsSound, and that the      *)
(* console delivers lines (LineInput).                                     *)
(***************************************************************************)
EXTENDS Console, Integers, SequenceTheorems, WellFoundedInduction, TLAPS

\* The ring buffer of struct input.
Ring == INSTANCE RingBuffer WITH P <- INPUT_BUF

Typed ==
    /\ buf \in [0 .. INPUT_BUF - 1 -> Stored]
    /\ lock \in Readers \cup {NoProc}
    /\ killed \in [Readers -> BOOLEAN]
    /\ pc \in [Readers -> {"user", "acquire", "read", "sleep", "asleep"}]
    /\ n \in [Readers -> Nat] /\ target \in [Readers -> Nat]

\* input.lock is held by the reader in the critical section.
Locked == \A p \in Readers : pc[p] \in {"read", "sleep"} <=> lock = p

\* A reader that found nothing to read sleeps until something is committed.
Waiting == \A p \in Readers : pc[p] \in {"sleep", "asleep"} => r = w

\* r, w and e follow each other around the buffer, and a full one is
\* committed.
Following(a, b, c) ==
    /\ a \in 0 .. W - 1 /\ b \in 0 .. W - 1 /\ c \in 0 .. W - 1
    /\ Ring!Dist(a, b) + Ring!Dist(b, c) = Ring!Dist(a, c)
    /\ Ring!Dist(a, c) <= INPUT_BUF
    /\ Ring!Dist(a, c) = INPUT_BUF => b = c

\* n counts down from target.
Counted == \A p \in Readers : n[p] <= target[p]

\* The inductive invariant.
IInv == Typed /\ Locked /\ Waiting /\ Following(r, w, e) /\ Counted
-----------------------------------------------------------------------------
(* The indices *)

\* The buffer has the shape that RingBuffer asks for.
LEMMA InputShape ==
    INPUT_BUF \in Nat \ {0} /\ W \in Nat /\ W > INPUT_BUF /\ W % INPUT_BUF = 0
BY ConsoleAssumption, Zenon

\* That is, its assumptions hold.
LEMMA RingShape == Ring!Shape /\ Ring!Divides
BY InputShape, Zenon DEF Ring!Shape, Ring!Divides

\* The operators of the model are those of RingBuffer.
LEMMA RingOps ==
    \A j, k : minus(k, j) = Ring!Dist(j, k) /\ plus(k, 1) = Ring!Succ(k)
BY Zenon DEF minus, plus, Ring!Dist, Ring!Succ

\* Distances are in range, and zero between equal indices.
LEMMA DistIs ==
    ASSUME NEW a \in 0 .. W - 1, NEW b \in 0 .. W - 1
    PROVE  /\ Ring!Dist(a, b) \in 0 .. W - 1
           /\ b = plus(a, INPUT_BUF) <=> Ring!Dist(a, b) = INPUT_BUF
           /\ a = b <=> Ring!Dist(a, b) = 0
<1>1. Ring!Dist(a, b) \in 0 .. W - 1
  BY InputShape, Ring!DistIs, Zenon DEF Ring!Shape
<1>2. (b = (a + INPUT_BUF) % W <=> Ring!Dist(a, b) = INPUT_BUF) /\ (a = b <=> Ring!Dist(a, b) = 0)
  BY InputShape, Ring!FullIs DEF Ring!Shape
<1>. QED BY <1>1, <1>2, Zenon DEF plus

\* One more character between two indices, or one less.
LEMMA DistSteps ==
    ASSUME NEW a \in 0 .. W - 1, NEW b \in 0 .. W - 1
    PROVE  /\ plus(b, 1) \in 0 .. W - 1
           /\ Ring!Dist(a, b) < W - 1 => Ring!Dist(a, plus(b, 1)) = Ring!Dist(a, b) + 1
           /\ Ring!Dist(a, b) > 0 => Ring!Dist(plus(a, 1), b) = Ring!Dist(a, b) - 1
<1>1. Ring!Succ(b) \in 0 .. W - 1
  BY InputShape, Ring!SuccType, Zenon DEF Ring!Shape
<1>2. /\ Ring!Dist(a, b) < W - 1 => Ring!Dist(a, Ring!Succ(b)) = Ring!Dist(a, b) + 1
      /\ Ring!Dist(a, b) > 0 => Ring!Dist(Ring!Succ(a), b) = Ring!Dist(a, b) - 1
  BY InputShape, Ring!DistSteps, ZenonT(40) DEF Ring!Shape
<1>3. plus(a, 1) = Ring!Succ(a) /\ plus(b, 1) = Ring!Succ(b)
  BY RingOps, Zenon
<1>. QED BY <1>1, <1>2, <1>3, Zenon

\* consoleintr stores a character: the line grows, or is committed, and it
\* is when it fills the buffer.
LEMMA Typing ==
    ASSUME NEW a, NEW b, NEW c, Following(a, b, c), Ring!Dist(a, c) < INPUT_BUF
    PROVE  /\ plus(c, 1) # plus(a, INPUT_BUF) => Following(a, b, plus(c, 1))
           /\ Following(a, plus(c, 1), plus(c, 1))
<1>. DEFINE d == plus(c, 1)
<1>0. a \in 0 .. W - 1 /\ b \in 0 .. W - 1 /\ c \in 0 .. W - 1
  BY Zenon DEF Following
<1>1. /\ Ring!Dist(a, b) \in 0 .. W - 1 /\ Ring!Dist(b, c) \in 0 .. W - 1
      /\ Ring!Dist(a, c) \in 0 .. W - 1
  BY <1>0, DistIs, Zenon
<1>2. d \in 0 .. W - 1
  BY <1>0, DistSteps, Zenon
<1>3. Ring!Dist(a, d) = Ring!Dist(a, c) + 1
  BY <1>0, <1>1, DistSteps, InputShape
<1>4. Ring!Dist(b, d) = Ring!Dist(b, c) + 1
  <2>1. Ring!Dist(b, c) < W - 1
    BY <1>1, InputShape DEF Following
  <2>. QED BY <1>0, <2>1, DistSteps, Zenon
<1>. HIDE DEF d
<1>5. Ring!Dist(d, d) = 0 /\ (d = plus(a, INPUT_BUF) <=> Ring!Dist(a, d) = INPUT_BUF)
  BY <1>0, <1>2, DistIs, Zenon
<1>6. d # plus(a, INPUT_BUF) => Following(a, b, d)
  BY <1>1, <1>2, <1>3, <1>4, <1>5, InputShape DEF Following
<1>7. Following(a, d, d)
  BY <1>0, <1>1, <1>2, <1>3, <1>5, InputShape DEF Following
<1>. QED BY <1>6, <1>7, Zenon DEF d

\* consoleintr takes characters of the line back.
LEMMA Erasing ==
    ASSUME NEW a, NEW b, NEW c, Following(a, b, c), NEW k \in 0 .. minus(c, b)
    PROVE  Following(a, b, minus(c, k))
<1>. DEFINE f == minus(c, k)
<1>0. a \in 0 .. W - 1 /\ b \in 0 .. W - 1 /\ c \in 0 .. W - 1
  BY Zenon DEF Following
<1>1. /\ Ring!Dist(a, b) \in 0 .. W - 1 /\ Ring!Dist(b, c) \in 0 .. W - 1
      /\ Ring!Dist(a, c) \in 0 .. W - 1
  BY <1>0, DistIs, Zenon
<1>2. k \in 0 .. Ring!Dist(b, c) /\ k \in 0 .. Ring!Dist(a, c)
  <2>1. k \in 0 .. Ring!Dist(b, c)
    BY RingOps, Zenon
  <2>. QED BY <1>1, <2>1 DEF Following
<1>3. f = (c + W - k) % W
  BY Zenon DEF minus
<1>. HIDE DEF f
<1>4. f \in 0 .. W - 1 /\ Ring!Dist(b, f) = Ring!Dist(b, c) - k
  BY <1>0, <1>2, <1>3, InputShape, Ring!DistCut DEF Ring!Shape
<1>5. Ring!Dist(a, f) = Ring!Dist(a, c) - k
  BY <1>0, <1>2, <1>3, InputShape, Ring!DistCut DEF Ring!Shape
<1>6. k = 0 => f = c
  <2>1. c = b <=> Ring!Dist(b, c) = 0
    BY <1>0, DistIs, ZenonT(40)
  <2>. SUFFICES ASSUME k = 0 PROVE f = c
    BY Zenon
  <2>2. f = (c + W) % W
    BY <1>0, <1>3, InputShape
  <2>3. (c + W) % W = c
    BY <1>0, InputShape
  <2>. QED BY <2>2, <2>3, Zenon
<1>7. Following(a, b, f)
  BY <1>0, <1>1, <1>2, <1>4, <1>5, <1>6, InputShape DEF Following
<1>. QED BY <1>7, Zenon DEF f

\* consoleread takes a character that is committed.
LEMMA Taking ==
    ASSUME NEW a, NEW b, NEW c, Following(a, b, c), a # b
    PROVE  Following(plus(a, 1), b, c)
<1>0. a \in 0 .. W - 1 /\ b \in 0 .. W - 1 /\ c \in 0 .. W - 1
  BY Zenon DEF Following
<1>1. /\ Ring!Dist(a, b) \in 0 .. W - 1 /\ Ring!Dist(b, c) \in 0 .. W - 1
      /\ Ring!Dist(a, c) \in 0 .. W - 1 /\ Ring!Dist(a, b) # 0
  BY <1>0, DistIs, Zenon
<1>2. plus(a, 1) \in 0 .. W - 1
  BY <1>0, DistSteps, Zenon
<1>3. Ring!Dist(plus(a, 1), b) = Ring!Dist(a, b) - 1
  BY <1>0, <1>1, DistSteps
<1>4. Ring!Dist(a, c) > 0
  BY <1>1 DEF Following
<1>5. Ring!Dist(plus(a, 1), c) = Ring!Dist(a, c) - 1
  BY <1>0, <1>4, DistSteps, Zenon
<1>. DEFINE d == plus(a, 1)
<1>. HIDE DEF d
<1>6. Following(d, b, c)
  BY <1>0, <1>1, <1>2, <1>3, <1>5, InputShape DEF Following, d
<1>. QED BY <1>6, ZenonT(40) DEF d
-----------------------------------------------------------------------------
(* ^U *)

\* A bounded set of numbers has a largest one.
LEMMA MaxIsIn ==
    ASSUME NEW m \in Nat, NEW S \in SUBSET (0 .. m), S # {}
    PROVE  Max(S) \in S
<1>. DEFINE T == {t \in 0 .. m : m - t \in S}
<1>1. T \in SUBSET Nat
  OBVIOUS
<1>2. T # {}
  <2>1. PICK k \in S : TRUE
    BY Zenon
  <2>2. m - k \in 0 .. m /\ m - (m - k) = k
    OBVIOUS
  <2>. QED BY <2>2, Zenon
<1>. HIDE DEF T
<1>3. PICK x \in T : \A y \in T : ~(<<y, x>> \in OpToRel(<, Nat))
  BY <1>1, <1>2, NatLessThanWellFounded, WFMin, ZenonT(40)
<1>4. \A y \in T : ~(y < x)
  BY <1>1, <1>3, Zenon DEF OpToRel
<1>5. x \in 0 .. m /\ m - x \in S
  BY Zenon DEF T
<1>6. \A j \in S : m - x >= j
  <2>. SUFFICES ASSUME NEW j \in S PROVE m - x >= j
    BY Zenon
  <2>1. m - j \in 0 .. m /\ m - (m - j) = j
    OBVIOUS
  <2>2. m - j \in T
    BY <2>1, Zenon DEF T
  <2>. QED BY <1>4, <1>5, <2>1, <2>2
<1>. QED BY <1>5, <1>6, Zenon DEF Max

\* ^U goes back no further than input.w.
LEMMA KilledLineIs ==
    ASSUME Following(r, w, e)
    PROVE  killed_line \in 0 .. minus(e, w)
<1>. DEFINE S == {k \in 0 .. minus(e, w) : \A j \in 1 .. k : char(minus(e, j)) # "NL"}
<1>1. minus(e, w) \in Nat
  BY DistIs, RingOps DEF Following
<1>2. 0 \in S
  BY <1>1
<1>3. S \in SUBSET (0 .. minus(e, w)) /\ S # {}
  BY <1>2, Zenon
<1>. HIDE DEF S
<1>4. Max(S) \in S
  BY <1>1, <1>3, MaxIsIn, Zenon
<1>. QED BY <1>3, <1>4, Zenon DEF killed_line, S
-----------------------------------------------------------------------------
(* IInv is inductive *)

\* The console starts empty.
LEMMA InitInv == Init => IInv
<1>. SUFFICES ASSUME Init PROVE IInv
  BY Zenon
<1>1. Following(r, w, e)
  <2>1. 0 \in 0 .. W - 1
    BY InputShape
  <2>2. Ring!Dist(0, 0) = 0
    BY <2>1, DistIs, Zenon
  <2>. QED BY <2>1, <2>2, InputShape DEF Init, Following
<1>2. Typed /\ Locked /\ Waiting /\ Counted
  BY ConsoleAssumption DEF Init, Typed, Locked, Waiting, Counted, Stored
<1>. QED BY <1>1, <1>2, Zenon DEF IInv

\* Backspace and ^U take back some of the characters after input.w.
LEMMA KeyErases ==
    ASSUME IInv, NEW key \in {"KILL", "BS"}, consoleintr(key)
    PROVE  \E k \in 0 .. minus(e, w) : e' = minus(e, k)
<1>1. CASE key = "KILL"
  BY <1>1, KilledLineIs, Zenon DEF consoleintr, IInv
<1>2. CASE key = "BS"
  <2>1. e' = IF can_erase THEN minus(e, 1) ELSE e
    BY <1>2, Zenon DEF consoleintr
  <2>2. e \in 0 .. W - 1 /\ w \in 0 .. W - 1
    BY Zenon DEF IInv, Following
  <2>3. minus(e, w) \in Nat /\ (w = e <=> minus(e, w) = 0)
    <3>1. Ring!Dist(w, e) \in Nat /\ (w = e <=> Ring!Dist(w, e) = 0)
      BY <2>2, DistIs
    <3>. QED BY <3>1, RingOps, Zenon
  <2>4. CASE can_erase
    BY <2>1, <2>3, <2>4 DEF can_erase
  <2>5. CASE ~can_erase
    <3>1. minus(e, 0) = e
      BY <2>2, InputShape DEF minus
    <3>2. 0 \in 0 .. minus(e, w)
      BY <2>3
    <3>. QED BY <2>1, <2>5, <3>1, <3>2, ZenonT(40)
  <2>. QED BY <2>4, <2>5, Zenon
<1>. QED BY <1>1, <1>2, Zenon

\* consoleintr: a character stored, with the readers woken when it commits,
\* or characters taken back.
LEMMA KeyInv == ASSUME IInv, NEW key \in Keys, consoleintr(key) PROVE IInv'
<1>0. lock = NoProc /\ UNCHANGED <<r, lock, killed, n, target>>
  BY Zenon DEF consoleintr
<1>1. \A p \in Readers : pc[p] \notin {"read", "sleep"}
  BY <1>0, ConsoleAssumption, Zenon DEF IInv, Locked
<1>2. CASE key \in {"KILL", "BS"}
  <2>1. UNCHANGED <<buf, w, pc>>
    BY <1>2, Zenon DEF consoleintr
  <2>2. \E k \in 0 .. minus(e, w) : e' = minus(e, k)
    BY <1>2, KeyErases, Zenon
  <2>3. Following(r, w, e')
    BY <2>2, Erasing, Zenon DEF IInv
  <2>. QED BY <1>0, <2>1, <2>3, Zenon DEF IInv, Typed, Locked, Waiting, Counted, Following
<1>3. CASE key \notin {"KILL", "BS"}
  <2>. DEFINE c == IF key = "CR" THEN "NL" ELSE key
  <2>1. /\ minus(e, r) < INPUT_BUF
        /\ buf' = [buf EXCEPT ![e % INPUT_BUF] = c]
        /\ e' = plus(e, 1)
        /\ w' = IF commits(c, e') THEN e' ELSE w
        /\ pc' = IF commits(c, e') THEN wakeup_readers ELSE pc
    BY <1>3, Zenon DEF consoleintr
  <2>2. c \in Stored
    BY <1>3, Zenon DEF Keys, Stored
  <2>. HIDE DEF c
  <2>3. Following(r, w', e')
    <3>1. Ring!Dist(r, e) < INPUT_BUF
      BY <2>1, RingOps, Zenon
    <3>2. /\ plus(e, 1) # plus(r, INPUT_BUF) => Following(r, w, plus(e, 1))
          /\ Following(r, plus(e, 1), plus(e, 1))
      BY <3>1, Typing, Zenon DEF IInv
    <3>. QED BY <2>1, <3>2, Zenon DEF commits
  <2>4. Typed'
    <3>1. buf' \in [0 .. INPUT_BUF - 1 -> Stored]
      BY <2>1, <2>2, Zenon DEF IInv, Typed
    <3>. QED BY <1>0, <2>1, <3>1, Zenon DEF IInv, Typed, wakeup_readers
  <2>5. Locked' /\ Waiting'
    <3>1. CASE commits(c, e')
      BY <1>0, <1>1, <2>1, <3>1, ConsoleAssumption, ZenonT(40) DEF Locked, Waiting, wakeup_readers
    <3>2. CASE ~commits(c, e')
      BY <1>0, <2>1, <3>2, ZenonT(40) DEF IInv, Locked, Waiting
    <3>. QED BY <3>1, <3>2, Zenon
  <2>6. Counted'
    BY <1>0, Zenon DEF IInv, Counted
  <2>. QED BY <1>0, <2>3, <2>4, <2>5, <2>6, ZenonT(40) DEF IInv
<1>. QED BY <1>2, <1>3, Zenon

\* Steps that leave the buffer and its indices alone.
LEMMA QuietInv ==
    ASSUME IInv, NEW p \in Readers,
           (\E k \in 0 .. MaxN : Call(p, k)) \/ acquire(p) \/ consoleread_done(p)
           \/ consoleread_wait(p) \/ sleep(p) \/ kill(p) \/ exit(p)
    PROVE  IInv'
<1>0. UNCHANGED input
  BY Zenon DEF Call, acquire, consoleread_done, consoleread_wait, sleep, kill, exit
<1>1. Following(r, w, e)'
  BY <1>0, Zenon DEF IInv, Following, input
<1>2. CASE \E k \in 0 .. MaxN : Call(p, k)
  BY <1>1, <1>2, ConsoleAssumption DEF Call, IInv, Typed, Locked, Waiting, Counted, input
<1>3. CASE acquire(p)
  BY <1>1, <1>3, ConsoleAssumption, ZenonT(40) DEF acquire, IInv, Typed, Locked, Waiting, Counted, input
<1>4. CASE consoleread_done(p)
  BY <1>1, <1>4, ConsoleAssumption DEF consoleread_done, return, IInv, Typed, Locked, Waiting, Counted, input
<1>5. CASE consoleread_wait(p)
  <2>1. CASE killed[p]
    <3>1. return(p) /\ pc[p] = "read" /\ UNCHANGED <<r, w, buf, killed>>
      BY <1>5, <2>1, ZenonT(40) DEF consoleread_wait, input
    <3>2. Typed' /\ Counted'
      BY <3>1 DEF return, IInv, Typed, Counted
    <3>3. Locked' /\ Waiting'
      BY <3>1, ConsoleAssumption, ZenonT(40) DEF return, IInv, Typed, Locked, Waiting
    <3>. QED BY <1>1, <3>2, <3>3, Zenon DEF IInv
  <2>2. CASE ~killed[p]
    <3>1. /\ pc[p] = "read" /\ r = w /\ pc' = [pc EXCEPT ![p] = "sleep"]
          /\ UNCHANGED <<r, w, buf, lock, killed, n, target>>
      BY <1>5, <2>2, Zenon DEF consoleread_wait, input
    <3>2. Typed' /\ Counted'
      BY <3>1, Zenon DEF IInv, Typed, Counted
    <3>3. Locked'
      BY <3>1 DEF IInv, Typed, Locked
    <3>4. Waiting'
      BY <3>1, ZenonT(40) DEF IInv, Typed, Waiting
    <3>. QED BY <1>1, <3>2, <3>3, <3>4, Zenon DEF IInv
  <2>. QED BY <2>1, <2>2, Zenon
<1>6. CASE sleep(p)
  BY <1>1, <1>6, ConsoleAssumption, Zenon DEF sleep, IInv, Typed, Locked, Waiting, Counted, input
<1>7. CASE kill(p)
  BY <1>1, <1>7, ConsoleAssumption, ZenonT(40) DEF kill, IInv, Typed, Locked, Waiting, Counted, input
<1>8. CASE exit(p)
  BY <1>1, <1>8, ConsoleAssumption, ZenonT(40) DEF exit, IInv, Typed, Locked, Waiting, Counted, input
<1>. QED BY <1>2, <1>3, <1>4, <1>5, <1>6, <1>7, <1>8, ZenonT(40)

\* consoleread takes a character, or puts a ^D back.
LEMMA CharInv == ASSUME IInv, NEW p \in Readers, consoleread_char(p) PROVE IInv'
<1>1. /\ r' \in {r, plus(r, 1)} /\ r # w /\ UNCHANGED <<buf, w, e, killed>>
      /\ pc[p] = "read" /\ n[p] > 0
  BY Zenon DEF consoleread_char, r_after_EOF
<1>2. Following(r, w, e)'
  <2>1. Following(r, w, e) /\ Following(plus(r, 1), w, e)
    BY <1>1, Taking, Zenon DEF IInv
  <2>. QED BY <1>1, <2>1, Zenon
<1>3. \A q \in Readers : pc[q] \notin {"sleep", "asleep"}
  BY <1>1, Zenon DEF IInv, Waiting
<1>4. CASE char(r) \in {"NL", "EOF"}
  <2>1. return(p)
    BY <1>4, Zenon DEF consoleread_char
  <2>. QED BY <1>1, <1>2, <1>3, <2>1, ConsoleAssumption DEF return, IInv, Typed, Locked, Waiting, Counted
<1>5. CASE char(r) \notin {"NL", "EOF"}
  <2>1. n' = [n EXCEPT ![p] = @ - 1] /\ UNCHANGED <<lock, pc, target>>
    BY <1>5, Zenon DEF consoleread_char
  <2>. QED BY <1>1, <1>2, <1>3, <2>1 DEF IInv, Typed, Locked, Waiting, Counted
<1>. QED BY <1>4, <1>5, ZenonT(40)

\* Every step preserves IInv.
LEMMA NextInv == IInv /\ [Next]_vars => IInv'
<1>. SUFFICES ASSUME IInv, [Next]_vars PROVE IInv'
  BY Zenon
<1>1. CASE UNCHANGED vars
  BY <1>1, Zenon DEF vars, input, IInv, Typed, Locked, Waiting, Following, Counted
<1>2. CASE Next
  BY <1>2, KeyInv, QuietInv, CharInv, ZenonT(40) DEF Next, Step
<1>. QED BY <1>1, <1>2, Zenon

\* r, w and e stay in order, the lock protects the readers, and whoever
\* sleeps has nothing to read, in every reachable state.
THEOREM Inductive == Spec => []IInv
BY InitInv, NextInv, PTL DEF Spec

\* The input buffer never fills up for good and no reader sleeps beside input
\* it could have, whatever is typed and however the indices wrap.
THEOREM InputSound == Spec => []InputIsSound
<1>1. IInv => InputIsSound
  <2>. SUFFICES ASSUME IInv PROVE InputIsSound
    BY Zenon
  <2>1. minus(e, r) = Ring!Dist(r, e)
    BY RingOps, Zenon
  <2>. QED BY <2>1, Zenon DEF IInv, Following, Waiting, InputIsSound, FullIsCommitted, NoLostWakeup
<1>. QED BY <1>1, Inductive, PTL

\* A ^D is taken out of the buffer only by a read that returns nothing else.
THEOREM EOFSeen == Spec => EOFEndsEmptyRead
<1>1. IInv /\ [Next]_vars =>
        [\A p \in Readers : consoleread_char(p) /\ char(r) = "EOF" /\ r' # r => n[p] = target[p]]_vars
  <2>. SUFFICES ASSUME IInv, NEW p \in Readers, consoleread_char(p), char(r) = "EOF", r' # r
                PROVE  n[p] = target[p]
    BY Zenon
  <2>1. ~(n[p] < target[p])
    BY Zenon DEF consoleread_char, r_after_EOF
  <2>2. n[p] <= target[p] /\ n[p] \in Nat /\ target[p] \in Nat
    BY Zenon DEF IInv, Counted, Typed
  <2>. QED BY <2>1, <2>2
<1>. QED BY <1>1, Inductive, PTL DEF Spec, EOFEndsEmptyRead
-----------------------------------------------------------------------------
(* The ring buffer's facts, for the console *)

\* The part of a buffer between two indices is a span of it.
LEMMA SpanIs ==
    ASSUME NEW d, NEW a \in 0 .. W - 1, NEW b
    PROVE  [m \in 1 .. minus(b, a) |-> d[plus(a, m - 1) % INPUT_BUF]] = Ring!Span(d, a, b)
<1>1. minus(b, a) = Ring!Dist(a, b)
  BY RingOps, Zenon
<1>2. \A m \in 1 .. Ring!Dist(a, b) : a + (m - 1) = a + m - 1
  BY Zenon
<1>3. \A m \in 1 .. Ring!Dist(a, b) : d[plus(a, m - 1) % INPUT_BUF] = d[Ring!Slot((a + m - 1) % W)]
  BY <1>2, Zenon DEF plus, Ring!Slot
<1>. QED BY <1>1, <1>3, Zenon DEF Ring!Span

\* Spans are sequences of characters.
LEMMA SpanType ==
    ASSUME NEW d \in [0 .. INPUT_BUF - 1 -> Stored], NEW a \in 0 .. W - 1, NEW b \in 0 .. W - 1
    PROVE  Ring!Span(d, a, b) \in Seq(Stored) /\ Len(Ring!Span(d, a, b)) = Ring!Dist(a, b)
<1>1. \A j, k \in 0 .. W - 1 :
        Ring!Span(d, j, k) \in Seq(Stored) /\ Len(Ring!Span(d, j, k)) = Ring!Dist(j, k)
  BY RingShape, Ring!SpanIsSeq, Zenon
<1>. QED BY <1>1, Zenon

\* consoleintr's character goes to the end of what was typed.
LEMMA PutAppends ==
    ASSUME NEW d \in [0 .. INPUT_BUF - 1 -> Stored], NEW v \in Stored,
           NEW a \in 0 .. W - 1, NEW b \in 0 .. W - 1, Ring!Dist(a, b) < INPUT_BUF
    PROVE  Ring!Span([d EXCEPT ![b % INPUT_BUF] = v], a, plus(b, 1)) = Append(Ring!Span(d, a, b), v)
<1>1. Ring!Span([d EXCEPT ![Ring!Slot(b)] = v], a, Ring!Succ(b)) = Append(Ring!Span(d, a, b), v)
  BY RingShape, Ring!PutAppends, Zenon
<1>. QED BY <1>1, RingOps, Zenon DEF Ring!Slot

\* It leaves what is committed alone.
LEMMA PutKeeps ==
    ASSUME NEW d \in [0 .. INPUT_BUF - 1 -> Stored], NEW v \in Stored,
           NEW a \in 0 .. W - 1, NEW c \in 0 .. W - 1, Ring!Dist(a, c) < INPUT_BUF
    PROVE  \A b \in 0 .. W - 1 :
              Ring!Dist(a, b) \in 0 .. Ring!Dist(a, c)
                 => Ring!Span([d EXCEPT ![c % INPUT_BUF] = v], a, b) = Ring!Span(d, a, b)
<1>. DEFINE f == [d EXCEPT ![c % INPUT_BUF] = v]
<1>. SUFFICES ASSUME NEW b \in 0 .. W - 1, Ring!Dist(a, b) \in 0 .. Ring!Dist(a, c)
              PROVE  Ring!Span(f, a, b) = Ring!Span(d, a, b)
  BY Zenon
<1>1. Ring!Dist(a, b) \in Nat /\ Ring!Dist(a, c) \in Nat /\ W \in Nat \ {0}
  BY DistIs, InputShape
<1>2. \A m \in 1 .. Ring!Dist(a, c) : Ring!Slot((a + m - 1) % W) # Ring!Slot(c)
  BY RingShape, Ring!SlotIsFree, Zenon
<1>3. \A m \in 1 .. Ring!Dist(a, b) : f[Ring!Slot((a + m - 1) % W)] = d[Ring!Slot((a + m - 1) % W)]
  <2>. SUFFICES ASSUME NEW m \in 1 .. Ring!Dist(a, b)
                PROVE  f[Ring!Slot((a + m - 1) % W)] = d[Ring!Slot((a + m - 1) % W)]
    BY Zenon
  <2>1. m \in 1 .. Ring!Dist(a, c) /\ (a + m - 1) % W \in Nat
    BY <1>1
  <2>2. Ring!Slot((a + m - 1) % W) \in 0 .. INPUT_BUF - 1
    BY <2>1, InputShape DEF Ring!Slot
  <2>3. Ring!Slot((a + m - 1) % W) # c % INPUT_BUF
    BY <1>2, <2>1, Zenon DEF Ring!Slot
  <2>. QED BY <2>2, <2>3, Zenon
<1>. HIDE DEF f
<1>4. Ring!Span(f, a, b) = Ring!Span(d, a, b)
  BY <1>3, Zenon DEF Ring!Span
<1>. QED BY <1>4, Zenon DEF f

\* What is committed and the line make up all that was typed.
LEMMA SpanSplits ==
    ASSUME NEW d \in [0 .. INPUT_BUF - 1 -> Stored],
           NEW a \in 0 .. W - 1, NEW b \in 0 .. W - 1, NEW c \in 0 .. W - 1,
           Ring!Dist(a, b) + Ring!Dist(b, c) = Ring!Dist(a, c)
    PROVE  Ring!Span(d, a, c) = Ring!Span(d, a, b) \o Ring!Span(d, b, c)
BY RingShape, Ring!SpanSplits, ZenonT(40)

\* Backspace and ^U take the end of the line away.
LEMMA SpanCut ==
    ASSUME NEW d \in [0 .. INPUT_BUF - 1 -> Stored],
           NEW b \in 0 .. W - 1, NEW c \in 0 .. W - 1, NEW k \in 0 .. Ring!Dist(b, c)
    PROVE  Ring!Span(d, b, minus(c, k)) = SubSeq(Ring!Span(d, b, c), 1, Ring!Dist(b, c) - k)
<1>1. \A x \in 0 .. Ring!Dist(b, c) :
        Ring!Span(d, b, (c + W - x) % W) = SubSeq(Ring!Span(d, b, c), 1, Ring!Dist(b, c) - x)
  BY RingShape, Ring!SpanCut, ZenonT(40)
<1>. QED BY <1>1, Zenon DEF minus

\* consoleread's character comes from the front of what is committed.
LEMMA GetTakes ==
    ASSUME NEW d \in [0 .. INPUT_BUF - 1 -> Stored], NEW a \in 0 .. W - 1, NEW b \in 0 .. W - 1, a # b
    PROVE  /\ Ring!Span(d, a, b) # <<>>
           /\ Ring!Span(d, plus(a, 1), b) = Tail(Ring!Span(d, a, b))
<1>1. Ring!Span(d, a, b) # <<>> /\ Ring!Span(d, Ring!Succ(a), b) = Tail(Ring!Span(d, a, b))
  BY RingShape, Ring!GetTakes, ZenonT(40)
<1>. QED BY <1>1, RingOps, ZenonT(40)

\* Nothing lies between an index and itself.
LEMMA EmptySpan ==
    ASSUME NEW d, NEW a \in 0 .. W - 1
    PROVE  Ring!Span(d, a, a) = <<>>
<1>1. Ring!Dist(a, a) = 0
  BY DistIs, Zenon
<1>. QED BY <1>1 DEF Ring!Span

\* A character appended to a line is appended to all that was typed.
LEMMA AppendConcat ==
    ASSUME NEW S \in Seq(Stored), NEW T \in Seq(Stored), NEW v \in Stored
    PROVE  Append(S \o T, v) = S \o Append(T, v)
<1>1. Append(S \o T, v) = (S \o T) \o <<v>> /\ Append(T, v) = T \o <<v>>
  BY AppendIsConcat, ConcatProperties, Zenon
<1>2. <<v>> \in Seq(Stored)
  OBVIOUS
<1>3. (S \o T) \o <<v>> = S \o (T \o <<v>>)
  BY <1>2, ConcatAssociative
<1>. QED BY <1>1, <1>3, Zenon
-----------------------------------------------------------------------------
(* The simulation *)

\* line and ready are the spans from w to e and from r to w.
LEMMA SpansAre ==
    ASSUME IInv, IInv'
    PROVE  /\ Between(w, e) = Ring!Span(buf, w, e) /\ Between(r, w) = Ring!Span(buf, r, w)
           /\ Between(w, e)' = Ring!Span(buf', w', e') /\ Between(r, w)' = Ring!Span(buf', r', w')
<1>1. r \in 0 .. W - 1 /\ w \in 0 .. W - 1 /\ r' \in 0 .. W - 1 /\ w' \in 0 .. W - 1
  BY Zenon DEF IInv, Following
<1>. QED BY <1>1, SpanIs, Zenon DEF Between, char

\* Types of the buffer and of the indices.
LEMMA Shapes ==
    ASSUME IInv
    PROVE  /\ buf \in [0 .. INPUT_BUF - 1 -> Stored]
           /\ r \in 0 .. W - 1 /\ w \in 0 .. W - 1 /\ e \in 0 .. W - 1
           /\ Ring!Dist(r, w) + Ring!Dist(w, e) = Ring!Dist(r, e)
           /\ Ring!Dist(r, w) \in Nat /\ Ring!Dist(w, e) \in Nat /\ Ring!Dist(r, e) \in Nat
<1>1. /\ buf \in [0 .. INPUT_BUF - 1 -> Stored]
      /\ r \in 0 .. W - 1 /\ w \in 0 .. W - 1 /\ e \in 0 .. W - 1
      /\ Ring!Dist(r, w) + Ring!Dist(w, e) = Ring!Dist(r, e)
  BY Zenon DEF IInv, Typed, Following
<1>2. Ring!Dist(r, w) \in 0 .. W - 1 /\ Ring!Dist(w, e) \in 0 .. W - 1 /\ Ring!Dist(r, e) \in 0 .. W - 1
  BY <1>1, DistIs, Zenon
<1>. QED BY <1>1, <1>2

\* Backspace and ^U are LErase.
LEMMA EraseMaps ==
    ASSUME IInv, IInv', NEW k \in 0 .. minus(e, w), e' = minus(e, k), UNCHANGED <<buf, r, w>>
    PROVE  Lines!LErase
<1>1. k \in 0 .. Ring!Dist(w, e)
  BY RingOps, Zenon
<1>2. Ring!Span(buf, w, e') = SubSeq(Ring!Span(buf, w, e), 1, Ring!Dist(w, e) - k)
  BY <1>1, Shapes, SpanCut, ZenonT(40)
<1>3. /\ Between(w, e)' = SubSeq(Between(w, e), 1, Ring!Dist(w, e) - k)
      /\ Between(r, w)' = Between(r, w)
  BY <1>2, SpansAre, ZenonT(40)
<1>4. Ring!Dist(w, e) - k \in 0 .. Len(Between(w, e))
  <2>1. Len(Ring!Span(buf, w, e)) = Ring!Dist(w, e)
    BY Shapes, SpanType, ZenonT(40)
  <2>2. Len(Between(w, e)) = Ring!Dist(w, e)
    BY <2>1, SpansAre, ZenonT(40)
  <2>. QED BY <1>1, <2>2, Shapes
<1>. QED BY <1>3, <1>4, ZenonT(40) DEF Lines!LErase

\* A character that is stored is LType.
LEMMA TypeMaps ==
    ASSUME IInv, IInv', NEW c \in Stored, minus(e, r) < INPUT_BUF, e' = plus(e, 1), r' = r,
           buf' = [buf EXCEPT ![e % INPUT_BUF] = c], w' = w \/ w' = e'
    PROVE  Lines!LType(c)
<1>. DEFINE line == Ring!Span(buf, w, e)
            ready == Ring!Span(buf, r, w)
<1>0. /\ buf \in [0 .. INPUT_BUF - 1 -> Stored]
      /\ r \in 0 .. W - 1 /\ w \in 0 .. W - 1 /\ e \in 0 .. W - 1
  BY Shapes, Zenon
<1>1. Ring!Dist(r, e) < INPUT_BUF
  BY RingOps, Zenon
<1>2. Ring!Dist(w, e) < INPUT_BUF /\ Ring!Dist(r, w) \in 0 .. Ring!Dist(r, e)
  BY <1>1, Shapes, InputShape
<1>3. line \in Seq(Stored) /\ ready \in Seq(Stored) /\ Len(ready) + Len(line) < INPUT_BUF
  <2>1. /\ line \in Seq(Stored) /\ Len(line) = Ring!Dist(w, e)
        /\ ready \in Seq(Stored) /\ Len(ready) = Ring!Dist(r, w)
    BY Shapes, SpanType, ZenonT(40)
  <2>. HIDE DEF line, ready
  <2>. QED BY <1>1, <2>1, Shapes, ZenonT(40)
<1>4. Between(w, e) = line /\ Between(r, w) = ready
  BY SpansAre, Zenon
<1>5. CASE w' = w
  <2>1. Between(w, e)' = Append(line, c)
    <3>1. Ring!Span([buf EXCEPT ![e % INPUT_BUF] = c], w, plus(e, 1)) = Append(line, c)
      BY <1>0, <1>2, PutAppends, ZenonT(40)
    <3>. HIDE DEF line
    <3>. QED BY <1>5, <3>1, SpansAre, ZenonT(40)
  <2>2. Between(r, w)' = ready
    <3>0. \A b \in 0 .. W - 1 :
             Ring!Dist(r, b) \in 0 .. Ring!Dist(r, e)
                => Ring!Span([buf EXCEPT ![e % INPUT_BUF] = c], r, b) = Ring!Span(buf, r, b)
      BY <1>0, <1>1, PutKeeps, ZenonT(40)
    <3>1. Ring!Span([buf EXCEPT ![e % INPUT_BUF] = c], r, w) = ready
      BY <1>0, <1>2, <3>0, Zenon
    <3>. HIDE DEF ready
    <3>. QED BY <1>5, <3>1, SpansAre, ZenonT(40)
  <2>. HIDE DEF line, ready
  <2>. QED BY <1>3, <1>4, <2>1, <2>2, ZenonT(40) DEF Lines!LType
<1>6. CASE w' = e'
  <2>1. Between(r, w)' = Append(Ring!Span(buf, r, e), c)
    <3>1. Ring!Span([buf EXCEPT ![e % INPUT_BUF] = c], r, plus(e, 1)) = Append(Ring!Span(buf, r, e), c)
      BY <1>1, Shapes, PutAppends, ZenonT(40)
    <3>. QED BY <1>6, <3>1, SpansAre, ZenonT(40)
  <2>2. Ring!Span(buf, r, e) = ready \o line
    BY Shapes, SpanSplits, ZenonT(40)
  <2>3. Between(w, e)' = <<>>
    <3>1. e' \in 0 .. W - 1
      BY Zenon DEF IInv, Following
    <3>. QED BY <1>6, <3>1, SpansAre, EmptySpan, ZenonT(40)
  <2>. HIDE DEF line, ready
  <2>4. Between(r, w)' = ready \o Append(line, c)
    BY <1>3, <2>1, <2>2, AppendConcat, ZenonT(40)
  <2>. QED BY <1>3, <1>4, <2>3, <2>4, Zenon DEF Lines!LType
<1>. QED BY <1>5, <1>6, ZenonT(40)

\* Each key is a step of the line.
LEMMA KeyMaps ==
    ASSUME IInv, IInv', NEW key \in Keys, consoleintr(key)
    PROVE  Lines!LNext
<1>1. CASE key \in {"KILL", "BS"}
  <2>1. UNCHANGED <<buf, r, w>>
    BY <1>1, Zenon DEF consoleintr
  <2>2. PICK k \in 0 .. minus(e, w) : e' = minus(e, k)
    BY <1>1, KeyErases, ZenonT(40)
  <2>3. Lines!LErase
    BY <2>1, <2>2, EraseMaps, ZenonT(40)
  <2>. QED BY <2>3, ZenonT(40) DEF Lines!LNext
<1>2. CASE key \notin {"KILL", "BS"}
  <2>. DEFINE c == IF key = "CR" THEN "NL" ELSE key
  <2>1. /\ minus(e, r) < INPUT_BUF /\ r' = r
        /\ buf' = [buf EXCEPT ![e % INPUT_BUF] = c]
        /\ e' = plus(e, 1)
        /\ w' = IF commits(c, e') THEN e' ELSE w
    BY <1>2, Zenon DEF consoleintr
  <2>2. c \in Stored
    BY <1>2, Zenon DEF Keys, Stored
  <2>. HIDE DEF c
  <2>3. Lines!LType(c)
    BY <2>1, <2>2, TypeMaps, ZenonT(40)
  <2>. QED BY <2>2, <2>3, ZenonT(40) DEF Lines!LNext
<1>. QED BY <1>1, <1>2, ZenonT(40)

\* consoleread's character is LRead, a ^D put back is a stutter.
LEMMA CharMaps ==
    ASSUME IInv, IInv', NEW p \in Readers, consoleread_char(p)
    PROVE  Lines!LRead \/ UNCHANGED Lines!lvars
<1>1. r' \in {r, plus(r, 1)} /\ r # w /\ UNCHANGED <<buf, w, e>>
  BY Zenon DEF consoleread_char, r_after_EOF
<1>2. CASE r' = r
  <2>1. Between(w, e)' = Between(w, e) /\ Between(r, w)' = Between(r, w)
    BY <1>1, <1>2, SpansAre, ZenonT(40)
  <2>. QED BY <2>1, Zenon DEF Lines!lvars
<1>3. CASE r' = plus(r, 1)
  <2>1. Ring!Span(buf, r, w) # <<>> /\ Ring!Span(buf, plus(r, 1), w) = Tail(Ring!Span(buf, r, w))
    BY <1>1, Shapes, GetTakes, ZenonT(40)
  <2>2. /\ Between(w, e)' = Between(w, e) /\ Between(r, w) # <<>>
        /\ Between(r, w)' = Tail(Between(r, w))
    BY <1>1, <1>3, <2>1, SpansAre, ZenonT(40)
  <2>. QED BY <2>2, Zenon DEF Lines!LRead
<1>. QED BY <1>1, <1>2, <1>3, ZenonT(40)

\* A step that leaves the buffer and its indices alone is a stutter.
LEMMA QuietMaps ==
    ASSUME IInv, IInv', UNCHANGED input
    PROVE  UNCHANGED Lines!lvars
<1>1. UNCHANGED <<buf, r, w, e>>
  BY Zenon DEF input
<1>2. Between(w, e)' = Between(w, e) /\ Between(r, w)' = Between(r, w)
  BY <1>1, SpansAre, ZenonT(40)
<1>. QED BY <1>2, Zenon DEF Lines!lvars

\* Every step of the console is a step of the line, or a stutter.
LEMMA NextMaps == IInv /\ IInv' /\ [Next]_vars => [Lines!LNext]_(Lines!lvars)
<1>. SUFFICES ASSUME IInv, IInv', [Next]_vars PROVE Lines!LNext \/ UNCHANGED Lines!lvars
  BY Zenon
<1>1. CASE UNCHANGED input
  BY <1>1, QuietMaps, ZenonT(40)
<1>2. CASE \E key \in Keys : consoleintr(key)
  BY <1>2, KeyMaps, ZenonT(40)
<1>3. ASSUME NEW p \in Readers, consoleread_char(p) PROVE Lines!LNext \/ UNCHANGED Lines!lvars
  <2>1. Lines!LRead \/ UNCHANGED Lines!lvars
    BY <1>3, CharMaps, ZenonT(40)
  <2>. QED BY <2>1, Zenon DEF Lines!LNext
<1>4. UNCHANGED input \/ (\E key \in Keys : consoleintr(key)) \/ \E p \in Readers : consoleread_char(p)
  BY Zenon DEF Next, Step, vars, Call, acquire, consoleread_done, consoleread_wait, sleep, kill, exit
<1>. QED BY <1>1, <1>2, <1>3, <1>4, ZenonT(40)

\* The console starts with an empty line and nothing to read.
LEMMA InitMaps == Init => Lines!LInit
<1>. SUFFICES ASSUME Init PROVE Lines!LInit
  OBVIOUS
<1>1. minus(0, 0) = 0
  BY InputShape DEF minus
<1>2. Between(0, 0) = <<>>
  BY <1>1 DEF Between
<1>. QED BY <1>2, Zenon DEF Init, Lines!LInit

\* The console implements an editable line over a first-in first-out queue:
\* consoleintr never edits what consoleread may already see, no character is
\* lost, duplicated or reordered, also when the indices wrap.
THEOREM ConsoleImplementsLineInput == Spec => ImplementsLineInput
<1>1. Spec => []IInv
  BY Inductive, Zenon
<1>. QED BY <1>1, InitMaps, NextMaps, PTL DEF Spec, ImplementsLineInput, Lines!LSpec

\* The console delivers lines and ends of file.
THEOREM ConsoleDeliversLines == Spec => DeliversLines
BY ConsoleImplementsLineInput, EOFSeen, Zenon DEF DeliversLines
=============================================================================
