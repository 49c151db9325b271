------------------------------ MODULE PipeProof ------------------------------
(***************************************************************************)
(* Proofs about Pipe, for any number of readers and writers, any PIPESIZE  *)
(* and any width of the counters that is a multiple of it: nobody sleeps   *)
(* beside what it waits for, pipeclose frees only what nobody uses, and a  *)
(* read that returns nothing is the end of the file.                       *)
(***************************************************************************)
EXTENDS Pipe, TLAPS

\* p->lock: its holder is in the critical section, and nobody else is.
Critical == {"write", "read", "copy", "sleep"}
Locked == \A p \in Procs : pc[p] \in Critical <=> lock = p

\* pipewrite is for writers and piperead for readers.
Roles == \A p \in Procs :
    /\ pc[p] = "write" => p \in Writers
    /\ pc[p] \in {"read", "copy"} => p \in Readers

\* A process in a call has its descriptor, and an end with an open descriptor
\* is open.
Descriptors ==
    /\ \A p \in Procs : pc[p] # "user" => open[p]
    /\ \A p \in Writers : open[p] => writeopen
    /\ \A p \in Readers : open[p] => readopen

\* What a process that goes to sleep, or has begun to copy, has found under
\* the lock still holds.
Found ==
    /\ \A p \in Writers : pc[p] = "sleep" => full /\ readopen
    /\ \A p \in Readers : pc[p] = "sleep" => must_wait
    /\ \A p \in Readers : pc[p] = "copy" /\ i[p] = 0 => ~must_wait

\* The inductive invariant.
IInv == TypeOK /\ Locked /\ Roles /\ Descriptors /\ Found /\ NoLostWakeup
-----------------------------------------------------------------------------
(* Lemmas about the helpers of the model *)

\* The counters nread and nwrite stay in the range of a uint of width W.
LEMMA IncrType == \A k \in 0 .. W - 1 : incr(k) \in 0 .. W - 1
BY PipeAssumption DEF incr

\* A full pipe is not empty, also when the counters have wrapped.
LEMMA FullNotEmpty ==
    ASSUME nread \in 0 .. W - 1, full
    PROVE  ~empty
<1>1. CASE nread + PIPESIZE < W
  BY <1>1, PipeAssumption DEF full, empty
<1>2. CASE nread + PIPESIZE >= W
  <2>1. (nread + PIPESIZE) % W = nread + PIPESIZE - W
    BY <1>2, PipeAssumption
  <2>. QED BY <2>1, PipeAssumption DEF full, empty
<1>. QED BY <1>1, <1>2, PipeAssumption

-----------------------------------------------------------------------------
(* The invariant *)

\* A new pipe, all of its users in user space, satisfies the invariant.
LEMMA InitInv == Init => IInv
<1>. SUFFICES ASSUME Init PROVE IInv
  OBVIOUS
<1>1. TypeOK
  BY PipeAssumption DEF Init, TypeOK, Procs
<1>2. Locked /\ Roles /\ Descriptors /\ Found /\ NoLostWakeup
  BY PipeAssumption DEF Init, Locked, Critical, Roles, Descriptors, Found, NoLostWakeup, Procs
<1>. QED BY <1>1, <1>2 DEF IInv

\* Entering piperead or pipewrite takes nothing yet.
LEMMA CallInv ==
    ASSUME IInv, NEW p \in Procs, NEW k \in 0 .. MaxN, Call(p, k)
    PROVE  IInv'
<1>. USE PipeAssumption DEF IInv, Call, Goto, pipe
<1>1. TypeOK'
  BY DEF TypeOK
<1>2. Locked' /\ Roles' /\ Descriptors'
  BY DEF TypeOK, Locked, Critical, Roles, Descriptors, Procs
<1>3. Found'
  BY DEF TypeOK, Found, full, must_wait, empty, Procs
<1>4. NoLostWakeup'
  BY DEF TypeOK, Locked, Critical, NoLostWakeup, WriterWaits, ReaderWaits, full, must_wait, empty, Procs
<1>. QED BY <1>1, <1>2, <1>3, <1>4

\* The lock goes to one process, and nothing under it has moved.
LEMMA AcquireInv ==
    ASSUME IInv, NEW p \in Procs, acquire(p)
    PROVE  IInv'
<1>. USE PipeAssumption DEF IInv, acquire, after_acquire, Goto, pipe
<1>1. TypeOK'
  BY DEF TypeOK
<1>2. Locked' /\ Roles' /\ Descriptors'
  BY DEF TypeOK, Locked, Critical, Roles, Descriptors, Procs
<1>3. Found'
  BY DEF TypeOK, Found, full, must_wait, empty, Procs
<1>4. NoLostWakeup'
  BY DEF TypeOK, Locked, Critical, NoLostWakeup, WriterWaits, ReaderWaits, full, must_wait, empty, Procs
<1>. QED BY <1>1, <1>2, <1>3, <1>4

\* sleep gives up the lock with the condition still as it was found.
LEMMA SleepInv ==
    ASSUME IInv, NEW p \in Procs, sleep(p)
    PROVE  IInv'
<1>. USE PipeAssumption DEF IInv, sleep, Goto, pipe
<1>1. TypeOK'
  BY DEF TypeOK
<1>2. Locked' /\ Roles' /\ Descriptors'
  BY DEF TypeOK, Locked, Critical, Roles, Descriptors, Procs
<1>3. Found'
  BY DEF TypeOK, Found, full, must_wait, empty, Procs
<1>4. NoLostWakeup'
  BY DEF TypeOK, Locked, Critical, Found, NoLostWakeup, WriterWaits, ReaderWaits, full, must_wait, empty, Procs
<1>. QED BY <1>1, <1>2, <1>3, <1>4

\* A return wakes the sleepers of one end, or of none; the lock is free.
LEMMA ReturnInv ==
    ASSUME IInv, NEW p \in Procs, pc[p] \in Critical, NEW end, return(p, pc, end),
           \A w \in Writers : pc[w] = "asleep" => w \in end \/ (full /\ readopen),
           \A r \in Readers : pc[r] = "asleep" => r \in end \/ must_wait \/ \E w \in Writers : killed[w]
    PROVE  IInv'
<1>. USE PipeAssumption DEF IInv
<1>. DEFINE woken(q) == q \in end /\ pc[q] = "asleep" /\ pc'[q] = "acquire"
<1>1. /\ UNCHANGED <<data, nread, nwrite, readopen, writeopen, open, killed>>
      /\ lock' = NoProc
      /\ n' = [n EXCEPT ![p] = 0] /\ i' = [i EXCEPT ![p] = 0]
  BY DEF return, pipe
<1>2. /\ pc' \in [Procs -> {"user", "acquire", "write", "read", "copy", "sleep", "asleep"}]
      /\ pc'[p] = "user"
      /\ \A q \in Procs \ {p} : pc'[q] = pc[q] \/ woken(q)
      /\ \A q \in Procs : pc'[q] = "asleep" => q \notin end /\ pc[q] = "asleep"
  <2>1. pc' = [q \in Procs |-> IF q = p THEN "user"
                               ELSE IF pc[q] = "asleep" /\ q \in end THEN "acquire" ELSE pc[q]]
    BY DEF return, wakeup
  <2>2. pc \in [Procs -> {"user", "acquire", "write", "read", "copy", "sleep", "asleep"}]
    BY DEF TypeOK
  <2>. QED BY <2>1, <2>2
<1>3. TypeOK'
  <2>1. n' \in [Procs -> 0 .. MaxN] /\ i' \in [Procs -> 0 .. MaxN]
    BY <1>1 DEF TypeOK
  <2>. QED BY <1>1, <1>2, <2>1, Zenon DEF TypeOK
<1>4. \A q \in Procs \ {p} : pc[q] \notin Critical /\ pc'[q] \notin Critical
  BY <1>2 DEF Locked, Critical
<1>5. Locked' /\ Roles' /\ Descriptors'
  BY <1>1, <1>2, <1>4 DEF TypeOK, Locked, Critical, Roles, Descriptors, Procs
<1>6. Found'
  BY <1>1, <1>2, <1>4 DEF Found, Critical, Procs
<1>7. NoLostWakeup'
  BY <1>1, <1>2 DEF NoLostWakeup, WriterWaits, ReaderWaits, full, must_wait, empty, Procs
<1>. QED BY <1>3, <1>5, <1>6, <1>7

\* A byte goes into a pipe that is not full: no writer sleeps then.
LEMMA WriteByteInv ==
    ASSUME IInv, NEW p \in Procs, NEW v \in Bytes, pipewrite_byte(p, v)
    PROVE  IInv'
<1>. USE PipeAssumption DEF IInv, pipewrite_byte
<1>1. TypeOK'
  <2>1. nwrite' \in 0 .. W - 1
    BY IncrType DEF TypeOK
  <2>2. data' \in [0 .. PIPESIZE - 1 -> Bytes]
    BY DEF TypeOK
  <2>3. i' \in [Procs -> 0 .. MaxN]
    BY DEF TypeOK
  <2>. QED BY <2>1, <2>2, <2>3, Zenon DEF TypeOK
<1>2. Locked' /\ Roles' /\ Descriptors'
  BY DEF Locked, Roles, Descriptors
<1>3. /\ lock = p /\ p \notin Readers
      /\ \A q \in Procs \ {p} : pc[q] \notin Critical
  BY DEF Locked, Critical
<1>4. Found'
  BY <1>3 DEF Found, Critical, Procs
<1>5. NoLostWakeup'
  BY <1>3 DEF NoLostWakeup, WriterWaits, ReaderWaits, Procs
<1>. QED BY <1>1, <1>2, <1>4, <1>5

\* A full pipe: the writer gives up, or wakes the readers and goes to sleep.
LEMMA WriteFullInv ==
    ASSUME IInv, NEW p \in Procs, pipewrite_full(p)
    PROVE  IInv'
<1>. USE PipeAssumption
<1>1. /\ pc[p] = "write" /\ p \in Writers /\ p \notin Readers /\ full /\ ~empty
      /\ lock = p
      /\ \A q \in Procs \ {p} : pc[q] \notin Critical
  BY FullNotEmpty DEF pipewrite_full, IInv, TypeOK, Locked, Critical
<1>2. \A w \in Writers : pc[w] = "asleep" => full /\ readopen
  BY <1>1 DEF IInv, NoLostWakeup, WriterWaits
<1>3. CASE ~readopen \/ killed[p]
  <2>1. return(p, pc, {})
    BY <1>3 DEF pipewrite_full
  <2>2. \A r \in Readers : pc[r] = "asleep" => \E w \in Writers : killed[w]
    BY <1>1, <1>3 DEF IInv, Descriptors, Procs
  <2>. QED BY <2>1, <2>2, <1>1, <1>2, ReturnInv DEF Critical
<1>4. CASE ~(~readopen \/ killed[p])
  <2>1. /\ UNCHANGED <<data, nread, nwrite, readopen, writeopen, lock, open, killed, n, i>>
        /\ pc' = [q \in Procs |-> IF q = p THEN "sleep"
                                  ELSE IF pc[q] = "asleep" /\ q \in Readers THEN "acquire" ELSE pc[q]]
    BY <1>4 DEF pipewrite_full, wakeup, pipe
  <2>2. pc \in [Procs -> {"user", "acquire", "write", "read", "copy", "sleep", "asleep"}]
    BY DEF IInv, TypeOK
  <2>3. /\ pc' \in [Procs -> {"user", "acquire", "write", "read", "copy", "sleep", "asleep"}]
        /\ pc'[p] = "sleep"
        /\ \A q \in Procs \ {p} : pc'[q] = pc[q] \/ (pc[q] = "asleep" /\ pc'[q] = "acquire")
        /\ \A q \in Procs : pc'[q] = "asleep" => q \notin Readers /\ pc[q] = "asleep"
    BY <2>1, <2>2
  <2>4. TypeOK'
    BY <2>1, <2>3, Zenon DEF IInv, TypeOK
  <2>5. Locked' /\ Roles' /\ Descriptors'
    BY <1>1, <2>1, <2>3 DEF IInv, TypeOK, Locked, Critical, Roles, Descriptors, Procs
  <2>6. Found'
    BY <1>1, <1>4, <2>1, <2>3 DEF IInv, TypeOK, Found, Critical, Procs, full
  <2>7. NoLostWakeup'
    BY <1>2, <2>1, <2>3 DEF NoLostWakeup, WriterWaits, full, Procs
  <2>. QED BY <2>4, <2>5, <2>6, <2>7 DEF IInv
<1>. QED BY <1>3, <1>4

\* pipewrite ends: the readers are woken.
LEMMA WriteDoneInv ==
    ASSUME IInv, NEW p \in Procs, pipewrite_done(p)
    PROVE  IInv'
<1>1. pc[p] \in Critical /\ return(p, pc, Readers)
  BY DEF pipewrite_done, Critical
<1>2. \A w \in Writers : pc[w] = "asleep" => full /\ readopen
  BY PipeAssumption DEF pipewrite_done, IInv, TypeOK, Locked, Critical, NoLostWakeup, WriterWaits
<1>. QED BY <1>1, <1>2, ReturnInv

\* An empty pipe: the reader gives up if it was killed, or goes to sleep.
LEMMA ReadWaitInv ==
    ASSUME IInv, NEW p \in Procs, piperead_wait(p)
    PROVE  IInv'
<1>. USE PipeAssumption
<1>1. /\ pc[p] = "read" /\ p \in Readers /\ p \notin Writers /\ must_wait
      /\ lock = p
      /\ \A q \in Procs \ {p} : pc[q] \notin Critical
  BY DEF piperead_wait, IInv, TypeOK, Locked, Critical
<1>2. /\ \A w \in Writers : pc[w] = "asleep" => full /\ readopen
      /\ \A r \in Readers : pc[r] = "asleep" => must_wait
  BY <1>1 DEF IInv, NoLostWakeup, WriterWaits
<1>3. CASE killed[p]
  BY <1>1, <1>2, <1>3, ReturnInv DEF piperead_wait, Critical
<1>4. CASE ~killed[p]
  <2>. USE <1>1, <1>2, <1>4 DEF piperead_wait, Goto, pipe, IInv
  <2>1. TypeOK'
    BY DEF TypeOK
  <2>2. Locked' /\ Roles' /\ Descriptors'
    BY DEF TypeOK, Locked, Critical, Roles, Descriptors, Procs
  <2>3. Found'
    BY DEF TypeOK, Found, Critical, Procs, full, must_wait, empty
  <2>4. NoLostWakeup'
    BY DEF TypeOK, NoLostWakeup, WriterWaits, ReaderWaits, full, must_wait, empty, Procs
  <2>. QED BY <2>1, <2>2, <2>3, <2>4
<1>. QED BY <1>3, <1>4

\* The reader has found bytes, or the end of the file.
LEMMA ReadReadyInv ==
    ASSUME IInv, NEW p \in Procs, piperead_ready(p)
    PROVE  IInv'
<1>. USE PipeAssumption DEF IInv, piperead_ready, Goto, pipe
<1>1. TypeOK'
  BY DEF TypeOK
<1>2. Locked' /\ Roles' /\ Descriptors'
  BY DEF TypeOK, Locked, Critical, Roles, Descriptors, Procs
<1>3. Found'
  BY DEF TypeOK, Found, full, must_wait, empty, Procs
<1>4. NoLostWakeup'
  BY DEF TypeOK, Locked, Critical, NoLostWakeup, WriterWaits, ReaderWaits, full, must_wait, empty, Procs
<1>. QED BY <1>1, <1>2, <1>3, <1>4

\* A byte leaves the pipe: the writers asleep wait for piperead's wakeup.
LEMMA ReadByteInv ==
    ASSUME IInv, NEW p \in Procs, piperead_byte(p)
    PROVE  IInv'
<1>. USE PipeAssumption DEF IInv, piperead_byte
<1>1. TypeOK'
  <2>1. nread' \in 0 .. W - 1
    BY IncrType DEF TypeOK
  <2>2. i' \in [Procs -> 0 .. MaxN]
    BY DEF TypeOK
  <2>. QED BY <2>1, <2>2, Zenon DEF TypeOK
<1>2. Locked' /\ Roles' /\ Descriptors'
  BY DEF Locked, Roles, Descriptors
<1>3. /\ lock = p /\ p \in Readers /\ p \notin Writers
      /\ \A q \in Procs \ {p} : pc[q] \notin Critical
  BY DEF Locked, Critical, Roles
<1>4. i'[p] # 0
  BY DEF TypeOK
<1>5. Found'
  BY <1>3, <1>4 DEF Found, Critical, Procs
<1>6. NoLostWakeup'
  BY <1>3 DEF NoLostWakeup, WriterWaits, ReaderWaits, must_wait, Procs
<1>. QED BY <1>1, <1>2, <1>5, <1>6

\* piperead ends: the writers are woken.
LEMMA ReadDoneInv ==
    ASSUME IInv, NEW p \in Procs, piperead_done(p)
    PROVE  IInv'
<1>1. pc[p] \in Critical /\ return(p, pc, Writers) /\ pc[p] = "copy"
  BY DEF piperead_done, piperead_wakes, Critical
<1>2. lock = p /\ p \notin Writers
  BY <1>1, PipeAssumption DEF IInv, Locked, Roles
<1>3. \A r \in Readers : pc[r] = "asleep" => must_wait \/ \E w \in Writers : killed[w]
  BY <1>2 DEF IInv, NoLostWakeup, ReaderWaits
<1>. QED BY <1>1, <1>3, ReturnInv

\* The last descriptor of an end closes it and wakes the other end.
LEMMA CloseInv ==
    ASSUME IInv, NEW p \in Procs, close(p)
    PROVE  IInv'
<1>. USE PipeAssumption
<1>. DEFINE shut == <<writeopen, readopen>> # <<writeopen', readopen'>>
            other == IF p \in Writers THEN Readers ELSE Writers
<1>1. /\ pc[p] = "user" /\ open[p] /\ lock = NoProc
      /\ UNCHANGED <<data, nread, nwrite, lock, killed, n, i>>
      /\ open' = [open EXCEPT ![p] = FALSE]
      /\ writeopen' = (writeopen /\ ~(p \in Writers /\ last(p, Writers)))
      /\ readopen' = (readopen /\ ~(p \in Readers /\ last(p, Readers)))
  BY DEF close
<1>2. /\ writeopen \in BOOLEAN /\ readopen \in BOOLEAN
      /\ pc \in [Procs -> {"user", "acquire", "write", "read", "copy", "sleep", "asleep"}]
      /\ open \in [Procs -> BOOLEAN]
  BY DEF IInv, TypeOK
<1>3. pc' = IF shut THEN [q \in Procs |-> IF pc[q] = "asleep" /\ q \in other THEN "acquire" ELSE pc[q]]
            ELSE pc
  BY DEF close, wakeup, pipeclose_wakes
<1>4. /\ pc' \in [Procs -> {"user", "acquire", "write", "read", "copy", "sleep", "asleep"}]
      /\ pc'[p] = "user"
      /\ \A q \in Procs : pc'[q] = pc[q] \/ (pc[q] = "asleep" /\ pc'[q] = "acquire")
      /\ \A q \in Procs : pc'[q] = "asleep" => pc[q] = "asleep" /\ ~(shut /\ q \in other)
  BY <1>1, <1>2, <1>3
<1>5. /\ writeopen' \in BOOLEAN /\ readopen' \in BOOLEAN
      /\ p \in Writers => readopen' = readopen
      /\ p \in Readers => writeopen' = writeopen
  BY <1>1, <1>2 DEF Procs
<1>6. TypeOK'
  <2>1. open' \in [Procs -> BOOLEAN]
    BY <1>1, <1>2
  <2>. QED BY <1>1, <1>4, <1>5, <2>1, Zenon DEF IInv, TypeOK
<1>7. Locked' /\ Roles'
  BY <1>1, <1>4 DEF IInv, Locked, Critical, Roles
<1>8. Descriptors'
  <2>1. \A q \in Procs : open'[q] => q # p /\ open[q]
    BY <1>1, <1>2
  <2>2. \A q \in Procs : pc'[q] # "user" => open'[q]
    BY <1>1, <1>2, <1>4 DEF IInv, Descriptors
  <2>3. \A q \in Writers : open'[q] => writeopen'
    BY <1>1, <2>1 DEF IInv, Descriptors, last, Procs
  <2>4. \A q \in Readers : open'[q] => readopen'
    BY <1>1, <2>1 DEF IInv, Descriptors, last, Procs
  <2>. QED BY <2>2, <2>3, <2>4 DEF Descriptors
<1>9. \A q \in Procs : pc'[q] \notin Critical
  BY <1>1, <1>4 DEF IInv, Locked, Critical
<1>10. Found'
  BY <1>9 DEF Found, Critical, Procs
<1>11. NoLostWakeup'
  <2>1. ASSUME NEW w \in Writers, pc'[w] = "asleep" PROVE WriterWaits'
    <3>1. full /\ readopen
      BY <1>1, <1>4, <2>1 DEF IInv, NoLostWakeup, WriterWaits, Procs
    <3>2. readopen' = readopen
      BY <1>1, <1>2, <1>4, <1>5, <2>1 DEF Procs
    <3>3. full => full'
      BY <1>1 DEF full
    <3>. QED BY <3>1, <3>2, <3>3, Zenon DEF WriterWaits
  <2>2. ASSUME NEW r \in Readers, pc'[r] = "asleep" PROVE ReaderWaits' \/ \E w \in Writers : killed'[w]
    <3>1. must_wait \/ \E w \in Writers : killed[w]
      BY <1>1, <1>4, <2>2 DEF IInv, NoLostWakeup, ReaderWaits, Procs
    <3>2. writeopen' = writeopen
      BY <1>1, <1>2, <1>4, <1>5, <2>2 DEF Procs
    <3>3. empty => empty'
      BY <1>1 DEF empty
    <3>4. killed' = killed
      BY <1>1
    <3>. QED BY <3>1, <3>2, <3>3, <3>4, Zenon DEF ReaderWaits, must_wait
  <2>. QED BY <2>1, <2>2 DEF NoLostWakeup
<1>. QED BY <1>6, <1>7, <1>8, <1>10, <1>11 DEF IInv

\* kill takes a process out of sleep, and touches nothing of the pipe.
LEMMA KillInv ==
    ASSUME IInv, NEW p \in Procs, kill(p)
    PROVE  IInv'
<1>. USE PipeAssumption
<1>1. /\ UNCHANGED <<data, nread, nwrite, readopen, writeopen, lock, open, n, i>>
      /\ killed' = [killed EXCEPT ![p] = TRUE]
      /\ pc' = [q \in Procs |-> IF q = p /\ pc[q] = "asleep" THEN "acquire" ELSE pc[q]]
  BY DEF kill, pipe, IInv, TypeOK
<1>2. /\ pc \in [Procs -> {"user", "acquire", "write", "read", "copy", "sleep", "asleep"}]
      /\ killed \in [Procs -> BOOLEAN]
  BY DEF IInv, TypeOK
<1>3. /\ pc' \in [Procs -> {"user", "acquire", "write", "read", "copy", "sleep", "asleep"}]
      /\ \A q \in Procs : pc'[q] = pc[q] \/ (pc[q] = "asleep" /\ pc'[q] = "acquire")
      /\ killed' \in [Procs -> BOOLEAN]
      /\ \A q \in Procs : killed[q] => killed'[q]
  BY <1>1, <1>2
<1>4. TypeOK'
  BY <1>1, <1>3, Zenon DEF IInv, TypeOK
<1>5. Locked' /\ Roles' /\ Descriptors'
  BY <1>1, <1>3 DEF IInv, Locked, Critical, Roles, Descriptors, Procs
<1>6. Found'
  BY <1>1, <1>3 DEF IInv, Found, full, must_wait, empty, Procs
<1>7. NoLostWakeup'
  <2>1. WriterWaits => WriterWaits'
    BY <1>1, <1>3 DEF WriterWaits, full, Procs
  <2>2. ReaderWaits => ReaderWaits'
    BY <1>1, <1>3 DEF ReaderWaits, must_wait, empty, Procs
  <2>. QED BY <1>3, <2>1, <2>2 DEF IInv, NoLostWakeup, Procs
<1>. QED BY <1>4, <1>5, <1>6, <1>7 DEF IInv

\* A freed pipe has no users: nobody has a descriptor, so nobody is in a call.
LEMMA FreedUnused ==
    ASSUME IInv PROVE FreedIsUnused
<1>. SUFFICES ASSUME Freed PROVE lock = NoProc /\ \A p \in Procs : pc[p] = "user" /\ ~open[p]
  BY DEF FreedIsUnused
<1>1. \A p \in Procs : ~open[p] /\ pc[p] = "user"
  BY DEF IInv, Descriptors, Freed, Procs
<1>2. lock = NoProc
  BY <1>1 DEF IInv, TypeOK, Locked, Critical
<1>. QED BY <1>1, <1>2

\* The page of a freed pipe becomes a new pipe.
LEMMA PipeallocInv ==
    ASSUME IInv, pipealloc PROVE IInv'
<1>. USE PipeAssumption
<1>1. lock = NoProc /\ \A p \in Procs : pc[p] = "user"
  BY FreedUnused DEF pipealloc, FreedIsUnused
<1>2. TypeOK'
  BY DEF pipealloc, IInv, TypeOK
<1>3. Locked' /\ Roles' /\ Descriptors' /\ Found' /\ NoLostWakeup'
  BY <1>1 DEF pipealloc, Locked, Critical, Roles, Descriptors, Found, NoLostWakeup, Procs
<1>. QED BY <1>2, <1>3 DEF IInv

\* Every step of every process keeps the invariant.
LEMMA NextInv == IInv /\ [Next]_vars => IInv'
<1>. SUFFICES ASSUME IInv, [Next]_vars PROVE IInv'
  OBVIOUS
<1>1. CASE UNCHANGED vars
  BY <1>1 DEF vars, pipe, IInv, TypeOK, Locked, Roles, Descriptors, Found, NoLostWakeup,
              WriterWaits, ReaderWaits, full, must_wait, empty
<1>2. ASSUME NEW p \in Procs, NEW k \in 0 .. MaxN, Call(p, k) PROVE IInv'
  BY <1>2, CallInv
<1>3. ASSUME NEW p \in Procs, acquire(p) PROVE IInv'
  BY <1>3, AcquireInv
<1>4. ASSUME NEW p \in Procs, Step(p) PROVE IInv'
  <2>1. CASE sleep(p)
    BY <2>1, SleepInv
  <2>2. CASE pipewrite_full(p)
    BY <2>2, WriteFullInv
  <2>3. CASE pipewrite_done(p)
    BY <2>3, WriteDoneInv
  <2>4. CASE \E v \in Bytes : pipewrite_byte(p, v)
    BY <2>4, WriteByteInv
  <2>5. CASE piperead_wait(p)
    BY <2>5, ReadWaitInv
  <2>6. CASE piperead_ready(p)
    BY <2>6, ReadReadyInv
  <2>7. CASE piperead_byte(p)
    BY <2>7, ReadByteInv
  <2>8. CASE piperead_done(p)
    BY <2>8, ReadDoneInv
  <2>. QED BY <1>4, <2>1, <2>2, <2>3, <2>4, <2>5, <2>6, <2>7, <2>8 DEF Step
<1>5. ASSUME NEW p \in Procs, close(p) PROVE IInv'
  BY <1>5, CloseInv
<1>6. ASSUME NEW p \in Procs, kill(p) PROVE IInv'
  BY <1>6, KillInv
<1>7. CASE pipealloc
  BY <1>7, PipeallocInv
<1>. QED BY <1>1, <1>2, <1>3, <1>4, <1>5, <1>6, <1>7 DEF Next

\* The inductive invariant holds in every reachable state.
THEOREM Inductive == Spec => []IInv
BY InitInv, NextInv, PTL DEF Spec

\* The counters, the lock and every local variable keep their types; nobody
\* sleeps beside what it waits for; pipeclose frees only what nobody uses.
THEOREM PipesAreSound == Spec => []PipeIsSound
<1>1. IInv => PipeIsSound
  BY FreedUnused DEF IInv, PipeIsSound
<1>. QED BY <1>1, Inductive, PTL

\* piperead returns 0 to a process that asked for bytes and was not killed
\* only at the end of the file.
THEOREM EmptyMeansEOF == Spec => EmptyReadIsEOF
<1>. DEFINE A == \A r \in Readers : piperead_done(r) /\ n[r] > 0 /\ i[r] = 0 => empty /\ ~writeopen
<1>1. IInv => A
  BY DEF IInv, TypeOK, Found, piperead_done, must_wait, Procs
<1>2. IInv /\ [Next]_vars => [A]_vars
  BY <1>1
<1>. QED BY <1>2, Inductive, PTL DEF Spec, EmptyReadIsEOF
=============================================================================
