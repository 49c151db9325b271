-------------------------------- MODULE Pipe --------------------------------
(***************************************************************************)
(* kernel/pipe.c: one pipe, used by processes that share its two ends (the *)
(* descriptors are inherited through fork), with sleep, wakeup and kill.   *)
(*                                                                         *)
(* p->lock is explicit and a step copies one byte, so that a kill, which   *)
(* takes only ptable.lock, may come between any two of them.  The counters *)
(* nread and nwrite have the width of the code's uint, given by W.         *)
(***************************************************************************)
EXTENDS Naturals, Sequences, FiniteSets

CONSTANTS Writers, Readers, Bytes,
          PIPESIZE,
          W,      \* 2^32 in the code: nread and nwrite count modulo W
          MaxN,   \* bound on the length of one read or write
          NoProc

Procs == Writers \cup Readers

ASSUME PipeAssumption ==
    /\ PIPESIZE \in Nat \ {0} /\ MaxN \in Nat
    /\ W \in Nat /\ W > PIPESIZE /\ W % PIPESIZE = 0
    /\ Writers \cap Readers = {} /\ NoProc \notin Procs

VARIABLES
    data, nread, nwrite, readopen, writeopen, \* struct pipe
    lock,    \* the process that holds p->lock
    open,    \* whether a process still has its descriptor
    killed,  \* proc->killed
    pc,
    n, i     \* the length asked for and the loop variable

pipe == <<data, nread, nwrite, readopen, writeopen>>
vars == <<pipe, lock, open, killed, pc, n, i>>

Init ==
    /\ data \in [0 .. PIPESIZE - 1 -> Bytes]
    /\ nread = 0 /\ nwrite = 0
    /\ readopen = TRUE /\ writeopen = TRUE
    /\ lock = NoProc
    /\ open = [p \in Procs |-> TRUE]
    /\ killed = [p \in Procs |-> FALSE]
    /\ pc = [p \in Procs |-> "user"]
    /\ n = [p \in Procs |-> 0]
    /\ i = [p \in Procs |-> 0]

Bug_full == nwrite = nread + PIPESIZE
full == nwrite = (nread + PIPESIZE) % W
Bug_incr(k) == k + 1
incr(k) == (k + 1) % W
empty == nread = nwrite

\* wakeup(&p->nread) wakes the readers asleep, wakeup(&p->nwrite) the
\* writers; sleep then takes p->lock again.
wakeup(ps, end) == [p \in Procs |-> IF ps[p] = "asleep" /\ p \in end THEN "acquire" ELSE ps[p]]

Goto(p, l) == pc' = [pc EXCEPT ![p] = l]
-----------------------------------------------------------------------------
(* Both calls: entry, the lock, and sleep *)

Call(p, k) ==
    /\ pc[p] = "user" /\ open[p] /\ ~killed[p]
    /\ n' = [n EXCEPT ![p] = k]
    /\ i' = [i EXCEPT ![p] = 0]
    /\ Goto(p, "acquire")
    /\ UNCHANGED <<pipe, lock, open, killed>>

Bug_after_acquire(p) == IF p \in Writers THEN "write" ELSE "copy"
after_acquire(p) == IF p \in Writers THEN "write" ELSE "read"

acquire(p) ==
    /\ pc[p] = "acquire"
    /\ lock = NoProc
    /\ lock' = p
    /\ Goto(p, after_acquire(p))
    /\ UNCHANGED <<pipe, open, killed, n, i>>

sleep(p) ==
    /\ pc[p] = "sleep"
    /\ lock' = NoProc
    /\ Goto(p, "asleep")
    /\ UNCHANGED <<pipe, open, killed, n, i>>

\* release(&p->lock) and return to user space.
return(p, ps, end) ==
    /\ lock' = NoProc
    /\ pc' = [wakeup(ps, end) EXCEPT ![p] = "user"]
    /\ n' = [n EXCEPT ![p] = 0]
    /\ i' = [i EXCEPT ![p] = 0]
    /\ UNCHANGED <<pipe, open, killed>>
-----------------------------------------------------------------------------
(* pipewrite *)

slot(k) == k % PIPESIZE

pipewrite_byte(p, v) ==
    /\ pc[p] = "write" /\ p \in Writers
    /\ i[p] < n[p] /\ ~full
    /\ data' = [data EXCEPT ![slot(nwrite)] = v]
    /\ nwrite' = incr(nwrite)
    /\ i' = [i EXCEPT ![p] = @ + 1]
    /\ UNCHANGED <<nread, readopen, writeopen, lock, open, killed, pc, n>>

\* A full pipe: give up if nobody will read, else wake the readers and sleep.
pipewrite_full(p) ==
    /\ pc[p] = "write" /\ p \in Writers
    /\ i[p] < n[p] /\ full
    /\ IF ~readopen \/ killed[p]
       THEN return(p, pc, {})
       ELSE /\ pc' = [wakeup(pc, Readers) EXCEPT ![p] = "sleep"]
            /\ UNCHANGED <<pipe, lock, open, killed, n, i>>

pipewrite_done(p) ==
    /\ pc[p] = "write" /\ p \in Writers
    /\ i[p] = n[p]
    /\ return(p, pc, Readers)
-----------------------------------------------------------------------------
(* piperead *)

\* The reader waits while there is nothing to read and a writer is left.
must_wait == empty /\ writeopen

piperead_wait(p) ==
    /\ pc[p] = "read" /\ p \in Readers
    /\ must_wait
    /\ IF killed[p] THEN return(p, pc, {})
       ELSE /\ Goto(p, "sleep")
            /\ UNCHANGED <<pipe, lock, open, killed, n, i>>

piperead_ready(p) ==
    /\ pc[p] = "read" /\ p \in Readers
    /\ ~must_wait
    /\ Goto(p, "copy")
    /\ UNCHANGED <<pipe, lock, open, killed, n, i>>

piperead_byte(p) ==
    /\ pc[p] = "copy"
    /\ i[p] < n[p] /\ ~empty
    /\ nread' = incr(nread)
    /\ i' = [i EXCEPT ![p] = @ + 1]
    /\ UNCHANGED <<data, nwrite, readopen, writeopen, lock, open, killed, pc, n>>

Bug_piperead_wakes == {}
piperead_wakes == Writers

piperead_done(p) ==
    /\ pc[p] = "copy"
    /\ i[p] = n[p] \/ empty
    /\ return(p, pc, piperead_wakes)
-----------------------------------------------------------------------------
(* fileclose and pipeclose, pipealloc, kill *)

\* Those who sleep at the other end of the pipe.
Bug_pipeclose_wakes(p) == {}
pipeclose_wakes(p) == IF p \in Writers THEN Readers ELSE Writers

\* The reference count of the struct file reaches 0 at the last close.
Bug_last(p, end) == TRUE
last(p, end) == \A q \in end \ {p} : ~open[q]

\* sys_close, or exit; pipeclose frees the pipe with its second end.
close(p) ==
    /\ pc[p] = "user" /\ open[p]
    /\ lock = NoProc
    /\ open' = [open EXCEPT ![p] = FALSE]
    /\ writeopen' = (writeopen /\ ~(p \in Writers /\ last(p, Writers)))
    /\ readopen' = (readopen /\ ~(p \in Readers /\ last(p, Readers)))
    /\ pc' = IF <<writeopen, readopen>> # <<writeopen', readopen'>>
             THEN wakeup(pc, pipeclose_wakes(p)) ELSE pc
    /\ UNCHANGED <<data, nread, nwrite, lock, killed, n, i>>

\* The page of a freed pipe serves a new one, for new processes.
Freed == ~readopen /\ ~writeopen

pipealloc ==
    /\ Freed /\ \A p \in Procs : ~open[p]
    /\ nread' = 0 /\ nwrite' = 0
    /\ readopen' = TRUE /\ writeopen' = TRUE
    /\ open' = [p \in Procs |-> TRUE]
    /\ killed' = [p \in Procs |-> FALSE]
    /\ UNCHANGED <<data, lock, pc, n, i>>

\* kill (proc.c): "Wake process from sleep if necessary."
kill(p) ==
    /\ ~killed[p] /\ open[p]
    /\ killed' = [killed EXCEPT ![p] = TRUE]
    /\ pc' = [pc EXCEPT ![p] = IF @ = "asleep" THEN "acquire" ELSE @]
    /\ UNCHANGED <<pipe, lock, open, n, i>>

Step(p) ==
    \/ sleep(p)
    \/ pipewrite_full(p) \/ pipewrite_done(p) \/ \E v \in Bytes : pipewrite_byte(p, v)
    \/ piperead_wait(p) \/ piperead_ready(p) \/ piperead_byte(p) \/ piperead_done(p)

Next ==
    \/ \E p \in Procs :
        \/ \E k \in 0 .. MaxN : Call(p, k)
        \/ acquire(p) \/ Step(p) \/ close(p) \/ kill(p)
    \/ pipealloc

Spec == Init /\ [][Next]_vars

\* Code in a critical section runs to its end, a process that spins for
\* p->lock gets it, and a killed process that comes back to user space exits.
KernelFairness ==
    \A p \in Procs :
        WF_vars(Step(p)) /\ SF_vars(acquire(p)) /\ SF_vars(close(p) /\ killed[p])

\* The processes go on: each reads or writes again, or closes.
UserFairness ==
    \A p \in Procs : SF_vars(close(p) \/ \E k \in 1 .. MaxN : Call(p, k))

KernelFairSpec == Spec /\ KernelFairness
FairSpec == Spec /\ KernelFairness /\ UserFairness
-----------------------------------------------------------------------------
(* Properties *)

TypeOK ==
    /\ data \in [0 .. PIPESIZE - 1 -> Bytes]
    /\ nread \in 0 .. W - 1 /\ nwrite \in 0 .. W - 1
    /\ readopen \in BOOLEAN /\ writeopen \in BOOLEAN
    /\ lock \in Procs \cup {NoProc}
    /\ open \in [Procs -> BOOLEAN] /\ killed \in [Procs -> BOOLEAN]
    /\ pc \in [Procs -> {"user", "acquire", "write", "read", "copy", "sleep", "asleep"}]
    /\ n \in [Procs -> 0 .. MaxN] /\ i \in [Procs -> 0 .. MaxN]

\* Bytes in the pipe: nwrite - nread in uint arithmetic.
Fill == (nwrite + W - nread) % W

\* Nobody sleeps for what is already there: a writer asleep has a full pipe
\* with a reader left, or the reader that made room still has p->lock and
\* will wake it; the same for a reader asleep, as long as no writer is killed
\* (see ReadersSleepWhenEmpty).
ReaderWaits == must_wait \/ (lock \in Writers /\ pc[lock] = "write")
WriterWaits == (full /\ readopen) \/ (lock \in Readers /\ pc[lock] = "copy")
NoLostWakeup ==
    /\ \A w \in Writers : pc[w] = "asleep" => WriterWaits
    /\ \A r \in Readers : pc[r] = "asleep" => ReaderWaits \/ \E w \in Writers : killed[w]

\* piperead sleeps on "pipe-empty": no reader stays asleep beside bytes that
\* it could read, whatever happens to the writer that put them there.
ReadersSleepWhenEmpty ==
    \A r \in Readers : pc[r] = "asleep" => ReaderWaits

\* pipeclose frees the pipe only when nobody is in it.
FreedIsUnused ==
    Freed => lock = NoProc /\ \A p \in Procs : pc[p] = "user" /\ ~open[p]

\* A read of some bytes that returns none and was not killed is the end of
\* the file: nothing is left to read and nobody is left to write.
EmptyReadIsEOF ==
    [][\A r \in Readers : piperead_done(r) /\ n[r] > 0 /\ i[r] = 0 => empty /\ ~writeopen]_vars

\* The pipe is a bounded first-in first-out queue of bytes, also when nread
\* and nwrite wrap around.
Contents == [k \in 1 .. Fill |-> data[slot((nread + k - 1) % W)]]
Stream == INSTANCE ByteStream WITH Size <- PIPESIZE, queue <- Contents,
                                   ropen <- readopen, wopen <- writeopen
ImplementsByteStream == Stream!SSpec

\* Every call returns if the process at the other end goes on reading or
\* writing, or closes: no reader and no writer is left asleep.
CallsReturn ==
    \A p \in Procs : pc[p] # "user" ~> pc[p] = "user"

\* kill, "Wake process from sleep if necessary": a process killed while it
\* reads or writes a pipe leaves the call.
KilledReturns ==
    \A p \in Procs : killed[p] ~> pc[p] = "user"

\* No end of the pipe sleeps beside what it waits for, and pipeclose does not
\* free what is in use.
PipeIsSound == TypeOK /\ NoLostWakeup /\ FreedIsUnused

\* A pipe is a stream of bytes with an end: what is read is what was written,
\* in order, and only the end of the stream reads as nothing.
IsByteStream == ImplementsByteStream /\ EmptyReadIsEOF
=============================================================================
