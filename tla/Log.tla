-------------------------------- MODULE Log ---------------------------------
(***************************************************************************)
(* The redo log of kernel/log.c over a disk that keeps its sectors across  *)
(* a crash, and the part of the buffer cache the log depends on (cached    *)
(* copies, and B_DIRTY as the pin against eviction).                       *)
(*                                                                         *)
(* Every action writes at most one disk sector, so Crash can fall between  *)
(* any two sector writes.  A single sector write is atomic.  The steps of  *)
(* begin_trans and of the end of commit_trans run under log.lock.          *)
(***************************************************************************)
EXTENDS Naturals, Sequences

CONSTANTS Procs,     \* processes that make file system calls
          Blocks,    \* home sectors of the file system
          Vals,      \* contents of a sector
          LOGSIZE,   \* param.h: length of logheader.sector[]
          NLog,      \* sb.nlog: sectors of the on-disk log, the header included
          NoProc,    \* no process
          NotCached  \* a sector with no valid buffer

ASSUME LogAssumption ==
    /\ LOGSIZE \in Nat \ {0}
    /\ NLog \in Nat \ {0}
    /\ NotCached \notin Vals
    /\ NoProc \notin Procs

VARIABLES
    home,    \* disk: the home location of every block
    loghdr,  \* disk: the header's first n sector numbers
    logblk,  \* disk: the log's data sectors
    cache,   \* memory: contents of the valid buffers
    dirty,   \* memory: blocks whose buffer has B_DIRTY set
    lh,      \* memory: log.lh, the first n sector numbers
    busy,    \* memory: log.busy
    tail,    \* memory: the loop variable of install_trans
    pc,      \* memory: where each process is in begin_trans ... commit_trans
    mode     \* "boot", "recover", "up" or "panic"

disk == <<home, loghdr, logblk>>
vars == <<home, loghdr, logblk, cache, dirty, lh, busy, tail, pc, mode>>

\* log_write refuses a transaction once log.lh.n reaches this many blocks.
Capacity == IF LOGSIZE <= NLog - 1 THEN LOGSIZE ELSE NLog - 1

\* Data sectors log.start + 1 .. log.start + log.size - 1.
Slots == 1 .. Capacity

\* "idle": outside a transaction; "sleep": asleep on &log; "retry": woken,
\* about to test log.busy again; "trans": between begin_trans and
\* commit_trans; the rest are the stages of commit_trans.
PCs == {"idle", "sleep", "retry", "trans", "install", "release"}

\* bread: the cached copy if there is one, otherwise the sector itself.
bread(b) == IF cache[b] = NotCached THEN home[b] ELSE cache[b]

\* The state of memory at boot: nothing cached, the log structure zeroed.
Reboot ==
    /\ cache' = [b \in Blocks |-> NotCached]
    /\ dirty' = {}
    /\ lh' = <<>>
    /\ busy' = FALSE
    /\ tail' = 1
    /\ pc' = [p \in Procs |-> "idle"]
    /\ mode' = "boot"

\* mkfs leaves the log area zeroed: an empty header.
Init ==
    /\ home \in [Blocks -> Vals]
    /\ loghdr = <<>>
    /\ logblk \in [Slots -> Vals]
    /\ cache = [b \in Blocks |-> NotCached]
    /\ dirty = {}
    /\ lh = <<>>
    /\ busy = FALSE
    /\ tail = 1
    /\ pc = [p \in Procs |-> "idle"]
    /\ mode = "boot"
-----------------------------------------------------------------------------
(* Buffer cache *)

\* A reader pulls a block into the cache.
Fill(b) ==
    /\ mode = "up"
    /\ cache[b] = NotCached
    /\ cache' = [cache EXCEPT ![b] = home[b]]
    /\ UNCHANGED <<disk, dirty, lh, busy, tail, pc, mode>>

\* bget recycles the buffer of a block that is neither busy nor dirty.
Evict(b) ==
    /\ mode = "up"
    /\ cache[b] # NotCached
    /\ b \notin dirty
    /\ cache' = [cache EXCEPT ![b] = NotCached]
    /\ UNCHANGED <<disk, dirty, lh, busy, tail, pc, mode>>
-----------------------------------------------------------------------------
(* Transactions *)

\* begin_trans, and the test of log.busy again after a wakeup.
begin_trans(p) ==
    /\ mode = "up"
    /\ pc[p] \in {"idle", "retry"}
    /\ IF busy
       THEN pc' = [pc EXCEPT ![p] = "sleep"] /\ UNCHANGED busy
       ELSE pc' = [pc EXCEPT ![p] = "trans"] /\ busy' = TRUE
    /\ UNCHANGED <<disk, cache, dirty, lh, tail, mode>>

\* The first panic test of log_write, which precedes the search for a slot.
Bug_LogHasRoom == Len(lh) <= Capacity
LogHasRoom == Len(lh) < Capacity

\* Where log_write puts block b: its slot if it is already logged
\* (absorption), otherwise the next one.
Bug_LogSlot(b) == Len(lh) + 1
LogSlot(b) ==
    IF \E i \in 1 .. Len(lh) : lh[i] = b
    THEN CHOOSE i \in 1 .. Len(lh) : lh[i] = b
    ELSE Len(lh) + 1

\* B_DIRTY on the buffer of b, "prevent eviction".
Bug_Pin(b) == dirty
Pin(b) == dirty \cup {b}

\* The caller changes the buffer of b to v and calls log_write.
log_write(p, b, v) ==
    /\ mode = "up"
    /\ pc[p] = "trans"
    /\ busy
    /\ LogHasRoom
    /\ logblk' = [logblk EXCEPT ![LogSlot(b)] = v]
    /\ lh' = IF LogSlot(b) = Len(lh) + 1 THEN Append(lh, b) ELSE lh
    /\ cache' = [cache EXCEPT ![b] = v]
    /\ dirty' = Pin(b)
    /\ UNCHANGED <<home, loghdr, busy, tail, pc, mode>>

\* log_write's two panics, taken before it looks for an absorbing slot.
log_write_panic(p) ==
    /\ mode = "up"
    /\ pc[p] = "trans"
    /\ ~LogHasRoom \/ ~busy
    /\ mode' = "panic"
    /\ UNCHANGED <<disk, cache, dirty, lh, busy, tail, pc>>

\* "Write in-memory log header to disk": one sector write.
Bug_write_head == UNCHANGED loghdr
write_head == loghdr' = lh

\* commit_trans, first write_head: the commit point.
commit_trans(p) ==
    /\ mode = "up"
    /\ pc[p] = "trans"
    /\ lh # <<>>
    /\ write_head
    /\ tail' = 1
    /\ pc' = [pc EXCEPT ![p] = "install"]
    /\ UNCHANGED <<home, logblk, cache, dirty, lh, busy, mode>>

\* tail++
Bug_next_tail == tail
next_tail == tail + 1

\* One round of the loop of install_trans, ending with bwrite(dbuf).
install_one ==
    /\ tail <= Len(lh)
    /\ home' = [home EXCEPT ![lh[tail]] = logblk[tail]]
    /\ cache' = [cache EXCEPT ![lh[tail]] = logblk[tail]]
    /\ dirty' = dirty \ {lh[tail]}
    /\ tail' = next_tail

install_trans(p) ==
    /\ mode = "up"
    /\ pc[p] = "install"
    /\ install_one
    /\ UNCHANGED <<loghdr, logblk, lh, busy, pc, mode>>

\* log.lh.n = 0 and the second write_head.
erase_head ==
    /\ tail > Len(lh)
    /\ lh' = <<>>
    /\ loghdr' = <<>>

commit_erase(p) ==
    /\ mode = "up"
    /\ pc[p] = "install"
    /\ erase_head
    /\ pc' = [pc EXCEPT ![p] = "release"]
    /\ UNCHANGED <<home, logblk, cache, dirty, busy, tail, mode>>

\* wakeup(&log), called by p under log.lock: every sleeper tests log.busy again.
Bug_wakeup_log(p) == [pc EXCEPT ![p] = "idle"]
Bug_wakeup_log_trans(p) ==
    [q \in Procs |-> IF q = p THEN "idle"
                     ELSE IF pc[q] = "sleep" THEN "trans" ELSE pc[q]]
wakeup_log(p) ==
    [q \in Procs |-> IF q = p THEN "idle"
                     ELSE IF pc[q] = "sleep" THEN "retry" ELSE pc[q]]

\* The end of commit_trans; a transaction that logged nothing comes
\* straight here.
commit_release(p) ==
    /\ mode = "up"
    /\ pc[p] = "release" \/ (pc[p] = "trans" /\ lh = <<>>)
    /\ busy' = FALSE
    /\ pc' = wakeup_log(p)
    /\ UNCHANGED <<disk, cache, dirty, lh, tail, mode>>
-----------------------------------------------------------------------------
(* Crash and recovery *)

\* Power fails, or a panicked machine is reset: memory is lost.
Crash == Reboot /\ UNCHANGED disk

\* The in-memory header initlog starts from.
Bug_header_read == <<>>
header_read == loghdr

\* initlog, read_head.
read_head ==
    /\ mode = "boot"
    /\ lh' = header_read
    /\ tail' = 1
    /\ mode' = "recover"
    /\ UNCHANGED <<disk, cache, dirty, busy, pc>>

\* recover_from_log: install_trans ...
recover_install ==
    /\ mode = "recover"
    /\ install_one
    /\ UNCHANGED <<loghdr, logblk, lh, busy, pc, mode>>

\* ... then clear the log.
recover_clear ==
    /\ mode = "recover"
    /\ erase_head
    /\ mode' = "up"
    /\ UNCHANGED <<home, logblk, cache, dirty, busy, tail, pc>>

Recovery == read_head \/ recover_install \/ recover_clear

EndTrans(p) == commit_trans(p) \/ install_trans(p) \/ commit_erase(p) \/ commit_release(p)

Next ==
    \/ \E b \in Blocks : Fill(b) \/ Evict(b)
    \/ \E p \in Procs : begin_trans(p) \/ log_write_panic(p) \/ EndTrans(p)
    \/ \E p \in Procs, b \in Blocks, v \in Vals : log_write(p, b, v)
    \/ Crash
    \/ Recovery

Spec == Init /\ [][Next]_vars

\* The kernel keeps executing while the machine stays up: a system call makes
\* finitely many writes and then commits, every disk request completes, and
\* recovery runs to its end.
Fairness ==
    /\ WF_vars(Recovery)
    /\ \A p \in Procs : WF_vars(EndTrans(p))

FairSpec == Spec /\ Fairness
-----------------------------------------------------------------------------
(* Properties *)

Logged(s, b) == \E i \in 1 .. Len(s) : s[i] = b

\* What the blocks hold once the log entries s are installed over home.
Overlay(s) ==
    [b \in Blocks |-> IF Logged(s, b)
                      THEN logblk[CHOOSE i \in 1 .. Len(s) : s[i] = b]
                      ELSE home[b]]

InTrans == {p \in Procs : pc[p] \in {"trans", "install", "release"}}

TypeOK ==
    /\ home \in [Blocks -> Vals]
    /\ loghdr \in Seq(Blocks) /\ Len(loghdr) <= Capacity
    /\ logblk \in [Slots -> Vals]
    /\ cache \in [Blocks -> Vals \cup {NotCached}]
    /\ dirty \subseteq Blocks
    /\ lh \in Seq(Blocks) /\ Len(lh) <= Capacity
    /\ busy \in BOOLEAN
    /\ tail \in 1 .. Capacity + 1
    /\ pc \in [Procs -> PCs]
    /\ mode \in {"boot", "recover", "up", "panic"}

\* log.c, "begin_trans() ensures that only one system call can be in a
\* transaction": log.busy is set exactly while one process is between
\* begin_trans and the end of commit_trans, and nobody sleeps on an idle log.
OneTransaction ==
    /\ \A p, q \in InTrans : p = q
    /\ busy <=> InTrans # {}
    /\ (\E p \in Procs : pc[p] = "sleep") => busy

\* Every block the running system reads, from the cache or from the disk,
\* is the latest one written: the active transaction's copy if it logged the
\* block, the installed one otherwise.  (log_write pins what it logged with
\* B_DIRTY; install_trans writes it home before the pin goes.)
ReadsSeeLatestWrite ==
    mode = "up" => \A b \in Blocks : bread(b) = Overlay(lh)[b]

\* A header on the disk describes a transaction that is complete in the log:
\* distinct sectors, which the in-memory header names too while the commit or
\* the recovery is installing them, and everything below tail is home already.
CommittedLogIsWhole ==
    /\ \A i, j \in 1 .. Len(loghdr) : loghdr[i] = loghdr[j] => i = j
    /\ (mode = "up" /\ (\A p \in Procs : pc[p] # "install")) => loghdr = <<>>
    /\ (mode = "recover" \/ (mode = "up" /\ \E p \in Procs : pc[p] = "install"))
          => /\ lh = loghdr
             /\ \A i \in 1 .. Len(lh) : i < tail => home[lh[i]] = logblk[i]

\* Crash atomicity.  What recovery will reconstruct from the disk is the
\* durable state; what the running system reads is the current one.  The log
\* implements a disk that changes by whole transactions only.
Durable == Overlay(loghdr)
Current == IF mode = "up" THEN Overlay(lh) ELSE Durable
Owner == IF mode = "up" /\ InTrans # {} THEN CHOOSE p \in InTrans : TRUE ELSE NoProc
Abstract == INSTANCE AtomicDisk
                WITH durable <- Durable, current <- Current,
                     owner <- Owner, up <- (mode = "up")
ImplementsAtomicDisk == Abstract!ASpec

\* The home locations change only to what the on-disk header has committed:
\* no step writes a block home before its transaction's commit point.
HomeWritesAreCommitted ==
    [][\A b \in Blocks : home'[b] # home[b] => Logged(loghdr, b) /\ home'[b] = Overlay(loghdr)[b]]_vars

\* If the machine stops crashing, recover_from_log reaches its end: the file
\* system comes up.
RecoveryFinishes ==
    (<>[][~Crash]_vars) => (mode \in {"boot", "recover"} ~> mode = "up")

\* A process asleep in begin_trans is woken: every transaction runs through
\* its commit to the wakeup(&log) at its end, unless the machine goes down.
WaitersAreWoken ==
    \A p \in Procs : pc[p] = "sleep" ~> (pc[p] = "retry" \/ mode # "up")

\* The log goes on: a machine that stays up finishes its recovery, and then
\* every process that waits for a transaction is woken.
LogProgresses == RecoveryFinishes /\ WaitersAreWoken
=============================================================================
