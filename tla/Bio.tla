-------------------------------- MODULE Bio ---------------------------------
(***************************************************************************)
(* kernel/bio.c and kernel/ide.c: the buffer cache, the queue of disk      *)
(* requests and the interrupt that completes them.                         *)
(*                                                                         *)
(* bget and brelse run under bcache.lock, iderw and ideintr under idelock; *)
(* each is one step, up to a sleep.  (device, sector) is one name.  The    *)
(* callers are the file system's: they read a sector, change it, then      *)
(* write it or, as log_write does, leave it pinned with B_DIRTY, and       *)
(* release it.                                                             *)
(***************************************************************************)
EXTENDS Naturals, Sequences, FiniteSets, SequencesExt

CONSTANTS Procs, Sectors, Vals,
          NBUF,      \* param.h: buffers in the cache
          MaxPinned, \* bound on the sectors that callers leave pinned
          FaultyDisk,\* whether a command may end with IDE_ERR or IDE_DF
          NoProc, NoSector, NoData

ASSUME BioAssumption ==
    /\ NBUF \in Nat \ {0}
    /\ MaxPinned \in Nat
    /\ FaultyDisk \in BOOLEAN
    /\ NoProc \notin Procs
    /\ NoSector \notin Sectors
    /\ NoData \notin Vals

Bufs == 1 .. NBUF
NoBuf == 0

VARIABLES
    sector, flags, data, \* struct buf
    mru,       \* bcache.head's list, most recently used first
    idequeue,
    cmd,       \* the disk's command registers and data port
    disk,
    pc, want,  \* where a process is, and the sector it asked for
    held       \* the buffer a process has, or sleeps for

bcache == <<sector, flags, data, mru>>
ide == <<idequeue, cmd, disk>>
vars == <<bcache, ide, pc, want, held>>

Idle == [op |-> "idle", sector |-> NoSector, data |-> NoData, ok |-> TRUE]

\* binit links every buffer in at the head of the list.
binit == [i \in Bufs |-> NBUF + 1 - i]

Init ==
    /\ sector = [b \in Bufs |-> NoSector]
    /\ flags = [b \in Bufs |-> {}]
    /\ data = [b \in Bufs |-> NoData]
    /\ mru = binit
    /\ idequeue = <<>>
    /\ cmd = Idle
    /\ disk \in [Sectors -> Vals]
    /\ pc = [p \in Procs |-> "idle"]
    /\ want = [p \in Procs |-> NoSector]
    /\ held = [p \in Procs |-> NoBuf]

\* wakeup(b): sleepers on b, in bget and in iderw alike, look again.
wakeup(b, sleeping) ==
    [p \in Procs |-> IF held[p] = b /\ sleeping[p] = "bget_sleep" THEN "bget"
                     ELSE IF held[p] = b /\ sleeping[p] = "ide_sleep" THEN "ide" ELSE sleeping[p]]
-----------------------------------------------------------------------------
(* bio.c *)

\* A caller asks for sector s.
bread(p, s) ==
    /\ pc[p] = "idle"
    /\ pc' = [pc EXCEPT ![p] = "bget"]
    /\ want' = [want EXCEPT ![p] = s]
    /\ UNCHANGED <<bcache, ide, held>>

\* "Is the sector already cached?"
Bug_Cached(s) == {b \in Bufs : sector[b] = s /\ "BUSY" \notin flags[b]}
Cached(s) == {b \in Bufs : sector[b] = s}

\* bread goes to the disk only for a buffer that is not B_VALID.
bread_pc(f) == IF "VALID" \in f THEN "have" ELSE "iderw"

bget_cached(p) ==
    /\ pc[p] = "bget"
    /\ \E b \in Cached(want[p]) :
        /\ "BUSY" \notin flags[b]
        /\ flags' = [flags EXCEPT ![b] = @ \cup {"BUSY"}]
        /\ held' = [held EXCEPT ![p] = b]
        /\ pc' = [pc EXCEPT ![p] = bread_pc(flags[b])]
    /\ UNCHANGED <<sector, data, mru, ide, want>>

\* sleep(b, &bcache.lock), then "goto loop".
bget_sleep(p) ==
    /\ pc[p] = "bget"
    /\ \E b \in Cached(want[p]) :
        /\ "BUSY" \in flags[b]
        /\ held' = [held EXCEPT ![p] = b]
    /\ pc' = [pc EXCEPT ![p] = "bget_sleep"]
    /\ UNCHANGED <<bcache, ide, want>>

\* "recycle some non-busy and clean buffer", the least recently used.
Bug_Recyclable(b) == "BUSY" \notin flags[b]
Bug_Recyclable_busy(b) == "DIRTY" \notin flags[b]
Bug_Recyclable_unused(b) == flags[b] = {}
Recyclable(b) == "BUSY" \notin flags[b] /\ "DIRTY" \notin flags[b]

\* b->flags = B_BUSY: what the buffer held before is no longer valid.
Bug_recycled(b) == flags[b] \cup {"BUSY"}
recycled(b) == {"BUSY"}

bget_recycle(p) ==
    LET clean == {i \in Bufs : Recyclable(mru[i])}
        b == mru[CHOOSE i \in clean : \A j \in clean : j <= i] IN
    /\ pc[p] = "bget"
    /\ Cached(want[p]) = {}
    /\ IF clean # {}
       THEN /\ sector' = [sector EXCEPT ![b] = want[p]]
            /\ flags' = [flags EXCEPT ![b] = recycled(b)]
            /\ held' = [held EXCEPT ![p] = b]
            /\ pc' = [pc EXCEPT ![p] = bread_pc(recycled(b))]
       ELSE /\ pc' = [pc EXCEPT ![p] = "panic"] \* "bget: no buffers"
            /\ UNCHANGED <<sector, flags, held>>
    /\ UNCHANGED <<data, mru, ide, want>>

\* brelse: to the head of the list, and wake those who wait for the buffer.
Bug_to_front(b) == <<b>> \o mru
to_front(b) == <<b>> \o Remove(mru, b)

Bug_brelse_wakeup(b, ps) == ps
brelse_wakeup(b, ps) == wakeup(b, ps)

\* A changed buffer is not released before it is written or pinned.
brelse(p) ==
    LET b == held[p] IN
    /\ pc[p] = "have" \/ (pc[p] = "changed" /\ "DIRTY" \in flags[b])
    /\ mru' = to_front(b)
    /\ flags' = [flags EXCEPT ![b] = @ \ {"BUSY"}]
    /\ pc' = brelse_wakeup(b, [pc EXCEPT ![p] = "idle"])
    /\ held' = [held EXCEPT ![p] = NoBuf]
    /\ want' = [want EXCEPT ![p] = NoSector]
    /\ UNCHANGED <<sector, data, ide>>
-----------------------------------------------------------------------------
(* ide.c *)

\* idestart: the command for b; a write takes the data with it.
idestart(b) ==
    IF "DIRTY" \in flags[b]
    THEN [op |-> "write", sector |-> sector[b], data |-> data[b], ok |-> TRUE]
    ELSE [op |-> "read", sector |-> sector[b], data |-> NoData, ok |-> TRUE]

\* iderw: append b, start the disk if it was idle, sleep.
iderw(p, b, cmd0) ==
    /\ idequeue' = Append(idequeue, b)
    /\ cmd' = IF idequeue = <<>> THEN cmd0 ELSE cmd
    /\ pc' = [pc EXCEPT ![p] = "ide_sleep"]
    /\ UNCHANGED <<sector, data, mru, disk, want, held>>

bread_iderw(p) ==
    /\ pc[p] = "iderw"
    /\ iderw(p, held[p], idestart(held[p]))
    /\ UNCHANGED flags

bwrite(p) ==
    LET b == held[p] IN
    /\ pc[p] \in {"have", "changed"}
    /\ flags' = [flags EXCEPT ![b] = @ \cup {"DIRTY"}]
    /\ iderw(p, b, [op |-> "write", sector |-> sector[b], data |-> data[b], ok |-> TRUE])

\* iderw: "Wait for request to finish."
iderw_done(f) == "VALID" \in f /\ "DIRTY" \notin f

iderw_wait(p) ==
    /\ pc[p] = "ide"
    /\ pc' = [pc EXCEPT ![p] = IF iderw_done(flags[held[p]]) THEN "have" ELSE "ide_sleep"]
    /\ UNCHANGED <<bcache, ide, want, held>>

\* The disk executes a command and raises its interrupt.
Disk ==
    /\ cmd.op \in {"read", "write"}
    /\ \E ok \in {TRUE, ~FaultyDisk} :
        /\ disk' = IF cmd.op = "write" /\ ok THEN [disk EXCEPT ![cmd.sector] = cmd.data] ELSE disk
        /\ cmd' = [cmd EXCEPT !.op = "done", !.ok = ok,
                              !.data = IF cmd.op = "read" THEN disk[cmd.sector] ELSE NoData]
    /\ UNCHANGED <<bcache, idequeue, pc, want, held>>

\* ideintr: "Start disk on next buf in queue."
Bug_ideintr_next(q) == Idle
ideintr_next(q) == IF q = <<>> THEN Idle ELSE idestart(Head(q))

\* ideintr: the first buffer of the queue is the active request.  A read that
\* failed leaves b->data as it is; a write is not checked.
ideintr ==
    LET b == Head(idequeue) IN
    /\ cmd.op = "done"
    /\ data' = IF "DIRTY" \notin flags[b] /\ cmd.ok THEN [data EXCEPT ![b] = cmd.data] ELSE data
    /\ flags' = [flags EXCEPT ![b] = (@ \cup {"VALID"}) \ {"DIRTY"}]
    /\ idequeue' = Tail(idequeue)
    /\ pc' = wakeup(b, pc)
    /\ cmd' = ideintr_next(Tail(idequeue))
    /\ UNCHANGED <<sector, mru, disk, want, held>>
-----------------------------------------------------------------------------
(* What callers do with a buffer they have *)

Modify(p, v) ==
    /\ pc[p] = "have"
    /\ data' = [data EXCEPT ![held[p]] = v]
    /\ pc' = [pc EXCEPT ![p] = "changed"]
    /\ UNCHANGED <<sector, flags, mru, ide, want, held>>

\* log_write: "b->flags |= B_DIRTY; // XXX prevent eviction"
Pinned == {b \in Bufs : "DIRTY" \in flags[b] /\ b \notin ToSet(idequeue)}
Pin(p) ==
    /\ pc[p] = "changed"
    /\ Cardinality(Pinned \cup {held[p]}) <= MaxPinned
    /\ flags' = [flags EXCEPT ![held[p]] = @ \cup {"DIRTY"}]
    /\ UNCHANGED <<sector, data, mru, ide, pc, want, held>>

Step(p) ==
    \/ bget_cached(p) \/ bget_sleep(p) \/ bget_recycle(p)
    \/ bread_iderw(p) \/ iderw_wait(p)

\* panic() stops the machine.
Panicked == \E p \in Procs : pc[p] = "panic"
Halted == Panicked /\ UNCHANGED vars

Next ==
    \/ /\ ~Panicked
       /\ \/ \E p \in Procs :
                \/ \E s \in Sectors : bread(p, s)
                \/ Step(p) \/ bwrite(p) \/ brelse(p) \/ Pin(p)
                \/ \E v \in Vals : Modify(p, v)
          \/ Disk
          \/ ideintr
    \/ Halted

Spec == Init /\ [][Next]_vars

\* The disk completes its commands and interrupts; a process that is not
\* asleep runs; one that changed a buffer writes it, and no caller keeps a
\* buffer for ever ("do not keep them longer than necessary").
Fairness ==
    /\ WF_vars(~Panicked /\ (Disk \/ ideintr))
    /\ \A p \in Procs :
        /\ WF_vars(~Panicked /\ (Step(p) \/ (pc[p] = "changed" /\ bwrite(p))))
        /\ SF_vars(~Panicked /\ brelse(p))

FairSpec == Spec /\ Fairness
-----------------------------------------------------------------------------
(* Properties *)

Holds(p, b) == held[p] = b /\ pc[p] \in {"iderw", "ide_sleep", "ide", "have", "changed"}

TypeOK ==
    /\ sector \in [Bufs -> Sectors \cup {NoSector}]
    /\ flags \in [Bufs -> SUBSET {"BUSY", "VALID", "DIRTY"}]
    /\ data \in [Bufs -> Vals \cup {NoData}]
    /\ mru \in [Bufs -> Bufs] /\ ToSet(mru) = Bufs
    /\ idequeue \in Seq(Bufs)
    /\ cmd.op \in {"idle", "read", "write", "done"}
    /\ disk \in [Sectors -> Vals]
    /\ pc \in [Procs -> {"idle", "bget", "bget_sleep", "iderw", "ide_sleep", "ide",
                         "have", "changed", "panic"}]
    /\ want \in [Procs -> Sectors \cup {NoSector}]
    /\ held \in [Procs -> Bufs \cup {NoBuf}]

\* "a synchronization point for disk blocks": a sector is never in two
\* buffers, though bget drops bcache.lock to sleep between its scans.
OneBufferPerSector ==
    \A b, c \in Bufs : sector[b] = sector[c] /\ sector[b] # NoSector => b = c

\* "Only one process at a time can use a buffer", the one that asked for the
\* sector which is in it, and B_BUSY says so.
OneUserPerBuffer ==
    /\ \A b \in Bufs : "BUSY" \in flags[b] <=> \E p \in Procs : Holds(p, b)
    /\ \A p, q \in Procs : \A b \in Bufs : Holds(p, b) /\ Holds(q, b) => p = q
    /\ \A p \in Procs : \A b \in Bufs : Holds(p, b) => sector[b] = want[p]

\* "idequeue points to the buf now being read/written to the disk": the
\* disk's command is for the head of the queue, a queued buffer is queued
\* once and its user waits for it; so ideintr completes the right buffer.
QueueMatchesDisk ==
    /\ cmd = Idle <=> idequeue = <<>>
    /\ idequeue # <<>> => cmd.sector = sector[Head(idequeue)]
    /\ IsInjective(idequeue)
    /\ \A b \in ToSet(idequeue) : \E p \in Procs : Holds(p, b) /\ pc[p] \in {"ide_sleep", "ide"}

\* "B_VALID: the buffer data has been read from the disk", and "B_DIRTY: the
\* buffer data has been modified and needs to be written to disk": a buffer
\* that is valid and clean equals its sector, but for a change its user has
\* not yet written.
ValidMeansRead ==
    \A b \in Bufs : "VALID" \in flags[b] /\ "DIRTY" \notin flags[b] =>
        \/ data[b] = disk[sector[b]]
        \/ \E p \in Procs : Holds(p, b) /\ pc[p] = "changed"

\* "bget: no buffers": bget panics only if the buffers that processes have
\* and the pinned sectors fill the cache.
EnoughBuffers ==
    Panicked => Cardinality({p \in Procs : \E b \in Bufs : Holds(p, b)}) + Cardinality(Pinned) >= NBUF

\* The cache implements a store of sectors with one user each: a change is
\* neither lost by recycling nor overtaken by a late read.
Content ==
    [s \in Sectors |->
        IF \E b \in Cached(s) : "VALID" \in flags[b]
        THEN data[CHOOSE b \in Cached(s) : "VALID" \in flags[b]]
        ELSE disk[s]]
User ==
    [s \in Sectors |->
        IF \E p \in Procs : want[p] = s /\ Holds(p, held[p])
        THEN CHOOSE p \in Procs : want[p] = s /\ Holds(p, held[p])
        ELSE NoProc]
Store == INSTANCE BlockStore WITH content <- Content, stable <- disk, user <- User
ImplementsBlockStore == Store!BSSpec

\* Every wait ends: a request that is queued completes, whatever else is in
\* the queue, and a process that sleeps in bget for a buffer is woken.
WaitsEnd ==
    \A p \in Procs : pc[p] \in {"iderw", "bget_sleep"} ~> (pc[p] \in {"have", "bget"} \/ Panicked)

\* The cache and the driver's queue agree with each other and with the disk,
\* and bget runs out of buffers only when the load exceeds them.
CacheIsSound ==
    /\ TypeOK
    /\ OneBufferPerSector /\ OneUserPerBuffer
    /\ QueueMatchesDisk /\ ValidMeansRead
    /\ EnoughBuffers
=============================================================================
