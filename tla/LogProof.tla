------------------------------ MODULE LogProof ------------------------------
(***************************************************************************)
(* The redo log is correct for every set of processes, blocks and values   *)
(* and every size of the log.                                              *)
(***************************************************************************)
EXTENDS Log, TLAPS

\* The log's capacity is a natural number.
LEMMA CapacityType == Capacity \in Nat
BY LogAssumption, SMT DEF Capacity

\* Where log_write puts a block: in its own slot, or in the next free one
\* if the block is not logged yet (the search loop of log_write).
LEMMA LogSlotFacts ==
    ASSUME NEW b \in Blocks, lh \in Seq(Blocks)
    PROVE  /\ LogSlot(b) \in 1 .. Len(lh) + 1
           /\ LogSlot(b) # Len(lh) + 1 => lh[LogSlot(b)] = b
           /\ LogSlot(b) = Len(lh) + 1 => \A i \in 1 .. Len(lh) : lh[i] # b
<1>1. Len(lh) \in Nat
  OBVIOUS
<1>2. CASE \E i \in 1 .. Len(lh) : lh[i] = b
  <2>1. LogSlot(b) \in 1 .. Len(lh) /\ lh[LogSlot(b)] = b
    BY <1>2, Zenon DEF LogSlot
  <2>2. QED
    BY <1>1, <2>1, SMT
<1>3. CASE ~ \E i \in 1 .. Len(lh) : lh[i] = b
  <2>1. LogSlot(b) = Len(lh) + 1
    BY <1>3, Zenon DEF LogSlot
  <2>2. QED
    BY <1>1, <1>3, <2>1, SMT
<1>4. QED
  BY <1>2, <1>3, Zenon
-----------------------------------------------------------------------------
(* Type correctness *)

\* Every step of the log keeps the types of its variables; in particular
\* log_write never runs past the end of log.lh.sector[].
LEMMA TypeStep == TypeOK /\ [Next]_vars => TypeOK'
<1> SUFFICES ASSUME TypeOK, [Next]_vars PROVE TypeOK'
  OBVIOUS
<1> USE CapacityType
<1>1. ASSUME NEW b \in Blocks, Fill(b) \/ Evict(b) PROVE TypeOK'
  BY <1>1, SMT DEF Fill, Evict, TypeOK, disk
<1>2. ASSUME NEW p \in Procs, begin_trans(p) PROVE TypeOK'
  <2>1. (pc' = [pc EXCEPT ![p] = "sleep"] /\ busy' = busy) \/ (pc' = [pc EXCEPT ![p] = "trans"] /\ busy' = TRUE)
    BY <1>2, Zenon DEF begin_trans
  <2>2. pc' \in [Procs -> PCs] /\ busy' \in BOOLEAN
    BY <2>1, Zenon DEF TypeOK, PCs
  <2>3. QED
    BY <1>2, <2>2, SMT DEF begin_trans, TypeOK, disk
<1>3. ASSUME NEW p \in Procs, NEW b \in Blocks, NEW v \in Vals, log_write(p, b, v) PROVE TypeOK'
  <2>1. lh \in Seq(Blocks) /\ Len(lh) \in Nat /\ Len(lh) < Capacity
    BY <1>3, SMT DEF log_write, TypeOK, LogHasRoom
  <2>2. LogSlot(b) \in 1 .. Len(lh) + 1
    BY <2>1, LogSlotFacts, Zenon
  <2>3. lh' \in Seq(Blocks) /\ Len(lh') <= Capacity
    BY <1>3, <2>1, SMT DEF log_write
  <2>4. logblk' \in [Slots -> Vals] /\ cache' \in [Blocks -> Vals \cup {NotCached}]
    BY <1>3, <2>1, <2>2, SMT DEF log_write, TypeOK, Slots
  <2>5. QED
    BY <1>3, <2>3, <2>4, SMT DEF log_write, Pin, TypeOK
<1>4. ASSUME NEW p \in Procs, log_write_panic(p) PROVE TypeOK'
  BY <1>4, SMT DEF log_write_panic, TypeOK, disk
<1>5. ASSUME NEW p \in Procs, commit_trans(p) PROVE TypeOK'
  BY <1>5, SMT DEF commit_trans, write_head, TypeOK, PCs
<1>6. ASSUME install_one, UNCHANGED <<loghdr, logblk, lh, busy, pc, mode>> PROVE TypeOK'
  <2>1. tail \in 1 .. Len(lh) /\ tail \in Slots /\ lh[tail] \in Blocks /\ logblk[tail] \in Vals
    BY <1>6, SMT DEF install_one, TypeOK, Slots
  <2>2. tail' \in 1 .. Capacity + 1
    BY <1>6, <2>1, SMT DEF install_one, next_tail, Slots
  <2>3. QED
    BY <1>6, <2>1, <2>2, SMT DEF install_one, TypeOK
<1>7. ASSUME NEW p \in Procs, commit_erase(p) PROVE TypeOK'
  <2>1. pc' \in [Procs -> PCs]
    BY <1>7, Zenon DEF commit_erase, TypeOK, PCs
  <2>2. QED
    BY <1>7, <2>1, SMT DEF commit_erase, erase_head, TypeOK
<1>8. ASSUME NEW p \in Procs, commit_release(p) PROVE TypeOK'
  <2>1. pc' \in [Procs -> PCs] /\ busy' \in BOOLEAN
    BY <1>8, Zenon DEF commit_release, wakeup_log, TypeOK, PCs
  <2>2. QED
    BY <1>8, <2>1, SMT DEF commit_release, TypeOK, disk
<1>9. CASE Crash
  <2>1. pc' \in [Procs -> PCs] /\ busy' \in BOOLEAN /\ cache' \in [Blocks -> Vals \cup {NotCached}]
    BY <1>9, Zenon DEF Crash, Reboot, PCs
  <2>2. QED
    BY <1>9, <2>1, SMT DEF Crash, Reboot, TypeOK, disk
<1>10. CASE read_head
  BY <1>10, SMT DEF read_head, header_read, TypeOK, disk
<1>11. CASE recover_clear
  BY <1>11, SMT DEF recover_clear, erase_head, TypeOK
<1>12. CASE UNCHANGED vars
  BY <1>12, SMT DEF vars, TypeOK
<1>13. QED
  BY <1>1, <1>2, <1>3, <1>4, <1>5, <1>6, <1>7, <1>8, <1>9, <1>10, <1>11, <1>12, Zenon
     DEF Next, EndTrans, Recovery, install_trans, recover_install

\* Type correctness of the log, crashes and recovery included.
THEOREM TypeCorrect == Spec => []TypeOK
<1>1. Init => TypeOK
  <2> SUFFICES ASSUME Init PROVE TypeOK
    OBVIOUS
  <2>1. pc \in [Procs -> PCs] /\ busy \in BOOLEAN /\ cache \in [Blocks -> Vals \cup {NotCached}]
    BY Zenon DEF Init, PCs
  <2>2. QED
    BY <2>1, CapacityType, SMT DEF Init, TypeOK
<1>2. QED
  BY <1>1, TypeStep, PTL DEF Spec
-----------------------------------------------------------------------------
(* The inductive invariant *)

\* A process is copying committed blocks home.
Committing == \E p \in Procs : pc[p] = "install"

Distinct(s) == \A i, j \in 1 .. Len(s) : s[i] = s[j] => i = j

\* Between boot and the end of recovery no process runs.
Quiet == mode \in {"boot", "recover"} => ~busy /\ \A p \in Procs : pc[p] = "idle"

\* The in-memory header is empty outside a transaction and equals the header
\* on the disk while that one is not empty.
Headers ==
    /\ Distinct(lh) /\ Distinct(loghdr)
    /\ mode = "recover" => lh = loghdr
    /\ mode = "up" => /\ Committing => lh = loghdr
                      /\ ~Committing => loghdr = <<>>
                      /\ \A p \in Procs : pc[p] = "release" => lh = <<>>
                      /\ ~busy => lh = <<>>

\* Entries of lh from here on have their block pinned in the cache.
From == IF mode = "recover" \/ Committing THEN tail ELSE 1

\* What has been copied is home.
Copied ==
    mode \in {"recover", "up"} => \A i \in 1 .. Len(lh) : i < From => home[lh[i]] = logblk[i]

\* What has not is in the cache and pinned; every other cached block is
\* clean.
Coherent ==
    /\ mode = "boot" => \A b \in Blocks : cache[b] = NotCached
    /\ mode = "recover" => \A b \in Blocks : cache[b] \in {NotCached, home[b]}
    /\ mode = "up" =>
        /\ \A i \in 1 .. Len(lh) : i >= From => lh[i] \in dirty /\ cache[lh[i]] = logblk[i]
        /\ \A b \in Blocks :
              (\A i \in 1 .. Len(lh) : lh[i] = b => i < From) => cache[b] \in {NotCached, home[b]}

IInv == TypeOK /\ OneTransaction /\ Quiet /\ Headers /\ Copied /\ Coherent

\* A process that moves on inside its transaction leaves the set InTrans as
\* it is.
LEMMA StaysInTrans ==
    ASSUME TypeOK, NEW p \in InTrans, NEW l \in {"trans", "install", "release"},
           pc' = [pc EXCEPT ![p] = l]
    PROVE  /\ InTrans' = InTrans
           /\ \A q \in Procs : pc'[q] = "sleep" <=> pc[q] = "sleep"
BY SMT DEF InTrans, TypeOK, PCs

\* begin_trans and commit_trans keep the transactions apart: log.busy changes
\* hands only while nobody is in a transaction.
LEMMA OneTransactionStep == TypeOK /\ OneTransaction /\ [Next]_vars => OneTransaction'
<1> SUFFICES ASSUME TypeOK, OneTransaction, [Next]_vars PROVE OneTransaction'
  OBVIOUS
<1>0. ASSUME UNCHANGED <<pc, busy>> PROVE OneTransaction'
  BY <1>0, Zenon DEF OneTransaction, InTrans
<1>1. ASSUME NEW b \in Blocks, Fill(b) \/ Evict(b) PROVE OneTransaction'
  BY <1>0, <1>1, Zenon DEF Fill, Evict
<1>2. ASSUME NEW p \in Procs, begin_trans(p) PROVE OneTransaction'
  <2>1. p \notin InTrans
    BY <1>2, SMT DEF begin_trans, InTrans
  <2>2. CASE busy
    <3>1. pc' = [pc EXCEPT ![p] = "sleep"] /\ busy'
      BY <1>2, <2>2, Zenon DEF begin_trans
    <3>2. InTrans' = InTrans
      BY <2>1, <3>1, SMT DEF InTrans, TypeOK
    <3>3. QED
      BY <2>2, <3>1, <3>2, Zenon DEF OneTransaction
  <2>3. CASE ~busy
    <3>1. pc' = [pc EXCEPT ![p] = "trans"] /\ busy'
      BY <1>2, <2>3, Zenon DEF begin_trans
    <3>2. InTrans' = InTrans \cup {p} /\ InTrans = {}
      <4>1. InTrans' = InTrans \cup {p}
        BY <3>1, SMT DEF InTrans, TypeOK
      <4>2. InTrans = {}
        BY <2>3, Zenon DEF OneTransaction
      <4>3. QED
        BY <4>1, <4>2
    <3>3. QED
      BY <3>1, <3>2, Zenon DEF OneTransaction
  <2>4. QED
    BY <2>2, <2>3, Zenon
<1>3. ASSUME NEW p \in Procs, NEW b \in Blocks, NEW v \in Vals, log_write(p, b, v) PROVE OneTransaction'
  BY <1>0, <1>3, Zenon DEF log_write
<1>4. ASSUME NEW p \in Procs, log_write_panic(p) PROVE OneTransaction'
  BY <1>0, <1>4, Zenon DEF log_write_panic
<1>5. ASSUME NEW p \in Procs, commit_trans(p) \/ commit_erase(p) PROVE OneTransaction'
  <2>1. PICK l \in {"trans", "install", "release"} : pc' = [pc EXCEPT ![p] = l]
    BY <1>5, Zenon DEF commit_trans, commit_erase
  <2>2. p \in InTrans /\ busy' = busy
    BY <1>5, Zenon DEF commit_trans, commit_erase, InTrans
  <2>3. QED
    BY <2>1, <2>2, StaysInTrans, Zenon DEF OneTransaction
<1>6. ASSUME install_one, UNCHANGED <<loghdr, logblk, lh, busy, pc, mode>> PROVE OneTransaction'
  BY <1>0, <1>6, Zenon
<1>8. ASSUME NEW p \in Procs, commit_release(p) PROVE OneTransaction'
  <2>1. p \in InTrans /\ ~busy' /\ pc' = wakeup_log(p)
    BY <1>8, Zenon DEF commit_release, InTrans
  <2>2. InTrans' = {} /\ \A q \in Procs : pc'[q] # "sleep"
    <3>1. \A q \in Procs : q # p => pc[q] \notin {"trans", "install", "release"}
      BY <2>1, Zenon DEF OneTransaction, InTrans
    <3>2. QED
      BY <2>1, <3>1, SMT DEF wakeup_log, InTrans
  <2>3. QED
    BY <2>1, <2>2, Zenon DEF OneTransaction
<1>9. CASE Crash
  BY <1>9, Zenon DEF Crash, Reboot, OneTransaction, InTrans
<1>10. CASE read_head \/ recover_clear
  BY <1>0, <1>10, Zenon DEF read_head, recover_clear
<1>11. CASE UNCHANGED vars
  BY <1>0, <1>11, Zenon DEF vars
<1>12. QED
  BY <1>1, <1>2, <1>3, <1>4, <1>5, <1>6, <1>8, <1>9, <1>10, <1>11, Zenon
     DEF Next, EndTrans, Recovery, install_trans, recover_install

\* While a process is in a transaction no other one is.
LEMMA Alone ==
    ASSUME OneTransaction, NEW p \in Procs, pc[p] \in {"trans", "install", "release"}
    PROVE  /\ busy
           /\ \A q \in Procs : q # p => pc[q] \notin {"trans", "install", "release"}
           /\ Committing <=> pc[p] = "install"
BY Zenon DEF OneTransaction, InTrans, Committing

\* No process starts before recovery is over.
LEMMA QuietStep == Quiet /\ [Next]_vars => Quiet'
<1> SUFFICES ASSUME Quiet, [Next]_vars PROVE Quiet'
  OBVIOUS
<1>1. ASSUME mode = "up", mode' \in {"up", "panic"} PROVE Quiet'
  BY <1>1, Zenon DEF Quiet
<1>2. ASSUME UNCHANGED <<pc, busy>>, mode = mode' \/ mode \in {"boot", "recover"} PROVE Quiet'
  BY <1>2, Zenon DEF Quiet
<1>3. CASE Crash
  BY <1>3, Zenon DEF Crash, Reboot, Quiet
<1>4. CASE Recovery
  BY <1>2, <1>4, Zenon DEF Recovery, read_head, recover_install, recover_clear
<1>5. CASE \E b \in Blocks : Fill(b) \/ Evict(b)
  BY <1>1, <1>5, Zenon DEF Fill, Evict
<1>6. CASE \E p \in Procs : begin_trans(p) \/ log_write_panic(p) \/ EndTrans(p)
  BY <1>1, <1>6, Zenon DEF begin_trans, log_write_panic, EndTrans, commit_trans, install_trans,
                           commit_erase, commit_release
<1>7. CASE \E p \in Procs, b \in Blocks, v \in Vals : log_write(p, b, v)
  BY <1>1, <1>7, Zenon DEF log_write
<1>8. CASE UNCHANGED vars
  BY <1>2, <1>8, Zenon DEF vars
<1>9. QED
  BY <1>3, <1>4, <1>5, <1>6, <1>7, <1>8, Zenon DEF Next

\* Absorption keeps the sectors of the log distinct.
LEMMA LogWriteDistinct ==
    ASSUME TypeOK, Distinct(lh), NEW p \in Procs, NEW b \in Blocks, NEW v \in Vals, log_write(p, b, v)
    PROVE  Distinct(lh')
<1>1. lh \in Seq(Blocks) /\ Len(lh) \in Nat
  BY SMT DEF TypeOK
<1>2. CASE LogSlot(b) # Len(lh) + 1
  BY <1>2, Zenon DEF log_write, Distinct
<1>3. CASE LogSlot(b) = Len(lh) + 1
  <2>1. lh' = Append(lh, b)
    BY <1>3, Zenon DEF log_write
  <2>2. \A i \in 1 .. Len(lh) : lh[i] # b
    BY <1>1, <1>3, LogSlotFacts, Zenon
  <2>3. QED
    BY <1>1, <2>1, <2>2, SMT DEF Distinct
<1>4. QED
  BY <1>2, <1>3, Zenon

\* The two headers agree as the stages of a commit and of recovery require.
LEMMA HeadersStep ==
    TypeOK /\ OneTransaction /\ Quiet /\ Headers /\ [Next]_vars => Headers'
<1> SUFFICES ASSUME TypeOK, OneTransaction, Quiet, Headers, [Next]_vars PROVE Headers'
  OBVIOUS
<1>0. Distinct(<<>>)
  BY SMT DEF Distinct
<1>1. ASSUME NEW b \in Blocks, Fill(b) \/ Evict(b) PROVE Headers'
  BY <1>1, Zenon DEF Fill, Evict, disk, Headers, Distinct, Committing
<1>2. ASSUME NEW p \in Procs, begin_trans(p) PROVE Headers'
  <2>1. UNCHANGED <<lh, loghdr>> /\ mode = "up" /\ mode' = "up"
    BY <1>2, Zenon DEF begin_trans, disk
  <2>2. pc' \in {[pc EXCEPT ![p] = "sleep"], [pc EXCEPT ![p] = "trans"]} /\ pc[p] \in {"idle", "retry"} /\ busy'
    BY <1>2, Zenon DEF begin_trans
  <2>3. /\ Committing' <=> Committing
        /\ \A q \in Procs : pc'[q] = "release" => pc[q] = "release"
    BY <2>2, SMT DEF Committing, TypeOK
  <2>4. QED
    BY <2>1, <2>2, <2>3, Zenon DEF Headers
<1>3. ASSUME NEW p \in Procs, NEW b \in Blocks, NEW v \in Vals, log_write(p, b, v) PROVE Headers'
  <2>1. UNCHANGED <<loghdr, busy, pc, mode>> /\ mode = "up" /\ pc[p] = "trans"
    BY <1>3, Zenon DEF log_write
  <2>2. busy /\ ~Committing /\ \A q \in Procs : pc[q] # "release"
    BY <2>1, Alone, Zenon
  <2>3. Distinct(lh')
    BY <1>3, LogWriteDistinct, Zenon DEF Headers
  <2>4. QED
    BY <2>1, <2>2, <2>3, Zenon DEF Headers, Committing
<1>4. ASSUME NEW p \in Procs, log_write_panic(p) PROVE Headers'
  BY <1>4, Zenon DEF log_write_panic, disk, Headers
<1>5. ASSUME NEW p \in Procs, commit_trans(p) PROVE Headers'
  <2>1. /\ mode' = "up" /\ pc[p] = "trans" /\ pc' = [pc EXCEPT ![p] = "install"]
        /\ lh' = lh /\ loghdr' = lh /\ busy' = busy
    BY <1>5, Zenon DEF commit_trans, write_head
  <2>2. busy /\ \A q \in Procs : pc[q] # "release"
    BY <2>1, Alone, Zenon
  <2>3. Committing' /\ \A q \in Procs : pc'[q] # "release"
    BY <2>1, <2>2, SMT DEF Committing, TypeOK
  <2>4. QED
    BY <2>1, <2>2, <2>3, Zenon DEF Headers
<1>6. ASSUME UNCHANGED <<loghdr, logblk, lh, busy, pc, mode>> PROVE Headers'
  BY <1>6, Zenon DEF Headers, Committing
<1>7. ASSUME NEW p \in Procs, commit_erase(p) PROVE Headers'
  <2>1. /\ mode' = "up" /\ pc[p] = "install" /\ pc' = [pc EXCEPT ![p] = "release"]
        /\ lh' = <<>> /\ loghdr' = <<>>
    BY <1>7, Zenon DEF commit_erase, erase_head
  <2>2. \A q \in Procs : q # p => pc[q] # "install"
    BY <2>1, Alone, Zenon
  <2>3. ~Committing'
    BY <2>1, <2>2, SMT DEF Committing, TypeOK
  <2>4. QED
    BY <1>0, <2>1, <2>3, Zenon DEF Headers
<1>8. ASSUME NEW p \in Procs, commit_release(p) PROVE Headers'
  <2>1. /\ mode = "up" /\ mode' = "up" /\ pc[p] \in {"trans", "release"} /\ pc' = wakeup_log(p)
        /\ UNCHANGED <<lh, loghdr>> /\ lh = <<>>
    BY <1>8, Zenon DEF commit_release, disk, Headers
  <2>2. ~Committing /\ \A q \in Procs : q # p => pc[q] # "install"
    BY <2>1, Alone, Zenon
  <2>3. ~Committing'
    BY <2>1, <2>2, SMT DEF Committing, wakeup_log
  <2>4. QED
    BY <1>0, <2>1, <2>2, <2>3, Zenon DEF Headers
<1>9. CASE Crash
  BY <1>0, <1>9, Zenon DEF Crash, Reboot, disk, Headers
<1>10. CASE read_head
  BY <1>10, Zenon DEF read_head, header_read, disk, Headers
<1>11. CASE recover_clear
  <2>1. ~Committing' /\ \A q \in Procs : pc'[q] # "release"
    BY <1>11, Zenon DEF recover_clear, Quiet, Committing
  <2>2. QED
    BY <1>0, <1>11, <2>1, Zenon DEF recover_clear, erase_head, Headers
<1>12. CASE UNCHANGED vars
  BY <1>6, <1>12, Zenon DEF vars
<1>13. QED
  BY <1>1, <1>2, <1>3, <1>4, <1>5, <1>6, <1>7, <1>8, <1>9, <1>10, <1>11, <1>12, Zenon
     DEF Next, EndTrans, Recovery, install_trans, recover_install

\* A step of begin_trans or of the end of commit_trans does not move the
\* point up to which a commit has copied.
LEMMA CommittingUnchanged ==
    ASSUME TypeOK, NEW p \in Procs, begin_trans(p)
    PROVE  Committing' <=> Committing
<1>1. pc' \in {[pc EXCEPT ![p] = "sleep"], [pc EXCEPT ![p] = "trans"]} /\ pc[p] \in {"idle", "retry"}
  BY Zenon DEF begin_trans
<1>2. QED
  BY <1>1, SMT DEF Committing, TypeOK

\* The end of commit_trans ends the commit.
LEMMA NotCommittingAfterRelease ==
    ASSUME OneTransaction, NEW p \in Procs, commit_release(p)
    PROVE  ~Committing'
<1>1. pc[p] \in {"trans", "release"} /\ pc' = wakeup_log(p)
  BY Zenon DEF commit_release
<1>2. \A q \in Procs : q # p => pc[q] # "install"
  BY <1>1, Alone, Zenon
<1>3. QED
  BY <1>1, <1>2, SMT DEF Committing, wakeup_log

\* What install_trans has copied stays home: the sectors are distinct.
LEMMA CopiedStep ==
    TypeOK /\ OneTransaction /\ Headers /\ Copied /\ [Next]_vars => Copied'
<1> SUFFICES ASSUME TypeOK, OneTransaction, Headers, Copied, [Next]_vars PROVE Copied'
  OBVIOUS
<1>0. ASSUME From' = 1 PROVE Copied'
  BY <1>0, SMT DEF Copied
<1>1. ASSUME NEW b \in Blocks, Fill(b) \/ Evict(b) PROVE Copied'
  BY <1>1, Zenon DEF Fill, Evict, disk, Copied, From, Committing
<1>2. ASSUME NEW p \in Procs, begin_trans(p) PROVE Copied'
  BY <1>2, CommittingUnchanged, Zenon DEF begin_trans, disk, Copied, From
<1>3. ASSUME NEW p \in Procs, NEW b \in Blocks, NEW v \in Vals, log_write(p, b, v) PROVE Copied'
  <2>1. mode' = "up" /\ pc' = pc /\ pc[p] = "trans"
    BY <1>3, Zenon DEF log_write
  <2>2. ~Committing'
    BY <2>1, Alone, Zenon DEF Committing
  <2>3. QED
    BY <1>0, <2>1, <2>2, Zenon DEF From
<1>4. ASSUME NEW p \in Procs, log_write_panic(p) PROVE Copied'
  BY <1>4, Zenon DEF log_write_panic, Copied
<1>5. ASSUME NEW p \in Procs, commit_trans(p) PROVE Copied'
  BY <1>0, <1>5, Zenon DEF commit_trans, From
<1>6. ASSUME install_one, UNCHANGED <<loghdr, logblk, lh, busy, pc, mode>>, mode = "recover" \/ Committing
      PROVE  Copied'
  <2>1. From = tail /\ From' = tail + 1
    BY <1>6, Zenon DEF From, Committing, install_one, next_tail
  <2>2. tail \in 1 .. Len(lh) /\ Distinct(lh) /\ lh \in Seq(Blocks)
    BY <1>6, SMT DEF install_one, TypeOK, Headers
  <2>3. home' = [home EXCEPT ![lh[tail]] = logblk[tail]] /\ home \in [Blocks -> Vals]
    BY <1>6, Zenon DEF install_one, TypeOK
  <2>4. ASSUME mode' \in {"recover", "up"}, NEW i \in 1 .. Len(lh), i < tail + 1
        PROVE  home'[lh[i]] = logblk[i]
    <3>1. lh[i] \in Blocks
      BY <2>2, SMT
    <3>2. CASE i = tail
      BY <2>3, <3>1, <3>2, Zenon
    <3>3. CASE i # tail
      <4>1. lh[i] # lh[tail] /\ i < tail
        BY <2>2, <2>4, <3>3, SMT DEF Distinct
      <4>2. home[lh[i]] = logblk[i]
        BY <1>6, <2>1, <2>4, <4>1, Zenon DEF Copied
      <4>3. QED
        BY <2>3, <3>1, <4>1, <4>2, Zenon
    <3>4. QED
      BY <3>2, <3>3, Zenon
  <2>5. QED
    BY <1>6, <2>1, <2>4, Zenon DEF Copied
<1>7. ASSUME lh' = <<>> PROVE Copied'
  BY <1>7, SMT DEF Copied
<1>8. ASSUME NEW p \in Procs, commit_release(p) PROVE Copied'
  BY <1>0, <1>8, NotCommittingAfterRelease, Zenon DEF commit_release, From
<1>9. CASE Crash
  BY <1>9, Zenon DEF Crash, Reboot, Copied
<1>10. CASE read_head
  BY <1>0, <1>10, Zenon DEF read_head, From
<1>11. CASE UNCHANGED vars
  BY <1>11, Zenon DEF vars, Copied, From, Committing
<1>12. QED
  BY <1>1, <1>2, <1>3, <1>4, <1>5, <1>6, <1>7, <1>8, <1>9, <1>10, <1>11, Zenon
     DEF Next, EndTrans, Recovery, install_trans, recover_install, Committing,
         commit_erase, recover_clear, erase_head

\* One more entry of the log, or a new value for one that is there.
LEMMA LogWriteEntries ==
    ASSUME TypeOK, Distinct(lh), NEW p \in Procs, NEW b \in Blocks, NEW v \in Vals, log_write(p, b, v)
    PROVE  /\ lh' \in Seq(Blocks) /\ LogSlot(b) \in 1 .. Len(lh')
           /\ lh'[LogSlot(b)] = b /\ logblk'[LogSlot(b)] = v
           /\ \A i \in 1 .. Len(lh') : i # LogSlot(b) =>
                 /\ i \in 1 .. Len(lh) /\ lh'[i] = lh[i] /\ lh[i] \in Blocks
                 /\ lh[i] # b /\ logblk'[i] = logblk[i]
           /\ \A i \in 1 .. Len(lh) : i \in 1 .. Len(lh') /\ lh'[i] = lh[i]
<1>1. lh \in Seq(Blocks) /\ Len(lh) \in Nat /\ Len(lh) < Capacity /\ Capacity \in Nat
  BY CapacityType, SMT DEF TypeOK, log_write, LogHasRoom
<1>2. /\ LogSlot(b) \in 1 .. Len(lh) + 1
      /\ LogSlot(b) # Len(lh) + 1 => lh[LogSlot(b)] = b
      /\ LogSlot(b) = Len(lh) + 1 => \A i \in 1 .. Len(lh) : lh[i] # b
  BY <1>1, LogSlotFacts, Zenon
<1>3. /\ lh' = IF LogSlot(b) = Len(lh) + 1 THEN Append(lh, b) ELSE lh
      /\ logblk' = [logblk EXCEPT ![LogSlot(b)] = v]
  BY Zenon DEF log_write
<1>4. LogSlot(b) \in Slots /\ logblk \in [Slots -> Vals]
  BY <1>1, <1>2, SMT DEF Slots, TypeOK
<1>5. Distinct(lh')
  BY LogWriteDistinct, Zenon
<1>6. /\ lh' \in Seq(Blocks) /\ Len(lh') \in Nat /\ Len(lh') <= Capacity
      /\ LogSlot(b) \in 1 .. Len(lh') /\ lh'[LogSlot(b)] = b
      /\ \A i \in 1 .. Len(lh') : i # LogSlot(b) => i \in 1 .. Len(lh) /\ lh'[i] = lh[i] /\ lh[i] \in Blocks
      /\ \A i \in 1 .. Len(lh) : i \in 1 .. Len(lh') /\ lh'[i] = lh[i]
  BY <1>1, <1>2, <1>3, SMT
<1>7. logblk'[LogSlot(b)] = v /\ \A i \in 1 .. Len(lh') : i # LogSlot(b) => logblk'[i] = logblk[i]
  BY <1>3, <1>4, <1>6, SMT DEF Slots
<1>8. \A i \in 1 .. Len(lh') : i # LogSlot(b) => lh[i] # b
  BY <1>5, <1>6, Zenon DEF Distinct
<1>9. QED
  BY <1>6, <1>7, <1>8, Zenon

\* The cache stays coherent: bget recycles no pinned block, and
\* install_trans drops the pin of a block only with its copy home.
LEMMA CoherentStep ==
    TypeOK /\ OneTransaction /\ Quiet /\ Headers /\ Coherent /\ [Next]_vars => Coherent'
<1> SUFFICES ASSUME TypeOK, OneTransaction, Quiet, Headers, Coherent, [Next]_vars PROVE Coherent'
  OBVIOUS
<1>0. \A i \in 1 .. Len(lh) : lh[i] \in Blocks /\ logblk[i] \in Vals /\ logblk[i] # NotCached
  BY CapacityType, LogAssumption, SMT DEF TypeOK, Slots
<1>1. ASSUME NEW b \in Blocks, Fill(b) \/ Evict(b) PROVE Coherent'
  <2>1. /\ mode = "up" /\ UNCHANGED <<home, logblk, dirty, lh, mode>> /\ From' = From
        /\ cache' = [cache EXCEPT ![b] = cache'[b]] /\ cache'[b] \in {NotCached, home[b]}
        /\ cache[b] = NotCached \/ b \notin dirty
    BY <1>1, SMT DEF Fill, Evict, disk, From, Committing, TypeOK
  <2>2. ASSUME NEW i \in 1 .. Len(lh), i >= From PROVE lh[i] \in dirty /\ cache'[lh[i]] = logblk[i]
    <3>1. lh[i] \in dirty /\ cache[lh[i]] = logblk[i] /\ lh[i] \in Blocks
      BY <1>0, <2>1, <2>2, Zenon DEF Coherent
    <3>2. lh[i] # b
      BY <1>0, <2>1, <3>1, Zenon
    <3>3. QED
      BY <2>1, <3>1, <3>2, Zenon DEF TypeOK
  <2>3. ASSUME NEW c \in Blocks, \A i \in 1 .. Len(lh) : lh[i] = c => i < From
        PROVE  cache'[c] \in {NotCached, home[c]}
    BY <2>1, <2>3, Zenon DEF Coherent, TypeOK
  <2>4. QED
    BY <2>1, <2>2, <2>3, Zenon DEF Coherent
<1>2. ASSUME NEW p \in Procs, begin_trans(p) PROVE Coherent'
  BY <1>2, CommittingUnchanged, Zenon DEF begin_trans, disk, Coherent, From
<1>3. ASSUME NEW p \in Procs, NEW b \in Blocks, NEW v \in Vals, log_write(p, b, v) PROVE Coherent'
  <2>1. /\ mode = "up" /\ mode' = "up" /\ pc' = pc /\ pc[p] = "trans" /\ home' = home
        /\ cache' = [cache EXCEPT ![b] = v] /\ dirty' = dirty \cup {b}
    BY <1>3, Zenon DEF log_write, Pin
  <2>2. From = 1 /\ From' = 1
    BY <2>1, Alone, Zenon DEF Committing, From
  <2> DEFINE s == LogSlot(b)
  <2>3. /\ s \in 1 .. Len(lh') /\ lh'[s] = b /\ logblk'[s] = v
        /\ \A i \in 1 .. Len(lh') : i # s => /\ i \in 1 .. Len(lh) /\ lh'[i] = lh[i] /\ lh[i] \in Blocks
                                            /\ lh[i] # b /\ logblk'[i] = logblk[i]
        /\ \A i \in 1 .. Len(lh) : i \in 1 .. Len(lh') /\ lh'[i] = lh[i]
    <3>1. Distinct(lh)
      BY Zenon DEF Headers
    <3>2. QED
      BY <1>3, <3>1, LogWriteEntries
  <2>4. \A i \in 1 .. Len(lh) : lh[i] \in dirty /\ cache[lh[i]] = logblk[i]
    BY <2>1, <2>2, SMT DEF Coherent
  <2> HIDE DEF s
  <2>5. ASSUME NEW i \in 1 .. Len(lh') PROVE lh'[i] \in dirty' /\ cache'[lh'[i]] = logblk'[i]
    <3>1. CASE i = s
      BY <2>1, <2>3, <3>1, Zenon DEF TypeOK
    <3>2. CASE i # s
      BY <2>1, <2>3, <2>4, <3>2, Zenon DEF TypeOK
    <3>3. QED
      BY <3>1, <3>2, Zenon
  <2>6. ASSUME NEW c \in Blocks, \A i \in 1 .. Len(lh') : lh'[i] = c => i < From'
        PROVE  cache'[c] \in {NotCached, home'[c]}
    <3>1. \A i \in 1 .. Len(lh') : lh'[i] # c
      BY <2>2, <2>6, SMT
    <3>2. c # b /\ \A i \in 1 .. Len(lh) : lh[i] # c
      BY <2>3, <3>1, Zenon
    <3>3. cache[c] \in {NotCached, home[c]}
      BY <2>1, <3>2, Zenon DEF Coherent
    <3>4. QED
      BY <2>1, <3>2, <3>3, Zenon DEF TypeOK
  <2>7. QED
    BY <2>1, <2>5, <2>6, Zenon DEF Coherent
<1>4. ASSUME NEW p \in Procs, log_write_panic(p) PROVE Coherent'
  BY <1>4, Zenon DEF log_write_panic, Coherent
<1>5. ASSUME NEW p \in Procs, commit_trans(p) PROVE Coherent'
  <2>1. /\ mode = "up" /\ mode' = "up" /\ pc[p] = "trans" /\ tail' = 1
        /\ UNCHANGED <<home, logblk, cache, dirty, lh>>
    BY <1>5, Zenon DEF commit_trans
  <2>2. From = 1 /\ From' = 1
    BY <2>1, Alone, Zenon DEF From
  <2>3. QED
    BY <2>1, <2>2, Zenon DEF Coherent

<1>6. ASSUME install_one, UNCHANGED <<loghdr, logblk, lh, busy, pc, mode>>, mode = "recover" \/ Committing
      PROVE  Coherent'
  <2>1. /\ From = tail /\ From' = tail + 1 /\ tail \in Nat
        /\ tail \in 1 .. Len(lh) /\ Distinct(lh) /\ lh[tail] \in Blocks
    BY <1>0, <1>6, SMT DEF From, Committing, install_one, next_tail, TypeOK, Headers
  <2>2. /\ home' = [home EXCEPT ![lh[tail]] = logblk[tail]]
        /\ cache' = [cache EXCEPT ![lh[tail]] = logblk[tail]]
        /\ dirty' = dirty \ {lh[tail]}
        /\ home \in [Blocks -> Vals] /\ cache \in [Blocks -> Vals \cup {NotCached}]
    BY <1>6, Zenon DEF install_one, TypeOK
  <2>3. \A c \in Blocks : c = lh[tail] \/ cache[c] \in {NotCached, home[c]} => cache'[c] \in {NotCached, home'[c]}
    BY <2>1, <2>2, Zenon
  <2>4. ASSUME mode = "up", NEW i \in 1 .. Len(lh), i >= tail + 1 PROVE lh[i] \in dirty' /\ cache'[lh[i]] = logblk[i]
    <3>1. i >= tail /\ lh[i] # lh[tail]
      BY <2>1, <2>4, SMT DEF Distinct
    <3>2. lh[i] \in dirty /\ cache[lh[i]] = logblk[i] /\ lh[i] \in Blocks
      BY <1>0, <2>1, <2>4, <3>1, Zenon DEF Coherent
    <3>3. QED
      BY <2>2, <3>1, <3>2, Zenon
  <2>5. ASSUME mode = "up", NEW c \in Blocks, \A i \in 1 .. Len(lh) : lh[i] = c => i < tail + 1
        PROVE  cache'[c] \in {NotCached, home'[c]}
    <3>1. CASE c = lh[tail]
      BY <2>3, <3>1, Zenon
    <3>2. CASE c # lh[tail]
      <4>1. \A i \in 1 .. Len(lh) : lh[i] = c => i < tail
        BY <2>1, <2>5, <3>2, SMT
      <4>2. QED
        BY <2>1, <2>3, <2>5, <4>1, Zenon DEF Coherent
    <3>3. QED
      BY <3>1, <3>2, Zenon
  <2>6. CASE mode = "recover"
    BY <1>6, <2>3, <2>6, Zenon DEF Coherent
  <2>7. CASE mode = "up"
    BY <1>6, <2>1, <2>4, <2>5, <2>7, Zenon DEF Coherent
  <2>8. CASE mode \notin {"recover", "up"}
    BY <1>6, <2>8, Zenon DEF Coherent, Committing, Quiet
  <2>9. QED
    BY <2>6, <2>7, <2>8, Zenon
<1>7. ASSUME NEW p \in Procs, commit_erase(p) PROVE Coherent'
  <2>1. /\ mode = "up" /\ mode' = "up" /\ pc[p] = "install" /\ tail > Len(lh)
        /\ lh' = <<>> /\ UNCHANGED <<home, cache>>
    BY <1>7, Zenon DEF commit_erase, erase_head
  <2>2. From = tail
    BY <2>1, Zenon DEF From, Committing
  <2>3. \A i \in 1 .. Len(lh) : i < From
    BY <2>1, <2>2, SMT DEF TypeOK
  <2>4. \A b \in Blocks : cache[b] \in {NotCached, home[b]}
    BY <2>1, <2>3, Zenon DEF Coherent
  <2>5. QED
    BY <2>1, <2>4, SMT DEF Coherent
<1>8. ASSUME NEW p \in Procs, commit_release(p) PROVE Coherent'
  <2>1. mode = "up" /\ mode' = "up" /\ lh = <<>> /\ lh' = <<>> /\ UNCHANGED <<home, cache>>
    BY <1>8, Zenon DEF commit_release, disk, Headers
  <2>2. QED
    BY <2>1, SMT DEF Coherent
<1>9. CASE Crash
  BY <1>9, Zenon DEF Crash, Reboot, Coherent
<1>10. CASE read_head
  BY <1>10, Zenon DEF read_head, disk, Coherent
<1>11. CASE recover_clear
  <2>1. mode = "recover" /\ mode' = "up" /\ lh' = <<>> /\ UNCHANGED <<home, cache>>
    BY <1>11, Zenon DEF recover_clear, erase_head
  <2>2. QED
    BY <2>1, SMT DEF Coherent
<1>12. CASE UNCHANGED vars
  BY <1>12, Zenon DEF vars, Coherent, From, Committing
<1>13. QED
  BY <1>1, <1>2, <1>3, <1>4, <1>5, <1>6, <1>7, <1>8, <1>9, <1>10, <1>11, <1>12, Zenon
     DEF Next, EndTrans, Recovery, install_trans, recover_install, Committing

\* The inductive invariant holds in every reachable state.
THEOREM Inductive == Spec => []IInv
<1>1. Init => IInv
  <2> SUFFICES ASSUME Init PROVE IInv
    OBVIOUS
  <2>1. TypeOK
    <3>1. pc \in [Procs -> PCs] /\ busy \in BOOLEAN /\ cache \in [Blocks -> Vals \cup {NotCached}]
      BY Zenon DEF Init, PCs
    <3>2. QED
      BY <3>1, CapacityType, SMT DEF Init, TypeOK
  <2>2. OneTransaction /\ Quiet
    BY Zenon DEF Init, OneTransaction, InTrans, Quiet
  <2>3. Headers /\ Copied /\ Coherent
    BY SMT DEF Init, Headers, Distinct, Copied, Coherent
  <2>4. QED
    BY <2>1, <2>2, <2>3 DEF IInv
<1>2. IInv /\ [Next]_vars => IInv'
  BY TypeStep, OneTransactionStep, QuietStep, HeadersStep, CopiedStep, CoherentStep DEF IInv
<1>3. QED
  BY <1>1, <1>2, PTL DEF Spec

\* log.c, "only one system call can be in a transaction": mutual exclusion of
\* transactions, for any number of processes.
THEOREM TransactionsExclude == Spec => []OneTransaction
<1>1. IInv => OneTransaction
  BY DEF IInv
<1>2. QED
  BY <1>1, Inductive, PTL
-----------------------------------------------------------------------------
(* What the log says the blocks hold *)

Merge(s, l, h) ==
    [b \in Blocks |-> IF Logged(s, b) THEN l[CHOOSE i \in 1 .. Len(s) : s[i] = b] ELSE h[b]]

\* Distinct sectors make the entry for a block unambiguous.
LEMMA MergeFacts ==
    ASSUME NEW s \in Seq(Blocks), Distinct(s), NEW l, NEW h
    PROVE  /\ \A i \in 1 .. Len(s) : s[i] \in Blocks /\ Merge(s, l, h)[s[i]] = l[i]
           /\ \A b \in Blocks : (\A i \in 1 .. Len(s) : s[i] # b) => Merge(s, l, h)[b] = h[b]
<1>1. ASSUME NEW i \in 1 .. Len(s) PROVE s[i] \in Blocks /\ Merge(s, l, h)[s[i]] = l[i]
  <2>1. s[i] \in Blocks
    BY SMT
  <2>2. Logged(s, s[i])
    BY Zenon DEF Logged
  <2>3. (CHOOSE j \in 1 .. Len(s) : s[j] = s[i]) = i
    BY Zenon DEF Distinct
  <2>4. QED
    BY <2>1, <2>2, <2>3, Zenon DEF Merge
<1>2. ASSUME NEW b \in Blocks, \A i \in 1 .. Len(s) : s[i] # b PROVE Merge(s, l, h)[b] = h[b]
  BY <1>2, Zenon DEF Merge, Logged
<1>3. QED
  BY <1>1, <1>2, Zenon

\* What a log says is a function on the blocks.
LEMMA MergeIsFunction ==
    ASSUME NEW s, NEW l, NEW h PROVE Merge(s, l, h) = [b \in Blocks |-> Merge(s, l, h)[b]]
BY DEF Merge

\* Two logs over two disks tell the same if they tell the same of each block.
LEMMA MergeEqual ==
    ASSUME NEW s, NEW l, NEW h, NEW t, NEW m, NEW g,
           \A b \in Blocks : Merge(s, l, h)[b] = Merge(t, m, g)[b]
    PROVE  Merge(s, l, h) = Merge(t, m, g)
<1>1. \A f, e : /\ f = [b \in Blocks |-> f[b]] /\ e = [b \in Blocks |-> e[b]]
                /\ \A b \in Blocks : f[b] = e[b]
                => f = e
  OBVIOUS
<1>2. QED
  BY <1>1, MergeIsFunction

\* The overlay of the current log and disk, as a constant operator.
LEMMA OverlayIsMerge == \A s : Overlay(s) = Merge(s, logblk, home)
BY Zenon DEF Overlay, Merge
-----------------------------------------------------------------------------
(* The safety invariants the model checker runs check *)

\* A reader of the file system never sees a stale block, whatever the cache
\* recycles and however far a commit has come.
THEOREM ReadsAreFresh == Spec => []ReadsSeeLatestWrite
<1>1. IInv => ReadsSeeLatestWrite
  <2> SUFFICES ASSUME IInv, mode = "up", NEW b \in Blocks PROVE bread(b) = Merge(lh, logblk, home)[b]
    BY OverlayIsMerge, Zenon DEF ReadsSeeLatestWrite
  <2>1. lh \in Seq(Blocks) /\ Distinct(lh)
    BY Zenon DEF IInv, TypeOK, Headers
  <2>2. \A i \in 1 .. Len(lh) : logblk[i] # NotCached
    BY CapacityType, LogAssumption, SMT DEF IInv, TypeOK, Slots
  <2>3. ASSUME NEW i \in 1 .. Len(lh), lh[i] = b PROVE bread(b) = Merge(lh, logblk, home)[b]
    <3>1. Merge(lh, logblk, home)[b] = logblk[i]
      BY <2>1, <2>3, MergeFacts
    <3>2. CASE i >= From
      <4>1. cache[b] = logblk[i]
        BY <2>3, <3>2, Zenon DEF IInv, Coherent
      <4>2. QED
        BY <2>2, <3>1, <4>1, Zenon DEF bread
    <3>3. CASE i < From
      <4>1. home[b] = logblk[i]
        BY <2>3, <3>3, Zenon DEF IInv, Copied
      <4>2. \A j \in 1 .. Len(lh) : lh[j] = b => j < From
        BY <2>1, <2>3, <3>3, Zenon DEF Distinct
      <4>3. cache[b] \in {NotCached, home[b]}
        BY <4>2, Zenon DEF IInv, Coherent
      <4>4. QED
        BY <3>1, <4>1, <4>3, Zenon DEF bread
    <3>4. From \in Nat /\ i \in Nat
      BY CapacityType, SMT DEF From, IInv, TypeOK
    <3>5. QED
      BY <3>2, <3>3, <3>4, SMT
  <2>4. ASSUME \A i \in 1 .. Len(lh) : lh[i] # b PROVE bread(b) = Merge(lh, logblk, home)[b]
    <3>1. Merge(lh, logblk, home)[b] = home[b]
      BY <2>1, <2>4, MergeFacts
    <3>2. cache[b] \in {NotCached, home[b]}
      BY <2>4, Zenon DEF IInv, Coherent
    <3>3. QED
      BY <3>1, <3>2, Zenon DEF bread
  <2>5. QED
    BY <2>3, <2>4, Zenon
<1>2. QED
  BY <1>1, Inductive, PTL

\* The header on the disk is empty or describes a whole transaction.
THEOREM CommitsAreWhole == Spec => []CommittedLogIsWhole
<1>1. IInv => CommittedLogIsWhole
  <2> SUFFICES ASSUME IInv PROVE CommittedLogIsWhole
    OBVIOUS
  <2>1. \A i, j \in 1 .. Len(loghdr) : loghdr[i] = loghdr[j] => i = j
    BY Zenon DEF IInv, Headers, Distinct
  <2>2. (mode = "up" /\ (\A p \in Procs : pc[p] # "install")) => loghdr = <<>>
    BY Zenon DEF IInv, Headers, Committing
  <2>3. ASSUME mode = "recover" \/ (mode = "up" /\ Committing)
        PROVE  lh = loghdr /\ \A i \in 1 .. Len(lh) : i < tail => home[lh[i]] = logblk[i]
    BY <2>3, Zenon DEF IInv, Headers, Copied, From
  <2>4. QED
    BY <2>1, <2>2, <2>3, Zenon DEF CommittedLogIsWhole, Committing
<1>2. QED
  BY <1>1, Inductive, PTL

\* One step of install_trans writes home what the log, committed on the disk,
\* says the block holds, so it does not change what the log says.
LEMMA InstallFacts ==
    ASSUME IInv, install_one, UNCHANGED <<loghdr, logblk, lh, busy, pc, mode>>,
           mode = "recover" \/ (mode = "up" /\ Committing)
    PROVE  /\ lh = loghdr /\ tail \in 1 .. Len(loghdr)
           /\ \A b \in Blocks : home'[b] # home[b] => b = loghdr[tail] /\ home'[b] = logblk[tail]
           /\ Merge(loghdr, logblk, home') = Merge(loghdr, logblk, home)
<1>1. lh = loghdr /\ tail \in 1 .. Len(loghdr)
  <2>1. lh = loghdr
    BY Zenon DEF IInv, Headers
  <2>2. tail \in 1 .. Len(lh)
    BY SMT DEF install_one, IInv, TypeOK
  <2>3. QED
    BY <2>1, <2>2
<1>2. home' = [home EXCEPT ![loghdr[tail]] = logblk[tail]] /\ home \in [Blocks -> Vals]
  BY <1>1, Zenon DEF install_one, IInv, TypeOK
<1>3. \A b \in Blocks : home'[b] # home[b] => b = loghdr[tail] /\ home'[b] = logblk[tail]
  BY <1>2, Zenon
<1>4. \A b \in Blocks : ~Logged(loghdr, b) => home'[b] = home[b]
  BY <1>1, <1>3, Zenon DEF Logged
<1>5. Merge(loghdr, logblk, home') = Merge(loghdr, logblk, home)
  <2>1. \A b \in Blocks : Merge(loghdr, logblk, home')[b] = Merge(loghdr, logblk, home)[b]
    <3>1. loghdr \in Seq(Blocks) /\ Distinct(loghdr)
      BY Zenon DEF IInv, TypeOK, Headers
    <3>2. /\ \A i \in 1 .. Len(loghdr) : Merge(loghdr, logblk, home')[loghdr[i]] = logblk[i]
          /\ \A b \in Blocks : (\A i \in 1 .. Len(loghdr) : loghdr[i] # b) => Merge(loghdr, logblk, home')[b] = home'[b]
      BY <3>1, MergeFacts
    <3>3. /\ \A i \in 1 .. Len(loghdr) : Merge(loghdr, logblk, home)[loghdr[i]] = logblk[i]
          /\ \A b \in Blocks : (\A i \in 1 .. Len(loghdr) : loghdr[i] # b) => Merge(loghdr, logblk, home)[b] = home[b]
      BY <3>1, MergeFacts
    <3> TAKE b \in Blocks
    <3>4. CASE Logged(loghdr, b)
      <4>1. PICK i \in 1 .. Len(loghdr) : loghdr[i] = b
        BY <3>4, Zenon DEF Logged
      <4>2. /\ Merge(loghdr, logblk, home')[loghdr[i]] = logblk[i]
            /\ Merge(loghdr, logblk, home)[loghdr[i]] = logblk[i]
        BY <3>2, <3>3, Zenon
      <4>3. QED
        BY <4>1, <4>2
    <3>5. CASE ~Logged(loghdr, b)
      BY <1>4, <3>2, <3>3, <3>5, Zenon DEF Logged
    <3>6. QED
      BY <3>4, <3>5
  <2>2. QED
    BY <2>1, MergeEqual
<1>6. QED
  BY <1>1, <1>3, <1>5, Zenon

\* No block goes home before the commit point of its transaction.
THEOREM NothingGoesHomeEarly == Spec => HomeWritesAreCommitted
<1> DEFINE Step == \A b \in Blocks : home'[b] # home[b] => Logged(loghdr, b) /\ home'[b] = Overlay(loghdr)[b]
<1>1. IInv /\ [Next]_vars => [Step]_vars
  <2> SUFFICES ASSUME IInv, [Next]_vars PROVE Step
    OBVIOUS
  <2>1. ASSUME install_one, UNCHANGED <<loghdr, logblk, lh, busy, pc, mode>>,
               mode = "recover" \/ (mode = "up" /\ Committing)
        PROVE  Step
    <3>1. /\ tail \in 1 .. Len(loghdr)
          /\ \A b \in Blocks : home'[b] # home[b] => b = loghdr[tail] /\ home'[b] = logblk[tail]
      BY <2>1, InstallFacts, Zenon
    <3>2. loghdr \in Seq(Blocks) /\ Distinct(loghdr)
      BY Zenon DEF IInv, TypeOK, Headers
    <3>3. Overlay(loghdr)[loghdr[tail]] = logblk[tail]
      BY <3>1, <3>2, OverlayIsMerge, MergeFacts
    <3>4. QED
      BY <3>1, <3>3, Zenon DEF Logged
  <2>2. ASSUME UNCHANGED home PROVE Step
    BY <2>2, Zenon
  <2>3. QED
    BY <2>1, <2>2, Zenon
       DEF Next, EndTrans, Recovery, Fill, Evict, begin_trans, log_write_panic, commit_trans, install_trans,
           commit_erase, commit_release, log_write, Crash, read_head, recover_install, recover_clear,
           disk, vars, Committing
<1>2. QED
  BY <1>1, Inductive, PTL DEF HomeWritesAreCommitted, Spec
=============================================================================
