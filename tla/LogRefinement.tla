--------------------------- MODULE LogRefinement ----------------------------
(***************************************************************************)
(* Crash atomicity: the redo log implements AtomicDisk for every value of  *)
(* the constants.  Each step of the log maps to a step of the abstract     *)
(* disk or to no step; commit_trans's first write_head is the one that     *)
(* makes a transaction durable.                                            *)
(***************************************************************************)
EXTENDS LogProof

OwnerOf(m, S) == IF m = "up" /\ S # {} THEN CHOOSE p \in S : TRUE ELSE NoProc
CurrentOf(m, s, t, l, h) == IF m = "up" THEN Merge(s, l, h) ELSE Merge(t, l, h)

\* The mapped variables as functions of the log's, before and after a step.
LEMMA Mapped ==
    /\ Durable = Merge(loghdr, logblk, home)
    /\ Durable' = Merge(loghdr', logblk', home')
    /\ Current = CurrentOf(mode, lh, loghdr, logblk, home)
    /\ Current' = CurrentOf(mode', lh', loghdr', logblk', home')
    /\ Owner = OwnerOf(mode, InTrans)
    /\ Owner' = OwnerOf(mode', InTrans')
BY Zenon DEF Durable, Current, Owner, Overlay, Merge, OwnerOf, CurrentOf

\* The owner of the abstract disk is the process in a transaction, if any.
LEMMA OwnerFacts ==
    /\ \A S, p : p \in S /\ (\A q, r \in S : q = r) => OwnerOf("up", S) = p
    /\ \A m : OwnerOf(m, {}) = NoProc
    /\ \A m, S : m # "up" => OwnerOf(m, S) = NoProc
BY Zenon DEF OwnerOf

\* A step that changes neither what the log says nor who is in a transaction
\* is no step of the abstract disk.
LEMMA Stutter ==
    ASSUME Durable' = Durable, Current' = Current, Owner' = Owner, mode = "up" <=> mode' = "up"
    PROVE  [Abstract!ANext]_(Abstract!avars)
BY Zenon DEF Abstract!avars

\* An empty log says what is home.
LEMMA EmptyMerge ==
    ASSUME NEW l, NEW h PROVE \A b \in Blocks : Merge(<<>>, l, h)[b] = h[b]
<1>1. \A b : ~Logged(<<>>, b)
  BY SMT DEF Logged
<1>2. QED
  BY <1>1, Zenon DEF Merge

\* When everything is copied the log may go: erasing the header changes
\* nothing that it says.
LEMMA EraseFacts ==
    ASSUME IInv, erase_head, UNCHANGED <<home, logblk>>, mode = "recover" \/ (mode = "up" /\ Committing)
    PROVE  /\ lh = loghdr /\ lh' = <<>> /\ loghdr' = <<>>
           /\ Merge(<<>>, logblk, home) = Merge(loghdr, logblk, home)
<1>1. lh = loghdr /\ lh' = <<>> /\ loghdr' = <<>> /\ Distinct(lh) /\ lh \in Seq(Blocks)
  BY Zenon DEF IInv, Headers, erase_head, TypeOK
<1>2. \A i \in 1 .. Len(lh) : home[lh[i]] = logblk[i]
  <2>1. From = tail
    BY Zenon DEF From
  <2>2. \A i \in 1 .. Len(lh) : i < From
    BY <2>1, SMT DEF erase_head, IInv, TypeOK
  <2>3. QED
    BY <2>2, Zenon DEF IInv, Copied
<1>3. ASSUME NEW b \in Blocks PROVE Merge(<<>>, logblk, home)[b] = Merge(lh, logblk, home)[b]
  <2>1. Merge(<<>>, logblk, home)[b] = home[b]
    BY EmptyMerge
  <2>2. /\ \A i \in 1 .. Len(lh) : Merge(lh, logblk, home)[lh[i]] = logblk[i]
        /\ (\A i \in 1 .. Len(lh) : lh[i] # b) => Merge(lh, logblk, home)[b] = home[b]
    BY <1>1, MergeFacts
  <2>3. ASSUME NEW i \in 1 .. Len(lh), lh[i] = b PROVE Merge(lh, logblk, home)[b] = home[b]
    <3>1. Merge(lh, logblk, home)[lh[i]] = logblk[i] /\ home[lh[i]] = logblk[i]
      BY <1>2, <2>2, Zenon
    <3>2. QED
      BY <2>3, <3>1
  <2>4. QED
    BY <2>1, <2>2, <2>3, Zenon
<1>4. Merge(<<>>, logblk, home) = Merge(lh, logblk, home)
  BY <1>3, MergeEqual
<1>5. QED
  BY <1>1, <1>4

\* log_write changes what the log says of one block.
LEMMA WriteFacts ==
    ASSUME IInv, NEW p \in Procs, NEW b \in Blocks, NEW v \in Vals, log_write(p, b, v)
    PROVE  Merge(lh', logblk', home') = [Merge(lh, logblk, home) EXCEPT ![b] = v]
<1> DEFINE s == LogSlot(b)
           old == Merge(lh, logblk, home)
           new == Merge(lh', logblk', home')
<1>1. TypeOK /\ lh \in Seq(Blocks) /\ Distinct(lh) /\ home' = home
  BY Zenon DEF IInv, TypeOK, Headers, log_write
<1>2. /\ lh' \in Seq(Blocks) /\ s \in 1 .. Len(lh') /\ lh'[s] = b /\ logblk'[s] = v
      /\ \A i \in 1 .. Len(lh') : i # s => /\ i \in 1 .. Len(lh) /\ lh'[i] = lh[i] /\ lh[i] \in Blocks
                                          /\ lh[i] # b /\ logblk'[i] = logblk[i]
      /\ \A i \in 1 .. Len(lh) : i \in 1 .. Len(lh') /\ lh'[i] = lh[i]
  BY <1>1, LogWriteEntries
<1>3. Distinct(lh')
  BY <1>1, LogWriteDistinct
<1>4. /\ \A i \in 1 .. Len(lh') : new[lh'[i]] = logblk'[i]
      /\ \A c \in Blocks : (\A i \in 1 .. Len(lh') : lh'[i] # c) => new[c] = home'[c]
  BY <1>1, <1>2, <1>3, MergeFacts
<1>5. /\ \A i \in 1 .. Len(lh) : old[lh[i]] = logblk[i]
      /\ \A c \in Blocks : (\A i \in 1 .. Len(lh) : lh[i] # c) => old[c] = home[c]
  BY <1>1, MergeFacts
<1>6. old = [c \in Blocks |-> old[c]] /\ new = [c \in Blocks |-> new[c]]
  BY MergeIsFunction
<1> HIDE DEF s, old, new
<1>7. ASSUME NEW c \in Blocks PROVE new[c] = IF c = b THEN v ELSE old[c]
  <2>1. CASE c = b
    BY <1>2, <1>4, <2>1, Zenon
  <2>2. ASSUME c # b, NEW i \in 1 .. Len(lh), lh[i] = c PROVE new[c] = old[c]
    <3>1. i \in 1 .. Len(lh') /\ lh'[i] = c /\ i # s
      BY <1>2, <2>2, Zenon
    <3>2. new[lh'[i]] = logblk'[i] /\ old[lh[i]] = logblk[i] /\ logblk'[i] = logblk[i]
      BY <1>2, <1>4, <1>5, <3>1, Zenon
    <3>3. QED
      BY <2>2, <3>1, <3>2
  <2>3. ASSUME c # b, \A i \in 1 .. Len(lh) : lh[i] # c PROVE new[c] = old[c]
    <3>1. \A i \in 1 .. Len(lh') : lh'[i] # c
      BY <1>2, <2>3, Zenon
    <3>2. QED
      BY <1>1, <1>4, <1>5, <2>3, <3>1, Zenon
  <2>4. QED
    BY <2>1, <2>2, <2>3, Zenon
<1>8. new = [old EXCEPT ![b] = v]
  BY <1>6, <1>7
<1>9. QED
  BY <1>8 DEF new, old

\* The state that mkfs leaves maps to an initial abstract disk.
LEMMA RefinesInit == Init => Abstract!AInit
<1> SUFFICES ASSUME Init PROVE Abstract!AInit
  OBVIOUS
<1>1. mode = "boot" /\ loghdr = <<>> /\ home \in [Blocks -> Vals]
  BY Zenon DEF Init
<1>2. Durable = Merge(<<>>, logblk, home) /\ Current = Durable /\ Owner = NoProc
  BY <1>1, Mapped, OwnerFacts, Zenon DEF CurrentOf
<1>3. Durable = [b \in Blocks |-> home[b]]
  <2>1. Durable = [b \in Blocks |-> Durable[b]] /\ \A b \in Blocks : Durable[b] = home[b]
    BY <1>2, MergeIsFunction, EmptyMerge
  <2>2. QED
    BY <2>1
<1>4. Durable \in [Blocks -> Vals]
  BY <1>1, <1>3
<1>5. QED
  BY <1>1, <1>2, <1>4, Zenon DEF Abstract!AInit

\* Every step of the log is a step of the abstract disk or none.
LEMMA RefinesStep == IInv /\ [Next]_vars => [Abstract!ANext]_(Abstract!avars)
<1> SUFFICES ASSUME IInv, [Next]_vars PROVE [Abstract!ANext]_(Abstract!avars)
  OBVIOUS
<1>0. OneTransaction /\ TypeOK
  BY DEF IInv
<1>1. ASSUME UNCHANGED <<home, loghdr, logblk, lh, mode, pc>> PROVE [Abstract!ANext]_(Abstract!avars)
  <2>1. InTrans' = InTrans
    BY <1>1, Zenon DEF InTrans
  <2>2. Durable' = Durable /\ Current' = Current /\ Owner' = Owner
    BY <1>1, <2>1, Mapped, Zenon
  <2>3. QED
    BY <1>1, <2>2, Stutter, Zenon
<1>2. ASSUME NEW p \in Procs, begin_trans(p) PROVE [Abstract!ANext]_(Abstract!avars)
  <2>1. mode = "up" /\ UNCHANGED <<home, loghdr, logblk, lh, mode>> /\ p \notin InTrans
    BY <1>2, SMT DEF begin_trans, disk, InTrans
  <2>2. Durable' = Durable /\ Current' = Current
    BY <2>1, Mapped, Zenon
  <2>3. CASE busy
    <3>1. pc' = [pc EXCEPT ![p] = "sleep"]
      BY <1>2, <2>3, Zenon DEF begin_trans
    <3>2. InTrans' = InTrans
      BY <1>0, <2>1, <3>1, SMT DEF InTrans, TypeOK
    <3>3. Owner' = Owner
      BY <2>1, <3>2, Mapped, Zenon
    <3>4. QED
      BY <2>1, <2>2, <3>3, Stutter, Zenon
  <2>4. CASE ~busy
    <3>1. pc' = [pc EXCEPT ![p] = "trans"]
      BY <1>2, <2>4, Zenon DEF begin_trans
    <3>2. InTrans = {}
      BY <1>0, <2>4, Zenon DEF OneTransaction
    <3>3. InTrans' = {p}
      BY <1>0, <3>1, <3>2, SMT DEF InTrans, TypeOK
    <3>4. Owner = NoProc /\ Owner' = p
      BY <2>1, <3>2, <3>3, Mapped, OwnerFacts
    <3>5. Abstract!ABegin(p)
      BY <2>1, <2>2, <3>4, Zenon DEF Abstract!ABegin
    <3>6. QED
      BY <3>5, Zenon DEF Abstract!ANext
  <2>5. QED
    BY <2>3, <2>4, Zenon
<1>3. ASSUME NEW p \in InTrans, mode = "up" PROVE Owner = p
  BY <1>0, <1>3, Mapped, OwnerFacts, Zenon DEF OneTransaction
<1>4. ASSUME NEW p \in Procs, NEW b \in Blocks, NEW v \in Vals, log_write(p, b, v)
      PROVE  [Abstract!ANext]_(Abstract!avars)
  <2>1. mode = "up" /\ UNCHANGED <<home, loghdr, pc, mode>> /\ pc[p] = "trans"
    BY <1>4, Zenon DEF log_write
  <2>2. p \in InTrans /\ InTrans' = InTrans /\ Owner = p /\ Owner' = p
    <3>1. p \in InTrans /\ InTrans' = InTrans
      BY <2>1, Zenon DEF InTrans
    <3>2. QED
      BY <1>3, <2>1, <3>1, Mapped, Zenon
  <2>3. loghdr = <<>>
    BY <1>0, <2>1, Alone, Zenon DEF IInv, Headers
  <2>4. Durable' = Durable
    <3>1. \A c \in Blocks : Merge(<<>>, logblk', home)[c] = Merge(<<>>, logblk, home)[c]
      BY EmptyMerge
    <3>2. Merge(<<>>, logblk', home) = Merge(<<>>, logblk, home)
      BY <3>1, MergeEqual
    <3>3. QED
      BY <2>1, <2>3, <3>2, Mapped, Zenon
  <2>5. Current' = [Current EXCEPT ![b] = v]
    <3>1. Current = Merge(lh, logblk, home) /\ Current' = Merge(lh', logblk', home')
      BY <2>1, Mapped DEF CurrentOf
    <3>2. QED
      BY <1>4, <3>1, WriteFacts
  <2>6. Abstract!AWrite(p, b, v)
    BY <2>1, <2>2, <2>4, <2>5, Zenon DEF Abstract!AWrite
  <2>7. QED
    BY <2>6, Zenon DEF Abstract!ANext
<1>5. ASSUME UNCHANGED disk, mode' # "up" PROVE [Abstract!ANext]_(Abstract!avars)
  <2>1. Durable' = Durable /\ Current' = Durable /\ Owner' = NoProc
    BY <1>5, Mapped, OwnerFacts DEF disk, CurrentOf
  <2>2. Abstract!ACrash
    BY <1>5, <2>1, Zenon DEF Abstract!ACrash
  <2>3. QED
    BY <2>2, Zenon DEF Abstract!ANext
<1>6. ASSUME NEW p \in Procs, commit_trans(p) PROVE [Abstract!ANext]_(Abstract!avars)
  <2>1. /\ mode = "up" /\ UNCHANGED <<home, logblk, lh, mode>> /\ loghdr' = lh
        /\ pc[p] = "trans" /\ pc' = [pc EXCEPT ![p] = "install"]
    BY <1>6, Zenon DEF commit_trans, write_head
  <2>2. p \in InTrans /\ InTrans' = InTrans
    <3>1. p \in InTrans
      BY <2>1, Zenon DEF InTrans
    <3>2. QED
      BY <1>0, <2>1, <3>1, StaysInTrans
  <2>3. Owner = p /\ Owner' = p
    BY <1>3, <2>1, <2>2, Mapped, Zenon
  <2>4. Durable' = Current /\ Current' = Current
    BY <2>1, Mapped DEF CurrentOf
  <2>5. Abstract!ACommit(p)
    BY <2>1, <2>3, <2>4, Zenon DEF Abstract!ACommit
  <2>6. QED
    BY <2>5, Zenon DEF Abstract!ANext
<1>7. ASSUME install_one, UNCHANGED <<loghdr, logblk, lh, busy, pc, mode>>,
             mode = "recover" \/ (mode = "up" /\ Committing)
      PROVE  [Abstract!ANext]_(Abstract!avars)
  <2>1. lh = loghdr /\ Merge(loghdr, logblk, home') = Merge(loghdr, logblk, home)
    BY <1>7, InstallFacts, Zenon
  <2>2. Durable' = Durable /\ Current' = Current
    BY <1>7, <2>1, Mapped DEF CurrentOf
  <2>3. Owner' = Owner
    BY <1>7, Mapped, Zenon DEF InTrans
  <2>4. QED
    BY <1>7, <2>2, <2>3, Stutter, Zenon
<1>8. ASSUME NEW p \in Procs, commit_erase(p) PROVE [Abstract!ANext]_(Abstract!avars)
  <2>1. /\ mode = "up" /\ UNCHANGED <<home, logblk, mode>> /\ erase_head
        /\ pc[p] = "install" /\ pc' = [pc EXCEPT ![p] = "release"]
    BY <1>8, Zenon DEF commit_erase
  <2>2. lh = loghdr /\ lh' = <<>> /\ loghdr' = <<>> /\ Merge(<<>>, logblk, home) = Merge(loghdr, logblk, home)
    BY <2>1, EraseFacts, Zenon DEF Committing
  <2>3. Durable' = Durable /\ Current' = Current
    BY <2>1, <2>2, Mapped DEF CurrentOf
  <2>4. p \in InTrans
    BY <2>1, Zenon DEF InTrans
  <2>5. Owner' = Owner
    BY <1>0, <2>1, <2>4, StaysInTrans, Mapped
  <2>6. QED
    BY <2>1, <2>3, <2>5, Stutter, Zenon
<1>9. ASSUME NEW p \in Procs, commit_release(p) PROVE [Abstract!ANext]_(Abstract!avars)
  <2>1. /\ mode = "up" /\ UNCHANGED <<home, loghdr, logblk, lh, mode>> /\ pc' = wakeup_log(p)
        /\ pc[p] \in {"trans", "release"} /\ lh = <<>>
    BY <1>9, Zenon DEF commit_release, disk, IInv, Headers
  <2>2. loghdr = <<>> /\ \A q \in Procs : q # p => pc[q] \notin {"trans", "install", "release"}
    BY <1>0, <2>1, Alone, Zenon DEF IInv, Headers
  <2>3. Durable' = Durable /\ Current' = Current /\ Durable = Current
    BY <2>1, <2>2, Mapped DEF CurrentOf
  <2>4. p \in InTrans /\ InTrans' = {}
    BY <2>1, <2>2, SMT DEF InTrans, wakeup_log
  <2>5. Owner = p /\ Owner' = NoProc
    BY <1>3, <2>1, <2>4, Mapped, OwnerFacts, Zenon
  <2>6. Abstract!AEnd(p)
    BY <2>1, <2>3, <2>5, Zenon DEF Abstract!AEnd
  <2>7. QED
    BY <2>6, Zenon DEF Abstract!ANext
<1>10. CASE read_head
  <2>1. UNCHANGED <<home, loghdr, logblk, pc>> /\ mode # "up" /\ mode' # "up"
    BY <1>10, Zenon DEF read_head, disk
  <2>2. Durable' = Durable /\ Current' = Current /\ Owner' = Owner
    BY <2>1, Mapped, OwnerFacts DEF CurrentOf
  <2>3. QED
    BY <2>1, <2>2, Stutter, Zenon
<1>11. CASE recover_clear
  <2>1. mode = "recover" /\ mode' = "up" /\ UNCHANGED <<home, logblk, pc>> /\ erase_head
    BY <1>11, Zenon DEF recover_clear
  <2>2. lh' = <<>> /\ loghdr' = <<>> /\ Merge(<<>>, logblk, home) = Merge(loghdr, logblk, home)
    BY <2>1, EraseFacts, Zenon
  <2>3. Durable' = Durable /\ Current = Durable /\ Current' = Durable
    BY <2>1, <2>2, Mapped DEF CurrentOf
  <2>4. InTrans' = {}
    BY <2>1, Zenon DEF InTrans, IInv, Quiet
  <2>5. Owner = NoProc /\ Owner' = NoProc
    BY <2>1, <2>4, Mapped, OwnerFacts, Zenon
  <2>6. Abstract!ARecover
    BY <2>1, <2>3, <2>5, Zenon DEF Abstract!ARecover
  <2>7. QED
    BY <2>6, Zenon DEF Abstract!ANext
<1>12. QED
  <2>1. ASSUME NEW b \in Blocks, Fill(b) \/ Evict(b) PROVE [Abstract!ANext]_(Abstract!avars)
    BY <1>1, <2>1, Zenon DEF Fill, Evict, disk
  <2>2. ASSUME NEW p \in Procs, log_write_panic(p) PROVE [Abstract!ANext]_(Abstract!avars)
    BY <1>5, <2>2, Zenon DEF log_write_panic
  <2>3. CASE Crash
    BY <1>5, <2>3, Zenon DEF Crash, Reboot
  <2>4. CASE UNCHANGED vars
    BY <1>1, <2>4, Zenon DEF vars
  <2>5. ASSUME NEW p \in Procs, install_trans(p) PROVE [Abstract!ANext]_(Abstract!avars)
    BY <1>7, <2>5, Zenon DEF install_trans, Committing
  <2>6. CASE recover_install
    BY <1>7, <2>6, Zenon DEF recover_install
  <2>7. QED
    BY <1>2, <1>4, <1>6, <1>8, <1>9, <1>10, <1>11, <2>1, <2>2, <2>3, <2>4, <2>5, <2>6, Zenon
       DEF Next, EndTrans, Recovery

\* The redo log of log.c makes a disk that changes by whole transactions: a
\* crash at any point leaves all of a transaction or nothing of it.
THEOREM LogImplementsAtomicDisk == Spec => ImplementsAtomicDisk
BY RefinesInit, RefinesStep, Inductive, PTL DEF Spec, ImplementsAtomicDisk, Abstract!ASpec
=============================================================================
