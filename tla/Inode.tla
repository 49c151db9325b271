------------------------------- MODULE Inode --------------------------------
(***************************************************************************)
(* kernel/fs.c: the block allocator and the content of inodes, as functions *)
(* from one state of the file system to the next.                          *)
(*                                                                         *)
(* A state s has the bitmap (s.used, the blocks whose bit is set), the     *)
(* inodes, the cells of every block, and what the log knows of the         *)
(* transaction: log.busy and the sectors in its header (s.lh).  A cell     *)
(* stands for a byte of a file, for a block number in an indirect block or *)
(* for the inum of a directory entry: a file has one name, which its inum  *)
(* stands for.  Inodes are files and directories; T_DEV leaves readi and   *)
(* writei for devsw at once (see Console).  The record of an inode is its  *)
(* copy in the icache, where the kernel keeps it while it is used, and the *)
(* root for ever.                                                          *)
(*                                                                         *)
(* A check that fails sets s.panic; what a function does to s after that   *)
(* never happens, and the caller drops it.                                 *)
(***************************************************************************)
EXTENDS Integers, Sequences, FiniteSets, SequencesExt, FiniteSetsExt

CONSTANTS BSIZE, NDIRECT, LOGSIZE,
          UINT,                          \* 2^32, the range of an offset
          IPB, BPB,                      \* inodes and bitmap bits per block
          size, nblocks, ninodes, nlog   \* struct superblock

ASSUME InodeAssumption ==
    /\ {BSIZE, NDIRECT, LOGSIZE, UINT, IPB, BPB, size, nblocks, ninodes, nlog} \subseteq Nat \ {0}
    /\ size <= BPB

NINDIRECT == BSIZE
MAXFILE == NDIRECT + NINDIRECT
ROOTINO == 1
Inums == 1 .. ninodes - 1
AllBlocks == 0 .. size - 1
Offsets == 0 .. BSIZE - 1

IBLOCK(i) == i \div IPB + 2
BBLOCK(b) == b \div BPB + ninodes \div IPB + 3

Zeroes == [k \in Offsets |-> 0]
FreeInode == [type |-> "none", nlink |-> 0, size |-> 0, addrs |-> [k \in 0 .. NDIRECT |-> 0]]

panic(s, msg) == IF s.panic = "" THEN [s EXCEPT !.panic = msg] ELSE s
-----------------------------------------------------------------------------
(* The log, as the file system uses it; Log.tla has its inside *)

begin_trans(s) == [s EXCEPT !.busy = TRUE]
commit_trans(s) == [s EXCEPT !.busy = FALSE, !.lh = {}]

log_write(s, b) ==
    IF Cardinality(s.lh) >= LOGSIZE \/ Cardinality(s.lh) >= nlog - 1
    THEN panic(s, "too big a transaction")
    ELSE IF ~s.busy THEN panic(s, "write outside of trans")
    ELSE [s EXCEPT !.lh = @ \cup {b}]
-----------------------------------------------------------------------------
(* Blocks *)

bzero(s, b) == log_write([s EXCEPT !.cell[b] = Zeroes], b)

\* A function that finds a block yields it with the state that it leaves.
balloc(s) ==
    LET free == AllBlocks \ s.used
        b == Min(free)
        marked == log_write([s EXCEPT !.used = @ \cup {b}], BBLOCK(b))
    IN IF free = {} THEN [s |-> panic(s, "balloc: out of blocks"), b |-> 0]
       ELSE [s |-> bzero(marked, b), b |-> b]

bfree(s, b) ==
    IF b \notin s.used THEN panic(s, "freeing free block")
    ELSE log_write([s EXCEPT !.used = @ \ {b}], BBLOCK(b))
-----------------------------------------------------------------------------
(* Inodes *)

iupdate(s, i) == log_write(s, IBLOCK(i))

ialloc(s, type) ==
    LET free == {i \in Inums : s.inode[i].type = "none"}
        i == Min(free)
    IN IF free = {} THEN [s |-> panic(s, "ialloc: no inodes"), i |-> ROOTINO]
       ELSE [s |-> log_write([s EXCEPT !.inode[i] = [FreeInode EXCEPT !.type = type]], IBLOCK(i)),
             i |-> i]

\* The block that slot k of ip->addrs names, allocated if there is none.
addr(s, i, k) ==
    LET new(a) == [a EXCEPT !.s.inode[i].addrs[k] = a.b]
    IN IF s.inode[i].addrs[k] # 0 THEN [s |-> s, b |-> s.inode[i].addrs[k]]
       ELSE new(balloc(s))

\* The block that entry k of an indirect block names, allocated likewise.
entry(ind, k) ==
    LET new(a) == [a EXCEPT !.s = log_write([@ EXCEPT !.cell[ind.b][k] = a.b], ind.b)]
    IN IF ind.s.cell[ind.b][k] # 0 THEN [s |-> ind.s, b |-> ind.s.cell[ind.b][k]]
       ELSE new(balloc(ind.s))

indirect(s, i, k) == entry(addr(s, i, NDIRECT), k)

bmap(s, i, bn) ==
    IF bn < NDIRECT THEN addr(s, i, bn)
    ELSE IF bn < MAXFILE THEN indirect(s, i, bn - NDIRECT)
    ELSE [s |-> panic(s, "bmap: out of range"), b |-> 0]

\* The blocks of an inode, in the order in which itrunc frees them.
BlocksOf(s, i) ==
    LET addrs == s.inode[i].addrs
        ind == IF addrs[NDIRECT] = 0 THEN Zeroes ELSE s.cell[addrs[NDIRECT]]
    IN SelectSeq([k \in 1 .. NDIRECT |-> addrs[k - 1]]
                     \o [k \in 1 .. NINDIRECT |-> ind[k - 1]] \o <<addrs[NDIRECT]>>,
                 LAMBDA b : b # 0)

Bug_itrunc(s, i) ==
    LET held == SelectSeq([k \in 1 .. NDIRECT + 1 |-> s.inode[i].addrs[k - 1]], LAMBDA b : b # 0)
        freed == FoldLeft(bfree, s, held)
    IN iupdate([freed EXCEPT !.inode[i].addrs = FreeInode.addrs, !.inode[i].size = 0], i)
itrunc(s, i) ==
    LET freed == FoldLeft(bfree, s, BlocksOf(s, i))
    IN iupdate([freed EXCEPT !.inode[i].addrs = FreeInode.addrs, !.inode[i].size = 0], i)

\* The end of iput for the last reference to an inode without links.
iput_free(s, i) == iupdate([itrunc(s, i) EXCEPT !.inode[i].type = "none"], i)
-----------------------------------------------------------------------------
(* Content *)

\* The numbers of the file's blocks that n bytes from off lie in.
Span(off, n) == IF n = 0 THEN <<>>
                ELSE LET first == off \div BSIZE
                     IN [k \in 1 .. (off + n - 1) \div BSIZE - first + 1 |-> first + k - 1]

\* off + n < off, in unsigned arithmetic.
wraps(off, n) == (off + n) % UINT < off

\* n bytes from off, r of them before the end of the file; -1 is an error.
readi(s, i, off, n) ==
    LET r == IF off + n > s.inode[i].size THEN s.inode[i].size - off ELSE n
        found(t, m) == [s |-> m.s, at |-> Append(t.at, m.b)]
        step(t, bn) == found(t, bmap(t.s, i, bn))
        byte(t, k) == t.s.cell[t.at[k \div BSIZE - off \div BSIZE + 1]][k % BSIZE]
        copy(t) == [s |-> t.s, r |-> r, data |-> [k \in 1 .. r |-> byte(t, off + k - 1)]]
    IN IF off > s.inode[i].size \/ wraps(off, n) THEN [s |-> s, r |-> -1, data |-> <<>>]
       ELSE copy(FoldLeft(step, [s |-> s, at |-> <<>>], Span(off, r)))

Bug_grow(s, i, end) == iupdate([s EXCEPT !.inode[i].size = end], i)
grow(s, i, end) ==
    IF end <= s.inode[i].size THEN s ELSE iupdate([s EXCEPT !.inode[i].size = end], i)

writei(s, i, off, src) ==
    LET end == off + Len(src)
        copy(m, bn) == [k \in Offsets |-> IF bn * BSIZE + k \in off .. end - 1
                                          THEN src[bn * BSIZE + k - off + 1]
                                          ELSE m.s.cell[m.b][k]]
        fill(m, bn) == log_write([m.s EXCEPT !.cell[m.b] = copy(m, bn)], m.b)
        block(t, bn) == fill(bmap(t, i, bn), bn)
    IN IF off > s.inode[i].size \/ wraps(off, Len(src)) \/ end > MAXFILE * BSIZE THEN [s |-> s, r |-> -1]
       ELSE IF src = <<>> THEN [s |-> s, r |-> 0]
       ELSE [s |-> grow(FoldLeft(block, s, Span(off, Len(src))), i, end), r |-> Len(src)]
-----------------------------------------------------------------------------
(* Directories: one cell is one entry *)

\* Entries are read from the start until the first that is x.
scan(s, dp, x) ==
    LET n == s.inode[dp].size
        first(data) == Min({k \in 1 .. n : data[k] = x} \cup {n + 1})
        upto(k) == [s |-> readi(s, dp, 0, IF k > n THEN n ELSE k).s, found |-> k <= n, off |-> k - 1]
    IN upto(first(readi(s, dp, 0, n).data))

dirlookup(s, dp, inum) == scan(s, dp, inum)

\* -1 if the name is there; else the first empty entry, or a new one at the end.
dirlink(s, dp, inum) ==
    LET put(slot) == writei(slot.s, dp, slot.off, <<inum>>)
        checked(w) == [s |-> IF w.r # 1 THEN panic(w.s, "dirlink") ELSE w.s, r |-> 0]
        absent(d) == IF d.found THEN [s |-> d.s, r |-> -1] ELSE checked(put(scan(d.s, dp, 0)))
    IN absent(dirlookup(s, dp, inum))
=============================================================================
