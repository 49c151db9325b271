-------------------------------- MODULE Mkfs --------------------------------
(***************************************************************************)
(* mkfs.c: the image that a kernel starts from, built from one host        *)
(* directory, a sequence of the contents of its files.  mkfs has its own   *)
(* allocators: blocks and inodes are handed out in order, and the bitmap   *)
(* is written once, at the end.                                            *)
(***************************************************************************)
EXTENDS Inode

bitblocks == size \div BPB + 1
firstblock == ninodes \div IPB + 3 + bitblocks

ASSUME MkfsAssumption == nblocks + firstblock + nlog = size

\* An image under construction also counts freeblock and freeinode;
\* usedblocks grows with freeblock.
blank == [cell |-> [b \in AllBlocks |-> Zeroes], inode |-> [i \in Inums |-> FreeInode],
          freeblock |-> firstblock, freeinode |-> 1]

mk_ialloc(m, type) ==
    [m EXCEPT !.inode[m.freeinode] = [FreeInode EXCEPT !.type = type, !.nlink = 1],
              !.freeinode = @ + 1]

mk_addr(m, i, k) ==
    IF m.inode[i].addrs[k] # 0 THEN m
    ELSE [m EXCEPT !.inode[i].addrs[k] = m.freeblock, !.freeblock = @ + 1]

mk_entry(d, ind, k) ==
    IF d.cell[ind][k] # 0 THEN d
    ELSE [d EXCEPT !.cell[ind][k] = d.freeblock, !.freeblock = @ + 1]

mk_indirect(m, i, k) ==
    LET in(d) == mk_entry(d, d.inode[i].addrs[NDIRECT], k) IN in(mk_addr(m, i, NDIRECT))

\* iappend, one cell at a time.
append_cell(m, i, c) ==
    LET off == m.inode[i].size
        fbn == off \div BSIZE
        x(d) == IF fbn < NDIRECT THEN d.inode[i].addrs[fbn]
                ELSE d.cell[d.inode[i].addrs[NDIRECT]][fbn - NDIRECT]
        put(d) == [d EXCEPT !.cell[x(d)][off % BSIZE] = c, !.inode[i].size = off + 1]
    IN put(IF fbn < NDIRECT THEN mk_addr(m, i, fbn) ELSE mk_indirect(m, i, fbn - NDIRECT))

iappend(m, i, bytes) == FoldLeft(LAMBDA t, c : append_cell(t, i, c), m, bytes)

add_file(m, bytes) ==
    LET i == m.freeinode
    IN iappend(iappend(mk_ialloc(m, "file"), i, bytes), ROOTINO, <<i>>)

\* "fix size of inode cur_dir": up to the end of the last block.  A directory
\* whose entries fill their blocks exactly is given one more block than it has.
fix_size(m, i) == [m EXCEPT !.inode[i].size = (@ \div BSIZE + 1) * BSIZE]

add_dir(m, files) ==
    fix_size(FoldLeft(add_file, iappend(m, ROOTINO, <<ROOTINO, ROOTINO>>), files), ROOTINO)

\* balloc marks the blocks below usedblocks.
mk_used(m) == 0 .. m.freeblock - 1

Image(files) ==
    LET written(m) == [used |-> mk_used(m), cell |-> m.cell, inode |-> m.inode,
                       busy |-> FALSE, lh |-> {}, panic |-> ""]
    IN written(add_dir(mk_ialloc(blank, "dir"), files))
=============================================================================
