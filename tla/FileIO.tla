------------------------------- MODULE FileIO -------------------------------
(***************************************************************************)
(* Reading and writing open files: fileread and filewrite of kernel/file.c *)
(* over kernel/fs.c, on the image that mkfs made, with the system calls    *)
(* that create and remove files in the root directory.  filewrite cuts its *)
(* bytes into transactions; those of two processes interleave, also on one *)
(* struct file, that they share after a fork.                              *)
(***************************************************************************)
EXTENDS Mkfs

CONSTANTS Procs, Files, NoFile,
          HostDirs,                \* the host directories that mkfs was given
          Bytes, Byte,             \* the bytes, and the one that each process writes
          ReadSizes, WriteSizes,   \* how many bytes a read or a write asks for
          MaxUnlinks               \* bound on the files removed

VARIABLES s,      \* the file system (see Inode)
          file,   \* struct file: its inode and its offset
          call,   \* the filewrite that a process is in: the file and the bytes left
          out,    \* what the last read returned
          removed \* how many files were removed

vars == <<s, file, call, out, removed>>

Closed == [ip |-> NoFile, off |-> 0]
NoCall == [f |-> NoFile, left |-> 0]

Init ==
    /\ \E files \in HostDirs : s = Image(files)
    /\ file = [f \in Files |-> Closed]
    /\ call = [p \in Procs |-> NoCall]
    /\ out = <<>>
    /\ removed = 0

max == ((LOGSIZE - 1 - 1 - 2) \div 2) * BSIZE

Running == s.panic = ""
isopen(f) == file[f].ip # NoFile
refs(i) == Cardinality({f \in Files : file[f].ip = i})

\* A call ends in the state t, with the open files and the calls it leaves;
\* or one of its checks fails and the machine stops there, before commit_trans
\* has written the header: nothing of the transaction reaches the disk.
ends(t, files, calls) ==
    LET unless_panic(new, old) == IF t.panic = "" THEN new ELSE old
    IN /\ Running
       /\ s' = unless_panic(t, [s EXCEPT !.panic = t.panic])
       /\ file' = unless_panic(files, file)
       /\ call' = unless_panic(calls, call)

Halted == ~Running /\ UNCHANGED vars
-----------------------------------------------------------------------------
\* sys_open looks the name up, with O_CREATE (in create) inside of a
\* transaction and without it outside of any.
sys_open(f, i) ==
    /\ ~isopen(f) /\ i # ROOTINO
    /\ \E t \in {s, begin_trans(s)} : \E d \in {dirlookup(t, ROOTINO, i)} :
         /\ t.busy => d.found
         /\ ends(commit_trans(d.s), IF d.found THEN [file EXCEPT ![f] = [ip |-> i, off |-> 0]] ELSE file, call)
    /\ out' = <<>>
    /\ UNCHANGED removed

\* sys_open with O_CREATE of a name that is not there yet: create(T_FILE).
NewName == -1   \* what no entry is
create(f) ==
    LET linked(a) == iupdate([a.s EXCEPT !.inode[a.i].nlink = 1], a.i)
        checked(l) == IF l.r < 0 THEN panic(l.s, "create: dirlink") ELSE l.s
    IN /\ ~isopen(f)
       /\ \E d \in {dirlookup(begin_trans(s), ROOTINO, NewName)} : \E a \in {ialloc(d.s, "file")} :
            ends(commit_trans(checked(dirlink(linked(a), ROOTINO, a.i))),
                 [file EXCEPT ![f] = [ip |-> a.i, off |-> 0]], call)
       /\ out' = <<>>
       /\ UNCHANGED removed

iput(t, i, ref) == IF ref = 1 /\ t.inode[i].nlink = 0 THEN iput_free(t, i) ELSE t

\* A name that is not there: the lookup alone is the transaction.
sys_unlink(i) ==
    LET linked(t) == IF t.inode[i].nlink < 1 THEN panic(t, "unlink: nlink < 1") ELSE t
        checked(w) == IF w.r # 1 THEN panic(w.s, "unlink: writei") ELSE w.s
        cleared(d) == checked(writei(linked(d.s), ROOTINO, d.off, <<0>>))
        unlinked(d) == iupdate([cleared(d) EXCEPT !.inode[i].nlink = @ - 1], i)
    IN /\ i # ROOTINO
       /\ \E d \in {dirlookup(begin_trans(s), ROOTINO, i)} :
            \/ ~d.found /\ ends(commit_trans(d.s), file, call) /\ UNCHANGED removed
            \/ /\ d.found /\ ends(commit_trans(iput(unlinked(d), i, refs(i) + 1)), file, call)
               /\ removed < MaxUnlinks /\ removed' = removed + 1
       /\ out' = <<>>

fileclose(f) ==
    /\ isopen(f) /\ \A p \in Procs : call[p].f # f
    /\ ends(commit_trans(iput(begin_trans(s), file[f].ip, refs(file[f].ip))),
            [file EXCEPT ![f] = Closed], call)
    /\ out' = <<>>
    /\ UNCHANGED removed
-----------------------------------------------------------------------------
filewrite(p, f, n) ==
    /\ Running /\ isopen(f) /\ call[p] = NoCall
    /\ call' = [call EXCEPT ![p] = [f |-> f, left |-> n]]
    /\ out' = <<>>
    /\ UNCHANGED <<s, file, removed>>

\* One turn of the loop: a transaction for the next piece.
filewrite_piece(p) ==
    LET c == call[p]
        n1 == IF c.left > max THEN max ELSE c.left
        src == [k \in 1 .. n1 |-> Byte[p]]
    IN /\ c # NoCall
       /\ \E w \in {writei(begin_trans(s), file[c.f].ip, file[c.f].off, src)} :
            ends(commit_trans(w.s),
                 IF w.r > 0 THEN [file EXCEPT ![c.f].off = @ + w.r] ELSE file,
                 [call EXCEPT ![p] = IF w.r = -1 \/ c.left = n1 THEN NoCall ELSE [c EXCEPT !.left = @ - n1]])
       /\ out' = <<>>
       /\ UNCHANGED removed

fileread(f, n) ==
    /\ isopen(f)
    /\ \E r \in {readi(s, file[f].ip, file[f].off, n)} :
         /\ ends(r.s, IF r.r > 0 THEN [file EXCEPT ![f].off = @ + r.r] ELSE file, call)
         /\ out' = IF r.s.panic = "" THEN r.data ELSE <<>>
    /\ UNCHANGED removed

Next ==
    \/ \E f \in Files :
        \/ \E i \in Inums : sys_open(f, i)
        \/ create(f) \/ fileclose(f)
        \/ \E n \in ReadSizes : fileread(f, n)
        \/ \E p \in Procs, n \in WriteSizes : filewrite(p, f, n)
    \/ \E p \in Procs : filewrite_piece(p)
    \/ \E i \in Inums : sys_unlink(i)
    \/ Halted

Spec == Init /\ [][Next]_vars
-----------------------------------------------------------------------------
(* Properties *)

\* Block bn of inode i, 0 if there is none.
At(i, bn) == IF bn < NDIRECT THEN s.inode[i].addrs[bn]
             ELSE IF s.inode[i].addrs[NDIRECT] = 0 THEN 0
             ELSE s.cell[s.inode[i].addrs[NDIRECT]][bn - NDIRECT]
HasHole(i) == \E k \in 0 .. s.inode[i].size - 1 : At(i, k \div BSIZE) = 0


\* The bitmap is exact: the blocks in use are those of mkfs' layout and those
\* of the inodes, a block belongs to one inode and to one place in it, and
\* none is lost when files are removed.
Live == {i \in Inums : s.inode[i].type # "none"}
BlocksAccounted ==
    /\ s.used = 0 .. firstblock - 1 \cup UNION {Range(BlocksOf(s, i)) : i \in Live}
    /\ \A i \in Live : LET bs == BlocksOf(s, i)
                       IN /\ IsInjective(bs) /\ Range(bs) \cap 0 .. firstblock - 1 = {}
                          /\ \A j \in Live \ {i} : Range(bs) \cap Range(BlocksOf(s, j)) = {}

\* No file lies in the log's sectors: balloc finds its blocks below them, as
\* long as mkfs left data blocks enough.
LogIsApart == \A i \in Live : Range(BlocksOf(s, i)) \cap size - nlog .. size - 1 = {}

\* The file system implements FlatFile: reads return what was written at that
\* place of that file, through direct and indirect blocks, whatever blocks
\* were freed and used again, and pieces of two writers never overlap.
Cells(i) == [k \in 1 .. s.inode[i].size |-> s.cell[At(i, (k - 1) \div BSIZE)][(k - 1) % BSIZE]]
Contents == [i \in Inums \ {ROOTINO} |-> IF s.inode[i].type = "none" THEN NoFile ELSE Cells(i)]
Named == Range(Cells(ROOTINO)) \ {0, ROOTINO}
Flat == INSTANCE FlatFile WITH
            Inums <- Inums \ {ROOTINO}, Piece <- max, MaxSize <- MAXFILE * BSIZE,
            dir <- Named, content <- Contents,
            ip <- [f \in Files |-> file[f].ip], off <- [f \in Files |-> file[f].off]
ImplementsFlatFile == Flat!FSpec
=============================================================================
