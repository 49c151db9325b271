-------------------------------- MODULE Names -------------------------------
(***************************************************************************)
(* The inode cache and the name space: iget, ilock, iput, namex of         *)
(* kernel/fs.c and the system calls of kernel/sysfile.c that link, unlink, *)
(* create, open, close and change directory, by processes that run at once.*)
(*                                                                         *)
(* A process sleeps in begin_trans and in ilock; what it does between one  *)
(* ilock and the next is a step, and so is each turn of namex' loop.  iput *)
(* gives up icache.lock while it frees an inode, so that is a step too.    *)
(* A directory is a function from names to inums: its slots and blocks are *)
(* in Inode.  The copy of an inode in the cache is written through by      *)
(* iupdate, so one record stands for it and for the disk.                  *)
(***************************************************************************)
EXTENDS Integers, Sequences, FiniteSets, FiniteSetsExt

CONSTANTS Procs, NoProc,
          Entries,       \* names of directory entries, but for "." and ".."
          Calls,         \* the calls that programs make, as <<name, path, ...>>; a
                         \* path that begins with "/" is an absolute one
          ninodes

ASSUME NamesAssumption ==
    /\ NoProc \notin Procs /\ {"/", ".", ".."} \cap Entries = {}
    /\ ninodes \in Nat \ {0, 1}
    /\ \A k \in Calls : k[2] # <<>>

ROOTINO == 1
Inums == 1 .. ninodes - 1
None == 0   \* no inode

VARIABLES
    disk,      \* inodes: type, nlink and the entries of directories
    icache,    \* ref, the holder of I_BUSY (lock), and I_VALID, by inum
    busy,      \* the process in a transaction
    cwd, ofile,\* of each process: its directory, and the inode of its open file
    call,      \* of each process: the call it is in
    late,      \* history: the inodes entered in a directory that was already removed
    panicked

vars == <<disk, icache, busy, cwd, ofile, call, late, panicked>>

\* A call: the steps it has yet to take, the inodes it refers to (at is where
\* namex is, or what it found), what is left of its path, and link's new one.
Returned == [todo |-> <<>>, at |-> None, ip |-> None, path |-> <<>>, new |-> <<>>]

NoEntries == [n \in Entries \cup {".."} |-> None]
Free == [type |-> "none", nlink |-> 0, ents |-> NoEntries]

\* mkfs: a root directory that is its own parent.
Init ==
    /\ disk = [i \in Inums |-> IF i = ROOTINO
                               THEN [type |-> "dir", nlink |-> 1,
                                     ents |-> [NoEntries EXCEPT ![".."] = ROOTINO]]
                               ELSE Free]
    /\ icache = [i \in Inums |-> [ref |-> IF i = ROOTINO THEN Cardinality(Procs) ELSE 0,
                                  lock |-> NoProc, valid |-> FALSE]]
    /\ busy = NoProc
    /\ cwd = [p \in Procs |-> ROOTINO] /\ ofile = [p \in Procs |-> None]
    /\ call = [p \in Procs |-> Returned]
    /\ late = {} /\ panicked = ""
-----------------------------------------------------------------------------
(* The inode cache: functions from one state of it to the next *)

\* The cache has room: NINODE is more than the calls can refer to.
iget(c, i) == [c EXCEPT ![i].ref = @ + 1]
ilock(c, i, p) == [c EXCEPT ![i].lock = p, ![i].valid = TRUE]
iunlock(c, i) == [c EXCEPT ![i].lock = NoProc]

\* iput: the last reference to an inode without links frees it, and that is
\* a step to come, <<"free", i>>; otherwise the reference goes, and with the
\* last one the slot, whose flags iget clears.
Bug_lastput(c, d, i) == c[i].valid /\ d[i].nlink = 0
lastput(c, d, i) == c[i].ref = 1 /\ c[i].valid /\ d[i].nlink = 0
unref(e) == [e EXCEPT !.ref = @ - 1, !.valid = @ /\ e.ref > 1]
put(c, d, i, p) ==
    IF lastput(c, d, i) THEN [c EXCEPT ![i].lock = p] ELSE [c EXCEPT ![i] = unref(@)]
tofree(c, d, i) == IF lastput(c, d, i) THEN <<<<"free", i>>>> ELSE <<>>

iunlockput(c, d, i, p) == put(iunlock(c, i), d, i, p)
-----------------------------------------------------------------------------
(* Steps of a process *)

Running == panicked = ""
Idle(p) == Running /\ cwd[p] # None /\ call[p] = Returned
Does(p, op) == Running /\ call[p].todo # <<>> /\ call[p].todo[1][1] = op
Rest(p) == Tail(call[p].todo)

Commit == <<<<"commit_trans">>>>
Failed == [Returned EXCEPT !.todo = Commit]

\* New inodes, new cache, and what is left of p's call.
Step(p, d, c, k) ==
    /\ disk' = d /\ icache' = c
    /\ call' = [call EXCEPT ![p] = IF k.todo = <<>> THEN Returned ELSE k]
    /\ late' = {i \in Inums : /\ d[i].type # "none"
                              /\ \/ i \in late
                                 \/ \E j \in Inums, n \in Entries :
                                       /\ disk[j].nlink = 0
                                       /\ d[j].ents[n] = i /\ disk[j].ents[n] # i}
    /\ UNCHANGED <<busy, cwd, ofile, panicked>>

\* The inode that the next step of p locks; ilock sleeps while it is busy.
LocksIp == {"unlink_ip", "create_new", "link_bad"}
LocksAt == {"unlink_dp", "create", "create_found", "link_ip", "link_dp", "open", "chdir"}
target(p) ==
    IF call[p].todo = <<>> THEN None
    ELSE LET op == call[p].todo[1][1]
         IN IF op \in LocksIp THEN call[p].ip
            ELSE IF op \in LocksAt \/ (op \in {"namei", "nameiparent"} /\ call[p].path # <<>>)
            THEN call[p].at ELSE None
NoType(i) == ~icache[i].valid /\ disk[i].type = "none"
Locks(p, op) == Does(p, op) /\ target(p) # None /\ icache[target(p)].lock = NoProc /\ ~NoType(target(p))

panic(msg) == panicked' = msg /\ UNCHANGED <<disk, icache, busy, cwd, ofile, call, late>>

ilock_panic(p) ==
    /\ Running /\ target(p) # None
    /\ icache[target(p)].lock = NoProc /\ NoType(target(p))
    /\ panic("ilock: no type")

begin_trans(p) ==
    /\ Does(p, "begin_trans")
    /\ busy = NoProc
    /\ busy' = p
    /\ call' = [call EXCEPT ![p].todo = Rest(p)]
    /\ UNCHANGED <<disk, icache, cwd, ofile, late, panicked>>

commit_trans(p) ==
    /\ Does(p, "commit_trans")
    /\ busy' = NoProc
    /\ call' = [call EXCEPT ![p] = IF Rest(p) = <<>> THEN Returned ELSE [@ EXCEPT !.todo = Rest(p)]]
    /\ UNCHANGED <<disk, icache, cwd, ofile, late, panicked>>

\* iput of an inode that p has not locked.
iput(p) ==
    /\ Does(p, "iput")
    /\ LET i == call[p].todo[1][2]
       IN IF lastput(icache, disk, i) /\ icache[i].lock # NoProc THEN panic("iput busy")
          ELSE Step(p, disk, put(icache, disk, i, p),
                    [call[p] EXCEPT !.todo = tofree(icache, disk, i) \o Rest(p)])

\* itrunc and iupdate in iput: log_write wants a transaction, of anybody.
iput_free(p) ==
    /\ Does(p, "free")
    /\ LET i == call[p].todo[1][2]
       IN IF busy = NoProc THEN panic("write outside of trans")
          ELSE Step(p, [disk EXCEPT ![i] = Free],
                    [icache EXCEPT ![i] = [ref |-> @.ref - 1, lock |-> NoProc, valid |-> FALSE]],
                    [call[p] EXCEPT !.todo = Rest(p)])
-----------------------------------------------------------------------------
(* namex *)

start(p, t) == IF t[1] = "/" THEN ROOTINO ELSE cwd[p]
elems(t) == IF t[1] = "/" THEN Tail(t) ELSE t

\* The loop begins with a reference to the root or to the current directory.
namex(p, t, k) ==
    Step(p, disk, iget(icache, start(p, t)),
         [k EXCEPT !.at = start(p, t), !.path = elems(t),
                   !.todo = IF elems(t) = <<>> /\ @[1] = <<"namei">> THEN Tail(@) ELSE @])

\* Where a call goes on when the lookup has found nothing.
notfound(p) ==
    LET op == call[p].todo[2][1]
    IN IF op = "create" THEN Commit
       ELSE IF op = "link_dp" THEN <<<<"link_bad">>>> \o Commit
       ELSE <<>>

\* Give up c[i], that p has locked, and go on with k.
Drop(p, d, c, i, k) ==
    Step(p, d, iunlockput(c, d, i, p), [k EXCEPT !.todo = tofree(c, d, i) \o @])
Missing(p) == [call[p] EXCEPT !.todo = notfound(p), !.at = None, !.path = <<>>]

\* "/" has no parent: iput(ip).
Bug_put_root(p) == <<>>
put_root(p) == <<<<"iput", call[p].at>>>>

namex_noparent(p) ==
    /\ Does(p, "nameiparent") /\ call[p].path = <<>>
    /\ Step(p, disk, icache, [Missing(p) EXCEPT !.todo = put_root(p) \o @])

namex_parent(p) ==
    LET i == call[p].at
    IN /\ Locks(p, "nameiparent") /\ Len(call[p].path) = 1 /\ disk[i].type = "dir"
       /\ Step(p, disk, iunlock(ilock(icache, i, p), i), [call[p] EXCEPT !.todo = Rest(p)])

namex_element(p) ==
    LET i == call[p].at
        next == disk[i].ents[call[p].path[1]]
        locked == ilock(icache, i, p)
    IN /\ \/ Locks(p, "namei") /\ call[p].path # <<>>
          \/ Locks(p, "nameiparent") /\ Len(call[p].path) > (IF disk[i].type = "dir" THEN 1 ELSE 0)
       /\ IF disk[i].type # "dir" \/ next = None
          THEN Drop(p, disk, locked, i, Missing(p))
          ELSE Drop(p, disk, iget(locked, next), i,
                    [call[p] EXCEPT !.at = next, !.path = Tail(@),
                                    !.todo = IF Locks(p, "namei") /\ Len(call[p].path) = 1
                                             THEN Rest(p) ELSE @])
-----------------------------------------------------------------------------
(* create, and sys_open, sys_mkdir and sys_mknod around it *)

begin_create(p, type, t) ==
    /\ Idle(p) /\ busy = NoProc
    /\ busy' = p
    /\ icache' = iget(icache, start(p, t))
    /\ call' = [call EXCEPT ![p] = [Returned EXCEPT !.at = start(p, t), !.path = elems(t),
           !.todo = <<<<"nameiparent">>, <<"create", type>>>>]]
    /\ UNCHANGED <<disk, cwd, ofile, late, panicked>>

\* The rest of the caller: sys_open commits with the inode locked.
created(type) == IF type = "file" THEN Commit \o <<<<"open_locked">>>>
                 ELSE <<<<"putlocked">>>> \o Commit

create(p) ==
    LET dp == call[p].at
        type == call[p].todo[1][2]
        i == disk[dp].ents[call[p].path[1]]
        locked == ilock(icache, dp, p)
        free == {j \in Inums : disk[j].type = "none"}
    IN /\ Locks(p, "create")
       /\ IF i # None
          THEN Drop(p, disk, iget(locked, i), dp,
                    [call[p] EXCEPT !.todo = <<<<"create_found", type>>>>, !.at = i])
          ELSE IF free = {} THEN panic("ialloc: no inodes")
          ELSE Step(p, [disk EXCEPT ![Min(free)] = [Free EXCEPT !.type = type]],
                    iget(locked, Min(free)),
                    [call[p] EXCEPT !.todo = <<<<"create_new", type>>>>, !.ip = Min(free)])

create_found(p) ==
    LET i == call[p].at
        type == call[p].todo[1][2]
        locked == ilock(icache, i, p)
    IN /\ Locks(p, "create_found")
       /\ IF type = "file" /\ disk[i].type = "file"
          THEN Step(p, disk, locked, [Returned EXCEPT !.todo = created(type), !.at = i])
          ELSE Drop(p, disk, locked, i, Failed)

dotdot(d, type, dp, i) ==
    IF type # "dir" THEN d ELSE [d EXCEPT ![dp].nlink = @ + 1, ![i].ents[".."] = dp]

create_new(p) ==
    LET dp == call[p].at
        i == call[p].ip
        type == call[p].todo[1][2]
        linked == [disk EXCEPT ![i].nlink = 1, ![dp].ents[call[p].path[1]] = i]
    IN /\ Locks(p, "create_new")
       /\ Drop(p, dotdot(linked, type, dp, i), ilock(icache, i, p), dp,
               [Returned EXCEPT !.todo = created(type), !.at = i])

\* mkdir and mknod: iunlockput(ip).
putlocked(p) ==
    /\ Does(p, "putlocked")
    /\ Drop(p, disk, icache, call[p].at, [Returned EXCEPT !.todo = Rest(p)])
-----------------------------------------------------------------------------
(* sys_open, fileclose, sys_chdir, exit, fork *)

begin_open(p, omode, t) ==
    /\ Idle(p)
    /\ namex(p, t, [Returned EXCEPT !.todo = <<<<"namei">>, <<"open", omode>>>>])

\* filealloc fails if the process has its one file open.
open_file(p, c) ==
    LET i == call[p].at
    IN IF ofile[p] # None THEN Drop(p, disk, c, i, Returned)
       ELSE /\ icache' = iunlock(c, i)
            /\ ofile' = [ofile EXCEPT ![p] = i]
            /\ call' = [call EXCEPT ![p] = Returned]
            /\ UNCHANGED <<disk, busy, cwd, late, panicked>>

open(p) ==
    LET i == call[p].at
        locked == ilock(icache, i, p)
    IN /\ Locks(p, "open")
       /\ IF disk[i].type = "dir" /\ call[p].todo[1][2] # "O_RDONLY"
          THEN Drop(p, disk, locked, i, Returned)
          ELSE open_file(p, locked)

open_locked(p) == Does(p, "open_locked") /\ open_file(p, icache)

\* The last close of a file: iput in a transaction.
begin_close(p) ==
    /\ Idle(p) /\ ofile[p] # None
    /\ ofile' = [ofile EXCEPT ![p] = None]
    /\ call' = [call EXCEPT ![p] = [Returned EXCEPT
           !.todo = <<<<"begin_trans">>, <<"iput", ofile[p]>>>> \o Commit]]
    /\ UNCHANGED <<disk, icache, busy, cwd, late, panicked>>

begin_chdir(p, t) ==
    /\ Idle(p)
    /\ namex(p, t, [Returned EXCEPT !.todo = <<<<"namei">>, <<"chdir">>>>])

chdir(p) ==
    LET i == call[p].at
        locked == ilock(icache, i, p)
    IN /\ Locks(p, "chdir")
       /\ IF disk[i].type # "dir"
          THEN Drop(p, disk, locked, i, Returned)
          ELSE /\ icache' = iunlock(locked, i)
               /\ cwd' = [cwd EXCEPT ![p] = i]
               /\ call' = [call EXCEPT ![p] = [Returned EXCEPT !.todo = <<<<"iput", cwd[p]>>>>]]
               /\ UNCHANGED <<disk, busy, ofile, late, panicked>>

\* exit has closed the files; it drops the directory outside of a transaction.
\* The first process never exits.
exit(p) ==
    /\ Idle(p) /\ ofile[p] = None
    /\ \E q \in Procs \ {p} : cwd[q] # None
    /\ cwd' = [cwd EXCEPT ![p] = None]
    /\ call' = [call EXCEPT ![p] = [Returned EXCEPT !.todo = <<<<"iput", cwd[p]>>>>]]
    /\ UNCHANGED <<disk, icache, busy, ofile, late, panicked>>

\* fork: idup(proc->cwd).  (Shared open files are in Resources.)
fork(p, q) ==
    /\ Idle(p) /\ ofile[p] = None
    /\ cwd[q] = None /\ call[q] = Returned
    /\ icache' = iget(icache, cwd[p])
    /\ cwd' = [cwd EXCEPT ![q] = cwd[p]]
    /\ UNCHANGED <<disk, busy, ofile, call, late, panicked>>
-----------------------------------------------------------------------------
(* sys_unlink *)

begin_unlink(p, t) ==
    /\ Idle(p)
    /\ namex(p, t, [Returned EXCEPT !.todo =
           <<<<"nameiparent">>, <<"begin_trans">>, <<"unlink_dp">>>>])

\* "Cannot unlink "." or ".."."
Bug_isdots(name) == FALSE
isdots(name) == name = ".."

unlink_dp(p) ==
    LET dp == call[p].at
        name == call[p].path[1]
        i == disk[dp].ents[name]
        locked == ilock(icache, dp, p)
    IN /\ Locks(p, "unlink_dp")
       /\ IF isdots(name) \/ i = None THEN Drop(p, disk, locked, dp, Failed)
          ELSE Step(p, disk, iget(locked, i),
                    [call[p] EXCEPT !.todo = <<<<"unlink_ip">>>>, !.ip = i])

isdirempty(i) == \A n \in Entries : disk[i].ents[n] = None

\* The entry, then dp, then the inode it named.
unlink_ip(p) ==
    LET dp == call[p].at
        i == call[p].ip
        isdir == disk[i].type = "dir"
        locked == ilock(icache, i, p)
        kept == iunlockput(locked, disk, i, p)
        cleared == [disk EXCEPT ![dp].ents[call[p].path[1]] = None,
                                ![dp].nlink = IF isdir THEN @ - 1 ELSE @]
        gone == [cleared EXCEPT ![i].nlink = @ - 1]
        c == iunlockput(locked, cleared, dp, p)
    IN /\ Locks(p, "unlink_ip")
       /\ IF disk[i].nlink < 1 THEN panic("unlink: nlink < 1")
          ELSE IF isdir /\ ~isdirempty(i) THEN Drop(p, disk, kept, dp, Failed)
          ELSE Drop(p, gone, c, i, [Failed EXCEPT !.todo = tofree(locked, cleared, dp) \o @])
-----------------------------------------------------------------------------
(* sys_link *)

begin_link(p, old, t) ==
    /\ Idle(p)
    /\ namex(p, old, [Returned EXCEPT !.new = t,
           !.todo = <<<<"namei">>, <<"begin_trans">>, <<"link_ip">>>>])

link_ip(p) ==
    LET i == call[p].at
        locked == ilock(icache, i, p)
    IN /\ Locks(p, "link_ip")
       /\ IF disk[i].type = "dir" THEN Drop(p, disk, locked, i, Failed)
          ELSE LET dp == start(p, call[p].new)
               IN Step(p, [disk EXCEPT ![i].nlink = @ + 1], iget(iunlock(locked, i), dp),
                       [todo |-> <<<<"nameiparent">>, <<"link_dp">>>>, at |-> dp, ip |-> i,
                        path |-> elems(call[p].new), new |-> <<>>])

link_dp(p) ==
    LET dp == call[p].at
        name == call[p].path[1]
        i == call[p].ip
        linked == [disk EXCEPT ![dp].ents[name] = i]
        locked == ilock(icache, dp, p)
    IN /\ Locks(p, "link_dp")
       /\ IF disk[dp].ents[name] # None
          THEN Drop(p, disk, locked, dp, [call[p] EXCEPT !.todo = <<<<"link_bad">>>>, !.at = None])
          ELSE Drop(p, linked, locked, dp, [Failed EXCEPT !.todo = <<<<"iput", i>>>> \o @])

Bug_link_undo(i) == disk
link_undo(i) == [disk EXCEPT ![i].nlink = @ - 1]

link_bad(p) ==
    LET i == call[p].ip
    IN /\ Locks(p, "link_bad")
       /\ Drop(p, link_undo(i), ilock(icache, i, p), i, Failed)
-----------------------------------------------------------------------------
Begin(p) ==
    \E k \in Calls :
        \/ k[1] = "open" /\ begin_open(p, k[3], k[2])
        \/ k[1] = "create" /\ begin_create(p, k[3], k[2])
        \/ k[1] = "chdir" /\ begin_chdir(p, k[2])
        \/ k[1] = "unlink" /\ begin_unlink(p, k[2])
        \/ k[1] = "link" /\ begin_link(p, k[2], k[3])

Continue(p) ==
    \/ begin_trans(p) \/ commit_trans(p) \/ iput(p) \/ iput_free(p) \/ ilock_panic(p)
    \/ namex_noparent(p) \/ namex_parent(p) \/ namex_element(p)
    \/ create(p) \/ create_found(p) \/ create_new(p) \/ putlocked(p)
    \/ open(p) \/ open_locked(p) \/ chdir(p)
    \/ unlink_dp(p) \/ unlink_ip(p)
    \/ link_ip(p) \/ link_dp(p) \/ link_bad(p)

Halted == panicked # "" /\ UNCHANGED vars

Next ==
    \/ \E p \in Procs : Begin(p) \/ begin_close(p) \/ exit(p) \/ Continue(p)
    \/ \E p, q \in Procs : fork(p, q)
    \/ Halted

Spec == Init /\ [][Next]_vars
-----------------------------------------------------------------------------
(* Properties *)

\* ref counts exactly those who refer to the inode: current directories, open
\* files, the variables of calls, and an iput that is not finished.  An inode
\* is thus never recycled under its users and never kept for nobody.
Refers(p, i) ==
    Cardinality({v \in {"cwd", "ofile", "at", "ip"} :
                    i = CASE v = "cwd" -> cwd[p] [] v = "ofile" -> ofile[p]
                          [] v = "at" -> call[p].at [] v = "ip" -> call[p].ip})
        + Cardinality({k \in DOMAIN call[p].todo : call[p].todo[k] \in {<<"iput", i>>, <<"free", i>>}})
RefsAreCounted ==
    \A i \in Inums : icache[i].ref = MapThenSumSet(LAMBDA p : Refers(p, i), Procs)

\* Links are exact whenever a transaction is not under way, so that this is
\* what a crash leaves: an inode that a directory names is allocated; nlink
\* counts the entries for it and, of a directory, the ".." of those in it; a
\* directory has one entry at most.  Only what was created in a directory
\* after its removal may have lost its entry.
Links(i) == {<<d, n>> \in Inums \X Entries : disk[d].type = "dir" /\ disk[d].ents[n] = i}
Subdirs(i) == {d \in Inums : disk[d].type = "dir" /\ \E n \in Entries : disk[i].ents[n] = d}
Counted(i) == Cardinality(Links(i)) + Cardinality(Subdirs(i)) + (IF i = ROOTINO THEN 1 ELSE 0)
LinksAreExact ==
    /\ panicked # "unlink: nlink < 1"
    /\ busy = NoProc =>
        \A i \in Inums :
            /\ Links(i) # {} => disk[i].type # "none"
            /\ disk[i].nlink = Counted(i) \/ (i \in late /\ disk[i].nlink > Counted(i))
            /\ disk[i].type = "dir" => Cardinality(Links(i)) <= 1

\* No inode is freed under those who use it: what a process refers to is
\* allocated, unless it came from the ".." of a directory that was removed
\* before its parent.
UsedInodesExist ==
    /\ panicked # "iput busy"
    /\ \A i \in Inums :
          icache[i].ref > 0 /\ disk[i].type = "none" =>
              \E d \in Inums : disk[d].nlink = 0 /\ disk[d].ents[".."] = i

\* log_write: "write outside of trans" does not happen.
WritesAreInTransactions == panicked # "write outside of trans"

\* Nobody waits in a circle: not for the transaction of one who waits for an
\* inode, nor for inodes of each other, nor for an inode they have locked
\* themselves.
WaitsFor(p, q) ==
    \/ Does(p, "begin_trans") /\ busy = q
    \/ target(p) # None /\ icache[target(p)].lock = q
NoCircularWait ==
    \A ps \in SUBSET Procs \ {{}} : \E p \in ps : \A q \in ps : ~WaitsFor(p, q)
=============================================================================
