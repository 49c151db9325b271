----------------------------- MODULE Resources ------------------------------
(***************************************************************************)
(* What a process owns: its kernel stack, its address space and its file   *)
(* descriptors.  fork, exit, wait, growproc of kernel/proc.c, execve of    *)
(* kernel/exec.c, the open file table of kernel/file.c, pipealloc and the  *)
(* calls of kernel/sysfile.c that make and give up descriptors.            *)
(*                                                                         *)
(* A call is one step: it works on its own process, and on the free pages  *)
(* and the file table under their locks.  What other CPUs do meanwhile is  *)
(* in Memory's failing kallocs.  ret tells whether the last call failed.   *)
(***************************************************************************)
EXTENDS Memory

CONSTANTS NPROC, NFILE, NOFILE,
          WORD,         \* addresses are taken modulo this
          Brks,         \* arguments of sbrk
          Programs,     \* executable files: sequences of [vaddr, filesz, memsz]
          FailSets      \* which kallocs of a call may fail

ASSUME ResourcesAssumption ==
    /\ {NPROC, NFILE, NOFILE, WORD} \subseteq Nat \ {0} /\ Brks \subseteq Int
    /\ KERNBASE + 2 * PGSIZE <= WORD /\ \A s \in FailSets : s \subseteq Nat

None == 0
Procs == 1 .. NPROC
initproc == 1
Fds == 0 .. NOFILE - 1
Files == 1 .. NFILE
NoFile == 0

VARIABLES m,      \* the memory (see Memory)
          proc,   \* the process table
          ftable, \* struct file: ref, type and which pipe
          ret     \* what the last call returned

vars == <<m, proc, ftable, ret>>

Unused == [state |-> "UNUSED", parent |-> None, kstack |-> FALSE, d |-> NoDir, sz |-> 0,
           ofile |-> [fd \in Fds |-> NoFile]]
NoRefs == [ref |-> 0, type |-> "FD_NONE", pipe |-> None]

\* No call is under way.
Quiet(mm) == [mm EXCEPT !.n = 0, !.fails = {}]

\* userinit
Init ==
    /\ ret = "ok"
    /\ ftable = [f \in Files |-> NoRefs]
    /\ \E s \in {setupkvm(kalloc(kinit).m)} : \E u \in {inituvm(s.m, s.d)} :
         /\ m = Quiet(u.m)
         /\ proc = [p \in Procs |-> IF p # initproc THEN Unused
                                    ELSE [Unused EXCEPT !.state = "LIVE", !.kstack = TRUE,
                                                        !.d = u.d, !.sz = PGSIZE]]
-----------------------------------------------------------------------------
(* file.c, on the file table t *)

filealloc(t) == LET free == {f \in Files : t[f].ref = 0} IN IF free = {} THEN NoFile ELSE Min(free)
withfile(t, f) == [t EXCEPT ![f].ref = 1]
filedup(t, f) == IF f = NoFile THEN t ELSE [t EXCEPT ![f].ref = @ + 1]

\* fileclose, with pipeclose: the second end to be closed frees the pipe.  The
\* other end is open as long as its file has references.
fileclose(mm, t, f) ==
    LET rest == [t EXCEPT ![f] = NoRefs]
        other == \E g \in Files : rest[g].type = "FD_PIPE" /\ rest[g].pipe = t[f].pipe
    IN IF t[f].ref < 1 THEN [m |-> panic(mm, "fileclose"), t |-> t]
       ELSE IF t[f].ref > 1 THEN [m |-> mm, t |-> [t EXCEPT ![f].ref = @ - 1]]
       ELSE [m |-> IF t[f].type = "FD_PIPE" /\ ~other THEN kfree(mm) ELSE mm, t |-> rest]

fdalloc(ofile) == LET free == {fd \in Fds : ofile[fd] = NoFile} IN IF free = {} THEN -1 ELSE Min(free)
-----------------------------------------------------------------------------
Running == m.panic = ""
\* p can call the kernel: its code is there to run.
Calls(p) == Running /\ proc[p].state = "LIVE" /\ proc[p].d.pte[0] = "user"
\* A call starts, with kallocs that may fail.
Start(fails) == [m EXCEPT !.fails = fails]
Succeeds == ret' = "ok"
Fails == ret' = "-1"

\* allocproc and fork; a fork that fails gives its slot and stack back.
Bug_fork_slot(q) == [proc EXCEPT ![q].state = "EMBRYO"]
fork_slot(q) == proc
Bug_fork_bad(mm) == mm
fork_bad(mm) == kfree(mm)

fork_copied(p, q, c) ==
    \/ /\ c.d = NoDir /\ Fails
       /\ m' = Quiet(fork_bad(c.m)) /\ proc' = fork_slot(q) /\ UNCHANGED ftable
    \/ /\ c.d # NoDir /\ Succeeds
       /\ m' = Quiet(c.m)
       /\ proc' = [proc EXCEPT ![q] = [proc[p] EXCEPT !.parent = p, !.d = c.d]]
       /\ ftable' = FoldLeft(filedup, ftable, [n \in 1 .. NOFILE |-> proc[p].ofile[n - 1]])

fork(p, fails) ==
    LET slots == {q \in Procs : proc[q].state = "UNUSED"}
    IN /\ Calls(p)
       /\ \/ /\ slots = {} /\ Fails
             /\ UNCHANGED <<m, proc, ftable>>
          \/ \E k \in {kalloc(Start(fails))} :
                /\ slots # {}
                /\ \/ /\ ~k.r /\ Fails
                      /\ m' = Quiet(k.m) /\ UNCHANGED <<proc, ftable>>
                   \/ k.r /\ fork_copied(p, Min(slots), copyuvm(k.m, proc[p].d, proc[p].sz))

\* growproc: a result of 0 is taken for a failure, also when sbrk gave up
\* everything.
sbrk(p, n, fails) ==
    LET sz == proc[p].sz
        new == (sz + n) % WORD
        grown == IF n > 0 THEN allocuvm(Start(fails), proc[p].d, sz, new)
                 ELSE IF n < 0 THEN deallocuvm(Start(fails), proc[p].d, sz, new)
                 ELSE [m |-> m, d |-> proc[p].d, r |-> sz]
    IN /\ Calls(p)
       /\ \E g \in {grown} :
            /\ m' = Quiet(g.m)
            /\ proc' = [proc EXCEPT ![p].d = g.d, ![p].sz = IF g.r = 0 /\ n # 0 THEN @ ELSE g.r]
            /\ ret' = IF g.r # 0 \/ n = 0 THEN "ok" ELSE IF n < 0 THEN "emptied" ELSE "-1"
       /\ UNCHANGED ftable

\* execve: the new image is built beside the old one, that goes only when
\* nothing can fail any more.  It may fail because a segment has less memory
\* than file, the file is shorter than its headers promise, or the strings do
\* not fit the stack page (see ExecStack).
exec_load(mm, segs, good) ==
    LET loaded(a, l) == [m |-> l.m, d |-> a.d, sz |-> a.r, ok |-> l.r]
        load(a, ph) == IF a.r = 0 THEN [m |-> a.m, d |-> a.d, sz |-> 0, ok |-> FALSE]
                       ELSE loaded(a, loaduvm(a.m, a.d, ph.vaddr, ph.filesz, good))
        seg(t, ph) == IF ~t.ok THEN t
                      ELSE IF ph.memsz < ph.filesz THEN [t EXCEPT !.ok = FALSE]
                      ELSE load(allocuvm(t.m, t.d, t.sz, (ph.vaddr + ph.memsz) % WORD), ph)
        start(s) == [m |-> s.m, d |-> s.d, sz |-> 0, ok |-> s.d # NoDir]
    IN FoldLeft(seg, start(setupkvm(mm)), segs)

exec_stack(t) ==
    LET sz == PGROUNDUP(t.sz)
        guard(a) == IF a.r = 0 THEN [m |-> a.m, d |-> a.d, sz |-> 0, ok |-> FALSE]
                    ELSE clearpteu(a.m, a.d, a.r - 2 * PGSIZE) @@ [sz |-> a.r, ok |-> TRUE]
    IN IF ~t.ok THEN t ELSE guard(allocuvm(t.m, t.d, sz, sz + 2 * PGSIZE))

exec_bad(t) == IF t.d = NoDir THEN t.m ELSE freevm(t.m, t.d)

exec_built(p, t, fits) ==
    \/ /\ ~t.ok \/ ~fits
       /\ m' = Quiet(exec_bad(t))
       /\ Fails /\ UNCHANGED <<proc, ftable>>
    \/ /\ t.ok /\ fits
       /\ m' = Quiet(freevm(t.m, proc[p].d))
       /\ proc' = [proc EXCEPT ![p].d = t.d, ![p].sz = t.sz]
       /\ Succeeds /\ UNCHANGED ftable

execve(p, segs, fault, fails) ==
    /\ Calls(p)
    /\ \E t \in {exec_stack(exec_load(Start(fails), segs, fault # "short file"))} :
         exec_built(p, t, fault # "strings")

\* A process also exits when it is killed, as by a fault where no page is.
exit(p) ==
    LET close(t, fd) == IF proc[p].ofile[fd - 1] = NoFile THEN t
                        ELSE fileclose(t.m, t.t, proc[p].ofile[fd - 1])
    IN /\ Running /\ proc[p].state = "LIVE" /\ p # initproc
       /\ \E c \in {FoldLeft(close, [m |-> m, t |-> ftable], [n \in 1 .. NOFILE |-> n])} :
            m' = c.m /\ ftable' = c.t
       /\ proc' = [q \in Procs |->
                     IF q = p THEN [proc[p] EXCEPT !.state = "ZOMBIE", !.ofile = Unused.ofile]
                     ELSE IF proc[q].parent = p THEN [proc[q] EXCEPT !.parent = initproc]
                     ELSE proc[q]]
       /\ Succeeds

wait(p, q) ==
    /\ Calls(p) /\ proc[q].parent = p /\ proc[q].state = "ZOMBIE"
    /\ m' = Quiet(freevm(kfree(m), proc[q].d))
    /\ proc' = [proc EXCEPT ![q] = Unused]
    /\ Succeeds /\ UNCHANGED ftable
-----------------------------------------------------------------------------
(* Descriptors *)

\* pipealloc yields the two files, or none, with what it leaves behind.
pipealloc(mm, t) ==
    LET f0 == filealloc(t)
        t0 == withfile(t, f0)
        f1 == filealloc(t0)
        t1 == withfile(t0, f1)
        k == kalloc(mm)
        new == Min(Files \ {t[f].pipe : f \in Files})
        end == [ref |-> 1, type |-> "FD_PIPE", pipe |-> new]
        bad(x, tt, fs) == FoldLeft(LAMBDA y, f : fileclose(y.m, y.t, f), [m |-> x, t |-> tt], fs)
                              @@ [f0 |-> NoFile, f1 |-> NoFile]
    IN IF f0 = NoFile THEN bad(mm, t, <<>>)
       ELSE IF f1 = NoFile THEN bad(mm, t0, <<f0>>)
       ELSE IF ~k.r THEN bad(k.m, t1, <<f0, f1>>)
       ELSE [m |-> k.m, t |-> [t1 EXCEPT ![f0] = end, ![f1] = end], f0 |-> f0, f1 |-> f1]

\* When the second descriptor is missing, the first is taken back.
Bug_pipe_bad(a) == fileclose(a.m, a.t, a.f0)
pipe_bad(a) == LET c == fileclose(a.m, a.t, a.f0) IN fileclose(c.m, c.t, a.f1)

sys_pipe(p, fails) ==
    LET a == pipealloc(Start(fails), ftable)
        of == proc[p].ofile
        fd0 == fdalloc(of)
        of0 == IF fd0 = -1 THEN of ELSE [of EXCEPT ![fd0] = a.f0]
        fd1 == fdalloc(of0)
        c == pipe_bad(a)
    IN /\ Calls(p)
       /\ \/ /\ a.f0 = NoFile /\ Fails
             /\ m' = Quiet(a.m) /\ ftable' = a.t /\ UNCHANGED proc
          \/ /\ a.f0 # NoFile /\ fd1 = -1 /\ Fails
             /\ m' = Quiet(c.m) /\ ftable' = c.t /\ UNCHANGED proc
          \/ /\ a.f0 # NoFile /\ fd1 # -1 /\ Succeeds
             /\ m' = Quiet(a.m) /\ ftable' = a.t
             /\ proc' = [proc EXCEPT ![p].ofile = [of0 EXCEPT ![fd1] = a.f1]]

\* sys_open, once it has the inode.
sys_open(p) ==
    LET f == filealloc(ftable)
        fd == fdalloc(proc[p].ofile)
        c == fileclose(m, withfile(ftable, f), f)
    IN /\ Calls(p)
       /\ \/ /\ f = NoFile /\ Fails /\ UNCHANGED <<m, proc, ftable>>
          \/ /\ f # NoFile /\ fd = -1 /\ Fails
             /\ m' = c.m /\ ftable' = c.t /\ UNCHANGED proc
          \/ /\ f # NoFile /\ fd # -1 /\ Succeeds
             /\ proc' = [proc EXCEPT ![p].ofile[fd] = f]
             /\ ftable' = [ftable EXCEPT ![f] = [NoRefs EXCEPT !.ref = 1, !.type = "FD_INODE"]]
             /\ UNCHANGED m

sys_dup(p, fd) ==
    LET f == proc[p].ofile[fd]
        new == fdalloc(proc[p].ofile)
    IN /\ Calls(p) /\ f # NoFile
       /\ \/ new = -1 /\ Fails /\ UNCHANGED <<m, proc, ftable>>
          \/ /\ new # -1 /\ Succeeds
             /\ proc' = [proc EXCEPT ![p].ofile[new] = f]
             /\ ftable' = filedup(ftable, f) /\ UNCHANGED m

sys_close(p, fd) ==
    LET c == fileclose(m, ftable, proc[p].ofile[fd])
    IN /\ Calls(p) /\ proc[p].ofile[fd] # NoFile
       /\ proc' = [proc EXCEPT ![p].ofile[fd] = NoFile]
       /\ m' = c.m /\ ftable' = c.t
       /\ Succeeds

\* Bound: once a page table could not be had, kallocs fail only for want of
\* pages.
Failures == IF m.untabled THEN {{}} ELSE FailSets

\* The program of the first process opens, dups, forks, execs and waits.
isinit(p) == p = initproc

Halted == ~Running /\ UNCHANGED vars

Next ==
    \/ \E p \in Procs :
        \/ \E fails \in Failures :
            \/ fork(p, fails)
            \/ ~isinit(p) /\ sys_pipe(p, fails)
            \/ \E n \in Brks : ~isinit(p) /\ sbrk(p, n, fails)
            \/ \E segs \in Programs, fault \in {"none", "short file", "strings"} :
                  execve(p, segs, fault, fails)
        \/ exit(p) \/ sys_open(p)
        \/ \E q \in Procs : wait(p, q)
        \/ \E fd \in Fds : sys_dup(p, fd) \/ (~isinit(p) /\ sys_close(p, fd))
    \/ Halted

Spec == Init /\ [][Next]_vars
-----------------------------------------------------------------------------
(* Properties *)

\* Kernel stacks, address spaces and pipes.
Pipes == {ftable[f].pipe : f \in {g \in Files : ftable[g].type = "FD_PIPE"}}
Owned == Cardinality(Pipes)
         + Cardinality({p \in Procs : proc[p].kstack})
         + Cardinality({p \in Procs : proc[p].d.dir}) + Cardinality({p \in Procs : proc[p].d.ktab})
         + Cardinality({x \in Procs \X (0 .. UPDES - 1) : proc[x[1]].d.tab[x[2]]})
         + Cardinality({x \in Procs \X VPages : proc[x[1]].d.pte[x[2]] # "none"})

\* A physical page has one owner or is free, whatever failed half way: no
\* call frees a page that is in use, none is freed twice, and none is lost
\* but by a page table that could not be had.
PagesAccounted == m.free + Owned = NPAGES \/ (m.untabled /\ m.free + Owned < NPAGES)

\* A live process has its memory: the pages below sz are there, no others
\* are, and no check of vm.c fails.  (Unless it gave up everything, and will
\* fault, or a page table could not be had.)
HasItsMemory(p) ==
    \A v \in VPages : proc[p].d.pte[v] # "none" <=>
                          v * PGSIZE < proc[p].sz /\ proc[p].d.pte[0] # "none"
SizeIsMapped ==
    m.untabled \/ (Running /\ \A p \in Procs : proc[p].state = "LIVE" => HasItsMemory(p))

\* allocuvm: "Returns new size or 0 on error", also when the error is that
\* mappages finds no page for a page table.
GrowthIsHonest == \A p \in Procs : proc[p].state = "LIVE" => HasItsMemory(p)

\* ref of a struct file counts the descriptors for it, in all processes.
FilesCounted ==
    \A f \in Files :
        ftable[f].ref = Cardinality({x \in Procs \X Fds : proc[x[1]].ofile[x[2]] = f})

\* A call that fails leaves no trace: pages, processes, descriptors and files
\* are what they were, but for page tables that a failed sbrk made.  (A sbrk
\* that gives up everything also returns -1.)
NoTrace ==
    /\ ftable' = ftable
    /\ \A p \in Procs : [proc[p] EXCEPT !.d = NoDir] = [proc[p] EXCEPT !.d = NoDir]'
    /\ \A p \in Procs : proc[p].d.pte = proc'[p].d.pte
    /\ m'.free = m.free \/ \E p \in Procs : proc[p].d # proc'[p].d
FailedCallsUndo == [][ret' = "-1" /\ ~m'.untabled => NoTrace]_vars
=============================================================================
