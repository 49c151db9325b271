----------------------------- MODULE ExecStack -----------------------------
(***************************************************************************)
(* kernel/exec.c: the stack execve builds for a program; kernel/syscall.c  *)
(* and sys_execve: how the kernel reads arguments back from a process.     *)
(*                                                                         *)
(* A user image is [mem, sz, sp], mem giving every byte below sz.  A byte  *)
(* is <<n, k>>: NUL is <<0, 0>>, a letter <<-c, 0>>, and byte k of the     *)
(* word n # 0 is <<n, k>>.  The last page is the stack, the one below it   *)
(* is the guard clearpteu made, and the program lies below that.           *)
(***************************************************************************)
EXTENDS Integers, Sequences, SequencesExt

CONSTANTS PAGE, MAXARG   \* PGSIZE, a multiple of 4; max exec arguments

ASSUME ExecAssumption == PAGE \in Nat \ {0} /\ PAGE % 4 = 0 /\ MAXARG \in Nat \ {0}

NUL == <<0, 0>>
word(n) == [k \in 1 .. 4 |-> IF n = 0 THEN NUL ELSE <<n, k - 1>>]
\* A string of len letters c.
text(c, len) == [i \in 1 .. len |-> <<-c, 0>>]
FakePC == -98
Junk == -99   \* a word of ustack not yet written: whatever the kernel stack held

\* allocuvm zeroes the two pages after a program of one page.
image == [mem |-> [a \in 0 .. 3 * PAGE - 1 |-> NUL], sz |-> 3 * PAGE, sp |-> 3 * PAGE, ok |-> TRUE]

\* uva2ka: the page is present and not the guard.
uva2ka(img, va) == va \in 0 .. img.sz - 1 /\ va \div PAGE # img.sz \div PAGE - 2

\* Page by page; once it fails execve frees the image.
copyout(img, va, bytes) ==
    IF img.ok /\ \A i \in DOMAIN bytes : uva2ka(img, va + i - 1)
    THEN [img EXCEPT !.mem = [a \in DOMAIN @ |-> IF a \in va .. va + Len(bytes) - 1
                                                THEN bytes[a - va + 1] ELSE @[a]]]
    ELSE [img EXCEPT !.ok = FALSE]

\* Pushes one string, and remembers its address.
push(t, str) ==
    LET sp == ((t.img.sp - (Len(str) + 1)) \div 4) * 4
    IN [img |-> copyout([t.img EXCEPT !.sp = sp], sp, Append(str, NUL)), at |-> Append(t.at, sp)]

copywords(img, words) == copyout(img, img.sp, FlattenSeq([i \in DOMAIN words |-> word(words[i])]))

\* The environment: its strings, then a block of 6 + envc words of which the
\* last, the end of the array, is not copied.
Bug_envptr(sp, envc) == sp - envc * 4
envptr(sp, envc) == sp - (envc + 1) * 4
push_env(img, env) ==
    LET t == FoldLeft(push, [img |-> img, at |-> <<>>], env)
        envc == Len(env)
        ustack3 == envptr(t.img.sp, envc)
    IN [img |-> copywords([t.img EXCEPT !.sp = @ - (6 + envc) * 4], <<FakePC, Junk, Junk, ustack3, Junk>> \o t.at),
        env |-> ustack3]

\* argv: its strings, then the fake return PC, argc, argv, env and the array.
push_argv(e, argv) ==
    LET t == FoldLeft(push, [img |-> e.img, at |-> <<>>], argv)
        argc == Len(argv)
        ustack2 == t.img.sp - (argc + 1) * 4
    IN copywords([t.img EXCEPT !.sp = @ - (5 + argc) * 4],
                 <<FakePC, argc, ustack2, e.env>> \o t.at \o <<0>>)

\* The loop over env compares i, which the loop over the program headers left
\* at their number, with MAXARG; the one over argv compares argc.
execve(argv, env, phnum) ==
    LET img == push_argv(push_env(image, env), argv)
    IN IF (env # <<>> /\ phnum >= MAXARG) \/ Len(argv) > MAXARG THEN [img EXCEPT !.ok = FALSE] ELSE img
-----------------------------------------------------------------------------
(* What a process passes to the kernel. *)

Failed == [ok |-> FALSE, val |-> 0]
fetchint(img, addr) ==
    IF addr >= img.sz \/ addr + 4 > img.sz THEN Failed ELSE [ok |-> TRUE, val |-> img.mem[addr][1]]

FailedStr == [ok |-> FALSE, val |-> <<>>]
fetchstr(img, addr) ==
    LET ends == {a \in addr .. img.sz - 1 : img.mem[a] = NUL}
        end == CHOOSE a \in ends : \A b \in ends : a <= b
    IN IF addr >= img.sz \/ ends = {} THEN FailedStr
       ELSE [ok |-> TRUE, val |-> [i \in 1 .. end - addr |-> img.mem[addr + i - 1]]]

argint(img, n) == fetchint(img, img.sp + 4 + 4 * n)

\* The loops of sys_execve over argv and envp.
RECURSIVE fetchargs(_, _, _)
fetchargs(img, uargv, i) ==
    LET uarg == fetchint(img, uargv + 4 * i)
        str == fetchstr(img, uarg.val)
        rest == fetchargs(img, uargv, i + 1)
    IN IF i >= MAXARG \/ ~uarg.ok THEN FailedStr
       ELSE IF uarg.val = 0 THEN [ok |-> TRUE, val |-> <<>>]
       ELSE IF ~str.ok \/ ~rest.ok THEN FailedStr
       ELSE [ok |-> TRUE, val |-> <<str.val>> \o rest.val]

\* A program that passes on the argv and env it was started with, the words
\* after argc.
sys_execve(img) ==
    LET argv == fetchargs(img, argint(img, 1).val, 0)
        envp == fetchargs(img, argint(img, 2).val, 0)
    IN [ok |-> argv.ok /\ envp.ok, argv |-> argv.val, env |-> envp.val]
=============================================================================
