------------------------------ MODULE UserLand ------------------------------
(***************************************************************************)
(* The algorithms of the C library, the shell and exec's stack, each put   *)
(* to work on every input of a set and compared with a definition that     *)
(* does not know how the code works.  A behaviour is one job: an input     *)
(* whose answer is then computed, or a heap used by malloc, realloc and    *)
(* free.                                                                   *)
(***************************************************************************)
EXTENDS Search, Quad, Stdlib, Heap, ExecStack, Shell

CONSTANTS Arrays,      \* arrays to sort, functions on 0 .. n-1
          Quads,       \* operands
          Numbers,     \* strings to convert
          Bases,
          AllocSizes,  \* units, header included
          Lines,       \* command lines
          ArgLists     \* sequences of strings

VARIABLE job

Init ==
    \/ \E a \in Arrays : job = [kind |-> "sort", a |-> a]
    \/ \E a, b \in Quads : job = [kind |-> "quad", a |-> a, b |-> b]
    \/ \E s \in Numbers, b \in Bases : job = [kind |-> "number", s |-> s, base |-> b]
    \/ \E s \in Lines : job = [kind |-> "line", s |-> s]
    \/ \E argv, env \in ArgLists, phnum \in {1, MAXARG} :
          job = [kind |-> "exec", argv |-> argv, env |-> env, phnum |-> phnum]
    \/ job = [kind |-> "heap", h |-> EmptyHeap, live |-> <<>>, refused |-> 0]

\* The answer: the whole call at once.
Compute ==
    \/ job.kind = "sort" /\ job' = [kind |-> "sorted", a |-> job.a, r |-> qsort(job.a)]
    \/ /\ job.kind = "quad"
       /\ job' = [kind |-> "quads", a |-> job.a, b |-> job.b,
                  add |-> adddi3(job.a, job.b), sub |-> subdi3(job.a, job.b), neg |-> negdi2(job.a),
                  cmp |-> cmpdi2(job.a, job.b), ucmp |-> ucmpdi2(job.a, job.b),
                  mul |-> muldi3(job.a, job.b),
                  \* b is a divisor unless it is 0, which traps, and a shift below QUAD_BITS
                  udiv |-> IF job.b = 0 THEN [q |-> 0, r |-> 0] ELSE qdivrem(job.a, job.b),
                  div |-> IF job.b = 0 THEN 0 ELSE divdi3(job.a, job.b),
                  mod |-> IF job.b = 0 THEN 0 ELSE moddi3(job.a, job.b),
                  shl |-> ashldi3(job.a, job.b % (2 * INT_BITS)),
                  shr |-> lshrdi3(job.a, job.b % (2 * INT_BITS)),
                  sar |-> ashrdi3(job.a, job.b % (2 * INT_BITS))]
    \/ /\ job.kind = "number"
       /\ job' = [kind |-> "numbers", s |-> job.s, base |-> job.base, atol |-> _atomax(job.s),
                  l |-> strtol(job.s, job.base), ul |-> strtoul(job.s, job.base)]
    \/ job.kind = "line" /\ job' = [kind |-> "parsed", s |-> job.s, cmd |-> parsecmd(job.s)]
    \/ /\ job.kind = "exec"
       /\ job' = [kind |-> "started", argv |-> job.argv, env |-> job.env, phnum |-> job.phnum,
                  img |-> execve(job.argv, job.env, job.phnum)]

\* The free list, from base round to base.
RECURSIVE FreeFrom(_, _)
FreeFrom(h, p) == IF p = base THEN <<>> ELSE <<p>> \o FreeFrom(h, h.ptr[p])
FreeList(h) == IF h.freep = Null THEN <<>> ELSE FreeFrom(h, h.ptr[base])

\* live gives the units of every block in use.  What is left in memory of
\* headers that are no longer headers is forgotten.
Without(f, x) == [y \in DOMAIN f \ {x} |-> f[y]]
With(f, x, v) == [y \in DOMAIN f \cup {x} |-> IF y = x THEN v ELSE f[y]]
Forget(h, live) ==
    LET list == FreeList(h)
        isfree == {base} \cup {list[i] : i \in DOMAIN list}
    IN [h EXCEPT !.ptr = [a \in DOMAIN @ |-> IF a \in isfree THEN @[a] ELSE base],
                 !.size = [a \in DOMAIN @ |-> IF a \in isfree \cup DOMAIN live THEN @[a] ELSE 0]]
Use(h, live, refused) == job' = [kind |-> "heap", h |-> Forget(h, live), live |-> live, refused |-> refused]
Given(live, p, n) == IF p = Null THEN live ELSE With(live, p, n)

Malloc == \E n \in AllocSizes :
    LET r == malloc(job.h, n)
    IN job.kind = "heap" /\ Use(r.h, Given(job.live, r.p, n), IF r.p = Null THEN n ELSE 0)
Free == \E p \in (IF job.kind = "heap" THEN DOMAIN job.live ELSE {}) :
    Use(free(job.h, p), Without(job.live, p), 0)
Realloc == \E p \in (IF job.kind = "heap" THEN DOMAIN job.live ELSE {}), n \in AllocSizes :
    LET r == realloc(job.h, p, n)
    IN Use(r.h, Given(Without(job.live, p), r.p, n), 0)

Next == Compute \/ Malloc \/ Free \/ Realloc
Spec == Init /\ [][Next]_job
-----------------------------------------------------------------------------
Occurrences(f, x) == Cardinality({i \in DOMAIN f : f[i] = x})

(***************************************************************************)
(* qsort and bsearch.  qsort leaves a sorted array of the same elements;   *)
(* its stack holds k pairs only if more than T * 2^(k-1) elements were     *)
(* given, which is what keeps it below STACKSIZE: the larger part waits.   *)
(* bsearch then finds each element and no other.                           *)
(***************************************************************************)
SortsAndFinds ==
    job.kind = "sorted" =>
      LET a == job.r.a
          n == Cardinality(DOMAIN a)
      IN /\ \A i \in DOMAIN a : i + 1 \in DOMAIN a => a[i] <= a[i + 1]
         /\ \A i \in DOMAIN a : Occurrences(a, a[i]) = Occurrences(job.a, a[i])
         /\ job.r.deep > 0 => T * 2 ^ (job.r.deep \div 2 - 1) < n
         /\ \A key \in 0 .. 10 :
              LET k == bsearch(key, a, 0, n)
              IN IF key \in {a[i] : i \in DOMAIN a} THEN k \in DOMAIN a /\ a[k] = key ELSE k = NotFound

\* C's division truncates towards zero.
Abs(x) == IF x < 0 THEN -x ELSE x
Quotient(x, y) == IF (x < 0) = (y < 0) THEN Abs(x) \div Abs(y) ELSE -(Abs(x) \div Abs(y))
Compare(x, y) == IF x < y THEN 0 ELSE IF x = y THEN 1 ELSE 2

(***************************************************************************)
(* libc/quad.  Every operation the compiler calls for a long long gives    *)
(* the number that arithmetic gives, reduced to a quad: carries between    *)
(* the halves, the estimate of each digit of a quotient, its correction    *)
(* and the add-back step, and signs, the least quad included.              *)
(***************************************************************************)
ArithmeticIsExact ==
    job.kind = "quads" =>
      LET a == job.a
          b == job.b
          x == signed(a)
          y == signed(b)
          k == b % (2 * INT_BITS)
      IN /\ job.add = (a + b) % QUAD /\ job.sub = (a - b) % QUAD /\ job.neg = (-a) % QUAD
         /\ job.cmp = Compare(x, y) /\ job.ucmp = Compare(a, b)
         /\ job.mul = (a * b) % QUAD
         /\ job.shl = (a * 2 ^ k) % QUAD /\ job.shr = a \div 2 ^ k /\ job.sar = (x \div 2 ^ k) % QUAD
         /\ b # 0 => /\ job.udiv = [q |-> a \div b, r |-> a % b]
                     /\ job.div = Quotient(x, y) % QUAD
                     /\ job.mod = (x - y * Quotient(x, y)) % QUAD

\* The number at the start of s: blanks, a sign, a prefix, digits as far as
\* they go; n of them.
RECURSIVE Value(_, _, _, _)
Value(s, p, n, b) == IF n = 0 THEN 0 ELSE Value(s, p, n - 1, b) * b + digit(s[p + n - 1])
Longest(S) == CHOOSE n \in S : \A k \in S : k <= n
Run(s, p, test(_)) == Longest({n \in 0 .. Len(s) : \A i \in p .. p + n - 1 : i \in DOMAIN s /\ test(s[i])})
Reading(s, radix) ==
    LET blank(c) == c = " "
        sign == 1 + Run(s, 1, blank)
        first == IF char(s, sign) \in {"+", "-"} THEN sign + 1 ELSE sign
        prefixed == /\ radix \in {0, 16}
                    /\ char(s, first) = "0" /\ tolower(char(s, first + 1)) = "x"
                    /\ isdigit(char(s, first + 2), 16)
        from == IF prefixed THEN first + 2 ELSE first
        b == IF radix # 0 THEN radix ELSE IF prefixed THEN 16 ELSE IF char(s, first) = "0" THEN 8 ELSE 10
        isone(c) == isdigit(c, b)
        n == Run(s, from, isone)
        v == Value(s, from, n, b)
    IN IF radix \notin {0} \cup 2 .. 36 THEN [val |-> 0, end |-> Unset, zero |-> FALSE]
       ELSE [val |-> IF char(s, sign) = "-" THEN -v ELSE v, end |-> IF n = 0 THEN Start ELSE from + n,
             zero |-> radix = 0 /\ n = 1 /\ v = 0]
Clamp(v) == IF v > LONG_MAX THEN LONG_MAX ELSE IF v < LONG_MIN THEN LONG_MIN ELSE v

(***************************************************************************)
(* strtol, strtoul and atol.  strtol gives the number the string starts    *)
(* with, or the nearest long, and then alone sets errno, and reports where *)
(* it ends; strtoul does so for unsigned numbers and negates modulo        *)
(* ULONG_MAX + 1; atol agrees whenever the number is a long.  The          *)
(* end of a lone "0" in base 0 is the exception the code makes: base 8 is  *)
(* chosen after the 0 is skipped, and strtol reports that it read nothing. *)
(***************************************************************************)
NumbersAreRead ==
    job.kind = "numbers" =>
      \A l \in {Reading(job.s, job.base)}, d \in {Reading(job.s, 10)} :
         /\ job.l.val = Clamp(l.val)
         /\ job.ul.val = IF Abs(l.val) > ULONG_MAX THEN ULONG_MAX ELSE l.val % (ULONG_MAX + 1)
         /\ job.l.erange = (l.val \notin LONG_MIN .. LONG_MAX)
         /\ job.ul.erange = (Abs(l.val) > ULONG_MAX)
         /\ ~l.zero => job.l.end = l.end /\ job.ul.end = l.end
         /\ d.val \in LONG_MIN .. LONG_MAX => job.atol = d.val

\* The tokens of a line, by the positions where they start: runs of letters,
\* symbols, and >> wherever an even number of > stands before it.
Letter(s, i) == i \in DOMAIN s /\ s[i] \notin symbols \cup {" "}
After(s, i) == Longest({n \in 0 .. i - 1 : \A k \in i - n .. i - 1 : s[k] = ">"}) % 2 = 1
InOrder(S) == [k \in 1 .. Cardinality(S) |-> CHOOSE x \in S : Cardinality({y \in S : y < x}) = k - 1]
Tokens(s) ==
    InOrder({i \in DOMAIN s : /\ s[i] # " "
                              /\ ~(Letter(s, i) /\ Letter(s, i - 1))
                              /\ ~(s[i] = ">" /\ After(s, i))})
Kind(s, i) == IF Letter(s, i) THEN "a" ELSE IF s[i] = ">" /\ at(s, i + 1) = ">" THEN "+" ELSE s[i]
Span(s, i) == [q |-> i, eq |-> CHOOSE e \in i .. Len(s) + 1 :
                                 ~Letter(s, e) /\ \A k \in i .. e - 1 : Letter(s, k)]

\* Precedence: ; binds least, then a final &, then |.  ts is a sequence of
\* token positions.
Ops == {"<", ">", "+"}
Count(s, ts, k, c) == Cardinality({i \in 1 .. k : Kind(s, ts[i]) = c})
Outside(s, ts, c) == {k \in DOMAIN ts : /\ Kind(s, ts[k]) = c
                                       /\ Count(s, ts, k - 1, "(") = Count(s, ts, k - 1, ")")}
Least(S) == CHOOSE n \in S : \A k \in S : n <= k
Both(l, r, node) == IF SyntaxError \in {l, r} THEN SyntaxError ELSE node
RECURSIVE LineTree(_, _), BackTree(_, _), PipeTree(_, _), Redirected(_, _, _)
Redirected(s, cmd, ts) ==
    IF ts = <<>> \/ cmd = SyntaxError THEN cmd
    ELSE IF Len(ts) = 1 \/ Kind(s, ts[1]) \notin Ops \/ Kind(s, ts[2]) # "a" THEN SyntaxError
    ELSE Redirected(s, redircmd(cmd, Span(s, ts[2]), IF s[ts[1]] = "<" THEN 0 ELSE 1), SubSeq(ts, 3, Len(ts)))
CommandTree(s, ts) ==
    LET closing == {m \in DOMAIN ts : Count(s, ts, m, "(") = Count(s, ts, m, ")")}
        isfile(k) == k > 1 /\ Kind(s, ts[k - 1]) \in Ops
        isredir(k) == Kind(s, ts[k]) \in Ops \/ isfile(k)
        argv == InOrder({k \in DOMAIN ts : ~isredir(k)})
        redirs == InOrder({k \in DOMAIN ts : isredir(k)})
    IN IF ts # <<>> /\ Kind(s, ts[1]) = "("
       THEN IF closing = {} THEN SyntaxError
            ELSE Redirected(s, LineTree(s, SubSeq(ts, 2, Least(closing) - 1)), SubSeq(ts, Least(closing) + 1, Len(ts)))
       ELSE IF Len(argv) >= MAXARGS \/ \E i \in DOMAIN argv : Kind(s, ts[argv[i]]) # "a" THEN SyntaxError
       ELSE Redirected(s, execcmd([i \in DOMAIN argv |-> Span(s, ts[argv[i]])]),
                       [i \in DOMAIN redirs |-> ts[redirs[i]]])
PipeTree(s, ts) ==
    LET bars == Outside(s, ts, "|")
        k == Least(bars)
        l == CommandTree(s, SubSeq(ts, 1, k - 1))
        r == PipeTree(s, SubSeq(ts, k + 1, Len(ts)))
    IN IF bars = {} THEN CommandTree(s, ts) ELSE Both(l, r, pipecmd(l, r, ts[k]))
BackTree(s, ts) ==
    LET c == BackTree(s, SubSeq(ts, 1, Len(ts) - 1))
    IN IF Len(ts) \in Outside(s, ts, "&") THEN Both(c, c, backcmd(c)) ELSE PipeTree(s, ts)
LineTree(s, ts) ==
    LET semis == Outside(s, ts, ";")
        k == Least(semis)
        l == BackTree(s, SubSeq(ts, 1, k - 1))
        r == LineTree(s, SubSeq(ts, k + 1, Len(ts)))
    IN IF semis = {} THEN BackTree(s, ts) ELSE Both(l, r, listcmd(l, r))

(***************************************************************************)
(* sh.c's parser.  A line has the tree its operators' precedence gives it, *)
(* or is a syntax error exactly when it has none; and once nulterminate    *)
(* has cut the line up, each word and file name in the tree is still whole *)
(* and ends where its token did.                                           *)
(***************************************************************************)
RECURSIVE Named(_)
Named(c) ==
    CASE c.type = "EXEC" -> {c.argv[i] : i \in DOMAIN c.argv}
      [] c.type = "REDIR" -> Named(c.cmd) \cup {[q |-> c.file, eq |-> c.efile]}
      [] c.type = "BACK" -> Named(c.cmd)
      [] OTHER -> Named(c.left) \cup Named(c.right)
LinesParse ==
    job.kind = "parsed" =>
      /\ job.cmd = LineTree(job.s, Tokens(job.s))
      /\ job.cmd # SyntaxError =>
           \A w \in Named(job.cmd) : string(job.s, nulterminate(job.cmd), w.q) = SubSeq(job.s, w.q, w.eq - 1)

\* What each command should have as its input and output.  Of two
\* redirections of a descriptor the first in the line decides.  A command, or
\* a block, that is redirected to a file that is gone does not start.
RECURSIVE Wiring(_, _, _, _)
Wiring(c, in, out, gone) ==
    CASE c.type = "EXEC" -> IF c.argv = <<>> THEN {} ELSE {[argv |-> c.argv, in |-> in, out |-> out]}
      [] c.type = "REDIR" -> IF c.file \in gone THEN {}
                             ELSE Wiring(c.cmd, IF c.fd = 0 THEN File(c.file) ELSE in,
                                                IF c.fd = 1 THEN File(c.file) ELSE out, gone)
      [] c.type = "PIPE" -> Wiring(c.left, in, WriteEnd(c.id), gone) \cup Wiring(c.right, ReadEnd(c.id), out, gone)
      [] c.type = "LIST" -> Wiring(c.left, in, out, gone) \cup Wiring(c.right, in, out, gone)
      [] c.type = "BACK" -> Wiring(c.cmd, in, out, gone)
RECURSIVE Redirections(_)
Redirections(c) ==
    CASE c.type = "EXEC" -> {}
      [] c.type = "REDIR" -> Redirections(c.cmd) \cup {c.file}
      [] c.type = "BACK" -> Redirections(c.cmd)
      [] OTHER -> Redirections(c.left) \cup Redirections(c.right)

(***************************************************************************)
(* runcmd.  The commands of a line that are found in /bin start with the   *)
(* input and output the line gives them and the shell's standard error,    *)
(* and hold nothing else, nor does a shell that waits for them; one file   *)
(* that does not open keeps only its own command from starting.  An end of *)
(* a pipe left open elsewhere would keep a reader from its end of file, so *)
(* no process holds one, not even a command that opens as it stands (here, *)
(* the line's first word): that one loses its input, because sh.c closes   *)
(* descriptor 0 in place of the one it opened.                             *)
(***************************************************************************)
CommandsAreWired ==
    job.kind = "parsed" /\ job.cmd # SyntaxError =>
      \A here \in {{}, {1}}, gone \in {{}} \cup {{f} : f \in Redirections(job.cmd)} :
        LET all == runcmd(job.cmd, [fd \in 0 .. 2 |-> Tty], here, gone)
            found(argv) == argv # Waits /\ argv[1].q \notin here
        IN /\ \A p \in all : \A fd \in DOMAIN p.fds \ {0, 1} : p.fds[fd].is \notin {"read", "write"}
           /\ \A p \in all : p.argv = Waits \/ found(p.argv) => DOMAIN p.fds = 0 .. 2 /\ p.fds[2] = Tty
           /\ {[argv |-> p.argv, in |-> p.fds[0], out |-> p.fds[1]] : p \in {q \in all : found(q.argv)}}
              = {w \in Wiring(job.cmd, Tty, Tty, gone) : found(w.argv)}

Aligned(n) == ((n + 4) \div 4) * 4   \* n letters and a NUL, in words
Needs(strs) == FoldLeft(LAMBDA n, str : n + Aligned(Len(str)), 0, strs)

(***************************************************************************)
(* execve and sys_execve.  A program starts exactly when its arguments and *)
(* environment fit the stack page; with an environment it must also have   *)
(* fewer than MAXARG program headers, as the loop over env tests their     *)
(* number instead of its own.  It then finds argc, and the argv and env it *)
(* was given: handed on to another exec, they come out of the kernel's     *)
(* fetches string by string the same, both arrays ended.  The end of env   *)
(* is never written: the page must have been zeroed.                       *)
(***************************************************************************)
ArgumentsArrive ==
    job.kind = "started" =>
      LET again == sys_execve(job.img)
          room == Needs(job.argv) + Needs(job.env) + 4 * (6 + Len(job.env)) + 4 * (5 + Len(job.argv)) <= PAGE
      IN /\ job.img.ok = (room /\ Len(job.argv) <= MAXARG /\ (job.env = <<>> \/ job.phnum < MAXARG))
         /\ job.img.ok => /\ argint(job.img, 0).val = Len(job.argv)
                          /\ again.ok = (Len(job.argv) < MAXARG /\ Len(job.env) < MAXARG)
                          /\ again.ok => again.argv = job.argv /\ again.env = job.env

(***************************************************************************)
(* malloc, realloc and free.  The free list runs round by address, no free *)
(* block touches the next, and free blocks and blocks in use cover what    *)
(* sbrk gave exactly: none overlaps, none is lost.  malloc gives up only   *)
(* when no free block is large enough.                                     *)
(***************************************************************************)
HeapIsWhole ==
    job.kind = "heap" =>
      LET h == job.h
          list == FreeList(h)
          used == DOMAIN job.live
          isfree == {list[i] : i \in DOMAIN list}
          end(p) == p + h.size[p]
      IN /\ \A i \in 1 .. Len(list) - 1 : end(list[i]) < list[i + 1]
         /\ isfree \cap used = {}
         /\ \A p \in used : h.size[p] = job.live[p]
         /\ h.freep # Null => h.freep \in isfree \cup {base}
         /\ \A a \in 1 .. h.brk - 1 : Cardinality({p \in isfree \cup used : a \in p .. end(p) - 1}) = 1
         /\ \A p \in isfree \cup used : end(p) <= h.brk
         /\ job.refused > 0 => \A p \in isfree : h.size[p] < job.refused
=============================================================================
