------------------------------- MODULE Shell -------------------------------
(***************************************************************************)
(* apps/sh.c: a command line, its parse tree, and the processes runcmd     *)
(* makes of it with their file descriptors.  A line is a sequence of       *)
(* one-letter strings; a position past its end reads as NUL.  A word is    *)
(* named by the position q where it starts and eq where it ends.           *)
(***************************************************************************)
EXTENDS Integers, Sequences, SequencesExt

CONSTANT MAXARGS

ASSUME ShellAssumption == MAXARGS \in Nat \ {0}

symbols == {"<", "|", ">", "&", ";", "(", ")"}
at(s, p) == IF p \in DOMAIN s THEN s[p] ELSE "NUL"

RECURSIVE whitespace(_, _)
whitespace(s, p) == IF at(s, p) = " " THEN whitespace(s, p + 1) ELSE p
RECURSIVE wordend(_, _)
wordend(s, p) == IF at(s, p) \in symbols \cup {" ", "NUL"} THEN p ELSE wordend(s, p + 1)

gettoken(s, ps) ==
    LET token(tok, q, eq) == [tok |-> tok, q |-> q, eq |-> eq, p |-> whitespace(s, eq)]
        from(q, c) == IF c = "NUL" THEN token(c, q, q)
                      ELSE IF c = ">" /\ at(s, q + 1) = ">" THEN token("+", q, q + 2)
                      ELSE IF c \in symbols THEN token(c, q, q + 1)
                      ELSE token("a", q, wordend(s, q))
        start(q) == from(q, at(s, q))
    IN start(whitespace(s, ps))

peek(s, p, toks) == at(s, whitespace(s, p)) \in toks

execcmd(argv) == [type |-> "EXEC", argv |-> argv]
redircmd(cmd, t, fd) == [type |-> "REDIR", cmd |-> cmd, file |-> t.q, efile |-> t.eq, fd |-> fd]
pipecmd(left, right, id) == [type |-> "PIPE", left |-> left, right |-> right, id |-> id]
listcmd(left, right) == [type |-> "LIST", left |-> left, right |-> right]
backcmd(cmd) == [type |-> "BACK", cmd |-> cmd]
NoCmd == execcmd(<<>>)

\* Each parser returns the tree and where it stopped.  panic exits: it moves
\* to a place past the end, where every token is NUL and no parse succeeds.
panic(s) == [p |-> Len(s) + 2, cmd |-> NoCmd]

\* redirs are the redirections in the order read; wrap builds their nodes.
wrap(cmd, redirs) == FoldLeft(LAMBDA c, r : redircmd(c, r.file, r.fd), cmd, redirs)
RECURSIVE parseredirs(_, _, _)
parseredirs(s, p, redirs) ==
    LET redir(tok, file) ==
            IF file.tok # "a" THEN [p |-> panic(s).p, redirs |-> <<>>]
            ELSE parseredirs(s, file.p, Append(redirs, [file |-> file, fd |-> IF tok = "<" THEN 0 ELSE 1]))
        after(t) == redir(t.tok, gettoken(s, t.p))
    IN IF peek(s, p, {"<", ">"}) THEN after(gettoken(s, p)) ELSE [p |-> p, redirs |-> redirs]

RECURSIVE parseargs(_, _, _)
parseargs(s, r, argv) ==
    LET arg(t) ==
            IF peek(s, r.p, {"|", ")", "&", ";"}) \/ t.tok = "NUL"
            THEN [p |-> r.p, cmd |-> wrap(execcmd(argv), r.redirs)]
            ELSE IF t.tok # "a" \/ Len(argv) + 1 >= MAXARGS THEN panic(s)
            ELSE parseargs(s, parseredirs(s, t.p, r.redirs), Append(argv, [q |-> t.q, eq |-> t.eq]))
    IN arg(gettoken(s, r.p))

RECURSIVE parseline(_, _), parsepipe(_, _), parseblock(_, _), parseback(_, _)
Bug_endblock(s, line) ==
    IF peek(s, line.p, {")"}) THEN [p |-> gettoken(s, line.p).p, cmd |-> line.cmd] ELSE panic(s)
endblock(s, line) ==
    LET redirected(r) == [p |-> r.p, cmd |-> wrap(line.cmd, r.redirs)]
    IN IF ~peek(s, line.p, {")"}) THEN panic(s)
       ELSE redirected(parseredirs(s, gettoken(s, line.p).p, <<>>))
parseblock(s, p) == endblock(s, parseline(s, gettoken(s, p).p))
parseexec(s, p) ==
    IF peek(s, p, {"("}) THEN parseblock(s, p)
    ELSE parseargs(s, parseredirs(s, p, <<>>), <<>>)
parsepipe(s, p) ==
    LET join(l, bar, r) == [p |-> r.p, cmd |-> pipecmd(l.cmd, r.cmd, bar)]
        on(l, bar) == join(l, bar.q, parsepipe(s, bar.p))
        first(l) == IF peek(s, l.p, {"|"}) THEN on(l, gettoken(s, l.p)) ELSE l
    IN first(parseexec(s, p))
parseback(s, r) ==
    IF peek(s, r.p, {"&"})
    THEN parseback(s, [p |-> gettoken(s, r.p).p, cmd |-> backcmd(r.cmd)]) ELSE r
parseline(s, p) ==
    LET join(l, r) == [p |-> r.p, cmd |-> listcmd(l.cmd, r.cmd)]
        first(l) == IF peek(s, l.p, {";"}) THEN join(l, parseline(s, gettoken(s, l.p).p)) ELSE l
    IN first(parseback(s, parsepipe(s, p)))

\* Leftovers and panics end the shell's child.
SyntaxError == [type |-> "SYNTAX"]
parsecmd(s) ==
    LET whole(r) == IF whitespace(s, r.p) = Len(s) + 1 THEN r.cmd ELSE SyntaxError
    IN whole(parseline(s, 1))

\* nulterminate: the positions that it overwrites with NUL.
RECURSIVE nulterminate(_)
nulterminate(c) ==
    CASE c.type = "EXEC" -> {c.argv[i].eq : i \in DOMAIN c.argv}
      [] c.type = "REDIR" -> nulterminate(c.cmd) \cup {c.efile}
      [] c.type \in {"PIPE", "LIST"} -> nulterminate(c.left) \cup nulterminate(c.right)
      [] c.type = "BACK" -> nulterminate(c.cmd)
\* The string the rest of the shell finds at q.
string(s, nuls, q) == SubSeq(s, q, (CHOOSE e \in q .. Len(s) + 1 :
                                      /\ e \in nuls \cup {Len(s) + 1}
                                      /\ \A d \in q .. e - 1 : d \notin nuls) - 1)
-----------------------------------------------------------------------------
(* runcmd.  A table maps descriptors to what they name: a terminal, a file *)
(* (by its place in the line) or an end of a pipe.                         *)

Tty == [is |-> "tty", of |-> 0]
File(f) == [is |-> "file", of |-> f]
ReadEnd(id) == [is |-> "read", of |-> id]
WriteEnd(id) == [is |-> "write", of |-> id]

\* What the kernel's fdalloc and close do to a table.
lowest(t) == CHOOSE fd \in 0 .. 20 : fd \notin DOMAIN t /\ \A k \in 0 .. fd - 1 : k \in DOMAIN t
open(t, what) == [fd \in DOMAIN t \cup {lowest(t)} |-> IF fd \in DOMAIN t THEN t[fd] ELSE what]
close(t, fd) == [k \in DOMAIN t \ {fd} |-> t[k]]
dup(t, fd) == open(t, t[fd])

process(argv, t) == [argv |-> argv, fds |-> t]
Waits == <<>>   \* the argv of a shell that only waits

\* The child on one side of a pipe: fd becomes the end at p[k].
Bug_side(t, fd, p, q) == close(dup(close(t, fd), p), p)
side(t, fd, p, q) == close(close(dup(close(t, fd), p), p), q)

\* The processes that wait or exec.  here holds the words whose path opens
\* as it stands, without /bin/: there "fd = open() < 0" leaves 0 in fd.  gone
\* holds the files that do not open: the process that redirects to one exits.
\* (It also exits, by panic, when pipe or fork fails; that is left out.)
RECURSIVE runcmd(_, _, _, _)
runcmd(c, t, here, gone) ==
    CASE c.type = "EXEC" ->
            IF c.argv = <<>> THEN {}
            ELSE {process(c.argv, IF c.argv[1].q \in here THEN close(open(t, File(c.argv[1].q)), 0) ELSE t)}
      [] c.type = "REDIR" ->
            IF c.file \in gone THEN {} ELSE runcmd(c.cmd, open(close(t, c.fd), File(c.file)), here, gone)
      [] c.type = "LIST" ->
            runcmd(c.left, t, here, gone) \cup {process(Waits, t)} \cup runcmd(c.right, t, here, gone)
      [] c.type = "PIPE" ->
            LET p0 == lowest(t)
                t1 == open(t, ReadEnd(c.id))
                p1 == lowest(t1)
                t2 == open(t1, WriteEnd(c.id))
            IN runcmd(c.left, side(t2, 1, p1, p0), here, gone)
               \cup runcmd(c.right, side(t2, 0, p0, p1), here, gone)
               \cup {process(Waits, close(close(t2, p0), p1))}
      [] c.type = "BACK" -> runcmd(c.cmd, t, here, gone)
=============================================================================
