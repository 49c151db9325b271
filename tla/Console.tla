------------------------------ MODULE Console -------------------------------
(***************************************************************************)
(* The input side of kernel/console.c: the keyboard and serial interrupts  *)
(* edit a line in a ring buffer, and processes read what is committed.     *)
(*                                                                         *)
(* consoleintr handles the characters it gets under input.lock; one step   *)
(* per character.  consoleread takes one character per step, with          *)
(* input.lock explicit, since kill does not take it.  The indices have the *)
(* width of the code's uint, given by W.                                   *)
(***************************************************************************)
EXTENDS Naturals, Sequences, FiniteSetsExt

CONSTANTS Readers,
          Letters,   \* characters without a meaning of their own
          INPUT_BUF,
          W,         \* 2^32 in the code: r, w and e count modulo W
          MaxN,      \* bound on the length of a read
          NoProc

ASSUME ConsoleAssumption ==
    /\ INPUT_BUF \in Nat \ {0} /\ MaxN \in Nat
    /\ W \in Nat /\ W > INPUT_BUF /\ W % INPUT_BUF = 0
    /\ NoProc \notin Readers

\* '\n', '\r', ^D, ^U, and ^H or DEL.
Keys == Letters \cup {"NL", "CR", "EOF", "KILL", "BS"}
Stored == Letters \cup {"NL", "EOF"}

VARIABLES
    buf, r, w, e, \* input
    lock,         \* the reader that holds input.lock
    killed,       \* proc->killed
    pc,
    n, target     \* consoleread's parameter, counted down, and its copy

input == <<buf, r, w, e>>
vars == <<input, lock, killed, pc, n, target>>

Init ==
    /\ buf = [k \in 0 .. INPUT_BUF - 1 |-> "NL"]
    /\ r = 0 /\ w = 0 /\ e = 0
    /\ lock = NoProc
    /\ killed = [p \in Readers |-> FALSE]
    /\ pc = [p \in Readers |-> "user"]
    /\ n = [p \in Readers |-> 0]
    /\ target = [p \in Readers |-> 0]

minus(j, k) == (j + W - k) % W
plus(j, k) == (j + k) % W
char(k) == buf[k % INPUT_BUF]
-----------------------------------------------------------------------------
(* consoleintr *)

\* ^U: the characters after the last committed one, back to a newline.
killed_line == Max({k \in 0 .. minus(e, w) : \A j \in 1 .. k : char(minus(e, j)) # "NL"})

\* Backspace stops at input.w.
Bug_can_erase == e # r
can_erase == e # w

\* A line is committed by its end, or because the buffer is full.
Bug_commits(c, e1) == c \in {"NL", "EOF"}
commits(c, e1) == c \in {"NL", "EOF"} \/ e1 = plus(r, INPUT_BUF)

\* wakeup(&input.r)
Bug_wakeup_readers == pc
wakeup_readers == [p \in Readers |-> IF pc[p] = "asleep" THEN "acquire" ELSE pc[p]]

consoleintr(key) ==
    /\ lock = NoProc
    /\ CASE key = "KILL" -> e' = minus(e, killed_line) /\ UNCHANGED <<buf, w, pc>>
         [] key = "BS" -> e' = (IF can_erase THEN minus(e, 1) ELSE e) /\ UNCHANGED <<buf, w, pc>>
         [] OTHER ->
            /\ minus(e, r) < INPUT_BUF
            /\ LET c == IF key = "CR" THEN "NL" ELSE key IN
               /\ buf' = [buf EXCEPT ![e % INPUT_BUF] = c]
               /\ e' = plus(e, 1)
               /\ w' = IF commits(c, e') THEN e' ELSE w
               /\ pc' = IF commits(c, e') THEN wakeup_readers ELSE pc
    /\ UNCHANGED <<r, lock, killed, n, target>>
-----------------------------------------------------------------------------
(* consoleread *)

Call(p, k) ==
    /\ pc[p] = "user" /\ ~killed[p]
    /\ n' = [n EXCEPT ![p] = k]
    /\ target' = [target EXCEPT ![p] = k]
    /\ pc' = [pc EXCEPT ![p] = "acquire"]
    /\ UNCHANGED <<input, lock, killed>>

\* On entry, and at the end of sleep.
acquire(p) ==
    /\ pc[p] = "acquire"
    /\ lock = NoProc
    /\ lock' = p
    /\ pc' = [pc EXCEPT ![p] = "read"]
    /\ UNCHANGED <<input, killed, n, target>>

\* release(&input.lock) and return, -1 or target - n.
return(p) ==
    /\ lock' = NoProc
    /\ pc' = [pc EXCEPT ![p] = "user"]
    /\ n' = [n EXCEPT ![p] = 0]
    /\ target' = [target EXCEPT ![p] = 0]

consoleread_done(p) ==
    /\ pc[p] = "read"
    /\ n[p] = 0
    /\ return(p)
    /\ UNCHANGED <<input, killed>>

consoleread_wait(p) ==
    /\ pc[p] = "read"
    /\ n[p] > 0 /\ r = w
    /\ IF killed[p] THEN return(p)
       ELSE pc' = [pc EXCEPT ![p] = "sleep"] /\ UNCHANGED <<lock, n, target>>
    /\ UNCHANGED <<input, killed>>

sleep(p) ==
    /\ pc[p] = "sleep"
    /\ lock' = NoProc
    /\ pc' = [pc EXCEPT ![p] = "asleep"]
    /\ UNCHANGED <<input, killed, n, target>>

\* A ^D after other characters is put back: "Save ^D for next time, to make
\* sure caller gets a 0-byte result."
Bug_r_after_EOF(p) == plus(r, 1)
r_after_EOF(p) == IF n[p] < target[p] THEN r ELSE plus(r, 1)

consoleread_char(p) ==
    /\ pc[p] = "read"
    /\ n[p] > 0 /\ r # w
    /\ r' = IF char(r) = "EOF" THEN r_after_EOF(p) ELSE plus(r, 1)
    /\ IF char(r) \in {"NL", "EOF"} THEN return(p)
       ELSE n' = [n EXCEPT ![p] = @ - 1] /\ UNCHANGED <<lock, pc, target>>
    /\ UNCHANGED <<buf, w, e, killed>>
-----------------------------------------------------------------------------
\* kill (proc.c); the process exits when it is back in user space, and
\* another one reads the console instead.
kill(p) ==
    /\ ~killed[p]
    /\ killed' = [killed EXCEPT ![p] = TRUE]
    /\ pc' = [pc EXCEPT ![p] = IF @ = "asleep" THEN "acquire" ELSE @]
    /\ UNCHANGED <<input, lock, n, target>>

exit(p) ==
    /\ killed[p] /\ pc[p] = "user"
    /\ killed' = [killed EXCEPT ![p] = FALSE]
    /\ UNCHANGED <<input, lock, pc, n, target>>

Step(p) == consoleread_done(p) \/ consoleread_wait(p) \/ consoleread_char(p) \/ sleep(p)

Next ==
    \/ \E key \in Keys : consoleintr(key)
    \/ \E p \in Readers : acquire(p) \/ Step(p) \/ kill(p) \/ exit(p) \/ \E k \in 0 .. MaxN : Call(p, k)

Spec == Init /\ [][Next]_vars

\* Code in a critical section runs to its end, a process that spins for
\* input.lock gets it, and somebody presses Enter now and then.
Fairness ==
    /\ \A p \in Readers : WF_vars(Step(p)) /\ SF_vars(acquire(p))
    /\ SF_vars(consoleintr("NL"))

FairSpec == Spec /\ Fairness
-----------------------------------------------------------------------------
(* Properties *)

\* A full buffer has been committed, so a reader can make room; otherwise
\* neither a reader nor the Enter key could move it on.
FullIsCommitted ==
    minus(e, r) <= INPUT_BUF /\ (minus(e, r) = INPUT_BUF => w = e)

\* No reader sleeps beside committed input; a ^D that another reader puts
\* back is seen too.
NoLostWakeup ==
    lock = NoProc => \A p \in Readers : pc[p] = "asleep" => r = w

\* A ^D is taken out of the buffer only by a read that returns nothing else,
\* so a reader always gets its end of file.
EOFEndsEmptyRead ==
    [][\A p \in Readers : consoleread_char(p) /\ char(r) = "EOF" /\ r' # r => n[p] = target[p]]_vars

\* The console implements an editable line over a first-in first-out queue,
\* also when the indices wrap around: editing never touches what is committed.
Between(j, k) == [m \in 1 .. minus(k, j) |-> char(plus(j, m - 1))]
Lines == INSTANCE LineInput WITH Size <- INPUT_BUF, Typed <- Stored,
                                 line <- Between(w, e), ready <- Between(r, w)
ImplementsLineInput == Lines!LSpec

\* Every sleeping reader is woken, however long the line was.
SleepersWake ==
    \A p \in Readers : pc[p] = "asleep" ~> pc[p] # "asleep"

\* The input buffer never fills up for good, and no reader sleeps beside
\* input it could have.
InputIsSound == FullIsCommitted /\ NoLostWakeup

\* The console delivers lines and ends of file: each committed character is
\* read once and in order, and a ^D never goes by unnoticed.
DeliversLines == ImplementsLineInput /\ EOFEndsEmptyRead
=============================================================================
