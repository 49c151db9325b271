------------------------------- MODULE Stdlib -------------------------------
(***************************************************************************)
(* libc/stdlib.c: numbers from strings.  A string is a sequence of one-    *)
(* letter strings; a position past its end reads as NUL.  A long has       *)
(* LONG_BITS bits, as has uintmax_t: strtoll's case, and the tight one.    *)
(***************************************************************************)
EXTENDS Integers, Sequences

CONSTANT LONG_BITS

ASSUME StdlibAssumption == LONG_BITS \in Nat \ {0}

ULONG_MAX == 2 ^ LONG_BITS - 1
LONG_MAX == 2 ^ (LONG_BITS - 1) - 1
LONG_MIN == -(2 ^ (LONG_BITS - 1))
unsigned(x) == x % 2 ^ LONG_BITS
tolong(x) == IF unsigned(x) > LONG_MAX THEN unsigned(x) - 2 ^ LONG_BITS ELSE unsigned(x)

char(s, p) == IF p \in DOMAIN s THEN s[p] ELSE "NUL"
tolower(c) == IF c = "X" THEN "x" ELSE c
NoDigit == 99
digit(c) == CASE tolower(c) = "0" -> 0 [] tolower(c) = "1" -> 1 [] tolower(c) = "7" -> 7
              [] tolower(c) = "9" -> 9 [] tolower(c) = "a" -> 10 [] tolower(c) = "x" -> 33
              [] OTHER -> NoDigit
\* memchr(_digits, c, base) != NULL
isdigit(c, base) == digit(c) < base

RECURSIVE skipspace(_, _)
skipspace(s, p) == IF char(s, p) = " " THEN skipspace(s, p + 1) ELSE p

\* atoi and its kin: no limit is tested.
RECURSIVE atomax_from(_, _, _)
atomax_from(s, p, rc) ==
    IF isdigit(char(s, p), 10) THEN atomax_from(s, p + 1, tolong(rc * 10 + digit(char(s, p)))) ELSE rc
_atomax(s) ==
    LET from(p) == CASE char(s, p) = "-" -> tolong(-atomax_from(s, p + 1, 0))
                     [] char(s, p) = "+" -> atomax_from(s, p + 1, 0)
                     [] OTHER -> atomax_from(s, p, 0)
    IN from(skipspace(s, 1))

_strtox_prelim(s, base) ==
    LET hex(p) == char(s, p) = "0" /\ base \in {0, 16} /\ char(s, p + 1) \in {"x", "X"}
        after(sign, p) ==
            IF hex(p) THEN [sign |-> sign, base |-> 16, p |-> IF isdigit(char(s, p + 2), 16) THEN p + 2 ELSE p]
            ELSE IF base # 0 THEN [sign |-> sign, base |-> base, p |-> p]
            ELSE IF char(s, p) = "0" THEN [sign |-> sign, base |-> 8, p |-> p + 1]
            ELSE [sign |-> sign, base |-> 10, p |-> p]
        from(p) == IF char(s, p) \in {"+", "-"} THEN after(char(s, p), p + 1) ELSE after("+", p)
    IN from(skipspace(s, 1))

Start == 1   \* what *endptr is when nothing was read
Unset == 0   \* *endptr is not written

RECURSIVE skipdigits(_, _, _)
skipdigits(s, p, base) == IF isdigit(char(s, p), base) THEN skipdigits(s, p + 1, base) ELSE p
Bug_fits(rc, d, limval, limdigit) == rc <= limval
fits(rc, d, limval, limdigit) == rc < limval \/ (rc = limval /\ d <= limdigit)

\* erange tells whether it sets errno.
RECURSIVE _strtox_main(_, _, _, _, _, _, _)
_strtox_main(s, p, rc, pre, error, limval, limdigit) ==
    LET d == digit(char(s, p))
    IN IF ~isdigit(char(s, p), pre.base)
       THEN [rc |-> rc, sign |-> pre.sign, p |-> IF p = pre.p THEN Start ELSE p, erange |-> FALSE]
       ELSE IF fits(rc, d, limval, limdigit)
       THEN _strtox_main(s, p + 1, unsigned(rc * pre.base + d), pre, error, limval, limdigit)
       ELSE [rc |-> error, sign |-> "+", p |-> skipdigits(s, p, pre.base), erange |-> TRUE]

negated(r) == IF r.sign = "+" THEN r.rc ELSE -r.rc

\* strtol and strtoll.  C's division truncates; LONG_MIN is negative.
strtol(s, base0) ==
    LET main(pre, error, limit) == _strtox_main(s, pre.p, 0, pre, error, limit \div pre.base, limit % pre.base)
        result(r) == [val |-> tolong(negated([r EXCEPT !.rc = tolong(@)])), end |-> r.p, erange |-> r.erange]
        convert(pre) == IF pre.base \notin 2 .. 36 THEN [val |-> 0, end |-> Unset, erange |-> FALSE]
                        ELSE IF pre.sign = "+" THEN result(main(pre, LONG_MAX, LONG_MAX))
                        ELSE result(main(pre, unsigned(LONG_MIN), -LONG_MIN))
    IN convert(_strtox_prelim(s, base0))
\* strtoul and strtoull.
strtoul(s, base0) ==
    LET result(r) == [val |-> unsigned(negated(r)), end |-> r.p, erange |-> r.erange]
        convert(pre) == IF pre.base \notin 2 .. 36 THEN [val |-> 0, end |-> Unset, erange |-> FALSE]
                        ELSE result(_strtox_main(s, pre.p, 0, pre, ULONG_MAX,
                                                 ULONG_MAX \div pre.base, ULONG_MAX % pre.base))
    IN convert(_strtox_prelim(s, base0))
=============================================================================
