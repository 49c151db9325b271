-------------------------------- MODULE Quad --------------------------------
(***************************************************************************)
(* libc/quad: arithmetic on quads, numbers of four halves, with ints of    *)
(* two.  HALF_BITS is 16 in the build; the code does not care.  A quad is  *)
(* kept as the unsigned number of its bits.                                *)
(***************************************************************************)
EXTENDS Integers, Sequences, SequencesExt

CONSTANT HALF_BITS

ASSUME QuadAssumption == HALF_BITS \in Nat \ {0}

B == 2 ^ HALF_BITS
UINT == B * B
QUAD == UINT * UINT
INT_BITS == 2 * HALF_BITS

u_int(x) == x % UINT
u_quad(x) == x % QUAD
HHALF(x) == u_int(x) \div B
LHALF(x) == x % B
LHUP(x) == u_int(x * B)
COMBINE(a, b) == u_int(a * B + b)
Hi(q) == q \div UINT    \* ul[H]
Lo(q) == q % UINT       \* ul[L]
join(h, l) == u_int(h) * UINT + u_int(l)
\* The values of the bits as signed numbers: q and sl[H].
signed(q) == IF q < QUAD \div 2 THEN q ELSE q - QUAD
sl(w) == IF w < UINT \div 2 THEN w ELSE w - UINT
flag(b) == IF b THEN 1 ELSE 0
-----------------------------------------------------------------------------
(* adddi3.c, subdi3.c, negdi2.c, cmpdi2.c, ucmpdi2.c *)

adddi3(a, b) ==
    LET low == u_int(Lo(a) + Lo(b))
    IN join(Hi(a) + Hi(b) + flag(low < Lo(b)), low)
subdi3(a, b) ==
    LET low == u_int(Lo(a) - Lo(b))
    IN join(Hi(a) - Hi(b) - flag(low > Lo(a)), low)
negdi2(a) ==
    LET low == u_int(-Lo(a))
    IN join(-Hi(a) - flag(low > 0), low)

order(x, y, else) == IF x < y THEN 0 ELSE IF x > y THEN 2 ELSE else
cmpdi2(a, b) == order(sl(Hi(a)), sl(Hi(b)), order(Lo(a), Lo(b), 1))
ucmpdi2(a, b) == order(Hi(a), Hi(b), order(Lo(a), Lo(b), 1))
-----------------------------------------------------------------------------
(* ashldi3.c and lshldi3.c, lshrdi3.c, ashrdi3.c.  The bits that | joins do *)
(* not overlap. *)

ashldi3(a, shift) ==
    IF shift = 0 THEN a
    ELSE IF shift >= INT_BITS THEN join(Lo(a) * 2 ^ (shift - INT_BITS), 0)
    ELSE join(u_int(Hi(a) * 2 ^ shift) + Lo(a) \div 2 ^ (INT_BITS - shift), Lo(a) * 2 ^ shift)
lshrdi3(a, shift) ==
    IF shift = 0 THEN a
    ELSE IF shift >= INT_BITS THEN Hi(a) \div 2 ^ (shift - INT_BITS)
    ELSE join(Hi(a) \div 2 ^ shift, Lo(a) \div 2 ^ shift + u_int(Hi(a) * 2 ^ (INT_BITS - shift)))
ashrdi3(a, shift) ==
    IF shift = 0 THEN a
    ELSE IF shift >= INT_BITS
    THEN join((sl(Hi(a)) \div 2 ^ (INT_BITS - 1)) \div 2, sl(Hi(a)) \div 2 ^ (shift - INT_BITS))
    ELSE join(sl(Hi(a)) \div 2 ^ shift, Lo(a) \div 2 ^ shift + u_int(Hi(a) * 2 ^ (INT_BITS - shift)))
-----------------------------------------------------------------------------
(* muldi3.c: Knuth's three products *)

diff(x, y) == IF x >= y THEN [d |-> x - y, neg |-> FALSE] ELSE [d |-> y - x, neg |-> TRUE]

\* prodh and prodl, and what is added to them or taken away: x << N.
add(p, x) ==
    LET carry(l) == [h |-> u_int(p.h + HHALF(x) + flag(l < p.l)), l |-> l]
    IN carry(u_int(p.l + LHUP(x)))
sub(p, x) ==
    LET borrow(l) == [h |-> u_int(p.h - HHALF(x) - flag(l > p.l)), l |-> l]
    IN borrow(u_int(p.l - LHUP(x)))

lmulq(u, v) ==
    LET start(high) == [h |-> u_int(high + HHALF(high)), l |-> LHUP(high)]
        middle(p, ud, vd) == IF ud.neg # vd.neg THEN sub(p, u_int(ud.d * vd.d)) ELSE add(p, u_int(ud.d * vd.d))
        finish(p, low, l) == join(p.h + flag(l < low), l)
        last(p, low) == finish(p, low, u_int(p.l + low))
        prod(low) == last(add(middle(start(u_int(HHALF(u) * HHALF(v))),
                                     diff(HHALF(u), LHALF(u)), diff(LHALF(v), HHALF(v))), low), low)
    IN IF HHALF(u) = 0 /\ HHALF(v) = 0 THEN u_int(LHALF(u) * LHALF(v))
       ELSE prod(u_int(LHALF(u) * LHALF(v)))

muldi3(a, b) ==
    LET middle(ud, vd) == IF ud.neg # vd.neg THEN -u_int(ud.d * vd.d) ELSE u_int(ud.d * vd.d)
        prod(u, v, low) ==
            IF Hi(u) = 0 /\ Hi(v) = 0 THEN low
            ELSE join(Hi(u) * Hi(v) + middle(diff(Hi(u), Lo(u)), diff(Lo(v), Hi(v))) + Lo(low) + Hi(low),
                      Lo(low))
        positive(u, v) == prod(u, v, lmulq(Lo(u), Lo(v)))
        all(p) == IF (signed(a) < 0) # (signed(b) < 0) THEN u_quad(-p) ELSE p
    IN all(positive(IF signed(a) >= 0 THEN a ELSE u_quad(-a), IF signed(b) >= 0 THEN b ELSE u_quad(-b)))
-----------------------------------------------------------------------------
(* qdivrem.c: Knuth's algorithm D, on digits in base B *)

digits(q) == <<HHALF(Hi(q)), LHALF(Hi(q)), HHALF(Lo(q)), LHALF(Lo(q))>>
quad(d) == join(COMBINE(d[1], d[2]), COMBINE(d[3], d[4]))

\* Division by one digit.
short(u, v) ==
    LET divide(t, rbj) == [q |-> Append(t.q, rbj \div v), r |-> rbj % v]
        step(t, x) == divide(t, COMBINE(t.r, x))
        result(t) == [q |-> quad(t.q), r |-> t.r]
    IN result(FoldLeft(step, [q |-> <<>>, r |-> 0], u))

shl(p, sh) ==
    [i \in DOMAIN p |-> LHALF(p[i] * 2 ^ sh)
                        + (IF i = Len(p) THEN 0 ELSE p[i + 1] \div 2 ^ (HALF_BITS - sh))]
\* D3: the first two digits of the divisor make qhat too large by one at most.
RECURSIVE shrink(_, _, _, _, _)
shrink(qhat, rhat, v1, v2, uj2) ==
    IF u_int(v2 * qhat) <= COMBINE(rhat, uj2) THEN qhat
    ELSE IF rhat + v1 >= B THEN qhat - 1
    ELSE shrink(qhat - 1, rhat + v1, v1, v2, uj2)
estimate(u, j, v) ==
    LET divide(nn) == shrink(nn \div v[1], nn % v[1], v[1], v[2], u[j + 2])
    IN IF u[j] # v[1] THEN divide(COMBINE(u[j], u[j + 1]))
       ELSE IF u[j + 1] + v[1] >= B THEN B - 1
       ELSE shrink(B - 1, u[j + 1] + v[1], v[1], v[2], u[j + 2])

\* D4: u[j..j+n] less qhat times v, digit by digit; t carries the borrow.
subtract(u, j, v, qhat) ==
    LET set(s, k, t) == [u |-> [s.u EXCEPT ![k] = LHALF(t)], t |-> (B - HHALF(t)) % B]
        step(s, i) == set(s, i + j, u_int(s.u[i + j] - v[i] * qhat - s.t))
        top(s) == set(s, j, u_int(s.u[j] - s.t))
    IN top(FoldLeft(step, [u |-> u, t |-> 0], Reverse([i \in 1 .. Len(v) |-> i])))
\* D6: add back.
Bug_addback(u, j, v) == u
addback(u, j, v) ==
    LET set(s, k, t) == [u |-> [s.u EXCEPT ![k] = LHALF(t)], t |-> HHALF(t)]
        step(s, i) == set(s, i + j, s.t + s.u[i + j] + v[i])
        top(s) == [s.u EXCEPT ![j] = LHALF(@ + s.t)]
    IN top(FoldLeft(step, [u |-> u, t |-> 0], Reverse([i \in 1 .. Len(v) |-> i])))

\* u has one more digit than the dividend, n + m + 1; positions count from 1,
\* and d is the shift that normalises the divisor.
divide(u, v, m) ==
    LET correct(t, j, qhat, s) ==
            IF s.t = 0 THEN [u |-> s.u, q |-> Append(t.q, qhat)]
            ELSE [u |-> addback(s.u, j, v), q |-> Append(t.q, qhat - 1)]
        guess(t, j, qhat) == correct(t, j, qhat, subtract(t.u, j, v, qhat))
        step(t, j) == guess(t, j, estimate(t.u, j, v))
    IN FoldLeft(step, [u |-> u, q |-> <<>>], [j \in 1 .. m + 1 |-> j])
\* The remainder is uspace, after u[m+1..m+n] is shifted back and u[m] cleared.
result(t, n, m, d) ==
    LET rem(i) == IF i < 1 THEN 0 ELSE IF d = 0 \/ i <= m THEN t.u[i] ELSE IF i = m + 1 THEN 0
                  ELSE t.u[i] \div 2 ^ d + LHALF(t.u[i - 1] * 2 ^ (HALF_BITS - d))
    IN [q |-> quad([i \in 1 .. 3 - m |-> 0] \o t.q), r |-> quad([k \in 1 .. 4 |-> rem(k - 3 + m + n)])]
long(u, v) ==
    LET by(n, m, d) == result(divide(shl(u, d), shl(v, d), m), n, m, d)
    IN by(Len(v), Len(u) - 1 - Len(v), CHOOSE k \in 0 .. HALF_BITS : v[1] * 2 ^ k \in B \div 2 .. B - 1)

strip(d) == LET nz == {i \in DOMAIN d : d[i] # 0}
            IN SubSeq(d, CHOOSE i \in nz : \A k \in nz : i <= k, Len(d))

qdivrem(uq, vq) ==
    LET by(v) == IF Len(v) = 1 THEN short(digits(uq), v[1])
                 ELSE long(<<0>> \o strip(digits(uq)), v)
    IN IF uq < vq THEN [q |-> 0, r |-> uq] ELSE by(strip(digits(vq)))

\* divdi3.c, moddi3.c
magnitude(a) == IF signed(a) < 0 THEN u_quad(-a) ELSE a
divdi3(a, b) ==
    LET sign(uq) == IF (signed(a) < 0) # (signed(b) < 0) THEN u_quad(-uq) ELSE uq
    IN sign(qdivrem(magnitude(a), magnitude(b)).q)
moddi3(a, b) ==
    LET sign(ur) == IF signed(a) < 0 THEN u_quad(-ur) ELSE ur
    IN sign(qdivrem(magnitude(a), magnitude(b)).r)
=============================================================================
