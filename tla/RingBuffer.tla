----------------------------- MODULE RingBuffer -----------------------------
(***************************************************************************)
(* Facts about a ring buffer whose counters wrap: P slots, and counters of *)
(* the width of a C uint, W.  pipe.c and console.c both keep their data    *)
(* this way; a counter k stands for slot k % P.                            *)
(***************************************************************************)
EXTENDS Integers, SequenceTheorems, TLAPS

CONSTANTS P, W

Shape == P \in Nat \ {0} /\ W \in Nat /\ W > P

\* The slots divide the range of the counters, as a power of two does 2^32.
Divides == W % P = 0

Slot(k) == k % P
Succ(k) == (k + 1) % W

\* How far counter k is ahead of counter j, and what lies between them.
Dist(j, k) == (k + W - j) % W
Span(d, j, k) == [m \in 1 .. Dist(j, k) |-> d[Slot((j + m - 1) % W)]]
-----------------------------------------------------------------------------
(* Arithmetic modulo W and modulo P *)

USE DEF Shape

\* What C's % returns for a uint less than twice the divisor.
LEMMA ModW ==
    ASSUME Shape, NEW x \in 0 .. 2 * W - 1
    PROVE  x % W = IF x < W THEN x ELSE x - W
<1>1. CASE x < W
  BY <1>1
<1>2. CASE x >= W
  BY <1>2
<1>. QED BY <1>1, <1>2

\* A counter stays in range.
LEMMA SuccType ==
    ASSUME Shape, NEW k \in 0 .. W - 1
    PROVE  Succ(k) \in 0 .. W - 1
BY DEF Succ

\* k - j in uint arithmetic.
LEMMA DistIs ==
    ASSUME Shape, NEW r \in 0 .. W - 1, NEW w \in 0 .. W - 1
    PROVE  /\ Dist(r, w) = IF w >= r THEN w - r ELSE w + W - r
           /\ Dist(r, w) \in 0 .. W - 1
           /\ (r + Dist(r, w)) % W = w
<1>1. CASE w >= r
  <2>1. w + W - r \in 0 .. 2 * W - 1 /\ w + W - r >= W
    BY <1>1
  <2>2. Dist(r, w) = w - r
    BY <1>1, <2>1, ModW DEF Dist
  <2>. QED BY <1>1, <2>2
<1>2. CASE w < r
  <2>1. w + W - r \in 0 .. 2 * W - 1 /\ w + W - r < W
    BY <1>2
  <2>2. Dist(r, w) = w + W - r
    BY <1>2, <2>1, ModW DEF Dist
  <2>3. r + Dist(r, w) = w + W
    BY <2>2
  <2>4. (r + Dist(r, w)) % W = w
    BY <2>3, ModW
  <2>. QED BY <1>2, <2>2, <2>4
<1>. QED BY <1>1, <1>2

\* The test w == r + P finds a full buffer and r == w an empty one, also when
\* the counters wrap.
LEMMA FullIs ==
    ASSUME Shape, NEW r \in 0 .. W - 1, NEW w \in 0 .. W - 1
    PROVE  /\ w = (r + P) % W <=> Dist(r, w) = P
           /\ r = w <=> Dist(r, w) = 0
<1>1. (r + P) % W = IF r + P < W THEN r + P ELSE r + P - W
  BY ModW
<1>2. Dist(r, w) = IF w >= r THEN w - r ELSE w + W - r
  BY DistIs
<1>. QED BY <1>1, <1>2

\* The counters count modulo W.
LEMMA SuccIs ==
    ASSUME Shape, NEW k \in 0 .. W - 1
    PROVE  Succ(k) = IF k + 1 < W THEN k + 1 ELSE 0
BY ModW DEF Succ

\* A counter goes on and may wrap: the distance goes up or down by one.
LEMMA DistSteps ==
    ASSUME Shape, NEW r \in 0 .. W - 1, NEW w \in 0 .. W - 1
    PROVE  /\ Dist(r, w) < W - 1 => Dist(r, Succ(w)) = Dist(r, w) + 1
           /\ Dist(r, w) > 0 => Dist(Succ(r), w) = Dist(r, w) - 1
<1>1. Succ(w) = IF w + 1 < W THEN w + 1 ELSE 0
  BY SuccIs
<1>2. Succ(r) = IF r + 1 < W THEN r + 1 ELSE 0
  BY SuccIs
<1>3. Succ(r) \in 0 .. W - 1 /\ Succ(w) \in 0 .. W - 1
  BY SuccType
<1>4. Dist(r, w) = IF w >= r THEN w - r ELSE w + W - r
  BY DistIs
<1>5. Dist(r, Succ(w)) = IF Succ(w) >= r THEN Succ(w) - r ELSE Succ(w) + W - r
  BY <1>3, DistIs, Zenon
<1>6. Dist(Succ(r), w) = IF w >= Succ(r) THEN w - Succ(r) ELSE w + W - Succ(r)
  BY <1>3, DistIs, Zenon
<1>7. Dist(r, w) < W - 1 => Dist(r, Succ(w)) = Dist(r, w) + 1
  BY <1>1, <1>4, <1>5
<1>8. Dist(r, w) > 0 => Dist(Succ(r), w) = Dist(r, w) - 1
  BY <1>2, <1>4, <1>6
<1>. QED BY <1>7, <1>8

\* Quotient and remainder.
LEMMA DivMod ==
    ASSUME P \in Nat \ {0}, NEW x \in Nat
    PROVE  x \div P \in Nat /\ x = P * (x \div P) + (x % P)
<1>. DEFINE q == x \div P
            r == x % P
<1>1. q \in Int /\ r \in 0 .. P - 1
  OBVIOUS
<1>2. x = P * q + r
  OBVIOUS
<1>. HIDE DEF q, r
<1>3. ASSUME q <= 0 - 1 PROVE FALSE
  BY <1>1, <1>2, <1>3
<1>4. q \in Nat
  BY <1>1, <1>3
<1>5. x \div P \in Nat
  BY <1>4 DEF q
<1>6. x = P * (x \div P) + (x % P)
  BY <1>2 DEF q, r
<1>. QED BY <1>5, <1>6

\* Two numbers with the same remainder differ by a multiple of the divisor.
LEMMA Distinct ==
    ASSUME P \in Nat \ {0}, NEW x \in Nat, NEW d \in 1 .. P - 1
    PROVE  (x + d) % P # x % P
<1>. SUFFICES ASSUME (x + d) % P = x % P PROVE FALSE
  OBVIOUS
<1>. DEFINE a == x \div P
            b == (x + d) \div P
            r == x % P
<1>1. a \in Int /\ b \in Int /\ r \in Int
  OBVIOUS
<1>2. x = P * a + r /\ x + d = P * b + r
  OBVIOUS
<1>. HIDE DEF a, b, r
<1>3. d = P * (b - a)
  BY <1>1, <1>2
<1>4. CASE b - a <= 0
  BY <1>1, <1>3, <1>4
<1>5. CASE b - a >= 1
  BY <1>1, <1>3, <1>5
<1>. QED BY <1>1, <1>4, <1>5

\* A multiple of the divisor does not change the remainder.
LEMMA Multiple ==
    ASSUME P \in Nat \ {0}, NEW x \in Nat, NEW m \in Nat
    PROVE  (x + P * m) % P = x % P
<1>. DEFINE a == x \div P
            r == x % P
            b == (x + P * m) \div P
            s == (x + P * m) % P
<1>1. a \in Int /\ b \in Int /\ r \in 0 .. P - 1 /\ s \in 0 .. P - 1 /\ P * m \in Nat
  OBVIOUS
<1>2. x = P * a + r /\ x + P * m = P * b + s
  BY <1>1
<1>. HIDE DEF a, b, r, s
<1>3. s - r = P * (a + m - b)
  BY <1>1, <1>2
<1>4. CASE a + m - b <= 0 - 1
  BY <1>1, <1>3, <1>4
<1>5. CASE a + m - b >= 1
  BY <1>1, <1>3, <1>5
<1>6. s = r
  BY <1>1, <1>3, <1>4, <1>5
<1>. QED BY <1>6 DEF s, r

\* A position of the stream and the slot of the buffer that holds it: the
\* wrap of the counters does not show, since P divides W.
LEMMA SlotOf ==
    ASSUME Shape, Divides, NEW x \in 0 .. 2 * W - 1
    PROVE  Slot(x % W) = x % P
<1>1. CASE x < W
  BY <1>1, ModW DEF Slot
<1>2. CASE x >= W
  <2>1. PICK m \in Nat : W = P * m
    <3>1. W \div P \in Nat /\ W = P * (W \div P) + (W % P)
      BY DivMod
    <3>2. W = P * (W \div P)
      BY <3>1 DEF Divides
    <3>. QED BY <3>1, <3>2
  <2>2. x - W \in Nat /\ x % W = x - W
    BY <1>2, ModW
  <2>3. ((x - W) + P * m) % P = (x - W) % P
    BY <2>2, Multiple, Zenon
  <2>4. (x - W) + P * m = x
    BY <2>1
  <2>. QED BY <2>2, <2>3, <2>4 DEF Slot
<1>. QED BY <1>1, <1>2

\* The slot that is filled next holds nothing that is still to be read.
LEMMA SlotIsFree ==
    ASSUME Shape, Divides, NEW r \in 0 .. W - 1, NEW w \in 0 .. W - 1, Dist(r, w) < P,
           NEW k \in 1 .. Dist(r, w)
    PROVE  Slot((r + k - 1) % W) # Slot(w)
<1>. DEFINE F == Dist(r, w)
<1>0. F \in 0 .. W - 1 /\ (r + F) % W = w /\ k \in 1 .. F
  BY DistIs
<1>. HIDE DEF F
<1>1. F \in Nat /\ r + F \in 0 .. 2 * W - 1 /\ r + k - 1 \in 0 .. 2 * W - 1
  BY <1>0
<1>2. Slot(w) = (r + F) % P /\ Slot((r + k - 1) % W) = (r + k - 1) % P
  BY <1>0, <1>1, SlotOf, Zenon
<1>3. F - k + 1 \in 1 .. P - 1 /\ r + k - 1 \in Nat /\ (r + k - 1) + (F - k + 1) = r + F
  BY <1>0 DEF F
<1>4. ((r + k - 1) + (F - k + 1)) % P # (r + k - 1) % P
  BY <1>3, Distinct, Zenon
<1>. QED BY <1>2, <1>3, <1>4

-----------------------------------------------------------------------------
(* Spans: putting, taking, splitting and cutting *)

\* What is put into the buffer goes to the end of the span.
LEMMA PutAppends ==
    ASSUME Shape, Divides, NEW B, NEW d \in [0 .. P - 1 -> B], NEW v \in B,
           NEW r \in 0 .. W - 1, NEW w \in 0 .. W - 1, Dist(r, w) < P
    PROVE  /\ Len(Span(d, r, w)) < P
           /\ Span([d EXCEPT ![Slot(w)] = v], r, Succ(w)) = Append(Span(d, r, w), v)
           /\ Dist(r, Succ(w)) <= P
<1>. DEFINE F == Dist(r, w)
            e == [d EXCEPT ![Slot(w)] = v]
            S == Span(d, r, w)
<1>1. F \in Nat /\ F < P /\ (r + F) % W = w /\ Dist(r, Succ(w)) = F + 1
  <2>1. F \in 0 .. W - 1 /\ (r + F) % W = w
    BY DistIs
  <2>2. F < W - 1 => Dist(r, Succ(w)) = F + 1
    BY DistSteps
  <2>. HIDE DEF F
  <2>3. F < P
    BY DEF F
  <2>. QED BY <2>1, <2>2, <2>3
<1>2. Slot(w) \in 0 .. P - 1
  BY DEF Slot
<1>3. \A k \in 1 .. F : d[Slot((r + k - 1) % W)] \in B
  <2>. SUFFICES ASSUME NEW k \in 1 .. F PROVE Slot((r + k - 1) % W) \in 0 .. P - 1
    OBVIOUS
  <2>1. (r + k - 1) % W \in Nat
    BY <1>1
  <2>. QED BY <2>1 DEF Slot
<1>4. S = [k \in 1 .. F |-> d[Slot((r + k - 1) % W)]]
  BY DEF Span
<1>5. \A k \in 1 .. F : e[Slot((r + k - 1) % W)] = d[Slot((r + k - 1) % W)]
  BY SlotIsFree
<1>6. e[Slot((r + (F + 1) - 1) % W)] = v
  <2>1. r + (F + 1) - 1 = r + F
    BY <1>1
  <2>. QED BY <1>1, <1>2, <2>1
<1>7. Span(e, r, Succ(w)) = [k \in 1 .. F + 1 |-> e[Slot((r + k - 1) % W)]]
  BY <1>1 DEF Span
<1>. HIDE DEF F, e, S
<1>8. S \in Seq(B) /\ Len(S) = F
  BY <1>1, <1>3, <1>4
<1>9. \A k \in 1 .. F + 1 : e[Slot((r + k - 1) % W)] = Append(S, v)[k]
  <2>. SUFFICES ASSUME NEW k \in 1 .. F + 1 PROVE e[Slot((r + k - 1) % W)] = Append(S, v)[k]
    BY Zenon
  <2>1. CASE k = F + 1
    BY <1>6, <1>8, <2>1, AppendProperties, SMTT(30)
  <2>2. CASE k # F + 1
    <3>1. k \in 1 .. F
      BY <1>1, <2>2
    <3>2. Append(S, v)[k] = S[k]
      BY <1>8, <3>1, AppendProperties
    <3>. QED BY <1>4, <1>5, <3>1, <3>2, Zenon
  <2>. QED BY <2>1, <2>2, Zenon
<1>10. Append(S, v) \in Seq(B) /\ Len(Append(S, v)) = F + 1
  BY <1>8, AppendProperties
<1>11. Span(e, r, Succ(w)) = Append(S, v)
  <2>. DEFINE T == Append(S, v)
  <2>. HIDE DEF T
  <2>1. T \in Seq(B) /\ Len(T) = F + 1
    BY <1>10 DEF T
  <2>2. T = [k \in 1 .. F + 1 |-> T[k]]
    BY <2>1
  <2>3. \A k \in 1 .. F + 1 : e[Slot((r + k - 1) % W)] = T[k]
    BY <1>9, Zenon DEF T
  <2>4. T = Span(e, r, Succ(w))
    BY <1>7, <2>2, <2>3
  <2>. QED BY <2>4 DEF T
<1>12. F + 1 <= P
  BY <1>1
<1>. QED BY <1>1, <1>8, <1>11, <1>12, Zenon DEF F, e, S

\* What is taken out comes from the front of the span.
LEMMA GetTakes ==
    ASSUME Shape, NEW B, NEW d \in [0 .. P - 1 -> B],
           NEW r \in 0 .. W - 1, NEW w \in 0 .. W - 1, r # w
    PROVE  /\ Span(d, r, w) # <<>>
           /\ Span(d, Succ(r), w) = Tail(Span(d, r, w))
           /\ Dist(Succ(r), w) <= Dist(r, w)
<1>. DEFINE F == Dist(r, w)
            S == Span(d, r, w)
<1>1. F \in 0 .. W - 1 /\ F > 0 /\ Dist(Succ(r), w) = F - 1
  <2>1. F \in 0 .. W - 1
    BY DistIs, Zenon
  <2>2. F # 0
    BY FullIs
  <2>3. F > 0 => Dist(Succ(r), w) = F - 1
    BY DistSteps
  <2>. HIDE DEF F
  <2>. QED BY <2>1, <2>2, <2>3
<1>2. \A k \in 1 .. F : d[Slot((r + k - 1) % W)] \in B
  <2>. SUFFICES ASSUME NEW k \in 1 .. F PROVE Slot((r + k - 1) % W) \in 0 .. P - 1
    OBVIOUS
  <2>1. (r + k - 1) % W \in Nat
    BY <1>1
  <2>. QED BY <2>1 DEF Slot
<1>3. S = [k \in 1 .. F |-> d[Slot((r + k - 1) % W)]]
  BY DEF Span
<1>4. Span(d, Succ(r), w) = [k \in 1 .. F - 1 |-> d[Slot((Succ(r) + k - 1) % W)]]
  BY <1>1 DEF Span
<1>. HIDE DEF F, S
<1>5. \A k \in 1 .. F - 1 : (Succ(r) + k - 1) % W = (r + (k + 1) - 1) % W
  <2>. SUFFICES ASSUME NEW k \in 1 .. F - 1 PROVE (Succ(r) + k - 1) % W = (r + (k + 1) - 1) % W
    OBVIOUS
  <2>. DEFINE x == Succ(r) + k - 1
              y == r + (k + 1) - 1
  <2>1. Succ(r) = IF r + 1 < W THEN r + 1 ELSE 0
    BY SuccIs
  <2>2. /\ x \in 0 .. 2 * W - 1 /\ y \in 0 .. 2 * W - 1
        /\ IF r + 1 < W THEN x = y ELSE y = x + W /\ x < W
    BY <1>1, <2>1
  <2>. HIDE DEF x, y
  <2>3. x % W = IF x < W THEN x ELSE x - W
    BY <2>2, ModW, Zenon
  <2>4. y % W = IF y < W THEN y ELSE y - W
    BY <2>2, ModW, Zenon
  <2>5. x % W = y % W
    BY <2>2, <2>3, <2>4
  <2>. QED BY <2>5 DEF x, y
<1>6. S \in Seq(B) /\ Len(S) = F /\ S # <<>>
  <2>1. F \in Nat
    BY <1>1
  <2>2. S \in Seq(B) /\ Len(S) = F
    BY <1>2, <1>3, <2>1
  <2>. QED BY <1>1, <2>2
<1>7. /\ Tail(S) \in Seq(B) /\ Len(Tail(S)) = F - 1
      /\ \A k \in 1 .. F - 1 : Tail(S)[k] = S[k + 1]
  <2>1. /\ Tail(S) \in Seq(B) /\ Len(Tail(S)) = Len(S) - 1
        /\ \A k \in 1 .. Len(Tail(S)) : Tail(S)[k] = S[k + 1]
    BY <1>6, HeadTailProperties
  <2>. QED BY <1>6, <2>1
<1>8. \A k \in 1 .. F - 1 : Tail(S)[k] = d[Slot((Succ(r) + k - 1) % W)]
  <2>. SUFFICES ASSUME NEW k \in 1 .. F - 1 PROVE S[k + 1] = d[Slot((Succ(r) + k - 1) % W)]
    BY <1>7
  <2>1. k + 1 \in 1 .. F
    BY <1>1
  <2>2. S[k + 1] = d[Slot((r + (k + 1) - 1) % W)]
    BY <1>3, <2>1
  <2>. QED BY <1>5, <2>2
<1>9. Tail(S) = [k \in 1 .. F - 1 |-> d[Slot((Succ(r) + k - 1) % W)]]
  <2>. DEFINE T == Tail(S)
  <2>. HIDE DEF T
  <2>1. T \in Seq(B) /\ Len(T) = F - 1
    BY <1>7 DEF T
  <2>2. T = [k \in 1 .. F - 1 |-> T[k]]
    BY <2>1
  <2>3. \A k \in 1 .. F - 1 : T[k] = d[Slot((Succ(r) + k - 1) % W)]
    BY <1>8, Zenon DEF T
  <2>4. T = [k \in 1 .. F - 1 |-> d[Slot((Succ(r) + k - 1) % W)]]
    BY <2>2, <2>3
  <2>. QED BY <2>4 DEF T
<1>. QED BY <1>1, <1>4, <1>6, <1>9 DEF F, S

\* A span is a sequence.
LEMMA SpanIsSeq ==
    ASSUME Shape, NEW B, NEW d \in [0 .. P - 1 -> B]
    PROVE  \A j, k \in 0 .. W - 1 : Span(d, j, k) \in Seq(B) /\ Len(Span(d, j, k)) = Dist(j, k)
<1>. SUFFICES ASSUME NEW j \in 0 .. W - 1, NEW k \in 0 .. W - 1
              PROVE  Span(d, j, k) \in Seq(B) /\ Len(Span(d, j, k)) = Dist(j, k)
  OBVIOUS
<1>. DEFINE F == Dist(j, k)
<1>1. F \in 0 .. W - 1
  BY DistIs, Zenon
<1>2. \A m \in 1 .. F : d[Slot((j + m - 1) % W)] \in B
  <2>. SUFFICES ASSUME NEW m \in 1 .. F PROVE Slot((j + m - 1) % W) \in 0 .. P - 1
    OBVIOUS
  <2>. HIDE DEF F
  <2>1. (j + m - 1) % W \in Nat
    BY <1>1
  <2>. QED BY <2>1 DEF Slot
<1>3. Span(d, j, k) = [m \in 1 .. F |-> d[Slot((j + m - 1) % W)]] /\ F \in Nat
  BY <1>1 DEF Span
<1>. HIDE DEF F
<1>4. Span(d, j, k) \in Seq(B) /\ Len(Span(d, j, k)) = F
  BY <1>2, <1>3
<1>. QED BY <1>4 DEF F

\* Going on from a counter that lies Dist(j, k) after j.
LEMMA SamePlace ==
    ASSUME Shape, NEW j \in 0 .. W - 1, NEW k \in 0 .. W - 1, NEW m \in Nat,
           Dist(j, k) + m < W
    PROVE  (k + m) % W = (j + (Dist(j, k) + m)) % W
<1>. DEFINE D == Dist(j, k)
<1>1. D = IF k >= j THEN k - j ELSE k + W - j
  BY DistIs
<1>. HIDE DEF D
<1>2. /\ k + m \in 0 .. 2 * W - 1 /\ j + (D + m) \in 0 .. 2 * W - 1
      /\ IF k >= j THEN j + (D + m) = k + m ELSE j + (D + m) = k + m + W /\ k + m < W
  BY <1>1 DEF D
<1>3. (k + m) % W = IF k + m < W THEN k + m ELSE k + m - W
  <2>. DEFINE x == k + m
  <2>. HIDE DEF x
  <2>1. x \in 0 .. 2 * W - 1
    BY <1>2 DEF x
  <2>2. x % W = IF x < W THEN x ELSE x - W
    BY <2>1, ModW
  <2>. QED BY <2>2 DEF x
<1>. DEFINE y == j + (D + m)
<1>. HIDE DEF y
<1>4. y % W = IF y < W THEN y ELSE y - W
  BY <1>2, ModW DEF y
<1>5. IF k >= j THEN y = k + m ELSE y = k + m + W /\ k + m < W
  BY <1>2 DEF y
<1>6. (k + m) % W = y % W
  BY <1>2, <1>3, <1>4, <1>5
<1>. QED BY <1>6 DEF y, D

\* A span falls into two at a counter between its ends.
LEMMA SpanSplits ==
    ASSUME Shape, NEW B, NEW d \in [0 .. P - 1 -> B], NEW r \in 0 .. W - 1, NEW w \in 0 .. W - 1,
           NEW e \in 0 .. W - 1, Dist(r, w) + Dist(w, e) = Dist(r, e)
    PROVE  Span(d, r, e) = Span(d, r, w) \o Span(d, w, e)
<1>. DEFINE D == Dist(r, w)
            F == Dist(w, e)
            S == Span(d, r, w)
            T == Span(d, w, e)
            C == S \o T
<1>1. D \in 0 .. W - 1 /\ F \in 0 .. W - 1 /\ Dist(r, e) \in 0 .. W - 1
  BY DistIs
<1>2. S \in Seq(B) /\ Len(S) = D /\ T \in Seq(B) /\ Len(T) = F
  <2>1. \A j, m \in 0 .. W - 1 : Span(d, j, m) \in Seq(B) /\ Len(Span(d, j, m)) = Dist(j, m)
    BY SpanIsSeq, Zenon
  <2>. QED BY <2>1
<1>3. S = [m \in 1 .. D |-> d[Slot((r + m - 1) % W)]] /\ T = [m \in 1 .. F |-> d[Slot((w + m - 1) % W)]]
  BY DEF Span
<1>4. Span(d, r, e) = [m \in 1 .. D + F |-> d[Slot((r + m - 1) % W)]] /\ D + F < W
  BY <1>1 DEF Span
<1>5. \A m \in 1 .. F : (w + m - 1) % W = (r + (D + m) - 1) % W
  <2>. SUFFICES ASSUME NEW m \in 1 .. F PROVE (w + m - 1) % W = (r + (D + m) - 1) % W
    OBVIOUS
  <2>. HIDE DEF D, F
  <2>1. m - 1 \in Nat /\ D + (m - 1) < W
    BY <1>1, <1>4
  <2>2. (w + (m - 1)) % W = (r + (D + (m - 1))) % W
    BY <2>1, SamePlace DEF D
  <2>3. w + (m - 1) = w + m - 1 /\ r + (D + (m - 1)) = r + (D + m) - 1
    BY <1>1
  <2>. QED BY <2>2, <2>3
<1>. HIDE DEF D, F, S, T
<1>6. C \in Seq(B) /\ Len(C) = D + F
  BY <1>2, ConcatProperties, Zenon
<1>7. \A m \in 1 .. D + F : C[m] = IF m <= D THEN S[m] ELSE T[m - D]
  BY <1>2, ConcatProperties, SMTT(30)
<1>8. \A m \in 1 .. D + F : C[m] = d[Slot((r + m - 1) % W)]
  <2>. SUFFICES ASSUME NEW m \in 1 .. D + F PROVE C[m] = d[Slot((r + m - 1) % W)]
    BY Zenon
  <2>1. CASE m <= D
    <3>1. m \in 1 .. D
      BY <1>1, <2>1
    <3>. QED BY <1>3, <1>7, <2>1, <3>1, Zenon
  <2>2. CASE ~(m <= D)
    <3>1. m - D \in 1 .. F /\ D + (m - D) = m
      BY <1>1, <2>2
    <3>2. (w + (m - D) - 1) % W = (r + (D + (m - D)) - 1) % W
      BY <1>5, <3>1, Zenon
    <3>3. T[m - D] = d[Slot((w + (m - D) - 1) % W)]
      BY <1>3, <3>1, SMTT(30)
    <3>. QED BY <1>7, <2>2, <3>1, <3>2, <3>3, Zenon
  <2>. QED BY <2>1, <2>2, Zenon
<1>. HIDE DEF C
<1>9. C = [m \in 1 .. D + F |-> C[m]]
  BY <1>1, <1>6
<1>10. C = Span(d, r, e)
  BY <1>4, <1>8, <1>9
<1>. QED BY <1>10 DEF C, S, T

\* Going back with the end of a span shortens it.
LEMMA DistCut ==
    ASSUME Shape, NEW w \in 0 .. W - 1, NEW e \in 0 .. W - 1,
           NEW k \in 0 .. Dist(w, e), NEW f, f = (e + W - k) % W
    PROVE  f \in 0 .. W - 1 /\ Dist(w, f) = Dist(w, e) - k
<1>. DEFINE F == Dist(w, e)
<1>1. F = (IF e >= w THEN e - w ELSE e + W - w) /\ F \in 0 .. W - 1
  BY DistIs
<1>2. k \in 0 .. F
  OBVIOUS
<1>. HIDE DEF F
<1>3. k \in 0 .. W - 1
  BY <1>1, <1>2
<1>4. f = IF e + W - k < W THEN e + W - k ELSE e + W - k - W
  <2>. DEFINE x == e + W - k
  <2>1. x \in 0 .. 2 * W - 1 /\ f = x % W
    BY <1>3
  <2>. HIDE DEF x
  <2>2. x % W = IF x < W THEN x ELSE x - W
    BY <2>1, ModW
  <2>3. f = IF x < W THEN x ELSE x - W
    BY <2>1, <2>2
  <2>. QED BY <2>3 DEF x
<1>5. f \in 0 .. W - 1
  BY <1>3, <1>4
<1>6. Dist(w, f) = IF f >= w THEN f - w ELSE f + W - w
  BY <1>5, DistIs, Zenon
<1>7. Dist(w, f) = F - k
  BY <1>1, <1>2, <1>3, <1>4, <1>6
<1>. QED BY <1>5, <1>7 DEF F

\* What is cut off are its last elements.
LEMMA SpanCut ==
    ASSUME Shape, NEW B, NEW d \in [0 .. P - 1 -> B], NEW w \in 0 .. W - 1, NEW e \in 0 .. W - 1
    PROVE  \A k \in 0 .. Dist(w, e) :
             Span(d, w, (e + W - k) % W) = SubSeq(Span(d, w, e), 1, Dist(w, e) - k)
<1>. SUFFICES ASSUME NEW k \in 0 .. Dist(w, e), NEW f, f = (e + W - k) % W
              PROVE  Span(d, w, f) = SubSeq(Span(d, w, e), 1, Dist(w, e) - k)
  OBVIOUS
<1>. DEFINE F == Dist(w, e)
            S == Span(d, w, e)
            C == SubSeq(S, 1, F - k)
<1>1. F = (IF e >= w THEN e - w ELSE e + W - w) /\ F \in 0 .. W - 1
  BY DistIs
<1>2. k \in 0 .. F
  OBVIOUS
<1>3. S \in Seq(B) /\ Len(S) = F
  <2>1. \A j, m \in 0 .. W - 1 : Span(d, j, m) \in Seq(B) /\ Len(Span(d, j, m)) = Dist(j, m)
    BY SpanIsSeq, Zenon
  <2>. QED BY <2>1
<1>4. S = [m \in 1 .. F |-> d[Slot((w + m - 1) % W)]]
  BY DEF Span
<1>. HIDE DEF F, S
<1>5. Dist(w, f) = F - k
  BY DistCut DEF F
<1>6. Span(d, w, f) = [m \in 1 .. F - k |-> d[Slot((w + m - 1) % W)]]
  BY <1>5 DEF Span
<1>7. /\ C \in Seq(B) /\ Len(C) = F - k
      /\ \A m \in 1 .. F - k : C[m] = S[m]
  BY <1>1, <1>2, <1>3
<1>8. \A m \in 1 .. F - k : C[m] = d[Slot((w + m - 1) % W)]
  BY <1>1, <1>2, <1>4, <1>7
<1>. HIDE DEF C
<1>9. C = [m \in 1 .. F - k |-> C[m]]
  BY <1>7
<1>10. C = Span(d, w, f)
  BY <1>6, <1>8, <1>9, Zenon
<1>. QED BY <1>10 DEF C, F, S
=============================================================================
