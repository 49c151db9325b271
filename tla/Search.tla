------------------------------- MODULE Search -------------------------------
(***************************************************************************)
(* libc/search.c: bsearch and qsort.  Positions count elements from 0;     *)
(* elements are compared as numbers.                                       *)
(***************************************************************************)
EXTENDS Integers, Sequences, FiniteSets

CONSTANT T   \* the threshold below which insertion sort will be used

ASSUME SearchAssumption == T \in Nat /\ T >= 3

NotFound == -1

\* bsearch: nmemb elements from base.
correction(nmemb) == 1 - (nmemb % 2)

RECURSIVE bsearch(_, _, _, _)
bsearch(key, a, base, nmemb) ==
    LET half == nmemb \div 2
        pivot == base + half
    IN IF nmemb = 0 THEN NotFound
       ELSE IF key > a[pivot] THEN bsearch(key, a, pivot + 1, half - correction(nmemb))
       ELSE IF key = a[pivot] THEN pivot
       ELSE bsearch(key, a, base, half)
-----------------------------------------------------------------------------
memswp(a, i, j) == [a EXCEPT ![i] = a[j], ![j] = a[i]]
sort2(a, i, j) == IF a[i] > a[j] THEN memswp(a, i, j) ELSE a

\* The two scans for an element that is not on its side of the pivot.
RECURSIVE right(_, _, _)
right(a, base, i) == IF a[i] < a[base] THEN right(a, base, i + 1) ELSE i
RECURSIVE left(_, _, _)
left(a, base, j) == IF a[j] > a[base] THEN left(a, base, j - 1) ELSE j

RECURSIVE scan(_, _, _, _)
scan(a, base, i0, j0) ==
    LET meet(i, j) == IF i > j THEN [a |-> a, i |-> i, j |-> j] ELSE scan(memswp(a, i, j), base, i, j)
    IN meet(right(a, base, i0 + 1), left(a, base, j0 - 1))

\* The median of three goes first; after the scans it moves into its place.
partition(a, base, limit) ==
    LET i == base + 1
        j == limit - 1
        mid == memswp(a, base + (limit - base) \div 2, base)
        place(s) == [s EXCEPT !.a = memswp(s.a, base, s.j)]
    IN place(scan(sort2(sort2(sort2(mid, i, j), base, j), i, base), base, i, j))

RECURSIVE sink(_, _, _)
sink(a, base, j) ==
    IF a[j] <= a[j + 1] THEN a
    ELSE IF j = base THEN memswp(a, j, j + 1)
    ELSE sink(memswp(a, j, j + 1), base, j - 1)
RECURSIVE insertion(_, _, _, _)
insertion(a, base, limit, i) ==
    IF i >= limit THEN a ELSE insertion(sink(a, base, i - 1), base, limit, i + 1)

\* The larger part goes on the stack, the smaller is sorted first; deep is
\* the most that was on the stack.
Bug_larger(s, base, limit) == s.j - base < limit - s.i
larger(s, base, limit) == s.j - base > limit - s.i

RECURSIVE qsort_from(_, _, _, _, _)
qsort_from(a, base, limit, stack, deep) ==
    LET now == 2 * (Len(stack) + 1)
        deeper == IF now > deep THEN now ELSE deep
        split(s) == IF larger(s, base, limit)
                    THEN qsort_from(s.a, s.i, limit, Append(stack, <<base, s.j>>), deeper)
                    ELSE qsort_from(s.a, base, s.j, Append(stack, <<s.i, limit>>), deeper)
        pop(sorted, top) == IF stack = <<>> THEN [a |-> sorted, deep |-> deep]
                            ELSE qsort_from(sorted, top[1], top[2], SubSeq(stack, 1, Len(stack) - 1), deep)
    IN IF limit - base > T THEN split(partition(a, base, limit))
       ELSE pop(insertion(a, base, limit, base + 1), stack[Len(stack)])

qsort(a) == qsort_from(a, 0, Cardinality(DOMAIN a), <<>>, 0)
=============================================================================
