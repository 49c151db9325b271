-------------------------------- MODULE Heap --------------------------------
(***************************************************************************)
(* libc/malloc.c.  Memory counts in units, the size of a Header.  base is  *)
(* at 0, the memory sbrk gives starts at 1 and ends below brk.  A heap h   *)
(* holds the ptr and size of every header, freep and brk.  A block is      *)
(* named by its header.                                                    *)
(***************************************************************************)
EXTENDS Integers

CONSTANTS NALLOC,  \* the least morecore asks for: 4096 units
          CORE     \* sbrk fails beyond

ASSUME HeapAssumption == NALLOC \in Nat \ {0} /\ CORE \in Nat

Null == -1
base == 0
EmptyHeap == [ptr |-> [a \in 0 .. CORE |-> base], size |-> [a \in 0 .. CORE |-> 0],
              freep |-> Null, brk |-> 1]

\* The block after which bp belongs: the loop of free.
RECURSIVE place(_, _, _)
place(h, p, bp) ==
    LET next == h.ptr[p]
    IN IF (bp > p /\ bp < next) \/ (p >= next /\ (bp > p \/ bp < next)) THEN p
       ELSE place(h, next, bp)

\* Joins bp to the block above it, then to the one below.
join_up(h, p, bp) ==
    LET next == h.ptr[p]
    IN IF bp + h.size[bp] = next
       THEN [h EXCEPT !.size[bp] = @ + h.size[next], !.ptr[bp] = h.ptr[next]]
       ELSE [h EXCEPT !.ptr[bp] = next]
Bug_join_down(h, p, bp) == [h EXCEPT !.ptr[p] = bp]
join_down(h, p, bp) ==
    IF p + h.size[p] = bp
    THEN [h EXCEPT !.size[p] = @ + h.size[bp], !.ptr[p] = h.ptr[bp]]
    ELSE [h EXCEPT !.ptr[p] = bp]
free(h, bp) ==
    LET p == place(h, h.freep, bp)
    IN [join_down(join_up(h, p, bp), p, bp) EXCEPT !.freep = p]

units(nu) == IF nu < NALLOC THEN NALLOC ELSE nu
sbrk_fails(h, nu) == h.brk + units(nu) > CORE + 1
morecore(h, nu) == free([h EXCEPT !.size[h.brk] = units(nu), !.brk = @ + units(nu)], h.brk)

\* First fit; the tail of a block that is too large is what the caller gets.
take(h, prevp, p, nunits) ==
    LET rest == h.size[p] - nunits
    IN IF rest = 0 THEN [h |-> [h EXCEPT !.ptr[prevp] = h.ptr[p], !.freep = prevp], p |-> p]
       ELSE [h |-> [h EXCEPT !.size[p] = rest, !.size[p + rest] = nunits, !.freep = prevp],
             p |-> p + rest]

RECURSIVE fit(_, _, _, _)
fit(h, prevp, p, nunits) ==
    IF h.size[p] >= nunits THEN take(h, prevp, p, nunits)
    ELSE IF p # h.freep THEN fit(h, p, h.ptr[p], nunits)
    ELSE IF sbrk_fails(h, nunits) THEN [h |-> h, p |-> Null]
    ELSE LET more == morecore(h, nunits)
         IN fit(more, more.freep, more.ptr[more.freep], nunits)

malloc(h, nunits) ==
    LET start == IF h.freep = Null THEN [h EXCEPT !.ptr[base] = base, !.freep = base, !.size[base] = 0] ELSE h
    IN fit(start, start.freep, start.ptr[start.freep], nunits)

\* realloc always moves, and frees the old block even when malloc failed.
\* What memmove does to the contents, then at address 0, is left out, and so
\* is realloc(NULL, n), where there is no header to read.
realloc(h, bp, nunits) ==
    LET new == malloc(h, nunits)
    IN [h |-> free(new.h, bp), p |-> new.p]
=============================================================================
