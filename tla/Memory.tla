------------------------------- MODULE Memory -------------------------------
(***************************************************************************)
(* kernel/kalloc.c and kernel/vm.c: physical pages and the address spaces  *)
(* made of them, as functions from one state of the memory to the next.    *)
(*                                                                         *)
(* Pages are alike, so the memory m counts the free ones: a page freed     *)
(* twice, or with two owners, counts twice.  Other CPUs take and give back *)
(* pages while a call runs, so the n-th kalloc of a call may also fail     *)
(* when n is in m.fails, and a later one succeed.  An address space d has  *)
(* its directory, its page tables (one, ktab, stands for all those of the  *)
(* kernel part) and the entries of the user part, by page number.          *)
(***************************************************************************)
EXTENDS Integers, Sequences, FiniteSets, SequencesExt, FiniteSetsExt

CONSTANTS NPAGES,       \* physical pages between end and PHYSTOP
          PGSIZE,
          NPTENTRIES,   \* pages under one page table
          UPDES         \* page tables below KERNBASE

ASSUME MemoryAssumption == {NPAGES, PGSIZE, NPTENTRIES, UPDES} \subseteq Nat \ {0}

KERNBASE == UPDES * NPTENTRIES * PGSIZE
VPages == 0 .. UPDES * NPTENTRIES - 1
PDX(v) == v \div NPTENTRIES
PGROUNDUP(a) == ((a + PGSIZE - 1) \div PGSIZE) * PGSIZE
\* The numbers of the pages from a, rounded up, to below b.
PagesIn(a, b) == LET from == PGROUNDUP(a) \div PGSIZE
                     to == PGROUNDUP(b) \div PGSIZE
                 IN [k \in 1 .. (IF to > from THEN to - from ELSE 0) |-> from + k - 1]

\* A PTE: no page, or one with or without PTE_U.
Ptes == {"none", "user", "kernel"}
NoDir == [dir |-> FALSE, ktab |-> FALSE, tab |-> [x \in 0 .. UPDES - 1 |-> FALSE],
          pte |-> [v \in VPages |-> "none"]]

panic(m, msg) == IF m.panic = "" THEN [m EXCEPT !.panic = msg] ELSE m
-----------------------------------------------------------------------------
(* kalloc.c *)

\* kinit1 and kinit2 free every page of their ranges.
kinit == [free |-> NPAGES, n |-> 0, fails |-> {}, untabled |-> FALSE, panic |-> ""]

\* r is whether there was a page.
kalloc(m) ==
    LET r == m.n + 1 \notin m.fails /\ m.free > 0
    IN [m |-> [m EXCEPT !.n = @ + 1, !.free = IF r THEN @ - 1 ELSE @], r |-> r]

kfree(m) == [m EXCEPT !.free = @ + 1]
-----------------------------------------------------------------------------
(* vm.c.  Results have the memory, the address space, and r. *)

\* walkpgdir with alloc: r is whether there is a page table for v now.
\* m.untabled remembers that a page table could not be had.
walkpgdir(m, d, v) ==
    LET new(k) == IF k.r THEN [m |-> k.m, d |-> [d EXCEPT !.tab[PDX(v)] = TRUE], r |-> TRUE]
                  ELSE [m |-> [k.m EXCEPT !.untabled = TRUE], d |-> d, r |-> FALSE]
    IN IF d.tab[PDX(v)] THEN [m |-> m, d |-> d, r |-> TRUE] ELSE new(kalloc(m))
mapped(d, v) == d.tab[PDX(v)]   \* walkpgdir without alloc

mappages(m, d, v, pte) ==
    LET set(w) == IF ~w.r THEN w
                  ELSE IF w.d.pte[v] # "none" THEN [w EXCEPT !.m = panic(@, "remap")]
                  ELSE [w EXCEPT !.d.pte[v] = pte]
    IN set(walkpgdir(m, d, v))

\* The kernel part: when its page table fails, the directory is not freed.
setupkvm(m) ==
    LET full(tab) == IF tab.r THEN [m |-> tab.m, d |-> [NoDir EXCEPT !.dir = TRUE, !.ktab = TRUE]]
                     ELSE [m |-> [tab.m EXCEPT !.untabled = TRUE], d |-> NoDir]
        empty(dir) == IF dir.r THEN full(kalloc(dir.m)) ELSE [m |-> dir.m, d |-> NoDir]
    IN empty(kalloc(m))

RECURSIVE dealloc_from(_, _, _, _)
dealloc_from(m, d, v, oldsz) ==
    IF v * PGSIZE >= oldsz THEN [m |-> m, d |-> d]
    ELSE IF ~mapped(d, v) THEN dealloc_from(m, d, v + NPTENTRIES, oldsz)
    ELSE IF d.pte[v] = "none" THEN dealloc_from(m, d, v + 1, oldsz)
    ELSE dealloc_from(kfree(m), [d EXCEPT !.pte[v] = "none"], v + 1, oldsz)

deallocuvm(m, d, oldsz, newsz) ==
    IF newsz >= oldsz THEN [m |-> m, d |-> d, r |-> oldsz]
    ELSE dealloc_from(m, d, PGROUNDUP(newsz) \div PGSIZE, oldsz) @@ [r |-> newsz]

\* When kalloc fails, what is there already goes; mappages' result is not
\* looked at.
Bug_undo_alloc(t, oldsz, newsz) == [t EXCEPT !.r = 0]
undo_alloc(t, oldsz, newsz) == [deallocuvm(t.m, t.d, newsz, oldsz) EXCEPT !.r = 0]

allocuvm(m, d, oldsz, newsz) ==
    LET map(t, v, k) == IF k.r THEN [mappages(k.m, t.d, v, "user") EXCEPT !.r = newsz]
                        ELSE [t EXCEPT !.m = k.m, !.r = 0]
        page(t, v) == IF t.r = 0 THEN t ELSE map(t, v, kalloc(t.m))
        checked(t) == IF t.r = 0 /\ newsz # 0 THEN undo_alloc(t, oldsz, newsz) ELSE t
    IN IF newsz >= KERNBASE THEN [m |-> m, d |-> d, r |-> 0]
       ELSE IF newsz < oldsz THEN [m |-> m, d |-> d, r |-> oldsz]
       ELSE checked(FoldLeft(page, [m |-> m, d |-> d, r |-> newsz], PagesIn(oldsz, newsz)))

freevm(m, d) ==
    LET tabs == Cardinality({x \in DOMAIN d.tab : d.tab[x]}) + 2   \* with ktab and pgdir itself
    IN IF d = NoDir THEN panic(m, "freevm: no pgdir")
       ELSE [deallocuvm(m, d, KERNBASE, 0).m EXCEPT !.free = @ + tabs]

copyuvm(m, d, sz) ==
    LET map(t, v, k) == IF k.r THEN mappages(k.m, t.d, v, d.pte[v])
                        ELSE [t EXCEPT !.m = k.m, !.r = FALSE]
        page(t, v) ==
            IF ~t.r THEN t
            ELSE IF ~mapped(d, v) THEN [t EXCEPT !.m = panic(@, "copyuvm: pte should exist")]
            ELSE IF d.pte[v] = "none" THEN [t EXCEPT !.m = panic(@, "copyuvm: page not present")]
            ELSE map(t, v, kalloc(t.m))
        checked(t) == IF t.r THEN [m |-> t.m, d |-> t.d] ELSE [m |-> freevm(t.m, t.d), d |-> NoDir]
        copy(new) == IF new.d = NoDir THEN new
                     ELSE checked(FoldLeft(page, new @@ [r |-> TRUE], PagesIn(0, sz)))
    IN copy(setupkvm(m))

\* ok: the file has the bytes.
loaduvm(m, d, vaddr, filesz, ok) ==
    LET missing == {v \in VPages : v * PGSIZE \in vaddr .. vaddr + filesz - 1 /\ ~mapped(d, v)}
    IN IF vaddr % PGSIZE # 0 THEN [m |-> panic(m, "loaduvm: addr must be page aligned"), r |-> FALSE]
       ELSE IF missing # {} THEN [m |-> panic(m, "loaduvm: address should exist"), r |-> FALSE]
       ELSE [m |-> m, r |-> ok]

clearpteu(m, d, va) ==
    LET v == va \div PGSIZE
    IN IF ~mapped(d, v) THEN [m |-> panic(m, "clearpteu"), d |-> d]
       ELSE [m |-> m, d |-> [d EXCEPT !.pte[v] = IF @ = "none" THEN @ ELSE "kernel"]]

inituvm(m, d) == mappages(kalloc(m).m, d, 0, "user")
=============================================================================
