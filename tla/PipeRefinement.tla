--------------------------- MODULE PipeRefinement ---------------------------
(***************************************************************************)
(* A pipe implements ByteStream: a bounded queue of bytes with two ends,   *)
(* for any PIPESIZE and any width W of the counters that it divides.       *)
(***************************************************************************)
EXTENDS PipeProof, Integers

\* The pipe never holds more than its buffer does.
Bounded == Fill <= PIPESIZE

\* The inductive invariant of the refinement.
RInv == IInv /\ Bounded

\* The pipe's ring buffer.
Ring == INSTANCE RingBuffer WITH P <- PIPESIZE
-----------------------------------------------------------------------------
(* The ring buffer's facts, for a pipe *)

\* The buffer has the shape that RingBuffer asks for.
LEMMA PipeShape == PIPESIZE \in Nat \ {0} /\ W \in Nat /\ W > PIPESIZE /\ W % PIPESIZE = 0
BY PipeAssumption

\* The contents are the span from nread to nwrite.
LEMMA ContentsAre ==
    /\ Contents = Ring!Span(data, nread, nwrite) /\ Fill = Ring!Dist(nread, nwrite)
    /\ Contents' = Ring!Span(data', nread', nwrite') /\ Fill' = Ring!Dist(nread', nwrite')
BY DEF Contents, Fill, slot, Ring!Span, Ring!Dist, Ring!Slot

\* The fill is nwrite - nread in uint arithmetic; the tests of pipewrite and
\* piperead find a full and an empty buffer.
LEMMA FillIs ==
    ASSUME NEW r \in 0 .. W - 1, NEW w \in 0 .. W - 1
    PROVE  /\ Ring!Dist(r, w) \in 0 .. W - 1
           /\ w = (r + PIPESIZE) % W <=> Ring!Dist(r, w) = PIPESIZE
           /\ r = w <=> Ring!Dist(r, w) = 0
<1>1. Ring!Dist(r, w) \in 0 .. W - 1
  BY PipeShape, Ring!DistIs DEF Ring!Shape
<1>2. (w = (r + PIPESIZE) % W <=> Ring!Dist(r, w) = PIPESIZE) /\ (r = w <=> Ring!Dist(r, w) = 0)
  BY PipeShape, Ring!FullIs DEF Ring!Shape
<1>. QED BY <1>1, <1>2

\* pipewrite's byte goes to the end of the stream.
LEMMA PutAppends ==
    ASSUME NEW d \in [0 .. PIPESIZE - 1 -> Bytes], NEW v \in Bytes,
           NEW r \in 0 .. W - 1, NEW w \in 0 .. W - 1, Ring!Dist(r, w) < PIPESIZE
    PROVE  /\ Len(Ring!Span(d, r, w)) < PIPESIZE
           /\ Ring!Span([d EXCEPT ![slot(w)] = v], r, incr(w)) = Append(Ring!Span(d, r, w), v)
           /\ Ring!Dist(r, incr(w)) <= PIPESIZE
BY PipeShape, Ring!PutAppends DEF Ring!Shape, Ring!Divides, Ring!Slot, Ring!Succ, slot, incr

\* piperead's byte comes from the front of the stream.
LEMMA GetTakes ==
    ASSUME NEW d \in [0 .. PIPESIZE - 1 -> Bytes],
           NEW r \in 0 .. W - 1, NEW w \in 0 .. W - 1, r # w
    PROVE  /\ Ring!Span(d, r, w) # <<>>
           /\ Ring!Span(d, incr(r), w) = Tail(Ring!Span(d, r, w))
           /\ Ring!Dist(incr(r), w) <= Ring!Dist(r, w)
BY PipeShape, Ring!GetTakes DEF Ring!Shape, Ring!Succ, incr

\* Counters that are equal make an empty stream: a new pipe, for instance.
LEMMA EmptyContents ==
    ASSUME NEW d, NEW r \in 0 .. W - 1
    PROVE  Ring!Span(d, r, r) = <<>> /\ Ring!Dist(r, r) = 0
<1>1. Ring!Dist(r, r) = 0
  BY FillIs
<1>. QED BY <1>1 DEF Ring!Span
-----------------------------------------------------------------------------
(* The simulation *)

\* A step that leaves struct pipe alone is a stutter of the stream.
LEMMA QuietMaps ==
    ASSUME RInv, UNCHANGED pipe
    PROVE  Bounded' /\ UNCHANGED Stream!svars
<1>1. UNCHANGED <<data, nread, nwrite, readopen, writeopen>>
  BY DEF pipe
<1>. QED BY <1>1, ContentsAre DEF RInv, Bounded, Stream!svars

\* pipewrite's byte is SPut, by a writer whose end is open.
LEMMA WriteMaps ==
    ASSUME RInv, NEW p \in Procs, NEW v \in Bytes, pipewrite_byte(p, v)
    PROVE  Bounded' /\ Stream!SPut(v)
<1>1. /\ data \in [0 .. PIPESIZE - 1 -> Bytes]
      /\ nread \in 0 .. W - 1 /\ nwrite \in 0 .. W - 1
  BY DEF RInv, IInv, TypeOK
<1>2. Ring!Dist(nread, nwrite) < PIPESIZE
  <2>1. Ring!Dist(nread, nwrite) <= PIPESIZE
    BY ContentsAre DEF RInv, Bounded
  <2>2. Ring!Dist(nread, nwrite) # PIPESIZE
    BY <1>1, FillIs DEF pipewrite_byte, full
  <2>3. Ring!Dist(nread, nwrite) \in 0 .. W - 1
    BY <1>1, FillIs
  <2>. QED BY <2>1, <2>2, <2>3, PipeAssumption
<1>3. /\ data' = [data EXCEPT ![slot(nwrite)] = v] /\ nread' = nread /\ nwrite' = incr(nwrite)
      /\ UNCHANGED <<readopen, writeopen>>
  BY DEF pipewrite_byte
<1>4. writeopen
  BY DEF pipewrite_byte, RInv, IInv, Descriptors
<1>5. Len(Contents) < PIPESIZE /\ Contents' = Append(Contents, v) /\ Fill' <= PIPESIZE
  BY <1>1, <1>2, <1>3, PutAppends, ContentsAre
<1>. QED BY <1>3, <1>4, <1>5 DEF Stream!SPut, Bounded

\* piperead's byte is SGet, by a reader whose end is open.
LEMMA ReadMaps ==
    ASSUME RInv, NEW p \in Procs, piperead_byte(p)
    PROVE  Bounded' /\ Stream!SGet
<1>1. /\ data \in [0 .. PIPESIZE - 1 -> Bytes]
      /\ nread \in 0 .. W - 1 /\ nwrite \in 0 .. W - 1 /\ nread # nwrite
  BY DEF RInv, IInv, TypeOK, piperead_byte, empty
<1>2. nread' = incr(nread) /\ UNCHANGED <<data, nwrite, readopen, writeopen>>
  BY DEF piperead_byte
<1>3. readopen
  BY DEF piperead_byte, RInv, IInv, Descriptors, Roles
<1>4. Contents # <<>> /\ Contents' = Tail(Contents) /\ Fill' <= Fill
  BY <1>1, <1>2, GetTakes, ContentsAre
<1>5. Fill' <= PIPESIZE
  <2>1. Fill \in 0 .. W - 1
    BY <1>1, FillIs, ContentsAre
  <2>2. incr(nread) \in 0 .. W - 1
    BY <1>1, IncrType
  <2>3. Fill' \in 0 .. W - 1
    BY <1>1, <1>2, <2>2, FillIs, ContentsAre
  <2>. QED BY <1>4, <2>1, <2>3, PipeAssumption DEF RInv, Bounded
<1>. QED BY <1>2, <1>3, <1>4, <1>5 DEF Stream!SGet, Bounded

\* A close shuts one end, or none as long as others share the descriptor.
LEMMA CloseMaps ==
    ASSUME RInv, NEW p \in Procs, close(p)
    PROVE  Bounded' /\ (Stream!SClose \/ UNCHANGED Stream!svars)
<1>1. /\ UNCHANGED <<data, nread, nwrite>>
      /\ writeopen' = (writeopen /\ ~(p \in Writers /\ last(p, Writers)))
      /\ readopen' = (readopen /\ ~(p \in Readers /\ last(p, Readers)))
  BY DEF close
<1>2. readopen \in BOOLEAN /\ writeopen \in BOOLEAN
  BY DEF RInv, IInv, TypeOK
<1>3. Contents' = Contents /\ Fill' = Fill
  BY <1>1, ContentsAre
<1>4. \/ UNCHANGED <<readopen, writeopen>>
      \/ writeopen /\ writeopen' = FALSE /\ UNCHANGED readopen
      \/ readopen /\ readopen' = FALSE /\ UNCHANGED writeopen
  BY <1>1, <1>2, PipeAssumption, Zenon DEF Procs
<1>5. Bounded'
  BY <1>3 DEF RInv, Bounded
<1>6. Stream!SClose \/ UNCHANGED Stream!svars
  BY <1>3, <1>4, Zenon DEF Stream!SClose, Stream!svars
<1>. QED BY <1>5, <1>6

\* pipealloc is SOpen.
LEMMA AllocMaps ==
    ASSUME RInv, pipealloc
    PROVE  Bounded' /\ Stream!SOpen
<1>1. nread' = 0 /\ nwrite' = 0 /\ readopen' = TRUE /\ writeopen' = TRUE /\ ~readopen /\ ~writeopen
  BY DEF pipealloc, Freed
<1>2. Contents' = <<>> /\ Fill' = 0
  BY <1>1, EmptyContents, ContentsAre, PipeAssumption
<1>. QED BY <1>1, <1>2, PipeAssumption DEF Stream!SOpen, Bounded

\* Every step of the pipe is a step of the stream or a stutter.
LEMMA NextMaps ==
    ASSUME RInv, [Next]_vars
    PROVE  Bounded' /\ [Stream!SNext]_(Stream!svars)
<1>1. CASE UNCHANGED pipe
  BY <1>1, QuietMaps
<1>2. ASSUME NEW p \in Procs, NEW v \in Bytes, pipewrite_byte(p, v)
      PROVE  Bounded' /\ Stream!SNext
  BY <1>2, WriteMaps DEF Stream!SNext
<1>3. ASSUME NEW p \in Procs, piperead_byte(p) PROVE Bounded' /\ Stream!SNext
  BY <1>3, ReadMaps DEF Stream!SNext
<1>4. ASSUME NEW p \in Procs, close(p) PROVE Bounded' /\ [Stream!SNext]_(Stream!svars)
  BY <1>4, CloseMaps DEF Stream!SNext
<1>5. CASE pipealloc
  BY <1>5, AllocMaps DEF Stream!SNext
<1>6. ASSUME NEW p \in Procs,
             (\E k \in 0 .. MaxN : Call(p, k)) \/ acquire(p) \/ sleep(p) \/ pipewrite_full(p)
             \/ pipewrite_done(p) \/ piperead_wait(p) \/ piperead_ready(p) \/ piperead_done(p) \/ kill(p)
      PROVE  UNCHANGED pipe
  BY <1>6 DEF Call, acquire, sleep, pipewrite_full, pipewrite_done, piperead_wait, piperead_ready,
              piperead_done, kill, return
<1>7. CASE UNCHANGED vars
  BY <1>1, <1>7 DEF vars
<1>. QED BY <1>1, <1>2, <1>3, <1>4, <1>5, <1>6, <1>7 DEF Next, Step

\* A pipe that is read and written by any number of processes, some of them
\* killed, is a first-in first-out queue of at most PIPESIZE bytes, however
\* often nread and nwrite wrap around.
THEOREM PipeImplementsByteStream == Spec => ImplementsByteStream
<1>1. Init => Bounded /\ Stream!SInit
  <2>. SUFFICES ASSUME Init PROVE Bounded /\ Stream!SInit
    OBVIOUS
  <2>1. Contents = <<>> /\ Fill = 0
    BY EmptyContents, ContentsAre, PipeAssumption DEF Init
  <2>. QED BY <2>1, PipeAssumption DEF Init, Bounded, Stream!SInit
<1>2. IInv /\ Bounded /\ [Next]_vars => Bounded' /\ [Stream!SNext]_(Stream!svars)
  BY NextMaps DEF RInv
<1>. QED BY <1>1, <1>2, Inductive, PTL DEF Spec, ImplementsByteStream, Stream!SSpec

\* Both halves of the promise: a queue of bytes, and an end of file that is
\* one.
THEOREM PipeIsByteStream == Spec => IsByteStream
BY PipeImplementsByteStream, EmptyMeansEOF, PTL DEF IsByteStream
=============================================================================
