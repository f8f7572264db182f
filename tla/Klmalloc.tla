------------------------------ MODULE Klmalloc -------------------------------
(***************************************************************************)
(* The allocator of src/klmalloc/klmalloc.c: blocks from the system, cut   *)
(* into bricks of one size or into chunks with boundary tags, bins of free *)
(* chunks, lists of brick blocks with room, a stack of undesignated        *)
(* blocks.  Every operation runs under mem->lock, so a call is one step    *)
(* (realloc's malloc and free are two critical sections, whose states in   *)
(* between are those of a malloc and a free).                              *)
(*                                                                         *)
(* An address is <<block, offset>>, the offset counted from the first      *)
(* chunk; a brick is <<block, index>>.  The heap is one record m:          *)
(*   m.blk[b]        what the block is used for                            *)
(*   m.bins, m.bricks, m.undes, m.total    the fields of struct kl_mem     *)
(***************************************************************************)
EXTENDS KlBins, Sequences, FiniteSets, FiniteSetsExt, SequencesExt, TLC

CONSTANTS Blocks,         \* blocks the system can give
          FIXED_MAX_SIZE, \* bytes for chunks or bricks in a default block
          UNDES_BIN_NUM,
          Sizes,          \* sizes the application asks for
          MaxLive,        \* bound on the objects it holds
          SysFails,       \* may the system be out of memory?
          Footers         \* may realloc leave an object on its footer?

ASSUME KlAssumption ==
  /\ FIXED_MAX_SIZE \in Nat /\ FIXED_MAX_SIZE % MEMORY_ALLOCATION_ALIGNMENT = 0
  /\ FIXED_MAX_SIZE >= 2 * KL_BRICK_SIZE(BRICK_MAX_SIZE)
  /\ UNDES_BIN_NUM \in Nat /\ MaxLive \in Nat
  /\ SysFails \in BOOLEAN /\ Footers \in BOOLEAN

BLOCK_DEFAULT_SIZE == FIXED_MAX_SIZE + BLOCK_OVERHEAD
Bins == 0 .. KL_SIZE2BIN(FIXED_MAX_SIZE)
BrickBins == 0 .. KL_G_BRICKBIN(BRICK_MAX_SIZE)
NULL == "NULL"
Junk == -1   \* a footer the application or memcpy wrote over

VARIABLES enabled,  \* _mem_.enabled
          m,        \* the rest of _mem_ and the blocks
          live,     \* the application's objects: address -> size asked for
          held,     \* how many objects it was given and did not free
          failed    \* has an assertion failed, or a null pointer been followed?

vars == <<enabled, m, live, held, failed>>

SysBlock == [kind |-> "sys", size |-> 0]
UndesBlock == [kind |-> "undes", size |-> BLOCK_DEFAULT_SIZE]

MaxBricks(bidx) == FIXED_MAX_SIZE \div ((bidx + 1) * MEMORY_ALLOCATION_ALIGNMENT)
Available(h) == {b \in Blocks : h.blk[b].kind = "sys"}

\* kl_mem_init: everything is forgotten.
kl_mem_init(h) ==
  [h EXCEPT !.init = 1, !.total = 0, !.undes = <<>>,
            !.bins = [i \in Bins |-> <<>>], !.bricks = [i \in BrickBins |-> <<>>]]

Init ==
  /\ enabled = "OFF"
  /\ m = [init |-> 0, total |-> 0, undes |-> <<>>, blk |-> [b \in Blocks |-> SysBlock],
          bins |-> [i \in Bins |-> <<>>], bricks |-> [i \in BrickBins |-> <<>>]]
  /\ live = <<>> /\ held = 0
  /\ failed = FALSE

(***************************************************************************)
(* Blocks.                                                                 *)
(***************************************************************************)
kl_block_alloc(h, b, size) ==
  [h EXCEPT !.blk[b] = [kind |-> "fresh", size |-> size], !.total = @ + size]

CALL_SYS_FREE(h, b) == [h EXCEPT !.blk[b] = SysBlock]

\* A block for chunks or bricks: the top of the undesignated stack, or a new
\* one (b, NULL when the system has none).
Designated(h, b) == IF h.undes # <<>> THEN Last(h.undes) ELSE b
Designate(h, b) ==
  IF h.undes # <<>> THEN [h EXCEPT !.undes = Front(@)]
  ELSE kl_block_alloc(h, b, BLOCK_DEFAULT_SIZE)

\* An empty block goes to the stack if it has the default size and there is
\* room, or else back to the system.
Retire(h, b) ==
  IF Len(h.undes) < UNDES_BIN_NUM /\ h.blk[b].size = BLOCK_DEFAULT_SIZE
  THEN [h EXCEPT !.undes = Append(@, b), !.blk[b] = UndesBlock]
  ELSE CALL_SYS_FREE([h EXCEPT !.total = @ - h.blk[b].size], b)

(***************************************************************************)
(* Bricks.  freed is the list of bricks that were used and freed, fresh    *)
(* the first that never was: its header is 0 and it is the list's end.     *)
(***************************************************************************)
Unlinked(list, b) == SelectSeq(list, LAMBDA c : c # b)

kl_brick_put(h, a) ==
  LET b == a[1]  blk == h.blk[b]
      h1 == [h EXCEPT !.blk[b].count = @ + 1]
  IN  IF blk.count + 1 = MaxBricks(blk.bidx)
      THEN Retire([h1 EXCEPT !.bricks[blk.bidx] = Unlinked(@, b)], b)
      ELSE [h1 EXCEPT !.blk[b].freed = <<a[2]>> \o @,
                      !.bricks[blk.bidx] = IF Contains(@, b) THEN @ ELSE <<b>> \o @]

\* The next pointer of an 8-byte brick (malloc(0)) is the header of the brick
\* behind it, which is set to 0: the block's list is empty after one brick.
HeadIsNull(blk) == blk.freed = <<>> /\ blk.fresh = MaxBricks(blk.bidx)

\* Is a block needed, and the heap with the brick block to use first in its bin.
NeedsBrickBlock(h, bidx) == h.bricks[bidx] = <<>> \/ HeadIsNull(h.blk[h.bricks[bidx][1]])
WithBrickBlock(h, bidx, b) ==
  IF ~ NeedsBrickBlock(h, bidx) THEN h
  ELSE LET d == Designated(h, b)
       IN  [Designate(h, b) EXCEPT
              !.blk[d] = [kind |-> "brick", size |-> BLOCK_DEFAULT_SIZE, bidx |-> bidx,
                          count |-> MaxBricks(bidx), freed |-> <<>>, fresh |-> 0],
              !.bricks[bidx] = <<d>> \o @]

\* The brick taken, and the heap without it.
kl_brick_get(h, size, b) ==
  LET bidx == KL_G_BRICKBIN(size)
      h1 == WithBrickBlock(h, bidx, b)
      d == h1.bricks[bidx][1]
      blk == h1.blk[d]
      left == blk.count - 1
      bins == IF left = 0 THEN Tail(h1.bricks[bidx]) ELSE h1.bricks[bidx]
  IN  IF blk.freed # <<>>
      THEN [a |-> <<d, blk.freed[1]>>,
            h |-> [h1 EXCEPT !.blk[d].count = left, !.blk[d].freed = Tail(@),
                             !.bricks[bidx] = bins]]
      ELSE [a |-> <<d, blk.fresh>>,
            h |-> [h1 EXCEPT !.blk[d].count = left,
                             !.blk[d].fresh = IF bidx = 0 THEN MaxBricks(0) ELSE @ + 1,
                             !.bricks[bidx] = bins]]

(***************************************************************************)
(* Chunks: m.blk[b].ch maps the offset of each to its header (the size)    *)
(* and its footer (0 in use, the size when free).                          *)
(***************************************************************************)
Capacity(h, b) == h.blk[b].size - BLOCK_OVERHEAD

kl_chunk_del(h, a) ==
  LET s == h.blk[a[1]].ch[a[2]].hdr
  IN  [h EXCEPT !.bins[PutBin(s)] = Unlinked(@, a)]

\* The chunk before o, found through its footer, and the one behind, if free.
FreeBefore(ch, o) == {p \in DOMAIN ch : p + ch[p].hdr = o /\ ch[p].ftr # 0}
FreeAfterNever(ch, o) == {}  \* mutant: no coalescing with the chunk behind
FreeAfter(ch, o) == {n \in DOMAIN ch : n = o + ch[o].hdr /\ ch[n].ftr # 0}

kl_chunk_put(h, a) ==
  LET b == a[1]  o == a[2]  ch == h.blk[b].ch
      near == FreeBefore(ch, o) \cup FreeAfter(ch, o)
      start == Min(FreeBefore(ch, o) \cup {o})
      size == MapThenSumSet(LAMBDA x : ch[x].hdr, near \cup {o})
      h1 == FoldSet(LAMBDA x, g : kl_chunk_del(g, <<b, x>>), h, near)
  IN  IF start = 0 /\ size = Capacity(h, b) THEN Retire(h1, b)
      ELSE [h1 EXCEPT
              !.blk[b].ch = [x \in ((DOMAIN ch) \ (near \cup {o})) \cup {start} |->
                               IF x = start THEN [hdr |-> size, ftr |-> size] ELSE ch[x]],
              !.bins[PutBin(size)] = <<<<b, start>>>> \o @]

\* The bins a request for a chunk of size s looks through that have a chunk.
Fitting(h, s) == {i \in Bins : i >= KL_SIZE2BIN(s) /\ h.bins[i] # <<>>}

\* The heap with a chunk at hand for the request, and that chunk.
WithChunk(h, s, b) ==
  IF Fitting(h, s) # {}
  THEN LET i == Min(Fitting(h, s))
       IN  [a |-> h.bins[i][1], h |-> [h EXCEPT !.bins[i] = Tail(@)]]
  ELSE LET d == Designated(h, b)
       IN  [a |-> <<d, 0>>,
            h |-> [Designate(h, b) EXCEPT
                     !.blk[d] = [kind |-> "chunk", size |-> BLOCK_DEFAULT_SIZE,
                                 ch |-> 0 :> [hdr |-> FIXED_MAX_SIZE, ftr |-> FIXED_MAX_SIZE]]]]

Splits(have, s) == have > CHUNK_MIN_SIZE /\ s <= have - CHUNK_MIN_SIZE

\* A chunk taken whole is marked as in use.
Taken(h, a) == [h EXCEPT !.blk[a[1]].ch[a[2]].ftr = 0]

kl_chunk_get(h, size, b) ==
  LET s == KL_CHUNK_SIZE(size)
      w == WithChunk(h, s, b)
      d == w.a[1]  o == w.a[2]
      have == w.h.blk[d].ch[o].hdr
      rest == [hdr |-> have - s, ftr |-> have - s]
  IN  [a |-> w.a,
       h |-> IF Splits(have, s)
             THEN kl_chunk_put([w.h EXCEPT !.blk[d].ch = ((o + s) :> rest)
                                                @@ [@ EXCEPT ![o] = [hdr |-> s, ftr |-> 0]]],
                               <<d, o + s>>)
             ELSE Taken(w.h, w.a)]

\* A block of its own for one chunk (kl_chunk_hdr fills it in).
kl_chunk_hdr(h, b, size) ==
  [h EXCEPT !.blk[b] = [kind |-> "chunk", size |-> KL_BLOCK_SIZE(KL_CHUNK_SIZE(size)),
                        ch |-> 0 :> [hdr |-> KL_CHUNK_SIZE(size), ftr |-> 0]]]

kl_chunk_solo(h, size, b) ==
  [a |-> <<b, 0>>,
   h |-> kl_chunk_hdr(kl_block_alloc(h, b, KL_BLOCK_SIZE(KL_CHUNK_SIZE(size))), b, size)]

(***************************************************************************)
(* The interface.                                                          *)
(***************************************************************************)
KL_G_SIZE(h, a) ==
  LET blk == h.blk[a[1]]
  IN  IF blk.kind = "brick" THEN (blk.bidx + 1) * MEMORY_ALLOCATION_ALIGNMENT
      ELSE blk.ch[a[2]].hdr

\* Which of its three ways a malloc takes; "abort" when an assertion of
\* kl_chunk_solo or KL_malloc fails or the null pointer is looked at.
Way(h, size, b) ==
  LET s == KL_CHUNK_SIZE(size)
      block == h.undes # <<>> \/ b # NULL
  IN  CASE size <= BRICK_MAX_SIZE
             /\ (~ NeedsBrickBlock(h, KL_G_BRICKBIN(size)) \/ block) -> "brick"
        [] s <= FIXED_MAX_SIZE /\ (Fitting(h, s) # {} \/ block) -> "chunk"
        [] s > FIXED_MAX_SIZE /\ size > FIXED_MAX_SIZE /\ b # NULL -> "solo"
        [] OTHER -> "abort"

KL_malloc(h, size, b) ==
  CASE Way(h, size, b) = "brick" -> kl_brick_get(h, size, b)
    [] Way(h, size, b) = "chunk" -> kl_chunk_get(h, size, b)
    [] Way(h, size, b) = "solo" -> kl_chunk_solo(h, size, b)

KL_free(h, a) ==
  IF h.blk[a[1]].kind = "brick" THEN kl_brick_put(h, a) ELSE kl_chunk_put(h, a)

\* Bytes from the object's start to the chunk's footer or the brick's end.
Room(h, a) ==
  KL_G_SIZE(h, a) - WORD * (IF h.blk[a[1]].kind = "brick" THEN 1 ELSE 2)

\* n bytes are written from the start of the object.
Written(h, a, n) ==
  IF n <= Room(h, a) \/ h.blk[a[1]].kind = "brick" THEN h
  ELSE [h EXCEPT !.blk[a[1]].ch[a[2]].ftr = Junk]

Running == ~ failed /\ enabled = "ON"
Fail == failed' = TRUE /\ UNCHANGED <<enabled, m, live, held>>

\* What the system has for the call: a block if the call needs one, NULL if it
\* needs none or the system is out of memory.
NeedsBlock(size) == Way(m, size, NULL) # IF size <= BRICK_MAX_SIZE THEN "brick" ELSE "chunk"
Offered(size, b) ==
  IF b = NULL THEN SysFails \/ ~ NeedsBlock(size)
  ELSE NeedsBlock(size) /\ b \in Available(m)

\* The application fills the objects it is given.  KL_calloc is this and a
\* memset of the object.
Malloc(size, b) ==
  /\ Running
  /\ Cardinality(DOMAIN live) < MaxLive
  /\ Offered(size, b)
  /\ IF Way(m, size, b) = "abort" THEN Fail
     ELSE LET r == KL_malloc(m, size, b)
          IN  /\ m' = Written(r.h, r.a, size)
              /\ live' = (r.a :> size) @@ live
              /\ held' = held + 1
              /\ UNCHANGED <<enabled, failed>>

\* kl_chunk_put asserts that the chunk can hold a free chunk's links.
Free(a) ==
  /\ Running
  /\ IF m.blk[a[1]].kind = "chunk" /\ KL_G_SIZE(m, a) < CHUNK_MIN_SIZE THEN Fail
     ELSE /\ m' = KL_free(m, a)
          /\ live' = [x \in (DOMAIN live) \ {a} |-> live[x]]
          /\ held' = held - 1
          /\ UNCHANGED <<enabled, failed>>

\* The object is large enough as it is.
InPlace(h, a, size) ==
  KL_BRICK_SIZE(size) <= KL_G_SIZE(h, a) \/ KL_CHUNK_SIZE(size) <= KL_G_SIZE(h, a)

ReallocInPlace(a, size) ==
  /\ Running
  /\ InPlace(m, a, size)
  /\ Footers \/ size <= Room(m, a)
  /\ m' = Written(m, a, size)
  /\ live' = [live EXCEPT ![a] = size]
  /\ UNCHANGED <<enabled, held, failed>>

\* A block of one chunk is grown by the system (sbma_realloc).
ReallocBlock(a, size) ==
  LET h == kl_chunk_hdr(m, a[1], size)
  IN  /\ Running
      /\ ~ InPlace(m, a, size)
      /\ KL_G_SIZE(m, a) > FIXED_MAX_SIZE
      /\ m' = [h EXCEPT !.total = @ + h.blk[a[1]].size - m.blk[a[1]].size]
      /\ live' = [live EXCEPT ![a] = size]
      /\ UNCHANGED <<enabled, held, failed>>

\* A new object, a copy and a free.  A block of one chunk, which the system
\* could not grow, is remapped to the new one (sbma_remap) and freed; else
\* memcpy copies as many bytes as the old chunk has, header and footer
\* included.  What realloc asserts of the new object is checked last.
ReallocMove(a, size, b) ==
  LET r == KL_malloc(m, size, b)
      osize == KL_G_SIZE(m, a)
  IN  /\ Running
      /\ ~ InPlace(m, a, size)
      /\ Offered(size, b)
      /\ IF \/ Way(m, size, b) = "abort"
            \/ (size <= BRICK_MAX_SIZE) # (Way(m, size, b) = "brick")
            \/ osize > KL_G_SIZE(r.h, r.a)
         THEN Fail
         ELSE /\ m' = IF osize > FIXED_MAX_SIZE
                      THEN CALL_SYS_FREE([r.h EXCEPT !.total = @ - KL_BLOCK_SIZE(osize)], a[1])
                      ELSE KL_free(Written(r.h, r.a, IF osize > size THEN osize ELSE size), a)
              /\ live' = (r.a :> size) @@ [x \in (DOMAIN live) \ {a} |-> live[x]]
              /\ UNCHANGED <<enabled, held, failed>>

\* KL_mallopt(M_ENABLED, ...).  The application turns the allocator off when it
\* holds no object, and frees none while it is paused.
MalloptOn ==
  /\ ~ failed /\ enabled # "ON"
  /\ enabled' = "ON"
  /\ m' = IF m.init = 1 THEN m ELSE kl_mem_init(m)
  /\ UNCHANGED <<live, held, failed>>

\* Mutant of MalloptOff: the undesignated blocks are kept.
MalloptOffKeeps ==
  /\ ~ failed /\ enabled # "OFF"
  /\ live = <<>>
  /\ enabled' = "OFF"
  /\ m' = [m EXCEPT !.init = 0]
  /\ UNCHANGED <<live, held, failed>>

MalloptOff ==
  /\ ~ failed /\ enabled # "OFF"
  /\ live = <<>>
  /\ enabled' = "OFF"
  /\ m' = IF m.init = 0 THEN m
          ELSE [FoldSet(LAMBDA b, h : CALL_SYS_FREE(h, b), m, Range(m.undes))
                  EXCEPT !.total = @ - Len(m.undes) * BLOCK_DEFAULT_SIZE, !.init = 0]
  /\ UNCHANGED <<live, held, failed>>

MalloptPause ==
  /\ ~ failed /\ enabled # "PAUSE"
  /\ enabled' = "PAUSE"
  /\ UNCHANGED <<m, live, held, failed>>

Next ==
  \/ MalloptOn \/ MalloptOff \/ MalloptPause
  \/ \E size \in Sizes, b \in Blocks \cup {NULL} : Malloc(size, b)
  \/ \E a \in DOMAIN live :
       \/ Free(a)
       \/ \E size \in Sizes :
            \/ ReallocInPlace(a, size)
            \/ ReallocBlock(a, size)
            \/ \E b \in Blocks \cup {NULL} : ReallocMove(a, size, b)

Spec == Init /\ [][Next]_vars

Symmetry == Permutations(Blocks)

(***************************************************************************)
(* Properties.                                                             *)
(***************************************************************************)
Held == {b \in Blocks : m.blk[b].kind # "sys"}
ChunkBlocks == {b \in Blocks : m.blk[b].kind = "chunk"}
BrickBlocks == {b \in Blocks : m.blk[b].kind = "brick"}

TypeOK ==
  /\ enabled \in {"ON", "OFF", "PAUSE"}
  /\ m.init \in {0, 1} /\ m.total \in Nat
  /\ m.undes \in Seq(Blocks) /\ Len(m.undes) <= UNDES_BIN_NUM
  /\ \A b \in Blocks : m.blk[b].kind \in {"sys", "undes", "chunk", "brick"}
  /\ DOMAIN live \subseteq Blocks \X Nat /\ Range(live) \subseteq Sizes
  /\ held \in 0 .. MaxLive
  /\ failed \in BOOLEAN

\* "The calloc, malloc and realloc functions ...": whatever was split, merged,
\* designated and reused before, an object never overlaps another and its place
\* is given out once.  An object's bytes are those from its header on.
Extent(a) ==
  LET unit == IF m.blk[a[1]].kind = "brick" THEN KL_G_SIZE(m, a) ELSE 1
  IN  [place |-> a[1], lo |-> a[2] * unit, hi |-> a[2] * unit + WORD + live[a]]
Heap == INSTANCE AppHeap WITH objs <- {Extent(a) : a \in DOMAIN live}
ImplementsHeap == Heap!HSpec

\* The chunks of a block follow one another from its first byte to its last,
\* each aligned and large enough for a free chunk's links, and no two free
\* ones are neighbours.
Tiled ==
  \A b \in ChunkBlocks :
    LET ch == m.blk[b].ch
        end(o) == o + ch[o].hdr
    IN  /\ 0 \in DOMAIN ch
        /\ \A o \in DOMAIN ch :
             /\ ch[o].hdr >= CHUNK_MIN_SIZE /\ o % MEMORY_ALLOCATION_ALIGNMENT = 0
             /\ end(o) = Capacity(m, b) \/ end(o) \in DOMAIN ch
             /\ \A p \in DOMAIN ch : p < o => end(p) <= o
             /\ (ch[o].ftr # 0 /\ end(o) \in DOMAIN ch) => ch[end(o)].ftr = 0

\* The free chunks are exactly those in the bins, each once and in the bin
\* where kl_chunk_del will look for it.
Binned ==
  /\ \A b \in ChunkBlocks, o \in UNION {DOMAIN m.blk[c].ch : c \in ChunkBlocks} :
       o \in DOMAIN m.blk[b].ch =>
         \A i \in Bins :
           Cardinality({j \in DOMAIN m.bins[i] : m.bins[i][j] = <<b, o>>}) =
             IF m.blk[b].ch[o].ftr # 0 /\ i = PutBin(m.blk[b].ch[o].hdr) THEN 1 ELSE 0
  /\ \A i \in Bins : \A a \in Range(m.bins[i]) :
       a[1] \in ChunkBlocks /\ a[2] \in DOMAIN m.blk[a[1]].ch

\* The count in the header of a brick block is the number of its bricks that
\* the application does not hold, which are all on the block's list (but for
\* 8-byte bricks), and the block is in its bin's list as long as it has one.
Bricked ==
  \A b \in BrickBlocks :
    LET blk == m.blk[b]
        taken == {a[2] : a \in {x \in DOMAIN live : x[1] = b}}
        free == Range(blk.freed) \cup blk.fresh .. MaxBricks(blk.bidx) - 1
    IN  /\ blk.count = MaxBricks(blk.bidx) - Cardinality(taken)
        /\ taken \cap free = {} /\ IsInjective(blk.freed)
        /\ blk.bidx # 0 => Cardinality(free) = blk.count
        /\ taken # {}
        /\ Cardinality({j \in DOMAIN m.bricks[blk.bidx] : m.bricks[blk.bidx][j] = b}) =
             IF blk.count > 0 THEN 1 ELSE 0

\* "When a memory chunk is active, the final size_t shall contain the value 0"
\* (klmalloc.c:569), and an active chunk is one the application holds.
ActiveFooter ==
  \A b \in ChunkBlocks : \A o \in DOMAIN m.blk[b].ch :
    <<b, o>> \in DOMAIN live <=> m.blk[b].ch[o].ftr = 0

\* mem_total is what the blocks held from the system amount to, and
\* the keepcost of KL_mallinfo, num_undes default blocks, is part of it (while
\* the allocator is on: kl_mem_destroy leaves num_undes as it was).
TotalExact ==
  /\ m.total = MapThenSumSet(LAMBDA b : m.blk[b].size, Held)
  /\ m.init = 1 => /\ {b \in Blocks : m.blk[b].kind = "undes"} = Range(m.undes)
                   /\ IsInjective(m.undes)

\* An application that freed its objects leaves nothing behind but undesignated
\* blocks, and those go back to the system when the allocator is turned off.
NothingKept ==
  live = <<>> =>
    /\ Held = IF m.init = 1 THEN Range(m.undes) ELSE {}
    /\ \A i \in Bins : m.bins[i] = <<>>
    /\ \A i \in BrickBins : m.bricks[i] = <<>>

\* "If the space cannot be allocated, a null pointer is returned"
\* (klmalloc.c:51): no call ends in an assertion or a null dereference.  The code
\* breaks it when the system is out of memory (SysFails), and for a size up to
\* FIXED_MAX_SIZE whose chunk is larger (137 to 152 here).
NoAbort == ~ failed

\* What KL_free and KL_malloc rely on when they step from a chunk or a brick to
\* its neighbours and lists: the chunks tile their block, footers tell free
\* from used, and free space is where the next request looks for it.
BlocksSound == TypeOK /\ Tiled /\ ActiveFooter /\ Binned /\ Bricked

\* No block is lost: what mem_total counts is held, and what the application
\* has freed goes back to the system.
Returned == TotalExact /\ NothingKept

==============================================================================
