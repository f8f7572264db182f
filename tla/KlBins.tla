------------------------------- MODULE KlBins --------------------------------
(***************************************************************************)
(* The arithmetic of src/klmalloc/klmalloc.c on a 64-bit machine: sizes    *)
(* with their overhead, and the bins of free chunks.  Sizes are bytes.     *)
(***************************************************************************)
EXTENDS Integers

WORD == 8                       \* sizeof(uintptr_t), sizeof(void*)
MEMORY_ALLOCATION_ALIGNMENT == 8
BLOCK_HEADER_ALIGN == 8
CHUNK_MIN_SIZE == 4 * WORD      \* sizeof(kl_chunk_t)
BRICK_MAX_SIZE == CHUNK_MIN_SIZE - 1
BLOCK_OVERHEAD == BLOCK_HEADER_ALIGN + 3 * WORD  \* BLOCK_DEFAULT_SIZE-FIXED_MAX_SIZE

KL_ALIGN(size) ==
  ((size + MEMORY_ALLOCATION_ALIGNMENT - 1) \div MEMORY_ALLOCATION_ALIGNMENT)
    * MEMORY_ALLOCATION_ALIGNMENT

KL_BLOCK_SIZE(size) == KL_ALIGN(BLOCK_OVERHEAD + size)
KL_BRICK_SIZE(size) == KL_ALIGN(WORD + size)
KL_CHUNK_SIZE(size) == KL_ALIGN(2 * WORD + size)

\* Mutant of KL_G_BRICKBIN: the brick's header is left out.
BrickBinNoHeader(size) ==
  IF size = 0 THEN 0 ELSE KL_ALIGN(size) \div MEMORY_ALLOCATION_ALIGNMENT - 1

KL_G_BRICKBIN(size) == KL_BRICK_SIZE(size) \div MEMORY_ALLOCATION_ALIGNMENT - 1

\* The first 20 entries of the tables; larger sizes are never in a block.
log2size == << 8, 8, 8, 8, 8, 8, 16, 16, 32, 32, 64, 64, 128, 128, 256, 256, 512, 512,
               1024, 1024 >>
log2off == << 0, 0, 0, 0, 0, 0, 8, 8, 20, 20, 44, 44, 92, 92, 188, 188, 380, 380,
              764, 764 >>

KLLOG2(v) == CHOOSE k \in 0 .. 19 : 2 ^ k <= v /\ v < 2 ^ (k + 1)

\* C's 0-based tables.
Log2Size(k) == log2size[k + 1]
Log2Off(k) == log2off[k + 1]
KLSQR(v) == v * v

\* The bin of the sizes of the range that starts above the square of
\* log2size[k - 1].  The mutant starts the range one byte early.
BinInRangeEarly(s, k) == Log2Off(k) + (s - KLSQR(Log2Size(k - 1))) \div Log2Size(k)
BinInRange(s, k) == Log2Off(k) + (s - (KLSQR(Log2Size(k - 1)) + 1)) \div Log2Size(k)

KL_SIZE2BIN(s) ==
  IF s <= 64 THEN (s - 1) \div 8
  ELSE LET k == KLLOG2(s - 1)
       IN  IF s >= KLSQR(Log2Size(k - 1)) + 1 THEN BinInRange(s, k) ELSE BinInRange(s, k - 1)

\* The table bin2size: steps of 8 up to 64, then of 16 up to 16^2, of 32 up to
\* 32^2 and so on up to 1024^2.
KL_BIN2SIZE(b) ==
  IF b < 8 THEN 8 * (b + 1)
  ELSE LET k == CHOOSE j \in {6, 8, 10, 12, 14, 16, 18} :
                  /\ Log2Off(j) <= b
                  /\ j = 18 \/ b < Log2Off(j + 2)
       IN  KLSQR(Log2Size(k - 1)) + Log2Size(k) * (b - Log2Off(k) + 1)

\* Where kl_chunk_put and kl_chunk_del look for a free chunk of size s: a bin
\* lower when the chunk is smaller than what its bin promises.
PutBin(s) ==
  LET b == KL_SIZE2BIN(s)
  IN  IF s < KL_BIN2SIZE(b) /\ b > 0 THEN b - 1 ELSE b

\* A request for a chunk of size s looks from the bin the macro gives it: every
\* chunk of that bin is large enough, and no smaller bin promises as much.
GetFits(s) ==
  LET b == KL_SIZE2BIN(s)
  IN  /\ KL_BIN2SIZE(b) >= s
      /\ b > 0 => KL_BIN2SIZE(b - 1) < s

\* A free chunk of size s is put into the last bin whose promise it keeps, so
\* that a request misses no chunk by more than the width of a bin.
PutFits(s) ==
  LET b == PutBin(s)
  IN  /\ KL_BIN2SIZE(b) <= s
      /\ s < KL_BIN2SIZE(b + 1)

==============================================================================
