---------------------------- MODULE MCAlgorithms -----------------------------
(***************************************************************************)
(* The sequential algorithms of the library over all their inputs up to a  *)
(* bound, one after the other: which says which of them runs; the          *)
(* variables of the others do not move.                                    *)
(***************************************************************************)
EXTENDS MadmitScan, OptParse, KlBins, PageRange

CONSTANT MaxChunk  \* the largest chunk, FIXED_MAX_SIZE

VARIABLES which, chunk

mcvars == <<vars, optvars, addr, len, which, chunk>>

ScanIdle ==
  /\ c_mem = [p \in Procs |-> 0] /\ d_mem = c_mem /\ sigon = [p \in Procs |-> FALSE]
  /\ id = 1 /\ need = 1 /\ admitd = FALSE /\ i = 1 /\ ii = 0
  /\ mx_c_mem = 0 /\ mx_d_mem = SizeMax /\ pc = "test" /\ moved = FALSE

RangeIdle == addr = 0 /\ len = PageSize

\* Sizes of chunks are multiples of the alignment.
ChunkSizes == {s \in CHUNK_MIN_SIZE .. MaxChunk : s % MEMORY_ALLOCATION_ALIGNMENT = 0}

MCInit ==
  \/ which = "scan" /\ Init /\ OptInit /\ RangeIdle /\ chunk = CHUNK_MIN_SIZE
  \/ which = "opts" /\ ScanIdle /\ OptInit /\ RangeIdle /\ chunk = CHUNK_MIN_SIZE
  \/ which = "range" /\ ScanIdle /\ OptInit /\ RangeInit /\ chunk = CHUNK_MIN_SIZE
  \/ which = "bins" /\ ScanIdle /\ OptInit /\ RangeIdle /\ chunk \in ChunkSizes

MCNext ==
  /\ UNCHANGED <<which, addr, len, chunk>>
  /\ \/ which = "scan" /\ Next /\ UNCHANGED optvars
     \/ which = "opts" /\ OptNext /\ UNCHANGED vars

MCSpec == MCInit /\ [][MCNext]_mcvars

\* The bins of free chunks (KL_SIZE2BIN against the table bin2size): every request
\* starts at the first bin whose chunks are all large enough, and every free chunk
\* is put in the last bin whose size it reaches, so none is handed out for a
\* request it cannot hold and none is kept from one it can.
BinsFit == GetFits(chunk) /\ PutFits(chunk)

==============================================================================
