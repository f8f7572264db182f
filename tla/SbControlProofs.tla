--------------------------- MODULE SbControlProofs ---------------------------
(***************************************************************************)
(* src/old/sbmalloc.c, for any number of threads, allocations and pages:   *)
(* where every call is, which locks it holds and which allocations are in  *)
(* the list.                                                               *)
(***************************************************************************)
EXTENDS SbMalloc, FiniteSetTheorems, TLAPS

------------------------------------------------------------------------------
Rw == {"read", "write"}
OnOne == {"mtouch", "mclear", "mevict", "mexist"}
OnAll == {"mtouchall", "mclearall", "mevictall"}
Starting == {"ilock", "ipage"}
Resting == {"idle", "ilock", "final"}

\* TypeOK but for the bound on ld_pages, which follows from what it counts.
SbTypes ==
  /\ init \in {0, 1} /\ pagesize \in {0, 1} /\ handler \in BOOLEAN
  /\ initLock \in Threads \cup {Free}
  /\ lazy \in BOOLEAN
  /\ head \in Seq(Slots)
  /\ lock \in Threads \cup {Free}
  /\ np \in [Slots -> 0 .. N] /\ ld \in [Slots -> Int]
  /\ flags \in [Slots -> [Pages -> SUBSET {SYNC, DIRTY, ONDISK}]]
  /\ alock \in [Slots -> Threads \cup {Free}]
  /\ mem \in [Slots -> [Pages -> 0 .. 1]] /\ file \in [Slots -> [Pages -> 0 .. 1]]
  /\ prot \in [Slots -> [Pages -> {"none", "r", "rw"}]]
  /\ want \in [Slots -> [Pages -> {Undef} \cup 0 .. 1]]
  /\ cur \in Int /\ num \in Int
  /\ charged \in Int /\ lost \in Nat /\ left \in Nat /\ torn \in BOOLEAN
  /\ pc \in [Threads -> Labels] /\ op \in [Threads -> Op]

\* The call c can be at the label l.
Fit(l, c) ==
  /\ l = "idle" <=> c = "none"
  /\ l = "final" <=> c = "finalize"
  /\ l \in Starting => c \notin Rw
  /\ l \in {"access", "abort"} => c \in Rw
  /\ l = "find" => c \in Rw \cup OnOne
  /\ l = "alock" => c \in Rw \cup OnOne /\ c # "mexist"
  /\ l \in {"read", "write", "mtouch", "mclear", "mevict", "mmap"} => c = l
  /\ l = "drop" => c \in {"mevict", "mevictall"}
  /\ l \in {"hold", "each"} => c \in OnAll
  /\ l = "relock" => c = "mtouchall"
  /\ l = "link" => c = "mmap"
  /\ l \in {"unlink", "destroy"} => c = "munmap"
  /\ l = "track" => c \in Rw \cup {"mmap", "munmap", "mtouch", "mevict", "mevictall"}
  /\ l = "tracknum" => c \in {"mmap", "munmap"}
  /\ l = "discharge" => c \in {"mevict", "mevictall"}

\* The arguments of a call are within the allocation and the list.
Args(t) ==
  /\ op[t].a = Free <=> op[t].call \in OnAll \cup {"none", "finalize"}
  /\ op[t].call \in Rw => op[t].beg \in PagesOf(op[t].a)
  /\ op[t].call \in {"mtouch", "mclear"} => op[t].beg < op[t].end /\ op[t].end <= np[op[t].a]
  /\ op[t].call \in OnAll /\ pc[t] \in Starting \cup {"hold"} => op[t].beg = 0
  /\ pc[t] = "each" => op[t].beg <= Len(head)
  /\ pc[t] = "drop" /\ op[t].call = "mevictall" => op[t].beg < Len(head)

CallInv == \A t \in Threads : Fit(pc[t], op[t].call) /\ Args(t)

\* Which allocations are in the list while they are mapped, used and unmapped.
Placed(t) ==
  /\ op[t].call \in Rw \cup OnOne => op[t].a \in Listed
  /\ op[t].call = "munmap" => (op[t].a \in Listed <=> pc[t] \in Starting \cup {"unlink"})
  /\ op[t].call = "mmap" => (op[t].a \notin Listed <=> pc[t] \in Starting \cup {"mmap", "link"})
  /\ op[t].call = "mmap" /\ pc[t] \in Starting \cup {"mmap"} => np[op[t].a] = 0

ListInv ==
  /\ \A i, j \in 1 .. Len(head) : head[i] = head[j] => i = j
  /\ \A t \in Threads : Placed(t)
  /\ \A a \in Slots \ Listed : np[a] = 0 \/ \E t \in Threads : op[t].a = a

\* Who holds which lock.
HasList(t) == pc[t] \in {"each", "relock"} \/ (pc[t] = "drop" /\ op[t].call = "mevictall")
HasAlloc(t) == pc[t] \in {"read", "write", "mtouch", "mclear", "mevict", "drop", "abort"}
Target(t) == IF op[t].call = "mevictall" THEN head[op[t].beg + 1] ELSE op[t].a

LockInv ==
  /\ \A t \in Threads : lock = t <=> HasList(t)
  /\ \A t \in Threads, a \in Slots : alock[a] = t <=> HasAlloc(t) /\ Target(t) = a

\* What the application keeps apart when pages are not shared.
Apart(t, u) ==
  /\ op[t].call \in {"mmap", "munmap"} => op[u].a # op[t].a
  /\ op[t].call = "write" => ~ Discards(u, op[t].a)
  /\ op[t].call \in Rw /\ op[u].call \in Rw /\ op[t].a = op[u].a => op[t].beg # op[u].beg

ApartInv == \A t, u \in Threads : t # u => Apart(t, u)

\* The pages of an allocation that are in memory.
InMemory(f) == SYNC \in f \/ DIRTY \in f
LoadedOf(a) == {p \in PagesOf(a) : InMemory(flags[a][p])}

ControlInv == SbTypes /\ CallInv /\ ListInv /\ LockInv /\ ApartInv

\* The prover of the steps that name no other.
USE ZenonT(60)

LEMMA ControlInit ==
  ASSUME Init
  PROVE  ControlInv
<1>1. SbTypes
  <2>1. NoOp \in Op
    BY SbAssumption, SMTT(30) DEF NoOp, Op, Calls
  <2>2. op \in [Threads -> Op] /\ pc \in [Threads -> Labels]
    BY <2>1 DEF Init, Labels
  <2>3. mem \in [Slots -> [Pages -> 0 .. 1]] /\ file = mem /\ want = mem
    BY SMTT(30) DEF Init
  <2>4. flags \in [Slots -> [Pages -> SUBSET {SYNC, DIRTY, ONDISK}]]
        /\ prot \in [Slots -> [Pages -> {"none", "r", "rw"}]]
    BY DEF Init
  <2>5. want \in [Slots -> [Pages -> {Undef} \cup 0 .. 1]]
    BY <2>3
  <2>6. np \in [Slots -> 0 .. N] /\ ld \in [Slots -> Int] /\ alock \in [Slots -> Threads \cup {Free}]
    BY SbAssumption, SMTT(30) DEF Init
  <2>7. head \in Seq(Slots)
    BY SMTT(30) DEF Init
  <2>8. handler \in BOOLEAN /\ lazy \in BOOLEAN /\ torn \in BOOLEAN
    BY DEF Init
  <2>9. /\ init \in {0, 1} /\ pagesize \in {0, 1} /\ initLock \in Threads \cup {Free}
        /\ lock \in Threads \cup {Free} /\ cur \in Int /\ num \in Int /\ charged \in Int /\ lost \in Nat
        /\ left \in Nat
    BY SMTT(30) DEF Init
  <2> QED
    BY <2>2, <2>3, <2>4, <2>5, <2>6, <2>7, <2>8, <2>9, SMTT(30) DEF SbTypes
<1>2. CallInv
  BY <1>1 DEF Init, CallInv, Fit, Args, NoOp, Rw, OnOne, OnAll, Starting
<1>3. Listed = {}
  BY SMTT(30) DEF Init, Listed, Range
<1>4. ListInv
  BY <1>3, SMTT(30) DEF Init, ListInv, Placed, NoOp, Rw, OnOne
<1>5. LockInv
  BY SbAssumption DEF Init, LockInv, HasList, HasAlloc
<1>6. ApartInv
  BY DEF Init, ApartInv, Apart, NoOp, Rw
<1> QED
  BY <1>1, <1>2, <1>4, <1>5, <1>6 DEF ControlInv

------------------------------------------------------------------------------
(***************************************************************************)
(* How a step changes where its thread is.                                 *)
(***************************************************************************)
Alone(t) ==
  /\ pc' \in [Threads -> Labels] /\ op' \in [Threads -> Op]
  /\ \A u \in Threads \ {t} : pc'[u] = pc[u] /\ op'[u] = op[u]

Returns(t) == Alone(t) /\ pc'[t] = "idle" /\ op'[t] = NoOp

\* The call goes on, at the label l and from the page or allocation k on.
Goes(t, l, k) ==
  /\ Alone(t)
  /\ pc'[t] = l
  /\ op'[t].call = op[t].call /\ op'[t].a = op[t].a /\ op'[t].end = op[t].end
  /\ op'[t].beg = k

LEMMA OpFields ==
  ASSUME SbTypes, NEW t \in Threads
  PROVE  /\ op[t] \in Op
         /\ op[t].call \in Calls /\ op[t].a \in Slots \cup {Free} /\ op[t].beg \in Nat
         /\ op[t].end \in 0 .. N /\ op[t].n \in Int
  BY DEF SbTypes, Op

LEMMA ReturnsIs ==
  ASSUME SbTypes, NEW t \in Threads, Return(t)
  PROVE  Returns(t)
<1>1. NoOp \in Op
  BY SbAssumption, SMTT(30) DEF NoOp, Op, Calls
<1> QED
  BY <1>1 DEF SbTypes, Return, Goto, Returns, Alone, Labels

LEMMA GoesIs ==
  ASSUME SbTypes, NEW t \in Threads, NEW l \in Labels, Goto(t, l), UNCHANGED op
  PROVE  Goes(t, l, op[t].beg)
  BY DEF SbTypes, Goto, Goes, Alone

LEMMA PendingIs ==
  ASSUME SbTypes, NEW t \in Threads, NEW l \in Labels, Goto(t, l), NEW n \in Int, Pending(t, n)
  PROVE  Goes(t, l, op[t].beg)
<1>1. op' = [op EXCEPT ![t].n = n]
  BY DEF Pending
<1>2. op' \in [Threads -> Op]
  BY <1>1 DEF SbTypes, Op
<1>3. /\ op'[t].call = op[t].call /\ op'[t].a = op[t].a /\ op'[t].end = op[t].end
      /\ op'[t].beg = op[t].beg
  BY <1>1, OpFields DEF SbTypes, Op
<1> QED
  BY <1>1, <1>2, <1>3 DEF SbTypes, Goto, Goes, Alone

LEMMA CountsIs ==
  ASSUME SbTypes, NEW t \in Threads, NEW l \in Labels, Goto(t, l), op' = [op EXCEPT ![t].beg = @ + 1]
  PROVE  Goes(t, l, op[t].beg + 1)
<1>1. op' \in [Threads -> Op]
  <2>1. PICK k \in Nat : k = op[t].beg + 1
    BY OpFields, SMTT(30)
  <2>2. op' = [op EXCEPT ![t].beg = k]
    BY <2>1
  <2> QED
    BY <2>2 DEF SbTypes, Op
<1>2. /\ op'[t].call = op[t].call /\ op'[t].a = op[t].a /\ op'[t].end = op[t].end
      /\ op'[t].beg = op[t].beg + 1
  BY OpFields DEF SbTypes, Op
<1> QED
  BY <1>1, <1>2 DEF SbTypes, Goto, Goes, Alone

LEMMA FirstLabel ==
  ASSUME NEW c \in Calls \ {"none"}
  PROVE  First(c) \in Labels /\ Fit(First(c), c) /\ First(c) \notin Starting \cup {"idle"}
  BY SMTT(30) DEF First, Calls, Labels, Fit, Rw, OnOne, OnAll, Starting

LEMMA CallLabel ==
  ASSUME NEW c \in (Rw \cup OnOne) \ {"mexist"}
  PROVE  c \in Labels /\ Fit(c, c)
  BY DEF Labels, Fit, Rw, OnOne, OnAll, Starting



LEMMA StartMoves ==
  ASSUME SbTypes, CallInv, NEW t \in Threads
  PROVE  /\ InitLock(t) => \/ init = 1 /\ Goes(t, First(op[t].call), op[t].beg)
                           \/ init = 0 /\ Goes(t, "ipage", op[t].beg)
         /\ InitBody(t) => Goes(t, First(op[t].call), op[t].beg)
         /\ Destroy(t) => Returns(t)
<1>1. pc[t] \in Starting => First(op[t].call) \in Labels
  <2>1. pc[t] \in Starting => op[t].call # "none"
    BY DEF CallInv, Fit, Starting
  <2> QED
    BY <2>1, OpFields, FirstLabel
<1>2. "ipage" \in Labels
  BY DEF Labels
<1>3. init \in {0, 1}
  BY DEF SbTypes
<1>4. ASSUME InitLock(t)
      PROVE  \/ init = 1 /\ Goes(t, First(op[t].call), op[t].beg)
             \/ init = 0 /\ Goes(t, "ipage", op[t].beg)
  BY <1>1, <1>2, <1>3, <1>4, GoesIs, SMTT(30) DEF InitLock, Starting
<1>5. ASSUME InitBody(t) PROVE Goes(t, First(op[t].call), op[t].beg)
  BY <1>1, <1>5, GoesIs DEF InitBody, Starting
<1>6. ASSUME Destroy(t) PROVE Returns(t)
  BY <1>6, ReturnsIs DEF Destroy
<1> QED
  BY <1>4, <1>5, <1>6

LEMMA FaultMoves ==
  ASSUME SbTypes, CallInv, NEW t \in Threads
  PROVE  /\ Access(t) => Goes(t, "find", op[t].beg) \/ Returns(t)
         /\ Find(t) => IF op[t].call = "mexist" THEN Returns(t) ELSE Goes(t, "alock", op[t].beg)
         /\ AllocLock(t) => Goes(t, op[t].call, op[t].beg)
         /\ SegvDirty(t) => Goes(t, "access", op[t].beg)
<1> {"find", "alock", "access"} \subseteq Labels
  BY DEF Labels
<1>2. pc[t] = "alock" => op[t].call \in Labels
  BY CallLabel DEF CallInv, Fit
<1>3. ASSUME Access(t) PROVE Goes(t, "find", op[t].beg) \/ Returns(t)
  BY <1>3, GoesIs, ReturnsIs DEF Access
<1>4. ASSUME Find(t) PROVE IF op[t].call = "mexist" THEN Returns(t) ELSE Goes(t, "alock", op[t].beg)
  BY <1>4, GoesIs, ReturnsIs DEF Find
<1>5. ASSUME AllocLock(t) PROVE Goes(t, op[t].call, op[t].beg)
  BY <1>2, <1>5, GoesIs DEF AllocLock
<1>6. ASSUME SegvDirty(t) PROVE Goes(t, "access", op[t].beg)
  BY <1>6, GoesIs DEF SegvDirty
<1> QED
  BY <1>3, <1>4, <1>5, <1>6

LEMMA TrackMoves ==
  ASSUME SbTypes, CallInv, NEW t \in Threads
  PROVE  /\ Track(t) => \/ op[t].call \in Rw /\ Goes(t, "access", op[t].beg)
                        \/ op[t].call \in {"mmap", "munmap"} /\ Goes(t, "tracknum", op[t].beg)
                        \/ op[t].call = "mtouch" /\ Returns(t)
                        \/ op[t].call \in {"mevict", "mevictall"} /\ Goes(t, "discharge", op[t].beg)
         /\ TrackNum(t) => \/ op[t].call = "mmap" /\ Returns(t)
                           \/ op[t].call = "munmap" /\ Goes(t, "destroy", op[t].beg)
         /\ Discharge(t) => Returns(t)
<1> {"access", "tracknum", "discharge", "destroy"} \subseteq Labels
  BY DEF Labels
<1>2. ASSUME Track(t)
      PROVE  \/ op[t].call \in Rw /\ Goes(t, "access", op[t].beg)
             \/ op[t].call \in {"mmap", "munmap"} /\ Goes(t, "tracknum", op[t].beg)
             \/ op[t].call = "mtouch" /\ Returns(t)
             \/ op[t].call \in {"mevict", "mevictall"} /\ Goes(t, "discharge", op[t].beg)
  <2>1. op[t].call \in Rw \cup {"mmap", "munmap", "mtouch", "mevict", "mevictall"}
    BY <1>2 DEF Track, CallInv, Fit
  <2>2. CASE op[t].call \in Rw
    <3>1. Goto(t, "access") /\ UNCHANGED op
      BY <1>2, <2>2 DEF Track, Rw
    <3> QED
      BY <2>2, <3>1, GoesIs
  <2>3. CASE op[t].call \in {"mmap", "munmap"}
    <3>1. Goto(t, "tracknum") /\ UNCHANGED op
      BY <1>2, <2>3 DEF Track
    <3> QED
      BY <2>3, <3>1, GoesIs
  <2>4. CASE op[t].call = "mtouch"
    <3>1. Return(t)
      BY <1>2, <2>4 DEF Track
    <3> QED
      BY <2>4, <3>1, ReturnsIs
  <2>5. CASE op[t].call \in {"mevict", "mevictall"}
    <3>1. Goto(t, "discharge") /\ UNCHANGED op
      BY <1>2, <2>5, SMTT(30) DEF Track
    <3> QED
      BY <2>5, <3>1, GoesIs
  <2> QED
    BY <2>1, <2>2, <2>3, <2>4, <2>5
<1>3. ASSUME TrackNum(t)
      PROVE  \/ op[t].call = "mmap" /\ Returns(t)
             \/ op[t].call = "munmap" /\ Goes(t, "destroy", op[t].beg)
  <2>1. op[t].call \in {"mmap", "munmap"}
    BY <1>3 DEF TrackNum, CallInv, Fit
  <2> QED
    BY <1>3, <2>1, GoesIs, ReturnsIs, SMTT(30) DEF TrackNum
<1>4. ASSUME Discharge(t) PROVE Returns(t)
  BY <1>4, ReturnsIs DEF Discharge
<1> QED
  BY <1>2, <1>3, <1>4

LEMMA MapMoves ==
  ASSUME SbTypes, CallInv, NEW t \in Threads
  PROVE  /\ Mmap(t) => Goes(t, "link", op[t].beg)
         /\ MmapFail(t) => Returns(t)
         /\ Link(t) => Goes(t, "track", op[t].beg)
         /\ Unlink(t) => Goes(t, "track", op[t].beg)
         /\ Unmap(t) => Returns(t)
<1> {"link", "track"} \subseteq Labels
  BY DEF Labels
<1>2. ASSUME Mmap(t) PROVE Goes(t, "link", op[t].beg)
  <2>1. M + op[t].end \in Int
    BY OpFields, SbAssumption, SMTT(30)
  <2> QED
    BY <1>2, <2>1, PendingIs DEF Mmap
<1>3. ASSUME MmapFail(t) PROVE Returns(t)
  BY <1>3, ReturnsIs DEF MmapFail
<1>4. ASSUME Link(t) PROVE Goes(t, "track", op[t].beg)
  BY <1>4, GoesIs DEF Link
<1>5. ASSUME Unlink(t) PROVE Goes(t, "track", op[t].beg)
  <2>1. op[t].a \in Slots
    BY <1>5, OpFields DEF Unlink, CallInv, Fit, Args, OnAll
  <2>2. - (M + ld[op[t].a]) \in Int
    BY <2>1, SbAssumption, SMTT(30) DEF SbTypes
  <2> QED
    BY <1>5, <2>2, PendingIs DEF Unlink
<1>6. ASSUME Unmap(t) PROVE Returns(t)
  BY <1>6, ReturnsIs DEF Unmap
<1> QED
  BY <1>2, <1>3, <1>4, <1>5, <1>6, SMTT(30)

\* The pages a swap brings in are finitely many.
LEMMA PagesFinite ==
  ASSUME SbTypes, NEW a \in Slots, NEW S, S \subseteq PagesOf(a)
  PROVE  /\ IsFiniteSet(S) /\ Cardinality(S) \in Nat /\ Cardinality(S) <= np[a]
         /\ PagesOf(a) \subseteq Pages
<1>1. np[a] \in 0 .. N /\ N \in Nat
  BY SbAssumption DEF SbTypes
<1>2. IsFiniteSet(PagesOf(a)) /\ Cardinality(PagesOf(a)) = np[a]
  <2>1. PICK n \in Nat : n = np[a]
    BY <1>1, SMTT(30)
  <2>2. n - 1 \in Int
    BY <2>1, SMTT(30)
  <2>3. IsFiniteSet(0 .. n - 1) /\ Cardinality(0 .. n - 1) = IF 0 > n - 1 THEN 0 ELSE n - 1 - 0 + 1
    BY <2>2, FS_Interval, SMTT(30)
  <2>4. Cardinality(0 .. n - 1) = n
    BY <2>1, <2>3, SMTT(30)
  <2> QED
    BY <2>1, <2>3, <2>4 DEF PagesOf
<1>3. IsFiniteSet(S) /\ Cardinality(S) <= Cardinality(PagesOf(a))
  BY <1>2, FS_Subset
<1> QED
  BY <1>1, <1>2, <1>3, FS_CardinalityType, SMTT(30) DEF PagesOf, Pages

LEMMA SegvPagesIn ==
  ASSUME SbTypes, NEW a \in Slots, NEW p \in PagesOf(a)
  PROVE  SegvPages(a, p) \subseteq PagesOf(a)
  BY DEF SegvPages

LEMMA RwSubject ==
  ASSUME SbTypes, CallInv, NEW t \in Threads, op[t].call \in Rw
  PROVE  op[t].a \in Slots /\ op[t].beg \in PagesOf(op[t].a) /\ op[t].beg \in Pages
<1>1. op[t].a \in Slots /\ op[t].beg \in PagesOf(op[t].a)
  BY OpFields DEF CallInv, Args, OnAll, Rw
<1> QED
  BY <1>1, PagesFinite

LEMMA OneSubject ==
  ASSUME SbTypes, CallInv, NEW t \in Threads, op[t].call \notin OnAll \cup {"none", "finalize"}
  PROVE  op[t].a \in Slots
  BY OpFields DEF CallInv, Args

\* What SB_mtouch loads.
TouchRange(t) == IF lazy THEN op[t].beg .. op[t].end - 1 ELSE PagesOf(op[t].a)
TouchPages(t) == {p \in TouchRange(t) : flags[op[t].a][p] \cap {SYNC, DIRTY} = {}}

LEMMA TouchPagesIn ==
  ASSUME SbTypes, CallInv, NEW t \in Threads, op[t].call = "mtouch"
  PROVE  op[t].a \in Slots /\ TouchRange(t) \subseteq PagesOf(op[t].a)
<1>1. op[t].a \in Slots
  BY OneSubject DEF OnAll
<1>2. op[t].beg \in Nat /\ op[t].end \in Nat /\ op[t].end <= np[op[t].a] /\ np[op[t].a] \in Nat
  BY <1>1, OpFields, SbAssumption, SMTT(30) DEF CallInv, Args, SbTypes
<1> QED
  BY <1>1, <1>2, SMTT(30) DEF TouchRange, PagesOf

LEMMA PageMoves ==
  ASSUME SbTypes, CallInv, NEW t \in Threads
  PROVE  /\ SegvLoad(t) => Goes(t, "track", op[t].beg) \/ Goes(t, "abort", op[t].beg)
         /\ Mtouch(t) => Goes(t, "track", op[t].beg)
         /\ Mclear(t) => Returns(t)
         /\ Mevict(t) => Goes(t, "drop", op[t].beg)
         /\ MevictDrop(t) => Goes(t, "track", op[t].beg)
<1> {"track", "abort", "drop"} \subseteq Labels
  BY DEF Labels
<1>2. ASSUME SegvLoad(t) PROVE Goes(t, "track", op[t].beg) \/ Goes(t, "abort", op[t].beg)
  <2>1. op[t].call \in Rw
    BY <1>2 DEF SegvLoad, CallInv, Fit, Rw
  <2>2. Cardinality(SegvPages(op[t].a, op[t].beg)) \in Int
    BY <2>1, RwSubject, SegvPagesIn, PagesFinite, SMTT(30)
  <2> QED
    BY <1>2, <2>2, PendingIs, GoesIs DEF SegvLoad
<1>3. ASSUME Mtouch(t) PROVE Goes(t, "track", op[t].beg)
  <2>1. op[t].call = "mtouch"
    BY <1>3 DEF Mtouch, CallInv, Fit
  <2>2. Cardinality(TouchPages(t)) \in Int
    BY <2>1, TouchPagesIn, PagesFinite, SMTT(30) DEF TouchPages
  <2>3. Pending(t, Cardinality(TouchPages(t))) /\ Goto(t, "track")
    BY <1>3 DEF Mtouch, TouchPages, TouchRange
  <2> QED
    BY <2>2, <2>3, PendingIs, SMTT(30)
<1>4. ASSUME Mclear(t) PROVE Returns(t)
  BY <1>4, ReturnsIs DEF Mclear
<1>5. ASSUME Mevict(t) PROVE Goes(t, "drop", op[t].beg)
  <2>1. op[t].call = "mevict"
    BY <1>5 DEF Mevict, CallInv, Fit
  <2>2. op[t].a \in Slots
    BY <2>1, OneSubject DEF OnAll
  <2>3. ld[op[t].a] \in Int
    BY <2>2 DEF SbTypes
  <2>4. - ld[op[t].a] \in Int
    BY <2>3, SMTT(30)
  <2> QED
    BY <1>5, <2>4, PendingIs DEF Mevict
<1>6. ASSUME MevictDrop(t) PROVE Goes(t, "track", op[t].beg)
  BY <1>6, GoesIs DEF MevictDrop
<1> QED
  BY <1>2, <1>3, <1>4, <1>5, <1>6

LEMMA EachSubject ==
  ASSUME SbTypes, NEW t \in Threads, op[t].beg < Len(head)
  PROVE  /\ op[t].beg + 1 \in 1 .. Len(head)
         /\ head[op[t].beg + 1] \in Slots /\ head[op[t].beg + 1] \in Listed
<1>1. head \in Seq(Slots) /\ op[t].beg \in Nat /\ Len(head) \in Nat
  BY OpFields, SMTT(30) DEF SbTypes
<1>2. op[t].beg + 1 \in 1 .. Len(head)
  BY <1>1, SMTT(30)
<1> QED
  BY <1>1, <1>2, SMTT(30) DEF Listed, Range

LEMMA AllMoves ==
  ASSUME SbTypes, CallInv, NEW t \in Threads
  PROVE  /\ Hold(t) => Goes(t, "each", op[t].beg)
         /\ MtouchallEach(t) => Returns(t) \/ Goes(t, "relock", op[t].beg)
         /\ MclearallEach(t) => Goes(t, "each", op[t].beg + 1)
         /\ MevictallEach(t) => Goes(t, "drop", op[t].beg)
         /\ MevictallDrop(t) => Goes(t, "each", op[t].beg + 1)
         /\ AllDone(t) => IF op[t].call = "mevictall" THEN Goes(t, "track", op[t].beg) ELSE Returns(t)
<1> {"each", "relock", "drop", "track"} \subseteq Labels
  BY DEF Labels
<1>2. ASSUME Hold(t) PROVE Goes(t, "each", op[t].beg)
  BY <1>2, GoesIs DEF Hold
<1>3. ASSUME MtouchallEach(t) PROVE Returns(t) \/ Goes(t, "relock", op[t].beg)
  BY <1>3, GoesIs, ReturnsIs DEF MtouchallEach
<1>4. ASSUME MclearallEach(t) PROVE Goes(t, "each", op[t].beg + 1)
  <2>1. Goto(t, "each")
    BY <1>4 DEF MclearallEach, Goto, SbTypes
  <2>2. op' = [op EXCEPT ![t].beg = @ + 1]
    BY <1>4 DEF MclearallEach
  <2> QED
    BY <2>1, <2>2, CountsIs
<1>5. ASSUME MevictallEach(t) PROVE Goes(t, "drop", op[t].beg)
  <2>1. head[op[t].beg + 1] \in Slots
    BY <1>5, EachSubject DEF MevictallEach
  <2>2. ld[head[op[t].beg + 1]] \in Int
    BY <2>1 DEF SbTypes
  <2>3. op[t].n \in Int
    BY OpFields
  <2>4. op[t].n - ld[head[op[t].beg + 1]] \in Int
    BY <2>2, <2>3, SMTT(30)
  <2> QED
    BY <1>5, <2>4, PendingIs DEF MevictallEach
<1>6. ASSUME MevictallDrop(t) PROVE Goes(t, "each", op[t].beg + 1)
  BY <1>6, CountsIs DEF MevictallDrop
<1>7. ASSUME AllDone(t)
      PROVE  IF op[t].call = "mevictall" THEN Goes(t, "track", op[t].beg) ELSE Returns(t)
  BY <1>7, GoesIs, ReturnsIs DEF AllDone
<1> QED
  BY <1>2, <1>3, <1>4, <1>5, <1>6, <1>7

------------------------------------------------------------------------------
(***************************************************************************)
(* The types, variable by variable.                                        *)
(***************************************************************************)
StartTypes ==
  /\ init \in {0, 1} /\ pagesize \in {0, 1} /\ handler \in BOOLEAN
  /\ initLock \in Threads \cup {Free} /\ lazy \in BOOLEAN
ListTypes ==
  /\ head \in Seq(Slots) /\ lock \in Threads \cup {Free}
  /\ np \in [Slots -> 0 .. N] /\ alock \in [Slots -> Threads \cup {Free}]
PageTypes ==
  /\ flags \in [Slots -> [Pages -> SUBSET {SYNC, DIRTY, ONDISK}]]
  /\ mem \in [Slots -> [Pages -> 0 .. 1]] /\ file \in [Slots -> [Pages -> 0 .. 1]]
  /\ prot \in [Slots -> [Pages -> {"none", "r", "rw"}]]
  /\ want \in [Slots -> [Pages -> {Undef} \cup 0 .. 1]]
CountTypes ==
  /\ ld \in [Slots -> Int] /\ cur \in Int /\ num \in Int /\ charged \in Int /\ lost \in Nat
  /\ left \in Nat /\ torn \in BOOLEAN

LEMMA TypeParts ==
  SbTypes <=> /\ StartTypes /\ ListTypes /\ PageTypes /\ CountTypes
              /\ pc \in [Threads -> Labels] /\ op \in [Threads -> Op]
  BY DEF SbTypes, StartTypes, ListTypes, PageTypes, CountTypes

LEMMA StartTypesStep ==
  ASSUME SbTypes, NEW t \in Threads, Mopt \/ Begin(t) \/ Step(t)
  PROVE  StartTypes'
<1> StartTypes
  BY TypeParts, SMTT(30)
<1>2. CASE UNCHANGED <<start, lazy>>
  BY <1>2, SMTT(30) DEF start, StartTypes
<1>3. CASE InitLock(t)
  BY <1>3 DEF InitLock, StartTypes
<1>4. CASE InitBody(t)
  BY <1>4 DEF InitBody, StartTypes
<1>5. CASE Destroy(t)
  BY <1>5 DEF Destroy, StartTypes
<1>6. CASE Mopt
  BY <1>6, SMTT(30) DEF Mopt, StartTypes, start
<1>7. CASE UNCHANGED <<start, lazy>> \/ InitLock(t) \/ InitBody(t) \/ Destroy(t) \/ Mopt
  BY <1>2, <1>3, <1>4, <1>5, <1>6, <1>7, SMTT(30)
<1> QED
  BY <1>7 DEF Step, Begin, Access, Find, AllocLock, SegvLoad, SegvDirty, Track, TrackNum, Discharge, Mmap, MmapFail,
    Link, Unlink, Unmap, Mtouch, Mclear, Mevict, MevictDrop, Hold, MtouchallEach, MclearallEach, MevictallEach,
    MevictallDrop, AllDone

\* Two sequences one after the other.
LEMMA JoinIs ==
  ASSUME NEW S, NEW x \in Seq(S), NEW y \in Seq(S)
  PROVE  /\ x \o y \in Seq(S) /\ Len(x \o y) = Len(x) + Len(y)
         /\ \A i \in 1 .. Len(x) : (x \o y)[i] = x[i]
         /\ \A i \in 1 .. Len(x) + Len(y) : i > Len(x) => (x \o y)[i] = y[i - Len(x)]
  BY SMTT(30)

LEMMA RemoveIs ==
  ASSUME NEW S, NEW s \in Seq(S), NEW k \in 1 .. Len(s)
  PROVE  /\ Without(s, k) \in Seq(S) /\ Len(Without(s, k)) = Len(s) - 1
         /\ \A i \in 1 .. Len(s) - 1 : Without(s, k)[i] = s[IF i < k THEN i ELSE i + 1]
<1> DEFINE x == SubSeq(s, 1, k - 1)
           y == SubSeq(s, k + 1, Len(s))
<1> Len(s) \in Nat /\ k \in Nat /\ k >= 1 /\ k <= Len(s)
  BY SMTT(30)
<1>2. x \in Seq(S) /\ Len(x) = k - 1 /\ \A i \in 1 .. k - 1 : x[i] = s[i]
  BY SMTT(30)
<1>3. y \in Seq(S) /\ Len(y) = Len(s) - k /\ \A i \in 1 .. Len(s) - k : y[i] = s[i + k]
  BY SMTT(30)
<1> HIDE DEF x, y
<1>4. x \o y \in Seq(S) /\ Len(x \o y) = Len(s) - 1
  <2>1. x \o y \in Seq(S) /\ Len(x \o y) = Len(x) + Len(y)
    BY <1>2, <1>3, JoinIs
  <2> QED
    BY <1>2, <1>3, <2>1, SMTT(30)
<1>5. ASSUME NEW i \in 1 .. Len(s) - 1
      PROVE  (x \o y)[i] = s[IF i < k THEN i ELSE i + 1]
  <2>1. CASE i < k
    <3>1. i \in 1 .. Len(x)
      BY <1>2, <2>1, SMTT(30)
    <3>2. (x \o y)[i] = x[i]
      BY <1>2, <1>3, <3>1, JoinIs, SMTT(30)
    <3> QED
      BY <1>2, <2>1, <3>1, <3>2
  <2>2. CASE ~ (i < k)
    <3>1. i > Len(x) /\ i <= Len(x) + Len(y) /\ i - Len(x) \in 1 .. Len(s) - k
      BY <1>2, <1>3, <2>2, SMTT(30)
    <3>2. (x \o y)[i] = y[i - Len(x)]
      BY <1>2, <1>3, <3>1, JoinIs, SMTT(30)
    <3>3. y[i - Len(x)] = s[i - Len(x) + k]
      BY <1>3, <3>1
    <3>4. i - Len(x) + k = i + 1
      BY <1>2, SMTT(30)
    <3> QED
      BY <2>2, <3>2, <3>3, <3>4
  <2> QED
    BY <2>1, <2>2
<1>6. Without(s, k) = x \o y
  BY DEF Without, x, y
<1> QED
  BY <1>4, <1>5, <1>6

LEMMA ListTypesStep ==
  ASSUME SbTypes, CallInv, NEW t \in Threads, Mopt \/ Begin(t) \/ Step(t)
  PROVE  ListTypes'
<1> ListTypes
  BY TypeParts
<1>2. CASE UNCHANGED <<head, np>> /\ lock' \in {lock, t, Free}
           /\ (UNCHANGED alock \/ \E a \in Slots, x \in {t, Free} : alock' = [alock EXCEPT ![a] = x])
  BY <1>2 DEF ListTypes
<1>3. CASE UNCHANGED <<head, lock, alock>> /\ (Mmap(t) \/ Unmap(t))
  <2>1. op[t].a \in Slots
    BY <1>3, OneSubject DEF Mmap, Unmap, CallInv, Fit, OnAll
  <2>2. PICK n \in 0 .. N : np' = [np EXCEPT ![op[t].a] = n]
    <3>1. op[t].end \in 0 .. N /\ 0 \in 0 .. N
      BY OpFields, SbAssumption, SMTT(30)
    <3> QED
      BY <1>3, <3>1 DEF Mmap, Unmap
  <2>3. np' \in [Slots -> 0 .. N]
    BY <2>1, <2>2 DEF ListTypes
  <2> QED
    BY <1>3, <2>3 DEF ListTypes
<1>4. CASE Link(t)
  <2>1. op[t].a \in Slots
    BY <1>4, OneSubject DEF Link, CallInv, Fit, OnAll
  <2>2. head' \in Seq(Slots)
    BY <1>4, <2>1, SMTT(30) DEF Link, ListTypes
  <2> QED
    BY <1>4, <2>2 DEF Link, ListTypes
<1>5. CASE Unlink(t)
  BY <1>5, RemoveIs, SMTT(30) DEF Unlink, ListTypes
<1>6. ASSUME pc[t] \in {"read", "write", "mtouch", "mclear", "mevict", "alock"}
      PROVE  op[t].a \in Slots
  BY <1>6, OneSubject DEF CallInv, Fit, OnAll, OnOne, Rw
<1>7. ASSUME Mopt \/ Begin(t) \/ InitLock(t) \/ InitBody(t) \/ Destroy(t) \/ Access(t) \/ Find(t)
             \/ Track(t) \/ TrackNum(t) \/ Discharge(t) \/ MmapFail(t) \/ MclearallEach(t)
      PROVE  UNCHANGED <<head, np, lock, alock>>
  BY <1>7 DEF Mopt, Begin, InitLock, InitBody, Destroy, Access, Find, Track, TrackNum, Discharge, MmapFail,
    MclearallEach
<1>8. ASSUME AllocLock(t) \/ SegvLoad(t) \/ SegvDirty(t) \/ Mtouch(t) \/ Mclear(t) \/ Mevict(t)
      PROVE  /\ UNCHANGED <<head, np, lock>>
             /\ UNCHANGED alock \/ \E a \in Slots, x \in {t, Free} : alock' = [alock EXCEPT ![a] = x]
  BY <1>6, <1>8 DEF AllocLock, SegvLoad, SegvDirty, Mtouch, Mclear, Mevict, Unlock
<1>9. ASSUME MevictDrop(t)
      PROVE  /\ UNCHANGED <<head, np, lock>> /\ \E a \in Slots : alock' = [alock EXCEPT ![a] = Free]
  <2>1. op[t].a \in Slots
    BY <1>9, OneSubject DEF MevictDrop, OnAll
  <2> QED
    BY <1>9, <2>1 DEF MevictDrop, Unlock
<1>10. ASSUME MevictallEach(t) \/ MevictallDrop(t)
      PROVE  /\ UNCHANGED <<head, np, lock>>
             /\ \E a \in Slots, x \in {t, Free} : alock' = [alock EXCEPT ![a] = x]
  <2>1. op[t].beg < Len(head)
    BY <1>10 DEF MevictallEach, MevictallDrop, CallInv, Args
  <2>2. head[op[t].beg + 1] \in Slots
    BY <2>1, EachSubject
  <2> QED
    BY <1>10, <2>2 DEF MevictallEach, MevictallDrop, Unlock
<1>11. ASSUME Hold(t) \/ MtouchallEach(t) \/ AllDone(t)
      PROVE  UNCHANGED <<head, np, alock>> /\ lock' \in {lock, t, Free}
  BY <1>11 DEF Hold, MtouchallEach, AllDone
<1>12. ASSUME Mmap(t) \/ Unmap(t) PROVE UNCHANGED <<head, lock, alock>>
  BY <1>12 DEF Mmap, Unmap
<1> QED
  BY <1>2, <1>3, <1>4, <1>5, <1>7, <1>8, <1>9, <1>10, <1>11, <1>12 DEF Step

------------------------------------------------------------------------------
(***************************************************************************)
(* What the swaps do, page by page.                                        *)
(***************************************************************************)
FlagSubsets == SUBSET {SYNC, DIRTY, ONDISK}

LEMMA SwapInIs ==
  ASSUME SbTypes, NEW a \in Slots, NEW S, Cardinality(S) \in Nat, SwapIn(a, S)
  PROVE  /\ flags' \in [Slots -> [Pages -> FlagSubsets]] /\ mem' \in [Slots -> [Pages -> 0 .. 1]]
         /\ prot' \in [Slots -> [Pages -> {"none", "r", "rw"}]] /\ ld' \in [Slots -> Int]
         /\ \A b \in Slots \ {a} : /\ flags'[b] = flags[b] /\ mem'[b] = mem[b]
                                   /\ prot'[b] = prot[b] /\ ld'[b] = ld[b]
         /\ \A p \in Pages \ S : /\ flags'[a][p] = flags[a][p] /\ mem'[a][p] = mem[a][p]
                                 /\ prot'[a][p] = prot[a][p]
         /\ \A p \in Pages \cap S : /\ flags'[a][p] = flags[a][p] \cup {SYNC} /\ prot'[a][p] = "r"
                                    /\ mem'[a][p] = IF ONDISK \in flags[a][p] THEN file[a][p] ELSE 0
         /\ ld'[a] = ld[a] + Cardinality(S)
<1> /\ flags \in [Slots -> [Pages -> FlagSubsets]] /\ mem \in [Slots -> [Pages -> 0 .. 1]]
    /\ file \in [Slots -> [Pages -> 0 .. 1]]
    /\ prot \in [Slots -> [Pages -> {"none", "r", "rw"}]] /\ ld \in [Slots -> Int]
  BY DEF SbTypes, FlagSubsets
<1>2. PICK f \in [Pages -> FlagSubsets] :
         /\ flags' = [flags EXCEPT ![a] = f]
         /\ \A p \in Pages : f[p] = IF p \in S THEN flags[a][p] \cup {SYNC} ELSE flags[a][p]
  <2> DEFINE g == [p \in Pages |-> IF p \in S THEN flags[a][p] \cup {SYNC} ELSE flags[a][p]]
  <2>1. g \in [Pages -> FlagSubsets]
    BY SMTT(30) DEF FlagSubsets
  <2>2. flags' = [flags EXCEPT ![a] = g]
    BY DEF SwapIn
  <2> QED
    BY <2>1, <2>2
<1>3. PICK m \in [Pages -> 0 .. 1] :
         /\ mem' = [mem EXCEPT ![a] = m]
         /\ \A p \in Pages : m[p] = IF p \notin S THEN mem[a][p]
                                    ELSE IF ONDISK \in flags[a][p] THEN file[a][p] ELSE 0
  <2> DEFINE g == [p \in Pages |-> IF p \notin S THEN mem[a][p]
                                    ELSE IF ONDISK \in flags[a][p] THEN file[a][p] ELSE 0]
  <2>1. g \in [Pages -> 0 .. 1]
    BY SMTT(30)
  <2>2. mem' = [mem EXCEPT ![a] = g]
    BY DEF SwapIn
  <2> QED
    BY <2>1, <2>2
<1>4. PICK r \in [Pages -> {"none", "r", "rw"}] :
         /\ prot' = [prot EXCEPT ![a] = r]
         /\ \A p \in Pages : r[p] = IF p \in S THEN "r" ELSE prot[a][p]
  <2> DEFINE g == [p \in Pages |-> IF p \in S THEN "r" ELSE prot[a][p]]
  <2>1. g \in [Pages -> {"none", "r", "rw"}]
    BY SMTT(30)
  <2>2. prot' = [prot EXCEPT ![a] = g]
    BY DEF SwapIn
  <2> QED
    BY <2>1, <2>2
<1>5. /\ ld' \in [Slots -> Int] /\ ld'[a] = ld[a] + Cardinality(S)
      /\ \A b \in Slots \ {a} : ld'[b] = ld[b]
  BY SMTT(30) DEF SwapIn
<1>6. /\ flags' \in [Slots -> [Pages -> FlagSubsets]] /\ flags'[a] = f
      /\ \A b \in Slots \ {a} : flags'[b] = flags[b]
  BY <1>2
<1>7. /\ mem' \in [Slots -> [Pages -> 0 .. 1]] /\ mem'[a] = m
      /\ \A b \in Slots \ {a} : mem'[b] = mem[b]
  BY <1>3, SMTT(30)
<1>8. /\ prot' \in [Slots -> [Pages -> {"none", "r", "rw"}]] /\ prot'[a] = r
      /\ \A b \in Slots \ {a} : prot'[b] = prot[b]
  BY <1>4, SMTT(30)
<1> QED
  BY <1>2, <1>3, <1>4, <1>5, <1>6, <1>7, <1>8

\* The pages of the allocation that are in memory, as SwapOut counts them.
LEMMA LoadedIs ==
  ASSUME NEW a
  PROVE  LoadedOf(a) = {p \in PagesOf(a) : flags[a][p] \cap {SYNC, DIRTY} # {}}
  BY DEF LoadedOf, InMemory

LEMMA LoadedFinite ==
  ASSUME SbTypes, NEW a \in Slots
  PROVE  /\ LoadedOf(a) \subseteq PagesOf(a) /\ IsFiniteSet(LoadedOf(a))
         /\ Cardinality(LoadedOf(a)) \in Nat /\ Cardinality(LoadedOf(a)) <= np[a]
<1>1. LoadedOf(a) \subseteq PagesOf(a)
  BY DEF LoadedOf
<1> QED
  BY <1>1, PagesFinite, SMTT(30)

LEMMA SwapOutIs ==
  ASSUME SbTypes, NEW a \in Slots, SwapOut(a)
  PROVE  /\ flags' \in [Slots -> [Pages -> FlagSubsets]] /\ file' \in [Slots -> [Pages -> 0 .. 1]]
         /\ ld' \in [Slots -> Int]
         /\ \A b \in Slots \ {a} : flags'[b] = flags[b] /\ file'[b] = file[b] /\ ld'[b] = ld[b]
         /\ \A p \in Pages : IF DIRTY \in flags[a][p]
                             THEN flags'[a][p] = {ONDISK} /\ file'[a][p] = mem[a][p]
                             ELSE flags'[a][p] = flags[a][p] \cap {ONDISK} /\ file'[a][p] = file[a][p]
         /\ ld'[a] = ld[a] - Cardinality(LoadedOf(a))
<1> /\ flags \in [Slots -> [Pages -> FlagSubsets]] /\ mem \in [Slots -> [Pages -> 0 .. 1]]
    /\ file \in [Slots -> [Pages -> 0 .. 1]] /\ ld \in [Slots -> Int]
  BY DEF SbTypes, FlagSubsets
<1>2. PICK f \in [Pages -> FlagSubsets] :
         /\ flags' = [flags EXCEPT ![a] = f]
         /\ \A p \in Pages : f[p] = IF DIRTY \in flags[a][p] THEN {ONDISK} ELSE flags[a][p] \cap {ONDISK}
  <2> DEFINE g == [p \in Pages |-> IF DIRTY \in flags[a][p] THEN {ONDISK} ELSE flags[a][p] \cap {ONDISK}]
  <2>1. g \in [Pages -> FlagSubsets]
    BY DEF FlagSubsets
  <2>2. flags' = [flags EXCEPT ![a] = g]
    BY DEF SwapOut
  <2> QED
    BY <2>1, <2>2
<1>3. PICK x \in [Pages -> 0 .. 1] :
         /\ file' = [file EXCEPT ![a] = x]
         /\ \A p \in Pages : x[p] = IF DIRTY \in flags[a][p] THEN mem[a][p] ELSE file[a][p]
  <2> DEFINE g == [p \in Pages |-> IF DIRTY \in flags[a][p] THEN mem[a][p] ELSE file[a][p]]
  <2>1. g \in [Pages -> 0 .. 1]
    BY SMTT(30)
  <2>2. file' = [file EXCEPT ![a] = g]
    BY DEF SwapOut
  <2> QED
    BY <2>1, <2>2
<1>4. /\ ld' \in [Slots -> Int] /\ ld'[a] = ld[a] - Cardinality(LoadedOf(a))
      /\ \A b \in Slots \ {a} : ld'[b] = ld[b]
  <2>1. ld' = [ld EXCEPT ![a] = ld[a] - Cardinality(LoadedOf(a))]
    BY LoadedIs DEF SwapOut
  <2>2. Cardinality(LoadedOf(a)) \in Nat
    BY LoadedFinite
  <2> QED
    BY <2>1, <2>2, SMTT(30)
<1>5. /\ flags' \in [Slots -> [Pages -> FlagSubsets]] /\ flags'[a] = f
      /\ \A b \in Slots \ {a} : flags'[b] = flags[b]
  BY <1>2
<1>6. /\ file' \in [Slots -> [Pages -> 0 .. 1]] /\ file'[a] = x
      /\ \A b \in Slots \ {a} : file'[b] = file[b]
  BY <1>3
<1> QED
  BY <1>2, <1>3, <1>4, <1>5, <1>6

LEMMA DropIs ==
  ASSUME SbTypes, NEW a \in Slots, Drop(a)
  PROVE  /\ prot' \in [Slots -> [Pages -> {"none", "r", "rw"}]] /\ mem' \in [Slots -> [Pages -> 0 .. 1]]
         /\ \A b \in Slots \ {a} : prot'[b] = prot[b] /\ mem'[b] = mem[b]
         /\ \A p \in Pages : prot'[a][p] = "none" /\ mem'[a][p] = 0
<1>1. prot \in [Slots -> [Pages -> {"none", "r", "rw"}]] /\ mem \in [Slots -> [Pages -> 0 .. 1]]
  BY DEF SbTypes
<1>2. [p \in Pages |-> "none"] \in [Pages -> {"none", "r", "rw"}] /\ [p \in Pages |-> 0] \in [Pages -> 0 .. 1]
  BY SMTT(30)
<1> QED
  BY <1>1, <1>2 DEF Drop

LEMMA SwapClrIs ==
  ASSUME SbTypes, NEW a \in Slots, NEW S, SwapClr(a, S)
  PROVE  /\ flags' \in [Slots -> [Pages -> FlagSubsets]] /\ file' \in [Slots -> [Pages -> 0 .. 1]]
         /\ prot' \in [Slots -> [Pages -> {"none", "r", "rw"}]]
         /\ want' \in [Slots -> [Pages -> {Undef} \cup 0 .. 1]]
         /\ \A b \in Slots \ {a} : /\ flags'[b] = flags[b] /\ file'[b] = file[b]
                                   /\ prot'[b] = prot[b] /\ want'[b] = want[b]
         /\ \A p \in Pages :
              \/ /\ flags'[a][p] = flags[a][p] /\ file'[a][p] = file[a][p]
                 /\ prot'[a][p] = prot[a][p] /\ want'[a][p] = want[a][p]
              \/ /\ want'[a][p] = Undef
                 /\ IF DIRTY \in flags[a][p]
                    THEN flags'[a][p] = {SYNC} /\ prot'[a][p] = "r"
                    ELSE flags'[a][p] = flags[a][p] \ {ONDISK} /\ prot'[a][p] = prot[a][p]
<1> /\ flags \in [Slots -> [Pages -> FlagSubsets]] /\ file \in [Slots -> [Pages -> 0 .. 1]]
    /\ prot \in [Slots -> [Pages -> {"none", "r", "rw"}]]
    /\ want \in [Slots -> [Pages -> {Undef} \cup 0 .. 1]]
  BY DEF SbTypes, FlagSubsets
<1>2. CASE UNCHANGED <<flags, prot, file, want>>
  BY <1>2
<1>3. CASE ~ UNCHANGED <<flags, prot, file, want>>
  <2>1. PICK f \in [Pages -> FlagSubsets] :
           /\ flags' = [flags EXCEPT ![a] = f]
           /\ \A p \in Pages : f[p] = IF p \notin S THEN flags[a][p]
                                      ELSE IF DIRTY \in flags[a][p] THEN {SYNC} ELSE flags[a][p] \ {ONDISK}
    <3> DEFINE g == [p \in Pages |-> IF p \notin S THEN flags[a][p]
                                      ELSE IF DIRTY \in flags[a][p] THEN {SYNC} ELSE flags[a][p] \ {ONDISK}]
    <3>1. g \in [Pages -> FlagSubsets]
      BY SMTT(30) DEF FlagSubsets
    <3>2. flags' = [flags EXCEPT ![a] = g]
      BY <1>3 DEF SwapClr
    <3> QED
      BY <3>1, <3>2
  <2>2. PICK r \in [Pages -> {"none", "r", "rw"}] :
           /\ prot' = [prot EXCEPT ![a] = r]
           /\ \A p \in Pages : r[p] = IF p \in S /\ DIRTY \in flags[a][p] THEN "r" ELSE prot[a][p]
    <3> DEFINE g == [p \in Pages |-> IF p \in S /\ DIRTY \in flags[a][p] THEN "r" ELSE prot[a][p]]
    <3>1. g \in [Pages -> {"none", "r", "rw"}]
      BY SMTT(30)
    <3>2. prot' = [prot EXCEPT ![a] = g]
      BY <1>3 DEF SwapClr
    <3> QED
      BY <3>1, <3>2
  <2>3. PICK x \in [Pages -> 0 .. 1] :
           /\ file' = [file EXCEPT ![a] = x]
           /\ \A p \in Pages : x[p] = IF p \in S THEN 0 ELSE file[a][p]
    <3> DEFINE g == [p \in Pages |-> IF p \in S THEN 0 ELSE file[a][p]]
    <3>1. g \in [Pages -> 0 .. 1]
      BY SMTT(30)
    <3>2. file' = [file EXCEPT ![a] = g]
      BY <1>3 DEF SwapClr
    <3> QED
      BY <3>1, <3>2
  <2>4. PICK w \in [Pages -> {Undef} \cup 0 .. 1] :
           /\ want' = [want EXCEPT ![a] = w]
           /\ \A p \in Pages : w[p] = IF p \in S THEN Undef ELSE want[a][p]
    <3> DEFINE g == [p \in Pages |-> IF p \in S THEN Undef ELSE want[a][p]]
    <3>1. g \in [Pages -> {Undef} \cup 0 .. 1]
      BY SMTT(30)
    <3>2. want' = [want EXCEPT ![a] = g]
      BY <1>3 DEF SwapClr
    <3> QED
      BY <3>1, <3>2
  <2>5. /\ flags' \in [Slots -> [Pages -> FlagSubsets]] /\ flags'[a] = f
        /\ \A b \in Slots \ {a} : flags'[b] = flags[b]
    BY <2>1
  <2>6. /\ prot' \in [Slots -> [Pages -> {"none", "r", "rw"}]] /\ prot'[a] = r
        /\ \A b \in Slots \ {a} : prot'[b] = prot[b]
    BY <2>2
  <2>7. /\ file' \in [Slots -> [Pages -> 0 .. 1]] /\ file'[a] = x
        /\ \A b \in Slots \ {a} : file'[b] = file[b]
    BY <2>3, SMTT(30)
  <2>8. /\ want' \in [Slots -> [Pages -> {Undef} \cup 0 .. 1]] /\ want'[a] = w
        /\ \A b \in Slots \ {a} : want'[b] = want[b]
    BY <2>4, SMTT(30)
  <2> QED
    BY <2>1, <2>2, <2>3, <2>4, <2>5, <2>6, <2>7, <2>8, SMTT(30)
<1> QED
  BY <1>2, <1>3

LEMMA MmapIs ==
  ASSUME SbTypes, NEW t \in Threads, op[t].a \in Slots, Mmap(t)
  PROVE  /\ PageTypes' /\ ld' \in [Slots -> Int]
         /\ \A b \in Slots \ {op[t].a} :
              /\ flags'[b] = flags[b] /\ mem'[b] = mem[b] /\ prot'[b] = prot[b] /\ file'[b] = file[b]
              /\ want'[b] = want[b] /\ ld'[b] = ld[b] /\ np'[b] = np[b]
         /\ np'[op[t].a] = op[t].end /\ ld'[op[t].a] = op[t].end
         /\ \A p \in Pages :
              /\ flags'[op[t].a][p] = IF p < op[t].end THEN {SYNC} ELSE {}
              /\ prot'[op[t].a][p] = IF p < op[t].end THEN "r" ELSE "none"
              /\ mem'[op[t].a][p] = 0 /\ file'[op[t].a][p] = 0 /\ want'[op[t].a][p] = 0
<1> /\ flags \in [Slots -> [Pages -> FlagSubsets]] /\ file \in [Slots -> [Pages -> 0 .. 1]]
    /\ mem \in [Slots -> [Pages -> 0 .. 1]] /\ ld \in [Slots -> Int] /\ np \in [Slots -> 0 .. N]
    /\ prot \in [Slots -> [Pages -> {"none", "r", "rw"}]]
    /\ want \in [Slots -> [Pages -> {Undef} \cup 0 .. 1]]
  BY DEF SbTypes, FlagSubsets
<1>2. PICK a \in Slots : a = op[t].a
  OBVIOUS
<1>3. PICK e \in 0 .. N : e = op[t].end
  BY OpFields
<1> DEFINE f == [p \in Pages |-> IF p < e THEN {SYNC} ELSE {}]
           r == [p \in Pages |-> IF p < e THEN "r" ELSE "none"]
           z == [p \in Pages |-> 0]
<1>4. f \in [Pages -> FlagSubsets] /\ r \in [Pages -> {"none", "r", "rw"}] /\ z \in [Pages -> 0 .. 1]
      /\ z \in [Pages -> {Undef} \cup 0 .. 1]
  BY SMTT(30) DEF FlagSubsets
<1>5. /\ flags' = [flags EXCEPT ![a] = f] /\ prot' = [prot EXCEPT ![a] = r]
      /\ mem' = [mem EXCEPT ![a] = z] /\ file' = [file EXCEPT ![a] = z] /\ want' = [want EXCEPT ![a] = z]
      /\ np' = [np EXCEPT ![a] = e] /\ ld' = [ld EXCEPT ![a] = e]
  BY <1>2, <1>3 DEF Mmap
<1>6. /\ \A p \in Pages : f[p] = IF p < e THEN {SYNC} ELSE {}
      /\ \A p \in Pages : r[p] = IF p < e THEN "r" ELSE "none"
      /\ \A p \in Pages : z[p] = 0
  OBVIOUS
<1> HIDE DEF f, r, z
<1>7. PageTypes' /\ ld' \in [Slots -> Int]
  BY <1>4, <1>5, SMTT(30) DEF PageTypes, FlagSubsets
<1>8. /\ flags'[a] = f /\ prot'[a] = r /\ mem'[a] = z /\ file'[a] = z /\ want'[a] = z
      /\ np'[a] = e /\ ld'[a] = e
  BY <1>5
<1>9. \A b \in Slots \ {a} :
        /\ flags'[b] = flags[b] /\ mem'[b] = mem[b] /\ prot'[b] = prot[b] /\ file'[b] = file[b]
        /\ want'[b] = want[b] /\ ld'[b] = ld[b] /\ np'[b] = np[b]
  BY <1>5
<1> QED
  BY <1>2, <1>3, <1>6, <1>7, <1>8, <1>9

LEMMA UnmapIs ==
  ASSUME SbTypes, NEW t \in Threads, op[t].a \in Slots, Unmap(t)
  PROVE  /\ PageTypes' /\ ld' \in [Slots -> Int]
         /\ \A b \in Slots \ {op[t].a} :
              /\ flags'[b] = flags[b] /\ mem'[b] = mem[b] /\ prot'[b] = prot[b] /\ file'[b] = file[b]
              /\ want'[b] = want[b] /\ ld'[b] = ld[b] /\ np'[b] = np[b]
         /\ np'[op[t].a] = 0 /\ ld'[op[t].a] = 0
         /\ \A p \in Pages :
              /\ flags'[op[t].a][p] = {} /\ prot'[op[t].a][p] = "none"
              /\ mem'[op[t].a][p] = 0 /\ file'[op[t].a][p] = 0 /\ want'[op[t].a][p] = 0
<1>1. /\ flags \in [Slots -> [Pages -> FlagSubsets]] /\ file \in [Slots -> [Pages -> 0 .. 1]]
      /\ ld \in [Slots -> Int] /\ np \in [Slots -> 0 .. N]
      /\ want \in [Slots -> [Pages -> {Undef} \cup 0 .. 1]]
  BY DEF SbTypes, FlagSubsets
<1>2. PICK a \in Slots : a = op[t].a
  OBVIOUS
<1> DEFINE f == [p \in Pages |-> {}]
           z == [p \in Pages |-> 0]
<1>3. f \in [Pages -> FlagSubsets] /\ z \in [Pages -> 0 .. 1] /\ z \in [Pages -> {Undef} \cup 0 .. 1]
  BY SMTT(30) DEF FlagSubsets
<1>4. /\ flags' = [flags EXCEPT ![a] = f] /\ file' = [file EXCEPT ![a] = z]
      /\ want' = [want EXCEPT ![a] = z] /\ np' = [np EXCEPT ![a] = 0] /\ ld' = [ld EXCEPT ![a] = 0]
      /\ Drop(a)
  BY <1>2 DEF Unmap
<1>5. /\ \A p \in Pages : f[p] = {}
      /\ \A p \in Pages : z[p] = 0
  OBVIOUS
<1> HIDE DEF f, z
<1>6. /\ flags' \in [Slots -> [Pages -> FlagSubsets]] /\ file' \in [Slots -> [Pages -> 0 .. 1]]
      /\ want' \in [Slots -> [Pages -> {Undef} \cup 0 .. 1]] /\ ld' \in [Slots -> Int]
      /\ flags'[a] = f /\ file'[a] = z /\ want'[a] = z /\ np'[a] = 0 /\ ld'[a] = 0
      /\ \A b \in Slots \ {a} : /\ flags'[b] = flags[b] /\ file'[b] = file[b]
                                /\ want'[b] = want[b] /\ ld'[b] = ld[b] /\ np'[b] = np[b]
  BY <1>1, <1>3, <1>4, SMTT(30)
<1> QED
  BY <1>2, <1>4, <1>5, <1>6, DropIs, SMTT(30) DEF PageTypes, FlagSubsets

LEMMA SegvDirtyIs ==
  ASSUME SbTypes, CallInv, NEW t \in Threads, SegvDirty(t)
  PROVE  /\ op[t].a \in Slots /\ op[t].beg \in Pages /\ op[t].call \in Rw
         /\ flags' \in [Slots -> [Pages -> FlagSubsets]] /\ file' \in [Slots -> [Pages -> 0 .. 1]]
         /\ prot' \in [Slots -> [Pages -> {"none", "r", "rw"}]]
         /\ \A b \in Slots, p \in Pages :
              IF b = op[t].a /\ p = op[t].beg
              THEN flags'[b][p] = {DIRTY} /\ prot'[b][p] = "rw"
              ELSE flags'[b][p] = flags[b][p] /\ prot'[b][p] = prot[b][p] /\ file'[b][p] = file[b][p]
<1>1. op[t].call \in Rw
  BY DEF SegvDirty, CallInv, Fit, Rw
<1>2. PICK a \in Slots, q \in Pages : a = op[t].a /\ q = op[t].beg
  BY <1>1, RwSubject, SMTT(30)
<1> /\ flags \in [Slots -> [Pages -> FlagSubsets]] /\ file \in [Slots -> [Pages -> 0 .. 1]]
    /\ prot \in [Slots -> [Pages -> {"none", "r", "rw"}]]
  BY DEF SbTypes, FlagSubsets
<1>4. /\ flags' = [flags EXCEPT ![a][q] = {DIRTY}] /\ prot' = [prot EXCEPT ![a][q] = "rw"]
      /\ file' = [file EXCEPT ![a][q] = 0]
  BY <1>2 DEF SegvDirty
<1>5. /\ flags' \in [Slots -> [Pages -> FlagSubsets]]
      /\ \A b \in Slots, p \in Pages : flags'[b][p] = IF b = a /\ p = q THEN {DIRTY} ELSE flags[b][p]
  BY <1>4 DEF FlagSubsets
<1>6. /\ prot' \in [Slots -> [Pages -> {"none", "r", "rw"}]]
      /\ \A b \in Slots, p \in Pages : prot'[b][p] = IF b = a /\ p = q THEN "rw" ELSE prot[b][p]
  BY <1>4
<1>7. /\ file' \in [Slots -> [Pages -> 0 .. 1]]
      /\ \A b \in Slots, p \in Pages : file'[b][p] = IF b = a /\ p = q THEN 0 ELSE file[b][p]
  BY <1>4, SMTT(30)
<1> QED
  BY <1>1, <1>2, <1>5, <1>6, <1>7, SMTT(30)

\* The access is a write that is let through.
Stores(t) == op[t].call = "write" /\ prot[op[t].a][op[t].beg] = "rw"

LEMMA AccessIs ==
  ASSUME SbTypes, CallInv, NEW t \in Threads, Access(t)
  PROVE  /\ op[t].a \in Slots /\ op[t].beg \in Pages /\ op[t].call \in Rw
         /\ UNCHANGED <<start, lazy, head, lock, np, ld, flags, alock, prot, file, stats, acct>>
         /\ mem' \in [Slots -> [Pages -> 0 .. 1]]
         /\ want' \in [Slots -> [Pages -> {Undef} \cup 0 .. 1]]
         /\ IF Stores(t)
            THEN /\ mem'[op[t].a][op[t].beg] = want'[op[t].a][op[t].beg]
                 /\ \A b \in Slots, p \in Pages : ~ (b = op[t].a /\ p = op[t].beg) =>
                      mem'[b][p] = mem[b][p] /\ want'[b][p] = want[b][p]
            ELSE UNCHANGED <<mem, want>>
         /\ Goes(t, "find", op[t].beg) => prot[op[t].a][op[t].beg] # "rw"
         /\ Goes(t, "find", op[t].beg) \/ Returns(t)
<1> op[t].call \in Rw
  BY DEF Access, CallInv, Fit, Rw
<1>2. PICK a \in Slots, q \in Pages : a = op[t].a /\ q = op[t].beg
  BY RwSubject
<1>3. /\ mem \in [Slots -> [Pages -> 0 .. 1]] /\ prot \in [Slots -> [Pages -> {"none", "r", "rw"}]]
      /\ want \in [Slots -> [Pages -> {Undef} \cup 0 .. 1]]
  BY DEF SbTypes
<1>4. PICK v \in 0 .. 1 : v = IF want[a][q] = 1 THEN 0 ELSE 1
  BY SMTT(30)
<1>7. Goes(t, "find", op[t].beg) => prot[op[t].a][op[t].beg] # "rw"
  <2>1. ASSUME prot[op[t].a][op[t].beg] = "rw" PROVE Return(t)
    BY <2>1 DEF Access, Rw
  <2> QED
    BY <2>1, ReturnsIs DEF Goes, Returns
<1>8. Goes(t, "find", op[t].beg) \/ Returns(t)
  BY FaultMoves
<1>9. UNCHANGED <<start, lazy, head, lock, np, ld, flags, alock, prot, file, stats, acct>>
  BY DEF Access
<1>10. /\ mem' \in [Slots -> [Pages -> 0 .. 1]] /\ want' \in [Slots -> [Pages -> {Undef} \cup 0 .. 1]]
       /\ IF Stores(t)
            THEN /\ mem'[op[t].a][op[t].beg] = want'[op[t].a][op[t].beg]
                 /\ \A b \in Slots, p \in Pages : ~ (b = op[t].a /\ p = op[t].beg) =>
                      mem'[b][p] = mem[b][p] /\ want'[b][p] = want[b][p]
            ELSE UNCHANGED <<mem, want>>
  <2>1. CASE Stores(t)
    <3>1. mem' = [mem EXCEPT ![a][q] = v] /\ want' = [want EXCEPT ![a][q] = v]
      BY <1>2, <1>4, <2>1 DEF Access, Stores
    <3>2. /\ mem' \in [Slots -> [Pages -> 0 .. 1]] /\ want' \in [Slots -> [Pages -> {Undef} \cup 0 .. 1]]
          /\ mem'[a][q] = v /\ want'[a][q] = v
          /\ \A b \in Slots, p \in Pages : ~ (b = a /\ p = q) => mem'[b][p] = mem[b][p] /\ want'[b][p] = want[b][p]
      BY <1>3, <3>1
    <3> QED
      BY <1>2, <2>1, <3>2, SMTT(30)
  <2>2. CASE ~ Stores(t)
    <3>1. UNCHANGED <<mem, want>>
      BY <2>2 DEF Access, Stores, Rw
    <3> QED
      BY <1>3, <2>2, <3>1
  <2> QED
    BY <2>1, <2>2
<1> QED
  BY <1>2, <1>7, <1>8, <1>9, <1>10

\* The steps that leave the pages alone.
LEMMA PagesStill ==
  ASSUME NEW t, \/ Mopt \/ Begin(t) \/ InitLock(t) \/ InitBody(t) \/ Destroy(t) \/ Find(t) \/ AllocLock(t)
                \/ Track(t) \/ TrackNum(t) \/ Discharge(t) \/ MmapFail(t) \/ Link(t) \/ Unlink(t)
                \/ Hold(t) \/ MtouchallEach(t) \/ AllDone(t)
  PROVE  UNCHANGED <<np, ld, flags, mem, prot, file, want>>
  BY DEF Mopt, Begin, InitLock, InitBody, Destroy, Find, AllocLock, Track, TrackNum, Discharge, MmapFail, Link,
    Unlink, Hold, MtouchallEach, AllDone, data

LEMMA PageTypesStep ==
  ASSUME SbTypes, CallInv, NEW t \in Threads, Mopt \/ Begin(t) \/ Step(t)
  PROVE  PageTypes' /\ ld' \in [Slots -> Int]
<1> PageTypes /\ ld \in [Slots -> Int]
  BY DEF PageTypes, SbTypes
<1>2. CASE UNCHANGED <<np, ld, flags, mem, prot, file, want>>
  BY <1>2 DEF PageTypes
<1>3. CASE Access(t)
  BY <1>3, AccessIs DEF PageTypes
<1>4. CASE SegvLoad(t)
  <2>1. op[t].call \in Rw
    BY <1>4 DEF SegvLoad, CallInv, Fit, Rw
  <2>2. Cardinality(SegvPages(op[t].a, op[t].beg)) \in Nat /\ op[t].a \in Slots
    BY <2>1, RwSubject, SegvPagesIn, PagesFinite
  <2>3. CASE SwapIn(op[t].a, SegvPages(op[t].a, op[t].beg)) /\ UNCHANGED <<file, want>>
    BY <2>2, <2>3, SwapInIs DEF PageTypes, FlagSubsets
  <2>4. CASE UNCHANGED <<flags, mem, prot, ld, file, want>>
    BY <2>4 DEF PageTypes
  <2> QED
    BY <1>4, <2>3, <2>4 DEF SegvLoad
<1>5. CASE SegvDirty(t)
  <2>1. UNCHANGED <<mem, want, ld>>
    BY <1>5 DEF SegvDirty
  <2> QED
    BY <1>5, <2>1, SegvDirtyIs DEF PageTypes, FlagSubsets
<1>6. CASE Mmap(t) \/ Unmap(t)
  <2>1. op[t].a \in Slots
    BY <1>6, OneSubject DEF Mmap, Unmap, CallInv, Fit, OnAll
  <2> QED
    BY <1>6, <2>1, MmapIs, UnmapIs
<1>7. CASE Mtouch(t)
  <2>1. op[t].call = "mtouch"
    BY <1>7 DEF Mtouch, CallInv, Fit
  <2>2. Cardinality(TouchPages(t)) \in Nat /\ op[t].a \in Slots
    BY <2>1, TouchPagesIn, PagesFinite DEF TouchPages
  <2>3. SwapIn(op[t].a, TouchPages(t)) /\ UNCHANGED <<file, want>>
    BY <1>7 DEF Mtouch, TouchPages, TouchRange
  <2> QED
    BY <2>2, <2>3, SwapInIs DEF PageTypes, FlagSubsets
<1>8. CASE Mclear(t)
  <2>1. op[t].a \in Slots
    BY <1>8, OneSubject DEF Mclear, CallInv, Fit, OnAll
  <2>2. PICK S : SwapClr(op[t].a, S) /\ UNCHANGED <<mem, ld>>
    BY <1>8 DEF Mclear
  <2> QED
    BY <2>1, <2>2, SwapClrIs DEF PageTypes, FlagSubsets
<1>9. CASE MclearallEach(t)
  <2>1. head[op[t].beg + 1] \in Slots
    BY <1>9, EachSubject DEF MclearallEach
  <2>2. PICK S : SwapClr(head[op[t].beg + 1], S) /\ UNCHANGED <<mem, ld>>
    BY <1>9 DEF MclearallEach
  <2> QED
    BY <2>1, <2>2, SwapClrIs DEF PageTypes, FlagSubsets
<1>10. CASE Mevict(t) \/ MevictallEach(t)
  <2>1. PICK a \in Slots : SwapOut(a) /\ UNCHANGED <<mem, prot, want>>
    <3>1. CASE Mevict(t)
      <4>1. op[t].a \in Slots
        BY <3>1, OneSubject DEF Mevict, CallInv, Fit, OnAll
      <4> QED
        BY <3>1, <4>1 DEF Mevict
    <3>2. CASE MevictallEach(t)
      BY <3>2, EachSubject DEF MevictallEach
    <3> QED
      BY <1>10, <3>1, <3>2, SMTT(30)
  <2> QED
    BY <2>1, SwapOutIs DEF PageTypes, FlagSubsets
<1>11. CASE MevictDrop(t) \/ MevictallDrop(t)
  <2>1. PICK a \in Slots : Drop(a) /\ UNCHANGED <<ld, flags, file, want>>
    <3>1. CASE MevictDrop(t)
      <4>1. op[t].a \in Slots
        BY <3>1, OneSubject DEF MevictDrop, OnAll
      <4> QED
        BY <3>1, <4>1 DEF MevictDrop
    <3>2. CASE MevictallDrop(t)
      <4>1. op[t].beg < Len(head)
        BY <3>2 DEF MevictallDrop, CallInv, Args
      <4> QED
        BY <3>2, <4>1, EachSubject, SMTT(30) DEF MevictallDrop
    <3> QED
      BY <1>11, <3>1, <3>2
  <2> QED
    BY <2>1, DropIs DEF PageTypes, FlagSubsets
<1> QED
  BY <1>2, <1>3, <1>4, <1>5, <1>6, <1>7, <1>8, <1>9, <1>10, <1>11, PagesStill, SMTT(30) DEF Step

\* A call that begins with these arguments.
Begins(t, c, a, beg, end) ==
  /\ Alone(t)
  /\ Permitted(t, c, a, beg, end)
  /\ (a = Free) = (c \in {"mclearall", "mevictall", "mtouchall", "finalize"})
  /\ c \in Rw => end = beg + 1
  /\ c \in {"mtouch", "mclear"} => beg < end /\ end <= np[a]
  /\ c = "mmap" => beg = 0 /\ end > 0
  /\ c \notin Rw \cup {"mtouch", "mclear", "mmap"} => beg = 0 /\ end = 0
  /\ op'[t].call = c /\ op'[t].a = a /\ op'[t].beg = beg /\ op'[t].end = end
  /\ pc'[t] = IF init = 0 /\ c \notin Rw \cup {"finalize"} THEN "ilock" ELSE First(c)

LEMMA BeginIs ==
  ASSUME SbTypes, CallInv, NEW t \in Threads, Begin(t)
  PROVE  /\ pc[t] = "idle" /\ op[t].call = "none" /\ op[t].a = Free
         /\ \E c \in Calls \ {"none"}, a \in Slots \cup {Free}, beg \in Nat, end \in 0 .. N :
              Begins(t, c, a, beg, end)
         /\ UNCHANGED <<start, lazy, head, lock, np, ld, flags, alock, data, stats, acct>>
<1>1. pc[t] = "idle" /\ op[t].call = "none" /\ op[t].a = Free
  BY DEF Begin, Busy, CallInv, Fit, Args
<1>2. PICK c \in Calls \ {"none"}, a \in Slots \cup {Free}, beg \in 0 .. N, end \in 0 .. N :
       /\ Permitted(t, c, a, beg, end)
       /\ (a = Free) = (c \in {"mclearall", "mevictall", "mtouchall", "finalize"})
       /\ CASE c \in {"read", "write"} -> end = beg + 1
            [] c \in {"mtouch", "mclear"} -> beg < end /\ end <= np[a]
            [] c = "mmap" -> beg = 0 /\ end > 0
            [] OTHER -> beg = 0 /\ end = 0
       /\ op' = [op EXCEPT ![t] = [call |-> c, a |-> a, beg |-> beg, end |-> end, n |-> 0]]
       /\ Goto(t, IF init = 0 /\ c \notin {"read", "write", "finalize"} THEN "ilock"
                  ELSE First(c))
  BY DEF Begin
<1>3. [call |-> c, a |-> a, beg |-> beg, end |-> end, n |-> 0] \in Op
  BY SbAssumption, SMTT(30) DEF Op
<1>4. /\ op' \in [Threads -> Op] /\ \A u \in Threads \ {t} : op'[u] = op[u]
      /\ op'[t] = [call |-> c, a |-> a, beg |-> beg, end |-> end, n |-> 0]
  BY <1>2, <1>3 DEF SbTypes
<1>5. PICK l \in Labels : l = IF init = 0 /\ c \notin Rw \cup {"finalize"} THEN "ilock" ELSE First(c)
  BY FirstLabel DEF Labels
<1>6. Goto(t, l)
  BY <1>2, <1>5, SMTT(30) DEF Rw
<1>7. pc' \in [Threads -> Labels] /\ pc'[t] = l /\ \A u \in Threads \ {t} : pc'[u] = pc[u]
  BY <1>6 DEF Goto, SbTypes
<1>8. /\ c \in Rw => end = beg + 1
      /\ c \in {"mtouch", "mclear"} => beg < end /\ end <= np[a]
      /\ c = "mmap" => beg = 0 /\ end > 0
      /\ c \notin Rw \cup {"mtouch", "mclear", "mmap"} => beg = 0 /\ end = 0
  BY <1>2, SMTT(30) DEF Rw
<1>9. op'[t].call = c /\ op'[t].a = a /\ op'[t].beg = beg /\ op'[t].end = end
  BY <1>4, SMTT(30)
<1>10. Begins(t, c, a, beg, end)
  BY <1>2, <1>4, <1>5, <1>7, <1>8, <1>9, SMTT(30) DEF Begins, Alone
<1>11. beg \in Nat
  BY SbAssumption, SMTT(30)
<1>12. UNCHANGED <<start, lazy, head, lock, np, ld, flags, alock, data, stats, acct>>
  BY DEF Begin
<1> QED
  BY <1>1, <1>10, <1>11, <1>12

LEMMA CountTypesStep ==
  ASSUME SbTypes, CallInv, NEW t \in Threads, Mopt \/ Begin(t) \/ Step(t)
  PROVE  CountTypes'
<1> /\ cur \in Int /\ num \in Int /\ charged \in Int /\ M \in Nat
    /\ lost \in Nat /\ left \in Nat /\ torn \in BOOLEAN
  BY SbAssumption DEF SbTypes
<1> ld' \in [Slots -> Int]
  BY PageTypesStep
<1>3. op[t].n \in Int /\ op[t].end \in Nat
  BY OpFields, SbAssumption, SMTT(30)
<1>4. CASE UNCHANGED <<cur, num, charged, lost, left, torn>>
  BY <1>4 DEF CountTypes
<1>5. CASE Track(t) \/ Discharge(t) \/ Unmap(t) \/ Mmap(t)
  <2>1. cur' \in Int /\ num' \in Int /\ charged' \in Int
    BY <1>3, <1>5, SMTT(30) DEF Track, Discharge, Unmap, Mmap, stats, acct
  <2>2. UNCHANGED <<lost, left, torn>>
    BY <1>5 DEF Track, Discharge, Unmap, Mmap, acct, fails
  <2> QED
    BY <2>1, <2>2 DEF CountTypes
<1>10. CASE MmapFail(t)
  <2>1. /\ charged' = charged + M + op[t].end /\ lost' = lost + M + op[t].end /\ UNCHANGED <<cur, num>>
        /\ torn' \in BOOLEAN
        /\ left' = IF M * op[t].end < M + op[t].end THEN left + M + op[t].end - M * op[t].end ELSE left
    BY <1>10 DEF MmapFail, stats
  <2>2. M * op[t].end \in Nat
    BY <1>3, SMTT(30)
  <2>3. charged' \in Int /\ lost' \in Nat /\ left' \in Nat
    BY <1>3, <2>1, <2>2, SMTT(30)
  <2> QED
    BY <2>1, <2>3 DEF CountTypes
<1>6. CASE TrackNum(t)
  <2>1. op[t].a \in Slots
    BY <1>6, OneSubject DEF TrackNum, CallInv, Fit, OnAll
  <2>2. np[op[t].a] \in Int
    BY <2>1, SbAssumption, SMTT(30) DEF SbTypes
  <2>3. num' \in {num + M + np[op[t].a], num - M - np[op[t].a]} /\ UNCHANGED <<cur, charged, lost, left, torn>>
    BY <1>6 DEF TrackNum, acct, fails
  <2>4. num + M + np[op[t].a] \in Int /\ num - M - np[op[t].a] \in Int
    BY <2>2, SMTT(30)
  <2> QED
    BY <2>3, <2>4 DEF CountTypes
<1>7. CASE SegvLoad(t)
  <2>1. op[t].call \in Rw
    BY <1>7 DEF SegvLoad, CallInv, Fit, Rw
  <2>2. np[op[t].a] \in Int
    BY <2>1, RwSubject, SbAssumption, SMTT(30) DEF SbTypes
  <2>3. charged' \in {charged, charged + np[op[t].a]} /\ UNCHANGED <<cur, num, lost, left, torn>>
    BY <1>7 DEF SegvLoad, Charge, stats, fails
  <2>4. charged + np[op[t].a] \in Int
    BY <2>2, SMTT(30)
  <2> QED
    BY <2>3, <2>4 DEF CountTypes
<1>8. CASE Mtouch(t)
  <2>1. op[t].a \in Slots
    BY <1>8, OneSubject DEF Mtouch, CallInv, Fit, OnAll
  <2>2. np[op[t].a] \in Int
    BY <2>1, SbAssumption, SMTT(30) DEF SbTypes
  <2>3. charged' \in {charged, charged + np[op[t].a]} /\ UNCHANGED <<cur, num, lost, left, torn>>
    BY <1>8 DEF Mtouch, Charge, stats, fails
  <2>4. charged + np[op[t].a] \in Int
    BY <2>2, SMTT(30)
  <2> QED
    BY <2>3, <2>4 DEF CountTypes
<1>9. ASSUME \/ Mopt \/ Begin(t) \/ InitLock(t) \/ InitBody(t) \/ Destroy(t) \/ Access(t) \/ Find(t)
             \/ AllocLock(t) \/ SegvDirty(t) \/ Link(t) \/ Unlink(t) \/ Mclear(t) \/ Mevict(t)
             \/ MevictDrop(t) \/ Hold(t) \/ MtouchallEach(t) \/ MclearallEach(t) \/ MevictallEach(t)
             \/ MevictallDrop(t) \/ AllDone(t)
      PROVE  UNCHANGED <<cur, num, charged, lost, left, torn>>
  BY <1>9 DEF Mopt, Begin, InitLock, InitBody, Destroy, Access, Find, AllocLock, SegvDirty, Link, Unlink, Mclear,
    Mevict, MevictDrop, Hold, MtouchallEach, MclearallEach, MevictallEach, MevictallDrop, AllDone, stats, acct, fails
<1> QED
  BY <1>4, <1>5, <1>6, <1>7, <1>8, <1>9, <1>10 DEF Step

LEMMA AloneStep ==
  ASSUME SbTypes, CallInv, NEW t \in Threads, Begin(t) \/ Step(t)
  PROVE  Alone(t)
<1>1. \A l, k : Goes(t, l, k) => Alone(t)
  BY DEF Goes
<1>2. Returns(t) => Alone(t)
  BY DEF Returns
<1>3. Begin(t) => Alone(t)
  BY BeginIs, SMTT(30) DEF Begins
<1> QED
  BY <1>1, <1>2, <1>3, StartMoves, FaultMoves, TrackMoves, MapMoves, PageMoves, AllMoves DEF Step

LEMMA SbTypesStep ==
  ASSUME SbTypes, CallInv, NEW t \in Threads, Mopt \/ Begin(t) \/ Step(t)
  PROVE  SbTypes'
<1>1. pc' \in [Threads -> Labels] /\ op' \in [Threads -> Op]
  <2>1. Mopt => UNCHANGED <<pc, op>>
    BY DEF Mopt
  <2> QED
    BY <2>1, AloneStep DEF Alone, SbTypes
<1>2. StartTypes' /\ ListTypes' /\ PageTypes' /\ CountTypes'
  BY StartTypesStep, ListTypesStep, PageTypesStep, CountTypesStep
<1> QED
  BY <1>1, <1>2 DEF SbTypes, StartTypes, ListTypes, PageTypes, CountTypes

------------------------------------------------------------------------------
(***************************************************************************)
(* Calls and their arguments.                                              *)
(***************************************************************************)
\* The list changes only while nobody holds its lock, the size of an allocation
\* only in the call that maps or unmaps it.
LEMMA ListFrame ==
  ASSUME SbTypes, CallInv, NEW t \in Threads, Begin(t) \/ Step(t)
  PROVE  /\ head' = head \/ (lock = Free /\ (Link(t) \/ Unlink(t)))
         /\ np' = np \/ (op[t].a \in Slots /\ (Mmap(t) \/ Unmap(t)) /\ \A b \in Slots \ {op[t].a} : np'[b] = np[b])
<1>1. CASE Mmap(t) \/ Unmap(t)
  <2>1. op[t].a \in Slots
    BY <1>1, OneSubject DEF Mmap, Unmap, CallInv, Fit, OnAll
  <2> QED
    BY <1>1, <2>1, MmapIs, UnmapIs DEF Mmap, Unmap
<1>2. CASE Link(t) \/ Unlink(t)
  BY <1>2 DEF Link, Unlink
<1>3. CASE UNCHANGED <<head, np>>
  BY <1>3
<1> QED
  BY <1>1, <1>2, <1>3 DEF Step, Begin, InitLock, InitBody, Destroy, Access, Find, AllocLock, SegvLoad, SegvDirty,
    Track, TrackNum, Discharge, MmapFail, Mtouch, Mclear, Mevict, MevictDrop, Hold, MtouchallEach, MclearallEach,
    MevictallEach, MevictallDrop, AllDone

LEMMA CallOthers ==
  ASSUME ControlInv, NEW t \in Threads, Begin(t) \/ Step(t), NEW u \in Threads \ {t}
  PROVE  (Fit(pc[u], op[u].call) /\ Args(u))'
<1> SbTypes /\ CallInv /\ LockInv /\ ApartInv
  BY DEF ControlInv
<1>2. pc'[u] = pc[u] /\ op'[u] = op[u]
  BY AloneStep DEF Alone
<1> Fit(pc[u], op[u].call) /\ Args(u)
  BY DEF CallInv
<1>4. head' = head \/ ~ HasList(u)
  BY ListFrame, SbAssumption DEF LockInv
<1>5. op[u].a \in Slots => np'[op[u].a] = np[op[u].a]
  <2>1. CASE np' = np
    BY <2>1
  <2>2. CASE (Mmap(t) \/ Unmap(t)) /\ \A b \in Slots \ {op[t].a} : np'[b] = np[b]
    <3>1. op[t].call \in {"mmap", "munmap"}
      BY <2>2 DEF CallInv, Fit, Mmap, Unmap
    <3>2. op[u].a # op[t].a
      BY <3>1 DEF ApartInv, Apart
    <3> QED
      BY <2>2, <3>2
  <2> QED
    BY <2>1, <2>2, ListFrame
<1>6. op[u].call \in Rw \cup {"mtouch", "mclear"} => op[u].a \in Slots
  BY OneSubject DEF OnAll, Rw
<1>7. op[u].call \in Rw => op[u].beg \in PagesOf(op[u].a)'
  BY <1>2, <1>5, <1>6 DEF Args, PagesOf
<1>8. op[u].call \in {"mtouch", "mclear"} => op[u].beg < op[u].end /\ op[u].end <= np'[op[u].a]
  BY <1>5, <1>6 DEF Args
<1>9. pc[u] = "each" => op[u].beg <= Len(head')
  BY <1>4 DEF Args, HasList
<1>10. pc[u] = "drop" /\ op[u].call = "mevictall" => op[u].beg < Len(head')
  BY <1>4 DEF Args, HasList
<1> QED
  BY <1>2, <1>7, <1>8, <1>9, <1>10 DEF Args

\* A call that goes on or returns keeps its arguments within bounds.
LEMMA CallGoes ==
  ASSUME SbTypes, CallInv, NEW t \in Threads, NEW l \in Labels, Goes(t, l, op[t].beg),
         Fit(l, op[t].call), l \in Starting \cup {"hold"} => pc[t] \in Starting,
         l = "each" => op[t].beg <= Len(head'),
         l = "drop" /\ op[t].call = "mevictall" => op[t].beg < Len(head'),
         np' = np \/ op[t].call \in {"mmap", "munmap"}
  PROVE  (Fit(pc[t], op[t].call) /\ Args(t))'
<1> Args(t) /\ Fit(pc[t], op[t].call)
  BY DEF CallInv
<1>2. pc'[t] = l /\ op'[t].call = op[t].call /\ op'[t].a = op[t].a /\ op'[t].beg = op[t].beg /\ op'[t].end = op[t].end
  BY DEF Goes
<1>3. op[t].call \in Rw \cup {"mtouch", "mclear"} => np' = np
  BY DEF Rw
<1>4. op'[t].call \in Rw => op'[t].beg \in PagesOf(op[t].a)'
  BY <1>2, <1>3 DEF Args, PagesOf
<1>5. op'[t].call \in {"mtouch", "mclear"} => op'[t].beg < op'[t].end /\ op'[t].end <= np'[op'[t].a]
  BY <1>2, <1>3 DEF Args
<1>6. op'[t].call \in OnAll /\ pc'[t] \in Starting \cup {"hold"} => op'[t].beg = 0
  BY <1>2 DEF Args
<1> QED
  BY <1>2, <1>4, <1>5, <1>6 DEF Args

LEMMA CallReturns ==
  ASSUME NEW t \in Threads, Returns(t)
  PROVE  (Fit(pc[t], op[t].call) /\ Args(t))'
  BY SMTT(30) DEF Returns, NoOp, Fit, Args, Rw, OnOne, OnAll, Starting

LEMMA CallBegins ==
  ASSUME SbTypes, CallInv, NEW t \in Threads, Begin(t)
  PROVE  (Fit(pc[t], op[t].call) /\ Args(t))'
<1>1. UNCHANGED <<np, head>>
  BY DEF Begin
<1>2. PICK c \in Calls \ {"none"}, a \in Slots \cup {Free}, beg \in Nat, end \in 0 .. N : Begins(t, c, a, beg, end)
  BY BeginIs
<1>3. op'[t].call = c /\ op'[t].a = a /\ op'[t].beg = beg /\ op'[t].end = end
  BY <1>2 DEF Begins
<1>4. Fit(pc'[t], c) /\ pc'[t] \notin {"each", "drop"}
  <2>1. CASE pc'[t] = "ilock" /\ c \notin Rw \cup {"finalize"}
    BY <2>1 DEF Fit, Starting
  <2>2. CASE pc'[t] = First(c)
    BY <2>2, FirstLabel, SMTT(30) DEF First, Calls
  <2> QED
    BY <1>2, <2>1, <2>2 DEF Begins
<1>5. (a = Free) <=> c \in OnAll \cup {"none", "finalize"}
  BY <1>2 DEF Begins, OnAll
<1>6. c \in Rw => beg \in PagesOf(a)'
  BY <1>1, <1>2, SMTT(30) DEF Begins, Permitted, Rw, PagesOf
<1>7. c \in {"mtouch", "mclear"} => beg < end /\ end <= np'[a]
  BY <1>1, <1>2 DEF Begins
<1>8. c \in OnAll => beg = 0
  BY <1>2 DEF Begins, OnAll, Rw
<1> QED
  BY <1>3, <1>4, <1>5, <1>6, <1>7, <1>8 DEF Args

LEMMA CallSteps ==
  ASSUME SbTypes, CallInv, NEW t \in Threads, Step(t)
  PROVE  (Fit(pc[t], op[t].call) /\ Args(t))'
<1> Fit(pc[t], op[t].call) /\ Args(t)
  BY DEF CallInv
<1>2. np' = np \/ op[t].call \in {"mmap", "munmap"}
  BY ListFrame DEF Mmap, Unmap, Fit
<1>3. CASE Returns(t)
  BY <1>3, CallReturns
<1>4. ASSUME NEW l \in Labels \ {"hold", "each", "drop"}, l \in Starting => pc[t] \in Starting,
             Goes(t, l, op[t].beg), Fit(l, op[t].call)
      PROVE  (Fit(pc[t], op[t].call) /\ Args(t))'
  BY <1>2, <1>4, CallGoes
<1>5. CASE InitLock(t) \/ InitBody(t)
  <2>1. pc[t] \in Starting
    BY <1>5 DEF InitLock, InitBody, Starting
  <2>2. PICK l \in Labels : Goes(t, l, op[t].beg) /\ Fit(l, op[t].call) /\ l \notin {"each", "drop"}
    <3>1. op[t].call \in Calls \ {"none"}
      BY <2>1, OpFields DEF Fit, Starting
    <3>2. First(op[t].call) \in Labels \ {"each", "drop"} /\ Fit(First(op[t].call), op[t].call)
      BY <3>1, FirstLabel DEF First, Calls
    <3>3. pc[t] = "ilock" => Fit("ipage", op[t].call)
      BY DEF Fit, Starting
    <3>4. InitLock(t) => pc[t] = "ilock"
      BY DEF InitLock
    <3>5. "ipage" \in Labels
      BY DEF Labels
    <3> QED
      BY <1>5, <3>2, <3>3, <3>4, <3>5, StartMoves
  <2> QED
    BY <1>2, <2>1, <2>2, CallGoes
<1>6. CASE Access(t)
  <2>1. Fit("find", op[t].call) /\ "find" \in Labels
    BY <1>6 DEF Access, Fit, Labels, Starting, Rw, OnOne
  <2> QED
    BY <1>3, <1>4, <1>6, <2>1, FaultMoves DEF Starting
<1>7. CASE Find(t)
  <2>1. op[t].call # "mexist" => Fit("alock", op[t].call)
    BY <1>7 DEF Find, Fit, Starting, Rw, OnOne
  <2>2. "alock" \in Labels
    BY DEF Labels
  <2> QED
    BY <1>3, <1>4, <1>7, <2>1, <2>2, FaultMoves DEF Starting
<1>8. CASE AllocLock(t)
  <2>1. op[t].call \in (Rw \cup OnOne) \ {"mexist"}
    BY <1>8 DEF AllocLock, Fit
  <2>2. Fit(op[t].call, op[t].call) /\ op[t].call \in Labels \ {"hold", "each", "drop", "ilock", "ipage"}
    BY <2>1, CallLabel DEF Rw, OnOne
  <2> QED
    BY <1>4, <1>8, <2>2, FaultMoves DEF Starting
<1>9. CASE SegvLoad(t)
  <2>1. Fit("track", op[t].call) /\ Fit("abort", op[t].call) /\ {"track", "abort"} \subseteq Labels
    BY <1>9 DEF SegvLoad, Fit, Labels, Starting, Rw, OnOne
  <2> QED
    BY <1>4, <1>9, <2>1, PageMoves DEF Starting
<1>10. CASE SegvDirty(t)
  <2>1. Fit("access", op[t].call) /\ "access" \in Labels
    BY <1>10 DEF SegvDirty, Fit, Labels, Starting, Rw, OnOne
  <2> QED
    BY <1>4, <1>10, <2>1, FaultMoves DEF Starting
<1>11. CASE Track(t)
  <2>1. /\ op[t].call \in Rw => Fit("access", op[t].call)
        /\ op[t].call \in {"mmap", "munmap"} => Fit("tracknum", op[t].call)
        /\ op[t].call \in {"mevict", "mevictall"} => Fit("discharge", op[t].call)
    BY DEF Fit, Starting, Rw, OnOne
  <2>2. {"access", "tracknum", "discharge"} \subseteq Labels
    BY DEF Labels
  <2> QED
    BY <1>3, <1>4, <1>11, <2>1, <2>2, TrackMoves DEF Starting
<1>12. CASE TrackNum(t)
  <2>1. op[t].call = "munmap" => Fit("destroy", op[t].call)
    BY DEF Fit, Starting, Rw, OnOne
  <2>2. "destroy" \in Labels
    BY DEF Labels
  <2> QED
    BY <1>3, <1>4, <1>12, <2>1, <2>2, TrackMoves DEF Starting
<1>13. CASE Mmap(t)
  <2>1. Fit("link", op[t].call) /\ "link" \in Labels
    BY <1>13 DEF Mmap, Fit, Labels, Starting, Rw, OnOne
  <2> QED
    BY <1>4, <1>13, <2>1, MapMoves DEF Starting
<1>14. CASE Link(t) \/ Unlink(t) \/ Mtouch(t) \/ MevictDrop(t)
  <2>1. Fit("track", op[t].call) /\ "track" \in Labels
    BY <1>14 DEF Link, Unlink, Mtouch, MevictDrop, Fit, Labels, Starting, Rw, OnOne
  <2> QED
    BY <1>4, <1>14, <2>1, MapMoves, PageMoves DEF Starting
<1>15. CASE Mevict(t)
  <2>1. Fit("drop", op[t].call) /\ "drop" \in Labels /\ op[t].call # "mevictall"
    BY <1>15 DEF Mevict, Fit, Labels, Starting, Rw, OnOne
  <2> QED
    BY <1>2, <1>15, <2>1, PageMoves, CallGoes DEF Starting
<1>16. CASE Hold(t)
  <2>1. Fit("each", op[t].call) /\ "each" \in Labels /\ op[t].call \in OnAll
    BY <1>16 DEF Hold, Fit, Labels, Starting, Rw, OnOne, OnAll
  <2>2. head' \in Seq(Slots)
    BY <1>16 DEF Hold, SbTypes
  <2>3. op[t].beg = 0 /\ op[t].beg <= Len(head')
    BY <1>16, <2>1, <2>2, SMTT(30) DEF Hold, Args
  <2> QED
    BY <1>2, <1>16, <2>1, <2>3, AllMoves, CallGoes DEF Starting
<1>17. CASE MtouchallEach(t)
  <2>1. Fit("relock", op[t].call) /\ "relock" \in Labels
    BY <1>17 DEF MtouchallEach, Fit, Labels, Starting, Rw, OnOne, OnAll
  <2> QED
    BY <1>3, <1>4, <1>17, <2>1, AllMoves DEF Starting
<1>18. CASE MevictallEach(t)
  <2>1. Fit("drop", op[t].call) /\ "drop" \in Labels /\ op[t].beg < Len(head')
    BY <1>18 DEF MevictallEach, Fit, Labels, Starting, Rw, OnOne, OnAll
  <2> QED
    BY <1>2, <1>18, <2>1, AllMoves, CallGoes DEF Starting
<1>19. CASE MclearallEach(t) \/ MevictallDrop(t)
  <2>1. Goes(t, "each", op[t].beg + 1) /\ head' = head /\ op[t].beg < Len(head) /\ op[t].call \in {"mclearall", "mevictall"}
    BY <1>19, AllMoves DEF MclearallEach, MevictallDrop, Args
  <2>2. head \in Seq(Slots) /\ op[t].beg \in Nat /\ Len(head) \in Nat
    BY OpFields, SMTT(30) DEF SbTypes
  <2>3. op[t].beg + 1 <= Len(head)
    BY <2>1, <2>2, SMTT(30)
  <2>4. Fit("each", op[t].call)
    BY <2>1 DEF Fit, OnAll, Starting
  <2> QED
    BY <2>1, <2>3, <2>4 DEF Goes, Args, OnAll, Rw, Starting
<1>20. CASE AllDone(t)
  <2>1. op[t].call = "mevictall" => Fit("track", op[t].call)
    BY DEF Fit, Starting, Rw, OnOne
  <2>2. "track" \in Labels
    BY DEF Labels
  <2> QED
    BY <1>3, <1>4, <1>20, <2>1, <2>2, AllMoves DEF Starting
<1>21. CASE Destroy(t) \/ Discharge(t) \/ MmapFail(t) \/ Unmap(t) \/ Mclear(t)
  BY <1>3, <1>21, StartMoves, TrackMoves, MapMoves, PageMoves
<1> QED
  BY <1>5, <1>6, <1>7, <1>8, <1>9, <1>10, <1>11, <1>12, <1>13, <1>14, <1>15, <1>16, <1>17, <1>18, <1>19, <1>20, <1>21
    DEF Step

LEMMA CallInvStep ==
  ASSUME ControlInv, NEW t \in Threads, Begin(t) \/ Step(t)
  PROVE  CallInv'
<1>1. SbTypes /\ CallInv
  BY DEF ControlInv
<1>2. (Fit(pc[t], op[t].call) /\ Args(t))'
  BY <1>1, CallBegins, CallSteps
<1> QED
  BY <1>2, CallOthers DEF CallInv

------------------------------------------------------------------------------
(***************************************************************************)
(* Calls that are kept apart.                                              *)
(***************************************************************************)
LEMMA StepMoves ==
  ASSUME SbTypes, CallInv, NEW t \in Threads, Step(t)
  PROVE  \/ Returns(t)
         \/ \E l \in Labels, k \in Nat :
              Goes(t, l, k) /\ (k = op[t].beg \/ op[t].call \in {"mclearall", "mevictall"})
<1>1. \A l, k : Goes(t, l, k) => l \in Labels
  BY DEF Goes, Alone
<1>2. op[t].beg \in Nat /\ op[t].beg + 1 \in Nat
  BY OpFields, SMTT(30)
<1>3. CASE MclearallEach(t) \/ MevictallDrop(t)
  <2>1. Goes(t, "each", op[t].beg + 1) /\ op[t].call \in {"mclearall", "mevictall"}
    BY <1>3, AllMoves DEF MclearallEach, MevictallDrop
  <2> QED
    BY <1>1, <1>2, <2>1
<1>4. CASE \E l : Goes(t, l, op[t].beg)
  BY <1>1, <1>2, <1>4
<1>5. CASE Returns(t)
  BY <1>5
<1>6. CASE InitLock(t) \/ InitBody(t) \/ Destroy(t)
  BY <1>4, <1>5, <1>6, StartMoves
<1>7. CASE Access(t) \/ Find(t) \/ AllocLock(t) \/ SegvDirty(t)
  BY <1>4, <1>5, <1>7, FaultMoves
<1>8. CASE Track(t) \/ TrackNum(t) \/ Discharge(t)
  BY <1>4, <1>5, <1>8, TrackMoves
<1>9. CASE Mmap(t) \/ MmapFail(t) \/ Link(t) \/ Unlink(t) \/ Unmap(t)
  BY <1>4, <1>5, <1>9, MapMoves
<1>10. CASE SegvLoad(t) \/ Mtouch(t) \/ Mclear(t) \/ Mevict(t) \/ MevictDrop(t)
  BY <1>4, <1>5, <1>10, PageMoves
<1>11. CASE Hold(t) \/ MtouchallEach(t) \/ MevictallEach(t) \/ AllDone(t)
  BY <1>4, <1>5, <1>11, AllMoves
<1> QED
  BY <1>3, <1>6, <1>7, <1>8, <1>9, <1>10, <1>11 DEF Step

LEMMA ApartSteps ==
  ASSUME SbTypes, CallInv, ApartInv, NEW t \in Threads, Step(t)
  PROVE  ApartInv'
<1>1. ASSUME NEW x \in Threads, NEW y \in Threads, x # y
      PROVE  Apart(x, y)'
  <2>1. Apart(x, y)
    BY <1>1 DEF ApartInv
  <2>2. \A u \in Threads \ {t} : op'[u] = op[u]
    BY AloneStep DEF Alone
  <2>3. CASE Returns(t)
    <3>1. op'[t].call = "none" /\ op'[t].a = Free
      BY <2>3, SMTT(30) DEF Returns, NoOp
    <3>2. x # t => op'[x] = op[x] /\ (op[x].call \in {"mmap", "munmap"} => op[x].a # Free)
      BY <2>2, OneSubject, SbAssumption DEF OnAll
    <3> QED
      BY <1>1, <2>1, <2>2, <3>1, <3>2 DEF Apart, Discards, Rw
  <2>4. CASE \E l \in Labels, k \in Nat :
              Goes(t, l, k) /\ (k = op[t].beg \/ op[t].call \in {"mclearall", "mevictall"})
    <3>1. /\ op'[t].call = op[t].call /\ op'[t].a = op[t].a
          /\ op[t].call \in Rw => op'[t].beg = op[t].beg
      BY <2>4 DEF Goes, Rw
    <3> QED
      BY <1>1, <2>1, <2>2, <3>1 DEF Apart, Discards
  <2> QED
    BY <2>3, <2>4, StepMoves
<1> QED
  BY <1>1 DEF ApartInv

LEMMA ApartBegins ==
  ASSUME ~ SharePages, SbTypes, CallInv, ApartInv, NEW t \in Threads, Begin(t)
  PROVE  ApartInv'
<1>1. PICK c \in Calls \ {"none"}, a \in Slots \cup {Free}, beg \in Nat, end \in 0 .. N : Begins(t, c, a, beg, end)
  BY BeginIs
<1>2. op'[t].call = c /\ op'[t].a = a /\ op'[t].beg = beg /\ \A u \in Threads \ {t} : op'[u] = op[u]
  BY <1>1 DEF Begins, Alone
<1> Permitted(t, c, a, beg, end) /\ ((a = Free) = (c \in {"mclearall", "mevictall", "mtouchall", "finalize"}))
  BY <1>1 DEF Begins
<1>4. ASSUME NEW u \in Threads \ {t}
      PROVE  Apart(t, u)' /\ Apart(u, t)'
  <2>1. CASE u \notin Others(t)
    <3>1. op[u].call = "none" /\ op[u].a = Free
      BY <2>1 DEF Others, Busy, CallInv, Fit, Args
    <3>2. op'[u] = op[u] /\ (c \in {"mmap", "munmap"} => a # Free)
      BY <1>2
    <3> QED
      BY <1>2, <3>1, <3>2 DEF Apart, Discards, Rw
  <2>2. CASE u \in Others(t)
    <3>1. op[u].call \in {"mmap", "munmap"} => op[u].a # a
      <4>1. op[u].call \in {"mmap", "munmap"} => op[u].a # Free
        BY OneSubject, SbAssumption DEF OnAll
      <4>2. a # Free => c \in Rw \cup OnOne \cup {"mmap", "munmap"}
        BY DEF Calls, Rw, OnOne
      <4>3. c \in Rw \cup OnOne \cup {"mmap", "munmap"} /\ op[u].call \in {"mmap", "munmap"} => op[u].a # a
        BY <2>2, SMTT(30) DEF Permitted, Rw, OnOne
      <4> QED
        BY <4>1, <4>2, <4>3
    <3>2. c \in {"mmap", "munmap"} => op[u].a # a
      BY <2>2, SMTT(30) DEF Permitted
    <3>3. c = "write" => ~ Discards(u, a)
      BY <2>2, SMTT(30) DEF Permitted
    <3>4. op[u].call = "write" => ~ (c \in {"mclear", "mevict"} /\ a = op[u].a) /\ c \notin {"mclearall", "mevictall"}
      BY <2>2, SMTT(30) DEF Permitted
    <3>5. c \in Rw /\ op[u].call \in Rw /\ a = op[u].a => beg # op[u].beg
      BY <2>2, SMTT(30) DEF Permitted, Rw
    <3>6. Apart(t, u)'
      BY <1>2, <3>2, <3>3, <3>5 DEF Apart, Discards
    <3>7. Apart(u, t)'
      BY <1>2, <3>1, <3>4, <3>5 DEF Apart, Discards
    <3> QED
      BY <3>6, <3>7, SMTT(30)
  <2> QED
    BY <2>1, <2>2
<1>5. ASSUME NEW x \in Threads \ {t}, NEW y \in Threads \ {t}, x # y
      PROVE  Apart(x, y)'
  <2>1. Apart(x, y) /\ op'[x] = op[x] /\ op'[y] = op[y]
    BY <1>2, <1>5 DEF ApartInv
  <2> QED
    BY <2>1 DEF Apart, Discards
<1> QED
  BY <1>4, <1>5 DEF ApartInv

------------------------------------------------------------------------------
(***************************************************************************)
(* The locks.                                                              *)
(***************************************************************************)
Owns(u, a) == HasAlloc(u) /\ Target(u) = a

LEMMA LockOthers ==
  ASSUME ControlInv, NEW t \in Threads, Begin(t) \/ Step(t), NEW u \in Threads \ {t}
  PROVE  (HasList(u)' <=> HasList(u)) /\ \A a : Owns(u, a)' <=> Owns(u, a)
<1> SbTypes /\ CallInv /\ LockInv
  BY DEF ControlInv
<1>2. pc'[u] = pc[u] /\ op'[u] = op[u]
  BY AloneStep DEF Alone
<1>3. HasList(u)' <=> HasList(u)
  BY <1>2 DEF HasList
<1>4. HasAlloc(u)' <=> HasAlloc(u)
  BY <1>2 DEF HasAlloc
<1>5. HasAlloc(u) => Target(u)' = Target(u)
  <2>1. HasAlloc(u) /\ op[u].call = "mevictall" => HasList(u)
    BY DEF CallInv, Fit, HasAlloc, HasList, Rw
  <2>2. HasList(u) => head' = head
    BY ListFrame, SbAssumption DEF LockInv
  <2> QED
    BY <1>2, <2>1, <2>2 DEF Target
<1> QED
  BY <1>3, <1>4, <1>5 DEF Owns

LEMMA ListLockStep ==
  ASSUME ControlInv, NEW t \in Threads, Begin(t) \/ Step(t)
  PROVE  \A u \in Threads : lock' = u <=> HasList(u)'
<1> SbTypes /\ CallInv /\ LockInv
  BY DEF ControlInv
<1>2. \A u \in Threads \ {t} : HasList(u)' <=> HasList(u)
  BY LockOthers
<1>3. \A u \in Threads : lock = u <=> HasList(u)
  BY DEF LockInv
<1>4. CASE lock' = lock /\ (HasList(t)' <=> HasList(t))
  BY <1>2, <1>3, <1>4, SMTT(30)
<1>5. CASE lock = Free /\ lock' = t /\ HasList(t)'
  BY <1>2, <1>3, <1>5, SbAssumption, SMTT(30)
<1>6. CASE HasList(t) /\ lock' = Free /\ ~ HasList(t)'
  BY <1>2, <1>3, <1>6, SbAssumption, SMTT(30)
<1> Fit(pc[t], op[t].call)
  BY DEF CallInv
<1>8. CASE Hold(t)
  <2>1. HasList(t)'
    BY <1>8, AllMoves DEF Goes, HasList
  <2> QED
    BY <1>5, <1>8, <2>1 DEF Hold
<1>9. CASE MtouchallEach(t)
  <2>1. HasList(t)
    BY <1>9 DEF MtouchallEach, HasList
  <2>2. CASE head = <<>>
    <3>1. Return(t) /\ lock' = Free
      BY <1>9, <2>2 DEF MtouchallEach
    <3>2. ~ HasList(t)'
      BY <3>1, ReturnsIs DEF Returns, HasList
    <3> QED
      BY <1>6, <2>1, <3>1, <3>2, SMTT(30)
  <2>3. CASE head # <<>>
    <3>1. pc' = [pc EXCEPT ![t] = "relock"] /\ lock' = lock
      BY <1>9, <2>3 DEF MtouchallEach, Goto
    <3>2. HasList(t)'
      BY <3>1 DEF HasList, SbTypes
    <3> QED
      BY <1>4, <2>1, <3>1, <3>2, SMTT(30)
  <2> QED
    BY <2>2, <2>3
<1>10. CASE AllDone(t)
  <2>1. HasList(t) /\ lock' = Free
    BY <1>10 DEF AllDone, HasList
  <2>2. ~ HasList(t)'
    BY <1>10, AllMoves DEF Goes, Returns, HasList
  <2> QED
    BY <1>6, <2>1, <2>2
<1>11. CASE MclearallEach(t) \/ MevictallEach(t) \/ MevictallDrop(t)
  <2>1. HasList(t) /\ lock' = lock
    BY <1>11 DEF MclearallEach, MevictallEach, MevictallDrop, HasList
  <2>2. HasList(t)'
    BY <1>11, AllMoves DEF Goes, HasList, MevictallEach
  <2> QED
    BY <1>4, <2>1, <2>2
<1>12. ASSUME lock' = lock, ~ HasList(t), ~ HasList(t)'
       PROVE  \A u \in Threads : lock' = u <=> HasList(u)'
  BY <1>4, <1>12
<1>13. Returns(t) => ~ HasList(t)'
  BY DEF Returns, HasList
<1>14. \A l, k : Goes(t, l, k) /\ l \notin {"each", "relock", "drop"} => ~ HasList(t)'
  BY DEF Goes, HasList
<1>15. CASE Begin(t)
  <2>1. lock' = lock /\ ~ HasList(t)
    BY <1>15 DEF Begin, Busy, HasList
  <2>2. ~ HasList(t)'
    <3>1. PICK c \in Calls \ {"none"} : pc'[t] = "ilock" \/ pc'[t] = First(c)
      BY <1>15, BeginIs DEF Begins
    <3> QED
      BY <3>1 DEF First, Calls, HasList
  <2> QED
    BY <1>12, <2>1, <2>2
<1>16. CASE InitLock(t) \/ InitBody(t) \/ Destroy(t)
  <2>1. lock' = lock /\ ~ HasList(t)
    BY <1>16 DEF InitLock, InitBody, Destroy, HasList
  <2>2. ~ HasList(t)'
    <3>1. CASE Returns(t)
      BY <1>13, <3>1
    <3>2. CASE \E l, k : Goes(t, l, k) /\ (l = First(op[t].call) /\ op[t].call \in Calls \ {"none"})
      BY <1>14, <3>2 DEF First, Calls
    <3>3. CASE Goes(t, "ipage", op[t].beg)
      BY <1>14, <3>3, SMTT(30)
    <3>4. pc[t] \in Starting => op[t].call \in Calls \ {"none"}
      BY OpFields DEF Fit, Starting
    <3> QED
      BY <1>16, <3>1, <3>2, <3>3, <3>4, StartMoves DEF InitLock, InitBody, Starting
  <2> QED
    BY <1>12, <2>1, <2>2
<1>17. CASE Access(t) \/ Find(t) \/ SegvDirty(t) \/ SegvLoad(t) \/ Mtouch(t) \/ Mclear(t) \/ Mevict(t) \/ MevictDrop(t)
  <2>1. lock' = lock /\ ~ HasList(t)
    BY <1>17 DEF Access, Find, SegvDirty, SegvLoad, Mtouch, Mclear, Mevict, MevictDrop, HasList
  <2>2. CASE ~ Mevict(t)
    BY <1>12, <1>13, <1>14, <1>17, <2>1, <2>2, FaultMoves, PageMoves, SMTT(30)
  <2>3. CASE Mevict(t)
    <3>1. op'[t].call = "mevict"
      BY <2>3, PageMoves DEF Mevict, Fit, Goes
    <3>2. pc'[t] = "drop"
      BY <2>3, PageMoves DEF Goes
    <3> QED
      BY <1>12, <2>1, <3>1, <3>2 DEF HasList
  <2> QED
    BY <2>2, <2>3
<1>18. CASE AllocLock(t)
  <2>1. lock' = lock /\ ~ HasList(t)
    BY <1>18 DEF AllocLock, HasList
  <2>2. op[t].call \notin {"each", "relock", "drop"}
    BY <1>18 DEF AllocLock, Fit, Rw, OnOne
  <2> QED
    BY <1>12, <1>14, <1>18, <2>1, <2>2, FaultMoves
<1>19. CASE Track(t) \/ TrackNum(t) \/ Discharge(t) \/ Mmap(t) \/ MmapFail(t) \/ Link(t) \/ Unlink(t) \/ Unmap(t)
  <2>1. lock' = lock /\ ~ HasList(t)
    BY <1>19 DEF Track, TrackNum, Discharge, Mmap, MmapFail, Link, Unlink, Unmap, HasList
  <2> QED
    BY <1>12, <1>13, <1>14, <1>19, <2>1, TrackMoves, MapMoves, SMTT(30)
<1> QED
  BY <1>8, <1>9, <1>10, <1>11, <1>15, <1>16, <1>17, <1>18, <1>19 DEF Step

LEMMA OwnStarts ==
  ASSUME ControlInv, NEW t \in Threads, Begin(t) \/ Step(t), NEW a \in Slots,
         alock[a] = Free, alock' = [alock EXCEPT ![a] = t], ~ HasAlloc(t), HasAlloc(t)', Target(t)' = a
  PROVE  \A u \in Threads, b \in Slots : alock'[b] = u <=> Owns(u, b)'
<1>1. \A u \in Threads, b \in Slots : alock[b] = u <=> Owns(u, b)
  BY DEF ControlInv, LockInv, Owns
<1>2. alock'[a] = t /\ \A b \in Slots \ {a} : alock'[b] = alock[b]
  BY DEF ControlInv, SbTypes
<1>3. \A u \in Threads \ {t}, b \in Slots : Owns(u, b)' <=> Owns(u, b)
  BY LockOthers
<1>4. \A b \in Slots : (Owns(t, b)' <=> b = a) /\ ~ Owns(t, b)
  BY DEF Owns
<1> QED
  BY <1>1, <1>2, <1>3, <1>4, SbAssumption, SMTT(30)

LEMMA OwnEnds ==
  ASSUME ControlInv, NEW t \in Threads, Begin(t) \/ Step(t), NEW a \in Slots,
         Owns(t, a), alock' = [alock EXCEPT ![a] = Free], ~ HasAlloc(t)'
  PROVE  \A u \in Threads, b \in Slots : alock'[b] = u <=> Owns(u, b)'
<1>1. \A u \in Threads, b \in Slots : alock[b] = u <=> Owns(u, b)
  BY DEF ControlInv, LockInv, Owns
<1>2. alock'[a] = Free /\ \A b \in Slots \ {a} : alock'[b] = alock[b]
  BY DEF ControlInv, SbTypes
<1>3. \A u \in Threads \ {t}, b \in Slots : Owns(u, b)' <=> Owns(u, b)
  BY LockOthers
<1>4. \A b \in Slots : ~ Owns(t, b)' /\ (Owns(t, b) <=> b = a)
  BY DEF Owns
<1> QED
  BY <1>1, <1>2, <1>3, <1>4, SbAssumption, SMTT(30)

LEMMA OwnSame ==
  ASSUME ControlInv, NEW t \in Threads, Begin(t) \/ Step(t), alock' = alock,
         HasAlloc(t)' <=> HasAlloc(t), HasAlloc(t) => Target(t)' = Target(t)
  PROVE  \A u \in Threads, b \in Slots : alock'[b] = u <=> Owns(u, b)'
<1>1. \A u \in Threads, b \in Slots : alock[b] = u <=> Owns(u, b)
  BY DEF ControlInv, LockInv, Owns
<1>2. \A u \in Threads \ {t}, b \in Slots : Owns(u, b)' <=> Owns(u, b)
  BY LockOthers
<1>3. \A b \in Slots : Owns(t, b)' <=> Owns(t, b)
  BY DEF Owns
<1> QED
  BY <1>1, <1>2, <1>3, SMTT(30)

LEMMA AllocLockStep ==
  ASSUME ControlInv, NEW t \in Threads, Begin(t) \/ Step(t)
  PROVE  \A u \in Threads, b \in Slots : alock'[b] = u <=> Owns(u, b)'
<1> SbTypes /\ CallInv /\ LockInv
  BY DEF ControlInv
<1> Fit(pc[t], op[t].call) /\ Args(t)
  BY DEF CallInv
<1>3. Returns(t) => ~ HasAlloc(t)'
  BY DEF Returns, HasAlloc
<1>4. \A l, k : Goes(t, l, k) /\ l \notin {"read", "write", "mtouch", "mclear", "mevict", "drop", "abort"} => ~ HasAlloc(t)'
  BY DEF Goes, HasAlloc
<1>5. ASSUME alock' = alock, ~ HasAlloc(t), ~ HasAlloc(t)'
      PROVE  \A u \in Threads, b \in Slots : alock'[b] = u <=> Owns(u, b)'
  BY <1>5, OwnSame
<1>6. CASE AllocLock(t)
  <2>1. op[t].call \in (Rw \cup OnOne) \ {"mexist"} /\ op[t].a \in Slots
    BY <1>6, OneSubject DEF AllocLock, Fit, Rw, OnOne, OnAll
  <2>2. pc'[t] = op[t].call /\ op'[t].call = op[t].call /\ op'[t].a = op[t].a
    BY <1>6, FaultMoves DEF Goes
  <2>3. HasAlloc(t)' /\ Target(t)' = op[t].a
    BY <2>1, <2>2 DEF HasAlloc, Target, Rw, OnOne
  <2>4. ~ HasAlloc(t)
    BY <1>6 DEF AllocLock, HasAlloc
  <2> QED
    BY <1>6, <2>1, <2>3, <2>4, OwnStarts DEF AllocLock
<1>7. CASE MevictallEach(t)
  <2>1. head[op[t].beg + 1] \in Slots
    BY <1>7, EachSubject DEF MevictallEach
  <2>2. pc'[t] = "drop" /\ op'[t].call = "mevictall" /\ op'[t].beg = op[t].beg /\ head' = head
    BY <1>7, AllMoves DEF Goes, MevictallEach
  <2>3. HasAlloc(t)' /\ Target(t)' = head[op[t].beg + 1] /\ ~ HasAlloc(t)
    BY <1>7, <2>2 DEF HasAlloc, Target, MevictallEach
  <2> QED
    BY <1>7, <2>1, <2>3, OwnStarts DEF MevictallEach
<1>8. CASE SegvDirty(t) \/ Mtouch(t) \/ Mclear(t) \/ MevictDrop(t)
  <2>1. op[t].call \in Rw \cup {"mtouch", "mclear", "mevict"}
    BY <1>8 DEF SegvDirty, Mtouch, Mclear, MevictDrop, Fit, Rw
  <2>2. op[t].a \in Slots /\ Owns(t, op[t].a)
    BY <1>8, <2>1, OneSubject DEF Rw, OnAll, Owns, HasAlloc, Target, SegvDirty, Mtouch, Mclear, MevictDrop
  <2>3. alock' = [alock EXCEPT ![op[t].a] = Free]
    BY <1>8 DEF SegvDirty, Mtouch, Mclear, MevictDrop, Unlock
  <2>4. ~ HasAlloc(t)'
    BY <1>3, <1>4, <1>8, FaultMoves, PageMoves
  <2> QED
    BY <2>2, <2>3, <2>4, OwnEnds
<1>9. CASE MevictallDrop(t)
  <2>1. op[t].beg < Len(head)
    BY <1>9 DEF MevictallDrop, Args
  <2>2. head[op[t].beg + 1] \in Slots /\ Owns(t, head[op[t].beg + 1])
    BY <1>9, <2>1, EachSubject, SMTT(30) DEF MevictallDrop, Owns, HasAlloc, Target
  <2>3. ~ HasAlloc(t)'
    BY <1>4, <1>9, AllMoves
  <2> QED
    BY <1>9, <2>2, <2>3, OwnEnds DEF MevictallDrop, Unlock
<1>10. CASE SegvLoad(t)
  <2>1. op[t].call \in Rw
    BY <1>10 DEF SegvLoad, Fit, Rw
  <2>2. op[t].a \in Slots /\ HasAlloc(t) /\ Target(t) = op[t].a
    BY <1>10, <2>1, RwSubject DEF Rw, HasAlloc, Target, SegvLoad
  <2>3. CASE SwapInOK(op[t].a, SegvPages(op[t].a, op[t].beg))
    <3>1. alock' = [alock EXCEPT ![op[t].a] = Free] /\ Goto(t, "track")
      BY <1>10, <2>3 DEF SegvLoad, Unlock
    <3>2. pc'[t] = "track"
      BY <3>1 DEF Goto, SbTypes
    <3> QED
      BY <2>2, <3>1, <3>2, OwnEnds DEF HasAlloc, Owns
  <2>4. CASE ~ SwapInOK(op[t].a, SegvPages(op[t].a, op[t].beg))
    <3>1. alock' = alock /\ Goto(t, "abort") /\ op' = op
      BY <1>10, <2>4 DEF SegvLoad
    <3>2. pc'[t] = "abort"
      BY <3>1 DEF Goto, SbTypes
    <3>3. HasAlloc(t)' /\ Target(t)' = op[t].a
      BY <2>1, <3>1, <3>2 DEF HasAlloc, Target, Rw
    <3> QED
      BY <2>2, <3>1, <3>3, OwnSame
  <2> QED
    BY <2>3, <2>4
<1>11. CASE Mevict(t)
  <2>1. op[t].call = "mevict" /\ HasAlloc(t)
    BY <1>11 DEF Mevict, Fit, HasAlloc
  <2>2. pc'[t] = "drop" /\ op'[t].call = op[t].call /\ op'[t].a = op[t].a
    BY <1>11, PageMoves DEF Goes
  <2>3. HasAlloc(t)' /\ Target(t)' = Target(t)
    BY <2>1, <2>2 DEF HasAlloc, Target
  <2>4. alock' = alock
    BY <1>11 DEF Mevict
  <2> QED
    BY <2>1, <2>3, <2>4, OwnSame
<1>12. CASE Begin(t)
  <2>1. alock' = alock /\ ~ HasAlloc(t)
    BY <1>12 DEF Begin, Busy, HasAlloc
  <2>2. ~ HasAlloc(t)'
    <3>1. PICK c \in Calls \ {"none"} : pc'[t] = "ilock" \/ pc'[t] = First(c)
      BY <1>12, BeginIs DEF Begins
    <3> QED
      BY <3>1 DEF First, Calls, HasAlloc
  <2> QED
    BY <1>5, <2>1, <2>2
<1>13. CASE InitLock(t) \/ InitBody(t) \/ Destroy(t)
  <2>1. alock' = alock /\ ~ HasAlloc(t)
    BY <1>13 DEF InitLock, InitBody, Destroy, HasAlloc
  <2>2. ~ HasAlloc(t)'
    <3>1. CASE Returns(t)
      BY <1>3, <3>1
    <3>2. CASE \E l, k : Goes(t, l, k) /\ (l = First(op[t].call) /\ op[t].call \in Calls \ {"none"})
      BY <1>4, <3>2 DEF First, Calls
    <3>3. CASE Goes(t, "ipage", op[t].beg)
      BY <1>4, <3>3
    <3>4. pc[t] \in Starting => op[t].call \in Calls \ {"none"}
      BY OpFields DEF Fit, Starting
    <3> QED
      BY <1>13, <3>1, <3>2, <3>3, <3>4, StartMoves DEF InitLock, InitBody, Starting
  <2> QED
    BY <1>5, <2>1, <2>2
<1>14. CASE Access(t) \/ Find(t) \/ Hold(t) \/ MtouchallEach(t) \/ MclearallEach(t) \/ AllDone(t)
  <2>1. alock' = alock /\ ~ HasAlloc(t)
    BY <1>14 DEF Access, Find, Hold, MtouchallEach, MclearallEach, AllDone, HasAlloc
  <2> QED
    BY <1>3, <1>4, <1>5, <1>14, <2>1, FaultMoves, AllMoves
<1>15. CASE Track(t) \/ TrackNum(t) \/ Discharge(t) \/ Mmap(t) \/ MmapFail(t) \/ Link(t) \/ Unlink(t) \/ Unmap(t)
  <2>1. alock' = alock /\ ~ HasAlloc(t)
    BY <1>15 DEF Track, TrackNum, Discharge, Mmap, MmapFail, Link, Unlink, Unmap, HasAlloc
  <2> QED
    BY <1>3, <1>4, <1>5, <1>15, <2>1, TrackMoves, MapMoves
<1> QED
  BY <1>6, <1>7, <1>8, <1>9, <1>10, <1>11, <1>12, <1>13, <1>14, <1>15 DEF Step

LEMMA LockInvStep ==
  ASSUME ControlInv, NEW t \in Threads, Begin(t) \/ Step(t)
  PROVE  LockInv'
  BY ListLockStep, AllocLockStep DEF LockInv, Owns

------------------------------------------------------------------------------
(***************************************************************************)
(* The list.                                                               *)
(***************************************************************************)
LEMMA ListedIs ==
  ASSUME NEW s \in Seq(Slots)
  PROVE  Range(s) = {s[i] : i \in 1 .. Len(s)}
  BY SMTT(30) DEF Range

LEMMA LinkIs ==
  ASSUME SbTypes, CallInv, ListInv, NEW t \in Threads, Link(t)
  PROVE  /\ op[t].call = "mmap" /\ op[t].a \in Slots
         /\ Listed' = Listed \cup {op[t].a}
         /\ \A i, j \in 1 .. Len(head') : head'[i] = head'[j] => i = j
<1>1. op[t].call = "mmap" /\ pc[t] = "link"
  BY DEF Link, CallInv, Fit
<1>2. PICK a \in Slots : a = op[t].a
  BY <1>1, OneSubject DEF OnAll
<1>3. a \notin Listed
  BY <1>1, <1>2 DEF ListInv, Placed
<1> head \in Seq(Slots) /\ Len(head) \in Nat /\ head' = <<a>> \o head
  BY <1>2, SMTT(30) DEF SbTypes, Link
<1>5. /\ head' \in Seq(Slots) /\ Len(head') = Len(head) + 1
      /\ head'[1] = a /\ \A i \in 2 .. Len(head) + 1 : head'[i] = head[i - 1]
  <2>1. <<a>> \in Seq(Slots) /\ Len(<<a>>) = 1 /\ <<a>>[1] = a
    BY <1>2, SMTT(30)
  <2> QED
    BY <2>1, SMTT(30)
<1>6. Listed = {head[i] : i \in 1 .. Len(head)} /\ Listed' = {head'[i] : i \in 1 .. Len(head')}
  BY <1>5, ListedIs DEF Listed
<1>7. Listed' = Listed \cup {a}
  <2>1. ASSUME NEW x \in Listed' PROVE x \in Listed \cup {a}
    <3>1. PICK i \in 1 .. Len(head) + 1 : x = head'[i]
      BY <1>5, <1>6, <2>1
    <3>2. CASE i = 1
      BY <1>5, <3>1, <3>2
    <3>3. CASE i # 1
      <4>1. i \in 2 .. Len(head) + 1 /\ i - 1 \in 1 .. Len(head)
        BY <3>3, SMTT(30)
      <4> QED
        BY <1>5, <1>6, <3>1, <4>1
    <3> QED
      BY <3>2, <3>3
  <2>2. a \in Listed'
    BY <1>5, <1>6, SMTT(30)
  <2>3. ASSUME NEW i \in 1 .. Len(head) PROVE head[i] \in Listed'
    <3>1. i + 1 \in 2 .. Len(head) + 1 /\ i + 1 \in 1 .. Len(head') /\ (i + 1) - 1 = i
      BY <1>5, SMTT(30)
    <3>2. head'[i + 1] = head[i]
      BY <1>5, <3>1
    <3> QED
      BY <1>6, <3>1, <3>2
  <2> QED
    BY <1>6, <2>1, <2>2, <2>3
<1>8. ASSUME NEW i \in 1 .. Len(head'), NEW j \in 1 .. Len(head'), head'[i] = head'[j] PROVE i = j
  <2>1. ASSUME NEW k \in 1 .. Len(head'), k # 1
        PROVE  k - 1 \in 1 .. Len(head) /\ head'[k] = head[k - 1] /\ head'[k] # a
    <3>1. k \in 2 .. Len(head) + 1 /\ k - 1 \in 1 .. Len(head)
      BY <1>5, <2>1, SMTT(30)
    <3> QED
      BY <1>3, <1>5, <1>6, <3>1
  <2>2. CASE i = 1 \/ j = 1
    BY <1>5, <1>8, <2>1, <2>2
  <2>3. CASE i # 1 /\ j # 1
    <3>1. head[i - 1] = head[j - 1] /\ i - 1 \in 1 .. Len(head) /\ j - 1 \in 1 .. Len(head)
      BY <1>8, <2>1, <2>3
    <3>2. i - 1 = j - 1
      BY <3>1 DEF ListInv
    <3> QED
      BY <3>2, SMTT(30)
  <2> QED
    BY <2>2, <2>3
<1> QED
  BY <1>1, <1>2, <1>7, <1>8

LEMMA UnlinkIs ==
  ASSUME SbTypes, CallInv, ListInv, NEW t \in Threads, Unlink(t)
  PROVE  /\ op[t].call = "munmap" /\ op[t].a \in Slots
         /\ Listed' = Listed \ {op[t].a}
         /\ \A i, j \in 1 .. Len(head') : head'[i] = head'[j] => i = j
<1>1. op[t].call = "munmap" /\ op[t].a \in Slots
  BY OneSubject DEF Unlink, CallInv, Fit, OnAll
<1> head \in Seq(Slots) /\ Len(head) \in Nat
  BY SMTT(30) DEF SbTypes
<1>3. PICK k \in 1 .. Len(head) : head[k] = op[t].a /\ head' = Without(head, k)
  BY SMTT(30) DEF Unlink
<1> DEFINE pos(i) == IF i < k THEN i ELSE i + 1
<1>4. /\ head' \in Seq(Slots) /\ Len(head') = Len(head) - 1
      /\ \A i \in 1 .. Len(head) - 1 : head'[i] = head[pos(i)]
  BY <1>3, RemoveIs
<1>5. \A i \in 1 .. Len(head) - 1 : pos(i) \in 1 .. Len(head) /\ pos(i) # k
  BY SMTT(30)
<1>6. \A i, j \in 1 .. Len(head) - 1 : pos(i) = pos(j) => i = j
  BY SMTT(30)
<1>7. \A m \in 1 .. Len(head) : m # k => \E i \in 1 .. Len(head) - 1 : pos(i) = m
  <2>1. ASSUME NEW m \in 1 .. Len(head), m # k PROVE \E i \in 1 .. Len(head) - 1 : pos(i) = m
    <3>1. CASE m < k
      <4>1. m \in 1 .. Len(head) - 1 /\ pos(m) = m
        BY <3>1, SMTT(30)
      <4> QED
        BY <4>1
    <3>2. CASE m > k
      <4>1. m - 1 \in 1 .. Len(head) - 1 /\ pos(m - 1) = m
        BY <3>2, SMTT(30)
      <4> QED
        BY <4>1
    <3> QED
      BY <2>1, <3>1, <3>2, SMTT(30)
  <2> QED
    BY <2>1
<1> HIDE DEF pos
<1>8. Listed = {head[i] : i \in 1 .. Len(head)} /\ Listed' = {head'[i] : i \in 1 .. Len(head) - 1}
  BY <1>4, ListedIs DEF Listed
<1>9. \A i, j \in 1 .. Len(head) : head[i] = head[j] => i = j
  BY DEF ListInv
<1>10. Listed' = Listed \ {op[t].a}
  <2>1. ASSUME NEW i \in 1 .. Len(head) - 1 PROVE head'[i] \in Listed \ {op[t].a}
    <3>1. head'[i] = head[pos(i)] /\ pos(i) \in 1 .. Len(head) /\ pos(i) # k
      BY <1>4, <1>5
    <3>2. head[pos(i)] # head[k]
      BY <1>9, <3>1
    <3> QED
      BY <1>3, <1>8, <3>1, <3>2
  <2>2. ASSUME NEW m \in 1 .. Len(head), head[m] # op[t].a PROVE head[m] \in Listed'
    <3>1. PICK i \in 1 .. Len(head) - 1 : pos(i) = m
      BY <1>3, <1>7, <2>2
    <3> QED
      BY <1>4, <1>8, <3>1
  <2> QED
    BY <1>8, <2>1, <2>2
<1>11. \A i, j \in 1 .. Len(head') : head'[i] = head'[j] => i = j
  BY <1>4, <1>5, <1>6, <1>9, SMTT(30)
<1> QED
  BY <1>1, <1>10, <1>11

\* Where a call that maps or unmaps goes.
LEMMA PlaceMoves ==
  ASSUME SbTypes, CallInv, NEW t \in Threads, Step(t), op[t].call \in {"mmap", "munmap"}
  PROVE  \/ /\ UNCHANGED <<head, np>> /\ pc[t] \in Starting
            /\ Goes(t, "ipage", op[t].beg) \/ Goes(t, First(op[t].call), op[t].beg)
         \/ Mmap(t) /\ Goes(t, "link", op[t].beg) /\ head' = head
         \/ MmapFail(t) /\ Returns(t) /\ UNCHANGED <<head, np>>
         \/ Link(t) /\ Goes(t, "track", op[t].beg) /\ np' = np
         \/ Unlink(t) /\ Goes(t, "track", op[t].beg) /\ np' = np
         \/ pc[t] = "track" /\ Goes(t, "tracknum", op[t].beg) /\ UNCHANGED <<head, np>>
         \/ pc[t] = "tracknum" /\ Goes(t, "destroy", op[t].beg) /\ op[t].call = "munmap" /\ UNCHANGED <<head, np>>
         \/ pc[t] = "tracknum" /\ Returns(t) /\ op[t].call = "mmap" /\ UNCHANGED <<head, np>>
         \/ Unmap(t) /\ Returns(t) /\ head' = head
<1>1. pc[t] \in Starting \cup {"mmap", "link", "unlink", "track", "tracknum", "destroy"}
  <2>1. Fit(pc[t], op[t].call) /\ pc[t] \in Labels
    BY DEF CallInv, SbTypes
  <2> QED
    BY <2>1 DEF Fit, Labels, Rw, OnOne, OnAll, Starting
<1>2. \/ InitLock(t) \/ InitBody(t) \/ Track(t) \/ TrackNum(t) \/ Mmap(t) \/ MmapFail(t) \/ Link(t)
      \/ Unlink(t) \/ Unmap(t)
  BY <1>1 DEF Starting, Step, Destroy, Access, Find, AllocLock, SegvLoad, SegvDirty, Discharge, Mtouch, Mclear,
    Mevict, MevictDrop, Hold, MtouchallEach, MclearallEach, MevictallEach, MevictallDrop, AllDone
<1>3. CASE InitLock(t) \/ InitBody(t)
  BY <1>3, StartMoves DEF InitLock, InitBody, Starting
<1>4. CASE Track(t) \/ TrackNum(t)
  <2>1. op[t].call \notin Rw
    BY DEF Rw
  <2> QED
    BY <1>4, <2>1, TrackMoves DEF Track, TrackNum
<1>5. CASE Mmap(t) \/ MmapFail(t) \/ Link(t) \/ Unlink(t) \/ Unmap(t)
  <2>1. /\ Mmap(t) => head' = head
        /\ MmapFail(t) => UNCHANGED <<head, np>>
        /\ Link(t) \/ Unlink(t) => np' = np
        /\ Unmap(t) => head' = head
    BY DEF Mmap, MmapFail, Link, Unlink, Unmap
  <2> QED
    BY <1>5, <2>1, MapMoves
<1> QED
  BY <1>2, <1>3, <1>4, <1>5

LEMMA PlacedOthers ==
  ASSUME ControlInv, NEW t \in Threads, Begin(t) \/ Step(t), NEW u \in Threads \ {t}
  PROVE  Placed(u)'
<1> SbTypes /\ CallInv /\ ListInv /\ ApartInv
  BY DEF ControlInv
<1>2. pc'[u] = pc[u] /\ op'[u] = op[u]
  BY AloneStep DEF Alone
<1>3. op[u].a \in Listed' <=> op[u].a \in Listed
  <2>1. CASE head' = head
    BY <2>1 DEF Listed
  <2>2. CASE Link(t) \/ Unlink(t)
    <3>1. op[t].call \in {"mmap", "munmap"} /\ \A b : b # op[t].a => (b \in Listed' <=> b \in Listed)
      BY <2>2, LinkIs, UnlinkIs
    <3>2. op[u].a # op[t].a
      BY <3>1 DEF ApartInv, Apart
    <3> QED
      BY <3>1, <3>2
  <2> QED
    BY <2>1, <2>2, ListFrame
<1>4. op[u].a \in Slots => np'[op[u].a] = np[op[u].a]
  <2>1. CASE np' = np
    BY <2>1
  <2>2. CASE (Mmap(t) \/ Unmap(t)) /\ \A b \in Slots \ {op[t].a} : np'[b] = np[b]
    <3>1. op[t].call \in {"mmap", "munmap"}
      BY <2>2 DEF CallInv, Fit, Mmap, Unmap
    <3>2. op[u].a # op[t].a
      BY <3>1 DEF ApartInv, Apart
    <3> QED
      BY <2>2, <3>2
  <2> QED
    BY <2>1, <2>2, ListFrame
<1>5. op[u].call = "mmap" => op[u].a \in Slots
  BY OneSubject DEF OnAll
<1>6. Placed(u)
  BY DEF ListInv
<1> QED
  BY <1>2, <1>3, <1>4, <1>5, <1>6 DEF Placed

LEMMA PlacedBegins ==
  ASSUME ControlInv, NEW t \in Threads, Begin(t)
  PROVE  Placed(t)'
<1> SbTypes /\ CallInv /\ ListInv
  BY DEF ControlInv
<1>2. Listed' = Listed /\ np' = np /\ op[t].a = Free
  BY BeginIs DEF Listed
<1>3. PICK c \in Calls \ {"none"}, a \in Slots \cup {Free}, beg \in Nat, end \in 0 .. N : Begins(t, c, a, beg, end)
  BY BeginIs
<1> op'[t].call = c /\ op'[t].a = a /\ Permitted(t, c, a, beg, end) /\ pc'[t] \in {"ilock", First(c)}
  BY <1>3 DEF Begins
<1>5. c \in Rw \cup OnOne \cup {"munmap"} => a \in Listed
  BY DEF Permitted, Rw, OnOne
<1>6. c = "munmap" => pc'[t] \in Starting \cup {"unlink"}
  BY DEF First, Starting
<1>7. c = "mmap" => pc'[t] \in Starting \cup {"mmap"} /\ a \notin Listed
  BY DEF First, Starting, Permitted
<1>8. c = "mmap" => np[a] = 0
  <2> SUFFICES ASSUME c = "mmap" PROVE np[a] = 0
    OBVIOUS
  <2>1. a \in Slots
    BY <1>3 DEF Begins
  <2>2. ASSUME NEW u \in Threads, op[u].a = a PROVE FALSE
    <3>1. a # Free
      BY <2>1, SbAssumption
    <3>2. u # t /\ Busy(u)
      BY <1>2, <2>2, <3>1 DEF CallInv, Args, Fit, Busy
    <3> QED
      BY <2>2, <3>2, SMTT(30) DEF Permitted, Others
  <2> QED
    BY <1>7, <2>1, <2>2 DEF ListInv
<1> QED
  BY <1>2, <1>5, <1>6, <1>7, <1>8 DEF Placed, Rw, OnOne

LEMMA PlacedSteps ==
  ASSUME ControlInv, NEW t \in Threads, Step(t)
  PROVE  Placed(t)'
<1> SbTypes /\ CallInv /\ ListInv
  BY DEF ControlInv
<1> Placed(t)
  BY DEF ListInv
<1>3. CASE Returns(t)
  BY <1>3, SMTT(30) DEF Returns, NoOp, Placed, Rw, OnOne
<1>4. CASE op[t].call \in {"mmap", "munmap"}
  <2>1. ASSUME NEW l, Goes(t, l, op[t].beg)
        PROVE  op'[t].call = op[t].call /\ op'[t].a = op[t].a /\ pc'[t] = l
    BY <2>1 DEF Goes
  <2>2. CASE /\ UNCHANGED <<head, np>> /\ pc[t] \in Starting
             /\ Goes(t, "ipage", op[t].beg) \/ Goes(t, First(op[t].call), op[t].beg)
    BY <1>4, <2>1, <2>2 DEF Placed, Starting, First, Listed, Rw, OnOne
  <2>3. CASE Mmap(t) /\ Goes(t, "link", op[t].beg) /\ head' = head
    <3>1. op[t].call = "mmap" /\ pc[t] = "mmap"
      BY <2>3 DEF Mmap, CallInv, Fit
    <3> QED
      BY <2>1, <2>3, <3>1, SMTT(30) DEF Placed, Starting, Listed, Rw, OnOne
  <2>4. CASE Link(t) /\ Goes(t, "track", op[t].beg)
    BY <2>1, <2>4, LinkIs, SMTT(30) DEF Placed, Starting, Rw, OnOne
  <2>5. CASE Unlink(t) /\ Goes(t, "track", op[t].beg)
    BY <2>1, <2>5, UnlinkIs, SMTT(30) DEF Placed, Starting, Rw, OnOne
  <2>6. CASE pc[t] = "track" /\ Goes(t, "tracknum", op[t].beg) /\ UNCHANGED <<head, np>>
    BY <1>4, <2>1, <2>6, SMTT(30) DEF Placed, Starting, Listed, Rw, OnOne
  <2>7. CASE pc[t] = "tracknum" /\ Goes(t, "destroy", op[t].beg) /\ op[t].call = "munmap" /\ UNCHANGED <<head, np>>
    BY <2>1, <2>7, SMTT(30) DEF Placed, Starting, Listed, Rw, OnOne
  <2> QED
    BY <1>3, <1>4, <2>2, <2>3, <2>4, <2>5, <2>6, <2>7, PlaceMoves
<1>5. CASE op[t].call \notin {"mmap", "munmap"} /\ \E l \in Labels, k \in Nat : Goes(t, l, k)
  <2>1. op'[t].call = op[t].call /\ op'[t].a = op[t].a
    BY <1>5 DEF Goes
  <2>2. head' = head
    BY <1>5, ListFrame, LinkIs, UnlinkIs
  <2> QED
    BY <1>5, <2>1, <2>2 DEF Placed, Listed
<1> QED
  BY <1>3, <1>4, <1>5, StepMoves

\* An allocation that is not in the list has no pages, or a call is about it.
LEMMA UnlistedStep ==
  ASSUME ControlInv, NEW t \in Threads, Begin(t) \/ Step(t), NEW a \in Slots, a \notin Listed'
  PROVE  np'[a] = 0 \/ \E u \in Threads : op'[u].a = a
<1> SbTypes /\ CallInv /\ ListInv
  BY DEF ControlInv
<1>2. Alone(t)
  BY AloneStep
<1>3. a \notin Listed => np[a] = 0 \/ \E u \in Threads : op[u].a = a
  BY DEF ListInv
<1>4. \A u \in Threads \ {t} : op'[u] = op[u]
  BY <1>2 DEF Alone
<1>5. CASE a # op[t].a
  <2>1. a \notin Listed
    BY <1>5, ListFrame, LinkIs, UnlinkIs DEF Listed
  <2>2. np'[a] = np[a]
    BY <1>5, ListFrame
  <2> QED
    BY <1>3, <1>4, <1>5, <2>1, <2>2
<1>6. CASE a = op[t].a /\ op'[t].a = op[t].a
  BY <1>6
<1>7. CASE a = op[t].a /\ Returns(t)
  <2>1. Step(t) /\ op[t].call \notin OnAll \cup {"none", "finalize"}
    BY <1>7, BeginIs, SbAssumption DEF CallInv, Args
  <2> Placed(t) /\ op[t].call \in Calls
    BY OpFields DEF ListInv
  <2>3. CASE op[t].call \in {"mmap", "munmap"}
    <3>1. pc'[t] = "idle"
      BY <1>7 DEF Returns
    <3>2. \A l, k : Goes(t, l, k) => l = "idle"
      BY <3>1 DEF Goes
    <3>3. First(op[t].call) # "idle"
      BY <2>3 DEF First
    <3>4. CASE MmapFail(t) /\ UNCHANGED <<head, np>>
      <4>1. op[t].call = "mmap" /\ pc[t] = "mmap"
        BY <3>4 DEF MmapFail, CallInv, Fit
      <4> QED
        BY <1>7, <3>4, <4>1 DEF Placed
    <3>5. CASE pc[t] = "tracknum" /\ op[t].call = "mmap" /\ UNCHANGED <<head, np>>
      BY <1>7, <3>5 DEF Placed, Starting, Listed
    <3>6. CASE Unmap(t)
      BY <1>7, <3>6, UnmapIs
    <3> QED
      BY <2>1, <2>3, <3>2, <3>3, <3>4, <3>5, <3>6, PlaceMoves
  <2>4. CASE op[t].call \in Rw \cup OnOne
    <3>1. a \in Listed
      BY <1>7, <2>4 DEF Placed
    <3>2. head' = head
      BY <2>4, ListFrame, LinkIs, UnlinkIs DEF Rw, OnOne
    <3> QED
      BY <3>1, <3>2 DEF Listed
  <2> QED
    BY <2>1, <2>3, <2>4 DEF Calls, Rw, OnOne, OnAll
<1>8. CASE a = op[t].a /\ Begin(t)
  BY <1>8, BeginIs, SbAssumption
<1>9. Step(t) => Returns(t) \/ op'[t].a = op[t].a
  BY StepMoves DEF Goes
<1> QED
  BY <1>5, <1>6, <1>7, <1>8, <1>9

LEMMA ListInvStep ==
  ASSUME ControlInv, NEW t \in Threads, Begin(t) \/ Step(t)
  PROVE  ListInv'
<1> SbTypes /\ CallInv /\ ListInv
  BY DEF ControlInv
<1>2. \A i, j \in 1 .. Len(head') : head'[i] = head'[j] => i = j
  <2>1. CASE head' = head
    BY <2>1 DEF ListInv
  <2>2. CASE Link(t) \/ Unlink(t)
    BY <2>2, LinkIs, UnlinkIs
  <2> QED
    BY <2>1, <2>2, ListFrame
<1>3. \A u \in Threads : Placed(u)'
  BY PlacedOthers, PlacedBegins, PlacedSteps
<1> QED
  BY <1>2, <1>3, UnlistedStep DEF ListInv

LEMMA ControlInvStep ==
  ASSUME ~ SharePages, ControlInv, NEW t \in Threads, Begin(t) \/ Step(t)
  PROVE  ControlInv'
  BY SbTypesStep, CallInvStep, ListInvStep, LockInvStep, ApartSteps, ApartBegins DEF ControlInv

LEMMA MoptControl ==
  ASSUME ControlInv, Mopt \/ UNCHANGED vars
  PROVE  ControlInv'
<1>1. lazy' \in BOOLEAN
  BY DEF Mopt, vars, ControlInv, SbTypes
<1> UNCHANGED <<start, head, lock, np, ld, flags, alock, data, stats, acct, pc, op>>
  BY DEF Mopt, vars, start, data, stats, acct, fails
<1>3. SbTypes'
  BY <1>1 DEF ControlInv, SbTypes, start, data, stats, acct, fails
<1>4. CallInv'
  BY DEF ControlInv, CallInv, Args, PagesOf
<1>5. ListInv'
  BY DEF ControlInv, ListInv, Placed, Listed
<1>6. LockInv'
  BY SMTT(30) DEF ControlInv, LockInv, HasList, HasAlloc, Target
<1>7. ApartInv'
  BY DEF ControlInv, ApartInv, Apart, Discards
<1> QED
  BY <1>3, <1>4, <1>5, <1>6, <1>7 DEF ControlInv

\* Whoever uses a lock holds it, the list has no duplicates, every call is on an allocation
\* that is mapped for it and the application's threads stay apart.
THEOREM ControlKeeps ==
  ASSUME ~ SharePages
  PROVE  Spec => []ControlInv
<1>1. Init => ControlInv
  BY ControlInit
<1>2. ControlInv /\ [Next]_vars => ControlInv'
  BY ControlInvStep, MoptControl DEF Next
<1> QED
  BY <1>1, <1>2, PTL DEF Spec

==============================================================================
