------------------------------ MODULE SbMalloc -------------------------------
(***************************************************************************)
(* The predecessor of the library, src/old/sbmalloc.c, in its threaded     *)
(* build (USE_PTHREAD): allocations whose pages are swapped in by a        *)
(* SIGSEGV handler and swapped out on request, a list of them behind       *)
(* sb_info.lock, a lock per allocation, statistics kept under sb_info.lock *)
(* after the allocation's lock is released, and the two accounting         *)
(* call-backs through which the caller learns of memory taken and given.   *)
(*                                                                         *)
(* A page's contents are 0 or 1.  What is done under an allocation's       *)
(* lock to pages nobody can see meanwhile (a swap-in fills temporary       *)
(* memory and remaps it) is one step; a swap-out, whose pages stay         *)
(* accessible while they are written, is two.  One sbpage is one syspage.  *)
(* The file's copy of a page without ONDISK is never read; 0 stands for it.*)
(***************************************************************************)
EXTENDS Integers, Sequences, FiniteSets, FiniteSetsExt, TLC

CONSTANTS Threads,
          Slots,      \* places an allocation can be mapped at
          N,          \* most application pages, over all allocations
          M,          \* m_pages
          SharePages, \* may two threads use one page at a time?
          EarlyCalls, \* may a thread call while another is in __info_init__?
          MaxFail,    \* bound: pages of failing SB_mmap calls, and those mapped then
          MaxDrift    \* bound: charges beyond the loaded pages when a call begins

Pages == 0 .. N - 1
SYNC == "sync"
DIRTY == "dirty"
ONDISK == "ondisk"
Free == "free"      \* a lock nobody holds
Undef == -1         \* contents after SB_mclear

ASSUME SbAssumption ==
  /\ N \in Nat \ {0} /\ M \in Nat \ {0}
  /\ SharePages \in BOOLEAN /\ EarlyCalls \in BOOLEAN
  /\ MaxFail \in Nat /\ MaxDrift \in Nat
  /\ Free \notin Threads /\ Free \notin Slots

VARIABLES init, pagesize, handler, initLock, \* __info_init__
          lazy,       \* sb_opts[SBOPT_LAZYREAD]
          head,       \* the list of allocations
          lock,       \* sb_info.lock
          np, ld, flags, alock, \* per allocation: n_pages, ld_pages, flags, lock
          mem, prot, file,      \* per page: contents, protection, file contents
          want,       \* per page: what the application wrote last
          cur, num,   \* curpages, numpages
          charged,    \* charges minus discharges
          lost, left, \* pages failed SB_mmap calls were charged, and left mapped
          torn,       \* has one unmapped memory that is not its own?
          pc, op      \* where each thread is and in which call

start == <<init, pagesize, handler, initLock>>
data == <<mem, prot, file, want>>
stats == <<cur, num>>
fails == <<lost, left, torn>>
acct == <<charged, fails>>
vars == <<init, pagesize, handler, initLock, lazy, head, lock, np, ld, flags,
          alock, mem, prot, file, want, cur, num, charged, lost, left, torn,
          pc, op>>

Calls == {"none", "read", "write", "mmap", "munmap", "mtouch", "mtouchall", "mclear",
          "mclearall", "mevict", "mevictall", "mexist", "finalize"}

Labels == {"idle", "ilock", "ipage", "final", "access", "find", "alock", "read", "write",
           "mtouch", "mclear", "mevict", "drop", "hold", "each", "relock", "mmap", "link",
           "unlink", "destroy", "track", "tracknum", "discharge", "abort"}

Op == [call: Calls, a: Slots \cup {Free}, beg: Nat, end: 0 .. N, n: Int]
NoOp == [call |-> "none", a |-> Free, beg |-> 0, end |-> 0, n |-> 0]

TypeOK ==
  /\ init \in {0, 1} /\ pagesize \in {0, 1} /\ handler \in BOOLEAN
  /\ initLock \in Threads \cup {Free}
  /\ lazy \in BOOLEAN
  /\ head \in Seq(Slots)
  /\ lock \in Threads \cup {Free}
  /\ np \in [Slots -> 0 .. N] /\ ld \in [Slots -> 0 .. N]
  /\ flags \in [Slots -> [Pages -> SUBSET {SYNC, DIRTY, ONDISK}]]
  /\ alock \in [Slots -> Threads \cup {Free}]
  /\ mem \in [Slots -> [Pages -> 0 .. 1]] /\ file \in [Slots -> [Pages -> 0 .. 1]]
  /\ prot \in [Slots -> [Pages -> {"none", "r", "rw"}]]
  /\ want \in [Slots -> [Pages -> {Undef} \cup 0 .. 1]]
  /\ cur \in Int /\ num \in Int
  /\ charged \in Int /\ lost \in Nat /\ left \in Nat /\ torn \in BOOLEAN
  /\ pc \in [Threads -> Labels] /\ op \in [Threads -> Op]

Init ==
  /\ init = 0 /\ pagesize = 0 /\ handler = FALSE /\ initLock = Free
  /\ lazy = FALSE
  /\ head = <<>> /\ lock = Free
  /\ np = [a \in Slots |-> 0] /\ ld = [a \in Slots |-> 0]
  /\ flags = [a \in Slots |-> [p \in Pages |-> {}]]
  /\ alock = [a \in Slots |-> Free]
  /\ mem = [a \in Slots |-> [p \in Pages |-> 0]] /\ file = mem
  /\ prot = [a \in Slots |-> [p \in Pages |-> "none"]]
  /\ want = mem
  /\ cur = 0 /\ num = 0 /\ charged = 0
  /\ lost = 0 /\ left = 0 /\ torn = FALSE
  /\ pc = [t \in Threads |-> "idle"] /\ op = [t \in Threads |-> NoOp]

Listed == Range(head)
PagesOf(a) == 0 .. np[a] - 1
Loaded == MapThenSumSet(LAMBDA a : M + ld[a], Listed)
Busy(t) == pc[t] # "idle"
Goto(t, l) == pc' = [pc EXCEPT ![t] = l]
Return(t) == Goto(t, "idle") /\ op' = [op EXCEPT ![t] = NoOp]

(***************************************************************************)
(* What the application may call, and when.  A call names a live           *)
(* allocation and is not made while another thread maps or unmaps it; one  *)
(* does not write an allocation that another thread evicts or clears; a    *)
(* page is used by one thread at a time unless SharePages.                 *)
(***************************************************************************)
Others(t) == {u \in Threads \ {t} : Busy(u)}

Discards(u, a) ==
  \/ op[u].call \in {"mclear", "mevict"} /\ op[u].a = a
  \/ op[u].call \in {"mclearall", "mevictall"}

\* Pages an SB_mmap under way is about to map.
Wanted(u) == IF op[u].call = "mmap" /\ pc[u] \in {"ilock", "ipage", "mmap"} THEN op[u].end ELSE 0

\* The pages mapped, or about to be.
Mapped == MapThenSumSet(LAMBDA b : np[b], Slots) + MapThenSumSet(LAMBDA u : Wanted(u), Threads)

Permitted(t, c, a, beg, end) ==
  CASE c \in {"read", "write"} ->
         /\ a \in Listed /\ beg \in PagesOf(a)
         /\ \A u \in Others(t) :
              /\ ~ (op[u].call \in {"mmap", "munmap"} /\ op[u].a = a)
              /\ \/ SharePages
                 \/ /\ ~ (c = "write" /\ Discards(u, a))
                    /\ ~ (op[u].call \in {"read", "write"} /\ op[u].a = a /\ op[u].beg = beg)
    [] c \in {"mtouch", "mclear", "mevict", "mexist"} ->
         /\ a \in Listed
         /\ \A u \in Others(t) :
              /\ ~ (op[u].call \in {"mmap", "munmap"} /\ op[u].a = a)
              /\ \/ SharePages \/ c \in {"mtouch", "mexist"}
                 \/ ~ (op[u].call = "write" /\ op[u].a = a)
    [] c \in {"mclearall", "mevictall"} ->
         SharePages \/ \A u \in Others(t) : op[u].call # "write"
    [] c = "mtouchall" -> TRUE
    [] c = "munmap" -> a \in Listed /\ \A u \in Others(t) : op[u].a # a
    [] c = "mmap" -> /\ a \notin Listed /\ \A u \in Others(t) : op[u].a # a
                     /\ Mapped + end <= N /\ lost + Mapped + end <= MaxFail
    [] c = "finalize" -> head = <<>> /\ Others(t) = {}
    [] OTHER -> FALSE

First(c) ==
  CASE c \in {"read", "write"} -> "access"
    [] c = "mmap" -> "mmap"
    [] c = "munmap" -> "unlink"
    [] c \in {"mtouch", "mclear", "mevict", "mexist"} -> "find"
    [] c \in {"mtouchall", "mclearall", "mevictall"} -> "hold"
    [] c = "finalize" -> "final"

\* A call starts with SB_INIT_CHECK, which reads sb_info.init with no lock.
\* The pages of a range are beg .. end - 1; SB_mmap takes end pages.
Begin(t) ==
  /\ ~ Busy(t)
  /\ EarlyCalls \/ (\A u \in Threads : pc[u] \notin {"ilock", "ipage"})
  /\ \A u \in Threads : op[u].call # "finalize"
  /\ charged - lost - Loaded <= MaxDrift
  /\ \E c \in Calls \ {"none"}, a \in Slots \cup {Free} :
       /\ (a = Free) = (c \in {"mclearall", "mevictall", "mtouchall", "finalize"})
       /\ \E beg \in 0 .. N, end \in 0 .. N :
            /\ CASE c \in {"read", "write"} -> end = beg + 1
                 [] c \in {"mtouch", "mclear"} -> beg < end /\ end <= np[a]
                 [] c = "mmap" -> beg = 0 /\ end > 0
                 [] OTHER -> beg = 0 /\ end = 0
            /\ Permitted(t, c, a, beg, end)
            /\ op' = [op EXCEPT ![t] = [call |-> c, a |-> a, beg |-> beg, end |-> end, n |-> 0]]
       /\ Goto(t, IF init = 0 /\ c \notin {"read", "write", "finalize"} THEN "ilock"
                  ELSE First(c))
  /\ UNCHANGED <<start, lazy, head, lock, np, ld, flags, alock, data, stats, acct>>

(***************************************************************************)
(* __info_init__ and __info_destroy__.                                     *)
(***************************************************************************)
InitLock(t) ==
  /\ pc[t] = "ilock"
  /\ initLock = Free
  /\ IF init = 1
     THEN Goto(t, First(op[t].call)) /\ UNCHANGED <<init, initLock>>
     ELSE init' = 1 /\ initLock' = t /\ Goto(t, "ipage")
  /\ UNCHANGED <<pagesize, handler, lazy, head, lock, np, ld, flags, alock, data, stats, acct, op>>

\* pagesize and the SIGSEGV handler are set after init.
InitBody(t) ==
  /\ pc[t] = "ipage"
  /\ pagesize' = 1
  /\ handler' = TRUE
  /\ initLock' = Free
  /\ Goto(t, First(op[t].call))
  /\ UNCHANGED <<init, lazy, head, lock, np, ld, flags, alock, data, stats, acct, op>>

Destroy(t) ==
  /\ pc[t] = "final"
  /\ initLock = Free
  /\ init' = 0
  /\ handler' = IF init = 0 THEN handler ELSE FALSE
  /\ Return(t)
  /\ UNCHANGED <<pagesize, initLock, lazy, head, lock, np, ld, flags, alock, data, stats, acct>>

\* SB_mopt(SBOPT_LAZYREAD, value), before the application uses any memory.
Mopt ==
  /\ head = <<>> /\ charged = 0
  /\ \A t \in Threads : ~ Busy(t)
  /\ lazy' = ~ lazy
  /\ UNCHANGED <<start, head, lock, np, ld, flags, alock, data, stats, acct, pc, op>>

(***************************************************************************)
(* __swap_in__, __swap_out__ and __swap_clr__, under the allocation's lock.*)
(***************************************************************************)
\* __if_flags__ is written out: yes \subseteq f and f \cap no = {}.
\* The assertions and error returns of __swap_in__ for the pages S.
SwapInOK(a, S) ==
  /\ Cardinality(S) <= np[a] - ld[a]
  /\ \A p \in S : flags[a][p] \subseteq {ONDISK}

SwapIn(a, S) ==
  /\ flags' = [flags EXCEPT ![a] = [p \in Pages |-> IF p \in S THEN @[p] \cup {SYNC} ELSE @[p]]]
  /\ mem' = [mem EXCEPT ![a] = [p \in Pages |->
       IF p \notin S THEN @[p] ELSE IF ONDISK \in flags[a][p] THEN file[a][p] ELSE 0]]
  /\ prot' = [prot EXCEPT ![a] = [p \in Pages |-> IF p \in S THEN "r" ELSE @[p]]]
  /\ ld' = [ld EXCEPT ![a] = @ + Cardinality(S)]

\* Mutant of SwapOut: the flags are reduced before the dirty pages are looked for.
SwapOutWritesNone(a) ==
  /\ flags' = [flags EXCEPT ![a] = [p \in Pages |->
       IF DIRTY \in @[p] THEN {ONDISK} ELSE @[p] \cap {ONDISK}]]
  /\ ld' = [ld EXCEPT ![a] = @ - Cardinality({p \in PagesOf(a) :
       flags[a][p] \cap {SYNC, DIRTY} # {}})]
  /\ UNCHANGED file

\* The dirty pages are written and the flags of all pages reduced ...
SwapOut(a) ==
  /\ file' = [file EXCEPT ![a] = [p \in Pages |->
       IF DIRTY \in flags[a][p] THEN mem[a][p] ELSE @[p]]]
  /\ flags' = [flags EXCEPT ![a] = [p \in Pages |->
       IF DIRTY \in @[p] THEN {ONDISK} ELSE @[p] \cap {ONDISK}]]
  /\ ld' = [ld EXCEPT ![a] = @ - Cardinality({p \in PagesOf(a) :
       flags[a][p] \cap {SYNC, DIRTY} # {}})]

\* ... and then the memory is protected and given back.
Drop(a) ==
  /\ prot' = [prot EXCEPT ![a] = [p \in Pages |-> "none"]]
  /\ mem' = [mem EXCEPT ![a] = [p \in Pages |-> 0]]

\* Fails, and changes nothing, when fewer pages are loaded than are cleared.
SwapClr(a, S) ==
  IF Cardinality(S) > ld[a] THEN UNCHANGED <<flags, prot, file, want>>
  ELSE /\ flags' = [flags EXCEPT ![a] = [p \in Pages |->
            IF p \notin S THEN @[p]
            ELSE IF DIRTY \in @[p] THEN {SYNC} ELSE @[p] \ {ONDISK}]]
       /\ prot' = [prot EXCEPT ![a] = [p \in Pages |->
            IF p \in S /\ DIRTY \in flags[a][p] THEN "r" ELSE @[p]]]
       /\ file' = [file EXCEPT ![a] = [p \in Pages |-> IF p \in S THEN 0 ELSE @[p]]]
       /\ want' = [want EXCEPT ![a] = [p \in Pages |-> IF p \in S THEN Undef ELSE @[p]]]

(***************************************************************************)
(* An access of the application, the fault it may raise, __info_segv__.    *)
(***************************************************************************)
Access(t) ==
  LET a == op[t].a  p == op[t].beg  v == IF want[a][p] = 1 THEN 0 ELSE 1
      ok == prot[a][p] \in (IF op[t].call = "read" THEN {"r", "rw"} ELSE {"rw"})
  IN  /\ pc[t] = "access"
      /\ IF ~ ok THEN Goto(t, "find") /\ UNCHANGED <<op, mem, want>>
         ELSE /\ Return(t)
              /\ IF op[t].call = "read" THEN UNCHANGED <<mem, want>>
                 ELSE /\ mem' = [mem EXCEPT ![a][p] = v]
                      /\ want' = [want EXCEPT ![a][p] = v]
      /\ UNCHANGED <<start, lazy, head, lock, np, ld, flags, alock, prot, file, stats, acct>>

\* __info_find__ searches the list under sb_info.lock and gives the lock back.
Find(t) ==
  /\ pc[t] = "find"
  /\ lock = Free
  /\ IF op[t].call = "mexist" THEN Return(t) ELSE Goto(t, "alock") /\ UNCHANGED op
  /\ UNCHANGED <<start, lazy, head, lock, np, ld, flags, alock, data, stats, acct>>

AllocLock(t) ==
  /\ pc[t] = "alock"
  /\ alock[op[t].a] = Free
  /\ alock' = [alock EXCEPT ![op[t].a] = t]
  /\ Goto(t, op[t].call)
  /\ UNCHANGED <<start, lazy, head, lock, np, ld, flags, data, stats, acct, op>>

Unlock(a) == alock' = [alock EXCEPT ![a] = Free]
Charge(a) == charged' = IF ld[a] = 0 THEN charged + np[a] ELSE charged
Pending(t, n) == op' = [op EXCEPT ![t].n = n]

\* The pages a fault loads, and a mutant that ignores the option.
SegvPagesAll(a, p) == PagesOf(a)
SegvPages(a, p) == IF lazy THEN {p} ELSE PagesOf(a)

\* A fault on a page that is not synchronised loads the allocation, or only
\* the page when lazy; assert(-1 != numrd) and the assertion on the flags in
\* __swap_in__ end the process.
SegvLoad(t) ==
  LET a == op[t].a
      S == SegvPages(a, op[t].beg)
  IN  /\ pc[t] \in {"read", "write"}
      /\ SYNC \notin flags[a][op[t].beg]
      /\ IF SwapInOK(a, S)
         THEN SwapIn(a, S) /\ Charge(a) /\ Unlock(a)
              /\ Pending(t, Cardinality(S)) /\ Goto(t, "track")
         ELSE Goto(t, "abort") /\ UNCHANGED <<flags, mem, prot, ld, charged, alock, op>>
      /\ UNCHANGED <<start, lazy, head, lock, np, file, want, stats, fails>>

\* Any other fault is taken for a write to a synchronised page.
SegvDirty(t) ==
  LET a == op[t].a  p == op[t].beg
  IN  /\ pc[t] \in {"read", "write"}
      /\ SYNC \in flags[a][p]
      /\ flags' = [flags EXCEPT ![a][p] = {DIRTY}]
      /\ prot' = [prot EXCEPT ![a][p] = "rw"]
      /\ file' = [file EXCEPT ![a][p] = 0]
      /\ Unlock(a)
      /\ Goto(t, "access")
      /\ UNCHANGED <<start, lazy, head, lock, np, ld, mem, want, stats, acct, op>>

(***************************************************************************)
(* __INFO_TRACK__, each under sb_info.lock of its own.                     *)
(***************************************************************************)
\* The counters of faults and transfers and maxpages, updated in sections like
\* these, are left out.
Track(t) ==
  /\ pc[t] = "track"
  /\ lock = Free
  /\ cur' = cur + op[t].n
  /\ CASE op[t].call \in {"read", "write"} -> Goto(t, "access") /\ UNCHANGED op
       [] op[t].call \in {"mmap", "munmap"} -> Goto(t, "tracknum") /\ UNCHANGED op
       [] op[t].call = "mtouch" -> Return(t)
       [] OTHER -> Goto(t, "discharge") /\ UNCHANGED op
  /\ UNCHANGED <<start, lazy, head, lock, np, ld, flags, alock, data, num, acct>>

TrackNum(t) ==
  /\ pc[t] = "tracknum"
  /\ lock = Free
  /\ IF op[t].call = "mmap"
     THEN num' = num + M + np[op[t].a] /\ Return(t)
     ELSE num' = num - M - np[op[t].a] /\ Goto(t, "destroy") /\ UNCHANGED op
  /\ UNCHANGED <<start, lazy, head, lock, np, ld, flags, alock, data, cur, acct>>

Discharge(t) ==
  /\ pc[t] = "discharge"
  /\ charged' = charged + op[t].n
  /\ Return(t)
  /\ UNCHANGED <<start, lazy, head, lock, np, ld, flags, alock, data, stats, fails>>

(***************************************************************************)
(* SB_mmap and SB_munmap.                                                  *)
(***************************************************************************)
\* All pages start loaded and readable; a file of zeros stands behind them.
Mmap(t) ==
  LET a == op[t].a
  IN  /\ pc[t] = "mmap"
      /\ charged' = charged + M + op[t].end
      /\ np' = [np EXCEPT ![a] = op[t].end]
      /\ ld' = [ld EXCEPT ![a] = op[t].end]
      /\ flags' = [flags EXCEPT ![a] = [p \in Pages |-> IF p < op[t].end THEN {SYNC} ELSE {}]]
      /\ prot' = [prot EXCEPT ![a] = [p \in Pages |-> IF p < op[t].end THEN "r" ELSE "none"]]
      /\ mem' = [mem EXCEPT ![a] = [p \in Pages |-> 0]]
      /\ file' = [file EXCEPT ![a] = [p \in Pages |-> 0]]
      /\ want' = [want EXCEPT ![a] = [p \in Pages |-> 0]]
      /\ Pending(t, M + op[t].end)
      /\ Goto(t, "link")
      /\ UNCHANGED <<start, lazy, head, lock, alock, stats, fails>>

\* The file cannot be made: CLEANUP unmaps m_pages * ld_pages pages from the first
\* application page on, where m_pages + ld_pages were mapped.  With fewer, the
\* rest stays mapped; with more, the pages above go too, which may be another
\* mapping's or nobody's.  The charge is not given back, nor the file unlinked (it
\* bears the address of the meta pages: a later call for the same place fails too).
MmapFail(t) ==
  LET n == op[t].end
  IN  /\ pc[t] = "mmap"
      /\ lost + M + n <= MaxFail
      /\ charged' = charged + M + n
      /\ lost' = lost + M + n
      /\ left' = IF M * n < M + n THEN left + M + n - M * n ELSE left
      /\ torn' \in (IF M * n > M + n THEN BOOLEAN ELSE {FALSE})
      /\ Return(t)
      /\ UNCHANGED <<start, lazy, head, lock, np, ld, flags, alock, data, stats>>

Link(t) ==
  /\ pc[t] = "link"
  /\ lock = Free
  /\ head' = <<op[t].a>> \o head
  /\ Goto(t, "track")
  /\ UNCHANGED <<start, lazy, lock, np, ld, flags, alock, data, stats, acct, op>>

\* The list with its k-th entry taken out.
Without(s, k) == SubSeq(s, 1, k - 1) \o SubSeq(s, k + 1, Len(s))

\* Mutant of Unlink: the pages that are not loaded are counted too.
UnlinkAll(t) ==
  LET a == op[t].a
  IN  /\ pc[t] = "unlink"
      /\ lock = Free
      /\ \E k \in DOMAIN head : head[k] = a /\ head' = Without(head, k)
      /\ Pending(t, - (M + np[a]))
      /\ Goto(t, "track")
      /\ UNCHANGED <<start, lazy, lock, np, ld, flags, alock, data, stats, acct>>

Unlink(t) ==
  LET a == op[t].a
  IN  /\ pc[t] = "unlink"
      /\ lock = Free
      /\ \E k \in DOMAIN head : head[k] = a /\ head' = Without(head, k)
      /\ Pending(t, - (M + ld[a]))
      /\ Goto(t, "track")
      /\ UNCHANGED <<start, lazy, lock, np, ld, flags, alock, data, stats, acct>>

\* The file is unlinked, the memory unmapped, and the caller is told.
Unmap(t) ==
  LET a == op[t].a
  IN  /\ pc[t] = "destroy"
      /\ charged' = charged + op[t].n
      /\ np' = [np EXCEPT ![a] = 0]
      /\ ld' = [ld EXCEPT ![a] = 0]
      /\ flags' = [flags EXCEPT ![a] = [p \in Pages |-> {}]]
      /\ Drop(a)
      /\ file' = [file EXCEPT ![a] = [p \in Pages |-> 0]]
      /\ want' = [want EXCEPT ![a] = [p \in Pages |-> 0]]
      /\ Return(t)
      /\ UNCHANGED <<start, lazy, head, lock, alock, stats, fails>>

(***************************************************************************)
(* SB_mtouch, SB_mclear, SB_mevict on one allocation.                      *)
(***************************************************************************)
Mtouch(t) ==
  LET a == op[t].a
      range == IF lazy THEN op[t].beg .. op[t].end - 1 ELSE PagesOf(a)
      S == {p \in range : flags[a][p] \cap {SYNC, DIRTY} = {}}
  IN  /\ pc[t] = "mtouch"
      /\ SwapIn(a, S)
      /\ Charge(a)
      /\ Unlock(a)
      /\ Pending(t, Cardinality(S))
      /\ Goto(t, "track")
      /\ UNCHANGED <<start, lazy, head, lock, np, file, want, stats, fails>>

Mclear(t) ==
  LET a == op[t].a
  IN  /\ pc[t] = "mclear"
      /\ SwapClr(a, op[t].beg .. op[t].end - 1)
      /\ Unlock(a)
      /\ Return(t)
      /\ UNCHANGED <<start, lazy, head, lock, np, ld, mem, stats, acct>>

Mevict(t) ==
  LET a == op[t].a
  IN  /\ pc[t] = "mevict"
      /\ Pending(t, - ld[a])
      /\ SwapOut(a)
      /\ Goto(t, "drop")
      /\ UNCHANGED <<start, lazy, head, lock, np, alock, mem, prot, want, stats, acct>>

MevictDrop(t) ==
  LET a == op[t].a
  IN  /\ pc[t] = "drop" /\ op[t].call = "mevict"
      /\ Drop(a)
      /\ Unlock(a)
      /\ Goto(t, "track")
      /\ UNCHANGED <<start, lazy, head, lock, np, ld, flags, file, want, stats, acct, op>>

(***************************************************************************)
(* The calls on all allocations hold sb_info.lock; op.beg counts through   *)
(* the list.                                                               *)
(***************************************************************************)
Hold(t) ==
  /\ pc[t] = "hold"
  /\ lock = Free
  /\ lock' = t
  /\ Goto(t, "each")
  /\ UNCHANGED <<start, lazy, head, np, ld, flags, alock, data, stats, acct, op>>

\* SB_mtouchall calls SB_mtouch, whose __info_find__ asks for sb_info.lock
\* again: with an allocation in the list the thread has no step left.
MtouchallEach(t) ==
  /\ pc[t] = "each" /\ op[t].call = "mtouchall"
  /\ IF head = <<>> THEN lock' = Free /\ Return(t)
     ELSE Goto(t, "relock") /\ UNCHANGED <<lock, op>>
  /\ UNCHANGED <<start, lazy, head, np, ld, flags, alock, data, stats, acct>>

MclearallEach(t) ==
  LET a == head[op[t].beg + 1]
  IN  /\ pc[t] = "each" /\ op[t].call = "mclearall"
      /\ op[t].beg < Len(head)
      /\ alock[a] = Free
      /\ SwapClr(a, PagesOf(a))
      /\ op' = [op EXCEPT ![t].beg = @ + 1]
      /\ UNCHANGED <<start, lazy, head, lock, np, ld, alock, mem, stats, acct, pc>>

MevictallEach(t) ==
  LET a == head[op[t].beg + 1]
  IN  /\ pc[t] = "each" /\ op[t].call = "mevictall"
      /\ op[t].beg < Len(head)
      /\ alock[a] = Free
      /\ alock' = [alock EXCEPT ![a] = t]
      /\ Pending(t, op[t].n - ld[a])
      /\ SwapOut(a)
      /\ Goto(t, "drop")
      /\ UNCHANGED <<start, lazy, head, lock, np, mem, prot, want, stats, acct>>

\* Mutant of MevictallDrop: the allocation's lock is kept.
MevictallDropKeepsLock(t) ==
  LET a == head[op[t].beg + 1]
  IN  /\ pc[t] = "drop" /\ op[t].call = "mevictall"
      /\ Drop(a)
      /\ op' = [op EXCEPT ![t].beg = @ + 1]
      /\ Goto(t, "each")
      /\ UNCHANGED <<start, lazy, head, lock, np, ld, flags, alock, file, want, stats, acct>>

MevictallDrop(t) ==
  LET a == head[op[t].beg + 1]
  IN  /\ pc[t] = "drop" /\ op[t].call = "mevictall"
      /\ Drop(a)
      /\ Unlock(a)
      /\ op' = [op EXCEPT ![t].beg = @ + 1]
      /\ Goto(t, "each")
      /\ UNCHANGED <<start, lazy, head, lock, np, ld, flags, file, want, stats, acct>>

AllDone(t) ==
  /\ pc[t] = "each" /\ op[t].call \in {"mclearall", "mevictall"}
  /\ op[t].beg = Len(head)
  /\ lock' = Free
  /\ IF op[t].call = "mevictall" THEN Goto(t, "track") /\ UNCHANGED op ELSE Return(t)
  /\ UNCHANGED <<start, lazy, head, np, ld, flags, alock, data, stats, acct>>

Step(t) ==
  \/ InitLock(t) \/ InitBody(t) \/ Destroy(t)
  \/ Access(t) \/ Find(t) \/ AllocLock(t) \/ SegvLoad(t) \/ SegvDirty(t)
  \/ Track(t) \/ TrackNum(t) \/ Discharge(t)
  \/ Mmap(t) \/ MmapFail(t) \/ Link(t) \/ Unlink(t) \/ Unmap(t)
  \/ Mtouch(t) \/ Mclear(t) \/ Mevict(t) \/ MevictDrop(t)
  \/ Hold(t) \/ MtouchallEach(t) \/ MclearallEach(t) \/ MevictallEach(t)
  \/ MevictallDrop(t) \/ AllDone(t)

\* What a process does that has lost part of another mapping is not modelled.
Next == ~ torn /\ (Mopt \/ \E t \in Threads : Begin(t) \/ Step(t))

Spec == Init /\ [][Next]_vars

\* Threads and slots are interchangeable.
Symmetry == Permutations(Threads) \cup Permutations(Slots)

\* Threads run and get locks they keep finding free; nothing obliges the
\* application to call.
FairSpec == Spec /\ \A t \in Threads : SF_vars(Step(t))

(***************************************************************************)
(* Properties.                                                             *)
(***************************************************************************)
Quiet == \A t \in Threads : pc[t] = "idle"
\* Whatever the order of faults, touches, evictions and clears by several
\* threads, a page holds what the application wrote last: in memory when it
\* is accessible, in its file when it was written out, as zeros when neither
\* (contents are unspecified from a clear to the next write), until a failing
\* SB_mmap unmaps pages of other allocations.
Preserved ==
  torn \/ \A a \in Listed : \A p \in PagesOf(a) : want[a][p] # Undef =>
    /\ prot[a][p] # "none" => mem[a][p] = want[a][p]
    /\ flags[a][p] \subseteq {ONDISK} =>
         want[a][p] = IF ONDISK \in flags[a][p] THEN file[a][p] ELSE 0

\* The flags, the protection and ld_pages of an allocation nobody has locked
\* agree: synchronised pages are readable, dirty ones writable, the others
\* inaccessible, and ld_pages counts the first two kinds.
FlagsAgree ==
  \A a \in Listed : alock[a] = Free =>
    /\ \A p \in PagesOf(a) :
         prot[a][p] = IF SYNC \in flags[a][p] THEN "r"
                      ELSE IF DIRTY \in flags[a][p] THEN "rw" ELSE "none"
    /\ ld[a] = Cardinality({p \in PagesOf(a) : flags[a][p] \cap {SYNC, DIRTY} # {}})

\* The assertions of the SIGSEGV handler hold when every page is used by one
\* thread at a time, whatever the other threads touch, evict or load: those of a
\* load (which end in "abort"), and that a page faulted on while synchronised is
\* not dirty (sbmalloc.c:678).
NoAbort ==
  \A t \in Threads :
    /\ pc[t] # "abort"
    /\ pc[t] \in {"read", "write"} => ~ {SYNC, DIRTY} \subseteq flags[op[t].a][op[t].beg]

\* No call divides by a page size that is not set, and no access faults with
\* the handler not installed.
Initialised ==
  \A t \in Threads :
    /\ pc[t] \in {"mmap", "mtouch", "mclear", "mevict"} => pagesize = 1
    /\ pc[t] \in {"read", "write"} => handler

\* An access is served by the handler exactly when the page needs it: the handler
\* is there, protections follow the flags, and none of its assertions fails, until
\* a failing SB_mmap unmaps pages of other allocations.
FaultsHandled == torn \/ (TypeOK /\ Initialised /\ FlagsAgree /\ NoAbort)

\* A failing SB_mmap takes back what it mapped, and only that.
Undone == left = 0 /\ ~ torn

\* When no call is under way the statistics are exact: curpages counts the
\* meta pages and the loaded ones, numpages all pages, although each is
\* updated in a section of its own after the allocation's lock is released.
StatsExact ==
  Quiet => /\ cur = Loaded
           /\ num = MapThenSumSet(LAMBDA a : M + np[a], Listed)

\* When no call is under way and pages are loaded whole allocations at a time,
\* what was charged and not discharged is what is loaded, but for what failed
\* calls of SB_mmap were charged; with lazy reads it is never less.
Accounted ==
  Quiet => IF lazy THEN charged - lost >= Loaded ELSE charged - lost = Loaded

\* Both counts of the pages, the library's own and what the acct callbacks were
\* told, agree with what is loaded.
Counted == torn \/ (StatsExact /\ Accounted)

\* The locks are never waited for in a circle: as long as a call is under way
\* some thread in a call can go on, unless one is stuck in SB_mtouchall.
NoCircle ==
  \/ Quiet
  \/ \E t \in Threads : pc[t] = "relock"
  \/ \E t \in Threads : Busy(t) /\ ENABLED Step(t)

\* "Touch all allocations." (sbmalloc.c:987): the call comes back.
MtouchallReturns ==
  \A t \in Threads : (pc[t] = "each" /\ op[t].call = "mtouchall") ~> pc[t] = "idle"

==============================================================================
