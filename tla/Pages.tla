------------------------------- MODULE Pages -------------------------------
(***************************************************************************)
(* The pages of one allocation: where the data of each page is (in memory  *)
(* or in the allocation's file), how the page is protected, what its flags *)
(* say, and what the process is charged for it.                            *)
(*                                                                         *)
(* The calls are those of one process in which no SIGIPC interrupts a      *)
(* call (module Ipc interleaves the calls and the handler); between calls  *)
(* a SIGIPC may evict everything.                                          *)
(***************************************************************************)
EXTENDS Integers, FiniteSets, Sequences

CONSTANTS
  MaxPages,  \* the largest allocation
  Vals,      \* contents of a page; 0 is a page of zeros
  Undef,     \* unspecified contents
  MaxMem,    \* the budget in pages
  MaxXfer,   \* the most pages one write(2) transfers
  MaxRanges, \* the most ranges passed to sbma_mtouch_atomic
  Configs    \* the options, and which calls the application uses

ASSUME PagesAssumption ==
  /\ MaxPages \in Nat \ {0}
  /\ MaxMem \in Nat
  /\ MaxXfer \in Nat \ {0}
  /\ MaxRanges \in Nat
  /\ 0 \in Vals
  /\ Undef \notin Vals
  /\ Configs \subseteq
       [lzyrd : BOOLEAN, aggch : BOOLEAN, ghost : BOOLEAN, rsdnt : BOOLEAN,
        merge : BOOLEAN, calls : SUBSET {"grow", "shrink", "mclearall", "mallopt"}]

PageNos == 0 .. MaxPages - 1

\* The status bits, with the polarity of enum mmu_status_code: ZFILL is set
\* when the page must be read from the file, RSDNT when it is NOT resident and
\* CHRGD when it is NOT charged.
Bits == {"ZFILL", "RSDNT", "DIRTY", "CHRGD"}
Evicted == {"RSDNT", "CHRGD"}

VARIABLES
  opts,         \* vmm.opts, and what the application calls
  ate,          \* the allocation: struct ate, its memory and its file
  c_mem, d_mem, \* the process's entries of the shared segment
  fault,        \* the ASSERT that ended the process, or "none"
  out,          \* what the application read last
  undef         \* history: pages whose contents are unspecified

vars == <<opts, ate, c_mem, d_mem, fault, out, undef>>

\* No allocation.
NoAte ==
  [n_pages |-> 0, l_pages |-> 0, c_pages |-> 0, d_pages |-> 0,
   flags |-> [x \in PageNos |-> {}],
   prot  |-> [x \in PageNos |-> "none"],
   mem   |-> [x \in PageNos |-> 0],
   file  |-> [x \in PageNos |-> 0]]

Init ==
  /\ opts \in Configs
  /\ ate = NoAte
  /\ c_mem = 0
  /\ d_mem = 0
  /\ fault = "none"
  /\ out = 0
  /\ undef = {}

PagesOf(a)    == 0 .. a.n_pages - 1
Resident(a)   == {x \in PagesOf(a) : "RSDNT" \notin a.flags[x]}
Charged(a)    == {x \in PagesOf(a) : "CHRGD" \notin a.flags[x]}
DirtyPages(a) == {x \in PagesOf(a) : "DIRTY" \in a.flags[x]}
Ranges(a)     == {b .. e : b \in PagesOf(a), e \in PagesOf(a)} \ {{}}

\* What sbma_mtouch_atomic may be called with.
ArgLists == UNION {[1 .. k -> Ranges(ate)] : k \in 2 .. MaxRanges}

\* f, with g's values where g has one.
Override(f, g) == [x \in DOMAIN f |-> IF x \in DOMAIN g THEN g[x] ELSE f[x]]

--------------------------------------------------------------------------
(***************************************************************************)
(* vmm_swap_i, vmm_swap_o and vmm_swap_x on the pages R of a, and the      *)
(* conditions they ASSERT.                                                 *)
(***************************************************************************)

\* Mutant: pages are made resident without reading the file.
MutSwapINoRead(a, R) ==
  LET in == {x \in R : "RSDNT" \in a.flags[x]}
  IN  IF a.l_pages = a.n_pages THEN a
      ELSE [a EXCEPT
        !.l_pages = @ + Cardinality(in),
        !.c_pages = @ + Cardinality({x \in in : "CHRGD" \in a.flags[x]}),
        !.flags   = Override(@, [x \in in |-> a.flags[x] \ Evicted]),
        !.prot    = Override(@, [x \in R |->
                      IF "DIRTY" \in a.flags[x] THEN "rw" ELSE "read"])]

\* Mutant: pages that were resident already lose write access.
MutSwapIProtect(a, R) ==
  LET in == {x \in R : "RSDNT" \in a.flags[x]}
  IN  IF a.l_pages = a.n_pages THEN a
      ELSE [a EXCEPT
        !.mem     = Override(@, [x \in {y \in in : "ZFILL" \in a.flags[y]} |->
                      a.file[x]]),
        !.l_pages = @ + Cardinality(in),
        !.c_pages = @ + Cardinality({x \in in : "CHRGD" \in a.flags[x]}),
        !.flags   = Override(@, [x \in in |-> a.flags[x] \ Evicted]),
        !.prot    = Override(@, [x \in R |-> "read"])]

vmm_swap_i(a, R) ==
  LET in   == {x \in R : "RSDNT" \in a.flags[x]}
      load == {x \in in : "ZFILL" \in a.flags[x] /\ "DIRTY" \notin a.flags[x]}
  IN  IF a.l_pages = a.n_pages THEN a
      ELSE [a EXCEPT
        !.mem     = Override(@, [x \in load |-> a.file[x]]),
        !.l_pages = @ + Cardinality(in),
        !.c_pages = @ + Cardinality({x \in in : "CHRGD" \in a.flags[x]}),
        !.flags   = Override(@, [x \in in |-> a.flags[x] \ Evicted]),
        !.prot    = Override(@,
                      IF opts.ghost THEN [x \in load |-> "read"]
                      ELSE [x \in R |-> IF "DIRTY" \in a.flags[x] THEN "rw"
                                                              ELSE "read"])]

vmm_swap_i_ok(a, R) ==
  LET in == {x \in R : "RSDNT" \in a.flags[x]}
  IN  IF a.l_pages = a.n_pages THEN a.c_pages = a.n_pages
      ELSE /\ \A x \in R \ in : "CHRGD" \notin a.flags[x]
           /\ a.l_pages + Cardinality(in) <= a.n_pages
           /\ a.c_pages + Cardinality({x \in in : "CHRGD" \in a.flags[x]})
                <= a.n_pages

\* The pages of the runs in D that reach the file.  vmm_write subtracts len
\* from len after its first write(2), so it never makes a second one.
vmm_write(D) ==
  {x \in D : \E k \in D : /\ k <= x /\ x < k + MaxXfer
                          /\ k - 1 \notin D
                          /\ k .. x \subseteq D}

\* Mutant: an evicted page forgets that its data is in the file.
MutSwapOForgets(a, R) ==
  LET D == {x \in R : "DIRTY" \in a.flags[x]}
      C == {x \in R \ D : "CHRGD" \notin a.flags[x]}
  IN  IF a.l_pages = 0 THEN a
      ELSE [a EXCEPT
        !.file    = Override(@, [x \in vmm_write(D) |-> a.mem[x]]),
        !.l_pages = @ - Cardinality(D)
                      - Cardinality({x \in C : "RSDNT" \notin a.flags[x]}),
        !.c_pages = @ - Cardinality(D) - Cardinality(C),
        !.d_pages = @ - Cardinality(D),
        !.flags   = Override(@, [x \in R |-> Evicted]),
        !.prot    = Override(@, [x \in R |-> "none"]),
        !.mem     = Override(@, [x \in R |-> 0])]

vmm_swap_o(a, R) ==
  LET D == {x \in R : "DIRTY" \in a.flags[x]}
      C == {x \in R \ D : "CHRGD" \notin a.flags[x]}
  IN  IF a.l_pages = 0 THEN a
      ELSE [a EXCEPT
        !.file    = Override(@, [x \in vmm_write(D) |-> a.mem[x]]),
        !.l_pages = @ - Cardinality(D)
                      - Cardinality({x \in C : "RSDNT" \notin a.flags[x]}),
        !.c_pages = @ - Cardinality(D) - Cardinality(C),
        !.d_pages = @ - Cardinality(D),
        !.flags   = Override(@, [x \in R |->
                      Evicted \cup (IF x \in D THEN {"ZFILL"}
                                    ELSE a.flags[x] \cap {"ZFILL"})]),
        !.prot    = Override(@, [x \in R |-> "none"]),
        !.mem     = Override(@, [x \in R |-> 0])]

vmm_swap_o_ok(a, R) ==
  LET D == {x \in R : "DIRTY" \in a.flags[x]}
      C == {x \in R \ D : "CHRGD" \notin a.flags[x]}
  IN  \/ a.l_pages = 0
      \/ /\ \A x \in D : a.flags[x] \cap Evicted = {}
         /\ a.l_pages >= Cardinality(D)
                         + Cardinality({x \in C : "RSDNT" \notin a.flags[x]})
         /\ a.c_pages >= Cardinality(D) + Cardinality(C)
         /\ a.d_pages >= Cardinality(D)

\* Mutant: pages that are no longer dirty stay writable.
MutSwapXWritable(a, R) ==
  LET D == {x \in R : "DIRTY" \in a.flags[x]}
  IN  [a EXCEPT
        !.d_pages = @ - Cardinality(D),
        !.flags   = Override(@, [x \in R |-> a.flags[x] \ {"DIRTY", "ZFILL"}])]

vmm_swap_x(a, R) ==
  LET D == {x \in R : "DIRTY" \in a.flags[x]}
  IN  [a EXCEPT
        !.d_pages = @ - Cardinality(D),
        !.flags   = Override(@, [x \in R |-> a.flags[x] \ {"DIRTY", "ZFILL"}]),
        !.prot    = Override(@, [x \in D |-> "read"])]

vmm_swap_x_ok(a, R) ==
  a.d_pages >= Cardinality({x \in R : "DIRTY" \in a.flags[x]})

--------------------------------------------------------------------------
(***************************************************************************)
(* The library calls.                                                      *)
(***************************************************************************)

\* A call ends with allocation a and shared counters c and d, unless an ASSERT
\* fails on the way and aborts the process.
Finish(why, a, c, d) ==
  /\ fault' = why
  /\ IF why = "none" THEN ate' = a /\ c_mem' = c /\ d_mem' = d
                     ELSE UNCHANGED <<ate, c_mem, d_mem>>

\* The ASSERTs of ipc_atomic_dec, then its effect.
Release(why, a, c, d) ==
  Finish(IF why # "none" THEN why
         ELSE IF c_mem < c \/ d_mem < d THEN "atomic_dec" ELSE "none",
         a, c_mem - c, d_mem - d)

\* The unspecified pages are U, after a call that ended.
Unspecified(U) == undef' = IF fault' = "none" THEN U ELSE undef

\* ipc_madmit(c) returns: the budget covers it.
Admits(c) == c_mem + c <= MaxMem

Allocated == fault = "none" /\ ate.n_pages > 0

\* Mutant: resident pages are admitted but not counted in the allocation.
MutMallocUncounted(n) ==
  LET c == IF opts.rsdnt THEN n ELSE 0
  IN  /\ fault = "none"
      /\ ate.n_pages = 0
      /\ Admits(c)
      /\ ate' = [NoAte EXCEPT
           !.n_pages = n,
           !.l_pages = c,
           !.flags   = Override(@, [x \in 0 .. n - 1 |->
                         IF opts.rsdnt THEN {} ELSE Evicted]),
           !.prot    = Override(@, [x \in 0 .. n - 1 |->
                         IF opts.rsdnt THEN "read" ELSE "none"])]
      /\ c_mem' = c_mem + c
      /\ undef' = {}
      /\ UNCHANGED <<opts, d_mem, fault, out>>

sbma_malloc(n) ==
  LET c == IF opts.rsdnt THEN n ELSE 0
  IN  /\ fault = "none"
      /\ ate.n_pages = 0
      /\ Admits(c)
      /\ ate' = [NoAte EXCEPT
           !.n_pages = n,
           !.l_pages = c,
           !.c_pages = c,
           !.flags   = Override(@, [x \in 0 .. n - 1 |->
                         IF opts.rsdnt THEN {} ELSE Evicted]),
           !.prot    = Override(@, [x \in 0 .. n - 1 |->
                         IF opts.rsdnt THEN "read" ELSE "none"])]
      /\ c_mem' = c_mem + c
      /\ undef' = {}
      /\ UNCHANGED <<opts, d_mem, fault, out>>

sbma_free ==
  /\ Allocated
  /\ Release("none", NoAte, ate.c_pages, ate.d_pages)
  /\ Unspecified({})
  /\ UNCHANGED <<opts, out>>

\* Aggressive charging: the first touch charges the whole allocation.
AggCharge(a) == opts.aggch /\ opts.lzyrd /\ a.c_pages = 0

sbma_mtouch_probe(a, R) ==
  IF AggCharge(a) THEN a.n_pages
  ELSE Cardinality({x \in R : "CHRGD" \in a.flags[x]})

ProbeOk(a, R) ==
  AggCharge(a) \/ \A x \in R : "CHRGD" \in a.flags[x] => "RSDNT" \in a.flags[x]

\* What sbma_mtouch_int does before it calls vmm_swap_i.
ChargeAll(a) ==
  IF AggCharge(a)
  THEN [a EXCEPT !.c_pages = a.n_pages,
                 !.flags = Override(@, [x \in PagesOf(a) |->
                             a.flags[x] \ {"CHRGD"}])]
  ELSE a

sbma_mtouch_int(a, R) == vmm_swap_i(ChargeAll(a), R)

TouchFault(a, R) ==
  IF ~ProbeOk(a, R) THEN "probe"
  ELSE IF ~vmm_swap_i_ok(ChargeAll(a), R) THEN "swap_i"
  ELSE "none"

\* sbma_mtouch, from the application or from the SIGSEGV handler.
sbma_mtouch(R) ==
  LET c == sbma_mtouch_probe(ate, R)
  IN  /\ Allocated
      /\ Admits(c)
      /\ Finish(TouchFault(ate, R), sbma_mtouch_int(ate, R), c_mem + c, d_mem)
      /\ UNCHANGED <<opts, out, undef>>

sbma_mtouchall ==
  LET R == PagesOf(ate)
      c == sbma_mtouch_probe(ate, R)
      a == sbma_mtouch_int(ate, R)
  IN  /\ Allocated
      /\ Admits(c)
      /\ Finish(IF TouchFault(ate, R) # "none" THEN TouchFault(ate, R)
                ELSE IF a.l_pages # a.n_pages \/ a.c_pages # a.n_pages
                     THEN "mtouchall"
                ELSE "none",
                a, c_mem + c, d_mem)
      /\ UNCHANGED <<opts, out, undef>>

Touched(Rs) == UNION {Rs[k] : k \in DOMAIN Rs}

\* The first page of a range.  Addresses are those of pages, so two ranges with
\* the same first page have the same address.
First(R) == CHOOSE x \in R : \A y \in R : x <= y

\* How sbma_mtouch_atomic adds range R of the allocation to its list L.  It
\* compares R with the first entry only.  When they overlap or adjoin they are
\* merged, but a range with the address of the entry replaces it.
AddRange(L, R) ==
  IF L = <<>> THEN <<R>>
  ELSE IF \A x \in L[1], y \in R : x + 1 < y \/ y + 1 < x THEN Append(L, R)
  ELSE [L EXCEPT ![1] = IF First(@) = First(R) THEN R ELSE @ \cup R]

AtomicRanges(Rs) ==
  LET list[k \in 0 .. Len(Rs)] ==
        IF k = 0 THEN <<>> ELSE AddRange(list[k - 1], Rs[k])
  IN  list[Len(Rs)]

\* Several ranges at once: all are probed, the sum is admitted, then each is
\* touched.  The ASSERT(0) excludes a second range of an allocation that the
\* first touch would charge as a whole.
sbma_mtouch_atomic(Rs) ==
  LET L == AtomicRanges(Rs)
      c[k \in 0 .. Len(L)] ==
        IF k = 0 THEN 0 ELSE c[k - 1] + sbma_mtouch_probe(ate, L[k])
      a[k \in 0 .. Len(L)] ==
        IF k = 0 THEN ate ELSE sbma_mtouch_int(a[k - 1], L[k])
      dup    == AggCharge(ate) /\ Len(L) > 1
      faults == {TouchFault(a[k - 1], L[k]) : k \in DOMAIN L} \ {"none"}
  IN  /\ Allocated
      /\ dup \/ Admits(c[Len(L)])
      /\ \E why \in (IF dup THEN {"atomic"}
                     ELSE IF faults = {} THEN {"none"} ELSE faults) :
           Finish(why, a[Len(L)], c_mem + c[Len(L)], d_mem)
      /\ UNCHANGED <<opts, out, undef>>

sbma_mevict(R) ==
  /\ Allocated
  /\ Release(IF vmm_swap_o_ok(ate, R) THEN "none" ELSE "swap_o",
             vmm_swap_o(ate, R),
             Cardinality(R \cap Charged(ate)),
             Cardinality(R \cap DirtyPages(ate)))
  /\ UNCHANGED <<opts, out, undef>>

\* Everything at once: what sbma_mevictall does, and vmm_sigipc between two
\* calls.  Returns what the counters say and ASSERTs that nothing is left.
sbma_mevictall ==
  LET a == vmm_swap_o(ate, PagesOf(ate))
  IN  /\ Allocated
      /\ Release(IF ~vmm_swap_o_ok(ate, PagesOf(ate)) THEN "swap_o"
                 ELSE IF a.l_pages # 0 \/ a.c_pages # 0 \/ a.d_pages # 0
                      THEN "mevictall"
                 ELSE "none",
                 a, ate.c_pages, ate.d_pages)
      /\ UNCHANGED <<opts, out, undef>>

ClearFault(R) == IF vmm_swap_x_ok(ate, R) THEN "none" ELSE "swap_x"

\* R: the pages that lie wholly within the range.
sbma_mclear(R) ==
  /\ Allocated
  /\ Release(ClearFault(R), vmm_swap_x(ate, R),
             0, Cardinality(R \cap DirtyPages(ate)))
  /\ Unspecified(undef \cup R)
  /\ UNCHANGED <<opts, out>>

\* sbma_mclear of every allocation, each with its own ipc_mevict, and then
\* ipc_mdirty with the sum of the d_pages there were.
sbma_mclearall ==
  LET R == PagesOf(ate)
      d == Cardinality(DirtyPages(ate))
  IN  /\ Allocated
      /\ "mclearall" \in opts.calls
      /\ Finish(IF ClearFault(R) # "none" THEN ClearFault(R)
                ELSE IF d_mem < d THEN "atomic_dec"
                ELSE IF ate.d_pages # d THEN "mclearall"
                ELSE IF d_mem - d < ate.d_pages THEN "mdirty"
                ELSE "none",
                vmm_swap_x(ate, R), c_mem, d_mem - d - ate.d_pages)
      /\ Unspecified(R)
      /\ UNCHANGED <<opts, out>>

--------------------------------------------------------------------------
(***************************************************************************)
(* sbma_realloc.  The flags of up to a page's worth of pages, those beyond *)
(* n_pages included, move with the allocation.                             *)
(***************************************************************************)

\* The pages from nn on are dropped.  The amounts returned are computed from
\* counters that have been lowered already: no charged pages, and the dirty
\* pages that stay.
sbma_realloc_shrink(nn) ==
  LET gone == nn .. ate.n_pages - 1
      l    == Cardinality(gone \cap Resident(ate))
      c    == Cardinality(gone \cap Charged(ate))
      d    == Cardinality(gone \cap DirtyPages(ate))
  IN  /\ Allocated
      /\ "shrink" \in opts.calls
      /\ gone # {}
      /\ Release(IF ate.l_pages < l \/ ate.c_pages < c \/ ate.d_pages < d
                 THEN "realloc" ELSE "none",
                 [ate EXCEPT !.n_pages = nn,
                             !.l_pages = @ - l,
                             !.c_pages = @ - c,
                             !.d_pages = @ - d,
                             !.prot = Override(@, [x \in gone |-> "none"]),
                             !.mem  = Override(@, [x \in gone |-> 0])],
                 0, ate.d_pages - d)
      /\ Unspecified(undef \ gone)
      /\ UNCHANGED <<opts, out>>

\* The loop that restores protections after option merge has lost them.  It
\* compares a whole flag byte, that of page first[i], with two bits of the
\* next ones.
RunFirst(a) ==
  LET first[i \in 0 .. a.n_pages] ==
        IF i = 0 THEN 0
        ELSE IF a.flags[first[i - 1]] = a.flags[i - 1] \cap {"RSDNT", "DIRTY"}
             THEN first[i - 1] ELSE i - 1
  IN  first

\* The mprotect at the end i of a run that began at f: a run of dirty pages
\* becomes writable, but for a resident clean run it is as many pages starting
\* at i that become readable.
RunPages(a, f, i) ==
  IF "DIRTY" \in a.flags[f] THEN f .. i - 1
  ELSE IF "RSDNT" \notin a.flags[f] THEN i .. 2 * i - f - 1
  ELSE {}

\* The loop's mprotects that reach page x, and the last of them.
MergeProt(a, x, default) ==
  LET first == RunFirst(a)
      hits  == {i \in 0 .. a.n_pages :
                  /\ \/ i = a.n_pages
                     \/ a.flags[first[i]] # a.flags[i] \cap {"RSDNT", "DIRTY"}
                  /\ x \in RunPages(a, first[i], i)}
      last  == CHOOSE i \in hits : \A j \in hits : j <= i
  IN  IF hits = {} THEN default
      ELSE IF "DIRTY" \in a.flags[first[last]] THEN "rw" ELSE "read"

\* The pages from n_pages to nn - 1 are added.  The first of them is where the
\* flags were before.  When the merge loop's mprotect reaches beyond the last
\* page it takes write access from the flags themselves.
sbma_realloc_grow(nn) ==
  LET new   == ate.n_pages .. nn - 1
      extra == IF opts.rsdnt THEN Cardinality(new) ELSE 0
      fresh == IF opts.rsdnt THEN "read" ELSE "none"
  IN  /\ Allocated
      /\ "grow" \in opts.calls
      /\ new # {}
      /\ Admits(extra)
      /\ \E junk \in Vals :
           Finish(IF opts.merge /\ MergeProt(ate, nn, "rw") # "rw"
                  THEN "flags" ELSE "none",
                  [ate EXCEPT
                    !.n_pages = nn,
                    !.l_pages = @ + extra,
                    !.c_pages = @ + extra,
                    !.flags = Override(@, [x \in new |->
                                IF opts.rsdnt THEN ate.flags[x]
                                ELSE ate.flags[x] \cup Evicted]),
                    !.prot = Override(@,
                               IF opts.merge
                               THEN [x \in 0 .. nn - 1 |->
                                      MergeProt(ate, x, fresh)]
                               ELSE [x \in new |-> fresh]),
                    !.mem[ate.n_pages] = junk],
                  c_mem + extra, d_mem)
      /\ Unspecified(undef \cup new)
      /\ UNCHANGED <<opts, out>>

\* mremap fails: what was admitted is returned, and option merge has to put
\* the protections back.
sbma_realloc_fails ==
  LET extra == IF opts.rsdnt THEN 1 ELSE 0
  IN  /\ Allocated
      /\ "grow" \in opts.calls
      /\ Admits(extra)
      /\ ate' = [ate EXCEPT !.prot = Override(@,
                   IF opts.merge
                   THEN [x \in PagesOf(ate) |->
                          IF x \in DirtyPages(ate) THEN "rw"
                          ELSE IF x \in Resident(ate) THEN "read" ELSE "none"]
                   ELSE [x \in {} |-> "none"])]
      /\ UNCHANGED <<opts, c_mem, d_mem, fault, out, undef>>

--------------------------------------------------------------------------
(***************************************************************************)
(* The application's accesses.                                             *)
(***************************************************************************)

Load(x) ==
  /\ Allocated
  /\ ate.prot[x] # "none"
  /\ out' = ate.mem[x]
  /\ UNCHANGED <<opts, ate, c_mem, d_mem, fault, undef>>

Store(x, v) ==
  /\ Allocated
  /\ ate.prot[x] = "rw"
  /\ ate' = [ate EXCEPT !.mem[x] = v]
  /\ undef' = undef \ {x}
  /\ UNCHANGED <<opts, c_mem, d_mem, fault, out>>

\* An access to x that its protection does not allow, by the state of x: it is
\* made resident, with lazy reading alone, else with the whole allocation ...
SegvAbsent(x) ==
  /\ "RSDNT" \in ate.flags[x]
  /\ ate.prot[x] # "rw"
  /\ sbma_mtouch(IF opts.lzyrd THEN {x} ELSE PagesOf(ate))

\* Mutant: a page becomes dirty without counting in the shared segment.
MutSegvNoMdirty(x) ==
  /\ Allocated
  /\ "RSDNT" \notin ate.flags[x]
  /\ ate.prot[x] # "rw"
  /\ ate' = [ate EXCEPT !.flags[x] = {"DIRTY"}, !.prot[x] = "rw",
                        !.d_pages = @ + 1]
  /\ UNCHANGED <<opts, c_mem, d_mem, fault, out, undef>>

\* Mutant: a page becomes dirty without counting in the allocation.
MutSegvNoCount(x) ==
  /\ Allocated
  /\ "RSDNT" \notin ate.flags[x]
  /\ ate.prot[x] # "rw"
  /\ ate' = [ate EXCEPT !.flags[x] = {"DIRTY"}, !.prot[x] = "rw"]
  /\ d_mem' = d_mem + 1
  /\ UNCHANGED <<opts, c_mem, fault, out, undef>>

\* ... or it becomes dirty: the access is taken for a write.
SegvDirty(x) ==
  /\ Allocated
  /\ "RSDNT" \notin ate.flags[x]
  /\ ate.prot[x] # "rw"
  /\ Finish(IF "DIRTY" \in ate.flags[x] THEN "sigsegv" ELSE "none",
            [ate EXCEPT !.flags[x] = {"DIRTY"}, !.prot[x] = "rw",
                        !.d_pages = @ + 1],
            c_mem, d_mem + 1)
  /\ UNCHANGED <<opts, out, undef>>

vmm_sigsegv(x) == SegvAbsent(x) \/ SegvDirty(x)

\* sbma_mcheck, with options check and extra, returns 0.
sbma_mcheck ==
  /\ ate.l_pages = Cardinality(Resident(ate))
  /\ ate.c_pages = Cardinality(Charged(ate))
  /\ ate.d_pages = Cardinality(DirtyPages(ate))
  /\ c_mem = ate.c_pages
  /\ d_mem = ate.d_pages

\* sbma_mallopt(M_VMMOPTS, ...): the options change while an allocation exists.
sbma_mallopt ==
  /\ fault = "none"
  /\ "mallopt" \in opts.calls
  /\ opts' \in Configs
  /\ UNCHANGED <<ate, c_mem, d_mem, fault, out, undef>>

--------------------------------------------------------------------------
Next ==
  \/ \E n \in 1 .. MaxPages :
       \/ sbma_malloc(n)
       \/ sbma_realloc_shrink(n)
       \/ sbma_realloc_grow(n)
  \/ sbma_realloc_fails
  \/ sbma_free \/ sbma_mallopt
  \/ sbma_mtouchall \/ sbma_mevictall \/ sbma_mclearall
  \/ \E R \in Ranges(ate) :
       \/ sbma_mtouch(R) \/ sbma_mevict(R) \/ sbma_mclear(R)
  \/ \E Rs \in ArgLists : sbma_mtouch_atomic(Rs)
  \/ \E x \in PagesOf(ate) :
       \/ Load(x) \/ vmm_sigsegv(x)
       \/ \E v \in Vals : Store(x, v)

Spec == Init /\ [][Next]_vars

--------------------------------------------------------------------------
(***************************************************************************)
(* Properties.                                                             *)
(***************************************************************************)

Faults == {"none", "probe", "swap_i", "swap_o", "swap_x", "atomic_dec",
           "mdirty", "mtouchall", "mevictall", "mclearall", "atomic",
           "realloc", "flags", "sigsegv"}

\* The allocation and the shared counters keep their types: no size_t wraps.
TypeOK ==
  /\ opts \in Configs
  /\ ate \in [n_pages : 0 .. MaxPages, l_pages : Nat, c_pages : Nat,
              d_pages : Nat, flags : [PageNos -> SUBSET Bits],
              prot : [PageNos -> {"none", "read", "rw"}],
              mem : [PageNos -> Vals], file : [PageNos -> Vals]]
  /\ c_mem \in Nat
  /\ d_mem \in Nat
  /\ fault \in Faults
  /\ out \in Vals
  /\ undef \in SUBSET PageNos

\* After every call the counters of the allocation are the numbers of its flags
\* and the shared counters are the allocation's: sbma_mcheck, which the library
\* runs before and after its calls, never fails.
Mcheck == fault = "none" => sbma_mcheck

\* No ASSERT of the library fails.
NoAssert == fault = "none"

\* Where the data of page x is.
Content(x) ==
  IF "RSDNT" \notin ate.flags[x] THEN ate.mem[x]
  ELSE IF "ZFILL" \in ate.flags[x] THEN ate.file[x] ELSE 0

\* The protection of a page follows its flags: an access that is let through
\* without a fault finds the data there and, when it is a write, the page
\* counted as dirty.
Protected ==
  fault = "none" =>
    \A x \in PagesOf(ate) :
      /\ ate.prot[x] # "none" => "RSDNT" \notin ate.flags[x]
      /\ ate.prot[x] = "rw" <=> "DIRTY" \in ate.flags[x]

\* What the application may expect in its pages.
Contents == [x \in PagesOf(ate) |-> IF x \in undef THEN Undef ELSE Content(x)]

\* The data survives: the library implements the memory of AppMemory.
Memory == INSTANCE AppMemory WITH val <- Contents

Implements == Memory!Spec

--------------------------------------------------------------------------
(***************************************************************************)
(* What the sources say of the calls and some calls do not do.             *)
(***************************************************************************)

\* ipc_mdirty never lowers d_mem below zero (its ASSERT), sbma_mclearall's call
\* of it included.
MdirtyCovered == fault # "mdirty"

\* sbma_mevictall leaves nothing charged (its ASSERTs after every allocation).
NothingCharged == fault # "mevictall"

\* sbma_mtouch_atomic never meets the case it has excluded with ASSERT(0).
AtomicCovered == fault # "atomic"

\* sbma_mtouch_atomic: "Touch the specified ranges".  It leaves every page of
\* every range resident.
AllTouched ==
  [][\A Rs \in ArgLists :
       sbma_mtouch_atomic(Rs) /\ fault' = "none"
         => \A x \in Touched(Rs) : "RSDNT" \notin ate'.flags[x]]_vars

\* sbma_mtouch_atomic's comment "This is to avoid double counting": a call
\* charges the process for what it charges to the allocation.
NoDoubleCount ==
  [][\A Rs \in ArgLists :
       sbma_mtouch_atomic(Rs) /\ fault' = "none"
         => c_mem' - c_mem = ate'.c_pages - ate.c_pages]_vars

\* A dirty page that vmm_swap_o meets "is resident" and "is charged".
DirtyResident == fault # "swap_o"

\* vmm_write: "Write data to file".  A dirty page that is evicted is in the
\* file.
WrittenBack ==
  [][\A x \in DirtyPages(ate) :
       (fault' = "none" /\ {"RSDNT", "ZFILL"} \subseteq ate'.flags[x])
         => ate'.file[x] = ate.mem[x]]_vars

==========================================================================
