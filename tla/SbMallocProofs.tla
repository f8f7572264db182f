--------------------------- MODULE SbMallocProofs ----------------------------
(***************************************************************************)
(* The predecessor of the library, src/old/sbmalloc.c, for any number of   *)
(* threads, allocations and pages: data survive eviction, and the handler  *)
(* of faults finds what it expects.                                        *)
(***************************************************************************)
EXTENDS SbControlProofs

\* An allocation whose swapped-out pages are still accessible.
Dropping(a) == alock[a] \in Threads /\ pc[alock[a]] = "drop"

FlagSets == {{}, {ONDISK}, {SYNC}, {SYNC, ONDISK}, {DIRTY}}
ProtOf(f) == IF SYNC \in f THEN "r" ELSE IF DIRTY \in f THEN "rw" ELSE "none"

\* A page with flags f, protection r, contents m, wanted contents w, in the file x:
\* the copies that count are the ones wanted.
Current(f, r, m, w, x) ==
  /\ f \in FlagSets
  /\ w # Undef =>
       /\ r # "none" => m = w
       /\ DIRTY \notin f => w = IF ONDISK \in f THEN x ELSE 0

PageOk(a, p) ==
  /\ Current(flags[a][p], prot[a][p], mem[a][p], want[a][p], file[a][p])
  /\ IF Dropping(a) THEN ~ InMemory(flags[a][p]) ELSE prot[a][p] = ProtOf(flags[a][p])
  /\ p \notin PagesOf(a) => flags[a][p] = {}

CountOk(a) ==
  /\ ld[a] = Cardinality(LoadedOf(a))
  /\ ~ lazy => LoadedOf(a) = {} \/ LoadedOf(a) = PagesOf(a)

PageInv == \A a \in Slots : CountOk(a) /\ \A p \in Pages : PageOk(a, p)

\* A page whose fault has not been served is not dirty.
FaultInv ==
  \A t \in Threads :
    op[t].call \in Rw /\ pc[t] \in {"find", "alock", "read", "write"}
      => DIRTY \notin flags[op[t].a][op[t].beg]

\* While the library starts or ends no other call is under way.
StartInv ==
  /\ init = 0 => head = <<>> /\ \A t \in Threads : pc[t] \in Resting
  /\ \A t \in Threads : pc[t] \in Starting \cup {"final"} =>
       head = <<>> /\ \A u \in Threads \ {t} : pc[u] = "idle"
  /\ \A t \in Threads : pc[t] = "ilock" => init = 0
  /\ init = 1 => (pagesize = 1 /\ handler) \/ \E t \in Threads : pc[t] = "ipage"

NotAborted == \A t \in Threads : pc[t] # "abort"

SbInv == ControlInv /\ PageInv /\ FaultInv /\ NotAborted

\* The prover of the steps that name no other.
USE ZenonT(60)

LEMMA SbInitInv ==
  ASSUME Init
  PROVE  SbInv
<1>1. ControlInv
  BY ControlInit
<1>7. \A a \in Slots, p \in Pages : PageOk(a, p)
  BY SbAssumption, SMTT(30) DEF Init, PageOk, Current, FlagSets, Dropping, ProtOf, InMemory, Undef
<1>8. \A a \in Slots : LoadedOf(a) = {} /\ ld[a] = 0
  BY SMTT(30) DEF Init, LoadedOf, InMemory, PagesOf, Pages
<1>9. PageInv
  BY <1>7, <1>8, FS_EmptySet, SMTT(30) DEF PageInv, CountOk
<1>10. FaultInv /\ NotAborted
  BY DEF Init, FaultInv, NotAborted
<1> QED
  BY <1>1, <1>9, <1>10 DEF SbInv

------------------------------------------------------------------------------
(***************************************************************************)
(* Pages.                                                                  *)
(***************************************************************************)
LEMMA DroppingIs ==
  ASSUME LockInv, NEW a \in Slots
  PROVE  Dropping(a) <=> \E u \in Threads : pc[u] = "drop" /\ Target(u) = a
<1>1. \A u \in Threads : alock[a] = u <=> HasAlloc(u) /\ Target(u) = a
  BY DEF LockInv
<1>2. \A u \in Threads : pc[u] = "drop" => HasAlloc(u)
  BY DEF HasAlloc
<1> QED
  BY <1>1, <1>2 DEF Dropping

LEMMA DropFrame ==
  ASSUME ControlInv, NEW t \in Threads, Begin(t) \/ Step(t), NEW a \in Slots,
         pc[t] = "drop" => Target(t) # a, pc'[t] = "drop" => Target(t)' # a
  PROVE  Dropping(a)' <=> Dropping(a)
<1>1. LockInv /\ LockInv'
  BY LockInvStep DEF ControlInv
<1>2. ASSUME NEW u \in Threads \ {t}
      PROVE  (pc'[u] = "drop" /\ Target(u)' = a) <=> (pc[u] = "drop" /\ Target(u) = a)
  <2>1. pc'[u] = pc[u]
    BY AloneStep DEF ControlInv, Alone
  <2>2. Owns(u, a)' <=> Owns(u, a)
    BY LockOthers
  <2> QED
    BY <2>1, <2>2 DEF Owns, HasAlloc
<1>3. Dropping(a)' <=> \E u \in Threads : pc'[u] = "drop" /\ Target(u)' = a
  <2>1. \A u \in Threads : alock'[a] = u <=> HasAlloc(u)' /\ Target(u)' = a
    BY <1>1 DEF LockInv
  <2>2. \A u \in Threads : pc'[u] = "drop" => HasAlloc(u)'
    BY DEF HasAlloc
  <2> QED
    BY <2>1, <2>2 DEF Dropping
<1> QED
  BY <1>1, <1>2, <1>3, DroppingIs

\* The thread that has the lock decides.
LEMMA DropOwned ==
  ASSUME LockInv, NEW t \in Threads, NEW a \in Slots, Owns(t, a)
  PROVE  Dropping(a) <=> pc[t] = "drop"
  BY DEF LockInv, Owns, Dropping

LEMMA DropFree ==
  ASSUME NEW a \in Slots, alock[a] = Free
  PROVE  ~ Dropping(a)
  BY SbAssumption DEF Dropping

\* Nobody drops what is not in the list and no other call is about.
LEMMA DropUnlisted ==
  ASSUME ControlInv, NEW t \in Threads, op[t].call \in {"mmap", "munmap"}, op[t].a \notin Listed, pc[t] # "drop"
  PROVE  ~ Dropping(op[t].a)
<1> SbTypes /\ CallInv /\ LockInv /\ ApartInv
  BY DEF ControlInv
<1>2. op[t].a \in Slots
  BY OneSubject DEF OnAll
<1>3. ASSUME NEW u \in Threads, pc[u] = "drop", Target(u) = op[t].a PROVE FALSE
  <2>1. u # t /\ op[u].a # op[t].a
    BY <1>3 DEF ApartInv, Apart
  <2>2. op[u].call = "mevictall" /\ op[u].beg < Len(head)
    BY <1>3, <2>1 DEF Target, CallInv, Fit, Args
  <2>3. Target(u) \in Listed
    BY <2>2, EachSubject DEF Target
  <2> QED
    BY <1>3, <2>3
<1> QED
  BY <1>2, <1>3, DroppingIs

\* What a step leaves alone stays right.
LEMMA PageFrame ==
  ASSUME NEW a \in Slots, NEW p \in Pages, PageOk(a, p), Dropping(a)' <=> Dropping(a), np'[a] = np[a],
         flags'[a][p] = flags[a][p], prot'[a][p] = prot[a][p], mem'[a][p] = mem[a][p],
         want'[a][p] = want[a][p], file'[a][p] = file[a][p]
  PROVE  PageOk(a, p)'
  BY DEF PageOk, PagesOf, Current, FlagSets, InMemory, ProtOf

LEMMA CountFrame ==
  ASSUME SbTypes, NEW a \in Slots, CountOk(a), np'[a] = np[a], ld'[a] = ld[a], lazy' = lazy,
         \A p \in Pages : InMemory(flags'[a][p]) <=> InMemory(flags[a][p])
  PROVE  LoadedOf(a)' = LoadedOf(a) /\ CountOk(a)'
<1>1. PagesOf(a)' = PagesOf(a) /\ PagesOf(a) \subseteq Pages
  BY PagesFinite DEF PagesOf
<1>2. LoadedOf(a)' = LoadedOf(a)
  <2>1. LoadedOf(a)' = {p \in PagesOf(a)' : InMemory(flags'[a][p])}
    BY DEF LoadedOf, InMemory
  <2> QED
    BY <1>1, <2>1 DEF LoadedOf
<1> QED
  BY <1>1, <1>2 DEF CountOk

LEMMA FaultFrame ==
  ASSUME ControlInv, FaultInv, NEW t \in Threads, Begin(t) \/ Step(t),
         \A a \in Slots, p \in Pages : DIRTY \in flags'[a][p] =>
           DIRTY \in flags[a][p] \/ (op[t].call \in Rw /\ a = op[t].a /\ p = op[t].beg),
         op'[t].call \in Rw /\ pc'[t] \in {"find", "alock", "read", "write"} =>
           DIRTY \notin flags'[op'[t].a][op'[t].beg]
  PROVE  FaultInv'
<1> SbTypes /\ CallInv /\ ApartInv
  BY DEF ControlInv
<1>2. ASSUME NEW u \in Threads \ {t}, op[u].call \in Rw, pc[u] \in {"find", "alock", "read", "write"}
      PROVE  DIRTY \notin flags'[op[u].a][op[u].beg]
  <2>1. op[u].a \in Slots /\ op[u].beg \in Pages
    BY <1>2, RwSubject
  <2>2. DIRTY \notin flags[op[u].a][op[u].beg]
    BY <1>2 DEF FaultInv
  <2>3. ~ (op[t].call \in Rw /\ op[u].a = op[t].a /\ op[u].beg = op[t].beg)
    <3>1. Apart(u, t)
      BY DEF ApartInv
    <3> QED
      BY <1>2, <3>1 DEF Apart
  <2> QED
    BY <2>1, <2>2, <2>3
<1>3. \A u \in Threads \ {t} : pc'[u] = pc[u] /\ op'[u] = op[u]
  BY AloneStep DEF Alone
<1> QED
  BY <1>2, <1>3 DEF FaultInv

LEMMA PagesElse ==
  ASSUME ControlInv, PageInv, NEW t \in Threads, Begin(t) \/ Step(t), NEW a \in Slots,
         pc[t] = "drop" => Target(t) = a, pc'[t] = "drop" => Target(t)' = a, lazy' = lazy,
         \A b \in Slots \ {a} :
           /\ np'[b] = np[b] /\ ld'[b] = ld[b] /\ flags'[b] = flags[b] /\ prot'[b] = prot[b]
           /\ mem'[b] = mem[b] /\ want'[b] = want[b] /\ file'[b] = file[b],
         CountOk(a)', \A p \in Pages : PageOk(a, p)'
  PROVE  PageInv'
<1>1. ASSUME NEW b \in Slots \ {a} PROVE CountOk(b)' /\ \A p \in Pages : PageOk(b, p)'
  <2>1. CountOk(b) /\ \A p \in Pages : PageOk(b, p)
    BY DEF PageInv
  <2>2. CountOk(b)'
    BY <2>1, CountFrame DEF ControlInv
  <2>3. Dropping(b)' <=> Dropping(b)
    BY DropFrame
  <2> QED
    BY <2>1, <2>2, <2>3, PageFrame
<1> QED
  BY <1>1 DEF PageInv

\* __swap_in__ of pages that are not loaded.
LEMMA SwapInKeeps ==
  ASSUME ControlInv, PageInv, NEW t \in Threads, Step(t), NEW a \in Slots, ~ Dropping(a),
         pc[t] # "drop", pc'[t] # "drop", UNCHANGED <<lazy, np, file, want>>,
         NEW S, S \subseteq PagesOf(a) \ LoadedOf(a), ~ lazy => S \cup LoadedOf(a) = PagesOf(a),
         SwapIn(a, S)
  PROVE  PageInv' /\ \A b \in Slots, p \in Pages : DIRTY \in flags'[b][p] => DIRTY \in flags[b][p]
<1> SbTypes
  BY DEF ControlInv
<1> IsFiniteSet(S) /\ Cardinality(S) \in Nat /\ S \subseteq Pages
  BY PagesFinite
<1>3. /\ \A b \in Slots \ {a} : /\ flags'[b] = flags[b] /\ mem'[b] = mem[b]
                                /\ prot'[b] = prot[b] /\ ld'[b] = ld[b]
      /\ \A p \in Pages \ S : /\ flags'[a][p] = flags[a][p] /\ mem'[a][p] = mem[a][p]
                              /\ prot'[a][p] = prot[a][p]
      /\ \A p \in Pages \cap S : /\ flags'[a][p] = flags[a][p] \cup {SYNC} /\ prot'[a][p] = "r"
                                 /\ mem'[a][p] = IF ONDISK \in flags[a][p] THEN file[a][p] ELSE 0
      /\ ld'[a] = ld[a] + Cardinality(S)
  BY SwapInIs, SMTT(30)
<1>4. ~ Dropping(a)'
  BY DropFrame
<1>5. CountOk(a) /\ \A p \in Pages : PageOk(a, p)
  BY DEF PageInv
<1>6. \A p \in S : ~ InMemory(flags[a][p])
  BY DEF LoadedOf
<1>7. \A p \in Pages : PageOk(a, p)'
  <2>1. ASSUME NEW p \in Pages \ S PROVE PageOk(a, p)'
    BY <1>3, <1>4, <1>5, PageFrame
  <2>2. ASSUME NEW p \in S PROVE PageOk(a, p)'
    <3>1. PICK f \in FlagSets : f = flags[a][p]
      BY <1>5 DEF PageOk, Current
    <3>2. f \in {{}, {ONDISK}}
      BY <1>6, <3>1 DEF FlagSets, InMemory
    <3>3. flags'[a][p] = f \cup {SYNC} /\ prot'[a][p] = "r" /\ mem'[a][p] = IF ONDISK \in f THEN file[a][p] ELSE 0
      BY <1>3, <3>1
    <3>4. f \cup {SYNC} \in FlagSets /\ ProtOf(f \cup {SYNC}) = "r" /\ (ONDISK \in f \cup {SYNC} <=> ONDISK \in f)
      BY <3>2 DEF FlagSets, ProtOf, SYNC, ONDISK, DIRTY
    <3>5. want[a][p] # Undef => want[a][p] = IF ONDISK \in f THEN file[a][p] ELSE 0
      BY <1>5, <3>1, <3>2 DEF PageOk, Current, DIRTY, ONDISK
    <3>6. p \in PagesOf(a)'
      BY DEF PagesOf
    <3>7. Current(flags[a][p], prot[a][p], mem[a][p], want[a][p], file[a][p])'
      BY <3>3, <3>4, <3>5 DEF Current, FlagSets
    <3>8. ProtOf(flags[a][p])' = "r"
      BY <3>3, <3>4 DEF ProtOf
    <3> QED
      BY <1>4, <3>3, <3>6, <3>7, <3>8 DEF PageOk
  <2> QED
    BY <2>1, <2>2
<1>8. CountOk(a)'
  <2>1. PagesOf(a)' = PagesOf(a) /\ PagesOf(a) \subseteq Pages
    BY PagesFinite DEF PagesOf
  <2>2. LoadedOf(a)' = {p \in PagesOf(a) : InMemory(flags'[a][p])}
    BY <2>1 DEF LoadedOf, InMemory
  <2>3. \A p \in PagesOf(a) : InMemory(flags'[a][p]) <=> p \in S \/ InMemory(flags[a][p])
    BY <1>3, <2>1 DEF InMemory
  <2>4. LoadedOf(a)' = LoadedOf(a) \cup S
    BY <2>2, <2>3 DEF LoadedOf
  <2>5. IsFiniteSet(LoadedOf(a)) /\ Cardinality(LoadedOf(a)) \in Nat
    BY LoadedFinite
  <2>6. LoadedOf(a) \cap S = {}
    OBVIOUS
  <2>7. Cardinality(LoadedOf(a) \cup S) = Cardinality(LoadedOf(a)) + Cardinality(S)
    <3>1. Cardinality(LoadedOf(a) \cap S) = 0
      BY <2>6, FS_EmptySet
    <3>2. /\ IsFiniteSet(LoadedOf(a) \cup S)
          /\ Cardinality(LoadedOf(a) \cup S) = Cardinality(LoadedOf(a)) + Cardinality(S) - Cardinality(LoadedOf(a) \cap S)
      BY <2>5, FS_Union
    <3> QED
      BY <2>5, <3>1, <3>2, SMTT(30)
  <2>8. ld'[a] = Cardinality(LoadedOf(a)')
    BY <1>3, <1>5, <2>4, <2>7 DEF CountOk
  <2> QED
    BY <2>1, <2>4, <2>8 DEF CountOk
<1>9. PageInv'
  BY <1>3, <1>7, <1>8, PagesElse
<1>10. ASSUME NEW b \in Slots, NEW p \in Pages, DIRTY \in flags'[b][p] PROVE DIRTY \in flags[b][p]
  <2>1. b # a => flags'[b] = flags[b]
    BY <1>3
  <2>2. b = a => flags'[b][p] \subseteq flags[b][p] \cup {SYNC}
    BY <1>3
  <2> QED
    BY <1>10, <2>1, <2>2 DEF DIRTY, SYNC
<1> QED
  BY <1>9, <1>10

\* __swap_clr__.
LEMMA SwapClrKeeps ==
  ASSUME ControlInv, PageInv, NEW t \in Threads, Step(t), NEW a \in Slots, ~ Dropping(a),
         pc[t] # "drop", pc'[t] # "drop", UNCHANGED <<lazy, np, ld, mem>>, NEW S, SwapClr(a, S)
  PROVE  PageInv' /\ \A b \in Slots, p \in Pages : DIRTY \in flags'[b][p] => DIRTY \in flags[b][p]
<1>1. SbTypes
  BY DEF ControlInv
<1>2. /\ \A b \in Slots \ {a} : /\ flags'[b] = flags[b] /\ file'[b] = file[b]
                                /\ prot'[b] = prot[b] /\ want'[b] = want[b]
      /\ \A p \in Pages :
           \/ /\ flags'[a][p] = flags[a][p] /\ file'[a][p] = file[a][p]
              /\ prot'[a][p] = prot[a][p] /\ want'[a][p] = want[a][p]
           \/ /\ want'[a][p] = Undef
              /\ IF DIRTY \in flags[a][p]
                 THEN flags'[a][p] = {SYNC} /\ prot'[a][p] = "r"
                 ELSE flags'[a][p] = flags[a][p] \ {ONDISK} /\ prot'[a][p] = prot[a][p]
  BY <1>1, SwapClrIs
<1>3. ~ Dropping(a)'
  BY DropFrame
<1>4. CountOk(a) /\ \A p \in Pages : PageOk(a, p)
  BY DEF PageInv
<1>5. ASSUME NEW p \in Pages
      PROVE  PageOk(a, p)' /\ (InMemory(flags'[a][p]) <=> InMemory(flags[a][p]))
             /\ (DIRTY \in flags'[a][p] => DIRTY \in flags[a][p])
  <2>1. CASE /\ flags'[a][p] = flags[a][p] /\ file'[a][p] = file[a][p]
             /\ prot'[a][p] = prot[a][p] /\ want'[a][p] = want[a][p]
    BY <1>3, <1>4, <2>1, PageFrame
  <2>2. CASE /\ want'[a][p] = Undef
             /\ IF DIRTY \in flags[a][p]
                THEN flags'[a][p] = {SYNC} /\ prot'[a][p] = "r"
                ELSE flags'[a][p] = flags[a][p] \ {ONDISK} /\ prot'[a][p] = prot[a][p]
    <3>1. PICK f \in FlagSets : f = flags[a][p]
      BY <1>4 DEF PageOk, Current
    <3>2. prot[a][p] = ProtOf(f) /\ (p \notin PagesOf(a) => f = {})
      BY <1>4, <3>1 DEF PageOk
    <3>3. PICK g : g = IF DIRTY \in f THEN {SYNC} ELSE f \ {ONDISK}
      OBVIOUS
    <3>4. flags'[a][p] = g
      BY <2>2, <3>1, <3>3
    <3>5. /\ g \in FlagSets /\ (InMemory(g) <=> InMemory(f)) /\ DIRTY \notin g
          /\ DIRTY \in f => ProtOf(g) = "r"
          /\ DIRTY \notin f => ProtOf(g) = ProtOf(f)
          /\ f = {} => g = {}
      BY <3>3 DEF FlagSets, InMemory, ProtOf, SYNC, DIRTY, ONDISK
    <3>6. prot'[a][p] = ProtOf(g)
      BY <2>2, <3>1, <3>2, <3>5
    <3>7. Current(flags[a][p], prot[a][p], mem[a][p], want[a][p], file[a][p])'
      BY <2>2, <3>4, <3>5 DEF Current, FlagSets
    <3>8. ProtOf(flags[a][p])' = ProtOf(g) /\ PagesOf(a)' = PagesOf(a)
      BY <3>4 DEF ProtOf, PagesOf
    <3>9. PageOk(a, p)'
      BY <1>3, <3>2, <3>4, <3>5, <3>6, <3>7, <3>8 DEF PageOk
    <3> QED
      BY <3>1, <3>4, <3>5, <3>9
  <2> QED
    BY <1>2, <2>1, <2>2
<1>6. CountOk(a)'
  BY <1>1, <1>4, <1>5, CountFrame
<1>7. PageInv'
  BY <1>2, <1>5, <1>6, PagesElse
<1> QED
  BY <1>2, <1>5, <1>7

\* __swap_out__ up to the protection of the pages.
LEMMA SwapOutKeeps ==
  ASSUME ControlInv, PageInv, NEW t \in Threads, Step(t), NEW a \in Slots, ~ Dropping(a), Dropping(a)',
         pc[t] # "drop", Target(t)' = a, UNCHANGED <<lazy, np, mem, prot, want>>, SwapOut(a)
  PROVE  PageInv' /\ \A b \in Slots, p \in Pages : DIRTY \in flags'[b][p] => DIRTY \in flags[b][p]
<1> SbTypes
  BY DEF ControlInv
<1>2. /\ \A b \in Slots \ {a} : flags'[b] = flags[b] /\ file'[b] = file[b] /\ ld'[b] = ld[b]
      /\ \A p \in Pages : IF DIRTY \in flags[a][p]
                          THEN flags'[a][p] = {ONDISK} /\ file'[a][p] = mem[a][p]
                          ELSE flags'[a][p] = flags[a][p] \cap {ONDISK} /\ file'[a][p] = file[a][p]
      /\ ld'[a] = ld[a] - Cardinality(LoadedOf(a))
  BY SwapOutIs
<1>3. CountOk(a) /\ \A p \in Pages : PageOk(a, p)
  BY DEF PageInv
<1>4. PagesOf(a)' = PagesOf(a) /\ PagesOf(a) \subseteq Pages
  BY PagesFinite DEF PagesOf
<1>5. ASSUME NEW p \in Pages
      PROVE  PageOk(a, p)' /\ flags'[a][p] \subseteq {ONDISK}
  <2>1. PICK f \in FlagSets : f = flags[a][p]
    BY <1>3 DEF PageOk, Current
  <2>2. /\ prot[a][p] = ProtOf(f) /\ (p \notin PagesOf(a) => f = {})
        /\ want[a][p] # Undef => /\ prot[a][p] # "none" => mem[a][p] = want[a][p]
                                 /\ DIRTY \notin f => want[a][p] = IF ONDISK \in f THEN file[a][p] ELSE 0
    BY <1>3, <2>1 DEF PageOk, Current
  <2>3. PICK g : g = IF DIRTY \in f THEN {ONDISK} ELSE f \cap {ONDISK}
    OBVIOUS
  <2>4. flags'[a][p] = g /\ file'[a][p] = IF DIRTY \in f THEN mem[a][p] ELSE file[a][p]
    BY <1>2, <2>1, <2>3
  <2>5. /\ g \in FlagSets /\ g \subseteq {ONDISK} /\ DIRTY \notin g /\ SYNC \notin g
        /\ DIRTY \in f => ProtOf(f) = "rw" /\ ONDISK \in g
        /\ DIRTY \notin f => (ONDISK \in g <=> ONDISK \in f)
        /\ f = {} => g = {}
    BY <2>3 DEF FlagSets, ProtOf, SYNC, DIRTY, ONDISK
  <2>6. want[a][p] # Undef => want[a][p] = IF ONDISK \in g THEN file'[a][p] ELSE 0
    BY <2>2, <2>4, <2>5
  <2>7. Current(flags[a][p], prot[a][p], mem[a][p], want[a][p], file[a][p])'
    BY <2>2, <2>4, <2>5, <2>6 DEF Current, FlagSets
  <2>8. ~ InMemory(flags[a][p])'
    BY <2>4, <2>5 DEF InMemory
  <2>9. p \notin PagesOf(a)' => flags'[a][p] = {}
    BY <1>4, <2>2, <2>4, <2>5
  <2> QED
    BY <2>4, <2>5, <2>7, <2>8, <2>9 DEF PageOk
<1>6. CountOk(a)'
  <2>1. LoadedOf(a)' = {}
    BY <1>4, <1>5 DEF LoadedOf, InMemory, SYNC, DIRTY, ONDISK
  <2>2. ld'[a] = 0
    <3>1. Cardinality(LoadedOf(a)) \in Nat
      BY LoadedFinite
    <3> QED
      BY <1>2, <1>3, <3>1, SMTT(30) DEF CountOk
  <2> QED
    BY <2>1, <2>2, FS_EmptySet DEF CountOk
<1>7. PageInv'
  BY <1>2, <1>5, <1>6, PagesElse
<1>8. ASSUME NEW b \in Slots, NEW p \in Pages, DIRTY \in flags'[b][p] PROVE DIRTY \in flags[b][p]
  <2>1. b # a
    BY <1>5, <1>8, SMTT(30) DEF DIRTY, ONDISK
  <2> QED
    BY <1>2, <1>8, <2>1
<1> QED
  BY <1>7, <1>8

\* The rest of it.
LEMMA DropKeeps ==
  ASSUME ControlInv, PageInv, NEW t \in Threads, Step(t), NEW a \in Slots, Dropping(a), ~ Dropping(a)',
         pc[t] = "drop", Target(t) = a, pc'[t] # "drop", UNCHANGED <<lazy, np, ld, flags, file, want>>, Drop(a)
  PROVE  PageInv'
<1>1. SbTypes
  BY DEF ControlInv
<1>2. /\ \A b \in Slots \ {a} : prot'[b] = prot[b] /\ mem'[b] = mem[b]
      /\ \A p \in Pages : prot'[a][p] = "none" /\ mem'[a][p] = 0
  BY <1>1, DropIs
<1>3. CountOk(a) /\ \A p \in Pages : PageOk(a, p)
  BY DEF PageInv
<1>4. PagesOf(a)' = PagesOf(a)
  BY DEF PagesOf
<1>5. ASSUME NEW p \in Pages PROVE PageOk(a, p)'
  <2>1. /\ flags[a][p] \in FlagSets /\ ~ InMemory(flags[a][p]) /\ (p \notin PagesOf(a) => flags[a][p] = {})
        /\ want[a][p] # Undef /\ DIRTY \notin flags[a][p]
             => want[a][p] = IF ONDISK \in flags[a][p] THEN file[a][p] ELSE 0
    BY <1>3 DEF PageOk, Current
  <2>2. SYNC \notin flags[a][p] /\ DIRTY \notin flags[a][p]
    BY <2>1 DEF InMemory
  <2>3. Current(flags[a][p], prot[a][p], mem[a][p], want[a][p], file[a][p])'
    BY <1>2, <2>1, <2>2 DEF Current, FlagSets
  <2>4. ProtOf(flags[a][p])' = "none"
    BY <2>2 DEF ProtOf
  <2> QED
    BY <1>2, <1>4, <2>1, <2>3, <2>4 DEF PageOk
<1>6. CountOk(a)'
  BY <1>1, <1>3, CountFrame
<1> QED
  BY <1>2, <1>5, <1>6, PagesElse

\* What the flags of a page say, when its allocation is not being swapped out.
LEMMA FlagFacts ==
  ASSUME PageInv, NEW a \in Slots, NEW p \in Pages
  PROVE  /\ flags[a][p] \in FlagSets
         /\ SYNC \in flags[a][p] => DIRTY \notin flags[a][p]
         /\ DIRTY \in flags[a][p] => flags[a][p] = {DIRTY} /\ prot[a][p] = "rw"
         /\ ~ Dropping(a) => prot[a][p] = ProtOf(flags[a][p])
         /\ ~ Dropping(a) /\ prot[a][p] = "rw" => flags[a][p] = {DIRTY}
         /\ ~ Dropping(a) /\ SYNC \in flags[a][p] => prot[a][p] = "r"
         /\ want[a][p] # Undef /\ prot[a][p] # "none" => mem[a][p] = want[a][p]
<1>1. PageOk(a, p)
  BY DEF PageInv
<1>2. PICK f \in FlagSets : f = flags[a][p]
  BY <1>1 DEF PageOk, Current
<1>3. /\ SYNC \in f => DIRTY \notin f /\ ProtOf(f) = "r"
      /\ DIRTY \in f => f = {DIRTY} /\ ProtOf(f) = "rw"
      /\ ProtOf(f) = "rw" => f = {DIRTY}
  BY <1>2 DEF FlagSets, ProtOf, SYNC, DIRTY, ONDISK
<1>4. /\ IF Dropping(a) THEN ~ InMemory(f) ELSE prot[a][p] = ProtOf(f)
      /\ want[a][p] # Undef /\ prot[a][p] # "none" => mem[a][p] = want[a][p]
  BY <1>1, <1>2 DEF PageOk, Current
<1>5. DIRTY \in f => ~ Dropping(a)
  BY <1>4 DEF InMemory
<1> QED
  BY <1>2, <1>3, <1>4, <1>5

\* Nobody swaps out an allocation that another thread writes.
LEMMA WriterApart ==
  ASSUME ControlInv, NEW t \in Threads, op[t].call = "write", pc[t] = "access"
  PROVE  ~ Dropping(op[t].a)
<1>1. SUFFICES ASSUME Dropping(op[t].a) PROVE FALSE
  OBVIOUS
<1>2. op[t].a \in Slots
  BY OneSubject DEF ControlInv, OnAll
<1>3. PICK u \in Threads : pc[u] = "drop" /\ Target(u) = op[t].a
  BY <1>1, <1>2, DroppingIs DEF ControlInv
<1>4. u # t /\ op[u].call \in {"mevict", "mevictall"}
  BY <1>3 DEF ControlInv, CallInv, Fit
<1>5. Discards(u, op[t].a)
  BY <1>3, <1>4 DEF Target, Discards
<1>6. ~ Discards(u, op[t].a)
  BY <1>4 DEF ControlInv, ApartInv, Apart
<1> QED
  BY <1>5, <1>6

\* An access.
LEMMA AccessKeeps ==
  ASSUME ControlInv, PageInv, FaultInv, NEW t \in Threads, Access(t)
  PROVE  PageInv' /\ FaultInv'
<1> SbTypes /\ CallInv /\ Step(t)
  BY DEF ControlInv, Step
<1>2. PICK a \in Slots, p \in Pages : a = op[t].a /\ p = op[t].beg
  BY AccessIs
<1>3. /\ UNCHANGED <<lazy, np, ld, flags, prot, file>>
      /\ IF Stores(t)
         THEN /\ mem'[a][p] = want'[a][p]
              /\ \A b \in Slots, x \in Pages : ~ (b = a /\ x = p) =>
                   mem'[b][x] = mem[b][x] /\ want'[b][x] = want[b][x]
         ELSE UNCHANGED <<mem, want>>
      /\ Goes(t, "find", op[t].beg) => prot[a][p] # "rw"
      /\ Goes(t, "find", op[t].beg) \/ Returns(t)
  BY <1>2, AccessIs
<1>4. pc[t] = "access" /\ pc'[t] \in {"find", "idle"}
  BY <1>3 DEF Access, Goes, Returns
<1>5. \A b \in Slots : Dropping(b)' <=> Dropping(b)
  BY <1>4, DropFrame
<1>6. Stores(t) => flags[a][p] = {DIRTY}
  BY <1>2, <1>4, FlagFacts, WriterApart DEF Stores
<1>7. ASSUME NEW b \in Slots, NEW x \in Pages PROVE PageOk(b, x)'
  <2> PageOk(b, x)
    BY DEF PageInv
  <2>2. CASE Stores(t) /\ b = a /\ x = p
    <3>1. Current(flags[b][x], prot[b][x], mem[b][x], want[b][x], file[b][x])'
      BY <1>3, <1>6, <2>2 DEF Current, FlagSets
    <3>2. IF Dropping(b) THEN ~ InMemory(flags[b][x]) ELSE prot[b][x] = ProtOf(flags[b][x])
      BY DEF PageOk
    <3>3. (IF Dropping(b) THEN ~ InMemory(flags[b][x]) ELSE prot[b][x] = ProtOf(flags[b][x]))'
      BY <1>3, <1>5, <3>2 DEF InMemory, ProtOf
    <3>4. (x \notin PagesOf(b) => flags[b][x] = {})'
      BY <1>3 DEF PageOk, PagesOf
    <3> QED
      BY <3>1, <3>3, <3>4 DEF PageOk
  <2>3. CASE ~ (Stores(t) /\ b = a /\ x = p)
    <3>1. mem'[b][x] = mem[b][x] /\ want'[b][x] = want[b][x]
      BY <1>3, <2>3
    <3> QED
      BY <1>3, <1>5, <3>1, PageFrame
  <2> QED
    BY <2>2, <2>3
<1>8. ASSUME NEW b \in Slots PROVE CountOk(b)'
  BY <1>3, CountFrame DEF PageInv
<1>9. PageInv'
  BY <1>7, <1>8 DEF PageInv
<1>10. FaultInv'
  <2>1. \A b \in Slots, x \in Pages : DIRTY \in flags'[b][x] => DIRTY \in flags[b][x]
    BY <1>3
  <2>2. ASSUME op'[t].call \in Rw, pc'[t] \in {"find", "alock", "read", "write"}
        PROVE  DIRTY \notin flags'[op'[t].a][op'[t].beg]
    <3>1. Goes(t, "find", op[t].beg)
      BY <1>3, <2>2 DEF Returns, NoOp, Rw
    <3>2. op'[t].a = a /\ op'[t].beg = p
      BY <1>2, <3>1 DEF Goes
    <3>3. DIRTY \notin flags[a][p]
      BY <1>3, <3>1, FlagFacts
    <3> QED
      BY <1>3, <3>2, <3>3
  <2> QED
    BY <2>1, <2>2, FaultFrame
<1> QED
  BY <1>9, <1>10

\* A thread at work under an allocation's lock is not swapping out.
LEMMA OwnerApart ==
  ASSUME ControlInv, NEW t \in Threads, op[t].call \in Rw \cup OnOne, pc[t] = op[t].call
  PROVE  op[t].a \in Slots /\ Target(t) = op[t].a /\ alock[op[t].a] = t /\ ~ Dropping(op[t].a)
<1>1. op[t].a \in Slots
  BY OneSubject DEF ControlInv, OnAll, Rw, OnOne
<1>2. pc[t] # "mexist"
  BY DEF ControlInv, SbTypes, Labels
<1>3. HasAlloc(t) /\ Target(t) = op[t].a
  BY <1>2 DEF HasAlloc, Target, Rw, OnOne
<1>4. alock[op[t].a] = t
  BY <1>1, <1>3 DEF ControlInv, LockInv
<1>5. pc[t] # "drop"
  BY DEF Rw, OnOne
<1> QED
  BY <1>1, <1>3, <1>4, <1>5 DEF Dropping

\* A fault on a synchronised page.
LEMMA SegvDirtyKeeps ==
  ASSUME ControlInv, PageInv, FaultInv, NEW t \in Threads, SegvDirty(t)
  PROVE  PageInv' /\ FaultInv'
<1> SbTypes /\ CallInv /\ Step(t)
  BY DEF ControlInv, Step
<1>2. PICK a \in Slots, p \in Pages : a = op[t].a /\ p = op[t].beg
  BY SegvDirtyIs
<1>3. \A b \in Slots, x \in Pages :
        IF b = a /\ x = p
        THEN flags'[b][x] = {DIRTY} /\ prot'[b][x] = "rw"
        ELSE flags'[b][x] = flags[b][x] /\ prot'[b][x] = prot[b][x] /\ file'[b][x] = file[b][x]
  BY <1>2, SegvDirtyIs, SMTT(30)
<1> /\ UNCHANGED <<lazy, np, ld, mem, want>> /\ SYNC \in flags[a][p] /\ op[t].call \in Rw
    /\ pc[t] = op[t].call /\ Goes(t, "access", op[t].beg)
  BY <1>2, FaultMoves DEF SegvDirty, CallInv, Fit, Rw
<1>5. ~ Dropping(a) /\ \A b \in Slots : Dropping(b)' <=> Dropping(b)
  <2>1. pc[t] # "drop" /\ pc'[t] # "drop"
    BY DEF Goes, Rw
  <2> QED
    BY <1>2, <2>1, DropFrame, OwnerApart
<1>6. p \in PagesOf(a)
  BY <1>2, RwSubject
<1>7. want[a][p] # Undef => mem[a][p] = want[a][p]
  BY <1>5, FlagFacts
<1>8. ASSUME NEW b \in Slots, NEW x \in Pages PROVE PageOk(b, x)'
  <2>1. PageOk(b, x)
    BY DEF PageInv
  <2>2. CASE b = a /\ x = p
    <3>1. flags'[b][x] = {DIRTY} /\ prot'[b][x] = "rw"
      BY <1>3, <2>2
    <3>2. Current(flags[b][x], prot[b][x], mem[b][x], want[b][x], file[b][x])'
      BY <1>7, <2>2, <3>1 DEF Current, FlagSets
    <3>3. ProtOf({DIRTY}) = "rw"
      BY DEF ProtOf, SYNC, DIRTY
    <3>4. ProtOf(flags[b][x])' = "rw"
      BY <3>1, <3>3 DEF ProtOf
    <3>5. x \in PagesOf(b)' /\ ~ Dropping(b)'
      BY <1>5, <1>6, <2>2 DEF PagesOf
    <3> QED
      BY <3>1, <3>2, <3>4, <3>5 DEF PageOk
  <2>3. CASE ~ (b = a /\ x = p)
    BY <1>3, <1>5, <2>1, <2>3, PageFrame
  <2> QED
    BY <2>2, <2>3
<1>9. ASSUME NEW b \in Slots PROVE CountOk(b)'
  <2>1. \A x \in Pages : InMemory(flags'[b][x]) <=> InMemory(flags[b][x])
    BY <1>3 DEF InMemory
  <2> QED
    BY <2>1, CountFrame DEF PageInv
<1>10. FaultInv'
  <2>1. \A b \in Slots, x \in Pages : DIRTY \in flags'[b][x] =>
          DIRTY \in flags[b][x] \/ (op[t].call \in Rw /\ b = op[t].a /\ x = op[t].beg)
    BY <1>2, <1>3
  <2>2. pc'[t] = "access"
    BY DEF Goes
  <2> QED
    BY <2>1, <2>2, FaultFrame
<1> QED
  BY <1>8, <1>9, <1>10 DEF PageInv

\* A fault on a page that is not: it finds room for what it loads.
LEMMA SegvLoadKeeps ==
  ASSUME ControlInv, PageInv, FaultInv, NEW t \in Threads, SegvLoad(t)
  PROVE  PageInv' /\ FaultInv' /\ pc'[t] = "track"
<1> SbTypes /\ CallInv /\ Step(t)
  BY DEF ControlInv, Step
<1>2. op[t].call \in Rw /\ pc[t] = op[t].call
  BY DEF SegvLoad, CallInv, Fit, Rw
<1>3. PICK a \in Slots, p \in Pages : a = op[t].a /\ p = op[t].beg /\ p \in PagesOf(a)
  BY <1>2, RwSubject
<1>4. ~ InMemory(flags[a][p])
  BY <1>2, <1>3 DEF SegvLoad, FaultInv, InMemory, Rw
<1>5. PICK S : S = SegvPages(a, p)
  OBVIOUS
<1>6. CountOk(a) /\ \A x \in Pages : PageOk(a, x)
  BY DEF PageInv
<1>7. S \subseteq PagesOf(a) \ LoadedOf(a) /\ (~ lazy => S \cup LoadedOf(a) = PagesOf(a))
  <2>1. p \notin LoadedOf(a) /\ LoadedOf(a) \subseteq PagesOf(a)
    BY <1>4 DEF LoadedOf
  <2>2. ~ lazy => LoadedOf(a) = {}
    BY <1>3, <1>6, <2>1 DEF CountOk
  <2> QED
    BY <1>3, <1>5, <2>1, <2>2 DEF SegvPages
<1>8. SwapInOK(a, S)
  <2>1. /\ IsFiniteSet(S) /\ Cardinality(S) \in Nat
        /\ IsFiniteSet(LoadedOf(a)) /\ Cardinality(LoadedOf(a)) \in Nat
        /\ Cardinality(S \cup LoadedOf(a)) \in Nat /\ Cardinality(S \cup LoadedOf(a)) <= np[a]
    <3>1. S \subseteq PagesOf(a) /\ LoadedOf(a) \subseteq PagesOf(a)
      BY <1>7 DEF LoadedOf
    <3>2. S \cup LoadedOf(a) \subseteq PagesOf(a)
      BY <3>1
    <3> QED
      BY <3>1, <3>2, PagesFinite
  <2>2. Cardinality(S \cup LoadedOf(a)) = Cardinality(S) + Cardinality(LoadedOf(a))
    <3>1. S \cap LoadedOf(a) = {}
      BY <1>7
    <3>2. Cardinality(S \cap LoadedOf(a)) = 0
      BY <3>1, FS_EmptySet
    <3>3. Cardinality(S \cup LoadedOf(a)) = Cardinality(S) + Cardinality(LoadedOf(a)) - Cardinality(S \cap LoadedOf(a))
      BY <2>1, FS_Union
    <3> QED
      BY <2>1, <3>2, <3>3, SMTT(30)
  <2>3. ld[a] = Cardinality(LoadedOf(a)) /\ np[a] \in Nat
    BY <1>6, SMTT(30) DEF CountOk, SbTypes
  <2>4. Cardinality(S) <= np[a] - ld[a]
    BY <2>1, <2>2, <2>3, SMTT(30)
  <2>5. ASSUME NEW x \in S PROVE flags[a][x] \subseteq {ONDISK}
    <3>1. x \in Pages /\ ~ InMemory(flags[a][x])
      BY <1>7, PagesFinite DEF LoadedOf
    <3>2. PICK f \in FlagSets : f = flags[a][x]
      BY <1>6, <3>1 DEF PageOk, Current
    <3>3. f \in {{}, {ONDISK}}
      BY <3>1, <3>2 DEF FlagSets, InMemory
    <3> QED
      BY <3>2, <3>3
  <2> QED
    BY <2>4, <2>5 DEF SwapInOK
<1>9. SwapIn(a, S) /\ Goto(t, "track") /\ UNCHANGED <<lazy, np, file, want>>
  BY <1>3, <1>5, <1>8 DEF SegvLoad
<1>10. pc'[t] = "track"
  BY <1>9 DEF Goto, SbTypes
<1>11. ~ Dropping(a) /\ pc[t] # "drop"
  BY <1>2, <1>3, OwnerApart DEF Rw
<1>12. PageInv' /\ \A b \in Slots, x \in Pages : DIRTY \in flags'[b][x] => DIRTY \in flags[b][x]
  BY <1>7, <1>9, <1>10, <1>11, SwapInKeeps
<1>13. FaultInv'
  BY <1>10, <1>12, FaultFrame
<1> QED
  BY <1>10, <1>12, <1>13

\* SB_mtouch.
LEMMA MtouchKeeps ==
  ASSUME ControlInv, PageInv, FaultInv, NEW t \in Threads, Mtouch(t)
  PROVE  PageInv' /\ FaultInv' /\ pc'[t] = "track"
<1> SbTypes /\ CallInv /\ Step(t)
  BY DEF ControlInv, Step
<1>2. op[t].call = "mtouch" /\ pc[t] = "mtouch"
  BY DEF Mtouch, CallInv, Fit
<1>3. PICK a \in Slots : a = op[t].a
  BY <1>2, TouchPagesIn
<1>4. PICK S : S = TouchPages(t)
  OBVIOUS
<1>5. SwapIn(a, S) /\ Goto(t, "track") /\ UNCHANGED <<lazy, np, file, want>>
  BY <1>3, <1>4 DEF Mtouch, TouchPages, TouchRange
<1>6. pc'[t] = "track"
  BY <1>5 DEF Goto, SbTypes
<1>7. S \subseteq PagesOf(a) \ LoadedOf(a) /\ (~ lazy => S \cup LoadedOf(a) = PagesOf(a))
  <2>1. TouchRange(t) \subseteq PagesOf(a)
    BY <1>2, <1>3, TouchPagesIn
  <2>2. ~ lazy => TouchRange(t) = PagesOf(a)
    BY <1>3 DEF TouchRange
  <2>3. LoadedOf(a) = {x \in PagesOf(a) : flags[a][x] \cap {SYNC, DIRTY} # {}}
    BY LoadedIs
  <2>4. S = {x \in TouchRange(t) : flags[a][x] \cap {SYNC, DIRTY} = {}}
    BY <1>3, <1>4 DEF TouchPages
  <2> QED
    BY <2>1, <2>2, <2>3, <2>4
<1>8. ~ Dropping(a)
  BY <1>2, <1>3, OwnerApart DEF OnOne
<1>9. PageInv' /\ \A b \in Slots, x \in Pages : DIRTY \in flags'[b][x] => DIRTY \in flags[b][x]
  BY <1>2, <1>5, <1>6, <1>7, <1>8, SwapInKeeps
<1>10. FaultInv'
  BY <1>6, <1>9, FaultFrame
<1> QED
  BY <1>6, <1>9, <1>10

\* SB_mclear and a round of SB_mclearall.
LEMMA ClearKeeps ==
  ASSUME ControlInv, PageInv, FaultInv, NEW t \in Threads, Mclear(t) \/ MclearallEach(t)
  PROVE  PageInv' /\ FaultInv' /\ pc'[t] # "abort"
<1> SbTypes /\ CallInv /\ Step(t)
  BY DEF ControlInv, Step
<1>2. \E a \in Slots : ~ Dropping(a) /\ \E S : SwapClr(a, S)
  <2>1. CASE Mclear(t)
    <3>1. op[t].call = "mclear" /\ pc[t] = "mclear"
      BY <2>1 DEF Mclear, CallInv, Fit
    <3>2. op[t].a \in Slots /\ ~ Dropping(op[t].a)
      BY <3>1, OwnerApart DEF OnOne
    <3> QED
      BY <2>1, <3>2 DEF Mclear
  <2>2. CASE MclearallEach(t)
    <3>1. PICK a : a = head[op[t].beg + 1]
      OBVIOUS
    <3>2. alock[a] = Free /\ SwapClr(a, PagesOf(a)) /\ op[t].beg < Len(head)
      BY <2>2, <3>1 DEF MclearallEach
    <3>3. a \in Slots
      BY <3>1, <3>2, EachSubject
    <3> QED
      BY <3>2, <3>3, DropFree
  <2> QED
    BY <2>1, <2>2
<1>3. UNCHANGED <<lazy, np, ld, mem>>
  BY DEF Mclear, MclearallEach
<1> /\ pc[t] \in {"mclear", "each"} /\ pc'[t] \in {"idle", "each"}
  BY PageMoves, AllMoves DEF Mclear, MclearallEach, Returns, Goes
<1>5. PageInv' /\ \A b \in Slots, x \in Pages : DIRTY \in flags'[b][x] => DIRTY \in flags[b][x]
  BY <1>2, <1>3, SwapClrKeeps
<1>6. FaultInv'
  BY <1>5, FaultFrame
<1> QED
  BY <1>5, <1>6

\* The first part of SB_mevict and of a round of SB_mevictall ...
LEMMA EvictKeeps ==
  ASSUME ControlInv, PageInv, FaultInv, NEW t \in Threads, Mevict(t) \/ MevictallEach(t)
  PROVE  PageInv' /\ FaultInv' /\ pc'[t] # "abort"
<1> SbTypes /\ CallInv /\ Step(t)
  BY DEF ControlInv, Step
<1>2. Goes(t, "drop", op[t].beg) /\ pc[t] \in {"mevict", "each"} /\ UNCHANGED <<lazy, np, mem, prot, want>>
  BY PageMoves, AllMoves DEF Mevict, MevictallEach
<1> pc'[t] = "drop" /\ op'[t].call = op[t].call /\ op'[t].a = op[t].a /\ op'[t].beg = op[t].beg
  BY <1>2 DEF Goes
<1>4. \E a \in Slots : ~ Dropping(a) /\ Dropping(a)' /\ Target(t)' = a /\ SwapOut(a)
  <2>1. CASE Mevict(t)
    <3>1. op[t].call = "mevict" /\ pc[t] = "mevict"
      BY <2>1 DEF Mevict, CallInv, Fit
    <3>2. op[t].a \in Slots /\ alock[op[t].a] = t /\ ~ Dropping(op[t].a)
      BY <3>1, OwnerApart DEF OnOne
    <3>3. SwapOut(op[t].a) /\ alock' = alock
      BY <2>1 DEF Mevict
    <3>4. Target(t)' = op[t].a
      BY <3>1 DEF Target
    <3>5. PICK a \in Slots : a = op[t].a
      BY <3>2
    <3>6. Dropping(a)'
      BY <3>2, <3>3, <3>5 DEF Dropping
    <3> QED
      BY <3>2, <3>3, <3>4, <3>5, <3>6
  <2>2. CASE MevictallEach(t)
    <3>1. PICK a : a = head[op[t].beg + 1]
      OBVIOUS
    <3>2. /\ alock[a] = Free /\ SwapOut(a) /\ op[t].beg < Len(head) /\ head' = head
          /\ alock' = [alock EXCEPT ![a] = t] /\ op[t].call = "mevictall"
      BY <2>2, <3>1 DEF MevictallEach
    <3>3. a \in Slots
      BY <3>1, <3>2, EachSubject
    <3>4. alock'[a] = t
      BY <3>2, <3>3 DEF SbTypes
    <3>5. Dropping(a)'
      BY <3>4 DEF Dropping
    <3>6. Target(t)' = a
      BY <3>1, <3>2 DEF Target
    <3> QED
      BY <3>2, <3>3, <3>5, <3>6, DropFree
  <2> QED
    BY <2>1, <2>2
<1>5. PageInv' /\ \A b \in Slots, x \in Pages : DIRTY \in flags'[b][x] => DIRTY \in flags[b][x]
  BY <1>2, <1>4, SwapOutKeeps
<1>6. FaultInv'
  BY <1>5, FaultFrame
<1> QED
  BY <1>5, <1>6

\* ... and the second.
LEMMA DroppedKeeps ==
  ASSUME ControlInv, PageInv, FaultInv, NEW t \in Threads, MevictDrop(t) \/ MevictallDrop(t)
  PROVE  PageInv' /\ FaultInv' /\ pc'[t] # "abort"
<1> SbTypes /\ CallInv /\ Step(t)
  BY DEF ControlInv, Step
<1> /\ pc[t] = "drop" /\ pc'[t] \in {"track", "each"}
    /\ UNCHANGED <<lazy, np, ld, flags, file, want>>
  BY PageMoves, AllMoves DEF MevictDrop, MevictallDrop, Goes
<1>3. Drop(Target(t)) /\ Unlock(Target(t))
  BY DEF MevictDrop, MevictallDrop, Target
<1>4. PICK a \in Slots : a = Target(t)
  <2>1. CASE op[t].call = "mevictall"
    <3>1. op[t].beg < Len(head)
      BY <2>1 DEF CallInv, Args
    <3> QED
      BY <2>1, <3>1, EachSubject DEF Target
  <2>2. CASE op[t].call = "mevict"
    BY <2>2, OneSubject DEF Target, OnAll
  <2> QED
    BY <2>1, <2>2 DEF MevictDrop, MevictallDrop
<1>5. alock[a] = t /\ Dropping(a)
  <2>1. HasAlloc(t)
    BY DEF HasAlloc
  <2>2. alock[a] = t
    BY <1>4, <2>1 DEF ControlInv, LockInv
  <2> QED
    BY <2>2 DEF Dropping
<1>6. ~ Dropping(a)'
  BY <1>3, <1>4, SbAssumption DEF Unlock, Dropping, SbTypes
<1>7. PageInv'
  BY <1>3, <1>4, <1>5, <1>6, DropKeeps
<1>8. FaultInv'
  BY FaultFrame
<1> QED
  BY <1>7, <1>8

\* SB_mmap and SB_munmap set up and give up an allocation that is not in the list.
LEMMA MmapKeeps ==
  ASSUME ControlInv, PageInv, FaultInv, NEW t \in Threads, Mmap(t)
  PROVE  PageInv' /\ FaultInv' /\ pc'[t] # "abort"
<1> SbTypes /\ CallInv /\ ListInv
  BY DEF ControlInv
<1> pc[t] = "mmap" /\ lazy' = lazy
  BY DEF Mmap
<1>2. op[t].call = "mmap"
  BY DEF CallInv, Fit
<1>a. PICK a, e : a = op[t].a /\ e = op[t].end
  OBVIOUS
<1> a \in Slots /\ a \notin Listed /\ e \in 0 .. N
  <2>1. op[t].a \in Slots
    BY <1>2, OneSubject DEF OnAll
  <2>2. op[t].a \notin Listed
    BY <1>2 DEF ListInv, Placed
  <2> QED
    BY <2>1, <2>2, <1>a, OpFields
<1> Step(t) /\ Goes(t, "link", op[t].beg)
  BY MapMoves DEF Step
<1>5. pc'[t] = "link" /\ op'[t].call = "mmap"
  BY <1>2 DEF Goes
<1>6. ~ Dropping(a) /\ ~ Dropping(a)'
  <2>1. ~ Dropping(a)
    BY <1>2, <1>a, DropUnlisted
  <2>2. Dropping(a)' <=> Dropping(a)
    BY <1>5, DropFrame
  <2> QED
    BY <2>1, <2>2
<1>7. /\ \A b \in Slots \ {a} :
           /\ flags'[b] = flags[b] /\ mem'[b] = mem[b] /\ prot'[b] = prot[b] /\ file'[b] = file[b]
           /\ want'[b] = want[b] /\ ld'[b] = ld[b] /\ np'[b] = np[b]
      /\ np'[a] = e /\ ld'[a] = e
      /\ \A p \in Pages :
           /\ flags'[a][p] = IF p < e THEN {SYNC} ELSE {}
           /\ prot'[a][p] = IF p < e THEN "r" ELSE "none"
           /\ mem'[a][p] = 0 /\ file'[a][p] = 0 /\ want'[a][p] = 0
  BY <1>a, MmapIs
<1>8. (\A p \in Pages : p < e <=> p \in 0 .. e - 1) /\ 0 .. e - 1 \subseteq Pages
  BY SbAssumption, SMTT(30) DEF Pages
<1>9. PagesOf(a)' = 0 .. e - 1
  BY <1>7 DEF PagesOf
<1>10. \A p \in Pages : PageOk(a, p)'
  <2>1. SUFFICES ASSUME NEW p \in Pages PROVE PageOk(a, p)'
    OBVIOUS
  <2>2. CASE p < e
    <3>1. flags'[a][p] = {SYNC} /\ prot'[a][p] = "r" /\ mem'[a][p] = 0 /\ want'[a][p] = 0 /\ p \in PagesOf(a)'
      BY <2>2, <1>7, <1>8, <1>9
    <3> QED
      BY <3>1, <1>6 DEF PageOk, Current, FlagSets, ProtOf, InMemory, SYNC, DIRTY, ONDISK
  <2>3. CASE ~ (p < e)
    <3>1. flags'[a][p] = {} /\ prot'[a][p] = "none" /\ want'[a][p] = 0
      BY <2>3, <1>7
    <3> QED
      BY <3>1, <1>6 DEF PageOk, Current, FlagSets, ProtOf, InMemory
  <2> QED
    BY <2>2, <2>3
<1>11. CountOk(a)'
  <2>1. LoadedOf(a)' = PagesOf(a)'
    <3>1. \A p \in PagesOf(a)' : SYNC \in flags'[a][p]
      BY <1>7, <1>8, <1>9
    <3> QED
      BY <3>1 DEF LoadedOf, InMemory
  <2>2. Cardinality(0 .. e - 1) = e
    BY FS_Interval, SMTT(30)
  <2> QED
    BY <2>1, <2>2, <1>7, <1>9 DEF CountOk
<1>12. PageInv'
  BY <1>5, <1>7, <1>10, <1>11, PagesElse
<1>13. \A b \in Slots, p \in Pages : DIRTY \in flags'[b][p] => DIRTY \in flags[b][p]
  <2>1. \A p \in Pages : DIRTY \notin flags'[a][p]
    BY <1>7, SMTT(30) DEF SYNC, DIRTY
  <2> QED
    BY <1>7, <2>1
<1>14. FaultInv'
  BY <1>5, <1>13, FaultFrame DEF Rw
<1> QED
  BY <1>5, <1>12, <1>14

LEMMA UnmapKeeps ==
  ASSUME ControlInv, PageInv, FaultInv, NEW t \in Threads, Unmap(t)
  PROVE  PageInv' /\ FaultInv' /\ pc'[t] # "abort"
<1> SbTypes /\ CallInv /\ ListInv
  BY DEF ControlInv
<1> pc[t] = "destroy" /\ lazy' = lazy
  BY DEF Unmap
<1>2. op[t].call = "munmap"
  BY DEF CallInv, Fit
<1>a. PICK a : a = op[t].a
  OBVIOUS
<1> a \in Slots /\ a \notin Listed
  <2>1. op[t].a \in Slots
    BY <1>2, OneSubject DEF OnAll
  <2>2. op[t].a \notin Listed
    BY <1>2 DEF ListInv, Placed, Starting
  <2> QED
    BY <2>1, <2>2, <1>a
<1> Step(t) /\ Returns(t)
  BY MapMoves DEF Step
<1>5. pc'[t] = "idle" /\ op'[t].call = "none"
  BY SMTT(30) DEF Returns, NoOp
<1>6. ~ Dropping(a) /\ ~ Dropping(a)'
  <2>1. ~ Dropping(a)
    BY <1>2, <1>a, DropUnlisted
  <2>2. Dropping(a)' <=> Dropping(a)
    BY <1>5, DropFrame
  <2> QED
    BY <2>1, <2>2
<1>7. /\ \A b \in Slots \ {a} :
           /\ flags'[b] = flags[b] /\ mem'[b] = mem[b] /\ prot'[b] = prot[b] /\ file'[b] = file[b]
           /\ want'[b] = want[b] /\ ld'[b] = ld[b] /\ np'[b] = np[b]
      /\ np'[a] = 0 /\ ld'[a] = 0
      /\ \A p \in Pages :
           /\ flags'[a][p] = {} /\ prot'[a][p] = "none"
           /\ mem'[a][p] = 0 /\ file'[a][p] = 0 /\ want'[a][p] = 0
  BY <1>a, UnmapIs
<1>8. \A p \in Pages : PageOk(a, p)'
  BY <1>6, <1>7 DEF PageOk, Current, FlagSets, ProtOf, InMemory
<1>9. CountOk(a)'
  <2>1. LoadedOf(a)' = {}
    BY <1>7, SMTT(30) DEF LoadedOf, PagesOf
  <2> QED
    BY <2>1, <1>7, FS_EmptySet DEF CountOk
<1>10. PageInv'
  BY <1>5, <1>7, <1>8, <1>9, PagesElse
<1>11. \A b \in Slots, p \in Pages : DIRTY \in flags'[b][p] => DIRTY \in flags[b][p]
  BY <1>7
<1>12. FaultInv'
  BY <1>5, <1>11, FaultFrame DEF Rw
<1> QED
  BY <1>5, <1>10, <1>12

\* Steps that leave the pages alone.
LEMMA StillKeeps ==
  ASSUME ControlInv, PageInv, FaultInv, NEW t \in Threads, Begin(t) \/ Step(t),
         UNCHANGED <<np, ld, flags, mem, prot, file, want>>, lazy' = lazy, pc[t] # "drop", pc'[t] # "drop",
         op'[t].call \in Rw /\ pc'[t] \in {"find", "alock", "read", "write"} =>
           /\ op[t].call \in Rw /\ pc[t] \in {"find", "alock", "read", "write"}
           /\ op'[t].a = op[t].a /\ op'[t].beg = op[t].beg
  PROVE  PageInv' /\ FaultInv'
<1>1. /\ np' = np /\ ld' = ld /\ flags' = flags /\ mem' = mem /\ prot' = prot /\ file' = file /\ want' = want
  OBVIOUS
<1>2. SbTypes
  BY DEF ControlInv
<1>3. PageInv'
  <2>1. SUFFICES ASSUME NEW a \in Slots PROVE CountOk(a)' /\ \A p \in Pages : PageOk(a, p)'
    BY DEF PageInv
  <2>2. Dropping(a)' <=> Dropping(a)
    BY DropFrame
  <2>3. CountOk(a) /\ \A p \in Pages : PageOk(a, p)
    BY DEF PageInv
  <2>4. CountOk(a)'
    BY <1>1, <1>2, <2>3, CountFrame
  <2>5. ASSUME NEW p \in Pages PROVE PageOk(a, p)'
    BY <1>1, <2>2, <2>3, PageFrame
  <2> QED
    BY <2>4, <2>5
<1>4. op'[t].call \in Rw /\ pc'[t] \in {"find", "alock", "read", "write"} => DIRTY \notin flags'[op'[t].a][op'[t].beg]
  BY <1>1 DEF FaultInv
<1>5. FaultInv'
  BY <1>1, <1>4, FaultFrame
<1> QED
  BY <1>3, <1>5

LEMMA StillGoes ==
  ASSUME ControlInv, PageInv, FaultInv, NEW t \in Threads, Step(t),
         UNCHANGED <<np, ld, flags, mem, prot, file, want>>, lazy' = lazy, pc[t] # "drop",
         NEW l \in Labels \ {"drop", "abort"}, Goes(t, l, op[t].beg),
         op[t].call \in Rw /\ l \in {"find", "alock", "read", "write"} => pc[t] \in {"find", "alock"}
  PROVE  PageInv' /\ FaultInv' /\ pc'[t] # "abort"
<1>1. pc'[t] = l /\ op'[t].call = op[t].call /\ op'[t].a = op[t].a /\ op'[t].beg = op[t].beg
  BY DEF Goes
<1> QED
  BY <1>1, StillKeeps

LEMMA StillReturns ==
  ASSUME ControlInv, PageInv, FaultInv, NEW t \in Threads, Step(t),
         UNCHANGED <<np, ld, flags, mem, prot, file, want>>, lazy' = lazy, pc[t] # "drop", Returns(t)
  PROVE  PageInv' /\ FaultInv' /\ pc'[t] # "abort"
<1>1. pc'[t] = "idle"
  BY DEF Returns
<1> QED
  BY <1>1, StillKeeps

LEMMA StillBegins ==
  ASSUME ControlInv, PageInv, FaultInv, NEW t \in Threads, Begin(t)
  PROVE  PageInv' /\ FaultInv' /\ pc'[t] # "abort"
<1>0. SbTypes /\ CallInv
  BY DEF ControlInv
<1>1. pc[t] = "idle" /\ lazy' = lazy /\ UNCHANGED <<np, ld, flags, mem, prot, file, want>>
  BY <1>0, BeginIs, PagesStill
<1>2. PICK c \in Calls \ {"none"} : \E a \in Slots \cup {Free}, beg \in Nat, end \in 0 .. N : Begins(t, c, a, beg, end)
  BY <1>0, BeginIs
<1>3. /\ op'[t].call = c /\ pc'[t] \in {"ilock", First(c)} /\ (c \in Rw => pc'[t] = First(c))
  BY <1>2 DEF Begins
<1>4. First(c) \notin {"abort", "drop"} /\ (c \in Rw => First(c) = "access")
  <2>1. c \in Rw => First(c) = "access"
    BY DEF First, Rw
  <2>2. First(c) \notin {"abort", "drop"}
    BY DEF First, Calls
  <2> QED
    BY <2>1, <2>2
<1>5. /\ pc'[t] # "abort" /\ pc'[t] # "drop"
      /\ ~ (op'[t].call \in Rw /\ pc'[t] \in {"find", "alock", "read", "write"})
  BY <1>3, <1>4
<1> QED
  BY <1>1, <1>5, StillKeeps

LEMMA StartKeeps ==
  ASSUME ControlInv, PageInv, FaultInv, NEW t \in Threads, InitLock(t) \/ InitBody(t) \/ Destroy(t)
  PROVE  PageInv' /\ FaultInv' /\ pc'[t] # "abort"
<1> SbTypes /\ CallInv /\ Step(t) /\ UNCHANGED <<np, ld, flags, mem, prot, file, want>> /\ op[t].call \in Calls
  BY PagesStill, OpFields DEF ControlInv, Step
<1>1. lazy' = lazy /\ pc[t] \in Starting \cup {"final"}
  BY DEF InitLock, InitBody, Destroy, Starting
<1>2. op[t].call # "none" /\ (op[t].call \in Rw => pc[t] = "final") /\ pc[t] # "drop"
  BY <1>1 DEF CallInv, Fit, Starting
<1>3. First(op[t].call) \in Labels \ {"drop", "abort"}
  <2>1. ASSUME NEW c \in Calls \ {"none"} PROVE First(c) \in Labels \ {"drop", "abort"}
    BY DEF First, Calls, Labels
  <2> QED
    BY <1>2, <2>1
<1>4. "ipage" \in Labels \ {"drop", "abort"}
  BY DEF Labels
<1>5. CASE Destroy(t)
  <2>1. Returns(t)
    BY <1>5, StartMoves
  <2> QED
    BY <1>1, <1>2, <2>1, StillReturns
<1>6. CASE InitLock(t) \/ InitBody(t)
  <2>1. op[t].call \notin Rw
    BY <1>6 DEF InitLock, InitBody, CallInv, Fit, Starting
  <2>2. Goes(t, First(op[t].call), op[t].beg) \/ Goes(t, "ipage", op[t].beg)
    BY <1>6, StartMoves
  <2> QED
    BY <1>1, <1>2, <1>3, <1>4, <2>1, <2>2, StillGoes
<1> QED
  BY <1>5, <1>6

LEMMA LockKeeps ==
  ASSUME ControlInv, PageInv, FaultInv, NEW t \in Threads, Find(t) \/ AllocLock(t)
  PROVE  PageInv' /\ FaultInv' /\ pc'[t] # "abort"
<1> SbTypes /\ CallInv /\ Step(t) /\ UNCHANGED <<np, ld, flags, mem, prot, file, want>>
  BY PagesStill DEF ControlInv, Step
<1>1. lazy' = lazy /\ pc[t] \in {"find", "alock"} /\ pc[t] # "drop"
  BY DEF Find, AllocLock
<1>2. CASE Find(t)
  <2>1. Returns(t) \/ Goes(t, "alock", op[t].beg)
    BY <1>2, FaultMoves
  <2>2. "alock" \in Labels \ {"drop", "abort"}
    BY DEF Labels
  <2> QED
    BY <1>1, <2>1, <2>2, StillReturns, StillGoes
<1>3. CASE AllocLock(t)
  <2>1. Goes(t, op[t].call, op[t].beg)
    BY <1>3, FaultMoves
  <2>2. op[t].call \in (Rw \cup OnOne) \ {"mexist"}
    BY <1>3 DEF AllocLock, CallInv, Fit
  <2>3. op[t].call \in Labels \ {"drop", "abort"}
    BY <2>2 DEF Rw, OnOne, Labels
  <2> QED
    BY <1>1, <2>1, <2>3, StillGoes
<1> QED
  BY <1>2, <1>3

LEMMA TrackKeeps ==
  ASSUME ControlInv, PageInv, FaultInv, NEW t \in Threads, Track(t) \/ TrackNum(t) \/ Discharge(t)
  PROVE  PageInv' /\ FaultInv' /\ pc'[t] # "abort"
<1>0. SbTypes /\ CallInv /\ Step(t) /\ UNCHANGED <<np, ld, flags, mem, prot, file, want>>
  BY PagesStill DEF ControlInv, Step
<1>1. lazy' = lazy /\ pc[t] # "drop"
  BY DEF Track, TrackNum, Discharge
<1>2. Returns(t) \/ \E l \in {"access", "tracknum", "discharge", "destroy"} : Goes(t, l, op[t].beg)
  BY <1>0, TrackMoves
<1>3. \A l \in {"access", "tracknum", "discharge", "destroy"} :
        l \in Labels \ {"drop", "abort"} /\ l \notin {"find", "alock", "read", "write"}
  BY DEF Labels
<1> QED
  BY <1>0, <1>1, <1>2, <1>3, StillReturns, StillGoes

LEMMA ListKeeps ==
  ASSUME ControlInv, PageInv, FaultInv, NEW t \in Threads,
         MmapFail(t) \/ Link(t) \/ Unlink(t) \/ Hold(t) \/ MtouchallEach(t) \/ AllDone(t)
  PROVE  PageInv' /\ FaultInv' /\ pc'[t] # "abort"
<1>0. SbTypes /\ CallInv /\ Step(t) /\ UNCHANGED <<np, ld, flags, mem, prot, file, want>>
  BY PagesStill DEF ControlInv, Step
<1>1. lazy' = lazy /\ pc[t] # "drop"
  BY DEF MmapFail, Link, Unlink, Hold, MtouchallEach, AllDone
<1>2. Returns(t) \/ \E l \in {"track", "each", "relock"} : Goes(t, l, op[t].beg)
  BY <1>0, MapMoves, AllMoves
<1>3. \A l \in {"track", "each", "relock"} :
        l \in Labels \ {"drop", "abort"} /\ l \notin {"find", "alock", "read", "write"}
  BY DEF Labels
<1> QED
  BY <1>0, <1>1, <1>2, <1>3, StillReturns, StillGoes

\* SB_mopt comes before there is any page.
LEMMA MoptKeeps ==
  ASSUME ControlInv, PageInv, FaultInv, Mopt
  PROVE  PageInv' /\ FaultInv'
<1>0. SbTypes /\ CallInv /\ ListInv
  BY DEF ControlInv
<1>1. /\ np' = np /\ ld' = ld /\ flags' = flags /\ mem' = mem /\ prot' = prot /\ file' = file /\ want' = want
      /\ pc' = pc /\ op' = op /\ alock' = alock /\ head = <<>> /\ \A t \in Threads : pc[t] = "idle"
  BY DEF Mopt, data, Busy
<1>2. \A t \in Threads : op[t].a = Free
  BY <1>0, <1>1 DEF CallInv, Fit, Args
<1>3. Listed = {}
  BY <1>1, SMTT(30) DEF Listed, Range
<1>4. \A a \in Slots : np[a] = 0
  <2>1. SUFFICES ASSUME NEW a \in Slots PROVE np[a] = 0
    OBVIOUS
  <2>2. a \in Slots \ Listed /\ a # Free
    BY <1>3, SbAssumption
  <2> QED
    BY <1>0, <1>2, <2>2, SMTT(30) DEF ListInv
<1>5. \A a \in Slots : LoadedOf(a) = {}
  BY <1>4, SMTT(30) DEF LoadedOf, PagesOf
<1>6. \A a \in Slots : LoadedOf(a)' = LoadedOf(a) /\ (Dropping(a)' <=> Dropping(a))
  BY <1>1 DEF LoadedOf, PagesOf, Dropping
<1>7. \A a \in Slots : CountOk(a)'
  BY <1>1, <1>5, <1>6 DEF PageInv, CountOk
<1>8. ASSUME NEW a \in Slots, NEW p \in Pages PROVE PageOk(a, p)'
  BY <1>1, <1>6, PageFrame DEF PageInv
<1>9. FaultInv'
  BY <1>1 DEF FaultInv
<1> QED
  BY <1>7, <1>8, <1>9 DEF PageInv

\* A step of a thread keeps the invariant.
LEMMA ThreadInvStep ==
  ASSUME ~ SharePages, SbInv, NEW t \in Threads, Begin(t) \/ Step(t)
  PROVE  SbInv'
<1> ControlInv /\ PageInv /\ FaultInv /\ NotAborted /\ SbTypes /\ CallInv
  BY DEF SbInv, ControlInv
<1>1. ControlInv'
  BY ControlInvStep
<1>2. PageInv' /\ FaultInv' /\ pc'[t] # "abort"
  <2>1. CASE Begin(t)
    BY <2>1, StillBegins
  <2>2. CASE InitLock(t) \/ InitBody(t) \/ Destroy(t)
    BY <2>2, StartKeeps
  <2>3. CASE Access(t)
    <3>1. Goes(t, "find", op[t].beg) \/ Returns(t)
      BY <2>3, FaultMoves
    <3>2. pc'[t] # "abort"
      BY <3>1 DEF Goes, Returns
    <3> QED
      BY <2>3, <3>2, AccessKeeps
  <2>4. CASE Find(t) \/ AllocLock(t)
    BY <2>4, LockKeeps
  <2>5. CASE SegvLoad(t)
    BY <2>5, SegvLoadKeeps
  <2>6. CASE SegvDirty(t)
    <3>1. Goes(t, "access", op[t].beg)
      BY <2>6, FaultMoves
    <3>2. pc'[t] # "abort"
      BY <3>1 DEF Goes
    <3> QED
      BY <2>6, <3>2, SegvDirtyKeeps
  <2>7. CASE Track(t) \/ TrackNum(t) \/ Discharge(t)
    BY <2>7, TrackKeeps
  <2>8. CASE Mmap(t)
    BY <2>8, MmapKeeps
  <2>9. CASE Unmap(t)
    BY <2>9, UnmapKeeps
  <2>10. CASE MmapFail(t) \/ Link(t) \/ Unlink(t) \/ Hold(t) \/ MtouchallEach(t) \/ AllDone(t)
    BY <2>10, ListKeeps
  <2>11. CASE Mtouch(t)
    BY <2>11, MtouchKeeps
  <2>12. CASE Mclear(t) \/ MclearallEach(t)
    BY <2>12, ClearKeeps
  <2>13. CASE Mevict(t) \/ MevictallEach(t)
    BY <2>13, EvictKeeps
  <2>14. CASE MevictDrop(t) \/ MevictallDrop(t)
    BY <2>14, DroppedKeeps
  <2> QED
    BY <2>1, <2>2, <2>3, <2>4, <2>5, <2>6, <2>7, <2>8, <2>9, <2>10, <2>11, <2>12, <2>13, <2>14 DEF Step
<1>3. NotAborted'
  <2>1. Alone(t)
    BY AloneStep
  <2> QED
    BY <1>2, <2>1 DEF NotAborted, Alone
<1> QED
  BY <1>1, <1>2, <1>3 DEF SbInv

LEMMA SbInvStep ==
  ASSUME ~ SharePages, SbInv, [Next]_vars
  PROVE  SbInv'
<1> ControlInv /\ PageInv /\ FaultInv /\ NotAborted
  BY DEF SbInv
<1>1. CASE \E t \in Threads : Begin(t) \/ Step(t)
  BY <1>1, ThreadInvStep
<1>2. CASE Mopt
  <2>1. ControlInv'
    BY <1>2, MoptControl
  <2>2. PageInv' /\ FaultInv'
    BY <1>2, MoptKeeps
  <2>3. NotAborted'
    BY <1>2 DEF NotAborted, Mopt
  <2> QED
    BY <2>1, <2>2, <2>3 DEF SbInv
<1>3. CASE UNCHANGED vars
  <2>1. ControlInv'
    BY <1>3, MoptControl
  <2>2. /\ np' = np /\ ld' = ld /\ flags' = flags /\ mem' = mem /\ prot' = prot /\ file' = file /\ want' = want
        /\ pc' = pc /\ op' = op /\ alock' = alock /\ lazy' = lazy
    BY <1>3 DEF vars
  <2>3. \A a \in Slots : LoadedOf(a)' = LoadedOf(a) /\ PagesOf(a)' = PagesOf(a) /\ (Dropping(a)' <=> Dropping(a))
    BY <2>2 DEF LoadedOf, PagesOf, Dropping
  <2>4. \A a \in Slots : CountOk(a)'
    BY <2>2, <2>3 DEF PageInv, CountOk
  <2>5. ASSUME NEW a \in Slots, NEW p \in Pages PROVE PageOk(a, p)'
    BY <2>2, <2>3, PageFrame DEF PageInv
  <2>6. FaultInv' /\ NotAborted'
    BY <2>2 DEF FaultInv, NotAborted
  <2> QED
    BY <2>1, <2>4, <2>5, <2>6 DEF SbInv, PageInv
<1> QED
  BY <1>1, <1>2, <1>3 DEF Next

\* When every page is used by one thread at a time.
THEOREM SbKeeps ==
  ASSUME ~ SharePages
  PROVE  Spec => []SbInv
<1>1. Init => SbInv
  BY SbInitInv
<1>2. SbInv /\ [Next]_vars => SbInv'
  BY SbInvStep
<1> QED
  BY <1>1, <1>2, PTL DEF Spec

\* sbmalloc.c keeps what the application wrote through any interleaving of faults,
\* SB_mtouch, SB_mclear and SB_mevict of one or of all allocations, for any number of
\* threads, allocations and pages, with and without lazy reading, when a page is used
\* by one thread at a time and nobody writes what another thread discards, and until a
\* failing SB_mmap unmaps more than it mapped.
THEOREM DataPreserved ==
  ASSUME ~ SharePages
  PROVE  Spec => []Preserved
<1>1. SbInv => Preserved
  <2>1. SUFFICES ASSUME SbInv, NEW a \in Listed, NEW p \in PagesOf(a), want[a][p] # Undef
                 PROVE  /\ prot[a][p] # "none" => mem[a][p] = want[a][p]
                        /\ flags[a][p] \subseteq {ONDISK} => want[a][p] = IF ONDISK \in flags[a][p] THEN file[a][p] ELSE 0
    BY DEF Preserved
  <2> SbTypes /\ PageInv
    BY <2>1 DEF SbInv, ControlInv
  <2>3. a \in Slots
    <3>1. head \in Seq(Slots)
      BY DEF SbTypes
    <3>2. Listed = {head[i] : i \in 1 .. Len(head)}
      BY <3>1, ListedIs DEF Listed
    <3> QED
      BY <3>1, <3>2, SMTT(30)
  <2>4. p \in Pages
    BY <2>3, PagesFinite
  <2>5. Current(flags[a][p], prot[a][p], mem[a][p], want[a][p], file[a][p])
    BY <2>3, <2>4 DEF PageInv, PageOk
  <2>6. flags[a][p] \subseteq {ONDISK} => DIRTY \notin flags[a][p]
    BY DEF ONDISK, DIRTY
  <2> QED
    BY <2>1, <2>5, <2>6 DEF Current
<1> QED
  BY <1>1, SbKeeps, PTL

\* Steps other than those of __info_init__ and __info_destroy__.
LEMMA PlainMoves ==
  ASSUME SbTypes, CallInv, NEW t \in Threads, Step(t), ~ InitLock(t), ~ InitBody(t), ~ Destroy(t)
  PROVE  /\ UNCHANGED start /\ pc[t] \notin Starting \cup {"final", "idle"}
         /\ pc'[t] \notin Starting \cup {"final"}
<1>1. CASE Access(t) \/ Find(t) \/ AllocLock(t) \/ SegvDirty(t)
  <2>1. UNCHANGED start /\ pc[t] \notin Starting \cup {"final", "idle"}
    BY <1>1 DEF Access, Find, AllocLock, SegvDirty, Starting
  <2>2. AllocLock(t) => op[t].call \in Rw \cup OnOne
    BY DEF AllocLock, CallInv, Fit
  <2>3. Returns(t) \/ \E l \in {"find", "alock", "access"} \cup Rw \cup OnOne : Goes(t, l, op[t].beg)
    BY <1>1, <2>2, FaultMoves
  <2>4. pc'[t] \in {"idle", "find", "alock", "access"} \cup Rw \cup OnOne
    BY <2>3 DEF Returns, Goes
  <2> QED
    BY <2>1, <2>4 DEF Rw, OnOne, Starting
<1>2. CASE Track(t) \/ TrackNum(t) \/ Discharge(t)
  <2>1. UNCHANGED start /\ pc[t] \notin Starting \cup {"final", "idle"}
    BY <1>2 DEF Track, TrackNum, Discharge, Starting
  <2>2. Returns(t) \/ \E l \in {"access", "tracknum", "discharge", "destroy"} : Goes(t, l, op[t].beg)
    BY <1>2, TrackMoves
  <2>3. pc'[t] \in {"idle", "access", "tracknum", "discharge", "destroy"}
    BY <2>2 DEF Returns, Goes
  <2> QED
    BY <2>1, <2>3 DEF Starting
<1>3. CASE Mmap(t) \/ MmapFail(t) \/ Link(t) \/ Unlink(t) \/ Unmap(t)
  <2>1. UNCHANGED start /\ pc[t] \notin Starting \cup {"final", "idle"}
    BY <1>3 DEF Mmap, MmapFail, Link, Unlink, Unmap, Starting
  <2>2. Returns(t) \/ \E l \in {"link", "track"} : Goes(t, l, op[t].beg)
    BY <1>3, MapMoves
  <2>3. pc'[t] \in {"idle", "link", "track"}
    BY <2>2 DEF Returns, Goes
  <2> QED
    BY <2>1, <2>3 DEF Starting
<1>4. CASE SegvLoad(t) \/ Mtouch(t) \/ Mclear(t) \/ Mevict(t) \/ MevictDrop(t)
  <2>1. UNCHANGED start /\ pc[t] \notin Starting \cup {"final", "idle"}
    BY <1>4 DEF SegvLoad, Mtouch, Mclear, Mevict, MevictDrop, Starting
  <2>2. Returns(t) \/ \E l \in {"track", "abort", "drop"} : Goes(t, l, op[t].beg)
    BY <1>4, PageMoves
  <2>3. pc'[t] \in {"idle", "track", "abort", "drop"}
    BY <2>2 DEF Returns, Goes
  <2> QED
    BY <2>1, <2>3 DEF Starting
<1>5. CASE Hold(t) \/ MtouchallEach(t) \/ MclearallEach(t) \/ MevictallEach(t) \/ MevictallDrop(t) \/ AllDone(t)
  <2>1. UNCHANGED start /\ pc[t] \notin Starting \cup {"final", "idle"}
    BY <1>5 DEF Hold, MtouchallEach, MclearallEach, MevictallEach, MevictallDrop, AllDone, Starting
  <2>2. Returns(t) \/ \E l \in {"each", "relock", "drop", "track"}, k \in {op[t].beg, op[t].beg + 1} : Goes(t, l, k)
    BY <1>5, AllMoves
  <2>3. pc'[t] \in {"idle", "each", "relock", "drop", "track"}
    BY <2>2 DEF Returns, Goes
  <2> QED
    BY <2>1, <2>3 DEF Starting
<1> QED
  BY <1>1, <1>2, <1>3, <1>4, <1>5 DEF Step

LEMMA StartPlain ==
  ASSUME SbTypes, CallInv, StartInv, NEW t \in Threads, Step(t), ~ InitLock(t), ~ InitBody(t), ~ Destroy(t)
  PROVE  StartInv'
<1> /\ init' = init /\ pagesize' = pagesize /\ handler' = handler
    /\ pc[t] \notin Starting \cup {"final", "idle"} /\ pc'[t] \notin Starting \cup {"final"}
  BY PlainMoves DEF start
<1>2. init = 1
  <2>1. init # 0
    BY DEF StartInv, Resting, Starting
  <2> QED
    BY <2>1 DEF SbTypes
<1>3. \A u \in Threads : pc[u] \notin Starting \cup {"final"}
  BY DEF StartInv
<1>4. \A u \in Threads \ {t} : pc'[u] = pc[u]
  BY AloneStep DEF Alone
<1>5. \A u \in Threads : pc'[u] \notin Starting \cup {"final"}
  BY <1>3, <1>4
<1>6. pagesize = 1 /\ handler
  BY <1>2, <1>3 DEF StartInv, Starting
<1>7. init' # 0
  BY <1>2, SMTT(30)
<1> QED
  BY <1>5, <1>6, <1>7 DEF StartInv, Starting

LEMMA StartBegins ==
  ASSUME ~ EarlyCalls, SbTypes, CallInv, StartInv, NEW t \in Threads, Begin(t)
  PROVE  StartInv'
<1>1. /\ pc[t] = "idle" /\ init' = init /\ pagesize' = pagesize /\ handler' = handler /\ head' = head
  BY BeginIs DEF start
<1>2. \A u \in Threads : pc[u] \notin Starting /\ op[u].call # "finalize"
  BY DEF Begin, Starting
<1>3. \A u \in Threads : pc[u] \notin Starting \cup {"final"}
  BY <1>2 DEF CallInv, Fit
<1>4. PICK c \in Calls \ {"none"}, a \in Slots \cup {Free}, beg \in Nat, end \in 0 .. N : Begins(t, c, a, beg, end)
  BY BeginIs
<1>5. /\ Permitted(t, c, a, beg, end) /\ \A u \in Threads \ {t} : pc'[u] = pc[u]
      /\ pc'[t] = IF init = 0 /\ c \notin Rw \cup {"finalize"} THEN "ilock" ELSE First(c)
  BY <1>4 DEF Begins, Alone
<1>6. First(c) \notin Starting /\ (First(c) = "final" <=> c = "finalize")
  BY FirstLabel DEF Fit
<1>7. c \in Rw => head # <<>>
  <2>1. c \in Rw => a \in Listed
    BY <1>5 DEF Permitted, Rw
  <2>2. head = <<>> => Listed = {}
    BY SMTT(30) DEF Listed, Range
  <2> QED
    BY <2>1, <2>2
<1>8. c = "finalize" => head = <<>> /\ \A u \in Threads \ {t} : pc[u] = "idle"
  BY <1>5 DEF Permitted, Others, Busy
<1>9. init = 0 => head = <<>> /\ \A u \in Threads : pc[u] = "idle"
  BY <1>3 DEF StartInv, Resting, Starting
<1>10. init = 0 => pc'[t] \in {"ilock", "final"}
  BY <1>5, <1>6, <1>7, <1>9
<1>11. pc'[t] \in Starting \cup {"final"} => head = <<>> /\ \A u \in Threads \ {t} : pc[u] = "idle"
  BY <1>5, <1>6, <1>8, <1>9 DEF Starting
<1>12. init = 1 => pagesize = 1 /\ handler
  BY <1>3 DEF StartInv, Starting
<1>13. pc'[t] = "ilock" => init = 0
  BY <1>5, <1>6 DEF Starting
<1>a. init' = 0 => head' = <<>> /\ \A u \in Threads : pc'[u] \in Resting
  BY <1>1, <1>5, <1>9, <1>10 DEF Resting
<1>b. \A u \in Threads : pc'[u] \in Starting \cup {"final"} => head' = <<>> /\ \A v \in Threads \ {u} : pc'[v] = "idle"
  BY <1>1, <1>3, <1>5, <1>11
<1>c. \A u \in Threads : pc'[u] = "ilock" => init' = 0
  BY <1>1, <1>3, <1>5, <1>13 DEF Starting
<1> QED
  BY <1>1, <1>12, <1>a, <1>b, <1>c DEF StartInv

LEMMA StartInitLock ==
  ASSUME SbTypes, CallInv, StartInv, NEW t \in Threads, InitLock(t) \/ InitBody(t)
  PROVE  StartInv'
<1>1. pc[t] \in Starting /\ head' = head
  BY DEF InitLock, InitBody, Starting
<1>2. head = <<>> /\ \A u \in Threads \ {t} : pc[u] = "idle"
  BY <1>1 DEF StartInv
<1>3. \A u \in Threads \ {t} : pc'[u] = "idle"
  <2>1. Step(t)
    BY DEF Step
  <2> QED
    BY <2>1, <1>2, AloneStep DEF Alone
<1>4. CASE InitLock(t)
  <2>1. pc[t] = "ilock" /\ init = 0
    BY <1>4 DEF InitLock, StartInv
  <2>2. init # 1
    BY <2>1, SMTT(30)
  <2>3. init' = 1 /\ pc'[t] = "ipage"
    BY <1>4, <2>2 DEF InitLock, Goto, SbTypes
  <2>4. init' # 0
    BY <2>3, SMTT(30)
  <2> QED
    BY <1>1, <1>2, <1>3, <2>3, <2>4 DEF StartInv, Starting
<1>5. CASE InitBody(t)
  <2>1. pc[t] = "ipage" /\ init' = init /\ pagesize' = 1 /\ handler'
    BY <1>5 DEF InitBody
  <2>2. init' # 0
    BY <2>1 DEF StartInv, Resting
  <2>3. pc'[t] = First(op[t].call)
    BY <1>5, StartMoves DEF Goes
  <2>4. op[t].call \in Calls \ {"none"} /\ op[t].call # "finalize"
    BY <2>1, OpFields DEF CallInv, Fit
  <2>5. pc'[t] \notin Starting \cup {"final"}
    BY <2>3, <2>4, FirstLabel DEF Fit
  <2>6. \A u \in Threads : pc'[u] \notin Starting \cup {"final"}
    BY <1>3, <2>5 DEF Starting
  <2> QED
    BY <2>1, <2>2, <2>6 DEF StartInv, Starting
<1> QED
  BY <1>4, <1>5

LEMMA StartDestroy ==
  ASSUME SbTypes, CallInv, StartInv, NEW t \in Threads, Destroy(t)
  PROVE  StartInv'
<1>1. pc[t] = "final" /\ init' = 0 /\ head' = head
  BY DEF Destroy
<1>2. head = <<>> /\ \A u \in Threads \ {t} : pc[u] = "idle"
  BY <1>1 DEF StartInv
<1>3. \A u \in Threads : pc'[u] = "idle"
  <2>1. Returns(t)
    BY StartMoves
  <2> QED
    BY <2>1, <1>2 DEF Returns, Alone
<1>4. init' # 1
  BY <1>1, SMTT(30)
<1> QED
  BY <1>1, <1>2, <1>3, <1>4 DEF StartInv, Starting, Resting

LEMMA StartInvStep ==
  ASSUME ~ EarlyCalls, SbTypes, CallInv, StartInv, [Next]_vars
  PROVE  StartInv'
<1>1. CASE \E t \in Threads : Begin(t) \/ Step(t)
  <2>1. PICK t \in Threads : Begin(t) \/ Step(t)
    BY <1>1
  <2>2. CASE Begin(t)
    BY <2>2, StartBegins
  <2>3. CASE Step(t)
    BY <2>3, StartInitLock, StartDestroy, StartPlain
  <2> QED
    BY <2>1, <2>2, <2>3
<1>2. CASE Mopt \/ UNCHANGED vars
  <2>1. init' = init /\ pagesize' = pagesize /\ handler' = handler /\ head' = head /\ pc' = pc
    BY <1>2 DEF Mopt, vars, start
  <2> QED
    BY <2>1 DEF StartInv
<1> QED
  BY <1>1, <1>2 DEF Next

LEMMA TypesExact ==
  ASSUME SbTypes, PageInv
  PROVE  TypeOK
<1>1. \A a \in Slots : ld[a] \in 0 .. N
  <2>1. SUFFICES ASSUME NEW a \in Slots PROVE ld[a] \in 0 .. N
    OBVIOUS
  <2>2. ld[a] = Cardinality(LoadedOf(a))
    BY DEF PageInv, CountOk
  <2>3. Cardinality(LoadedOf(a)) \in Nat /\ Cardinality(LoadedOf(a)) <= np[a]
    BY LoadedFinite
  <2>4. np[a] \in 0 .. N
    BY DEF SbTypes
  <2> QED
    BY <2>2, <2>3, <2>4, SbAssumption, SMTT(30)
<1>2. ld \in [Slots -> 0 .. N]
  BY <1>1 DEF SbTypes
<1> QED
  BY <1>2 DEF SbTypes, TypeOK

LEMMA AgreeingFlags ==
  ASSUME SbTypes, PageInv
  PROVE  FlagsAgree
<1>1. SUFFICES ASSUME NEW a \in Listed, alock[a] = Free
               PROVE  /\ \A p \in PagesOf(a) :
                           prot[a][p] = IF SYNC \in flags[a][p] THEN "r"
                                        ELSE IF DIRTY \in flags[a][p] THEN "rw" ELSE "none"
                      /\ ld[a] = Cardinality({p \in PagesOf(a) : flags[a][p] \cap {SYNC, DIRTY} # {}})
  BY DEF FlagsAgree
<1> a \in Slots
  <2>1. head \in Seq(Slots)
    BY DEF SbTypes
  <2>2. Listed = {head[i] : i \in 1 .. Len(head)}
    BY <2>1, ListedIs DEF Listed
  <2> QED
    BY <2>1, <2>2, SMTT(30)
<1>3. ASSUME NEW p \in PagesOf(a)
      PROVE  prot[a][p] = IF SYNC \in flags[a][p] THEN "r" ELSE IF DIRTY \in flags[a][p] THEN "rw" ELSE "none"
  <2>1. p \in Pages
    BY PagesFinite
  <2>2. ~ Dropping(a)
    BY <1>1, DropFree
  <2> QED
    BY <2>1, <2>2, FlagFacts DEF ProtOf
<1>4. ld[a] = Cardinality(LoadedOf(a))
  BY DEF PageInv, CountOk
<1> QED
  BY <1>3, <1>4, LoadedIs

\* The SIGSEGV handler of sbmalloc.c is installed when an access faults, none of its
\* assertions fails, protections and ld_pages agree with the flags of every allocation
\* nobody has locked, and no call divides by a page size that is not set: for any number
\* of threads, allocations and pages, when a page is used by one thread at a time and
\* nobody calls while another thread is inside the first call of all, and until a
\* failing SB_mmap unmaps more than it mapped.
THEOREM FaultsAreHandled ==
  ASSUME ~ SharePages, ~ EarlyCalls
  PROVE  Spec => []FaultsHandled
<1>1. Init => StartInv
  BY SMTT(30) DEF Init, StartInv, Starting, Resting
<1>2. SbInv /\ StartInv /\ [Next]_vars => StartInv'
  BY StartInvStep DEF SbInv, ControlInv
<1>3. SbInv /\ StartInv => FaultsHandled
  <2>1. SUFFICES ASSUME SbInv, StartInv PROVE FaultsHandled
    OBVIOUS
  <2> SbTypes /\ PageInv
    BY <2>1 DEF SbInv, ControlInv
  <2>2. NoAbort
    <3>1. ASSUME NEW t \in Threads, pc[t] \in {"read", "write"}
          PROVE  DIRTY \notin flags[op[t].a][op[t].beg]
      <4>1. op[t].call \in Rw
        BY <2>1, <3>1 DEF SbInv, ControlInv, CallInv, Fit, Rw
      <4> QED
        BY <2>1, <3>1, <4>1 DEF SbInv, FaultInv
    <3> QED
      BY <2>1, <3>1 DEF NoAbort, SbInv, NotAborted
  <2>3. Initialised
    <3>1. SUFFICES ASSUME NEW t \in Threads, pc[t] \notin Resting, pc[t] \notin Starting PROVE pagesize = 1 /\ handler
      BY DEF Initialised, Resting, Starting
    <3>2. init # 0
      BY <2>1, <3>1 DEF StartInv
    <3>3. init = 1
      BY <3>2 DEF SbTypes
    <3>4. pc[t] # "ipage" /\ pc[t] # "idle"
      BY <3>1 DEF Resting, Starting
    <3>5. \A u \in Threads : pc[u] # "ipage"
      BY <2>1, <3>4 DEF StartInv, Starting
    <3> QED
      BY <2>1, <3>3, <3>5 DEF StartInv
  <2>4. TypeOK /\ FlagsAgree
    BY TypesExact, AgreeingFlags
  <2> QED
    BY <2>2, <2>3, <2>4 DEF FaultsHandled
<1> QED
  BY <1>1, <1>2, <1>3, SbKeeps, PTL DEF Spec

==============================================================================
