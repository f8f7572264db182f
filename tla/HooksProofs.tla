---------------------------- MODULE HooksProofs ------------------------------
(***************************************************************************)
(* The hooks of src/api/hooks.c, for any number of threads, pointers and   *)
(* pages: pointers go back where they came from, and the kernel finds its  *)
(* buffers accessible.                                                     *)
(***************************************************************************)
EXTENDS Hooks, TLAPS

------------------------------------------------------------------------------
(***************************************************************************)
(* The steps there are.                                                    *)
(***************************************************************************)
Who == {"program", "dlsym"}
Pointers == [from : {"internal", "libc", "kl"}, nr : Nat, by : Who]
AllocOps ==
  {Op("init", "calloc"), Op("dlsym", "func"), Op("dlsym", "alloc"), Op("dlsym", "calloc"), Op("found", "")}
    \union ({"which", "load", "store", "take"} \X Who) \union ({"give back"} \X Pointers)
FileSteps == {"touch", "memset", "evict", "kernel reads", "kernel writes"}
FileOps == FileSteps \X SUBSET Buffer
Ops == AllocOps \union FileOps

HookTypes ==
  /\ _libc_calloc \in {"NULL", "internal", "libc"} /\ resolved \in BOOLEAN
  /\ internal_calloc_ptr \in Nat /\ loaded \in [Callers -> Nat]
  /\ enabled \in BOOLEAN /\ osvmm \in BOOLEAN
  /\ ptrs \in SUBSET Pointers
  /\ prot \in [Buffer -> {"none", "r", "rw"}]
  /\ doing \in [Callers -> Seq(Ops)] /\ bare \in [Callers -> SUBSET Buffer]

(***************************************************************************)
(* The allocators: what the steps still to do say of the state.            *)
(***************************************************************************)
HasFound(s) == \E j \in 1 .. Len(s) : s[j][1] = "found"
\* The program's calloc goes on when calloc has been found.
WhichLast(s) == \A j \in 1 .. Len(s) : s[j][1] = "which" /\ s[j][2] = "program" =>
                  \A i \in 1 .. Len(s) : s[i][1] = "found" => i < j
\* Only what dlsym asks for comes from internal_calloc, and at once.
Inside(s) == \A j \in 1 .. Len(s) : s[j][1] \in {"load", "store"} => j = 1 /\ s[j][2] = "dlsym"
GivesBack(s, a) == \A j \in 1 .. Len(s) : s[j][1] = "give back" => s[j][2].from = a

\* One thread looks calloc up, while the others have not begun.
LookupInv ==
  /\ resolved <=> _libc_calloc = "libc"
  /\ ~ resolved => \A t, u \in Callers : doing[t] # <<>> /\ doing[u] # <<>> => t = u
  /\ _libc_calloc = "internal" => \E t \in Callers : HasFound(doing[t])

InternalInv == \A t \in Callers :
  /\ WhichLast(doing[t]) /\ Inside(doing[t])
  /\ \A j \in 1 .. Len(doing[t]) : doing[t][j][1] \in {"load", "store"} => _libc_calloc = "internal"
  /\ \A j \in 1 .. Len(doing[t]) : doing[t][j][1] = "store" => loaded[t] = internal_calloc_ptr

\* Where the pointers came from.
PointerInv ==
  /\ \A p \in ptrs : p.from \in {"internal", Allocator}
  /\ \A p \in ptrs : p.from = "internal" => p.by = "dlsym" /\ p.nr < internal_calloc_ptr
  /\ \A t \in Callers : GivesBack(doing[t], Allocator)

AllocInv == HookTypes /\ LookupInv /\ InternalInv /\ PointerInv /\ RightAllocator

(***************************************************************************)
(* The files: a page the kernel is going to use is accessible, or the hook *)
(* is still to touch it, or it is one of the bare pages of the call.       *)
(***************************************************************************)
Reads == {"touch", "memset"}
Ready(s, k, W, G) == \A j \in 1 .. Len(s) : s[j][1] = k =>
  \A x \in s[j][2] : x \in G \/ \E i \in 1 .. j - 1 : s[i][1] \in W /\ x \in s[i][2]
Readable(pr) == {x \in Buffer : pr[x] # "none"}
Writable(pr) == {x \in Buffer : pr[x] = "rw"}
Fed(s, pr, B) ==
  /\ Ready(s, "kernel reads", Reads, Readable(pr) \union B)
  /\ Ready(s, "kernel writes", {"memset"}, Writable(pr) \union B)

BufferInv == \A t \in Callers : Fed(doing[t], prot, bare[t])

FileInv == HookTypes /\ BufferInv /\ KernelServed

------------------------------------------------------------------------------
\* The prover of the steps that name no other.
USE ZenonT(60)

(***************************************************************************)
(* Sequences of steps.                                                     *)
(***************************************************************************)
LEMMA OpTypes ==
  /\ \A R \in SUBSET Buffer, w \in FileSteps : Op(w, R) \in Ops
  /\ Op("init", "calloc") \in Ops /\ Op("found", "") \in Ops
  /\ \A x \in {"func", "alloc", "calloc"} : Op("dlsym", x) \in Ops
  /\ \A w \in {"which", "load", "store", "take"}, x \in Who : Op(w, x) \in Ops
  /\ \A p \in Pointers : Op("give back", p) \in Ops
BY DEF Op, Ops, FileOps, AllocOps

LEMMA OpParts == \A w, x : Op(w, x)[1] = w /\ Op(w, x)[2] = x
BY DEF Op

LEMMA OpStep == ASSUME NEW w, NEW x, Op(w, x) \in Ops PROVE \E a \in Ops : a = Op(w, x) /\ a[1] = w /\ a[2] = x
BY OpParts, SMTT(30)

LEMMA Join ==
  ASSUME NEW s \in Seq(Ops), NEW u \in Seq(Ops), NEW e, e = s \o u
  PROVE  /\ e \in Seq(Ops) /\ Len(e) = Len(s) + Len(u)
         /\ Len(s) \in Nat /\ Len(u) \in Nat
         /\ \A j \in 1 .. Len(s) : j \in 1 .. Len(e) /\ e[j] = s[j]
         /\ \A j \in 1 .. Len(u) : j + Len(s) \in 1 .. Len(e) /\ e[j + Len(s)] = u[j]
         /\ \A j \in 1 .. Len(e) : \/ j \in 1 .. Len(s) /\ e[j] = s[j]
                                   \/ j - Len(s) \in 1 .. Len(u) /\ e[j] = u[j - Len(s)]
<1>1. Len(s) \in Nat /\ Len(u) \in Nat
  BY SMTT(30)
<1>2. /\ e \in Seq(Ops) /\ Len(e) = Len(s) + Len(u)
      /\ \A i \in 1 .. Len(s) + Len(u) : e[i] = IF i <= Len(s) THEN s[i] ELSE u[i - Len(s)]
  BY SMTT(30)
<1>3. \A j \in 1 .. Len(s) : j \in 1 .. Len(e) /\ e[j] = s[j]
  BY <1>1, <1>2, SMTT(30)
<1>4. \A j \in 1 .. Len(u) : j + Len(s) \in 1 .. Len(e) /\ e[j + Len(s)] = u[j]
  BY <1>1, <1>2, SMTT(30)
<1>5. \A j \in 1 .. Len(e) : \/ j \in 1 .. Len(s) /\ e[j] = s[j]
                             \/ j - Len(s) \in 1 .. Len(u) /\ e[j] = u[j - Len(s)]
  BY <1>1, <1>2, SMTT(30)
<1> QED
  BY <1>1, <1>2, <1>3, <1>4, <1>5

LEMMA Single ==
  ASSUME NEW a \in Ops
  PROVE  <<a>> \in Seq(Ops) /\ Len(<<a>>) = 1 /\ \A j \in 1 .. 1 : j = 1 /\ <<a>>[j] = a
<1>1. \A j \in 1 .. 1 : j = 1
  BY SMTT(30)
<1> QED
  BY <1>1, SMTT(30)

\* Steps that are of none of the kinds in W.
Without(s, W) == s \in Seq(Ops) /\ \A j \in 1 .. Len(s) : s[j][1] \notin W

LEMMA WithoutJoin ==
  ASSUME NEW W, NEW s, NEW u, Without(s, W), Without(u, W)
  PROVE  Without(s \o u, W)
<1>1. PICK e : e = s \o u
  OBVIOUS
<1>2. /\ e \in Seq(Ops)
      /\ \A j \in 1 .. Len(e) : \/ j \in 1 .. Len(s) /\ e[j] = s[j]
                                \/ j - Len(s) \in 1 .. Len(u) /\ e[j] = u[j - Len(s)]
  BY <1>1, Join, SMTT(30) DEF Without
<1> QED
  BY <1>1, <1>2 DEF Without

LEMMA WithoutSingle ==
  ASSUME NEW W, NEW w, NEW x, Op(w, x) \in Ops, w \notin W
  PROVE  Without(<< Op(w, x) >>, W)
<1>1. PICK a \in Ops : a = Op(w, x) /\ a[1] = w
  BY OpParts
<1>2. Without(<<a>>, W)
  BY <1>1, Single, SMTT(30) DEF Without
<1> QED
  BY <1>1, <1>2

\* A step of one of the kinds in W that is about all of R.
Covers(s, W, R) == \E i \in 1 .. Len(s) : s[i][1] \in W /\ R \subseteq s[i][2]

LEMMA CoversJoin ==
  ASSUME NEW W, NEW R, NEW s \in Seq(Ops), NEW u \in Seq(Ops),
         Covers(s, W, R) \/ Covers(u, W, R)
  PROVE  Covers(s \o u, W, R)
<1>1. PICK e : e = s \o u
  OBVIOUS
<1>2. /\ \A j \in 1 .. Len(s) : j \in 1 .. Len(e) /\ e[j] = s[j]
      /\ \A j \in 1 .. Len(u) : j + Len(s) \in 1 .. Len(e) /\ e[j + Len(s)] = u[j]
  BY <1>1, Join, SMTT(30)
<1>3. CASE Covers(s, W, R)
  BY <1>1, <1>2, <1>3 DEF Covers
<1>4. CASE Covers(u, W, R)
  BY <1>1, <1>2, <1>4 DEF Covers
<1> QED
  BY <1>3, <1>4

LEMMA CoversSingle ==
  ASSUME NEW W, NEW w \in W, NEW R, Op(w, R) \in Ops
  PROVE  Covers(<< Op(w, R) >>, W, R)
<1>1. PICK a \in Ops : a = Op(w, R) /\ a[1] = w /\ a[2] = R
  BY OpParts, SMTT(30)
<1>2. Len(<<a>>) = 1 /\ <<a>>[1] = a /\ 1 \in 1 .. 1
  BY Single, SMTT(30)
<1>3. Covers(<<a>>, W, R)
  BY <1>1, <1>2 DEF Covers
<1> QED
  BY <1>1, <1>3

\* A call that touches what the kernel is to read and clears what it is to write.
LEMMA ReadyJoin ==
  ASSUME NEW k, NEW W, NEW B, NEW s \in Seq(Ops), NEW u \in Seq(Ops), Ready(s, k, W, B),
         \A j \in 1 .. Len(u) : u[j][1] = k =>
           \A x \in u[j][2] : \/ x \in B
                              \/ \E i \in 1 .. j - 1 : u[i][1] \in W /\ x \in u[i][2]
                              \/ \E i \in 1 .. Len(s) : s[i][1] \in W /\ x \in s[i][2]
  PROVE  Ready(s \o u, k, W, B)
<1>1. PICK e : e = s \o u
  OBVIOUS
<1>2. /\ Len(s) \in Nat /\ Len(u) \in Nat
      /\ \A j \in 1 .. Len(s) : j \in 1 .. Len(e) /\ e[j] = s[j]
      /\ \A j \in 1 .. Len(u) : j + Len(s) \in 1 .. Len(e) /\ e[j + Len(s)] = u[j]
      /\ \A j \in 1 .. Len(e) : \/ j \in 1 .. Len(s) /\ e[j] = s[j]
                                \/ j - Len(s) \in 1 .. Len(u) /\ e[j] = u[j - Len(s)]
  BY <1>1, Join, SMTT(30)
<1>3. ASSUME NEW j \in 1 .. Len(e), e[j][1] = k, NEW x \in e[j][2], x \notin B
      PROVE  \E i \in 1 .. j - 1 : e[i][1] \in W /\ x \in e[i][2]
  <2>1. CASE j \in 1 .. Len(s) /\ e[j] = s[j]
    <3>1. PICK i \in 1 .. j - 1 : s[i][1] \in W /\ x \in s[i][2]
      BY <2>1, <1>3 DEF Ready
    <3>2. i \in 1 .. Len(s)
      BY ONLY <3>1, <2>1, <1>2
    <3> QED
      BY <3>1, <3>2, <1>2
  <2>2. CASE j - Len(s) \in 1 .. Len(u) /\ e[j] = u[j - Len(s)]
    <3>1. CASE \E i \in 1 .. (j - Len(s)) - 1 : u[i][1] \in W /\ x \in u[i][2]
      <4>1. PICK i \in 1 .. (j - Len(s)) - 1 : u[i][1] \in W /\ x \in u[i][2]
        BY <3>1
      <4>2. i \in 1 .. Len(u) /\ i + Len(s) \in 1 .. j - 1
        BY ONLY <4>1, <2>2, <1>2, j \in 1 .. Len(e), SMTT(30)
      <4> QED
        BY <4>1, <4>2, <1>2
    <3>2. CASE \E i \in 1 .. Len(s) : s[i][1] \in W /\ x \in s[i][2]
      <4>1. PICK i \in 1 .. Len(s) : s[i][1] \in W /\ x \in s[i][2]
        BY <3>2
      <4>2. i \in 1 .. j - 1
        BY ONLY <4>1, <2>2, <1>2, j \in 1 .. Len(e)
      <4> QED
        BY <4>1, <4>2, <1>2
    <3> QED
      BY <2>2, <3>1, <3>2, <1>3
  <2> QED
    BY <2>1, <2>2, <1>2, <1>3
<1> QED
  BY <1>1, <1>3 DEF Ready

(***************************************************************************)
(* The calls that work on buffers.                                         *)
(***************************************************************************)
\* No step of these kinds is part of a call for a file.
AllocSteps == {"found", "load", "store", "give back"}
Clean(s) == Without(s, AllocSteps)
\* What the kernel uses has been brought in, but for the pages of B.
Served(s, B) == Ready(s, "kernel reads", Reads, B) /\ Ready(s, "kernel writes", {"memset"}, B)

\* What is built without the kernel.
UserSteps == AllocSteps \union {"evict", "kernel reads", "kernel writes"}

LEMMA LibcSteps ==
  /\ Without(HOOK_INIT, UserSteps) /\ Without(libc, UserSteps) /\ Without(libc_alloc, UserSteps)
  /\ \A R \in SUBSET Buffer : /\ Without(Touch(R), UserSteps)
                              /\ Without(<< Op("touch", R) >>, UserSteps)
                              /\ Without(<< Op("memset", R) >>, UserSteps)
<1>1. Without(HOOK_INIT, UserSteps)
  <2>1. Op("init", "calloc") \in Ops /\ "init" \notin UserSteps
    BY OpTypes DEF UserSteps, AllocSteps
  <2> QED
    BY <2>1, WithoutSingle DEF HOOK_INIT
<1>2. Without(libc, UserSteps)
  <2>1. Op("dlsym", "func") \in Ops /\ "dlsym" \notin UserSteps
    BY OpTypes DEF UserSteps, AllocSteps
  <2> QED
    BY <1>1, <2>1, WithoutSingle, WithoutJoin DEF libc
<1>3. Without(libc_alloc, UserSteps)
  <2>1. Op("dlsym", "alloc") \in Ops /\ "dlsym" \notin UserSteps
    BY OpTypes DEF UserSteps, AllocSteps
  <2> QED
    BY <2>1, WithoutSingle DEF libc_alloc
<1>4. ASSUME NEW R \in SUBSET Buffer
      PROVE  /\ Without(<< Op("touch", R) >>, UserSteps)
             /\ Without(<< Op("memset", R) >>, UserSteps)
  <2>1. /\ Op("touch", R) \in Ops /\ "touch" \notin UserSteps
        /\ Op("memset", R) \in Ops /\ "memset" \notin UserSteps
    BY OpTypes DEF UserSteps, AllocSteps, FileSteps
  <2> QED
    BY <2>1, WithoutSingle
<1> QED
  BY <1>1, <1>2, <1>3, <1>4 DEF Touch

\* The system call at the end: what comes before has touched its buffer.
LEMMA KernelCall ==
  ASSUME NEW s, Without(s, UserSteps), NEW R \in SUBSET Buffer, NEW B,
         NEW k \in {"kernel reads", "kernel writes"}
  PROVE  /\ Clean(s \o << Op(k, R) >>)
         /\ \/ k = "kernel reads" /\ Covers(s, Reads, R \ B)
            \/ k = "kernel writes" /\ Covers(s, {"memset"}, R \ B)
            => Served(s \o << Op(k, R) >>, B)
<1>0. Op(k, R) \in Ops
  <2>1. k \in FileSteps
    BY DEF FileSteps
  <2> QED
    BY <2>1, OpTypes
<1>1. PICK a \in Ops : a = Op(k, R) /\ a[1] = k /\ a[2] = R
  BY <1>0, OpStep
<1>2. /\ <<a>> \in Seq(Ops) /\ Len(<<a>>) = 1 /\ \A j \in 1 .. 1 : j = 1 /\ <<a>>[j] = a
  BY Single
<1>3. PICK u : u = <<a>>
  OBVIOUS
<1>4. u \in Seq(Ops) /\ \A j \in 1 .. Len(u) : u[j] = a
  BY <1>2, <1>3
<1>5. /\ s \in Seq(Ops) /\ Without(s, AllocSteps)
      /\ \A j \in 1 .. Len(s) : s[j][1] \notin {"kernel reads", "kernel writes"}
  BY DEF Without, UserSteps
<1>6. Without(u, AllocSteps)
  BY <1>1, <1>4 DEF Without, AllocSteps
<1>7. Without(s \o u, AllocSteps)
  BY <1>5, <1>6, WithoutJoin
<1>8. ASSUME \/ k = "kernel reads" /\ Covers(s, Reads, R \ B)
             \/ k = "kernel writes" /\ Covers(s, {"memset"}, R \ B)
      PROVE  Served(s \o u, B)
  <2>1. Ready(s, "kernel reads", Reads, B) /\ Ready(s, "kernel writes", {"memset"}, B)
    BY <1>5 DEF Ready
  <2>2. Ready(s \o u, "kernel reads", Reads, B)
    <3>1. ASSUME NEW j \in 1 .. Len(u), u[j][1] = "kernel reads", NEW x \in u[j][2], x \notin B
          PROVE  \E i \in 1 .. Len(s) : s[i][1] \in Reads /\ x \in s[i][2]
      <4>1. u[j] = a
        BY <1>4
      <4>2. k = "kernel reads" /\ x \in R \ B
        BY <4>1, <3>1, <1>1
      <4> QED
        BY <4>2, <1>8 DEF Covers
    <3> QED
      BY <1>4, <1>5, <2>1, <3>1, ReadyJoin
  <2>3. Ready(s \o u, "kernel writes", {"memset"}, B)
    <3>1. ASSUME NEW j \in 1 .. Len(u), u[j][1] = "kernel writes", NEW x \in u[j][2], x \notin B
          PROVE  \E i \in 1 .. Len(s) : s[i][1] \in {"memset"} /\ x \in s[i][2]
      <4>1. u[j] = a
        BY <1>4
      <4>2. k = "kernel writes" /\ x \in R \ B
        BY <4>1, <3>1, <1>1
      <4> QED
        BY <4>2, <1>8 DEF Covers
    <3> QED
      BY <1>4, <1>5, <2>1, <3>1, ReadyJoin
  <2> QED
    BY <2>2, <2>3 DEF Served
<1> QED
  BY <1>1, <1>3, <1>7, <1>8 DEF Clean

LEMMA Double ==
  ASSUME NEW a \in Ops, NEW b \in Ops
  PROVE  <<a, b>> \in Seq(Ops) /\ Len(<<a, b>>) = 2
           /\ \A j \in 1 .. 2 : <<a, b>>[j] = IF j = 1 THEN a ELSE b
<1>1. \A j \in 1 .. 2 : j = 1 \/ j = 2
  BY SMTT(30)
<1> QED
  BY <1>1, SMTT(30)

LEMMA UserCall ==
  ASSUME NEW s, Without(s, UserSteps)
  PROVE  Clean(s) /\ \A B : Served(s, B)
BY DEF Without, UserSteps, Clean, Served, Ready

LEMMA CallRead ==
  ASSUME NEW R \in SUBSET Buffer
  PROVE  Clean(read(R)) /\ Served(read(R), {})
<1>1. /\ Without(Touch(R), UserSteps) /\ Without(<< Op("memset", R) >>, UserSteps) /\ Without(libc, UserSteps)
  BY LibcSteps
<1> DEFINE b == Touch(R) \o << Op("memset", R) >>
           s == b \o libc
<1>2. Without(b, UserSteps) /\ Without(s, UserSteps)
  BY <1>1, WithoutJoin
<1>3. Covers(s, {"memset"}, R)
  <2>1. Op("memset", R) \in Ops
    BY OpTypes DEF FileSteps
  <2>2. Covers(<< Op("memset", R) >>, {"memset"}, R)
    BY <2>1, CoversSingle
  <2>3. Covers(b, {"memset"}, R)
    BY <1>1, <2>2, CoversJoin DEF Without
  <2> QED
    BY <1>1, <1>2, <2>3, CoversJoin DEF Without
<1>4. read(R) = s \o << Op("kernel writes", R) >>
  BY DEF read
<1>5. R \ {} = R
  OBVIOUS
<1> HIDE DEF s
<1> QED
  BY <1>2, <1>3, <1>4, <1>5, KernelCall

\* What has touched S first, then libc, then the kernel reads R.
LEMMA CallTouching ==
  ASSUME NEW f, Without(f, UserSteps), NEW S \in SUBSET Buffer, NEW R \in SUBSET Buffer,
         Covers(f, Reads, S)
  PROVE  LET s == f \o libc \o << Op("kernel reads", R) >>
         IN  Clean(s) /\ Served(s, R \ S)
<1>1. Without(libc, UserSteps)
  BY LibcSteps
<1> DEFINE s == f \o libc
<1>2. Without(s, UserSteps)
  BY <1>1, WithoutJoin
<1>3. Covers(s, Reads, S)
  BY <1>1, CoversJoin DEF Without
<1>3a. Covers(s, Reads, R \ (R \ S))
  BY <1>3 DEF Covers
<1> HIDE DEF s
<1>4. LET q == s \o << Op("kernel reads", R) >> IN Clean(q) /\ Served(q, R \ S)
  BY <1>2, <1>3, <1>3a, KernelCall
<1> QED
  BY <1>4 DEF s

LEMMA TouchCovers ==
  ASSUME NEW R \in SUBSET Buffer
  PROVE  Covers(Touch(R), Reads, R) /\ Covers(<< Op("touch", R) >>, Reads, R)
<1>1. Op("touch", R) \in Ops /\ "touch" \in Reads
  BY OpTypes DEF FileSteps, Reads
<1> QED
  BY <1>1, CoversSingle DEF Touch

LEMMA CallWrite ==
  ASSUME NEW S \in SUBSET Buffer, NEW R \in SUBSET Buffer
  PROVE  LET s == Touch(S) \o libc \o << Op("kernel reads", R) >>
         IN  Clean(s) /\ Served(s, R \ S)
BY LibcSteps, TouchCovers, CallTouching

LEMMA CallOpen ==
  ASSUME NEW P \in SUBSET Buffer
  PROVE  Clean(open(P)) /\ Served(open(P), {})
<1> DEFINE f == << Op("touch", P) >> \o Touch(P)
<1>1. Without(Touch(P), UserSteps) /\ Without(<< Op("touch", P) >>, UserSteps)
  BY LibcSteps
<1>2. Without(f, UserSteps)
  BY <1>1, WithoutJoin
<1>3. Covers(f, Reads, P)
  BY <1>1, TouchCovers, CoversJoin DEF Without
<1>4. open(P) = f \o libc \o << Op("kernel reads", P) >>
  BY DEF open
<1>5. P \ P = {}
  OBVIOUS
<1> HIDE DEF f
<1> QED
  BY <1>2, <1>3, <1>4, <1>5, CallTouching

LEMMA CallMemcpy ==
  ASSUME NEW R \in SUBSET Buffer, NEW S \in SUBSET Buffer
  PROVE  Clean(memcpy(R, S)) /\ Served(memcpy(R, S), {})
<1>1. /\ Without(HOOK_INIT, UserSteps) /\ Without(libc, UserSteps)
      /\ Without(<< Op("touch", R \union S) >>, UserSteps)
      /\ Without(<< Op("touch", S) >>, UserSteps) /\ Without(<< Op("memset", R) >>, UserSteps)
  <2>1. R \union S \in SUBSET Buffer
    OBVIOUS
  <2> QED
    BY <2>1, LibcSteps
<1>2. Without(<< Op("touch", S), Op("memset", R) >>, UserSteps)
  <2>1. /\ Op("touch", S) \in Ops /\ Op("memset", R) \in Ops
    BY OpTypes DEF FileSteps
  <2>2. PICK a \in Ops, b \in Ops : a = Op("touch", S) /\ b = Op("memset", R) /\ a[1] = "touch" /\ b[1] = "memset"
    BY <2>1, OpParts
  <2>3. a[1] \notin UserSteps /\ b[1] \notin UserSteps
    BY <2>2 DEF UserSteps, AllocSteps
  <2>4. Without(<<a, b>>, UserSteps)
    BY <2>3, Double, SMTT(30) DEF Without
  <2> QED
    BY <2>2, <2>4
<1>3. Without(memcpy(R, S), UserSteps)
  BY <1>1, <1>2, WithoutJoin DEF memcpy
<1> QED
  BY <1>3, UserCall

LEMMA CallStat ==
  ASSUME NEW P \in SUBSET Buffer, NEW R \in SUBSET Buffer
  PROVE  Clean(stat(P, R)) /\ Served(stat(P, R), R)
<1> DEFINE f == << Op("touch", P) >> \o Touch(P)
           g == f \o Touch(R)
           s == g \o libc
<1>1. /\ Without(Touch(P), UserSteps) /\ Without(<< Op("touch", P) >>, UserSteps)
      /\ Without(Touch(R), UserSteps) /\ Without(libc, UserSteps)
  BY LibcSteps
<1>2. Without(f, UserSteps) /\ Without(g, UserSteps) /\ Without(s, UserSteps)
  BY <1>1, WithoutJoin
<1>3. Covers(s, Reads, P)
  <2>1. Covers(f, Reads, P)
    BY <1>1, TouchCovers, CoversJoin DEF Without
  <2>2. Covers(g, Reads, P)
    BY <1>1, <1>2, <2>1, CoversJoin DEF Without
  <2> QED
    BY <1>1, <1>2, <2>2, CoversJoin DEF Without
<1>4. stat(P, R) = s \o << Op("kernel reads", P), Op("kernel writes", R) >>
  BY DEF stat
<1> HIDE DEF s
<1>5. Op("kernel reads", P) \in Ops /\ Op("kernel writes", R) \in Ops
  BY OpTypes DEF FileSteps
<1>6a. PICK a \in Ops : a = Op("kernel reads", P) /\ a[1] = "kernel reads" /\ a[2] = P
  BY <1>5, OpStep
<1>6b. PICK b \in Ops : b = Op("kernel writes", R) /\ b[1] = "kernel writes" /\ b[2] = R
  BY <1>5, OpStep
<1>7. PICK u : u = <<a, b>>
  OBVIOUS
<1>8. u \in Seq(Ops) /\ \A j \in 1 .. Len(u) : u[j] = a \/ u[j] = b
  BY <1>7, Double, SMTT(30)
<1>9. stat(P, R) = s \o u
  BY <1>4, <1>6a, <1>6b, <1>7
<1>10. /\ s \in Seq(Ops) /\ Without(s, AllocSteps)
       /\ \A j \in 1 .. Len(s) : s[j][1] \notin {"kernel reads", "kernel writes"}
  BY <1>2 DEF Without, UserSteps
<1>11. Without(u, AllocSteps)
  BY <1>6a, <1>6b, <1>8 DEF Without, AllocSteps
<1>12. Without(s \o u, AllocSteps)
  BY <1>10, <1>11, WithoutJoin
<1>13. Ready(s, "kernel reads", Reads, R) /\ Ready(s, "kernel writes", {"memset"}, R)
  BY <1>10 DEF Ready
<1>14. Ready(s \o u, "kernel reads", Reads, R)
  <2>1. ASSUME NEW j \in 1 .. Len(u), u[j][1] = "kernel reads", NEW x \in u[j][2]
        PROVE  \E i \in 1 .. Len(s) : s[i][1] \in Reads /\ x \in s[i][2]
    <3>1. u[j] = a
      BY <1>6a, <1>6b, <1>8, <2>1
    <3>2. x \in P
      BY <3>1, <2>1, <1>6a, <1>6b
    <3> QED
      BY <3>2, <1>3 DEF Covers
  <2> QED
    BY <1>8, <1>10, <1>13, <2>1, ReadyJoin
<1>15. Ready(s \o u, "kernel writes", {"memset"}, R)
  <2>1. ASSUME NEW j \in 1 .. Len(u), u[j][1] = "kernel writes", NEW x \in u[j][2]
        PROVE  x \in R
    <3>1. u[j] = b
      BY <1>6a, <1>6b, <1>8, <2>1
    <3> QED
      BY <3>1, <2>1, <1>6a, <1>6b
  <2> QED
    BY <1>8, <1>10, <1>13, <2>1, ReadyJoin
<1> QED
  BY <1>9, <1>12, <1>14, <1>15 DEF Clean, Served

\* Every call of CallFile.
LEMMA CallFiles ==
  ASSUME NEW R \in SUBSET Buffer, NEW S \in SUBSET Buffer, NEW f \in FileCalls(R, S)
  PROVE  Clean(f[1]) /\ f[2] \in SUBSET Buffer /\ Served(f[1], f[2])
<1>1. ASSUME NEW call \in {read(R), fread(R), write(R), open(R), memcpy(R, S), mlock(R), mlockall, msync(R)}
      PROVE  Clean(call) /\ Served(call, {})
  <2>0. R \ R = {} /\ Buffer \ Buffer = {} /\ Buffer \in SUBSET Buffer
    OBVIOUS
  <2>1. CASE call \in {read(R), fread(R)}
    BY <2>1, CallRead DEF fread
  <2>2. CASE call \in {write(R), mlock(R)}
    BY <2>0, <2>2, CallWrite DEF write, mlock
  <2>3. CASE call = mlockall
    BY <2>0, <2>3, CallWrite DEF mlockall
  <2>4. CASE call = open(R)
    BY <2>4, CallOpen
  <2>5. CASE call = memcpy(R, S)
    BY <2>5, CallMemcpy
  <2>6. CASE call = msync(R)
    <3>1. Op("evict", R) \in Ops
      BY OpTypes DEF FileSteps
    <3>2. PICK a \in Ops : a = Op("evict", R) /\ a[1] = "evict"
      BY <3>1, OpParts
    <3>3. call = <<a>>
      BY <2>6, <3>2 DEF msync
    <3>4. call \in Seq(Ops) /\ Len(call) = 1 /\ \A j \in 1 .. Len(call) : call[j][1] = "evict"
      BY <3>2, <3>3, Single
    <3> QED
      BY <3>4 DEF Clean, Without, AllocSteps, Served, Ready
  <2> QED
    BY <1>1, <2>1, <2>2, <2>3, <2>4, <2>5, <2>6
<1>2. CASE \E call \in {read(R), fread(R), write(R), open(R), memcpy(R, S), mlock(R), mlockall, msync(R)} :
             f[1] = call /\ f[2] = {}
  BY <1>1, <1>2
<1>3. CASE \E E \in SUBSET R : f[1] = fwrite(R, E) /\ f[2] = R \ E
  <2>1. PICK E \in SUBSET R : f[1] = fwrite(R, E) /\ f[2] = R \ E
    BY <1>3
  <2>2. E \in SUBSET Buffer
    BY <2>1
  <2> QED
    BY <2>1, <2>2, CallWrite DEF fwrite
<1>4. CASE \E B \in SUBSET Buffer : f[1] = stat(R, B) /\ f[2] = B
  BY <1>4, CallStat
<1>5. \/ \E call \in {read(R), fread(R), write(R), open(R), memcpy(R, S), mlock(R), mlockall, msync(R)} :
            f[1] = call /\ f[2] = {}
      \/ \E E \in SUBSET R : f[1] = fwrite(R, E) /\ f[2] = R \ E
      \/ \E B \in {S, {}} : f[1] = stat(R, B) /\ f[2] = B
  <2> DEFINE C == {read(R), fread(R), write(R), open(R), memcpy(R, S), mlock(R), mlockall, msync(R)}
  <2>2. \/ f \in {<<call, {}>> : call \in C} \/ f \in {<<fwrite(R, E), R \ E>> : E \in (SUBSET R) \ {{}}}
        \/ f \in {<<stat(R, S), S>>, <<stat(R, {}), {}>>}
    BY DEF FileCalls
  <2> HIDE DEF C
  <2>3. CASE f \in {<<call, {}>> : call \in C}
    <3>1. PICK call \in C : f = <<call, {}>>
      BY <2>3
    <3>2. f[1] = call /\ f[2] = {}
      BY <3>1
    <3> QED
      BY <3>2 DEF C
  <2>4. CASE f \in {<<fwrite(R, E), R \ E>> : E \in (SUBSET R) \ {{}}}
    <3>1. PICK E \in SUBSET R : f = <<fwrite(R, E), R \ E>>
      BY <2>4
    <3>2. f[1] = fwrite(R, E) /\ f[2] = R \ E
      BY <3>1
    <3> QED
      BY <3>2
  <2>5. CASE f \in {<<stat(R, S), S>>, <<stat(R, {}), {}>>}
    <3>1. PICK B \in {S, {}} : f = <<stat(R, B), B>>
      BY <2>5
    <3>2. f[1] = stat(R, B) /\ f[2] = B
      BY <3>1
    <3> QED
      BY <3>2
  <2> QED
    BY <2>2, <2>3, <2>4, <2>5
<1>6. S \in SUBSET Buffer /\ {} \in SUBSET Buffer
  OBVIOUS
<1> QED
  BY <1>2, <1>3, <1>4, <1>5, <1>6

(***************************************************************************)
(* The calls of the allocator.                                             *)
(***************************************************************************)
NoPointer == FileSteps \union {"found", "load", "store"}
\* A call that gives nothing back but p.
Giving(s, p) ==
  Without(s, NoPointer) /\ \A j \in 1 .. Len(s) : s[j][1] = "give back" => s[j][2] = p

LEMMA GivingJoin ==
  ASSUME NEW p, NEW s, NEW u, Giving(s, p), Giving(u, p)
  PROVE  Giving(s \o u, p)
<1>1. PICK e : e = s \o u
  OBVIOUS
<1>2. s \in Seq(Ops) /\ u \in Seq(Ops)
  BY DEF Giving, Without
<1>3. \A j \in 1 .. Len(e) : \/ j \in 1 .. Len(s) /\ e[j] = s[j]
                             \/ j - Len(s) \in 1 .. Len(u) /\ e[j] = u[j - Len(s)]
  BY <1>1, <1>2, Join, SMTT(30)
<1> QED
  BY <1>1, <1>3, WithoutJoin, ZenonT(40) DEF Giving

LEMMA GivingSingle ==
  ASSUME NEW p, NEW w \in {"init", "dlsym", "which", "take", "give back"}, NEW x,
         Op(w, x) \in Ops, w = "give back" => x = p
  PROVE  Giving(<< Op(w, x) >>, p)
<1>1. PICK a \in Ops : a = Op(w, x) /\ a[1] = w /\ a[2] = x
  BY OpStep
<1>2. w \notin NoPointer
  BY DEF NoPointer, FileSteps
<1>3. Giving(<<a>>, p)
  <2>1. <<a>> \in Seq(Ops) /\ \A j \in 1 .. Len(<<a>>) : <<a>>[j] = a
    BY Single
  <2> QED
    BY <1>1, <1>2, <2>1 DEF Giving, Without
<1> QED
  BY <1>1, <1>3

LEMMA CallMalloc ==
  ASSUME NEW p
  PROVE  /\ Giving(HOOK_INIT, p) /\ Giving(libc_alloc, p)
         /\ Giving(malloc, p) /\ \A who \in Who : Giving(calloc(who), p)
<1>1. Giving(HOOK_INIT, p) /\ Giving(libc_alloc, p)
  BY OpTypes, GivingSingle DEF HOOK_INIT, libc_alloc
<1>2. Giving(<< Op("take", "program") >>, p)
  BY OpTypes, GivingSingle DEF Who
<1>3. \A who \in Who : Giving(<< Op("which", who) >>, p)
  BY OpTypes, GivingSingle
<1>4. Giving(malloc, p)
  BY <1>1, <1>2, GivingJoin DEF malloc
<1>5. \A who \in Who : Giving(calloc(who), p)
  BY <1>1, <1>3, GivingJoin DEF calloc
<1> QED
  BY <1>1, <1>4, <1>5

LEMMA CallFreeing ==
  ASSUME NEW p \in Pointers
  PROVE  /\ Giving(free(p), p) /\ Giving(realloc(p), p)
         /\ p.from = "internal" => \A q : Giving(free(p), q)
<1>1. Op("give back", p) \in Ops /\ p.by \in Who
  BY OpTypes DEF Pointers
<1>2. Giving(HOOK_INIT, p) /\ Giving(libc_alloc, p)
  BY CallMalloc
<1>3. Giving(<< Op("give back", p) >>, p) /\ Giving(<< Op("take", p.by) >>, p)
  BY <1>1, OpTypes, GivingSingle
<1>4. Giving(libc_alloc \o << Op("give back", p) >>, p)
  BY <1>2, <1>3, GivingJoin
<1>5. \A q : Giving(<<>>, q)
  BY SMTT(30) DEF Giving, Without
<1>6. Giving(free(p), p)
  BY <1>2, <1>4, <1>5, GivingJoin DEF free
<1>7. ASSUME p.from = "internal", NEW q PROVE Giving(free(p), q)
  BY <1>5, <1>7, CallMalloc, GivingJoin DEF free
<1>8. Giving(realloc(p), p)
  <2>1. /\ Op("take", p.by) \in Ops /\ Op("give back", p) \in Ops
    BY <1>1, OpTypes
  <2>2. PICK a \in Ops : a = Op("give back", p) /\ a[1] = "give back" /\ a[2] = p
    BY <2>1, OpStep
  <2>3. PICK b \in Ops : b = Op("take", p.by) /\ b[1] = "take"
    BY <2>1, OpParts
  <2>4. a[1] \notin NoPointer /\ b[1] \notin NoPointer
    BY <2>2, <2>3 DEF NoPointer, FileSteps
  <2>5. PICK u : u = <<a, b>>
    OBVIOUS
  <2>6. u \in Seq(Ops) /\ \A j \in 1 .. Len(u) : u[j] = a \/ u[j] = b
    BY <2>5, Double, SMTT(30)
  <2>7. Giving(u, p)
    BY <2>2, <2>3, <2>4, <2>6 DEF Giving, Without
  <2>8. Giving(<< Op("give back", p), Op("take", p.by) >>, p)
    BY <2>2, <2>3, <2>5, <2>7
  <2>9. Giving(HOOK_INIT \o libc_alloc, p)
    BY <1>2, GivingJoin
  <2> QED
    BY <2>8, <2>9, GivingJoin DEF realloc
<1> QED
  BY <1>6, <1>7, <1>8

(***************************************************************************)
(* The rest of a call after its first step, with what that step puts in    *)
(* its place.                                                              *)
(***************************************************************************)
LEMMA Onward ==
  ASSUME NEW d \in Seq(Ops), d # <<>>, NEW s \in Seq(Ops), NEW e, e = s \o Tail(d)
  PROVE  /\ e \in Seq(Ops) /\ Len(s) \in Nat /\ Len(d) \in Nat \ {0} /\ Len(e) = Len(s) + Len(d) - 1
         /\ d[1] \in Ops /\ d[1] = Head(d)
         /\ \A j \in 1 .. Len(s) : j \in 1 .. Len(e) /\ e[j] = s[j]
         /\ \A k \in 2 .. Len(d) : (k - 1) + Len(s) \in 1 .. Len(e) /\ e[(k - 1) + Len(s)] = d[k]
         /\ \A j \in 1 .. Len(e) : \/ j \in 1 .. Len(s) /\ e[j] = s[j]
                                   \/ (j - Len(s)) + 1 \in 2 .. Len(d) /\ e[j] = d[(j - Len(s)) + 1]
<1>1. PICK u : u = Tail(d)
  OBVIOUS
<1>2. /\ u \in Seq(Ops) /\ Len(u) = Len(d) - 1 /\ Len(d) \in Nat \ {0}
      /\ \A i \in 1 .. Len(u) : u[i] = d[i + 1]
  <2>1. Len(d) \in Nat \ {0}
    BY SMTT(30)
  <2> QED
    BY <1>1, <2>1, SMTT(30)
<1>3. d[1] \in Ops /\ d[1] = Head(d)
  BY <1>2, SMTT(30)
<1>4. /\ e \in Seq(Ops) /\ Len(e) = Len(s) + Len(u) /\ Len(s) \in Nat /\ Len(u) \in Nat
      /\ \A j \in 1 .. Len(s) : j \in 1 .. Len(e) /\ e[j] = s[j]
      /\ \A j \in 1 .. Len(u) : j + Len(s) \in 1 .. Len(e) /\ e[j + Len(s)] = u[j]
      /\ \A j \in 1 .. Len(e) : \/ j \in 1 .. Len(s) /\ e[j] = s[j]
                                \/ j - Len(s) \in 1 .. Len(u) /\ e[j] = u[j - Len(s)]
  BY <1>1, <1>2, Join, SMTT(30)
<1>5. \A k \in 2 .. Len(d) : (k - 1) + Len(s) \in 1 .. Len(e) /\ e[(k - 1) + Len(s)] = d[k]
  <2>1. ASSUME NEW k \in 2 .. Len(d) PROVE k - 1 \in 1 .. Len(u) /\ (k - 1) + 1 = k
    BY ONLY <1>2, <2>1
  <2> QED
    <3>1. SUFFICES ASSUME NEW k \in 2 .. Len(d)
                   PROVE  (k - 1) + Len(s) \in 1 .. Len(e) /\ e[(k - 1) + Len(s)] = d[k]
      OBVIOUS
    <3>2. k - 1 \in 1 .. Len(u) /\ (k - 1) + 1 = k
      BY <2>1
    <3>3. u[k - 1] = d[(k - 1) + 1]
      BY <3>2, <1>2
    <3>4. (k - 1) + Len(s) \in 1 .. Len(e) /\ e[(k - 1) + Len(s)] = u[k - 1]
      BY <3>2, <1>4
    <3> QED
      BY <3>2, <3>3, <3>4
<1>6. \A j \in 1 .. Len(e) : \/ j \in 1 .. Len(s) /\ e[j] = s[j]
                             \/ (j - Len(s)) + 1 \in 2 .. Len(d) /\ e[j] = d[(j - Len(s)) + 1]
  <2>1. ASSUME NEW j \in 1 .. Len(e), j - Len(s) \in 1 .. Len(u)
        PROVE  (j - Len(s)) + 1 \in 2 .. Len(d)
    BY ONLY <1>2, <2>1
  <2> QED
    BY <2>1, <1>2, <1>4
<1> QED
  BY <1>2, <1>3, <1>4, <1>5, <1>6

LEMMA OpArgs ==
  ASSUME NEW x \in Ops
  PROVE  /\ x[1] \in {"which", "load", "store", "take"} => x[2] \in Who
         /\ x[1] = "give back" => x[2] \in Pointers
         /\ x[1] \in FileSteps => x[2] \in SUBSET Buffer
<1>1. CASE x \in FileOps
  BY <1>1 DEF FileOps, FileSteps
<1>2. CASE x \in {"which", "load", "store", "take"} \X Who
  BY <1>2 DEF FileSteps
<1>3. CASE x \in {"give back"} \X Pointers
  BY <1>3 DEF FileSteps
<1>4. CASE x \in {Op("init", "calloc"), Op("dlsym", "func"), Op("dlsym", "alloc"), Op("dlsym", "calloc"), Op("found", "")}
  <2>1. x[1] \in {"init", "dlsym", "found"}
    <3>1. PICK w \in {"init", "dlsym", "found"} : \E y : x = Op(w, y)
      BY <1>4
    <3> QED
      BY <3>1, OpParts, SMTT(30)
  <2> QED
    BY <2>1 DEF FileSteps
<1> QED
  BY <1>1, <1>2, <1>3, <1>4 DEF Ops, AllocOps

\* A thread goes on: the others stay where they are.
LEMMA GoesOn ==
  ASSUME HookTypes, NEW t \in Callers, doing[t] # <<>>, NEW s \in Seq(Ops), Go(t, s)
  PROVE  /\ doing' \in [Callers -> Seq(Ops)]
         /\ doing'[t] = s \o Tail(doing[t])
         /\ \A u \in Callers \ {t} : doing'[u] = doing[u]
<1>1. doing \in [Callers -> Seq(Ops)] /\ doing[t] \in Seq(Ops)
  BY DEF HookTypes
<1>2. doing'[t] = s \o Tail(doing[t])
  BY <1>1 DEF Go
<1>3. doing'[t] \in Seq(Ops)
  <2>1. PICK d, e : d \in Seq(Ops) /\ d = doing[t] /\ e = s \o Tail(d)
    BY <1>1
  <2> QED
    BY <1>2, <2>1, Onward
<1> QED
  BY <1>1, <1>2, <1>3 DEF Go

\* What each step puts in its place.
LEMMA Calling ==
  ASSUME HookTypes, NEW t \in Callers, NEW w, At(t, w)
  PROVE  /\ doing[t] # <<>> /\ doing[t] \in Seq(Ops) /\ Len(doing[t]) \in Nat \ {0}
         /\ doing[t][1] \in Ops /\ doing[t][1] = Head(doing[t])
         /\ doing[t][1][1] = w /\ Arg(t) = doing[t][1][2] /\ 1 \in 1 .. Len(doing[t])
<1>1. PICK d \in Seq(Ops) : d = doing[t] /\ d # <<>>
  BY DEF HookTypes, At
<1>2. PICK e : e = d \o Tail(d)
  OBVIOUS
<1>3. Len(d) \in Nat \ {0} /\ d[1] \in Ops /\ d[1] = Head(d)
  BY <1>1, <1>2, Onward
<1>4. 1 \in 1 .. Len(d)
  BY ONLY <1>3
<1> QED
  BY <1>1, <1>3, <1>4 DEF At, Arg

LEMMA CallingFor ==
  ASSUME HookTypes, NEW t \in Callers, NEW w \in {"which", "load", "store", "take"}, At(t, w)
  PROVE  doing[t] # <<>> /\ doing[t][1][1] = w /\ Arg(t) \in Who
<1>1. PICK x \in Ops : x = doing[t][1]
  BY Calling
<1>2. x[1] = w /\ Arg(t) = x[2] /\ doing[t] # <<>>
  BY <1>1, Calling
<1> QED
  BY <1>1, <1>2, OpArgs

LEMMA PutSingle ==
  ASSUME NEW w \in {"load", "store", "take"}, NEW x \in Who
  PROVE  << Op(w, x) >> \in Seq(Ops) /\ Without(<< Op(w, x) >>, FileSteps)
<1>1. Op(w, x) \in Ops /\ w \notin FileSteps
  BY OpTypes DEF FileSteps
<1> QED
  BY <1>1, WithoutSingle DEF Without

LEMMA PutLookup ==
  Without(<< Op("dlsym", "calloc"), Op("found", "") >>, FileSteps)
<1>1. Op("dlsym", "calloc") \in Ops /\ Op("found", "") \in Ops
  BY OpTypes
<1>2. PICK a \in Ops : a = Op("dlsym", "calloc") /\ a[1] = "dlsym" /\ a[2] = "calloc"
  BY <1>1, OpStep
<1>3. PICK b \in Ops : b = Op("found", "") /\ b[1] = "found" /\ b[2] = ""
  BY <1>1, OpStep
<1>4. PICK u : u = <<a, b>>
  OBVIOUS
<1>5. u \in Seq(Ops) /\ \A j \in 1 .. Len(u) : u[j] = a \/ u[j] = b
  BY <1>4, Double, SMTT(30)
<1>6. Without(u, FileSteps)
  BY <1>2, <1>3, <1>5 DEF Without, FileSteps
<1> QED
  BY <1>2, <1>3, <1>4, <1>6

LEMMA Empty == <<>> \in Seq(Ops) /\ \A W : Without(<<>>, W)
BY SMTT(30) DEF Without

InternalStep(t) ==
  \/ InitCalloc(t) \/ Dlsym(t) \/ Found(t) \/ Which(t)
  \/ InternalLoad(t) \/ InternalStore(t) \/ Take(t) \/ GiveBack(t)

LEMMA InHookStep ==
  ASSUME HookTypes, NEW t \in Callers, InternalStep(t)
  PROVE  /\ doing[t] # <<>> /\ doing[t][1][1] \notin FileSteps
         /\ \E s \in Seq(Ops) : Go(t, s) /\ Without(s, FileSteps)
<1>1. CASE InitCalloc(t)
  <2>1. doing[t] # <<>> /\ doing[t][1][1] = "init"
    BY <1>1, Calling DEF InitCalloc
  <2>2. \/ Go(t, <<>>)
        \/ Go(t, << Op("dlsym", "calloc"), Op("found", "") >>)
    BY <1>1 DEF InitCalloc
  <2> QED
    BY <2>1, <2>2, Empty, PutLookup DEF Without, FileSteps
<1>2. CASE Dlsym(t)
  <2>1. doing[t] # <<>> /\ doing[t][1][1] = "dlsym"
    BY <1>2, Calling DEF Dlsym
  <2>2. Go(t, <<>>) \/ Go(t, calloc("dlsym"))
    BY <1>2 DEF Dlsym
  <2>3. Without(calloc("dlsym"), FileSteps)
    BY CallMalloc DEF Who, Giving, Without, NoPointer
  <2> QED
    BY <2>1, <2>2, <2>3, Empty DEF Without, FileSteps
<1>3. CASE Found(t)
  <2>1. doing[t] # <<>> /\ doing[t][1][1] = "found"
    BY <1>3, Calling DEF Found
  <2>2. Go(t, <<>>)
    BY <1>3 DEF Found
  <2> QED
    BY <2>1, <2>2, Empty DEF FileSteps
<1>4. CASE Which(t)
  <2>1. doing[t] # <<>> /\ doing[t][1][1] = "which" /\ Arg(t) \in Who
    BY <1>4, CallingFor DEF Which
  <2>2. PICK w \in {"load", "take"} : Go(t, << Op(w, Arg(t)) >>)
    BY <1>4 DEF Which
  <2> QED
    BY <2>1, <2>2, PutSingle DEF FileSteps
<1>5. CASE InternalLoad(t)
  <2>1. doing[t] # <<>> /\ doing[t][1][1] = "load" /\ Arg(t) \in Who
    BY <1>5, CallingFor DEF InternalLoad
  <2>2. Go(t, <<>>) \/ Go(t, << Op("store", Arg(t)) >>)
    BY <1>5 DEF InternalLoad
  <2> QED
    BY <2>1, <2>2, Empty, PutSingle DEF FileSteps
<1>6. CASE InternalStore(t)
  <2>1. doing[t] # <<>> /\ doing[t][1][1] = "store"
    BY <1>6, Calling DEF InternalStore
  <2>2. Go(t, <<>>)
    BY <1>6 DEF InternalStore
  <2> QED
    BY <2>1, <2>2, Empty DEF FileSteps
<1>7. CASE Take(t)
  <2>1. doing[t] # <<>> /\ doing[t][1][1] = "take"
    BY <1>7, Calling DEF Take
  <2>2. Go(t, <<>>)
    BY <1>7 DEF Take
  <2> QED
    BY <2>1, <2>2, Empty DEF FileSteps
<1>8. CASE GiveBack(t)
  <2>1. doing[t] # <<>> /\ doing[t][1][1] = "give back"
    BY <1>8, Calling DEF GiveBack
  <2>2. Go(t, <<>>)
    BY <1>8 DEF GiveBack
  <2> QED
    BY <2>1, <2>2, Empty DEF FileSteps
<1> QED
  BY <1>1, <1>2, <1>3, <1>4, <1>5, <1>6, <1>7, <1>8 DEF InternalStep

LEMMA PtrTypes ==
  ASSUME HookTypes, NEW t \in Callers, InternalStep(t)
  PROVE  /\ ptrs' \in SUBSET Pointers /\ internal_calloc_ptr' \in Nat /\ loaded' \in [Callers -> Nat]
         /\ _libc_calloc' \in {"NULL", "internal", "libc"} /\ resolved' \in BOOLEAN
         /\ enabled' \in BOOLEAN /\ osvmm' \in BOOLEAN /\ prot' = prot /\ bare' = bare
<1>1. CASE InitCalloc(t) \/ Dlsym(t) \/ Found(t) \/ Which(t) \/ GiveBack(t)
  BY <1>1 DEF HookTypes, InitCalloc, Dlsym, Found, Which, GiveBack, alloc
<1>2. CASE InternalLoad(t)
  BY <1>2 DEF HookTypes, InternalLoad
<1>3. CASE InternalStore(t)
  <2>1. Arg(t) \in Who
    BY <1>3, CallingFor DEF InternalStore
  <2>2. [from |-> "internal", nr |-> loaded[t], by |-> Arg(t)] \in Pointers
    BY <2>1 DEF HookTypes, Pointers
  <2> QED
    BY <1>3, <2>2, SMTT(30) DEF HookTypes, InternalStore
<1>4. CASE Take(t)
  <2>1. Arg(t) \in Who
    BY <1>4, CallingFor DEF Take
  <2>2. PICK nr \in 0 .. MaxPtrs + MaxInternal :
          ptrs' = ptrs \union {[from |-> Allocator, nr |-> nr, by |-> Arg(t)]}
    BY <1>4 DEF Take
  <2>3. nr \in Nat
    BY HookAssumption, SMTT(30)
  <2>4. [from |-> Allocator, nr |-> nr, by |-> Arg(t)] \in Pointers
    BY <2>1, <2>3 DEF Pointers, Allocator
  <2> QED
    BY <1>4, <2>2, <2>4 DEF HookTypes, Take
<1> QED
  BY <1>1, <1>2, <1>3, <1>4 DEF InternalStep

\* A thread that begins a call.
LEMMA Begins ==
  ASSUME HookTypes, NEW t \in Callers, NEW c \in Seq(Ops), doing' = [doing EXCEPT ![t] = c]
  PROVE  /\ doing' \in [Callers -> Seq(Ops)] /\ doing'[t] = c
         /\ \A u \in Callers \ {t} : doing'[u] = doing[u]
BY DEF HookTypes

LEMMA CallAllocTypes ==
  ASSUME HookTypes, NEW t \in Callers, CallAlloc(t)
  PROVE  /\ ptrs' \subseteq ptrs
         /\ \/ \E c : doing' = [doing EXCEPT ![t] = c] /\ \A q : Giving(c, q)
            \/ \E p \in ptrs : /\ p.from # "internal" \/ p.by = "program"
                               /\ \E c : doing' = [doing EXCEPT ![t] = c] /\ Giving(c, p)
<1>1. CASE doing' = [doing EXCEPT ![t] = malloc] /\ UNCHANGED ptrs
  BY <1>1, CallMalloc
<1>2. CASE doing' = [doing EXCEPT ![t] = calloc("program")] /\ UNCHANGED ptrs
  BY <1>2, CallMalloc DEF Who
<1>3. ASSUME NEW p \in ptrs, doing' = [doing EXCEPT ![t] = free(p)], ptrs' = ptrs \ {p}
      PROVE  /\ ptrs' \subseteq ptrs
             /\ \/ \E c : doing' = [doing EXCEPT ![t] = c] /\ \A q : Giving(c, q)
                \/ /\ p.from # "internal" \/ p.by = "program"
                   /\ \E c : doing' = [doing EXCEPT ![t] = c] /\ Giving(c, p)
  <2>1. p \in Pointers
    BY DEF HookTypes
  <2> QED
    BY <1>3, <2>1, CallFreeing
<1>4. ASSUME NEW p \in ptrs, p.by = "program", doing' = [doing EXCEPT ![t] = realloc(p)], ptrs' = ptrs \ {p}
      PROVE  /\ ptrs' \subseteq ptrs
             /\ \E c : doing' = [doing EXCEPT ![t] = c] /\ Giving(c, p)
  <2>1. p \in Pointers
    BY DEF HookTypes
  <2> QED
    BY <1>4, <2>1, CallFreeing
<1> QED
  BY <1>1, <1>2, <1>3, <1>4 DEF CallAlloc

LEMMA CallFileTypes ==
  ASSUME HookTypes, NEW t \in Callers, CallFile(t)
  PROVE  \E c, B : /\ doing' = [doing EXCEPT ![t] = c] /\ bare' = [bare EXCEPT ![t] = B]
                   /\ Clean(c) /\ B \in SUBSET Buffer /\ Served(c, B)
<1>1. PICK R \in SUBSET Buffer, S \in SUBSET Buffer : \E f \in FileCalls(R, S) :
        doing' = [doing EXCEPT ![t] = f[1]] /\ bare' = [bare EXCEPT ![t] = f[2]]
  BY DEF CallFile
<1> QED
  BY <1>1, CallFiles

LEMMA EvictTypes ==
  ASSUME HookTypes, NEW R \in SUBSET Buffer, Evict(R)
  PROVE  prot' \in [Buffer -> {"none", "r", "rw"}] /\ bare' \in [Callers -> SUBSET Buffer]
<1>1. \A s : Exposed(s) \subseteq Buffer
  BY DEF Exposed
<1> QED
  BY <1>1 DEF HookTypes, Evict

LEMMA HookTypesStep ==
  ASSUME HookTypes, [HookNext]_hookvars
  PROVE  HookTypes'
<1>1. ASSUME NEW t \in Callers, InternalStep(t) PROVE HookTypes'
  <2>1. doing' \in [Callers -> Seq(Ops)]
    BY <1>1, InHookStep, GoesOn
  <2>2. prot' \in [Buffer -> {"none", "r", "rw"}] /\ bare' \in [Callers -> SUBSET Buffer]
    BY <1>1, PtrTypes DEF HookTypes
  <2> QED
    BY <1>1, <2>1, <2>2, PtrTypes DEF HookTypes
<1>2. ASSUME NEW t \in Callers, CallAlloc(t) PROVE HookTypes'
  <2>1. \E c : doing' = [doing EXCEPT ![t] = c] /\ c \in Seq(Ops)
    BY <1>2, CallAllocTypes DEF Giving, Without
  <2>2. doing' \in [Callers -> Seq(Ops)]
    BY <2>1, Begins
  <2>3. ptrs' \in SUBSET Pointers
    BY <1>2, CallAllocTypes DEF HookTypes
  <2> QED
    BY <1>2, <2>2, <2>3 DEF HookTypes, CallAlloc
<1>3. ASSUME NEW t \in Callers, Switch(t) PROVE HookTypes'
  BY <1>3 DEF HookTypes, Switch
<1>4. ASSUME NEW t \in Callers, CallFile(t) PROVE HookTypes'
  <2>1. \E c : doing' = [doing EXCEPT ![t] = c] /\ c \in Seq(Ops)
    BY <1>4, CallFileTypes DEF Clean, Without
  <2>2. doing' \in [Callers -> Seq(Ops)]
    BY <2>1, Begins
  <2>3. bare' \in [Callers -> SUBSET Buffer]
    BY <1>4, CallFileTypes DEF HookTypes
  <2> QED
    BY <1>4, <2>2, <2>3 DEF HookTypes, CallFile, alloc
<1>5. ASSUME NEW t \in Callers, UserStep(t) PROVE HookTypes'
  <2>1. doing[t] # <<>> /\ Go(t, <<>>)
    BY <1>5 DEF UserStep, At
  <2>2. doing' \in [Callers -> Seq(Ops)]
    BY <2>1, Empty, GoesOn
  <2>3. prot' \in [Buffer -> {"none", "r", "rw"}] /\ bare' \in [Callers -> SUBSET Buffer]
    <3>1. CASE At(t, "evict") /\ Evict(Arg(t))
      <4>1. Arg(t) \in SUBSET Buffer
        <5>1. PICK x \in Ops : x[1] = "evict" /\ Arg(t) = x[2]
          BY <3>1, Calling
        <5> QED
          BY <5>1, OpArgs DEF FileSteps
      <4> QED
        BY <3>1, <4>1, EvictTypes
    <3>2. CASE UNCHANGED bare /\ \E how \in {"r", "rw"} : prot' = Grant(Arg(t), how)
      BY <3>2 DEF Grant, HookTypes
    <3> QED
      BY <1>5, <3>1, <3>2 DEF UserStep
  <2> QED
    BY <1>5, <2>2, <2>3 DEF HookTypes, UserStep, alloc
<1>6. ASSUME NEW t \in Callers, Kernel(t) PROVE HookTypes'
  <2>1. doing[t] # <<>> /\ Go(t, <<>>)
    BY <1>6 DEF Kernel, At
  <2>2. doing' \in [Callers -> Seq(Ops)]
    BY <2>1, Empty, GoesOn
  <2>3. bare' \in [Callers -> SUBSET Buffer]
    BY <1>6 DEF HookTypes, Kernel
  <2> QED
    BY <1>6, <2>2, <2>3 DEF HookTypes, Kernel, alloc
<1>7. CASE Sigipc
  <2>1. prot' \in [Buffer -> {"none", "r", "rw"}] /\ bare' \in [Callers -> SUBSET Buffer]
    BY <1>7, EvictTypes DEF Sigipc
  <2> QED
    BY <1>7, <2>1 DEF HookTypes, Sigipc, alloc
<1>8. CASE UNCHANGED hookvars
  BY <1>8 DEF HookTypes, hookvars, alloc
<1> QED
  BY <1>1, <1>2, <1>3, <1>4, <1>5, <1>6, <1>7, <1>8 DEF HookNext, InHook, AllocNext, FileNext, InternalStep

------------------------------------------------------------------------------
(***************************************************************************)
(* Files.                                                                  *)
(***************************************************************************)
\* A step that has touched or cleared its buffer need not be done any more.
LEMMA ReadyOn ==
  ASSUME NEW d \in Seq(Ops), d # <<>>, NEW s, Without(s, FileSteps), NEW e, e = s \o Tail(d),
         NEW k \in FileSteps, NEW W, NEW G, NEW H, Ready(d, k, W, G), G \subseteq H,
         d[1][1] \in W => d[1][2] \subseteq H
  PROVE  Ready(e, k, W, H)
<1>1. s \in Seq(Ops) /\ \A j \in 1 .. Len(s) : s[j][1] \notin FileSteps
  BY DEF Without
<1>2. /\ e \in Seq(Ops) /\ Len(d) \in Nat /\ Len(s) \in Nat
      /\ \A m \in 2 .. Len(d) : (m - 1) + Len(s) \in 1 .. Len(e) /\ e[(m - 1) + Len(s)] = d[m]
      /\ \A j \in 1 .. Len(e) : \/ j \in 1 .. Len(s) /\ e[j] = s[j]
                                \/ (j - Len(s)) + 1 \in 2 .. Len(d) /\ e[j] = d[(j - Len(s)) + 1]
  BY <1>1, Onward, SMTT(30)
<1>3. ASSUME NEW j \in 1 .. Len(e), e[j][1] = k, NEW x \in e[j][2], x \notin H
      PROVE  \E i \in 1 .. j - 1 : e[i][1] \in W /\ x \in e[i][2]
  <2>1. PICK m \in 2 .. Len(d) : m = (j - Len(s)) + 1 /\ e[j] = d[m]
    BY <1>1, <1>2, <1>3
  <2>2. m \in 1 .. Len(d)
    BY ONLY <1>2, <2>1
  <2>3. PICK i \in 1 .. m - 1 : d[i][1] \in W /\ x \in d[i][2]
    BY <2>1, <2>2, <1>3 DEF Ready
  <2>4. i # 1
    BY <2>3, <1>3
  <2>5. i \in 2 .. Len(d) /\ (i - 1) + Len(s) \in 1 .. j - 1
    BY ONLY <1>2, <2>1, <2>3, <2>4, j \in 1 .. Len(e), SMTT(30)
  <2> QED
    BY <1>2, <2>3, <2>5
<1> QED
  BY <1>3 DEF Ready

LEMMA ReadyMore ==
  ASSUME NEW s, NEW k, NEW W, NEW G, NEW H, Ready(s, k, W, G), G \subseteq H
  PROVE  Ready(s, k, W, H)
BY DEF Ready

LEMMA ReadyBoth ==
  ASSUME NEW s, NEW k, NEW W, NEW G, NEW H, Ready(s, k, W, G), Ready(s, k, W, H)
  PROVE  Ready(s, k, W, G \intersect H)
BY DEF Ready

\* What no step brings in any more is exposed.
LEMMA ReadyExposed ==
  ASSUME NEW s \in Seq(Ops)
  PROVE  Ready(s, "kernel reads", Reads, Exposed(s)) /\ Ready(s, "kernel writes", {"memset"}, Exposed(s))
<1>1. DOMAIN s = 1 .. Len(s) /\ \A j \in 1 .. Len(s) : s[j] \in Ops
  BY SMTT(30)
<1>2. BringsIn("kernel reads") = Reads /\ BringsIn("kernel writes") = {"memset"}
  BY DEF BringsIn, Reads
<1>3. ASSUME NEW j \in 1 .. Len(s), s[j][1] \in {"kernel reads", "kernel writes"}, NEW x \in s[j][2],
             ~ \E i \in 1 .. j - 1 : s[i][1] \in BringsIn(s[j][1]) /\ x \in s[i][2]
      PROVE  x \in Exposed(s)
  <2>1. x \in Buffer
    BY <1>1, <1>3, OpArgs DEF FileSteps
  <2> QED
    BY <1>1, <1>3, <2>1 DEF Exposed
<1> QED
  BY <1>2, <1>3 DEF Ready

LEMMA FedOn ==
  ASSUME NEW d \in Seq(Ops), d # <<>>, NEW s, Without(s, FileSteps), NEW e, e = s \o Tail(d),
         NEW pr, NEW qr, NEW B, Fed(d, pr, B),
         Readable(pr) \subseteq Readable(qr), Writable(pr) \subseteq Writable(qr),
         d[1][1] \in Reads => d[1][2] \subseteq Readable(qr),
         d[1][1] = "memset" => d[1][2] \subseteq Writable(qr)
  PROVE  Fed(e, qr, B)
<1>1. "kernel reads" \in FileSteps /\ "kernel writes" \in FileSteps
  BY DEF FileSteps
<1>2. PICK G1, H1, G2, H2 : /\ G1 = Readable(pr) \union B /\ H1 = Readable(qr) \union B
                            /\ G2 = Writable(pr) \union B /\ H2 = Writable(qr) \union B
  OBVIOUS
<1>3. /\ G1 \subseteq H1 /\ (d[1][1] \in Reads => d[1][2] \subseteq H1)
      /\ G2 \subseteq H2 /\ (d[1][1] \in {"memset"} => d[1][2] \subseteq H2)
  BY <1>2
<1>4. Ready(d, "kernel reads", Reads, G1) /\ Ready(d, "kernel writes", {"memset"}, G2)
  BY <1>2 DEF Fed
<1>5. Ready(e, "kernel reads", Reads, H1)
  BY <1>1, <1>3, <1>4, ReadyOn
<1>6. Ready(e, "kernel writes", {"memset"}, H2)
  BY <1>1, <1>3, <1>4, ReadyOn
<1> QED
  BY <1>2, <1>5, <1>6 DEF Fed

LEMMA FedMore ==
  ASSUME NEW s, NEW pr, NEW qr, NEW B, Fed(s, pr, B),
         Readable(pr) \subseteq Readable(qr), Writable(pr) \subseteq Writable(qr)
  PROVE  Fed(s, qr, B)
<1>1. /\ Readable(pr) \union B \subseteq Readable(qr) \union B
      /\ Writable(pr) \union B \subseteq Writable(qr) \union B
  OBVIOUS
<1> QED
  BY <1>1, ReadyMore DEF Fed

\* Only the exposed pages of a call need be remembered.
LEMMA FedLess ==
  ASSUME NEW s \in Seq(Ops), NEW pr, NEW B, Fed(s, pr, B)
  PROVE  Fed(s, pr, B \intersect Exposed(s))
<1>1. PICK E : E = Exposed(s)
  OBVIOUS
<1>2. PICK G1, G2 : G1 = Readable(pr) /\ G2 = Writable(pr)
  OBVIOUS
<1>3. /\ Ready(s, "kernel reads", Reads, (G1 \union B) \intersect E)
      /\ Ready(s, "kernel writes", {"memset"}, (G2 \union B) \intersect E)
  BY <1>1, <1>2, ReadyExposed, ReadyBoth DEF Fed
<1>4. \A G : (G \union B) \intersect E \subseteq G \union (B \intersect E)
  OBVIOUS
<1>5. /\ Ready(s, "kernel reads", Reads, G1 \union (B \intersect E))
      /\ Ready(s, "kernel writes", {"memset"}, G2 \union (B \intersect E))
  BY <1>3, <1>4, ReadyMore
<1> QED
  BY <1>1, <1>2, <1>5 DEF Fed

\* An eviction bares the exposed pages.
LEMMA FedEvicted ==
  ASSUME NEW s \in Seq(Ops), NEW pr, NEW qr, NEW B, NEW R, Fed(s, pr, B),
         qr = [x \in Buffer |-> IF x \in R THEN "none" ELSE pr[x]]
  PROVE  Fed(s, qr, B \union (R \intersect Exposed(s)))
<1>1. PICK E : E = Exposed(s)
  OBVIOUS
<1>2. PICK G1, G2, H1, H2 : G1 = Readable(pr) /\ G2 = Writable(pr) /\ H1 = Readable(qr) /\ H2 = Writable(qr)
  OBVIOUS
<1>3. /\ Ready(s, "kernel reads", Reads, (G1 \union B) \intersect E)
      /\ Ready(s, "kernel writes", {"memset"}, (G2 \union B) \intersect E)
  BY <1>1, <1>2, ReadyExposed, ReadyBoth DEF Fed
<1>4. G1 \ R \subseteq H1 /\ G2 \ R \subseteq H2
  BY <1>2 DEF Readable, Writable
<1>5. /\ (G1 \union B) \intersect E \subseteq H1 \union (B \union (R \intersect E))
      /\ (G2 \union B) \intersect E \subseteq H2 \union (B \union (R \intersect E))
  BY <1>4
<1>6. /\ Ready(s, "kernel reads", Reads, H1 \union (B \union (R \intersect E)))
      /\ Ready(s, "kernel writes", {"memset"}, H2 \union (B \union (R \intersect E)))
  BY <1>3, <1>5, ReadyMore
<1> QED
  BY <1>1, <1>2, <1>6 DEF Fed

\* A thread's step, with what it does to the protection of the pages.
LEMMA BufferOn ==
  ASSUME HookTypes, BufferInv, NEW t \in Callers, doing[t] # <<>>, NEW s, Without(s, FileSteps), Go(t, s),
         Readable(prot) \subseteq Readable(prot'), Writable(prot) \subseteq Writable(prot'),
         doing[t][1][1] \in Reads => doing[t][1][2] \subseteq Readable(prot'),
         doing[t][1][1] = "memset" => doing[t][1][2] \subseteq Writable(prot')
  PROVE  \A u \in Callers : Fed(doing'[u], prot', bare[u])
<1>1. PICK d, e : d \in Seq(Ops) /\ d = doing[t] /\ e = s \o Tail(d)
  BY DEF HookTypes
<1>2. doing'[t] = e /\ \A u \in Callers \ {t} : doing'[u] = doing[u]
  BY <1>1, GoesOn DEF Without
<1>3. PICK pr, qr : pr = prot /\ qr = prot'
  OBVIOUS
<1>4. Fed(d, pr, bare[t])
  BY <1>1, <1>3 DEF BufferInv
<1>5. Fed(e, qr, bare[t])
  BY <1>1, <1>3, <1>4, FedOn
<1>6. \A u \in Callers \ {t} : Fed(doing[u], qr, bare[u])
  BY <1>3, FedMore DEF BufferInv
<1> QED
  BY <1>2, <1>3, <1>5, <1>6

\* A call that begins.
LEMMA BufferBegins ==
  ASSUME HookTypes, BufferInv, NEW t \in Callers, NEW c \in Seq(Ops), doing' = [doing EXCEPT ![t] = c],
         NEW B, Served(c, B), bare'[t] = B, \A u \in Callers \ {t} : bare'[u] = bare[u], prot' = prot
  PROVE  BufferInv'
<1>1. doing'[t] = c /\ \A u \in Callers \ {t} : doing'[u] = doing[u]
  BY Begins
<1>2. \A G : B \subseteq G \union B
  OBVIOUS
<1>3. Fed(c, prot, B)
  BY <1>2, ReadyMore DEF Served, Fed
<1>4. \A u \in Callers : Fed(doing'[u], prot, bare'[u])
  BY <1>1, <1>3 DEF BufferInv
<1> QED
  BY <1>4 DEF BufferInv

\* The kernel finds what it uses.
LEMMA KernelFinds ==
  ASSUME FileInv, NEW t \in Callers, Kernel(t)
  PROVE  KernelServed'
<1>1. 1 .. 1 - 1 = {}
  BY SMTT(30)
<1>2. ASSUME At(t, "kernel reads"), wrong' = wrong \union {Efault(t, x) : x \in {y \in Arg(t) : prot[y] = "none"}}
      PROVE  KernelServed'
  <2>1. doing[t][1][1] = "kernel reads" /\ Arg(t) = doing[t][1][2] /\ 1 \in 1 .. Len(doing[t])
    BY <1>2, Calling DEF FileInv
  <2>2. Arg(t) \subseteq Readable(prot) \union bare[t]
    BY <1>1, <2>1 DEF FileInv, BufferInv, Fed, Ready
  <2>3. ASSUME NEW x \in {y \in Arg(t) : prot[y] = "none"} PROVE Efault(t, x) # "EFAULT"
    BY <2>2, <2>3 DEF Readable, Efault
  <2> QED
    BY <1>2, <2>3 DEF FileInv, KernelServed
<1>3. ASSUME At(t, "kernel writes"), wrong' = wrong \union {Efault(t, x) : x \in {y \in Arg(t) : prot[y] # "rw"}}
      PROVE  KernelServed'
  <2>1. doing[t][1][1] = "kernel writes" /\ Arg(t) = doing[t][1][2] /\ 1 \in 1 .. Len(doing[t])
    BY <1>3, Calling DEF FileInv
  <2>2. Arg(t) \subseteq Writable(prot) \union bare[t]
    BY <1>1, <2>1 DEF FileInv, BufferInv, Fed, Ready
  <2>3. ASSUME NEW x \in {y \in Arg(t) : prot[y] # "rw"} PROVE Efault(t, x) # "EFAULT"
    BY <2>2, <2>3 DEF Writable, Efault
  <2> QED
    BY <1>3, <2>3 DEF FileInv, KernelServed
<1> QED
  BY <1>2, <1>3 DEF Kernel

\* An eviction, by a signal or by msync.
LEMMA BufferEvicted ==
  ASSUME HookTypes, BufferInv, NEW R, Evict(R)
  PROVE  \A u \in Callers : Fed(doing[u], prot', bare'[u])
<1>1. ASSUME NEW u \in Callers PROVE Fed(doing[u], prot', bare'[u])
  <2>1. PICK c \in Seq(Ops) : c = doing[u]
    BY DEF HookTypes
  <2>2. PICK pr, qr : pr = prot /\ qr = prot'
    OBVIOUS
  <2>3. /\ qr = [x \in Buffer |-> IF x \in R THEN "none" ELSE pr[x]]
        /\ bare'[u] = bare[u] \union (R \intersect Exposed(c))
    BY <2>1, <2>2 DEF Evict
  <2>4. Fed(c, pr, bare[u])
    BY <2>1, <2>2 DEF BufferInv
  <2>5. Fed(c, qr, bare[u] \union (R \intersect Exposed(c)))
    BY <2>3, <2>4, FedEvicted
  <2> QED
    BY <2>1, <2>2, <2>3, <2>5
<1> QED
  BY <1>1

\* What a hook does in user space.
LEMMA UserWork ==
  ASSUME FileInv, NEW t \in Callers, UserStep(t)
  PROVE  BufferInv'
<1>1. prot \in [Buffer -> {"none", "r", "rw"}] /\ HookTypes /\ BufferInv
  BY DEF FileInv, HookTypes
<1>2. doing[t] # <<>> /\ Go(t, <<>>) /\ Without(<<>>, FileSteps)
  BY Empty DEF UserStep, At
<1>3. ASSUME At(t, "touch"), prot' = Grant(Arg(t), "r"), bare' = bare PROVE BufferInv'
  <2>1. doing[t][1][1] = "touch" /\ Arg(t) = doing[t][1][2] /\ doing[t][1] \in Ops
    BY <1>1, <1>3, Calling
  <2>2. Arg(t) \subseteq Buffer
    BY <2>1, OpArgs DEF FileSteps
  <2>3. Readable(prot) \subseteq Readable(prot') /\ Writable(prot) \subseteq Writable(prot')
    BY <1>1, <1>3 DEF Readable, Writable, Grant
  <2>4. Arg(t) \subseteq Readable(prot')
    BY <1>1, <1>3, <2>2 DEF Readable, Grant
  <2>5. doing[t][1][1] # "memset"
    BY <2>1
  <2>6. \A u \in Callers : Fed(doing'[u], prot', bare[u])
    BY <1>1, <1>2, <2>1, <2>3, <2>4, <2>5, BufferOn
  <2> QED
    BY <1>3, <2>6 DEF BufferInv
<1>4. ASSUME At(t, "memset"), prot' = Grant(Arg(t), "rw"), bare' = bare PROVE BufferInv'
  <2>1. doing[t][1][1] = "memset" /\ Arg(t) = doing[t][1][2] /\ doing[t][1] \in Ops
    BY <1>1, <1>4, Calling
  <2>2. Arg(t) \subseteq Buffer
    BY <2>1, OpArgs DEF FileSteps
  <2>3. Readable(prot) \subseteq Readable(prot') /\ Writable(prot) \subseteq Writable(prot')
    BY <1>1, <1>4 DEF Readable, Writable, Grant
  <2>4. Arg(t) \subseteq Readable(prot') /\ Arg(t) \subseteq Writable(prot')
    BY <1>1, <1>4, <2>2 DEF Readable, Writable, Grant
  <2>5. \A u \in Callers : Fed(doing'[u], prot', bare[u])
    BY <1>1, <1>2, <2>1, <2>3, <2>4, BufferOn
  <2> QED
    BY <1>4, <2>5 DEF BufferInv
<1>5. ASSUME At(t, "evict"), Evict(Arg(t)) PROVE BufferInv'
  <2>1. doing[t] \in Seq(Ops) /\ doing[t][1][1] = "evict"
    BY <1>1, <1>5, Calling
  <2>2. \A u \in Callers : Fed(doing[u], prot', bare'[u])
    BY <1>1, <1>5, BufferEvicted
  <2>3. PICK d, e, qr, B : /\ d \in Seq(Ops) /\ d = doing[t] /\ e = <<>> \o Tail(d)
                           /\ qr = prot' /\ B = bare'[t]
    BY <2>1
  <2>4. doing'[t] = e /\ \A u \in Callers \ {t} : doing'[u] = doing[u]
    BY <1>1, <1>2, <2>3, Empty, GoesOn
  <2>5. d[1][1] \notin Reads /\ d[1][1] # "memset"
    BY <2>1, <2>3 DEF Reads
  <2>6. Fed(d, qr, B)
    BY <2>2, <2>3
  <2>7. Fed(e, qr, B)
    BY <1>2, <2>3, <2>5, <2>6, FedOn
  <2> QED
    BY <2>2, <2>3, <2>4, <2>7 DEF BufferInv
<1> QED
  BY <1>3, <1>4, <1>5 DEF UserStep

\* What the kernel does.
LEMMA KernelWork ==
  ASSUME FileInv, NEW t \in Callers, Kernel(t)
  PROVE  BufferInv'
<1>1. HookTypes /\ BufferInv /\ bare \in [Callers -> SUBSET Buffer]
  BY DEF FileInv, HookTypes
<1>2. doing[t] # <<>> /\ Go(t, <<>>) /\ Without(<<>>, FileSteps) /\ prot' = prot
  BY Empty DEF Kernel, At
<1>3. doing[t][1][1] \in {"kernel reads", "kernel writes"}
  <2>1. At(t, "kernel reads") \/ At(t, "kernel writes")
    BY DEF Kernel
  <2> QED
    BY <1>1, <2>1, Calling
<1>4. doing[t][1][1] \notin Reads /\ doing[t][1][1] # "memset"
  BY <1>3 DEF Reads
<1>5. \A u \in Callers : Fed(doing'[u], prot', bare[u])
  BY <1>1, <1>2, <1>4, BufferOn
<1>6. bare'[t] = bare[t] \intersect Exposed(doing'[t]) /\ \A u \in Callers \ {t} : bare'[u] = bare[u]
  <2>1. PICK d \in Seq(Ops) : d = doing[t] /\ d # <<>>
    BY <1>1, <1>2 DEF HookTypes
  <2>2. <<>> \o Tail(d) = Tail(d)
    BY <2>1, SMTT(30)
  <2>3. doing'[t] = Tail(doing[t])
    BY <1>1, <1>2, <2>1, <2>2, Empty, GoesOn
  <2> QED
    BY <1>1, <2>3 DEF Kernel
<1>7. Fed(doing'[t], prot', bare[t] \intersect Exposed(doing'[t]))
  <2>1. PICK e, qr : e = doing'[t] /\ qr = prot' /\ e \in Seq(Ops)
    BY <1>1, <1>2, Empty, GoesOn
  <2>2. Fed(e, qr, bare[t])
    BY <1>5, <2>1
  <2> QED
    BY <2>1, <2>2, FedLess
<1> QED
  BY <1>5, <1>6, <1>7 DEF BufferInv

LEMMA StillServed == ASSUME KernelServed, wrong' = wrong PROVE KernelServed'
BY DEF KernelServed

LEMMA FileStep ==
  ASSUME FileInv, [HookNext]_hookvars
  PROVE  FileInv'
<1>1. HookTypes /\ BufferInv /\ KernelServed /\ HookTypes'
  BY HookTypesStep DEF FileInv
<1>2. ASSUME NEW t \in Callers, InternalStep(t) PROVE BufferInv' /\ KernelServed'
  <2>1. PICK s \in Seq(Ops) : Go(t, s) /\ Without(s, FileSteps)
    BY <1>1, <1>2, InHookStep
  <2>2. doing[t] # <<>> /\ doing[t][1][1] \notin FileSteps
    BY <1>1, <1>2, InHookStep
  <2>3. doing[t][1][1] \notin Reads /\ doing[t][1][1] # "memset"
    BY <2>2 DEF FileSteps, Reads
  <2>4. prot' = prot /\ bare' = bare
    BY <1>1, <1>2, PtrTypes
  <2>5. BufferInv'
    BY <1>1, <2>1, <2>2, <2>3, <2>4, BufferOn DEF BufferInv
  <2>6. KernelServed'
    <3>1. CASE InternalLoad(t)
      BY <1>1, <3>1 DEF InternalLoad, KernelServed
    <3>2. CASE InternalStore(t)
      BY <1>1, <3>2 DEF InternalStore, KernelServed
    <3>3. CASE GiveBack(t)
      BY <1>1, <3>3 DEF GiveBack, KernelServed
    <3>4. CASE InitCalloc(t) \/ Dlsym(t) \/ Found(t) \/ Which(t) \/ Take(t)
      BY <1>1, <3>4, StillServed DEF InitCalloc, Dlsym, Found, Which, Take
    <3> QED
      BY <1>2, <3>1, <3>2, <3>3, <3>4 DEF InternalStep
  <2> QED
    BY <2>5, <2>6
<1>3. ASSUME NEW t \in Callers, CallAlloc(t) PROVE BufferInv' /\ KernelServed'
  <2>1. PICK c : doing' = [doing EXCEPT ![t] = c] /\ Without(c, NoPointer)
    BY <1>1, <1>3, CallAllocTypes DEF Giving
  <2>2. c \in Seq(Ops) /\ Without(c, FileSteps)
    BY <2>1 DEF Without, NoPointer
  <2>3. Served(c, bare[t])
    BY <2>2 DEF Without, FileSteps, Served, Ready
  <2>4. prot' = prot /\ bare' = bare /\ wrong' = wrong
    BY <1>3 DEF CallAlloc
  <2>5. BufferInv'
    BY <1>1, <2>1, <2>2, <2>3, <2>4, BufferBegins
  <2> QED
    BY <1>1, <2>4, <2>5, StillServed
<1>4. ASSUME NEW t \in Callers, Switch(t) PROVE BufferInv' /\ KernelServed'
  BY <1>1, <1>4 DEF Switch, BufferInv, KernelServed
<1>5. ASSUME NEW t \in Callers, CallFile(t) PROVE BufferInv' /\ KernelServed'
  <2>1. PICK c, B : /\ doing' = [doing EXCEPT ![t] = c] /\ bare' = [bare EXCEPT ![t] = B]
                    /\ Clean(c) /\ Served(c, B)
    BY <1>1, <1>5, CallFileTypes
  <2>2. c \in Seq(Ops)
    BY <2>1 DEF Clean, Without
  <2>3. prot' = prot /\ wrong' = wrong
    BY <1>5 DEF CallFile
  <2>4. bare'[t] = B /\ \A u \in Callers \ {t} : bare'[u] = bare[u]
    BY <1>1, <2>1 DEF HookTypes
  <2>5. BufferInv'
    BY <1>1, <2>1, <2>2, <2>3, <2>4, BufferBegins
  <2> QED
    BY <1>1, <2>3, <2>5, StillServed
<1>6. ASSUME NEW t \in Callers, UserStep(t) PROVE BufferInv' /\ KernelServed'
  BY <1>1, <1>6, UserWork DEF UserStep, KernelServed
<1>7. ASSUME NEW t \in Callers, Kernel(t) PROVE BufferInv' /\ KernelServed'
  BY <1>7, KernelWork, KernelFinds
<1>8. CASE Sigipc
  <2>1. doing' = doing /\ wrong' = wrong /\ Evict(Buffer)
    BY <1>8 DEF Sigipc
  <2>2. \A u \in Callers : Fed(doing[u], prot', bare'[u])
    BY <1>1, <2>1, BufferEvicted
  <2>3. BufferInv'
    BY <2>1, <2>2 DEF BufferInv
  <2>4. KernelServed'
    BY <1>1, <2>1, StillServed
  <2> QED
    BY <1>1, <2>3, <2>4 DEF FileInv
<1>9. CASE UNCHANGED hookvars
  <2>1. wrong' = wrong /\ doing' = doing /\ prot' = prot /\ bare' = bare
    BY <1>9 DEF hookvars
  <2>2. BufferInv'
    BY <1>1, <2>1 DEF BufferInv
  <2> QED
    BY <1>1, <2>1, <2>2, StillServed DEF FileInv
<1> QED
  BY <1>1, <1>2, <1>3, <1>4, <1>5, <1>6, <1>7, <1>8, <1>9 DEF HookNext, InHook, AllocNext, FileNext, InternalStep,
    FileInv

LEMMA HookInitTypes == HookInit => HookTypes /\ \A t \in Callers : 1 .. Len(doing[t]) = {}
<1> SUFFICES ASSUME HookInit PROVE HookTypes /\ \A t \in Callers : 1 .. Len(doing[t]) = {}
  OBVIOUS
<1>1. HookTypes
  BY Empty DEF HookInit, HookTypes
<1>2. \A t \in Callers : doing[t] = <<>>
  BY DEF HookInit
<1>3. 1 .. Len(<<>>) = {}
  BY SMTT(30)
<1> QED
  BY <1>1, <1>2, <1>3

\* A system call fails on a page only if its hook leaves the page alone or it was
\* evicted after the hook had brought it in, whatever signals come and whatever the
\* hooks of other threads do to the same pages (read, write, stat, open, mlock and
\* the others of api/hooks.c): FileInv says that what the kernel will use is
\* accessible, or the hook of the same call has yet to touch it, or it is bare.
THEOREM KernelIsServed == HookSpec => []KernelServed
<1>1. HookInit => FileInv
  <2> SUFFICES ASSUME HookInit PROVE FileInv
    OBVIOUS
  <2>1. HookTypes /\ \A t \in Callers : 1 .. Len(doing[t]) = {}
    BY HookInitTypes
  <2>2. BufferInv
    BY <2>1 DEF BufferInv, Fed, Ready
  <2> QED
    BY <2>1, <2>2 DEF FileInv, HookInit, KernelServed
<1>2. FileInv /\ [HookNext]_hookvars => FileInv'
  BY FileStep
<1>3. FileInv => KernelServed
  BY DEF FileInv
<1> QED
  BY <1>1, <1>2, <1>3, PTL DEF HookSpec

------------------------------------------------------------------------------
(***************************************************************************)
(* Allocation.                                                             *)
(***************************************************************************)
NoWhich(s) == \A j \in 1 .. Len(s) : ~ (s[j][1] = "which" /\ s[j][2] = "program")

LoadsFrom(e, s) == \A j \in 1 .. Len(e) : e[j][1] \in {"load", "store"} => \E i \in 1 .. Len(s) : e[j] = s[i]

LEMMA CarryOn ==
  ASSUME NEW d \in Seq(Ops), d # <<>>, NEW s \in Seq(Ops), NEW e, e = s \o Tail(d)
  PROVE  /\ WhichLast(d) /\ NoWhich(s) => WhichLast(e)
         /\ Inside(d) /\ Inside(s) => Inside(e)
         /\ Inside(d) => LoadsFrom(e, s)
         /\ HasFound(d) /\ d[1][1] # "found" => HasFound(e)
         /\ HasFound(s) => HasFound(e)
         /\ \A a : GivesBack(d, a) /\ GivesBack(s, a) => GivesBack(e, a)
<1>1. /\ Len(d) \in Nat /\ Len(s) \in Nat /\ Len(e) \in Nat
      /\ \A j \in 1 .. Len(s) : j \in 1 .. Len(e) /\ e[j] = s[j]
      /\ \A m \in 2 .. Len(d) : (m - 1) + Len(s) \in 1 .. Len(e) /\ e[(m - 1) + Len(s)] = d[m]
      /\ \A j \in 1 .. Len(e) : \/ j \in 1 .. Len(s) /\ e[j] = s[j]
                                \/ (j - Len(s)) + 1 \in 2 .. Len(d) /\ e[j] = d[(j - Len(s)) + 1]
  BY Onward, SMTT(30)
<1>2. \A m \in 2 .. Len(d) : m \in 1 .. Len(d) /\ m # 1
  BY ONLY <1>1
<1>3. ASSUME WhichLast(d), NoWhich(s) PROVE WhichLast(e)
  <2>1. ASSUME NEW j \in 1 .. Len(e), e[j][1] = "which", e[j][2] = "program",
               NEW i \in 1 .. Len(e), e[i][1] = "found"
        PROVE  i < j
    <3>1. PICK m \in 2 .. Len(d) : m = (j - Len(s)) + 1 /\ e[j] = d[m]
      <4>1. ~ (j \in 1 .. Len(s) /\ e[j] = s[j])
        BY <1>3, <2>1 DEF NoWhich
      <4>2. (j - Len(s)) + 1 \in 2 .. Len(d) /\ e[j] = d[(j - Len(s)) + 1]
        BY <1>1, <4>1
      <4> QED
        BY <4>2
    <3>2. CASE i \in 1 .. Len(s)
      BY ONLY <1>1, <3>1, <3>2, j \in 1 .. Len(e)
    <3>3. CASE (i - Len(s)) + 1 \in 2 .. Len(d) /\ e[i] = d[(i - Len(s)) + 1]
      <4>1. PICK k \in 2 .. Len(d) : k = (i - Len(s)) + 1 /\ e[i] = d[k]
        BY <3>3
      <4>2. k < m
        BY <1>2, <1>3, <2>1, <3>1, <4>1 DEF WhichLast
      <4> QED
        BY ONLY <1>1, <3>1, <4>1, <4>2, i \in 1 .. Len(e), j \in 1 .. Len(e)
    <3> QED
      BY <1>1, <3>2, <3>3
  <2> QED
    BY <2>1 DEF WhichLast
<1>4. ASSUME Inside(d), NEW j \in 1 .. Len(e), e[j][1] \in {"load", "store"}
      PROVE  j \in 1 .. Len(s) /\ e[j] = s[j]
  BY <1>1, <1>2, <1>4 DEF Inside
<1>5. Inside(d) /\ Inside(s) => Inside(e)
  BY <1>4, SMTT(30) DEF Inside
<1>6. ASSUME HasFound(d), d[1][1] # "found" PROVE HasFound(e)
  <2>1. PICK m \in 1 .. Len(d) : d[m][1] = "found"
    BY <1>6 DEF HasFound
  <2>2. m # 1
    BY <1>6, <2>1
  <2>3. m \in 2 .. Len(d)
    BY ONLY <1>1, <2>2, m \in 1 .. Len(d)
  <2>4. PICK n \in 1 .. Len(e) : e[n] = d[m]
    BY <1>1, <2>3
  <2> QED
    BY <2>1, <2>4 DEF HasFound
<1>7. HasFound(s) => HasFound(e)
  BY <1>1 DEF HasFound
<1>8. \A a : GivesBack(d, a) /\ GivesBack(s, a) => GivesBack(e, a)
  <2>1. ASSUME NEW a, GivesBack(d, a), GivesBack(s, a), NEW j \in 1 .. Len(e), e[j][1] = "give back"
        PROVE  e[j][2].from = a
    <3>1. CASE j \in 1 .. Len(s) /\ e[j] = s[j]
      BY <2>1, <3>1 DEF GivesBack
    <3>2. CASE (j - Len(s)) + 1 \in 2 .. Len(d) /\ e[j] = d[(j - Len(s)) + 1]
      BY <1>2, <2>1, <3>2 DEF GivesBack
    <3> QED
      BY <1>1, <3>1, <3>2
  <2> QED
    BY <2>1 DEF GivesBack
<1>9. Inside(d) => LoadsFrom(e, s)
  BY <1>4 DEF LoadsFrom
<1> QED
  BY <1>3, <1>5, <1>6, <1>7, <1>8, <1>9

\* While calloc is looked up, one thread runs.
LEMMA OneRuns ==
  ASSUME HookTypes, LookupInv, NEW t \in Callers, doing[t] # <<>>, _libc_calloc # "libc"
  PROVE  /\ \A u \in Callers \ {t} : doing[u] = <<>> /\ 1 .. Len(doing[u]) = {}
         /\ _libc_calloc = "internal" => HasFound(doing[t])
<1>1. \A u \in Callers \ {t} : doing[u] = <<>>
  BY DEF LookupInv, HookTypes
<1>2. 1 .. Len(<<>>) = {}
  BY SMTT(30)
<1>3. _libc_calloc = "internal" => HasFound(doing[t])
  BY <1>1, <1>2 DEF LookupInv, HasFound
<1> QED
  BY <1>1, <1>2, <1>3

\* A step that finds and changes nothing of the lookup.
LEMMA AllocOn ==
  ASSUME HookTypes, LookupInv, InternalInv, PointerInv, NEW t \in Callers, doing[t] # <<>>,
         doing[t][1][1] # "found", NEW s \in Seq(Ops), Go(t, s), NoWhich(s), Inside(s),
         GivesBack(s, Allocator),
         \A j \in 1 .. Len(s) : s[j][1] \in {"load", "store"} => _libc_calloc = "internal",
         \A j \in 1 .. Len(s) : s[j][1] = "store" => loaded'[t] = internal_calloc_ptr,
         UNCHANGED <<_libc_calloc, resolved, internal_calloc_ptr, enabled, osvmm>>,
         \A u \in Callers \ {t} : loaded'[u] = loaded[u]
  PROVE  LookupInv' /\ InternalInv' /\ \A u \in Callers : GivesBack(doing'[u], Allocator')
<1>1. PICK d, e : d \in Seq(Ops) /\ d = doing[t] /\ e = s \o Tail(d)
  BY DEF HookTypes
<1>2. doing'[t] = e /\ \A u \in Callers \ {t} : doing'[u] = doing[u]
  BY <1>1, GoesOn
<1>3. WhichLast(d) /\ Inside(d) /\ GivesBack(d, Allocator)
  BY <1>1 DEF InternalInv, PointerInv
<1>a. d # <<>> /\ d[1][1] # "found"
  BY <1>1
<1>b. /\ WhichLast(d) => WhichLast(e)
      /\ Inside(d) => Inside(e) /\ LoadsFrom(e, s)
      /\ HasFound(d) => HasFound(e)
      /\ GivesBack(d, Allocator) => GivesBack(e, Allocator)
  BY <1>1, <1>a, CarryOn, ZenonT(40)
<1>4. WhichLast(e) /\ Inside(e) /\ GivesBack(e, Allocator)
  BY <1>3, <1>b
<1>5. LoadsFrom(e, s)
  BY <1>3, <1>b
<1>6. HasFound(d) => HasFound(e)
  BY <1>b
<1>7. Allocator' = Allocator
  BY DEF Allocator
<1>8. LookupInv'
  <2>1. _libc_calloc' = "internal" => \E u \in Callers : HasFound(doing'[u])
    BY <1>1, <1>2, <1>6 DEF LookupInv
  <2>2. ASSUME ~ resolved', NEW u \in Callers, NEW v \in Callers, doing'[u] # <<>>, doing'[v] # <<>>
        PROVE  u = v
    BY <1>2, <2>2 DEF LookupInv
  <2>3. resolved' <=> _libc_calloc' = "libc"
    BY DEF LookupInv
  <2> QED
    BY <2>1, <2>2, <2>3 DEF LookupInv
<1>9. InternalInv'
  <2>1. ASSUME NEW u \in Callers
        PROVE  /\ WhichLast(doing'[u]) /\ Inside(doing'[u])
               /\ \A j \in 1 .. Len(doing'[u]) : doing'[u][j][1] \in {"load", "store"} => _libc_calloc' = "internal"
               /\ \A j \in 1 .. Len(doing'[u]) : doing'[u][j][1] = "store" => loaded'[u] = internal_calloc_ptr'
    <3>1. CASE u = t
      BY <1>2, <1>4, <1>5, <3>1 DEF LoadsFrom
    <3>2. CASE u # t
      BY <1>2, <3>2 DEF InternalInv
    <3> QED
      BY <3>1, <3>2
  <2> QED
    BY <2>1 DEF InternalInv
<1>10. \A u \in Callers : GivesBack(doing'[u], Allocator')
  BY <1>2, <1>4, <1>7 DEF PointerInv
<1> QED
  BY <1>8, <1>9, <1>10

LEMMA EmptyStep ==
  /\ NoWhich(<<>>) /\ Inside(<<>>) /\ \A a : GivesBack(<<>>, a)
  /\ \A j \in 1 .. Len(<<>>) : FALSE
BY SMTT(30) DEF NoWhich, Inside, GivesBack

\* What the program leaves alone for the pointers to go back where they came from: it
\* keeps none across SBMA_init and SBMA_destroy, and has one thread until calloc is
\* found.
Settled == Usage \intersect {"kept", "early"} = {}

\* A step that only goes on.
LEMMA AllocPlain ==
  ASSUME AllocInv, NEW t \in Callers, doing[t] # <<>>, doing[t][1][1] # "found", Go(t, <<>>),
         UNCHANGED <<_libc_calloc, resolved, internal_calloc_ptr, enabled, osvmm, loaded>>
  PROVE  LookupInv' /\ InternalInv' /\ \A u \in Callers : GivesBack(doing'[u], Allocator')
BY Empty, EmptyStep, AllocOn DEF AllocInv

LEMMA PointersStay ==
  ASSUME AllocInv, ptrs' \subseteq ptrs,
         UNCHANGED <<internal_calloc_ptr, enabled, osvmm>>,
         \A u \in Callers : GivesBack(doing'[u], Allocator')
  PROVE  PointerInv'
<1>1. Allocator' = Allocator
  BY DEF Allocator
<1>2. PointerInv
  BY DEF AllocInv
<1>3. \A p \in ptrs' : p.from \in {"internal", Allocator'}
  BY <1>1, <1>2 DEF PointerInv
<1>4. \A p \in ptrs' : p.from = "internal" => p.by = "dlsym" /\ p.nr < internal_calloc_ptr'
  BY <1>2 DEF PointerInv
<1> QED
  BY <1>3, <1>4 DEF PointerInv

LEMMA StillRight == ASSUME RightAllocator, wrong' = wrong PROVE RightAllocator'
BY DEF RightAllocator, Matched, InternalOnlyFirst

LEMMA AllocDlsym ==
  ASSUME AllocInv, NEW t \in Callers, Dlsym(t)
  PROVE  LookupInv' /\ InternalInv' /\ PointerInv' /\ RightAllocator'
<1>1. doing[t] # <<>> /\ doing[t][1][1] # "found"
  BY Calling, SMTT(30) DEF AllocInv, Dlsym
<1>2. UNCHANGED <<_libc_calloc, resolved, internal_calloc_ptr, enabled, osvmm, loaded, ptrs, wrong>>
  BY DEF Dlsym, alloc
<1>3. CASE Go(t, <<>>)
  BY <1>1, <1>2, <1>3, AllocPlain, PointersStay, StillRight DEF AllocInv
<1>4. CASE Go(t, calloc("dlsym"))
  <2>1. /\ calloc("dlsym") \in Seq(Ops) /\ \A q : Giving(calloc("dlsym"), q)
    BY CallMalloc DEF Who, Giving, Without
  <2>2. \A j \in 1 .. Len(calloc("dlsym")) : calloc("dlsym")[j][1] \notin {"load", "store"}
    BY <2>1 DEF Giving, Without, NoPointer
  <2>3. NoWhich(calloc("dlsym")) /\ GivesBack(calloc("dlsym"), Allocator)
    <3>1. Op("init", "calloc") \in Ops /\ Op("which", "dlsym") \in Ops
      BY OpTypes DEF Who
    <3>2. PICK a \in Ops : a = Op("init", "calloc") /\ a[1] = "init" /\ a[2] = "calloc"
      BY <3>1, OpStep
    <3>3. PICK b \in Ops : b = Op("which", "dlsym") /\ b[1] = "which" /\ b[2] = "dlsym"
      BY <3>1, OpStep
    <3>4. PICK c : c = <<a>> \o <<b>>
      OBVIOUS
    <3>5. \A j \in 1 .. Len(<<a>>) : <<a>>[j] = a
      BY Single
    <3>6. \A j \in 1 .. Len(<<b>>) : <<b>>[j] = b
      BY Single
    <3>7. \A j \in 1 .. Len(c) : \/ j \in 1 .. Len(<<a>>) /\ c[j] = <<a>>[j]
                                 \/ j - Len(<<a>>) \in 1 .. Len(<<b>>) /\ c[j] = <<b>>[j - Len(<<a>>)]
      BY <3>4, Single, Join, SMTT(30)
    <3>8. \A j \in 1 .. Len(c) : c[j] = a \/ c[j] = b
      BY <3>5, <3>6, <3>7
    <3>9. NoWhich(c) /\ GivesBack(c, Allocator)
      BY <3>2, <3>3, <3>8 DEF NoWhich, GivesBack
    <3>10. c = calloc("dlsym")
      BY <3>2, <3>3, <3>4 DEF calloc, HOOK_INIT
    <3> QED
      BY <3>9, <3>10
  <2>4. PICK s \in Seq(Ops) : s = calloc("dlsym")
    BY <2>1
  <2>5. Inside(s) /\ \A j \in 1 .. Len(s) : s[j][1] \notin {"load", "store"}
    BY <2>2, <2>4 DEF Inside
  <2>6. LookupInv' /\ InternalInv' /\ \A u \in Callers : GivesBack(doing'[u], Allocator')
    BY <1>1, <1>2, <1>4, <2>3, <2>4, <2>5, AllocOn DEF AllocInv
  <2> QED
    BY <1>2, <2>6, PointersStay, StillRight DEF AllocInv
<1> QED
  BY <1>3, <1>4 DEF Dlsym

LEMMA Putting ==
  ASSUME NEW w \in {"load", "store", "take"}, NEW x \in Who
  PROVE  LET s == << Op(w, x) >>
         IN  /\ s \in Seq(Ops) /\ Len(s) = 1 /\ NoWhich(s) /\ \A a : GivesBack(s, a)
             /\ x = "dlsym" \/ w = "take" => Inside(s)
             /\ \A j \in 1 .. Len(s) : s[j][1] = w
<1>1. Op(w, x) \in Ops
  BY OpTypes
<1>2. PICK a \in Ops : a = Op(w, x) /\ a[1] = w /\ a[2] = x
  BY <1>1, OpStep
<1>3. PICK s : s = <<a>>
  OBVIOUS
<1>4. s \in Seq(Ops) /\ Len(s) = 1 /\ \A j \in 1 .. Len(s) : j = 1 /\ s[j] = a
  BY <1>3, Single
<1>5. /\ NoWhich(s) /\ \A b : GivesBack(s, b)
      /\ \A j \in 1 .. Len(s) : s[j][1] = w
  BY <1>2, <1>4 DEF NoWhich, GivesBack
<1>6. x = "dlsym" \/ w = "take" => Inside(s)
  BY <1>2, <1>4 DEF Inside
<1> QED
  BY <1>2, <1>3, <1>4, <1>5, <1>6

LEMMA AllocWhich ==
  ASSUME AllocInv, NEW t \in Callers, Which(t)
  PROVE  LookupInv' /\ InternalInv' /\ PointerInv' /\ RightAllocator'
<1>1. doing[t] # <<>> /\ doing[t][1][1] = "which" /\ Arg(t) \in Who
  BY CallingFor DEF AllocInv, Which
<1>2. UNCHANGED <<_libc_calloc, resolved, internal_calloc_ptr, enabled, osvmm, loaded, ptrs, wrong>>
  BY DEF Which, alloc
<1>3. PICK w \in {"load", "take"} : Go(t, << Op(w, Arg(t)) >>) /\ (w = "load" <=> _libc_calloc = "internal")
  BY DEF Which
<1>4. ASSUME w = "load" PROVE Arg(t) = "dlsym"
  <2>1. HasFound(doing[t])
    BY <1>1, <1>3, <1>4, OneRuns DEF AllocInv
  <2>2. PICK i \in 1 .. Len(doing[t]) : doing[t][i][1] = "found"
    BY <2>1 DEF HasFound
  <2>3. At(t, "which")
    BY DEF Which
  <2>4. 1 \in 1 .. Len(doing[t]) /\ Arg(t) = doing[t][1][2]
    BY <2>3, Calling DEF AllocInv
  <2>5. ~ (i < 1)
    BY ONLY i \in 1 .. Len(doing[t])
  <2>6. doing[t][1][2] # "program"
    BY <1>1, <2>2, <2>4, <2>5 DEF AllocInv, InternalInv, WhichLast
  <2> QED
    BY <1>1, <2>4, <2>6 DEF Who
<1>5. PICK x \in Who : x = Arg(t)
  BY <1>1
<1>6. PICK s : s = << Op(w, x) >>
  OBVIOUS
<1>7. /\ s \in Seq(Ops) /\ NoWhich(s) /\ Inside(s) /\ GivesBack(s, Allocator)
      /\ \A j \in 1 .. Len(s) : s[j][1] = w
  BY <1>4, <1>5, <1>6, Putting, SMTT(30)
<1>8. LookupInv' /\ InternalInv' /\ \A u \in Callers : GivesBack(doing'[u], Allocator')
  <2>1. doing[t][1][1] # "found"
    BY <1>1
  <2>2. \A j \in 1 .. Len(s) : s[j][1] \in {"load", "store"} => _libc_calloc = "internal"
    BY <1>3, <1>7
  <2>3. \A j \in 1 .. Len(s) : s[j][1] # "store"
    BY <1>3, <1>7
  <2> QED
    BY <1>1, <1>2, <1>3, <1>5, <1>6, <1>7, <2>1, <2>2, <2>3, AllocOn DEF AllocInv
<1> QED
  BY <1>2, <1>8, PointersStay, StillRight DEF AllocInv

LEMMA AllocInit ==
  ASSUME AllocInv, NEW t \in Callers, InitCalloc(t)
  PROVE  LookupInv' /\ InternalInv' /\ PointerInv' /\ RightAllocator'
<1>1. doing[t] # <<>> /\ doing[t][1][1] # "found"
  <2>1. At(t, "init") /\ HookTypes
    BY DEF AllocInv, InitCalloc
  <2>2. doing[t] # <<>> /\ doing[t][1][1] = "init"
    BY <2>1, Calling
  <2> QED
    BY <2>2
<1>2. UNCHANGED <<resolved, internal_calloc_ptr, enabled, osvmm, loaded, ptrs, wrong>>
  BY DEF InitCalloc
<1>3. CASE _libc_calloc # "NULL"
  <2>1. Go(t, <<>>) /\ _libc_calloc' = _libc_calloc
    BY <1>3 DEF InitCalloc
  <2> QED
    BY <1>1, <1>2, <2>1, AllocPlain, PointersStay, StillRight DEF AllocInv
<1>4. CASE _libc_calloc = "NULL"
  <2>1. /\ Go(t, << Op("dlsym", "calloc"), Op("found", "") >>) /\ _libc_calloc' = "internal"
    BY <1>4 DEF InitCalloc
  <2>2. Op("dlsym", "calloc") \in Ops /\ Op("found", "") \in Ops
    BY OpTypes
  <2>3. PICK a \in Ops : a = Op("dlsym", "calloc") /\ a[1] = "dlsym" /\ a[2] = "calloc"
    BY <2>2, OpStep
  <2>4. PICK b \in Ops : b = Op("found", "") /\ b[1] = "found" /\ b[2] = ""
    BY <2>2, OpStep
  <2>5. PICK s : s = <<a, b>>
    OBVIOUS
  <2>6. s \in Seq(Ops) /\ Len(s) = 2 /\ \A j \in 1 .. 2 : s[j] = IF j = 1 THEN a ELSE b
    BY <2>5, Double, SMTT(30)
  <2>7. NoWhich(s) /\ Inside(s) /\ GivesBack(s, Allocator)
    <3>1. \A j \in 1 .. Len(s) : s[j] = a \/ s[j] = b
      BY <2>6
    <3> QED
      BY <2>3, <2>4, <3>1 DEF NoWhich, Inside, GivesBack
  <2>8. HasFound(s)
    <3>1. 2 \in 1 .. Len(s) /\ s[2] = b
      BY <2>6, SMTT(30)
    <3> QED
      BY <2>4, <3>1 DEF HasFound
  <2>9. PICK d, e : d \in Seq(Ops) /\ d = doing[t] /\ e = s \o Tail(d)
    BY DEF AllocInv, HookTypes
  <2>10. doing'[t] = e
    BY <2>1, <2>3, <2>4, <2>5, <2>6, <2>9, <1>1, GoesOn DEF AllocInv
  <2>11. \A u \in Callers \ {t} : doing'[u] = doing[u] /\ doing[u] = <<>> /\ 1 .. Len(doing[u]) = {}
    <3>1. \A u \in Callers \ {t} : doing'[u] = doing[u]
      BY <2>1, <2>3, <2>4, <2>5, <2>6, <1>1, GoesOn DEF AllocInv
    <3>2. \A u \in Callers \ {t} : doing[u] = <<>> /\ 1 .. Len(doing[u]) = {}
      BY <1>1, <1>4, OneRuns DEF AllocInv
    <3> QED
      BY <3>1, <3>2
  <2>12. WhichLast(d) /\ Inside(d) /\ GivesBack(d, Allocator)
    BY <2>9 DEF AllocInv, InternalInv, PointerInv
  <2>13. WhichLast(e) /\ Inside(e) /\ GivesBack(e, Allocator) /\ HasFound(e) /\ LoadsFrom(e, s)
    <3>1. d # <<>> /\ s \in Seq(Ops)
      BY <1>1, <2>6, <2>9
    <3> QED
      BY <2>7, <2>8, <2>9, <2>12, <3>1, CarryOn
  <2>14. \A j \in 1 .. Len(e) : e[j][1] # "store"
    <3>1. \A j \in 1 .. Len(s) : s[j] = a \/ s[j] = b
      BY <2>6
    <3> QED
      BY <2>3, <2>4, <2>13, <3>1 DEF LoadsFrom
  <2>15. LookupInv'
    <3>1. ~ resolved /\ ~ resolved'
      BY <1>2, <1>4 DEF AllocInv, LookupInv
    <3>2. \A u, v \in Callers : doing'[u] # <<>> /\ doing'[v] # <<>> => u = v
      BY <2>11, SMTT(30)
    <3> QED
      BY <2>1, <2>10, <2>13, <3>1, <3>2 DEF LookupInv
  <2>16. InternalInv'
    <3>1. ASSUME NEW u \in Callers
          PROVE  /\ WhichLast(doing'[u]) /\ Inside(doing'[u])
                 /\ \A j \in 1 .. Len(doing'[u]) : doing'[u][j][1] # "store"
      BY <2>10, <2>11, <2>13, <2>14 DEF WhichLast, Inside
    <3> QED
      BY <2>1, <3>1 DEF InternalInv
  <2>17. Allocator' = Allocator
    BY <1>2 DEF Allocator
  <2>18. \A u \in Callers : GivesBack(doing'[u], Allocator')
    BY <2>10, <2>11, <2>13, <2>17 DEF GivesBack
  <2> QED
    BY <1>2, <2>15, <2>16, <2>18, PointersStay, StillRight DEF AllocInv
<1> QED
  BY <1>3, <1>4

LEMMA AllocFound ==
  ASSUME AllocInv, NEW t \in Callers, Found(t)
  PROVE  LookupInv' /\ InternalInv' /\ PointerInv' /\ RightAllocator'
<1>1. doing[t] # <<>> /\ doing[t][1][1] = "found" /\ Go(t, <<>>)
  BY Calling DEF AllocInv, Found
<1>2. /\ _libc_calloc' = "libc" /\ resolved' = TRUE
      /\ UNCHANGED <<internal_calloc_ptr, enabled, osvmm, loaded, ptrs, wrong>>
  BY DEF Found
<1>3. PICK s : s = <<>>
  OBVIOUS
<1>4. PICK d, e : d \in Seq(Ops) /\ d = doing[t] /\ e = s \o Tail(d)
  BY DEF AllocInv, HookTypes
<1>5. s \in Seq(Ops) /\ NoWhich(s) /\ Inside(s) /\ \A a : GivesBack(s, a)
  BY <1>3, Empty, EmptyStep
<1>6. doing'[t] = e /\ \A u \in Callers \ {t} : doing'[u] = doing[u]
  BY <1>1, <1>3, <1>4, <1>5, GoesOn DEF AllocInv
<1>7. WhichLast(d) /\ Inside(d) /\ GivesBack(d, Allocator)
  BY <1>4 DEF AllocInv, InternalInv, PointerInv
<1>8. WhichLast(e) /\ Inside(e) /\ GivesBack(e, Allocator) /\ LoadsFrom(e, s)
  BY <1>1, <1>4, <1>5, <1>7, CarryOn
<1>9. \A j \in 1 .. Len(e) : e[j][1] \notin {"load", "store"}
  BY <1>3, <1>8, EmptyStep DEF LoadsFrom
<1>10. ASSUME NEW u \in Callers \ {t} PROVE \A j \in 1 .. Len(doing[u]) : doing[u][j][1] \notin {"load", "store"}
  <2>1. CASE _libc_calloc = "libc"
    BY <2>1 DEF AllocInv, InternalInv
  <2>2. CASE _libc_calloc # "libc"
    BY <1>1, <2>2, OneRuns DEF AllocInv
  <2> QED
    BY <2>1, <2>2
<1>11. InternalInv'
  <2>1. ASSUME NEW u \in Callers
        PROVE  /\ WhichLast(doing'[u]) /\ Inside(doing'[u])
               /\ \A j \in 1 .. Len(doing'[u]) : doing'[u][j][1] \notin {"load", "store"}
    <3>1. CASE u = t
      BY <1>6, <1>8, <1>9, <3>1
    <3>2. CASE u # t
      BY <1>6, <1>10, <3>2 DEF AllocInv, InternalInv
    <3> QED
      BY <3>1, <3>2
  <2> QED
    BY <2>1 DEF InternalInv
<1>12. LookupInv'
  BY <1>2 DEF LookupInv
<1>13. \A u \in Callers : GivesBack(doing'[u], Allocator')
  <2>1. Allocator' = Allocator
    BY <1>2 DEF Allocator
  <2> QED
    BY <1>6, <1>8, <2>1 DEF AllocInv, PointerInv
<1> QED
  BY <1>2, <1>11, <1>12, <1>13, PointersStay, StillRight DEF AllocInv

\* A thread in internal_calloc runs alone.
LEMMA InInternal ==
  ASSUME AllocInv, NEW t \in Callers, NEW w \in {"load", "store"}, At(t, w)
  PROVE  /\ _libc_calloc = "internal" /\ ~ resolved /\ Arg(t) = "dlsym"
         /\ w = "store" => loaded[t] = internal_calloc_ptr
         /\ \A u \in Callers \ {t} : doing[u] = <<>> /\ 1 .. Len(doing[u]) = {}
<1>1. 1 \in 1 .. Len(doing[t]) /\ doing[t][1][1] = w /\ Arg(t) = doing[t][1][2] /\ doing[t] # <<>>
  BY Calling DEF AllocInv
<1>2. _libc_calloc = "internal" /\ Arg(t) = "dlsym"
  BY <1>1 DEF AllocInv, InternalInv, Inside
<1>3. w = "store" => loaded[t] = internal_calloc_ptr
  BY <1>1 DEF AllocInv, InternalInv
<1>4. ~ resolved
  BY <1>2 DEF AllocInv, LookupInv
<1>5. \A u \in Callers \ {t} : doing[u] = <<>> /\ 1 .. Len(doing[u]) = {}
  BY <1>1, <1>2, OneRuns DEF AllocInv
<1> QED
  BY <1>2, <1>3, <1>4, <1>5

LEMMA AllocLoad ==
  ASSUME AllocInv, NEW t \in Callers, InternalLoad(t)
  PROVE  LookupInv' /\ InternalInv' /\ PointerInv' /\ RightAllocator'
<1>1. At(t, "load")
  BY DEF InternalLoad
<1>2. _libc_calloc = "internal" /\ ~ resolved /\ Arg(t) = "dlsym"
  BY <1>1, InInternal
<1>3. doing[t] # <<>> /\ doing[t][1][1] = "load"
  BY <1>1, Calling DEF AllocInv
<1>4. /\ UNCHANGED <<_libc_calloc, resolved, internal_calloc_ptr, enabled, osvmm, ptrs>> /\ wrong' = wrong
      /\ loaded'[t] = internal_calloc_ptr /\ \A u \in Callers \ {t} : loaded'[u] = loaded[u]
  BY <1>2 DEF InternalLoad, AllocInv, HookTypes
<1>5. PICK s \in Seq(Ops) : Go(t, s) /\ NoWhich(s) /\ Inside(s) /\ GivesBack(s, Allocator)
  <2>1. CASE Go(t, <<>>)
    BY <2>1, Empty, EmptyStep
  <2>2. CASE Go(t, << Op("store", Arg(t)) >>)
    <3>1. PICK x \in Who : x = Arg(t)
      BY <1>2 DEF Who
    <3> QED
      BY <1>2, <2>2, <3>1, Putting
  <2> QED
    BY <2>1, <2>2 DEF InternalLoad
<1>6. LookupInv' /\ InternalInv' /\ \A u \in Callers : GivesBack(doing'[u], Allocator')
  <2>1. doing[t][1][1] # "found"
    BY <1>3
  <2> QED
    BY <1>2, <1>3, <1>4, <1>5, <2>1, AllocOn DEF AllocInv
<1> QED
  BY <1>4, <1>6, PointersStay, StillRight DEF AllocInv

LEMMA AllocStore ==
  ASSUME AllocInv, NEW t \in Callers, InternalStore(t)
  PROVE  LookupInv' /\ InternalInv' /\ PointerInv' /\ RightAllocator'
<1>1. At(t, "store")
  BY DEF InternalStore
<1>2. /\ _libc_calloc = "internal" /\ ~ resolved /\ Arg(t) = "dlsym" /\ loaded[t] = internal_calloc_ptr
      /\ \A u \in Callers \ {t} : doing[u] = <<>> /\ 1 .. Len(doing[u]) = {}
  BY <1>1, InInternal
<1>3. doing[t] # <<>> /\ doing[t][1][1] = "store" /\ Go(t, <<>>)
  BY <1>1, Calling DEF AllocInv, InternalStore
<1>4. internal_calloc_ptr \in Nat /\ internal_calloc_ptr' = internal_calloc_ptr + 1
  BY <1>2 DEF InternalStore, AllocInv, HookTypes
<1>5. /\ UNCHANGED <<_libc_calloc, resolved, enabled, osvmm, loaded>>
      /\ ptrs' = ptrs \union {[from |-> "internal", nr |-> internal_calloc_ptr, by |-> "dlsym"]}
  BY <1>2 DEF InternalStore
<1>6. RightAllocator'
  <2>1. ASSUME NEW q \in ptrs, q.from = "internal" PROVE q.nr # loaded[t]
    <3>1. q.nr < internal_calloc_ptr
      BY <2>1 DEF AllocInv, PointerInv
    <3>2. q.nr \in Nat
      BY DEF AllocInv, HookTypes, Pointers
    <3> QED
      BY <1>2, <1>4, <3>1, <3>2, SMTT(30)
  <2>2. wrong' = wrong
    BY <2>1 DEF InternalStore
  <2> QED
    BY <2>2, StillRight DEF AllocInv
<1>7. PICK s : s = <<>>
  OBVIOUS
<1>8. PICK d, e : d \in Seq(Ops) /\ d = doing[t] /\ e = s \o Tail(d)
  BY DEF AllocInv, HookTypes
<1>9. s \in Seq(Ops) /\ NoWhich(s) /\ Inside(s) /\ \A a : GivesBack(s, a)
  BY <1>7, Empty, EmptyStep
<1>10. doing'[t] = e /\ \A u \in Callers \ {t} : doing'[u] = doing[u]
  BY <1>3, <1>7, <1>8, <1>9, GoesOn DEF AllocInv
<1>11. WhichLast(d) /\ Inside(d) /\ GivesBack(d, Allocator) /\ HasFound(d)
  BY <1>2, <1>3, <1>8, OneRuns DEF AllocInv, InternalInv, PointerInv
<1>12. WhichLast(e) /\ Inside(e) /\ GivesBack(e, Allocator) /\ LoadsFrom(e, s) /\ HasFound(e)
  <2>1. d[1][1] # "found"
    BY <1>3, <1>8
  <2> QED
    BY <1>3, <1>8, <1>9, <1>11, <2>1, CarryOn
<1>13. \A j \in 1 .. Len(e) : e[j][1] \notin {"load", "store"}
  BY <1>7, <1>12, EmptyStep DEF LoadsFrom
<1>14. InternalInv'
  <2>1. ASSUME NEW u \in Callers
        PROVE  /\ WhichLast(doing'[u]) /\ Inside(doing'[u])
               /\ \A j \in 1 .. Len(doing'[u]) : doing'[u][j][1] \notin {"load", "store"}
    <3>1. CASE u = t
      BY <1>10, <1>12, <1>13, <3>1
    <3>2. CASE u # t
      BY <1>2, <1>10, <3>2 DEF WhichLast, Inside
    <3> QED
      BY <3>1, <3>2
  <2> QED
    BY <2>1 DEF InternalInv
<1>15. LookupInv'
  <2>1. \A u, v \in Callers : doing'[u] # <<>> /\ doing'[v] # <<>> => u = v
    BY <1>2, <1>10
  <2> QED
    BY <1>2, <1>5, <1>10, <1>12, <2>1 DEF LookupInv
<1>16. PointerInv'
  <2>1. Allocator' = Allocator
    BY <1>5 DEF Allocator
  <2>2. \A u \in Callers : GivesBack(doing'[u], Allocator')
    BY <1>10, <1>12, <2>1 DEF AllocInv, PointerInv
  <2>3. \A p \in ptrs' : p.from \in {"internal", Allocator'}
    BY <1>5, <2>1, SMTT(30) DEF AllocInv, PointerInv
  <2>4. ASSUME NEW p \in ptrs', p.from = "internal" PROVE p.by = "dlsym" /\ p.nr < internal_calloc_ptr'
    <3>1. CASE p \in ptrs
      <4>1. p.by = "dlsym" /\ p.nr < internal_calloc_ptr
        BY <2>4, <3>1 DEF AllocInv, PointerInv
      <4>2. p.nr \in Nat
        BY <3>1 DEF AllocInv, HookTypes, Pointers
      <4>3. p.nr < internal_calloc_ptr'
        BY ONLY <1>4, <4>1, <4>2
      <4> QED
        BY <4>1, <4>3
    <3>2. CASE p = [from |-> "internal", nr |-> internal_calloc_ptr, by |-> "dlsym"]
      BY <1>4, <3>2, SMTT(30)
    <3> QED
      BY <1>5, <3>1, <3>2
  <2> QED
    BY <2>2, <2>3, <2>4 DEF PointerInv
<1> QED
  BY <1>6, <1>14, <1>15, <1>16

LEMMA AllocTake ==
  ASSUME AllocInv, NEW t \in Callers, Take(t)
  PROVE  LookupInv' /\ InternalInv' /\ PointerInv' /\ RightAllocator'
<1>1. At(t, "take") /\ HookTypes /\ Go(t, <<>>)
  BY DEF AllocInv, Take
<1>2. doing[t] # <<>> /\ doing[t][1][1] = "take"
  BY <1>1, Calling
<1>3. UNCHANGED <<_libc_calloc, resolved, internal_calloc_ptr, enabled, osvmm, loaded, wrong>>
  BY DEF Take
<1>4. LookupInv' /\ InternalInv' /\ \A u \in Callers : GivesBack(doing'[u], Allocator')
  <2>1. doing[t][1][1] # "found"
    BY <1>2
  <2> QED
    BY <1>1, <1>2, <1>3, <2>1, AllocPlain
<1>5. PICK p : p.from = Allocator /\ ptrs' = ptrs \union {p}
  BY DEF Take
<1>6. Allocator' = Allocator /\ Allocator # "internal"
  BY <1>3 DEF Allocator
<1>7. \A q \in ptrs' : q.from \in {"internal", Allocator'}
  BY <1>5, <1>6 DEF AllocInv, PointerInv
<1>8. \A q \in ptrs' : q.from = "internal" => q.by = "dlsym" /\ q.nr < internal_calloc_ptr'
  BY <1>3, <1>5, <1>6 DEF AllocInv, PointerInv
<1>9. PointerInv'
  BY <1>4, <1>7, <1>8 DEF PointerInv
<1> QED
  BY <1>3, <1>4, <1>9, StillRight DEF AllocInv

LEMMA AllocGiveBack ==
  ASSUME AllocInv, NEW t \in Callers, GiveBack(t)
  PROVE  LookupInv' /\ InternalInv' /\ PointerInv' /\ RightAllocator'
<1>1. At(t, "give back") /\ HookTypes /\ Go(t, <<>>)
  BY DEF AllocInv, GiveBack
<1>2. doing[t] # <<>> /\ doing[t][1][1] = "give back" /\ Arg(t) = doing[t][1][2] /\ 1 \in 1 .. Len(doing[t])
  BY <1>1, Calling
<1>3. UNCHANGED <<_libc_calloc, resolved, internal_calloc_ptr, enabled, osvmm, loaded, ptrs>>
  BY DEF GiveBack, alloc
<1>4. Arg(t).from = Allocator
  BY <1>2 DEF AllocInv, PointerInv, GivesBack
<1>5. wrong' = wrong
  BY <1>4 DEF GiveBack
<1>6. LookupInv' /\ InternalInv' /\ \A u \in Callers : GivesBack(doing'[u], Allocator')
  <2>1. doing[t][1][1] # "found"
    BY <1>2
  <2> QED
    BY <1>1, <1>2, <1>3, <2>1, AllocPlain
<1> QED
  BY <1>3, <1>5, <1>6, PointersStay, StillRight DEF AllocInv

\* A call that begins.
LEMMA AllocBegins ==
  ASSUME Settled, AllocInv, NEW t \in Callers, MayCall(t), NEW c \in Seq(Ops),
         doing' = [doing EXCEPT ![t] = c], Without(c, {"found", "load", "store"}),
         GivesBack(c, Allocator),
         UNCHANGED <<_libc_calloc, resolved, internal_calloc_ptr, enabled, osvmm, loaded>>
  PROVE  LookupInv' /\ InternalInv' /\ \A u \in Callers : GivesBack(doing'[u], Allocator')
<1>1. doing'[t] = c /\ \A u \in Callers \ {t} : doing'[u] = doing[u]
  BY Begins DEF AllocInv
<1>2. ~ resolved => \A u \in Callers : doing[u] = <<>>
  BY DEF MayCall, Settled
<1>3. _libc_calloc # "internal"
  <2>1. SUFFICES ASSUME _libc_calloc = "internal" PROVE FALSE
    OBVIOUS
  <2>2. ~ resolved /\ \E u \in Callers : HasFound(doing[u])
    BY <2>1 DEF AllocInv, LookupInv
  <2>3. PICK u \in Callers : HasFound(doing[u])
    BY <2>2
  <2>4. doing[u] = <<>>
    BY <1>2, <2>2
  <2>5. \A j \in 1 .. Len(<<>>) : FALSE
    BY EmptyStep
  <2> QED
    BY <2>3, <2>4, <2>5 DEF HasFound
<1>4. WhichLast(c) /\ Inside(c) /\ \A j \in 1 .. Len(c) : c[j][1] \notin {"load", "store"}
  BY DEF Without, WhichLast, Inside
<1>5. LookupInv'
  <2>1. ASSUME ~ resolved', NEW u \in Callers, NEW v \in Callers, doing'[u] # <<>>, doing'[v] # <<>>
        PROVE  u = v
    BY <1>1, <1>2, <2>1
  <2> QED
    BY <1>3, <2>1 DEF AllocInv, LookupInv
<1>6. InternalInv'
  <2>1. ASSUME NEW u \in Callers
        PROVE  /\ WhichLast(doing'[u]) /\ Inside(doing'[u])
               /\ \A j \in 1 .. Len(doing'[u]) : doing'[u][j][1] \in {"load", "store"} => _libc_calloc' = "internal"
               /\ \A j \in 1 .. Len(doing'[u]) : doing'[u][j][1] = "store" => loaded'[u] = internal_calloc_ptr'
    <3>1. CASE u = t
      BY <1>1, <1>4, <3>1
    <3>2. CASE u # t
      BY <1>1, <3>2 DEF AllocInv, InternalInv
    <3> QED
      BY <3>1, <3>2
  <2> QED
    BY <2>1 DEF InternalInv
<1>7. Allocator' = Allocator
  BY DEF Allocator
<1>8. \A u \in Callers : GivesBack(doing'[u], Allocator')
  BY <1>1, <1>7 DEF AllocInv, PointerInv
<1> QED
  BY <1>5, <1>6, <1>8

LEMMA AllocStep ==
  ASSUME Settled, AllocInv, [HookNext]_hookvars
  PROVE  AllocInv'
<1> DEFINE G == LookupInv' /\ InternalInv' /\ PointerInv' /\ RightAllocator'
<1>1. HookTypes /\ LookupInv /\ InternalInv /\ PointerInv /\ RightAllocator /\ HookTypes'
  BY HookTypesStep DEF AllocInv
<1>2. ASSUME NEW t \in Callers, InternalStep(t) PROVE G
  BY <1>2, AllocInit, AllocDlsym, AllocFound, AllocWhich, AllocLoad, AllocStore, AllocTake, AllocGiveBack DEF
    InternalStep
<1>3. ASSUME NEW t \in Callers, CallAlloc(t) PROVE G
  <2>1. /\ MayCall(t) /\ ptrs' \subseteq ptrs
        /\ UNCHANGED <<_libc_calloc, resolved, internal_calloc_ptr, enabled, osvmm, loaded, wrong>>
    BY <1>1, <1>3, CallAllocTypes DEF CallAlloc
  <2>2. PICK p : \/ \E c : doing' = [doing EXCEPT ![t] = c] /\ \A q : Giving(c, q)
                 \/ /\ p \in ptrs /\ (p.from # "internal" \/ p.by = "program")
                    /\ \E c : doing' = [doing EXCEPT ![t] = c] /\ Giving(c, p)
    BY <1>1, <1>3, CallAllocTypes
  <2>3. PICK c : doing' = [doing EXCEPT ![t] = c] /\ Without(c, NoPointer) /\ GivesBack(c, Allocator)
    <3>1. CASE \E c : doing' = [doing EXCEPT ![t] = c] /\ \A q : Giving(c, q)
      <4>1. PICK c : doing' = [doing EXCEPT ![t] = c] /\ \A q : Giving(c, q)
        BY <3>1
      <4>2. ASSUME NEW j \in 1 .. Len(c), c[j][1] = "give back" PROVE FALSE
        <5>1. c[j][2] = 0 /\ c[j][2] = 1
          BY <4>1, <4>2 DEF Giving
        <5> QED
          BY <5>1, SMTT(30)
      <4> QED
        BY <4>1, <4>2 DEF Giving, GivesBack
    <3>2. CASE /\ p \in ptrs /\ (p.from # "internal" \/ p.by = "program")
               /\ \E c : doing' = [doing EXCEPT ![t] = c] /\ Giving(c, p)
      <4>1. p.from = Allocator
        BY <1>1, <3>2 DEF PointerInv
      <4> QED
        BY <3>2, <4>1 DEF Giving, GivesBack
    <3> QED
      BY <2>2, <3>1, <3>2
  <2>4. c \in Seq(Ops) /\ Without(c, {"found", "load", "store"})
    BY <2>3 DEF Without, NoPointer
  <2>5. LookupInv' /\ InternalInv' /\ \A u \in Callers : GivesBack(doing'[u], Allocator')
    BY <2>1, <2>3, <2>4, AllocBegins
  <2> QED
    BY <1>1, <2>1, <2>5, PointersStay, StillRight
<1>4. ASSUME NEW t \in Callers, CallFile(t) PROVE G
  <2>1. /\ MayCall(t)
        /\ UNCHANGED <<_libc_calloc, resolved, internal_calloc_ptr, enabled, osvmm, loaded, ptrs, wrong>>
    BY <1>4 DEF CallFile, alloc
  <2>2. PICK c : doing' = [doing EXCEPT ![t] = c] /\ Clean(c)
    BY <1>1, <1>4, CallFileTypes
  <2>3. c \in Seq(Ops) /\ Without(c, {"found", "load", "store"}) /\ GivesBack(c, Allocator)
    BY <2>2 DEF Clean, Without, AllocSteps, GivesBack
  <2>4. LookupInv' /\ InternalInv' /\ \A u \in Callers : GivesBack(doing'[u], Allocator')
    BY <2>1, <2>2, <2>3, AllocBegins
  <2> QED
    BY <1>1, <2>1, <2>4, PointersStay, StillRight
<1>5. ASSUME NEW t \in Callers, Switch(t) PROVE G
  <2>1. /\ \A p \in ptrs : p.from = "internal"
        /\ \A u \in Callers : doing[u] = <<>>
        /\ UNCHANGED <<_libc_calloc, resolved, internal_calloc_ptr, loaded, ptrs, doing, wrong>>
    BY <1>5 DEF Switch, Settled
  <2>2. LookupInv' /\ InternalInv'
    BY <1>1, <2>1 DEF LookupInv, InternalInv
  <2>3. \A u \in Callers : GivesBack(doing'[u], Allocator')
    BY <2>1, EmptyStep
  <2>4. \A p \in ptrs' : p.from \in {"internal", Allocator'}
    BY <2>1
  <2>5. \A p \in ptrs' : p.from = "internal" => p.by = "dlsym" /\ p.nr < internal_calloc_ptr'
    BY <1>1, <2>1 DEF PointerInv
  <2>6. PointerInv'
    BY <2>3, <2>4, <2>5 DEF PointerInv
  <2> QED
    BY <1>1, <2>1, <2>2, <2>6, StillRight
<1>6. ASSUME NEW t \in Callers, UserStep(t) PROVE G
  <2>1. PICK w \in {"touch", "memset", "evict"} : At(t, w)
    BY <1>6 DEF UserStep
  <2>2. doing[t] # <<>> /\ doing[t][1][1] # "found"
    BY <1>1, <2>1, Calling
  <2>3. /\ Go(t, <<>>)
        /\ UNCHANGED <<_libc_calloc, resolved, internal_calloc_ptr, enabled, osvmm, loaded, ptrs, wrong>>
    BY <1>6 DEF UserStep, alloc
  <2>4. LookupInv' /\ InternalInv' /\ \A u \in Callers : GivesBack(doing'[u], Allocator')
    BY <2>2, <2>3, AllocPlain
  <2> QED
    BY <1>1, <2>3, <2>4, PointersStay, StillRight
<1>7. ASSUME NEW t \in Callers, Kernel(t) PROVE G
  <2>1. PICK w \in {"kernel reads", "kernel writes"} : At(t, w)
    BY <1>7 DEF Kernel
  <2>2. doing[t] # <<>> /\ doing[t][1][1] # "found"
    BY <1>1, <2>1, Calling
  <2>3. /\ Go(t, <<>>)
        /\ UNCHANGED <<_libc_calloc, resolved, internal_calloc_ptr, enabled, osvmm, loaded, ptrs>>
    BY <1>7 DEF Kernel, alloc
  <2>4. LookupInv' /\ InternalInv' /\ \A u \in Callers : GivesBack(doing'[u], Allocator')
    BY <2>2, <2>3, AllocPlain
  <2>5. \A x \in wrong' : x \in wrong \/ x \in {"EFAULT", "EFAULT on a bare page"}
    <3>1. \A x \in wrong' : x \in wrong \/ \E y \in Arg(t) : x = Efault(t, y)
      BY <1>7 DEF Kernel
    <3>2. \A y \in Arg(t) : Efault(t, y) \in {"EFAULT", "EFAULT on a bare page"}
      BY DEF Efault
    <3> QED
      BY <3>1, <3>2
  <2>6. RightAllocator'
    BY <1>1, <2>5 DEF RightAllocator, Matched, InternalOnlyFirst
  <2> QED
    BY <2>3, <2>4, <2>6, PointersStay
<1>8. CASE Sigipc \/ UNCHANGED hookvars
  <2>1. UNCHANGED <<_libc_calloc, resolved, internal_calloc_ptr, enabled, osvmm, loaded, ptrs, doing, wrong>>
    BY <1>8 DEF Sigipc, hookvars, alloc
  <2>2. LookupInv' /\ InternalInv'
    BY <1>1, <2>1 DEF LookupInv, InternalInv
  <2>3. PointerInv'
    BY <1>1, <2>1 DEF PointerInv, Allocator
  <2> QED
    BY <1>1, <2>1, <2>2, <2>3, StillRight DEF AllocInv
<1> QED
  BY <1>1, <1>2, <1>3, <1>4, <1>5, <1>6, <1>7, <1>8 DEF HookNext, InHook, AllocNext, FileNext, InternalStep, AllocInv

\* Every pointer comes from the allocator meant to serve the call and goes back to it,
\* and internal_calloc serves only the dlsym that looks calloc up, without overlap
\* (calloc, free and internal_calloc of api/hooks.c).  AllocInv says that one thread
\* runs until calloc is found, that it does not leave the lookup before, and where
\* every pointer held or about to be given back came from.
THEOREM AllocatorsAreRight ==
  ASSUME Settled
  PROVE  HookSpec => []RightAllocator
<1>1. HookInit => AllocInv
  <2> SUFFICES ASSUME HookInit PROVE AllocInv
    OBVIOUS
  <2>1. HookTypes /\ \A t \in Callers : 1 .. Len(doing[t]) = {}
    BY HookInitTypes
  <2>2. LookupInv /\ InternalInv
    BY <2>1, SMTT(30) DEF HookInit, LookupInv, InternalInv, WhichLast, Inside
  <2>3. PointerInv
    BY <2>1 DEF HookInit, PointerInv, GivesBack
  <2>4. RightAllocator
    BY DEF HookInit, RightAllocator, Matched, InternalOnlyFirst
  <2> QED
    BY <2>1, <2>2, <2>3, <2>4 DEF AllocInv
<1>2. AllocInv /\ [HookNext]_hookvars => AllocInv'
  BY AllocStep
<1>3. AllocInv => RightAllocator
  BY DEF AllocInv
<1> QED
  BY <1>1, <1>2, <1>3, PTL DEF HookSpec

==============================================================================
