---------------------------- MODULE ProcessProofs ----------------------------
(***************************************************************************)
(* The threads of a process, for any number of threads and of allocations: *)
(* mmu_lookup_ate is right, and a circle of threads that wait for locks    *)
(* has one of two causes.                                                  *)
(***************************************************************************)
EXTENDS MmuThreads, TLAPS

------------------------------------------------------------------------------
(***************************************************************************)
(* What the rest of a call looks like: of each of its steps, what may come *)
(* after it.                                                               *)
(***************************************************************************)
MmuSteps ==
  ({"get", "let"} \X Locks) \union ({"first", "search", "insert", "remove", "munmap"} \X Ates)
    \union ({"walk", "more"} \X {"all"})

Rests == Seq(MmuSteps)
StepsOf(s) == {s[k] : k \in 1 .. Len(s)}

\* Is lock l held when s is left to do: is the next step about it its release?
Held(s, l) ==
  \E k \in 1 .. Len(s) : s[k] = Do("let", l) /\ \A i \in 1 .. k - 1 : s[i] # Do("get", l)

\* The rest of mmu_lookup_ate once the search for a is over.
Starts(s, x) == s # <<>> /\ Head(s) = x
Searched(s, a) == Starts(s, Do("get", a)) /\ Starts(Tail(s), Do("let", "mmu"))

\* sbma_mtouchall, which keeps all entries locked and gives back locks it may not
\* hold, is left out of the proofs.
NoTouchAll == "mtouchall" \notin Calls

\* The locks under which a thread that makes these calls takes others.
Nesting(calls) ==
  { e \in Locks \X Locks :
      \/ /\ calls \intersect {"mexist", "mtouch", "read fault", "write fault", "atomic"} # {}
         /\ e[1] = "mmu" /\ e[2] \in Ates
      \/ "read fault" \in calls /\ e[1] \in Ates /\ e[2] = "vmm"
      \/ "mevictall" \in calls /\ e[1] = "vmm" /\ e[2] \in Ates
      \/ "atomic" \in calls /\ e[1] \in Ates /\ (e[2] = "mmu" \/ e[2] \in Ates) }

\* x may be followed by s: locks are taken and given back in turn, the list is
\* used with mmu.lock held, mmu_lookup_ate takes the entry it searched for,
\* sbma_malloc and sbma_free insert, remove and unmap once and in this order,
\* a walk over all entries is followed by no step on an entry, and locks are
\* nested as in N.
Fit(x, s, N) ==
  /\ x[1] = "get" => Held(s, x[2]) /\ \A m \in Locks \ {x[2]} : Held(s, m) => <<m, x[2]>> \in N
  /\ x[1] \in {"walk", "more"} => \A m \in Locks, a \in Ates : Held(s, m) => <<m, a>> \in N
  /\ x[1] = "let" => ~ Held(s, x[2])
  /\ x[1] \in {"first", "search", "insert", "remove"} => Held(s, "mmu")
  /\ \A a \in Ates : Searched(s, a) => x \in {Do("first", a), Do("search", a)}
  /\ x[1] = "munmap" => s = <<>>
  /\ x[1] = "remove" => Do("munmap", x[2]) \in StepsOf(s)
  /\ \A y \in StepsOf(s) :
       /\ x[1] \in {"insert", "remove"} => y[1] # x[1]
       /\ x[1] \in {"walk", "more"} => y[2] \notin Ates
       /\ y[1] = "more" => x[1] \in {"get", "let"}
       /\ y[1] # "search"

WellFormed(s, N) == \A j \in 1 .. Len(s) : Fit(s[j], SubSeq(s, j + 1, Len(s)), N)

------------------------------------------------------------------------------
\* The prover of the steps that name no other.
USE ZenonT(60)

\* Sequences that agree everywhere are one.
LEMMA SameSteps ==
  ASSUME NEW s \in Rests, NEW u \in Rests, Len(s) = Len(u), \A i \in 1 .. Len(s) : s[i] = u[i]
  PROVE  s = u
  BY SMTT(30) DEF Rests

\* A sequence in front of which x is put, and taken away again.
LEMMA Cons ==
  ASSUME NEW x \in MmuSteps, NEW u \in Rests
  PROVE  /\ <<x>> \o u \in Rests /\ <<x>> \o u # <<>>
         /\ Len(<<x>> \o u) = Len(u) + 1
         /\ (<<x>> \o u)[1] = x
         /\ \A i \in 1 .. Len(u) : (<<x>> \o u)[i + 1] = u[i]
         /\ Head(<<x>> \o u) = x /\ Tail(<<x>> \o u) = u
<1> DEFINE s == <<x>> \o u
<1>1. <<x>> \in Seq(MmuSteps) /\ Len(<<x>>) = 1 /\ <<x>>[1] = x
  BY SMTT(30)
<1>2. /\ s \in Seq(MmuSteps) /\ Len(s) = 1 + Len(u)
      /\ \A i \in 1 .. 1 + Len(u) : s[i] = IF i <= 1 THEN <<x>>[i] ELSE u[i - 1]
  BY <1>1, SMTT(30) DEF Rests
<1> HIDE DEF s
<1>3. Len(u) \in Nat
  BY SMTT(30) DEF Rests
<1>4. s # <<>>
  BY <1>2, <1>3, SMTT(30)
<1>5. s[1] = x /\ \A i \in 1 .. Len(u) : s[i + 1] = u[i]
  BY <1>1, <1>2, <1>3, SMTT(30)
<1>6. /\ Tail(s) \in Seq(MmuSteps) /\ Len(Tail(s)) = Len(s) - 1
      /\ \A i \in 1 .. Len(Tail(s)) : Tail(s)[i] = s[i + 1]
  BY <1>2, <1>4, SMTT(30)
<1>7. Tail(s) = u
  <2>1. Len(Tail(s)) = Len(u) /\ \A i \in 1 .. Len(Tail(s)) : Tail(s)[i] = u[i]
    BY <1>2, <1>3, <1>5, <1>6, SMTT(30)
  <2> QED
    BY <1>6, <2>1, SMTT(30) DEF Rests
<1>8. Head(s) = s[1]
  BY <1>2, <1>4, SMTT(30)
<1> QED
  BY <1>2, <1>3, <1>4, <1>5, <1>7, <1>8, SMTT(30) DEF s, Rests

\* Every sequence that is not empty is one.
LEMMA Uncons ==
  ASSUME NEW s \in Rests, s # <<>>
  PROVE  Head(s) \in MmuSteps /\ Tail(s) \in Rests /\ s = <<Head(s)>> \o Tail(s)
<1>1. /\ Head(s) \in MmuSteps /\ Tail(s) \in Rests /\ Len(Tail(s)) = Len(s) - 1
      /\ \A i \in 1 .. Len(Tail(s)) : Tail(s)[i] = s[i + 1]
  BY SMTT(30) DEF Rests
<1>2. Len(s) \in Nat \ {0}
  BY SMTT(30) DEF Rests
<1>3. Head(s) = s[1]
  BY SMTT(30) DEF Rests
<1> DEFINE r == <<Head(s)>> \o Tail(s)
<1>4. /\ r \in Rests /\ Len(r) = Len(Tail(s)) + 1 /\ r[1] = Head(s)
      /\ \A i \in 1 .. Len(Tail(s)) : r[i + 1] = Tail(s)[i]
  BY <1>1, Cons
<1> HIDE DEF r
<1>5. Len(s) = Len(r) /\ \A i \in 1 .. Len(s) : s[i] = r[i]
  <2>1. Len(s) = Len(r)
    BY <1>1, <1>2, <1>4, SMTT(30)
  <2>2. ASSUME NEW i \in 1 .. Len(s) PROVE s[i] = r[i]
    <3>1. CASE i = 1
      BY <3>1, <1>3, <1>4
    <3>2. CASE i # 1
      <4>1. i - 1 \in 1 .. Len(Tail(s)) /\ (i - 1) + 1 = i
        BY <3>2, <1>1, <1>2, SMTT(30)
      <4> QED
        BY <4>1, <1>1, <1>4
    <3> QED
      BY <3>1, <3>2
  <2> QED
    BY <2>1, <2>2
<1>6. s = r
  BY <1>4, <1>5, SMTT(30) DEF Rests
<1> QED
  BY <1>1, <1>6 DEF r

\* Its steps.
LEMMA ConsSteps ==
  ASSUME NEW x \in MmuSteps, NEW u \in Rests
  PROVE  StepsOf(<<x>> \o u) = {x} \union StepsOf(u)
<1> DEFINE s == <<x>> \o u
<1>1. /\ Len(s) = Len(u) + 1 /\ s[1] = x /\ \A i \in 1 .. Len(u) : s[i + 1] = u[i]
  BY Cons
<1>2. Len(u) \in Nat
  BY SMTT(30) DEF Rests
<1> HIDE DEF s
<1>3. ASSUME NEW y \in StepsOf(s) PROVE y \in {x} \union StepsOf(u)
  <2>1. PICK k \in 1 .. Len(s) : y = s[k]
    BY DEF StepsOf
  <2>2. CASE k = 1
    BY <2>1, <2>2, <1>1
  <2>3. CASE k # 1
    <3>1. k - 1 \in 1 .. Len(u) /\ (k - 1) + 1 = k
      BY <2>3, <1>1, <1>2, SMTT(30)
    <3> QED
      BY <2>1, <3>1, <1>1, ZenonT(40) DEF StepsOf
  <2> QED
    BY <2>2, <2>3
<1>4. x \in StepsOf(s)
  BY <1>1, <1>2, SMTT(30) DEF StepsOf
<1>5. ASSUME NEW y \in StepsOf(u) PROVE y \in StepsOf(s)
  <2>1. PICK k \in 1 .. Len(u) : y = u[k]
    BY DEF StepsOf
  <2>2. k + 1 \in 1 .. Len(s) /\ s[k + 1] = y
    BY <2>1, <1>1, <1>2, SMTT(30)
  <2> QED
    BY <2>2 DEF StepsOf
<1>6. StepsOf(s) = {x} \union StepsOf(u)
  BY <1>3, <1>4, <1>5
<1> QED
  BY <1>6 DEF s

\* The locks it holds.
LEMMA ConsHeld ==
  ASSUME NEW x \in MmuSteps, NEW u \in Rests, NEW l
  PROVE  Held(<<x>> \o u, l) <=> (x = Do("let", l) \/ (x # Do("get", l) /\ Held(u, l)))
<1> DEFINE s == <<x>> \o u
<1>1. /\ Len(s) = Len(u) + 1 /\ s[1] = x /\ \A i \in 1 .. Len(u) : s[i + 1] = u[i]
  BY Cons
<1>2. Len(u) \in Nat
  BY SMTT(30) DEF Rests
<1> HIDE DEF s
<1>3. ASSUME Held(s, l), x # Do("let", l) PROVE x # Do("get", l) /\ Held(u, l)
  <2>1. PICK k \in 1 .. Len(s) : s[k] = Do("let", l) /\ \A i \in 1 .. k - 1 : s[i] # Do("get", l)
    BY <1>3 DEF Held
  <2>2. k # 1
    BY <1>1, <1>3, <2>1
  <2>3. k - 1 \in 1 .. Len(u) /\ (k - 1) + 1 = k /\ 1 \in 1 .. k - 1
    BY <2>2, <1>1, <1>2, SMTT(30)
  <2>4. u[k - 1] = Do("let", l)
    BY <2>1, <2>3, <1>1
  <2>5. ASSUME NEW i \in 1 .. (k - 1) - 1 PROVE u[i] # Do("get", l)
    <3>1. i + 1 \in 1 .. k - 1 /\ i \in 1 .. Len(u)
      BY <2>3, SMTT(30)
    <3> QED
      BY <3>1, <2>1, <1>1
  <2> QED
    BY <1>1, <2>1, <2>3, <2>4, <2>5 DEF Held
<1>4. ASSUME x = Do("let", l) PROVE Held(s, l)
  <2>1. 1 \in 1 .. Len(s) /\ 1 .. 1 - 1 = {}
    BY <1>1, <1>2, SMTT(30)
  <2> QED
    BY <2>1, <1>1, <1>4 DEF Held
<1>5. ASSUME x # Do("get", l), Held(u, l) PROVE Held(s, l)
  <2>1. PICK k \in 1 .. Len(u) : u[k] = Do("let", l) /\ \A i \in 1 .. k - 1 : u[i] # Do("get", l)
    BY <1>5 DEF Held
  <2>2. k + 1 \in 1 .. Len(s) /\ s[k + 1] = Do("let", l)
    BY <2>1, <1>1, <1>2, SMTT(30)
  <2>3. ASSUME NEW i \in 1 .. (k + 1) - 1 PROVE s[i] # Do("get", l)
    <3>1. CASE i = 1
      BY <3>1, <1>1, <1>5
    <3>2. CASE i # 1
      <4>1. i - 1 \in 1 .. k - 1 /\ i - 1 \in 1 .. Len(u) /\ (i - 1) + 1 = i
        BY <3>2, SMTT(30)
      <4> QED
        BY <4>1, <2>1, <1>1
    <3> QED
      BY <3>1, <3>2
  <2> QED
    BY <2>2, <2>3 DEF Held
<1>6. Held(s, l) <=> (x = Do("let", l) \/ (x # Do("get", l) /\ Held(u, l)))
  BY <1>3, <1>4, <1>5
<1> QED
  BY <1>6 DEF s

\* Being well formed.
LEMMA ConsWell ==
  ASSUME NEW x \in MmuSteps, NEW u \in Rests, NEW N
  PROVE  WellFormed(<<x>> \o u, N) <=> (Fit(x, u, N) /\ WellFormed(u, N))
<1> DEFINE s == <<x>> \o u
<1>1. /\ s \in Rests /\ s # <<>> /\ Len(s) = Len(u) + 1 /\ s[1] = x
      /\ \A i \in 1 .. Len(u) : s[i + 1] = u[i]
      /\ Tail(s) = u
  BY Cons
<1>2. Len(u) \in Nat
  BY SMTT(30) DEF Rests
<1> HIDE DEF s
<1>3. SubSeq(s, 1 + 1, Len(s)) = u
  <2>1. Tail(s) = SubSeq(s, 2, Len(s))
    BY <1>1, SMTT(30) DEF Rests
  <2> QED
    BY <2>1, <1>1, SMTT(30)
<1>4. ASSUME NEW j \in 1 .. Len(u) PROVE SubSeq(s, (j + 1) + 1, Len(s)) = SubSeq(u, j + 1, Len(u))
  <2> DEFINE p == SubSeq(s, (j + 1) + 1, Len(s))
             q == SubSeq(u, j + 1, Len(u))
  <2>1. \A i \in (j + 1) + 1 .. Len(s) : s[i] \in MmuSteps
    BY <1>1, <1>2, SMTT(30) DEF Rests
  <2>2. \A i \in j + 1 .. Len(u) : u[i] \in MmuSteps
    BY <1>2, SMTT(30) DEF Rests
  <2>3. /\ p \in Seq(MmuSteps)
        /\ Len(p) = IF (j + 1) + 1 <= Len(s) THEN Len(s) - ((j + 1) + 1) + 1 ELSE 0
        /\ \A i \in 1 .. Len(s) - ((j + 1) + 1) + 1 : p[i] = s[((j + 1) + 1) + i - 1]
    <3>1. (j + 1) + 1 \in Int /\ Len(s) \in Int
      BY <1>1, <1>2, SMTT(30)
    <3> QED
      BY <2>1, <3>1, SMTT(30)
  <2>4. /\ q \in Seq(MmuSteps)
        /\ Len(q) = IF j + 1 <= Len(u) THEN Len(u) - (j + 1) + 1 ELSE 0
        /\ \A i \in 1 .. Len(u) - (j + 1) + 1 : q[i] = u[(j + 1) + i - 1]
    <3>1. j + 1 \in Int /\ Len(u) \in Int
      BY <1>1, <1>2, SMTT(30)
    <3> QED
      BY <2>2, <3>1, SMTT(30)
  <2> HIDE DEF p, q
  <2>5. Len(p) = Len(q) /\ Len(p) = Len(u) - j
    BY <2>3, <2>4, <1>1, <1>2, SMTT(30)
  <2>6. ASSUME NEW i \in 1 .. Len(p) PROVE p[i] = q[i]
    <3>1. p[i] = s[(j + i) + 1]
      BY <2>3, <2>5, <1>1, <1>2, SMTT(30)
    <3>2. q[i] = u[j + i]
      BY <2>4, <2>5, <1>2, SMTT(30)
    <3>3. j + i \in 1 .. Len(u)
      BY <2>5, <1>2, SMTT(30)
    <3> QED
      BY <3>1, <3>2, <3>3, <1>1
  <2>7. p = q
    BY <2>3, <2>4, <2>5, <2>6, SameSteps DEF Rests
  <2> QED
    BY <2>7 DEF p, q
<1>5. ASSUME WellFormed(s, N) PROVE Fit(x, u, N) /\ WellFormed(u, N)
  <2>1. 1 \in 1 .. Len(s)
    BY <1>1, <1>2, SMTT(30)
  <2>2. Fit(x, u, N)
    BY <2>1, <1>1, <1>3, <1>5 DEF WellFormed
  <2>3. ASSUME NEW j \in 1 .. Len(u) PROVE Fit(u[j], SubSeq(u, j + 1, Len(u)), N)
    <3>1. j + 1 \in 1 .. Len(s) /\ s[j + 1] = u[j]
      BY <1>1, <1>2, SMTT(30)
    <3>2. Fit(s[j + 1], SubSeq(s, (j + 1) + 1, Len(s)), N)
      BY <3>1, <1>5 DEF WellFormed
    <3> QED
      BY <3>1, <3>2, <1>4
  <2> QED
    BY <2>2, <2>3 DEF WellFormed
<1>6. ASSUME Fit(x, u, N), WellFormed(u, N) PROVE WellFormed(s, N)
  <2>1. ASSUME NEW j \in 1 .. Len(s) PROVE Fit(s[j], SubSeq(s, j + 1, Len(s)), N)
    <3>1. CASE j = 1
      BY <3>1, <1>1, <1>3, <1>6
    <3>2. CASE j # 1
      <4> DEFINE i == j - 1
      <4>1. i \in 1 .. Len(u) /\ j = i + 1
        BY <3>2, <1>1, <1>2, SMTT(30)
      <4> HIDE DEF i
      <4>2. Fit(u[i], SubSeq(u, i + 1, Len(u)), N)
        BY <4>1, <1>6 DEF WellFormed
      <4>3. Fit(s[i + 1], SubSeq(s, (i + 1) + 1, Len(s)), N)
        BY <4>1, <4>2, <1>1, <1>4
      <4> QED
        BY <4>1, <4>3
    <3> QED
      BY <3>1, <3>2
  <2> QED
    BY <2>1 DEF WellFormed
<1>7. WellFormed(s, N) <=> (Fit(x, u, N) /\ WellFormed(u, N))
  BY <1>5, <1>6
<1> QED
  BY <1>7 DEF s

\* A thread that has nothing to do.
LEMMA Nothing ==
  ASSUME NEW N
  PROVE  /\ <<>> \in Rests /\ WellFormed(<<>>, N) /\ StepsOf(<<>>) = {}
         /\ \A l : ~ Held(<<>>, l)
         /\ \A x : ~ Starts(<<>>, x)
<1>1. Len(<<>>) = 0 /\ 1 .. 0 = {}
  BY SMTT(30)
<1> QED
  BY <1>1, SMTT(30) DEF WellFormed, StepsOf, Held, Starts, Rests

\* Everything about the sequence s that has x in front of u.
Pushed(s, x, u, N) ==
  /\ s \in Rests /\ s # <<>> /\ Head(s) = x /\ Tail(s) = u
  /\ StepsOf(s) = {x} \union StepsOf(u)
  /\ \A l : Held(s, l) <=> (x = Do("let", l) \/ (x # Do("get", l) /\ Held(u, l)))
  /\ WellFormed(s, N) <=> (Fit(x, u, N) /\ WellFormed(u, N))
  /\ \A y : Starts(s, y) <=> x = y
  /\ \A a : Searched(s, a) <=> (x = Do("get", a) /\ Starts(u, Do("let", "mmu")))

LEMMA Push ==
  ASSUME NEW x \in MmuSteps, NEW u \in Rests, NEW N
  PROVE  Pushed(<<x>> \o u, x, u, N)
<1> DEFINE s == <<x>> \o u
<1>1. s \in Rests /\ s # <<>> /\ Head(s) = x /\ Tail(s) = u
  BY Cons
<1>2. StepsOf(s) = {x} \union StepsOf(u)
  BY ConsSteps
<1>3. \A l : Held(s, l) <=> (x = Do("let", l) \/ (x # Do("get", l) /\ Held(u, l)))
  BY ConsHeld
<1>4. WellFormed(s, N) <=> (Fit(x, u, N) /\ WellFormed(u, N))
  BY ConsWell
<1> HIDE DEF s
<1>5. \A y : Starts(s, y) <=> x = y
  BY <1>1 DEF Starts
<1>6. \A a : Searched(s, a) <=> (x = Do("get", a) /\ Starts(u, Do("let", "mmu")))
  BY <1>1, <1>5 DEF Searched
<1>7. Pushed(s, x, u, N)
  BY <1>1, <1>2, <1>3, <1>4, <1>5, <1>6 DEF Pushed
<1> QED
  BY <1>7 DEF s

------------------------------------------------------------------------------
(***************************************************************************)
(* The calls are well formed.  They are put together from the end.         *)
(***************************************************************************)
\* The steps of the calls that access the entries in A.
About(A) == ({"get", "let"} \X ({"mmu", "vmm"} \union A)) \union ({"first"} \X A)
Part(u, N, A) ==
  /\ u \in Rests /\ WellFormed(u, N) /\ StepsOf(u) \subseteq About(A)
  /\ \A a \in Ates : ~ Searched(u, a)

\* Of the steps of an access, none inserts, removes, unmaps or walks.
LEMMA AboutSteps ==
  ASSUME NEW A \in SUBSET Ates
  PROVE  /\ About(A) \subseteq MmuSteps
         /\ \A y \in About(A) : y[1] \in {"get", "let", "first"} /\ y[2] \in Locks
  BY DEF About, MmuSteps, Locks

LEMMA PushLet ==
  ASSUME NEW A \in SUBSET Ates, NEW N, NEW u, Part(u, N, A),
         NEW l \in {"mmu", "vmm"} \union A, ~ Held(u, l)
  PROVE  /\ Part(<<Do("let", l)>> \o u, N, A)
         /\ \A m : Held(<<Do("let", l)>> \o u, m) <=> (m = l \/ Held(u, m))
<1> DEFINE x == Do("let", l)
<1>1. x \in MmuSteps /\ x \in About(A) /\ x[1] = "let" /\ x[2] = l
  BY DEF MmuSteps, About, Locks, Do
<1>2. /\ \A m : x # Do("get", m)
      /\ \A m : x = Do("let", m) <=> l = m
  BY DEF Do
<1> HIDE DEF x
<1>3. Fit(x, u, N)
  BY <1>1, AboutSteps DEF Fit, Part
<1> DEFINE s == <<x>> \o u
<1>4. Pushed(s, x, u, N)
  BY <1>1, Push DEF Part
<1> HIDE DEF s
<1>5. Part(s, N, A)
  BY <1>1, <1>2, <1>3, <1>4 DEF Part, Pushed
<1>6. \A m : Held(s, m) <=> (m = l \/ Held(u, m))
  BY <1>2, <1>4 DEF Pushed
<1> QED
  BY <1>5, <1>6 DEF s, x

LEMMA PushGet ==
  ASSUME NEW A \in SUBSET Ates, NEW N, NEW u, Part(u, N, A),
         NEW l \in {"mmu", "vmm"}, Held(u, l),
         \A m \in Locks \ {l} : Held(u, m) => <<m, l>> \in N
  PROVE  /\ Part(<<Do("get", l)>> \o u, N, A)
         /\ \A m : Held(<<Do("get", l)>> \o u, m) <=> (m # l /\ Held(u, m))
<1> DEFINE x == Do("get", l)
<1>1. x \in MmuSteps /\ x \in About(A) /\ x[1] = "get" /\ x[2] = l
  BY DEF MmuSteps, About, Locks, Do
<1>2. /\ \A m : x # Do("let", m)
      /\ \A m : x = Do("get", m) <=> l = m
      /\ \A a \in Ates : x # Do("get", a)
  BY MmuAssumption DEF Do
<1> HIDE DEF x
<1>3. Fit(x, u, N)
  BY <1>1, AboutSteps DEF Fit, Part
<1> DEFINE s == <<x>> \o u
<1>4. Pushed(s, x, u, N)
  BY <1>1, Push DEF Part
<1> HIDE DEF s
<1>5. Part(s, N, A)
  BY <1>1, <1>2, <1>3, <1>4 DEF Part, Pushed
<1>6. \A m : Held(s, m) <=> (m # l /\ Held(u, m))
  BY <1>2, <1>4 DEF Pushed
<1> QED
  BY <1>5, <1>6 DEF s, x

\* VMM_TRACK, with the locks held that may be.
LEMMA PushTrack ==
  ASSUME NEW A \in SUBSET Ates, NEW N, NEW u, Part(u, N, A), ~ Held(u, "vmm"),
         \A m \in Locks : Held(u, m) => <<m, "vmm">> \in N
  PROVE  /\ Part(Track \o u, N, A)
         /\ \A m : Held(Track \o u, m) <=> Held(u, m)
<1>1. Track \o u = <<Do("get", "vmm")>> \o (<<Do("let", "vmm")>> \o u)
  <2>1. Do("get", "vmm") \in MmuSteps /\ Do("let", "vmm") \in MmuSteps /\ u \in Seq(MmuSteps)
    BY DEF MmuSteps, Locks, Do, Part, Rests
  <2>2. Track = <<Do("get", "vmm")>> \o <<Do("let", "vmm")>>
    BY SMTT(30) DEF Track
  <2>3. <<Do("get", "vmm")>> \in Seq(MmuSteps) /\ <<Do("let", "vmm")>> \in Seq(MmuSteps)
    BY <2>1, SMTT(30)
  <2> QED
    BY <2>1, <2>2, <2>3, SMTT(30)
<1> DEFINE v == <<Do("let", "vmm")>> \o u
<1>2. Part(v, N, A) /\ \A m : Held(v, m) <=> (m = "vmm" \/ Held(u, m))
  BY PushLet
<1> HIDE DEF v
<1>3. /\ Part(<<Do("get", "vmm")>> \o v, N, A)
      /\ \A m : Held(<<Do("get", "vmm")>> \o v, m) <=> (m # "vmm" /\ Held(v, m))
  <2>1. Held(v, "vmm") /\ \A m \in Locks \ {"vmm"} : Held(v, m) => <<m, "vmm">> \in N
    BY <1>2
  <2> QED
    BY <1>2, <2>1, PushGet
<1> QED
  BY <1>1, <1>2, <1>3 DEF v

\* mmu_lookup_ate, which leaves a locked.
LEMMA PushLookup ==
  ASSUME NEW A \in SUBSET Ates, NEW N, NEW u, Part(u, N, A), NEW a \in A,
         Held(u, a), ~ Held(u, "mmu"), <<"mmu", a>> \in N,
         \A m \in Locks \ {a} : Held(u, m) => <<m, "mmu">> \in N /\ <<m, a>> \in N
  PROVE  /\ Part(Lookup(a) \o u, N, A)
         /\ \A m : Held(Lookup(a) \o u, m) <=> (m # a /\ Held(u, m))
<1> DEFINE x1 == Do("get", "mmu")
           x2 == Do("first", a)
           x3 == Do("get", a)
           x4 == Do("let", "mmu")
           u3 == <<x4>> \o u
           u2 == <<x3>> \o u3
           u1 == <<x2>> \o u2
<1>1. /\ x1 \in MmuSteps /\ x2 \in MmuSteps /\ x3 \in MmuSteps /\ x4 \in MmuSteps
      /\ u \in Seq(MmuSteps)
  BY DEF MmuSteps, Locks, Do, Part, Rests
<1>2. Lookup(a) \o u = <<x1>> \o u1
  <2>1. Lookup(a) = <<x1>> \o (<<x2>> \o (<<x3>> \o <<x4>>))
    BY SMTT(30) DEF Lookup
  <2> HIDE DEF x1, x2, x3, x4
  <2>2. /\ <<x1>> \in Seq(MmuSteps) /\ <<x2>> \in Seq(MmuSteps)
        /\ <<x3>> \in Seq(MmuSteps) /\ <<x4>> \in Seq(MmuSteps)
    BY <1>1, SMTT(30)
  <2>3. <<x3>> \o <<x4>> \in Seq(MmuSteps) /\ (<<x3>> \o <<x4>>) \o u = u2
    BY <1>1, <2>2, SMTT(30)
  <2>4. /\ <<x2>> \o (<<x3>> \o <<x4>>) \in Seq(MmuSteps)
        /\ (<<x2>> \o (<<x3>> \o <<x4>>)) \o u = u1
    <3> DEFINE p == <<x3>> \o <<x4>>
    <3> HIDE DEF u2, p
    <3>1. p \in Seq(MmuSteps) /\ p \o u = u2
      BY <2>3 DEF p
    <3>2. <<x2>> \o p \in Seq(MmuSteps) /\ (<<x2>> \o p) \o u = <<x2>> \o (p \o u)
      <4>1. <<x2>> \o p \in Seq(MmuSteps)
        BY <2>2, <3>1, SMTT(30)
      <4>2. (<<x2>> \o p) \o u = <<x2>> \o (p \o u)
        <5>1. PICK y, r, s : y = <<x2>> /\ r = p /\ s = u
          OBVIOUS
        <5>2. y \in Seq(MmuSteps) /\ r \in Seq(MmuSteps) /\ s \in Seq(MmuSteps)
          BY <5>1, <1>1, <2>2, <3>1
        <5>3. (y \o r) \o s = y \o (r \o s)
          BY <5>2, SMTT(30)
        <5> QED
          BY <5>1, <5>3
      <4> QED
        BY <4>1, <4>2
    <3>3. (<<x2>> \o p) \o u = u1
      BY <3>1, <3>2
    <3> QED
      BY <3>2, <3>3 DEF p
  <2> QED
    BY <1>1, <2>1, <2>2, <2>4, SMTT(30)
<1>3. Part(u3, N, A) /\ \A m : Held(u3, m) <=> (m = "mmu" \/ Held(u, m))
  BY PushLet
<1>4. a \in Ates /\ a # "mmu" /\ a # "vmm"
  BY MmuAssumption
<1>5. /\ x3[1] = "get" /\ x3[2] = a /\ x3 \in About(A) /\ \A m : x3 # Do("let", m)
      /\ \A m : x3 = Do("get", m) <=> a = m
  BY DEF Do, About
<1>6. /\ x2[1] = "first" /\ x2[2] = a /\ x2 \in About(A)
      /\ \A m : x2 # Do("let", m) /\ x2 # Do("get", m)
  BY DEF Do, About
<1>7. Starts(u3, Do("let", "mmu"))
  <2>1. Pushed(u3, x4, u, N)
    BY <1>1, Push DEF Rests
  <2> QED
    BY <2>1 DEF Pushed
<1> HIDE DEF x1, x2, x3, x4, u3, u2, u1
<1>8. Fit(x3, u3, N)
  <2>1. Held(u3, a) /\ \A m \in Locks \ {a} : Held(u3, m) => <<m, a>> \in N
    BY <1>3
  <2> QED
    BY <2>1, <1>3, <1>5, AboutSteps DEF Fit, Part
<1>9. /\ u2 \in Rests /\ WellFormed(u2, N) /\ StepsOf(u2) \subseteq About(A)
      /\ \A m : Held(u2, m) <=> (m # a /\ Held(u3, m))
      /\ \A b : Searched(u2, b) <=> b = a
  <2>1. Pushed(u2, x3, u3, N)
    BY <1>1, <1>3, Push DEF Part, u2
  <2> QED
    BY <2>1, <1>3, <1>5, <1>7, <1>8 DEF Part, Pushed
<1>10. Fit(x2, u2, N)
  <2>1. Held(u2, "mmu")
    BY <1>3, <1>4, <1>9
  <2>2. x2 = Do("first", a)
    BY DEF x2
  <2> QED
    BY <2>1, <2>2, <1>6, <1>9, AboutSteps DEF Fit
<1>11. Part(u1, N, A) /\ \A m : Held(u1, m) <=> Held(u2, m)
  <2>1. /\ u1 \in Rests /\ StepsOf(u1) = {x2} \union StepsOf(u2) /\ WellFormed(u1, N)
        /\ \A m : Held(u1, m) <=> Held(u2, m)
        /\ \A b : ~ Searched(u1, b)
    <3>1. Pushed(u1, x2, u2, N)
      BY <1>1, <1>9, Push DEF u1
    <3> QED
      BY <3>1, <1>6, <1>9, <1>10 DEF Pushed
  <2> QED
    BY <2>1, <1>6, <1>9 DEF Part
<1>12. /\ Part(<<x1>> \o u1, N, A)
       /\ \A m : Held(<<x1>> \o u1, m) <=> (m # "mmu" /\ Held(u1, m))
  <2>1. Held(u1, "mmu") /\ \A m \in Locks \ {"mmu"} : Held(u1, m) => <<m, "mmu">> \in N
    BY <1>3, <1>4, <1>9, <1>11
  <2> QED
    BY <1>11, <2>1, PushGet DEF x1
<1> QED
  BY <1>2, <1>3, <1>4, <1>9, <1>11, <1>12

LEMMA Joined ==
  ASSUME NEW p \in Rests, NEW q \in Rests
  PROVE  p \o q \in Rests
  BY SMTT(30) DEF Rests

\* What the calls are put together from.
LEMMA Pieces ==
  ASSUME NEW A \in SUBSET Ates, NEW N
  PROVE  /\ Track \in Rests /\ \A a \in A : Lookup(a) \in Rests /\ <<Do("let", a)>> \in Rests
         /\ Part(<<>>, N, A)
         /\ Part(Track, N, A) /\ \A m : ~ Held(Track, m)
<1>1. Track \in Rests
  BY SMTT(30) DEF Track, Rests, MmuSteps, Locks, Do
<1>2. ASSUME NEW a \in A PROVE Lookup(a) \in Rests /\ <<Do("let", a)>> \in Rests
  <2>1. /\ Do("get", "mmu") \in MmuSteps /\ Do("first", a) \in MmuSteps
        /\ Do("get", a) \in MmuSteps /\ Do("let", "mmu") \in MmuSteps /\ Do("let", a) \in MmuSteps
    BY DEF MmuSteps, Locks, Do
  <2> QED
    BY <2>1, SMTT(30) DEF Lookup, Rests
<1>3. Part(<<>>, N, A)
  BY Nothing DEF Part, Searched
<1>4. Part(Track \o <<>>, N, A) /\ \A m : Held(Track \o <<>>, m) <=> Held(<<>>, m)
  BY <1>3, Nothing, PushTrack
<1>5. Track \o <<>> = Track
  BY <1>1, SMTT(30) DEF Rests
<1> QED
  BY <1>1, <1>2, <1>3, <1>4, <1>5, Nothing

Call(c, N) ==
  /\ c \in Rests /\ WellFormed(c, N)
  /\ \A l : ~ Held(c, l)
  /\ \A a \in Ates : ~ Searched(c, a)

LEMMA CallMexist ==
  ASSUME NEW a \in Ates, NEW N, <<"mmu", a>> \in N
  PROVE  Call(mexist(a), N) /\ StepsOf(mexist(a)) \subseteq About({a})
<1> DEFINE u == <<Do("let", a)>> \o <<>>
<1>1. Part(u, N, {a}) /\ \A m : Held(u, m) <=> m = a
  <2> DEFINE e == <<>>
  <2>0. {a} \in SUBSET Ates /\ a \in {"mmu", "vmm"} \union {a}
    OBVIOUS
  <2>1. Part(e, N, {a}) /\ \A m : ~ Held(e, m)
    BY <2>0, Pieces, Nothing
  <2> HIDE DEF e
  <2>2. /\ Part(<<Do("let", a)>> \o e, N, {a})
        /\ \A m : Held(<<Do("let", a)>> \o e, m) <=> (m = a \/ Held(e, m))
    BY <2>0, <2>1, PushLet
  <2>3. u = <<Do("let", a)>> \o e
    BY DEF e
  <2> QED
    BY <2>1, <2>2, <2>3
<1>2. mexist(a) = Lookup(a) \o u
  <2>1. <<Do("let", a)>> \in Rests
    BY Pieces
  <2>2. u = <<Do("let", a)>>
    BY <2>1, SMTT(30) DEF Rests
  <2> QED
    BY <2>2 DEF mexist
<1> HIDE DEF u
<1>3. a # "mmu"
  BY MmuAssumption
<1>4. Part(Lookup(a) \o u, N, {a}) /\ \A m : ~ Held(Lookup(a) \o u, m)
  BY <1>1, <1>3, PushLookup, SMTT(30)
<1> QED
  BY <1>2, <1>4 DEF Call, Part

LEMMA LetTrack ==
  ASSUME NEW a \in Ates, NEW N
  PROVE  /\ Part(<<Do("let", a)>> \o Track, N, {a})
         /\ \A m : Held(<<Do("let", a)>> \o Track, m) <=> m = a
<1>1. {a} \in SUBSET Ates /\ a \in {"mmu", "vmm"} \union {a}
  OBVIOUS
<1>2. PICK u : u = Track
  OBVIOUS
<1>3. Part(u, N, {a}) /\ \A m : ~ Held(u, m)
  BY <1>1, <1>2, Pieces
<1>4. /\ Part(<<Do("let", a)>> \o u, N, {a})
      /\ \A m : Held(<<Do("let", a)>> \o u, m) <=> (m = a \/ Held(u, m))
  BY <1>1, <1>3, PushLet
<1> QED
  BY <1>2, <1>3, <1>4

LEMMA CallMtouch ==
  ASSUME NEW a \in Ates, NEW N, <<"mmu", a>> \in N
  PROVE  /\ Call(sbma_mtouch(a), N) /\ StepsOf(sbma_mtouch(a)) \subseteq About({a})
         /\ write_fault(a) = sbma_mtouch(a)
<1> DEFINE u == <<Do("let", a)>> \o Track
<1>1. Part(u, N, {a}) /\ \A m : Held(u, m) <=> m = a
  BY LetTrack
<1>2. sbma_mtouch(a) = Lookup(a) \o u
  <2>1. PICK p, q, r : p = Lookup(a) /\ q = <<Do("let", a)>> /\ r = Track
    OBVIOUS
  <2>2. p \in Seq(MmuSteps) /\ q \in Seq(MmuSteps) /\ r \in Seq(MmuSteps)
    BY <2>1, Pieces DEF Rests
  <2>3. (p \o q) \o r = p \o (q \o r)
    BY <2>2, SMTT(30)
  <2> QED
    BY <2>1, <2>3 DEF sbma_mtouch
<1> HIDE DEF u
<1>3. a # "mmu"
  BY MmuAssumption
<1>4. Part(Lookup(a) \o u, N, {a}) /\ \A m : ~ Held(Lookup(a) \o u, m)
  BY <1>1, <1>3, PushLookup, SMTT(30)
<1> QED
  BY <1>2, <1>4 DEF Call, Part, write_fault, sbma_mtouch

LEMMA CallReadFault ==
  ASSUME NEW a \in Ates, NEW N, <<"mmu", a>> \in N, <<a, "vmm">> \in N
  PROVE  Call(read_fault(a), N) /\ StepsOf(read_fault(a)) \subseteq About({a})
<1> DEFINE v == <<Do("let", a)>> \o Track
           u == Track \o v
<1>1. Part(v, N, {a}) /\ \A m : Held(v, m) <=> m = a
  BY LetTrack
<1>2. read_fault(a) = Lookup(a) \o u
  <2> DEFINE p == Lookup(a)
             q == <<Do("let", a)>>
  <2>1. p \in Rests /\ q \in Rests /\ Track \in Rests
    BY Pieces
  <2>2. read_fault(a) = ((p \o Track) \o q) \o Track
    BY DEF read_fault
  <2> HIDE DEF p, q
  <2>3. ((p \o Track) \o q) \o Track = p \o (Track \o (q \o Track))
    <3>1. p \in Seq(MmuSteps) /\ q \in Seq(MmuSteps)
      BY <2>1 DEF Rests
    <3>2. Track \in Seq(MmuSteps)
      BY <2>1 DEF Rests
    <3>3. PICK f : f = p \o Track
      OBVIOUS
    <3>4. PICK g : g = q \o Track
      OBVIOUS
    <3>5. f \in Seq(MmuSteps) /\ g \in Seq(MmuSteps)
      BY <3>1, <3>2, <3>3, <3>4, SMTT(30)
    <3>6. (f \o q) \o Track = f \o (q \o Track)
      BY <3>1, <3>2, <3>5, SMTT(30)
    <3>7. (p \o Track) \o g = p \o (Track \o g)
      BY <3>1, <3>2, <3>5, SMTT(30)
    <3> QED
      BY <3>3, <3>4, <3>6, <3>7
  <2> QED
    BY <2>2, <2>3 DEF p, q
<1>3. a # "mmu" /\ a # "vmm"
  BY MmuAssumption
<1> HIDE DEF v
<1>4. Part(u, N, {a}) /\ \A m : Held(u, m) <=> m = a
  BY <1>1, <1>3, PushTrack
<1> HIDE DEF u
<1>5. Part(Lookup(a) \o u, N, {a}) /\ \A m : ~ Held(Lookup(a) \o u, m)
  BY <1>3, <1>4, PushLookup, SMTT(30)
<1> QED
  BY <1>2, <1>5 DEF Call, Part

LEMMA CallAtomic ==
  ASSUME NEW a \in Ates, NEW b \in Ates, a # b, NEW N, <<"mmu", a>> \in N, <<"mmu", b>> \in N,
         <<a, "mmu">> \in N, <<a, b>> \in N
  PROVE  Call(sbma_mtouch_atomic(a, b), N) /\ StepsOf(sbma_mtouch_atomic(a, b)) \subseteq About({a, b})
<1> DEFINE q == <<Do("let", a)>>
           r == <<Do("let", b)>>
           w == r \o Track
           v == q \o w
           u == Lookup(b) \o v
<1>1. a # "mmu" /\ a # "vmm" /\ b # "mmu" /\ b # "vmm"
  BY MmuAssumption
<1>2. /\ q \in Rests /\ r \in Rests /\ Track \in Rests /\ Lookup(a) \in Rests /\ Lookup(b) \in Rests
      /\ Part(Track, N, {a, b}) /\ \A m : ~ Held(Track, m)
  BY Pieces
<1>3. sbma_mtouch_atomic(a, b) = Lookup(a) \o u
  <2>1. sbma_mtouch_atomic(a, b) = ((Lookup(a) \o Lookup(b)) \o (q \o r)) \o Track
    BY SMTT(30) DEF sbma_mtouch_atomic
  <2> HIDE DEF q, r
  <2>2. q \o r \in Rests /\ (q \o r) \o Track = v
    <3>1. q \o r \in Rests
      BY <1>2, Joined
    <3>2. (q \o r) \o Track = v
      <4>1. q \in Seq(MmuSteps) /\ r \in Seq(MmuSteps) /\ Track \in Seq(MmuSteps)
        BY <1>2 DEF Rests
      <4> QED
        BY <4>1, SMTT(30)
    <3> QED
      BY <3>1, <3>2
  <2> DEFINE z == q \o r
             x == Lookup(a)
             y == Lookup(b)
  <2> HIDE DEF z, x, y
  <2>3. x \in Rests /\ y \in Rests /\ z \in Rests /\ Track \in Rests
    BY <1>2, <2>2 DEF x, y, z
  <2>4. ((x \o y) \o z) \o Track = x \o (y \o (z \o Track))
    <3>1. x \in Seq(MmuSteps) /\ y \in Seq(MmuSteps) /\ z \in Seq(MmuSteps)
      BY <2>3 DEF Rests
    <3>2. Track \in Seq(MmuSteps)
      BY <2>3 DEF Rests
    <3>3. PICK f : f = x \o y
      OBVIOUS
    <3>4. PICK g : g = z \o Track
      OBVIOUS
    <3>5. f \in Seq(MmuSteps) /\ g \in Seq(MmuSteps)
      BY <3>1, <3>2, <3>3, <3>4, SMTT(30)
    <3>6. (f \o z) \o Track = f \o (z \o Track)
      BY <3>1, <3>2, <3>5, SMTT(30)
    <3>7. (x \o y) \o g = x \o (y \o g)
      BY <3>1, <3>2, <3>5, SMTT(30)
    <3> QED
      BY <3>3, <3>4, <3>6, <3>7
  <2>5. z \o Track = v
    BY <2>2 DEF z
  <2> QED
    BY <2>1, <2>4, <2>5 DEF x, y, z
<1> DEFINE A == {a, b}
<1>A. A \in SUBSET Ates /\ a \in A /\ b \in A /\ a \in {"mmu", "vmm"} \union A /\ b \in {"mmu", "vmm"} \union A
  OBVIOUS
<1>B. Part(Track, N, A)
  BY <1>2
<1> HIDE DEF w, A
<1>4. Part(w, N, A) /\ \A m : Held(w, m) <=> m = b
  <2>1. w = <<Do("let", b)>> \o Track
    BY DEF w
  <2> QED
    BY <1>2, <1>A, <1>B, <2>1, PushLet
<1> HIDE DEF v
<1>5. Part(v, N, A) /\ \A m : Held(v, m) <=> m \in {a, b}
  <2>1. v = <<Do("let", a)>> \o w
    BY DEF v
  <2>2. ~ Held(w, a)
    BY <1>4
  <2> QED
    BY <1>4, <1>A, <2>1, <2>2, PushLet
<1>6. Part(u, N, A) /\ \A m : Held(u, m) <=> m = a
  BY <1>1, <1>5, <1>A, PushLookup, SMTT(30)
<1> HIDE DEF u
<1>7. Part(Lookup(a) \o u, N, A) /\ \A m : ~ Held(Lookup(a) \o u, m)
  BY <1>1, <1>6, <1>A, PushLookup
<1> QED
  BY <1>3, <1>7 DEF Call, Part, A

LEMMA CallMalloc ==
  ASSUME NEW a \in Ates, NEW N
  PROVE  /\ Call(sbma_malloc(a), N)
         /\ StepsOf(sbma_malloc(a)) = {Do("get", "mmu"), Do("insert", a), Do("let", "mmu")}
<1> DEFINE e == <<>>
           x1 == Do("get", "mmu")
           x2 == Do("insert", a)
           x3 == Do("let", "mmu")
           u3 == <<x3>> \o e
           u2 == <<x2>> \o u3
           u1 == <<x1>> \o u2
<1>1. sbma_malloc(a) = u1
  BY SMTT(30) DEF sbma_malloc
<1>2. /\ e \in Rests /\ WellFormed(e, N) /\ StepsOf(e) = {}
      /\ (\A l : ~ Held(e, l)) /\ \A x : ~ Starts(e, x)
  BY Nothing
<1>3. /\ x1 \in MmuSteps /\ x2 \in MmuSteps /\ x3 \in MmuSteps
      /\ x1[1] = "get" /\ x1[2] = "mmu" /\ x2[1] = "insert" /\ x2[2] = a
      /\ x3[1] = "let" /\ x3[2] = "mmu"
  BY DEF MmuSteps, Locks, Do
<1>4. /\ \A l : x1 # Do("let", l) /\ (x1 = Do("get", l) <=> l = "mmu")
      /\ \A l : x2 # Do("let", l) /\ x2 # Do("get", l)
      /\ \A l : x3 # Do("get", l) /\ (x3 = Do("let", l) <=> l = "mmu")
  BY DEF Do
<1> HIDE DEF e
<1>5. Pushed(u3, x3, e, N)
  BY <1>2, <1>3, Push
<1> HIDE DEF u3
<1>6. Pushed(u2, x2, u3, N)
  <2>1. u3 \in Rests
    BY <1>5 DEF Pushed
  <2> QED
    BY <1>3, <2>1, Push
<1> HIDE DEF u2
<1>7. Pushed(u1, x1, u2, N)
  <2>1. u2 \in Rests
    BY <1>6 DEF Pushed
  <2> QED
    BY <1>3, <2>1, Push
<1> HIDE DEF u1, x1, x2, x3
<1>8. /\ \A l : Held(u3, l) <=> l = "mmu"
      /\ \A l : Held(u2, l) <=> l = "mmu"
      /\ \A l : ~ Held(u1, l)
  <2>0. /\ \A l : Held(u3, l) <=> (x3 = Do("let", l) \/ (x3 # Do("get", l) /\ Held(e, l)))
        /\ \A l : Held(u2, l) <=> (x2 = Do("let", l) \/ (x2 # Do("get", l) /\ Held(u3, l)))
        /\ \A l : Held(u1, l) <=> (x1 = Do("let", l) \/ (x1 # Do("get", l) /\ Held(u2, l)))
    BY <1>5, <1>6, <1>7 DEF Pushed
  <2>1. \A l : Held(u3, l) <=> l = "mmu"
    BY <1>2, <1>4, <2>0
  <2>2. \A l : Held(u2, l) <=> l = "mmu"
    BY <1>4, <2>0, <2>1
  <2>3. \A l : ~ Held(u1, l)
    BY <1>4, <2>0, <2>2
  <2> QED
    BY <2>1, <2>2, <2>3
<1>9. StepsOf(u3) = {x3} /\ StepsOf(u2) = {x2, x3} /\ StepsOf(u1) = {x1, x2, x3}
  BY <1>2, <1>5, <1>6, <1>7 DEF Pushed
<1>10. \A b \in Ates : ~ Searched(e, b) /\ ~ Searched(u3, b) /\ ~ Searched(u2, b) /\ ~ Searched(u1, b)
  <2>1. \A b \in Ates : b # "mmu"
    BY MmuAssumption
  <2> QED
    BY <2>1, <1>2, <1>4, <1>5, <1>6, <1>7 DEF Pushed, Searched
<1>11. WellFormed(u3, N)
  <2>1. Fit(x3, e, N)
    BY <1>2, <1>3, <1>10 DEF Fit
  <2> QED
    BY <2>1, <1>2, <1>5 DEF Pushed
<1>12. WellFormed(u2, N)
  <2>1. Fit(x2, u3, N)
    BY <1>3, <1>8, <1>9, <1>10 DEF Fit
  <2> QED
    BY <2>1, <1>6, <1>11 DEF Pushed
<1>13. WellFormed(u1, N)
  <2>1. Fit(x1, u2, N)
    BY <1>3, <1>8, <1>9, <1>10 DEF Fit
  <2> QED
    BY <2>1, <1>7, <1>12 DEF Pushed
<1>14. Call(u1, N)
  BY <1>7, <1>8, <1>10, <1>13 DEF Call, Pushed
<1> QED
  BY <1>1, <1>9, <1>14 DEF x1, x2, x3

LEMMA CallFree ==
  ASSUME NEW a \in Ates, NEW N
  PROVE  /\ Call(sbma_free(a), N)
         /\ StepsOf(sbma_free(a)) =
              {Do("get", "mmu"), Do("remove", a), Do("let", "mmu"), Do("munmap", a)}
<1> DEFINE e == <<>>
           x1 == Do("get", "mmu")
           x2 == Do("remove", a)
           x3 == Do("let", "mmu")
           x4 == Do("munmap", a)
           u4 == <<x4>> \o e
           u3 == <<x3>> \o u4
           u2 == <<x2>> \o u3
           u1 == <<x1>> \o u2
<1>1. sbma_free(a) = u1
  BY SMTT(30) DEF sbma_free
<1>2. /\ e \in Rests /\ WellFormed(e, N) /\ StepsOf(e) = {}
      /\ (\A l : ~ Held(e, l)) /\ \A x : ~ Starts(e, x)
  BY Nothing
<1>3. /\ x1 \in MmuSteps /\ x2 \in MmuSteps /\ x3 \in MmuSteps /\ x4 \in MmuSteps
      /\ x1[1] = "get" /\ x1[2] = "mmu" /\ x2[1] = "remove" /\ x2[2] = a
      /\ x3[1] = "let" /\ x3[2] = "mmu" /\ x4[1] = "munmap" /\ x4[2] = a
  BY DEF MmuSteps, Locks, Do
<1>4. /\ \A l : x1 # Do("let", l) /\ (x1 = Do("get", l) <=> l = "mmu")
      /\ \A l : x2 # Do("let", l) /\ x2 # Do("get", l)
      /\ \A l : x3 # Do("get", l) /\ (x3 = Do("let", l) <=> l = "mmu")
      /\ \A l : x4 # Do("let", l) /\ x4 # Do("get", l)
  BY DEF Do
<1>5. Pushed(u4, x4, e, N) /\ u4 \in Rests
  <2> HIDE DEF e
  <2>1. Pushed(u4, x4, e, N)
    BY <1>2, <1>3, Push
  <2> QED
    BY <2>1 DEF Pushed
<1> HIDE DEF e, u4
<1>6. Pushed(u3, x3, u4, N) /\ u3 \in Rests
  <2>1. Pushed(u3, x3, u4, N)
    BY <1>3, <1>5, Push
  <2> QED
    BY <2>1 DEF Pushed
<1> HIDE DEF u3
<1>7. Pushed(u2, x2, u3, N) /\ u2 \in Rests
  <2>1. Pushed(u2, x2, u3, N)
    BY <1>3, <1>6, Push
  <2> QED
    BY <2>1 DEF Pushed
<1> HIDE DEF u2
<1>8. Pushed(u1, x1, u2, N)
  BY <1>3, <1>7, Push
<1> HIDE DEF u1, x1, x2, x3, x4
<1>9. /\ \A l : ~ Held(u4, l)
      /\ \A l : Held(u3, l) <=> l = "mmu"
      /\ \A l : Held(u2, l) <=> l = "mmu"
      /\ \A l : ~ Held(u1, l)
  <2>1. \A l : ~ Held(u4, l)
    BY <1>2, <1>4, <1>5 DEF Pushed
  <2>2. \A l : Held(u3, l) <=> l = "mmu"
    BY <2>1, <1>4, <1>6, SMTT(30) DEF Pushed
  <2>3. \A l : Held(u2, l) <=> l = "mmu"
    BY <2>2, <1>4, <1>7 DEF Pushed
  <2>4. \A l : ~ Held(u1, l)
    BY <2>3, <1>4, <1>8 DEF Pushed
  <2> QED
    BY <2>1, <2>2, <2>3, <2>4
<1>10. /\ StepsOf(u4) = {x4} /\ StepsOf(u3) = {x3, x4} /\ StepsOf(u2) = {x2, x3, x4}
       /\ StepsOf(u1) = {x1, x2, x3, x4}
  BY <1>2, <1>5, <1>6, <1>7, <1>8 DEF Pushed
<1>11. \A b \in Ates : /\ ~ Searched(e, b) /\ ~ Searched(u4, b) /\ ~ Searched(u3, b) /\ ~ Searched(u2, b)
                       /\ ~ Searched(u1, b)
  <2>1. \A b \in Ates : b # "mmu"
    BY MmuAssumption
  <2> QED
    BY <2>1, <1>2, <1>4, <1>5, <1>6, <1>7, <1>8 DEF Pushed, Searched
<1>12. WellFormed(u4, N)
  <2>1. Fit(x4, e, N)
    <3>1. e = <<>>
      BY DEF e
    <3> QED
      BY <3>1, <1>2, <1>3, <1>11 DEF Fit
  <2> QED
    BY <2>1, <1>2, <1>5 DEF Pushed
<1>13. WellFormed(u3, N)
  <2>1. Fit(x3, u4, N)
    BY <1>3, <1>9, <1>10, <1>11 DEF Fit
  <2> QED
    BY <2>1, <1>6, <1>12 DEF Pushed
<1>14. WellFormed(u2, N)
  <2>1. Do("munmap", x2[2]) \in StepsOf(u3)
    BY <1>3, <1>10 DEF x4
  <2>2. Fit(x2, u3, N)
    BY <1>3, <1>9, <1>10, <1>11, <2>1 DEF Fit
  <2> QED
    BY <2>2, <1>7, <1>13 DEF Pushed
<1>15. WellFormed(u1, N)
  <2>1. Fit(x1, u2, N)
    BY <1>3, <1>9, <1>10, <1>11 DEF Fit
  <2> QED
    BY <2>1, <1>8, <1>14 DEF Pushed
<1>16. Call(u1, N)
  BY <1>8, <1>9, <1>11, <1>15 DEF Call, Pushed
<1> QED
  BY <1>1, <1>10, <1>16 DEF x1, x2, x3, x4

LEMMA CallEvictAll ==
  ASSUME NEW N, \A a \in Ates : <<"vmm", a>> \in N
  PROVE  /\ Call(sbma_mevictall, N)
         /\ StepsOf(sbma_mevictall) \subseteq ({"get", "let"} \X {"mmu", "vmm"}) \union {Do("walk", "all")}
<1> DEFINE x1 == Do("get", "vmm")
           x2 == Do("walk", "all")
           x3 == Do("let", "vmm")
           u3 == <<x3>> \o Track
           u2 == <<x2>> \o u3
           u1 == <<x1>> \o u2
<1>1. sbma_mevictall = u1
  BY SMTT(30) DEF sbma_mevictall, Track
<1>2. Part(Track, N, {}) /\ \A m : ~ Held(Track, m)
  BY Pieces
<1>3. Part(u3, N, {}) /\ \A m : Held(u3, m) <=> m = "vmm"
  BY <1>2, PushLet
<1>4. /\ x1 \in MmuSteps /\ x2 \in MmuSteps
      /\ x1[1] = "get" /\ x1[2] = "vmm" /\ x2[1] = "walk" /\ x2[2] = "all"
  BY DEF MmuSteps, Locks, Do
<1>5. /\ \A l : x1 # Do("let", l) /\ (x1 = Do("get", l) <=> l = "vmm")
      /\ \A l : x2 # Do("let", l) /\ x2 # Do("get", l)
  BY DEF Do
<1> HIDE DEF u3
<1>6. Pushed(u2, x2, u3, N) /\ u2 \in Rests
  <2>1. Pushed(u2, x2, u3, N)
    BY <1>3, <1>4, Push DEF Part
  <2> QED
    BY <2>1 DEF Pushed
<1> HIDE DEF u2
<1>7. Pushed(u1, x1, u2, N)
  BY <1>4, <1>6, Push
<1>8. \A b \in Ates : b # "mmu" /\ b # "vmm"
  BY MmuAssumption
<1>9. \A y \in StepsOf(u3) : y \in {"get", "let"} \X {"mmu", "vmm"}
  BY <1>3 DEF Part, About
<1> HIDE DEF u1, x1, x2
<1>10. (\A l : Held(u2, l) <=> l = "vmm") /\ \A l : ~ Held(u1, l)
  BY <1>3, <1>5, <1>6, <1>7 DEF Pushed
<1>11. \A b \in Ates : ~ Searched(u3, b) /\ ~ Searched(u2, b) /\ ~ Searched(u1, b)
  BY <1>3, <1>5, <1>6, <1>7, <1>8 DEF Pushed, Part
<1>12. WellFormed(u2, N)
  <2>1. \A y \in StepsOf(u3) : y[1] \in {"get", "let"} /\ y[2] \notin Ates
    BY <1>8, <1>9
  <2>2. Fit(x2, u3, N)
    BY <1>3, <1>4, <1>11, <2>1 DEF Fit
  <2> QED
    BY <2>2, <1>3, <1>6 DEF Pushed, Part
<1>13. WellFormed(u1, N)
  <2>1. \A y \in StepsOf(u2) : y[1] \in {"get", "let", "walk"}
    BY <1>4, <1>6, <1>9 DEF Pushed
  <2>2. Fit(x1, u2, N)
    BY <1>4, <1>10, <1>11, <2>1 DEF Fit
  <2> QED
    BY <2>2, <1>7, <1>12 DEF Pushed
<1>14. Call(u1, N)
  BY <1>7, <1>10, <1>11, <1>13 DEF Call, Pushed
<1>15. StepsOf(u1) \subseteq ({"get", "let"} \X {"mmu", "vmm"}) \union {x2}
  <2>1. x1 \in {"get", "let"} \X {"mmu", "vmm"}
    BY DEF x1, Do
  <2> QED
    BY <2>1, <1>6, <1>7, <1>9 DEF Pushed
<1> QED
  BY <1>1, <1>14, <1>15 DEF x2

------------------------------------------------------------------------------
(***************************************************************************)
(* The locks: who holds which is what the calls have left to do.           *)
(***************************************************************************)
MmuTypes ==
  /\ calling \in [Workers -> Calls \union {"none"}]
  /\ a_tbl \in Ates \union {NoAte}
  /\ next \in [Ates -> Ates \union {NoAte}] /\ prev \in [Ates -> Ates \union {NoAte}]
  /\ mapped \subseteq Ates
  /\ holder \in [Locks -> Workers \union {NoAte}] /\ depth \in [Locks -> 0 .. 1]
  /\ todo \in [Workers -> Rests]
  /\ cur \in [Workers -> Ates \union {NoAte}]

LockInv ==
  /\ \A t \in Workers : WellFormed(todo[t], Nesting({calling[t]}))
  /\ \A l \in Locks, t \in Workers : holder[l] = t <=> Held(todo[t], l)
  /\ \A l \in Locks : depth[l] = IF holder[l] = NoAte THEN 0 ELSE 1

\* A walk that has more to do is at an entry.
MoreInv == \A t \in Workers : Do("more", "all") \in StepsOf(todo[t]) => cur[t] # NoAte

LockBase == MmuTypes /\ LockInv /\ MoreInv

LEMMA LockBaseInit ==
  MmuInit => LockBase
<1> SUFFICES ASSUME MmuInit PROVE LockBase
  OBVIOUS
<1> USE DEF MmuInit
<1>1. <<>> \in Rests /\ StepsOf(<<>>) = {} /\ \A N : WellFormed(<<>>, N) /\ \A l : ~ Held(<<>>, l)
  BY Nothing
<1>2. \A t \in Workers : todo[t] = <<>>
  OBVIOUS
<1>3. MmuTypes
  BY <1>1, SMTT(30) DEF MmuTypes
<1>4. LockInv
  <2>1. \A l \in Locks : holder[l] = NoAte /\ depth[l] = 0
    OBVIOUS
  <2>2. \A t \in Workers : t # NoAte
    BY MmuAssumption
  <2> HIDE DEF MmuInit
  <2> QED
    BY <1>1, <1>2, <2>1, <2>2 DEF LockInv
<1>5. MoreInv
  BY <1>1, <1>2 DEF MoreInv
<1> QED
  BY <1>3, <1>4, <1>5 DEF LockBase

\* The next step of a thread in front of the others.
LEMMA Doing ==
  ASSUME LockBase, NEW t \in Workers, todo[t] # <<>>
  PROVE  /\ Head(todo[t]) \in MmuSteps /\ Tail(todo[t]) \in Rests
         /\ Pushed(todo[t], Head(todo[t]), Tail(todo[t]), Nesting({calling[t]}))
         /\ Fit(Head(todo[t]), Tail(todo[t]), Nesting({calling[t]}))
         /\ WellFormed(Tail(todo[t]), Nesting({calling[t]}))
<1> DEFINE s == todo[t]
           N == Nesting({calling[t]})
           x == Head(s)
           u == Tail(s)
<1>1. s \in Rests /\ WellFormed(s, N)
  BY DEF LockBase, MmuTypes, LockInv
<1>2. x \in MmuSteps /\ u \in Rests /\ s = <<x>> \o u
  BY <1>1, Uncons
<1> HIDE DEF s, N, x, u
<1>3. Pushed(s, x, u, N)
  BY <1>2, Push
<1>4. Fit(x, u, N) /\ WellFormed(u, N)
  BY <1>1, <1>3 DEF Pushed
<1> QED
  BY <1>2, <1>3, <1>4 DEF s, N, x, u

\* A step that is followed by the rest of the call.
LEMMA Pops ==
  ASSUME LockBase, NEW t \in Workers, todo[t] # <<>>, Then(t, <<>>)
  PROVE  todo' = [todo EXCEPT ![t] = Tail(todo[t])]
<1>1. Tail(todo[t]) \in Rests
  BY Doing
<1>2. <<>> \o Tail(todo[t]) = Tail(todo[t])
  BY <1>1, SMTT(30) DEF Rests
<1>3. todo' = [todo EXCEPT ![t] = <<>> \o Tail(todo[t])]
  BY DEF Then
<1> QED
  BY <1>2, <1>3

\* A step that leaves the locks alone, whatever is left to do then.
LEMMA LocksKept ==
  ASSUME LockBase, NEW t \in Workers, NEW r \in Rests, todo' = [todo EXCEPT ![t] = r],
         WellFormed(r, Nesting({calling[t]})), \A l \in Locks : Held(r, l) <=> Held(todo[t], l),
         calling' = calling, holder' = holder, depth' = depth
  PROVE  LockInv' /\ todo' \in [Workers -> Rests]
<1>1. /\ \A u \in Workers : todo'[u] = IF u = t THEN r ELSE todo[u]
      /\ todo' \in [Workers -> Rests]
  BY DEF LockBase, MmuTypes
<1>2. \A u \in Workers : WellFormed(todo'[u], Nesting({calling[u]}))
  BY <1>1 DEF LockBase, LockInv
<1>3. \A l \in Locks, u \in Workers : holder[l] = u <=> Held(todo'[u], l)
  BY <1>1 DEF LockBase, LockInv
<1>4. \A l \in Locks : depth[l] = IF holder[l] = NoAte THEN 0 ELSE 1
  BY DEF LockBase, LockInv
<1>5. \A u \in Workers : WellFormed(todo'[u], Nesting({calling'[u]}))
  BY <1>2
<1> QED
  BY <1>1, <1>3, <1>4, <1>5 DEF LockInv

LEMMA MoreKept ==
  ASSUME LockBase, NEW t \in Workers, NEW r \in Rests, todo' = [todo EXCEPT ![t] = r],
         \A u \in Workers \ {t} : cur'[u] = cur[u],
         Do("more", "all") \in StepsOf(r) => cur'[t] # NoAte
  PROVE  MoreInv'
<1>1. \A u \in Workers : todo'[u] = IF u = t THEN r ELSE todo[u]
  BY DEF LockBase, MmuTypes
<1>2. \A u \in Workers : Do("more", "all") \in StepsOf(todo'[u]) => cur'[u] # NoAte
  BY <1>1 DEF LockBase, MoreInv
<1> QED
  BY <1>2 DEF MoreInv

\* A step that neither takes nor gives back a lock and does not move.
LEMMA LockPlain ==
  ASSUME LockBase, NEW t \in Workers, todo[t] # <<>>, Then(t, <<>>),
         Head(todo[t])[1] \notin {"get", "let"},
         calling' = calling, holder' = holder, depth' = depth, cur' = cur
  PROVE  LockInv' /\ MoreInv' /\ todo' \in [Workers -> Rests]
<1> DEFINE s == todo[t]
           N == Nesting({calling[t]})
           x == Head(s)
           u == Tail(s)
<1>1. /\ x \in MmuSteps /\ u \in Rests /\ Pushed(s, x, u, N) /\ Fit(x, u, N) /\ WellFormed(u, N)
  BY Doing
<1>2. todo' = [todo EXCEPT ![t] = u]
  BY Pops
<1>3. x[1] \notin {"get", "let"}
  OBVIOUS
<1>4. Do("more", "all") \in StepsOf(s) => cur[t] # NoAte
  BY DEF LockBase, MoreInv
<1> HIDE DEF s, N, x, u
<1>5. \A l : x # Do("get", l) /\ x # Do("let", l)
  BY <1>3, SMTT(30) DEF Do
<1>6. \A l \in Locks : Held(u, l) <=> Held(s, l)
  BY <1>1, <1>5 DEF Pushed
<1>7. Do("more", "all") \in StepsOf(u) => cur'[t] # NoAte
  BY <1>1, <1>4 DEF Pushed
<1>8. WellFormed(u, Nesting({calling[t]})) /\ \A l \in Locks : Held(u, l) <=> Held(todo[t], l)
  BY <1>1, <1>6 DEF s, N
<1>9. MoreInv'
  BY <1>1, <1>2, <1>7, MoreKept
<1> QED
  BY <1>1, <1>2, <1>8, <1>9, LocksKept

LEMMA LockGet ==
  ASSUME LockBase, NEW t \in Workers, Get(t)
  PROVE  LockBase'
<1> DEFINE s == todo[t]
           N == Nesting({calling[t]})
           x == Head(s)
           u == Tail(s)
<1>1. PICK l \in Locks :
        /\ Now(t, "get", l) /\ (holder[l] = NoAte \/ holder[l] = t)
        /\ holder' = [holder EXCEPT ![l] = t] /\ depth' = [depth EXCEPT ![l] = depth[l] + 1]
        /\ Then(t, <<>>) /\ UNCHANGED <<calling, list, cur, caught>>
  BY DEF Get
<1>2. todo[t] # <<>> /\ x = Do("get", l)
  BY <1>1 DEF Now
<1>3. /\ x \in MmuSteps /\ u \in Rests /\ Pushed(s, x, u, N) /\ Fit(x, u, N) /\ WellFormed(u, N)
  BY <1>2, Doing
<1>4. todo' = [todo EXCEPT ![t] = u]
  BY <1>1, <1>2, Pops
<1>5. Do("more", "all") \in StepsOf(s) => cur[t] # NoAte
  BY DEF LockBase, MoreInv
<1>6. \A m \in Locks : holder[m] = t <=> Held(s, m)
  BY DEF LockBase, LockInv
<1> HIDE DEF s, N, x, u
<1>7. x[1] = "get" /\ x[2] = l /\ \A m : x # Do("let", m) /\ (x = Do("get", m) <=> m = l)
  BY <1>2 DEF Do
<1>8. ~ Held(s, l) /\ Held(u, l) /\ \A m \in Locks \ {l} : Held(u, m) <=> Held(s, m)
  BY <1>3, <1>7 DEF Pushed, Fit
<1>9. holder[l] = NoAte /\ depth[l] = 0
  BY <1>1, <1>6, <1>8 DEF LockBase, LockInv
<1>10. /\ calling' = calling /\ a_tbl' = a_tbl /\ next' = next /\ prev' = prev /\ mapped' = mapped
       /\ cur' = cur
  BY <1>1 DEF list
<1>11. MoreInv'
  BY <1>3, <1>4, <1>5, <1>10, MoreKept DEF Pushed
<1>12. \A v \in Workers : todo'[v] = IF v = t THEN u ELSE todo[v]
  BY <1>4 DEF LockBase, MmuTypes
<1>13. /\ \A m \in Locks : holder'[m] = IF m = l THEN t ELSE holder[m]
       /\ \A m \in Locks : depth'[m] = IF m = l THEN 1 ELSE depth[m]
  BY <1>1, <1>9, SMTT(30) DEF LockBase, MmuTypes
<1>14. MmuTypes'
  <2>1. holder' \in [Locks -> Workers \union {NoAte}]
    BY <1>1 DEF LockBase, MmuTypes
  <2>2. depth' \in [Locks -> 0 .. 1]
    <3>1. depth' = [depth EXCEPT ![l] = 1] /\ 1 \in 0 .. 1
      BY <1>1, <1>9, SMTT(30)
    <3> QED
      BY <3>1 DEF LockBase, MmuTypes
  <2>3. todo' \in [Workers -> Rests]
    BY <1>3, <1>4 DEF LockBase, MmuTypes
  <2> QED
    BY <2>1, <2>2, <2>3, <1>10 DEF LockBase, MmuTypes
<1>15. LockInv'
  <2>1. \A v \in Workers : WellFormed(todo'[v], Nesting({calling'[v]}))
    BY <1>3, <1>10, <1>12 DEF LockBase, LockInv, N
  <2>2. ASSUME NEW m \in Locks, NEW v \in Workers PROVE holder'[m] = v <=> Held(todo'[v], m)
    <3>1. holder[m] = v <=> Held(todo[v], m)
      BY DEF LockBase, LockInv
    <3>2. v # NoAte
      BY MmuAssumption
    <3>3. CASE v = t
      BY <3>1, <3>2, <3>3, <1>8, <1>9, <1>12, <1>13 DEF s
    <3>4. CASE v # t
      BY <3>1, <3>2, <3>4, <1>9, <1>12, <1>13
    <3> QED
      BY <3>3, <3>4
  <2>3. \A m \in Locks : depth'[m] = IF holder'[m] = NoAte THEN 0 ELSE 1
    <3>1. t # NoAte
      BY MmuAssumption
    <3> QED
      BY <3>1, <1>13 DEF LockBase, LockInv
  <2> QED
    BY <2>1, <2>2, <2>3 DEF LockInv
<1> QED
  BY <1>11, <1>14, <1>15 DEF LockBase

LEMMA LockLet ==
  ASSUME LockBase, NEW t \in Workers, Let(t)
  PROVE  LockBase'
<1> DEFINE s == todo[t]
           N == Nesting({calling[t]})
           x == Head(s)
           u == Tail(s)
<1>1. PICK l \in Locks :
        /\ Now(t, "let", l)
        /\ depth' = [depth EXCEPT ![l] = depth[l] - 1]
        /\ holder' = [holder EXCEPT ![l] = IF depth[l] = 1 THEN NoAte ELSE holder[l]]
        /\ Then(t, <<>>) /\ UNCHANGED <<calling, list, cur, caught>>
  BY DEF Let
<1>2. todo[t] # <<>> /\ x = Do("let", l)
  BY <1>1 DEF Now
<1>3. /\ x \in MmuSteps /\ u \in Rests /\ Pushed(s, x, u, N) /\ Fit(x, u, N) /\ WellFormed(u, N)
  BY <1>2, Doing
<1>4. todo' = [todo EXCEPT ![t] = u]
  BY <1>1, <1>2, Pops
<1>5. Do("more", "all") \in StepsOf(s) => cur[t] # NoAte
  BY DEF LockBase, MoreInv
<1>6. \A m \in Locks : holder[m] = t <=> Held(s, m)
  BY DEF LockBase, LockInv
<1> HIDE DEF s, N, x, u
<1>7. x[1] = "let" /\ x[2] = l /\ \A m : x # Do("get", m) /\ (x = Do("let", m) <=> m = l)
  BY <1>2 DEF Do
<1>8. Held(s, l) /\ ~ Held(u, l) /\ \A m \in Locks \ {l} : Held(u, m) <=> Held(s, m)
  BY <1>3, <1>7 DEF Pushed, Fit
<1>9. holder[l] = t /\ depth[l] = 1
  <2>1. t # NoAte
    BY MmuAssumption
  <2> QED
    BY <1>1, <1>6, <1>8, <2>1 DEF LockBase, LockInv
<1>10. /\ calling' = calling /\ a_tbl' = a_tbl /\ next' = next /\ prev' = prev /\ mapped' = mapped
       /\ cur' = cur
  BY <1>1 DEF list
<1>11. MoreInv'
  BY <1>3, <1>4, <1>5, <1>10, MoreKept DEF Pushed
<1>12. \A v \in Workers : todo'[v] = IF v = t THEN u ELSE todo[v]
  BY <1>4 DEF LockBase, MmuTypes
<1>13. /\ \A m \in Locks : holder'[m] = IF m = l THEN NoAte ELSE holder[m]
       /\ \A m \in Locks : depth'[m] = IF m = l THEN 0 ELSE depth[m]
  BY <1>1, <1>9, SMTT(30) DEF LockBase, MmuTypes
<1>14. MmuTypes'
  <2>1. holder' \in [Locks -> Workers \union {NoAte}]
    BY <1>1 DEF LockBase, MmuTypes
  <2>2. depth' \in [Locks -> 0 .. 1]
    <3>1. depth' = [depth EXCEPT ![l] = 0] /\ 0 \in 0 .. 1
      BY <1>1, <1>9, SMTT(30)
    <3> QED
      BY <3>1 DEF LockBase, MmuTypes
  <2>3. todo' \in [Workers -> Rests]
    BY <1>3, <1>4 DEF LockBase, MmuTypes
  <2> QED
    BY <2>1, <2>2, <2>3, <1>10 DEF LockBase, MmuTypes
<1>15. LockInv'
  <2>1. \A v \in Workers : WellFormed(todo'[v], Nesting({calling'[v]}))
    BY <1>3, <1>10, <1>12 DEF LockBase, LockInv, N
  <2>2. ASSUME NEW m \in Locks, NEW v \in Workers PROVE holder'[m] = v <=> Held(todo'[v], m)
    <3>1. holder[m] = v <=> Held(todo[v], m)
      BY DEF LockBase, LockInv
    <3>2. v # NoAte
      BY MmuAssumption
    <3>3. CASE v = t
      BY <3>1, <3>2, <3>3, <1>8, <1>9, <1>12, <1>13 DEF s
    <3>4. CASE v # t
      BY <3>1, <3>2, <3>4, <1>9, <1>12, <1>13
    <3> QED
      BY <3>3, <3>4
  <2>3. \A m \in Locks : depth'[m] = IF holder'[m] = NoAte THEN 0 ELSE 1
    BY <1>13 DEF LockBase, LockInv
  <2> QED
    BY <2>1, <2>2, <2>3 DEF LockInv
<1> QED
  BY <1>11, <1>14, <1>15 DEF LockBase

\* Whoever holds a lock has its release in front of it.
LEMMA HeldStep ==
  ASSUME NEW s, NEW l, Held(s, l)
  PROVE  Do("let", l) \in StepsOf(s)
  BY DEF Held, StepsOf

\* The steps on the next entry of a walk.
VisitAll(a) == Visit("all", a)

LEMMA WalkPush ==
  ASSUME NEW x \in {Do("walk", "all"), Do("more", "all")}, NEW u \in Rests, NEW N, NEW a \in Ates,
         Fit(x, u, N), WellFormed(u, N)
  PROVE  /\ VisitAll(a) \o u \in Rests /\ WellFormed(VisitAll(a) \o u, N)
         /\ \A m : Held(VisitAll(a) \o u, m) <=> Held(u, m)
         /\ \A b \in Ates : ~ Searched(VisitAll(a) \o u, b)
         /\ StepsOf(VisitAll(a) \o u) = {Do("get", a), Do("let", a), Do("more", "all")} \union StepsOf(u)
<1> DEFINE x1 == Do("get", a)
           x2 == Do("let", a)
           x3 == Do("more", "all")
           u3 == <<x3>> \o u
           u2 == <<x2>> \o u3
           u1 == <<x1>> \o u2
<1>1. x1 \in MmuSteps /\ x2 \in MmuSteps /\ x3 \in MmuSteps
  BY DEF MmuSteps, Locks, Do
<1>2. VisitAll(a) \o u = u1
  <2>1. VisitAll(a) = <<x1>> \o (<<x2>> \o <<x3>>)
    BY SMTT(30) DEF VisitAll, Visit
  <2> HIDE DEF x1, x2, x3
  <2> DEFINE p == <<x1>>
             q == <<x2>>
             r == <<x3>>
             qr == q \o r
  <2>2. p \in Rests /\ q \in Rests /\ r \in Rests
    BY <1>1, SMTT(30) DEF Rests
  <2> HIDE DEF p, q, r
  <2>a. p \in Seq(MmuSteps) /\ q \in Seq(MmuSteps) /\ r \in Seq(MmuSteps) /\ u \in Seq(MmuSteps)
    BY <2>2 DEF Rests
  <2>3. qr \in Seq(MmuSteps)
    BY <2>a, SMTT(30)
  <2>4. qr \o u = q \o (r \o u)
    BY <2>a, SMTT(30)
  <2> HIDE DEF qr
  <2>5. (p \o qr) \o u = p \o (qr \o u)
    BY <2>a, <2>3, SMTT(30)
  <2>6. VisitAll(a) = p \o qr
    BY <2>1 DEF p, q, r, qr
  <2>7. u1 = p \o (q \o (r \o u))
    BY DEF p, q, r
  <2> QED
    BY <2>4, <2>5, <2>6, <2>7
<1>3. /\ x1[1] = "get" /\ x1[2] = a /\ x2[1] = "let" /\ x2[2] = a /\ x3[1] = "more" /\ x3[2] = "all"
      /\ x[1] \in {"walk", "more"}
  BY SMTT(30) DEF Do
<1>4. /\ \A l : x1 # Do("let", l) /\ (x1 = Do("get", l) <=> l = a)
      /\ \A l : x2 # Do("get", l) /\ (x2 = Do("let", l) <=> l = a)
      /\ \A l : x3 # Do("let", l) /\ x3 # Do("get", l)
      /\ \A l : x # Do("first", l) /\ x # Do("search", l)
      /\ Do("let", "mmu") # x2
  BY MmuAssumption, SMTT(30) DEF Do
<1>5. /\ \A y \in StepsOf(u) : y[2] \notin Ates /\ y[1] # "more" /\ y[1] # "search"
      /\ \A b \in Ates : ~ Searched(u, b)
      /\ \A m \in Locks, b \in Ates : Held(u, m) => <<m, b>> \in N
  BY <1>3, <1>4 DEF Fit
<1>6. ~ Held(u, a)
  <2>1. Do("let", a) \notin StepsOf(u)
    BY <1>5 DEF Do
  <2> QED
    BY <2>1, HeldStep
<1>7. Pushed(u3, x3, u, N) /\ u3 \in Rests
  <2>1. Pushed(u3, x3, u, N)
    BY <1>1, Push
  <2> QED
    BY <2>1 DEF Pushed
<1> HIDE DEF u3
<1>8. Pushed(u2, x2, u3, N) /\ u2 \in Rests
  <2>1. Pushed(u2, x2, u3, N)
    BY <1>1, <1>7, Push
  <2> QED
    BY <2>1 DEF Pushed
<1> HIDE DEF u2
<1>9. Pushed(u1, x1, u2, N)
  BY <1>1, <1>8, Push
<1> HIDE DEF u1, x1, x2, x3
<1>10. /\ \A l : Held(u3, l) <=> Held(u, l)
       /\ \A l : Held(u2, l) <=> (l = a \/ Held(u, l))
       /\ \A l : Held(u1, l) <=> Held(u, l)
  <2>1. \A l : Held(u3, l) <=> Held(u, l)
    BY <1>4, <1>7 DEF Pushed
  <2>2. \A l : Held(u2, l) <=> (l = a \/ Held(u, l))
    BY <2>1, <1>4, <1>8 DEF Pushed
  <2>3. \A l : Held(u1, l) <=> Held(u, l)
    BY <2>2, <1>4, <1>6, <1>9 DEF Pushed
  <2> QED
    BY <2>1, <2>2, <2>3
<1>11. \A b \in Ates : ~ Searched(u3, b) /\ ~ Searched(u2, b) /\ ~ Searched(u1, b)
  BY <1>4, <1>7, <1>8, <1>9 DEF Pushed
<1>12. WellFormed(u3, N)
  <2>1. Fit(x3, u, N)
    BY <1>3, <1>5 DEF Fit
  <2> QED
    BY <2>1, <1>7 DEF Pushed
<1>13. WellFormed(u2, N)
  <2>1. Fit(x2, u3, N)
    <3>1. \A y \in StepsOf(u3) : y[1] # "search"
      BY <1>3, <1>5, <1>7 DEF Pushed
    <3> QED
      BY <1>3, <1>6, <1>10, <1>11, <3>1 DEF Fit
  <2> QED
    BY <2>1, <1>8, <1>12 DEF Pushed
<1>14. WellFormed(u1, N)
  <2>1. Held(u2, a) /\ \A m \in Locks \ {a} : Held(u2, m) => <<m, a>> \in N
    BY <1>5, <1>10
  <2>2. Fit(x1, u2, N)
    <3>1. \A y \in StepsOf(u2) : y[1] # "search"
      BY <1>3, <1>5, <1>7, <1>8 DEF Pushed
    <3> QED
      BY <1>3, <1>11, <2>1, <3>1 DEF Fit
  <2> QED
    BY <2>2, <1>9, <1>13 DEF Pushed
<1>15. StepsOf(u1) = {x1, x2, x3} \union StepsOf(u)
  BY <1>7, <1>8, <1>9 DEF Pushed
<1>16. u1 \in Rests
  BY <1>9 DEF Pushed
<1> QED
  BY <1>2, <1>10, <1>11, <1>14, <1>15, <1>16 DEF x1, x2, x3

\* A search instead of its start.
LEMMA SearchPush ==
  ASSUME NEW a \in Ates, NEW u \in Rests, NEW N, Fit(Do("first", a), u, N), WellFormed(u, N)
  PROVE  LET r == <<Do("search", a)>> \o u
         IN  /\ r \in Rests /\ WellFormed(r, N)
             /\ \A m : Held(r, m) <=> Held(u, m)
             /\ \A b \in Ates : ~ Searched(r, b)
             /\ StepsOf(r) = {Do("search", a)} \union StepsOf(u)
             /\ Head(r) = Do("search", a)
<1> DEFINE x == Do("search", a)
           r == <<x>> \o u
<1>1. x \in MmuSteps /\ x[1] = "search" /\ x[2] = a /\ \A l : x # Do("get", l) /\ x # Do("let", l)
  BY DEF MmuSteps, Do
<1>2. Do("first", a)[1] = "first" /\ Do("first", a)[2] = a
  BY DEF Do
<1>3. \A b \in Ates : Searched(u, b) => b = a
  <2>1. \A b \in Ates : Do("first", a) = Do("first", b) => a = b
    BY DEF Do
  <2>2. \A b \in Ates : Do("first", a) # Do("search", b)
    BY DEF Do
  <2> QED
    BY <2>1, <2>2 DEF Fit
<1>4. Pushed(r, x, u, N)
  BY <1>1, Push
<1>5. Fit(x, u, N)
  <2>1. x \in {Do("first", a), Do("search", a)}
    OBVIOUS
  <2> HIDE DEF x
  <2> QED
    BY <2>1, <1>1, <1>2, <1>3 DEF Fit
<1> HIDE DEF r, x
<1>6. /\ r \in Rests /\ WellFormed(r, N) /\ (\A m : Held(r, m) <=> Held(u, m))
      /\ (\A b \in Ates : ~ Searched(r, b)) /\ StepsOf(r) = {x} \union StepsOf(u) /\ Head(r) = x
  BY <1>1, <1>4, <1>5 DEF Pushed
<1> QED
  BY <1>6 DEF r, x

LEMMA LockBegin ==
  ASSUME LockBase, NEW t \in Workers, NEW n, NEW c, Call(c, Nesting({n})),
         Do("more", "all") \notin StepsOf(c), Begin(t, n, c)
  PROVE  /\ LockInv' /\ MoreInv' /\ todo' \in [Workers -> Rests]
         /\ calling' \in [Workers -> Calls \union {"none"}]
         /\ cur' = cur /\ holder' = holder /\ depth' = depth /\ stray' = stray
<1>1. /\ todo[t] = <<>> /\ todo' = [todo EXCEPT ![t] = c]
      /\ n \in Calls /\ calling' = [calling EXCEPT ![t] = n]
      /\ cur' = cur /\ holder' = holder /\ depth' = depth /\ stray' = stray
  BY DEF Begin, locking
<1>2. c \in Rests /\ WellFormed(c, Nesting({n})) /\ \A l : ~ Held(c, l)
  BY DEF Call
<1>3. \A l \in Locks : ~ Held(todo[t], l)
  BY <1>1, Nothing
<1>4. MoreInv'
  BY <1>1, <1>2, MoreKept
<1>5. /\ calling' \in [Workers -> Calls \union {"none"}] /\ todo' \in [Workers -> Rests]
      /\ \A u \in Workers : calling'[u] = IF u = t THEN n ELSE calling[u]
      /\ \A u \in Workers : todo'[u] = IF u = t THEN c ELSE todo[u]
  BY <1>1, <1>2 DEF LockBase, MmuTypes
<1>6. LockInv'
  <2>1. \A u \in Workers : WellFormed(todo'[u], Nesting({calling'[u]}))
    BY <1>2, <1>5 DEF LockBase, LockInv
  <2>2. \A l \in Locks, u \in Workers : holder'[l] = u <=> Held(todo'[u], l)
    BY <1>1, <1>2, <1>3, <1>5 DEF LockBase, LockInv
  <2>3. \A l \in Locks : depth'[l] = IF holder'[l] = NoAte THEN 0 ELSE 1
    BY <1>1 DEF LockBase, LockInv
  <2> QED
    BY <2>1, <2>2, <2>3 DEF LockInv
<1> QED
  BY <1>1, <1>4, <1>5, <1>6

LEMMA LockSearchFirst ==
  ASSUME LockBase, NEW t \in Workers, SearchFirst(t)
  PROVE  LockBase'
<1> DEFINE u == Tail(todo[t])
           N == Nesting({calling[t]})
<1>1. PICK a \in Ates :
        /\ Now(t, "first", a)
        /\ cur' = [cur EXCEPT ![t] = a_tbl] /\ Then(t, << Do("search", a) >>)
        /\ UNCHANGED <<calling, list, locking, stray, caught>>
  BY DEF SearchFirst
<1>2. todo[t] # <<>> /\ Head(todo[t]) = Do("first", a)
  BY <1>1 DEF Now
<1>3. u \in Rests /\ Fit(Do("first", a), u, N) /\ WellFormed(u, N) /\ Pushed(todo[t], Do("first", a), u, N)
  BY <1>2, Doing
<1> DEFINE r == <<Do("search", a)>> \o u
<1>4. todo' = [todo EXCEPT ![t] = r]
  BY <1>1 DEF Then
<1> HIDE DEF u, N
<1>5. /\ r \in Rests /\ WellFormed(r, N) /\ (\A m : Held(r, m) <=> Held(u, m))
      /\ StepsOf(r) = {Do("search", a)} \union StepsOf(u)
  BY <1>3, SearchPush
<1> HIDE DEF r
<1>6. \A m : Held(todo[t], m) <=> Held(u, m)
  <2>1. \A m : Do("first", a) # Do("get", m) /\ Do("first", a) # Do("let", m)
    BY DEF Do
  <2> QED
    BY <2>1, <1>3 DEF Pushed
<1>7. Do("more", "all") \notin StepsOf(r)
  <2>1. Do("more", "all") # Do("search", a) /\ Do("more", "all")[1] = "more" /\ Do("first", a)[1] = "first"
    BY DEF Do
  <2>2. Do("more", "all") \notin StepsOf(u)
    BY <2>1, <1>3 DEF Fit
  <2> QED
    BY <2>1, <2>2, <1>5
<1>8. /\ calling' = calling /\ a_tbl' = a_tbl /\ next' = next /\ prev' = prev /\ mapped' = mapped
      /\ holder' = holder /\ depth' = depth
  BY <1>1 DEF list, locking
<1>9. \A v \in Workers \ {t} : cur'[v] = cur[v]
  BY <1>1 DEF LockBase, MmuTypes
<1>10. MoreInv'
  BY <1>4, <1>5, <1>7, <1>9, MoreKept
<1>11. LockInv' /\ todo' \in [Workers -> Rests]
  <2>1. WellFormed(r, Nesting({calling[t]})) /\ \A l \in Locks : Held(r, l) <=> Held(todo[t], l)
    BY <1>5, <1>6 DEF N
  <2> QED
    BY <2>1, <1>4, <1>5, <1>8, LocksKept
<1>12. MmuTypes'
  BY <1>1, <1>8, <1>11 DEF LockBase, MmuTypes
<1> QED
  BY <1>10, <1>11, <1>12 DEF LockBase

LEMMA LockSearch ==
  ASSUME LockBase, NEW t \in Workers, Search(t)
  PROVE  LockBase'
<1>1. PICK a \in Ates :
        /\ Now(t, "search", a)
        /\ IF cur[t] \in {NoAte, a} THEN Then(t, <<>>) /\ UNCHANGED cur
           ELSE cur' = [cur EXCEPT ![t] = next[cur[t]]] /\ UNCHANGED todo
        /\ UNCHANGED <<calling, list, locking, caught>>
  BY DEF Search
<1>2. todo[t] # <<>> /\ Head(todo[t]) = Do("search", a) /\ Head(todo[t])[1] = "search"
  BY <1>1, SMTT(30) DEF Now, Do
<1>3. /\ calling' = calling /\ a_tbl' = a_tbl /\ next' = next /\ prev' = prev /\ mapped' = mapped
      /\ holder' = holder /\ depth' = depth
  BY <1>1 DEF list, locking
<1>4. CASE cur[t] \in {NoAte, a}
  <2>1. Then(t, <<>>) /\ cur' = cur
    BY <1>1, <1>4
  <2>2. LockInv' /\ MoreInv' /\ todo' \in [Workers -> Rests]
    BY <2>1, <1>2, <1>3, LockPlain
  <2>3. MmuTypes'
    BY <2>1, <2>2, <1>3 DEF LockBase, MmuTypes
  <2> QED
    BY <2>2, <2>3 DEF LockBase
<1>5. CASE cur[t] \notin {NoAte, a}
  <2>1. cur' = [cur EXCEPT ![t] = next[cur[t]]] /\ todo' = todo
    BY <1>1, <1>5
  <2>2. next[cur[t]] \in Ates \union {NoAte}
    BY <1>5 DEF LockBase, MmuTypes
  <2>3. MmuTypes'
    BY <2>1, <2>2, <1>3 DEF LockBase, MmuTypes
  <2>4. LockInv'
    BY <2>1, <1>3 DEF LockBase, LockInv
  <2>5. Do("more", "all") \notin StepsOf(todo[t])
    <3>1. /\ Fit(Do("search", a), Tail(todo[t]), Nesting({calling[t]}))
          /\ StepsOf(todo[t]) = {Do("search", a)} \union StepsOf(Tail(todo[t]))
      BY <1>2, Doing DEF Pushed
    <3>2. /\ Do("more", "all") # Do("search", a) /\ Do("more", "all")[1] = "more"
          /\ Do("search", a)[1] = "search"
      BY DEF Do
    <3> QED
      BY <3>1, <3>2 DEF Fit
  <2>6. \A v \in Workers \ {t} : cur'[v] = cur[v]
    BY <2>1 DEF LockBase, MmuTypes
  <2>7. \A v \in Workers : Do("more", "all") \in StepsOf(todo'[v]) => cur'[v] # NoAte
    BY <2>1, <2>5, <2>6 DEF LockBase, MoreInv
  <2>8. MoreInv'
    BY <2>7 DEF MoreInv
  <2> QED
    BY <2>3, <2>4, <2>8 DEF LockBase
<1> QED
  BY <1>4, <1>5

\* Both steps of the loop of sbma_mevictall_int: on to the entry a, or to the end.
LEMMA LockVisit ==
  ASSUME LockBase, NEW t \in Workers, NEW x \in {Do("walk", "all"), Do("more", "all")},
         NEW a \in Ates \union {NoAte}, todo[t] # <<>>, Head(todo[t]) = x,
         cur' = [cur EXCEPT ![t] = a],
         Then(t, IF a = NoAte THEN <<>> ELSE Visit("all", a)),
         calling' = calling, a_tbl' = a_tbl, next' = next, prev' = prev, mapped' = mapped,
         holder' = holder, depth' = depth
  PROVE  LockBase'
<1> DEFINE u == Tail(todo[t])
           N == Nesting({calling[t]})
           r == IF a = NoAte THEN u ELSE VisitAll(a) \o u
<1>1. u \in Rests /\ Fit(x, u, N) /\ WellFormed(u, N) /\ Pushed(todo[t], x, u, N)
  BY Doing
<1>2. todo' = [todo EXCEPT ![t] = r]
  <2>1. CASE a = NoAte
    BY <2>1, Pops
  <2>2. CASE a # NoAte
    BY <2>2 DEF Then, VisitAll
  <2> QED
    BY <2>1, <2>2
<1>3. /\ r \in Rests /\ WellFormed(r, N) /\ (\A m : Held(r, m) <=> Held(u, m))
      /\ (a = NoAte => StepsOf(r) = StepsOf(u))
  <2>1. CASE a = NoAte
    BY <2>1, <1>1
  <2>2. CASE a # NoAte
    <3> HIDE DEF u, N
    <3>1. a \in Ates
      BY <2>2
    <3>2. /\ VisitAll(a) \o u \in Rests /\ WellFormed(VisitAll(a) \o u, N)
          /\ \A m : Held(VisitAll(a) \o u, m) <=> Held(u, m)
      BY <3>1, <1>1, WalkPush
    <3> QED
      BY <2>2, <3>2
  <2> QED
    BY <2>1, <2>2
<1> HIDE DEF r, u
<1>4. x[1] \in {"walk", "more"} /\ \A m : x # Do("get", m) /\ x # Do("let", m)
  BY SMTT(30) DEF Do
<1>5. \A l \in Locks : Held(r, l) <=> Held(todo[t], l)
  BY <1>1, <1>3, <1>4 DEF Pushed
<1>6. cur'[t] = a /\ \A v \in Workers \ {t} : cur'[v] = cur[v]
  BY DEF LockBase, MmuTypes
<1>7. Do("more", "all") \in StepsOf(r) => cur'[t] # NoAte
  <2>1. Do("more", "all")[1] = "more"
    BY DEF Do
  <2>2. Do("more", "all") \notin StepsOf(u)
    BY <2>1, <1>1, <1>4 DEF Fit
  <2> QED
    BY <2>2, <1>3, <1>6
<1>8. MoreInv'
  BY <1>2, <1>3, <1>6, <1>7, MoreKept
<1>9. LockInv' /\ todo' \in [Workers -> Rests]
  <2>1. WellFormed(r, Nesting({calling[t]}))
    BY <1>3 DEF N
  <2> QED
    BY <2>1, <1>2, <1>3, <1>5, LocksKept
<1>10. MmuTypes'
  BY <1>9 DEF LockBase, MmuTypes
<1> QED
  BY <1>8, <1>9, <1>10 DEF LockBase

\* No walk but that of sbma_mevictall_int, and no step that gives back what is not held.
LEMMA WalksAll ==
  ASSUME LockBase, NEW t \in Workers
  PROVE  /\ \A w \in {"walk", "more"} : \A how : Now(t, w, how) => how = "all"
         /\ \A a \in Ates : ~ Now(t, "drop", a)
<1>1. todo[t] # <<>> => Head(todo[t]) \in MmuSteps
  BY Doing
<1>2. \A w, x : Now(t, w, x) => Do(w, x) \in MmuSteps
  BY <1>1 DEF Now
<1>3. /\ \A w \in {"walk", "more"} : \A how : Do(w, how) \in MmuSteps => how = "all"
      /\ \A a \in Ates : Do("drop", a) \notin MmuSteps
  BY DEF MmuSteps, Do
<1> QED
  BY <1>2, <1>3

LEMMA LockWalk ==
  ASSUME LockBase, NEW t \in Workers, Walk(t) \/ WalkOn(t)
  PROVE  LockBase'
<1>1. CASE Walk(t)
  <2>1. /\ todo[t] # <<>> /\ Head(todo[t]) = Do("walk", "all")
        /\ cur' = [cur EXCEPT ![t] = a_tbl]
        /\ Then(t, IF a_tbl = NoAte THEN <<>> ELSE Visit("all", a_tbl))
        /\ calling' = calling /\ a_tbl' = a_tbl /\ next' = next /\ prev' = prev /\ mapped' = mapped
        /\ holder' = holder /\ depth' = depth
    BY <1>1, WalksAll DEF Walk, Now, list, locking
  <2>2. a_tbl \in Ates \union {NoAte}
    BY DEF LockBase, MmuTypes
  <2> QED
    BY <2>1, <2>2, LockVisit
<1>2. CASE WalkOn(t)
  <2> DEFINE a == next[cur[t]]
  <2>1. /\ todo[t] # <<>> /\ Head(todo[t]) = Do("more", "all")
        /\ cur' = [cur EXCEPT ![t] = a]
        /\ Then(t, IF a = NoAte THEN <<>> ELSE Visit("all", a))
        /\ calling' = calling /\ a_tbl' = a_tbl /\ next' = next /\ prev' = prev /\ mapped' = mapped
        /\ holder' = holder /\ depth' = depth
    BY <1>2, WalksAll DEF WalkOn, Now, list, locking
  <2>2. cur[t] # NoAte
    <3>1. Do("more", "all") \in StepsOf(todo[t])
      BY <2>1, Doing DEF Pushed
    <3> QED
      BY <3>1 DEF LockBase, MoreInv
  <2>3. a \in Ates \union {NoAte}
    BY <2>2 DEF LockBase, MmuTypes
  <2> HIDE DEF a
  <2> QED
    BY <2>1, <2>3, LockVisit
<1> QED
  BY <1>1, <1>2

LEMMA LockListSteps ==
  ASSUME LockBase, NEW t \in Workers, mmu_insert_ate(t) \/ mmu_invalidate_ate(t) \/ Munmap(t)
  PROVE  LockBase'
<1>1. CASE mmu_insert_ate(t)
  <2>1. PICK a \in Ates :
          /\ Now(t, "insert", a) /\ a_tbl' = a /\ next' = [next EXCEPT ![a] = a_tbl]
          /\ prev' = [b \in Ates |-> IF b = a THEN IF a_tbl = NoAte THEN NoAte ELSE prev[a_tbl]
                                     ELSE IF b = a_tbl THEN a ELSE prev[b]]
          /\ Then(t, <<>>) /\ UNCHANGED <<calling, mapped, locking, cur, stray, caught>>
    BY <1>1 DEF mmu_insert_ate
  <2>2. /\ todo[t] # <<>> /\ Head(todo[t])[1] = "insert"
        /\ calling' = calling /\ mapped' = mapped /\ holder' = holder /\ depth' = depth /\ cur' = cur
    BY <2>1, SMTT(30) DEF Now, locking, Do
  <2>3. LockInv' /\ MoreInv' /\ todo' \in [Workers -> Rests]
    BY <2>1, <2>2, LockPlain
  <2>4. prev' \in [Ates -> Ates \union {NoAte}]
    BY <2>1 DEF LockBase, MmuTypes
  <2>5. MmuTypes'
    BY <2>1, <2>2, <2>3, <2>4 DEF LockBase, MmuTypes
  <2> QED
    BY <2>3, <2>5 DEF LockBase
<1>2. CASE mmu_invalidate_ate(t)
  <2>1. PICK a \in Ates :
          /\ Now(t, "remove", a)
          /\ IF prev[a] = NoAte THEN a_tbl' = next[a] /\ UNCHANGED next
             ELSE next' = [next EXCEPT ![prev[a]] = next[a]] /\ UNCHANGED a_tbl
          /\ prev' = IF next[a] = NoAte THEN prev ELSE [prev EXCEPT ![next[a]] = prev[a]]
          /\ Then(t, <<>>) /\ UNCHANGED <<calling, mapped, locking, cur, stray>>
    BY <1>2 DEF mmu_invalidate_ate
  <2>2. /\ todo[t] # <<>> /\ Head(todo[t])[1] = "remove"
        /\ calling' = calling /\ mapped' = mapped /\ holder' = holder /\ depth' = depth /\ cur' = cur
    BY <2>1, SMTT(30) DEF Now, locking, Do
  <2>3. LockInv' /\ MoreInv' /\ todo' \in [Workers -> Rests]
    BY <2>1, <2>2, LockPlain
  <2>4. prev' \in [Ates -> Ates \union {NoAte}] /\ next' \in [Ates -> Ates \union {NoAte}]
    BY <2>1 DEF LockBase, MmuTypes
  <2>5. MmuTypes'
    BY <2>1, <2>2, <2>3, <2>4, SMTT(30) DEF LockBase, MmuTypes
  <2> QED
    BY <2>3, <2>5 DEF LockBase
<1>3. CASE Munmap(t)
  <2>1. PICK a \in Ates :
          /\ Now(t, "munmap", a) /\ mapped' = mapped \ {a}
          /\ Then(t, <<>>) /\ UNCHANGED <<calling, a_tbl, next, prev, locking, cur, stray, caught>>
    BY <1>3 DEF Munmap
  <2>2. /\ todo[t] # <<>> /\ Head(todo[t])[1] = "munmap"
        /\ calling' = calling /\ a_tbl' = a_tbl /\ next' = next /\ prev' = prev
        /\ holder' = holder /\ depth' = depth /\ cur' = cur
    BY <2>1, SMTT(30) DEF Now, locking, Do
  <2>3. LockInv' /\ MoreInv' /\ todo' \in [Workers -> Rests]
    BY <2>1, <2>2, LockPlain
  <2>4. MmuTypes'
    BY <2>1, <2>2, <2>3 DEF LockBase, MmuTypes
  <2> QED
    BY <2>3, <2>4 DEF LockBase
<1> QED
  BY <1>1, <1>2, <1>3

\* What each kind of call takes under what.
LEMMA NestingHas ==
  ASSUME NEW calls, NEW a \in Ates
  PROVE  /\ calls \intersect {"mexist", "mtouch", "read fault", "write fault", "atomic"} # {}
              => <<"mmu", a>> \in Nesting(calls)
         /\ "read fault" \in calls => <<a, "vmm">> \in Nesting(calls)
         /\ "mevictall" \in calls => <<"vmm", a>> \in Nesting(calls)
         /\ "atomic" \in calls =>
              <<a, "mmu">> \in Nesting(calls) /\ \A b \in Ates : <<a, b>> \in Nesting(calls)
<1>1. /\ <<"mmu", a>> \in Locks \X Locks /\ <<a, "vmm">> \in Locks \X Locks
      /\ <<"vmm", a>> \in Locks \X Locks /\ <<a, "mmu">> \in Locks \X Locks
      /\ \A b \in Ates : <<a, b>> \in Locks \X Locks
  BY DEF Locks
<1>2. /\ <<"mmu", a>>[1] = "mmu" /\ <<"mmu", a>>[2] = a /\ <<a, "vmm">>[1] = a /\ <<a, "vmm">>[2] = "vmm"
      /\ <<"vmm", a>>[1] = "vmm" /\ <<"vmm", a>>[2] = a /\ <<a, "mmu">>[1] = a /\ <<a, "mmu">>[2] = "mmu"
      /\ \A b : <<a, b>>[1] = a /\ <<a, b>>[2] = b
  OBVIOUS
<1> QED
  BY <1>1, <1>2 DEF Nesting

\* A call that accesses entries starts with entries that are allocated.
LEMMA AccessCall ==
  ASSUME NEW t \in Workers, Access(t) \/ CopyRanges(t), mapped \subseteq Ates
  PROVE  \E A, n, c :
           /\ A \in SUBSET Allocated
           /\ Call(c, Nesting({n})) /\ StepsOf(c) \subseteq About(A)
           /\ Begin(t, n, c) /\ UNCHANGED list
<1>1. Allocated \subseteq Ates
  BY DEF Allocated
<1>2. CASE Access(t)
  <2>1. PICK a \in Allocated :
          /\ UNCHANGED list
          /\ \/ Begin(t, "mexist", mexist(a))
             \/ Begin(t, "mtouch", sbma_mtouch(a))
             \/ Begin(t, "read fault", read_fault(a))
             \/ Begin(t, "write fault", write_fault(a))
    BY <1>2 DEF Access
  <2>2. a \in Ates /\ {a} \in SUBSET Allocated
    BY <1>1, <2>1
  <2>3. CASE Begin(t, "mexist", mexist(a))
    <3>1. Call(mexist(a), Nesting({"mexist"})) /\ StepsOf(mexist(a)) \subseteq About({a})
      BY <2>2, NestingHas, CallMexist
    <3> QED
      BY <2>1, <2>2, <2>3, <3>1
  <2>4. CASE Begin(t, "mtouch", sbma_mtouch(a))
    <3>1. Call(sbma_mtouch(a), Nesting({"mtouch"})) /\ StepsOf(sbma_mtouch(a)) \subseteq About({a})
      BY <2>2, NestingHas, CallMtouch
    <3> QED
      BY <2>1, <2>2, <2>4, <3>1
  <2>5. CASE Begin(t, "read fault", read_fault(a))
    <3>1. Call(read_fault(a), Nesting({"read fault"})) /\ StepsOf(read_fault(a)) \subseteq About({a})
      BY <2>2, NestingHas, CallReadFault
    <3> QED
      BY <2>1, <2>2, <2>5, <3>1
  <2>6. CASE Begin(t, "write fault", write_fault(a))
    <3>1. Call(write_fault(a), Nesting({"write fault"})) /\ StepsOf(write_fault(a)) \subseteq About({a})
      BY <2>2, NestingHas, CallMtouch
    <3> QED
      BY <2>1, <2>2, <2>6, <3>1
  <2> QED
    BY <2>1, <2>3, <2>4, <2>5, <2>6
<1>3. CASE CopyRanges(t)
  <2>1. PICK a \in Allocated, b \in Allocated :
          a # b /\ Begin(t, "atomic", sbma_mtouch_atomic(a, b)) /\ UNCHANGED list
    BY <1>3 DEF CopyRanges
  <2>2. a \in Ates /\ b \in Ates /\ {a, b} \in SUBSET Allocated
    BY <1>1, <2>1
  <2>3. /\ Call(sbma_mtouch_atomic(a, b), Nesting({"atomic"}))
        /\ StepsOf(sbma_mtouch_atomic(a, b)) \subseteq About({a, b})
    <3>1. /\ <<"mmu", a>> \in Nesting({"atomic"}) /\ <<"mmu", b>> \in Nesting({"atomic"})
          /\ <<a, "mmu">> \in Nesting({"atomic"}) /\ <<a, b>> \in Nesting({"atomic"})
      BY <2>2, NestingHas
    <3> QED
      BY <2>1, <2>2, <3>1, CallAtomic
  <2> QED
    BY <2>1, <2>2, <2>3
<1> QED
  BY <1>2, <1>3

LEMMA LockCalls ==
  ASSUME LockBase, NEW t \in Workers,
         Access(t) \/ CopyRanges(t) \/ EvictAll(t) \/ Malloc(t) \/ Free(t)
  PROVE  LockBase'
<1>0. Do("more", "all")[1] = "more" /\ mapped \subseteq Ates
  BY DEF Do, LockBase, MmuTypes
<1>1. CASE Access(t) \/ CopyRanges(t)
  <2>1. PICK A, n, c :
          /\ A \in SUBSET Allocated
          /\ Call(c, Nesting({n})) /\ StepsOf(c) \subseteq About(A)
          /\ Begin(t, n, c) /\ UNCHANGED list
    BY <1>0, <1>1, AccessCall
  <2>2. Do("more", "all") \notin StepsOf(c)
    <3>1. A \in SUBSET Ates
      BY <1>0, <2>1 DEF Allocated
    <3> QED
      BY <2>1, <3>1, <1>0, AboutSteps
  <2>3. a_tbl' = a_tbl /\ next' = next /\ prev' = prev /\ mapped' = mapped
    BY <2>1 DEF list
  <2>4. /\ LockInv' /\ MoreInv' /\ todo' \in [Workers -> Rests]
        /\ calling' \in [Workers -> Calls \union {"none"}]
        /\ cur' = cur /\ holder' = holder /\ depth' = depth
    BY <2>1, <2>2, LockBegin
  <2>5. MmuTypes'
    BY <2>3, <2>4 DEF LockBase, MmuTypes
  <2> QED
    BY <2>4, <2>5 DEF LockBase
<1>2. CASE EvictAll(t)
  <2>1. /\ Begin(t, "mevictall", sbma_mevictall)
        /\ a_tbl' = a_tbl /\ next' = next /\ prev' = prev /\ mapped' = mapped
    BY <1>2 DEF EvictAll, list
  <2>2. /\ Call(sbma_mevictall, Nesting({"mevictall"}))
        /\ StepsOf(sbma_mevictall) \subseteq ({"get", "let"} \X {"mmu", "vmm"}) \union {Do("walk", "all")}
    BY NestingHas, CallEvictAll
  <2>3. Do("more", "all") \notin StepsOf(sbma_mevictall)
    BY <2>2, <1>0 DEF Do
  <2>4. /\ LockInv' /\ MoreInv' /\ todo' \in [Workers -> Rests]
        /\ calling' \in [Workers -> Calls \union {"none"}]
        /\ cur' = cur /\ holder' = holder /\ depth' = depth
    BY <2>1, <2>2, <2>3, LockBegin
  <2>5. MmuTypes'
    BY <2>1, <2>4 DEF LockBase, MmuTypes
  <2> QED
    BY <2>4, <2>5 DEF LockBase
<1>3. CASE Malloc(t)
  <2>1. PICK a \in Ates \ mapped :
          /\ Begin(t, "malloc", sbma_malloc(a)) /\ mapped' = mapped \union {a}
          /\ a_tbl' = a_tbl /\ next' = next /\ prev' = prev
    BY <1>3 DEF Malloc
  <2>2. /\ Call(sbma_malloc(a), Nesting({"malloc"}))
        /\ StepsOf(sbma_malloc(a)) = {Do("get", "mmu"), Do("insert", a), Do("let", "mmu")}
    BY CallMalloc
  <2>3. Do("more", "all") \notin StepsOf(sbma_malloc(a))
    BY <2>2 DEF Do
  <2>4. /\ LockInv' /\ MoreInv' /\ todo' \in [Workers -> Rests]
        /\ calling' \in [Workers -> Calls \union {"none"}]
        /\ cur' = cur /\ holder' = holder /\ depth' = depth
    BY <2>1, <2>2, <2>3, LockBegin
  <2>5. MmuTypes'
    BY <2>1, <2>4 DEF LockBase, MmuTypes
  <2> QED
    BY <2>4, <2>5 DEF LockBase
<1>4. CASE Free(t)
  <2>1. PICK a \in Idle :
          /\ Begin(t, "free", sbma_free(a))
          /\ a_tbl' = a_tbl /\ next' = next /\ prev' = prev /\ mapped' = mapped
    BY <1>4 DEF Free, list
  <2>2. a \in Ates
    BY <1>0 DEF Idle
  <2>3. /\ Call(sbma_free(a), Nesting({"free"}))
        /\ StepsOf(sbma_free(a)) =
             {Do("get", "mmu"), Do("remove", a), Do("let", "mmu"), Do("munmap", a)}
    BY <2>2, CallFree
  <2>4. Do("more", "all") \notin StepsOf(sbma_free(a))
    BY <2>3 DEF Do
  <2>5. /\ LockInv' /\ MoreInv' /\ todo' \in [Workers -> Rests]
        /\ calling' \in [Workers -> Calls \union {"none"}]
        /\ cur' = cur /\ holder' = holder /\ depth' = depth
    BY <2>1, <2>3, <2>4, LockBegin
  <2>6. MmuTypes'
    BY <2>1, <2>5 DEF LockBase, MmuTypes
  <2> QED
    BY <2>5, <2>6 DEF LockBase
<1> QED
  BY <1>1, <1>2, <1>3, <1>4

\* The actions, of which those of sbma_mtouchall do not occur.
LEMMA StepsTaken ==
  ASSUME NoTouchAll, LockBase, [MmuNext]_mmuvars
  PROVE  \/ UNCHANGED mmuvars
         \/ /\ ~ caught
            /\ \E t \in Workers :
                 \/ Get(t) \/ Let(t) \/ SearchFirst(t) \/ Search(t) \/ Walk(t) \/ WalkOn(t)
                 \/ mmu_insert_ate(t) \/ mmu_invalidate_ate(t) \/ Munmap(t)
                 \/ Access(t) \/ CopyRanges(t) \/ EvictAll(t) \/ Malloc(t) \/ Free(t)
<1>1. \A t \in Workers : ~ Drop(t)
  BY WalksAll DEF Drop
<1>2. \A t \in Workers : ~ TouchAll(t)
  BY DEF TouchAll, Begin, NoTouchAll
<1> QED
  BY <1>1, <1>2 DEF MmuNext, MmuStep

LEMMA LockBaseStep ==
  ASSUME NoTouchAll
  PROVE  LockBase /\ [MmuNext]_mmuvars => LockBase'
<1> SUFFICES ASSUME LockBase, [MmuNext]_mmuvars PROVE LockBase'
  OBVIOUS
<1>1. CASE UNCHANGED mmuvars
  <2>1. /\ calling' = calling /\ a_tbl' = a_tbl /\ next' = next /\ prev' = prev /\ mapped' = mapped
        /\ holder' = holder /\ depth' = depth /\ todo' = todo /\ cur' = cur
    BY <1>1 DEF mmuvars, list, locking
  <2> QED
    BY <2>1 DEF LockBase, MmuTypes, LockInv, MoreInv
<1> QED
  BY <1>1, StepsTaken, LockGet, LockLet, LockSearchFirst, LockSearch, LockWalk, LockListSteps, LockCalls

\* For all threads and calls: the locks are held as the calls say.
LEMMA LockBaseAlways ==
  ASSUME NoTouchAll
  PROVE  MmuSpec => []LockBase
<1>1. LockBase /\ [MmuNext]_mmuvars => LockBase'
  BY LockBaseStep
<1> QED
  BY <1>1, LockBaseInit, PTL DEF MmuSpec

------------------------------------------------------------------------------
\* A thread that waits for a lock holds only locks under which it may be taken.
LEMMA WaitsNested ==
  ASSUME LockBase, NEW t \in Workers, NEW l \in Locks, Now(t, "get", l),
         NEW m \in Locks, holder[m] = t
  PROVE  <<m, l>> \in Nesting({calling[t]})
<1> DEFINE s == todo[t]
           N == Nesting({calling[t]})
           x == Head(s)
           u == Tail(s)
<1>1. s # <<>> /\ x = Do("get", l)
  BY DEF Now
<1>2. Pushed(s, x, u, N) /\ Fit(x, u, N)
  BY <1>1, Doing
<1>3. Held(s, m)
  BY DEF LockBase, LockInv
<1> HIDE DEF s, N, x, u
<1>4. x[1] = "get" /\ x[2] = l /\ \A k : x # Do("let", k) /\ (x = Do("get", k) <=> k = l)
  BY <1>1 DEF Do
<1>5. m # l /\ Held(u, m)
  BY <1>2, <1>3, <1>4 DEF Pushed
<1> QED
  BY <1>2, <1>4, <1>5 DEF Fit, N

LEMMA CirclesNow ==
  ASSUME LockBase
  PROVE  CircleCause
<1> SUFFICES ASSUME NEW S \in SUBSET Workers, Circle(S),
                    \A t \in S : calling[t] # "atomic",
                    \A t, u \in S : ~ (calling[t] = "mevictall" /\ calling[u] = "read fault")
             PROVE  FALSE
  BY DEF CircleCause
<1>1. PICK t1 \in S : TRUE
  BY DEF Circle
<1>2. PICK t2 \in S : Waits(t1, t2)
  BY <1>1 DEF Circle
<1>3. PICK t3 \in S : Waits(t2, t3)
  BY <1>2 DEF Circle
<1>4. PICK t4 \in S : Waits(t3, t4)
  BY <1>3 DEF Circle
<1>5. PICK t5 \in S : Waits(t4, t5)
  BY <1>4 DEF Circle
<1>6. PICK l1 \in Locks : holder[l1] = t2
  BY <1>2 DEF Waits
<1>7. PICK l2 \in Locks : Now(t2, "get", l2) /\ holder[l2] = t3
  BY <1>3 DEF Waits
<1>8. PICK l3 \in Locks : Now(t3, "get", l3) /\ holder[l3] = t4
  BY <1>4 DEF Waits
<1>9. PICK l4 \in Locks : Now(t4, "get", l4)
  BY <1>5 DEF Waits
<1>10. /\ <<l1, l2>> \in Nesting({calling[t2]}) /\ <<l2, l3>> \in Nesting({calling[t3]})
       /\ <<l3, l4>> \in Nesting({calling[t4]})
  BY <1>6, <1>7, <1>8, <1>9, WaitsNested
<1>11. \A a \in Ates : a # "mmu" /\ a # "vmm"
  BY MmuAssumption
<1>12. ASSUME NEW t \in S, NEW l \in Locks, NEW m \in Locks, <<l, m>> \in Nesting({calling[t]})
       PROVE  \/ l = "mmu" /\ m \in Ates
              \/ l \in Ates /\ m = "vmm" /\ calling[t] = "read fault"
              \/ l = "vmm" /\ m \in Ates /\ calling[t] = "mevictall"
  BY <1>12 DEF Nesting
<1>13. /\ \/ l1 = "mmu" /\ l2 \in Ates
          \/ l1 \in Ates /\ l2 = "vmm" /\ calling[t2] = "read fault"
          \/ l1 = "vmm" /\ l2 \in Ates /\ calling[t2] = "mevictall"
       /\ \/ l2 = "mmu" /\ l3 \in Ates
          \/ l2 \in Ates /\ l3 = "vmm" /\ calling[t3] = "read fault"
          \/ l2 = "vmm" /\ l3 \in Ates /\ calling[t3] = "mevictall"
       /\ \/ l3 = "mmu" /\ l4 \in Ates
          \/ l3 \in Ates /\ l4 = "vmm" /\ calling[t4] = "read fault"
          \/ l3 = "vmm" /\ l4 \in Ates /\ calling[t4] = "mevictall"
  BY <1>10, <1>12
<1> QED
  BY <1>11, <1>13

\* For any number of threads and entries: threads wait for each other's locks in a
\* circle (mmu.lock, vmm.lock and the locks of the entries) only where one of them
\* is in sbma_mtouch_atomic, or where one evicts everything (by a call or for a
\* SIGIPC) and another handles a read fault.
THEOREM CirclesHaveACause ==
  ASSUME NoTouchAll
  PROVE  MmuSpec => []CircleCause
<1>1. LockBase => CircleCause
  BY CirclesNow
<1> QED
  BY <1>1, LockBaseAlways, PTL

------------------------------------------------------------------------------
(***************************************************************************)
(* The list: what the steps of all threads are about, and where it leads.  *)
(***************************************************************************)
\* Has thread t the step w on a left to do, has any?
Has(t, w, a) == Do(w, a) \in StepsOf(todo[t])
Some(w, a) == \E u \in Workers : Has(u, w, a)

\* Allocated, and neither being inserted nor being freed.
Live(a) == a \in mapped /\ ~ Some("insert", a) /\ ~ Some("munmap", a)

\* A walk stands on the entry.
Stands(t, a) == Has(t, "more", "all") /\ cur[t] = a

\* Calls access live entries and the one a walk stands on, and only one is sbma_malloc or sbma_free of an entry.
Uses == {"get", "let", "first", "search"}
SubjectInv ==
  /\ \A t \in Workers, w \in Uses, a \in Ates : Has(t, w, a) => Live(a) \/ Stands(t, a)
  /\ \A t \in Workers, a \in Ates : Has(t, "insert", a) =>
       a \in mapped /\ ~ Some("munmap", a) /\ \A u \in Workers \ {t} : ~ Has(u, "insert", a)
  /\ \A t \in Workers, a \in Ates : Has(t, "munmap", a) =>
       a \in mapped /\ \A u \in Workers \ {t} : ~ Has(u, "munmap", a)
  /\ \A t \in Workers, a \in Ates : Has(t, "remove", a) => Has(t, "munmap", a)

\* A walk stands on an entry of the list, as long as none was freed under a walk.
WalkInv == caught \/ \A t \in Workers : Has(t, "more", "all") => cur[t] \in Inserted

\* next and prev are inverse, and every entry of the list is reached from a_tbl.
ListInv ==
  /\ a_tbl \in Inserted \union {NoAte}
  /\ a_tbl # NoAte => prev[a_tbl] = NoAte
  /\ \A b \in Inserted : next[b] # NoAte => next[b] \in Inserted /\ prev[next[b]] = b
  /\ \A b \in Inserted : b # a_tbl => prev[b] \in Inserted /\ next[prev[b]] = b
  /\ \A S \in SUBSET Inserted : Kept(S) /\ a_tbl \in S \union {NoAte} => S = Inserted

\* A search is at an entry of the list from which next leads to what it looks for.
Reaches(b, a) == \A S \in SUBSET Inserted : Kept(S) /\ b \in S => a \in S
SearchInv ==
  \A t \in Workers, a \in Ates : Starts(todo[t], Do("search", a)) => cur[t] \in Inserted /\ Reaches(cur[t], a)
FoundInv == \A t \in Workers, a \in Ates : Searched(todo[t], a) => cur[t] = a

MmuInv ==
  LockBase /\ SubjectInv /\ WalkInv /\ ListInv /\ SearchInv /\ FoundInv /\ NoStrayRead

LEMMA InsertedIs ==
  \A a : a \in Inserted <=>
           (a \in mapped /\ ~ Some("insert", a) /\ (Some("munmap", a) => Some("remove", a)))
  BY SMTT(30) DEF Inserted, AllSteps, Steps, Some, Has, StepsOf

LEMMA InsertedIsThen ==
  \A a : a \in Inserted' <=>
           (a \in mapped' /\ ~ Some("insert", a)' /\ (Some("munmap", a)' => Some("remove", a)'))
  BY SMTT(30) DEF Inserted, AllSteps, Steps, Some, Has, StepsOf

\* A live entry is in the list.
LEMMA LiveInserted ==
  ASSUME NEW a, Live(a)
  PROVE  a \in Inserted
  BY InsertedIs DEF Live

\* Steps that change neither the list nor what is inserted, removed and unmapped:
\* all that matters is what the thread itself does next.
LEMMA QuietStep ==
  ASSUME MmuInv, ~ caught, NEW t \in Workers, NEW r \in Rests, todo' = [todo EXCEPT ![t] = r],
         a_tbl' = a_tbl, next' = next, prev' = prev, mapped' = mapped,
         \A u \in Workers \ {t} : cur'[u] = cur[u],
         \A w \in {"insert", "remove", "munmap"}, a \in Ates :
           Do(w, a) \in StepsOf(r) <=> Do(w, a) \in StepsOf(todo[t]),
         \A w \in Uses, a \in Ates :
           Do(w, a) \in StepsOf(r) => Live(a) \/ (Do("more", "all") \in StepsOf(r) /\ cur'[t] = a),
         Do("more", "all") \in StepsOf(r) => cur'[t] \in Inserted,
         \A a \in Ates : Starts(r, Do("search", a)) => cur'[t] \in Inserted /\ Reaches(cur'[t], a),
         \A a \in Ates : Searched(r, a) => cur'[t] = a
  PROVE  SubjectInv' /\ WalkInv' /\ ListInv' /\ SearchInv' /\ FoundInv'
<1> USE DEF MmuInv
<1>1. \A u \in Workers : todo'[u] = IF u = t THEN r ELSE todo[u]
  BY DEF LockBase, MmuTypes
<1>2. \A u \in Workers, w \in {"insert", "remove", "munmap"}, a \in Ates : Has(u, w, a)' <=> Has(u, w, a)
  BY <1>1 DEF Has
<1>3. \A w \in {"insert", "remove", "munmap"}, a \in Ates : Some(w, a)' <=> Some(w, a)
  BY <1>2 DEF Some
<1>4. mapped \subseteq Ates
  BY DEF LockBase, MmuTypes
<1>5. Inserted' = Inserted
  <2>1. \A a : a \in Inserted' <=> a \in Inserted
    BY <1>3, <1>4, InsertedIs, InsertedIsThen
  <2> QED
    BY <2>1
<1>6. \A a \in Ates : Live(a)' <=> Live(a)
  BY <1>3 DEF Live
<1>7. SubjectInv'
  <2>1. \A u \in Workers, w \in Uses, a \in Ates : Has(u, w, a)' => Live(a)' \/ Stands(u, a)'
    <3>1. SUFFICES ASSUME NEW u \in Workers, NEW w \in Uses, NEW a \in Ates, Has(u, w, a)'
                   PROVE  Live(a) \/ Stands(u, a)'
      BY <1>6
    <3>2. CASE u = t
      <4>1. Do(w, a) \in StepsOf(r)
        BY <1>1, <3>1, <3>2 DEF Has
      <4>2. CASE Do("more", "all") \in StepsOf(r) /\ cur'[t] = a
        BY <1>1, <3>2, <4>2 DEF Has, Stands
      <4> QED
        BY <4>1, <4>2
    <3>3. CASE u # t
      <4>1. Has(u, w, a)
        BY <1>1, <3>1, <3>3 DEF Has
      <4>2. Live(a) \/ Stands(u, a)
        BY <4>1 DEF SubjectInv
      <4>3. Stands(u, a) => Stands(u, a)'
        BY <1>1, <3>3 DEF Has, Stands
      <4> QED
        BY <4>2, <4>3
    <3> QED
      BY <3>2, <3>3
  <2>2. \A u \in Workers, a \in Ates : Has(u, "insert", a)' =>
          a \in mapped' /\ ~ Some("munmap", a)' /\ \A v \in Workers \ {u} : ~ Has(v, "insert", a)'
    BY <1>2, <1>3 DEF SubjectInv
  <2>3. \A u \in Workers, a \in Ates : Has(u, "munmap", a)' =>
          a \in mapped' /\ \A v \in Workers \ {u} : ~ Has(v, "munmap", a)'
    BY <1>2 DEF SubjectInv
  <2>4. \A u \in Workers, a \in Ates : Has(u, "remove", a)' => Has(u, "munmap", a)'
    BY <1>2 DEF SubjectInv
  <2> QED
    BY <2>1, <2>2, <2>3, <2>4 DEF SubjectInv
<1>8. WalkInv'
  <2>1. \A u \in Workers : Has(u, "more", "all")' => cur'[u] \in Inserted'
    BY <1>1, <1>5 DEF WalkInv, Has
  <2> QED
    BY <2>1 DEF WalkInv
<1>9. ListInv'
  BY <1>5 DEF ListInv, Kept
<1>10. SearchInv'
  <2>2. \A u \in Workers, a \in Ates :
          Starts(todo'[u], Do("search", a)) => cur'[u] \in Inserted /\ Reaches(cur'[u], a)
    BY <1>1, ZenonT(40) DEF SearchInv
  <2>3. \A u \in Workers, a \in Ates :
          Starts(todo'[u], Do("search", a)) => cur'[u] \in Inserted' /\ Reaches(cur[u], a)'
    <3>1. \A u \in Workers, a \in Ates : Reaches(cur'[u], a) => Reaches(cur[u], a)'
      BY <1>5 DEF Reaches, Kept
    <3> QED
      BY <1>5, <2>2, <3>1
  <2> QED
    BY <2>3 DEF SearchInv
<1>11. FoundInv'
  <2>1. \A u \in Workers, a \in Ates : Searched(todo'[u], a) => cur'[u] = a
    BY <1>1 DEF FoundInv
  <2> QED
    BY <2>1 DEF FoundInv
<1> QED
  BY <1>7, <1>8, <1>9, <1>10, <1>11

LEMMA StartsStep ==
  ASSUME NEW u \in Rests, NEW y, Starts(u, y)
  PROVE  y \in StepsOf(u)
<1>1. Head(u) \in MmuSteps /\ Tail(u) \in Rests /\ u = <<Head(u)>> \o Tail(u)
  BY Uncons DEF Starts
<1>2. StepsOf(<<Head(u)>> \o Tail(u)) = {Head(u)} \union StepsOf(Tail(u))
  BY <1>1, ConsSteps
<1> QED
  BY <1>1, <1>2 DEF Starts

\* A step that is done with, of those on locks, searches and walks.
LEMMA QuietPop ==
  ASSUME MmuInv, ~ caught, NEW t \in Workers, todo[t] # <<>>, Then(t, <<>>),
         Head(todo[t])[1] \in {"get", "let", "search", "walk", "more"},
         \A a \in Ates : Head(todo[t]) = Do("search", a) => cur[t] = a,
         a_tbl' = a_tbl, next' = next, prev' = prev, mapped' = mapped,
         \A v \in Workers \ {t} : cur'[v] = cur[v],
         cur'[t] = cur[t] \/ Head(todo[t])[1] \in {"walk", "more"}
  PROVE  SubjectInv' /\ WalkInv' /\ ListInv' /\ SearchInv' /\ FoundInv'
<1> DEFINE s == todo[t]
           N == Nesting({calling[t]})
           x == Head(s)
           u == Tail(s)
<1>1. LockBase
  BY DEF MmuInv
<1>2. x \in MmuSteps /\ u \in Rests /\ Pushed(s, x, u, N) /\ Fit(x, u, N)
  BY <1>1, Doing
<1>3. todo' = [todo EXCEPT ![t] = u]
  BY <1>1, Pops
<1>4. /\ x[1] \in {"get", "let", "search", "walk", "more"}
      /\ \A a \in Ates : x = Do("search", a) => cur[t] = a
      /\ cur'[t] = cur[t] \/ x[1] \in {"walk", "more"}
  OBVIOUS
<1>5. /\ Do("more", "all") \in StepsOf(s) => cur[t] \in Inserted
      /\ \A w \in Uses, a \in Ates :
           Do(w, a) \in StepsOf(s) => Live(a) \/ (Do("more", "all") \in StepsOf(s) /\ cur[t] = a)
  BY DEF MmuInv, WalkInv, SubjectInv, Has, Stands
<1> HIDE DEF s, N, x, u
<1>6. StepsOf(s) = {x} \union StepsOf(u)
  BY <1>2 DEF Pushed
<1>7. \A w \in {"insert", "remove", "munmap"}, a \in Ates : Do(w, a) \in StepsOf(u) <=> Do(w, a) \in StepsOf(s)
  <2>1. \A w \in {"insert", "remove", "munmap"}, a \in Ates : Do(w, a) # x
    BY <1>4, SMTT(30) DEF Do
  <2> QED
    BY <2>1, <1>6
<1>8. \A w \in Uses, a \in Ates :
        Do(w, a) \in StepsOf(u) => Live(a) \/ (Do("more", "all") \in StepsOf(u) /\ cur'[t] = a)
  <2>1. CASE x[1] \in {"walk", "more"}
    <3>1. \A w \in Uses, a \in Ates : Do(w, a)[2] = a
      BY DEF Do
    <3>2. \A w \in Uses, a \in Ates : Do(w, a) \notin StepsOf(u)
      BY <2>1, <3>1, <1>2 DEF Fit
    <3> QED
      BY <3>2
  <2>2. CASE x[1] \notin {"walk", "more"}
    <3>1. Do("more", "all")[1] = "more"
      BY DEF Do
    <3>2. Do("more", "all") # x
      BY <2>2, <3>1
    <3> QED
      BY <2>2, <3>2, <1>4, <1>5, <1>6
  <2> QED
    BY <2>1, <2>2
<1>10. Do("more", "all") \in StepsOf(u) => cur'[t] \in Inserted
  <2>1. CASE cur'[t] = cur[t]
    BY <2>1, <1>5, <1>6
  <2>2. CASE x[1] \in {"walk", "more"}
    <3>1. Do("more", "all")[1] = "more"
      BY DEF Do
    <3> QED
      BY <2>2, <3>1, <1>2 DEF Fit
  <2> QED
    BY <2>1, <2>2, <1>4
<1>11. \A a \in Ates : ~ Starts(u, Do("search", a))
  <2>1. \A a \in Ates : Do("search", a)[1] = "search"
    BY DEF Do
  <2>2. \A a \in Ates : Do("search", a) \notin StepsOf(u)
    BY <2>1, <1>2 DEF Fit
  <2> QED
    BY <2>2, <1>2, StartsStep
<1>12. \A a \in Ates : Searched(u, a) => cur'[t] = a
  <2>1. SUFFICES ASSUME NEW a \in Ates, Searched(u, a) PROVE cur'[t] = a
    OBVIOUS
  <2>2. x \in {Do("first", a), Do("search", a)}
    BY <2>1, <1>2 DEF Fit
  <2>3. Do("first", a)[1] = "first" /\ Do("search", a)[1] = "search"
    BY DEF Do
  <2> QED
    BY <2>2, <2>3, <1>4
<1>13. /\ \A w \in {"insert", "remove", "munmap"}, a \in Ates :
            Do(w, a) \in StepsOf(u) <=> Do(w, a) \in StepsOf(todo[t])
  BY <1>7 DEF s
<1> QED
  BY <1>2, <1>3, <1>8, <1>10, <1>11, <1>12, <1>13, QuietStep

LEMMA ListGetLet ==
  ASSUME MmuInv, ~ caught, NEW t \in Workers, Get(t) \/ Let(t), LockBase'
  PROVE  MmuInv'
<1>1. CASE Get(t)
  <2>1. PICK l \in Locks :
          /\ Now(t, "get", l) /\ stray' = (stray \/ (l \in Ates /\ l \notin mapped))
          /\ Then(t, <<>>) /\ UNCHANGED <<calling, list, cur, caught>>
    BY <1>1 DEF Get
  <2>2. todo[t] # <<>> /\ Head(todo[t]) = Do("get", l) /\ Head(todo[t])[1] = "get"
    BY <2>1, SMTT(30) DEF Now, Do
  <2>3. \A a \in Ates : Head(todo[t]) # Do("search", a)
    BY <2>2, SMTT(30) DEF Do
  <2>4. /\ calling' = calling /\ a_tbl' = a_tbl /\ next' = next /\ prev' = prev /\ mapped' = mapped
        /\ cur' = cur
    BY <2>1 DEF list
  <2>5. SubjectInv' /\ WalkInv' /\ ListInv' /\ SearchInv' /\ FoundInv'
    BY <2>1, <2>2, <2>3, <2>4, QuietPop
  <2>6. ~ stray'
    <3>1. l \in Ates => l \in mapped
      <4>1. Do("get", l) \in StepsOf(todo[t])
        BY <2>2, Doing DEF Pushed, MmuInv
      <4>2. l \in Ates => Live(l) \/ Stands(t, l)
        BY <4>1 DEF MmuInv, SubjectInv, Has, Uses
      <4>3. Stands(t, l) => l \in Inserted
        BY DEF MmuInv, WalkInv, Stands
      <4> QED
        BY <4>2, <4>3, InsertedIs DEF Live
    <3>2. ~ stray
      BY DEF MmuInv, NoStrayRead
    <3> QED
      BY <3>1, <3>2, <2>1
  <2> QED
    BY <2>5, <2>6 DEF MmuInv, NoStrayRead
<1>2. CASE Let(t)
  <2>1. PICK l \in Locks :
          Now(t, "let", l) /\ Then(t, <<>>) /\ UNCHANGED <<calling, list, cur, stray, caught>>
    BY <1>2 DEF Let
  <2>2. todo[t] # <<>> /\ Head(todo[t]) = Do("let", l) /\ Head(todo[t])[1] = "let"
    BY <2>1, SMTT(30) DEF Now, Do
  <2>3. \A a \in Ates : Head(todo[t]) # Do("search", a)
    BY <2>2, SMTT(30) DEF Do
  <2>4. /\ calling' = calling /\ a_tbl' = a_tbl /\ next' = next /\ prev' = prev /\ mapped' = mapped
        /\ cur' = cur /\ stray' = stray
    BY <2>1 DEF list
  <2>5. SubjectInv' /\ WalkInv' /\ ListInv' /\ SearchInv' /\ FoundInv'
    BY <2>1, <2>2, <2>3, <2>4, QuietPop
  <2> QED
    BY <2>4, <2>5 DEF MmuInv, NoStrayRead
<1> QED
  BY <1>1, <1>2

\* mmu_lookup_ate starts at a_tbl, from where next leads to every entry of the list.
LEMMA ListSearchFirst ==
  ASSUME MmuInv, ~ caught, NEW t \in Workers, SearchFirst(t), LockBase'
  PROVE  MmuInv'
<1> DEFINE s == todo[t]
           u == Tail(todo[t])
           N == Nesting({calling[t]})
<1>1. PICK a \in Ates :
        /\ Now(t, "first", a)
        /\ cur' = [cur EXCEPT ![t] = a_tbl] /\ Then(t, << Do("search", a) >>)
        /\ UNCHANGED <<calling, list, locking, stray, caught>>
  BY DEF SearchFirst
<1>2. s # <<>> /\ Head(s) = Do("first", a)
  BY <1>1 DEF Now
<1>3. u \in Rests /\ Fit(Do("first", a), u, N) /\ WellFormed(u, N) /\ Pushed(s, Do("first", a), u, N)
  BY <1>2, Doing DEF MmuInv
<1> DEFINE r == <<Do("search", a)>> \o u
<1>4. todo' = [todo EXCEPT ![t] = r]
  BY <1>1 DEF Then
<1>5. /\ calling' = calling /\ a_tbl' = a_tbl /\ next' = next /\ prev' = prev /\ mapped' = mapped
      /\ stray' = stray /\ cur'[t] = a_tbl /\ \A v \in Workers \ {t} : cur'[v] = cur[v]
  BY <1>1 DEF list, MmuInv, LockBase, MmuTypes
<1>6. \A w \in Uses, b \in Ates :
        Do(w, b) \in StepsOf(s) => Live(b) \/ Do("more", "all") \in StepsOf(s)
  BY DEF MmuInv, SubjectInv, Has, Stands
<1> HIDE DEF u, N, s
<1>8. /\ r \in Rests /\ StepsOf(r) = {Do("search", a)} \union StepsOf(u)
      /\ (\A b \in Ates : ~ Searched(r, b)) /\ Head(r) = Do("search", a)
  BY <1>3, SearchPush
<1> HIDE DEF r
<1>9. StepsOf(s) = {Do("first", a)} \union StepsOf(u)
  BY <1>3 DEF Pushed
<1>10. \A w \in {"insert", "remove", "munmap"}, b \in Ates : Do(w, b) \in StepsOf(r) <=> Do(w, b) \in StepsOf(s)
  <2>1. \A w \in {"insert", "remove", "munmap"}, b \in Ates : Do(w, b) # Do("search", a) /\ Do(w, b) # Do("first", a)
    BY DEF Do
  <2> QED
    BY <2>1, <1>8, <1>9
<1>11. Do("more", "all") \notin StepsOf(r) /\ Do("more", "all") \notin StepsOf(s)
  <2>1. /\ Do("more", "all") # Do("search", a) /\ Do("more", "all") # Do("first", a)
        /\ Do("more", "all")[1] = "more" /\ Do("first", a)[1] = "first"
    BY DEF Do
  <2>2. Do("more", "all") \notin StepsOf(u)
    BY <2>1, <1>3 DEF Fit
  <2> QED
    BY <2>1, <2>2, <1>8, <1>9
<1>12. Live(a)
  BY <1>6, <1>9, <1>11 DEF Uses
<1>13. \A w \in Uses, b \in Ates : Do(w, b) \in StepsOf(r) => Live(b)
  <2>1. \A w \in Uses, b \in Ates : Do(w, b) = Do("search", a) => b = a
    BY DEF Do
  <2> QED
    BY <2>1, <1>6, <1>8, <1>9, <1>12, <1>11
<1>14. a_tbl \in Inserted /\ Reaches(a_tbl, a)
  <2>1. a \in Inserted
    BY <1>12, LiveInserted
  <2>2. a_tbl # NoAte
    <3>1. Kept({}) /\ {} \in SUBSET Inserted
      BY DEF Kept
    <3> QED
      BY <2>1, <3>1 DEF MmuInv, ListInv
  <2> QED
    BY <2>1, <2>2 DEF MmuInv, ListInv, Reaches
<1>15. \A b \in Ates : Starts(r, Do("search", b)) => cur'[t] \in Inserted /\ Reaches(cur'[t], b)
  <2>1. \A b \in Ates : Do("search", b) = Do("search", a) => b = a
    BY DEF Do
  <2> QED
    BY <2>1, <1>5, <1>8, <1>14 DEF Starts
<1>16. SubjectInv' /\ WalkInv' /\ ListInv' /\ SearchInv' /\ FoundInv'
  <2>1. /\ \A w \in {"insert", "remove", "munmap"}, b \in Ates :
             Do(w, b) \in StepsOf(r) <=> Do(w, b) \in StepsOf(todo[t])
    BY <1>10 DEF s
  <2> QED
    BY <2>1, <1>4, <1>5, <1>8, <1>11, <1>13, <1>15, QuietStep
<1> QED
  BY <1>5, <1>16 DEF MmuInv, NoStrayRead

\* The search moves on along next, which still leads to what it looks for.
LEMMA ListSearch ==
  ASSUME MmuInv, ~ caught, NEW t \in Workers, Search(t), LockBase'
  PROVE  MmuInv'
<1> DEFINE s == todo[t]
           u == Tail(todo[t])
           N == Nesting({calling[t]})
<1>1. PICK a \in Ates :
        /\ Now(t, "search", a)
        /\ stray' = (stray \/ (cur[t] # NoAte /\ cur[t] \notin mapped))
        /\ IF cur[t] \in {NoAte, a} THEN Then(t, <<>>) /\ UNCHANGED cur
           ELSE cur' = [cur EXCEPT ![t] = next[cur[t]]] /\ UNCHANGED todo
        /\ UNCHANGED <<calling, list, locking, caught>>
  BY DEF Search
<1>2. s # <<>> /\ Head(s) = Do("search", a) /\ Head(s)[1] = "search"
  BY <1>1, SMTT(30) DEF Now, Do
<1>3. calling' = calling /\ a_tbl' = a_tbl /\ next' = next /\ prev' = prev /\ mapped' = mapped
  BY <1>1 DEF list
<1>4. cur[t] \in Inserted /\ Reaches(cur[t], a)
  BY <1>2 DEF MmuInv, SearchInv, Starts
<1>5. cur[t] \in mapped /\ cur[t] \in Ates /\ cur[t] # NoAte
  BY <1>4, InsertedIs, MmuAssumption DEF MmuInv, LockBase, MmuTypes
<1>6. ~ stray'
  BY <1>1, <1>5 DEF MmuInv, NoStrayRead
<1>7. \A b \in Ates : Do("search", b) = Do("search", a) => b = a
  BY DEF Do
<1>8. CASE cur[t] = a
  <2>1. Then(t, <<>>) /\ cur' = cur
    BY <1>1, <1>8
  <2>2. SubjectInv' /\ WalkInv' /\ ListInv' /\ SearchInv' /\ FoundInv'
    BY <2>1, <1>2, <1>3, <1>7, <1>8, QuietPop
  <2> QED
    BY <2>2, <1>6 DEF MmuInv, NoStrayRead
<1>9. CASE cur[t] # a
  <2> DEFINE c == cur[t]
  <2>1. cur' = [cur EXCEPT ![t] = next[c]] /\ todo' = todo
    BY <1>1, <1>5, <1>9
  <2>2. cur'[t] = next[c] /\ \A v \in Workers \ {t} : cur'[v] = cur[v]
    BY <2>1 DEF MmuInv, LockBase, MmuTypes
  <2>3. s \in Rests /\ todo' = [todo EXCEPT ![t] = s]
    BY <2>1 DEF MmuInv, LockBase, MmuTypes
  <2>4. Pushed(s, Do("search", a), u, N) /\ Fit(Do("search", a), u, N)
    BY <1>2, Doing DEF MmuInv
  <2>5. Do("more", "all") \notin StepsOf(s)
    <3>1. /\ Do("more", "all") # Do("search", a) /\ Do("more", "all")[1] = "more"
          /\ Do("search", a)[1] = "search"
      BY DEF Do
    <3> HIDE DEF s, u, N
    <3> QED
      BY <3>1, <2>4 DEF Pushed, Fit
  <2>6. \A b \in Ates : ~ Searched(s, b)
    <3>1. \A b \in Ates : Do("search", a) # Do("get", b)
      BY DEF Do
    <3> QED
      BY <3>1, <1>2 DEF Searched, Starts
  <2>7. next[c] \in Inserted /\ Reaches(next[c], a)
    <3>1. next[c] # NoAte
      <4>1. SUFFICES ASSUME next[c] = NoAte PROVE FALSE
        OBVIOUS
      <4>2. {c} \in SUBSET Inserted /\ Kept({c}) /\ c \in {c}
        BY <1>4, <4>1 DEF Kept
      <4>3. a \in {c}
        BY <1>4, <4>2 DEF Reaches
      <4> QED
        BY <1>9, <4>3
    <3>2. next[c] \in Inserted
      BY <1>4, <3>1 DEF MmuInv, ListInv
    <3>3. ASSUME NEW S \in SUBSET Inserted, Kept(S), next[c] \in S PROVE a \in S
      <4>1. S \union {c} \in SUBSET Inserted
        BY <1>4
      <4>2. Kept(S \union {c})
        BY <3>3 DEF Kept
      <4>3. a \in S \union {c}
        BY <1>4, <4>1, <4>2 DEF Reaches
      <4> QED
        BY <1>9, <4>3
    <3> QED
      BY <3>2, <3>3 DEF Reaches
  <2>8. \A b \in Ates : Starts(s, Do("search", b)) => cur'[t] \in Inserted /\ Reaches(cur'[t], b)
    BY <1>2, <1>7, <2>2, <2>7 DEF Starts
  <2>9. \A w \in Uses, b \in Ates : Do(w, b) \in StepsOf(s) => Live(b)
    BY <2>5 DEF MmuInv, SubjectInv, Has, Stands
  <2>10. SubjectInv' /\ WalkInv' /\ ListInv' /\ SearchInv' /\ FoundInv'
    BY <1>3, <2>2, <2>3, <2>5, <2>6, <2>8, <2>9, QuietStep
  <2> QED
    BY <2>10, <1>6 DEF MmuInv, NoStrayRead
<1> QED
  BY <1>8, <1>9

\* A walk moves on along next, to an entry of the list.
LEMMA ListVisit ==
  ASSUME MmuInv, ~ caught, NEW t \in Workers,
         NEW x \in {Do("walk", "all"), Do("more", "all")},
         NEW a \in Inserted \union {NoAte}, todo[t] # <<>>, Head(todo[t]) = x,
         cur' = [cur EXCEPT ![t] = a],
         Then(t, IF a = NoAte THEN <<>> ELSE Visit("all", a)),
         a_tbl' = a_tbl, next' = next, prev' = prev, mapped' = mapped
  PROVE  SubjectInv' /\ WalkInv' /\ ListInv' /\ SearchInv' /\ FoundInv'
<1> DEFINE s == todo[t]
           u == Tail(todo[t])
           N == Nesting({calling[t]})
<1>1. u \in Rests /\ Fit(x, u, N) /\ WellFormed(u, N) /\ Pushed(s, x, u, N)
  BY Doing DEF MmuInv
<1>2. cur'[t] = a /\ \A v \in Workers \ {t} : cur'[v] = cur[v]
  BY DEF MmuInv, LockBase, MmuTypes
<1>3. x[1] \in {"walk", "more"} /\ \A b \in Ates : x # Do("search", b)
  BY SMTT(30) DEF Do
<1>4. CASE a = NoAte
  BY <1>2, <1>3, <1>4, QuietPop
<1>5. CASE a # NoAte
  <2> DEFINE r == VisitAll(a) \o u
  <2>1. todo' = [todo EXCEPT ![t] = r]
    BY <1>5 DEF Then, VisitAll
  <2>2. a \in Inserted /\ a \in mapped /\ a \in Ates
    BY <1>5, InsertedIs DEF MmuInv, LockBase, MmuTypes
  <2> HIDE DEF s, u, N
  <2>6. /\ r \in Rests /\ (\A b \in Ates : ~ Searched(r, b))
        /\ StepsOf(r) = {Do("get", a), Do("let", a), Do("more", "all")} \union StepsOf(u)
    BY <1>1, <2>2, WalkPush
  <2> HIDE DEF r
  <2>7. StepsOf(s) = {x} \union StepsOf(u)
    BY <1>1 DEF Pushed
  <2>8. \A w \in {"insert", "remove", "munmap"}, b \in Ates :
          Do(w, b) \in StepsOf(r) <=> Do(w, b) \in StepsOf(s)
    <3>1. \A w \in {"insert", "remove", "munmap"}, b \in Ates :
            Do(w, b) # x /\ Do(w, b) \notin {Do("get", a), Do("let", a), Do("more", "all")}
      BY SMTT(30) DEF Do
    <3> QED
      BY <3>1, <2>6, <2>7
  <2>9. \A w \in Uses, b \in Ates :
          Do(w, b) \in StepsOf(r) => Do("more", "all") \in StepsOf(r) /\ cur'[t] = b
    <3>1. \A w \in Uses, b \in Ates :
            Do(w, b) \in {Do("get", a), Do("let", a), Do("more", "all")} => b = a
      BY DEF Do, Uses
    <3>2. \A w \in Uses, b \in Ates : Do(w, b)[2] = b
      BY DEF Do
    <3>3. \A w \in Uses, b \in Ates : Do(w, b) \notin StepsOf(u)
      BY <3>2, <1>1, <1>3 DEF Fit
    <3> QED
      BY <3>1, <3>3, <1>2, <2>6
  <2>10. \A b \in Ates : ~ Starts(r, Do("search", b))
    <3>1. \A b \in Ates : Do("search", b)[1] = "search"
      BY DEF Do
    <3>2. \A b \in Ates : Do("search", b) \notin {Do("get", a), Do("let", a), Do("more", "all")}
      BY DEF Do
    <3>3. \A b \in Ates : Do("search", b) \notin StepsOf(u)
      BY <3>1, <1>1 DEF Fit
    <3>4. \A b \in Ates : Do("search", b) \notin StepsOf(r)
      BY <3>2, <3>3, <2>6
    <3> QED
      BY <3>4, <2>6, StartsStep
  <2>11. /\ \A w \in {"insert", "remove", "munmap"}, b \in Ates :
              Do(w, b) \in StepsOf(r) <=> Do(w, b) \in StepsOf(todo[t])
    BY <2>8 DEF s
  <2> QED
    BY <1>2, <2>1, <2>2, <2>6, <2>9, <2>10, <2>11, QuietStep
<1> QED
  BY <1>4, <1>5

LEMMA ListWalk ==
  ASSUME MmuInv, ~ caught, NEW t \in Workers, Walk(t) \/ WalkOn(t), LockBase'
  PROVE  MmuInv'
<1>1. CASE Walk(t)
  <2>1. /\ todo[t] # <<>> /\ Head(todo[t]) = Do("walk", "all")
        /\ cur' = [cur EXCEPT ![t] = a_tbl]
        /\ Then(t, IF a_tbl = NoAte THEN <<>> ELSE Visit("all", a_tbl))
        /\ calling' = calling /\ a_tbl' = a_tbl /\ next' = next /\ prev' = prev /\ mapped' = mapped
        /\ stray' = stray
    BY <1>1, WalksAll DEF Walk, Now, list, MmuInv
  <2>2. a_tbl \in Inserted \union {NoAte}
    BY DEF MmuInv, ListInv
  <2>3. SubjectInv' /\ WalkInv' /\ ListInv' /\ SearchInv' /\ FoundInv'
    BY <2>1, <2>2, ListVisit
  <2> QED
    BY <2>1, <2>3 DEF MmuInv, NoStrayRead
<1>2. CASE WalkOn(t)
  <2> DEFINE a == next[cur[t]]
  <2>1. /\ todo[t] # <<>> /\ Head(todo[t]) = Do("more", "all")
        /\ cur' = [cur EXCEPT ![t] = a]
        /\ Then(t, IF a = NoAte THEN <<>> ELSE Visit("all", a))
        /\ calling' = calling /\ a_tbl' = a_tbl /\ next' = next /\ prev' = prev /\ mapped' = mapped
        /\ stray' = (stray \/ cur[t] \notin mapped)
    BY <1>2, WalksAll DEF WalkOn, Now, list, MmuInv
  <2>2. cur[t] \in Inserted
    <3>1. Do("more", "all") \in StepsOf(todo[t])
      BY <2>1, Doing DEF Pushed, MmuInv
    <3> QED
      BY <3>1 DEF MmuInv, WalkInv, Has
  <2>3. a \in Inserted \union {NoAte} /\ cur[t] \in mapped
    BY <2>2, InsertedIs DEF MmuInv, ListInv
  <2> HIDE DEF a
  <2>4. SubjectInv' /\ WalkInv' /\ ListInv' /\ SearchInv' /\ FoundInv'
    BY <2>1, <2>3, ListVisit
  <2> QED
    BY <2>1, <2>3, <2>4 DEF MmuInv, NoStrayRead
<1> QED
  BY <1>1, <1>2

\* The calls that neither allocate nor free.
LEMMA ListAccess ==
  ASSUME MmuInv, ~ caught, NEW t \in Workers, Access(t) \/ CopyRanges(t) \/ EvictAll(t), LockBase'
  PROVE  MmuInv'
<1>0. mapped \subseteq Ates
  BY DEF MmuInv, LockBase, MmuTypes
<1>1. PICK n, c :
        /\ Call(c, Nesting({n})) /\ Begin(t, n, c) /\ UNCHANGED list
        /\ \A w \in {"insert", "remove", "munmap", "search"}, a \in Ates : Do(w, a) \notin StepsOf(c)
        /\ \A w \in Uses, a \in Ates : Do(w, a) \in StepsOf(c) => Live(a)
        /\ Do("more", "all") \notin StepsOf(c)
  <2>1. CASE Access(t) \/ CopyRanges(t)
    <3>1. PICK A, n, c :
            /\ A \in SUBSET Allocated
            /\ Call(c, Nesting({n})) /\ StepsOf(c) \subseteq About(A)
            /\ Begin(t, n, c) /\ UNCHANGED list
      BY <1>0, <2>1, AccessCall
    <3>2. A \in SUBSET Ates /\ \A a \in A : Live(a)
      BY <1>0, <3>1, SMTT(30) DEF Allocated, Live, Some, Has, AllSteps, Steps, StepsOf
    <3>3. \A w \in {"insert", "remove", "munmap", "search"}, a \in Ates : Do(w, a) \notin StepsOf(c)
      BY <3>1 DEF About, Do
    <3>4. \A w \in Uses, a \in Ates : Do(w, a) \in StepsOf(c) => Live(a)
      <4>1. ASSUME NEW w, NEW a \in Ates, Do(w, a) \in About(A) PROVE a \in A
        BY <4>1, MmuAssumption DEF About, Do
      <4> QED
        BY <4>1, <3>1, <3>2
    <3>5. Do("more", "all") \notin StepsOf(c)
      BY <3>1 DEF About, Do
    <3> QED
      BY <3>1, <3>3, <3>4, <3>5
  <2>2. CASE EvictAll(t)
    <3> DEFINE c == sbma_mevictall
    <3>1. Begin(t, "mevictall", c) /\ UNCHANGED list
      BY <2>2 DEF EvictAll
    <3>2. /\ Call(c, Nesting({"mevictall"}))
          /\ StepsOf(c) \subseteq ({"get", "let"} \X {"mmu", "vmm"}) \union {Do("walk", "all")}
      BY NestingHas, CallEvictAll
    <3>3. \A w, a : a \in Ates => Do(w, a) \notin StepsOf(c)
      BY <3>2, MmuAssumption DEF Do
    <3>4. Do("more", "all") \notin StepsOf(c)
      BY <3>2 DEF Do
    <3> QED
      BY <3>1, <3>2, <3>3, <3>4
  <2> QED
    BY <2>1, <2>2
<1>2. /\ todo[t] = <<>> /\ todo' = [todo EXCEPT ![t] = c] /\ c \in Rests
      /\ a_tbl' = a_tbl /\ next' = next /\ prev' = prev /\ mapped' = mapped
      /\ cur' = cur /\ stray' = stray
  BY <1>1 DEF Begin, list, Call
<1>3. StepsOf(todo[t]) = {}
  BY <1>2, Nothing
<1>4. \A w \in {"insert", "remove", "munmap"}, a \in Ates :
        Do(w, a) \in StepsOf(c) <=> Do(w, a) \in StepsOf(todo[t])
  BY <1>1, <1>3
<1>5. \A a \in Ates : ~ Starts(c, Do("search", a))
  BY <1>1, <1>2, StartsStep
<1>6. \A a \in Ates : ~ Searched(c, a)
  BY <1>1 DEF Call
<1>7. SubjectInv' /\ WalkInv' /\ ListInv' /\ SearchInv' /\ FoundInv'
  BY <1>1, <1>2, <1>4, <1>5, <1>6, QuietStep
<1> QED
  BY <1>2, <1>7 DEF MmuInv, NoStrayRead

\* Steps of sbma_malloc and sbma_free that leave the list as it is.
LEMMA ListSame ==
  ASSUME MmuInv, ~ caught, NEW t \in Workers, NEW r \in Rests, todo' = [todo EXCEPT ![t] = r],
         a_tbl' = a_tbl, next' = next, prev' = prev, cur' = cur,
         Inserted' = Inserted,
         Do("more", "all") \notin StepsOf(r),
         \A a \in Ates : ~ Starts(r, Do("search", a)) /\ ~ Searched(r, a)
  PROVE  WalkInv' /\ ListInv' /\ SearchInv' /\ FoundInv'
<1> USE DEF MmuInv
<1>1. \A u \in Workers : todo'[u] = IF u = t THEN r ELSE todo[u]
  BY DEF LockBase, MmuTypes
<1>2. WalkInv'
  <2>1. \A u \in Workers : Has(u, "more", "all")' => cur'[u] \in Inserted'
    BY <1>1 DEF WalkInv, Has
  <2> QED
    BY <2>1 DEF WalkInv
<1>3. ListInv'
  BY DEF ListInv, Kept
<1>4. SearchInv'
  <2>1. \A u \in Workers, a \in Ates :
          Starts(todo'[u], Do("search", a)) => cur'[u] \in Inserted' /\ Reaches(cur[u], a)'
    BY <1>1, SMTT(30) DEF SearchInv, Reaches, Kept
  <2> QED
    BY <2>1 DEF SearchInv
<1>5. FoundInv'
  <2>1. \A u \in Workers, a \in Ates : Searched(todo'[u], a) => cur'[u] = a
    BY <1>1 DEF FoundInv
  <2> QED
    BY <2>1 DEF FoundInv
<1> QED
  BY <1>2, <1>3, <1>4, <1>5

LEMMA ListMalloc ==
  ASSUME MmuInv, ~ caught, NEW t \in Workers, Malloc(t), LockBase'
  PROVE  MmuInv'
<1>1. PICK a \in Ates \ mapped :
        /\ Begin(t, "malloc", sbma_malloc(a)) /\ mapped' = mapped \union {a}
        /\ a_tbl' = a_tbl /\ next' = next /\ prev' = prev
  BY DEF Malloc
<1> DEFINE c == sbma_malloc(a)
<1>2. /\ Call(c, Nesting({"malloc"}))
      /\ StepsOf(c) = {Do("get", "mmu"), Do("insert", a), Do("let", "mmu")}
  BY CallMalloc
<1>3. /\ todo[t] = <<>> /\ todo' = [todo EXCEPT ![t] = c] /\ c \in Rests
      /\ cur' = cur /\ stray' = stray
  BY <1>1, <1>2 DEF Begin, Call
<1> HIDE DEF c
<1>4. \A u \in Workers : todo'[u] = IF u = t THEN c ELSE todo[u]
  BY <1>3 DEF MmuInv, LockBase, MmuTypes
<1>5. StepsOf(todo[t]) = {}
  BY <1>3, Nothing
<1>6. \A w, b : b \in Ates => (Do(w, b) \in StepsOf(c) <=> (w = "insert" /\ b = a))
  BY <1>2, MmuAssumption DEF Do
<1>7. \A w : \A u \in Workers, b \in Ates :
        Has(u, w, b)' <=> (Has(u, w, b) \/ (u = t /\ w = "insert" /\ b = a))
  BY <1>4, <1>5, <1>6 DEF Has
<1>8. \A w : \A b \in Ates : Some(w, b)' <=> (Some(w, b) \/ (w = "insert" /\ b = a))
  BY <1>7 DEF Some
<1>9. /\ \A u \in Workers, w \in Uses : ~ Has(u, w, a)
      /\ ~ Some("insert", a) /\ ~ Some("munmap", a) /\ ~ Some("remove", a)
  <2>1. ~ Live(a) /\ \A u \in Workers : ~ Stands(u, a)
    BY InsertedIs DEF MmuInv, WalkInv, Stands, Live
  <2> QED
    BY <2>1 DEF MmuInv, SubjectInv, Some
<1>10. mapped \subseteq Ates
  BY DEF MmuInv, LockBase, MmuTypes
<1>11. Inserted' = Inserted
  <2>1. \A b : b \in Inserted' <=> b \in Inserted
    BY <1>1, <1>8, <1>10, InsertedIs, InsertedIsThen
  <2> QED
    BY <2>1
<1>12. SubjectInv'
  <2>1. \A u \in Workers, w \in Uses, b \in Ates : Has(u, w, b)' => Live(b)' \/ Stands(u, b)'
    <3>1. SUFFICES ASSUME NEW u \in Workers, NEW w \in Uses, NEW b \in Ates, Has(u, w, b)'
                   PROVE  Live(b)' \/ Stands(u, b)'
      OBVIOUS
    <3>2. Has(u, w, b)
      BY <3>1, <1>7 DEF Uses
    <3>3. (Live(b) \/ Stands(u, b)) /\ b # a /\ u # t
      BY <3>2, <1>9, <1>5 DEF MmuInv, SubjectInv, Has
    <3>4. Live(b) => Live(b)'
      BY <3>3, <1>1, <1>8 DEF Live
    <3>5. Stands(u, b) => Stands(u, b)'
      BY <3>3, <1>3, <1>4 DEF Stands, Has
    <3> QED
      BY <3>3, <3>4, <3>5
  <2>2. \A u \in Workers, b \in Ates : Has(u, "insert", b)' =>
          b \in mapped' /\ ~ Some("munmap", b)' /\ \A v \in Workers \ {u} : ~ Has(v, "insert", b)'
    <3>1. SUFFICES ASSUME NEW u \in Workers, NEW b \in Ates, Has(u, "insert", b)'
                   PROVE  b \in mapped' /\ ~ Some("munmap", b)' /\ \A v \in Workers \ {u} : ~ Has(v, "insert", b)'
      OBVIOUS
    <3>2. CASE b = a
      <4>1. u = t
        BY <3>1, <3>2, <1>7, <1>9 DEF Some
      <4> QED
        BY <3>2, <4>1, <1>1, <1>7, <1>8, <1>9, SMTT(30) DEF Some
    <3>3. CASE b # a
      BY <3>1, <3>3, <1>1, <1>7, <1>8 DEF MmuInv, SubjectInv
    <3> QED
      BY <3>2, <3>3
  <2>3. \A u \in Workers, b \in Ates : Has(u, "munmap", b)' =>
          b \in mapped' /\ \A v \in Workers \ {u} : ~ Has(v, "munmap", b)'
    BY <1>1, <1>7, SMTT(30) DEF MmuInv, SubjectInv
  <2>4. \A u \in Workers, b \in Ates : Has(u, "remove", b)' => Has(u, "munmap", b)'
    BY <1>7, SMTT(30) DEF MmuInv, SubjectInv
  <2> QED
    BY <2>1, <2>2, <2>3, <2>4 DEF SubjectInv
<1>13. WalkInv' /\ ListInv' /\ SearchInv' /\ FoundInv'
  <2>1. \A b \in Ates : Do("munmap", b) \notin StepsOf(c) /\ Do("search", b) \notin StepsOf(c)
    BY <1>6, SMTT(30)
  <2>2. \A b \in Ates : ~ Starts(c, Do("search", b)) /\ ~ Searched(c, b)
    BY <2>1, <1>2, <1>3, StartsStep DEF Call
  <2>3. Do("more", "all") \notin StepsOf(c)
    BY <1>2 DEF Do
  <2> QED
    BY <2>1, <2>2, <2>3, <1>1, <1>3, <1>11, ListSame
<1> QED
  BY <1>3, <1>12, <1>13 DEF MmuInv, NoStrayRead

LEMMA ListFree ==
  ASSUME MmuInv, ~ caught, NEW t \in Workers, Free(t), LockBase'
  PROVE  MmuInv'
<1>1. PICK a \in Idle :
        /\ Begin(t, "free", sbma_free(a))
        /\ a_tbl' = a_tbl /\ next' = next /\ prev' = prev /\ mapped' = mapped
  BY DEF Free, list
<1>2. a \in mapped /\ a \in Ates /\ mapped \subseteq Ates
  BY DEF Idle, MmuInv, LockBase, MmuTypes
<1> DEFINE c == sbma_free(a)
<1>3. /\ Call(c, Nesting({"free"}))
      /\ StepsOf(c) = {Do("get", "mmu"), Do("remove", a), Do("let", "mmu"), Do("munmap", a)}
  BY <1>2, CallFree
<1>4. /\ todo[t] = <<>> /\ todo' = [todo EXCEPT ![t] = c] /\ c \in Rests
      /\ cur' = cur /\ stray' = stray
  BY <1>1, <1>3 DEF Begin, Call
<1> HIDE DEF c
<1>5. \A u \in Workers : todo'[u] = IF u = t THEN c ELSE todo[u]
  BY <1>4 DEF MmuInv, LockBase, MmuTypes
<1>6. StepsOf(todo[t]) = {}
  BY <1>4, Nothing
<1>7. \A w, b : b \in Ates => (Do(w, b) \in StepsOf(c) <=> (w \in {"remove", "munmap"} /\ b = a))
  BY <1>3, MmuAssumption DEF Do
<1>8. \A w : \A u \in Workers, b \in Ates :
        Has(u, w, b)' <=> (Has(u, w, b) \/ (u = t /\ w \in {"remove", "munmap"} /\ b = a))
  BY <1>5, <1>6, <1>7 DEF Has
<1>9. \A w : \A b \in Ates : Some(w, b)' <=> (Some(w, b) \/ (w \in {"remove", "munmap"} /\ b = a))
  BY <1>8 DEF Some
<1>10. \A w : \A u \in Workers : ~ Has(u, w, a)
  <2>1. ASSUME NEW u \in Workers, NEW w, Has(u, w, a) PROVE FALSE
    <3>1. Do(w, a) \in AllSteps /\ Do(w, a)[2] = a
      BY <2>1 DEF Has, AllSteps, Steps, StepsOf, Do
    <3> QED
      BY <3>1, <1>1 DEF Idle
  <2> QED
    BY <2>1
<1>11. \A w : ~ Some(w, a)
  BY <1>10 DEF Some
<1>12. Inserted' = Inserted
  <2>1. \A b : b \in Inserted' <=> b \in Inserted
    BY <1>1, <1>2, <1>9, <1>11, InsertedIs, InsertedIsThen
  <2> QED
    BY <2>1
<1>13. SubjectInv'
  <2>1. \A u \in Workers, w \in Uses, b \in Ates : Has(u, w, b)' => Live(b)' \/ Stands(u, b)'
    <3>1. SUFFICES ASSUME NEW u \in Workers, NEW w \in Uses, NEW b \in Ates, Has(u, w, b)'
                   PROVE  Live(b)' \/ Stands(u, b)'
      OBVIOUS
    <3>2. Has(u, w, b)
      BY <3>1, <1>8 DEF Uses
    <3>3. (Live(b) \/ Stands(u, b)) /\ b # a /\ u # t
      BY <3>2, <1>10, <1>6 DEF MmuInv, SubjectInv, Has
    <3>4. Live(b) => Live(b)'
      BY <3>3, <1>1, <1>9 DEF Live
    <3>5. Stands(u, b) => Stands(u, b)'
      BY <3>3, <1>4, <1>5 DEF Stands, Has
    <3> QED
      BY <3>3, <3>4, <3>5
  <2>2. \A u \in Workers, b \in Ates : Has(u, "insert", b)' =>
          b \in mapped' /\ ~ Some("munmap", b)' /\ \A v \in Workers \ {u} : ~ Has(v, "insert", b)'
    BY <1>1, <1>8, <1>9, <1>10, SMTT(30) DEF MmuInv, SubjectInv
  <2>3. \A u \in Workers, b \in Ates : Has(u, "munmap", b)' =>
          b \in mapped' /\ \A v \in Workers \ {u} : ~ Has(v, "munmap", b)'
    BY <1>1, <1>2, <1>8, <1>10, SMTT(30) DEF MmuInv, SubjectInv
  <2>4. \A u \in Workers, b \in Ates : Has(u, "remove", b)' => Has(u, "munmap", b)'
    BY <1>8 DEF MmuInv, SubjectInv
  <2> QED
    BY <2>1, <2>2, <2>3, <2>4 DEF SubjectInv
<1>14. WalkInv' /\ ListInv' /\ SearchInv' /\ FoundInv'
  <2>1. \A b \in Ates : Do("search", b) \notin StepsOf(c)
    BY <1>7, SMTT(30)
  <2>2. \A b \in Ates : ~ Starts(c, Do("search", b)) /\ ~ Searched(c, b)
    BY <2>1, <1>3, <1>4, StartsStep DEF Call
  <2>3. Do("more", "all") \notin StepsOf(c)
    BY <1>3 DEF Do
  <2> QED
    BY <2>1, <2>2, <2>3, <1>1, <1>4, <1>12, ListSame
<1> QED
  BY <1>4, <1>13, <1>14 DEF MmuInv, NoStrayRead

LEMMA ListMunmap ==
  ASSUME MmuInv, ~ caught, NEW t \in Workers, Munmap(t), LockBase'
  PROVE  MmuInv'
<1>1. PICK a \in Ates :
        /\ Now(t, "munmap", a) /\ mapped' = mapped \ {a} /\ Then(t, <<>>)
        /\ UNCHANGED <<calling, a_tbl, next, prev, locking, cur, stray, caught>>
  BY DEF Munmap
<1> DEFINE N == Nesting({calling[t]})
           u == Tail(todo[t])
           x == Do("munmap", a)
<1>2. todo[t] # <<>> /\ Head(todo[t]) = x
  BY <1>1 DEF Now
<1>3. u \in Rests /\ Pushed(todo[t], x, u, N) /\ Fit(x, u, N)
  BY <1>2, Doing DEF MmuInv
<1>4. todo' = [todo EXCEPT ![t] = u]
  BY <1>1, <1>2, Pops DEF MmuInv
<1>5. u = <<>>
  <2>1. x[1] = "munmap"
    BY DEF Do
  <2> HIDE DEF x, u
  <2> QED
    BY <2>1, <1>3 DEF Fit
<1>6. StepsOf(u) = {} /\ StepsOf(todo[t]) = {x}
  <2>1. StepsOf(u) = {}
    BY <1>5, Nothing
  <2> HIDE DEF u
  <2> QED
    BY <2>1, <1>3 DEF Pushed
<1>7. /\ calling' = calling /\ a_tbl' = a_tbl /\ next' = next /\ prev' = prev /\ cur' = cur
      /\ stray' = stray /\ mapped \subseteq Ates
  BY <1>1 DEF MmuInv, LockBase, MmuTypes
<1> HIDE DEF u, N
<1>8. \A v \in Workers : todo'[v] = IF v = t THEN u ELSE todo[v]
  BY <1>4 DEF MmuInv, LockBase, MmuTypes
<1>9. /\ \A w, b : Has(t, w, b) <=> (w = "munmap" /\ b = a)
      /\ \A w, b : ~ Has(t, w, b)'
      /\ \A w, b : \A v \in Workers \ {t} : Has(v, w, b)' <=> Has(v, w, b)
  BY <1>6, <1>8 DEF Has, Do
<1>10. \A v \in Workers \ {t} : ~ Has(v, "munmap", a) /\ ~ Has(v, "remove", a)
  BY <1>9 DEF MmuInv, SubjectInv
<1>11. /\ Some("munmap", a) /\ ~ Some("remove", a) /\ ~ Some("munmap", a)'
       /\ \A w, b : b # a \/ w # "munmap" => (Some(w, b)' <=> Some(w, b))
  BY <1>9, <1>10, SMTT(30) DEF Some
<1>12. Inserted' = Inserted
  <2>1. \A b : b \in Inserted' <=> b \in Inserted
    BY <1>1, <1>11, InsertedIs, InsertedIsThen
  <2> QED
    BY <2>1
<1>13. SubjectInv'
  <2>1. \A v \in Workers, w \in Uses, b \in Ates : Has(v, w, b)' => Live(b)' \/ Stands(v, b)'
    <3>1. SUFFICES ASSUME NEW v \in Workers, NEW w \in Uses, NEW b \in Ates, Has(v, w, b)'
                   PROVE  Live(b)' \/ Stands(v, b)'
      OBVIOUS
    <3>2. v # t /\ Has(v, w, b)
      BY <3>1, <1>9
    <3>3. Live(b) \/ Stands(v, b)
      BY <3>2 DEF MmuInv, SubjectInv
    <3>4. Live(b) => Live(b)'
      <4>1. Live(b) => b # a
        BY <1>11 DEF Live
      <4> QED
        BY <4>1, <1>1, <1>11 DEF Live
    <3>5. Stands(v, b) => Stands(v, b)'
      BY <3>2, <1>7, <1>9 DEF Stands
    <3> QED
      BY <3>3, <3>4, <3>5
  <2>2. \A v \in Workers, b \in Ates : Has(v, "insert", b)' =>
          b \in mapped' /\ ~ Some("munmap", b)' /\ \A q \in Workers \ {v} : ~ Has(q, "insert", b)'
    <3>1. SUFFICES ASSUME NEW v \in Workers, NEW b \in Ates, Has(v, "insert", b)'
                   PROVE  b \in mapped' /\ ~ Some("munmap", b)' /\ \A q \in Workers \ {v} : ~ Has(q, "insert", b)'
      OBVIOUS
    <3>2. b \in mapped /\ ~ Some("munmap", b) /\ \A q \in Workers \ {v} : ~ Has(q, "insert", b)
      BY <3>1, <1>9, SMTT(30) DEF MmuInv, SubjectInv
    <3>3. b # a
      BY <3>2, <1>11
    <3> QED
      BY <3>2, <3>3, <1>1, <1>9, <1>11
  <2>3. \A v \in Workers, b \in Ates : Has(v, "munmap", b)' =>
          b \in mapped' /\ \A q \in Workers \ {v} : ~ Has(q, "munmap", b)'
    <3>1. SUFFICES ASSUME NEW v \in Workers, NEW b \in Ates, Has(v, "munmap", b)'
                   PROVE  b \in mapped' /\ \A q \in Workers \ {v} : ~ Has(q, "munmap", b)'
      OBVIOUS
    <3>2. v # t /\ Has(v, "munmap", b)
      BY <3>1, <1>9
    <3>3. b \in mapped /\ \A q \in Workers \ {v} : ~ Has(q, "munmap", b)
      BY <3>2 DEF MmuInv, SubjectInv
    <3>4. b # a
      BY <3>2, <3>3, <1>10
    <3> QED
      BY <3>2, <3>3, <3>4, <1>1, <1>9
  <2>4. \A v \in Workers, b \in Ates : Has(v, "remove", b)' => Has(v, "munmap", b)'
    BY <1>9, SMTT(30) DEF MmuInv, SubjectInv
  <2> QED
    BY <2>1, <2>2, <2>3, <2>4 DEF SubjectInv
<1>14. WalkInv' /\ ListInv' /\ SearchInv' /\ FoundInv'
  <2>1. \A b \in Ates : ~ Starts(u, Do("search", b)) /\ ~ Searched(u, b)
    BY <1>5, Nothing DEF Searched
  <2> QED
    BY <2>1, <1>3, <1>4, <1>6, <1>7, <1>12, ListSame
<1> QED
  BY <1>7, <1>13, <1>14 DEF MmuInv, NoStrayRead

\* mmu_insert_ate puts the entry before all others.
LEMMA Prepended ==
  ASSUME ListInv, NEW a \in Ates, a \notin Inserted, Inserted \subseteq Ates,
         next \in [Ates -> Ates \union {NoAte}], prev \in [Ates -> Ates \union {NoAte}],
         Inserted' = Inserted \union {a}, a_tbl' = a,
         next' = [next EXCEPT ![a] = a_tbl],
         prev' = [b \in Ates |-> IF b = a THEN IF a_tbl = NoAte THEN NoAte ELSE prev[a_tbl]
                                 ELSE IF b = a_tbl THEN a ELSE prev[b]]
  PROVE  ListInv'
<1> DEFINE h == a_tbl
           I == Inserted
<1>1. NoAte \notin Ates
  BY MmuAssumption
<1>2. /\ h \in I \union {NoAte} /\ (h # NoAte => prev[h] = NoAte)
      /\ \A b \in I : next[b] # NoAte => next[b] \in I /\ prev[next[b]] = b
      /\ \A b \in I : b # h => prev[b] \in I /\ next[prev[b]] = b
      /\ \A S \in SUBSET I : Kept(S) /\ h \in S \union {NoAte} => S = I
  BY DEF ListInv
<1>3. /\ next'[a] = h /\ \A b \in Ates \ {a} : next'[b] = next[b]
      /\ prev'[a] = NoAte /\ (h # NoAte => prev'[h] = a)
      /\ \A b \in Ates : b # a /\ b # h => prev'[b] = prev[b]
  BY <1>1, <1>2
<1> HIDE DEF h, I
<1>4. I \subseteq Ates /\ a \notin I
  BY DEF I
<1>5. \A b \in I \union {a} : next'[b] # NoAte => next'[b] \in I \union {a} /\ prev'[next'[b]] = b
  <2>1. ASSUME NEW b \in I \union {a}, next'[b] # NoAte
        PROVE  next'[b] \in I \union {a} /\ prev'[next'[b]] = b
    <3>1. CASE b = a
      BY <2>1, <3>1, <1>2, <1>3
    <3>2. CASE b # a
      <4>1. b \in I /\ next'[b] = next[b] /\ next[b] \in I /\ prev[next[b]] = b
        BY <2>1, <3>2, <1>2, <1>3, <1>4
      <4>2. next[b] # h /\ next[b] # a
        BY <4>1, <1>1, <1>2, <1>4, SMTT(30)
      <4> QED
        BY <4>1, <4>2, <1>3, <1>4
    <3> QED
      BY <3>1, <3>2
  <2> QED
    BY <2>1
<1>6. \A b \in I \union {a} : b # a => prev'[b] \in I \union {a} /\ next'[prev'[b]] = b
  <2>1. ASSUME NEW b \in I PROVE prev'[b] \in I \union {a} /\ next'[prev'[b]] = b
    <3>1. CASE b = h
      BY <2>1, <3>1, <1>1, <1>3, <1>4
    <3>2. CASE b # h
      <4>1. prev'[b] = prev[b] /\ prev[b] \in I /\ next[prev[b]] = b
        BY <2>1, <3>2, <1>2, <1>3, <1>4
      <4> QED
        BY <4>1, <1>3, <1>4
    <3> QED
      BY <3>1, <3>2
  <2> QED
    BY <2>1
<1>7. ASSUME NEW S \in SUBSET (I \union {a}), \A b \in S : next'[b] \in S \union {NoAte}, a \in S
      PROVE  S = I \union {a}
  <2> DEFINE T == S \ {a}
  <2>1. T \in SUBSET I
    OBVIOUS
  <2>2. h \in T \union {NoAte}
    BY <1>2, <1>3, <1>4, <1>7
  <2>3. \A b \in T : next[b] \in T \union {NoAte}
    <3>1. ASSUME NEW b \in T PROVE next[b] \in T \union {NoAte}
      <4>1. b \in I /\ b # a /\ next'[b] = next[b]
        BY <1>3, <1>4
      <4>2. next[b] # a
        BY <4>1, <1>1, <1>2, <1>4, SMTT(30)
      <4> QED
        BY <4>1, <4>2, <1>7
    <3> QED
      BY <3>1
  <2>4. T = I
    BY <2>1, <2>2, <2>3, <1>2 DEF Kept
  <2> QED
    BY <2>4, <1>7
<1>8. Inserted' = I \union {a} /\ a # NoAte
  BY <1>1 DEF I
<1>9. a_tbl' = a
  OBVIOUS
<1> QED
  BY <1>3, <1>5, <1>6, <1>7, <1>8, <1>9, SMTT(30) DEF ListInv, Kept

\* mmu_invalidate_ate joins what was before the entry and what was behind it.
LEMMA Unlinked ==
  ASSUME ListInv, NEW a \in Inserted, Inserted \subseteq Ates,
         next \in [Ates -> Ates \union {NoAte}], prev \in [Ates -> Ates \union {NoAte}],
         Inserted' = Inserted \ {a},
         IF prev[a] = NoAte THEN a_tbl' = next[a] /\ next' = next
         ELSE next' = [next EXCEPT ![prev[a]] = next[a]] /\ a_tbl' = a_tbl,
         prev' = IF next[a] = NoAte THEN prev ELSE [prev EXCEPT ![next[a]] = prev[a]]
  PROVE  ListInv'
<1> DEFINE h == a_tbl
           I == Inserted
           n == next[a]
           p == prev[a]
<1>1. NoAte \notin Ates
  BY MmuAssumption
<1>2. /\ h \in I \union {NoAte} /\ (h # NoAte => prev[h] = NoAte)
      /\ \A b \in I : next[b] # NoAte => next[b] \in I /\ prev[next[b]] = b
      /\ \A b \in I : b # h => prev[b] \in I /\ next[prev[b]] = b
      /\ \A S \in SUBSET I : Kept(S) /\ h \in S \union {NoAte} => S = I
  BY DEF ListInv
<1>3. /\ p = NoAte => a_tbl' = n /\ next' = next
      /\ p # NoAte => next' = [next EXCEPT ![p] = n] /\ a_tbl' = h
      /\ prev' = IF n = NoAte THEN prev ELSE [prev EXCEPT ![n] = p]
      /\ Inserted' = I \ {a}
  OBVIOUS
<1>0. n = next[a] /\ p = prev[a] /\ I \subseteq Ates /\ a \in I
  OBVIOUS
<1> HIDE DEF h, I, n, p
<1>4. n # NoAte => n \in I /\ prev[n] = a
  BY <1>2, <1>0, <1>3
<1>5. \A b \in Ates : prev'[b] = IF n # NoAte /\ b = n THEN p ELSE prev[b]
  BY <1>0, <1>3, <1>4
<1>6. CASE p = NoAte
  <2>1. a = h
    BY <1>0, <1>1, <1>2, <1>6
  <2>2. n # a
    BY <1>0, <1>1, <1>4, <1>6
  <2>3. \A b \in I \ {a} : next[b] # NoAte => next[b] \in I \ {a} /\ prev'[next[b]] = b
    <3>1. ASSUME NEW b \in I \ {a}, next[b] # NoAte PROVE next[b] \in I \ {a} /\ prev'[next[b]] = b
      <4>1. next[b] \in I /\ prev[next[b]] = b
        BY <1>2, <3>1
      <4>2. next[b] # a /\ next[b] # n
        BY <4>1, <3>1, <1>0, <1>1, <1>4, <1>6
      <4> QED
        BY <4>1, <4>2, <1>0, <1>3, <1>5
    <3> QED
      BY <3>1
  <2>4. \A b \in I \ {a} : b # n => prev'[b] \in I \ {a} /\ next[prev'[b]] = b
    <3>1. ASSUME NEW b \in I \ {a}, b # n PROVE prev'[b] \in I \ {a} /\ next[prev'[b]] = b
      <4>1. prev[b] \in I /\ next[prev[b]] = b /\ prev'[b] = prev[b]
        BY <1>2, <1>0, <1>3, <1>5, <2>1, <3>1
      <4> QED
        BY <4>1, <3>1, <1>0, <1>3
    <3> QED
      BY <3>1
  <2>5. ASSUME NEW S \in SUBSET (I \ {a}), \A b \in S : next[b] \in S \union {NoAte}, n \in S \union {NoAte}
        PROVE  S = I \ {a}
    <3>1. S \union {a} \in SUBSET I /\ h \in (S \union {a}) \union {NoAte}
      BY <1>0, <1>3, <2>1
    <3>2. Kept(S \union {a})
      BY <2>5, <1>0, <1>3 DEF Kept
    <3>3. S \union {a} = I
      BY <3>1, <3>2, <1>2
    <3> QED
      BY <3>3, <2>5
  <2>6. n \in (I \ {a}) \union {NoAte} /\ (n # NoAte => prev'[n] = NoAte)
    BY <1>0, <1>3, <1>4, <1>5, <1>6, <2>2
  <2>7. a_tbl' = n /\ next' = next /\ Inserted' = I \ {a}
    BY <1>0, <1>3, <1>6
  <2> QED
    BY <2>3, <2>4, <2>5, <2>6, <2>7 DEF ListInv, Kept
<1>7. CASE p # NoAte
  <2>1. a # h /\ p \in I /\ next[p] = a
    <3>1. a # h
      BY <1>0, <1>1, <1>2, <1>7, SMTT(30)
    <3> QED
      BY <3>1, <1>0, <1>2
  <2>2. h \in I
    <3>1. SUFFICES ASSUME h = NoAte PROVE FALSE
      BY <1>2
    <3>2. {} \in SUBSET I /\ Kept({}) /\ h \in {} \union {NoAte}
      BY <3>1 DEF Kept
    <3> QED
      BY <3>2, <1>2, <1>0, <1>3
  <2>3. p # a
    <3>1. SUFFICES ASSUME p = a PROVE FALSE
      OBVIOUS
    <3>2. I \ {a} \in SUBSET I /\ h \in (I \ {a}) \union {NoAte}
      BY <2>1, <2>2
    <3>3. \A b \in I \ {a} : next[b] \in (I \ {a}) \union {NoAte}
      BY <3>1, <1>2, <1>0, <1>3
    <3>4. I \ {a} = I
      BY <3>2, <3>3, <1>2 DEF Kept
    <3> QED
      BY <3>4, <1>0, <1>3
  <2>4. n # a
    BY <2>3, <1>1, <1>0, <1>3, <1>4, SMTT(30)
  <2>5. next'[p] = n /\ \A b \in Ates \ {p} : next'[b] = next[b]
    BY <1>0, <1>3, <1>7, <2>1
  <2>6. \A b \in I \ {a} : next'[b] # NoAte => next'[b] \in I \ {a} /\ prev'[next'[b]] = b
    <3>1. ASSUME NEW b \in I \ {a}, next'[b] # NoAte PROVE next'[b] \in I \ {a} /\ prev'[next'[b]] = b
      <4>1. CASE b = p
        BY <3>1, <4>1, <1>0, <1>3, <1>4, <1>5, <2>4, <2>5
      <4>2. CASE b # p
        <5>1. next'[b] = next[b] /\ next[b] \in I /\ prev[next[b]] = b
          BY <3>1, <4>2, <1>2, <1>0, <1>3, <2>5
        <5>2. next[b] # a /\ next[b] # n
          BY <5>1, <4>2, <3>1, <1>1, <1>0, <1>3, <1>4
        <5> QED
          BY <5>1, <5>2, <1>0, <1>3, <1>5
      <4> QED
        BY <4>1, <4>2
    <3> QED
      BY <3>1
  <2>7. \A b \in I \ {a} : b # h => prev'[b] \in I \ {a} /\ next'[prev'[b]] = b
    <3>1. ASSUME NEW b \in I \ {a}, b # h PROVE prev'[b] \in I \ {a} /\ next'[prev'[b]] = b
      <4>1. CASE b = n
        BY <3>1, <4>1, <1>1, <1>0, <1>3, <1>5, <2>1, <2>3, <2>5
      <4>2. CASE b # n
        <5>1. prev[b] \in I /\ next[prev[b]] = b /\ prev'[b] = prev[b]
          BY <1>2, <1>0, <1>3, <1>5, <3>1, <4>2
        <5>2. prev[b] # a /\ prev[b] # p
          BY <5>1, <4>2, <3>1, <1>0, <1>3, <2>1
        <5> QED
          BY <5>1, <5>2, <1>0, <1>3, <2>5
      <4> QED
        BY <4>1, <4>2
    <3> QED
      BY <3>1
  <2>8. ASSUME NEW S \in SUBSET (I \ {a}), \A b \in S : next'[b] \in S \union {NoAte}, h \in S \union {NoAte}
        PROVE  S = I \ {a}
    <3>1. CASE p \in S
      <4>1. S \union {a} \in SUBSET I /\ h \in (S \union {a}) \union {NoAte}
        BY <2>8, <1>0, <1>3
      <4>2. \A b \in S \union {a} : next[b] \in (S \union {a}) \union {NoAte}
        BY <2>8, <3>1, <1>0, <1>3, <2>1, <2>5
      <4>3. S \union {a} = I
        BY <4>1, <4>2, <1>2 DEF Kept
      <4> QED
        BY <4>3, <2>8
    <3>2. CASE p \notin S
      <4>1. S \in SUBSET I
        BY <2>8
      <4>2. \A b \in S : next[b] \in S \union {NoAte}
        BY <2>8, <3>2, <1>0, <1>3, <2>5
      <4>3. S = I
        BY <4>1, <4>2, <2>8, <1>2 DEF Kept
      <4> QED
        BY <4>3, <2>8, <1>0, <1>3
    <3> QED
      BY <3>1, <3>2
  <2>9. h \in I \ {a} /\ h # NoAte /\ prev'[h] = NoAte
    <3>1. h # NoAte /\ prev[h] = NoAte
      BY <2>2, <1>1, <1>2, <1>0, <1>3
    <3>2. n # NoAte => h # n
      BY <3>1, <1>1, <1>0, <1>3, <1>4, SMTT(30)
    <3> QED
      BY <3>1, <3>2, <2>1, <2>2, <1>0, <1>3, <1>5
  <2>10. a_tbl' = h /\ Inserted' = I \ {a}
    BY <1>0, <1>3, <1>7
  <2> QED
    BY <2>6, <2>7, <2>8, <2>9, <2>10 DEF ListInv, Kept
<1> QED
  BY <1>6, <1>7

\* A thread that inserts, removes or searches is alone with the list.
LEMMA AloneOnList ==
  ASSUME LockBase, NEW t \in Workers, todo[t] # <<>>, Head(todo[t])[1] \in {"insert", "remove"}
  PROVE  \A v \in Workers \ {t}, a \in Ates : ~ Starts(todo[v], Do("search", a))
<1>1. Held(todo[t], "mmu")
  <2> DEFINE s == todo[t]
             x == Head(todo[t])
             u == Tail(todo[t])
             N == Nesting({calling[t]})
  <2>1. Pushed(s, x, u, N) /\ Fit(x, u, N) /\ x[1] \in {"insert", "remove"}
    BY Doing
  <2> HIDE DEF s, x, u, N
  <2>2. Held(u, "mmu") /\ \A l : x # Do("get", l)
    BY <2>1, SMTT(30) DEF Fit, Do
  <2>3. Held(s, "mmu")
    BY <2>1, <2>2 DEF Pushed, Do
  <2> QED
    BY <2>3 DEF s
<1>2. ASSUME NEW v \in Workers \ {t}, NEW a \in Ates, Starts(todo[v], Do("search", a)) PROVE FALSE
  <2> DEFINE s == todo[v]
             x == Head(todo[v])
             u == Tail(todo[v])
             N == Nesting({calling[v]})
  <2>0. todo[v] # <<>>
    BY <1>2 DEF Starts
  <2>1. Pushed(s, x, u, N) /\ Fit(x, u, N) /\ x[1] = "search"
    <3>1. Pushed(s, x, u, N) /\ Fit(x, u, N)
      BY <2>0, Doing
    <3>2. x = Do("search", a) /\ Do("search", a)[1] = "search"
      BY <1>2, SMTT(30) DEF Starts, Do
    <3> QED
      BY <3>1, <3>2
  <2> HIDE DEF s, x, u, N
  <2>2. Held(u, "mmu") /\ \A l : x # Do("get", l)
    BY <2>1, SMTT(30) DEF Fit, Do
  <2>3. Held(s, "mmu")
    BY <2>1, <2>2 DEF Pushed, Do
  <2>4. Held(todo[v], "mmu")
    BY <2>3 DEF s
  <2>5. "mmu" \in Locks
    BY DEF Locks
  <2> QED
    BY <1>1, <2>4, <2>5, SMTT(30) DEF LockBase, LockInv
<1> QED
  BY <1>2

LEMMA ListInsert ==
  ASSUME MmuInv, ~ caught, NEW t \in Workers, mmu_insert_ate(t), LockBase'
  PROVE  MmuInv'
<1>1. PICK a \in Ates :
        /\ Now(t, "insert", a) /\ a_tbl' = a /\ next' = [next EXCEPT ![a] = a_tbl]
        /\ prev' = [b \in Ates |-> IF b = a THEN IF a_tbl = NoAte THEN NoAte ELSE prev[a_tbl]
                                   ELSE IF b = a_tbl THEN a ELSE prev[b]]
        /\ Then(t, <<>>) /\ UNCHANGED <<calling, mapped, locking, cur, stray, caught>>
  BY DEF mmu_insert_ate
<1> DEFINE N == Nesting({calling[t]})
           u == Tail(todo[t])
           x == Do("insert", a)
           s == todo[t]
<1>2. todo[t] # <<>> /\ Head(todo[t]) = x /\ x[1] = "insert"
  BY <1>1 DEF Now, Do
<1>3. u \in Rests /\ Pushed(s, x, u, N) /\ Fit(x, u, N)
  BY <1>2, Doing DEF MmuInv
<1>4. todo' = [todo EXCEPT ![t] = u]
  BY <1>1, <1>2, Pops DEF MmuInv
<1>5. calling' = calling /\ mapped' = mapped /\ cur' = cur /\ stray' = stray /\ mapped \subseteq Ates
  BY <1>1 DEF MmuInv, LockBase, MmuTypes
<1>6. \A v \in Workers \ {t}, b \in Ates : ~ Starts(todo[v], Do("search", b))
  BY <1>2, AloneOnList DEF MmuInv
<1>7. \A v \in Workers : todo'[v] = IF v = t THEN u ELSE todo[v]
  BY <1>4 DEF MmuInv, LockBase, MmuTypes
<1>8. s = todo[t]
  OBVIOUS
<1> HIDE DEF u, N, s
<1>9. /\ StepsOf(s) = {x} \union StepsOf(u)
      /\ \A y \in StepsOf(u) : y[1] # "insert" /\ y[1] # "more" /\ y[1] # "search"
      /\ \A b \in Ates : ~ Searched(u, b)
  <2>1. \A b \in Ates : x \notin {Do("first", b), Do("search", b)}
    BY DEF Do
  <2> HIDE DEF x
  <2> QED
    BY <1>2, <1>3, <2>1 DEF Pushed, Fit
<1>10. /\ \A w, b : Has(t, w, b)' => Has(t, w, b)
       /\ \A w, b : w # "insert" \/ b # a => (Has(t, w, b)' <=> Has(t, w, b))
       /\ Has(t, "insert", a) /\ ~ Has(t, "insert", a)' /\ ~ Has(t, "more", "all") /\ ~ Has(t, "more", "all")'
       /\ \A w, b : \A v \in Workers \ {t} : Has(v, w, b)' <=> Has(v, w, b)
  BY <1>7, <1>8, <1>9, SMTT(30) DEF Has, Do
<1>11. /\ a \in mapped /\ ~ Some("munmap", a) /\ \A v \in Workers \ {t} : ~ Has(v, "insert", a)
  BY <1>10 DEF MmuInv, SubjectInv
<1>12. /\ Some("insert", a) /\ ~ Some("insert", a)'
       /\ \A w, b : w # "insert" \/ b # a => (Some(w, b)' <=> Some(w, b))
  BY <1>10, <1>11 DEF Some
<1>13. Inserted' = Inserted \union {a} /\ a \notin Inserted
  <2>1. \A b : b \in Inserted' <=> b \in Inserted \/ b = a
    BY <1>5, <1>11, <1>12, InsertedIs, InsertedIsThen
  <2> QED
    BY <2>1, <1>12, InsertedIs
<1>14. SubjectInv'
  <2>1. \A v \in Workers, w \in Uses, b \in Ates : Has(v, w, b)' => Live(b)' \/ Stands(v, b)'
    <3>1. SUFFICES ASSUME NEW v \in Workers, NEW w \in Uses, NEW b \in Ates, Has(v, w, b)'
                   PROVE  Live(b)' \/ Stands(v, b)'
      OBVIOUS
    <3>2. Has(v, w, b)
      BY <3>1, <1>10 DEF Uses
    <3>3. Live(b) \/ Stands(v, b)
      BY <3>2 DEF MmuInv, SubjectInv
    <3>4. Live(b) => Live(b)'
      BY <1>5, <1>12 DEF Live
    <3>5. Stands(v, b) => Stands(v, b)'
      BY <1>5, <1>10 DEF Stands
    <3> QED
      BY <3>3, <3>4, <3>5
  <2>2. \A v \in Workers, b \in Ates : Has(v, "insert", b)' =>
          b \in mapped' /\ ~ Some("munmap", b)' /\ \A q \in Workers \ {v} : ~ Has(q, "insert", b)'
    BY <1>5, <1>10, <1>12, SMTT(30) DEF MmuInv, SubjectInv
  <2>3. \A v \in Workers, b \in Ates : Has(v, "munmap", b)' =>
          b \in mapped' /\ \A q \in Workers \ {v} : ~ Has(q, "munmap", b)'
    BY <1>5, <1>10, SMTT(30) DEF MmuInv, SubjectInv
  <2>4. \A v \in Workers, b \in Ates : Has(v, "remove", b)' => Has(v, "munmap", b)'
    BY <1>10, SMTT(30) DEF MmuInv, SubjectInv
  <2> QED
    BY <2>1, <2>2, <2>3, <2>4 DEF SubjectInv
<1>15. WalkInv'
  <2>1. \A v \in Workers : Has(v, "more", "all")' => cur'[v] \in Inserted'
    BY <1>5, <1>10, <1>13 DEF MmuInv, WalkInv
  <2> QED
    BY <2>1 DEF WalkInv
<1>16. ListInv'
  <2>1. Inserted \subseteq Ates
    BY <1>5, InsertedIs
  <2>2. ListInv /\ next \in [Ates -> Ates \union {NoAte}] /\ prev \in [Ates -> Ates \union {NoAte}]
    BY DEF MmuInv, LockBase, MmuTypes
  <2> QED
    BY <2>1, <2>2, <1>1, <1>13, Prepended
<1>17. \A v \in Workers, b \in Ates : ~ Starts(todo'[v], Do("search", b))
  <2>1. \A b \in Ates : Do("search", b) \notin StepsOf(u)
    BY <1>9 DEF Do
  <2>2. \A b \in Ates : ~ Starts(u, Do("search", b))
    BY <2>1, <1>3, StartsStep
  <2> QED
    BY <2>2, <1>6, <1>7
<1>18. SearchInv'
  BY <1>17 DEF SearchInv
<1>19. FoundInv'
  <2>1. \A v \in Workers, b \in Ates : Searched(todo'[v], b) => cur'[v] = b
    BY <1>5, <1>7, <1>9 DEF MmuInv, FoundInv
  <2> QED
    BY <2>1 DEF FoundInv
<1> QED
  BY <1>5, <1>14, <1>15, <1>16, <1>18, <1>19 DEF MmuInv, NoStrayRead

LEMMA ListRemove ==
  ASSUME MmuInv, ~ caught, NEW t \in Workers, mmu_invalidate_ate(t), LockBase'
  PROVE  MmuInv'
<1>1. PICK a \in Ates :
        /\ Now(t, "remove", a)
        /\ IF prev[a] = NoAte THEN a_tbl' = next[a] /\ next' = next
           ELSE next' = [next EXCEPT ![prev[a]] = next[a]] /\ a_tbl' = a_tbl
        /\ prev' = IF next[a] = NoAte THEN prev ELSE [prev EXCEPT ![next[a]] = prev[a]]
        /\ caught' = UnderWalk(a) /\ Then(t, <<>>) /\ UNCHANGED <<calling, mapped, locking, cur, stray>>
  BY DEF mmu_invalidate_ate
<1> DEFINE N == Nesting({calling[t]})
           u == Tail(todo[t])
           x == Do("remove", a)
           s == todo[t]
<1>2. todo[t] # <<>> /\ Head(todo[t]) = x /\ x[1] = "remove" /\ x[2] = a
  BY <1>1 DEF Now, Do
<1>3. u \in Rests /\ Pushed(s, x, u, N) /\ Fit(x, u, N)
  BY <1>2, Doing DEF MmuInv
<1>4. todo' = [todo EXCEPT ![t] = u]
  BY <1>1, <1>2, Pops DEF MmuInv
<1>5. calling' = calling /\ mapped' = mapped /\ cur' = cur /\ stray' = stray /\ mapped \subseteq Ates
  BY <1>1 DEF MmuInv, LockBase, MmuTypes
<1>6. \A v \in Workers \ {t}, b \in Ates : ~ Starts(todo[v], Do("search", b))
  BY <1>2, AloneOnList DEF MmuInv
<1>7. \A v \in Workers : todo'[v] = IF v = t THEN u ELSE todo[v]
  BY <1>4 DEF MmuInv, LockBase, MmuTypes
<1>8. s = todo[t]
  OBVIOUS
<1> HIDE DEF u, N, s
<1>9. /\ StepsOf(s) = {x} \union StepsOf(u) /\ Do("munmap", a) \in StepsOf(u)
      /\ \A y \in StepsOf(u) : y[1] # "remove" /\ y[1] # "search"
      /\ \A b \in Ates : ~ Searched(u, b)
  <2>1. \A b \in Ates : x \notin {Do("first", b), Do("search", b)}
    BY DEF Do
  <2> HIDE DEF x
  <2> QED
    BY <1>2, <1>3, <2>1 DEF Pushed, Fit
<1>10. /\ \A w, b : w # "remove" \/ b # a => (Has(t, w, b)' <=> Has(t, w, b))
       /\ Has(t, "remove", a) /\ (\A b : ~ Has(t, "remove", b)') /\ Has(t, "munmap", a)'
       /\ \A w, b : \A v \in Workers \ {t} : Has(v, w, b)' <=> Has(v, w, b)
  BY <1>7, <1>8, <1>9, SMTT(30) DEF Has, Do
<1>11. /\ Has(t, "munmap", a) /\ a \in mapped /\ ~ Some("insert", a)
       /\ \A v \in Workers \ {t} : ~ Has(v, "munmap", a) /\ ~ Has(v, "remove", a)
  BY <1>10 DEF MmuInv, SubjectInv, Some
<1>12. /\ Some("remove", a) /\ ~ Some("remove", a)' /\ Some("munmap", a)'
       /\ \A w, b : w # "remove" \/ b # a => (Some(w, b)' <=> Some(w, b))
  BY <1>10, <1>11 DEF Some
<1>13. Inserted' = Inserted \ {a} /\ a \in Inserted
  <2>1. \A b : b \in Inserted' <=> b \in Inserted /\ b # a
    BY <1>5, <1>12, InsertedIs, InsertedIsThen
  <2> QED
    BY <2>1, <1>11, <1>12, InsertedIs
<1>14. SubjectInv'
  <2>1. \A v \in Workers, w \in Uses, b \in Ates : Has(v, w, b)' => Live(b)' \/ Stands(v, b)'
    <3>1. SUFFICES ASSUME NEW v \in Workers, NEW w \in Uses, NEW b \in Ates, Has(v, w, b)'
                   PROVE  Live(b)' \/ Stands(v, b)'
      OBVIOUS
    <3>2. Has(v, w, b)
      BY <3>1, <1>10 DEF Uses
    <3>3. Live(b) \/ Stands(v, b)
      BY <3>2 DEF MmuInv, SubjectInv
    <3>4. Live(b) => Live(b)'
      BY <1>5, <1>12 DEF Live
    <3>5. Stands(v, b) => Stands(v, b)'
      BY <1>5, <1>10 DEF Stands
    <3> QED
      BY <3>3, <3>4, <3>5
  <2>2. \A v \in Workers, b \in Ates : Has(v, "insert", b)' =>
          b \in mapped' /\ ~ Some("munmap", b)' /\ \A q \in Workers \ {v} : ~ Has(q, "insert", b)'
    BY <1>5, <1>10, <1>12, SMTT(30) DEF MmuInv, SubjectInv
  <2>3. \A v \in Workers, b \in Ates : Has(v, "munmap", b)' =>
          b \in mapped' /\ \A q \in Workers \ {v} : ~ Has(q, "munmap", b)'
    BY <1>5, <1>10, SMTT(30) DEF MmuInv, SubjectInv
  <2>4. \A v \in Workers, b \in Ates : Has(v, "remove", b)' => Has(v, "munmap", b)'
    BY <1>10 DEF MmuInv, SubjectInv
  <2> QED
    BY <2>1, <2>2, <2>3, <2>4 DEF SubjectInv
<1>15. WalkInv'
  <2>1. SUFFICES ASSUME ~ UnderWalk(a), NEW v \in Workers, Has(v, "more", "all")' PROVE cur'[v] \in Inserted'
    BY <1>1 DEF WalkInv
  <2>2. Has(v, "more", "all")
    BY <2>1, <1>10
  <2>3. Do("more", "all") \in Steps(v)
    BY <2>2 DEF Has, StepsOf, Steps
  <2>4. cur[v] # a
    BY <2>1, <2>3 DEF UnderWalk, Walks
  <2>5. cur[v] \in Inserted
    BY <2>2 DEF MmuInv, WalkInv
  <2> QED
    BY <2>4, <2>5, <1>5, <1>13
<1>16. ListInv'
  <2>1. Inserted \subseteq Ates
    BY <1>5, InsertedIs
  <2>2. ListInv /\ next \in [Ates -> Ates \union {NoAte}] /\ prev \in [Ates -> Ates \union {NoAte}]
    BY DEF MmuInv, LockBase, MmuTypes
  <2> QED
    BY <2>1, <2>2, <1>1, <1>13, Unlinked
<1>17. \A v \in Workers, b \in Ates : ~ Starts(todo'[v], Do("search", b))
  <2>1. \A b \in Ates : Do("search", b) \notin StepsOf(u)
    BY <1>9 DEF Do
  <2>2. \A b \in Ates : ~ Starts(u, Do("search", b))
    BY <2>1, <1>3, StartsStep
  <2> QED
    BY <2>2, <1>6, <1>7
<1>18. SearchInv'
  BY <1>17 DEF SearchInv
<1>19. FoundInv'
  <2>1. \A v \in Workers, b \in Ates : Searched(todo'[v], b) => cur'[v] = b
    BY <1>5, <1>7, <1>9 DEF MmuInv, FoundInv
  <2> QED
    BY <2>1 DEF FoundInv
<1> QED
  BY <1>5, <1>14, <1>15, <1>16, <1>18, <1>19 DEF MmuInv, NoStrayRead

LEMMA MmuInvInit ==
  MmuInit => MmuInv
<1> SUFFICES ASSUME MmuInit PROVE MmuInv
  OBVIOUS
<1>1. LockBase
  BY LockBaseInit
<1>2. \A t \in Workers : StepsOf(todo[t]) = {} /\ todo[t] = <<>>
  BY Nothing DEF MmuInit
<1>3. mapped = {} /\ a_tbl = NoAte /\ ~ stray
  BY DEF MmuInit
<1>4. \A w, a : \A t \in Workers : ~ Has(t, w, a)
  BY <1>2 DEF Has
<1>5. Inserted = {}
  BY <1>3 DEF Inserted
<1>6. SubjectInv /\ WalkInv
  BY <1>4 DEF SubjectInv, WalkInv
<1>7. ListInv
  BY <1>3, <1>5 DEF ListInv
<1>8. SearchInv /\ FoundInv
  BY <1>2 DEF SearchInv, FoundInv, Searched, Starts
<1> QED
  BY <1>1, <1>3, <1>6, <1>7, <1>8 DEF MmuInv, NoStrayRead

LEMMA MmuInvStep ==
  ASSUME NoTouchAll
  PROVE  MmuInv /\ [MmuNext]_mmuvars => MmuInv'
<1> SUFFICES ASSUME MmuInv, [MmuNext]_mmuvars PROVE MmuInv'
  OBVIOUS
<1>1. LockBase'
  BY LockBaseStep DEF MmuInv
<1>2. LockBase
  BY DEF MmuInv
<1>3. CASE UNCHANGED mmuvars
  <2>1. /\ caught' = caught /\ a_tbl' = a_tbl /\ next' = next /\ prev' = prev /\ mapped' = mapped
        /\ todo' = todo /\ cur' = cur /\ stray' = stray
    BY <1>3 DEF mmuvars, list
  <2>2. \A w, a : \A t \in Workers : Has(t, w, a)' <=> Has(t, w, a)
    BY <2>1 DEF Has
  <2>3. \A w, a : Some(w, a)' <=> Some(w, a)
    BY <2>2 DEF Some
  <2>4. Inserted' = Inserted
    <3>1. \A a : a \in Inserted' <=> a \in Inserted
      BY <2>1, <2>3, InsertedIs, InsertedIsThen
    <3> QED
      BY <3>1
  <2>5. SubjectInv' /\ WalkInv'
    BY <2>1, <2>2, <2>3, <2>4 DEF MmuInv, SubjectInv, WalkInv, Live, Stands
  <2>6. ListInv' /\ SearchInv' /\ FoundInv'
    BY <2>1, <2>4 DEF MmuInv, ListInv, SearchInv, FoundInv, Reaches, Kept
  <2> QED
    BY <1>1, <2>1, <2>5, <2>6 DEF MmuInv, NoStrayRead
<1> QED
  BY <1>1, <1>2, <1>3, StepsTaken, ListGetLet, ListSearchFirst, ListSearch, ListWalk, ListInsert, ListRemove,
    ListMunmap, ListAccess, ListMalloc, ListFree

\* What the invariant says of the list is what LookupSound says of it.
LEMMA MmuInvSound ==
  MmuInv => LookupSound
<1> SUFFICES ASSUME MmuInv PROVE LookupSound
  OBVIOUS
<1>1. ListInv /\ Inserted \subseteq Ates
  BY InsertedIs DEF MmuInv, LockBase, MmuTypes
<1>2. Chain = Inserted
  <2>1. Kept(Inserted) /\ a_tbl \in Inserted \union {NoAte} /\ Inserted \in SUBSET Ates
    BY <1>1 DEF ListInv, Kept
  <2>2. Chain \subseteq Inserted
    BY <2>1 DEF Chain
  <2>3. ASSUME NEW a \in Inserted, NEW S \in SUBSET Ates, Kept(S), a_tbl \in S \union {NoAte} PROVE a \in S
    <3> DEFINE T == S \intersect Inserted
    <3>1. T \in SUBSET Inserted /\ a_tbl \in T \union {NoAte}
      BY <2>1, <2>3
    <3>2. Kept(T)
      BY <2>1, <2>3 DEF Kept
    <3>3. T = Inserted
      BY <1>1, <3>1, <3>2 DEF ListInv
    <3> QED
      BY <3>3
  <2> QED
    BY <1>1, <2>2, <2>3 DEF Chain
<1>3. ListIntact
  <2>1. \A a \in Inserted : IF a = a_tbl THEN prev[a] = NoAte ELSE prev[a] # NoAte /\ next[prev[a]] = a
    BY <1>1, MmuAssumption DEF ListInv
  <2> QED
    BY <1>2, <2>1 DEF ListIntact
<1>4. Finds
  <2>1. SUFFICES ASSUME NEW t \in Workers, NEW a \in Ates, Now(t, "get", a), Len(todo[t]) > 1,
                        todo[t][2] = Do("let", "mmu")
                 PROVE  cur[t] = a
    BY DEF Finds
  <2>2. todo[t] \in Rests
    BY DEF MmuInv, LockBase, MmuTypes
  <2>3. Tail(todo[t]) # <<>> /\ Head(Tail(todo[t])) = todo[t][2]
    <3>1. todo[t] # <<>> /\ Len(todo[t]) \in Nat
      BY <2>2, <2>1, SMTT(30) DEF Rests, Now
    <3>2. Tail(todo[t]) \in Rests /\ Len(Tail(todo[t])) = Len(todo[t]) - 1
      BY <2>2, <3>1, SMTT(30) DEF Rests
    <3>3. Tail(todo[t])[1] = todo[t][2]
      BY <2>1, <2>2, <3>1, <3>2, SMTT(30) DEF Rests
    <3>4. Len(Tail(todo[t])) >= 1
      BY <2>1, <3>1, <3>2, SMTT(30)
    <3> DEFINE u == Tail(todo[t])
    <3> HIDE DEF u
    <3>5. u \in Rests /\ Len(u) >= 1
      BY <3>2, <3>4 DEF u
    <3>6. u # <<>> /\ Head(u) = u[1]
      BY <3>5, SMTT(30) DEF Rests
    <3> QED
      BY <3>3, <3>6 DEF u
  <2>4. Searched(todo[t], a)
    BY <2>1, <2>3 DEF Searched, Starts, Now
  <2> QED
    BY <2>4 DEF MmuInv, FoundInv
<1> QED
  BY <1>3, <1>4 DEF LookupSound, MmuInv

\* For any number of threads and entries: mmu_lookup_ate is right whatever other
\* threads insert, remove and unmap, and whatever they walk over, up to the first
\* sbma_free of an entry under a walk, which takes mmu.lock where a walk has vmm.lock.
THEOREM LookupsAreRight ==
  ASSUME NoTouchAll
  PROVE  MmuSpec => []LookupSound
<1>1. MmuInv /\ [MmuNext]_mmuvars => MmuInv'
  BY MmuInvStep
<1> QED
  BY <1>1, MmuInvInit, MmuInvSound, PTL DEF MmuSpec

==============================================================================
