---------------------------- MODULE AlgorithmsProofs -------------------------
(***************************************************************************)
(* The sequential algorithms of the library, for every size of their       *)
(* inputs, and the two demonstrations of src/old/asio: the queue of pc.c   *)
(* and the readers/writer lock of rw.c, for every size and every set of    *)
(* threads.                                                                *)
(***************************************************************************)
EXTENDS MadmitScan, OptParse, PageRange, PcQueue, RwLock,
        FiniteSetTheorems, SequenceTheorems, TLAPS

------------------------------------------------------------------------------
\* The prover of the steps that name no other.
USE ZenonT(60)

(***************************************************************************)
(* The scan of ipc_madmit chooses correctly for every number of processes. *)
(***************************************************************************)
\* The first iteration has passed no process.
LEMMA ScanInit == Init => TypeOK /\ ScanInv /\ DirtyInv
<1> SUFFICES ASSUME Init PROVE TypeOK /\ ScanInv /\ DirtyInv
  OBVIOUS
<1>1. TypeOK
  <2>1. i \in 1 .. N + 1 /\ ii \in 0 .. N
    BY ScanAssumption, SMTT(30) DEF Init
  <2>2. mx_c_mem \in 0 .. MaxPages /\ mx_d_mem \in Nat
    BY ScanAssumption, SMTT(30) DEF Init
  <2>3. moved \in BOOLEAN /\ pc \in {"test", "take", "end"}
    BY DEF Init
  <2>4. QED
    BY <2>1, <2>2, <2>3 DEF Init, TypeOK
<1>2. ScanInv
  BY <1>1, SMTT(30) DEF Init, ScanInv, Candidates, Procs, TypeOK
<1>3. DirtyInv
  BY <1>1, SMTT(30) DEF Init, DirtyInv, Fitting, Candidates, Procs, TypeOK
<1>4. QED
  BY <1>1, <1>2, <1>3

\* Types need i <= N when the body of the if runs.
LEMMA ScanTypeStep == TypeOK /\ ScanInv /\ [Next]_vars => TypeOK'
<1> SUFFICES ASSUME TypeOK, ScanInv, [Next]_vars PROVE TypeOK'
  OBVIOUS
<1> USE ScanAssumption DEF TypeOK, Procs, inputs, best
<1>1. CASE ScanSkip
  BY <1>1, SMTT(30) DEF ScanSkip
<1>2. CASE ScanAccept
  BY <1>2 DEF ScanAccept
<1>3. CASE ScanTake
  <2>1. i <= N
    BY <1>3 DEF ScanTake, ScanInv
  <2>2. QED
    BY <1>3, <2>1, SMTT(30) DEF ScanTake
<1>4. CASE ScanEnd
  BY <1>4 DEF ScanEnd
<1>5. CASE OthersDirty
  <2>1. d_mem' \in [Procs -> 0 .. MaxPages]
    BY <1>5 DEF OthersDirty
  <2>2. moved' \in BOOLEAN
    BY <1>5 DEF OthersDirty
  <2>3. QED
    BY <1>5, <2>1, <2>2 DEF OthersDirty
<1>6. CASE UNCHANGED vars
  BY <1>6 DEF vars
<1>7. QED
  BY <1>1, <1>2, <1>3, <1>4, <1>5, <1>6 DEF Next

\* The loop invariant survives an iteration: a process that is skipped is no
\* better than ii, one that is taken is at least as good as all before it.
LEMMA ScanStep == TypeOK /\ ScanInv /\ [Next]_vars => ScanInv'
<1> SUFFICES ASSUME TypeOK, ScanInv, [Next]_vars PROVE ScanInv'
  OBVIOUS
<1> USE ScanAssumption DEF ScanInv, Candidates, Procs, TypeOK, inputs, best
<1>1. CASE ScanSkip
  BY <1>1, SMTT(30) DEF ScanSkip, Better, ipc_is_eligible
<1>2. CASE ScanAccept
  BY <1>2, SMTT(30) DEF ScanAccept, Better, ipc_is_eligible
<1>3. CASE ScanTake
  BY <1>3, SMTT(30) DEF ScanTake
<1>4. CASE ScanEnd
  BY <1>4 DEF ScanEnd
<1>5. CASE OthersDirty
  BY <1>5 DEF OthersDirty
<1>6. CASE UNCHANGED vars
  BY <1>6 DEF vars
<1>7. QED
  BY <1>1, <1>2, <1>3, <1>4, <1>5, <1>6 DEF Next

\* Among the processes that cover the shortage, ii is the least dirty so far.
LEMMA DirtyStep ==
  TypeOK /\ ScanInv /\ DirtyInv /\ [Next]_vars => DirtyInv'
<1> SUFFICES ASSUME TypeOK, ScanInv, DirtyInv, [Next]_vars, admitd', ~moved'
             PROVE DirtyInv'
  BY DEF DirtyInv
<1> USE ScanAssumption
    DEF ScanInv, DirtyInv, Fitting, Candidates, Procs, TypeOK, inputs, best
<1>1. CASE ScanSkip
  BY <1>1, SMTT(30) DEF ScanSkip, Better, ipc_is_eligible
<1>2. CASE ScanAccept
  BY <1>2 DEF ScanAccept, Better
<1>3. CASE ScanTake
  BY <1>3, SMTT(30) DEF ScanTake, Better
<1>4. CASE ScanEnd
  BY <1>4 DEF ScanEnd
<1>5. CASE OthersDirty
  BY <1>5 DEF OthersDirty
<1>6. CASE UNCHANGED vars
  BY <1>6 DEF vars, Better
<1>7. QED
  BY <1>1, <1>2, <1>3, <1>4, <1>5, <1>6 DEF Next

\* The loop index stays inside the shared arrays, and ii, mx_c_mem and mx_d_mem
\* keep their types, for every number of processes.
THEOREM ScanTyping == Spec => []TypeOK
  BY ScanInit, ScanTypeStep, ScanStep, PTL DEF Spec

\* The loop invariant of the scan in ipc_madmit.
THEOREM ScanInvariant == Spec => [](TypeOK /\ ScanInv /\ DirtyInv)
  BY ScanInit, ScanTypeStep, ScanStep, DirtyStep, PTL DEF Spec

\* ipc_madmit's scan chooses by the rule in its comment, whatever d_mem does
\* meanwhile.
THEOREM ScanChoice == Spec => []ChoiceCorrect
<1>1. TypeOK /\ ScanInv => ChoiceCorrect
  <2> SUFFICES ASSUME TypeOK, ScanInv, pc = "end" PROVE ChoiceCorrect
    BY DEF ChoiceCorrect
  <2>1. /\ i > N /\ i \in Int /\ N \in Nat /\ need \in Nat /\ mx_c_mem \in Nat
        /\ need > 0
        /\ \A p \in Candidates : p \in Int /\ p <= N /\ c_mem[p] \in Nat
    BY ScanAssumption, SMTT(30) DEF TypeOK, ScanInv, Candidates, Procs
  <2>2. \A p \in Candidates :
          /\ ii # 0
          /\ mx_c_mem < need => c_mem[p] <= mx_c_mem
          /\ c_mem[p] >= need => mx_c_mem >= need
          /\ c_mem[p] >= need /\ ~admitd => mx_c_mem <= c_mem[p]
    <3> TAKE p \in Candidates
    <3>1. p < i
      BY <2>1, SMTT(30)
    <3>2. QED
      BY <3>1 DEF ScanInv
  <2>3. ii # 0 => ii \in Candidates /\ mx_c_mem = c_mem[ii]
    BY DEF ScanInv
  <2>4. ii = 0 <=> Candidates = {}
    BY <2>2, <2>3
  <2>5. ASSUME ii # 0, Fitting = {}
        PROVE  \A p \in Candidates : c_mem[p] <= c_mem[ii]
    <3>1. mx_c_mem < need
      BY <2>1, <2>3, <2>5, SMTT(30) DEF Fitting
    <3>2. QED
      BY <2>2, <2>3, <2>5, <3>1
  <2>6. ASSUME ii # 0, Fitting # {}
        PROVE  ii \in Fitting
    <3>1. mx_c_mem >= need
      BY <2>2, <2>6 DEF Fitting
    <3>2. QED
      BY <2>3, <2>6, <3>1 DEF Fitting
  <2>7. ASSUME ii # 0, ~admitd
        PROVE  \A p \in Fitting : c_mem[ii] <= c_mem[p]
    BY <2>2, <2>3, <2>7 DEF Fitting
  <2>8. QED
    BY <2>3, <2>4, <2>5, <2>6, <2>7 DEF ChoiceCorrect
<1>2. QED
  BY <1>1, ScanInvariant, PTL

\* With VMM_ADMITD the scan of ipc_madmit finds the least dirty process among
\* those that cover the shortage, if d_mem stands still.
THEOREM ScanLeastDirty == Spec => []LeastDirty
<1>1. TypeOK /\ ScanInv /\ DirtyInv => LeastDirty
  BY ScanAssumption, SMTT(30) DEF TypeOK, ScanInv, DirtyInv, LeastDirty, Candidates, Fitting, Procs
<1>2. QED
  BY <1>1, ScanInvariant, PTL

------------------------------------------------------------------------------
(***************************************************************************)
(* sbma_parse_optstr on strings of any number of tokens.                   *)
(***************************************************************************)
Masks == UNION {given[j].mask : j \in DOMAIN given}

\* While the loop runs no bit has been decided twice, so the bits toggled are
\* the bits decided, and the options collected are the options wanted.
Sound ==
  /\ \A j \in DOMAIN given : given[j] \in Tokens
  /\ ~ Contradicts
  /\ seen = Masks
  /\ opts = Wanted

OptInv ==
  /\ given \in Seq(Tokens \union {Unknown})
  /\ parse \in {"more", "done"}
  /\ parse = "more" => Sound
  /\ OptMeaning

\* What the table of tokens guarantees.
LEMMA TokenFacts ==
  ASSUME NEW t \in Tokens
  PROVE  /\ t # Unknown
         /\ t.mask \subseteq OptBits
         /\ "EXTRA" \in t.on => "CHECK" \in t.on
<1>1. t.name # "other"
  BY SMTT(30) DEF Tokens, Token
<1>2. t.mask \subseteq OptBits
  BY SMTT(30) DEF Tokens, Token, all, OptBits
<1>3. "EXTRA" \in t.on => "CHECK" \in t.on
  BY SMTT(30) DEF Tokens, Token
<1> QED
  BY <1>1, <1>2, <1>3, SMTT(30) DEF Unknown, Token

\* Two tokens clash, but for default and one that decides ADMITD, exactly when
\* their masks meet.
LEMMA MasksMeet ==
  ASSUME NEW t \in Tokens, NEW u \in Tokens
  PROVE  (\E b \in OptBits : b \in t.mask /\ b \in u.mask) <=>
           /\ \E b \in OptBits : (b \in t.mask \/ t.name = "default") /\ (b \in u.mask \/ u.name = "default")
           /\ ~ (t.name = "default" /\ u.name \in {"admitr", "admitd"})
           /\ ~ (u.name = "default" /\ t.name \in {"admitr", "admitd"})
<1>1. ASSUME NEW v \in Tokens
      PROVE  /\ v.name = "default" => v.mask = OptBits \ {"ADMITD"}
             /\ v.name \in {"admitr", "admitd"} => v.mask = {"ADMITD"}
             /\ v.name \notin {"default", "admitr", "admitd"} => "ADMITD" \notin v.mask
             /\ v.mask \subseteq OptBits /\ v.mask # {}
  <2>1. v.name = "default" => v.mask = OptBits \ {"ADMITD"}
    BY SMTT(30) DEF Tokens, Token, all
  <2>2. v.name \in {"admitr", "admitd"} => v.mask = {"ADMITD"}
    BY SMTT(30) DEF Tokens, Token
  <2>3. v.name \notin {"default", "admitr", "admitd"} => "ADMITD" \notin v.mask
    BY SMTT(30) DEF Tokens, Token, all
  <2>4. v.mask \subseteq OptBits /\ v.mask # {}
    <3>1. v.mask # {}
      BY SMTT(30) DEF Tokens, Token, all, OptBits
    <3> QED
      BY <3>1, TokenFacts
  <2> QED
    BY <2>1, <2>2, <2>3, <2>4
<1>2. "LZYRD" \in OptBits \ {"ADMITD"}
  BY DEF OptBits
<1> QED
  BY <1>1, <1>2

\* A token that decides none of the bits decided before is taken, any other is
\* not.
LEMMA Toggles ==
  ASSUME NEW mask
  PROVE  /\ mask \subseteq Toggled(mask) <=> mask \cap seen = {}
         /\ mask \cap seen = {} => Toggled(mask) = seen \union mask
  BY DEF Toggled, SymDiff

\* The tokens after one more.
LEMMA Appended ==
  ASSUME NEW T, given \in Seq(T), NEW t \in T, given' = Append(given, t)
  PROVE  /\ given' \in Seq(T)
         /\ DOMAIN given = 1 .. Len(given) /\ Len(given) \in Nat
         /\ DOMAIN given' = DOMAIN given \union {Len(given) + 1}
         /\ Len(given) + 1 \notin DOMAIN given
         /\ given'[Len(given) + 1] = t
         /\ \A j \in DOMAIN given : given'[j] = given[j]
  BY SMTT(30)

LEMMA TakesToken ==
  ASSUME OptInv, NEW t \in Tokens \union {Unknown}, ParseToken(t)
  PROVE  OptInv'
<1> DEFINE T == Tokens \union {Unknown}
<1>0. PICK n : n = Len(given) + 1
  OBVIOUS
<1>1. /\ given' \in Seq(T)
      /\ DOMAIN given' = DOMAIN given \union {n}
      /\ n \notin DOMAIN given
      /\ given'[n] = t
      /\ \A j \in DOMAIN given : given'[j] = given[j]
  BY <1>0, Appended DEF OptInv, ParseToken
<1>2. parse = "more" /\ Sound /\ seen' = Toggled(t.mask)
  BY DEF ParseToken, OptInv
<1> HIDE DEF T
<1>3. CASE t # Unknown /\ t.mask \subseteq seen'
  <2>1. t \in Tokens /\ t.mask \cap seen = {} /\ seen' = seen \union t.mask
        /\ opts' = opts \union t.on /\ parse' = parse
    BY <1>2, <1>3, Toggles DEF ParseToken
  <2>2. \A j \in DOMAIN given' : given'[j] \in Tokens
    BY <1>1, <1>2, <2>1 DEF Sound
  <2>3. Masks' = seen' /\ Wanted' = opts'
    BY <1>1, <1>2, <2>1, SMTT(30) DEF Sound, Masks, Wanted
  <2>4. \A j \in DOMAIN given : given[j].mask \cap t.mask = {}
    BY <1>2, <2>1 DEF Sound, Masks
  <2>5. ~ Contradicts'
    <3> SUFFICES ASSUME NEW j \in DOMAIN given', NEW k \in DOMAIN given', Clash(j, k)', ~ Besides(j, k)', ~ Besides(k, j)'
                 PROVE  FALSE
      BY DEF Contradicts
    <3>1. PICK b \in OptBits : b \in given'[j].mask /\ b \in given'[k].mask
      BY <2>2, MasksMeet DEF Clash, Besides, Decided
    <3>2. j # k /\ (j = n \/ j \in DOMAIN given) /\ (k = n \/ k \in DOMAIN given)
      BY <1>1 DEF Clash
    <3>3. CASE j = n \/ k = n
      BY <1>1, <2>4, <3>1, <3>2, <3>3
    <3>4. CASE j # n /\ k # n
      <4>1. /\ j \in DOMAIN given /\ k \in DOMAIN given
            /\ given'[j] = given[j] /\ given'[k] = given[k]
        BY <1>1, <3>2, <3>4
      <4>2. Clash(j, k) /\ ~ Besides(j, k) /\ ~ Besides(k, j)
        BY <3>1, <3>2, <4>1, <1>2, MasksMeet DEF Clash, Besides, Decided, Sound
      <4> QED
        BY <4>1, <4>2, <1>2 DEF Sound, Contradicts
    <3> QED
      BY <3>3, <3>4
  <2>6. Sound'
    BY <2>2, <2>3, <2>5 DEF Sound
  <2> QED
    BY <1>1, <1>2, <2>1, <2>6 DEF OptInv, OptMeaning, T
<1>4. CASE ~ (t # Unknown /\ t.mask \subseteq seen')
  <2>1. opts' = INVLD /\ parse' = "done"
    BY <1>4 DEF ParseToken
  <2>2. CASE t = Unknown
    <3>1. Unknown \in {given'[j] : j \in DOMAIN given'}
      BY <1>1, <2>2
    <3> QED
      BY <1>1, <2>1, <3>1 DEF OptInv, OptMeaning, Meaning, T
  <2>3. CASE t # Unknown
    <3>1. t \in Tokens /\ t.mask \subseteq OptBits
      BY <2>3, TokenFacts
    <3>2. PICK b \in t.mask : b \in seen
      BY <1>2, <1>4, <2>3, Toggles, SMTT(30)
    <3>3. PICK j \in DOMAIN given : b \in given[j].mask
      BY <1>2, <3>2 DEF Sound, Masks
    <3>4. Contradicts'
      <4>1. b \in OptBits /\ j \in DOMAIN given' /\ n \in DOMAIN given' /\ j # n
        BY <1>1, <3>1, <3>2, <3>3
      <4>2. b \in given'[j].mask /\ b \in given'[n].mask
        BY <1>1, <3>2, <3>3
      <4>3. given'[j] \in Tokens /\ given'[n] \in Tokens
        BY <1>1, <1>2, <3>1, <3>3 DEF Sound
      <4>4. /\ \E c \in OptBits : /\ c \in given'[j].mask \/ given'[j].name = "default"
                                  /\ c \in given'[n].mask \/ given'[n].name = "default"
            /\ ~ (given'[j].name = "default" /\ given'[n].name \in {"admitr", "admitd"})
            /\ ~ (given'[n].name = "default" /\ given'[j].name \in {"admitr", "admitd"})
        BY <4>1, <4>2, <4>3, MasksMeet
      <4>5. Clash(j, n)' /\ ~ Besides(j, n)' /\ ~ Besides(n, j)'
        BY <4>1, <4>4 DEF Clash, Besides, Decided
      <4> QED
        BY <4>1, <4>5 DEF Contradicts
    <3> QED
      BY <1>1, <2>1, <3>4 DEF OptInv, OptMeaning, Meaning, T
  <2> QED
    BY <2>2, <2>3
<1> QED
  BY <1>3, <1>4

LEMMA Ends ==
  ASSUME OptInv, ParseEnd
  PROVE  OptInv'
<1>1. Sound /\ given' = given /\ parse' = "done" /\ opts' = IF Refused THEN INVLD ELSE opts
  BY DEF OptInv, ParseEnd
<1>2. Unknown \notin {given[j] : j \in DOMAIN given}
  BY <1>1, TokenFacts DEF Sound
<1>3. "EXTRA" \in Wanted => "CHECK" \in Wanted
  BY <1>1, TokenFacts DEF Sound, Wanted
<1>4. Meaning' = Meaning
  <2>1. Contradicts' <=> Contradicts
    BY <1>1 DEF Contradicts, Clash, Besides, Decided
  <2>2. Wanted' = Wanted
    BY <1>1 DEF Wanted
  <2> QED
    BY <1>1, <2>1, <2>2 DEF Meaning
<1>5. Meaning = IF Refused THEN INVLD ELSE opts
  BY <1>1, <1>2, <1>3 DEF Sound, Meaning, Refused
<1> QED
  BY <1>1, <1>4, <1>5 DEF OptInv, OptMeaning

\* sbma_parse_optstr returns the meaning of every string, of any length, admitr
\* or admitd besides default included.
THEOREM OptCorrect == OptSpec => []OptMeaning
<1>1. OptInit => OptInv
  <2> SUFFICES ASSUME OptInit PROVE OptInv
    OBVIOUS
  <2>1. given = <<>> /\ seen = {} /\ opts = {} /\ parse = "more"
    BY DEF OptInit
  <2>2. DOMAIN given = {}
    BY <2>1, SMTT(30)
  <2>3. Sound
    BY <2>1, <2>2 DEF Sound, Contradicts, Masks, Wanted
  <2> QED
    BY <2>1, <2>3, SMTT(30) DEF OptInv, OptMeaning
<1>2. OptInv /\ [OptNext]_optvars => OptInv'
  <2>1. ASSUME OptInv, UNCHANGED optvars PROVE OptInv'
    <3>1. given' = given /\ seen' = seen /\ opts' = opts /\ parse' = parse
      BY <2>1 DEF optvars
    <3>2. /\ Contradicts' <=> Contradicts
          /\ Wanted' = Wanted /\ Masks' = Masks
      <4>1. Contradicts' <=> Contradicts
        BY <3>1 DEF Contradicts, Clash, Besides, Decided
      <4> QED
        BY <3>1, <4>1 DEF Wanted, Masks
    <3>3. Meaning' = Meaning
      BY <3>1, <3>2 DEF Meaning
    <3> QED
      BY <2>1, <3>1, <3>2, <3>3 DEF OptInv, Sound, OptMeaning
  <2> QED
    BY <2>1, TakesToken, Ends DEF OptNext
<1>3. OptInv => OptMeaning
  BY DEF OptInv
<1> QED
  BY <1>1, <1>2, <1>3, PTL DEF OptSpec

------------------------------------------------------------------------------
(***************************************************************************)
(* The page ranges of sbma_mtouch, sbma_mevict and sbma_mclear for every   *)
(* page size and every allocation.                                         *)
(***************************************************************************)
\* The page of a byte starts at or before it and ends behind it.
LEMMA PageBounds ==
  ASSUME NEW x \in Nat
  PROVE  /\ PageOf(x) \in Nat
         /\ PageOf(x) * PageSize <= x
         /\ x < PageOf(x) * PageSize + PageSize
  BY RangeAssumption, Z3 DEF PageOf

\* It is the only page that does.
LEMMA PageUnique ==
  ASSUME NEW x \in Nat, NEW g \in Nat,
         g * PageSize <= x, x < g * PageSize + PageSize
  PROVE  g = PageOf(x)
<1> DEFINE h == PageOf(x)
<1>1. h \in Nat /\ h * PageSize <= x /\ x < h * PageSize + PageSize
  BY PageBounds
<1> HIDE DEF h
<1>2. CASE g < h
  <2>1. (g + 1) * PageSize <= h * PageSize
    BY <1>1, <1>2, RangeAssumption, SMTT(30)
  <2>2. (g + 1) * PageSize = g * PageSize + PageSize
    BY RangeAssumption, SMTT(30)
  <2> QED
    BY <1>1, <2>1, <2>2, RangeAssumption, SMTT(30)
<1>3. CASE h < g
  <2>1. (h + 1) * PageSize <= g * PageSize
    BY <1>1, <1>3, RangeAssumption, SMTT(30)
  <2>2. (h + 1) * PageSize = h * PageSize + PageSize
    BY <1>1, RangeAssumption, SMTT(30)
  <2> QED
    BY <1>1, <2>1, <2>2, RangeAssumption, SMTT(30)
<1> QED
  BY <1>1, <1>2, <1>3, SMTT(30) DEF h

\* A page starts at or before a byte exactly if it is no later than the page of
\* the byte.
LEMMA PageAtMost ==
  ASSUME NEW x \in Nat, NEW g \in Nat
  PROVE  g <= PageOf(x) <=> g * PageSize <= x
<1> DEFINE h == PageOf(x)
<1>1. h \in Nat /\ h * PageSize <= x /\ x < h * PageSize + PageSize
  BY PageBounds
<1> HIDE DEF h
<1>2. ASSUME g <= h PROVE g * PageSize <= x
  <2>1. g * PageSize <= h * PageSize
    BY <1>1, <1>2, RangeAssumption, SMTT(30)
  <2> QED
    BY <1>1, <2>1, RangeAssumption, SMTT(30)
<1>3. ASSUME h < g PROVE x < g * PageSize
  <2>1. (h + 1) * PageSize <= g * PageSize
    BY <1>1, <1>3, RangeAssumption, SMTT(30)
  <2>2. (h + 1) * PageSize = h * PageSize + PageSize
    BY <1>1, RangeAssumption, SMTT(30)
  <2> QED
    BY <1>1, <2>1, <2>2, RangeAssumption, SMTT(30)
<1>4. g * PageSize \in Nat
  BY RangeAssumption, SMTT(30)
<1>5. g <= h <=> g * PageSize <= x
  BY <1>1, <1>2, <1>3, <1>4, SMTT(30)
<1> QED
  BY <1>5 DEF h

\* Later bytes are on later pages, or on the same.
LEMMA PageMonotone ==
  ASSUME NEW x \in Nat, NEW y \in Nat, x <= y
  PROVE  PageOf(x) <= PageOf(y)
<1>1. PageOf(x) \in Nat /\ PageOf(x) * PageSize <= x
  BY PageBounds
<1>2. PageOf(x) * PageSize \in Nat
  BY <1>1, RangeAssumption, SMTT(30)
<1>3. PageOf(x) * PageSize <= y
  BY <1>1, <1>2, SMTT(30)
<1> QED
  BY <1>1, <1>3, PageAtMost

\* The bytes of a range are bytes of the allocation, and their offsets do not
\* overflow.
LEMMA RangeWithin ==
  ASSUME RangeInit
  PROVE  /\ addr \in Nat /\ len \in Nat
         /\ addr + len <= PageSize * NumPages
         /\ addr + len < SizeT
<1>1. PageSize * NumPages \in Nat
  BY RangeAssumption, SMTT(30)
<1> HIDE DEF PageOf
<1> QED
  BY <1>1, RangeAssumption, SMTT(30) DEF RangeInit

\* sbma_mtouch and sbma_mevict take exactly the pages of a range that is not
\* empty, whatever the page size.
THEOREM TouchesExactly == RangeInit /\ len > 0 => TouchExact
<1> SUFFICES ASSUME RangeInit, len > 0 PROVE TouchExact
  OBVIOUS
<1> DEFINE last == addr + len - 1
<1>1. addr \in Nat /\ len \in Nat /\ last \in Nat /\ addr <= last /\ last < SizeT
  BY RangeWithin, RangeAssumption, SMTT(30)
<1>2. Word(addr + len - 1) = last
  BY <1>1, RangeAssumption, SMTT(30) DEF Word
<1>3. TouchEnd - 1 = PageOf(last) /\ PageOf(last) \in Nat /\ TouchBeg \in Nat
  BY <1>1, <1>2, PageBounds, SMTT(30) DEF TouchEnd, TouchBeg
<1>4. ASSUME NEW x \in Bytes PROVE PageOf(x) \in TouchBeg .. TouchEnd - 1
  <2>1. x \in Nat /\ addr <= x /\ x <= last
    BY <1>1, SMTT(30) DEF Bytes
  <2>2. PageOf(addr) <= PageOf(x) /\ PageOf(x) <= PageOf(last) /\ PageOf(x) \in Nat
    BY <1>1, <2>1, PageMonotone, PageBounds
  <2> QED
    BY <1>3, <2>2, SMTT(30) DEF TouchBeg
<1>5. ASSUME NEW g \in TouchBeg .. TouchEnd - 1
      PROVE  \E x \in Bytes : g = PageOf(x)
  <2>1. g \in Nat /\ PageOf(addr) <= g /\ g <= PageOf(last) /\ g * PageSize \in Nat
    BY <1>3, RangeAssumption, SMTT(30) DEF TouchBeg
  <2>2. g * PageSize <= last
    BY <1>1, <2>1, PageAtMost
  <2>3. CASE addr <= g * PageSize
    <3>1. g * PageSize \in Bytes
      BY <1>1, <2>1, <2>2, <2>3, SMTT(30) DEF Bytes
    <3>2. g = PageOf(g * PageSize)
      BY <2>1, PageUnique, RangeAssumption, SMTT(30)
    <3> QED
      BY <3>1, <3>2
  <2>4. CASE g * PageSize < addr
    <3>1. g <= PageOf(addr)
      BY <1>1, <2>1, <2>4, PageAtMost, SMTT(30)
    <3>2. g = PageOf(addr) /\ addr \in Bytes
      BY <1>1, <2>1, <3>1, PageBounds, SMTT(30) DEF Bytes
    <3> QED
      BY <3>2
  <2> QED
    BY <1>1, <2>1, <2>3, <2>4, SMTT(30)
<1> QED
  BY <1>4, <1>5 DEF TouchExact

\* They stay within the allocation.
THEOREM TouchesWithin == RangeInit /\ len > 0 => TouchWithin
<1> SUFFICES ASSUME RangeInit, len > 0 PROVE TouchWithin
  OBVIOUS
<1> DEFINE last == addr + len - 1
<1>1. last \in Nat /\ last < SizeT /\ last < PageSize * NumPages
  BY RangeWithin, RangeAssumption, SMTT(30)
<1>2. Word(addr + len - 1) = last
  BY <1>1, RangeAssumption, SMTT(30) DEF Word
<1>3. ~ (NumPages <= PageOf(last))
  <2>1. ~ (NumPages * PageSize <= last)
    BY <1>1, RangeAssumption, SMTT(30)
  <2> QED
    BY <1>1, <2>1, PageAtMost, RangeAssumption
<1> QED
  BY <1>1, <1>2, <1>3, PageBounds, RangeAssumption, SMTT(30) DEF TouchWithin, TouchEnd

\* sbma_mclear clears exactly the pages that lie in the range, whatever the page
\* size and also when the range is empty.
THEOREM ClearsInside == RangeInit => ClearInside
<1> SUFFICES ASSUME RangeInit PROVE ClearInside
  OBVIOUS
<1> DEFINE end == addr + len
           Within(g) == g * PageSize .. (g + 1) * PageSize - 1 \subseteq Bytes
<1>1. addr \in Nat /\ len \in Nat /\ end \in Nat /\ end <= PageSize * NumPages
  BY RangeWithin, SMTT(30)
<1>2. ClearEnd = PageOf(end) /\ ClearEnd \in Nat /\ ClearBeg \in Nat
  <2>1. addr # 0 => addr - 1 \in Nat
    BY <1>1, SMTT(30)
  <2> QED
    BY <1>1, <2>1, PageBounds, SMTT(30) DEF ClearEnd, ClearBeg
<1>3. ASSUME NEW g \in Nat
      PROVE  /\ g * PageSize \in Nat
             /\ (g + 1) * PageSize = g * PageSize + PageSize
             /\ ClearBeg <= g <=> addr <= g * PageSize
             /\ g <= ClearEnd - 1 <=> (g + 1) * PageSize <= end
             /\ Within(g) <=> addr <= g * PageSize /\ (g + 1) * PageSize <= end
  <2>1. g * PageSize \in Nat /\ (g + 1) * PageSize = g * PageSize + PageSize
    BY RangeAssumption, SMTT(30)
  <2>2. ClearBeg <= g <=> addr <= g * PageSize
    <3>1. CASE addr = 0
      BY <2>1, <3>1, SMTT(30) DEF ClearBeg
    <3>2. CASE addr # 0
      <4>1. addr - 1 \in Nat
        BY <1>1, <3>2, SMTT(30)
      <4>2. g <= PageOf(addr - 1) <=> g * PageSize <= addr - 1
        BY <4>1, PageAtMost
      <4> QED
        BY <1>1, <2>1, <3>2, <4>1, <4>2, PageBounds, SMTT(30) DEF ClearBeg
    <3> QED
      BY <3>1, <3>2
  <2>3. g <= ClearEnd - 1 <=> (g + 1) * PageSize <= end
    <3>1. g + 1 <= PageOf(end) <=> (g + 1) * PageSize <= end
      BY <1>1, PageAtMost, SMTT(30)
    <3> QED
      BY <1>2, <3>1, SMTT(30)
  <2>4. Within(g) <=> addr <= g * PageSize /\ (g + 1) * PageSize <= end
    BY <1>1, <2>1, RangeAssumption, SMTT(30) DEF Bytes
  <2> QED
    BY <2>1, <2>2, <2>3, <2>4
<1>4. ASSUME NEW g \in Nat, (g + 1) * PageSize <= end
      PROVE  g \in 0 .. NumPages - 1
  <2>1. (g + 1) * PageSize <= NumPages * PageSize
    BY <1>1, <1>4, RangeAssumption, SMTT(30)
  <2>2. g + 1 <= NumPages
    BY <2>1, RangeAssumption, SMTT(30)
  <2> QED
    BY <2>2, RangeAssumption, SMTT(30)
<1>5. ClearBeg .. ClearEnd - 1 \subseteq {g \in 0 .. NumPages - 1 : Within(g)}
  BY <1>2, <1>3, <1>4, SMTT(30)
<1>6. {g \in 0 .. NumPages - 1 : Within(g)} \subseteq ClearBeg .. ClearEnd - 1
  BY <1>2, <1>3, RangeAssumption, SMTT(30)
<1> QED
  BY <1>5, <1>6 DEF ClearInside

------------------------------------------------------------------------------
(***************************************************************************)
(* The queue of pc.c keeps order for every size of its ring and any number *)
(* of rounds.                                                              *)
(***************************************************************************)
\* An index that has passed the end of the ring once.
Wrap(x) == IF x < QUEUESIZE THEN x ELSE x - QUEUESIZE

Ongoing == {"lock", "test", "wait", "woken"}

\* What makes InOrder inductive: the flags tell a full ring from an empty one,
\* what is stored is as much as was added and not received, slot by slot, and
\* a producer that is not done has items left to add.
PcInv ==
  /\ PcTypeOK
  /\ ~ (full /\ empty)
  /\ head = tail <=> full \/ empty
  /\ made = Len(received) + Stored
  /\ \A k \in 1 .. Len(received) : received[k] = (k - 1) % LOOP
  /\ \A k \in 0 .. Stored - 1 : buf[Wrap(head + k)] = (Len(received) + k) % LOOP
  /\ at["producer"] \in Ongoing => made < 2 * LOOP
  /\ \A s \in waits : at[s] = "wait"

LEMMA WrapIsMod ==
  ASSUME NEW x \in 0 .. 2 * QUEUESIZE - 1
  PROVE  x % QUEUESIZE = Wrap(x) /\ Wrap(x) \in 0 .. QUEUESIZE - 1
<1>1. QUEUESIZE \in Nat \ {0} /\ x \in Nat /\ x < 2 * QUEUESIZE
  BY PcAssumption, SMTT(30)
<1>2. CASE x < QUEUESIZE
  <2>1. x % QUEUESIZE = x
    BY <1>1, <1>2, Z3
  <2> QED
    BY <1>1, <1>2, <2>1, SMTT(30) DEF Wrap
<1>3. CASE x >= QUEUESIZE
  <2>1. x % QUEUESIZE = x - QUEUESIZE
    BY <1>1, <1>3, Z3
  <2> QED
    BY <1>1, <1>3, <2>1, SMTT(30) DEF Wrap
<1> QED
  BY <1>1, <1>2, <1>3, SMTT(30)

LEMMA ModLoop ==
  ASSUME NEW x \in Nat
  PROVE  x % LOOP \in 0 .. LOOP - 1
  BY PcAssumption, Z3

LEMMA StoredRange ==
  ASSUME PcTypeOK, ~ (full /\ empty), head = tail <=> full \/ empty
  PROVE  /\ Stored \in 0 .. QUEUESIZE
         /\ full <=> Stored = QUEUESIZE
         /\ empty <=> Stored = 0
         /\ Stored < QUEUESIZE => Wrap(head + Stored) = tail
  BY PcAssumption, SMTT(30) DEF PcTypeOK, Stored, Wrap

LEMMA PcInitInv == PcInit => PcInv
<1> SUFFICES ASSUME PcInit PROVE PcInv
  OBVIOUS
<1>1. PcTypeOK
  <2>1. buf \in [0 .. QUEUESIZE - 1 -> -1 .. LOOP - 1]
    BY PcAssumption, SMTT(30) DEF PcInit, Nothing
  <2>2. head \in 0 .. QUEUESIZE - 1 /\ tail \in 0 .. QUEUESIZE - 1 /\ made \in 0 .. 2 * LOOP
    BY PcAssumption, SMTT(30) DEF PcInit
  <2>3. received \in Seq(0 .. LOOP - 1)
    BY SMTT(30) DEF PcInit
  <2> QED
    BY <2>1, <2>2, <2>3 DEF PcInit, PcTypeOK, Sides
<1>2. Stored = 0 /\ Len(received) = 0
  BY SMTT(30) DEF PcInit, Stored
<1> QED
  BY <1>1, <1>2, PcAssumption, SMTT(30) DEF PcInit, PcInv, Sides

LEMMA QueueAddInv ==
  ASSUME PcInv, QueueAdd
  PROVE  PcInv'
<1> USE DEF PcInv
<1> DEFINE n == Len(received)
<1>1. /\ at["producer"] = "test" /\ ~ full
      /\ buf' = [buf EXCEPT ![tail] = made % LOOP] /\ tail' = Advance(tail)
      /\ full' = (full \/ tail' = head) /\ empty' = FALSE
      /\ made' = made + 1 /\ mut' = "free" /\ at' = [at EXCEPT !["producer"] = "signal"]
      /\ UNCHANGED <<head, waits, received, deleted>>
  BY DEF QueueAdd, AtGoes
<1>2. made < 2 * LOOP /\ made \in Nat /\ made % LOOP \in 0 .. LOOP - 1
  <2>1. made < 2 * LOOP /\ made \in Nat
    BY <1>1, PcAssumption, SMTT(30) DEF Ongoing, PcTypeOK
  <2> QED
    BY <2>1, ModLoop
<1>3. tail' \in 0 .. QUEUESIZE - 1 /\ full' \in BOOLEAN
  BY <1>1, PcAssumption, SMTT(30) DEF Advance, PcTypeOK
<1>4. PcTypeOK'
  <2>1. buf' \in [0 .. QUEUESIZE - 1 -> -1 .. LOOP - 1]
    <3> DEFINE new == made % LOOP
    <3>1. new \in -1 .. LOOP - 1
      BY <1>2, PcAssumption, SMTT(30)
    <3> HIDE DEF new
    <3>2. [buf EXCEPT ![tail] = new] \in [0 .. QUEUESIZE - 1 -> -1 .. LOOP - 1]
      BY <3>1 DEF PcTypeOK
    <3> QED
      BY <1>1, <3>2 DEF new
  <2>2. made' \in 0 .. 2 * LOOP
    BY <1>1, <1>2, PcAssumption, SMTT(30)
  <2>3. at' \in [Sides -> {"lock", "test", "wait", "woken", "signal", "end"}]
    BY <1>1 DEF PcTypeOK
  <2> QED
    BY <1>1, <1>3, <2>1, <2>2, <2>3 DEF PcTypeOK
<1>5. ~ (full' /\ empty') /\ (head' = tail' <=> full' \/ empty')
  BY <1>1
<1>6. Stored' = Stored + 1 /\ Stored \in 0 .. QUEUESIZE - 1 /\ Wrap(head + Stored) = tail
  <2>1. Stored \in 0 .. QUEUESIZE - 1 /\ Wrap(head + Stored) = tail
    BY <1>1, StoredRange, PcAssumption, SMTT(30)
  <2>2. Stored' = Stored + 1
    <3>1. head \in 0 .. QUEUESIZE - 1 /\ tail \in 0 .. QUEUESIZE - 1 /\ QUEUESIZE \in Nat \ {0}
      BY PcAssumption DEF PcTypeOK
    <3>2. head' = head /\ (full' <=> tail' = head) /\ ~ full
      BY <1>1
    <3>3. tail' = IF tail + 1 = QUEUESIZE THEN 0 ELSE tail + 1
      BY <1>1 DEF Advance
    <3> HIDE DEF PcInv
    <3> QED
      BY <3>1, <3>2, <3>3, SMTT(30) DEF Stored
  <2> QED
    BY <2>1, <2>2
<1>7. ASSUME NEW k \in 0 .. Stored' - 1
      PROVE  buf'[Wrap(head + k)] = (n + k) % LOOP
  <2>1. CASE k = Stored
    BY <1>1, <1>6, <2>1 DEF PcTypeOK
  <2>2. CASE k # Stored
    <3>1. k \in 0 .. Stored - 1
      BY <1>6, <1>7, <2>2, SMTT(30)
    <3>2. Wrap(head + k) # Wrap(head + Stored)
      BY <1>6, <3>1, PcAssumption, SMTT(30) DEF PcTypeOK, Wrap
    <3>3. Wrap(head + k) \in 0 .. QUEUESIZE - 1
      BY <1>6, <3>1, PcAssumption, SMTT(30) DEF PcTypeOK, Wrap
    <3> QED
      BY <1>1, <1>6, <3>1, <3>2, <3>3 DEF PcTypeOK
  <2> QED
    BY <2>1, <2>2
<1>8. n \in Nat
  BY SMTT(30) DEF PcTypeOK
<1>9. made' = Len(received') + Stored'
  BY <1>1, <1>2, <1>6, <1>8, SMTT(30)
<1>10. at'["producer"] = "signal" /\ \A s \in waits' : at'[s] = "wait"
  BY <1>1 DEF PcTypeOK, Sides
<1> QED
  BY <1>1, <1>4, <1>5, <1>7, <1>9, <1>10 DEF Ongoing, Wrap

LEMMA QueueDelInv ==
  ASSUME PcInv, QueueDel
  PROVE  PcInv'
<1> USE DEF PcInv
<1> DEFINE n == Len(received)
<1>1. /\ at["consumer"] = "test" /\ ~ empty
      /\ received' = Append(received, buf[head]) /\ head' = Advance(head)
      /\ empty' = (empty \/ head' = tail) /\ full' = FALSE
      /\ mut' = "free" /\ at' = [at EXCEPT !["consumer"] = "signal"]
      /\ UNCHANGED <<buf, tail, waits, made, deleted>>
  BY DEF QueueDel, AtGoes
<1>2. n \in Nat /\ received \in Seq(0 .. LOOP - 1)
  BY SMTT(30) DEF PcTypeOK
<1>3. Stored \in 1 .. QUEUESIZE
  BY <1>1, StoredRange, SMTT(30)
<1>4. head' \in 0 .. QUEUESIZE - 1 /\ empty' \in BOOLEAN
  BY <1>1, PcAssumption, SMTT(30) DEF Advance, PcTypeOK
<1>5. buf[head] = n % LOOP /\ buf[head] \in 0 .. LOOP - 1
  <2>1. Wrap(head + 0) = head
    BY PcAssumption, SMTT(30) DEF PcTypeOK, Wrap
  <2>2. buf[head] = (n + 0) % LOOP
    BY <1>3, <2>1, SMTT(30)
  <2> QED
    BY <1>2, <2>2, ModLoop, SMTT(30)
<1>6. /\ Len(received') = n + 1 /\ received' \in Seq(0 .. LOOP - 1)
      /\ received'[n + 1] = buf[head] /\ \A k \in 1 .. n : received'[k] = received[k]
  BY <1>1, <1>2, <1>5, SMTT(30)
<1>7. PcTypeOK'
  BY <1>1, <1>4, <1>6 DEF PcTypeOK, Sides
<1>8. ~ (full' /\ empty') /\ (head' = tail' <=> full' \/ empty')
  BY <1>1
<1>9. Stored' = Stored - 1
  BY <1>1, <1>4, PcAssumption, SMTT(30) DEF Stored, Advance, PcTypeOK
<1>10. ASSUME NEW k \in 1 .. Len(received')
       PROVE  received'[k] = (k - 1) % LOOP
  <2>1. CASE k = n + 1
    BY <2>1, <1>2, <1>5, <1>6, SMTT(30)
  <2>2. CASE k # n + 1
    <3>1. k \in 1 .. n
      BY <1>2, <1>6, <1>10, <2>2, SMTT(30)
    <3> QED
      BY <3>1, <1>6
  <2> QED
    BY <2>1, <2>2
<1>11. ASSUME NEW k \in 0 .. Stored' - 1
       PROVE  buf'[Wrap(head' + k)] = (Len(received') + k) % LOOP
  <2>1. k + 1 \in 0 .. Stored - 1 /\ k \in Int
    BY <1>3, <1>9, <1>11, SMTT(30)
  <2>2. Wrap(head' + k) = Wrap(head + (k + 1))
    BY <1>1, <1>3, <2>1, PcAssumption, SMTT(30) DEF Advance, Wrap, PcTypeOK
  <2>3. Len(received') + k = n + (k + 1)
    BY <1>2, <1>6, <2>1, SMTT(30)
  <2> QED
    BY <1>1, <2>1, <2>2, <2>3
<1>12. made' = Len(received') + Stored'
  BY <1>1, <1>2, <1>3, <1>6, <1>9, SMTT(30)
<1>13. at'["producer"] = at["producer"] /\ \A s \in waits' : at'[s] = "wait"
  BY <1>1 DEF PcTypeOK, Sides
<1> QED
  BY <1>1, <1>7, <1>8, <1>10, <1>11, <1>12, <1>13

\* The other steps leave the queue and what came through it alone.
LEMMA PcStepInv ==
  ASSUME PcInv, [PcNext]_pcVars
  PROVE  PcInv'
<1>0. made \in Nat /\ (made # 2 * LOOP => made < 2 * LOOP)
  <2>1. made \in 0 .. 2 * LOOP
    BY DEF PcInv, PcTypeOK
  <2> QED
    BY <2>1, PcAssumption, SMTT(30)
<1> USE DEF PcInv
<1>1. ASSUME UNCHANGED <<pcQueue, made, received>>, PcTypeOK',
             at'["producer"] \in Ongoing => at["producer"] \in Ongoing \/ made < 2 * LOOP,
             \A s \in waits' : at'[s] = "wait"
      PROVE  PcInv'
  <2>1. Stored' = Stored
    BY <1>1 DEF Stored, pcQueue
  <2> QED
    BY <1>1, <2>1 DEF pcQueue, Wrap
<1>2. ASSUME NEW s \in Sides, PcLock(s)
      PROVE  PcInv'
  <2>1. PcTypeOK'
    BY <1>2 DEF PcLock, AtGoes, PcTypeOK, pcQueue
  <2>2. /\ at'["producer"] \in Ongoing => at["producer"] \in Ongoing
        /\ \A o \in waits' : at'[o] = "wait"
    BY <1>2 DEF PcLock, AtGoes, PcTypeOK, Sides, Ongoing
  <2> QED
    BY <1>1, <1>2, <2>1, <2>2 DEF PcLock
<1>3. ASSUME NEW s \in Sides, PcWait(s)
      PROVE  PcInv'
  <2>1. PcTypeOK'
    BY <1>3 DEF PcWait, AtGoes, PcTypeOK, pcQueue
  <2>2. /\ at'["producer"] \in Ongoing => at["producer"] \in Ongoing
        /\ \A o \in waits' : at'[o] = "wait"
    BY <1>3 DEF PcWait, AtGoes, PcTypeOK, Sides, Ongoing
  <2> QED
    BY <1>1, <1>3, <2>1, <2>2 DEF PcWait
<1>4. ASSUME NEW s \in Sides, PcSpurious(s)
      PROVE  PcInv'
  <2>1. PcTypeOK'
    BY <1>4 DEF PcSpurious, AtGoes, PcTypeOK, pcQueue
  <2>2. /\ at'["producer"] \in Ongoing => at["producer"] \in Ongoing
        /\ \A o \in waits' : at'[o] = "wait"
    BY <1>4 DEF PcSpurious, AtGoes, PcTypeOK, Sides, Ongoing
  <2> QED
    BY <1>1, <1>4, <2>1, <2>2 DEF PcSpurious
<1>5. ASSUME NEW s \in Sides, PcSignal(s)
      PROVE  PcInv'
  <2> DEFINE other == CHOOSE o \in Sides : o # s
             rounds == IF s = "producer" THEN made ELSE Len(received)
             next == IF rounds = 2 * LOOP THEN "end" ELSE "lock"
  <2>1. other \in Sides /\ other # s
    <3>1. \E o \in Sides : o # s
      BY DEF Sides
    <3> QED
      BY <3>1
  <2>2. /\ at[s] = "signal" /\ waits' = waits \ {other}
        /\ at' = [at EXCEPT ![s] = next, ![other] = IF other \in waits THEN "woken" ELSE @]
        /\ UNCHANGED <<pcQueue, mut, made, received, deleted>>
    BY <1>5 DEF PcSignal
  <2> HIDE DEF other
  <2>3. /\ at'[s] = next /\ at'[other] = (IF other \in waits THEN "woken" ELSE at[other])
        /\ at' \in [Sides -> {"lock", "test", "wait", "woken", "signal", "end"}]
    BY <2>1, <2>2 DEF PcTypeOK
  <2>4. PcTypeOK'
    BY <2>2, <2>3 DEF PcTypeOK, pcQueue
  <2>5. \A o \in waits' : at'[o] = "wait"
    BY <2>1, <2>2, <2>3 DEF PcTypeOK, Sides
  <2>6. at'["producer"] \in Ongoing => at["producer"] \in Ongoing \/ made < 2 * LOOP
    <3>1. CASE s = "producer"
      <4>2. made = 2 * LOOP => at'["producer"] = "end"
        BY <2>3, <3>1
      <4> QED
        BY <1>0, <4>2 DEF Ongoing
    <3>2. CASE s # "producer"
      <4>1. other = "producer"
        BY <2>1, <3>2 DEF Sides
      <4> QED
        BY <2>3, <4>1 DEF Ongoing
    <3> QED
      BY <3>1, <3>2
  <2> QED
    BY <1>1, <2>2, <2>4, <2>5, <2>6
<1>6. CASE QueueDelete
  <2>1. PcTypeOK'
    BY <1>6 DEF QueueDelete, PcTypeOK, pcQueue
  <2> QED
    BY <1>1, <1>6, <2>1 DEF QueueDelete
<1>7. CASE UNCHANGED pcVars
  <2>1. PcTypeOK' /\ UNCHANGED <<pcQueue, made, received, at, waits>>
    BY <1>7 DEF pcVars, PcTypeOK, pcQueue
  <2> QED
    BY <1>1, <2>1
<1> QED
  BY <1>2, <1>3, <1>4, <1>5, <1>6, <1>7, QueueAddInv, QueueDelInv DEF PcNext, PcStep

\* Slot by slot, what was received and what is stored is what was added.
LEMMA PcOrder ==
  ASSUME PcInv
  PROVE  InOrder
<1> DEFINE n == Len(received)
           stored == [k \in 1 .. Stored |-> buf[(head + k - 1) % QUEUESIZE]]
           added == [k \in 1 .. made |-> (k - 1) % LOOP]
<1>1. /\ received \in Seq(0 .. LOOP - 1) /\ n \in Nat /\ made \in Nat /\ made = n + Stored
      /\ head \in 0 .. QUEUESIZE - 1
  BY PcAssumption, SMTT(30) DEF PcInv, PcTypeOK
<1>2. Stored \in 0 .. QUEUESIZE /\ Stored \in Nat
  BY StoredRange, PcAssumption, SMTT(30) DEF PcInv
<1>3. \A k \in 1 .. Stored : stored[k] = (n + k - 1) % LOOP
  <2> SUFFICES ASSUME NEW k \in 1 .. Stored PROVE stored[k] = (n + k - 1) % LOOP
    OBVIOUS
  <2>1. k - 1 \in 0 .. Stored - 1 /\ head + k - 1 = head + (k - 1) /\ n + k - 1 = n + (k - 1)
    BY <1>1, <1>2, SMTT(30)
  <2>2. head + k - 1 \in 0 .. 2 * QUEUESIZE - 1
    BY <1>1, <1>2, PcAssumption, SMTT(30)
  <2> QED
    BY <2>1, <2>2, WrapIsMod DEF PcInv
<1>4. \A k \in 1 .. Stored : stored[k] \in 0 .. LOOP - 1
  <2> SUFFICES ASSUME NEW k \in 1 .. Stored PROVE stored[k] \in 0 .. LOOP - 1
    OBVIOUS
  <2>1. n + k - 1 \in Nat
    BY <1>1, <1>2, SMTT(30)
  <2> QED
    BY <1>3, <2>1, ModLoop
<1>5. \A k \in 1 .. made : added[k] \in 0 .. LOOP - 1
  <2> SUFFICES ASSUME NEW k \in 1 .. made PROVE added[k] \in 0 .. LOOP - 1
    OBVIOUS
  <2>1. k - 1 \in Nat
    BY <1>1, SMTT(30)
  <2> QED
    BY <2>1, ModLoop
<1>6. stored \in Seq(0 .. LOOP - 1) /\ Len(stored) = Stored
  BY <1>2, <1>4, SMTT(30)
<1>7. added \in Seq(0 .. LOOP - 1) /\ Len(added) = made
  <2>1. added \in [1 .. made -> 0 .. LOOP - 1]
    <3> HIDE DEF added
    <3>1. added = [k \in 1 .. made |-> added[k]]
      BY DEF added
    <3> QED
      BY <1>5, <3>1
  <2> HIDE DEF added
  <2>2. added \in Seq(0 .. LOOP - 1)
    BY <1>1, <2>1, SeqDef, ZenonT(40)
  <2>3. DOMAIN added = 1 .. made /\ DOMAIN added = 1 .. Len(added) /\ Len(added) \in Nat
    BY <2>1, <2>2, LenProperties
  <2> QED
    BY <1>1, <2>2, <2>3, SMTT(30)
<1>8. \A k \in 1 .. n : received[k] = (k - 1) % LOOP
  BY DEF PcInv
<1>9. \A k \in 1 .. made : added[k] = (k - 1) % LOOP
  OBVIOUS
<1> HIDE DEF stored, added, n
<1>10. /\ received \o stored \in Seq(0 .. LOOP - 1) /\ Len(received \o stored) = made
       /\ \A k \in 1 .. made : (received \o stored)[k] = IF k <= n THEN received[k] ELSE stored[k - n]
  BY <1>1, <1>2, <1>6, ConcatProperties DEF n
<1>11. \A k \in 1 .. made : (received \o stored)[k] = added[k]
  <2> SUFFICES ASSUME NEW k \in 1 .. made PROVE (received \o stored)[k] = added[k]
    OBVIOUS
  <2>1. CASE k <= n
    <3>1. k \in 1 .. n
      BY <1>1, <2>1, SMTT(30)
    <3> QED
      BY <1>8, <1>9, <1>10, <2>1, <3>1
  <2>2. CASE ~ (k <= n)
    <3>1. k - n \in 1 .. Stored /\ n + (k - n) - 1 = k - 1
      BY <1>1, <1>2, <2>2, SMTT(30)
    <3>2. stored[k - n] = (k - 1) % LOOP
      BY <1>3, <3>1
    <3> QED
      BY <1>9, <1>10, <2>2, <3>2
  <2> QED
    BY <2>1, <2>2
<1>12. received \o stored = added
  BY <1>1, <1>7, <1>10, <1>11, SeqEqual
<1> QED
  BY <1>12 DEF InOrder, stored, added, PcInv

\* pc.c's queue loses, doubles and reorders nothing, for every size of the ring,
\* any number of rounds and any order of locks, signals and wake-ups.
THEOREM QueueInOrder == PcSpec => []InOrder
<1>1. PcInv /\ [PcNext]_pcVars => PcInv'
  BY PcStepInv
<1>2. PcInv => InOrder
  BY PcOrder
<1> QED
  BY <1>1, <1>2, PcInitInv, PTL DEF PcSpec

------------------------------------------------------------------------------
(***************************************************************************)
(* The readers/writer lock of rw.c excludes, for every finite set of       *)
(* readers and of writers.                                                 *)
(***************************************************************************)
In(S, pos) == {u \in S : pos[u] \in Inside}

\* What makes Exclusion inductive: the two counters of rwl count the threads
\* that are inside, so that the tests of readlock and writelock see them.
RwInv ==
  /\ where \in [Users -> Places]
  /\ readOK \subseteq Readers /\ writeOK \subseteq Writers
  /\ \A u \in readOK \cup writeOK : where[u] = "wait"
  /\ readers = Cardinality(In(Readers, where))
  /\ writers = Cardinality(In(Writers, where))
  /\ Exclusion

\* The threads inside are finitely many, whatever the positions.
LEMMA InFinite ==
  ASSUME NEW S, IsFiniteSet(S), NEW pos
  PROVE  IsFiniteSet(In(S, pos)) /\ Cardinality(In(S, pos)) \in Nat
<1>1. In(S, pos) \in SUBSET S
  BY DEF In
<1> QED
  BY <1>1, FS_Subset, FS_CardinalityType

\* A thread that goes in or out changes its own count by one ...
LEMMA Enters ==
  ASSUME NEW S, IsFiniteSet(S), NEW pos, NEW new, NEW u \in S,
         pos[u] \notin Inside, new[u] \in Inside,
         \A v \in S \ {u} : new[v] \in Inside <=> pos[v] \in Inside
  PROVE  Cardinality(In(S, new)) = Cardinality(In(S, pos)) + 1
<1>1. In(S, new) = In(S, pos) \cup {u} /\ u \notin In(S, pos)
  BY DEF In
<1> QED
  BY <1>1, InFinite, FS_AddElement

LEMMA Leaves ==
  ASSUME NEW S, IsFiniteSet(S), NEW pos, NEW new, NEW u \in S,
         pos[u] \in Inside, new[u] \notin Inside,
         \A v \in S \ {u} : new[v] \in Inside <=> pos[v] \in Inside
  PROVE  Cardinality(In(S, new)) = Cardinality(In(S, pos)) - 1
<1>1. In(S, new) = In(S, pos) \ {u} /\ u \in In(S, pos)
  BY DEF In
<1> QED
  BY <1>1, InFinite, FS_RemoveElement, ZenonT(40)

\* ... and one that does neither changes nothing.
LEMMA Stays ==
  ASSUME NEW S, NEW pos, NEW new,
         \A v \in S : new[v] \in Inside <=> pos[v] \in Inside
  PROVE  In(S, new) = In(S, pos)
  BY DEF In

\* A count of zero says that nobody is inside.
LEMMA NobodyIn ==
  ASSUME NEW S, IsFiniteSet(S), NEW pos, Cardinality(In(S, pos)) = 0
  PROVE  \A u \in S : pos[u] \notin Inside
<1>1. In(S, pos) = {}
  BY InFinite, FS_EmptySet
<1> QED
  BY <1>1 DEF In

LEMMA RwInitInv == RwInit => RwInv
<1> SUFFICES ASSUME RwInit PROVE RwInv
  OBVIOUS
<1>1. \A u \in Users : where[u] = "idle"
  BY DEF RwInit
<1>2. In(Readers, where) = {} /\ In(Writers, where) = {}
  BY <1>1 DEF In, Inside, Users
<1> QED
  BY <1>1, <1>2, FS_EmptySet DEF RwInit, RwInv, Exclusion, Inside, Places, Users

\* A step that moves no thread in or out.
LEMMA RwElsewhere ==
  ASSUME RwInv,
         where' \in [Users -> Places],
         \A u \in Users : where'[u] \in Inside <=> where[u] \in Inside,
         readOK' \subseteq Readers, writeOK' \subseteq Writers,
         \A u \in readOK' \cup writeOK' : where'[u] = "wait",
         readers' = readers, writers' = writers
  PROVE  RwInv'
<1>1. In(Readers, where') = In(Readers, where)
  BY Stays DEF Users
<1>2. In(Writers, where') = In(Writers, where)
  BY Stays DEF Users
<1>3. Exclusion'
  BY DEF RwInv, Exclusion, Users
<1> QED
  BY <1>1, <1>2, <1>3 DEF RwInv

LEMMA RwStep ==
  ASSUME RwInv, [RwNext]_rwVars
  PROVE  RwInv'
<1> USE RwAssumption
<1>1. ASSUME NEW u \in Users, NEW from \in Places, NEW to \in Places,
             TakeMutex(u, from, to), from # "wait",
             from \in Inside <=> to \in Inside,
             readers' = readers, writers' = writers
      PROVE  RwInv'
  <2>1. where' = [where EXCEPT ![u] = to] /\ where[u] = from
    BY <1>1 DEF TakeMutex, Moves
  <2> QED
    BY <1>1, <2>1, RwElsewhere DEF RwInv, TakeMutex, Users
<1>2. ASSUME NEW r \in Readers, ReaderStep(r)
      PROVE  RwInv'
  <2> r \in Users /\ r \notin Writers
    BY DEF Users
  <2>1. CASE ReadLock(r)
    BY <2>1, <1>1 DEF ReadLock, rwCounts, Places, Inside
  <2>2. CASE ReadWait(r)
    <3>1. where' = [where EXCEPT ![r] = "wait"] /\ where[r] \notin Inside
      BY <2>2 DEF ReadWait, Moves, Inside
    <3> QED
      BY <2>2, <3>1, RwElsewhere DEF ReadWait, RwInv, rwCounts, Places, Inside, Users
  <2>3. CASE ReadEnter(r)
    <3>1. where' = [where EXCEPT ![r] = "use"] /\ where[r] \in {"test", "retest"}
      BY <2>3 DEF ReadEnter, Moves
    <3>2. writers = 0 /\ writers' = writers /\ readers' = readers + 1
          /\ readOK' = readOK /\ writeOK' = writeOK
      BY <2>3 DEF ReadEnter
    <3>3. \A w \in Writers : where[w] \notin Inside
      BY <3>2, NobodyIn DEF RwInv
    <3>4. Cardinality(In(Readers, where')) = Cardinality(In(Readers, where)) + 1
      <4>1. where'[r] \in Inside /\ where[r] \notin Inside
        BY <3>1 DEF RwInv, Inside
      <4>2. \A v \in Readers \ {r} : where'[v] \in Inside <=> where[v] \in Inside
        BY <3>1 DEF RwInv, Users
      <4> QED
        BY <4>1, <4>2, Enters
    <3>5. \A w \in Writers : where'[w] = where[w]
      BY <3>1 DEF RwInv, Users
    <3>6. In(Writers, where') = In(Writers, where)
      BY <3>5, Stays, SMTT(30)
    <3>7. Exclusion'
      BY <3>3, <3>5 DEF Exclusion
    <3> QED
      BY <3>1, <3>2, <3>4, <3>6, <3>7 DEF RwInv, Places, Users
  <2>4. CASE RwReacquire(r)
    BY <2>4, <1>1 DEF RwReacquire, rwCounts, Places, Inside
  <2>5. CASE Read(r)
    <3>1. where' = [where EXCEPT ![r] = "release"] /\ where[r] = "use"
      BY <2>5 DEF Read, Moves
    <3> QED
      BY <2>5, <3>1, RwElsewhere DEF Read, RwInv, rwCounts, Places, Inside, Users
  <2>6. CASE UnlockStart(r)
    BY <2>6, <1>1 DEF UnlockStart, rwCounts, Places, Inside
  <2>7. CASE ReadUnlock(r)
    <3>1. PICK woken \in SUBSET writeOK :
            /\ writeOK' = writeOK \ woken
            /\ where' = [u \in Users |->
                 IF u \in woken THEN "woken"
                 ELSE IF u # r THEN where[u]
                 ELSE IF got[r] = 0 THEN "end" ELSE "idle"]
      BY <2>7 DEF ReadUnlock
    <3>2. where[r] = "unlock" /\ readers' = readers - 1 /\ writers' = writers
          /\ readOK' = readOK
      BY <2>7 DEF ReadUnlock
    <3>3. \A u \in Users \ {r} : where'[u] \in Inside <=> where[u] \in Inside
      BY <3>1 DEF RwInv, Inside, Users
    <3>4. where[r] \in Inside /\ where'[r] \notin Inside
      BY <3>1, <3>2 DEF Inside, Users, RwInv
    <3>5. Cardinality(In(Readers, where')) = Cardinality(In(Readers, where)) - 1
      BY <3>3, <3>4, Leaves DEF Users
    <3>6. In(Writers, where') = In(Writers, where)
      BY <3>3, Stays, SMTT(30) DEF Users
    <3>7. Exclusion'
      BY <3>3, <3>4 DEF RwInv, Exclusion, Users
    <3>8. where' \in [Users -> Places] /\ \A u \in readOK' \cup writeOK' : where'[u] = "wait"
      BY <3>1, <3>2 DEF RwInv, Places, Users
    <3> QED
      BY <3>1, <3>2, <3>5, <3>6, <3>7, <3>8 DEF RwInv
  <2> QED
    BY <1>2, <2>1, <2>2, <2>3, <2>4, <2>5, <2>6, <2>7 DEF ReaderStep
<1>3. ASSUME NEW w \in Writers, WriterStep(w)
      PROVE  RwInv'
  <2> w \in Users /\ w \notin Readers
    BY DEF Users
  <2>1. CASE WriteLock(w)
    BY <2>1, <1>1 DEF WriteLock, Places, Inside
  <2>2. CASE WriteWait(w)
    <3>1. where' = [where EXCEPT ![w] = "wait"] /\ where[w] \notin Inside
      BY <2>2 DEF WriteWait, Moves, Inside
    <3> QED
      BY <2>2, <3>1, RwElsewhere DEF WriteWait, RwInv, rwCounts, Places, Inside, Users
  <2>3. CASE WriteEnter(w)
    <3>1. where' = [where EXCEPT ![w] = "use"] /\ where[w] = "retest"
      BY <2>3 DEF WriteEnter, Moves
    <3>2. readers = 0 /\ writers = 0 /\ readers' = readers /\ writers' = writers + 1
          /\ readOK' = readOK /\ writeOK' = writeOK
      BY <2>3 DEF WriteEnter
    <3>3. \A u \in Users : where[u] \notin Inside
      BY <3>2, NobodyIn DEF RwInv, Users
    <3>4. \A u \in Users \ {w} : where'[u] = where[u]
      BY <3>1 DEF RwInv
    <3>5. Cardinality(In(Writers, where')) = Cardinality(In(Writers, where)) + 1
      <4>1. where'[w] \in Inside
        BY <3>1 DEF RwInv, Inside
      <4> QED
        BY <4>1, <3>3, <3>4, Enters DEF Users
    <3>6. In(Readers, where') = In(Readers, where)
      BY <3>4, Stays, SMTT(30) DEF Users
    <3>7. Exclusion'
      BY <3>3, <3>4 DEF Exclusion, Users
    <3> QED
      BY <3>1, <3>2, <3>4, <3>5, <3>6, <3>7 DEF RwInv, Places, Users
  <2>4. CASE RwReacquire(w)
    BY <2>4, <1>1 DEF RwReacquire, rwCounts, Places, Inside
  <2>5. CASE Write(w)
    <3>1. where' = [where EXCEPT ![w] = "release"] /\ where[w] = "use"
      BY <2>5 DEF Write, Moves
    <3> QED
      BY <2>5, <3>1, RwElsewhere DEF Write, RwInv, rwCounts, Places, Inside, Users
  <2>6. CASE UnlockStart(w)
    BY <2>6, <1>1 DEF UnlockStart, rwCounts, Places, Inside
  <2>7. CASE WriteUnlock(w)
    <3>1. /\ where' = [u \in Users |->
               IF u \in readOK THEN "woken"
               ELSE IF u # w THEN where[u]
               ELSE IF turn[w] > MAXCOUNT THEN "end" ELSE "idle"]
          /\ where[w] = "unlock" /\ writers' = writers - 1 /\ readers' = readers
          /\ readOK' = {} /\ writeOK' = writeOK
      BY <2>7 DEF WriteUnlock
    <3>2. \A u \in Users \ {w} : where'[u] \in Inside <=> where[u] \in Inside
      BY <3>1 DEF RwInv, Inside, Users
    <3>3. where[w] \in Inside /\ where'[w] \notin Inside
      BY <3>1 DEF Inside, Users, RwInv
    <3>4. Cardinality(In(Writers, where')) = Cardinality(In(Writers, where)) - 1
      BY <3>2, <3>3, Leaves DEF Users
    <3>5. In(Readers, where') = In(Readers, where)
      BY <3>2, Stays, SMTT(30) DEF Users
    <3>6. Exclusion'
      BY <3>2, <3>3 DEF RwInv, Exclusion, Users
    <3>7. where' \in [Users -> Places] /\ \A u \in readOK' \cup writeOK' : where'[u] = "wait"
      BY <3>1 DEF RwInv, Places, Users
    <3> QED
      BY <3>1, <3>4, <3>5, <3>6, <3>7 DEF RwInv
  <2> QED
    BY <1>3, <2>1, <2>2, <2>3, <2>4, <2>5, <2>6, <2>7 DEF WriterStep
<1>4. ASSUME NEW u \in Users, RwSpurious(u)
      PROVE  RwInv'
  <2>1. where' = [where EXCEPT ![u] = "woken"] /\ where[u] = "wait"
        /\ readOK' = readOK \ {u} /\ writeOK' = writeOK \ {u}
        /\ readers' = readers /\ writers' = writers
    BY <1>4 DEF RwSpurious, Moves, rwCounts
  <2> QED
    BY <2>1, RwElsewhere DEF RwInv, Places, Inside, Users
<1>5. CASE UNCHANGED rwVars
  BY <1>5, RwElsewhere DEF rwVars, RwInv
<1> QED
  BY <1>2, <1>3, <1>4, <1>5 DEF RwNext

\* With readlock, writelock, readunlock and writeunlock of rw.c a writer is
\* alone, for any number of readers and of writers.
THEOREM RwExclusion == RwSpec => []Exclusion
<1>1. RwInv => Exclusion
  BY DEF RwInv
<1> QED
  BY <1>1, RwInitInv, RwStep, PTL DEF RwSpec

==============================================================================
