------------------------- MODULE StartupPagesProofs --------------------------
(***************************************************************************)
(* Two parts of the library that share no state.  How processes join and   *)
(* leave a run, for any number of processes and of runs; and the pages of  *)
(* an allocation, for every number of pages, every budget and every set of *)
(* values.                                                                 *)
(***************************************************************************)
EXTENDS Startup, Pages, FiniteSetTheorems, WellFoundedInduction, TLAPS

------------------------------------------------------------------------------
(***************************************************************************)
(* The inductive invariant.                                                *)
(***************************************************************************)
Opening == {"excl", "open"}                               \* the semaphores are open
Mapping == {"truncate", "write"}                          \* the creator's own steps
Numbered == {"post", "pid"}                               \* the id is known
InSection == {"load", "store", "post"}                    \* between the sid calls
Taken == InSection \union {"dead"}                        \* sid is down
Knowing == Numbered \union {"in"}                         \* has an id
Entering == {"sem"} \union Opening \union Mapping \union {"wait"} \union InSection \union {"pid"}
Attached == Mapping \union {"wait"} \union InSection \union {"pid", "in"}

Places ==
  {<<"sem", k>> : k \in 1 .. 4} \union {<<"leave", k>> : k \in 0 .. 4}
    \union {<<l, 0>> : l \in {"out", "dead"} \union Opening \union Attached}

Label(p) == at[p][1]

\* Has p the k-th semaphore open?  Has it the segment's name to unlink?
HasSem(p, k) ==
  \/ Label(p) = "sem" /\ at[p][2] > k
  \/ Label(p) \in Opening \union Attached
  \/ Label(p) = "leave" /\ at[p][2] <= k
HasShm(p) == Label(p) \in Attached \/ at[p] = <<"leave", 0>>

Segments == [sized : BOOLEAN, budget : BOOLEAN, ids : Nat,
             pid : [0 .. n_procs - 1 -> Jobs \union {Nothing}]]

Types ==
  /\ name \in [Names \union {"shm"} -> [object : Nat, made : 0 .. MaxObjects]]
  /\ seg \in [Objects -> Segments]
  /\ sidval \in [Objects -> Nat]
  /\ at \in [Jobs -> Places]
  /\ mine \in [Jobs -> [sem : [Names -> Nat], shm : Nat, id : 0 .. n_procs]]
  /\ phase \in {"join", "leave"}
  /\ tmp \in [Jobs -> 0 .. n_procs]
  /\ dead \in [Jobs -> {"no", "SIGBUS"}]

\* Nobody enters while others leave, and one process makes the segment.
Phases ==
  /\ \A p \in Jobs : Label(p) \in Entering => phase = "join"
  /\ \A p \in Jobs : Label(p) = "leave" => phase = "leave"
  /\ \A p, q \in Jobs : Label(p) \in Mapping /\ Label(q) \in Mapping => p = q

\* The object under a name is the last one made, everybody has that one open,
\* the name is there as long as processes join, and somebody is left to unlink it.
Linkage ==
  /\ \A s \in Names \union {"shm"} : name[s].object \in {Nothing, name[s].made}
  /\ \A p \in Jobs, k \in 1 .. 4 : HasSem(p, k) =>
       LET s == Semaphores[k]
       IN  /\ mine[p].sem[s] = name[s].made
           /\ name[s].made > 0
           /\ phase = "join" => name[s].object # Nothing
  /\ \A p \in Jobs : Label(p) \in Attached =>
       /\ mine[p].shm = name["shm"].made
       /\ name["shm"].made > 0
       /\ phase = "join" => name["shm"].object # Nothing
  /\ \A p \in Jobs : Label(p) = "open" => name["shm"].object # Nothing
  /\ \A k \in 1 .. 4 : name[Semaphores[k]].object # Nothing => \E p \in Jobs : HasSem(p, k)
  /\ name["shm"].object # Nothing => \E p \in Jobs : HasShm(p)

\* The semaphore sid of this run is down while a process is in its section and
\* when one has died there; there is at most one.
Section ==
  /\ \A p, q \in Jobs : Label(p) \in Taken /\ Label(q) \in Taken => p = q
  /\ \A o \in Objects :
       sidval[o] = IF o = name["sid"].made /\ (\E p \in Jobs : Label(p) \in Taken)
                   THEN 0 ELSE 1

\* The segment of this run has its size once its creator has set it, and its
\* budget likewise; nobody passes the load before the first.
Creation ==
  LET o == name["shm"].made
  IN  /\ \A p \in Jobs : Label(p) = "truncate" => ~ seg[o].sized
      /\ \A p \in Jobs : Label(p) \in Attached =>
           /\ seg[o].sized \/ \E c \in Jobs : Label(c) = "truncate"
           /\ seg[o].budget \/ \E c \in Jobs : Label(c) \in Mapping
      /\ \A p \in Jobs : Label(p) \in Knowing \union {"store"} => seg[o].sized

HaveIds == {p \in Jobs : Label(p) \in Knowing}

\* After a death nobody has an id, and the creator of the segment, which goes no
\* further than the semaphore sid, keeps the names.
Wreck ==
  \A p \in Jobs :
    /\ dead[p] # "no" <=> Label(p) = "dead"
    /\ Label(p) = "dead" =>
         /\ phase = "join" /\ HaveIds = {}
         /\ \E c \in Jobs : Label(c) \in Mapping \union {"wait"}

\* The ids given out so far; segments to come are new.
Numbering ==
  LET o == name["shm"].made
  IN  /\ \A u \in Objects : u > o => seg[u] = NewSegment
      /\ (\E p \in Jobs : Label(p) \in Attached) /\ phase = "join" =>
           seg[o].ids = Cardinality(HaveIds)
      /\ \A p \in Jobs : Label(p) = "store" => tmp[p] = seg[o].ids
      /\ \A p \in HaveIds : mine[p].id < seg[o].ids /\ mine[p].id < n_procs
      /\ \A p, q \in HaveIds : mine[p].id = mine[q].id => p = q
      /\ \A p \in Jobs : Label(p) = "in" => seg[o].pid[mine[p].id] = p

StartInv == Types /\ Phases /\ Linkage /\ Section /\ Creation /\ Wreck /\ Numbering

\* The prover of the steps that name no other.
USE ZenonT(60)

\* The names of the four semaphores.
LEMMA SemNames ==
  /\ Names = {"inter_mtx", "done", "sid", "sig"}
  /\ Semaphores[1] = "inter_mtx" /\ Semaphores[2] = "done"
  /\ Semaphores[3] = "sid" /\ Semaphores[4] = "sig"
  BY SMTT(30) DEF Names, Semaphores

LEMMA SemIndex ==
  /\ \A k \in 1 .. 4 : Semaphores[k] \in Names
  /\ \A j, k \in 1 .. 4 : Semaphores[j] = Semaphores[k] => j = k
  /\ "shm" \notin Names
<1>1. \A k \in 1 .. 4 : k = 1 \/ k = 2 \/ k = 3 \/ k = 4
  BY SMTT(30)
<1> QED
  BY <1>1, SemNames

LEMMA PlaceFacts ==
  /\ \A k \in 1 .. 4 : <<"sem", k>> \in Places
  /\ \A k \in 0 .. 4 : <<"leave", k>> \in Places
  /\ \A l \in {"out", "dead"} \union Opening \union Attached : <<l, 0>> \in Places
  BY DEF Places

LEMMA StartInitInv == StartInit => StartInv
<1> SUFFICES ASSUME StartInit PROVE StartInv
  OBVIOUS
<1>1. \A p \in Jobs : at[p] = <<"out", 0>> /\ Label(p) = "out"
  BY DEF StartInit, Label
<1>2. HaveIds = {}
  BY <1>1 DEF HaveIds, Numbered, Knowing
<1>3. Types /\ \A p \in Jobs : dead[p] = "no"
  <2>1. /\ name \in [Names \union {"shm"} -> [object : Nat, made : 0 .. MaxObjects]]
        /\ seg \in [Objects -> Segments] /\ sidval \in [Objects -> Nat] /\ at \in [Jobs -> Places]
        /\ mine \in [Jobs -> [sem : [Names -> Nat], shm : Nat, id : 0 .. n_procs]]
        /\ phase \in {"join", "leave"} /\ tmp \in [Jobs -> 0 .. n_procs]
    BY StartupAssumption, PlaceFacts, FS_CardinalityType, SMTT(30) DEF StartInit, NewSegment, Segments, Closed, Nothing,
      n_procs, Objects
  <2>2. dead \in [Jobs -> {"no", "SIGBUS"}] /\ \A p \in Jobs : dead[p] = "no"
    BY DEF StartInit
  <2> QED
    BY <2>1, <2>2 DEF Types
<1>4. Phases
  BY <1>1 DEF Phases, Entering, Opening, Mapping, InSection
<1>5. Linkage
  BY <1>1, SemIndex DEF Linkage, HasSem, HasShm, Opening, Attached, Mapping, InSection, StartInit
<1>6. Section
  BY <1>1, SemNames DEF Section, Taken, InSection, StartInit
<1>7. Numbering
  BY <1>1, <1>2, SemIndex DEF Numbering, StartInit, Attached, Mapping, InSection
<1>8. Creation /\ Wreck
  BY <1>1, <1>3 DEF Creation, Wreck, Attached, Mapping, InSection, Knowing, Numbered
<1> QED
  BY <1>3, <1>4, <1>5, <1>6, <1>7, <1>8 DEF StartInv

LEMMA JobCount ==
  /\ n_procs \in Nat
  /\ IsFiniteSet(HaveIds) /\ Cardinality(HaveIds) \in Nat /\ Cardinality(HaveIds) <= n_procs
  /\ \A p \in Jobs \ HaveIds : Cardinality(HaveIds) < n_procs
<1> USE StartupAssumption
<1>1. n_procs \in Nat
  BY FS_CardinalityType DEF n_procs
<1>2. HaveIds \in SUBSET Jobs
  BY DEF HaveIds
<1>3. IsFiniteSet(HaveIds) /\ Cardinality(HaveIds) \in Nat /\ Cardinality(HaveIds) <= n_procs
  BY <1>2, FS_Subset, FS_CardinalityType DEF n_procs
<1>4. ASSUME NEW p \in Jobs \ HaveIds
      PROVE  Cardinality(HaveIds) < n_procs
  BY <1>2, <1>4, FS_Subset, FS_CardinalityType, SMTT(30) DEF n_procs
<1> QED
  BY <1>1, <1>3, <1>4

NoneDead == \A q \in Jobs : Label(q) # "dead"

\* Steps that do not change how far the creator has come.
LEMMA CreationKept ==
  ASSUME Creation, NEW o, o = name["shm"].made, name'["shm"].made = o,
         seg'[o].sized = seg[o].sized, seg'[o].budget = seg[o].budget,
         \A q \in Jobs :
           \/ Label(q)' = Label(q)
           \/ /\ Label(q) \notin Mapping /\ Label(q)' \notin Mapping
              /\ Label(q)' \in Attached => Label(q) \in Attached
              /\ Label(q)' \in Knowing \union {"store"} => seg[o].sized
  PROVE  Creation'
<1>1. \A q \in Jobs : Label(q)' = "truncate" <=> Label(q) = "truncate"
  BY DEF Mapping
<1>2. \A q \in Jobs : Label(q)' \in Mapping <=> Label(q) \in Mapping
  OBVIOUS
<1>3. \A q \in Jobs : Label(q)' \in Attached => Label(q) \in Attached
  OBVIOUS
<1>4. \A q \in Jobs : Label(q)' \in Knowing \union {"store"} => seg[o].sized
  BY DEF Creation
<1> QED
  BY <1>1, <1>2, <1>3, <1>4 DEF Creation

\* Steps of the living.
LEMMA WreckKept ==
  ASSUME Wreck, NEW p \in Jobs, UNCHANGED dead, Label(p) # "dead", Label(p)' # "dead",
         \A q \in Jobs \ {p} : Label(q)' = Label(q),
         \/ NoneDead
         \/ /\ phase' = phase
            /\ Label(p) \in Mapping \union {"wait"} => Label(p)' \in Mapping \union {"wait"}
            /\ Label(p)' \in Knowing => Label(p) \in Knowing
  PROVE  Wreck'
<1>1. CASE NoneDead
  BY <1>1 DEF Wreck, NoneDead
<1>2. CASE ~ NoneDead
  <2>1. HaveIds' \subseteq HaveIds
    BY <1>2 DEF HaveIds
  <2>2. (\E c \in Jobs : Label(c) \in Mapping \union {"wait"}) => \E c \in Jobs : Label(c)' \in Mapping \union {"wait"}
    BY <1>2
  <2> QED
    BY <1>2, <2>1, <2>2 DEF Wreck
<1> QED
  BY <1>1, <1>2

\* A process that starts finds everybody out, or others that join.
LEMMA SbmaInitInv ==
  ASSUME StartInv, Together, NEW p \in Jobs, SbmaInit(p)
  PROVE  StartInv'
<1> USE DEF StartInv
<1>1. /\ at[p] = <<"out", 0>> /\ at' = [at EXCEPT ![p] = <<"sem", 1>>]
      /\ phase' = "join" /\ UNCHANGED <<name, seg, sidval, mine, tmp, dead>>
  BY DEF SbmaInit, Step
<1>2. /\ Label(p) = "out" /\ Label(p)' = "sem" /\ at'[p][2] = 1
      /\ \A q \in Jobs \ {p} : at'[q] = at[q] /\ Label(q)' = Label(q)
  BY <1>1, SMTT(30) DEF Types, Label
<1>3. \A q \in Jobs : Label(q) = "leave" => FALSE
  BY SMTT(30) DEF SbmaInit, MayStart, Phases, Out, Label
<1>4. (\A q \in Jobs : Label(q) = "out") \/ phase = "join"
  BY SMTT(30) DEF SbmaInit, MayStart, Out, Label
<1>5. Types'
  BY <1>1, PlaceFacts, SMTT(30) DEF Types
<1>6. Phases'
  BY <1>1, <1>2, <1>3, <1>4 DEF Phases, Mapping, Entering, Opening, InSection
<1>7. Linkage'
  BY <1>1, <1>2, <1>3, <1>4, SMTT(30) DEF Linkage, HasSem, HasShm, Opening, Attached, Mapping, InSection
<1>8. Section'
  BY <1>1, <1>2 DEF Section, Taken, InSection
<1>9. Numbering'
  <2>1. HaveIds' = HaveIds
    BY <1>2 DEF HaveIds, Numbered, Knowing
  <2> QED
    BY <1>1, <1>2, <1>4, <2>1, SMTT(30) DEF Numbering, Attached, Mapping, InSection
<1>10. Creation'
  BY <1>1, <1>2, CreationKept DEF Attached, Mapping, InSection, Knowing, Numbered
<1>11. Wreck'
  BY <1>1, <1>2, <1>4, WreckKept DEF NoneDead, Mapping, Knowing, Numbered
<1> QED
  BY <1>5, <1>6, <1>7, <1>8, <1>9, <1>10, <1>11

\* Opening a name gives the object of this run, and makes it if need be.
LEMMA OpensRun ==
  ASSUME Types, Linkage, NEW s \in Names \union {"shm"}, Opened(s) \in Objects
  PROVE  /\ Linked(s, Opened(s)) = [object |-> Opened(s), made |-> Opened(s)]
         /\ Opened(s) \in Nat \ {0} /\ Opened(s) \in 0 .. MaxObjects
         /\ name[s].object # Nothing => Opened(s) = name[s].made
         /\ name[s].object = Nothing => Opened(s) = name[s].made + 1
  BY StartupAssumption, SMTT(30) DEF Types, Linkage, Opened, Linked, Nothing, Objects

\* Nobody has open what a process that enters finds missing.
LEMMA FirstHere ==
  ASSUME StartInv, NEW p \in Jobs, Label(p) \in Entering
  PROVE  /\ \A k \in 1 .. 4 : name[Semaphores[k]].object = Nothing => \A q \in Jobs : ~ HasSem(q, k)
         /\ name["shm"].object = Nothing => \A q \in Jobs : Label(q) \notin Attached
<1>1. phase = "join"
  BY DEF StartInv, Phases
<1> QED
  BY <1>1 DEF StartInv, Linkage

\* After a death the semaphores have their names.
LEMMA WreckNames ==
  ASSUME Linkage, Wreck, ~ NoneDead
  PROVE  phase = "join" /\ \A k \in 1 .. 4 : name[Semaphores[k]].object # Nothing
<1>1. PICK p \in Jobs : Label(p) = "dead"
  BY DEF NoneDead
<1>2. PICK c \in Jobs : Label(c) \in Mapping \union {"wait"}
  BY <1>1 DEF Wreck
<1>3. \A k \in 1 .. 4 : HasSem(c, k)
  BY <1>2 DEF HasSem, Attached
<1> QED
  BY <1>1, <1>3 DEF Wreck, Linkage

\* One field of what a process has open, or of a name, is changed.
LEMMA MineRecord ==
  ASSUME NEW m \in [sem : [Names -> Nat], shm : Nat, id : 0 .. n_procs], NEW s \in Names, NEW o \in Nat
  PROVE  /\ [m EXCEPT !.sem[s] = o] \in [sem : [Names -> Nat], shm : Nat, id : 0 .. n_procs]
         /\ [m EXCEPT !.sem[s] = o].sem = [m.sem EXCEPT ![s] = o]
<1>1. [m.sem EXCEPT ![s] = o] \in [Names -> Nat]
  OBVIOUS
<1> QED
  BY <1>1, SMTT(30)

LEMMA NameRecord ==
  ASSUME NEW n \in [object : Nat, made : 0 .. MaxObjects]
  PROVE  [n EXCEPT !.object = Nothing] \in [object : Nat, made : 0 .. MaxObjects]
  BY SMTT(30) DEF Nothing

LEMMA MineTyped ==
  ASSUME Types, NEW p \in Jobs, NEW s \in Names, NEW o \in Nat
  PROVE  [mine EXCEPT ![p].sem[s] = o] \in [Jobs -> [sem : [Names -> Nat], shm : Nat, id : 0 .. n_procs]]
<1>1. mine \in [Jobs -> [sem : [Names -> Nat], shm : Nat, id : 0 .. n_procs]]
  BY DEF Types
<1>2. [mine[p] EXCEPT !.sem[s] = o] \in [sem : [Names -> Nat], shm : Nat, id : 0 .. n_procs]
  BY <1>1, MineRecord
<1> QED
  BY <1>1, <1>2

\* A step of a process that has no segment open leaves the ids alone.
LEMMA NumberingKept ==
  ASSUME Numbering, name'["shm"].made = name["shm"].made, phase' = phase,
         UNCHANGED <<seg, tmp>>,
         \A q \in Jobs : mine'[q].id = mine[q].id,
         \A q \in Jobs : Label(q)' = Label(q)
                         \/ (Label(q) \notin Attached /\ Label(q)' \notin Attached)
  PROVE  Numbering'
<1>1. HaveIds' = HaveIds
  BY DEF HaveIds, Numbered, Knowing, Attached, InSection
<1>2. \A q \in HaveIds : q \in Jobs
  BY DEF HaveIds
<1> QED
  BY <1>1, <1>2, SMTT(30) DEF Numbering, Attached, Mapping, InSection

LEMMA OpenSemInv ==
  ASSUME StartInv, NEW p \in Jobs, OpenSem(p)
  PROVE  StartInv'
<1> USE DEF StartInv
<1> PICK k \in 1 .. 4 :
      /\ Opened(Semaphores[k]) \in Objects
      /\ Step(p, <<"sem", k>>, IF k < 4 THEN <<"sem", k + 1>> ELSE <<"excl", 0>>)
      /\ name' = [name EXCEPT ![Semaphores[k]] = Linked(Semaphores[k], Opened(Semaphores[k]))]
      /\ mine' = [mine EXCEPT ![p].sem[Semaphores[k]] = Opened(Semaphores[k])]
      /\ UNCHANGED <<phase, seg, sidval, tmp, dead>>
  BY DEF OpenSem
<1> DEFINE s == Semaphores[k]
           o == Opened(s)
           place == IF k < 4 THEN <<"sem", k + 1>> ELSE <<"excl", 0>>
<1>0. s \in Names /\ s # "shm" /\ s \in Names \union {"shm"}
  BY SemIndex
<1>1. at[p] = <<"sem", k>> /\ at' = [at EXCEPT ![p] = place]
  BY DEF Step
<1>2. place \in Places /\ place[1] = (IF k < 4 THEN "sem" ELSE "excl") /\ (k < 4 => place[2] = k + 1)
  BY PlaceFacts, SMTT(30) DEF Opening
<1>3. /\ Label(p) = "sem" /\ at[p][2] = k
      /\ Label(p)' = (IF k < 4 THEN "sem" ELSE "excl") /\ (k < 4 => at'[p][2] = k + 1)
      /\ \A q \in Jobs \ {p} : at'[q] = at[q] /\ Label(q)' = Label(q)
  BY <1>1, <1>2, SMTT(30) DEF Types, Label
<1>4. /\ name'[s] = [object |-> o, made |-> o] /\ o \in Nat \ {0} /\ o \in 0 .. MaxObjects
      /\ name[s].object # Nothing => o = name[s].made
      /\ name[s].object = Nothing => o = name[s].made + 1
      /\ \A r \in Names \union {"shm"} : r # s => name'[r] = name[r]
  BY <1>0, OpensRun DEF Types
<1>5. /\ mine'[p].sem[s] = o /\ \A r \in Names : r # s => mine'[p].sem[r] = mine[p].sem[r]
      /\ mine'[p].shm = mine[p].shm /\ mine'[p].id = mine[p].id
      /\ \A q \in Jobs \ {p} : mine'[q] = mine[q]
  BY <1>0 DEF Types
<1>6. phase = "join"
  BY <1>3 DEF Phases, Entering
<1>7. name[s].object = Nothing => NoneDead /\ \A q \in Jobs : ~ HasSem(q, k)
  BY <1>3, FirstHere, WreckNames DEF Entering
<1>8. Types'
  <2>1. name' \in [Names \union {"shm"} -> [object : Nat, made : 0 .. MaxObjects]]
    BY <1>0, <1>4, SMTT(30) DEF Types
  <2>2. mine' \in [Jobs -> [sem : [Names -> Nat], shm : Nat, id : 0 .. n_procs]]
    BY <1>0, <1>4, MineTyped
  <2> QED
    BY <1>1, <1>2, <2>1, <2>2 DEF Types
<1>9. Phases'
  BY <1>3 DEF Phases, Mapping, Entering, Opening, InSection
<1>10. Linkage'
  <2>1. \A r \in Names \union {"shm"} : name'[r].object \in {Nothing, name'[r].made}
    BY <1>4, SMTT(30) DEF Linkage
  <2>2. ASSUME NEW q \in Jobs, NEW j \in 1 .. 4, HasSem(q, j)'
        PROVE  /\ mine'[q].sem[Semaphores[j]] = name'[Semaphores[j]].made
               /\ name'[Semaphores[j]].made > 0
               /\ name'[Semaphores[j]].object # Nothing
    <3>1. CASE j = k
      <4>1. CASE q = p
        BY <3>1, <4>1, <1>4, <1>5, SMTT(30) DEF Nothing
      <4>2. CASE q # p
        <5>1. HasSem(q, k)
          BY <2>2, <3>1, <4>2, <1>3 DEF HasSem
        <5>2. name[s].object # Nothing /\ mine'[q].sem[s] = mine[q].sem[s]
          BY <4>2, <5>1, <1>0, <1>5, <1>7
        <5> QED
          BY <3>1, <4>2, <5>1, <5>2, <1>4, SMTT(30) DEF Linkage, Nothing
      <4> QED
        BY <4>1, <4>2
    <3>2. CASE j # k
      <4>1. Semaphores[j] \in Names /\ Semaphores[j] # s
        BY <3>2, SemIndex
      <4>2. HasSem(q, j)
        BY <2>2, <3>2, <1>3, SMTT(30) DEF HasSem, Opening, Attached, Mapping, InSection
      <4>3. mine'[q].sem[Semaphores[j]] = mine[q].sem[Semaphores[j]]
        BY <4>1, <1>5
      <4> QED
        BY <4>1, <4>2, <4>3, <1>4, <1>6, SMTT(30) DEF Linkage
    <3> QED
      BY <3>1, <3>2
  <2>3. ASSUME NEW q \in Jobs, Label(q)' \in Attached
        PROVE  /\ mine'[q].shm = name'["shm"].made
               /\ name'["shm"].made > 0
               /\ name'["shm"].object # Nothing
    BY <2>3, <1>0, <1>3, <1>4, <1>5, <1>6, SMTT(30) DEF Linkage, Attached, Mapping, InSection
  <2>4. \A q \in Jobs : Label(q)' = "open" => name'["shm"].object # Nothing
    BY <1>0, <1>3, <1>4, SMTT(30) DEF Linkage
  <2>5. ASSUME NEW j \in 1 .. 4, name'[Semaphores[j]].object # Nothing
        PROVE  \E q \in Jobs : HasSem(q, j)'
    <3>1. CASE j = k
      BY <3>1, <1>3, SMTT(30) DEF HasSem, Opening
    <3>2. CASE j # k
      <4>1. Semaphores[j] \in Names /\ Semaphores[j] # s
        BY <3>2, SemIndex
      <4>2. PICK q \in Jobs : HasSem(q, j)
        BY <2>5, <4>1, <1>4, SMTT(30) DEF Linkage
      <4> QED
        BY <4>2, <1>3, SMTT(30) DEF HasSem, Opening, Attached, Mapping, InSection
    <3> QED
      BY <3>1, <3>2
  <2>6. name'["shm"].object # Nothing => \E q \in Jobs : HasShm(q)'
    BY <1>0, <1>1, <1>3, <1>4, SMTT(30) DEF Linkage, HasShm, Attached, Mapping, InSection
  <2> QED
    BY <2>1, <2>2, <2>3, <2>4, <2>5, <2>6, SMTT(30) DEF Linkage
<1>11. Section'
  <2>1. name["sid"].made # name'["sid"].made => \A q \in Jobs : Label(q) \notin Taken
    <3> SUFFICES ASSUME name["sid"].made # name'["sid"].made, NEW q \in Jobs, Label(q) \in Taken PROVE FALSE
      OBVIOUS
    <3>1. s = "sid" /\ name[s].object = Nothing
      BY <1>4, SemNames, SMTT(30)
    <3>2. k = 3
      BY <3>1, SemNames, SemIndex, SMTT(30)
    <3>3. Label(q) \in InSection
      BY <3>1, <1>7 DEF NoneDead, Taken
    <3> QED
      BY <3>1, <3>3, <1>7 DEF HasSem, Attached
  <2>2. \A q \in Jobs : Label(q)' \in Taken <=> Label(q) \in Taken
    BY <1>3 DEF Taken, InSection
  <2> QED
    BY <2>1, <2>2, SemNames DEF Section
<1>12. Numbering'
  <2>1. \A q \in Jobs : mine'[q].id = mine[q].id
    BY <1>5
  <2>2. \A q \in Jobs : Label(q)' = Label(q) \/ (Label(q) \notin Attached /\ Label(q)' \notin Attached)
    BY <1>3 DEF Attached, Mapping, InSection
  <2>3. name'["shm"].made = name["shm"].made /\ phase' = phase /\ UNCHANGED <<seg, tmp>>
    BY <1>0, <1>4
  <2> QED
    BY <2>1, <2>2, <2>3, NumberingKept
<1>13. Creation'
  <2>1. Label(p) \notin Attached /\ Label(p)' \notin Attached \union Mapping \union Knowing \union {"store"}
        /\ Label(p) \notin Mapping
    BY <1>3 DEF Attached, Mapping, InSection, Knowing, Numbered
  <2> QED
    BY <1>0, <1>3, <1>4, <2>1, CreationKept
<1>14. Wreck'
  BY <1>3, WreckKept DEF Mapping, Knowing, Numbered
<1> QED
  BY <1>8, <1>9, <1>10, <1>11, <1>12, <1>13, <1>14

\* The creator of the segment is alone; the segment it makes is a new one.
LEMMA ShmCreateInv ==
  ASSUME StartInv, NEW p \in Jobs, ShmCreate(p)
  PROVE  StartInv'
<1> USE DEF StartInv
<1> DEFINE o == Opened("shm")
<1>1. /\ name["shm"].object = Nothing /\ o \in Objects
      /\ at[p] = <<"excl", 0>> /\ at' = [at EXCEPT ![p] = <<"truncate", 0>>]
      /\ name' = [name EXCEPT !["shm"] = Linked("shm", o)]
      /\ mine' = [mine EXCEPT ![p].shm = o]
      /\ UNCHANGED <<phase, seg, sidval, tmp, dead>>
  BY DEF ShmCreate, Step
<1>2. /\ Label(p) = "excl" /\ Label(p)' = "truncate"
      /\ \A q \in Jobs \ {p} : at'[q] = at[q] /\ Label(q)' = Label(q)
  BY <1>1, SMTT(30) DEF Types, Label
<1>3. /\ name'["shm"] = [object |-> o, made |-> o] /\ o \in Nat \ {0} /\ o \in 0 .. MaxObjects
      /\ o = name["shm"].made + 1
      /\ \A s \in Names : name'[s] = name[s]
  BY <1>1, OpensRun, SemIndex DEF Types
<1> HIDE DEF o
<1>4. /\ mine'[p].sem = mine[p].sem /\ mine'[p].shm = o /\ mine'[p].id = mine[p].id
      /\ \A q \in Jobs \ {p} : mine'[q] = mine[q]
  BY <1>1 DEF Types
<1>5. phase = "join" /\ \A q \in Jobs : Label(q) \notin Attached
  BY <1>1, <1>2, FirstHere DEF Phases, Entering, Opening
<1>11. NoneDead
  BY <1>5 DEF Wreck, NoneDead, Attached
<1>6. Types'
  <2>1. name' \in [Names \union {"shm"} -> [object : Nat, made : 0 .. MaxObjects]]
    BY <1>1, <1>3, SMTT(30) DEF Types
  <2>2. [mine[p] EXCEPT !.shm = o] \in [sem : [Names -> Nat], shm : Nat, id : 0 .. n_procs]
    BY <1>3 DEF Types
  <2>3. mine' \in [Jobs -> [sem : [Names -> Nat], shm : Nat, id : 0 .. n_procs]]
    BY <1>1, <2>2 DEF Types
  <2> QED
    BY <1>1, <2>1, <2>3, PlaceFacts DEF Types, Attached, Mapping
<1>7. Phases'
  BY <1>1, <1>2, <1>5 DEF Phases, Mapping, Entering, Opening, Attached
<1>8. Linkage'
  <2>1. \A q \in Jobs, k \in 1 .. 4 : HasSem(q, k)' <=> HasSem(q, k)
    BY <1>2 DEF HasSem, Opening, Attached, Mapping, InSection
  <2>2. \A q \in Jobs \ {p} : Label(q)' \notin Attached
    BY <1>2, <1>5
  <2>5. \A q \in Jobs : q = p \/ q \in Jobs \ {p}
    OBVIOUS
  <2>3. Label(p)' \in Attached /\ Label(p)' # "open"
    BY <1>2 DEF Attached, Mapping
  <2>4. \A q \in Jobs : mine'[q].sem = mine[q].sem
    BY <1>4
  <2> QED
    BY <1>1, <1>3, <1>4, <2>1, <2>2, <2>3, <2>4, SemIndex, SMTT(30) DEF Linkage, HasShm, Nothing
<1>9. Section'
  BY <1>1, <1>2, <1>3, SemNames DEF Section, Taken, InSection
<1>10. Numbering'
  <2>1. HaveIds' = {} /\ Cardinality(HaveIds') = 0
    BY <1>2, <1>5, FS_EmptySet DEF HaveIds, Numbered, Knowing, Attached, InSection, Mapping
  <2>2. name["shm"].made \in Nat /\ o > name["shm"].made /\ \A u \in Objects : u \in Nat
    BY <1>3, SMTT(30) DEF Types, Objects
  <2>3. seg[o] = NewSegment /\ NewSegment.ids = 0
    BY <1>1, <2>2 DEF Numbering, NewSegment
  <2>4. \A u \in Objects : u > o => seg[u] = NewSegment
    BY <1>3, <2>2, SMTT(30) DEF Numbering
  <2>5. \A q \in Jobs : Label(q)' # "store" /\ Label(q)' # "in"
    BY <1>2, <1>5 DEF Attached, InSection
  <2> QED
    BY <1>1, <1>3, <2>1, <2>3, <2>4, <2>5, SMTT(30) DEF Numbering
<1>12. Creation'
  <2>1. name["shm"].made \in Nat /\ o > name["shm"].made
    BY <1>3, SMTT(30) DEF Types
  <2>2. seg[o] = NewSegment /\ ~ NewSegment.sized
    BY <1>1, <2>1 DEF Numbering, NewSegment, o
  <2>3. \A q \in Jobs : Label(q)' \notin Knowing \union {"store"}
    BY <1>2, <1>5 DEF Attached, InSection, Mapping, Knowing, Numbered
  <2>4. name'["shm"].made = o /\ seg' = seg /\ ~ seg[o].sized
    <3>1. name'["shm"].made = o
      BY <1>3, SMTT(30)
    <3>2. ~ seg[o].sized
      BY <2>2, SMTT(30)
    <3> QED
      BY <1>1, <3>1, <3>2
  <2>5. Label(p)' = "truncate" /\ Label(p)' \in Mapping
    BY <1>2 DEF Mapping
  <2> HIDE DEF o
  <2> QED
    BY <2>3, <2>4, <2>5 DEF Creation
<1>13. Wreck'
  BY <1>1, <1>2, <1>11, WreckKept
<1> QED
  BY <1>6, <1>7, <1>8, <1>9, <1>10, <1>12, <1>13

LEMMA ShmExistsInv ==
  ASSUME StartInv, NEW p \in Jobs, ShmExists(p)
  PROVE  StartInv'
<1> USE DEF StartInv
<1>1. /\ name["shm"].object # Nothing
      /\ at[p] = <<"excl", 0>> /\ at' = [at EXCEPT ![p] = <<"open", 0>>]
      /\ UNCHANGED <<phase, name, seg, sidval, mine, tmp, dead>>
  BY DEF ShmExists, Step
<1>2. /\ Label(p) = "excl" /\ Label(p)' = "open"
      /\ \A q \in Jobs \ {p} : at'[q] = at[q] /\ Label(q)' = Label(q)
  BY <1>1, SMTT(30) DEF Types, Label
<1>3. Types'
  BY <1>1, PlaceFacts DEF Types, Opening
<1>4. Phases'
  BY <1>1, <1>2 DEF Phases, Mapping, Entering, Opening, InSection
<1>5. Linkage'
  <2>1. \A q \in Jobs, k \in 1 .. 4 : HasSem(q, k)' <=> HasSem(q, k)
    BY <1>2 DEF HasSem, Opening, Attached, Mapping, InSection
  <2>2. \A q \in Jobs : Label(q)' \in Attached <=> Label(q) \in Attached
    BY <1>2 DEF Attached, Mapping, InSection
  <2>3. \A q \in Jobs : HasShm(q)' <=> HasShm(q)
    BY <1>1, <1>2, <2>2, SMTT(30) DEF HasShm
  <2> QED
    BY <1>1, <2>1, <2>2, <2>3 DEF Linkage
<1>6. Section'
  BY <1>1, <1>2 DEF Section, Taken, InSection
<1>7. Numbering'
  <2>1. \A q \in Jobs : Label(q)' = Label(q) \/ (Label(q) \notin Attached /\ Label(q)' \notin Attached)
    BY <1>2 DEF Attached, Mapping, InSection
  <2> QED
    BY <1>1, <2>1, NumberingKept
<1>8. Creation'
  BY <1>1, <1>2, CreationKept DEF Attached, Mapping, InSection, Knowing, Numbered
<1>9. Wreck'
  BY <1>1, <1>2, WreckKept DEF Mapping, Knowing, Numbered
<1> QED
  BY <1>3, <1>4, <1>5, <1>6, <1>7, <1>8, <1>9

\* The name is still there when it is opened.
LEMMA ShmOpenInv ==
  ASSUME StartInv, NEW p \in Jobs, ShmOpen(p)
  PROVE  StartInv'
<1> USE DEF StartInv
<1>0. at[p] = <<"open", 0>> /\ name["shm"].object # Nothing
  BY SMTT(30) DEF ShmOpen, Linkage, Label
<1>1. /\ at' = [at EXCEPT ![p] = <<"wait", 0>>]
      /\ mine' = [mine EXCEPT ![p].shm = name["shm"].object]
      /\ UNCHANGED <<phase, name, seg, sidval, tmp, dead>>
  BY <1>0 DEF ShmOpen
<1>2. /\ Label(p) = "open" /\ Label(p)' = "wait"
      /\ \A q \in Jobs \ {p} : at'[q] = at[q] /\ Label(q)' = Label(q)
  BY <1>0, <1>1, SMTT(30) DEF Types, Label
<1>3. /\ name["shm"].object = name["shm"].made /\ name["shm"].made \in Nat \ {0}
      /\ mine'[p].sem = mine[p].sem /\ mine'[p].shm = name["shm"].made /\ mine'[p].id = mine[p].id
      /\ \A q \in Jobs \ {p} : mine'[q] = mine[q]
  BY <1>0, <1>1, SMTT(30) DEF Types, Linkage, Nothing
<1>4. phase = "join"
  BY <1>2 DEF Phases, Entering, Opening
<1>5. PICK r \in Jobs : Label(r) \in Attached
  <2>1. PICK q \in Jobs : HasShm(q)
    BY <1>0 DEF Linkage
  <2>2. Label(q) \in Attached
    BY <2>1, <1>4, SMTT(30) DEF HasShm, Phases, Label
  <2> QED
    BY <2>2
<1>6. Types'
  <2>1. mine' \in [Jobs -> [sem : [Names -> Nat], shm : Nat, id : 0 .. n_procs]]
    BY <1>1, <1>3 DEF Types
  <2> QED
    BY <1>1, <2>1, PlaceFacts DEF Types, Attached
<1>7. Phases'
  BY <1>1, <1>2 DEF Phases, Mapping, Entering, Opening, InSection
<1>8. Linkage'
  <2>1. \A q \in Jobs, k \in 1 .. 4 : HasSem(q, k)' <=> HasSem(q, k)
    BY <1>2 DEF HasSem, Opening, Attached, Mapping, InSection
  <2>2. \A q \in Jobs \ {p} : Label(q)' = Label(q) /\ (HasShm(q)' <=> HasShm(q))
    BY <1>2 DEF HasShm
  <2>3. Label(p)' \in Attached /\ HasShm(p)' /\ Label(p)' # "open"
    BY <1>2 DEF Attached, HasShm
  <2>4. \A q \in Jobs : mine'[q].sem = mine[q].sem
    BY <1>3
  <2> QED
    BY <1>0, <1>1, <1>3, <2>1, <2>2, <2>3, <2>4, SMTT(30) DEF Linkage, Nothing
<1>9. Section'
  BY <1>1, <1>2 DEF Section, Taken, InSection
<1>10. Numbering'
  <2>1. HaveIds' = HaveIds
    BY <1>2 DEF HaveIds, Numbered, Knowing
  <2>2. \A q \in Jobs : mine'[q].id = mine[q].id
    BY <1>3
  <2>3. \A q \in HaveIds : q \in Jobs
    BY DEF HaveIds
  <2> QED
    BY <1>1, <1>2, <1>4, <1>5, <2>1, <2>2, <2>3, SMTT(30) DEF Numbering, Attached, Mapping, InSection
<1>11. Creation'
  <2> DEFINE o == name["shm"].made
  <2>1. /\ seg[o].sized \/ \E c \in Jobs : Label(c) = "truncate"
        /\ seg[o].budget \/ \E c \in Jobs : Label(c) \in Mapping
    BY <1>5 DEF Creation
  <2>2. /\ \A q \in Jobs : Label(q)' \in Mapping <=> Label(q) \in Mapping
        /\ \A q \in Jobs : Label(q)' = "truncate" <=> Label(q) = "truncate"
        /\ \A q \in Jobs : Label(q)' \in Knowing \union {"store"} => Label(q) \in Knowing \union {"store"}
    BY <1>2 DEF Mapping, Knowing, Numbered
  <2> QED
    BY <1>1, <2>1, <2>2 DEF Creation
<1>12. Wreck'
  BY <1>1, <1>2, WreckKept DEF Mapping, Knowing, Numbered
<1> QED
  BY <1>6, <1>7, <1>8, <1>9, <1>10, <1>11, <1>12

\* A process with a segment mapped has the one of this run.
LEMMA SegmentHere ==
  ASSUME Types, Linkage, NEW p \in Jobs, Label(p) \in Attached
  PROVE  /\ mine[p].shm = name["shm"].made /\ mine[p].shm \in Objects
         /\ seg[mine[p].shm] \in Segments
  BY StartupAssumption, SMTT(30) DEF Types, Linkage, Objects

LEMMA MadeObject ==
  ASSUME NEW m \in 0 .. MaxObjects, m > 0
  PROVE  m \in Objects
  BY StartupAssumption, SMTT(30) DEF Objects

\* The same for its semaphore sid.
LEMMA SidHere ==
  ASSUME Types, Linkage, NEW p \in Jobs, Label(p) \in Attached
  PROVE  mine[p].sem["sid"] = name["sid"].made /\ name["sid"].made \in Objects
<1>1. HasSem(p, 3) /\ 3 \in 1 .. 4
  BY SMTT(30) DEF HasSem
<1>2. mine[p].sem["sid"] = name["sid"].made /\ name["sid"].made > 0
  BY <1>1, SemNames DEF Linkage
<1>3. name["sid"].made \in 0 .. MaxObjects
  BY SemNames DEF Types
<1> QED
  BY <1>2, <1>3, MadeObject

\* A process that stays attached leaves the names alone.
LEMMA LinkageKept ==
  ASSUME Linkage, UNCHANGED <<name, phase>>,
         NEW p \in Jobs, Label(p) \in Attached, Label(p)' \in Attached,
         \A q \in Jobs \ {p} : at'[q] = at[q] /\ Label(q)' = Label(q),
         \A q \in Jobs : mine'[q].sem = mine[q].sem /\ mine'[q].shm = mine[q].shm
  PROVE  Linkage'
<1>1. \A q \in Jobs, k \in 1 .. 4 : HasSem(q, k)' <=> HasSem(q, k)
  BY DEF HasSem, Opening, Attached, Mapping, InSection
<1>2. \A q \in Jobs : HasShm(q)' <=> HasShm(q)
  BY DEF HasShm
<1>3. \A q \in Jobs : Label(q)' \in Attached <=> Label(q) \in Attached
  OBVIOUS
<1>4. \A q \in Jobs : Label(q)' = "open" => Label(q) = "open"
  BY DEF Attached, Mapping, InSection
<1> QED
  BY <1>1, <1>2, <1>3, <1>4, SMTT(30) DEF Linkage

\* A step on the segment that leaves the ids alone.
LEMMA NumberingSeg ==
  ASSUME Numbering, UNCHANGED <<name, phase, mine, tmp>>, HaveIds' = HaveIds,
         \A u \in Objects : u > name["shm"].made => seg'[u] = seg[u],
         seg'[name["shm"].made].ids = seg[name["shm"].made].ids,
         seg'[name["shm"].made].pid = seg[name["shm"].made].pid,
         NEW p \in Jobs, Label(p) \in Attached, Label(p)' \notin {"in", "store"},
         \A q \in Jobs \ {p} : Label(q)' = Label(q)
  PROVE  Numbering'
<1> DEFINE o == name["shm"].made
<1>1. o' = o
  OBVIOUS
<1>2. \A u \in Objects : u > o => seg'[u] = NewSegment
  BY DEF Numbering
<1>3. phase = "join" => seg'[o].ids = Cardinality(HaveIds')
  BY DEF Numbering
<1>4. \A q \in Jobs : Label(q)' = "store" => tmp'[q] = seg'[o].ids
  BY DEF Numbering
<1>5. \A q \in HaveIds' : mine'[q].id < seg'[o].ids /\ mine'[q].id < n_procs
  BY DEF Numbering
<1>6. \A q, r \in HaveIds' : mine'[q].id = mine'[r].id => q = r
  BY DEF Numbering
<1>7. \A q \in Jobs : Label(q)' = "in" => seg'[o].pid[mine'[q].id] = q
  BY SMTT(30) DEF Numbering
<1>8. NewSegment' = NewSegment /\ phase' = phase
  BY DEF NewSegment
<1> HIDE DEF o
<1> QED
  BY <1>1, <1>2, <1>3, <1>4, <1>5, <1>6, <1>7, <1>8 DEF Numbering, o

LEMMA TruncateInv ==
  ASSUME StartInv, NEW p \in Jobs, Truncate(p)
  PROVE  StartInv'
<1> USE DEF StartInv
<1>1. /\ at[p] = <<"truncate", 0>> /\ at' = [at EXCEPT ![p] = <<"write", 0>>]
      /\ seg' = [seg EXCEPT ![mine[p].shm].sized = TRUE]
      /\ UNCHANGED <<phase, name, sidval, mine, tmp, dead>>
  BY DEF Truncate, Step
<1>2. /\ Label(p) = "truncate" /\ Label(p)' = "write"
      /\ \A q \in Jobs \ {p} : at'[q] = at[q] /\ Label(q)' = Label(q)
  BY <1>1, SMTT(30) DEF Types, Label
<1> DEFINE o == name["shm"].made
<1>3. mine[p].shm = o /\ o \in Objects /\ seg[o] \in Segments
  BY <1>2, SegmentHere DEF Attached, Mapping
<1>4. /\ seg'[o].sized /\ seg'[o].budget = seg[o].budget
      /\ seg'[o].ids = seg[o].ids /\ seg'[o].pid = seg[o].pid
      /\ \A u \in Objects \ {o} : seg'[u] = seg[u]
  BY <1>1, <1>3 DEF Types, Segments
<1>5. Types'
  <2>1. seg' \in [Objects -> Segments]
    BY <1>1, <1>3 DEF Types, Segments
  <2> QED
    BY <1>1, <2>1, PlaceFacts DEF Types, Attached, Mapping
<1>6. Phases'
  BY <1>1, <1>2 DEF Phases, Mapping, Entering, Opening, InSection
<1>7. Linkage'
  BY <1>1, <1>2, LinkageKept DEF Attached, Mapping
<1>8. Section'
  BY <1>1, <1>2 DEF Section, Taken, InSection
<1>9. Numbering'
  <2>1. HaveIds' = HaveIds
    BY <1>2 DEF HaveIds, Numbered, Knowing
  <2>2. o' = o /\ o \in Nat /\ \A u \in Objects : u > o => seg'[u] = seg[u]
    BY <1>1, <1>3, <1>4, SMTT(30) DEF Objects
  <2>3. Label(p) \in Attached /\ Label(p)' \notin {"in", "store"}
    BY <1>2 DEF Attached, Mapping
  <2>6. UNCHANGED <<name, phase, mine, tmp>>
    BY <1>1
  <2> QED
    BY <1>2, <1>4, <2>1, <2>2, <2>3, <2>6, NumberingSeg
<1>10. Creation'
  <2>1. \A q \in Jobs : Label(q)' # "truncate"
    BY <1>2 DEF Phases, Mapping
  <2>2. Label(p)' \in Mapping /\ o' = o
    BY <1>1, <1>2 DEF Mapping
  <2> HIDE DEF o
  <2> QED
    BY <1>4, <2>1, <2>2 DEF Creation, o
<1>11. Wreck'
  BY <1>1, <1>2, WreckKept DEF Mapping, Knowing, Numbered
<1> QED
  BY <1>5, <1>6, <1>7, <1>8, <1>9, <1>10, <1>11

LEMMA WriteMaxInv ==
  ASSUME StartInv, NEW p \in Jobs, WriteMax(p)
  PROVE  StartInv'
<1> USE DEF StartInv
<1>1. /\ at[p] = <<"write", 0>> /\ at' = [at EXCEPT ![p] = <<"wait", 0>>]
      /\ seg' = [seg EXCEPT ![mine[p].shm].budget = TRUE]
      /\ UNCHANGED <<phase, name, sidval, mine, tmp, dead>>
  BY DEF WriteMax, Step
<1>2. /\ Label(p) = "write" /\ Label(p)' = "wait"
      /\ \A q \in Jobs \ {p} : at'[q] = at[q] /\ Label(q)' = Label(q)
  BY <1>1, SMTT(30) DEF Types, Label
<1> DEFINE o == name["shm"].made
<1>3. mine[p].shm = o /\ o \in Objects /\ seg[o] \in Segments
  BY <1>2, SegmentHere DEF Attached, Mapping
<1>4. /\ seg'[o].sized = seg[o].sized /\ seg'[o].budget
      /\ seg'[o].ids = seg[o].ids /\ seg'[o].pid = seg[o].pid
      /\ \A u \in Objects \ {o} : seg'[u] = seg[u]
  BY <1>1, <1>3 DEF Types, Segments
<1>5. Types'
  <2>1. seg' \in [Objects -> Segments]
    BY <1>1, <1>3 DEF Types, Segments
  <2> QED
    BY <1>1, <2>1, PlaceFacts DEF Types, Attached
<1>6. Phases'
  BY <1>1, <1>2 DEF Phases, Mapping, Entering, Opening, InSection
<1>7. Linkage'
  BY <1>1, <1>2, LinkageKept DEF Attached, Mapping
<1>8. Section'
  BY <1>1, <1>2 DEF Section, Taken, InSection
<1>9. Numbering'
  <2>1. HaveIds' = HaveIds
    BY <1>2 DEF HaveIds, Numbered, Knowing
  <2>2. o' = o /\ o \in Nat /\ \A u \in Objects : u > o => seg'[u] = seg[u]
    BY <1>1, <1>3, <1>4, SMTT(30) DEF Objects
  <2>3. Label(p) \in Attached /\ Label(p)' \notin {"in", "store"}
    BY <1>2 DEF Attached, Mapping
  <2>6. UNCHANGED <<name, phase, mine, tmp>>
    BY <1>1
  <2> QED
    BY <1>2, <1>4, <2>1, <2>2, <2>3, <2>6, NumberingSeg
<1>10. Creation'
  <2>1. \A q \in Jobs : Label(q)' = "truncate" <=> Label(q) = "truncate"
    BY <1>2
  <2>2. \A q \in Jobs : /\ Label(q)' \in Attached => Label(q) \in Attached
                        /\ Label(q)' \in Knowing \union {"store"} => Label(q) \in Knowing \union {"store"}
    BY <1>2 DEF Attached, Mapping, Knowing, Numbered
  <2>3. o' = o
    BY <1>1
  <2> HIDE DEF o
  <2> QED
    BY <1>4, <2>1, <2>2, <2>3 DEF Creation, o
<1>11. Wreck'
  BY <1>1, <1>2, WreckKept DEF Mapping, Knowing, Numbered
<1> QED
  BY <1>5, <1>6, <1>7, <1>8, <1>9, <1>10, <1>11

\* sid lets one process in at a time.
LEMMA SidWaitInv ==
  ASSUME StartInv, NEW p \in Jobs, SidWait(p)
  PROVE  StartInv'
<1> USE DEF StartInv
<1>1. /\ at[p] = <<"wait", 0>> /\ at' = [at EXCEPT ![p] = <<"load", 0>>]
      /\ sidval[mine[p].sem["sid"]] > 0
      /\ sidval' = [sidval EXCEPT ![mine[p].sem["sid"]] = @ - 1]
      /\ UNCHANGED <<phase, name, seg, mine, tmp, dead>>
  BY DEF SidWait, Step
<1>2. /\ Label(p) = "wait" /\ Label(p)' = "load"
      /\ \A q \in Jobs \ {p} : at'[q] = at[q] /\ Label(q)' = Label(q)
  BY <1>1, SMTT(30) DEF Types, Label
<1> DEFINE o == name["sid"].made
<1>3. mine[p].sem["sid"] = o /\ o \in Objects
  BY <1>2, SidHere DEF Attached
<1>4. sidval[o] = 1 /\ \A q \in Jobs : Label(q) \notin Taken
  BY <1>1, <1>3, SMTT(30) DEF Section
<1>5. sidval'[o] = 0 /\ \A u \in Objects \ {o} : sidval'[u] = sidval[u]
  BY <1>1, <1>3, <1>4, SMTT(30) DEF Types
<1>6. Types'
  <2>1. sidval' \in [Objects -> Nat]
    BY <1>1, <1>3, <1>4, SMTT(30) DEF Types
  <2> QED
    BY <1>1, <2>1, PlaceFacts DEF Types, Attached, InSection
<1>7. Phases'
  BY <1>1, <1>2 DEF Phases, Mapping, Entering, Opening, InSection
<1>8. Linkage'
  BY <1>1, <1>2, LinkageKept DEF Attached, InSection
<1>9. Section'
  BY <1>1, <1>2, <1>3, <1>4, <1>5 DEF Section, Taken, InSection
<1>10. Numbering'
  <2>1. HaveIds' = HaveIds
    BY <1>2 DEF HaveIds, Numbered, Knowing
  <2>2. Label(p) \in Attached /\ Label(p)' \notin {"in", "store"}
    BY <1>2 DEF Attached
  <2> QED
    BY <1>1, <1>2, <2>1, <2>2, NumberingSeg
<1>11. Creation'
  BY <1>1, <1>2, CreationKept DEF Attached, Mapping, InSection, Knowing, Numbered
<1>12. Wreck'
  BY <1>1, <1>2, <1>4, WreckKept DEF NoneDead, Taken
<1> QED
  BY <1>6, <1>7, <1>8, <1>9, <1>10, <1>11, <1>12

\* The load, when the segment has its size.
LEMMA LoadSizedInv ==
  ASSUME StartInv, NEW p \in Jobs, LoadId(p), seg[name["shm"].made].sized
  PROVE  StartInv'
<1> USE DEF StartInv
<1>0. at[p] = <<"load", 0>> /\ Label(p) = "load"
  BY SMTT(30) DEF LoadId, Label
<1> DEFINE o == name["shm"].made
<1>1. mine[p].shm = o /\ o \in Objects /\ seg[o] \in Segments /\ seg[o].sized
  BY <1>0, SegmentHere DEF Attached, InSection
<1>2. /\ at' = [at EXCEPT ![p] = <<"store", 0>>]
      /\ tmp' = [tmp EXCEPT ![p] = seg[o].ids]
      /\ UNCHANGED <<phase, name, seg, sidval, mine, dead>>
  BY <1>0, <1>1 DEF LoadId
<1>3. /\ Label(p)' = "store"
      /\ \A q \in Jobs \ {p} : at'[q] = at[q] /\ Label(q)' = Label(q)
  BY <1>0, <1>2 DEF Types, Label
<1>4. phase = "join" /\ seg[o].ids = Cardinality(HaveIds) /\ seg[o].ids \in 0 .. n_procs
  <2>1. phase = "join"
    BY <1>0 DEF Phases, Entering, InSection
  <2>2. Label(p) \in Attached
    BY <1>0 DEF Attached, InSection
  <2>3. seg[o].ids = Cardinality(HaveIds)
    BY <2>1, <2>2 DEF Numbering
  <2> QED
    BY <2>1, <2>3, JobCount, SMTT(30)
<1>5. Types'
  <2>1. tmp' \in [Jobs -> 0 .. n_procs]
    BY <1>2, <1>4 DEF Types
  <2>2. at' \in [Jobs -> Places]
    BY <1>2, PlaceFacts DEF Types, Attached, InSection
  <2> QED
    BY <1>2, <2>1, <2>2 DEF Types
<1>6. Phases'
  BY <1>0, <1>2, <1>3 DEF Phases, Mapping, Entering, Opening, InSection
<1>7. Linkage'
  BY <1>0, <1>2, <1>3, LinkageKept DEF Attached, InSection
<1>8. Section'
  <2>1. \A q \in Jobs : Label(q)' \in Taken <=> Label(q) \in Taken
    BY <1>0, <1>3 DEF Taken, InSection
  <2> QED
    BY <1>2, <2>1 DEF Section
<1>9. Numbering'
  <2>1. HaveIds' = HaveIds
    BY <1>0, <1>3 DEF HaveIds, Numbered, Knowing
  <2>2. o' = o /\ seg' = seg /\ mine' = mine /\ phase' = phase /\ NewSegment' = NewSegment
    BY <1>2 DEF NewSegment
  <2>3. \A q \in Jobs : Label(q)' = "store" => tmp'[q] = seg[o].ids
    BY <1>2, <1>3 DEF Types, Numbering
  <2>6. \A q \in Jobs : Label(q)' = "in" => seg[o].pid[mine[q].id] = q
    BY <1>3, SMTT(30) DEF Numbering
  <2>7. \A u \in Objects : u > o => seg[u] = NewSegment
    BY DEF Numbering
  <2>8. /\ \A q \in HaveIds : mine[q].id < seg[o].ids /\ mine[q].id < n_procs
        /\ \A q, r \in HaveIds : mine[q].id = mine[r].id => q = r
    BY DEF Numbering
  <2> HIDE DEF o
  <2> QED
    BY <1>4, <2>1, <2>2, <2>3, <2>6, <2>7, <2>8 DEF Numbering, o
<1>10. Creation'
  BY <1>0, <1>1, <1>2, <1>3, CreationKept DEF Attached, Mapping, InSection
<1>11. Wreck'
  BY <1>0, <1>2, <1>3, WreckKept DEF Mapping, Knowing, Numbered
<1> QED
  BY <1>5, <1>6, <1>7, <1>8, <1>9, <1>10, <1>11

\* The load, when it has not: SIGBUS, with the semaphore down.  The creator is
\* still to set the size, so nobody has come past the load.
LEMMA LoadDiesInv ==
  ASSUME StartInv, NEW p \in Jobs, LoadId(p), ~ seg[name["shm"].made].sized
  PROVE  StartInv'
<1> USE DEF StartInv
<1>0. at[p] = <<"load", 0>> /\ Label(p) = "load" /\ Label(p) \in Attached /\ Label(p) \in Taken
  BY SMTT(30) DEF LoadId, Label, Attached, Taken, InSection
<1>1. mine[p].shm = name["shm"].made
  BY <1>0, SegmentHere
<1>2. /\ at' = [at EXCEPT ![p] = <<"dead", 0>>]
      /\ dead' = [dead EXCEPT ![p] = "SIGBUS"] /\ mine' = [mine EXCEPT ![p] = Closed]
      /\ UNCHANGED <<tmp, phase, name, seg, sidval>>
  BY <1>1 DEF LoadId, Die
<1>3. /\ Label(p)' = "dead" /\ at'[p] = <<"dead", 0>>
      /\ \A q \in Jobs \ {p} : at'[q] = at[q] /\ Label(q)' = Label(q)
  BY <1>2, SMTT(30) DEF Types, Label
<1>4. PICK c \in Jobs \ {p} : Label(c) = "truncate"
  BY <1>0 DEF Creation
<1>5. phase = "join" /\ HaveIds = {} /\ \A q \in Jobs : Label(q) # "store"
  <2>1. phase = "join"
    BY <1>0 DEF Phases, Entering, InSection
  <2> QED
    BY <2>1 DEF Creation, HaveIds
<1>6. \A q \in Jobs \ {p} : mine'[q] = mine[q] /\ dead'[q] = dead[q]
  BY <1>2 DEF Types
<1>7. Types'
  <2>1. Closed \in [sem : [Names -> Nat], shm : Nat, id : 0 .. n_procs]
    BY JobCount, SMTT(30) DEF Closed, Nothing
  <2>2. mine' \in [Jobs -> [sem : [Names -> Nat], shm : Nat, id : 0 .. n_procs]]
    BY <1>2, <2>1 DEF Types
  <2>3. <<"dead", 0>> \in Places
    BY PlaceFacts
  <2> QED
    BY <1>2, <2>2, <2>3 DEF Types
<1>8. Phases'
  BY <1>2, <1>3 DEF Phases, Mapping, Entering, Opening, InSection
<1>9. /\ \A q \in Jobs, k \in 1 .. 4 : HasSem(q, k)' => HasSem(q, k) /\ q # p
      /\ \A k \in 1 .. 4 : HasSem(c, k)'
  BY <1>3, <1>4 DEF HasSem, Opening, Attached, Mapping, InSection
<1>10. /\ \A q \in Jobs : Label(q)' \in Attached => Label(q) \in Attached /\ q # p
       /\ \A q \in Jobs : Label(q)' = "open" => Label(q) = "open"
       /\ HasShm(c)' /\ Label(c)' = "truncate" /\ Label(c)' \in Mapping
  BY <1>3, <1>4 DEF HasShm, Attached, Mapping, InSection
<1>11. Linkage'
  <2>1. \A q \in Jobs, k \in 1 .. 4 : HasSem(q, k)' => mine'[q].sem = mine[q].sem
    BY <1>6, <1>9
  <2>2. \A q \in Jobs : Label(q)' \in Attached => mine'[q].shm = mine[q].shm
    BY <1>6, <1>10
  <2> QED
    BY <1>2, <1>9, <1>10, <2>1, <2>2 DEF Linkage
<1>12. Section'
  <2>1. \A q \in Jobs : Label(q)' \in Taken <=> Label(q) \in Taken
    BY <1>0, <1>3 DEF Taken
  <2> QED
    BY <1>2, <2>1 DEF Section
<1>13. HaveIds' = {} /\ \A q \in Jobs : Label(q)' \notin Knowing \union {"store"}
  BY <1>3, <1>5 DEF HaveIds, Knowing, Numbered
<1>14. Creation'
  BY <1>2, <1>10, <1>13 DEF Creation
<1>15. Wreck'
  <2>1. \A q \in Jobs : dead'[q] # "no" <=> Label(q)' = "dead"
    BY <1>2, <1>3, <1>6 DEF Wreck, Types
  <2> QED
    BY <1>2, <1>5, <1>10, <1>13, <2>1 DEF Wreck
<1>16. Numbering'
  <2>1. \A q \in Jobs : Label(q)' # "in"
    BY <1>13 DEF Knowing
  <2>2. seg[name["shm"].made].ids = Cardinality(HaveIds) /\ HaveIds' = HaveIds /\ HaveIds' = {}
    BY <1>0, <1>5, <1>13 DEF Numbering
  <2> QED
    BY <1>2, <1>13, <2>1, <2>2 DEF Numbering, NewSegment
<1> QED
  BY <1>7, <1>8, <1>11, <1>12, <1>14, <1>15, <1>16

\* The id stored is the number of the ids given out before.
LEMMA StoreIdInv ==
  ASSUME StartInv, NEW p \in Jobs, StoreId(p)
  PROVE  StartInv'
<1> USE DEF StartInv
<1>1. /\ at[p] = <<"store", 0>> /\ at' = [at EXCEPT ![p] = <<"post", 0>>]
      /\ seg' = [seg EXCEPT ![mine[p].shm].ids = tmp[p] + 1]
      /\ mine' = [mine EXCEPT ![p].id = tmp[p]]
      /\ tmp' = [tmp EXCEPT ![p] = 0]
      /\ UNCHANGED <<phase, name, sidval, dead>>
  BY DEF StoreId, Step
<1>2. /\ Label(p) = "store" /\ Label(p)' = "post"
      /\ \A q \in Jobs \ {p} : at'[q] = at[q] /\ Label(q)' = Label(q)
  BY <1>1, SMTT(30) DEF Types, Label
<1> DEFINE o == name["shm"].made
<1>3. mine[p].shm = o /\ o \in Objects /\ seg[o] \in Segments /\ Label(p) \in Attached
  BY <1>2, SegmentHere DEF Attached, InSection
<1>4. phase = "join" /\ tmp[p] = seg[o].ids /\ seg[o].ids = Cardinality(HaveIds)
  BY <1>2, <1>3 DEF Phases, Entering, InSection, Numbering
<1>5. tmp[p] \in Nat /\ tmp[p] < n_procs /\ n_procs \in Nat
  <2>1. p \in Jobs \ HaveIds
    BY <1>2 DEF HaveIds, Numbered, Knowing
  <2> QED
    BY <1>4, <2>1, JobCount
<1>6. /\ seg'[o].sized = seg[o].sized /\ seg'[o].budget = seg[o].budget
      /\ seg'[o].ids = tmp[p] + 1 /\ seg'[o].pid = seg[o].pid
      /\ \A u \in Objects \ {o} : seg'[u] = seg[u]
  BY <1>1, <1>3 DEF Types, Segments
<1>7. /\ mine'[p].sem = mine[p].sem /\ mine'[p].shm = mine[p].shm /\ mine'[p].id = tmp[p]
      /\ \A q \in Jobs \ {p} : mine'[q] = mine[q]
  BY <1>1 DEF Types
<1>8. Types'
  <2>1. [seg[o] EXCEPT !.ids = tmp[p] + 1] \in Segments
    BY <1>3, <1>5, SMTT(30) DEF Segments
  <2>2. seg' \in [Objects -> Segments]
    BY <1>1, <1>3, <2>1 DEF Types
  <2>3. [mine[p] EXCEPT !.id = tmp[p]] \in [sem : [Names -> Nat], shm : Nat, id : 0 .. n_procs]
    BY <1>5 DEF Types
  <2>4. mine' \in [Jobs -> [sem : [Names -> Nat], shm : Nat, id : 0 .. n_procs]]
    BY <1>1, <2>3 DEF Types
  <2>5. tmp' \in [Jobs -> 0 .. n_procs]
    BY <1>1, <1>5, SMTT(30) DEF Types
  <2> QED
    BY <1>1, <2>2, <2>4, <2>5, PlaceFacts DEF Types, Attached, InSection
<1>9. Phases'
  BY <1>1, <1>2 DEF Phases, Mapping, Entering, Opening, InSection
<1>10. Linkage'
  BY <1>1, <1>2, <1>7, LinkageKept DEF Attached, InSection
<1>11. Section'
  BY <1>1, <1>2 DEF Section, Taken, InSection
<1>12. Numbering'
  <2>1. HaveIds' = HaveIds \union {p} /\ p \notin HaveIds
    BY <1>2 DEF HaveIds, Numbered, Knowing
  <2>2. Cardinality(HaveIds') = tmp[p] + 1
    BY <1>4, <2>1, JobCount, FS_AddElement
  <2>3. \A q \in HaveIds : q \in Jobs /\ q # p
    BY <2>1 DEF HaveIds
  <2>4. \A q \in Jobs : Label(q) \in InSection => q = p
    BY <1>2 DEF Section, Taken, InSection
  <2>5. o' = o /\ phase' = phase /\ NewSegment' = NewSegment /\ o \in Nat
    BY <1>1, <1>3, SMTT(30) DEF NewSegment, Objects
  <2>6. \A u \in Objects : u > o => seg'[u] = NewSegment
    BY <1>6, <2>5, SMTT(30) DEF Numbering
  <2>7. \A q \in HaveIds' : mine'[q].id < tmp[p] + 1 /\ mine'[q].id < n_procs
    <3> SUFFICES ASSUME NEW q \in HaveIds' PROVE mine'[q].id < tmp[p] + 1 /\ mine'[q].id < n_procs
      OBVIOUS
    <3>1. CASE q = p
      BY <3>1, <1>5, <1>7, SMTT(30)
    <3>2. CASE q # p
      <4>1. q \in HaveIds /\ mine'[q].id = mine[q].id /\ mine[q].id \in Nat
        BY <2>1, <3>2, <2>3, <1>7, SMTT(30) DEF Types
      <4>2. mine[q].id < tmp[p] /\ mine[q].id < n_procs
        BY <4>1, <1>4 DEF Numbering
      <4> QED
        BY <4>1, <4>2, <1>5, SMTT(30)
    <3> QED
      BY <3>1, <3>2
  <2>8. \A q, r \in HaveIds' : mine'[q].id = mine'[r].id => q = r
    <3>1. \A q \in HaveIds : mine'[q].id = mine[q].id /\ mine[q].id < tmp[p] /\ mine[q].id \in Nat
      BY <1>4, <1>7, <2>3, SMTT(30) DEF Numbering, Types
    <3>2. \A q \in HaveIds : mine'[q].id # mine'[p].id
      BY <3>1, <1>5, <1>7, SMTT(30)
    <3> QED
      BY <2>1, <3>1, <3>2, SMTT(30) DEF Numbering
  <2>9. \A q \in Jobs : Label(q)' = "in" => seg'[o].pid[mine'[q].id] = q
    BY <1>2, <1>6, <1>7, SMTT(30) DEF Numbering
  <2>10. \A q \in Jobs : Label(q)' # "store"
    BY <1>2, <2>4 DEF InSection
  <2>13. seg'[o].ids = Cardinality(HaveIds')
    BY <1>6, <2>2
  <2>14. \A q \in HaveIds' : mine'[q].id < seg'[o].ids /\ mine'[q].id < n_procs
    BY <1>6, <2>7
  <2> HIDE DEF o
  <2> QED
    BY <2>5, <2>6, <2>8, <2>9, <2>10, <2>13, <2>14 DEF Numbering, o
<1>13. Creation'
  <2>1. seg[o].sized
    BY <1>2 DEF Creation
  <2> QED
    BY <1>1, <1>2, <1>3, <1>6, <2>1, CreationKept DEF Mapping
<1>14. Wreck'
  <2>1. NoneDead
    BY <1>2 DEF Section, Taken, InSection, NoneDead
  <2> QED
    BY <1>1, <1>2, <2>1, WreckKept
<1> QED
  BY <1>8, <1>9, <1>10, <1>11, <1>12, <1>13, <1>14

\* Every id is below n_procs: the assertion holds.
LEMMA SidPostInv ==
  ASSUME StartInv, NEW p \in Jobs, SidPost(p)
  PROVE  StartInv'
<1> USE DEF StartInv
<1>0. at[p] = <<"post", 0>> /\ Label(p) = "post"
  BY SMTT(30) DEF SidPost, Label
<1>1. mine[p].id < n_procs
  BY <1>0 DEF Numbering, HaveIds, Knowing, Numbered
<1>2. /\ at' = [at EXCEPT ![p] = <<"pid", 0>>]
      /\ sidval' = [sidval EXCEPT ![mine[p].sem["sid"]] = @ + 1]
      /\ UNCHANGED <<phase, name, seg, mine, tmp, dead>>
  BY <1>0, <1>1 DEF SidPost
<1>3. /\ Label(p)' = "pid"
      /\ \A q \in Jobs \ {p} : at'[q] = at[q] /\ Label(q)' = Label(q)
  BY <1>0, <1>2 DEF Types, Label
<1> DEFINE o == name["sid"].made
<1>4. mine[p].sem["sid"] = o /\ o \in Objects
  BY <1>0, SidHere DEF Attached, InSection
<1>5. sidval[o] = 0 /\ \A q \in Jobs \ {p} : Label(q) \notin Taken
  BY <1>0, <1>4 DEF Section, Taken, InSection
<1>6. sidval'[o] = 1 /\ \A u \in Objects \ {o} : sidval'[u] = sidval[u]
  BY <1>2, <1>4, <1>5, SMTT(30) DEF Types
<1>7. Types'
  <2>1. sidval' \in [Objects -> Nat]
    BY <1>2, <1>4, <1>5, SMTT(30) DEF Types
  <2> QED
    BY <1>2, <2>1, PlaceFacts DEF Types, Attached
<1>8. Phases'
  BY <1>0, <1>2, <1>3 DEF Phases, Mapping, Entering, Opening, InSection
<1>9. Linkage'
  BY <1>0, <1>2, <1>3, LinkageKept DEF Attached, InSection
<1>10. Section'
  BY <1>2, <1>3, <1>4, <1>5, <1>6, SMTT(30) DEF Section, Taken, InSection
<1>11. Numbering'
  <2>1. HaveIds' = HaveIds
    BY <1>0, <1>3 DEF HaveIds, Numbered, Knowing
  <2>2. Label(p) \in Attached /\ Label(p)' \notin {"in", "store"}
    BY <1>0, <1>3 DEF Attached, InSection
  <2> QED
    BY <1>2, <1>3, <2>1, <2>2, NumberingSeg
<1>12. Creation'
  <2>1. seg[name["shm"].made].sized
    BY <1>0 DEF Creation, Knowing, Numbered
  <2> QED
    BY <1>0, <1>2, <1>3, <2>1, CreationKept DEF Attached, Mapping, InSection
<1>13. Wreck'
  BY <1>0, <1>2, <1>3, WreckKept DEF Mapping, Knowing, Numbered
<1> QED
  BY <1>7, <1>8, <1>9, <1>10, <1>11, <1>12, <1>13

\* No other process has the id whose place in the pid table is written.
LEMMA JoinInv ==
  ASSUME StartInv, NEW p \in Jobs, Join(p)
  PROVE  StartInv'
<1> USE DEF StartInv
<1>1. /\ at[p] = <<"pid", 0>> /\ at' = [at EXCEPT ![p] = <<"in", 0>>]
      /\ seg' = [seg EXCEPT ![mine[p].shm].pid[mine[p].id] = p]
      /\ UNCHANGED <<phase, name, sidval, mine, tmp, dead>>
  BY DEF Join, Step
<1>2. /\ Label(p) = "pid" /\ Label(p)' = "in"
      /\ \A q \in Jobs \ {p} : at'[q] = at[q] /\ Label(q)' = Label(q)
  BY <1>1, SMTT(30) DEF Types, Label
<1> DEFINE o == name["shm"].made
           i == mine[p].id
<1>3. mine[p].shm = o /\ o \in Objects /\ seg[o] \in Segments /\ Label(p) \in Attached
  BY <1>2, SegmentHere DEF Attached
<1>4. p \in HaveIds /\ i \in 0 .. n_procs - 1
  <2>1. p \in HaveIds
    BY <1>2 DEF HaveIds, Numbered, Knowing
  <2> QED
    BY <2>1, JobCount, SMTT(30) DEF Numbering, Types
<1>5. /\ seg'[o].sized = seg[o].sized /\ seg'[o].budget = seg[o].budget
      /\ seg'[o].ids = seg[o].ids
      /\ seg'[o].pid[i] = p /\ \A j \in 0 .. n_procs - 1 : j # i => seg'[o].pid[j] = seg[o].pid[j]
      /\ \A u \in Objects \ {o} : seg'[u] = seg[u]
  BY <1>1, <1>3, <1>4 DEF Types, Segments
<1>6. Types'
  <2>1. [seg[o].pid EXCEPT ![i] = p] \in [0 .. n_procs - 1 -> Jobs \union {Nothing}]
    BY <1>3, <1>4 DEF Segments
  <2>2. [seg[o] EXCEPT !.pid[i] = p] \in Segments
    BY <1>3, <2>1 DEF Segments
  <2>3. seg' \in [Objects -> Segments]
    BY <1>1, <1>3, <2>2 DEF Types
  <2> QED
    BY <1>1, <2>3, PlaceFacts DEF Types, Attached
<1>7. Phases'
  BY <1>1, <1>2 DEF Phases, Mapping, Entering, Opening, InSection
<1>8. Linkage'
  BY <1>1, <1>2, LinkageKept DEF Attached
<1>9. Section'
  BY <1>1, <1>2 DEF Section, Taken, InSection
<1>10. Numbering'
  <2>1. HaveIds' = HaveIds /\ \A q \in HaveIds : q \in Jobs
    BY <1>2 DEF HaveIds, Numbered, Knowing
  <2>2. o' = o /\ phase' = phase /\ mine' = mine /\ tmp' = tmp /\ NewSegment' = NewSegment
    BY <1>1 DEF NewSegment
  <2>3. \A u \in Objects : u > o => seg'[u] = NewSegment
    BY <1>5, <1>3, <2>2, SMTT(30) DEF Numbering, Objects
  <2>6. \A q \in Jobs : Label(q)' = "in" => seg'[o].pid[mine[q].id] = q
    <3> SUFFICES ASSUME NEW q \in Jobs, Label(q)' = "in", q # p PROVE seg'[o].pid[mine[q].id] = q
      BY <1>5
    <3>1. Label(q) = "in" /\ q \in HaveIds
      BY <1>2 DEF HaveIds, Knowing
    <3>2. mine[q].id # i /\ mine[q].id \in 0 .. n_procs - 1
      BY <3>1, <1>4, JobCount, SMTT(30) DEF Numbering, Types
    <3> QED
      BY <3>1, <3>2, <1>5 DEF Numbering
  <2>7. phase = "join" => seg[o].ids = Cardinality(HaveIds)
    BY <1>3 DEF Numbering
  <2>8. \A q \in Jobs : Label(q)' = "store" => tmp[q] = seg[o].ids
    BY <1>2 DEF Numbering
  <2>9. /\ \A q \in HaveIds : mine[q].id < seg[o].ids /\ mine[q].id < n_procs
        /\ \A q, r \in HaveIds : mine[q].id = mine[r].id => q = r
    BY DEF Numbering
  <2> HIDE DEF o
  <2> QED
    BY <1>5, <2>1, <2>2, <2>3, <2>6, <2>7, <2>8, <2>9 DEF Numbering, o
<1>11. Creation'
  <2>1. seg[o].sized
    BY <1>2 DEF Creation, Knowing, Numbered
  <2> QED
    BY <1>1, <1>2, <1>3, <1>5, <2>1, CreationKept DEF Mapping
<1>12. Wreck'
  BY <1>1, <1>2, WreckKept DEF Mapping, Knowing, Numbered
<1> QED
  BY <1>6, <1>7, <1>8, <1>9, <1>10, <1>11, <1>12

LEMMA SbmaDestroyInv ==
  ASSUME StartInv, Together, NEW p \in Jobs, SbmaDestroy(p)
  PROVE  StartInv'
<1> USE DEF StartInv
<1>1. /\ at[p] = <<"in", 0>> /\ at' = [at EXCEPT ![p] = <<"leave", 0>>]
      /\ phase' = "leave" /\ mine' = [mine EXCEPT ![p].shm = Nothing]
      /\ UNCHANGED <<name, seg, sidval, tmp, dead>>
  BY DEF SbmaDestroy, Step
<1>2. /\ Label(p) = "in" /\ Label(p)' = "leave" /\ at'[p][2] = 0 /\ at'[p] = <<"leave", 0>>
      /\ \A q \in Jobs \ {p} : at'[q] = at[q] /\ Label(q)' = Label(q)
  BY <1>1, SMTT(30) DEF Types, Label
<1>3. \A q \in Jobs : Label(q) \notin Entering
  BY SMTT(30) DEF SbmaDestroy, MayLeave, Joined, Phases, Label, Entering, Opening, Mapping, InSection
<1>4. /\ mine'[p].sem = mine[p].sem /\ mine'[p].id = mine[p].id
      /\ \A q \in Jobs \ {p} : mine'[q] = mine[q]
  BY <1>1 DEF Types
<1>5. Types'
  <2>1. [mine[p] EXCEPT !.shm = Nothing] \in [sem : [Names -> Nat], shm : Nat, id : 0 .. n_procs]
    BY DEF Types, Nothing
  <2>2. mine' \in [Jobs -> [sem : [Names -> Nat], shm : Nat, id : 0 .. n_procs]]
    BY <1>1, <2>1 DEF Types
  <2>4. 0 \in 0 .. 4
    BY SMTT(30)
  <2>3. <<"leave", 0>> \in Places
    BY PlaceFacts, <2>4
  <2> QED
    BY <1>1, <2>2, <2>3 DEF Types
<1>6. Phases'
  BY <1>1, <1>2, <1>3 DEF Phases, Mapping, Entering, Opening, InSection
<1>7. Linkage'
  <2>1. \A q \in Jobs, k \in 1 .. 4 : HasSem(q, k)' <=> HasSem(q, k)
    BY <1>2, SMTT(30) DEF HasSem, Opening, Attached, Mapping, InSection
  <2>2. \A q \in Jobs : HasShm(q)' <=> HasShm(q)
    BY <1>2 DEF HasShm, Attached
  <2>3. \A q \in Jobs : mine'[q].sem = mine[q].sem
    BY <1>4
  <2>4. \A q \in Jobs : Label(q)' \in Attached => Label(q) \in Attached /\ mine'[q].shm = mine[q].shm
    BY <1>2, <1>4 DEF Attached, Mapping, InSection
  <2>5. \A q \in Jobs : Label(q)' # "open"
    BY <1>2, <1>3 DEF Entering, Opening
  <2> QED
    BY <1>1, <2>1, <2>2, <2>3, <2>4, <2>5, SMTT(30) DEF Linkage
<1>8. Section'
  BY <1>1, <1>2, <1>3 DEF Section, Taken, InSection, Entering
<1>9. Numbering'
  <2>1. HaveIds' \subseteq HaveIds /\ \A q \in HaveIds : q \in Jobs
    BY <1>2 DEF HaveIds, Numbered, Knowing
  <2>2. \A q \in Jobs : mine'[q].id = mine[q].id
    BY <1>4
  <2> QED
    BY <1>1, <1>2, <1>3, <2>1, <2>2, SMTT(30) DEF Numbering, Entering, Attached, Mapping, InSection
<1>10. Creation'
  BY <1>1, <1>2, CreationKept DEF Attached, Mapping, InSection, Knowing, Numbered
<1>11. Wreck'
  <2>1. NoneDead
    BY <1>2 DEF Wreck, HaveIds, Knowing, NoneDead
  <2> QED
    BY <1>1, <1>2, <2>1, WreckKept
<1> QED
  BY <1>5, <1>6, <1>7, <1>8, <1>9, <1>10, <1>11

\* Nobody needs a name once processes leave.
LEMMA ShmUnlinkInv ==
  ASSUME StartInv, NEW p \in Jobs, ShmUnlink(p)
  PROVE  StartInv'
<1> USE DEF StartInv
<1>1. /\ at[p] = <<"leave", 0>> /\ at' = [at EXCEPT ![p] = <<"leave", 1>>]
      /\ name' = [name EXCEPT !["shm"].object = Nothing]
      /\ UNCHANGED <<phase, seg, sidval, mine, tmp, dead>>
  BY DEF ShmUnlink, Step, Unlinked
<1>2. /\ Label(p) = "leave" /\ Label(p)' = "leave" /\ at[p][2] = 0 /\ at'[p][2] = 1
      /\ \A q \in Jobs \ {p} : at'[q] = at[q] /\ Label(q)' = Label(q)
  BY <1>1, SMTT(30) DEF Types, Label
<1>3. phase = "leave"
  BY <1>2 DEF Phases
<1>4. /\ name'["shm"].object = Nothing /\ name'["shm"].made = name["shm"].made
      /\ \A s \in Names : name'[s] = name[s]
  BY <1>1, SemIndex, SMTT(30) DEF Types
<1>5. Types'
  <2>1. [name["shm"] EXCEPT !.object = Nothing] \in [object : Nat, made : 0 .. MaxObjects]
    BY NameRecord DEF Types
  <2>2. name' \in [Names \union {"shm"} -> [object : Nat, made : 0 .. MaxObjects]]
    BY <1>1, <2>1 DEF Types
  <2>3. 1 \in 0 .. 4
    BY SMTT(30)
  <2>4. at' \in [Jobs -> Places]
    BY <1>1, <2>3, PlaceFacts DEF Types
  <2> QED
    BY <1>1, <2>2, <2>4 DEF Types
<1>6. Phases'
  BY <1>1, <1>2 DEF Phases
<1>7. Linkage'
  <2>1. \A q \in Jobs, k \in 1 .. 4 : HasSem(q, k)' <=> HasSem(q, k)
    BY <1>2, SMTT(30) DEF HasSem, Opening, Attached, Mapping, InSection
  <2>2. \A q \in Jobs : Label(q)' = Label(q) /\ Label(q) # "open"
    BY <1>2, <1>3 DEF Phases, Entering, Opening
  <2>3. /\ \A k \in 1 .. 4 : name'[Semaphores[k]] = name[Semaphores[k]]
        /\ \A s \in Names \union {"shm"} : name'[s].object \in {Nothing, name'[s].made}
    BY <1>4, SemIndex DEF Linkage
  <2> QED
    BY <1>1, <1>3, <1>4, <2>1, <2>2, <2>3, SMTT(30) DEF Linkage
<1>8. Section'
  <2>1. name'["sid"] = name["sid"] /\ \A q \in Jobs : Label(q)' = Label(q)
    BY <1>2, <1>4, SemNames
  <2> QED
    BY <1>1, <2>1 DEF Section
<1>9. Numbering'
  BY <1>1, <1>2, <1>4, NumberingKept
<1>10. Creation'
  BY <1>1, <1>2, <1>4, CreationKept
<1>11. Wreck'
  BY <1>1, <1>2, WreckKept DEF Mapping, Knowing, Numbered
<1> QED
  BY <1>5, <1>6, <1>7, <1>8, <1>9, <1>10, <1>11

LEMMA CloseSemInv ==
  ASSUME StartInv, NEW p \in Jobs, CloseSem(p)
  PROVE  StartInv'
<1> USE DEF StartInv
<1> PICK k \in 1 .. 4 :
      /\ Step(p, <<"leave", k>>, IF k < 4 THEN <<"leave", k + 1>> ELSE <<"out", 0>>)
      /\ name' = Unlinked(Semaphores[k])
      /\ mine' = [mine EXCEPT ![p] = IF k < 4 THEN [@ EXCEPT !.sem[Semaphores[k]] = Nothing]
                                     ELSE Closed]
      /\ UNCHANGED <<phase, seg, sidval, tmp, dead>>
  BY DEF CloseSem
<1> DEFINE s == Semaphores[k]
           place == IF k < 4 THEN <<"leave", k + 1>> ELSE <<"out", 0>>
           left == IF k < 4 THEN [mine[p] EXCEPT !.sem[s] = Nothing] ELSE Closed
<1>0. s \in Names /\ s # "shm" /\ s \in Names \union {"shm"}
  BY SemIndex
<1>1. at[p] = <<"leave", k>> /\ at' = [at EXCEPT ![p] = place]
  BY DEF Step
<1>2. place \in Places /\ place[1] = (IF k < 4 THEN "leave" ELSE "out") /\ (k < 4 => place[2] = k + 1)
  BY PlaceFacts, SMTT(30)
<1>3. /\ Label(p) = "leave" /\ at[p][2] = k
      /\ Label(p)' = (IF k < 4 THEN "leave" ELSE "out") /\ (k < 4 => at'[p][2] = k + 1)
      /\ \A q \in Jobs \ {p} : at'[q] = at[q] /\ Label(q)' = Label(q)
  BY <1>1, <1>2, SMTT(30) DEF Types, Label
<1>4. /\ name'[s].object = Nothing /\ name'[s].made = name[s].made
      /\ \A r \in Names \union {"shm"} : r # s => name'[r] = name[r]
  BY <1>0 DEF Types, Unlinked
<1>5. phase = "leave"
  BY <1>3 DEF Phases
<1>6. mine' = [mine EXCEPT ![p] = left]
  BY DEF Types
<1>7. /\ left \in [sem : [Names -> Nat], shm : Nat, id : 0 .. n_procs]
      /\ k < 4 => \A r \in Names : r # s => left.sem[r] = mine[p].sem[r]
  <2>1. CASE k < 4
    <3>1. Nothing \in Nat /\ mine[p] \in [sem : [Names -> Nat], shm : Nat, id : 0 .. n_procs]
      BY DEF Types, Nothing
    <3>2. /\ [mine[p] EXCEPT !.sem[s] = Nothing] \in [sem : [Names -> Nat], shm : Nat, id : 0 .. n_procs]
          /\ [mine[p] EXCEPT !.sem[s] = Nothing].sem = [mine[p].sem EXCEPT ![s] = Nothing]
      BY <3>1, <1>0, MineRecord
    <3>3. mine[p].sem \in [Names -> Nat]
      BY <3>1
    <3> QED
      BY <2>1, <3>2, <3>3, <1>0
  <2>2. CASE ~ (k < 4)
    BY <2>2, JobCount, SMTT(30) DEF Closed, Nothing
  <2> QED
    BY <2>1, <2>2
<1> HIDE DEF left, place, s
<1>8. Types'
  <2>1. [name[s] EXCEPT !.object = Nothing] \in [object : Nat, made : 0 .. MaxObjects]
    BY <1>0, NameRecord DEF Types
  <2>2. name' \in [Names \union {"shm"} -> [object : Nat, made : 0 .. MaxObjects]]
    BY <1>0, <2>1 DEF Types, Unlinked, s
  <2>3. mine' \in [Jobs -> [sem : [Names -> Nat], shm : Nat, id : 0 .. n_procs]]
    BY <1>6, <1>7 DEF Types
  <2> QED
    BY <1>1, <1>2, <2>2, <2>3 DEF Types
<1>9. Phases'
  BY <1>3, <1>5 DEF Phases, Mapping, Entering, Opening, InSection
<1>10. Linkage'
  <2>1. \A r \in Names \union {"shm"} : name'[r].object \in {Nothing, name'[r].made} /\ name'[r].made = name[r].made
    BY <1>0, <1>4 DEF Linkage
  <2>2. \A q \in Jobs : Label(q)' \in Attached => q # p /\ Label(q) \in Attached
    BY <1>3 DEF Attached, Mapping, InSection
  <2>3. \A q \in Jobs : Label(q)' # "open" /\ Label(q) # "open"
    BY <1>3, <1>5 DEF Phases, Entering, Opening
  <2>4. \A q \in Jobs \ {p} : mine'[q] = mine[q]
    BY <1>6 DEF Types
  <2>5. ASSUME NEW q \in Jobs, NEW j \in 1 .. 4, HasSem(q, j)'
        PROVE  mine'[q].sem[Semaphores[j]] = name'[Semaphores[j]].made /\ name'[Semaphores[j]].made > 0
    <3>1. Semaphores[j] \in Names /\ name'[Semaphores[j]].made = name[Semaphores[j]].made
      BY SemIndex, <2>1
    <3>2. CASE q # p
      <4>1. HasSem(q, j)
        BY <2>5, <3>2, <1>3 DEF HasSem
      <4> QED
        BY <3>1, <3>2, <4>1, <2>4, SMTT(30) DEF Linkage
    <3>3. CASE q = p
      <4>1. HasSem(p, j) /\ k < 4 /\ j > k
        BY <2>5, <3>3, <1>3, SMTT(30) DEF HasSem, Opening, Attached, Mapping, InSection
      <4>2. Semaphores[j] # s
        BY <4>1, SemIndex, SMTT(30) DEF s
      <4>3. mine'[p].sem[Semaphores[j]] = mine[p].sem[Semaphores[j]]
        BY <1>6, <1>7, <3>1, <4>1, <4>2 DEF Types
      <4> QED
        BY <3>1, <3>3, <4>1, <4>3 DEF Linkage
    <3> QED
      BY <3>2, <3>3
  <2>6. ASSUME NEW j \in 1 .. 4, name'[Semaphores[j]].object # Nothing
        PROVE  \E q \in Jobs : HasSem(q, j)'
    <3>1. j # k
      BY <2>6, <1>4 DEF s
    <3>2. Semaphores[j] \in Names \union {"shm"} /\ Semaphores[j] # s
      BY <3>1, SemIndex DEF s
    <3>3. PICK q \in Jobs : HasSem(q, j)
      BY <2>6, <3>2, <1>4 DEF Linkage
    <3> QED
      BY <3>1, <3>3, <1>3, SMTT(30) DEF HasSem, Opening, Attached, Mapping, InSection
  <2>7. name'["shm"].object # Nothing => \E q \in Jobs : HasShm(q)'
    <3> SUFFICES ASSUME name'["shm"].object # Nothing PROVE \E q \in Jobs : HasShm(q)'
      OBVIOUS
    <3>1. PICK q \in Jobs : HasShm(q)
      BY <1>0, <1>4 DEF Linkage
    <3>2. q # p
      BY <3>1, <1>3, SMTT(30) DEF HasShm, Attached, Mapping, InSection
    <3> QED
      BY <3>1, <3>2, <1>3 DEF HasShm
  <2>8. ASSUME NEW q \in Jobs, Label(q)' \in Attached
        PROVE  mine'[q].shm = name'["shm"].made /\ name'["shm"].made > 0
    BY <2>1, <2>2, <2>4, <2>8, SMTT(30) DEF Linkage
  <2> QED
    BY <1>5, <2>1, <2>3, <2>5, <2>6, <2>7, <2>8 DEF Linkage
<1>11. Section'
  <2>1. name'["sid"].made = name["sid"].made
    BY <1>0, <1>4, SemNames
  <2>2. \A q \in Jobs : Label(q)' \in Taken <=> Label(q) \in Taken
    BY <1>3 DEF Taken, InSection
  <2> QED
    BY <2>1, <2>2 DEF Section
<1>12. Numbering'
  <2>1. \A q \in Jobs : Label(q)' \in Attached => q # p /\ Label(q)' = Label(q)
    BY <1>3 DEF Attached, Mapping, InSection
  <2>2. HaveIds' = HaveIds /\ \A q \in HaveIds : q \in Jobs /\ q # p
    BY <1>3 DEF HaveIds, Numbered, Knowing
  <2>3. \A q \in Jobs \ {p} : mine'[q] = mine[q]
    BY <1>6 DEF Types
  <2>4. name'["shm"].made = name["shm"].made /\ NewSegment' = NewSegment
    BY <1>0, <1>4 DEF NewSegment
  <2> QED
    BY <1>5, <2>1, <2>2, <2>3, <2>4, SMTT(30) DEF Numbering, Attached, Mapping, InSection
<1>13. Creation'
  <2>1. Label(p) \notin Mapping /\ Label(p)' \notin Mapping \union Attached \union Knowing \union {"store"}
    BY <1>3 DEF Attached, Mapping, InSection, Knowing, Numbered
  <2> QED
    BY <1>0, <1>3, <1>4, <2>1, CreationKept
<1>14. Wreck'
  <2>1. Label(p) \notin Mapping \union {"wait"} /\ Label(p)' \notin Knowing /\ Label(p) # "dead" /\ Label(p)' # "dead"
    BY <1>3 DEF Mapping, Knowing, Numbered
  <2> QED
    BY <1>3, <2>1, WreckKept
<1> QED
  BY <1>8, <1>9, <1>10, <1>11, <1>12, <1>13, <1>14

------------------------------------------------------------------------------
LEMMA StartStep ==
  ASSUME Together, StartInv, [StartNext]_startvars
  PROVE  StartInv'
<1>1. CASE UNCHANGED startvars
  <2>1. /\ UNCHANGED <<name, seg, sidval, at, mine, phase, tmp, dead>>
        /\ \A p \in Jobs : Label(p)' = Label(p)
    BY <1>1 DEF startvars, Label
  <2>7. Types'
    BY <2>1 DEF StartInv, Types
  <2>2. Phases' /\ Section'
    BY <2>1 DEF StartInv, Phases, Section
  <2>3. Linkage'
    BY <2>1 DEF StartInv, Linkage, HasSem, HasShm
  <2>4. Numbering'
    BY <2>1, NumberingKept DEF StartInv
  <2>5. HaveIds' = HaveIds /\ Creation'
    BY <2>1 DEF StartInv, Creation, HaveIds
  <2>6. Wreck'
    BY <2>1, <2>5 DEF StartInv, Wreck
  <2> QED
    BY <2>2, <2>3, <2>4, <2>5, <2>6, <2>7 DEF StartInv
<1>2. CASE StartNext
  <2>1. PICK p \in Jobs : Starting(p) \/ Leaving(p) \/ SbmaInit(p) \/ SbmaDestroy(p)
    BY <1>2 DEF StartNext
  <2>2. CASE Starting(p)
    BY <2>2, OpenSemInv, ShmCreateInv, ShmExistsInv, ShmOpenInv, TruncateInv, WriteMaxInv, SidWaitInv, LoadSizedInv,
      LoadDiesInv, StoreIdInv, SidPostInv, JoinInv DEF Starting
  <2>3. CASE Leaving(p)
    BY <2>3, ShmUnlinkInv, CloseSemInv DEF Leaving
  <2> QED
    BY <2>1, <2>2, <2>3, SbmaInitInv, SbmaDestroyInv
<1> QED
  BY <1>1, <1>2

\* What the invariant says of the processes that have joined.
LEMMA StartConsequences ==
  ASSUME StartInv
  PROVE  RunSound /\ AllOrNone
<1> USE DEF StartInv
<1>1. AllOrNone
  <2> SUFFICES ASSUME NEW p \in Jobs, dead[p] # "no"
               PROVE  /\ dead[p] = "SIGBUS"
                      /\ \A q \in Jobs \ {p} : dead[q] = "no"
                      /\ \A q \in Jobs : Label(q) \notin {"load", "store", "post", "pid", "in", "leave"}
    BY DEF AllOrNone, Label
  <2>1. Label(p) = "dead" /\ Label(p) \in Taken
    BY DEF Wreck, Taken
  <2>2. \A q \in Jobs : Label(q) \in Taken => q = p
    BY <2>1 DEF Section
  <2>3. \A q \in Jobs : Label(q) \notin Knowing
    BY <2>1 DEF Wreck, HaveIds
  <2>4. \A q \in Jobs : Label(q) # "leave"
    BY <2>1 DEF Wreck, Phases
  <2> QED
    BY <2>1, <2>2, <2>3, <2>4 DEF Types, Wreck, Taken, InSection, Knowing, Numbered
<1>2. StartTypeOK
  <2>1. name \in [Names \union {"shm"} -> [object : {Nothing} \union Objects, made : 0 .. MaxObjects]]
    <3>1. \A s \in Names \union {"shm"} : name[s].object \in {Nothing} \union Objects
      BY StartupAssumption, SMTT(30) DEF Types, Linkage, Objects, Nothing
    <3> QED
      BY <3>1 DEF Types
  <2>2. sidval \in [Objects -> 0 .. 1 + n_procs]
    <3>1. \A o \in Objects : sidval[o] \in 0 .. 1 + n_procs
      BY JobCount, SMTT(30) DEF Section
    <3> QED
      BY <3>1 DEF Types
  <2> QED
    BY <2>1, <2>2 DEF StartTypeOK, Types
<1>3. \A p \in Joined : p \in Jobs /\ Label(p) = "in" /\ Label(p) \in Attached /\ Label(p) \notin Mapping
  BY SMTT(30) DEF Joined, Label, Attached, Mapping
<1>4. \A p \in Joined : mine[p].shm = name["shm"].made
  BY <1>3, SegmentHere
<1>5. OneRun
  <2> SUFFICES ASSUME NEW p \in Joined, NEW q \in Joined
               PROVE  /\ mine[p].sem = mine[q].sem /\ mine[p].shm = mine[q].shm
                      /\ \/ seg[mine[p].shm].budget
                         \/ \E c \in Jobs : at[c] = <<"write", 0>> /\ mine[c].shm = mine[p].shm
    BY DEF OneRun
  <2>1. \A s \in Names : mine[p].sem[s] = mine[q].sem[s]
    <3> SUFFICES ASSUME NEW s \in Names PROVE mine[p].sem[s] = mine[q].sem[s]
      OBVIOUS
    <3>1. PICK k \in 1 .. 4 : s = Semaphores[k]
      BY DEF Names
    <3> QED
      BY <1>3, <3>1 DEF HasSem, Linkage
  <2>2. mine[p].sem \in [Names -> Nat] /\ mine[q].sem \in [Names -> Nat]
    BY <1>3 DEF Types
  <2>3. mine[p].sem = mine[q].sem
    BY <2>1, <2>2, SMTT(30)
  <2>4. ASSUME ~ seg[mine[p].shm].budget
        PROVE  \E c \in Jobs : at[c] = <<"write", 0>> /\ mine[c].shm = mine[p].shm
    <3>1. PICK c \in Jobs : Label(c) \in Mapping
      BY <1>3, <1>4, <2>4 DEF Creation
    <3>2. Label(c) = "write" /\ Label(c) \in Attached
      BY <1>3, <3>1 DEF Creation, Mapping, Attached, Knowing
    <3>3. at[c] = <<"write", 0>>
      BY <3>2, SMTT(30) DEF Types, Places, Label, Opening, Attached, Mapping, InSection
    <3> QED
      BY <1>4, <3>2, <3>3, SegmentHere
  <2> QED
    BY <2>3, <2>4, <1>4
<1>6. OwnIds
  BY <1>3, <1>4 DEF OwnIds, Numbering, HaveIds, Knowing
<1>7. NoNamesLeft
  <2> SUFFICES ASSUME Out = Jobs, NEW s \in DOMAIN name PROVE name[s].object = Nothing
    BY DEF NoNamesLeft
  <2>1. \A p \in Jobs : at[p] = <<"out", 0>> /\ Label(p) = "out"
    BY SMTT(30) DEF Out, Label
  <2>2. /\ \A p \in Jobs, k \in 1 .. 4 : ~ HasSem(p, k)
        /\ \A p \in Jobs : ~ HasShm(p)
    BY <2>1, SMTT(30) DEF HasSem, HasShm, Opening, Attached, Mapping, InSection
  <2>3. s = "shm" \/ \E k \in 1 .. 4 : s = Semaphores[k]
    BY DEF Types, Names
  <2> QED
    BY <2>2, <2>3 DEF Linkage
<1> QED
  BY <1>1, <1>2, <1>5, <1>6, <1>7 DEF RunSound

LEMMA StartInvariant ==
  ASSUME Together
  PROVE  StartSpec => []StartInv
<1>1. StartInv /\ [StartNext]_startvars => StartInv'
  BY StartStep
<1> QED
  BY <1>1, StartInitInv, PTL DEF StartSpec

\* Whatever the number of processes and of runs, if the processes start and stop
\* together then ipc_init gives all of them the same semaphores and the same
\* segment, whose budget is set or about to be set by its creator, and each an id
\* of its own, with its pid in the table under it; and ipc_destroy leaves no name
\* behind.
THEOREM RunIsSound ==
  ASSUME Together
  PROVE  StartSpec => []RunSound
<1>1. StartInv => RunSound
  BY StartConsequences
<1> QED
  BY <1>1, StartInvariant, PTL

\* Of processes that start together either none dies in ipc_init, or exactly one
\* does, of SIGBUS on a segment its creator has not given its size, and then none
\* joins: no process is ever in a run with a member missing.
THEOREM AllJoinOrNone ==
  ASSUME Together
  PROVE  StartSpec => []AllOrNone
<1>1. StartInv => AllOrNone
  BY StartConsequences
<1> QED
  BY <1>1, StartInvariant, PTL

------------------------------------------------------------------------------
(***************************************************************************)
(* The pages of an allocation.                                             *)
(***************************************************************************)
Ates == [n_pages : 0 .. MaxPages, l_pages : Nat, c_pages : Nat,
         d_pages : Nat, flags : [PageNos -> SUBSET Bits],
         prot : [PageNos -> {"none", "read", "rw"}],
         mem : [PageNos -> Vals], file : [PageNos -> Vals]]

\* Every counter is the number of its flags.
Counted(a) ==
  /\ a.l_pages = Cardinality(Resident(a))
  /\ a.c_pages = Cardinality(Charged(a))
  /\ a.d_pages = Cardinality(DirtyPages(a))

\* The flags and the protection of a page agree.  A page beyond the last has
\* no flags: sbma_realloc will take them over.
Agree(a) ==
  /\ \A x \in PagesOf(a) :
       /\ "CHRGD" \in a.flags[x] <=> "RSDNT" \in a.flags[x]
       /\ "DIRTY" \in a.flags[x] => "RSDNT" \notin a.flags[x]
       /\ a.prot[x] # "none" => "RSDNT" \notin a.flags[x]
       /\ a.prot[x] = "rw" <=> "DIRTY" \in a.flags[x]
  /\ \A x \in PageNos \ PagesOf(a) : a.flags[x] = {}

Wf(a) == a \in Ates /\ Counted(a) /\ Agree(a)

--------------------------------------------------------------------------
(***************************************************************************)
(* Sets of pages.                                                          *)
(***************************************************************************)

\* The pages of an allocation are finitely many, and so are any of them.
LEMMA PagesFinite ==
  ASSUME NEW a \in Ates
  PROVE  /\ PagesOf(a) \subseteq PageNos
         /\ IsFiniteSet(PagesOf(a))
         /\ Cardinality(PagesOf(a)) = a.n_pages
         /\ \A S \in SUBSET PagesOf(a) : IsFiniteSet(S) /\ Cardinality(S) \in Nat
<1>1. a.n_pages \in 0 .. MaxPages /\ MaxPages \in Nat
  BY PagesAssumption DEF Ates
<1>2. PagesOf(a) \subseteq PageNos
  BY <1>1, SMTT(30) DEF PagesOf, PageNos
<1>3. IsFiniteSet(PagesOf(a)) /\ Cardinality(PagesOf(a)) = a.n_pages
  <2>1. 0 \in Int /\ a.n_pages - 1 \in Int
    BY <1>1, SMTT(30)
  <2>2. /\ IsFiniteSet(0 .. a.n_pages - 1)
        /\ Cardinality(0 .. a.n_pages - 1) =
             IF 0 > a.n_pages - 1 THEN 0 ELSE a.n_pages - 1 - 0 + 1
    BY <2>1, FS_Interval
  <2> QED
    BY <1>1, <2>2, SMTT(30) DEF PagesOf
<1>4. ASSUME NEW S \in SUBSET PagesOf(a)
      PROVE  IsFiniteSet(S) /\ Cardinality(S) \in Nat
  <2>1. IsFiniteSet(S)
    BY <1>3, FS_Subset
  <2> QED
    BY <2>1, FS_CardinalityType
<1> QED
  BY <1>2, <1>3, <1>4

\* Pages that come to a set are added to its number, pages that leave it are
\* taken from it.
LEMMA CountJoin ==
  ASSUME NEW a \in Ates, NEW S \in SUBSET PagesOf(a), NEW T \in SUBSET PagesOf(a),
         S \cap T = {}
  PROVE  Cardinality(S \cup T) = Cardinality(S) + Cardinality(T)
<1>1. IsFiniteSet(S) /\ IsFiniteSet(T) /\ Cardinality(S) \in Nat /\ Cardinality(T) \in Nat
  BY PagesFinite
<1>2. Cardinality(S \cup T) = Cardinality(S) + Cardinality(T) - Cardinality(S \cap T)
  BY <1>1, FS_Union
<1>3. Cardinality(S \cap T) = 0
  BY FS_EmptySet
<1> QED
  BY <1>1, <1>2, <1>3, SMTT(30)

LEMMA CountDrop ==
  ASSUME NEW a \in Ates, NEW S \in SUBSET PagesOf(a), NEW T \in SUBSET S
  PROVE  /\ Cardinality(S \ T) = Cardinality(S) - Cardinality(T)
         /\ Cardinality(T) <= Cardinality(S)
<1>1. S \ T \in SUBSET PagesOf(a) /\ T \in SUBSET PagesOf(a)
      /\ (S \ T) \cap T = {} /\ (S \ T) \cup T = S
  OBVIOUS
<1>2. Cardinality(S) = Cardinality(S \ T) + Cardinality(T)
  BY <1>1, CountJoin, SMTT(30)
<1> QED
  BY <1>1, <1>2, PagesFinite, SMTT(30)

\* The sets the counters count.
LEMMA CountedSets ==
  ASSUME NEW a \in Ates
  PROVE  /\ Resident(a) \in SUBSET PagesOf(a)
         /\ Charged(a) \in SUBSET PagesOf(a)
         /\ DirtyPages(a) \in SUBSET PagesOf(a)
  BY DEF Resident, Charged, DirtyPages

\* Where the residents are all pages, or none.
LEMMA AllResident ==
  ASSUME NEW a, Wf(a), a.l_pages = a.n_pages
  PROVE  Resident(a) = PagesOf(a)
<1>1. Cardinality(Resident(a)) = Cardinality(PagesOf(a))
  BY PagesFinite DEF Wf, Counted
<1> QED
  BY <1>1, PagesFinite, CountedSets, FS_Subset DEF Wf

LEMMA NoneResident ==
  ASSUME NEW a, Wf(a), a.l_pages = 0
  PROVE  Resident(a) = {}
<1>1. IsFiniteSet(Resident(a)) /\ Cardinality(Resident(a)) = 0
  BY PagesFinite, CountedSets DEF Wf, Counted
<1> QED
  BY <1>1, FS_EmptySet

\* A page is charged exactly if it is resident, and a dirty one is both.
LEMMA ChargedResident ==
  ASSUME NEW a, Wf(a)
  PROVE  Charged(a) = Resident(a) /\ DirtyPages(a) \subseteq Resident(a)
  BY DEF Wf, Agree, Charged, Resident, DirtyPages

--------------------------------------------------------------------------
(***************************************************************************)
(* vmm_swap_i, vmm_swap_o and vmm_swap_x keep the counters and the flags   *)
(* in step, and none of their ASSERTs fails.                               *)
(***************************************************************************)

Absent(a, R) == {x \in R : "RSDNT" \in a.flags[x]}

LEMMA SwapIFields ==
  ASSUME NEW a, Wf(a), NEW R \in SUBSET PagesOf(a), a.l_pages # a.n_pages
  PROVE  LET b == vmm_swap_i(a, R)
             in == Absent(a, R)
         IN  /\ b \in Ates
             /\ b.n_pages = a.n_pages
             /\ b.l_pages = a.l_pages + Cardinality(in)
             /\ b.c_pages = a.c_pages + Cardinality(in)
             /\ b.d_pages = a.d_pages
             /\ b.file = a.file
             /\ \A x \in PageNos :
                  /\ b.flags[x] = IF x \in in THEN a.flags[x] \ Evicted ELSE a.flags[x]
                  /\ b.mem[x] = IF x \in in /\ "ZFILL" \in a.flags[x]
                                THEN a.file[x] ELSE a.mem[x]
                  /\ \/ b.prot[x] = a.prot[x]
                     \/ x \in R /\ b.prot[x] = IF "DIRTY" \in a.flags[x] THEN "rw" ELSE "read"
<1> DEFINE in == Absent(a, R)
           load == {x \in in : "ZFILL" \in a.flags[x] /\ "DIRTY" \notin a.flags[x]}
           l == a.l_pages + Cardinality(in)
           c == a.c_pages + Cardinality(in)
           mem == Override(a.mem, [x \in load |-> a.file[x]])
           flags == Override(a.flags, [x \in in |-> a.flags[x] \ Evicted])
           prot == Override(a.prot,
                     IF opts.ghost THEN [x \in load |-> "read"]
                     ELSE [x \in R |-> IF "DIRTY" \in a.flags[x] THEN "rw" ELSE "read"])
           b == vmm_swap_i(a, R)
<1>1. a \in Ates /\ R \subseteq PageNos
  BY PagesFinite DEF Wf
<1>2. {x \in in : "CHRGD" \in a.flags[x]} = in /\ \A x \in in : "DIRTY" \notin a.flags[x]
  BY DEF Wf, Agree, Absent
<1>3. in \in SUBSET PagesOf(a) /\ Cardinality(in) \in Nat
  BY <1>1, PagesFinite DEF Absent
<1>4. b = [a EXCEPT !.mem = mem, !.l_pages = l, !.c_pages = c, !.flags = flags, !.prot = prot]
  BY <1>2 DEF vmm_swap_i, Absent
<1>5. l \in Nat /\ c \in Nat
  BY <1>1, <1>3, SMTT(30) DEF Ates
<1>6. /\ mem \in [PageNos -> Vals]
      /\ \A x \in PageNos : mem[x] = IF x \in load THEN a.file[x] ELSE a.mem[x]
  BY <1>1 DEF Ates, Override
<1>7. /\ flags \in [PageNos -> SUBSET Bits]
      /\ \A x \in PageNos : flags[x] = IF x \in in THEN a.flags[x] \ Evicted ELSE a.flags[x]
  BY <1>1 DEF Ates, Override
<1>8. /\ prot \in [PageNos -> {"none", "read", "rw"}]
      /\ \A x \in PageNos :
           \/ prot[x] = a.prot[x]
           \/ x \in R /\ prot[x] = IF "DIRTY" \in a.flags[x] THEN "rw" ELSE "read"
  <2>1. CASE opts.ghost
    BY <1>1, <1>2, <2>1 DEF Ates, Override, Absent
  <2>2. CASE ~ opts.ghost
    BY <1>1, <2>2 DEF Ates, Override
  <2> QED
    BY <2>1, <2>2
<1>9. \A x \in PageNos : x \in load <=> x \in in /\ "ZFILL" \in a.flags[x]
  BY <1>2
<1> HIDE DEF in, load, l, c, mem, flags, prot
<1>10. /\ b \in Ates /\ b.n_pages = a.n_pages /\ b.l_pages = l /\ b.c_pages = c
       /\ b.d_pages = a.d_pages /\ b.file = a.file /\ b.mem = mem /\ b.flags = flags
       /\ b.prot = prot
  BY <1>1, <1>4, <1>5, <1>6, <1>7, <1>8 DEF Ates
<1> QED
  BY <1>6, <1>7, <1>8, <1>9, <1>10 DEF in, l, c

\* vmm_swap_i: the pages become resident, and the charge is what
\* sbma_mtouch_probe announced.
LEMMA SwapIWf ==
  ASSUME NEW a, Wf(a), NEW R \in SUBSET PagesOf(a)
  PROVE  /\ Wf(vmm_swap_i(a, R))
         /\ vmm_swap_i_ok(a, R)
         /\ vmm_swap_i(a, R).n_pages = a.n_pages
         /\ vmm_swap_i(a, R).c_pages = a.c_pages + Cardinality(Absent(a, R))
         /\ vmm_swap_i(a, R).d_pages = a.d_pages
<1> DEFINE b == vmm_swap_i(a, R)
           in == Absent(a, R)
<1>1. a \in Ates /\ in \in SUBSET PagesOf(a) /\ Cardinality(in) \in Nat
  BY PagesFinite DEF Wf, Absent
<1>2. Charged(a) = Resident(a) /\ a.c_pages = a.l_pages
  BY ChargedResident DEF Wf, Counted
<1>3. CASE a.l_pages = a.n_pages
  <2>1. in = {}
    BY <1>3, AllResident DEF Resident, Absent
  <2>2. Cardinality(in) = 0
    BY <2>1, FS_EmptySet
  <2> QED
    BY <1>1, <1>2, <1>3, <2>2, SMTT(30) DEF vmm_swap_i, vmm_swap_i_ok, Wf, Ates
<1>4. CASE a.l_pages # a.n_pages
  <2>1. /\ b \in Ates
        /\ b.n_pages = a.n_pages
        /\ b.l_pages = a.l_pages + Cardinality(in)
        /\ b.c_pages = a.c_pages + Cardinality(in)
        /\ b.d_pages = a.d_pages
        /\ \A x \in PageNos :
             /\ b.flags[x] = IF x \in in THEN a.flags[x] \ Evicted ELSE a.flags[x]
             /\ \/ b.prot[x] = a.prot[x]
                \/ x \in R /\ b.prot[x] = IF "DIRTY" \in a.flags[x] THEN "rw" ELSE "read"
    BY <1>4, SwapIFields, SMTT(30)
  <2> HIDE DEF b
  <2>2. PagesOf(b) = PagesOf(a) /\ PagesOf(a) \subseteq PageNos
    BY <1>1, <2>1, PagesFinite DEF PagesOf
  <2>3. Resident(b) = Resident(a) \cup in /\ Resident(a) \cap in = {}
    BY <2>1, <2>2 DEF Resident, Absent, Evicted
  <2>4. Charged(b) = Resident(b)
    BY <1>2, <2>1, <2>2, <2>3 DEF Charged, Resident, Evicted, Absent
  <2>5. DirtyPages(b) = DirtyPages(a)
    BY <2>1, <2>2 DEF DirtyPages, Evicted
  <2>6. Cardinality(Resident(b)) = Cardinality(Resident(a)) + Cardinality(in)
    BY <1>1, <2>3, CountJoin, CountedSets, SMTT(30)
  <2>7. Counted(b)
    BY <1>2, <2>1, <2>4, <2>5, <2>6 DEF Wf, Counted
  <2>8. Agree(b)
    BY <2>1, <2>2 DEF Wf, Agree, Absent, Evicted
  <2>9. b.l_pages <= a.n_pages
    <3>1. Cardinality(Resident(b)) <= Cardinality(PagesOf(b))
      BY <2>1, PagesFinite, CountedSets, FS_Subset
    <3> QED
      BY <2>1, <2>7, <3>1, PagesFinite DEF Counted
  <2>10. vmm_swap_i_ok(a, R)
    <3>1. {x \in in : "CHRGD" \in a.flags[x]} = in
      BY DEF Wf, Agree, Absent
    <3>2. \A x \in R \ in : "CHRGD" \notin a.flags[x]
      BY DEF Wf, Agree, Absent
    <3> QED
      BY <1>2, <1>4, <2>1, <2>9, <3>1, <3>2 DEF vmm_swap_i_ok, Absent
  <2> QED
    BY <2>1, <2>7, <2>8, <2>10 DEF Wf, b
<1> QED
  BY <1>3, <1>4

\* vmm_swap_o: what leaves memory leaves the counters, each page once.
LEMMA SwapOFields ==
  ASSUME NEW a, Wf(a), NEW R \in SUBSET PagesOf(a), a.l_pages # 0
  PROVE  LET b == vmm_swap_o(a, R)
             D == R \cap DirtyPages(a)
             gone == R \cap Resident(a)
         IN  /\ b \in Ates
             /\ b.n_pages = a.n_pages
             /\ b.l_pages = a.l_pages - Cardinality(gone)
             /\ b.c_pages = a.c_pages - Cardinality(gone)
             /\ b.d_pages = a.d_pages - Cardinality(D)
             /\ vmm_swap_o_ok(a, R)
             /\ \A x \in PageNos :
                  /\ b.flags[x] = IF x \notin R THEN a.flags[x]
                                  ELSE Evicted \cup (IF x \in D THEN {"ZFILL"}
                                                     ELSE a.flags[x] \cap {"ZFILL"})
                  /\ b.prot[x] = IF x \in R THEN "none" ELSE a.prot[x]
                  /\ b.mem[x] = IF x \in R THEN 0 ELSE a.mem[x]
                  /\ b.file[x] = IF x \in vmm_write(D) THEN a.mem[x] ELSE a.file[x]
<1> DEFINE D == {x \in R : "DIRTY" \in a.flags[x]}
           C == {x \in R \ D : "CHRGD" \notin a.flags[x]}
           gone == R \cap Resident(a)
           l == a.l_pages - Cardinality(gone)
           c == a.c_pages - Cardinality(gone)
           d == a.d_pages - Cardinality(D)
           file == Override(a.file, [x \in vmm_write(D) |-> a.mem[x]])
           flags == Override(a.flags, [x \in R |->
                      Evicted \cup (IF x \in D THEN {"ZFILL"} ELSE a.flags[x] \cap {"ZFILL"})])
           prot == Override(a.prot, [x \in R |-> "none"])
           mem == Override(a.mem, [x \in R |-> 0])
           b == vmm_swap_o(a, R)
<1>1. a \in Ates /\ R \subseteq PageNos /\ 0 \in Vals
  BY PagesFinite, PagesAssumption DEF Wf
<1>2. /\ D = R \cap DirtyPages(a) /\ D \subseteq gone
      /\ C = gone \ D /\ {x \in C : "RSDNT" \notin a.flags[x]} = C
      /\ \A x \in D : a.flags[x] \cap Evicted = {}
  BY DEF Wf, Agree, DirtyPages, Resident, Evicted
<1>3. /\ gone \in SUBSET Resident(a) /\ Resident(a) \in SUBSET PagesOf(a)
      /\ D \in SUBSET DirtyPages(a) /\ DirtyPages(a) \in SUBSET PagesOf(a)
      /\ D \in SUBSET PagesOf(a) /\ gone \in SUBSET PagesOf(a) /\ C \in SUBSET PagesOf(a)
  BY <1>1, <1>2, CountedSets
<1>4. /\ Cardinality(D) \in Nat /\ Cardinality(gone) \in Nat /\ Cardinality(C) \in Nat
      /\ Cardinality(gone) = Cardinality(D) + Cardinality(C)
  <2>1. Cardinality(gone \ D) = Cardinality(gone) - Cardinality(D)
    BY <1>1, <1>2, <1>3, CountDrop
  <2> HIDE DEF D, C, gone
  <2> QED
    BY <1>1, <1>2, <1>3, <2>1, PagesFinite, SMTT(30)
<1>5. /\ a.l_pages = Cardinality(Resident(a)) /\ a.c_pages = a.l_pages
      /\ a.d_pages = Cardinality(DirtyPages(a))
      /\ a.l_pages \in Nat /\ a.d_pages \in Nat
  BY <1>1, ChargedResident, SMTT(30) DEF Wf, Counted, Ates
<1>6. Cardinality(gone) <= a.l_pages /\ Cardinality(D) <= a.d_pages
  <2> HIDE DEF D, C, gone
  <2> QED
    BY <1>1, <1>3, <1>5, CountDrop
<1>7. l \in Nat /\ c \in Nat /\ d \in Nat
  BY <1>4, <1>5, <1>6, SMTT(30)
<1>8. b = [a EXCEPT !.file = file, !.l_pages = @ - Cardinality(D) - Cardinality(C),
                    !.c_pages = @ - Cardinality(D) - Cardinality(C), !.d_pages = d,
                    !.flags = flags, !.prot = prot, !.mem = mem]
  BY <1>2 DEF vmm_swap_o
<1>9. vmm_swap_o_ok(a, R)
  BY <1>2, <1>4, <1>5, <1>6 DEF vmm_swap_o_ok
<1>10. vmm_write(D) \subseteq D
  BY DEF vmm_write
<1>11. /\ file \in [PageNos -> Vals]
       /\ \A x \in PageNos : file[x] = IF x \in vmm_write(D) THEN a.mem[x] ELSE a.file[x]
  BY <1>1 DEF Ates, Override
<1>12. /\ flags \in [PageNos -> SUBSET Bits]
       /\ \A x \in PageNos :
            flags[x] = IF x \notin R THEN a.flags[x]
                       ELSE Evicted \cup (IF x \in D THEN {"ZFILL"} ELSE a.flags[x] \cap {"ZFILL"})
  BY <1>1 DEF Ates, Override, Bits, Evicted
<1>13. /\ prot \in [PageNos -> {"none", "read", "rw"}]
       /\ \A x \in PageNos : prot[x] = IF x \in R THEN "none" ELSE a.prot[x]
  BY <1>1 DEF Ates, Override
<1>14. /\ mem \in [PageNos -> Vals]
       /\ \A x \in PageNos : mem[x] = IF x \in R THEN 0 ELSE a.mem[x]
  BY <1>1 DEF Ates, Override
<1>15. l = a.l_pages - Cardinality(D) - Cardinality(C) /\ c = a.c_pages - Cardinality(D) - Cardinality(C)
  BY <1>4, <1>5, SMTT(30)
<1> HIDE DEF D, C, gone, l, c, d, file, flags, prot, mem
<1>16. b = [a EXCEPT !.file = file, !.l_pages = l, !.c_pages = c, !.d_pages = d,
                     !.flags = flags, !.prot = prot, !.mem = mem]
  BY <1>8, <1>15
<1>17. /\ b \in Ates /\ b.n_pages = a.n_pages /\ b.l_pages = l /\ b.c_pages = c
       /\ b.d_pages = d /\ b.file = file /\ b.mem = mem /\ b.flags = flags /\ b.prot = prot
  BY <1>1, <1>16, <1>7, <1>11, <1>12, <1>13, <1>14 DEF Ates
<1> QED
  BY <1>2, <1>9, <1>11, <1>12, <1>13, <1>14, <1>17 DEF l, c, d, gone

LEMMA SwapOWf ==
  ASSUME NEW a, Wf(a), NEW R \in SUBSET PagesOf(a)
  PROVE  LET b == vmm_swap_o(a, R)
         IN  /\ Wf(b)
             /\ vmm_swap_o_ok(a, R)
             /\ b.n_pages = a.n_pages
             /\ b.c_pages = a.c_pages - Cardinality(R \cap Charged(a))
             /\ b.d_pages = a.d_pages - Cardinality(R \cap DirtyPages(a))
             /\ Resident(b) = Resident(a) \ R
<1> DEFINE b == vmm_swap_o(a, R)
           D == R \cap DirtyPages(a)
           gone == R \cap Resident(a)
<1>1. a \in Ates /\ Charged(a) = Resident(a) /\ DirtyPages(a) \subseteq Resident(a)
  BY ChargedResident DEF Wf
<1>2. CASE a.l_pages = 0
  <2>1. Resident(a) = {} /\ b = a /\ vmm_swap_o_ok(a, R)
    BY <1>2, NoneResident DEF vmm_swap_o, vmm_swap_o_ok
  <2>2. Cardinality(R \cap Charged(a)) = 0 /\ Cardinality(R \cap DirtyPages(a)) = 0
    <3>1. R \cap Charged(a) = {} /\ R \cap DirtyPages(a) = {}
      BY <1>1, <2>1
    <3> QED
      BY <3>1, FS_EmptySet
  <2> QED
    BY <1>1, <2>1, <2>2, SMTT(30) DEF Wf, Ates
<1>3. CASE a.l_pages # 0
  <2>1. /\ b \in Ates
        /\ b.n_pages = a.n_pages
        /\ b.l_pages = a.l_pages - Cardinality(gone)
        /\ b.c_pages = a.c_pages - Cardinality(gone)
        /\ b.d_pages = a.d_pages - Cardinality(D)
        /\ vmm_swap_o_ok(a, R)
        /\ \A x \in PageNos :
             /\ b.flags[x] = IF x \notin R THEN a.flags[x]
                             ELSE Evicted \cup (IF x \in D THEN {"ZFILL"}
                                                ELSE a.flags[x] \cap {"ZFILL"})
             /\ b.prot[x] = IF x \in R THEN "none" ELSE a.prot[x]
             /\ b.mem[x] = IF x \in R THEN 0 ELSE a.mem[x]
             /\ b.file[x] = IF x \in vmm_write(D) THEN a.mem[x] ELSE a.file[x]
    BY <1>3, SwapOFields
  <2> HIDE DEF b
  <2>2. PagesOf(b) = PagesOf(a) /\ PagesOf(a) \subseteq PageNos
    BY <1>1, <2>1, PagesFinite DEF PagesOf
  <2>0. ASSUME NEW x \in PageNos
        PROVE  /\ x \notin R => b.flags[x] = a.flags[x] /\ b.prot[x] = a.prot[x]
               /\ x \in R => /\ "RSDNT" \in b.flags[x] /\ "CHRGD" \in b.flags[x]
                             /\ "DIRTY" \notin b.flags[x] /\ b.prot[x] = "none"
    <3>1. CASE x \in R
      <4> DEFINE kept == IF x \in D THEN {"ZFILL"} ELSE a.flags[x] \cap {"ZFILL"}
      <4>1. b.flags[x] = Evicted \cup kept /\ b.prot[x] = "none"
        BY <2>1, <3>1
      <4>2. kept \subseteq {"ZFILL"}
        OBVIOUS
      <4> HIDE DEF kept
      <4> QED
        BY <3>1, <4>1, <4>2 DEF Evicted
    <3>2. CASE x \notin R
      BY <2>1, <3>2
    <3> QED
      BY <3>1, <3>2
  <2>3. Resident(b) = Resident(a) \ gone /\ Resident(b) = Resident(a) \ R
    BY <2>0, <2>2 DEF Resident
  <2>4. Charged(b) = Resident(b)
    BY <1>1, <2>0, <2>2, <2>3 DEF Charged, Resident
  <2>5. DirtyPages(b) = DirtyPages(a) \ D
    BY <2>0, <2>2 DEF DirtyPages
  <2>6. /\ Cardinality(Resident(b)) = Cardinality(Resident(a)) - Cardinality(gone)
        /\ Cardinality(DirtyPages(b)) = Cardinality(DirtyPages(a)) - Cardinality(D)
    BY <1>1, <2>3, <2>5, CountDrop, CountedSets
  <2>7. Counted(b)
    BY <1>1, <2>1, <2>4, <2>6 DEF Wf, Counted
  <2>8. Agree(b)
    BY <2>0, <2>2 DEF Wf, Agree
  <2> QED
    BY <1>1, <2>1, <2>3, <2>7, <2>8 DEF Wf, b
<1> QED
  BY <1>2, <1>3

\* vmm_swap_x: the pages are clean again and their old data is forgotten.
LEMMA SwapXFields ==
  ASSUME NEW a, Wf(a), NEW R \in SUBSET PagesOf(a)
  PROVE  LET b == vmm_swap_x(a, R)
             D == R \cap DirtyPages(a)
         IN  /\ b \in Ates
             /\ vmm_swap_x_ok(a, R)
             /\ b.n_pages = a.n_pages
             /\ b.l_pages = a.l_pages
             /\ b.c_pages = a.c_pages
             /\ b.d_pages = a.d_pages - Cardinality(D)
             /\ b.mem = a.mem
             /\ b.file = a.file
             /\ \A x \in PageNos :
                  /\ b.flags[x] = IF x \in R THEN a.flags[x] \ {"DIRTY", "ZFILL"} ELSE a.flags[x]
                  /\ b.prot[x] = IF x \in D THEN "read" ELSE a.prot[x]
<1> DEFINE D == {x \in R : "DIRTY" \in a.flags[x]}
           d == a.d_pages - Cardinality(D)
           flags == Override(a.flags, [x \in R |-> a.flags[x] \ {"DIRTY", "ZFILL"}])
           prot == Override(a.prot, [x \in D |-> "read"])
           b == vmm_swap_x(a, R)
<1>1. a \in Ates /\ R \subseteq PageNos
  BY PagesFinite DEF Wf
<1>2. D = R \cap DirtyPages(a) /\ D \in SUBSET DirtyPages(a)
      /\ DirtyPages(a) \in SUBSET PagesOf(a) /\ D \in SUBSET PagesOf(a)
  BY DEF DirtyPages
<1>3. /\ Cardinality(D) \in Nat /\ Cardinality(D) <= a.d_pages /\ a.d_pages \in Nat
  <2> HIDE DEF D
  <2> QED
    <3>1. a.d_pages = Cardinality(DirtyPages(a)) /\ a.d_pages \in Nat
      BY <1>1 DEF Wf, Counted, Ates
    <3>2. Cardinality(D) \in Nat
      BY <1>1, <1>2, PagesFinite
    <3>3. Cardinality(D) <= Cardinality(DirtyPages(a))
      BY <1>1, <1>2, CountDrop
    <3> QED
      BY <3>1, <3>2, <3>3
<1>4. d \in Nat /\ vmm_swap_x_ok(a, R)
  BY <1>3, SMTT(30) DEF vmm_swap_x_ok
<1>5. b = [a EXCEPT !.d_pages = d, !.flags = flags, !.prot = prot]
  BY DEF vmm_swap_x
<1>6. /\ flags \in [PageNos -> SUBSET Bits]
      /\ \A x \in PageNos :
           flags[x] = IF x \in R THEN a.flags[x] \ {"DIRTY", "ZFILL"} ELSE a.flags[x]
  BY <1>1 DEF Ates, Override
<1>7. /\ prot \in [PageNos -> {"none", "read", "rw"}]
      /\ \A x \in PageNos : prot[x] = IF x \in D THEN "read" ELSE a.prot[x]
  BY <1>1 DEF Ates, Override
<1> HIDE DEF D, d, flags, prot
<1>8. /\ b \in Ates /\ b.n_pages = a.n_pages /\ b.l_pages = a.l_pages
      /\ b.c_pages = a.c_pages /\ b.d_pages = d /\ b.file = a.file /\ b.mem = a.mem
      /\ b.flags = flags /\ b.prot = prot
  BY <1>1, <1>4, <1>5, <1>6, <1>7 DEF Ates
<1> QED
  BY <1>2, <1>4, <1>6, <1>7, <1>8 DEF d

LEMMA SwapXWf ==
  ASSUME NEW a, Wf(a), NEW R \in SUBSET PagesOf(a)
  PROVE  Wf(vmm_swap_x(a, R))
<1> DEFINE b == vmm_swap_x(a, R)
           D == R \cap DirtyPages(a)
<1>1. /\ b \in Ates
      /\ b.n_pages = a.n_pages
      /\ b.l_pages = a.l_pages
      /\ b.c_pages = a.c_pages
      /\ b.d_pages = a.d_pages - Cardinality(D)
      /\ \A x \in PageNos :
           /\ b.flags[x] = IF x \in R THEN a.flags[x] \ {"DIRTY", "ZFILL"} ELSE a.flags[x]
           /\ b.prot[x] = IF x \in D THEN "read" ELSE a.prot[x]
  BY SwapXFields, SMTT(30)
<1>2. a \in Ates
  BY DEF Wf
<1> HIDE DEF b
<1>3. PagesOf(b) = PagesOf(a) /\ PagesOf(a) \subseteq PageNos
  BY <1>1, <1>2, PagesFinite DEF PagesOf
<1>4. Resident(b) = Resident(a) /\ Charged(b) = Charged(a) /\ DirtyPages(b) = DirtyPages(a) \ D
  BY <1>1, <1>3 DEF Resident, Charged, DirtyPages
<1>5. Cardinality(DirtyPages(b)) = Cardinality(DirtyPages(a)) - Cardinality(D)
  BY <1>2, <1>4, CountDrop, CountedSets
<1>6. Counted(b)
  BY <1>1, <1>4, <1>5 DEF Wf, Counted
<1>7. Agree(b)
  BY <1>1, <1>3 DEF Wf, Agree, DirtyPages
<1> QED
  BY <1>1, <1>6, <1>7 DEF Wf, b

--------------------------------------------------------------------------
(***************************************************************************)
(* The calls.  Core excludes the calls and options whose ASSERTs do fail   *)
(* (the runs of the README show how): aggressive charging, merging,        *)
(* shrinking, sbma_mclearall, and several ranges of one allocation in one  *)
(* sbma_mtouch_atomic.                                                     *)
(***************************************************************************)
Core ==
  /\ MaxRanges < 2
  /\ \A o \in Configs : /\ ~ o.aggch /\ ~ o.merge
                        /\ "shrink" \notin o.calls /\ "mclearall" \notin o.calls

\* The inductive invariant: Mcheck, NoAssert and Protected need the agreement of
\* charged and resident, and that a page beyond the last has no flags.
PagesInv ==
  /\ opts \in Configs
  /\ Wf(ate)
  /\ c_mem = ate.c_pages
  /\ d_mem = ate.d_pages
  /\ fault = "none"
  /\ out \in Vals
  /\ undef \in SUBSET PageNos

LEMMA RangesWithin ==
  ASSUME ate \in Ates, NEW R \in Ranges(ate)
  PROVE  R \in SUBSET PagesOf(ate)
<1>1. ate.n_pages \in Nat
  BY SMTT(30) DEF Ates
<1>2. PICK b \in PagesOf(ate), e \in PagesOf(ate) : R = b .. e
  BY SMTT(30) DEF Ranges
<1> QED
  BY <1>1, <1>2, SMTT(30) DEF PagesOf

\* An allocation without pages, and none.
LEMMA NoAteWf == Wf(NoAte) /\ NoAte.n_pages = 0 /\ NoAte.c_pages = 0 /\ NoAte.d_pages = 0
<1>1. NoAte \in Ates
  BY PagesAssumption, SMTT(30) DEF NoAte, Ates
<1>2. PagesOf(NoAte) = {} /\ \A x \in PageNos : NoAte.flags[x] = {}
  BY SMTT(30) DEF PagesOf, NoAte
<1>3. Resident(NoAte) = {} /\ Charged(NoAte) = {} /\ DirtyPages(NoAte) = {}
  BY <1>2 DEF Resident, Charged, DirtyPages
<1>4. NoAte.n_pages = 0 /\ NoAte.l_pages = 0 /\ NoAte.c_pages = 0 /\ NoAte.d_pages = 0
  BY DEF NoAte
<1>5. Counted(NoAte)
  BY <1>3, <1>4, FS_EmptySet DEF Counted
<1>6. Agree(NoAte)
  BY <1>2 DEF Agree
<1> QED
  BY <1>1, <1>4, <1>5, <1>6 DEF Wf

LEMMA PagesInitInv == Init => PagesInv
  BY NoAteWf, PagesAssumption DEF Init, PagesInv

\* sbma_malloc.
LEMMA MallocFields ==
  ASSUME PagesInv, NEW n \in 1 .. MaxPages, sbma_malloc(n)
  PROVE  LET c == IF opts.rsdnt THEN n ELSE 0
         IN  /\ ate' \in Ates
             /\ ate'.n_pages = n /\ ate'.l_pages = c /\ ate'.c_pages = c /\ ate'.d_pages = 0
             /\ \A x \in PageNos :
                  /\ ate'.flags[x] = IF x \in 0 .. n - 1 /\ ~ opts.rsdnt THEN Evicted ELSE {}
                  /\ ate'.prot[x] = IF x \in 0 .. n - 1 /\ opts.rsdnt THEN "read" ELSE "none"
                  /\ ate'.mem[x] = 0 /\ ate'.file[x] = 0
<1> DEFINE c == IF opts.rsdnt THEN n ELSE 0
           flags == Override(NoAte.flags, [x \in 0 .. n - 1 |->
                      IF opts.rsdnt THEN {} ELSE Evicted])
           prot == Override(NoAte.prot, [x \in 0 .. n - 1 |->
                      IF opts.rsdnt THEN "read" ELSE "none"])
<1>1. NoAte \in Ates /\ n \in 0 .. MaxPages /\ c \in Nat
  BY NoAteWf, PagesAssumption, SMTT(30) DEF Wf
<1>2. ate' = [NoAte EXCEPT !.n_pages = n, !.l_pages = c, !.c_pages = c, !.flags = flags,
                           !.prot = prot]
  BY DEF sbma_malloc
<1>3. /\ NoAte.d_pages = 0
      /\ \A x \in PageNos : /\ NoAte.flags[x] = {} /\ NoAte.prot[x] = "none"
                            /\ NoAte.mem[x] = 0 /\ NoAte.file[x] = 0
  BY DEF NoAte
<1>4. /\ flags \in [PageNos -> SUBSET Bits]
      /\ \A x \in PageNos :
           flags[x] = IF x \in 0 .. n - 1 /\ ~ opts.rsdnt THEN Evicted ELSE {}
  BY <1>1, <1>3 DEF Ates, Override, Evicted, Bits
<1>5. /\ prot \in [PageNos -> {"none", "read", "rw"}]
      /\ \A x \in PageNos :
           prot[x] = IF x \in 0 .. n - 1 /\ opts.rsdnt THEN "read" ELSE "none"
  BY <1>1, <1>3 DEF Ates, Override
<1> HIDE DEF c, flags, prot
<1>6. /\ ate' \in Ates /\ ate'.n_pages = n /\ ate'.l_pages = c /\ ate'.c_pages = c
      /\ ate'.d_pages = 0 /\ ate'.flags = flags /\ ate'.prot = prot
      /\ ate'.mem = NoAte.mem /\ ate'.file = NoAte.file
  BY <1>1, <1>2, <1>3, <1>4, <1>5 DEF Ates
<1> QED
  BY <1>3, <1>4, <1>5, <1>6, SMTT(30) DEF c

LEMMA MallocInv ==
  ASSUME PagesInv, NEW n \in 1 .. MaxPages, sbma_malloc(n)
  PROVE  PagesInv'
<1> DEFINE c == IF opts.rsdnt THEN n ELSE 0
           a == ate'
<1>1. /\ a \in Ates
      /\ a.n_pages = n /\ a.l_pages = c /\ a.c_pages = c /\ a.d_pages = 0
      /\ \A x \in PageNos :
           /\ a.flags[x] = IF x \in 0 .. n - 1 /\ ~ opts.rsdnt THEN Evicted ELSE {}
           /\ a.prot[x] = IF x \in 0 .. n - 1 /\ opts.rsdnt THEN "read" ELSE "none"
           /\ a.mem[x] = 0 /\ a.file[x] = 0
  BY MallocFields
<1>2. ate.n_pages = 0 /\ c_mem' = c_mem + c /\ d_mem' = d_mem /\ undef' = {}
      /\ UNCHANGED <<opts, fault, out>>
  BY DEF sbma_malloc
<1>3. ate.c_pages = 0 /\ ate.d_pages = 0
  <2>1. PagesOf(ate) = {} /\ Charged(ate) = {} /\ DirtyPages(ate) = {}
    BY <1>2, SMTT(30) DEF PagesOf, Charged, DirtyPages
  <2> QED
    BY <2>1, FS_EmptySet DEF PagesInv, Wf, Counted
<1> HIDE DEF a
<1>4. PagesOf(a) = 0 .. n - 1 /\ PagesOf(a) \subseteq PageNos /\ Cardinality(PagesOf(a)) = n
  BY <1>1, PagesFinite DEF PagesOf
<1>5. Cardinality(Resident(a)) = c /\ Charged(a) = Resident(a) /\ DirtyPages(a) = {}
  <2>1. CASE opts.rsdnt
    <3>1. \A x \in PagesOf(a) : a.flags[x] = {}
      BY <1>1, <1>4, <2>1
    <3>2. Resident(a) = PagesOf(a) /\ Charged(a) = PagesOf(a) /\ DirtyPages(a) = {}
      BY <3>1 DEF Resident, Charged, DirtyPages
    <3> QED
      BY <1>4, <2>1, <3>2
  <2>2. CASE ~ opts.rsdnt
    <3>1. \A x \in PagesOf(a) : a.flags[x] = Evicted
      BY <1>1, <1>4, <2>2
    <3>2. Resident(a) = {} /\ Charged(a) = {} /\ DirtyPages(a) = {}
      BY <3>1, SMTT(30) DEF Resident, Charged, DirtyPages, Evicted
    <3> QED
      BY <2>2, <3>2, FS_EmptySet
  <2> QED
    BY <2>1, <2>2
<1>6. Counted(a)
  BY <1>1, <1>5, FS_EmptySet DEF Counted
<1>7. Agree(a)
  <2>1. ASSUME NEW x \in PagesOf(a)
        PROVE  \/ a.flags[x] = Evicted /\ a.prot[x] = "none"
               \/ a.flags[x] = {} /\ a.prot[x] = "read"
    BY <1>1, <1>4
  <2> QED
    BY <1>1, <1>4, <2>1, SMTT(30) DEF Agree, Evicted
<1>8. c_mem' = a.c_pages /\ d_mem' = a.d_pages
  <2>1. c \in Nat
    BY SMTT(30)
  <2> QED
    BY <1>1, <1>2, <1>3, <2>1, SMTT(30) DEF PagesInv
<1> QED
  BY <1>1, <1>2, <1>6, <1>7, <1>8 DEF PagesInv, Wf, a

\* sbma_free.
LEMMA FreeInv ==
  ASSUME PagesInv, sbma_free
  PROVE  PagesInv'
<1>1. ate.c_pages \in Nat /\ ate.d_pages \in Nat
  BY DEF PagesInv, Wf, Ates
<1>2. fault' = "none" /\ ate' = NoAte /\ c_mem' = 0 /\ d_mem' = 0
  BY <1>1, SMTT(30) DEF PagesInv, sbma_free, Release, Finish
<1>3. undef' = {} /\ UNCHANGED <<opts, out>>
  BY <1>2 DEF sbma_free, Unspecified
<1> QED
  BY <1>2, <1>3, NoAteWf DEF PagesInv

\* Without aggressive charging a touch is one vmm_swap_i, of what the probe has
\* counted.
LEMMA TouchIsSwapI ==
  ASSUME Core, PagesInv, NEW R \in SUBSET PagesOf(ate)
  PROVE  /\ sbma_mtouch_probe(ate, R) = Cardinality(Absent(ate, R))
         /\ sbma_mtouch_int(ate, R) = vmm_swap_i(ate, R)
         /\ TouchFault(ate, R) = "none"
<1>1. ~ AggCharge(ate)
  BY DEF Core, PagesInv, AggCharge
<1>2. {x \in R : "CHRGD" \in ate.flags[x]} = Absent(ate, R)
  BY DEF PagesInv, Wf, Agree, Absent
<1>3. ProbeOk(ate, R)
  BY DEF PagesInv, Wf, Agree, ProbeOk
<1>4. ChargeAll(ate) = ate
  BY <1>1 DEF ChargeAll
<1>5. vmm_swap_i_ok(ate, R)
  BY SwapIWf DEF PagesInv
<1> QED
  BY <1>1, <1>2, <1>3, <1>4, <1>5 DEF sbma_mtouch_probe, sbma_mtouch_int, TouchFault

LEMMA TouchInv ==
  ASSUME Core, PagesInv, NEW R \in SUBSET PagesOf(ate), sbma_mtouch(R)
  PROVE  PagesInv' /\ ate' = vmm_swap_i(ate, R) /\ UNCHANGED <<opts, out, undef>>
<1>1. /\ fault' = "none" /\ ate' = vmm_swap_i(ate, R)
      /\ c_mem' = c_mem + Cardinality(Absent(ate, R)) /\ d_mem' = d_mem
      /\ UNCHANGED <<opts, out, undef>>
  BY TouchIsSwapI DEF sbma_mtouch, Finish
<1>2. /\ Wf(ate') /\ ate'.d_pages = ate.d_pages
      /\ ate'.c_pages = ate.c_pages + Cardinality(Absent(ate, R))
  BY <1>1, SwapIWf DEF PagesInv
<1> QED
  BY <1>1, <1>2 DEF PagesInv

\* sbma_mtouchall, whose ASSERTs ask that everything is resident.
LEMMA TouchallInv ==
  ASSUME Core, PagesInv, sbma_mtouchall
  PROVE  PagesInv' /\ ate' = vmm_swap_i(ate, PagesOf(ate)) /\ UNCHANGED <<opts, out, undef>>
<1> DEFINE R == PagesOf(ate)
           a == vmm_swap_i(ate, R)
<1>1. /\ Wf(a) /\ a.n_pages = ate.n_pages /\ a.d_pages = ate.d_pages
      /\ a.c_pages = ate.c_pages + Cardinality(Absent(ate, R))
  BY SwapIWf DEF PagesInv
<1>2. Cardinality(Resident(ate)) + Cardinality(Absent(ate, R)) = ate.n_pages
  <2>1. ate \in Ates /\ Resident(ate) \cap Absent(ate, R) = {}
        /\ Resident(ate) \cup Absent(ate, R) = PagesOf(ate)
        /\ Resident(ate) \in SUBSET PagesOf(ate) /\ Absent(ate, R) \in SUBSET PagesOf(ate)
    BY DEF PagesInv, Wf, Resident, Absent
  <2> QED
    BY <2>1, CountJoin, PagesFinite
<1>3. a.c_pages = a.n_pages /\ a.l_pages = a.c_pages
  <2>1. ate.c_pages = Cardinality(Resident(ate))
    BY ChargedResident DEF PagesInv, Wf, Counted
  <2>2. a.l_pages = a.c_pages
    BY <1>1, ChargedResident DEF Wf, Counted
  <2> QED
    BY <1>1, <1>2, <2>1, <2>2
<1>4. /\ sbma_mtouch_probe(ate, R) = Cardinality(Absent(ate, R))
      /\ sbma_mtouch_int(ate, R) = a
      /\ TouchFault(ate, R) = "none"
  BY TouchIsSwapI
<1>5. /\ fault' = "none" /\ ate' = a
      /\ c_mem' = c_mem + Cardinality(Absent(ate, R)) /\ d_mem' = d_mem
      /\ UNCHANGED <<opts, out, undef>>
  BY <1>3, <1>4 DEF sbma_mtouchall, Finish
<1> QED
  BY <1>1, <1>5 DEF PagesInv

\* sbma_mevict.
LEMMA EvictInv ==
  ASSUME PagesInv, NEW R \in SUBSET PagesOf(ate), sbma_mevict(R)
  PROVE  PagesInv' /\ ate' = vmm_swap_o(ate, R) /\ UNCHANGED <<opts, out, undef>>
<1> DEFINE a == vmm_swap_o(ate, R)
           c == Cardinality(R \cap Charged(ate))
           d == Cardinality(R \cap DirtyPages(ate))
<1>1. /\ Wf(a) /\ vmm_swap_o_ok(ate, R)
      /\ a.c_pages = ate.c_pages - c /\ a.d_pages = ate.d_pages - d
  BY SwapOWf DEF PagesInv
<1>2. /\ a.c_pages \in Nat /\ a.d_pages \in Nat /\ ate.c_pages \in Nat /\ ate.d_pages \in Nat
      /\ c \in Nat /\ d \in Nat
  <2>1. R \cap Charged(ate) \in SUBSET PagesOf(ate) /\ R \cap DirtyPages(ate) \in SUBSET PagesOf(ate)
    OBVIOUS
  <2> QED
    BY <1>1, <2>1, PagesFinite DEF PagesInv, Wf, Ates
<1>3. ~ (c_mem < c \/ d_mem < d)
  BY <1>1, <1>2, SMTT(30) DEF PagesInv
<1> HIDE DEF a, c, d
<1>4. /\ fault' = "none" /\ ate' = a /\ c_mem' = c_mem - c /\ d_mem' = d_mem - d
      /\ UNCHANGED <<opts, out, undef>>
  BY <1>1, <1>3 DEF sbma_mevict, Release, Finish, a, c, d
<1> QED
  BY <1>1, <1>2, <1>4 DEF PagesInv, a

\* sbma_mevictall, and vmm_sigipc between two calls.
LEMMA EvictallInv ==
  ASSUME PagesInv, sbma_mevictall
  PROVE  PagesInv' /\ ate' = vmm_swap_o(ate, PagesOf(ate)) /\ UNCHANGED <<opts, out, undef>>
<1> DEFINE R == PagesOf(ate)
           a == vmm_swap_o(ate, R)
<1>1. /\ Wf(a) /\ vmm_swap_o_ok(ate, R) /\ Resident(a) = Resident(ate) \ R
  BY SwapOWf DEF PagesInv
<1>2. Resident(a) = {}
  BY <1>1 DEF Resident
<1>3. Charged(a) = {} /\ DirtyPages(a) = {}
  BY <1>1, <1>2, ChargedResident
<1>4. a.l_pages = 0 /\ a.c_pages = 0 /\ a.d_pages = 0
  BY <1>1, <1>2, <1>3, FS_EmptySet DEF Wf, Counted
<1>5. ate.c_pages \in Nat /\ ate.d_pages \in Nat
  BY DEF PagesInv, Wf, Ates
<1> HIDE DEF a
<1>6. /\ fault' = "none" /\ ate' = a /\ c_mem' = 0 /\ d_mem' = 0
      /\ UNCHANGED <<opts, out, undef>>
  BY <1>1, <1>4, <1>5, SMTT(30) DEF sbma_mevictall, Release, Finish, a, PagesInv
<1> QED
  BY <1>1, <1>4, <1>6 DEF PagesInv, a

\* sbma_mclear.
LEMMA ClearInv ==
  ASSUME PagesInv, NEW R \in SUBSET PagesOf(ate), sbma_mclear(R)
  PROVE  /\ PagesInv' /\ ate' = vmm_swap_x(ate, R)
         /\ undef' = undef \cup R /\ UNCHANGED <<opts, out>>
<1> DEFINE a == vmm_swap_x(ate, R)
           d == Cardinality(R \cap DirtyPages(ate))
<1>1. Wf(a)
  BY SwapXWf DEF PagesInv
<1>2. /\ vmm_swap_x_ok(ate, R) /\ a.c_pages = ate.c_pages /\ a.d_pages = ate.d_pages - d
  BY SwapXFields DEF PagesInv
<1>3. /\ a.d_pages \in Nat /\ ate.d_pages \in Nat /\ ate.c_pages \in Nat /\ d \in Nat
      /\ PagesOf(ate) \subseteq PageNos
  <2>1. R \cap DirtyPages(ate) \in SUBSET PagesOf(ate)
    OBVIOUS
  <2> QED
    BY <1>1, <2>1, PagesFinite DEF PagesInv, Wf, Ates
<1>4. ~ (c_mem < 0 \/ d_mem < d)
  BY <1>2, <1>3, SMTT(30) DEF PagesInv
<1> HIDE DEF a, d
<1>5. /\ fault' = "none" /\ ate' = a /\ c_mem' = c_mem - 0 /\ d_mem' = d_mem - d
      /\ UNCHANGED <<opts, out>>
  BY <1>2, <1>4 DEF sbma_mclear, ClearFault, Release, Finish, a, d
<1>6. undef' = undef \cup R
  BY <1>5 DEF sbma_mclear, Unspecified
<1> QED
  BY <1>1, <1>2, <1>3, <1>5, <1>6, SMTT(30) DEF PagesInv, a

\* sbma_realloc that enlarges the allocation.
LEMMA GrowFields ==
  ASSUME Core, PagesInv, NEW nn \in 1 .. MaxPages, sbma_realloc_grow(nn)
  PROVE  LET new   == ate.n_pages .. nn - 1
             extra == IF opts.rsdnt THEN Cardinality(new) ELSE 0
         IN  /\ ate' \in Ates /\ new # {}
             /\ ate'.n_pages = nn /\ ate'.d_pages = ate.d_pages
             /\ ate'.l_pages = ate.l_pages + extra /\ ate'.c_pages = ate.c_pages + extra
             /\ ate'.file = ate.file
             /\ \A x \in PageNos :
                  /\ ate'.flags[x] = IF x \in new /\ ~ opts.rsdnt THEN ate.flags[x] \cup Evicted
                                     ELSE ate.flags[x]
                  /\ ate'.prot[x] = IF x \in new THEN IF opts.rsdnt THEN "read" ELSE "none"
                                    ELSE ate.prot[x]
                  /\ x \notin new => ate'.mem[x] = ate.mem[x]
             /\ c_mem' = c_mem + extra /\ d_mem' = d_mem /\ fault' = "none"
             /\ undef' = undef \cup new /\ UNCHANGED <<opts, out>>
<1> DEFINE new   == ate.n_pages .. nn - 1
           extra == IF opts.rsdnt THEN Cardinality(new) ELSE 0
           fresh == IF opts.rsdnt THEN "read" ELSE "none"
           flags == Override(ate.flags, [x \in new |->
                      IF opts.rsdnt THEN ate.flags[x] ELSE ate.flags[x] \cup Evicted])
           prot  == Override(ate.prot, [x \in new |-> fresh])
           mem(v) == [ate.mem EXCEPT ![ate.n_pages] = v]
           l     == ate.l_pages + extra
           c     == ate.c_pages + extra
<1>1. ate \in Ates /\ ~ opts.merge /\ MaxPages \in Nat
  BY PagesAssumption DEF PagesInv, Wf, Core
<1>2. new # {} /\ ate.n_pages \in Nat /\ ate.n_pages \in PageNos /\ new \subseteq PageNos
      /\ Cardinality(new) \in Nat /\ ate.n_pages \in new
  <2>1. new # {} /\ ate.n_pages \in Nat /\ nn \in Nat
    BY <1>1, SMTT(30) DEF sbma_realloc_grow, Ates
  <2>2. ate.n_pages \in Int /\ nn - 1 \in Int
    BY <2>1, SMTT(30)
  <2>3. IsFiniteSet(ate.n_pages .. nn - 1)
    BY <2>2, FS_Interval
  <2> QED
    BY <1>1, <2>1, <2>3, FS_CardinalityType, SMTT(30) DEF PageNos
<1>3. PICK junk \in Vals :
        Finish("none",
               [ate EXCEPT !.n_pages = nn, !.l_pages = @ + extra, !.c_pages = @ + extra,
                           !.flags = flags, !.prot = prot, !.mem[ate.n_pages] = junk],
               c_mem + extra, d_mem)
  BY <1>1 DEF sbma_realloc_grow
<1>4. /\ fault' = "none" /\ c_mem' = c_mem + extra /\ d_mem' = d_mem
      /\ ate' = [ate EXCEPT !.n_pages = nn, !.l_pages = l, !.c_pages = c,
                            !.flags = flags, !.prot = prot, !.mem = mem(junk)]
  BY <1>3 DEF Finish
<1>5. undef' = undef \cup new /\ UNCHANGED <<opts, out>>
  BY <1>4 DEF sbma_realloc_grow, Unspecified
<1>6. /\ flags \in [PageNos -> SUBSET Bits]
      /\ \A x \in PageNos :
           flags[x] = IF x \in new /\ ~ opts.rsdnt THEN ate.flags[x] \cup Evicted ELSE ate.flags[x]
  BY <1>1 DEF Ates, Override, Evicted, Bits
<1>7. /\ prot \in [PageNos -> {"none", "read", "rw"}]
      /\ \A x \in PageNos :
           prot[x] = IF x \in new THEN IF opts.rsdnt THEN "read" ELSE "none" ELSE ate.prot[x]
  BY <1>1 DEF Ates, Override
<1>8. l \in Nat /\ c \in Nat /\ nn \in 0 .. MaxPages
  BY <1>1, <1>2, SMTT(30) DEF Ates
<1>9. /\ mem(junk) \in [PageNos -> Vals]
      /\ \A x \in PageNos : x \notin new => mem(junk)[x] = ate.mem[x]
  BY <1>1, <1>2 DEF Ates
<1> HIDE DEF extra, l, c, flags, prot, mem
<1>10. /\ ate' \in Ates /\ ate'.n_pages = nn /\ ate'.d_pages = ate.d_pages
       /\ ate'.l_pages = l /\ ate'.c_pages = c
       /\ ate'.file = ate.file /\ ate'.flags = flags /\ ate'.prot = prot
       /\ ate'.mem = mem(junk)
  BY <1>1, <1>4, <1>6, <1>7, <1>8, <1>9 DEF Ates
<1> QED
  BY <1>2, <1>4, <1>5, <1>6, <1>7, <1>9, <1>10, SMTT(30) DEF extra, l, c

LEMMA GrowInv ==
  ASSUME Core, PagesInv, NEW nn \in 1 .. MaxPages, sbma_realloc_grow(nn)
  PROVE  PagesInv'
<1> DEFINE new   == ate.n_pages .. nn - 1
           extra == IF opts.rsdnt THEN Cardinality(new) ELSE 0
           a     == ate'
<1>1. /\ a \in Ates /\ new # {}
      /\ a.n_pages = nn /\ a.d_pages = ate.d_pages
      /\ a.l_pages = ate.l_pages + extra /\ a.c_pages = ate.c_pages + extra
      /\ \A x \in PageNos :
           /\ a.flags[x] = IF x \in new /\ ~ opts.rsdnt THEN ate.flags[x] \cup Evicted
                           ELSE ate.flags[x]
           /\ a.prot[x] = IF x \in new THEN IF opts.rsdnt THEN "read" ELSE "none"
                          ELSE ate.prot[x]
      /\ c_mem' = c_mem + extra /\ d_mem' = d_mem /\ fault' = "none"
      /\ undef' = undef \cup new /\ UNCHANGED <<opts, out>>
  BY GrowFields
<1> HIDE DEF a
<1>2. ate \in Ates /\ ate.n_pages \in Nat /\ nn \in Nat
  BY SMTT(30) DEF PagesInv, Wf, Ates
<1>3. /\ PagesOf(a) = PagesOf(ate) \cup new /\ PagesOf(ate) \cap new = {}
      /\ PagesOf(a) \subseteq PageNos
  BY <1>1, <1>2, PagesFinite, SMTT(30) DEF PagesOf
<1>4. \A x \in PagesOf(ate) : a.flags[x] = ate.flags[x] /\ a.prot[x] = ate.prot[x]
  BY <1>1, <1>3
<1>5. \A x \in new :
        \/ opts.rsdnt /\ a.flags[x] = {} /\ a.prot[x] = "read"
        \/ ~ opts.rsdnt /\ a.flags[x] = Evicted /\ a.prot[x] = "none"
  <2> SUFFICES ASSUME NEW x \in new
               PROVE  \/ opts.rsdnt /\ a.flags[x] = {} /\ a.prot[x] = "read"
                      \/ ~ opts.rsdnt /\ a.flags[x] = Evicted /\ a.prot[x] = "none"
    OBVIOUS
  <2>1. x \in PageNos /\ x \notin PagesOf(ate)
    BY <1>3
  <2>2. ate.flags[x] = {}
    BY <2>1 DEF PagesInv, Wf, Agree
  <2>3. a.flags[x] = (IF ~ opts.rsdnt THEN Evicted ELSE {})
        /\ a.prot[x] = (IF opts.rsdnt THEN "read" ELSE "none")
    BY <1>1, <2>1, <2>2
  <2> QED
    BY <2>3
<1>6. DirtyPages(a) = DirtyPages(ate)
  BY <1>3, <1>4, <1>5, SMTT(30) DEF DirtyPages, Evicted
<1>7. /\ Resident(a) = IF opts.rsdnt THEN Resident(ate) \cup new ELSE Resident(ate)
      /\ Charged(a) = IF opts.rsdnt THEN Charged(ate) \cup new ELSE Charged(ate)
  BY <1>3, <1>4, <1>5 DEF Resident, Charged, Evicted
<1>8. Cardinality(Resident(a)) = Cardinality(Resident(ate)) + extra
  <2>1. CASE opts.rsdnt
    <3>1. /\ Resident(ate) \in SUBSET PagesOf(a) /\ new \in SUBSET PagesOf(a)
          /\ Resident(ate) \cap new = {}
      BY <1>2, <1>3, CountedSets
    <3>2. extra = Cardinality(new) /\ Resident(a) = Resident(ate) \cup new
      BY <1>7, <2>1
    <3> HIDE DEF extra, new
    <3> QED
      BY <1>1, <3>1, <3>2, CountJoin
  <2>2. CASE ~ opts.rsdnt
    <3>1. Cardinality(Resident(ate)) \in Nat
      BY <1>2, PagesFinite, CountedSets
    <3> QED
      BY <1>7, <2>2, <3>1, SMTT(30)
  <2> QED
    BY <2>1, <2>2
<1>9. Charged(ate) = Resident(ate) /\ Charged(a) = Resident(a)
  BY <1>7, ChargedResident DEF PagesInv
<1>10. Counted(a)
  BY <1>1, <1>6, <1>8, <1>9, SMTT(30) DEF PagesInv, Wf, Counted
<1>11. Agree(a)
  <2>1. \A x \in PageNos \ PagesOf(a) : a.flags[x] = {}
    BY <1>1, <1>3 DEF PagesInv, Wf, Agree
  <2> QED
    BY <1>3, <1>4, <1>5, <2>1, SMTT(30) DEF PagesInv, Wf, Agree, Evicted
<1> QED
  BY <1>1, <1>3, <1>10, <1>11 DEF PagesInv, Wf, a

\* vmm_sigsegv on a resident page that is not writable: it is clean, and becomes
\* dirty.
LEMMA SegvDirtyFields ==
  ASSUME PagesInv, NEW x \in PagesOf(ate), SegvDirty(x)
  PROVE  /\ ate' \in Ates /\ x \in PageNos
         /\ "RSDNT" \notin ate.flags[x] /\ "DIRTY" \notin ate.flags[x]
         /\ ate'.n_pages = ate.n_pages /\ ate'.l_pages = ate.l_pages
         /\ ate'.c_pages = ate.c_pages /\ ate'.d_pages = ate.d_pages + 1
         /\ ate'.mem = ate.mem /\ ate'.file = ate.file
         /\ ate'.flags = [ate.flags EXCEPT ![x] = {"DIRTY"}]
         /\ ate'.prot = [ate.prot EXCEPT ![x] = "rw"]
         /\ c_mem' = c_mem /\ d_mem' = d_mem + 1 /\ fault' = "none"
         /\ UNCHANGED <<opts, out, undef>>
<1>1. ate \in Ates /\ x \in PageNos
  BY PagesFinite DEF PagesInv, Wf
<1>2. "DIRTY" \notin ate.flags[x] /\ "RSDNT" \notin ate.flags[x]
  BY DEF PagesInv, Wf, Agree, SegvDirty
<1>3. /\ ate' = [ate EXCEPT !.flags[x] = {"DIRTY"}, !.prot[x] = "rw", !.d_pages = @ + 1]
      /\ c_mem' = c_mem /\ d_mem' = d_mem + 1 /\ fault' = "none"
      /\ UNCHANGED <<opts, out, undef>>
  BY <1>2 DEF SegvDirty, Finish
<1> DEFINE flags == [ate.flags EXCEPT ![x] = {"DIRTY"}]
           prot  == [ate.prot EXCEPT ![x] = "rw"]
           d     == ate.d_pages + 1
<1>4. d \in Nat /\ flags \in [PageNos -> SUBSET Bits] /\ prot \in [PageNos -> {"none", "read", "rw"}]
  BY <1>1, SMTT(30) DEF Bits, Ates
<1>5. ate' = [ate EXCEPT !.flags = flags, !.prot = prot, !.d_pages = d]
  BY <1>3
<1> HIDE DEF flags, prot, d
<1>6. /\ ate' \in Ates /\ ate'.n_pages = ate.n_pages /\ ate'.l_pages = ate.l_pages
      /\ ate'.c_pages = ate.c_pages /\ ate'.d_pages = d
      /\ ate'.mem = ate.mem /\ ate'.file = ate.file
      /\ ate'.flags = flags /\ ate'.prot = prot
  BY <1>1, <1>4, <1>5 DEF Ates
<1> QED
  BY <1>1, <1>2, <1>3, <1>6 DEF flags, prot, d

LEMMA SegvDirtyInv ==
  ASSUME PagesInv, NEW x \in PagesOf(ate), SegvDirty(x)
  PROVE  PagesInv'
<1> DEFINE a == ate'
<1>1. /\ a \in Ates /\ x \in PageNos
      /\ "RSDNT" \notin ate.flags[x] /\ "DIRTY" \notin ate.flags[x]
      /\ a.n_pages = ate.n_pages /\ a.l_pages = ate.l_pages
      /\ a.c_pages = ate.c_pages /\ a.d_pages = ate.d_pages + 1
      /\ a.flags = [ate.flags EXCEPT ![x] = {"DIRTY"}]
      /\ a.prot = [ate.prot EXCEPT ![x] = "rw"]
      /\ c_mem' = c_mem /\ d_mem' = d_mem + 1 /\ fault' = "none"
      /\ UNCHANGED <<opts, out, undef>>
  BY SegvDirtyFields
<1> HIDE DEF a
<1>2. ate \in Ates /\ PagesOf(a) = PagesOf(ate) /\ PagesOf(ate) \subseteq PageNos
      /\ "CHRGD" \notin ate.flags[x]
  BY <1>1, PagesFinite DEF PagesInv, Wf, Agree, PagesOf
<1>3. /\ \A y \in PageNos \ {x} : a.flags[y] = ate.flags[y] /\ a.prot[y] = ate.prot[y]
      /\ a.flags[x] = {"DIRTY"} /\ a.prot[x] = "rw"
  BY <1>1, <1>2 DEF Ates
<1>4. /\ Resident(a) = Resident(ate) /\ Charged(a) = Charged(ate)
      /\ DirtyPages(a) = DirtyPages(ate) \cup {x} /\ x \notin DirtyPages(ate)
  BY <1>1, <1>2, <1>3, SMTT(30) DEF Resident, Charged, DirtyPages
<1>5. Cardinality(DirtyPages(a)) = Cardinality(DirtyPages(ate)) + 1
  <2>1. IsFiniteSet(DirtyPages(ate))
    BY <1>2, PagesFinite, CountedSets
  <2> QED
    BY <1>4, <2>1, FS_AddElement
<1>6. Counted(a)
  BY <1>1, <1>4, <1>5 DEF PagesInv, Wf, Counted
<1>7. Agree(a)
  BY <1>1, <1>2, <1>3, SMTT(30) DEF PagesInv, Wf, Agree
<1> QED
  BY <1>1, <1>6, <1>7 DEF PagesInv, Wf, a

\* The application stores into a page that is writable.
LEMMA StoreInv ==
  ASSUME PagesInv, NEW x \in PagesOf(ate), NEW v \in Vals, Store(x, v)
  PROVE  /\ PagesInv'
         /\ ate'.n_pages = ate.n_pages /\ ate'.flags = ate.flags /\ ate'.file = ate.file
         /\ ate'.mem = [ate.mem EXCEPT ![x] = v]
<1>1. ate \in Ates /\ x \in PageNos
  BY PagesFinite DEF PagesInv, Wf
<1>2. /\ ate' = [ate EXCEPT !.mem[x] = v] /\ undef' = undef \ {x}
      /\ UNCHANGED <<opts, c_mem, d_mem, fault, out>>
  BY DEF Store
<1>3. /\ ate' \in Ates
      /\ ate'.n_pages = ate.n_pages /\ ate'.l_pages = ate.l_pages
      /\ ate'.c_pages = ate.c_pages /\ ate'.d_pages = ate.d_pages
      /\ ate'.flags = ate.flags /\ ate'.prot = ate.prot /\ ate'.file = ate.file
      /\ ate'.mem = [ate.mem EXCEPT ![x] = v]
  BY <1>1, <1>2 DEF Ates
<1>4. Counted(ate') /\ Agree(ate')
  BY <1>3 DEF PagesInv, Wf, Counted, Agree, Resident, Charged, DirtyPages, PagesOf
<1> QED
  BY <1>2, <1>3, <1>4 DEF PagesInv, Wf

\* sbma_realloc whose mremap fails leaves everything as it was.
LEMMA FailsSame ==
  ASSUME Core, PagesInv, sbma_realloc_fails
  PROVE  UNCHANGED vars
<1>1. ate \in Ates /\ ~ opts.merge
  BY DEF PagesInv, Wf, Core
<1>2. ate' = [ate EXCEPT !.prot = Override(@, [x \in {} |-> "none"])]
      /\ UNCHANGED <<opts, c_mem, d_mem, fault, out, undef>>
  BY <1>1 DEF sbma_realloc_fails
<1>3. Override(ate.prot, [x \in {} |-> "none"]) = ate.prot
  BY <1>1 DEF Ates, Override
<1>4. ate' = ate
  BY <1>1, <1>2, <1>3 DEF Ates
<1> QED
  BY <1>2, <1>4 DEF vars

--------------------------------------------------------------------------
(***************************************************************************)
(* The invariant holds, and what follows from it.                          *)
(***************************************************************************)

\* The calls that Core leaves out.
LEMMA CoreCalls ==
  ASSUME Core, PagesInv
  PROVE  /\ ~ sbma_mclearall /\ \A n \in 1 .. MaxPages : ~ sbma_realloc_shrink(n)
         /\ ArgLists = {}
<1>1. "shrink" \notin opts.calls /\ "mclearall" \notin opts.calls
  BY DEF Core, PagesInv
<1>2. ArgLists = {}
  BY PagesAssumption, SMTT(30) DEF Core, ArgLists
<1> QED
  BY <1>1, <1>2 DEF sbma_mclearall, sbma_realloc_shrink

LEMMA PagesStep ==
  ASSUME Core, PagesInv, [Next]_vars
  PROVE  PagesInv'
<1>1. ASSUME NEW n \in 1 .. MaxPages,
             sbma_malloc(n) \/ sbma_realloc_shrink(n) \/ sbma_realloc_grow(n)
      PROVE  PagesInv'
  BY <1>1, MallocInv, GrowInv, CoreCalls
<1>2. CASE UNCHANGED vars
  BY <1>2 DEF PagesInv, vars
<1>3. CASE sbma_realloc_fails
  BY <1>2, <1>3, FailsSame
<1>4. CASE sbma_free
  BY <1>4, FreeInv
<1>5. CASE sbma_mallopt
  BY <1>5 DEF sbma_mallopt, PagesInv
<1>6. CASE sbma_mtouchall \/ sbma_mevictall \/ sbma_mclearall
  BY <1>6, TouchallInv, EvictallInv, CoreCalls
<1>7. ASSUME NEW R \in Ranges(ate), sbma_mtouch(R) \/ sbma_mevict(R) \/ sbma_mclear(R)
      PROVE  PagesInv'
  <2>1. R \in SUBSET PagesOf(ate)
    BY RangesWithin DEF PagesInv, Wf
  <2> QED
    BY <1>7, <2>1, TouchInv, EvictInv, ClearInv
<1>8. ASSUME NEW x \in PagesOf(ate), Load(x)
      PROVE  PagesInv'
  <2>1. ate.mem[x] \in Vals
    BY PagesFinite DEF PagesInv, Wf, Ates
  <2> QED
    BY <1>8, <2>1 DEF Load, PagesInv
<1>9. ASSUME NEW x \in PagesOf(ate), SegvAbsent(x)
      PROVE  PagesInv'
  <2>1. (IF opts.lzyrd THEN {x} ELSE PagesOf(ate)) \in SUBSET PagesOf(ate)
    OBVIOUS
  <2> QED
    BY <1>9, <2>1, TouchInv DEF SegvAbsent
<1>10. ASSUME NEW x \in PagesOf(ate), SegvDirty(x)
       PROVE  PagesInv'
  BY <1>10, SegvDirtyInv
<1>11. ASSUME NEW x \in PagesOf(ate), NEW v \in Vals, Store(x, v)
       PROVE  PagesInv'
  BY <1>11, StoreInv
<1>12. ~ \E Rs \in ArgLists : sbma_mtouch_atomic(Rs)
  BY CoreCalls
<1> QED
  BY <1>1, <1>2, <1>3, <1>4, <1>5, <1>6, <1>7, <1>8, <1>9, <1>10, <1>11, <1>12 DEF Next, vmm_sigsegv

LEMMA PagesAlways ==
  ASSUME Core
  PROVE  Spec => []PagesInv
<1>1. Init => PagesInv
  BY PagesInitInv
<1>2. PagesInv /\ [Next]_vars => PagesInv'
  BY PagesStep
<1> QED
  BY <1>1, <1>2, PTL DEF Spec

\* Types: the counters of the allocation, and with them the shared counters of
\* the process, never wrap below zero.
THEOREM PagesTypeCorrect ==
  ASSUME Core
  PROVE  Spec => []TypeOK
<1>1. PagesInv => TypeOK
  BY DEF PagesInv, Wf, Ates, TypeOK, Faults
<1> QED
  BY <1>1, PagesAlways, PTL

\* sbma_mcheck never fails: after every call l_pages, c_pages and d_pages are the
\* numbers of the resident, charged and dirty pages, and what the process has
\* charged to the shared segment is what its allocation holds.
THEOREM McheckHolds ==
  ASSUME Core
  PROVE  Spec => []Mcheck
<1>1. PagesInv => Mcheck
  BY DEF PagesInv, Wf, Counted, Mcheck, sbma_mcheck
<1> QED
  BY <1>1, PagesAlways, PTL

\* None of the ASSERTs of the touch, evict and clear calls, of vmm_swap_i,
\* vmm_swap_o, vmm_swap_x, of ipc_mdirty, of sbma_realloc and of the SIGSEGV
\* handler fails.
THEOREM NoAssertFails ==
  ASSUME Core
  PROVE  Spec => []NoAssert
<1>1. PagesInv => NoAssert
  BY DEF PagesInv, NoAssert
<1> QED
  BY <1>1, PagesAlways, PTL

\* A page the application can read is resident, and one it can write is counted
\* as dirty: no access reaches memory the library has given back, and no write
\* is lost by an eviction.
THEOREM ProtectionHolds ==
  ASSUME Core
  PROVE  Spec => []Protected
<1>1. PagesInv => Protected
  BY DEF PagesInv, Wf, Agree, Protected
<1> QED
  BY <1>1, PagesAlways, PTL

--------------------------------------------------------------------------
(***************************************************************************)
(* The data: the library implements AppMemory.                             *)
(***************************************************************************)

\* A vmm_write that no transfer limit cuts short.
WholeWrites == MaxXfer >= MaxPages

Data(a, x) ==
  IF "RSDNT" \notin a.flags[x] THEN a.mem[x]
  ELSE IF "ZFILL" \in a.flags[x] THEN a.file[x] ELSE 0

\* The pages whose data the library may drop from memory have it elsewhere: a
\* clean page is what its file, or a page of zeros, holds, and the memory of a
\* page that was never written to the file is zero while it is away.  The pages
\* of U hold unspecified data.
Backed(a, U) ==
  \A x \in PagesOf(a) \ U :
    /\ a.flags[x] \cap {"RSDNT", "DIRTY"} = {}
         => a.mem[x] = IF "ZFILL" \in a.flags[x] THEN a.file[x] ELSE 0
    /\ "RSDNT" \in a.flags[x] /\ "ZFILL" \notin a.flags[x] => a.mem[x] = 0

DataInv == PagesInv /\ Backed(ate, undef)

\* The data a and b have in common.
SameData(a, b, U) ==
  /\ PagesOf(b) = PagesOf(a)
  /\ \A x \in PagesOf(a) \ U : Data(b, x) = Data(a, x)

\* vmm_swap_o writes every dirty page: a run of dirty pages starts somewhere.
LEMMA WriteAll ==
  ASSUME WholeWrites, NEW D \in SUBSET PageNos
  PROVE  vmm_write(D) = D
<1> SUFFICES ASSUME NEW x \in D
             PROVE  \E k \in D : k <= x /\ x < k + MaxXfer /\ k - 1 \notin D /\ k .. x \subseteq D
  BY DEF vmm_write
<1> DEFINE T == {k \in D : k <= x /\ k .. x \subseteq D}
<1>1. x \in Nat /\ x < MaxPages /\ MaxPages \in Nat /\ MaxXfer \in Nat /\ D \subseteq Nat
  BY PagesAssumption, SMTT(30) DEF PageNos
<1>2. T \subseteq Nat /\ x \in T
  <2>1. x .. x \subseteq D /\ x <= x
    BY <1>1, SMTT(30)
  <2>2. x \in T
    BY <2>1
  <2>3. T \subseteq D
    OBVIOUS
  <2> QED
    BY <1>1, <2>2, <2>3
<1>3. PICK k \in T : \A j \in T : ~ (j < k)
  <2> HIDE DEF T
  <2>1. PICK k \in T : \A j \in T : <<j, k>> \notin OpToRel(<, Nat)
    BY <1>2, WFMin, NatLessThanWellFounded
  <2>2. \A j \in T : ~ (j < k)
    BY <1>2, <2>1 DEF OpToRel
  <2> QED
    BY <2>2
<1>4. k - 1 \notin D
  <2> SUFFICES ASSUME k - 1 \in D PROVE FALSE
    OBVIOUS
  <2>1. k \in Nat /\ k <= x /\ k .. x \subseteq D
    BY <1>1
  <2>2. (k - 1) .. x \subseteq D
    BY <1>1, <2>1, SMTT(30)
  <2>3. k - 1 \in T /\ k - 1 < k
    BY <1>1, <2>1, <2>2, SMTT(30)
  <2> QED
    BY <1>3, <2>3
<1>5. k \in D /\ k \in Nat /\ k <= x /\ k .. x \subseteq D
  BY <1>1
<1>6. x < k + MaxXfer
  BY <1>1, <1>5, SMTT(30) DEF WholeWrites
<1> HIDE DEF T
<1> QED
  BY <1>4, <1>5, <1>6

\* Swapping in and out leaves the data what it was.
LEMMA SwapIData ==
  ASSUME NEW a, Wf(a), NEW R \in SUBSET PagesOf(a), NEW U, Backed(a, U)
  PROVE  LET b == vmm_swap_i(a, R) IN Backed(b, U) /\ SameData(a, b, U)
<1> DEFINE b  == vmm_swap_i(a, R)
           in == Absent(a, R)
<1>1. a \in Ates /\ PagesOf(a) \subseteq PageNos
  BY PagesFinite DEF Wf
<1>2. CASE a.l_pages = a.n_pages
  BY <1>2 DEF vmm_swap_i, SameData
<1>3. CASE a.l_pages # a.n_pages
  <2>1. /\ b.n_pages = a.n_pages /\ b.file = a.file
        /\ \A x \in PageNos :
             /\ b.flags[x] = IF x \in in THEN a.flags[x] \ Evicted ELSE a.flags[x]
             /\ b.mem[x] = IF x \in in /\ "ZFILL" \in a.flags[x] THEN a.file[x] ELSE a.mem[x]
    BY <1>3, SwapIFields, SMTT(30)
  <2> HIDE DEF b
  <2>2. PagesOf(b) = PagesOf(a)
    BY <2>1 DEF PagesOf
  <2>3. ASSUME NEW x \in PagesOf(a) \ U
        PROVE  /\ Data(b, x) = Data(a, x)
               /\ b.flags[x] \cap {"RSDNT", "DIRTY"} = {}
                    => b.mem[x] = IF "ZFILL" \in b.flags[x] THEN b.file[x] ELSE 0
               /\ "RSDNT" \in b.flags[x] /\ "ZFILL" \notin b.flags[x] => b.mem[x] = 0
    <3>1. CASE x \in in
      <4>1. "RSDNT" \in a.flags[x] /\ b.flags[x] = a.flags[x] \ Evicted
            /\ b.mem[x] = (IF "ZFILL" \in a.flags[x] THEN a.file[x] ELSE a.mem[x])
        BY <1>1, <2>1, <3>1 DEF Absent
      <4>2. "RSDNT" \notin b.flags[x] /\ ("ZFILL" \in b.flags[x] <=> "ZFILL" \in a.flags[x])
        BY <4>1 DEF Evicted
      <4>3. "ZFILL" \notin a.flags[x] => a.mem[x] = 0
        BY <4>1 DEF Backed
      <4> QED
        BY <2>1, <4>1, <4>2, <4>3 DEF Data
    <3>2. CASE x \notin in
      BY <1>1, <2>1, <3>2 DEF Data, Backed
    <3> QED
      BY <3>1, <3>2
  <2> QED
    BY <2>2, <2>3 DEF Backed, SameData, b
<1> QED
  BY <1>2, <1>3

LEMMA SwapOData ==
  ASSUME WholeWrites, NEW a, Wf(a), NEW R \in SUBSET PagesOf(a), NEW U, Backed(a, U)
  PROVE  LET b == vmm_swap_o(a, R) IN Backed(b, U) /\ SameData(a, b, U)
<1> DEFINE b == vmm_swap_o(a, R)
           D == R \cap DirtyPages(a)
<1>1. a \in Ates /\ PagesOf(a) \subseteq PageNos
  BY PagesFinite DEF Wf
<1>2. CASE a.l_pages = 0
  BY <1>2 DEF vmm_swap_o, SameData
<1>3. CASE a.l_pages # 0
  <2>1. vmm_write(D) = D
    <3>1. D \in SUBSET PageNos
      BY <1>1
    <3> HIDE DEF D
    <3> QED
      BY <3>1, WriteAll
  <2>2. /\ b.n_pages = a.n_pages
        /\ \A x \in PageNos :
             /\ b.flags[x] = IF x \notin R THEN a.flags[x]
                             ELSE Evicted \cup (IF x \in D THEN {"ZFILL"}
                                                ELSE a.flags[x] \cap {"ZFILL"})
             /\ b.mem[x] = IF x \in R THEN 0 ELSE a.mem[x]
             /\ b.file[x] = IF x \in D THEN a.mem[x] ELSE a.file[x]
    <3>1. /\ b \in Ates
          /\ b.n_pages = a.n_pages
          /\ b.l_pages = a.l_pages - Cardinality(R \cap Resident(a))
          /\ b.c_pages = a.c_pages - Cardinality(R \cap Resident(a))
          /\ b.d_pages = a.d_pages - Cardinality(D)
          /\ vmm_swap_o_ok(a, R)
          /\ \A x \in PageNos :
               /\ b.flags[x] = IF x \notin R THEN a.flags[x]
                               ELSE Evicted \cup (IF x \in D THEN {"ZFILL"}
                                                  ELSE a.flags[x] \cap {"ZFILL"})
               /\ b.prot[x] = IF x \in R THEN "none" ELSE a.prot[x]
               /\ b.mem[x] = IF x \in R THEN 0 ELSE a.mem[x]
               /\ b.file[x] = IF x \in vmm_write(D) THEN a.mem[x] ELSE a.file[x]
      BY <1>3, SwapOFields
    <3> HIDE DEF b, D
    <3> QED
      BY <2>1, <3>1
  <2> HIDE DEF b
  <2>3. PagesOf(b) = PagesOf(a)
    BY <2>2 DEF PagesOf
  <2>4. ASSUME NEW x \in PagesOf(a) \ U
        PROVE  /\ Data(b, x) = Data(a, x)
               /\ b.flags[x] \cap {"RSDNT", "DIRTY"} = {}
                    => b.mem[x] = IF "ZFILL" \in b.flags[x] THEN b.file[x] ELSE 0
               /\ "RSDNT" \in b.flags[x] /\ "ZFILL" \notin b.flags[x] => b.mem[x] = 0
    <3>1. CASE x \in D
      <4>1. b.flags[x] = Evicted \cup {"ZFILL"} /\ b.file[x] = a.mem[x] /\ "RSDNT" \notin a.flags[x]
        BY <1>1, <2>2, <3>1 DEF DirtyPages, Wf, Agree
      <4> QED
        BY <4>1 DEF Data, Evicted
    <3>2. CASE x \in R \ D
      <4>1. /\ b.flags[x] = Evicted \cup (a.flags[x] \cap {"ZFILL"})
            /\ b.file[x] = a.file[x] /\ b.mem[x] = 0 /\ "DIRTY" \notin a.flags[x]
        BY <1>1, <2>2, <3>2 DEF DirtyPages
      <4>2. "RSDNT" \in b.flags[x] /\ ("ZFILL" \in b.flags[x] <=> "ZFILL" \in a.flags[x])
        BY <4>1 DEF Evicted
      <4>3. "RSDNT" \notin a.flags[x]
              => a.mem[x] = IF "ZFILL" \in a.flags[x] THEN a.file[x] ELSE 0
        BY <4>1 DEF Backed
      <4> QED
        BY <4>1, <4>2, <4>3 DEF Data
    <3>3. CASE x \notin R
      BY <1>1, <2>2, <3>3 DEF Data, Backed
    <3> QED
      BY <3>1, <3>2, <3>3
  <2> QED
    BY <2>3, <2>4 DEF Backed, SameData, b
<1> QED
  BY <1>2, <1>3

\* What the abstract memory holds, in terms of Data.
LEMMA ContentsData ==
  /\ Contents = [x \in PagesOf(ate) |-> IF x \in undef THEN Undef ELSE Data(ate, x)]
  /\ Contents' = [x \in PagesOf(ate') |-> IF x \in undef' THEN Undef ELSE Data(ate', x)]
  BY DEF Contents, Content, Data, PagesOf

LEMMA SameContents ==
  ASSUME SameData(ate, ate', undef), undef' = undef
  PROVE  Contents' = Contents
<1>1. PagesOf(ate') = PagesOf(ate)
      /\ \A x \in PagesOf(ate) \ undef : Data(ate', x) = Data(ate, x)
  BY DEF SameData
<1> QED
  BY <1>1, ContentsData

LEMMA SwapInStep ==
  ASSUME DataInv, NEW R \in SUBSET PagesOf(ate), ate' = vmm_swap_i(ate, R),
         UNCHANGED <<out, undef>>
  PROVE  Backed(ate', undef') /\ UNCHANGED Memory!vars
<1>1. Backed(ate', undef) /\ SameData(ate, ate', undef)
  BY SwapIData DEF DataInv, PagesInv
<1> QED
  BY <1>1, SameContents DEF Memory!vars

LEMMA SwapOutStep ==
  ASSUME WholeWrites, DataInv, NEW R \in SUBSET PagesOf(ate), ate' = vmm_swap_o(ate, R),
         UNCHANGED <<out, undef>>
  PROVE  Backed(ate', undef') /\ UNCHANGED Memory!vars
<1>1. Backed(ate', undef) /\ SameData(ate, ate', undef)
  BY SwapOData DEF DataInv, PagesInv
<1> QED
  BY <1>1, SameContents DEF Memory!vars

\* sbma_mclear leaves unspecified what it clears, and nothing else.
LEMMA ClearStep ==
  ASSUME DataInv, NEW R \in SUBSET PagesOf(ate), sbma_mclear(R)
  PROVE  Backed(ate', undef') /\ Memory!Clear(R)
<1> DEFINE a == ate'
<1>1. a = vmm_swap_x(ate, R) /\ undef' = undef \cup R /\ out' = out
  BY ClearInv DEF DataInv
<1>2. /\ a.n_pages = ate.n_pages /\ a.mem = ate.mem /\ a.file = ate.file
      /\ \A x \in PageNos :
           a.flags[x] = IF x \in R THEN ate.flags[x] \ {"DIRTY", "ZFILL"} ELSE ate.flags[x]
  <2> DEFINE b == vmm_swap_x(ate, R)
  <2>1. Wf(ate)
    BY DEF DataInv, PagesInv
  <2>2. /\ b \in Ates
        /\ vmm_swap_x_ok(ate, R)
        /\ b.n_pages = ate.n_pages
        /\ b.l_pages = ate.l_pages
        /\ b.c_pages = ate.c_pages
        /\ b.d_pages = ate.d_pages - Cardinality(R \cap DirtyPages(ate))
        /\ b.mem = ate.mem
        /\ b.file = ate.file
        /\ \A x \in PageNos :
             /\ b.flags[x] = IF x \in R THEN ate.flags[x] \ {"DIRTY", "ZFILL"} ELSE ate.flags[x]
             /\ b.prot[x] = IF x \in R \cap DirtyPages(ate) THEN "read" ELSE ate.prot[x]
    BY <2>1, SwapXFields
  <2> HIDE DEF b
  <2> QED
    BY <1>1, <2>2 DEF b
<1> HIDE DEF a
<1>3. PagesOf(a) = PagesOf(ate) /\ PagesOf(ate) \subseteq PageNos
  BY <1>2, PagesFinite DEF PagesOf, DataInv, PagesInv, Wf
<1>4. \A x \in PagesOf(ate) \ R : a.flags[x] = ate.flags[x] /\ Data(a, x) = Data(ate, x)
  BY <1>2, <1>3 DEF Data
<1>5. Backed(a, undef')
  BY <1>1, <1>2, <1>3, <1>4 DEF Backed, DataInv
<1>6. Contents' = [x \in DOMAIN Contents |-> IF x \in R THEN Undef ELSE Contents[x]]
  BY <1>1, <1>3, <1>4, ContentsData DEF a
<1> QED
  BY <1>1, <1>5, <1>6 DEF Memory!Clear, a

\* A new allocation is zero.
LEMMA MallocStep ==
  ASSUME DataInv, NEW n \in 1 .. MaxPages, sbma_malloc(n)
  PROVE  Backed(ate', undef') /\ Memory!Malloc(n)
<1> DEFINE a == ate'
<1>1. /\ a.n_pages = n
      /\ \A x \in PageNos :
           /\ a.flags[x] = IF x \in 0 .. n - 1 /\ ~ opts.rsdnt THEN Evicted ELSE {}
           /\ a.mem[x] = 0 /\ a.file[x] = 0
  BY MallocFields DEF DataInv
<1>2. ate.n_pages = 0 /\ undef' = {} /\ out' = out
  BY DEF sbma_malloc
<1> HIDE DEF a
<1>3. PagesOf(a) = 0 .. n - 1 /\ PagesOf(a) \subseteq PageNos /\ PagesOf(ate) = {}
  BY <1>1, <1>2, PagesAssumption, SMTT(30) DEF PagesOf, PageNos
<1>4. \A x \in PagesOf(a) : Data(a, x) = 0 /\ "ZFILL" \notin a.flags[x] /\ a.mem[x] = 0
  BY <1>1, <1>3, SMTT(30) DEF Data, Evicted
<1>5. Backed(a, undef')
  BY <1>2, <1>4 DEF Backed
<1>6. DOMAIN Contents = {} /\ Contents' = [x \in 0 .. n - 1 |-> 0]
  BY <1>2, <1>3, <1>4, ContentsData DEF a
<1> QED
  BY <1>2, <1>5, <1>6 DEF Memory!Malloc, a

LEMMA FreeStep ==
  ASSUME DataInv, sbma_free
  PROVE  Backed(ate', undef') /\ Memory!Free
<1>1. ate.n_pages > 0 /\ ate.n_pages \in Nat /\ ate.c_pages \in Nat /\ ate.d_pages \in Nat
  BY SMTT(30) DEF sbma_free, Allocated, Release, DataInv, PagesInv, Wf, Ates
<1>2. ate' = NoAte /\ fault' = "none"
  BY <1>1, SMTT(30) DEF DataInv, PagesInv, sbma_free, Release, Finish
<1>3. out' = out
  BY <1>2 DEF sbma_free, Unspecified
<1>4. 0 \in PagesOf(ate) /\ PagesOf(ate') = {}
  BY <1>1, <1>2, SMTT(30) DEF PagesOf, NoAte
<1>5. DOMAIN Contents # {} /\ Contents' = [x \in {} |-> 0]
  BY <1>4, ContentsData
<1> QED
  BY <1>3, <1>4, <1>5 DEF Memory!Free, Backed

\* sbma_realloc keeps the pages there are; the new ones are unspecified.
LEMMA GrowStep ==
  ASSUME Core, DataInv, NEW nn \in 1 .. MaxPages, sbma_realloc_grow(nn)
  PROVE  Backed(ate', undef') /\ Memory!Realloc(nn)
<1> DEFINE new == ate.n_pages .. nn - 1
           a   == ate'
<1>1. /\ a.n_pages = nn /\ a.file = ate.file
      /\ \A x \in PageNos :
           /\ x \notin new => a.flags[x] = ate.flags[x]
           /\ x \notin new => a.mem[x] = ate.mem[x]
      /\ undef' = undef \cup new /\ out' = out
  BY GrowFields DEF DataInv
<1>2. ate.n_pages \in Nat /\ ate.n_pages > 0 /\ nn \in Nat /\ new # {}
  BY SMTT(30) DEF DataInv, PagesInv, Wf, Ates, sbma_realloc_grow, Allocated
<1> HIDE DEF a
<1>3. /\ PagesOf(a) = 0 .. nn - 1 /\ PagesOf(a) = PagesOf(ate) \cup new
      /\ PagesOf(ate) \cap new = {} /\ 0 \in PagesOf(ate) /\ PagesOf(ate) \subseteq PageNos
  BY <1>1, <1>2, PagesFinite, SMTT(30) DEF PagesOf, DataInv, PagesInv, Wf
<1>4. \A x \in PagesOf(ate) :
        a.flags[x] = ate.flags[x] /\ a.mem[x] = ate.mem[x] /\ Data(a, x) = Data(ate, x)
  BY <1>1, <1>3 DEF Data
<1>5. Backed(a, undef')
  BY <1>1, <1>3, <1>4 DEF Backed, DataInv
<1>6. /\ DOMAIN Contents # {}
      /\ Contents' = [x \in 0 .. nn - 1 |->
                        IF x \in DOMAIN Contents THEN Contents[x] ELSE Undef]
  <2>1. \A x \in PagesOf(a) :
          (IF x \in undef' THEN Undef ELSE Data(a, x)) =
            IF x \in PagesOf(ate) THEN IF x \in undef THEN Undef ELSE Data(ate, x) ELSE Undef
    BY <1>1, <1>3, <1>4
  <2> QED
    BY <1>3, <2>1, ContentsData DEF a
<1> QED
  BY <1>1, <1>5, <1>6 DEF Memory!Realloc, a

\* The first write to a page changes its protection, not its data.
LEMMA SegvDirtyStep ==
  ASSUME DataInv, NEW x \in PagesOf(ate), SegvDirty(x)
  PROVE  Backed(ate', undef') /\ UNCHANGED Memory!vars
<1> DEFINE a == ate'
<1>1. /\ x \in PageNos /\ "RSDNT" \notin ate.flags[x] /\ a.n_pages = ate.n_pages
      /\ a.mem = ate.mem /\ a.file = ate.file
      /\ a.flags = [ate.flags EXCEPT ![x] = {"DIRTY"}] /\ UNCHANGED <<out, undef>>
  BY SegvDirtyFields DEF DataInv
<1> HIDE DEF a
<1>2. PagesOf(a) = PagesOf(ate) /\ PagesOf(ate) \subseteq PageNos /\ ate \in Ates
  BY <1>1, PagesFinite DEF PagesOf, DataInv, PagesInv, Wf
<1>3. /\ \A y \in PageNos \ {x} : a.flags[y] = ate.flags[y]
      /\ a.flags[x] = {"DIRTY"}
  BY <1>1, <1>2 DEF Ates
<1>4. SameData(ate, a, undef)
  BY <1>1, <1>2, <1>3 DEF SameData, Data
<1>5. Backed(a, undef)
  BY <1>1, <1>2, <1>3 DEF Backed, DataInv
<1> QED
  BY <1>1, <1>4, <1>5, SameContents DEF Memory!vars, a

LEMMA StoreStep ==
  ASSUME DataInv, NEW x \in PagesOf(ate), NEW v \in Vals, Store(x, v)
  PROVE  Backed(ate', undef') /\ Memory!Store(x, v)
<1> DEFINE a == ate'
<1>1. /\ a.n_pages = ate.n_pages /\ a.flags = ate.flags /\ a.file = ate.file
      /\ a.mem = [ate.mem EXCEPT ![x] = v]
  BY StoreInv DEF DataInv
<1>2. undef' = undef \ {x} /\ out' = out /\ ate.prot[x] = "rw"
  BY DEF Store
<1>3. "DIRTY" \in ate.flags[x] /\ "RSDNT" \notin ate.flags[x]
  BY <1>2 DEF DataInv, PagesInv, Wf, Agree
<1> HIDE DEF a
<1>4. PagesOf(a) = PagesOf(ate) /\ PagesOf(ate) \subseteq PageNos /\ ate \in Ates
  BY <1>1, PagesFinite DEF PagesOf, DataInv, PagesInv, Wf
<1>5. a.mem[x] = v /\ \A y \in PageNos \ {x} : a.mem[y] = ate.mem[y]
  BY <1>1, <1>4 DEF Ates
<1>6. Backed(a, undef')
  BY <1>1, <1>2, <1>3, <1>4, <1>5 DEF Backed, DataInv
<1>7. Data(a, x) = v /\ \A y \in PagesOf(ate) \ {x} : Data(a, y) = Data(ate, y)
  BY <1>1, <1>3, <1>4, <1>5 DEF Data
<1>8. Contents' = [Contents EXCEPT ![x] = v]
  BY <1>2, <1>4, <1>7, ContentsData DEF a
<1> QED
  BY <1>2, <1>6, <1>8 DEF Memory!Store, a

\* A read that is let through reads the data.
LEMMA LoadStep ==
  ASSUME DataInv, NEW x \in PagesOf(ate), Load(x)
  PROVE  Backed(ate', undef') /\ Memory!Load(x)
<1>1. out' = ate.mem[x] /\ ate.prot[x] # "none" /\ UNCHANGED <<ate, undef>>
  BY DEF Load
<1>2. "RSDNT" \notin ate.flags[x] /\ ate.mem[x] \in Vals
  BY <1>1, PagesFinite DEF DataInv, PagesInv, Wf, Agree, Ates
<1>3. Contents' = Contents
  BY <1>1, ContentsData
<1>4. Contents[x] = IF x \in undef THEN Undef ELSE ate.mem[x]
  BY <1>2, ContentsData DEF Data
<1>5. out' \in (IF Contents[x] = Undef THEN Vals ELSE {Contents[x]})
  BY <1>1, <1>2, <1>4
<1> QED
  BY <1>1, <1>3, <1>5 DEF Memory!Load, DataInv

LEMMA DataInit == Init => DataInv /\ Memory!Init
<1> SUFFICES ASSUME Init PROVE DataInv /\ Memory!Init
  OBVIOUS
<1>1. PagesInv
  BY PagesInitInv
<1>2. PagesOf(ate) = {} /\ out = 0
  BY SMTT(30) DEF Init, NoAte, PagesOf
<1>3. Contents = [x \in {} |-> 0]
  BY <1>2, ContentsData
<1> QED
  BY <1>1, <1>2, <1>3 DEF DataInv, Backed, Memory!Init

\* Every step of the library is a step of the abstract memory, or none.
LEMMA DataStep ==
  ASSUME Core, WholeWrites, DataInv, [Next]_vars
  PROVE  DataInv' /\ [Memory!Next]_(Memory!vars)
<1>0. PagesInv' /\ PagesInv /\ DOMAIN Contents = PagesOf(ate)
  BY PagesStep, ContentsData DEF DataInv
<1> SUFFICES Backed(ate', undef') /\ [Memory!Next]_(Memory!vars)
  BY <1>0 DEF DataInv
<1>1. ASSUME NEW n \in 1 .. MaxPages,
             sbma_malloc(n) \/ sbma_realloc_shrink(n) \/ sbma_realloc_grow(n)
      PROVE  Backed(ate', undef') /\ (Memory!Malloc(n) \/ Memory!Realloc(n))
  BY <1>0, <1>1, MallocStep, GrowStep, CoreCalls
<1>2. ASSUME UNCHANGED <<ate, out, undef>>
      PROVE  Backed(ate', undef') /\ UNCHANGED Memory!vars
  BY <1>2, ContentsData DEF DataInv, Memory!vars
<1>3. CASE UNCHANGED vars \/ sbma_realloc_fails \/ sbma_mallopt
  BY <1>0, <1>2, <1>3, FailsSame DEF vars, sbma_mallopt
<1>4. CASE sbma_free
  BY <1>4, FreeStep DEF Memory!Next
<1>5. CASE sbma_mtouchall
  BY <1>0, <1>5, TouchallInv, SwapInStep
<1>6. CASE sbma_mevictall
  BY <1>0, <1>6, EvictallInv, SwapOutStep
<1>7. ASSUME NEW R \in Ranges(ate), sbma_mtouch(R) \/ sbma_mevict(R)
      PROVE  Backed(ate', undef') /\ UNCHANGED Memory!vars
  <2>1. R \in SUBSET PagesOf(ate)
    BY <1>0, RangesWithin DEF PagesInv, Wf
  <2> QED
    BY <1>0, <1>7, <2>1, TouchInv, EvictInv, SwapInStep, SwapOutStep
<1>8. ASSUME NEW R \in Ranges(ate), sbma_mclear(R)
      PROVE  /\ Backed(ate', undef')
             /\ \E S \in SUBSET (DOMAIN Contents) : Memory!Clear(S)
  <2>1. R \in SUBSET PagesOf(ate)
    BY <1>0, RangesWithin DEF PagesInv, Wf
  <2> QED
    BY <1>0, <1>8, <2>1, ClearStep
<1>9. ASSUME NEW x \in PagesOf(ate), Load(x)
      PROVE  Backed(ate', undef') /\ Memory!Load(x)
  BY <1>9, LoadStep
<1>10. ASSUME NEW x \in PagesOf(ate), SegvAbsent(x)
       PROVE  Backed(ate', undef') /\ UNCHANGED Memory!vars
  <2>1. (IF opts.lzyrd THEN {x} ELSE PagesOf(ate)) \in SUBSET PagesOf(ate)
    OBVIOUS
  <2> QED
    BY <1>0, <1>10, <2>1, TouchInv, SwapInStep DEF SegvAbsent
<1>11. ASSUME NEW x \in PagesOf(ate), SegvDirty(x)
       PROVE  Backed(ate', undef') /\ UNCHANGED Memory!vars
  BY <1>11, SegvDirtyStep
<1>12. ASSUME NEW x \in PagesOf(ate), NEW v \in Vals, Store(x, v)
       PROVE  Backed(ate', undef') /\ Memory!Store(x, v)
  BY <1>12, StoreStep
<1>13. ~ sbma_mclearall /\ ~ \E Rs \in ArgLists : sbma_mtouch_atomic(Rs)
  BY <1>0, CoreCalls
<1> QED
  BY <1>0, <1>1, <1>3, <1>4, <1>5, <1>6, <1>7, <1>8, <1>9, <1>10, <1>11, <1>12, <1>13 DEF Next, vmm_sigsegv,
    Memory!Next

\* What the application reads is what it wrote: through any number of faults,
\* touches, evictions to the file and back, clears and enlargements, in every
\* combination of lazy reading, ghost mapping and resident allocation that Core
\* admits, the library behaves as the plain memory of AppMemory.
THEOREM DataSurvives ==
  ASSUME Core, WholeWrites
  PROVE  Spec => Implements
<1>1. Init => DataInv /\ Memory!Init
  BY DataInit
<1>2. DataInv /\ [Next]_vars => DataInv' /\ [Memory!Next]_(Memory!vars)
  BY DataStep
<1> QED
  BY <1>1, <1>2, PTL DEF Spec, Implements, Memory!Spec

==========================================================================
