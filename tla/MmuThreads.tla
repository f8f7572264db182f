----------------------------- MODULE MmuThreads ------------------------------
(***************************************************************************)
(* The threads of one process (the build with USE_THREAD) and the three    *)
(* kinds of mutexes they take: mmu.lock around the doubly linked list of   *)
(* allocation table entries, vmm.lock around the statistics and the walks  *)
(* over all entries, and the lock of each entry.  All are recursive.       *)
(*                                                                         *)
(* A call is the list of the steps still to do; what the steps do to the   *)
(* pages is in module Pages.  Any thread makes any call at any time, with  *)
(* the one exception that mmu/insert_ate.c and mmu/invalidate_ate.c state: *)
(* no thread frees an entry that a call of another is about.  The handler  *)
(* of SIGIPC takes the locks that sbma_mevictall takes, and is that call.  *)
(***************************************************************************)
EXTENDS Integers, Sequences, FiniteSets

CONSTANTS
  Workers,   \* the threads
  Ates,      \* the allocation table entries
  Calls      \* the calls that the threads make

NoAte == "NULL"

ASSUME MmuAssumption ==
  /\ Ates \intersect {"mmu", "vmm", "all", "lock", "unlock", NoAte} = {}
  /\ NoAte \notin Workers

Locks == {"mmu", "vmm"} \union Ates

VARIABLES
  calling,           \* of each thread: the call it makes, or made last
  a_tbl, next, prev, \* the list
  mapped,            \* entries whose memory is mapped
  holder, depth,     \* of each lock
  todo,              \* of each thread: the steps left
  cur,               \* its position in the list
  stray,             \* did a thread read an entry that is not mapped?
  caught             \* was an entry freed under a walk over all entries?

list == <<a_tbl, next, prev, mapped>>
locking == <<holder, depth>>
mmuvars == <<calling, list, locking, todo, cur, stray, caught>>

MmuInit ==
  /\ calling = [t \in Workers |-> "none"]
  /\ a_tbl = NoAte
  /\ next = [a \in Ates |-> NoAte] /\ prev = [a \in Ates |-> NoAte]
  /\ mapped = {}
  /\ holder = [l \in Locks |-> NoAte] /\ depth = [l \in Locks |-> 0]
  /\ todo = [t \in Workers |-> <<>>]
  /\ cur = [t \in Workers |-> NoAte]
  /\ stray = FALSE /\ caught = FALSE

Do(what, on) == <<what, on>>

(***************************************************************************)
(* The calls, as the locks they take and give back.                        *)
(***************************************************************************)
\* Mutant: the table is searched without its lock.
LookupUnlocked(a) == << Do("first", a), Do("get", a) >>

\* mmu_lookup_ate keeps the entry locked.
Lookup(a) == << Do("get", "mmu"), Do("first", a), Do("get", a), Do("let", "mmu") >>

\* VMM_INTRA_CRITICAL_SECTION around VMM_TRACK.
Track == << Do("get", "vmm"), Do("let", "vmm") >>

mexist(a) == Lookup(a) \o << Do("let", a) >>
\* Mutant: the entry is locked while the statistics are updated.
TouchTrackLocked(a) == Lookup(a) \o Track \o << Do("let", a) >>
sbma_mtouch(a) == Lookup(a) \o << Do("let", a) >> \o Track
\* The handler calls sbma_mtouch with the entry locked.
read_fault(a) == Lookup(a) \o Track \o << Do("let", a) >> \o Track
write_fault(a) == Lookup(a) \o << Do("let", a) >> \o Track
sbma_mtouch_atomic(a, b) == Lookup(a) \o Lookup(b) \o << Do("let", a), Do("let", b) >> \o Track
sbma_mevictall == << Do("get", "vmm"), Do("walk", "all"), Do("let", "vmm") >> \o Track
sbma_mtouchall ==
  << Do("get", "vmm"), Do("walk", "lock"), Do("walk", "unlock"), Do("let", "vmm") >> \o Track
sbma_malloc(a) == << Do("get", "mmu"), Do("insert", a), Do("let", "mmu") >>
sbma_free(a) == << Do("get", "mmu"), Do("remove", a), Do("let", "mmu"), Do("munmap", a) >>

Steps(t) == {todo[t][k] : k \in 1 .. Len(todo[t])}
AllSteps == UNION {Steps(t) : t \in Workers}

\* Entries no call is about, entries that are allocated and not about to be freed.
Idle == {a \in mapped : \A s \in AllSteps : s[2] # a}
Allocated == {a \in mapped : Do("insert", a) \notin AllSteps /\ Do("munmap", a) \notin AllSteps}

Begin(t, name, steps) ==
  /\ todo[t] = <<>> /\ name \in Calls
  /\ todo' = [todo EXCEPT ![t] = steps] /\ calling' = [calling EXCEPT ![t] = name]
  /\ UNCHANGED <<locking, cur, stray, caught>>

\* The application's calls.
Access(t) ==
  \E a \in Allocated :
    /\ UNCHANGED list
    /\ \/ Begin(t, "mexist", mexist(a))
       \/ Begin(t, "mtouch", sbma_mtouch(a))
       \/ Begin(t, "read fault", read_fault(a))
       \/ Begin(t, "write fault", write_fault(a))

CopyRanges(t) ==
  \E a, b \in Allocated :
    a # b /\ Begin(t, "atomic", sbma_mtouch_atomic(a, b)) /\ UNCHANGED list

EvictAll(t) == Begin(t, "mevictall", sbma_mevictall) /\ UNCHANGED list

TouchAll(t) == Begin(t, "mtouchall", sbma_mtouchall) /\ UNCHANGED list

\* sbma_malloc maps the entry before it inserts it.
Malloc(t) ==
  \E a \in Ates \ mapped :
    /\ Begin(t, "malloc", sbma_malloc(a)) /\ mapped' = mapped \union {a}
    /\ UNCHANGED <<a_tbl, next, prev>>

Free(t) == \E a \in Idle : Begin(t, "free", sbma_free(a)) /\ UNCHANGED list

(***************************************************************************)
(* The steps.                                                              *)
(***************************************************************************)
Now(t, what, on) == todo[t] # <<>> /\ Head(todo[t]) = Do(what, on)
Then(t, steps) == todo' = [todo EXCEPT ![t] = steps \o Tail(@)]

Get(t) ==
  \E l \in Locks :
    /\ Now(t, "get", l) /\ (holder[l] = NoAte \/ holder[l] = t)
    /\ holder' = [holder EXCEPT ![l] = t] /\ depth' = [depth EXCEPT ![l] = @ + 1]
    /\ stray' = (stray \/ (l \in Ates /\ l \notin mapped))
    /\ Then(t, <<>>) /\ UNCHANGED <<calling, list, cur, caught>>

Let(t) ==
  \E l \in Locks :
    /\ Now(t, "let", l)
    /\ depth' = [depth EXCEPT ![l] = @ - 1]
    /\ holder' = [holder EXCEPT ![l] = IF depth[l] = 1 THEN NoAte ELSE @]
    /\ Then(t, <<>>) /\ UNCHANGED <<calling, list, cur, stray, caught>>

\* sbma_mtouchall gives back a lock that it may never have taken: of an entry
\* inserted since.  pthread_mutex_unlock then fails with EPERM, which lock_let
\* returns and the test for -1 misses.
Drop(t) ==
  \E a \in Ates :
    /\ Now(t, "drop", a)
    /\ IF holder[a] # t THEN UNCHANGED locking
       ELSE /\ depth' = [depth EXCEPT ![a] = @ - 1]
            /\ holder' = [holder EXCEPT ![a] = IF depth[a] = 1 THEN NoAte ELSE @]
    /\ Then(t, <<>>) /\ UNCHANGED <<calling, list, cur, stray, caught>>

\* The search of mmu_lookup_ate, one entry at a time.
SearchFirst(t) ==
  \E a \in Ates :
    /\ Now(t, "first", a)
    /\ cur' = [cur EXCEPT ![t] = a_tbl] /\ Then(t, << Do("search", a) >>)
    /\ UNCHANGED <<calling, list, locking, stray, caught>>

Search(t) ==
  \E a \in Ates :
    /\ Now(t, "search", a)
    /\ stray' = (stray \/ (cur[t] # NoAte /\ cur[t] \notin mapped))
    /\ IF cur[t] \in {NoAte, a} THEN Then(t, <<>>) /\ UNCHANGED cur
       ELSE cur' = [cur EXCEPT ![t] = next[cur[t]]] /\ UNCHANGED todo
    /\ UNCHANGED <<calling, list, locking, caught>>

\* The loops of sbma_mevictall_int, which locks and unlocks every entry in turn,
\* and of sbma_mtouchall, which locks them all and then unlocks them all.
Visit(how, a) ==
  IF how = "all" THEN << Do("get", a), Do("let", a), Do("more", how) >>
  ELSE << Do(IF how = "lock" THEN "get" ELSE "drop", a), Do("more", how) >>

Walk(t) ==
  \E how \in {"all", "lock", "unlock"} :
    /\ Now(t, "walk", how)
    /\ cur' = [cur EXCEPT ![t] = a_tbl]
    /\ Then(t, IF a_tbl = NoAte THEN <<>> ELSE Visit(how, a_tbl))
    /\ UNCHANGED <<calling, list, locking, stray, caught>>

WalkOn(t) ==
  \E how \in {"all", "lock", "unlock"} :
    /\ Now(t, "more", how)
    /\ stray' = (stray \/ cur[t] \notin mapped)
    /\ cur' = [cur EXCEPT ![t] = next[cur[t]]]
    /\ Then(t, IF next[cur[t]] = NoAte THEN <<>> ELSE Visit(how, next[cur[t]]))
    /\ UNCHANGED <<calling, list, locking, caught>>

mmu_insert_ate(t) ==
  \E a \in Ates :
    /\ Now(t, "insert", a)
    /\ a_tbl' = a
    /\ next' = [next EXCEPT ![a] = a_tbl]
    /\ prev' = [b \in Ates |-> IF b = a THEN IF a_tbl = NoAte THEN NoAte ELSE prev[a_tbl]
                               ELSE IF b = a_tbl THEN a ELSE prev[b]]
    /\ Then(t, <<>>) /\ UNCHANGED <<calling, mapped, locking, cur, stray, caught>>

\* A walk stands on the entry, or has locked it.
Walks(t, a) == cur[t] = a /\ \E how \in {"all", "lock", "unlock"} : Do("more", how) \in Steps(t)
UnderWalk(a) == holder[a] # NoAte \/ \E t \in Workers : Walks(t, a)

\* mmu_invalidate_ate takes neither vmm.lock nor the lock of the entry.
mmu_invalidate_ate(t) ==
  \E a \in Ates :
    /\ Now(t, "remove", a)
    /\ IF prev[a] = NoAte THEN a_tbl' = next[a] /\ UNCHANGED next
       ELSE next' = [next EXCEPT ![prev[a]] = next[a]] /\ UNCHANGED a_tbl
    /\ prev' = IF next[a] = NoAte THEN prev ELSE [prev EXCEPT ![next[a]] = prev[a]]
    /\ caught' = UnderWalk(a)
    /\ Then(t, <<>>) /\ UNCHANGED <<calling, mapped, locking, cur, stray>>

\* lock_free and munmap.
Munmap(t) ==
  \E a \in Ates :
    /\ Now(t, "munmap", a)
    /\ mapped' = mapped \ {a}
    /\ Then(t, <<>>) /\ UNCHANGED <<calling, a_tbl, next, prev, locking, cur, stray, caught>>

MmuStep(t) ==
  \/ Get(t) \/ Let(t) \/ Drop(t) \/ SearchFirst(t) \/ Search(t) \/ Walk(t) \/ WalkOn(t)
  \/ mmu_insert_ate(t) \/ mmu_invalidate_ate(t) \/ Munmap(t)

\* What becomes of a walk under which an entry is freed is undefined.
MmuNext ==
  /\ ~ caught
  /\ \E t \in Workers :
       \/ MmuStep(t) \/ Access(t) \/ CopyRanges(t) \/ EvictAll(t) \/ TouchAll(t)
       \/ Malloc(t) \/ Free(t)

MmuSpec == MmuInit /\ [][MmuNext]_mmuvars

------------------------------------------------------------------------------
\* What following next from a_tbl visits: the entries that are in every set that
\* next does not leave and a_tbl is in.
Kept(S) == \A b \in S : next[b] \in S \union {NoAte}
Chain == {a \in Ates : \A S \in SUBSET Ates : Kept(S) /\ a_tbl \in S \union {NoAte} => a \in S}
Inserted == {a \in mapped : /\ Do("insert", a) \notin AllSteps
                            /\ Do("munmap", a) \in AllSteps => Do("remove", a) \in AllSteps}

\* The list holds exactly the entries that were inserted and not removed, and
\* its two directions agree (mmu_insert_ate and mmu_invalidate_ate of all threads).
ListIntact ==
  /\ Chain = Inserted
  /\ \A a \in Chain : IF a = a_tbl THEN prev[a] = NoAte
                    ELSE prev[a] # NoAte /\ next[prev[a]] = a

\* No thread follows a pointer into an entry that sbma_free has unmapped, while
\* searching past it or while locking it.
NoStrayRead == ~ stray

\* No entry is freed under a walk, which holds vmm.lock and not mmu.lock.
FreesApart == ~ caught

\* A lookup of an entry in the list finds it, however the list changes before and
\* behind the search.
Finds == \A t \in Workers, a \in Ates :
  Now(t, "get", a) /\ Len(todo[t]) > 1 /\ todo[t][2] = Do("let", "mmu") => cur[t] = a

\* mmu_lookup_ate is right while other threads insert, remove and unmap: the list
\* keeps its links, the search stays on it and finds what is there.
LookupSound == ListIntact /\ NoStrayRead /\ Finds

Waits(t, u) == \E l \in Locks : Now(t, "get", l) /\ holder[l] = u /\ u # t
Circle(S) == S # {} /\ \A t \in S : \E u \in S : Waits(t, u)

\* No threads wait for each other's locks in a circle.
NoLockCircle == \A S \in SUBSET Workers : ~ Circle(S)

\* Threads wait for each other's locks in a circle only where one of them is in
\* sbma_mtouch_atomic, which keeps an entry while it looks up the next, or where one
\* walks over all entries and another handles a read fault: the one holds vmm.lock
\* and takes the entries, the other holds an entry and takes vmm.lock.
CircleCause ==
  \A S \in SUBSET Workers : Circle(S) =>
    \/ \E t \in S : calling[t] = "atomic"
    \/ \E t, u \in S : calling[t] \in {"mevictall", "mtouchall"} /\ calling[u] = "read fault"

==============================================================================
