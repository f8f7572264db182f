------------------------------- MODULE AppHeap -------------------------------
(***************************************************************************)
(* What malloc, free and realloc promise: objects are ranges of bytes that *)
(* do not overlap, each handed out once until it is freed.                 *)
(***************************************************************************)
EXTENDS Integers, FiniteSets

VARIABLES objs,  \* the live objects: records [place, lo, hi]
          held   \* how many the application holds

HInit == objs = {} /\ held = 0

Disjoint(o, p) == o.place # p.place \/ o.hi <= p.lo \/ p.hi <= o.lo

Alloc(o) ==
  /\ \A p \in objs : Disjoint(o, p)
  /\ objs' = objs \cup {o}
  /\ held' = held + 1

Free(o) ==
  /\ objs' = objs \ {o}
  /\ held' = held - 1

Resize(o, n) ==
  /\ \A p \in objs \ {o} : Disjoint(n, p)
  /\ objs' = (objs \ {o}) \cup {n}
  /\ UNCHANGED held

HNext ==
  \/ \E o \in objs' \ objs : Alloc(o)
  \/ \E o \in objs \ objs' : Free(o)
  \/ \E o \in objs, n \in objs' : Resize(o, n)

HSpec == HInit /\ [][HNext]_<<objs, held>>

==============================================================================
