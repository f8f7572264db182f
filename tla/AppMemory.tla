----------------------------- MODULE AppMemory -----------------------------
(***************************************************************************)
(* What an application may expect of one allocation: it reads what it      *)
(* wrote last, new memory is zero, and only what it has cleared itself, or *)
(* got by enlarging the allocation, holds unspecified data.                *)
(***************************************************************************)
EXTENDS Integers

CONSTANTS
  MaxPages,  \* the largest allocation
  Vals,      \* contents of a page; 0 is a page of zeros
  Undef      \* unspecified contents

VARIABLES
  val,  \* contents of the pages of the allocation, the empty function if none
  out   \* what the application read last

vars == <<val, out>>

Init == val = [x \in {} |-> 0] /\ out = 0

Malloc(n) ==
  /\ DOMAIN val = {}
  /\ val' = [x \in 0 .. n - 1 |-> 0]
  /\ UNCHANGED out

Free ==
  /\ DOMAIN val # {}
  /\ val' = [x \in {} |-> 0]
  /\ UNCHANGED out

Realloc(n) ==
  /\ DOMAIN val # {}
  /\ val' = [x \in 0 .. n - 1 |-> IF x \in DOMAIN val THEN val[x] ELSE Undef]
  /\ UNCHANGED out

Load(x) ==
  /\ out' \in (IF val[x] = Undef THEN Vals ELSE {val[x]})
  /\ UNCHANGED val

Store(x, v) ==
  /\ val' = [val EXCEPT ![x] = v]
  /\ UNCHANGED out

Clear(R) ==
  /\ val' = [x \in DOMAIN val |-> IF x \in R THEN Undef ELSE val[x]]
  /\ UNCHANGED out

Next ==
  \/ \E n \in 1 .. MaxPages : Malloc(n) \/ Realloc(n)
  \/ Free
  \/ \E x \in DOMAIN val : Load(x) \/ \E v \in Vals : Store(x, v)
  \/ \E R \in SUBSET (DOMAIN val) : Clear(R)

Spec == Init /\ [][Next]_vars

==========================================================================
