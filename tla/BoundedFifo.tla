----------------------------- MODULE BoundedFifo -----------------------------
(***************************************************************************)
(* What the queue of src/old/asio/asio.c promises: items leave in the      *)
(* order they entered, each is handed to exactly one taker, and never more *)
(* than Capacity of them are stored.  Asio is shown to implement this      *)
(* module.                                                                 *)
(***************************************************************************)
EXTENDS Naturals, Sequences

CONSTANTS Items, Takers, Capacity, NoItem

VARIABLES items, \* what is stored, oldest first
          hand   \* the item each taker is working on

vars == <<items, hand>>

Init ==
  /\ items = <<>>
  /\ hand = [t \in Takers |-> NoItem]

Put(i) ==
  /\ Len(items) < Capacity
  /\ items' = Append(items, i)
  /\ UNCHANGED hand

Take(t) ==
  /\ items # <<>>
  /\ hand[t] = NoItem
  /\ hand' = [hand EXCEPT ![t] = Head(items)]
  /\ items' = Tail(items)

Finish(t) ==
  /\ hand[t] # NoItem
  /\ hand' = [hand EXCEPT ![t] = NoItem]
  /\ UNCHANGED items

Next ==
  \/ \E i \in Items : Put(i)
  \/ \E t \in Takers : Take(t) \/ Finish(t)

Spec == Init /\ [][Next]_vars

==============================================================================
