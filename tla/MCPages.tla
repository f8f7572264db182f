------------------------------ MODULE MCPages ------------------------------
(***************************************************************************)
(* The options and calls that the runs of Pages combine.                   *)
(***************************************************************************)
EXTENDS Pages

\* Lazy reading alone.
Lazy == [lzyrd |-> TRUE, aggch |-> FALSE, ghost |-> FALSE, rsdnt |-> FALSE,
         merge |-> FALSE, calls |-> {}]

\* New pages resident, whole allocations read at once into a ghost mapping.
Eager == [Lazy EXCEPT !.lzyrd = FALSE, !.ghost = TRUE, !.rsdnt = TRUE]

CoreConfigs == {[Lazy EXCEPT !.calls = {"grow", "mallopt"}],
                [Eager EXCEPT !.calls = {"grow", "mallopt"}]}

CallsConfigs == {[Lazy EXCEPT !.calls = {"shrink", "mclearall"}],
                 [Lazy EXCEPT !.aggch = TRUE]}

LazyConfigs      == {Lazy}
AggchConfigs     == {[Lazy EXCEPT !.aggch = TRUE]}
ShrinkConfigs    == {[Lazy EXCEPT !.calls = {"shrink"}]}
StaleConfigs     == {[Lazy EXCEPT !.calls = {"shrink", "grow"}]}
MclearallConfigs == {[Lazy EXCEPT !.calls = {"mclearall"}]}
MergeConfigs     == {[Lazy EXCEPT !.merge = TRUE, !.calls = {"grow"}]}

==========================================================================
