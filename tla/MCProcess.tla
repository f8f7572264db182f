------------------------------ MODULE MCProcess ------------------------------
(***************************************************************************)
(* What surrounds the page management in one process: its threads and      *)
(* their locks, and the hooks of libc.  They share no state: which says    *)
(* what runs, the threads, the hooks of the allocator or those of files.   *)
(***************************************************************************)
EXTENDS MmuThreads, Hooks, TLC

VARIABLE which

mcvars == <<mmuvars, hookvars, which>>

MCInit ==
  /\ which \in {"threads", "alloc", "files"}
  /\ MmuInit /\ HookInit

\* What dlsym allocates is followed with the hooks of the allocator only.
MCNext ==
  /\ UNCHANGED which
  /\ \/ which = "threads" /\ MmuNext /\ UNCHANGED hookvars
     \/ which = "alloc" /\ (AllocNext \/ InHook) /\ UNCHANGED mmuvars
     \/ which = "files" /\ (FileNext \/ InHook) /\ ptrs' = {} /\ UNCHANGED mmuvars

MCSpec == MCInit /\ [][MCNext]_mcvars

\* Nothing tells the threads, the entries, the callers or the pages of the buffer
\* apart.
Symmetry ==
  Permutations(Workers) \union Permutations(Ates) \union Permutations(Callers) \union Permutations(Buffer)

==============================================================================
