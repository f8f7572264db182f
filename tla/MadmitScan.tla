---------------------------- MODULE MadmitScan ----------------------------
(***************************************************************************)
(* The scan of ipc_madmit for the process to evict: one pass over all      *)
(* processes, keeping the best found so far in ii, mx_c_mem and mx_d_mem.  *)
(*                                                                         *)
(* The scanning process holds inter_mtx, so c_mem and the eligibility of   *)
(* the others do not change under it (Handshake in module Ipc), but the    *)
(* others keep changing d_mem through ipc_mdirty, which takes no lock that *)
(* the scan holds.                                                         *)
(***************************************************************************)
EXTENDS Integers

CONSTANTS
  N,         \* n_procs
  MaxPages,  \* the most a process is charged for
  SizeMax    \* SIZE_MAX

ASSUME ScanAssumption ==
  /\ N \in Nat
  /\ MaxPages \in Nat
  /\ SizeMax \in Nat
  /\ MaxPages < SizeMax

Procs == 1 .. N

VARIABLES
  c_mem, d_mem, sigon,  \* of every process
  id,                   \* the scanning process
  need,                 \* value - s_mem, what is missing
  admitd,               \* the option VMM_ADMITD
  i, ii, mx_c_mem, mx_d_mem,
  pc,
  moved                 \* history: d_mem has changed during the scan

inputs == <<c_mem, sigon, id, need, admitd>>
best   == <<ii, mx_c_mem, mx_d_mem>>
vars   == <<inputs, d_mem, i, best, pc, moved>>

Init ==
  /\ c_mem \in [Procs -> 0 .. MaxPages]
  /\ d_mem \in [Procs -> 0 .. MaxPages]
  /\ sigon \in [Procs -> BOOLEAN]
  /\ id \in Procs
  /\ need \in 1 .. MaxPages
  /\ admitd \in BOOLEAN
  /\ i = 1
  /\ ii = 0
  /\ mx_c_mem = 0
  /\ mx_d_mem = SizeMax
  /\ pc = "test"
  /\ moved = FALSE

ipc_is_eligible(p) == c_mem[p] # 0 \/ sigon[p]

\* Mutant: a process that covers the shortage gives way to any smaller one.
MutBetterSmaller ==
  \/ mx_c_mem < need /\ c_mem[i] > mx_c_mem
  \/ ~admitd /\ c_mem[i] < mx_c_mem
  \/ admitd /\ c_mem[i] >= need /\ d_mem[i] < mx_d_mem

\* The condition under which process i replaces the best found so far.
Better ==
  \/ mx_c_mem < need /\ c_mem[i] > mx_c_mem
  \/ /\ c_mem[i] >= need
     /\ \/ ~admitd /\ c_mem[i] < mx_c_mem
        \/ admitd /\ d_mem[i] < mx_d_mem

\* Skip oneself, skip the ineligible, skip what is not better.
ScanSkip ==
  /\ pc = "test"
  /\ i <= N
  /\ i = id \/ ~ipc_is_eligible(i) \/ ~Better
  /\ i' = i + 1
  /\ UNCHANGED <<inputs, d_mem, best, pc, moved>>

ScanAccept ==
  /\ pc = "test"
  /\ i <= N
  /\ i # id
  /\ ipc_is_eligible(i)
  /\ Better
  /\ pc' = "take"
  /\ UNCHANGED <<inputs, d_mem, i, best, moved>>

\* Mutant: mx_d_mem is not updated.
MutTakeNoDirty ==
  /\ pc = "take"
  /\ ii' = i
  /\ mx_c_mem' = c_mem[i]
  /\ i' = i + 1
  /\ pc' = "test"
  /\ UNCHANGED <<inputs, d_mem, mx_d_mem, moved>>

\* The body of the if, which reads c_mem[i] and d_mem[i] a second time.
ScanTake ==
  /\ pc = "take"
  /\ ii' = i
  /\ mx_c_mem' = c_mem[i]
  /\ mx_d_mem' = d_mem[i]
  /\ i' = i + 1
  /\ pc' = "test"
  /\ UNCHANGED <<inputs, d_mem, moved>>

ScanEnd ==
  /\ pc = "test"
  /\ i > N
  /\ pc' = "end"
  /\ UNCHANGED <<inputs, d_mem, i, best, moved>>

\* Another process dirties pages, or lowers its count, during the scan.
OthersDirty ==
  /\ pc # "end"
  /\ \E q \in Procs \ {id}, n \in 0 .. MaxPages :
       /\ n # d_mem[q]
       /\ d_mem' = [d_mem EXCEPT ![q] = n]
  /\ moved' = TRUE
  /\ UNCHANGED <<inputs, i, best, pc>>

Next == ScanSkip \/ ScanAccept \/ ScanTake \/ ScanEnd \/ OthersDirty

Spec == Init /\ [][Next]_vars

--------------------------------------------------------------------------
\* The variables keep their types: the loop index stays within the shared
\* arrays and the running maximum is what some process is charged for.
TypeOK ==
  /\ c_mem \in [Procs -> 0 .. MaxPages]
  /\ d_mem \in [Procs -> 0 .. MaxPages]
  /\ sigon \in [Procs -> BOOLEAN]
  /\ id \in Procs
  /\ need \in 1 .. MaxPages
  /\ admitd \in BOOLEAN
  /\ i \in 1 .. N + 1
  /\ ii \in 0 .. N
  /\ mx_c_mem \in 0 .. MaxPages
  /\ mx_d_mem \in Nat
  /\ pc \in {"test", "take", "end"}
  /\ moved \in BOOLEAN

\* Who could release memory, and who could release all that is missing.
Candidates == {p \in Procs \ {id} : c_mem[p] > 0}
Fitting    == {p \in Candidates : c_mem[p] >= need}

\* The scan's result obeys the rule stated above the condition in ipc_madmit,
\* however d_mem changes during the scan ("if a stale ipc->d_mem value is read,
\* then resulting execution will still be correct"): it finds a process if any
\* has resident memory; the one with the most if none covers the shortage; one
\* that covers it otherwise, and then the smallest such unless the option
\* admitd decides by dirty memory.
ChoiceCorrect ==
  pc = "end" =>
    /\ ii = 0 <=> Candidates = {}
    /\ ii # 0 =>
         /\ ii \in Candidates
         /\ Fitting = {} => \A p \in Candidates : c_mem[p] <= c_mem[ii]
         /\ Fitting # {} => ii \in Fitting
         /\ ~admitd => \A p \in Fitting : c_mem[ii] <= c_mem[p]

\* With admitd, and as long as nobody's d_mem changes, the choice among the
\* processes that cover the shortage is one with the least dirty memory.
LeastDirty ==
  pc = "end" /\ admitd /\ ~moved =>
    \A p \in Fitting : d_mem[ii] <= d_mem[p]

--------------------------------------------------------------------------
\* The loop invariant: ii is the best among the processes passed so far.
ScanInv ==
  /\ pc = "end" => i > N
  /\ ii = 0 => mx_c_mem = 0
  /\ ii # 0 => ii \in Candidates /\ mx_c_mem = c_mem[ii]
  /\ \A p \in Candidates : p < i =>
       /\ ii # 0
       /\ mx_c_mem < need => c_mem[p] <= mx_c_mem
       /\ c_mem[p] >= need => mx_c_mem >= need
       /\ c_mem[p] >= need /\ ~admitd => mx_c_mem <= c_mem[p]
  /\ pc = "take" =>
       /\ i <= N /\ i \in Candidates
       /\ \/ mx_c_mem < need /\ c_mem[i] > mx_c_mem
          \/ c_mem[i] >= need /\ (~admitd => c_mem[i] < mx_c_mem)

\* The same for dirty memory, while d_mem stands still.
DirtyInv ==
  admitd /\ ~moved =>
    /\ ii # 0 => mx_d_mem = d_mem[ii]
    /\ \A p \in Fitting : p < i => mx_d_mem <= d_mem[p]
    /\ pc = "take" => Better

==========================================================================
