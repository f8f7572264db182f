------------------------------- MODULE Ipc -------------------------------
(***************************************************************************)
(* The memory-exchange protocol between the processes of one SBMA run.     *)
(*                                                                         *)
(* The processes share a budget of MaxMem system pages: s_mem is what is   *)
(* left of it, c_mem[p] what process p is charged for, d_mem[p] how much   *)
(* of that p has dirtied.  A process that needs pages (ipc_madmit) takes   *)
(* inter_mtx and, while the budget is too small, sends SIGIPC to another   *)
(* process and waits on the semaphore done; the handler of that process    *)
(* (vmm_sigipc) evicts its whole allocation table, returns the pages       *)
(* without taking inter_mtx, and posts done.                               *)
(*                                                                         *)
(* The build modelled is the default one, without USE_THREAD: a process is *)
(* one flow of control (pc) which its SIGIPC handler (hpc) interrupts      *)
(* between any two steps; while the handler runs the flow does not.  The   *)
(* library's calls are followed from the moment they read the allocation   *)
(* table until they return.  Every update of s_mem is a load and a store.  *)
(***************************************************************************)
EXTENDS Integers, FiniteSets

CONSTANTS
  N,        \* n_procs, the number of processes
  MaxMem,   \* max_mem, the budget in system pages
  Pages,    \* the pages of the one allocation a process holds
  Meta,     \* pages charged for an allocation's metadata (0 without METACH)
  Rsdnt     \* TRUE: a new allocation is resident (option rsdnt)

ASSUME ConstantsAssumption ==
  /\ N \in Nat
  /\ MaxMem \in Nat
  /\ IsFiniteSet(Pages)
  /\ Meta \in Nat
  /\ Rsdnt \in BOOLEAN

Procs == 1 .. N

VARIABLES
  \* the shared segment and the semaphores
  s_mem, c_mem, d_mem,
  sigon,      \* the IPC_SIGON bit of flags[p]
  inter_mtx, done,
  \* control of each process
  pc, hpc,
  pend,       \* SIGIPCs sent to the process and not yet delivered
  intra_mtx,  \* who holds the process-private mutex: "free", "main", "hand"
  fault,      \* the ASSERT that ended the process, or "none"
  \* locals of the interrupted flow and of the handler
  c_arg, d_arg,   \* the amounts passed to ipc_madmit or ipc_mevict
  snap,           \* ipc_madmit's local copy of s_mem
  reg,            \* s_mem as loaded by a read-modify-write of the flow
  h_c, h_d, hreg, \* the handler's amounts and its loaded s_mem
  range,          \* the pages a library call works on
  then,           \* where the flow goes after ipc_madmit
  \* the allocation table
  alloc, charged, dirty,
  d_pages         \* ate->d_pages, which lags behind the DIRTY flags

shared  == <<s_mem, c_mem, d_mem>>
sems    == <<inter_mtx, done>>
hand    == <<hpc, h_c, h_d, hreg>>
locals  == <<c_arg, d_arg, range, then>>
table   == <<alloc, charged, dirty, d_pages>>
vars    == <<shared, sems, hand, locals, table, sigon, pc, pend, intra_mtx,
             fault, snap, reg>>

FlowStates ==
  {"idle", "madmit_beg", "read", "scan", "wait_done", "inc", "madmit_end",
   "swap_i", "insert", "swap_o", "swap_x", "unlink", "mevict_beg", "dec_lock",
   "dec", "dec_st", "mevict_end", "d_count", "mdirty_lock", "mdirty", "gone"}

HandlerStates == {"none", "elig", "evict", "lock", "dec", "dec_st", "post"}

Faults == {"none", "sem_wait", "madmit", "c_mem", "d_mem", "d_pages"}

\* ipc_init by the creating process, and the flow of every process at rest.
Init ==
  /\ s_mem = MaxMem
  /\ c_mem = [p \in Procs |-> 0]
  /\ d_mem = [p \in Procs |-> 0]
  /\ sigon = [p \in Procs |-> FALSE]
  /\ inter_mtx = 1
  /\ done = 0
  /\ pc = [p \in Procs |-> "idle"]
  /\ hpc = [p \in Procs |-> "none"]
  /\ pend = [p \in Procs |-> 0]
  /\ intra_mtx = [p \in Procs |-> "free"]
  /\ fault = [p \in Procs |-> "none"]
  /\ c_arg = [p \in Procs |-> 0]
  /\ d_arg = [p \in Procs |-> 0]
  /\ snap = [p \in Procs |-> 0]
  /\ reg = [p \in Procs |-> 0]
  /\ h_c = [p \in Procs |-> 0]
  /\ h_d = [p \in Procs |-> 0]
  /\ hreg = [p \in Procs |-> 0]
  /\ range = [p \in Procs |-> {}]
  /\ then = [p \in Procs |-> "idle"]
  /\ alloc = [p \in Procs |-> FALSE]
  /\ charged = [p \in Procs |-> {}]
  /\ dirty = [p \in Procs |-> {}]
  /\ d_pages = [p \in Procs |-> 0]

\* The flow of p steps from one program point to another.  It cannot while
\* p's SIGIPC handler is running on top of it.
Flow(p, from, to) ==
  /\ pc[p] = from
  /\ hpc[p] = "none"
  /\ pc' = [pc EXCEPT ![p] = to]

\* A step of p's handler.
Handler(p, from, to) ==
  /\ hpc[p] = from
  /\ hpc' = [hpc EXCEPT ![p] = to]

\* A library call returns; its locals are dead.
Return(p) ==
  /\ c_arg' = [c_arg EXCEPT ![p] = 0]
  /\ d_arg' = [d_arg EXCEPT ![p] = 0]
  /\ range' = [range EXCEPT ![p] = {}]
  /\ then' = [then EXCEPT ![p] = "idle"]

\* The private memory of p disappears with it.
Vanish(p) ==
  /\ Return(p)
  /\ snap' = [snap EXCEPT ![p] = 0]
  /\ reg' = [reg EXCEPT ![p] = 0]
  /\ hpc' = [hpc EXCEPT ![p] = "none"]
  /\ h_c' = [h_c EXCEPT ![p] = 0]
  /\ h_d' = [h_d EXCEPT ![p] = 0]
  /\ hreg' = [hreg EXCEPT ![p] = 0]
  /\ intra_mtx' = [intra_mtx EXCEPT ![p] = "free"]
  /\ alloc' = [alloc EXCEPT ![p] = FALSE]
  /\ charged' = [charged EXCEPT ![p] = {}]
  /\ dirty' = [dirty EXCEPT ![p] = {}]
  /\ d_pages' = [d_pages EXCEPT ![p] = 0]

\* An ASSERT of p fails: the process aborts.  The shared segment and the
\* semaphores stay as they are.
Abort(p, why) ==
  /\ pc' = [pc EXCEPT ![p] = "gone"]
  /\ fault' = [fault EXCEPT ![p] = why]
  /\ Vanish(p)

--------------------------------------------------------------------------
(***************************************************************************)
(* ipc_madmit: reserve c_arg[p] pages, then continue at then[p].           *)
(***************************************************************************)

\* Mutant: both conditions are required.
MutEligibleAnd(p) == c_mem[p] # 0 /\ sigon[p]

\* Eligible for eviction: either something is resident or signals are on.
ipc_is_eligible(p) == c_mem[p] # 0 \/ sigon[p]

\* The processes the scan over c_mem may settle on (module MadmitScan has the
\* scan itself).  Only a process with resident memory is ever chosen: one that
\* covers the shortage if there is one, else one that holds the most.
Victims(p) ==
  LET need == c_arg[p] - snap[p]
      cand == {q \in Procs \ {p} : ipc_is_eligible(q) /\ c_mem[q] > 0}
      fit  == {q \in cand : c_mem[q] >= need}
  IN  IF fit # {} THEN fit
      ELSE {q \in cand : \A r \in cand : c_mem[r] <= c_mem[q]}

\* IPC_INTER_CRITICAL_SECTION_BEG: sem_wait(inter_mtx) succeeds.
InterBeg == inter_mtx > 0 /\ inter_mtx' = inter_mtx - 1

InterEnd == inter_mtx' = inter_mtx + 1

MadmitBeg(p) ==
  /\ Flow(p, "madmit_beg", "read")
  /\ InterBeg
  /\ UNCHANGED <<shared, done, hand, locals, table, sigon, pend, intra_mtx,
                 fault, snap, reg>>

MadmitRead(p) ==
  /\ Flow(p, "read", "scan")
  /\ snap' = [snap EXCEPT ![p] = s_mem]
  /\ UNCHANGED <<shared, sems, hand, locals, table, sigon, pend, intra_mtx,
                 fault, reg>>

\* Mutant: the sender does not wait for done.
MutSignalNoWait(p) ==
  /\ Flow(p, "scan", "read")
  /\ snap[p] < c_arg[p]
  /\ \E v \in Victims(p) : pend' = [pend EXCEPT ![v] = @ + 1]
  /\ UNCHANGED <<shared, sems, hand, locals, table, sigon, intra_mtx, fault,
                 snap, reg>>

\* The budget is short and a process was found: kill(pid[v], SIGIPC) succeeds.
\* It also succeeds for a process that will never answer, a zombie.
MadmitSignal(p) ==
  /\ Flow(p, "scan", "wait_done")
  /\ snap[p] < c_arg[p]
  /\ \E v \in Victims(p) : pend' = [pend EXCEPT ![v] = @ + 1]
  /\ UNCHANGED <<shared, sems, hand, locals, table, sigon, intra_mtx, fault,
                 snap, reg>>

\* The budget is short and nobody can release anything: the loop goes round with
\* the same local copy of s_mem.  That changes nothing, which every specification
\* allows at any time, so it is a state and not an action.
MadmitRetry(p) == pc[p] = "scan" /\ snap[p] < c_arg[p] /\ Victims(p) = {}

\* kill fails because the process is gone: ERREXIT, past the sem_post that
\* would release inter_mtx.  The caller returns the error, or asserts on it
\* when it is the SIGSEGV handler.
MadmitKillFails(p) ==
  /\ pc[p] = "scan"
  /\ hpc[p] = "none"
  /\ snap[p] < c_arg[p]
  /\ \E v \in Victims(p) : pc[v] = "gone"
  /\ \/ /\ pc' = [pc EXCEPT ![p] = "idle"]
        /\ Return(p)
        /\ snap' = [snap EXCEPT ![p] = 0]
        /\ UNCHANGED <<hand, table, intra_mtx, fault, reg>>
     \/ /\ then[p] = "swap_i"
        /\ Abort(p, "madmit")
  /\ UNCHANGED <<shared, sems, sigon, pend>>

\* Mutant: s_mem is not read again.
MutWokenNoRead(p) ==
  /\ Flow(p, "wait_done", "scan")
  /\ done > 0
  /\ done' = done - 1
  /\ UNCHANGED <<shared, inter_mtx, hand, locals, table, sigon, pend,
                 intra_mtx, fault, snap, reg>>

\* sem_wait(done) returns; s_mem is read again.
MadmitWoken(p) ==
  /\ Flow(p, "wait_done", "read")
  /\ done > 0
  /\ done' = done - 1
  /\ UNCHANGED <<shared, inter_mtx, hand, locals, table, sigon, pend,
                 intra_mtx, fault, snap, reg>>

\* ipc_atomic_inc loads s_mem ...
AtomicIncLoad(p) ==
  /\ Flow(p, "scan", "inc")
  /\ snap[p] >= c_arg[p]
  /\ reg' = [reg EXCEPT ![p] = s_mem]
  /\ UNCHANGED <<shared, sems, hand, locals, table, sigon, pend, intra_mtx,
                 fault, snap>>

\* ... and stores what the request leaves of it.
AtomicIncStore(p) ==
  /\ Flow(p, "inc", "madmit_end")
  /\ s_mem' = reg[p] - c_arg[p]
  /\ c_mem' = [c_mem EXCEPT ![p] = @ + c_arg[p]]
  /\ snap' = [snap EXCEPT ![p] = 0]
  /\ reg' = [reg EXCEPT ![p] = 0]
  /\ UNCHANGED <<d_mem, sems, hand, locals, table, sigon, pend, intra_mtx,
                 fault>>

MadmitEnd(p) ==
  /\ Flow(p, "madmit_end", then[p])
  /\ InterEnd
  /\ UNCHANGED <<shared, done, hand, locals, table, sigon, pend, intra_mtx,
                 fault, snap, reg>>

--------------------------------------------------------------------------
(***************************************************************************)
(* ipc_mevict: return c_arg[p] pages, d_arg[p] of them dirty.              *)
(***************************************************************************)

\* Mutant: the pages are returned without inter_mtx being waited for.
MutMevictNoWait(p) ==
  /\ Flow(p, "mevict_beg", "dec_lock")
  /\ UNCHANGED <<shared, sems, hand, locals, table, sigon, pend, intra_mtx,
                 fault, snap, reg>>

MevictBeg(p) ==
  /\ Flow(p, "mevict_beg", "dec_lock")
  /\ InterBeg
  /\ UNCHANGED <<shared, done, hand, locals, table, sigon, pend, intra_mtx,
                 fault, snap, reg>>

\* ipc_atomic_dec takes intra_mtx, checks its arguments and loads s_mem ...
AtomicDecLock(p) ==
  /\ Flow(p, "dec_lock", "dec")
  /\ intra_mtx[p] = "free"
  /\ intra_mtx' = [intra_mtx EXCEPT ![p] = "main"]
  /\ UNCHANGED <<shared, sems, hand, locals, table, sigon, pend, fault, snap,
                 reg>>

AtomicDecLoad(p) ==
  /\ Flow(p, "dec", "dec_st")
  /\ c_mem[p] >= c_arg[p]
  /\ d_mem[p] >= d_arg[p]
  /\ reg' = [reg EXCEPT ![p] = s_mem]
  /\ UNCHANGED <<shared, sems, hand, locals, table, sigon, pend, intra_mtx,
                 fault, snap>>

\* The two ASSERTs of ipc_atomic_dec on what process p is charged for.
AssertFailure(c, d, p) ==
  IF c_mem[p] < c THEN "c_mem" ELSE IF d_mem[p] < d THEN "d_mem" ELSE "none"

AtomicDecAssert(p) ==
  /\ pc[p] = "dec"
  /\ hpc[p] = "none"
  /\ AssertFailure(c_arg[p], d_arg[p], p) # "none"
  /\ Abort(p, AssertFailure(c_arg[p], d_arg[p], p))
  /\ UNCHANGED <<shared, sems, sigon, pend>>

\* Mutant: intra_mtx is not unlocked.
MutDecNoUnlock(p) ==
  /\ Flow(p, "dec_st", "mevict_end")
  /\ s_mem' = reg[p] + c_arg[p]
  /\ c_mem' = [c_mem EXCEPT ![p] = @ - c_arg[p]]
  /\ d_mem' = [d_mem EXCEPT ![p] = @ - d_arg[p]]
  /\ reg' = [reg EXCEPT ![p] = 0]
  /\ UNCHANGED <<sems, hand, locals, table, sigon, pend, intra_mtx, fault, snap>>

\* ... and stores the sum, lowers the two counters and unlocks.
AtomicDecStore(p) ==
  /\ Flow(p, "dec_st", "mevict_end")
  /\ s_mem' = reg[p] + c_arg[p]
  /\ c_mem' = [c_mem EXCEPT ![p] = @ - c_arg[p]]
  /\ d_mem' = [d_mem EXCEPT ![p] = @ - d_arg[p]]
  /\ intra_mtx' = [intra_mtx EXCEPT ![p] = "free"]
  /\ reg' = [reg EXCEPT ![p] = 0]
  /\ UNCHANGED <<sems, hand, locals, table, sigon, pend, fault, snap>>

MevictEnd(p) ==
  /\ Flow(p, "mevict_end", "idle")
  /\ InterEnd
  /\ Return(p)
  /\ UNCHANGED <<shared, done, hand, table, sigon, pend, intra_mtx, fault, snap,
                 reg>>

--------------------------------------------------------------------------
(***************************************************************************)
(* vmm_sigipc, on top of whatever the flow of p was doing.                 *)
(***************************************************************************)

SigipcDeliver(p) ==
  /\ pc[p] # "gone"
  /\ pend[p] > 0
  /\ pend' = [pend EXCEPT ![p] = @ - 1]
  /\ Handler(p, "none", "elig")
  /\ UNCHANGED <<shared, sems, h_c, h_d, hreg, locals, table, sigon, pc,
                 intra_mtx, fault, snap, reg>>

SigipcCheck(p) ==
  /\ Handler(p, "elig", IF ipc_is_eligible(p) THEN "evict" ELSE "post")
  /\ UNCHANGED <<shared, sems, h_c, h_d, hreg, locals, table, sigon, pc, pend,
                 intra_mtx, fault, snap, reg>>

\* sbma_mevictall_int: the amounts are read off the counters of the table,
\* then every page is swapped out.
SigipcEvict(p) ==
  /\ Handler(p, "evict", "lock")
  /\ d_pages[p] = Cardinality(dirty[p])
  /\ h_c' = [h_c EXCEPT ![p] = Cardinality(charged[p])]
  /\ h_d' = [h_d EXCEPT ![p] = d_pages[p]]
  /\ charged' = [charged EXCEPT ![p] = {}]
  /\ dirty' = [dirty EXCEPT ![p] = {}]
  /\ d_pages' = [d_pages EXCEPT ![p] = 0]
  /\ UNCHANGED <<shared, sems, hreg, locals, alloc, sigon, pc, pend, intra_mtx,
                 fault, snap, reg>>

\* vmm_swap_o's and sbma_mevictall_int's ASSERTs on d_pages fail: a page is
\* flagged dirty and not counted yet.
SigipcEvictAssert(p) ==
  /\ hpc[p] = "evict"
  /\ d_pages[p] # Cardinality(dirty[p])
  /\ Abort(p, "d_pages")
  /\ UNCHANGED <<shared, sems, sigon, pend>>

\* ipc_atomic_dec without inter_mtx, on behalf of the process that holds it.
SigipcDecLock(p) ==
  /\ Handler(p, "lock", "dec")
  /\ intra_mtx[p] = "free"
  /\ intra_mtx' = [intra_mtx EXCEPT ![p] = "hand"]
  /\ UNCHANGED <<shared, sems, h_c, h_d, hreg, locals, table, sigon, pc, pend,
                 fault, snap, reg>>

SigipcDecLoad(p) ==
  /\ Handler(p, "dec", "dec_st")
  /\ AssertFailure(h_c[p], h_d[p], p) = "none"
  /\ hreg' = [hreg EXCEPT ![p] = s_mem]
  /\ UNCHANGED <<shared, sems, h_c, h_d, locals, table, sigon, pc, pend,
                 intra_mtx, fault, snap, reg>>

SigipcDecAssert(p) ==
  /\ hpc[p] = "dec"
  /\ AssertFailure(h_c[p], h_d[p], p) # "none"
  /\ Abort(p, AssertFailure(h_c[p], h_d[p], p))
  /\ UNCHANGED <<shared, sems, sigon, pend>>

SigipcDecStore(p) ==
  /\ Handler(p, "dec_st", "post")
  /\ s_mem' = hreg[p] + h_c[p]
  /\ c_mem' = [c_mem EXCEPT ![p] = @ - h_c[p]]
  /\ d_mem' = [d_mem EXCEPT ![p] = @ - h_d[p]]
  /\ intra_mtx' = [intra_mtx EXCEPT ![p] = "free"]
  /\ h_c' = [h_c EXCEPT ![p] = 0]
  /\ h_d' = [h_d EXCEPT ![p] = 0]
  /\ hreg' = [hreg EXCEPT ![p] = 0]
  /\ UNCHANGED <<sems, locals, table, sigon, pc, pend, fault, snap, reg>>

\* Mutant: the handler returns without posting done.
MutPostForgotten(p) ==
  /\ Handler(p, "post", "none")
  /\ UNCHANGED <<shared, sems, h_c, h_d, hreg, locals, table, sigon, pc, pend,
                 intra_mtx, fault, snap, reg>>

\* sem_post(done) and return to the interrupted flow.
SigipcPost(p) ==
  /\ Handler(p, "post", "none")
  /\ done' = done + 1
  /\ UNCHANGED <<shared, inter_mtx, h_c, h_d, hreg, locals, table, sigon, pc,
                 pend, intra_mtx, fault, snap, reg>>

\* The same, when the flow was blocked in sem_wait(inter_mtx): the handler is
\* installed without SA_RESTART, so the wait ends with EINTR and the ASSERT of
\* IPC_INTER_CRITICAL_SECTION_BEG fails.
SigipcPostInterrupts(p) ==
  /\ hpc[p] = "post"
  /\ pc[p] \in {"madmit_beg", "mevict_beg"}
  /\ done' = done + 1
  /\ Abort(p, "sem_wait")
  /\ UNCHANGED <<shared, inter_mtx, sigon, pend>>

--------------------------------------------------------------------------
(***************************************************************************)
(* The library calls around ipc_madmit and ipc_mevict.                     *)
(***************************************************************************)

\* A call starts: its arguments to the ipc_ functions and the pages it is on.
Call(p, to, c, d, R, cont) ==
  /\ alloc[p] = (to # "insert")
  /\ Flow(p, "idle", IF cont # "idle" /\ c > 0 THEN "madmit_beg" ELSE to)
  /\ c_arg' = [c_arg EXCEPT ![p] = c]
  /\ d_arg' = [d_arg EXCEPT ![p] = d]
  /\ range' = [range EXCEPT ![p] = R]
  /\ then' = [then EXCEPT ![p] = cont]
  /\ UNCHANGED <<shared, sems, hand, table, sigon, pend, intra_mtx, fault,
                 snap, reg>>

\* The pages of the call are dealt with.
Worked(p) ==
  /\ range' = [range EXCEPT ![p] = {}]
  /\ then' = [then EXCEPT ![p] = "idle"]
  /\ UNCHANGED <<c_arg, d_arg>>

\* Where a call goes once the table is done: ipc_mevict(0, 0) is a no-op.
EvictOrReturn(p) ==
  IF c_arg[p] = 0 /\ d_arg[p] = 0 THEN "idle" ELSE "mevict_beg"

\* Mutant: the probe counts pages that are charged already.
MutProbeAll(p, R) ==
  Call(p, "swap_i", Cardinality(R), 0, R, "swap_i")

\* sbma_mtouch, from the application or from the SIGSEGV handler.
MtouchProbe(p, R) ==
  Call(p, "swap_i", Cardinality(R \ charged[p]), 0, R, "swap_i")

\* sbma_mtouch_int: vmm_swap_i charges the pages of the range it finds
\* uncharged now.
SwapI(p) ==
  /\ Flow(p, "swap_i", "idle")
  /\ charged' = [charged EXCEPT ![p] = @ \cup range[p]]
  /\ Return(p)
  /\ UNCHANGED <<shared, sems, hand, alloc, dirty, d_pages, sigon, pend,
                 intra_mtx, fault, snap, reg>>

sbma_malloc(p) ==
  Call(p, "insert", Meta + (IF Rsdnt THEN Cardinality(Pages) ELSE 0), 0, Pages,
       "insert")

\* The rest of sbma_malloc: map, populate the table entry and insert it.
Insert(p) ==
  /\ Flow(p, "insert", "idle")
  /\ alloc' = [alloc EXCEPT ![p] = TRUE]
  /\ charged' = [charged EXCEPT ![p] = IF Rsdnt THEN Pages ELSE {}]
  /\ Return(p)
  /\ UNCHANGED <<shared, sems, hand, dirty, d_pages, sigon, pend,
                 intra_mtx, fault, snap, reg>>

\* mmap fails: CLEANUP1 returns what was admitted.
MallocFails(p) ==
  /\ Flow(p, "insert", EvictOrReturn(p))
  /\ Worked(p)
  /\ UNCHANGED <<shared, sems, hand, table, sigon, pend, intra_mtx,
                 fault, snap, reg>>

MevictProbe(p, R) ==
  Call(p, "swap_o", Cardinality(R \cap charged[p]),
       Cardinality(R \cap dirty[p]), R, "idle")

\* vmm_swap_o.
SwapO(p) ==
  /\ Flow(p, "swap_o", EvictOrReturn(p))
  /\ Worked(p)
  /\ charged' = [charged EXCEPT ![p] = @ \ range[p]]
  /\ dirty' = [dirty EXCEPT ![p] = @ \ range[p]]
  /\ d_pages' = [d_pages EXCEPT ![p] = @ - Cardinality(dirty[p] \cap range[p])]
  /\ UNCHANGED <<shared, sems, hand, alloc, sigon, pend, intra_mtx,
                 fault, snap, reg>>

MclearProbe(p, R) ==
  Call(p, "swap_x", 0, Cardinality(R \cap dirty[p]), R, "idle")

\* vmm_swap_x.
SwapX(p) ==
  /\ Flow(p, "swap_x", EvictOrReturn(p))
  /\ Worked(p)
  /\ dirty' = [dirty EXCEPT ![p] = @ \ range[p]]
  /\ d_pages' = [d_pages EXCEPT ![p] = @ - Cardinality(dirty[p] \cap range[p])]
  /\ UNCHANGED <<shared, sems, hand, alloc, charged, sigon, pend,
                 intra_mtx, fault, snap, reg>>

\* sbma_free reads the counters first ...
FreeProbe(p) ==
  Call(p, "unlink", Meta + Cardinality(charged[p]), d_pages[p], Pages, "idle")

\* ... and then takes the entry out of the table and unmaps it.
Unlink(p) ==
  /\ Flow(p, "unlink", EvictOrReturn(p))
  /\ Worked(p)
  /\ alloc' = [alloc EXCEPT ![p] = FALSE]
  /\ charged' = [charged EXCEPT ![p] = {}]
  /\ dirty' = [dirty EXCEPT ![p] = {}]
  /\ d_pages' = [d_pages EXCEPT ![p] = 0]
  /\ UNCHANGED <<shared, sems, hand, sigon, pend, intra_mtx, fault,
                 snap, reg>>

\* vmm_sigsegv on a write to a resident clean page: flag it ...
WriteFault(p, x) ==
  /\ Flow(p, "idle", "d_count")
  /\ x \in charged[p] \ dirty[p]
  /\ dirty' = [dirty EXCEPT ![p] = @ \cup {x}]
  /\ UNCHANGED <<shared, sems, hand, locals, alloc, charged, d_pages, sigon,
                 pend, intra_mtx, fault, snap, reg>>

\* ... count it in the table ...
WriteFaultCount(p) ==
  /\ Flow(p, "d_count", "mdirty_lock")
  /\ d_pages' = [d_pages EXCEPT ![p] = @ + 1]
  /\ UNCHANGED <<shared, sems, hand, locals, alloc, charged, dirty, sigon, pend,
                 intra_mtx, fault, snap, reg>>

\* ... and, with intra_mtx only, in the shared segment: ipc_mdirty(1).
MdirtyLock(p) ==
  /\ Flow(p, "mdirty_lock", "mdirty")
  /\ intra_mtx[p] = "free"
  /\ intra_mtx' = [intra_mtx EXCEPT ![p] = "main"]
  /\ UNCHANGED <<shared, sems, hand, locals, table, sigon, pend, fault, snap,
                 reg>>

ipc_mdirty(p) ==
  /\ Flow(p, "mdirty", "idle")
  /\ d_mem' = [d_mem EXCEPT ![p] = @ + 1]
  /\ intra_mtx' = [intra_mtx EXCEPT ![p] = "free"]
  /\ UNCHANGED <<s_mem, c_mem, sems, hand, locals, table, sigon, pend, fault,
                 snap, reg>>

ipc_sigon(p) ==
  /\ Flow(p, "idle", "idle")
  /\ sigon' = [sigon EXCEPT ![p] = TRUE]
  /\ UNCHANGED <<shared, sems, hand, locals, table, pend, intra_mtx, fault,
                 snap, reg>>

ipc_sigoff(p) ==
  /\ Flow(p, "idle", "idle")
  /\ sigon' = [sigon EXCEPT ![p] = FALSE]
  /\ UNCHANGED <<shared, sems, hand, locals, table, pend, intra_mtx, fault,
                 snap, reg>>

\* The process ends its use of the library.  ipc_destroy leaves its entries of
\* the shared segment as they are.
ipc_destroy(p) ==
  /\ Flow(p, "idle", "gone")
  /\ Vanish(p)
  /\ UNCHANGED <<shared, sems, sigon, pend, fault>>

--------------------------------------------------------------------------
\* What the application decides to do; everything else is the library at work.
AppStep(p) ==
  \/ \E R \in (SUBSET Pages) \ {{}} :
       MtouchProbe(p, R) \/ MevictProbe(p, R) \/ MclearProbe(p, R)
  \/ \E x \in Pages : WriteFault(p, x)
  \/ sbma_malloc(p) \/ FreeProbe(p)
  \/ ipc_sigon(p) \/ ipc_sigoff(p) \/ ipc_destroy(p)

FlowStep(p) ==
  \/ MadmitBeg(p) \/ MadmitRead(p) \/ MadmitSignal(p)
  \/ MadmitKillFails(p) \/ MadmitWoken(p) \/ AtomicIncLoad(p)
  \/ AtomicIncStore(p) \/ MadmitEnd(p)
  \/ MevictBeg(p) \/ AtomicDecLock(p) \/ AtomicDecLoad(p) \/ AtomicDecAssert(p)
  \/ AtomicDecStore(p) \/ MevictEnd(p)
  \/ SwapI(p) \/ Insert(p) \/ MallocFails(p) \/ SwapO(p) \/ SwapX(p)
  \/ Unlink(p) \/ WriteFaultCount(p) \/ MdirtyLock(p) \/ ipc_mdirty(p)

HandlerStep(p) ==
  \/ SigipcDeliver(p) \/ SigipcCheck(p) \/ SigipcEvict(p)
  \/ SigipcEvictAssert(p) \/ SigipcDecLock(p) \/ SigipcDecLoad(p)
  \/ SigipcDecAssert(p) \/ SigipcDecStore(p) \/ SigipcPost(p)
  \/ SigipcPostInterrupts(p)

Next == \E p \in Procs : AppStep(p) \/ FlowStep(p) \/ HandlerStep(p)

Spec == Init /\ [][Next]_vars

--------------------------------------------------------------------------
(***************************************************************************)
(* Properties.                                                             *)
(***************************************************************************)

\* The variables keep their types; the counters that the code keeps in size_t
\* never wrap below zero.
TypeOK ==
  /\ s_mem \in Nat
  /\ c_mem \in [Procs -> Nat]
  /\ d_mem \in [Procs -> Nat]
  /\ sigon \in [Procs -> BOOLEAN]
  /\ inter_mtx \in {0, 1}
  /\ done \in {0, 1}
  /\ pc \in [Procs -> FlowStates]
  /\ hpc \in [Procs -> HandlerStates]
  /\ pend \in [Procs -> {0, 1}]
  /\ intra_mtx \in [Procs -> {"free", "main", "hand"}]
  /\ fault \in [Procs -> Faults]
  /\ c_arg \in [Procs -> Nat]
  /\ d_arg \in [Procs -> Nat]
  /\ snap \in [Procs -> Nat]
  /\ reg \in [Procs -> Nat]
  /\ h_c \in [Procs -> Nat]
  /\ h_d \in [Procs -> Nat]
  /\ hreg \in [Procs -> Nat]
  /\ range \in [Procs -> SUBSET Pages]
  /\ then \in [Procs -> {"idle", "swap_i", "insert"}]
  /\ alloc \in [Procs -> BOOLEAN]
  /\ charged \in [Procs -> SUBSET Pages]
  /\ dirty \in [Procs -> SUBSET Pages]
  /\ d_pages \in [Procs -> Nat]

\* f lists the partial sums of c over the processes 1 .. N.
PartialSums(f, c) ==
  /\ f[0] = 0
  /\ \A p \in Procs : f[p] = f[p - 1] + c[p]
  /\ \A i, j \in 0 .. N : i <= j => f[i] <= f[j]

\* The budget is conserved: what the processes are charged for and what is
\* left always add up to max_mem, whoever updates s_mem (ipc_atomic_inc and
\* ipc_atomic_dec inside the critical section, the SIGIPC handler outside it),
\* and also after a process has aborted or gone in the middle of a call.
Conservation ==
  \E f \in [0 .. N -> 0 .. MaxMem] :
    PartialSums(f, c_mem) /\ f[N] + s_mem = MaxMem

InSection(p) ==
  pc[p] \in {"read", "scan", "wait_done", "inc", "madmit_end", "dec_lock",
             "dec", "dec_st", "mevict_end"}

\* p has been sent a SIGIPC whose handler has not posted done yet.
Outstanding(p) == pend[p] > 0 \/ hpc[p] # "none"

\* s_mem has one writer at a time.  At most one process is between the
\* sem_wait and the sem_post of inter_mtx; at most one SIGIPC is under way,
\* only while that process waits on done for it; and done is posted only when
\* the handler has finished its unprotected ipc_atomic_dec.
Handshake ==
  /\ \A p, q \in Procs : InSection(p) /\ InSection(q) => p = q
  /\ \A p \in Procs : InSection(p) => inter_mtx = 0
  /\ \A p, q \in Procs : Outstanding(p) /\ Outstanding(q) => p = q
  /\ \A q \in Procs : Outstanding(q) =>
       done = 0 /\ \E p \in Procs \ {q} : pc[p] = "wait_done"
  /\ done = 1 => \E p \in Procs : pc[p] = "wait_done"

\* The local copy of s_mem on which ipc_madmit decides, and the value that the
\* read-modify-writes have loaded, are current when they are used, although
\* another process changes s_mem while ipc_madmit is in its loop.
CopiesCurrent ==
  \A p \in Procs :
    /\ pc[p] \in {"scan", "inc"} => snap[p] = s_mem
    /\ pc[p] = "inc" => reg[p] = s_mem /\ reg[p] >= c_arg[p]
    /\ pc[p] = "dec_st" => reg[p] = s_mem
    /\ hpc[p] = "dec_st" => hreg[p] = s_mem

\* The handler's test "Only honor the SIGIPC if my status is still eligible"
\* never fails: what made the sender choose p cannot change before p's handler
\* looks, so a SIGIPC is always followed by an eviction.
StillEligible == \A p \in Procs : hpc[p] = "elig" => ipc_is_eligible(p)

\* p is in no library call and no SIGIPC is under way to it.
Quiet(p) == pc[p] = "idle" /\ ~Outstanding(p)

\* No budget is lost: a process at rest is never charged for more than its
\* allocation table holds, however its calls were interrupted.
NoLeak ==
  \A p \in Procs : Quiet(p) =>
    /\ c_mem[p] <= Cardinality(charged[p]) + (IF alloc[p] THEN Meta ELSE 0)
    /\ d_mem[p] <= d_pages[p]

\* The library runs on while it is in a call; the application need not.
Fairness == \A p \in Procs : WF_vars(FlowStep(p)) /\ WF_vars(HandlerStep(p))

FairSpec == Spec /\ Fairness

\* The handler needs the intra_mtx that the flow it interrupted holds.
SelfLocked(p) == hpc[p] = "lock" /\ intra_mtx[p] = "main"

\* No lost wake-up: a process waiting on done is woken, unless a process has
\* ended or a handler is stuck on intra_mtx.
Woken ==
  \A p \in Procs : pc[p] = "wait_done" ~>
    \/ pc[p] # "wait_done"
    \/ \E q \in Procs : pc[q] = "gone" \/ SelfLocked(q)

\* ipc_mevict gives the critical section up again, or its process aborts in it.
EvictionEnds ==
  \A p \in Procs : pc[p] = "dec_lock" ~> pc[p] \in {"idle", "gone"}

--------------------------------------------------------------------------
(***************************************************************************)
(* What the sources say of the protocol and the protocol does not do.      *)
(***************************************************************************)

\* "Disallow signals to be sent to process" (ipc_sigoff).
SigoffRespected ==
  [][\A p \in Procs : pend'[p] > pend[p] => sigon[p]]_vars

\* sem_wait(inter_mtx) does not fail (ASSERT in the critical-section macro).
WaitUninterrupted == \A p \in Procs : fault[p] # "sem_wait"

\* A process returns no more than it is charged for (ASSERT in ipc_atomic_dec).
ReleaseCovered == \A p \in Procs : fault[p] # "c_mem"

\* A page flagged dirty is counted in the table and in the shared segment
\* (ASSERTs in vmm_swap_o, sbma_mevictall_int and ipc_atomic_dec).
DirtyCounted == \A p \in Procs : fault[p] \notin {"d_pages", "d_mem"}

\* sbma_mcheck: the shared counters of a process match its allocation table.
McheckConsistent ==
  \A p \in Procs : Quiet(p) =>
    /\ c_mem[p] = Cardinality(charged[p]) + (IF alloc[p] THEN Meta ELSE 0)
    /\ d_mem[p] = d_pages[p]

\* The handler can always finish what the note at ipc_mdirty says is guarded
\* by intra_mtx.
HandlerNotSelfLocked == \A p \in Procs : ~SelfLocked(p)

\* Nobody keeps inter_mtx after leaving ipc_madmit or ipc_mevict alive.
SectionReleased ==
  inter_mtx = 0 =>
    \E p \in Procs : InSection(p) \/ fault[p] # "none"

\* "retry loop in case a stale value was read": a retry is not for ever.
RetryEnds ==
  \A p \in Procs :
    MadmitRetry(p) ~> pc[p] # "scan"

==========================================================================
