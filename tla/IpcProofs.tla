----------------------------- MODULE IpcProofs -----------------------------
(***************************************************************************)
(* The exchange protocol for every number of processes and every budget.   *)
(***************************************************************************)
EXTENDS Ipc, FiniteSetTheorems, TLAPS

--------------------------------------------------------------------------
(***************************************************************************)
(* Control: semaphores, signals and program points.                        *)
(***************************************************************************)

ControlTypes ==
  /\ inter_mtx \in {0, 1}
  /\ done \in {0, 1}
  /\ pc \in [Procs -> FlowStates]
  /\ hpc \in [Procs -> HandlerStates]
  /\ pend \in [Procs -> {0, 1}]
  /\ then \in [Procs -> {"idle", "swap_i", "insert"}]

\* Handshake is inductive once it is known that a process whose handler runs
\* has no second SIGIPC waiting.
ControlInv ==
  /\ ControlTypes
  /\ Handshake
  /\ \A p \in Procs : pend[p] > 0 => hpc[p] = "none"

\* The prover of the steps that name no other.
USE ZenonT(60)

\* ipc_init leaves the semaphores free and no signal under way.
LEMMA ControlInit == Init => ControlInv
  BY ConstantsAssumption, SMTT(60) DEF Init, ControlInv, ControlTypes, Handshake, InSection, Outstanding, FlowStates,
    HandlerStates

\* A step of the library's flow keeps the handshake: only the holder of
\* inter_mtx reaches the steps that signal, wait and release.
LEMMA FlowControl ==
  ASSUME ControlInv, NEW p \in Procs, FlowStep(p)
  PROVE  ControlInv'
<1> USE DEF ControlInv, ControlTypes, Handshake, InSection, Outstanding, Flow,
    InterBeg, InterEnd, sems, hand, locals, FlowStates, HandlerStates,
    Return, Abort, Vanish, Worked, EvictOrReturn
<1>1. CASE MadmitBeg(p)
  BY <1>1, SMTT(30) DEF MadmitBeg
<1>2. CASE MadmitRead(p)
  BY <1>2, SMTT(30) DEF MadmitRead
<1>3. CASE MadmitSignal(p)
  BY <1>3, SMTT(30) DEF MadmitSignal, Victims
<1>4. CASE MadmitKillFails(p)
  BY <1>4, SMTT(60) DEF MadmitKillFails
<1>5. CASE MadmitWoken(p)
  BY <1>5, SMTT(30) DEF MadmitWoken
<1>6. CASE AtomicIncLoad(p)
  BY <1>6, SMTT(30) DEF AtomicIncLoad
<1>7. CASE AtomicIncStore(p)
  BY <1>7, SMTT(30) DEF AtomicIncStore
<1>8. CASE MadmitEnd(p)
  BY <1>8, SMTT(30) DEF MadmitEnd
<1>9. CASE MevictBeg(p)
  BY <1>9, SMTT(30) DEF MevictBeg
<1>10. CASE AtomicDecLock(p)
  BY <1>10, SMTT(30) DEF AtomicDecLock
<1>11. CASE AtomicDecLoad(p)
  BY <1>11, SMTT(30) DEF AtomicDecLoad
<1>12. CASE AtomicDecAssert(p)
  BY <1>12, SMTT(30) DEF AtomicDecAssert
<1>13. CASE AtomicDecStore(p)
  BY <1>13, SMTT(30) DEF AtomicDecStore
<1>14. CASE MevictEnd(p)
  BY <1>14, SMTT(30) DEF MevictEnd
<1>15. CASE SwapI(p) \/ Insert(p) \/ MallocFails(p)
  BY <1>15, SMTT(30) DEF SwapI, Insert, MallocFails
<1>16. CASE SwapO(p) \/ SwapX(p) \/ Unlink(p)
  BY <1>16, SMTT(30) DEF SwapO, SwapX, Unlink
<1>17. CASE WriteFaultCount(p) \/ MdirtyLock(p) \/ ipc_mdirty(p)
  BY <1>17, SMTT(60) DEF WriteFaultCount, MdirtyLock, ipc_mdirty
<1>18. QED
  BY <1>1, <1>2, <1>3, <1>4, <1>5, <1>6, <1>7, <1>8, <1>9, <1>10, <1>11, <1>12, <1>13, <1>14, <1>15, <1>16,
    <1>17 DEF FlowStep

\* The handler of p runs only while another process waits for it on done, and
\* posts done once, as its last step.
LEMMA HandlerControl ==
  ASSUME ControlInv, NEW p \in Procs, HandlerStep(p)
  PROVE  ControlInv'
<1> USE DEF ControlInv, ControlTypes, Handshake, InSection, Outstanding, Handler,
    sems, locals, FlowStates, HandlerStates, Return, Abort, Vanish
<1>1. CASE SigipcDeliver(p)
  BY <1>1, SMTT(30) DEF SigipcDeliver
<1>2. CASE SigipcCheck(p)
  BY <1>2, SMTT(30) DEF SigipcCheck
<1>3. CASE SigipcEvict(p) \/ SigipcDecLock(p)
  BY <1>3, SMTT(30) DEF SigipcEvict, SigipcDecLock
<1>4. CASE SigipcEvictAssert(p)
  BY <1>4, SMTT(30) DEF SigipcEvictAssert
<1>5. CASE SigipcDecLoad(p) \/ SigipcDecStore(p)
  BY <1>5, SMTT(30) DEF SigipcDecLoad, SigipcDecStore
<1>6. CASE SigipcDecAssert(p)
  BY <1>6, SMTT(30) DEF SigipcDecAssert
<1>7. CASE SigipcPost(p)
  BY <1>7, SMTT(30) DEF SigipcPost
<1>8. CASE SigipcPostInterrupts(p)
  BY <1>8, SMTT(60) DEF SigipcPostInterrupts
<1>9. QED
  BY <1>1, <1>2, <1>3, <1>4, <1>5, <1>6, <1>7, <1>8 DEF HandlerStep

\* The application starts its calls outside the critical section.
LEMMA AppControl ==
  ASSUME ControlInv, NEW p \in Procs, AppStep(p)
  PROVE  ControlInv'
<1> USE DEF ControlInv, ControlTypes, Handshake, InSection, Outstanding, Flow,
    sems, hand, locals, FlowStates, HandlerStates, Return, Vanish
<1>1. ASSUME NEW to \in {"swap_i", "insert", "swap_o", "swap_x", "unlink"},
             NEW c, NEW d, NEW R, NEW cont \in {"idle", "swap_i", "insert"},
             Call(p, to, c, d, R, cont)
      PROVE  ControlInv'
  BY <1>1, SMTT(30) DEF Call
<1>2. CASE \E R \in (SUBSET Pages) \ {{}} :
             MtouchProbe(p, R) \/ MevictProbe(p, R) \/ MclearProbe(p, R)
  BY <1>1, <1>2 DEF MtouchProbe, MevictProbe, MclearProbe
<1>3. CASE \E x \in Pages : WriteFault(p, x)
  BY <1>3, SMTT(30) DEF WriteFault
<1>4. CASE sbma_malloc(p) \/ FreeProbe(p)
  BY <1>1, <1>4, ZenonT(60) DEF sbma_malloc, FreeProbe
<1>5. CASE ipc_sigon(p) \/ ipc_sigoff(p)
  BY <1>5, SMTT(30) DEF ipc_sigon, ipc_sigoff
<1>6. CASE ipc_destroy(p)
  BY <1>6, SMTT(30) DEF ipc_destroy
<1>7. QED
  BY <1>2, <1>3, <1>4, <1>5, <1>6, SMTT(60) DEF AppStep

\* Every step of every process keeps the handshake.
LEMMA ControlStep == ControlInv /\ [Next]_vars => ControlInv'
<1> SUFFICES ASSUME ControlInv, [Next]_vars PROVE ControlInv'
  OBVIOUS
<1>1. CASE Next
  BY <1>1, AppControl, FlowControl, HandlerControl DEF Next
<1>2. CASE UNCHANGED vars
  BY <1>2 DEF vars, sems, hand, locals, ControlInv, ControlTypes, Handshake, InSection, Outstanding
<1>3. QED
  BY <1>1, <1>2

\* The exchange protocol serialises: one process inside inter_mtx, one SIGIPC
\* at a time and only while its sender waits, and no stray post of done.
THEOREM HandshakeHolds == Spec => []Handshake
<1>1. ControlInv => Handshake
  BY DEF ControlInv
<1>2. QED
  BY <1>1, ControlInit, ControlStep, PTL DEF Spec

--------------------------------------------------------------------------
(***************************************************************************)
(* The allocation table.                                                   *)
(***************************************************************************)

\* The page sets of the table, and d_pages, which counts the dirty pages except
\* for the one vmm_sigsegv has flagged and not counted yet.
TableInv ==
  /\ range \in [Procs -> SUBSET Pages]
  /\ charged \in [Procs -> SUBSET Pages]
  /\ dirty \in [Procs -> SUBSET Pages]
  /\ d_pages \in [Procs -> Nat]
  /\ \A p \in Procs :
       Cardinality(dirty[p]) = IF pc[p] = "d_count" THEN d_pages[p] + 1
                                                   ELSE d_pages[p]

\* A set of pages has a size, and taking pages out lowers it by their number.
LEMMA PageSets ==
  /\ Cardinality({}) = 0
  /\ \A S \in SUBSET Pages : Cardinality(S) \in Nat
  /\ \A S \in SUBSET Pages, T \in SUBSET Pages :
       /\ Cardinality(S \ T) = Cardinality(S) - Cardinality(S \cap T)
       /\ Cardinality(S \cap T) <= Cardinality(S)
  /\ \A S \in SUBSET Pages : \A x \in Pages \ S :
       Cardinality(S \cup {x}) = Cardinality(S) + 1
<1>1. \A S \in SUBSET Pages : IsFiniteSet(S)
  BY ConstantsAssumption, FS_Subset DEF ConstantsAssumption
<1>2. Cardinality({}) = 0
  BY FS_EmptySet
<1>3. \A S \in SUBSET Pages : Cardinality(S) \in Nat
  BY <1>1, FS_CardinalityType
<1>4. ASSUME NEW S \in SUBSET Pages, NEW T \in SUBSET Pages
      PROVE  /\ Cardinality(S \ T) = Cardinality(S) - Cardinality(S \cap T)
             /\ Cardinality(S \cap T) <= Cardinality(S)
  BY <1>1, <1>4, FS_Difference, FS_Intersection
<1>5. ASSUME NEW S \in SUBSET Pages, NEW x \in Pages \ S
      PROVE  Cardinality(S \cup {x}) = Cardinality(S) + 1
  BY <1>1, <1>5, FS_AddElement
<1>6. QED
  BY <1>2, <1>3, <1>4, <1>5

\* Before the first allocation the table is empty.
LEMMA TableInit == Init => TableInv
  BY PageSets, SMTT(30) DEF Init, TableInv

\* A step that leaves the page sets alone and does not enter or leave the
\* window between flagging a page and counting it.
LEMMA TableKept ==
  ASSUME ControlTypes, TableInv, UNCHANGED table, NEW p \in Procs,
         range' \in [Procs -> SUBSET Pages],
         NEW to \in FlowStates \ {"d_count"}, pc[p] # "d_count",
         pc' = [pc EXCEPT ![p] = to] \/ pc' = pc
  PROVE  TableInv'
  BY DEF TableInv, ControlTypes, table

\* The table of a process that is gone is empty.
LEMMA TableVanish ==
  ASSUME ControlTypes, TableInv, NEW p \in Procs, Vanish(p),
         pc' = [pc EXCEPT ![p] = "gone"]
  PROVE  TableInv'
  BY PageSets DEF TableInv, ControlTypes, Vanish, Return

\* The library calls keep d_pages in step with the dirty flags, except in the
\* window that vmm_sigsegv opens and closes.
LEMMA FlowTable ==
  ASSUME ControlTypes, TableInv, NEW p \in Procs, FlowStep(p)
  PROVE  TableInv'
<1> USE DEF Flow
<1>1. CASE MadmitBeg(p) \/ MadmitRead(p) \/ MadmitSignal(p)
  BY <1>1, TableKept, ZenonT(60) DEF MadmitBeg, MadmitRead, MadmitSignal, locals, FlowStates, TableInv
<1>2. CASE MadmitKillFails(p)
  BY <1>2, TableKept, TableVanish, SMTT(60) DEF MadmitKillFails, Return, Abort, FlowStates, TableInv
<1>3. CASE MadmitWoken(p) \/ AtomicIncLoad(p) \/ AtomicIncStore(p)
  BY <1>3, TableKept DEF MadmitWoken, AtomicIncLoad, AtomicIncStore, locals, FlowStates, TableInv
<1>4. CASE MadmitEnd(p)
  BY <1>4, TableKept DEF MadmitEnd, ControlTypes, locals, FlowStates, TableInv
<1>5. CASE MevictBeg(p) \/ AtomicDecLock(p) \/ AtomicDecLoad(p)
           \/ AtomicDecStore(p)
  BY <1>5, TableKept DEF MevictBeg, AtomicDecLock, AtomicDecLoad, AtomicDecStore, locals, FlowStates, TableInv
<1>6. CASE AtomicDecAssert(p)
  BY <1>6, TableVanish DEF AtomicDecAssert, Abort
<1>7. CASE MevictEnd(p)
  BY <1>7, TableKept DEF MevictEnd, Return, FlowStates, TableInv
<1>8. CASE SwapI(p)
  BY <1>8 DEF SwapI, Return, ControlTypes, TableInv
<1>9. CASE Insert(p)
  BY <1>9 DEF Insert, Return, ControlTypes, TableInv
<1>10. CASE MallocFails(p)
  BY <1>10, TableKept DEF MallocFails, Worked, EvictOrReturn, FlowStates, TableInv
<1>11. CASE SwapO(p)
  <2>1. /\ Cardinality(dirty[p] \ range[p]) =
              d_pages[p] - Cardinality(dirty[p] \cap range[p])
        /\ Cardinality(dirty[p] \ range[p]) \in Nat
    BY <1>11, PageSets, ZenonT(60) DEF SwapO, TableInv
  <2>2. QED
    BY <1>11, <2>1 DEF SwapO, Worked, EvictOrReturn, ControlTypes, TableInv
<1>12. CASE SwapX(p)
  <2>1. /\ Cardinality(dirty[p] \ range[p]) =
              d_pages[p] - Cardinality(dirty[p] \cap range[p])
        /\ Cardinality(dirty[p] \ range[p]) \in Nat
    BY <1>12, PageSets, ZenonT(60) DEF SwapX, TableInv
  <2>2. QED
    BY <1>12, <2>1 DEF SwapX, Worked, EvictOrReturn, ControlTypes, TableInv
<1>13. CASE Unlink(p)
  BY <1>13, PageSets DEF Unlink, Worked, EvictOrReturn, ControlTypes, TableInv
<1>14. CASE WriteFaultCount(p)
  BY <1>14, SMTT(30) DEF WriteFaultCount, locals, ControlTypes, TableInv
<1>15. CASE MdirtyLock(p) \/ ipc_mdirty(p)
  BY <1>15, TableKept DEF MdirtyLock, ipc_mdirty, locals, FlowStates, TableInv
<1>16. QED
  BY <1>1, <1>2, <1>3, <1>4, <1>5, <1>6, <1>7, <1>8, <1>9, <1>10, <1>11, <1>12, <1>13, <1>14, <1>15, SMTT(60) DEF
    FlowStep

\* The SIGIPC handler empties the table and its count together.
LEMMA HandlerTable ==
  ASSUME ControlTypes, TableInv, NEW p \in Procs, HandlerStep(p)
  PROVE  TableInv'
<1>1. CASE SigipcEvict(p)
  BY <1>1, PageSets, SMTT(60) DEF SigipcEvict, ControlTypes, TableInv, locals
<1>2. CASE SigipcEvictAssert(p) \/ SigipcDecAssert(p)
           \/ SigipcPostInterrupts(p)
  BY <1>2, TableVanish DEF SigipcEvictAssert, SigipcDecAssert, SigipcPostInterrupts, Abort
<1>3. CASE SigipcDeliver(p) \/ SigipcCheck(p) \/ SigipcDecLock(p)
           \/ SigipcDecLoad(p) \/ SigipcDecStore(p) \/ SigipcPost(p)
  <2>1. UNCHANGED <<table, range, pc>>
    BY <1>3 DEF SigipcDeliver, SigipcCheck, SigipcDecLock, SigipcDecLoad, SigipcDecStore, SigipcPost, locals
  <2>2. QED
    BY <2>1 DEF table, TableInv
<1>4. QED
  BY <1>1, <1>2, <1>3 DEF HandlerStep

\* A call starts without touching the table; a write fault opens the window.
LEMMA AppTable ==
  ASSUME ControlTypes, TableInv, NEW p \in Procs, AppStep(p)
  PROVE  TableInv'
<1> USE DEF Flow
<1>1. ASSUME NEW to \in {"swap_i", "insert", "swap_o", "swap_x", "unlink"},
             NEW c, NEW d, NEW R \in SUBSET Pages, NEW cont,
             Call(p, to, c, d, R, cont)
      PROVE  TableInv'
  BY <1>1 DEF Call, table, ControlTypes, TableInv
<1>2. CASE \E R \in (SUBSET Pages) \ {{}} :
             MtouchProbe(p, R) \/ MevictProbe(p, R) \/ MclearProbe(p, R)
  BY <1>1, <1>2, ZenonT(60) DEF MtouchProbe, MevictProbe, MclearProbe
<1>3. CASE \E x \in Pages : WriteFault(p, x)
  BY <1>3, PageSets, SMTT(30) DEF WriteFault, locals, ControlTypes, TableInv
<1>4. CASE sbma_malloc(p) \/ FreeProbe(p)
  <2>1. Pages \in SUBSET Pages
    OBVIOUS
  <2>2. QED
    BY <1>1, <1>4, <2>1 DEF sbma_malloc, FreeProbe
<1>5. CASE ipc_sigon(p) \/ ipc_sigoff(p)
  BY <1>5, TableKept DEF ipc_sigon, ipc_sigoff, locals, FlowStates, TableInv
<1>6. CASE ipc_destroy(p)
  BY <1>6, TableVanish, ZenonT(60) DEF ipc_destroy
<1>7. QED
  BY <1>2, <1>3, <1>4, <1>5, <1>6 DEF AppStep

\* Every step keeps the count and the flags of the table in step.
LEMMA TableStep == ControlInv /\ TableInv /\ [Next]_vars => TableInv'
<1> SUFFICES ASSUME ControlInv, TableInv, [Next]_vars PROVE TableInv'
  OBVIOUS
<1>1. ControlTypes
  BY DEF ControlInv
<1>2. CASE Next
  BY <1>1, <1>2, AppTable, FlowTable, HandlerTable DEF Next
<1>3. CASE UNCHANGED vars
  BY <1>3 DEF vars, locals, table, TableInv
<1>4. QED
  BY <1>2, <1>3

--------------------------------------------------------------------------
(***************************************************************************)
(* The shared counters and the copies of them.                             *)
(***************************************************************************)

ValueTypes ==
  /\ s_mem \in Nat
  /\ c_mem \in [Procs -> Nat] /\ d_mem \in [Procs -> Nat]
  /\ c_arg \in [Procs -> Nat] /\ d_arg \in [Procs -> Nat]
  /\ snap \in [Procs -> Nat] /\ reg \in [Procs -> Nat]
  /\ h_c \in [Procs -> Nat] /\ h_d \in [Procs -> Nat]
  /\ hreg \in [Procs -> Nat]

\* What the ASSERTs of ipc_atomic_dec found is still true at the stores.
AssertsHold ==
  \A p \in Procs :
    /\ pc[p] = "dec_st" => c_mem[p] >= c_arg[p] /\ d_mem[p] >= d_arg[p]
    /\ hpc[p] = "dec_st" => c_mem[p] >= h_c[p] /\ d_mem[p] >= h_d[p]

ValueInv == ValueTypes /\ CopiesCurrent /\ AssertsHold

\* The counters of ipc_init are numbers and no copy of s_mem is in use.
LEMMA ValueInit == Init => ValueInv
  BY ConstantsAssumption, SMTT(30) DEF Init, ValueInv, ValueTypes, CopiesCurrent, AssertsHold, ConstantsAssumption

\* A process that ends takes its copies with it.
LEMMA ValueVanish ==
  ASSUME ControlTypes, ValueInv, NEW p \in Procs, Vanish(p), UNCHANGED shared,
         pc' = [pc EXCEPT ![p] = "gone"]
  PROVE  ValueInv'
  BY SMTT(60) DEF ControlTypes, ValueInv, ValueTypes, CopiesCurrent, AssertsHold, Vanish, Return, shared

\* The flow's updates of s_mem happen where no other copy of it is in use: the
\* handshake keeps the other flows out of the section and all handlers idle.
LEMMA FlowValue ==
  ASSUME ControlInv, ValueInv, NEW p \in Procs, FlowStep(p)
  PROVE  ValueInv'
<1> USE DEF Flow, ControlInv, ControlTypes, ValueInv, ValueTypes, CopiesCurrent,
    AssertsHold, shared, hand, locals
<1>1. CASE MadmitBeg(p) \/ MadmitRead(p)
  BY <1>1, SMTT(60) DEF MadmitBeg, MadmitRead
<1>2. CASE MadmitSignal(p)
  BY <1>2, SMTT(60) DEF MadmitSignal
<1>3. CASE MadmitKillFails(p)
  BY <1>3, ValueVanish, SMTT(60) DEF MadmitKillFails, Return, Abort
<1>4. CASE MadmitWoken(p) \/ AtomicIncLoad(p)
  BY <1>4, SMTT(60) DEF MadmitWoken, AtomicIncLoad
<1>5. CASE AtomicIncStore(p)
  BY <1>5, SMTT(60) DEF AtomicIncStore, Handshake, InSection, Outstanding
<1>6. CASE MadmitEnd(p)
  BY <1>6, SMTT(60) DEF MadmitEnd
<1>7. CASE MevictBeg(p) \/ AtomicDecLock(p) \/ AtomicDecLoad(p)
  BY <1>7, SMTT(60) DEF MevictBeg, AtomicDecLock, AtomicDecLoad
<1>8. CASE AtomicDecAssert(p)
  BY <1>8, ValueVanish DEF AtomicDecAssert, Abort
<1>9. CASE AtomicDecStore(p)
  BY <1>9, SMTT(60) DEF AtomicDecStore, Handshake, InSection, Outstanding
<1>10. CASE MevictEnd(p) \/ SwapI(p) \/ Insert(p)
  BY <1>10, SMTT(60) DEF MevictEnd, SwapI, Insert, Return
<1>11. CASE MallocFails(p) \/ SwapO(p) \/ SwapX(p) \/ Unlink(p)
  BY <1>11, SMTT(60) DEF MallocFails, SwapO, SwapX, Unlink, Worked, EvictOrReturn
<1>12. CASE WriteFaultCount(p) \/ MdirtyLock(p)
  BY <1>12, SMTT(60) DEF WriteFaultCount, MdirtyLock
<1>13. CASE ipc_mdirty(p)
  BY <1>13, SMTT(60) DEF ipc_mdirty
<1>14. QED
  BY <1>1, <1>2, <1>3, <1>4, <1>5, <1>6, <1>7, <1>8, <1>9, <1>10, <1>11, <1>12, <1>13, ZenonT(60) DEF FlowStep

\* The handler's update of s_mem happens while the sender waits, and the sender
\* reads s_mem again before it uses it.
LEMMA HandlerValue ==
  ASSUME ControlInv, TableInv, ValueInv, NEW p \in Procs, HandlerStep(p)
  PROVE  ValueInv'
<1> USE DEF Handler, ControlInv, ControlTypes, ValueInv, ValueTypes,
    CopiesCurrent, AssertsHold, shared, locals
<1>1. CASE SigipcDeliver(p) \/ SigipcCheck(p) \/ SigipcDecLock(p)
           \/ SigipcPost(p)
  BY <1>1, SMTT(60) DEF SigipcDeliver, SigipcCheck, SigipcDecLock, SigipcPost
<1>2. CASE SigipcEvict(p)
  <2>1. Cardinality(charged[p]) \in Nat /\ d_pages[p] \in Nat
    BY PageSets, SMTT(60) DEF TableInv
  <2>2. QED
    BY <1>2, <2>1 DEF SigipcEvict
<1>3. CASE SigipcEvictAssert(p) \/ SigipcDecAssert(p)
           \/ SigipcPostInterrupts(p)
  BY <1>3, ValueVanish, ZenonT(60) DEF SigipcEvictAssert, SigipcDecAssert, SigipcPostInterrupts, Abort
<1>4. CASE SigipcDecLoad(p)
  BY <1>4, SMTT(60) DEF SigipcDecLoad, AssertFailure
<1>5. CASE SigipcDecStore(p)
  BY <1>5, SMTT(60) DEF SigipcDecStore, Handshake, InSection, Outstanding
<1>6. QED
  BY <1>1, <1>2, <1>3, <1>4, <1>5, ZenonT(60) DEF HandlerStep

\* The amounts that the probes of the library calls compute are numbers.
LEMMA AppValue ==
  ASSUME ControlInv, TableInv, ValueInv, NEW p \in Procs, AppStep(p)
  PROVE  ValueInv'
<1> USE DEF Flow, ControlInv, ControlTypes, ValueInv, ValueTypes,
    CopiesCurrent, AssertsHold, shared, hand, locals
<1>1. ASSUME NEW to \in {"swap_i", "insert", "swap_o", "swap_x", "unlink"},
             NEW c \in Nat, NEW d \in Nat, NEW R, NEW cont,
             Call(p, to, c, d, R, cont)
      PROVE  ValueInv'
  BY <1>1 DEF Call
<1>2. 0 \in Nat /\ d_pages[p] \in Nat
      /\ Meta + Cardinality(charged[p]) \in Nat
      /\ Meta + (IF Rsdnt THEN Cardinality(Pages) ELSE 0) \in Nat
  BY PageSets, ConstantsAssumption, SMTT(30) DEF TableInv, ConstantsAssumption
<1>3. ASSUME NEW R \in SUBSET Pages
      PROVE  /\ Cardinality(R \ charged[p]) \in Nat
             /\ Cardinality(R \cap charged[p]) \in Nat
             /\ Cardinality(R \cap dirty[p]) \in Nat
  <2>1. /\ R \ charged[p] \in SUBSET Pages
        /\ R \cap charged[p] \in SUBSET Pages
        /\ R \cap dirty[p] \in SUBSET Pages
    OBVIOUS
  <2>2. QED
    BY <2>1, PageSets, SMTT(60)
<1>4. CASE \E R \in (SUBSET Pages) \ {{}} :
             MtouchProbe(p, R) \/ MevictProbe(p, R) \/ MclearProbe(p, R)
  BY <1>1, <1>2, <1>3, <1>4, ZenonT(60) DEF MtouchProbe, MevictProbe, MclearProbe
<1>5. CASE \E x \in Pages : WriteFault(p, x)
  BY <1>5, SMTT(30) DEF WriteFault
<1>6. CASE sbma_malloc(p) \/ FreeProbe(p)
  BY <1>1, <1>2, <1>6, ZenonT(60) DEF sbma_malloc, FreeProbe
<1>7. CASE ipc_sigon(p) \/ ipc_sigoff(p)
  BY <1>7, SMTT(60) DEF ipc_sigon, ipc_sigoff
<1>8. CASE ipc_destroy(p)
  BY <1>8, ValueVanish DEF ipc_destroy
<1>9. QED
  BY <1>4, <1>5, <1>6, <1>7, <1>8, ZenonT(60) DEF AppStep

\* Every step keeps the copies of s_mem current and the counters non-negative.
LEMMA ValueStep ==
  ControlInv /\ TableInv /\ ValueInv /\ [Next]_vars => ValueInv'
<1> SUFFICES ASSUME ControlInv, TableInv, ValueInv, [Next]_vars
             PROVE  ValueInv'
  OBVIOUS
<1>1. CASE Next
  BY <1>1, AppValue, FlowValue, HandlerValue DEF Next
<1>2. CASE UNCHANGED vars
  BY <1>2 DEF vars, shared, hand, locals, ValueInv, ValueTypes, CopiesCurrent, AssertsHold
<1>3. QED
  BY <1>1, <1>2

\* ipc_madmit decides on the current s_mem and no read-modify-write of s_mem
\* loses an update, although the SIGIPC handlers write it without inter_mtx.
THEOREM CopiesAreCurrent == Spec => []CopiesCurrent
<1>1. ValueInv => CopiesCurrent
  BY DEF ValueInv
<1>2. QED
  BY <1>1, ControlInit, ControlStep, TableInit, TableStep, ValueInit, ValueStep, PTL DEF Spec

--------------------------------------------------------------------------
(***************************************************************************)
(* The budget.                                                             *)
(***************************************************************************)

\* Moving k pages between s_mem and one process's c_mem keeps the sum: the
\* partial sums from that process on move by k.
LEMMA Transfer ==
  ASSUME Conservation, ValueTypes, NEW p \in Procs, NEW k \in Int,
         s_mem' = s_mem - k, c_mem' = [c_mem EXCEPT ![p] = @ + k],
         s_mem - k >= 0, c_mem[p] + k >= 0
  PROVE  Conservation'
<1>1. N \in Nat /\ MaxMem \in Nat
  BY ConstantsAssumption DEF ConstantsAssumption
<1>2. PICK f \in [0 .. N -> 0 .. MaxMem] :
        PartialSums(f, c_mem) /\ f[N] + s_mem = MaxMem
  BY DEF Conservation
<1> DEFINE g == [i \in 0 .. N |-> IF i >= p THEN f[i] + k ELSE f[i]]
<1>3. /\ \A i \in 0 .. N : f[i] \in 0 .. MaxMem
      /\ p \in 1 .. N /\ p - 1 \in 0 .. N /\ p \in 0 .. N
      /\ f[p] = f[p - 1] + c_mem[p]
      /\ \A i, j \in 0 .. N : i <= j => f[i] <= f[j]
      /\ f[0] = 0
  BY <1>1, <1>2, SMTT(30) DEF PartialSums, Procs
<1>4. s_mem' \in Nat /\ s_mem \in Nat /\ c_mem[p] \in Nat
  BY SMTT(30) DEF ValueTypes
<1>5. /\ \A i \in 0 .. N : g[i] \in Int
      /\ \A i \in 0 .. N : i >= p => g[i] = f[i] + k
      /\ \A i \in 0 .. N : i < p => g[i] = f[i]
  BY <1>3, SMTT(30)
<1>gtype. g \in [0 .. N -> Int]
  BY <1>3, SMTT(30)
<1> HIDE DEF g
<1>6. \A i, j \in 0 .. N : i <= j => g[i] <= g[j]
  <2> SUFFICES ASSUME NEW i \in 0 .. N, NEW j \in 0 .. N, i <= j
               PROVE  g[i] <= g[j]
    OBVIOUS
  <2>1. CASE i < p /\ p <= j
    <3>1. f[i] <= f[p - 1] /\ f[p] <= f[j]
      BY <1>3, <2>1, SMTT(30)
    <3>2. g[i] = f[i] /\ g[j] = f[j] + k
      BY <1>3, <1>5, <2>1
    <3>3. f[i] \in Int /\ f[j] \in Int /\ f[p] \in Int /\ f[p - 1] \in Int
      BY <1>3, SMTT(30)
    <3>4. QED
      BY <1>3, <1>4, <3>1, <3>2, <3>3, SMTT(30)
  <2>2. CASE i >= p
    <3>1. g[i] = f[i] + k /\ g[j] = f[j] + k /\ f[i] <= f[j]
      BY <1>3, <1>5, <2>2, SMTT(30)
    <3>2. QED
      BY <1>3, <3>1, SMTT(30)
  <2>3. CASE j < p
    <3>1. g[i] = f[i] /\ g[j] = f[j] /\ f[i] <= f[j]
      BY <1>3, <1>5, <2>3, SMTT(30)
    <3>2. QED
      BY <3>1
  <2>4. QED
    BY <1>3, <2>1, <2>2, <2>3, SMTT(30)
<1>7. g[0] = 0 /\ g[N] + s_mem' = MaxMem
  <2>1. 0 \in 0 .. N /\ N \in 0 .. N /\ 0 < p /\ N >= p
    BY <1>1, <1>3, SMTT(30)
  <2>2. g[0] = f[0] /\ g[N] = f[N] + k /\ f[N] \in Int
    BY <1>3, <1>5, <2>1, SMTT(30)
  <2>3. QED
    BY <1>1, <1>2, <1>3, <1>4, <2>2, SMTT(30)
<1>8. g \in [0 .. N -> 0 .. MaxMem]
  <2>1. ASSUME NEW i \in 0 .. N PROVE g[i] \in 0 .. MaxMem
    <3>1. g[0] <= g[i] /\ g[i] <= g[N] /\ g[i] \in Int /\ g[N] \in Int
      BY <1>1, <1>5, <1>6, SMTT(30)
    <3>2. QED
      BY <1>1, <1>4, <1>7, <3>1, SMTT(30)
  <2>2. QED
    BY <1>gtype, <2>1
<1>9. \A q \in Procs : g[q] = g[q - 1] + c_mem'[q]
  <2> SUFFICES ASSUME NEW q \in Procs PROVE g[q] = g[q - 1] + c_mem'[q]
    OBVIOUS
  <2>1. q \in 0 .. N /\ q - 1 \in 0 .. N /\ f[q] = f[q - 1] + c_mem[q]
    BY <1>1, <1>2, SMTT(30) DEF PartialSums, Procs
  <2>2. c_mem[q] \in Int /\ c_mem'[q] = IF q = p THEN c_mem[q] + k ELSE c_mem[q]
    BY SMTT(30) DEF ValueTypes
  <2>3. f[q] \in Int /\ f[q - 1] \in Int
    BY <1>3, <2>1, SMTT(30)
  <2>4. CASE q < p
    BY <1>3, <1>5, <2>1, <2>2, <2>4, SMTT(30)
  <2>5. CASE q = p
    <3>1. g[q] = f[q] + k /\ g[q - 1] = f[q - 1]
      BY <1>3, <1>5, <2>1, <2>5, SMTT(30)
    <3>2. QED
      BY <2>1, <2>2, <2>3, <2>5, <3>1, SMTT(30)
  <2>6. CASE q > p
    <3>1. g[q] = f[q] + k /\ g[q - 1] = f[q - 1] + k
      BY <1>3, <1>5, <2>1, <2>6, SMTT(30)
    <3>2. QED
      BY <1>3, <2>1, <2>2, <2>3, <2>6, <3>1, SMTT(30)
  <2>7. QED
    BY <1>3, <2>1, <2>4, <2>5, <2>6, SMTT(30)
<1>10. QED
  BY <1>6, <1>7, <1>8, <1>9 DEF Conservation, PartialSums

\* After ipc_init the whole budget is left.
LEMMA ConservationInit == Init => Conservation
<1> SUFFICES ASSUME Init PROVE Conservation
  OBVIOUS
<1> DEFINE z == [i \in 0 .. N |-> 0]
<1>1. z \in [0 .. N -> 0 .. MaxMem] /\ PartialSums(z, c_mem)
  BY ConstantsAssumption, SMTT(30) DEF ConstantsAssumption, PartialSums, Init, Procs
<1>2. z[N] + s_mem = MaxMem
  BY ConstantsAssumption, SMTT(30) DEF ConstantsAssumption, Init
<1> HIDE DEF z
<1>3. QED
  BY <1>1, <1>2 DEF Conservation

\* Only three steps move pages; each moves the amount it loaded s_mem for.
LEMMA ConservationStep ==
  ValueInv /\ Conservation /\ [Next]_vars => Conservation'
<1> SUFFICES ASSUME ValueInv, Conservation, [Next]_vars PROVE Conservation'
  OBVIOUS
<1>0. ValueTypes /\ CopiesCurrent /\ AssertsHold
  BY DEF ValueInv
<1>1. ASSUME NEW p \in Procs, AtomicIncStore(p) PROVE Conservation'
  <2>1. reg[p] = s_mem /\ s_mem >= c_arg[p]
    BY <1>0, <1>1 DEF CopiesCurrent, AtomicIncStore, Flow
  <2>2. s_mem' = s_mem - c_arg[p] /\ c_mem' = [c_mem EXCEPT ![p] = @ + c_arg[p]]
    BY <1>1, <2>1 DEF AtomicIncStore
  <2>3. c_arg[p] \in Int /\ s_mem - c_arg[p] >= 0 /\ c_mem[p] + c_arg[p] >= 0
    BY <1>0, <2>1, SMTT(30) DEF ValueTypes
  <2>4. QED
    BY <1>0, <2>2, <2>3, Transfer
<1>2. ASSUME NEW p \in Procs, NEW r \in Nat, NEW c \in Nat, r = s_mem,
             c_mem[p] >= c, s_mem' = r + c,
             c_mem' = [c_mem EXCEPT ![p] = @ - c]
      PROVE  Conservation'
  <2>1. s_mem' = s_mem - (-c) /\ c_mem' = [c_mem EXCEPT ![p] = @ + (-c)]
    <3>1. c_mem[p] - c = c_mem[p] + (-c) /\ s_mem' = s_mem - (-c)
      BY <1>0, <1>2, SMTT(30) DEF ValueTypes
    <3>2. QED
      BY <1>2, <3>1
  <2>2. -c \in Int /\ s_mem - (-c) >= 0 /\ c_mem[p] + (-c) >= 0
    BY <1>0, <1>2, SMTT(30) DEF ValueTypes
  <2>3. QED
    BY <1>0, <2>1, <2>2, Transfer
<1>3. ASSUME NEW p \in Procs, AtomicDecStore(p) PROVE Conservation'
  BY <1>0, <1>2, <1>3 DEF AtomicDecStore, Flow, CopiesCurrent, AssertsHold, ValueTypes
<1>4. ASSUME NEW p \in Procs, SigipcDecStore(p) PROVE Conservation'
  BY <1>0, <1>2, <1>4 DEF SigipcDecStore, Handler, CopiesCurrent, AssertsHold, ValueTypes
<1>5. ASSUME UNCHANGED <<s_mem, c_mem>> PROVE Conservation'
  BY <1>5, ZenonT(60) DEF Conservation
<1>6. ASSUME NEW p \in Procs, AppStep(p) PROVE UNCHANGED <<s_mem, c_mem>>
  BY <1>6 DEF AppStep, MtouchProbe, MevictProbe, MclearProbe, sbma_malloc, FreeProbe, Call, WriteFault, ipc_sigon,
    ipc_sigoff, ipc_destroy, shared
<1>7. ASSUME NEW p \in Procs, FlowStep(p), ~AtomicIncStore(p),
             ~AtomicDecStore(p)
      PROVE  UNCHANGED <<s_mem, c_mem>>
  BY <1>7 DEF FlowStep, MadmitBeg, MadmitRead, MadmitSignal, MadmitKillFails, MadmitWoken, AtomicIncLoad,
    MadmitEnd, MevictBeg, AtomicDecLock, AtomicDecLoad, AtomicDecAssert, MevictEnd, SwapI, Insert, MallocFails, SwapO,
    SwapX, Unlink, WriteFaultCount, MdirtyLock, ipc_mdirty, shared
<1>8. ASSUME NEW p \in Procs, HandlerStep(p), ~SigipcDecStore(p)
      PROVE  UNCHANGED <<s_mem, c_mem>>
  BY <1>8 DEF HandlerStep, SigipcDeliver, SigipcCheck, SigipcEvict, SigipcEvictAssert, SigipcDecLock, SigipcDecLoad,
    SigipcDecAssert, SigipcPost, SigipcPostInterrupts, shared
<1>9. CASE UNCHANGED vars
  BY <1>5, <1>9 DEF vars, shared
<1>10. QED
  BY <1>1, <1>3, <1>4, <1>5, <1>6, <1>7, <1>8, <1>9 DEF Next

\* What is charged and what is left always add up to max_mem, for any number of
\* processes and pages, and however processes end in the middle of the protocol.
THEOREM BudgetConserved == Spec => []Conservation
  BY ControlInit, ControlStep, TableInit, TableStep, ValueInit, ValueStep, ConservationInit, ConservationStep, PTL DEF
    Spec

--------------------------------------------------------------------------
(***************************************************************************)
(* Eligibility.                                                            *)
(***************************************************************************)

\* The chosen process holds memory until its handler has looked: its own flow
\* cannot enter the critical section in between.
ChosenInv ==
  \A p \in Procs : pend[p] > 0 \/ hpc[p] = "elig" => c_mem[p] > 0

\* Nobody has been sent a SIGIPC at the start.
LEMMA ChosenInit == Init => ChosenInv
  BY SMTT(60) DEF Init, ChosenInv

\* A process that was chosen stays charged until its handler has looked: its own
\* ipc_mevict cannot run, as the sender holds inter_mtx.
LEMMA ChosenStep ==
  ControlInv /\ ValueInv /\ ChosenInv /\ [Next]_vars => ChosenInv'
<1> SUFFICES ASSUME ControlInv, ValueInv, ChosenInv, [Next]_vars
             PROVE  ChosenInv'
  OBVIOUS
<1> USE DEF ChosenInv, ControlInv, ControlTypes, ValueInv, ValueTypes
<1>1. ASSUME NEW p \in Procs, MadmitSignal(p) PROVE ChosenInv'
  BY <1>1 DEF MadmitSignal, Victims, Flow, shared, hand
<1>2. ASSUME NEW p \in Procs, AtomicIncStore(p) PROVE ChosenInv'
  BY <1>2, SMTT(60) DEF AtomicIncStore, hand
<1>3. ASSUME NEW p \in Procs, AtomicDecStore(p) PROVE ChosenInv'
  BY <1>3 DEF AtomicDecStore, Flow, hand, Handshake, InSection, Outstanding
<1>4. ASSUME NEW p \in Procs, SigipcDecStore(p) PROVE ChosenInv'
  BY <1>4 DEF SigipcDecStore, Handler
<1>5. ASSUME NEW p \in Procs, SigipcDeliver(p) PROVE ChosenInv'
  BY <1>5 DEF SigipcDeliver, Handler, shared
<1>6. ASSUME UNCHANGED <<pend, c_mem>>, NEW p \in Procs,
             NEW to \in HandlerStates \ {"elig"},
             hpc' = hpc \/ hpc' = [hpc EXCEPT ![p] = to]
      PROVE  ChosenInv'
  BY <1>6
<1>7. ASSUME NEW p \in Procs, AppStep(p) PROVE ChosenInv'
  <2>1. /\ UNCHANGED <<pend, c_mem>>
        /\ hpc' = hpc \/ hpc' = [hpc EXCEPT ![p] = "none"]
    BY <1>7, ZenonT(60) DEF AppStep, MtouchProbe, MevictProbe, MclearProbe, sbma_malloc, FreeProbe, Call, WriteFault,
      ipc_sigon, ipc_sigoff, ipc_destroy, Vanish, shared, hand
  <2>2. QED
    BY <1>6, <2>1 DEF HandlerStates
<1>8. ASSUME NEW p \in Procs, FlowStep(p), ~MadmitSignal(p),
             ~AtomicIncStore(p), ~AtomicDecStore(p)
      PROVE  ChosenInv'
  <2>1. /\ UNCHANGED <<pend, c_mem>>
        /\ hpc' = hpc \/ hpc' = [hpc EXCEPT ![p] = "none"]
    BY <1>8, ZenonT(60) DEF FlowStep, MadmitBeg, MadmitRead, MadmitKillFails, MadmitWoken, AtomicIncLoad,
      MadmitEnd, MevictBeg, AtomicDecLock, AtomicDecLoad, AtomicDecAssert, MevictEnd, SwapI, Insert, MallocFails,
      SwapO, SwapX, Unlink, WriteFaultCount, MdirtyLock, ipc_mdirty, Abort, Vanish, shared, hand
  <2>2. QED
    BY <1>6, <2>1 DEF HandlerStates
<1>9. ASSUME NEW p \in Procs, HandlerStep(p), ~SigipcDecStore(p),
             ~SigipcDeliver(p)
      PROVE  ChosenInv'
  <2>1. /\ UNCHANGED <<pend, c_mem>>
        /\ \E to \in HandlerStates \ {"elig"} : hpc' = [hpc EXCEPT ![p] = to]
    BY <1>9 DEF HandlerStep, SigipcCheck, SigipcEvict, SigipcEvictAssert, SigipcDecLock, SigipcDecLoad,
      SigipcDecAssert, SigipcPost, SigipcPostInterrupts, Handler, Abort, Vanish, shared, HandlerStates
  <2>2. QED
    BY <1>6, <2>1, SMTT(60)
<1>10. CASE UNCHANGED vars
  BY <1>10 DEF vars, shared, hand
<1>11. QED
  BY <1>1, <1>2, <1>3, <1>4, <1>5, <1>7, <1>8, <1>9, <1>10, ZenonT(60) DEF Next

\* vmm_sigipc never finds its process ineligible: every SIGIPC is honoured.
THEOREM EligibilityKept == Spec => []StillEligible
<1>1. ASSUME ValueInv, ChosenInv, NEW p \in Procs, hpc[p] = "elig"
      PROVE  ipc_is_eligible(p)
  <2>1. c_mem[p] # 0
    BY <1>1, SMTT(30) DEF ValueInv, ValueTypes, ChosenInv
  <2>2. QED
    BY <2>1 DEF ipc_is_eligible
<1>2. ValueInv /\ ChosenInv => StillEligible
  BY <1>1 DEF StillEligible
<1>3. QED
  BY <1>2, ControlInit, ControlStep, TableInit, TableStep, ValueInit, ValueStep, ChosenInit, ChosenStep, PTL DEF Spec

--------------------------------------------------------------------------
(***************************************************************************)
(* Types.                                                                  *)
(***************************************************************************)

FlagTypes ==
  /\ sigon \in [Procs -> BOOLEAN]
  /\ intra_mtx \in [Procs -> {"free", "main", "hand"}]
  /\ fault \in [Procs -> Faults]
  /\ alloc \in [Procs -> BOOLEAN]

\* The private mutex, the faults and the flags at the start.
LEMMA FlagInit == Init => FlagTypes
  BY SMTT(30) DEF Init, FlagTypes, Faults

\* Every step keeps the types of the private mutex, the faults and the flags.
LEMMA FlagStep == FlagTypes /\ [Next]_vars => FlagTypes'
<1> SUFFICES ASSUME FlagTypes, [Next]_vars PROVE FlagTypes'
  OBVIOUS
<1> USE DEF FlagTypes
<1>1. ASSUME NEW p \in Procs, NEW why \in Faults, Abort(p, why),
             UNCHANGED sigon
      PROVE  FlagTypes'
  BY <1>1, SMTT(60) DEF Abort, Vanish
<1>2. ASSUME NEW p \in Procs, AppStep(p) PROVE FlagTypes'
  BY <1>2, ZenonT(60) DEF AppStep, MtouchProbe, MevictProbe, MclearProbe, sbma_malloc, FreeProbe, Call, WriteFault,
    ipc_sigon, ipc_sigoff, ipc_destroy, Vanish, table
<1>3. ASSUME NEW p \in Procs, FlowStep(p) PROVE FlagTypes'
  BY <1>1, <1>3, ZenonT(60) DEF FlowStep, MadmitBeg, MadmitRead, MadmitSignal, MadmitKillFails,
    MadmitWoken, AtomicIncLoad, AtomicIncStore, MadmitEnd, MevictBeg, AtomicDecLock, AtomicDecLoad, AtomicDecAssert,
    AtomicDecStore, MevictEnd, SwapI, Insert, MallocFails, SwapO, SwapX, Unlink, WriteFaultCount, MdirtyLock,
    ipc_mdirty, table, AssertFailure, Faults
<1>4. ASSUME NEW p \in Procs, HandlerStep(p) PROVE FlagTypes'
  BY <1>1, <1>4, ZenonT(60) DEF HandlerStep, SigipcDeliver, SigipcCheck, SigipcEvict, SigipcEvictAssert,
    SigipcDecLock, SigipcDecLoad, SigipcDecAssert, SigipcDecStore, SigipcPost, SigipcPostInterrupts, table,
    AssertFailure, Faults
<1>5. CASE UNCHANGED vars
  BY <1>5 DEF vars, table
<1>6. QED
  BY <1>2, <1>3, <1>4, <1>5 DEF Next

\* The variables keep their types; in particular no size_t counter of the
\* protocol wraps below zero.
THEOREM TypesHold == Spec => []TypeOK
<1>1. ControlInv /\ TableInv /\ ValueInv /\ FlagTypes => TypeOK
  BY DEF ControlInv, ControlTypes, TableInv, ValueInv, ValueTypes, FlagTypes, TypeOK
<1>2. QED
  BY <1>1, ControlInit, ControlStep, TableInit, TableStep, ValueInit, ValueStep, FlagInit, FlagStep, PTL DEF Spec

--------------------------------------------------------------------------
(***************************************************************************)
(* No budget is lost.                                                      *)
(***************************************************************************)

Admitting == {"madmit_beg", "read", "scan", "wait_done", "inc", "madmit_end"}
Returning == {"mevict_beg", "dec_lock", "dec", "dec_st"}

\* The step of the call for which p admits pages, once it has started.
Goal(p) == IF pc[p] \in Admitting THEN then[p] ELSE pc[p]

\* Pages and dirty pages that p is charged for and that its table does not
\* hold: admitted for a call under way, or about to be returned by it.
Due(p) ==
  IF pc[p] \in {"madmit_end", "swap_i", "insert"} \cup Returning THEN c_arg[p] ELSE 0
DueDirty(p) == IF pc[p] \in Returning THEN d_arg[p] ELSE 0

\* A dirty page counted in the table and not yet in the shared segment.
Uncounted(p) == IF pc[p] \in {"mdirty_lock", "mdirty"} THEN 1 ELSE 0

\* Pages the table holds, and pages of the range of the call: not yet charged,
\* charged, and dirty.
Held(p) == Cardinality(charged[p])
Fresh(p) == Cardinality(range[p] \ charged[p])
Stale(p) == Cardinality(range[p] \cap charged[p])
Soiled(p) == Cardinality(range[p] \cap dirty[p])

Cost(p) == IF alloc[p] THEN Meta ELSE 0

\* What a call read off the table before it was interrupted is still enough.
ProbeHolds(p) ==
  /\ pc[p] \in Admitting => then[p] # "idle"
  /\ Goal(p) = "swap_i" => alloc[p] /\ c_arg[p] <= Fresh(p)
  /\ Goal(p) = "insert" =>
       ~ alloc[p] /\ c_arg[p] <= Meta + (IF Rsdnt THEN Cardinality(Pages) ELSE 0)
  /\ pc[p] = "swap_o" => Stale(p) <= c_arg[p]
  /\ pc[p] \in {"swap_o", "swap_x"} => Soiled(p) <= d_arg[p]
  /\ pc[p] = "unlink" =>
       alloc[p] /\ Meta + Held(p) <= c_arg[p] /\ d_pages[p] <= d_arg[p]

\* Without an allocation nothing is charged, and the handler owes only between
\* its eviction and its ipc_atomic_dec.
Empty(p) ==
  /\ ~ alloc[p] => charged[p] = {}
  /\ hpc[p] \notin {"lock", "dec", "dec_st"} => h_c[p] = 0 /\ h_d[p] = 0

Covered(p) ==
  pc[p] # "gone" =>
    /\ c_mem[p] <= Held(p) + Cost(p) + h_c[p] + Due(p)
    /\ d_mem[p] + Uncounted(p) <= d_pages[p] + h_d[p] + DueDirty(p)


Books(p) == ProbeHolds(p) /\ Empty(p) /\ Covered(p)

\* What makes NoLeak inductive: a process is charged for no more than what its
\* table holds, its handler is returning and its call admitted or is returning.
BooksInv == \A p \in Procs : Books(p)

Typed == ControlTypes /\ TableInv /\ ValueTypes /\ FlagTypes

\* What a step leaves alone of what Books(p) speaks of.
SameShared(p) ==
  /\ c_mem'[p] = c_mem[p] /\ d_mem'[p] = d_mem[p]
  /\ hpc'[p] = hpc[p] /\ h_c'[p] = h_c[p] /\ h_d'[p] = h_d[p]
SameCall(p) ==
  then'[p] = then[p] /\ c_arg'[p] = c_arg[p] /\ d_arg'[p] = d_arg[p] /\ range'[p] = range[p]
SameTable(p) ==
  /\ alloc'[p] = alloc[p] /\ charged'[p] = charged[p]
  /\ dirty'[p] = dirty[p] /\ d_pages'[p] = d_pages[p]
Same(p) == pc'[p] = pc[p] /\ SameShared(p) /\ SameCall(p) /\ SameTable(p)

\* A step that leaves all of it alone keeps the books.
LEMMA BooksSame ==
  ASSUME NEW p \in Procs, Books(p), Same(p)
  PROVE  Books(p)'
  BY DEF Books, ProbeHolds, Empty, Covered, Goal, Due, DueDirty, Uncounted, Cost, Held, Fresh, Stale, Soiled, Same,
    SameShared, SameCall, SameTable

\* A process that ends takes its books with it.
LEMMA BooksVanish ==
  ASSUME Typed, NEW p \in Procs, Vanish(p), pc' = [pc EXCEPT ![p] = "gone"]
  PROVE  Books(p)'
<1>1. pc'[p] = "gone" /\ charged'[p] = {} /\ h_c'[p] = 0 /\ h_d'[p] = 0
  BY DEF Typed, ControlTypes, TableInv, ValueTypes, Vanish
<1> QED
  BY <1>1 DEF Books, ProbeHolds, Empty, Covered, Goal, Admitting

\* A process that ends leaves the books of the others alone.
LEMMA VanishElsewhere ==
  ASSUME Typed, NEW q \in Procs, Vanish(q), pc' = [pc EXCEPT ![q] = "gone"], UNCHANGED shared,
         NEW p \in Procs, p # q
  PROVE  Same(p)
  BY DEF Typed, ControlTypes, TableInv, ValueTypes, FlagTypes, Vanish, Return, Same, SameShared, SameCall,
    SameTable, shared

\* So does every step of its calls, though they change the shared segment.
LEMMA FlowElsewhere ==
  ASSUME Typed, NEW q \in Procs, FlowStep(q), NEW p \in Procs, p # q
  PROVE  Same(p)
<1> USE DEF Flow, Typed, ControlTypes, TableInv, ValueTypes, FlagTypes, Same, SameShared, SameCall,
    SameTable, shared, hand, locals, table
<1>1. CASE MadmitBeg(q) \/ MadmitRead(q) \/ MadmitSignal(q)
  BY <1>1 DEF MadmitBeg, MadmitRead, MadmitSignal
<1>2. CASE MadmitKillFails(q)
  <2>1. CASE Abort(q, "madmit")
    BY <1>2, <2>1, VanishElsewhere DEF MadmitKillFails, Abort
  <2>2. CASE pc' = [pc EXCEPT ![q] = "idle"] /\ Return(q) /\ UNCHANGED <<hand, table>>
    BY <1>2, <2>2 DEF MadmitKillFails, Return
  <2> QED
    BY <1>2, <2>1, <2>2 DEF MadmitKillFails
<1>3. CASE MadmitWoken(q) \/ AtomicIncLoad(q) \/ AtomicIncStore(q) \/ MadmitEnd(q)
  BY <1>3 DEF MadmitWoken, AtomicIncLoad, AtomicIncStore, MadmitEnd
<1>4. CASE MevictBeg(q) \/ AtomicDecLock(q) \/ AtomicDecLoad(q) \/ AtomicDecStore(q)
  BY <1>4 DEF MevictBeg, AtomicDecLock, AtomicDecLoad, AtomicDecStore
<1>5. CASE AtomicDecAssert(q)
  BY <1>5, VanishElsewhere DEF AtomicDecAssert, Abort
<1>6. CASE MevictEnd(q)
  BY <1>6 DEF MevictEnd, Return
<1>7. CASE SwapI(q)
  BY <1>7 DEF SwapI, Return
<1>9. CASE Insert(q)
  BY <1>9 DEF Insert, Return
<1>10. CASE MallocFails(q)
  BY <1>10 DEF MallocFails, Worked
<1>11. CASE SwapO(q)
  BY <1>11 DEF SwapO, Worked
<1>12. CASE SwapX(q)
  BY <1>12 DEF SwapX, Worked
<1>13. CASE Unlink(q)
  BY <1>13 DEF Unlink, Worked
<1>8. CASE WriteFaultCount(q) \/ MdirtyLock(q) \/ ipc_mdirty(q)
  BY <1>8 DEF WriteFaultCount, MdirtyLock, ipc_mdirty
<1> QED
  BY <1>1, <1>2, <1>3, <1>4, <1>5, <1>6, <1>7, <1>8, <1>9, <1>10, <1>11, <1>12, <1>13 DEF FlowStep

\* The handler of a process updates only the entries of its own process.
LEMMA HandlerElsewhere ==
  ASSUME Typed, NEW q \in Procs, HandlerStep(q), NEW p \in Procs, p # q
  PROVE  Same(p)
<1> USE DEF Handler, Typed, ControlTypes, TableInv, ValueTypes, FlagTypes, Same, SameShared, SameCall,
    SameTable, shared, locals, table
<1>1. CASE SigipcDeliver(q) \/ SigipcCheck(q) \/ SigipcDecLock(q) \/ SigipcDecLoad(q) \/ SigipcPost(q)
  BY <1>1 DEF SigipcDeliver, SigipcCheck, SigipcDecLock, SigipcDecLoad, SigipcPost
<1>2. CASE SigipcEvict(q)
  BY <1>2 DEF SigipcEvict
<1>3. CASE SigipcDecStore(q)
  BY <1>3 DEF SigipcDecStore
<1>4. CASE SigipcEvictAssert(q) \/ SigipcDecAssert(q) \/ SigipcPostInterrupts(q)
  <2>1. Vanish(q) /\ pc' = [pc EXCEPT ![q] = "gone"] /\ UNCHANGED shared
    BY <1>4 DEF SigipcEvictAssert, SigipcDecAssert, SigipcPostInterrupts, Abort
  <2> QED
    BY <2>1, VanishElsewhere
<1> QED
  BY <1>1, <1>2, <1>3, <1>4 DEF HandlerStep

\* A call starts in one process.
LEMMA AppElsewhere ==
  ASSUME Typed, NEW q \in Procs, AppStep(q), NEW p \in Procs, p # q
  PROVE  Same(p)
<1> USE DEF Flow, Typed, ControlTypes, TableInv, ValueTypes, FlagTypes, Same, SameShared, SameCall,
    SameTable, shared, hand, locals, table
<1>1. ASSUME NEW to, NEW c, NEW d, NEW R, NEW cont, Call(q, to, c, d, R, cont) PROVE Same(p)
  BY <1>1 DEF Call
<1>2. CASE \E R \in (SUBSET Pages) \ {{}} : MtouchProbe(q, R) \/ MevictProbe(q, R) \/ MclearProbe(q, R)
  BY <1>1, <1>2 DEF MtouchProbe, MevictProbe, MclearProbe
<1>3. CASE sbma_malloc(q) \/ FreeProbe(q)
  BY <1>1, <1>3 DEF sbma_malloc, FreeProbe
<1>4. CASE \E x \in Pages : WriteFault(q, x)
  BY <1>4 DEF WriteFault
<1>5. CASE ipc_sigon(q) \/ ipc_sigoff(q)
  BY <1>5 DEF ipc_sigon, ipc_sigoff
<1>6. CASE ipc_destroy(q)
  BY <1>6, VanishElsewhere DEF ipc_destroy
<1> QED
  BY <1>2, <1>3, <1>4, <1>5, <1>6 DEF AppStep

\* Charging the pages of a range that are not charged yet adds their number.
LEMMA UnionSize ==
  ASSUME NEW S \in SUBSET Pages, NEW T \in SUBSET Pages
  PROVE  /\ Cardinality(S \cup T) = Cardinality(S) + Cardinality(T \ S)
         /\ Cardinality(T \ S) <= Cardinality(T)
         /\ Cardinality(S \cap T) = Cardinality(T \cap S)
         /\ Cardinality(S) \in Nat /\ Cardinality(T) \in Nat
         /\ Cardinality(S \cup T) \in Nat /\ Cardinality(S \cap T) \in Nat
         /\ Cardinality(S \ T) \in Nat /\ Cardinality(T \ S) \in Nat
<1>1. IsFiniteSet(S) /\ IsFiniteSet(T)
  BY ConstantsAssumption, FS_Subset DEF ConstantsAssumption
<1>2. Cardinality(S \cup T) = Cardinality(S) + Cardinality(T) - Cardinality(S \cap T)
  BY <1>1, FS_Union
<1>3. S \cap T = T \cap S
  OBVIOUS
<1>4. Cardinality(T \ S) = Cardinality(T) - Cardinality(T \cap S)
  BY PageSets
<1>5. S \cup T \in SUBSET Pages /\ S \cap T \in SUBSET Pages /\ S \ T \in SUBSET Pages /\ T \ S \in SUBSET Pages
  OBVIOUS
<1>6. /\ Cardinality(S) \in Nat /\ Cardinality(T) \in Nat /\ Cardinality(S \cup T) \in Nat
      /\ Cardinality(S \cap T) \in Nat /\ Cardinality(S \ T) \in Nat /\ Cardinality(T \ S) \in Nat
  BY <1>5, PageSets
<1>7. Cardinality(S \cap T) = Cardinality(T \cap S)
  BY <1>3
<1> QED
  BY <1>2, <1>4, <1>6, <1>7, SMTT(30)

\* What the table of p holds, and what the calls make of it.
LEMMA Sizes ==
  ASSUME TableInv, NEW p \in Procs
  PROVE  /\ Held(p) \in Nat /\ Fresh(p) \in Nat /\ Stale(p) \in Nat /\ Soiled(p) \in Nat
         /\ Cardinality(range[p]) \in Nat /\ Cardinality(Pages) \in Nat
         /\ Cardinality({}) = 0 /\ Fresh(p) <= Cardinality(range[p])
         /\ Cardinality(charged[p] \cup range[p]) = Held(p) + Fresh(p)
         /\ Cardinality(charged[p] \ range[p]) = Held(p) - Stale(p)
         /\ Cardinality(dirty[p] \cap range[p]) = Soiled(p)
<1>1. charged[p] \in SUBSET Pages /\ range[p] \in SUBSET Pages /\ dirty[p] \in SUBSET Pages
  BY DEF TableInv
<1>2. Cardinality(charged[p] \cup range[p]) = Held(p) + Fresh(p)
  BY <1>1, UnionSize DEF Held, Fresh
<1>3. Cardinality(charged[p] \ range[p]) = Held(p) - Cardinality(charged[p] \cap range[p])
  BY <1>1, PageSets DEF Held
<1>4. /\ Fresh(p) <= Cardinality(range[p])
      /\ Cardinality(dirty[p] \cap range[p]) = Soiled(p)
      /\ Cardinality(charged[p] \cap range[p]) = Stale(p)
  BY <1>1, UnionSize DEF Fresh, Soiled, Stale
<1>5. /\ Held(p) \in Nat /\ Fresh(p) \in Nat /\ Stale(p) \in Nat /\ Soiled(p) \in Nat
      /\ Cardinality(range[p]) \in Nat
  BY <1>1, UnionSize DEF Held, Fresh, Stale, Soiled
<1>6. Cardinality(Pages) \in Nat /\ Cardinality({}) = 0
  BY PageSets
<1> QED
  BY <1>2, <1>3, <1>4, <1>5, <1>6

\* What the steps below do to the two sums of Covered: c pages against x in the
\* table, k for the table entry, h with the handler and a with the call; d dirty
\* pages, u of them uncounted, against y in the table, g with the handler and e
\* with the call.
LEMMA Charges ==
  ASSUME NEW c \in Nat, NEW x \in Nat, NEW k \in Nat, NEW h \in Nat, NEW a \in Nat, NEW b \in Nat
  PROVE  /\ c <= x + k + h + 0 => c + a <= x + k + h + a
         /\ c <= x + k + h + a => c - a <= x + k + h + 0
         /\ c <= x + k + h + a /\ a <= b => c <= (x + b) + k + h + 0
         /\ c <= 0 + 0 + h + a /\ a <= k + b => c <= b + k + h + 0
         /\ c <= x + k + h + 0 => c <= x + k + h + a
         /\ c <= x + k + h + 0 /\ b <= a => c <= (x - b) + k + h + a
         /\ c <= x + k + h + 0 /\ k + x <= a => c <= 0 + 0 + h + a
         /\ c <= x + k + 0 + a => c <= 0 + k + x + a
         /\ c <= x + k + h + a => c - h <= x + k + 0 + a
  BY SMTT(30)
LEMMA DirtyCharges ==
  ASSUME NEW d \in Nat, NEW y \in Nat, NEW g \in Nat, NEW e \in Nat, NEW u \in Nat, NEW b \in Nat
  PROVE  /\ d + 0 <= y + g + e => (d - e) + 0 <= y + g + 0
         /\ d + 0 <= y + g + 0 => d + 0 <= y + g + e
         /\ d + 0 <= y + g + 0 /\ b <= e => d + 0 <= (y - b) + g + e
         /\ d + 0 <= y + g + 0 /\ y <= e => d + 0 <= 0 + g + e
         /\ d + 0 <= y + g + 0 => d + 1 <= (y + 1) + g + 0
         /\ d + 1 <= y + g + 0 => (d + 1) + 0 <= y + g + 0
         /\ d + u <= y + 0 + e => d + u <= 0 + y + e
         /\ d + u <= y + g + e => (d - g) + u <= y + 0 + e
  BY SMTT(30)

\* A call of the library admits what its probe counted, and returns it or puts it
\* into the table.
LEMMA FlowBooks ==
  ASSUME Typed, NEW p \in Procs, Books(p), FlowStep(p)
  PROVE  Books(p)'
<1> USE ConstantsAssumption
<1>1. /\ c_mem[p] \in Nat /\ d_mem[p] \in Nat /\ c_arg[p] \in Nat /\ d_arg[p] \in Nat
      /\ h_c[p] \in Nat /\ h_d[p] \in Nat /\ d_pages[p] \in Nat /\ Meta \in Nat
  BY DEF Typed, ValueTypes, TableInv
<1>2. TableInv
  BY DEF Typed
<1>3. /\ Held(p) \in Nat /\ Fresh(p) \in Nat /\ Stale(p) \in Nat /\ Soiled(p) \in Nat
      /\ Cardinality(Pages) \in Nat
  BY <1>2, Sizes
<1>21. Cost(p) \in Nat
  BY <1>1 DEF Cost
<1> DEFINE Done == c_arg'[p] = 0 /\ d_arg'[p] = 0 /\ range'[p] = {} /\ then'[p] = "idle"
<1> DEFINE Left == c_arg'[p] = c_arg[p] /\ d_arg'[p] = d_arg[p] /\ range'[p] = {} /\ then'[p] = "idle"
<1>4. CASE MadmitBeg(p) \/ MadmitRead(p) \/ MadmitSignal(p) \/ MadmitWoken(p) \/ AtomicIncLoad(p)
  <2>1. /\ SameShared(p) /\ SameCall(p) /\ SameTable(p)
        /\ pc[p] \in {"madmit_beg", "read", "scan", "wait_done"}
        /\ pc'[p] \in {"read", "scan", "wait_done", "inc"}
    BY <1>4 DEF MadmitBeg, MadmitRead, MadmitSignal, MadmitWoken, AtomicIncLoad, Flow, Typed,
      ControlTypes, TableInv, ValueTypes, FlagTypes, SameShared, SameCall, SameTable, shared, hand, locals, table
  <2>2. /\ Held(p)' = Held(p) /\ Fresh(p)' = Fresh(p) /\ Stale(p)' = Stale(p) /\ Soiled(p)' = Soiled(p)
    BY <1>2, <2>1, Sizes DEF SameCall, SameTable, Held, Fresh, Stale, Soiled
  <2> QED
    BY <1>1, <1>3, <2>1, <2>2 DEF SameShared, SameCall, SameTable, Books, ProbeHolds, Empty, Covered, Goal, Due,
      DueDirty, Uncounted, Cost, Admitting, Returning
<1>5. CASE MadmitKillFails(p)
  <2>1. CASE Vanish(p) /\ pc' = [pc EXCEPT ![p] = "gone"]
    BY <2>1, BooksVanish
  <2>2. CASE pc' = [pc EXCEPT ![p] = "idle"] /\ Return(p) /\ UNCHANGED <<hand, table>>
    <3>1. /\ SameShared(p) /\ Done /\ SameTable(p) /\ pc[p] = "scan" /\ pc'[p] = "idle"
      BY <1>5, <2>2 DEF MadmitKillFails, Return, Flow, Typed, ControlTypes, TableInv, ValueTypes, FlagTypes,
        SameShared, SameCall, SameTable, shared, hand, locals, table
    <3>2. Held(p)' = Held(p)
      BY <3>1 DEF SameTable, Held
    <3> QED
      BY <1>1, <1>3, <3>1, <3>2 DEF SameShared, SameCall, SameTable, Books, ProbeHolds, Empty, Covered, Goal, Due,
        DueDirty, Uncounted, Cost, Admitting, Returning
  <2> QED
    BY <1>5, <2>1, <2>2 DEF MadmitKillFails, Abort
<1>6. CASE AtomicIncStore(p)
  <2>1. /\ c_mem'[p] = c_mem[p] + c_arg[p] /\ d_mem'[p] = d_mem[p]
        /\ hpc'[p] = hpc[p] /\ h_c'[p] = h_c[p] /\ h_d'[p] = h_d[p]
        /\ SameCall(p) /\ SameTable(p) /\ pc[p] = "inc" /\ pc'[p] = "madmit_end"
    BY <1>6 DEF AtomicIncStore, Flow, Typed, ControlTypes, TableInv, ValueTypes, FlagTypes, SameShared, SameCall,
      SameTable, shared, hand, locals, table
  <2>2. /\ Held(p)' = Held(p) /\ Fresh(p)' = Fresh(p) /\ Stale(p)' = Stale(p) /\ Soiled(p)' = Soiled(p)
    BY <1>2, <2>1, Sizes DEF SameCall, SameTable, Held, Fresh, Stale, Soiled
  <2>3. ProbeHolds(p)' /\ Empty(p)'
    BY <2>1, <2>2 DEF SameShared, SameCall, SameTable, Books, ProbeHolds, Empty, Goal, Admitting
  <2>4. /\ Due(p) = 0 /\ Due(p)' = c_arg[p] /\ DueDirty(p) = 0 /\ DueDirty(p)' = 0
        /\ Uncounted(p) = 0 /\ Uncounted(p)' = 0 /\ Cost(p)' = Cost(p)
    BY <2>1 DEF SameCall, SameTable, Due, DueDirty, Uncounted, Cost, Returning
  <2>5. /\ c_mem[p] <= Held(p) + Cost(p) + h_c[p] + 0
        /\ d_mem[p] + 0 <= d_pages[p] + h_d[p] + 0
    BY <2>1, <2>2, <2>4 DEF Books, Covered
  <2>6. c_mem[p] + c_arg[p] <= Held(p) + Cost(p) + h_c[p] + c_arg[p]
    BY <1>1, <1>3, <1>21, <2>5, Charges
  <2>7. Covered(p)'
    BY <2>1, <2>2, <2>4, <2>5, <2>6 DEF SameShared, SameTable, Covered
  <2> QED
    BY <2>3, <2>7 DEF Books
<1>7. CASE MadmitEnd(p)
  <2>1. /\ SameShared(p) /\ SameCall(p) /\ SameTable(p)
        /\ pc[p] = "madmit_end" /\ pc'[p] = then[p]
        /\ then[p] \in {"idle", "swap_i", "insert"}
    BY <1>7 DEF MadmitEnd, Flow, Typed, ControlTypes, TableInv, ValueTypes, FlagTypes, SameShared, SameCall,
      SameTable, shared, hand, locals, table
  <2>2. /\ Held(p)' = Held(p) /\ Fresh(p)' = Fresh(p) /\ Stale(p)' = Stale(p) /\ Soiled(p)' = Soiled(p)
    BY <1>2, <2>1, Sizes DEF SameCall, SameTable, Held, Fresh, Stale, Soiled
  <2> QED
    BY <1>1, <1>3, <2>1, <2>2 DEF SameShared, SameCall, SameTable, Books, ProbeHolds, Empty, Covered, Goal, Due,
      DueDirty, Uncounted, Cost, Admitting, Returning
<1>8. CASE MevictBeg(p) \/ AtomicDecLock(p) \/ AtomicDecLoad(p)
  <2>1. /\ SameShared(p) /\ SameCall(p) /\ SameTable(p)
        /\ pc[p] \in Returning /\ pc'[p] \in Returning
    BY <1>8 DEF MevictBeg, AtomicDecLock, AtomicDecLoad, Returning, Flow, Typed, ControlTypes, TableInv, ValueTypes,
      FlagTypes, SameShared, SameCall, SameTable, shared, hand, locals, table
  <2>2. /\ Held(p)' = Held(p) /\ Fresh(p)' = Fresh(p) /\ Stale(p)' = Stale(p) /\ Soiled(p)' = Soiled(p)
    BY <1>2, <2>1, Sizes DEF SameCall, SameTable, Held, Fresh, Stale, Soiled
  <2> QED
    BY <1>1, <1>3, <2>1, <2>2 DEF SameShared, SameCall, SameTable, Books, ProbeHolds, Empty, Covered, Goal, Due,
      DueDirty, Uncounted, Cost, Admitting, Returning
<1>9. CASE AtomicDecAssert(p)
  BY <1>9, BooksVanish DEF AtomicDecAssert, Abort
<1>10. CASE AtomicDecStore(p)
  <2>1. /\ c_mem'[p] = c_mem[p] - c_arg[p] /\ d_mem'[p] = d_mem[p] - d_arg[p]
        /\ hpc'[p] = hpc[p] /\ h_c'[p] = h_c[p] /\ h_d'[p] = h_d[p]
        /\ SameCall(p) /\ SameTable(p) /\ pc[p] = "dec_st" /\ pc'[p] = "mevict_end"
    BY <1>10 DEF AtomicDecStore, Flow, Typed, ControlTypes, TableInv, ValueTypes, FlagTypes, SameShared, SameCall,
      SameTable, shared, hand, locals, table
  <2>2. /\ Held(p)' = Held(p) /\ Fresh(p)' = Fresh(p) /\ Stale(p)' = Stale(p) /\ Soiled(p)' = Soiled(p)
    BY <1>2, <2>1, Sizes DEF SameCall, SameTable, Held, Fresh, Stale, Soiled
  <2>3. ProbeHolds(p)' /\ Empty(p)'
    BY <2>1, <2>2 DEF SameShared, SameCall, SameTable, Books, ProbeHolds, Empty, Goal, Admitting
  <2>4. /\ Due(p) = c_arg[p] /\ Due(p)' = 0 /\ DueDirty(p) = d_arg[p] /\ DueDirty(p)' = 0
        /\ Uncounted(p) = 0 /\ Uncounted(p)' = 0 /\ Cost(p)' = Cost(p)
    BY <2>1 DEF SameCall, SameTable, Due, DueDirty, Uncounted, Cost, Returning
  <2>5. /\ c_mem[p] <= Held(p) + Cost(p) + h_c[p] + c_arg[p]
        /\ d_mem[p] + 0 <= d_pages[p] + h_d[p] + d_arg[p]
    BY <2>1, <2>2, <2>4 DEF Books, Covered
  <2>6. c_mem[p] - c_arg[p] <= Held(p) + Cost(p) + h_c[p] + 0
    BY <1>1, <1>3, <1>21, <2>5, Charges
  <2>7. (d_mem[p] - d_arg[p]) + 0 <= d_pages[p] + h_d[p] + 0
    BY <1>1, <1>3, <2>5, DirtyCharges
  <2>8. Covered(p)'
    BY <2>1, <2>2, <2>4, <2>5, <2>6, <2>7 DEF SameShared, SameTable, Covered
  <2> QED
    BY <2>3, <2>8 DEF Books
<1>11. CASE MevictEnd(p)
  <2>1. /\ SameShared(p) /\ Done /\ SameTable(p) /\ pc[p] = "mevict_end" /\ pc'[p] = "idle"
    BY <1>11 DEF MevictEnd, Return, Flow, Typed, ControlTypes, TableInv, ValueTypes, FlagTypes, SameShared, SameCall,
      SameTable, shared, hand, locals, table
  <2>2. Held(p)' = Held(p)
    BY <1>2, <2>1, Sizes DEF SameCall, SameTable, Held, Fresh, Stale, Soiled
  <2> QED
    BY <1>1, <1>3, <2>1, <2>2 DEF SameShared, SameCall, SameTable, Books, ProbeHolds, Empty, Covered, Goal, Due,
      DueDirty, Uncounted, Cost, Admitting, Returning
<1>12. CASE SwapI(p)
  <2>1. /\ SameShared(p) /\ Done /\ pc[p] = "swap_i" /\ pc'[p] = "idle"
        /\ charged'[p] = charged[p] \cup range[p]
        /\ alloc'[p] = alloc[p] /\ dirty'[p] = dirty[p] /\ d_pages'[p] = d_pages[p]
    BY <1>12 DEF SwapI, Return, Flow, Typed, ControlTypes, TableInv, ValueTypes, FlagTypes, SameShared, SameCall,
      SameTable, shared, hand, locals, table
  <2>2. Held(p)' = Held(p) + Fresh(p)
    BY <1>2, <2>1, Sizes DEF SameCall, SameTable, Held, Fresh, Stale, Soiled
  <2>3. ProbeHolds(p)' /\ Empty(p)'
    BY <2>1, <2>2 DEF SameShared, SameCall, SameTable, Books, ProbeHolds, Empty, Goal, Admitting
  <2>4. /\ Due(p) = c_arg[p] /\ Due(p)' = 0 /\ DueDirty(p) = 0 /\ DueDirty(p)' = 0
        /\ Uncounted(p) = 0 /\ Uncounted(p)' = 0 /\ Cost(p)' = Cost(p)
    BY <2>1 DEF SameCall, SameTable, Due, DueDirty, Uncounted, Cost, Returning
  <2>5. c_arg[p] <= Fresh(p)
    BY <2>1 DEF Books, ProbeHolds, Goal, Admitting, Cost
  <2>6. /\ c_mem[p] <= Held(p) + Cost(p) + h_c[p] + c_arg[p]
        /\ d_mem[p] + 0 <= d_pages[p] + h_d[p] + 0
    BY <2>1, <2>2, <2>4, <2>5 DEF Books, Covered
  <2>7. c_mem[p] <= (Held(p) + Fresh(p)) + Cost(p) + h_c[p] + 0
    BY <1>1, <1>3, <1>21, <2>5, <2>6, Charges
  <2>8. Covered(p)'
    BY <2>1, <2>2, <2>4, <2>6, <2>7 DEF SameShared, SameTable, Covered
  <2> QED
    BY <2>3, <2>8 DEF Books
<1>13. CASE Insert(p)
  <2>1. /\ SameShared(p) /\ Done /\ pc[p] = "insert" /\ pc'[p] = "idle"
        /\ charged'[p] = (IF Rsdnt THEN Pages ELSE {})
        /\ alloc'[p] = TRUE /\ dirty'[p] = dirty[p] /\ d_pages'[p] = d_pages[p]
    BY <1>13 DEF Insert, Return, Flow, Typed, ControlTypes, TableInv, ValueTypes, FlagTypes, SameShared, SameCall,
      SameTable, shared, hand, locals, table
  <2>2. /\ Held(p)' = IF Rsdnt THEN Cardinality(Pages) ELSE 0
        /\ Held(p) = 0
    <3>1. pc[p] = "insert" => charged[p] = {}
      BY DEF Books, ProbeHolds, Empty, Goal, Admitting
    <3> QED
      BY <1>2, <2>1, <3>1, Sizes DEF Held
  <2>3. ProbeHolds(p)' /\ Empty(p)'
    BY <2>1, <2>2 DEF SameShared, SameCall, SameTable, Books, ProbeHolds, Empty, Goal, Admitting
  <2>4. /\ Due(p) = c_arg[p] /\ Due(p)' = 0 /\ DueDirty(p) = 0 /\ DueDirty(p)' = 0
        /\ Uncounted(p) = 0 /\ Uncounted(p)' = 0 /\ Cost(p)' = Meta
    BY <2>1 DEF SameCall, SameTable, Due, DueDirty, Uncounted, Cost, Returning
  <2>5. Cost(p) = 0 /\ c_arg[p] <= Meta + (IF Rsdnt THEN Cardinality(Pages) ELSE 0)
    BY <2>1 DEF Books, ProbeHolds, Goal, Admitting, Cost
  <2>6. /\ c_mem[p] <= 0 + 0 + h_c[p] + c_arg[p]
        /\ d_mem[p] + 0 <= d_pages[p] + h_d[p] + 0
    BY <2>1, <2>2, <2>4, <2>5 DEF Books, Covered
  <2>7. c_mem[p] <= (IF Rsdnt THEN Cardinality(Pages) ELSE 0) + Meta + h_c[p] + 0
    <3>1. (IF Rsdnt THEN Cardinality(Pages) ELSE 0) \in Nat
      BY <1>3
    <3> QED
      BY <1>1, <2>5, <2>6, <3>1, Charges
  <2>8. Covered(p)'
    BY <2>1, <2>2, <2>4, <2>6, <2>7 DEF SameShared, SameTable, Covered
  <2> QED
    BY <2>3, <2>8 DEF Books
<1>14. CASE MallocFails(p)
  <2>1. /\ SameShared(p) /\ Left /\ SameTable(p) /\ pc[p] = "insert" /\ pc'[p] = EvictOrReturn(p)
    BY <1>14 DEF MallocFails, Worked, Flow, Typed, ControlTypes, TableInv, ValueTypes, FlagTypes, SameShared,
      SameCall, SameTable, shared, hand, locals, table
  <2>2. Held(p)' = Held(p)
    BY <1>2, <2>1, Sizes DEF SameCall, SameTable, Held, Fresh, Stale, Soiled
  <2>3. ProbeHolds(p)' /\ Empty(p)'
    BY <2>1, <2>2 DEF SameShared, SameCall, SameTable, Books, ProbeHolds, Empty, Goal, Admitting, EvictOrReturn
  <2>4. /\ Due(p) = c_arg[p] /\ Due(p)' = c_arg[p] /\ DueDirty(p) = 0 /\ DueDirty(p)' = d_arg[p]
        /\ Uncounted(p) = 0 /\ Uncounted(p)' = 0 /\ Cost(p)' = Cost(p)
    BY <2>1 DEF SameCall, SameTable, Due, DueDirty, Uncounted, Cost, Returning, EvictOrReturn
  <2>5. /\ c_mem[p] <= Held(p) + Cost(p) + h_c[p] + c_arg[p]
        /\ d_mem[p] + 0 <= d_pages[p] + h_d[p] + 0
    BY <2>1, <2>2, <2>4 DEF Books, Covered
  <2>6. d_mem[p] + 0 <= d_pages[p] + h_d[p] + d_arg[p]
    BY <1>1, <1>3, <2>5, DirtyCharges
  <2>7. Covered(p)'
    BY <2>1, <2>2, <2>4, <2>5, <2>6 DEF SameShared, SameTable, Covered
  <2> QED
    BY <2>3, <2>7 DEF Books
<1>15. CASE SwapO(p)
  <2>1. /\ SameShared(p) /\ Left /\ pc[p] = "swap_o" /\ pc'[p] = EvictOrReturn(p)
        /\ charged'[p] = charged[p] \ range[p] /\ alloc'[p] = alloc[p]
        /\ d_pages'[p] = d_pages[p] - Cardinality(dirty[p] \cap range[p])
    BY <1>15 DEF SwapO, Worked, Flow, Typed, ControlTypes, TableInv, ValueTypes, FlagTypes, SameShared, SameCall,
      SameTable, shared, hand, locals, table
  <2>2. Held(p)' = Held(p) - Stale(p) /\ d_pages'[p] = d_pages[p] - Soiled(p)
    BY <1>2, <2>1, Sizes DEF SameCall, SameTable, Held, Fresh, Stale, Soiled
  <2>3. ProbeHolds(p)' /\ Empty(p)'
    BY <2>1, <2>2 DEF SameShared, SameCall, SameTable, Books, ProbeHolds, Empty, Goal, Admitting, EvictOrReturn
  <2>4. /\ Due(p) = 0 /\ Due(p)' = c_arg[p] /\ DueDirty(p) = 0 /\ DueDirty(p)' = d_arg[p]
        /\ Uncounted(p) = 0 /\ Uncounted(p)' = 0 /\ Cost(p)' = Cost(p)
    BY <2>1 DEF SameCall, SameTable, Due, DueDirty, Uncounted, Cost, Returning, EvictOrReturn
  <2>5. Stale(p) <= c_arg[p] /\ Soiled(p) <= d_arg[p]
    BY <2>1 DEF Books, ProbeHolds, Goal, Admitting, Cost
  <2>6. /\ c_mem[p] <= Held(p) + Cost(p) + h_c[p] + 0
        /\ d_mem[p] + 0 <= d_pages[p] + h_d[p] + 0
    BY <2>1, <2>2, <2>4, <2>5 DEF Books, Covered
  <2>7. c_mem[p] <= (Held(p) - Stale(p)) + Cost(p) + h_c[p] + c_arg[p]
    BY <1>1, <1>3, <1>21, <2>5, <2>6, Charges
  <2>8. d_mem[p] + 0 <= (d_pages[p] - Soiled(p)) + h_d[p] + d_arg[p]
    BY <1>1, <1>3, <2>5, <2>6, DirtyCharges
  <2>9. Covered(p)'
    BY <2>1, <2>2, <2>4, <2>6, <2>7, <2>8 DEF SameShared, SameTable, Covered
  <2> QED
    BY <2>3, <2>9 DEF Books
<1>16. CASE SwapX(p)
  <2>1. /\ SameShared(p) /\ Left /\ pc[p] = "swap_x" /\ pc'[p] = EvictOrReturn(p)
        /\ charged'[p] = charged[p] /\ alloc'[p] = alloc[p]
        /\ d_pages'[p] = d_pages[p] - Cardinality(dirty[p] \cap range[p])
    BY <1>16 DEF SwapX, Worked, Flow, Typed, ControlTypes, TableInv, ValueTypes, FlagTypes, SameShared, SameCall,
      SameTable, shared, hand, locals, table
  <2>2. Held(p)' = Held(p) /\ d_pages'[p] = d_pages[p] - Soiled(p)
    BY <1>2, <2>1, Sizes DEF SameCall, SameTable, Held, Fresh, Stale, Soiled
  <2>3. ProbeHolds(p)' /\ Empty(p)'
    BY <2>1, <2>2 DEF SameShared, SameCall, SameTable, Books, ProbeHolds, Empty, Goal, Admitting, EvictOrReturn
  <2>4. /\ Due(p) = 0 /\ Due(p)' = c_arg[p] /\ DueDirty(p) = 0 /\ DueDirty(p)' = d_arg[p]
        /\ Uncounted(p) = 0 /\ Uncounted(p)' = 0 /\ Cost(p)' = Cost(p)
    BY <2>1 DEF SameCall, SameTable, Due, DueDirty, Uncounted, Cost, Returning, EvictOrReturn
  <2>5. Soiled(p) <= d_arg[p]
    BY <2>1 DEF Books, ProbeHolds, Goal, Admitting, Cost
  <2>6. /\ c_mem[p] <= Held(p) + Cost(p) + h_c[p] + 0
        /\ d_mem[p] + 0 <= d_pages[p] + h_d[p] + 0
    BY <2>1, <2>2, <2>4, <2>5 DEF Books, Covered
  <2>7. c_mem[p] <= Held(p) + Cost(p) + h_c[p] + c_arg[p]
    BY <1>1, <1>3, <1>21, <2>5, <2>6, Charges
  <2>8. d_mem[p] + 0 <= (d_pages[p] - Soiled(p)) + h_d[p] + d_arg[p]
    BY <1>1, <1>3, <2>5, <2>6, DirtyCharges
  <2>9. Covered(p)'
    BY <2>1, <2>2, <2>4, <2>6, <2>7, <2>8 DEF SameShared, SameTable, Covered
  <2> QED
    BY <2>3, <2>9 DEF Books
<1>17. CASE Unlink(p)
  <2>1. /\ SameShared(p) /\ Left /\ pc[p] = "unlink" /\ pc'[p] = EvictOrReturn(p)
        /\ charged'[p] = {} /\ alloc'[p] = FALSE /\ d_pages'[p] = 0
    BY <1>17 DEF Unlink, Worked, Flow, Typed, ControlTypes, TableInv, ValueTypes, FlagTypes, SameShared, SameCall,
      SameTable, shared, hand, locals, table
  <2>2. Held(p)' = 0
    BY <1>2, <2>1, Sizes DEF SameCall, SameTable, Held, Fresh, Stale, Soiled
  <2>3. ProbeHolds(p)' /\ Empty(p)'
    BY <2>1, <2>2 DEF SameShared, SameCall, SameTable, Books, ProbeHolds, Empty, Goal, Admitting, EvictOrReturn
  <2>4. /\ Due(p) = 0 /\ Due(p)' = c_arg[p] /\ DueDirty(p) = 0 /\ DueDirty(p)' = d_arg[p]
        /\ Uncounted(p) = 0 /\ Uncounted(p)' = 0 /\ Cost(p)' = 0
    BY <2>1 DEF SameCall, SameTable, Due, DueDirty, Uncounted, Cost, Returning, EvictOrReturn
  <2>5. Cost(p) = Meta /\ Meta + Held(p) <= c_arg[p] /\ d_pages[p] <= d_arg[p]
    BY <2>1 DEF Books, ProbeHolds, Goal, Admitting, Cost
  <2>6. /\ c_mem[p] <= Held(p) + Meta + h_c[p] + 0
        /\ d_mem[p] + 0 <= d_pages[p] + h_d[p] + 0
    BY <2>1, <2>2, <2>4, <2>5 DEF Books, Covered
  <2>7. c_mem[p] <= 0 + 0 + h_c[p] + c_arg[p]
    BY <1>1, <1>3, <1>21, <2>5, <2>6, Charges
  <2>8. d_mem[p] + 0 <= 0 + h_d[p] + d_arg[p]
    BY <1>1, <1>3, <2>5, <2>6, DirtyCharges
  <2>9. Covered(p)'
    BY <2>1, <2>2, <2>4, <2>6, <2>7, <2>8 DEF SameShared, SameTable, Covered
  <2> QED
    BY <2>3, <2>9 DEF Books
<1>18. CASE WriteFaultCount(p)
  <2>1. /\ SameShared(p) /\ SameCall(p) /\ pc[p] = "d_count" /\ pc'[p] = "mdirty_lock"
        /\ charged'[p] = charged[p] /\ alloc'[p] = alloc[p]
        /\ dirty'[p] = dirty[p] /\ d_pages'[p] = d_pages[p] + 1
    BY <1>18 DEF WriteFaultCount, Flow, Typed, ControlTypes, TableInv, ValueTypes, FlagTypes, SameShared, SameCall,
      SameTable, shared, hand, locals, table
  <2>2. Held(p)' = Held(p)
    BY <1>2, <2>1, Sizes DEF SameCall, SameTable, Held, Fresh, Stale, Soiled
  <2>3. ProbeHolds(p)' /\ Empty(p)'
    BY <2>1, <2>2 DEF SameShared, SameCall, SameTable, Books, ProbeHolds, Empty, Goal, Admitting
  <2>4. /\ Due(p) = 0 /\ Due(p)' = 0 /\ DueDirty(p) = 0 /\ DueDirty(p)' = 0
        /\ Uncounted(p) = 0 /\ Uncounted(p)' = 1 /\ Cost(p)' = Cost(p)
    BY <2>1 DEF SameCall, SameTable, Due, DueDirty, Uncounted, Cost, Returning
  <2>5. /\ c_mem[p] <= Held(p) + Cost(p) + h_c[p] + 0
        /\ d_mem[p] + 0 <= d_pages[p] + h_d[p] + 0
    BY <2>1, <2>2, <2>4 DEF Books, Covered
  <2>6. d_mem[p] + 1 <= (d_pages[p] + 1) + h_d[p] + 0
    BY <1>1, <1>3, <2>5, DirtyCharges
  <2>7. Covered(p)'
    BY <2>1, <2>2, <2>4, <2>5, <2>6 DEF SameShared, SameTable, Covered
  <2> QED
    BY <2>3, <2>7 DEF Books
<1>19. CASE MdirtyLock(p)
  <2>1. /\ SameShared(p) /\ SameCall(p) /\ SameTable(p) /\ pc[p] = "mdirty_lock" /\ pc'[p] = "mdirty"
    BY <1>19 DEF MdirtyLock, Flow, Typed, ControlTypes, TableInv, ValueTypes, FlagTypes, SameShared, SameCall,
      SameTable, shared, hand, locals, table
  <2>2. /\ Held(p)' = Held(p) /\ Fresh(p)' = Fresh(p) /\ Stale(p)' = Stale(p) /\ Soiled(p)' = Soiled(p)
    BY <1>2, <2>1, Sizes DEF SameCall, SameTable, Held, Fresh, Stale, Soiled
  <2> QED
    BY <1>1, <1>3, <2>1, <2>2 DEF SameShared, SameCall, SameTable, Books, ProbeHolds, Empty, Covered, Goal, Due,
      DueDirty, Uncounted, Cost, Admitting, Returning
<1>20. CASE ipc_mdirty(p)
  <2>1. /\ c_mem'[p] = c_mem[p] /\ d_mem'[p] = d_mem[p] + 1
        /\ hpc'[p] = hpc[p] /\ h_c'[p] = h_c[p] /\ h_d'[p] = h_d[p]
        /\ SameCall(p) /\ SameTable(p) /\ pc[p] = "mdirty" /\ pc'[p] = "idle"
    BY <1>20 DEF ipc_mdirty, Flow, Typed, ControlTypes, TableInv, ValueTypes, FlagTypes, SameShared, SameCall,
      SameTable, shared, hand, locals, table
  <2>2. /\ Held(p)' = Held(p) /\ Fresh(p)' = Fresh(p) /\ Stale(p)' = Stale(p) /\ Soiled(p)' = Soiled(p)
    BY <1>2, <2>1, Sizes DEF SameCall, SameTable, Held, Fresh, Stale, Soiled
  <2>3. ProbeHolds(p)' /\ Empty(p)'
    BY <2>1, <2>2 DEF SameShared, SameCall, SameTable, Books, ProbeHolds, Empty, Goal, Admitting
  <2>4. /\ Due(p) = 0 /\ Due(p)' = 0 /\ DueDirty(p) = 0 /\ DueDirty(p)' = 0
        /\ Uncounted(p) = 1 /\ Uncounted(p)' = 0 /\ Cost(p)' = Cost(p)
    BY <2>1 DEF SameCall, SameTable, Due, DueDirty, Uncounted, Cost, Returning
  <2>5. /\ c_mem[p] <= Held(p) + Cost(p) + h_c[p] + 0
        /\ d_mem[p] + 1 <= d_pages[p] + h_d[p] + 0
    BY <2>1, <2>2, <2>4 DEF Books, Covered
  <2>6. (d_mem[p] + 1) + 0 <= d_pages[p] + h_d[p] + 0
    BY <1>1, <1>3, <2>5, DirtyCharges
  <2>7. Covered(p)'
    BY <2>1, <2>2, <2>4, <2>5, <2>6 DEF SameShared, SameTable, Covered
  <2> QED
    BY <2>3, <2>7 DEF Books
<1> QED
  BY <1>4, <1>5, <1>6, <1>7, <1>8, <1>9, <1>10, <1>11, <1>12, <1>13, <1>14, <1>15, <1>16, <1>17, <1>18, <1>19, <1>20
    DEF FlowStep

\* The handler takes the pages out of the table and returns them.
LEMMA HandlerBooks ==
  ASSUME Typed, NEW p \in Procs, Books(p), HandlerStep(p)
  PROVE  Books(p)'
<1>1. /\ c_mem[p] \in Nat /\ d_mem[p] \in Nat /\ c_arg[p] \in Nat /\ d_arg[p] \in Nat
      /\ h_c[p] \in Nat /\ h_d[p] \in Nat /\ d_pages[p] \in Nat /\ Meta \in Nat
  BY ConstantsAssumption DEF Typed, ValueTypes, TableInv
<1>2. TableInv
  BY DEF Typed
<1>3. Held(p) \in Nat /\ Fresh(p) \in Nat
  BY <1>2, Sizes
<1>8. Due(p) \in Nat /\ DueDirty(p) \in Nat /\ Uncounted(p) \in Nat /\ Cost(p) \in Nat
  BY <1>1 DEF Due, DueDirty, Uncounted, Cost
<1>4. CASE SigipcDeliver(p) \/ SigipcCheck(p) \/ SigipcDecLock(p) \/ SigipcDecLoad(p) \/ SigipcPost(p)
  <2>1. /\ pc'[p] = pc[p] /\ SameCall(p) /\ SameTable(p)
        /\ c_mem'[p] = c_mem[p] /\ d_mem'[p] = d_mem[p]
        /\ h_c'[p] = h_c[p] /\ h_d'[p] = h_d[p]
        /\ hpc'[p] \notin {"lock", "dec", "dec_st"} => hpc[p] \notin {"lock", "dec", "dec_st"}
    BY <1>4 DEF SigipcDeliver, SigipcCheck, SigipcDecLock, SigipcDecLoad, SigipcPost, Handler, Typed, ControlTypes,
      SameCall, SameTable, shared, locals, table
  <2> QED
    BY <2>1 DEF SameCall, SameTable, Books, ProbeHolds, Empty, Covered, Goal, Due, DueDirty, Uncounted, Cost, Held,
      Fresh, Stale, Soiled
<1>5. CASE SigipcEvict(p)
  <2>1. /\ pc'[p] = pc[p] /\ SameCall(p) /\ hpc[p] = "evict" /\ hpc'[p] = "lock"
        /\ c_mem'[p] = c_mem[p] /\ d_mem'[p] = d_mem[p]
        /\ h_c'[p] = Cardinality(charged[p]) /\ h_d'[p] = d_pages[p]
        /\ alloc'[p] = alloc[p] /\ charged'[p] = {} /\ dirty'[p] = {} /\ d_pages'[p] = 0
    BY <1>5 DEF SigipcEvict, Handler, Typed, ControlTypes, TableInv, ValueTypes, SameCall, shared, locals
  <2>2. /\ h_c'[p] = Held(p) /\ Held(p)' = 0 /\ Stale(p)' = 0 /\ Soiled(p)' = 0
    <3>1. range'[p] \cap charged'[p] = {} /\ range'[p] \cap dirty'[p] = {}
      BY <2>1
    <3> QED
      BY <1>2, <2>1, <3>1, Sizes DEF Held, Stale, Soiled
  <2>3. Fresh(p)' = Cardinality(range[p]) /\ Fresh(p) <= Cardinality(range[p])
        /\ Cardinality(range[p]) \in Nat
    <3>1. range'[p] \ charged'[p] = range[p]
      BY <2>1 DEF SameCall
    <3> QED
      BY <1>2, <3>1, Sizes DEF Fresh
  <2>4. h_c[p] = 0 /\ h_d[p] = 0
    BY <2>1 DEF Books, Empty
  <2>5. /\ Due(p)' = Due(p) /\ DueDirty(p)' = DueDirty(p) /\ Uncounted(p)' = Uncounted(p) /\ Cost(p)' = Cost(p)
    BY <2>1 DEF SameCall, Due, DueDirty, Uncounted, Cost
  <2>6. Goal(p)' = Goal(p) /\ Empty(p)'
    BY <2>1 DEF SameCall, Goal, Empty
  <2>7. /\ c_arg[p] <= Fresh(p) => c_arg[p] <= Cardinality(range[p])
        /\ Meta + Held(p) <= c_arg[p] => Meta + 0 <= c_arg[p]
        /\ 0 <= c_arg[p] /\ 0 <= d_arg[p]
    BY <1>1, <1>3, <2>3, SMTT(30)
  <2>8. ProbeHolds(p)'
    BY <2>1, <2>2, <2>3, <2>6, <2>7 DEF SameCall, Books, ProbeHolds
  <2>9. pc[p] # "gone" => /\ c_mem[p] <= 0 + Cost(p) + Held(p) + Due(p)
                          /\ d_mem[p] + Uncounted(p) <= 0 + d_pages[p] + DueDirty(p)
    BY <1>1, <1>3, <1>8, <2>4, Charges, DirtyCharges DEF Books, Covered
  <2> QED
    BY <2>1, <2>2, <2>5, <2>6, <2>8, <2>9 DEF Books, Covered
<1>6. CASE SigipcDecStore(p)
  <2>1. /\ pc'[p] = pc[p] /\ SameCall(p) /\ SameTable(p) /\ hpc'[p] = "post"
        /\ c_mem'[p] = c_mem[p] - h_c[p] /\ d_mem'[p] = d_mem[p] - h_d[p]
        /\ h_c'[p] = 0 /\ h_d'[p] = 0
    BY <1>6 DEF SigipcDecStore, Handler, Typed, ControlTypes, ValueTypes, SameCall, SameTable, locals, table
  <2>2. /\ Held(p)' = Held(p) /\ Fresh(p)' = Fresh(p) /\ Stale(p)' = Stale(p) /\ Soiled(p)' = Soiled(p)
    BY <2>1 DEF SameCall, SameTable, Held, Fresh, Stale, Soiled
  <2>3. ProbeHolds(p)' /\ Empty(p)'
    BY <2>1, <2>2 DEF SameCall, SameTable, Books, ProbeHolds, Empty, Goal
  <2>4. /\ Due(p)' = Due(p) /\ DueDirty(p)' = DueDirty(p) /\ Uncounted(p)' = Uncounted(p) /\ Cost(p)' = Cost(p)
    BY <2>1 DEF SameCall, SameTable, Due, DueDirty, Uncounted, Cost
  <2>5. pc[p] # "gone" => /\ c_mem[p] - h_c[p] <= Held(p) + Cost(p) + 0 + Due(p)
                          /\ (d_mem[p] - h_d[p]) + Uncounted(p) <= d_pages[p] + 0 + DueDirty(p)
    BY <1>1, <1>3, <1>8, Charges, DirtyCharges DEF Books, Covered
  <2>6. Covered(p)'
    BY <2>1, <2>2, <2>4, <2>5 DEF Covered, SameTable
  <2> QED
    BY <2>3, <2>6 DEF Books
<1>7. CASE SigipcEvictAssert(p) \/ SigipcDecAssert(p) \/ SigipcPostInterrupts(p)
  BY <1>7, BooksVanish DEF SigipcEvictAssert, SigipcDecAssert, SigipcPostInterrupts, Abort
<1> QED
  BY <1>4, <1>5, <1>6, <1>7 DEF HandlerStep

\* A call starts with what it finds in the table; a write fault only flags a page.
LEMMA AppBooks ==
  ASSUME Typed, NEW p \in Procs, Books(p), AppStep(p)
  PROVE  Books(p)'
<1>1. /\ c_mem[p] \in Nat /\ d_mem[p] \in Nat /\ c_arg[p] \in Nat /\ d_arg[p] \in Nat
      /\ h_c[p] \in Nat /\ h_d[p] \in Nat /\ d_pages[p] \in Nat /\ Meta \in Nat
  BY ConstantsAssumption DEF Typed, ValueTypes, TableInv
<1>2. TableInv
  BY DEF Typed
<1>3. Held(p) \in Nat /\ Cardinality(Pages) \in Nat
  BY <1>2, Sizes
<1> DEFINE Enough(to, c, d, R) ==
      /\ to = "swap_i" => c = Cardinality(R \ charged[p])
      /\ to = "insert" => c = Meta + (IF Rsdnt THEN Cardinality(Pages) ELSE 0)
      /\ to = "swap_o" => c = Cardinality(R \cap charged[p])
      /\ to \in {"swap_o", "swap_x"} => d = Cardinality(R \cap dirty[p])
      /\ to = "unlink" => c = Meta + Held(p) /\ d = d_pages[p]
<1>4. ASSUME NEW to \in {"swap_i", "insert", "swap_o", "swap_x", "unlink"},
             NEW c \in Nat, NEW d \in Nat, NEW R, NEW cont, Enough(to, c, d, R),
             cont = IF to \in {"swap_i", "insert"} THEN to ELSE "idle",
             Call(p, to, c, d, R, cont)
      PROVE  Books(p)'
  <2>1. /\ SameShared(p) /\ SameTable(p) /\ alloc[p] = (to # "insert")
        /\ pc[p] = "idle"
        /\ pc'[p] = IF cont # "idle" /\ c > 0 THEN "madmit_beg" ELSE to
        /\ c_arg'[p] = c /\ d_arg'[p] = d /\ range'[p] = R /\ then'[p] = cont
    BY <1>4 DEF Call, Flow, Typed, ControlTypes, TableInv, ValueTypes, FlagTypes, SameShared, SameTable, shared, hand,
      table
  <2>2. Goal(p)' = to /\ pc'[p] \in {"madmit_beg", to}
    BY <1>4, <2>1 DEF Goal, Admitting
  <2>3. /\ Fresh(p)' = Cardinality(R \ charged[p]) /\ Stale(p)' = Cardinality(R \cap charged[p])
        /\ Soiled(p)' = Cardinality(R \cap dirty[p]) /\ Held(p)' = Held(p)
    BY <2>1 DEF SameTable, Fresh, Stale, Soiled, Held
  <2>4. ProbeHolds(p)'
    <3>1. pc'[p] \in Admitting => then'[p] # "idle"
      BY <1>4, <2>1 DEF Admitting
    <3>6. (to = "insert" => ~ alloc'[p]) /\ (to # "insert" => alloc'[p])
      BY <2>1 DEF SameTable
    <3>7. "swap_i" # "insert" /\ "unlink" # "insert" /\ c <= c /\ d <= d
      BY <1>4, SMTT(30)
    <3>2. Goal(p)' = "swap_i" => alloc'[p] /\ c_arg'[p] <= Fresh(p)'
      BY <1>4, <2>1, <2>2, <2>3, <3>6, <3>7
    <3>3. Goal(p)' = "insert" => ~ alloc'[p] /\ c_arg'[p] <= Meta + (IF Rsdnt THEN Cardinality(Pages) ELSE 0)
      BY <1>4, <2>1, <2>2, <3>6, <3>7
    <3>4. /\ pc'[p] = "swap_o" => Stale(p)' <= c_arg'[p]
          /\ pc'[p] \in {"swap_o", "swap_x"} => Soiled(p)' <= d_arg'[p]
      BY <1>4, <2>1, <2>2, <2>3, SMTT(30)
    <3>5. pc'[p] = "unlink" => alloc'[p] /\ Meta + Held(p)' <= c_arg'[p] /\ d_pages'[p] <= d_arg'[p]
      <4>1. "madmit_beg" # "unlink"
        OBVIOUS
      <4> QED
        BY <1>4, <2>1, <2>2, <2>3, <3>6, <3>7, <4>1 DEF SameTable
    <3> QED
      BY <3>1, <3>2, <3>3, <3>4, <3>5 DEF ProbeHolds
  <2>5. Empty(p)'
    BY <2>1 DEF Books, Empty, SameShared, SameTable
  <2>6. Covered(p)'
    <3>1. Due(p)' \in Nat /\ DueDirty(p)' = 0 /\ Uncounted(p)' = 0
      BY <1>4, <2>1, <2>2 DEF Due, DueDirty, Uncounted, Returning
    <3>2. Due(p) = 0 /\ DueDirty(p) = 0 /\ Uncounted(p) = 0 /\ Cost(p)' = Cost(p) /\ Cost(p) \in Nat
      BY <1>1, <2>1 DEF Due, DueDirty, Uncounted, Returning, Cost, SameTable
    <3>3. /\ c_mem[p] <= Held(p) + Cost(p) + h_c[p] + Due(p)'
          /\ d_mem[p] + 0 <= d_pages[p] + h_d[p] + 0
      <4>1. /\ c_mem[p] <= Held(p) + Cost(p) + h_c[p] + 0
            /\ d_mem[p] + 0 <= d_pages[p] + h_d[p] + 0
        BY <2>1, <3>2 DEF Books, Covered
      <4> QED
        BY <1>1, <1>3, <3>1, <3>2, <4>1, Charges
    <3> QED
      BY <2>1, <2>3, <3>1, <3>2, <3>3 DEF Covered, SameShared, SameTable
  <2> QED
    BY <2>4, <2>5, <2>6 DEF Books
<1>5. ASSUME NEW R \in SUBSET Pages
      PROVE  /\ Cardinality(R \ charged[p]) \in Nat
             /\ Cardinality(R \cap charged[p]) \in Nat
             /\ Cardinality(R \cap dirty[p]) \in Nat
  <2>1. charged[p] \in SUBSET Pages /\ dirty[p] \in SUBSET Pages
    BY <1>2 DEF TableInv
  <2> QED
    BY <1>5, <2>1, UnionSize
<1>6. 0 \in Nat /\ Meta + Cardinality(charged[p]) \in Nat
      /\ Meta + (IF Rsdnt THEN Cardinality(Pages) ELSE 0) \in Nat
  BY <1>1, <1>3, SMTT(30) DEF Held
<1>7. ASSUME NEW R \in SUBSET Pages, MtouchProbe(p, R) PROVE Books(p)'
  BY <1>4, <1>5, <1>6, <1>7 DEF MtouchProbe
<1>8. ASSUME NEW R \in SUBSET Pages, MevictProbe(p, R) PROVE Books(p)'
  BY <1>4, <1>5, <1>6, <1>8 DEF MevictProbe
<1>9. ASSUME NEW R \in SUBSET Pages, MclearProbe(p, R) PROVE Books(p)'
  BY <1>4, <1>5, <1>6, <1>9 DEF MclearProbe
<1>10. CASE sbma_malloc(p)
  BY <1>4, <1>6, <1>10 DEF sbma_malloc
<1>11. CASE FreeProbe(p)
  BY <1>1, <1>4, <1>6, <1>11 DEF FreeProbe, Held
<1>12. CASE \E x \in Pages : WriteFault(p, x)
  <2>1. /\ SameShared(p) /\ SameCall(p) /\ pc[p] = "idle" /\ pc'[p] = "d_count"
        /\ alloc'[p] = alloc[p] /\ charged'[p] = charged[p] /\ d_pages'[p] = d_pages[p]
    BY <1>12 DEF WriteFault, Flow, Typed, ControlTypes, SameShared, SameCall, shared, hand, locals
  <2> QED
    BY <2>1 DEF SameShared, SameCall, Books, ProbeHolds, Empty, Covered, Goal, Due, DueDirty, Uncounted, Cost, Held,
      Admitting, Returning
<1>13. CASE ipc_sigon(p) \/ ipc_sigoff(p)
  <2>1. Same(p)
    BY <1>13 DEF ipc_sigon, ipc_sigoff, Flow, Typed, ControlTypes, Same, SameShared, SameCall, SameTable, shared,
      hand, locals, table
  <2> QED
    BY <2>1, BooksSame
<1>14. CASE ipc_destroy(p)
  <2>1. pc' = [pc EXCEPT ![p] = "gone"] /\ Vanish(p)
    BY <1>14 DEF ipc_destroy, Flow
  <2> QED
    BY <2>1, BooksVanish
<1> QED
  BY <1>7, <1>8, <1>9, <1>10, <1>11, <1>12, <1>13, <1>14 DEF AppStep

\* At the start nobody is charged for anything.
LEMMA BooksInit == Init => BooksInv
<1>1. Cardinality({}) = 0
  BY PageSets
<1> QED
  BY <1>1, SMTT(30) DEF Init, BooksInv, Books, ProbeHolds, Empty, Covered, Goal, Due, DueDirty, Uncounted, Cost, Held,
    Admitting, Returning

\* Every step keeps the books of the process that takes it, and touches no others.
LEMMA BooksStep == Typed /\ BooksInv /\ [Next]_vars => BooksInv'
<1> SUFFICES ASSUME Typed, BooksInv, [Next]_vars, NEW p \in Procs PROVE Books(p)'
  BY DEF BooksInv
<1>1. Books(p)
  BY DEF BooksInv
<1>2. ASSUME NEW q \in Procs, AppStep(q) \/ FlowStep(q) \/ HandlerStep(q) PROVE Books(p)'
  <2>1. CASE q = p
    BY <1>1, <1>2, <2>1, AppBooks, FlowBooks, HandlerBooks
  <2>2. CASE q # p
    BY <1>1, <1>2, <2>2, AppElsewhere, FlowElsewhere, HandlerElsewhere, BooksSame
  <2> QED
    BY <2>1, <2>2
<1>3. CASE UNCHANGED vars
  <2>1. Same(p)
    BY <1>3 DEF vars, shared, hand, locals, table, Same, SameShared, SameCall, SameTable
  <2> QED
    BY <1>1, <2>1, BooksSame
<1> QED
  BY <1>2, <1>3 DEF Next

\* However SIGIPC interrupts the calls of a process, and whatever fails in them,
\* a process at rest is never charged for more than its allocation table holds.
THEOREM NothingLeaks == Spec => []NoLeak
<1>1. ControlInv /\ TableInv /\ ValueInv /\ FlagTypes => Typed
  BY DEF ControlInv, ValueInv, Typed
<1>2. Typed /\ BooksInv => NoLeak
  <2>1. SUFFICES ASSUME Typed, BooksInv, NEW p \in Procs, Quiet(p)
                 PROVE  /\ c_mem[p] <= Cardinality(charged[p]) + (IF alloc[p] THEN Meta ELSE 0)
                        /\ d_mem[p] <= d_pages[p]
    BY DEF NoLeak
  <2>2. pc[p] = "idle" /\ hpc[p] = "none"
    BY <2>1 DEF Quiet, Outstanding
  <2>3. Books(p)
    BY <2>1 DEF BooksInv
  <2>4. h_c[p] = 0 /\ h_d[p] = 0 /\ Due(p) = 0 /\ DueDirty(p) = 0 /\ Uncounted(p) = 0
    BY <2>2, <2>3 DEF Books, Empty, Due, DueDirty, Uncounted, Returning
  <2>5. Held(p) \in Nat /\ Cost(p) \in Nat /\ d_mem[p] \in Nat /\ d_pages[p] \in Nat
    <3>1. TableInv
      BY <2>1 DEF Typed
    <3>2. Held(p) \in Nat
      BY <3>1, Sizes
    <3> QED
      BY <2>1, <3>2, ConstantsAssumption DEF Typed, ValueTypes, TableInv, Cost
  <2>6. c_mem[p] <= Held(p) + Cost(p) /\ d_mem[p] <= d_pages[p]
    BY <2>2, <2>3, <2>4, <2>5, SMTT(30) DEF Books, Covered
  <2> QED
    BY <2>6 DEF Held, Cost
<1> QED
  BY <1>1, <1>2, ControlInit, ControlStep, TableInit, TableStep, ValueInit, ValueStep, FlagInit, FlagStep, BooksInit,
    BooksStep, PTL DEF Spec

==========================================================================
