------------------------------- MODULE Startup -------------------------------
(***************************************************************************)
(* How processes join and leave a run: sbma_init (vmm_init, ipc_init) and  *)
(* sbma_destroy (vmm_destroy, ipc_destroy), over the named semaphores and  *)
(* the named shared segment that the processes of a run have in common.    *)
(*                                                                         *)
(* A name leads to an object, a number; an unlinked object lives on for    *)
(* the processes that have it open, and opening the name then creates      *)
(* another one.  A second sbma_init, an sbma_destroy before sbma_init, and *)
(* an sbma_init with invalid options change nothing.                       *)
(***************************************************************************)
EXTENDS Integers, Sequences, FiniteSets

CONSTANTS
  Jobs,       \* the processes of the run
  MaxObjects, \* bound on the objects created under one name
  Together    \* does nobody leave before all have joined, nor join before all have left?

ASSUME StartupAssumption ==
  IsFiniteSet(Jobs) /\ MaxObjects \in Nat /\ Together \in BOOLEAN

n_procs == Cardinality(Jobs)

\* LIST_OF_SEMAPHORES; 0 is no object, and no process.
Semaphores == <<"inter_mtx", "done", "sid", "sig">>
Names == {Semaphores[k] : k \in 1 .. 4}
Objects == 1 .. MaxObjects
Nothing == 0

VARIABLES
  name,    \* the object under each name, and how many were created there
  seg,     \* the segments: size, budget word, id counter and pid table
  sidval,  \* the values of the semaphores called sid
  at,      \* where each process is
  mine,    \* what it has open: the semaphores, the segment, its id
  phase,   \* do the processes of the run join or leave?
  tmp,     \* the id counter as loaded by (*idp)++
  dead     \* how it ended, or "no"

startvars == <<name, seg, sidval, at, mine, phase, tmp, dead>>

NewSegment == [sized |-> FALSE, budget |-> FALSE, ids |-> 0,
               pid |-> [i \in 0 .. n_procs - 1 |-> Nothing]]
Closed == [sem |-> [s \in Names |-> Nothing], shm |-> Nothing, id |-> 0]

StartInit ==
  /\ name = [s \in Names \union {"shm"} |-> [object |-> Nothing, made |-> 0]]
  /\ seg = [o \in Objects |-> NewSegment]
  /\ sidval = [o \in Objects |-> 1]
  /\ at = [p \in Jobs |-> <<"out", 0>>]
  /\ mine = [p \in Jobs |-> Closed]
  /\ phase = "join"
  /\ tmp = [p \in Jobs |-> 0]
  /\ dead = [p \in Jobs |-> "no"]

Step(p, from, to) == at[p] = from /\ at' = [at EXCEPT ![p] = to]
Die(p, how) == /\ at' = [at EXCEPT ![p] = <<"dead", 0>>]
               /\ dead' = [dead EXCEPT ![p] = how]
               /\ mine' = [mine EXCEPT ![p] = Closed]

(***************************************************************************)
(* ipc_init is to be called before any other ipc_* function and            *)
(* ipc_destroy after all of them (ipc/init.c:48, ipc/destroy.c:42).  If    *)
(* the processes keep to that as one (Together), they leave once all have  *)
(* joined, and join again once all have left; they start in any order.     *)
(***************************************************************************)
Joined == {p \in Jobs : at[p] = <<"in", 0>>}
Out == {p \in Jobs : at[p] = <<"out", 0>>}
MayStart == Together => Out = Jobs \/ phase = "join"
MayLeave == Together => Joined = Jobs \/ phase = "leave"

\* The bound: no run starts when the objects are used up.
ObjectsLeft == Out = Jobs => \A s \in DOMAIN name : name[s].made < MaxObjects

\* vmm_init up to ipc_init touches only the process itself.
SbmaInit(p) ==
  /\ MayStart /\ ObjectsLeft /\ Step(p, <<"out", 0>>, <<"sem", 1>>)
  /\ phase' = "join"
  /\ UNCHANGED <<name, seg, sidval, mine, tmp, dead>>

\* Opening a name, creating the object if there is none.
Opened(s) == IF name[s].object # Nothing THEN name[s].object ELSE name[s].made + 1
Linked(s, o) == [object |-> o, made |-> IF o > name[s].made THEN o ELSE name[s].made]

\* sem_open, for the k-th semaphore.
OpenSem(p) ==
  \E k \in 1 .. 4 :
    LET s == Semaphores[k]  o == Opened(s)
    IN  /\ o \in Objects
        /\ Step(p, <<"sem", k>>, IF k < 4 THEN <<"sem", k + 1>> ELSE <<"excl", 0>>)
        /\ name' = [name EXCEPT ![s] = Linked(s, o)]
        /\ mine' = [mine EXCEPT ![p].sem[s] = o]
        /\ UNCHANGED <<phase, seg, sidval, tmp, dead>>

\* shm_open with O_EXCL makes the process the segment's creator ...
ShmCreate(p) ==
  /\ name["shm"].object = Nothing /\ Opened("shm") \in Objects
  /\ Step(p, <<"excl", 0>>, <<"truncate", 0>>)
  /\ name' = [name EXCEPT !["shm"] = Linked("shm", Opened("shm"))]
  /\ mine' = [mine EXCEPT ![p].shm = Opened("shm")]
  /\ UNCHANGED <<phase, seg, sidval, tmp, dead>>

\* ... or fails because the name exists, and it opens it if it still does.
ShmExists(p) ==
  /\ name["shm"].object # Nothing
  /\ Step(p, <<"excl", 0>>, <<"open", 0>>)
  /\ UNCHANGED <<phase, name, seg, sidval, mine, tmp, dead>>

ShmOpen(p) ==
  /\ at[p] = <<"open", 0>>
  /\ IF name["shm"].object = Nothing THEN Die(p, "ipc_init")
     ELSE /\ mine' = [mine EXCEPT ![p].shm = name["shm"].object]
          /\ at' = [at EXCEPT ![p] = <<"wait", 0>>]
          /\ UNCHANGED dead
  /\ UNCHANGED <<phase, name, seg, sidval, tmp>>

Truncate(p) ==
  /\ Step(p, <<"truncate", 0>>, <<"write", 0>>)
  /\ seg' = [seg EXCEPT ![mine[p].shm].sized = TRUE]
  /\ UNCHANGED <<phase, name, sidval, mine, tmp, dead>>

WriteMax(p) ==
  /\ Step(p, <<"write", 0>>, <<"wait", 0>>)
  /\ seg' = [seg EXCEPT ![mine[p].shm].budget = TRUE]
  /\ UNCHANGED <<phase, name, sidval, mine, tmp, dead>>

\* Mutant: the critical section is not entered.
SidWaitNever(p) ==
  /\ Step(p, <<"wait", 0>>, <<"load", 0>>)
  /\ UNCHANGED <<phase, name, seg, sidval, mine, tmp, dead>>

\* mmap, then sem_wait(sid).
SidWait(p) ==
  /\ Step(p, <<"wait", 0>>, <<"load", 0>>)
  /\ sidval[mine[p].sem["sid"]] > 0
  /\ sidval' = [sidval EXCEPT ![mine[p].sem["sid"]] = @ - 1]
  /\ UNCHANGED <<phase, name, seg, mine, tmp, dead>>

\* id = (*idp)++, a load and a store.  Memory beyond the end of the segment's
\* file cannot be accessed: the process gets SIGBUS.
LoadId(p) ==
  /\ at[p] = <<"load", 0>>
  /\ IF seg[mine[p].shm].sized
     THEN /\ at' = [at EXCEPT ![p] = <<"store", 0>>]
          /\ tmp' = [tmp EXCEPT ![p] = seg[mine[p].shm].ids]
          /\ UNCHANGED <<mine, dead>>
     ELSE Die(p, "SIGBUS") /\ UNCHANGED tmp
  /\ UNCHANGED <<phase, name, seg, sidval>>

\* Mutant: the id is not incremented.
StoreIdSame(p) ==
  /\ Step(p, <<"store", 0>>, <<"post", 0>>)
  /\ mine' = [mine EXCEPT ![p].id = tmp[p]]
  /\ tmp' = [tmp EXCEPT ![p] = 0]
  /\ UNCHANGED <<phase, name, seg, sidval, dead>>

StoreId(p) ==
  /\ Step(p, <<"store", 0>>, <<"post", 0>>)
  /\ seg' = [seg EXCEPT ![mine[p].shm].ids = tmp[p] + 1]
  /\ mine' = [mine EXCEPT ![p].id = tmp[p]]
  /\ tmp' = [tmp EXCEPT ![p] = 0]
  /\ UNCHANGED <<phase, name, sidval, dead>>

\* Mutant: the semaphore is not posted.
SidPostNever(p) ==
  /\ Step(p, <<"post", 0>>, <<"pid", 0>>)
  /\ UNCHANGED <<phase, name, seg, sidval, mine, tmp, dead>>

\* sem_post(sid), and the assertion behind it.
SidPost(p) ==
  /\ at[p] = <<"post", 0>>
  /\ sidval' = [sidval EXCEPT ![mine[p].sem["sid"]] = @ + 1]
  /\ IF mine[p].id < n_procs
     THEN at' = [at EXCEPT ![p] = <<"pid", 0>>] /\ UNCHANGED <<mine, dead>>
     ELSE Die(p, "ASSERT")
  /\ UNCHANGED <<phase, name, seg, tmp>>

\* The rest of ipc_init and of vmm_init.
Join(p) ==
  /\ Step(p, <<"pid", 0>>, <<"in", 0>>)
  /\ seg' = [seg EXCEPT ![mine[p].shm].pid[mine[p].id] = p]
  /\ UNCHANGED <<phase, name, sidval, mine, tmp, dead>>

(***************************************************************************)
(* sbma_destroy.                                                           *)
(***************************************************************************)
\* vmm->init = 0, the old handlers, mmu_destroy, munmap.
SbmaDestroy(p) ==
  /\ MayLeave /\ Step(p, <<"in", 0>>, <<"leave", 0>>)
  /\ phase' = "leave"
  /\ mine' = [mine EXCEPT ![p].shm = Nothing]
  /\ UNCHANGED <<name, seg, sidval, tmp, dead>>

Unlinked(s) == [name EXCEPT ![s].object = Nothing]

\* A name that is gone already is no error.
ShmUnlink(p) ==
  /\ Step(p, <<"leave", 0>>, <<"leave", 1>>)
  /\ name' = Unlinked("shm")
  /\ UNCHANGED <<phase, seg, sidval, mine, tmp, dead>>

\* sem_close and sem_unlink of the k-th semaphore; after the last the lock is
\* freed and the process is as it was before sbma_init.
CloseSem(p) ==
  \E k \in 1 .. 4 :
    /\ Step(p, <<"leave", k>>, IF k < 4 THEN <<"leave", k + 1>> ELSE <<"out", 0>>)
    /\ name' = Unlinked(Semaphores[k])
    /\ mine' = [mine EXCEPT ![p] = IF k < 4 THEN [@ EXCEPT !.sem[Semaphores[k]] = Nothing]
                                   ELSE Closed]
    /\ UNCHANGED <<phase, seg, sidval, tmp, dead>>

\* The process is killed; what it created keeps its name.  A new process takes
\* its place.
Kill(p) ==
  /\ at[p] # <<"out", 0>> /\ dead[p] = "no"
  /\ at' = [at EXCEPT ![p] = <<"out", 0>>]
  /\ mine' = [mine EXCEPT ![p] = Closed]
  /\ tmp' = [tmp EXCEPT ![p] = 0]
  /\ UNCHANGED <<phase, name, seg, sidval, dead>>

Starting(p) ==
  \/ OpenSem(p) \/ ShmCreate(p) \/ ShmExists(p) \/ ShmOpen(p) \/ Truncate(p)
  \/ WriteMax(p) \/ SidWait(p) \/ LoadId(p) \/ StoreId(p) \/ SidPost(p) \/ Join(p)
Leaving(p) == ShmUnlink(p) \/ CloseSem(p)

StartNext == \E p \in Jobs :
  Starting(p) \/ Leaving(p) \/ SbmaInit(p) \/ SbmaDestroy(p)

\* A call that has begun goes on.
StartFair == \A p \in Jobs : WF_startvars(Starting(p)) /\ WF_startvars(Leaving(p))

KillNext == StartNext \/ \E p \in Jobs : Kill(p)
KillSpec == StartInit /\ [][KillNext]_startvars
StartSpec == StartInit /\ [][StartNext]_startvars /\ StartFair

------------------------------------------------------------------------------
\* Types and the bound on objects.
StartTypeOK ==
  /\ name \in [Names \union {"shm"} -> [object : {Nothing} \union Objects, made : 0 .. MaxObjects]]
  /\ sidval \in [Objects -> 0 .. 1 + n_procs]
  /\ tmp \in [Jobs -> 0 .. n_procs]
  /\ \A p \in Jobs : mine[p].id \in 0 .. n_procs

\* The processes that have joined share every semaphore and one segment: nobody
\* waits on a semaphore that nobody else posts.  The segment's budget is set, or
\* its creator is about to set it.
OneRun ==
  \A p, q \in Joined :
    /\ mine[p].sem = mine[q].sem
    /\ mine[p].shm = mine[q].shm
    /\ \/ seg[mine[p].shm].budget
       \/ \E c \in Jobs : at[c] = <<"write", 0>> /\ mine[c].shm = mine[p].shm

\* The ids given out by ipc_init are different, and pid[id] is the process that
\* a SIGIPC for id goes to.
OwnIds ==
  \A p \in Joined : seg[mine[p].shm].pid[mine[p].id] = p

\* ipc_init is "MP-Safe" (ipc/init.c:44): no process dies of joining, be it of an
\* assertion, of SIGBUS or of a call that fails.
StartsSafely == \A p \in Jobs : dead[p] = "no"

\* Either every process that starts gets an id, or none ever does: a process dies
\* of joining only of SIGBUS, when it meets the segment before its creator's
\* ftruncate; it dies inside the sid section, so it is the only one, nobody has
\* an id then and nobody gets one afterwards.
AllOrNone ==
  \A p \in Jobs : dead[p] # "no" =>
    /\ dead[p] = "SIGBUS"
    /\ \A q \in Jobs \ {p} : dead[q] = "no"
    /\ \A q \in Jobs : at[q][1] \notin {"load", "store", "post", "pid", "in", "leave"}

\* When all have left, no name is left for the next run to trip over.
NoNamesLeft == Out = Jobs => \A s \in DOMAIN name : name[s].object = Nothing

\* ipc_init and ipc_destroy make one run of the processes: common objects, an id
\* for each, and nothing left behind for the next run.
RunSound == StartTypeOK /\ OneRun /\ OwnIds /\ NoNamesLeft

\* A process that calls sbma_init joins, unless one that ran ahead of the
\* segment's creator has died in the sid section.
EveryoneJoins ==
  \A p \in Jobs :
    at[p] = <<"sem", 1>> ~> (at[p] = <<"in", 0>> \/ \E q \in Jobs : dead[q] # "no")

==============================================================================
