-------------------------------- MODULE Asio ---------------------------------
(***************************************************************************)
(* The asynchronous work queue of src/old/asio/asio.c and the program that *)
(* drives it (main, under ASIO_MAIN): a ring of work pointers behind one   *)
(* mutex and two condition variables, NT threads that take work from it,   *)
(* and a protocol of a semaphore, a mutex and a "signal" word per piece of *)
(* work by which main stops the thread that handles it.                    *)
(*                                                                         *)
(* A mutex is its owner, a semaphore its count, a condition variable the   *)
(* set of its waiters.  A region between taking and releasing mtx that     *)
(* does not wait is one step: nothing else reads the queue meanwhile.      *)
(***************************************************************************)
EXTENDS Integers, FiniteSets, Sequences

CONSTANTS NT,          \* nthreads
          SZ,          \* size of the queue
          NW,          \* pieces of work main makes
          FailAt,      \* the calls of asio_init that may fail, in order from 0
          MaxTimeouts  \* how many timed waits may expire

ASSUME AsioAssumption ==
  /\ NT \in Nat \ {0}
  /\ SZ \in Nat \ {0}
  /\ NW \in 1 .. (SZ + NT) \* more would block main in asio_addw for good
  /\ FailAt \subseteq Nat
  /\ MaxTimeouts \in Nat

Threads == 1 .. NT
Work == 1 .. NW
Main == 0
Procs == {Main} \cup Threads
None == -1
NoWork == 0
Resources == 1 .. 6 \* threads, q, rd, wr, mtx, bar
Labels ==
  { "init", "create", "failed", "killed", "unborn", "barrier", "initw", "make", "try", "enq", "deq",
    "in", "wait", "woken", "expired", "relock", "cbLock", "cbIn", "cbNap", "cbSwitch", "cbQuit",
    "free", "sigLock", "sigSet", "semWait", "freeLock", "freeIn", "cancel", "join", "release",
    "cancelling", "cancelled", "dead", "done" }

VARIABLES n, hd, tl, q,  \* the ring: count, next to take, next to fill, slots
          mtx, rd, wr,   \* its mutex and condition variables
          bar,           \* who has arrived at the barrier
          res,           \* what asio_init has acquired and not given back
          pc,            \* where every thread is
          job,           \* the work a thread has taken
          canc,          \* threads pthread_cancel was called for
          mi, round,     \* main's loop index and which make_work loop it is in
          sig, sem, wmtx, wst, \* per work: signal word, semaphore, mutex, life
          expired        \* timed waits that ran out so far

queue == <<n, hd, tl, q>>
works == <<sig, sem, wmtx, wst>>
main == <<mi, round>>
vars == <<n, hd, tl, q, mtx, rd, wr, bar, res, pc, job, canc, mi, round,
          sig, sem, wmtx, wst, expired>>

TypeOK ==
  /\ n \in 0 .. SZ /\ hd \in 0 .. SZ /\ tl \in 0 .. SZ
  /\ q \in [0 .. SZ - 1 -> Work \cup {NoWork}]
  /\ mtx \in Procs \cup {None}
  /\ rd \subseteq Threads /\ wr \subseteq {Main}
  /\ bar \subseteq Procs
  /\ res \subseteq Resources
  /\ pc \in [Procs -> Labels]
  /\ job \in [Threads -> Work \cup {NoWork}]
  /\ canc \subseteq Threads
  /\ mi \in 0 .. NT + NW + 7 /\ round \in 1 .. 2
  /\ sig \in [Work -> {"zero", "quit"}]
  /\ sem \in [Work -> 0 .. 1]
  /\ wmtx \in [Work -> Procs \cup {None}]
  /\ wst \in [Work -> {"raw", "ready", "gone"}]
  /\ expired \in 0 .. MaxTimeouts

Init ==
  /\ n = 0 /\ hd = 0 /\ tl = 0
  /\ q = [i \in 0 .. SZ - 1 |-> NoWork]
  /\ mtx = None /\ rd = {} /\ wr = {}
  /\ bar = {} /\ res = {}
  /\ pc = [p \in Procs |-> IF p = Main THEN "init" ELSE "unborn"]
  /\ job = [t \in Threads |-> NoWork]
  /\ canc = {}
  /\ mi = 0 /\ round = 1
  /\ sig = [w \in Work |-> "zero"]
  /\ sem = [w \in Work |-> 0]
  /\ wmtx = [w \in Work |-> None]
  /\ wst = [w \in Work |-> "raw"]
  /\ expired = 0

Goto(p, l) == pc' = [pc EXCEPT ![p] = l]

(***************************************************************************)
(* The macros.                                                             *)
(***************************************************************************)
\* ASIO_GET_LOCK: a timed lock that expires is followed by a plain one, so
\* it is a blocking lock either way.
GetLock(p, from, to) ==
  /\ pc[p] = from
  /\ mtx = None
  /\ mtx' = p
  /\ Goto(p, to)
  /\ UNCHANGED <<queue, rd, wr, bar, res, job, canc, main, works, expired>>

\* ASIO_LET_COND: one waiter, whichever, is woken; it re-acquires the mutex
\* before it goes on.
LetCond(waiters, left) ==
  IF waiters = {} THEN left = {} ELSE \E p \in waiters : left = waiters \ {p}

\* p goes to label l, and the waiters that left a wait set are awake.
Resume(p, l, gone) ==
  pc' = [r \in Procs |-> IF r = p THEN l ELSE IF r \in gone THEN "woken" ELSE pc[r]]

\* ASIO_GET_COND, first half: give the mutex up and wait on rd or wr.
WaitCond(p) ==
  /\ mtx' = None
  /\ IF p = Main THEN wr' = wr \cup {p} /\ UNCHANGED rd
                 ELSE rd' = rd \cup {p} /\ UNCHANGED wr
  /\ Goto(p, "wait")

\* A wait may end with no signal at all (POSIX allows it) unless it is a
\* cancelled thread's, which is about to act on the cancellation; the loops of
\* _asio_enq and _asio_deq test their condition again.
SpuriousWake(p) ==
  /\ pc[p] = "wait" /\ p \notin canc
  /\ rd' = rd \ {p} /\ wr' = wr \ {p}
  /\ Goto(p, "woken")
  /\ UNCHANGED <<queue, mtx, bar, res, job, canc, main, works, expired>>

\* ASIO_GET_COND, a timed wait that runs out (not in an NDEBUG build).
TimeOut(p) ==
  /\ pc[p] = "wait" /\ p \notin canc
  /\ expired < MaxTimeouts
  /\ expired' = expired + 1
  /\ rd' = rd \ {p} /\ wr' = wr \ {p}
  /\ Goto(p, "expired")
  /\ UNCHANGED <<queue, mtx, bar, res, job, canc, main, works>>

\* pthread_cond_timedwait returns ETIMEDOUT with the mutex held again, and
\* _ASIO_GET_LOCK then asks for the mutex once more: the thread is at
\* "relock", where no step of its own is left.
AfterTimeOut(p) == GetLock(p, "expired", "relock")

\* The waiter has the mutex again and goes back to the test of its loop.
Reacquire(p) == GetLock(p, "woken", "in")

(***************************************************************************)
(* The threads.                                                            *)
(***************************************************************************)
\* _asio_start waits at the barrier until main and all the threads are there.
ArriveBarrier(p) ==
  /\ pc[p] = "barrier"
  /\ p \notin bar
  /\ bar' = bar \cup {p}
  /\ pc' = IF bar' = Procs
           THEN [r \in Procs |-> IF r = Main THEN "initw" ELSE "deq"] ELSE pc
  /\ mi' = IF bar' = Procs THEN 1 ELSE mi
  /\ UNCHANGED <<queue, mtx, rd, wr, res, job, canc, round, works, expired>>

DeqLock(t) == GetLock(t, "deq", "in")

\* Mutant: the newest work is handed out.
DeqNewest(t) ==
  /\ pc[t] = "in"
  /\ n > 0
  /\ job' = [job EXCEPT ![t] = q[tl - 1]]
  /\ tl' = tl - 1
  /\ n' = n - 1
  /\ LetCond(wr, wr')
  /\ Resume(t, "cbLock", wr \ wr')
  /\ mtx' = None
  /\ UNCHANGED <<hd, q, rd, bar, res, canc, main, works, expired>>

Deq(t) ==
  /\ pc[t] = "in"
  /\ n > 0
  /\ LET h == IF hd = SZ THEN 0 ELSE hd
     IN  /\ job' = [job EXCEPT ![t] = q[h]]
         /\ hd' = h + 1
  /\ n' = n - 1
  /\ LetCond(wr, wr')
  /\ Resume(t, "cbLock", wr \ wr')
  /\ mtx' = None
  /\ UNCHANGED <<tl, q, rd, bar, res, canc, main, works, expired>>

DeqWait(t) ==
  /\ pc[t] = "in"
  /\ n = 0
  /\ WaitCond(t)
  /\ UNCHANGED <<queue, bar, res, job, canc, main, works, expired>>

\* Cancellation is acted on in the condition wait; the mutex is taken again
\* and _asio_deq_cancel signals rd and releases it.
Cancelled(t) ==
  /\ pc[t] = "wait"
  /\ t \in canc
  /\ rd' = rd \ {t}
  /\ Goto(t, "cancelling")
  /\ UNCHANGED <<queue, mtx, wr, bar, res, job, canc, main, works, expired>>

DeqCancelLock(t) == GetLock(t, "cancelling", "cancelled")

DeqCancel(t) ==
  /\ pc[t] = "cancelled"
  /\ LetCond(rd, rd')
  /\ Resume(t, "dead", rd \ rd')
  /\ mtx' = None
  /\ UNCHANGED <<queue, wr, bar, res, job, canc, main, works, expired>>

(***************************************************************************)
(* The call-back of the driving program: it polls work->sig, sleeping with *)
(* work->mtx released.                                                     *)
(***************************************************************************)
GetWorkLock(p, w, from, to) ==
  /\ pc[p] = from
  /\ wmtx[w] = None
  /\ wmtx' = [wmtx EXCEPT ![w] = p]
  /\ Goto(p, to)
  /\ UNCHANGED <<queue, mtx, rd, wr, bar, res, job, canc, main, sig, sem, wst, expired>>

CbLock(t) == job[t] # NoWork /\ GetWorkLock(t, job[t], "cbLock", "cbIn")

\* The lock is let go and the thread sleeps.
CbSleep(t) ==
  /\ pc[t] = "cbIn"
  /\ wmtx' = [wmtx EXCEPT ![job[t]] = None]
  /\ Goto(t, "cbNap")
  /\ UNCHANGED <<queue, mtx, rd, wr, bar, res, job, canc, main, sig, sem, wst, expired>>

CbWake(t) == job[t] # NoWork /\ GetWorkLock(t, job[t], "cbNap", "cbSwitch")

\* switch (work->sig): 0 goes round the loop; SIGQUIT runs the cleanup
\* handler, which posts the semaphore ...
CbSwitch(t) ==
  /\ pc[t] = "cbSwitch"
  /\ IF sig[job[t]] = "quit"
     THEN sem' = [sem EXCEPT ![job[t]] = @ + 1] /\ Goto(t, "cbQuit")
     ELSE Goto(t, "cbIn") /\ UNCHANGED sem
  /\ UNCHANGED <<queue, mtx, rd, wr, bar, res, job, canc, main, sig, wmtx, wst, expired>>

\* ... and then releases the mutex; the call-back returns to _asio_start.
CbQuit(t) ==
  /\ pc[t] = "cbQuit"
  /\ wmtx' = [wmtx EXCEPT ![job[t]] = None]
  /\ job' = [job EXCEPT ![t] = NoWork]
  /\ Goto(t, "deq")
  /\ UNCHANGED <<queue, mtx, rd, wr, bar, res, canc, main, sig, sem, wst, expired>>

(***************************************************************************)
(* asio_init: six resources, NT threads, the barrier.  mi is chkpt.        *)
(***************************************************************************)
InitAcquire ==
  /\ pc[Main] = "init"
  /\ res' = res \cup {mi + 1}
  /\ mi' = mi + 1
  /\ Goto(Main, IF mi + 1 = 6 THEN "create" ELSE "init")
  /\ UNCHANGED <<queue, mtx, rd, wr, bar, job, canc, round, works, expired>>

InitCreate ==
  /\ pc[Main] = "create"
  /\ mi' = mi + 1
  /\ pc' = [pc EXCEPT ![mi - 5] = "barrier",
                      ![Main] = IF mi + 1 = 6 + NT THEN "barrier" ELSE @]
  /\ UNCHANGED <<queue, mtx, rd, wr, bar, res, job, canc, round, works, expired>>

\* CLEANUP: the cases fall through and undo the first chkpt acquisitions.
\* With chkpt - 7 > 0 threads to kill, SIGKILL ends the whole process.
InitFail ==
  /\ pc[Main] \in {"init", "create"}
  /\ mi \in FailAt
  /\ IF mi > 7 THEN pc' = [p \in Procs |-> "killed"] ELSE Goto(Main, "failed")
  /\ res' = res \ (1 .. mi)
  /\ UNCHANGED <<queue, mtx, rd, wr, bar, job, canc, main, works, expired>>

(***************************************************************************)
(* main: init_work, two loops of make_work, free_work, asio_free.          *)
(***************************************************************************)
InitWork ==
  /\ pc[Main] = "initw"
  /\ wst' = [wst EXCEPT ![mi] = "ready"]
  /\ sem' = [sem EXCEPT ![mi] = 1]
  /\ mi' = IF mi = NW THEN 1 ELSE mi + 1
  /\ Goto(Main, IF mi = NW THEN "make" ELSE "initw")
  /\ UNCHANGED <<queue, mtx, rd, wr, bar, res, job, canc, round, sig, wmtx, expired>>

\* The next make_work of main's two loops, or the first free_work.
NextMake ==
  /\ mi' = IF mi = NW THEN 1 ELSE mi + 1
  /\ round' = IF mi = NW THEN 2 ELSE round

AfterMake == IF mi = NW /\ round = 2 THEN "free" ELSE "make"

MakeLock == mi \in Work /\ GetWorkLock(Main, mi, "make", "try")

\* sem_trywait tells whether the work is with the threads already; if it is
\* not, it is handed to them.
MakeTry ==
  /\ pc[Main] = "try"
  /\ wmtx' = [wmtx EXCEPT ![mi] = None]
  /\ IF sem[mi] = 1
     THEN /\ sem' = [sem EXCEPT ![mi] = 0]
          /\ Goto(Main, "enq")
          /\ UNCHANGED main
     ELSE /\ NextMake
          /\ Goto(Main, AfterMake)
          /\ UNCHANGED sem
  /\ UNCHANGED <<queue, mtx, rd, wr, bar, res, job, canc, sig, wst, expired>>

EnqLock == GetLock(Main, "enq", "in")

\* Mutant: no waiter is told of the new work.
EnqSilent ==
  /\ pc[Main] = "in"
  /\ n # SZ
  /\ LET e == IF tl = SZ THEN 0 ELSE tl
     IN  /\ q' = [q EXCEPT ![e] = mi]
         /\ tl' = e + 1
  /\ n' = n + 1
  /\ Goto(Main, AfterMake)
  /\ mtx' = None
  /\ NextMake
  /\ UNCHANGED <<hd, rd, wr, bar, res, job, canc, works, expired>>

Enq ==
  /\ pc[Main] = "in"
  /\ n # SZ
  /\ LET e == IF tl = SZ THEN 0 ELSE tl
     IN  /\ q' = [q EXCEPT ![e] = mi]
         /\ tl' = e + 1
  /\ n' = n + 1
  /\ LetCond(rd, rd')
  /\ Resume(Main, AfterMake, rd \ rd')
  /\ mtx' = None
  /\ NextMake
  /\ UNCHANGED <<hd, wr, bar, res, job, canc, works, expired>>

EnqWait ==
  /\ pc[Main] = "in"
  /\ n = SZ
  /\ WaitCond(Main)
  /\ UNCHANGED <<queue, bar, res, job, canc, main, works, expired>>

\* Mutant: every work is taken for finished.
FreeTryTrusts ==
  /\ pc[Main] = "free"
  /\ sem' = [sem EXCEPT ![mi] = 0]
  /\ Goto(Main, "freeLock")
  /\ UNCHANGED <<queue, mtx, rd, wr, bar, res, job, canc, main, sig, wmtx, wst, expired>>

\* free_work: sem_trywait; the work is with the threads when it fails.
FreeTry ==
  /\ pc[Main] = "free"
  /\ sem' = [sem EXCEPT ![mi] = 0]
  /\ Goto(Main, IF sem[mi] = 1 THEN "freeLock" ELSE "sigLock")
  /\ UNCHANGED <<queue, mtx, rd, wr, bar, res, job, canc, main, sig, wmtx, wst, expired>>

SigLock == mi \in Work /\ GetWorkLock(Main, mi, "sigLock", "sigSet")

SigSet ==
  /\ pc[Main] = "sigSet"
  /\ sig' = [sig EXCEPT ![mi] = "quit"]
  /\ wmtx' = [wmtx EXCEPT ![mi] = None]
  /\ Goto(Main, "semWait")
  /\ UNCHANGED <<queue, mtx, rd, wr, bar, res, job, canc, main, sem, wst, expired>>

\* ASIO_GET_SEM: wait until the call-back has posted the semaphore.
SemWait ==
  /\ pc[Main] = "semWait"
  /\ sem[mi] > 0
  /\ sem' = [sem EXCEPT ![mi] = @ - 1]
  /\ Goto(Main, "freeLock")
  /\ UNCHANGED <<queue, mtx, rd, wr, bar, res, job, canc, main, sig, wmtx, wst, expired>>

\* The lock is taken once more, to be sure that the thread is finished.
FreeLock == mi \in Work /\ GetWorkLock(Main, mi, "freeLock", "freeIn")

\* The semaphore and the mutex are destroyed; main goes on to the next work.
FreeWork ==
  /\ pc[Main] = "freeIn"
  /\ wmtx' = [wmtx EXCEPT ![mi] = None]
  /\ wst' = [wst EXCEPT ![mi] = "gone"]
  /\ mi' = IF mi = NW THEN 1 ELSE mi + 1
  /\ Goto(Main, IF mi = NW THEN "cancel" ELSE "free")
  /\ UNCHANGED <<queue, mtx, rd, wr, bar, res, job, canc, round, sig, sem, expired>>

\* asio_free: cancel every thread, join every thread, release everything.
FreeCancel ==
  /\ pc[Main] = "cancel"
  /\ canc' = canc \cup {mi}
  /\ mi' = IF mi = NT THEN 1 ELSE mi + 1
  /\ Goto(Main, IF mi = NT THEN "join" ELSE "cancel")
  /\ UNCHANGED <<queue, mtx, rd, wr, bar, res, job, round, works, expired>>

FreeJoin ==
  /\ pc[Main] = "join"
  /\ pc[mi] = "dead"
  /\ mi' = IF mi = NT THEN 1 ELSE mi + 1
  /\ Goto(Main, IF mi = NT THEN "release" ELSE "join")
  /\ UNCHANGED <<queue, mtx, rd, wr, bar, res, job, canc, round, works, expired>>

FreeRelease ==
  /\ pc[Main] = "release"
  /\ res' = {}
  /\ Goto(Main, "done")
  /\ UNCHANGED <<queue, mtx, rd, wr, bar, job, canc, main, works, expired>>

Thread(t) ==
  \/ ArriveBarrier(t) \/ DeqLock(t) \/ Deq(t) \/ DeqWait(t) \/ Reacquire(t)
  \/ AfterTimeOut(t) \/ Cancelled(t) \/ DeqCancelLock(t) \/ DeqCancel(t)
  \/ CbLock(t) \/ CbSleep(t) \/ CbWake(t) \/ CbSwitch(t) \/ CbQuit(t)

MainStep ==
  \/ InitAcquire \/ InitCreate \/ ArriveBarrier(Main)
  \/ InitWork \/ MakeLock \/ MakeTry \/ EnqLock \/ Enq \/ EnqWait
  \/ Reacquire(Main) \/ AfterTimeOut(Main)
  \/ FreeTry \/ SigLock \/ SigSet \/ SemWait \/ FreeLock \/ FreeWork
  \/ FreeCancel \/ FreeJoin \/ FreeRelease

Next ==
  \/ MainStep
  \/ \E t \in Threads : Thread(t)
  \/ InitFail
  \/ \E p \in Procs : SpuriousWake(p) \/ TimeOut(p)

Spec == Init /\ [][Next]_vars

\* Every thread runs, and a thread that keeps finding a mutex free gets it at
\* last: the call-back sleeps with work->mtx released "so that other threads
\* can lock mutex" (asio.c:432).  Nothing obliges a wait to end by itself.
FairSpec ==
  /\ Spec
  /\ SF_vars(MainStep)
  /\ \A t \in Threads : SF_vars(Thread(t))

(***************************************************************************)
(* Properties.                                                             *)
(***************************************************************************)
Queued == {q[(hd + i) % SZ] : i \in 0 .. n - 1}
Stuck(p) == pc[p] = "relock"

\* Seen as a sequence, the ring of _asio_enq and _asio_deq, which wraps hd and
\* tl lazily on the next use, is a bounded FIFO, and every thread is handed
\* the oldest work.
Fifo == INSTANCE BoundedFifo WITH
  Items <- Work, Takers <- Threads, Capacity <- SZ, NoItem <- NoWork,
  items <- [i \in 1 .. n |-> q[(hd + i - 1) % SZ]], hand <- job

ImplementsFifo == Fifo!Spec

\* A piece of work is in one place at a time: queued once or with one thread,
\* and only while its semaphore is taken, so the second make_work loop does
\* not queue it again.
OnePlace ==
  \A w \in Work :
    /\ Cardinality({i \in 0 .. n - 1 : q[(hd + i) % SZ] = w})
         + Cardinality({t \in Threads : job[t] = w}) <= 1
    /\ w \in Queued \/ (\E t \in Threads : job[t] = w /\ pc[t] # "cbQuit") =>
         sem[w] = 0

\* When free_work has destroyed a work's semaphore and mutex, no thread can
\* reach them any more: it is neither queued nor held, and its mutex is free.
NotUsedAfterFree ==
  \A w \in Work : wst[w] = "gone" =>
    /\ w \notin Queued
    /\ \A t \in Threads : job[t] # w
    /\ wmtx[w] = None

\* The assertions of _asio_enq, _asio_deq, cb and free_work.
Assertions ==
  /\ \A t \in Threads : pc[t] = "cbIn" => sem[job[t]] = 0
  /\ pc[Main] = "sigSet" => sig[mi] = "zero"
  /\ pc[Main] = "freeIn" => sig[mi] = "quit" /\ sem[mi] = 0

\* asio_free cancels threads that wait for work only, never one inside the
\* call-back, whose cleanup handler would release a mutex it does not hold
\* while it sleeps.
CancelIdleOnly ==
  canc # {} => \A t \in Threads : job[t] = NoWork

\* When main has returned, whether asio_init failed or all went through,
\* nothing asio_init acquired is left, and mtx is not left locked by a
\* cancelled thread.
NothingLeft ==
  /\ pc[Main] \in {"done", "failed"} => res = {} /\ mtx = None
  /\ pc[Main] = "done" => \A t \in Threads : pc[t] = "dead"

\* The life of a work and of the pool, from make_work and asio_init to free_work
\* and asio_free: handed out once, not used when destroyed, no assertion fails,
\* threads are cancelled when idle, and what was acquired is released.
PoolSafe ==
  TypeOK /\ OnePlace /\ NotUsedAfterFree /\ Assertions /\ CancelIdleOnly /\ NothingLeft

\* asio.c:115 announces "Condition received after it timed-out": a thread
\* whose timed wait ran out goes on once it has the lock.
TimedWaitReturns ==
  \A p \in Procs : pc[p] = "expired" ~> pc[p] = "in"

\* asio_init that returns -1 leaves no thread behind.
NoThreadLeft ==
  pc[Main] = "failed" => \A t \in Threads : pc[t] = "unborn"

==============================================================================
