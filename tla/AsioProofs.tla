----------------------------- MODULE AsioProofs ------------------------------
(***************************************************************************)
(* The work queue of src/old/asio/asio.c, for any number of threads,       *)
(* pieces of work and slots: it implements a bounded FIFO, and the life of *)
(* every piece of work is safe.                                            *)
(***************************************************************************)
EXTENDS Asio, TLAPS

------------------------------------------------------------------------------
(***************************************************************************)
(* The labels, by what they have in common.                                *)
(***************************************************************************)
Before == {"init", "create", "barrier", "failed", "killed"}
Making == {"make", "try"}
Queueing == {"enq", "in", "wait", "woken", "expired", "relock"}
Freeing == {"free", "sigLock", "sigSet"}
Freed == {"freeLock", "freeIn"}
After == {"cancel", "join", "release", "done"}
MainAt == Before \cup {"initw"} \cup Making \cup Queueing \cup Freeing \cup {"semWait"} \cup Freed \cup After

Outside == {"unborn", "barrier", "killed"}
Waiting == {"deq", "in", "wait", "woken", "expired", "relock", "cancelling", "cancelled", "dead"}
CallBack == {"cbLock", "cbIn", "cbNap", "cbSwitch", "cbQuit"}
ThreadAt == Outside \cup Waiting \cup CallBack

Holding == {"in", "relock", "cancelled"}
WorkHolding == {"cbIn", "cbSwitch", "cbQuit"}
MainHolding == {"try", "sigSet", "freeIn"}

(***************************************************************************)
(* The invariant.                                                          *)
(***************************************************************************)
LabelInv ==
  /\ TypeOK
  /\ pc[Main] \in MainAt /\ \A t \in Threads : pc[t] \in ThreadAt

\* Who holds mtx, and who waits.
MutexInv ==
  /\ \A p \in Procs : mtx = p <=> pc[p] \in Holding
  /\ \A p \in rd \cup wr : pc[p] = "wait"

\* How far main is, and where it lets the threads be.
PhaseInv ==
  /\ IF pc[Main] \in Before
     THEN n = 0 /\ round = 1 /\ \A t \in Threads : pc[t] \in Outside
     ELSE \A t \in Threads : pc[t] \notin Outside
  /\ pc[Main] = "killed" => \A t \in Threads : pc[t] = "killed"
  /\ pc[Main] \in {"init", "create", "failed"} => Main \notin bar
  /\ pc[Main] = "init" => mi \in 0 .. 5 /\ res = 1 .. mi
  /\ pc[Main] = "create" => mi \in 6 .. 5 + NT /\ res = 1 .. 6
  /\ pc[Main] \in {"failed", "done"} => res = {}
  /\ pc[Main] \notin Before \cup After => mi \in Work
  /\ pc[Main] \in {"cancel", "join"} => mi \in Threads
  /\ pc[Main] \in Queueing \cup {"initw"} => round = 1
  /\ canc # {} => pc[Main] \in After
  /\ pc[Main] = "join" => \A t \in Threads : t < mi => pc[t] = "dead"
  /\ pc[Main] \in {"release", "done"} => \A t \in Threads : pc[t] = "dead"

\* The ring: where the entries are, and each is a different piece of work.
At(i) == q[(hd + i) % SZ]
RingInv ==
  /\ hd + n - tl \in {-SZ, 0, SZ, 2 * SZ}
  /\ \A i \in 0 .. n - 1 : At(i) \in Work
  /\ \A i, j \in 0 .. n - 1 : At(i) = At(j) => i = j

\* Who has which work, and its mutex.
JobInv ==
  /\ \A t \in Threads : job[t] # NoWork <=> pc[t] \in CallBack
  /\ \A t, u \in Threads : job[t] # NoWork /\ job[t] = job[u] => t = u
  /\ \A t \in Threads : job[t] \notin Queued
  /\ \A t \in Threads, w \in Work : wmtx[w] = t <=> job[t] = w /\ pc[t] \in WorkHolding
  /\ \A w \in Work : wmtx[w] = Main <=> mi = w /\ pc[Main] \in MainHolding

\* Is w queued or with a thread; is it with a thread that has posted its semaphore?
With(w) == w \in Queued \/ \E t \in Threads : job[t] = w
Quitting(w) == \E t \in Threads : job[t] = w /\ pc[t] = "cbQuit"

\* The life of a piece of work: not initialised, idle, about to be queued, with the
\* threads, told to quit, given up by its thread, and destroyed.
Raw(w) == wst[w] = "raw" /\ sem[w] = 0 /\ sig[w] = "zero" /\ ~ With(w)
Ready(w, m, s) == wst[w] = "ready" /\ sem[w] = m /\ sig[w] = s
Idle(w) == Ready(w, 1, "zero") /\ ~ With(w)
Going(w) == Ready(w, 0, "zero") /\ ~ With(w)
Out(w) == Ready(w, 0, "zero") /\ With(w) /\ ~ Quitting(w)
Told(w) == \/ Ready(w, 0, "quit") /\ With(w) /\ ~ Quitting(w)
           \/ Ready(w, 1, "quit") /\ (Quitting(w) \/ ~ With(w))
Over(w) == Ready(w, 0, "quit") /\ (Quitting(w) \/ ~ With(w))
Gone(w) == wst[w] = "gone" /\ ~ With(w)

Stage(w) ==
  /\ pc[Main] \in Before => Raw(w)
  /\ pc[Main] = "initw" => IF w < mi THEN Idle(w) ELSE Raw(w)
  /\ pc[Main] \in Making => IF w < mi \/ round = 2 THEN Out(w) ELSE Idle(w)
  /\ pc[Main] \in Queueing => IF w < mi THEN Out(w) ELSE IF w = mi THEN Going(w) ELSE Idle(w)
  /\ pc[Main] \in Freeing => IF w < mi THEN Gone(w) ELSE Out(w)
  /\ pc[Main] = "semWait" => IF w < mi THEN Gone(w) ELSE IF w = mi THEN Told(w) ELSE Out(w)
  /\ pc[Main] \in Freed => IF w < mi THEN Gone(w) ELSE IF w = mi THEN Over(w) ELSE Out(w)
  /\ pc[Main] \in After => Gone(w)

StageInv == \A w \in Work : Stage(w)

AsioInv == LabelInv /\ MutexInv /\ PhaseInv /\ RingInv /\ JobInv /\ StageInv

\* The prover of the steps that name no other.
USE ZenonT(60)

LEMMA Basics ==
  /\ Main \in Procs /\ Main \notin Threads /\ Threads \subseteq Procs /\ Procs = Threads \cup {Main}
  /\ None \notin Procs /\ NoWork \notin Work
  /\ Threads \subseteq Int /\ Work \subseteq Int /\ Main \in Int
  BY AsioAssumption, SMTT(30) DEF Main, Procs, Threads, None, NoWork, Work

\* Nothing that a stage speaks of changes.
LEMMA StageSame ==
  ASSUME StageInv, pc'[Main] = pc[Main] \/ (pc[Main] \in Queueing /\ pc'[Main] \in Queueing),
         mi' = mi, round' = round, wst' = wst, sig' = sig,
         NEW x, \A w \in Work \ {x} : sem'[w] = sem[w],
         \A w \in Work \ {x} : (With(w)' <=> With(w)) /\ (Quitting(w)' <=> Quitting(w))
  PROVE  \A w \in Work \ {x} : Stage(w)'
<1>1. /\ pc'[Main] \in Before <=> pc[Main] \in Before
      /\ pc'[Main] = "initw" <=> pc[Main] = "initw"
      /\ pc'[Main] \in Making <=> pc[Main] \in Making
      /\ pc'[Main] \in Queueing <=> pc[Main] \in Queueing
      /\ pc'[Main] \in Freeing <=> pc[Main] \in Freeing
      /\ pc'[Main] = "semWait" <=> pc[Main] = "semWait"
      /\ pc'[Main] \in Freed <=> pc[Main] \in Freed
      /\ pc'[Main] \in After <=> pc[Main] \in After
  BY DEF Before, Making, Queueing, Freeing, Freed, After
<1>2. ASSUME NEW w \in Work \ {x} PROVE Stage(w)'
  <2>1. Stage(w) /\ sem'[w] = sem[w] /\ (With(w)' <=> With(w)) /\ (Quitting(w)' <=> Quitting(w))
    BY DEF StageInv
  <2> QED
    BY <1>1, <2>1 DEF Stage, Raw, Ready, Idle, Going, Out, Told, Over, Gone
<1> QED
  BY <1>2

------------------------------------------------------------------------------
(***************************************************************************)
(* Steps that only move threads that queue work or wait for some.          *)
(***************************************************************************)
LEMMA Moves ==
  ASSUME AsioInv,
         UNCHANGED <<queue, bar, res, job, canc, main, works>>,
         mtx' \in Procs \cup {None}, rd' \subseteq Threads, wr' \subseteq {Main},
         expired' \in 0 .. MaxTimeouts, pc' \in [Procs -> Labels],
         pc'[Main] = pc[Main] \/ (pc[Main] \in Queueing /\ pc'[Main] \in Queueing),
         \A t \in Threads : pc'[t] = pc[t] \/ (pc[t] \in Waiting \ {"dead"} /\ pc'[t] \in Waiting),
         MutexInv'
  PROVE  AsioInv'
<1>1. /\ n' = n /\ hd' = hd /\ tl' = tl /\ q' = q /\ bar' = bar /\ res' = res /\ job' = job /\ canc' = canc
      /\ mi' = mi /\ round' = round /\ sig' = sig /\ sem' = sem /\ wmtx' = wmtx /\ wst' = wst
  BY DEF queue, main, works
<1>2. LabelInv'
  <2>1. TypeOK'
    BY <1>1 DEF AsioInv, LabelInv, TypeOK
  <2>2. pc'[Main] \in MainAt /\ \A t \in Threads : pc'[t] \in ThreadAt
    BY DEF AsioInv, LabelInv, MainAt, ThreadAt
  <2> QED
    BY <2>1, <2>2 DEF LabelInv
<1>3. PhaseInv'
  BY <1>1, SMTT(30) DEF AsioInv, PhaseInv, Before, After, Queueing, Waiting, Outside
<1>4. RingInv'
  BY <1>1 DEF AsioInv, RingInv, At
<1>5. Queued' = Queued
  BY <1>1 DEF Queued
<1>6. JobInv'
  <2>1. \A t \in Threads : /\ pc'[t] \in CallBack <=> pc[t] \in CallBack
                           /\ pc'[t] \in WorkHolding <=> pc[t] \in WorkHolding
    BY DEF Waiting, CallBack, WorkHolding
  <2>2. pc'[Main] \in MainHolding <=> pc[Main] \in MainHolding
    BY DEF Queueing, MainHolding
  <2> QED
    BY <1>1, <1>5, <2>1, <2>2, SMTT(30) DEF AsioInv, JobInv
<1>7. StageInv'
  <2>1. \A w : With(w)' <=> With(w)
    BY <1>1, <1>5 DEF With
  <2>2. \A w : Quitting(w)' <=> Quitting(w)
    BY <1>1 DEF Quitting, Waiting
  <2>3. \A w \in Work \ {NoWork} : Stage(w)'
    BY <1>1, <2>1, <2>2, StageSame DEF AsioInv
  <2> QED
    BY <2>3, Basics DEF StageInv
<1> QED
  BY <1>2, <1>3, <1>4, <1>6, <1>7 DEF AsioInv

\* Taking mtx.
LEMMA TakesLock ==
  ASSUME AsioInv, NEW p \in Procs, NEW from, NEW to, GetLock(p, from, to), to \in Holding,
         from # "wait", from \notin Holding,
         IF p = Main THEN from \in Queueing /\ to \in Queueing
         ELSE from \in Waiting \ {"dead"} /\ to \in Waiting
  PROVE  AsioInv'
<1>1. /\ pc[p] = from /\ mtx = None /\ mtx' = p /\ pc' = [pc EXCEPT ![p] = to]
      /\ UNCHANGED <<queue, rd, wr, bar, res, job, canc, main, works, expired>>
  BY DEF GetLock, Goto
<1>2. pc \in [Procs -> Labels] /\ rd \subseteq Threads /\ wr \subseteq {Main} /\ expired \in 0 .. MaxTimeouts
  BY DEF AsioInv, LabelInv, TypeOK
<1>3. to \in Labels
  BY DEF Holding, Labels
<1>4. pc' \in [Procs -> Labels] /\ pc'[p] = to /\ \A r \in Procs \ {p} : pc'[r] = pc[r]
  BY <1>1, <1>2, <1>3
<1>5. MutexInv'
  <2>1. \A r \in Procs : mtx' = r <=> pc'[r] \in Holding
    BY <1>1, <1>4, Basics DEF AsioInv, MutexInv
  <2>2. \A r \in rd' \cup wr' : pc'[r] = "wait"
    BY <1>1, <1>2, <1>4, Basics DEF AsioInv, MutexInv
  <2> QED
    BY <2>1, <2>2 DEF MutexInv
<1>6. UNCHANGED <<queue, bar, res, job, canc, main, works>> /\ rd' = rd /\ wr' = wr /\ expired' = expired
  BY <1>1
<1>7. pc'[Main] = pc[Main] \/ (pc[Main] \in Queueing /\ pc'[Main] \in Queueing)
  BY <1>1, <1>4, Basics
<1>8. \A t \in Threads : pc'[t] = pc[t] \/ (pc[t] \in Waiting \ {"dead"} /\ pc'[t] \in Waiting)
  BY <1>1, <1>4, Basics
<1> QED
  BY <1>1, <1>2, <1>4, <1>5, <1>6, <1>7, <1>8, Moves

\* Giving mtx up, and waking some of those that wait.
LEMMA GivesLock ==
  ASSUME AsioInv, NEW p \in Procs, pc[p] \in Holding, NEW l \in Labels, l \notin Holding, mtx' = None,
         NEW G \in SUBSET (rd \cup wr), pc' = [r \in Procs |-> IF r = p THEN l ELSE IF r \in G THEN "woken" ELSE pc[r]],
         rd' \subseteq Threads, wr' \subseteq {Main},
         \A r \in (rd' \cup wr') \ {p} : r \in (rd \cup wr) \ G,
         p \in rd' \cup wr' => l = "wait"
  PROVE  MutexInv' /\ pc' \in [Procs -> Labels] /\ \A r \in Procs \ {p} : pc'[r] = IF r \in G THEN "woken" ELSE pc[r]
<1>1. pc \in [Procs -> Labels]
  BY DEF AsioInv, LabelInv, TypeOK
<1>2. pc' \in [Procs -> Labels]
  BY <1>1, SMTT(30) DEF Labels
<1>3. \A r \in Procs : mtx' = r <=> pc'[r] \in Holding
  <2>1. mtx = p
    BY DEF AsioInv, MutexInv
  <2>2. \A r \in Procs \ {p} : pc[r] \notin Holding
    BY <2>1 DEF AsioInv, MutexInv
  <2>3. \A r \in Procs : pc'[r] \notin Holding
    BY <2>2 DEF Holding
  <2> QED
    BY <2>3, Basics
<1>4. \A r \in rd' \cup wr' : pc'[r] = "wait"
  <2>1. rd' \cup wr' \subseteq Procs
    BY Basics
  <2> QED
    BY <2>1 DEF AsioInv, MutexInv
<1> QED
  BY <1>2, <1>3, <1>4 DEF MutexInv

\* Waiting on rd or wr.
LEMMA Waits ==
  ASSUME AsioInv, NEW p \in Procs, pc[p] = "in", WaitCond(p),
         UNCHANGED <<queue, bar, res, job, canc, main, works, expired>>
  PROVE  AsioInv'
<1>1. /\ mtx' = None /\ pc' = [pc EXCEPT ![p] = "wait"]
      /\ IF p = Main THEN wr' = wr \cup {p} /\ rd' = rd ELSE rd' = rd \cup {p} /\ wr' = wr
  BY DEF WaitCond, Goto
<1>2. pc \in [Procs -> Labels] /\ rd \subseteq Threads /\ wr \subseteq {Main} /\ expired \in 0 .. MaxTimeouts
  BY DEF AsioInv, LabelInv, TypeOK
<1>3. pc' = [r \in Procs |-> IF r = p THEN "wait" ELSE IF r \in {} THEN "woken" ELSE pc[r]]
  BY <1>1, <1>2
<1>4. rd' \subseteq Threads /\ wr' \subseteq {Main} /\ rd' \cup wr' = rd \cup wr \cup {p}
  BY <1>1, <1>2, Basics
<1>5. MutexInv' /\ pc' \in [Procs -> Labels] /\ \A r \in Procs \ {p} : pc'[r] = pc[r]
  <2> DEFINE G == {}
             l == "wait"
  <2>1. /\ G \in SUBSET (rd \cup wr) /\ l \in Labels /\ l \notin Holding /\ pc[p] \in Holding
        /\ pc' = [r \in Procs |-> IF r = p THEN l ELSE IF r \in G THEN "woken" ELSE pc[r]]
        /\ \A r \in (rd' \cup wr') \ {p} : r \in (rd \cup wr) \ G
        /\ p \in rd' \cup wr' => l = "wait"
    BY <1>3, <1>4 DEF Holding, Labels
  <2> HIDE DEF G, l
  <2>2. /\ MutexInv' /\ pc' \in [Procs -> Labels]
        /\ \A r \in Procs \ {p} : pc'[r] = IF r \in G THEN "woken" ELSE pc[r]
    <3>1. mtx' = None /\ rd' \subseteq Threads /\ wr' \subseteq {Main}
      BY <1>1, <1>4
    <3> QED
      BY <2>1, <3>1, GivesLock
  <2> QED
    BY <2>2 DEF G
<1>6. pc'[p] = "wait"
  BY <1>3
<1>7. pc'[Main] = pc[Main] \/ (pc[Main] \in Queueing /\ pc'[Main] \in Queueing)
  BY <1>5, <1>6, Basics DEF Queueing
<1>8. \A t \in Threads : pc'[t] = pc[t] \/ (pc[t] \in Waiting \ {"dead"} /\ pc'[t] \in Waiting)
  BY <1>5, <1>6, Basics DEF Waiting
<1>9. UNCHANGED <<queue, bar, res, job, canc, main, works>> /\ expired' = expired
  OBVIOUS
<1> QED
  BY <1>1, <1>2, <1>4, <1>5, <1>7, <1>8, <1>9, Moves

\* A wait that ends.
LEMMA WaitEnds ==
  ASSUME AsioInv, NEW p \in Procs, pc[p] = "wait", NEW l \in {"woken", "expired", "cancelling"},
         pc' = [pc EXCEPT ![p] = l], rd' = rd \ {p}, wr' = wr \ {p}, mtx' = mtx,
         expired' \in 0 .. MaxTimeouts, p = Main => l # "cancelling",
         UNCHANGED <<queue, bar, res, job, canc, main, works>>
  PROVE  AsioInv'
<1>1. pc \in [Procs -> Labels] /\ rd \subseteq Threads /\ wr \subseteq {Main} /\ mtx \in Procs \cup {None}
  BY DEF AsioInv, LabelInv, TypeOK
<1>2. pc' \in [Procs -> Labels] /\ pc'[p] = l /\ \A r \in Procs \ {p} : pc'[r] = pc[r]
  BY <1>1 DEF Labels
<1>3. MutexInv'
  <2>1. \A r \in Procs : mtx' = r <=> pc'[r] \in Holding
    BY <1>2 DEF AsioInv, MutexInv, Holding
  <2>2. \A r \in rd' \cup wr' : pc'[r] = "wait"
    BY <1>1, <1>2, Basics DEF AsioInv, MutexInv
  <2> QED
    BY <2>1, <2>2 DEF MutexInv
<1>4. pc'[Main] = pc[Main] \/ (pc[Main] \in Queueing /\ pc'[Main] \in Queueing)
  BY <1>2, Basics DEF Queueing
<1>5. \A t \in Threads : pc'[t] = pc[t] \/ (pc[t] \in Waiting \ {"dead"} /\ pc'[t] \in Waiting)
  BY <1>2, Basics DEF Waiting
<1>6. rd' \subseteq Threads /\ wr' \subseteq {Main}
  BY <1>1
<1> QED
  BY <1>1, <1>2, <1>3, <1>4, <1>5, <1>6, Moves

\* The signal of _asio_deq_cancel.
LEMMA DeqCancelInv ==
  ASSUME AsioInv, NEW t \in Threads, DeqCancel(t)
  PROVE  AsioInv'
<1>1. /\ pc[t] = "cancelled" /\ LetCond(rd, rd') /\ mtx' = None
      /\ pc' = [r \in Procs |-> IF r = t THEN "dead" ELSE IF r \in rd \ rd' THEN "woken" ELSE pc[r]]
      /\ UNCHANGED <<queue, wr, bar, res, job, canc, main, works, expired>>
  BY DEF DeqCancel, Resume
<1>2. rd \subseteq Threads /\ wr \subseteq {Main} /\ expired \in 0 .. MaxTimeouts
  BY DEF AsioInv, LabelInv, TypeOK
<1>3. rd' \subseteq rd
  BY <1>1 DEF LetCond
<1>4. wr' = wr /\ expired' = expired /\ UNCHANGED <<queue, bar, res, job, canc, main, works>>
  BY <1>1
<1>5. t \notin rd \cup wr
  BY <1>1 DEF AsioInv, MutexInv
<1> DEFINE G == rd \ rd'
<1>6. /\ G \in SUBSET (rd \cup wr) /\ rd' \subseteq Threads /\ wr' \subseteq {Main}
      /\ \A r \in (rd' \cup wr') \ {t} : r \in (rd \cup wr) \ G
      /\ t \notin rd' \cup wr' /\ t \in Procs
  BY <1>2, <1>3, <1>4, <1>5, Basics
<1>7. \A r \in G : pc[r] = "wait" /\ r \in Threads
  BY <1>2 DEF AsioInv, MutexInv
<1> HIDE DEF G
<1>8. pc' = [r \in Procs |-> IF r = t THEN "dead" ELSE IF r \in G THEN "woken" ELSE pc[r]]
  BY <1>1 DEF G
<1>9. /\ MutexInv' /\ pc' \in [Procs -> Labels]
      /\ \A r \in Procs \ {t} : pc'[r] = IF r \in G THEN "woken" ELSE pc[r]
  <2> DEFINE l == "dead"
  <2>1. /\ l \in Labels /\ l \notin Holding /\ pc[t] \in Holding
        /\ pc' = [r \in Procs |-> IF r = t THEN l ELSE IF r \in G THEN "woken" ELSE pc[r]]
    BY <1>1, <1>8 DEF Holding, Labels
  <2> HIDE DEF l
  <2> QED
    BY <1>1, <1>6, <2>1, GivesLock, SMTT(30)
<1>10. pc'[t] = "dead"
  BY <1>6, <1>8
<1>11. pc'[Main] = pc[Main]
  BY <1>7, <1>9, Basics
<1>12. \A r \in Threads : pc'[r] = pc[r] \/ (pc[r] \in Waiting \ {"dead"} /\ pc'[r] \in Waiting)
  BY <1>1, <1>7, <1>9, <1>10, Basics DEF Waiting
<1> QED
  BY <1>1, <1>2, <1>4, <1>6, <1>9, <1>11, <1>12, Moves

------------------------------------------------------------------------------
(***************************************************************************)
(* The call-back.                                                          *)
(***************************************************************************)
LEMMA CallBackStep ==
  ASSUME AsioInv, NEW t \in Threads, pc[t] \in CallBack, NEW l \in CallBack, pc' = [pc EXCEPT ![t] = l],
         UNCHANGED <<queue, mtx, rd, wr, bar, res, job, canc, main, sig, wst, expired>>,
         sem' \in [Work -> 0 .. 1], wmtx' \in [Work -> Procs \cup {None}],
         \A w \in Work \ {job[t]} : wmtx'[w] = wmtx[w],
         wmtx'[job[t]] = (IF l \in WorkHolding THEN t ELSE None),
         pc[t] \in WorkHolding \/ wmtx[job[t]] = None
  PROVE  LabelInv' /\ MutexInv' /\ PhaseInv' /\ RingInv' /\ JobInv'
<1>1. /\ n' = n /\ hd' = hd /\ tl' = tl /\ q' = q /\ mtx' = mtx /\ rd' = rd /\ wr' = wr /\ bar' = bar
      /\ res' = res /\ job' = job /\ canc' = canc /\ mi' = mi /\ round' = round /\ sig' = sig /\ wst' = wst
      /\ expired' = expired
  BY DEF queue, main
<1>2. pc \in [Procs -> Labels] /\ t \in Procs /\ t # Main /\ job \in [Threads -> Work \cup {NoWork}]
  BY Basics DEF AsioInv, LabelInv, TypeOK
<1>3. /\ pc' \in [Procs -> Labels] /\ pc'[t] = l /\ \A r \in Procs \ {t} : pc'[r] = pc[r]
  BY <1>2 DEF Labels, CallBack
<1>4. pc'[Main] = pc[Main] /\ \A u \in Threads \ {t} : pc'[u] = pc[u]
  BY <1>2, <1>3, Basics
<1>5. LabelInv'
  <2>1. TypeOK'
    BY <1>1, <1>3 DEF AsioInv, LabelInv, TypeOK
  <2>2. pc'[Main] \in MainAt /\ \A u \in Threads : pc'[u] \in ThreadAt
    BY <1>3, <1>4 DEF AsioInv, LabelInv, ThreadAt
  <2> QED
    BY <2>1, <2>2 DEF LabelInv
<1>6. MutexInv'
  <2>1. \A r \in Procs : mtx' = r <=> pc'[r] \in Holding
    BY <1>1, <1>3 DEF AsioInv, MutexInv, Holding, CallBack
  <2>2. \A r \in rd' \cup wr' : pc'[r] = "wait"
    <3>1. rd \cup wr \subseteq Procs /\ t \notin rd \cup wr
      BY Basics DEF AsioInv, LabelInv, TypeOK, MutexInv, CallBack
    <3> QED
      BY <1>1, <1>3, <3>1 DEF AsioInv, MutexInv
  <2> QED
    BY <2>1, <2>2 DEF MutexInv
<1>7. PhaseInv'
  <2>1. /\ \A u \in Threads : pc'[u] \in Outside <=> pc[u] \in Outside
        /\ \A u \in Threads : (pc'[u] = "killed" <=> pc[u] = "killed") /\ (pc'[u] = "dead" <=> pc[u] = "dead")
    BY <1>3, <1>4 DEF CallBack, Outside
  <2>2. PhaseInv
    BY DEF AsioInv
  <2> QED
    BY <1>1, <1>4, <2>1, <2>2 DEF PhaseInv
<1>8. RingInv'
  BY <1>1 DEF AsioInv, RingInv, At
<1>9. Queued' = Queued
  BY <1>1 DEF Queued
<1>10. job[t] \in Work /\ \A u \in Threads \ {t} : job[u] # job[t]
  BY <1>2, Basics, SMTT(30) DEF AsioInv, JobInv
<1>11. pc[t] \in WorkHolding => wmtx[job[t]] = t
  BY <1>10 DEF AsioInv, JobInv
<1>12. JobInv'
  <2>1. \A u \in Threads : job'[u] # NoWork <=> pc'[u] \in CallBack
    BY <1>1, <1>3, <1>4 DEF AsioInv, JobInv
  <2>2. \A u, v \in Threads : job'[u] # NoWork /\ job'[u] = job'[v] => u = v
    BY <1>1, SMTT(30) DEF AsioInv, JobInv
  <2>3. \A u \in Threads : job'[u] \notin Queued'
    BY <1>1, <1>9 DEF AsioInv, JobInv
  <2>4. \A u \in Threads, w \in Work : wmtx'[w] = u <=> job'[u] = w /\ pc'[u] \in WorkHolding
    <3>1. ASSUME NEW u \in Threads, NEW w \in Work
          PROVE  wmtx'[w] = u <=> job[u] = w /\ pc'[u] \in WorkHolding
      <4>1. CASE w # job[t]
        <5>1. wmtx[w] = u <=> job[u] = w /\ pc[u] \in WorkHolding
          BY DEF AsioInv, JobInv
        <5>2. wmtx'[w] = wmtx[w]
          BY <4>1
        <5> QED
          BY <4>1, <5>1, <5>2, <1>4
      <4>2. CASE w = job[t] /\ u = t
        BY <4>2, <1>3, Basics, SMTT(30)
      <4>3. CASE w = job[t] /\ u # t
        BY <4>3, <1>10, Basics
      <4> QED
        BY <4>1, <4>2, <4>3
    <3> QED
      BY <3>1, <1>1, SMTT(30)
  <2>5. \A w \in Work : wmtx'[w] = Main <=> mi' = w /\ pc'[Main] \in MainHolding
    <3>1. ASSUME NEW w \in Work PROVE wmtx'[w] = Main <=> mi = w /\ pc[Main] \in MainHolding
      <4>1. CASE w # job[t]
        BY <4>1 DEF AsioInv, JobInv
      <4>2. CASE w = job[t]
        <5>1. wmtx[w] # Main /\ wmtx'[w] # Main
          BY <4>2, <1>2, <1>11, Basics
        <5> QED
          BY <5>1 DEF AsioInv, JobInv
      <4> QED
        BY <4>1, <4>2
    <3> QED
      BY <3>1, <1>1, <1>4
  <2> QED
    BY <2>1, <2>2, <2>3, <2>4, <2>5 DEF JobInv
<1> QED
  BY <1>5, <1>6, <1>7, <1>8, <1>12

\* Locking, sleeping and looping.
LEMMA CallBackLoops ==
  ASSUME AsioInv, NEW t \in Threads, CbLock(t) \/ CbSleep(t) \/ CbWake(t)
  PROVE  AsioInv'
<1> DEFINE j == job[t]
<1>1. PICK l \in {"cbIn", "cbNap", "cbSwitch"} :
        /\ pc[t] \in {"cbLock", "cbIn", "cbNap"} /\ pc' = [pc EXCEPT ![t] = l]
        /\ wmtx' = [wmtx EXCEPT ![j] = IF l \in WorkHolding THEN t ELSE None]
        /\ pc[t] \in WorkHolding \/ wmtx[j] = None
        /\ UNCHANGED <<queue, mtx, rd, wr, bar, res, job, canc, main, sig, sem, wst, expired>>
  <2>1. CASE CbLock(t)
    BY <2>1 DEF CbLock, GetWorkLock, Goto, WorkHolding
  <2>2. CASE CbSleep(t)
    BY <2>2 DEF CbSleep, Goto, WorkHolding
  <2>3. CASE CbWake(t)
    BY <2>3 DEF CbWake, GetWorkLock, Goto, WorkHolding
  <2> QED
    BY <2>1, <2>2, <2>3
<1>2. /\ pc[t] \in CallBack /\ l \in CallBack /\ pc[t] # "cbQuit" /\ l # "cbQuit"
  BY <1>1 DEF CallBack
<1>3. /\ job \in [Threads -> Work \cup {NoWork}] /\ wmtx \in [Work -> Procs \cup {None}]
      /\ sem \in [Work -> 0 .. 1] /\ pc \in [Procs -> Labels]
  BY DEF AsioInv, LabelInv, TypeOK
<1>4. j \in Work
  BY <1>2, <1>3, SMTT(30) DEF AsioInv, JobInv
<1>5. /\ wmtx' \in [Work -> Procs \cup {None}] /\ wmtx'[j] = (IF l \in WorkHolding THEN t ELSE None)
      /\ \A w \in Work \ {j} : wmtx'[w] = wmtx[w]
  BY <1>1, <1>3, <1>4, Basics
<1>6. LabelInv' /\ MutexInv' /\ PhaseInv' /\ RingInv' /\ JobInv'
  BY <1>1, <1>2, <1>3, <1>5, CallBackStep
<1>7. /\ job' = job /\ mi' = mi /\ round' = round /\ wst' = wst /\ sig' = sig /\ sem' = sem
      /\ n' = n /\ hd' = hd /\ q' = q
  BY <1>1 DEF main, queue
<1>8. pc'[Main] = pc[Main] /\ pc'[t] = l /\ \A u \in Threads \ {t} : pc'[u] = pc[u]
  BY <1>1, <1>3, Basics
<1>9. \A w : (With(w)' <=> With(w)) /\ (Quitting(w)' <=> Quitting(w))
  <2>1. Queued' = Queued
    BY <1>7 DEF Queued
  <2> QED
    BY <1>2, <1>7, <1>8, <2>1 DEF With, Quitting
<1>10. StageInv'
  <2>1. \A w \in Work \ {NoWork} : Stage(w)'
    BY <1>7, <1>8, <1>9, StageSame DEF AsioInv
  <2> QED
    BY <2>1, Basics DEF StageInv
<1> QED
  BY <1>6, <1>10 DEF AsioInv

\* switch (work->sig): the semaphore is posted once, by the one thread that has
\* the work, and only after main has asked for it.
LEMMA CbSwitchInv ==
  ASSUME AsioInv, NEW t \in Threads, CbSwitch(t)
  PROVE  AsioInv'
<1>0. PICK j : j = job[t]
  OBVIOUS
<1>1. /\ pc[t] = "cbSwitch"
      /\ IF sig[j] = "quit" THEN sem' = [sem EXCEPT ![j] = @ + 1] /\ pc' = [pc EXCEPT ![t] = "cbQuit"]
         ELSE pc' = [pc EXCEPT ![t] = "cbIn"] /\ sem' = sem
      /\ UNCHANGED <<queue, mtx, rd, wr, bar, res, job, canc, main, sig, wst, expired>> /\ wmtx' = wmtx
  BY <1>0 DEF CbSwitch, Goto
<1>2. /\ job \in [Threads -> Work \cup {NoWork}] /\ wmtx \in [Work -> Procs \cup {None}]
      /\ sem \in [Work -> 0 .. 1] /\ pc \in [Procs -> Labels]
  BY DEF AsioInv, LabelInv, TypeOK
<1>3. /\ j \in Work /\ (\A u \in Threads \ {t} : job[u] # j) /\ wmtx[j] = t
      /\ pc[t] \in CallBack /\ pc[t] \in WorkHolding
  <2>1. pc[t] \in CallBack /\ pc[t] \in WorkHolding
    BY <1>1, SMTT(30) DEF CallBack, WorkHolding
  <2>2. j \in Work
    BY <1>0, <1>2, <2>1, SMTT(30) DEF AsioInv, JobInv
  <2> QED
    BY <1>0, <2>1, <2>2, Basics DEF AsioInv, JobInv
<1>4. With(j) /\ ~ Quitting(j)
  BY <1>0, <1>1, <1>3 DEF With, Quitting
<1>5. /\ job' = job /\ mi' = mi /\ round' = round /\ wst' = wst /\ sig' = sig
      /\ n' = n /\ hd' = hd /\ q' = q /\ Queued' = Queued
  BY <1>1 DEF main, queue, Queued
<1>6. Stage(j)
  BY <1>3 DEF AsioInv, StageInv
<1>7. CASE sig[j] = "quit"
  <2>1. sem' = [sem EXCEPT ![j] = @ + 1] /\ pc' = [pc EXCEPT ![t] = "cbQuit"]
    BY <1>1, <1>7
  <2>2. pc[Main] \in MainAt
    BY DEF AsioInv, LabelInv
  <2>3. pc[Main] = "semWait" /\ mi = j /\ Ready(j, 0, "quit")
    BY <1>4, <1>6, <1>7, <2>2 DEF MainAt, Stage, Raw, Ready, Idle, Going, Out, Told, Over, Gone
  <2>4. sem[j] = 0
    BY <2>3 DEF Ready
  <2>5. sem' \in [Work -> 0 .. 1] /\ sem'[j] = 1 /\ \A w \in Work \ {j} : sem'[w] = sem[w]
    BY <1>2, <1>3, <2>1, <2>4, SMTT(30)
  <2>6. "cbQuit" \in CallBack /\ "cbQuit" \in WorkHolding
    BY DEF CallBack, WorkHolding
  <2>7. LabelInv' /\ MutexInv' /\ PhaseInv' /\ RingInv' /\ JobInv'
    <3> DEFINE l == "cbQuit"
    <3>1. l \in CallBack /\ l \in WorkHolding /\ pc' = [pc EXCEPT ![t] = l]
      BY <2>1, <2>6
    <3>2. /\ wmtx' \in [Work -> Procs \cup {None}] /\ wmtx'[job[t]] = (IF l \in WorkHolding THEN t ELSE None)
          /\ \A w \in Work \ {job[t]} : wmtx'[w] = wmtx[w]
      BY <1>0, <1>1, <1>2, <1>3, <3>1
    <3>3. UNCHANGED <<queue, mtx, rd, wr, bar, res, job, canc, main, sig, wst, expired>>
      BY <1>1
    <3> HIDE DEF l
    <3> QED
      BY <1>3, <2>5, <3>1, <3>2, <3>3, CallBackStep
  <2>8. pc'[Main] = pc[Main] /\ pc'[t] = "cbQuit" /\ \A u \in Threads \ {t} : pc'[u] = pc[u]
    BY <2>1, <1>2, Basics
  <2>9. \A w \in Work \ {j} : (With(w)' <=> With(w)) /\ (Quitting(w)' <=> Quitting(w))
    BY <1>0, <1>5, <2>8 DEF With, Quitting
  <2>10. \A w \in Work \ {j} : Stage(w)'
    BY <1>5, <2>5, <2>8, <2>9, StageSame DEF AsioInv
  <2>11. Stage(j)'
    <3>1. Quitting(j)'
      BY <1>0, <1>5, <2>8 DEF Quitting
    <3>2. Ready(j, 1, "quit")'
      BY <1>5, <2>3, <2>5 DEF Ready
    <3>3. Told(j)'
      BY <3>1, <3>2 DEF Told
    <3>4. pc'[Main] = "semWait" /\ mi' = j
      BY <1>5, <2>3, <2>8
    <3>5. ~ (j < j)
      BY <1>3, Basics, SMTT(30)
    <3> QED
      BY <3>3, <3>4, <3>5 DEF Stage, Before, Making, Queueing, Freeing, Freed, After
  <2> QED
    BY <2>7, <2>10, <2>11 DEF AsioInv, StageInv
<1>8. CASE sig[j] # "quit"
  <2>1. sem' = sem /\ pc' = [pc EXCEPT ![t] = "cbIn"]
    BY <1>1, <1>8
  <2>6. "cbIn" \in CallBack /\ "cbIn" \in WorkHolding
    BY DEF CallBack, WorkHolding
  <2>7. LabelInv' /\ MutexInv' /\ PhaseInv' /\ RingInv' /\ JobInv'
    <3> DEFINE l == "cbIn"
    <3>1. l \in CallBack /\ l \in WorkHolding /\ pc' = [pc EXCEPT ![t] = l]
      BY <2>1, <2>6
    <3>2. /\ wmtx' \in [Work -> Procs \cup {None}] /\ wmtx'[job[t]] = (IF l \in WorkHolding THEN t ELSE None)
          /\ \A w \in Work \ {job[t]} : wmtx'[w] = wmtx[w]
      BY <1>0, <1>1, <1>2, <1>3, <3>1
    <3>3. UNCHANGED <<queue, mtx, rd, wr, bar, res, job, canc, main, sig, wst, expired>>
      BY <1>1
    <3> HIDE DEF l
    <3> QED
      BY <1>2, <1>3, <2>1, <3>1, <3>2, <3>3, CallBackStep
  <2>8. pc'[Main] = pc[Main] /\ pc'[t] = "cbIn" /\ \A u \in Threads \ {t} : pc'[u] = pc[u]
    BY <2>1, <1>2, Basics
  <2>9. \A w : (With(w)' <=> With(w)) /\ (Quitting(w)' <=> Quitting(w))
    BY <1>1, <1>5, <2>8 DEF With, Quitting
  <2>10. \A w \in Work \ {NoWork} : Stage(w)'
    BY <1>5, <2>1, <2>8, <2>9, StageSame DEF AsioInv
  <2> QED
    BY <2>7, <2>10, Basics DEF AsioInv, StageInv
<1> QED
  BY <1>7, <1>8

\* The call-back returns and the work is nowhere any more.
LEMMA CbQuitInv ==
  ASSUME AsioInv, NEW t \in Threads, CbQuit(t)
  PROVE  AsioInv'
<1>0. PICK j : j = job[t]
  OBVIOUS
<1>1. /\ pc[t] = "cbQuit" /\ wmtx' = [wmtx EXCEPT ![j] = None] /\ job' = [job EXCEPT ![t] = NoWork]
      /\ pc' = [pc EXCEPT ![t] = "deq"]
      /\ UNCHANGED <<queue, mtx, rd, wr, bar, res, canc, main, sig, sem, wst, expired>>
  BY <1>0 DEF CbQuit, Goto
<1>2. /\ job \in [Threads -> Work \cup {NoWork}] /\ wmtx \in [Work -> Procs \cup {None}]
      /\ pc \in [Procs -> Labels] /\ t \in Procs /\ t # Main
  BY Basics DEF AsioInv, LabelInv, TypeOK
<1>3. /\ n' = n /\ hd' = hd /\ tl' = tl /\ q' = q /\ mtx' = mtx /\ rd' = rd /\ wr' = wr /\ bar' = bar
      /\ res' = res /\ canc' = canc /\ mi' = mi /\ round' = round /\ sig' = sig /\ sem' = sem /\ wst' = wst
      /\ expired' = expired
  BY <1>1 DEF queue, main
<1>4. /\ pc' \in [Procs -> Labels] /\ pc'[t] = "deq" /\ \A r \in Procs \ {t} : pc'[r] = pc[r]
      /\ job' \in [Threads -> Work \cup {NoWork}] /\ job'[t] = NoWork /\ \A u \in Threads \ {t} : job'[u] = job[u]
  BY <1>1, <1>2 DEF Labels
<1>5. pc'[Main] = pc[Main] /\ \A u \in Threads \ {t} : pc'[u] = pc[u]
  BY <1>2, <1>4, Basics
<1>6. /\ j \in Work /\ (\A u \in Threads \ {t} : job[u] # j) /\ wmtx[j] = t
  <2>1. pc[t] \in CallBack /\ pc[t] \in WorkHolding
    BY <1>1 DEF CallBack, WorkHolding
  <2>2. j \in Work
    BY <1>0, <1>2, <2>1, SMTT(30) DEF AsioInv, JobInv
  <2> QED
    BY <1>0, <2>1, <2>2, Basics DEF AsioInv, JobInv
<1>7. wmtx' \in [Work -> Procs \cup {None}] /\ wmtx'[j] = None /\ \A w \in Work \ {j} : wmtx'[w] = wmtx[w]
  BY <1>1, <1>2, <1>6
<1>8. LabelInv'
  <2>1. TypeOK'
    BY <1>3, <1>4, <1>7 DEF AsioInv, LabelInv, TypeOK
  <2>2. pc'[Main] \in MainAt /\ \A u \in Threads : pc'[u] \in ThreadAt
    BY <1>4, <1>5 DEF AsioInv, LabelInv, ThreadAt, Waiting
  <2> QED
    BY <2>1, <2>2 DEF LabelInv
<1>9. MutexInv'
  <2>1. \A r \in Procs : mtx' = r <=> pc'[r] \in Holding
    BY <1>1, <1>3, <1>4 DEF AsioInv, MutexInv, Holding
  <2>2. \A r \in rd' \cup wr' : pc'[r] = "wait"
    <3>1. rd \cup wr \subseteq Procs /\ t \notin rd \cup wr
      BY <1>1, Basics DEF AsioInv, LabelInv, TypeOK, MutexInv
    <3> QED
      BY <1>3, <1>4, <3>1 DEF AsioInv, MutexInv
  <2> QED
    BY <2>1, <2>2 DEF MutexInv
<1>10. PhaseInv'
  BY <1>1, <1>3, <1>4, <1>5, SMTT(30) DEF AsioInv, PhaseInv, Outside
<1>11. RingInv'
  BY <1>3 DEF AsioInv, RingInv, At
<1>12. Queued' = Queued
  BY <1>3 DEF Queued
<1>13. NoWork \notin Queued
  BY Basics DEF AsioInv, RingInv, Queued, At
<1>14. JobInv'
  <2>1. \A u \in Threads : job'[u] # NoWork <=> pc'[u] \in CallBack
    BY <1>4, <1>5, SMTT(30) DEF AsioInv, JobInv, CallBack
  <2>2. \A u, v \in Threads : job'[u] # NoWork /\ job'[u] = job'[v] => u = v
    BY <1>4, SMTT(30) DEF AsioInv, JobInv
  <2>3. \A u \in Threads : job'[u] \notin Queued'
    BY <1>4, <1>12, <1>13 DEF AsioInv, JobInv
  <2>4. \A u \in Threads, w \in Work : wmtx'[w] = u <=> job'[u] = w /\ pc'[u] \in WorkHolding
    <3>1. ASSUME NEW u \in Threads, NEW w \in Work
          PROVE  wmtx'[w] = u <=> job'[u] = w /\ pc'[u] \in WorkHolding
      <4>1. CASE u = t
        <5>1. job'[t] # w
          BY <1>4, Basics
        <5>2. wmtx'[w] # t
          BY <1>0, <1>2, <1>6, <1>7, Basics, SMTT(30) DEF AsioInv, JobInv
        <5> QED
          BY <4>1, <5>1, <5>2
      <4>2. CASE u # t /\ w = j
        BY <4>2, <1>4, <1>6, <1>7, Basics
      <4>3. CASE u # t /\ w # j
        BY <4>3, <1>4, <1>5, <1>7, SMTT(30) DEF AsioInv, JobInv
      <4> QED
        BY <4>1, <4>2, <4>3
    <3> QED
      BY <3>1
  <2>5. \A w \in Work : wmtx'[w] = Main <=> mi' = w /\ pc'[Main] \in MainHolding
    BY <1>2, <1>3, <1>5, <1>6, <1>7, Basics, SMTT(30) DEF AsioInv, JobInv
  <2> QED
    BY <2>1, <2>2, <2>3, <2>4, <2>5 DEF JobInv
<1>15. StageInv'
  <2>1. \A w \in Work \ {j} : (With(w)' <=> With(w)) /\ (Quitting(w)' <=> Quitting(w))
    BY <1>0, <1>4, <1>5, <1>12, Basics, SMTT(30) DEF With, Quitting
  <2>2. \A w \in Work \ {j} : Stage(w)'
    BY <1>3, <1>5, <2>1, StageSame DEF AsioInv
  <2>3. Stage(j) /\ Quitting(j) /\ With(j)
    BY <1>0, <1>1, <1>6 DEF AsioInv, StageInv, Quitting, With
  <2>4. ~ With(j)' /\ ~ Quitting(j)'
    <3>1. \A u \in Threads : job'[u] # j
      BY <1>4, <1>6, Basics
    <3>2. j \notin Queued'
      BY <1>0, <1>12 DEF AsioInv, JobInv
    <3> QED
      BY <3>1, <3>2 DEF With, Quitting
  <2>5. pc[Main] \in MainAt
    BY DEF AsioInv, LabelInv
  <2>6. \/ pc[Main] = "semWait" /\ mi = j /\ Ready(j, 1, "quit")
        \/ pc[Main] \in Freed /\ mi = j /\ Ready(j, 0, "quit")
    BY <2>3, <2>5 DEF MainAt, Stage, Raw, Idle, Going, Out, Told, Over, Gone
  <2>7. \A m, s : Ready(j, m, s)' <=> Ready(j, m, s)
    BY <1>3 DEF Ready
  <2>8. ~ (j < j)
    BY <1>6, Basics, SMTT(30)
  <2>9. CASE pc[Main] = "semWait" /\ mi = j /\ Ready(j, 1, "quit")
    <3>1. Told(j)'
      BY <2>4, <2>7, <2>9 DEF Told
    <3>2. pc'[Main] = "semWait" /\ mi' = j
      BY <1>3, <1>5, <2>9
    <3> QED
      BY <2>2, <2>8, <3>1, <3>2 DEF StageInv, Stage, Before, Making, Queueing, Freeing, Freed, After
  <2>10. CASE pc[Main] \in Freed /\ mi = j /\ Ready(j, 0, "quit")
    <3>1. Over(j)'
      BY <2>4, <2>7, <2>10 DEF Over
    <3>2. pc'[Main] \in Freed /\ mi' = j
      BY <1>3, <1>5, <2>10
    <3> QED
      BY <2>2, <2>8, <3>1, <3>2 DEF StageInv, Stage, Before, Making, Queueing, Freeing, Freed, After
  <2> QED
    BY <2>6, <2>9, <2>10
<1> QED
  BY <1>8, <1>9, <1>10, <1>11, <1>14, <1>15 DEF AsioInv

------------------------------------------------------------------------------
(***************************************************************************)
(* The ring.                                                               *)
(***************************************************************************)
LEMMA Modulo ==
  ASSUME NEW x \in 0 .. 2 * SZ - 1
  PROVE  x % SZ = IF x < SZ THEN x ELSE x - SZ
<1>1. SZ \in Nat \ {0} /\ x \in Nat /\ x < 2 * SZ
  BY AsioAssumption, SMTT(30)
<1>2. CASE x < SZ
  BY <1>1, <1>2, Z3
<1>3. CASE ~ (x < SZ)
  <2>1. x = 1 * SZ + (x - SZ) /\ x - SZ \in 0 .. SZ - 1
    BY <1>1, <1>3, SMTT(30)
  <2>2. x % SZ = x - SZ
    BY <1>1, <2>1, Z3
  <2> QED
    BY <1>3, <2>2
<1> QED
  BY <1>2, <1>3

LEMMA QueuedIs ==
  /\ Queued = {At(i) : i \in 0 .. n - 1}
  /\ Queued' = {At(i)' : i \in 0 .. n' - 1}
  BY DEF Queued, At

\* _asio_deq takes the first entry, wrapping hd before.
LEMMA RingTakes ==
  ASSUME TypeOK, RingInv, n > 0, NEW h, h = (IF hd = SZ THEN 0 ELSE hd),
         hd' = h + 1, n' = n - 1, tl' = tl, q' = q
  PROVE  /\ q[h] = At(0) /\ hd' \in 0 .. SZ /\ n' \in 0 .. SZ
         /\ \A i \in 0 .. n' - 1 : i + 1 \in 0 .. n - 1 /\ At(i)' = At(i + 1)
         /\ hd' + n' - tl' \in {-SZ, 0, SZ, 2 * SZ}
<1>1. SZ \in Nat \ {0} /\ n \in 1 .. SZ /\ hd \in 0 .. SZ /\ tl \in 0 .. SZ
  BY AsioAssumption, SMTT(30) DEF TypeOK
<1>2. q[h] = At(0)
  <2>1. (hd + 0) % SZ = h
    BY <1>1, Modulo, SMTT(30)
  <2> QED
    BY <2>1 DEF At
<1>3. \A i \in 0 .. n' - 1 : i + 1 \in 0 .. n - 1 /\ At(i)' = At(i + 1)
  <2>1. SUFFICES ASSUME NEW i \in 0 .. n' - 1 PROVE i + 1 \in 0 .. n - 1 /\ At(i)' = At(i + 1)
    OBVIOUS
  <2>2. /\ i + 1 \in 0 .. n - 1 /\ hd' + i \in 0 .. 2 * SZ - 1 /\ hd + (i + 1) \in 0 .. 2 * SZ - 1
    BY <1>1, SMTT(30)
  <2>3. (hd' + i) % SZ = (hd + (i + 1)) % SZ
    <3>1. /\ (hd' + i) % SZ = IF hd' + i < SZ THEN hd' + i ELSE hd' + i - SZ
          /\ (hd + (i + 1)) % SZ = IF hd + (i + 1) < SZ THEN hd + (i + 1) ELSE hd + (i + 1) - SZ
      BY <1>1, <2>2, Modulo, SMTT(30)
    <3> QED
      BY <1>1, <2>2, <3>1, SMTT(30)
  <2> QED
    BY <2>2, <2>3 DEF At
<1>4. hd + n - tl \in {-SZ, 0, SZ, 2 * SZ}
  BY DEF RingInv
<1>5. hd' \in 0 .. SZ /\ n' \in 0 .. SZ /\ hd' + n' - tl' \in {-SZ, 0, SZ, 2 * SZ}
  BY <1>1, <1>4, SMTT(30)
<1> QED
  BY <1>2, <1>3, <1>5

\* _asio_enq fills the slot after the last entry, wrapping tl before.
LEMMA RingPuts ==
  ASSUME TypeOK, RingInv, n # SZ, NEW x, NEW e, e = (IF tl = SZ THEN 0 ELSE tl),
         q' = [q EXCEPT ![e] = x], tl' = e + 1, n' = n + 1, hd' = hd
  PROVE  /\ e \in 0 .. SZ - 1 /\ tl' \in 0 .. SZ /\ n' \in 0 .. SZ
         /\ \A i \in 0 .. n : At(i)' = IF i = n THEN x ELSE At(i)
         /\ hd' + n' - tl' \in {-SZ, 0, SZ, 2 * SZ}
<1>1. SZ \in Nat \ {0} /\ n \in 0 .. SZ - 1 /\ hd \in 0 .. SZ /\ tl \in 0 .. SZ
  BY AsioAssumption, SMTT(30) DEF TypeOK
<1>2. e \in 0 .. SZ - 1
  BY <1>1, SMTT(30)
<1>3. hd + n - tl \in {-SZ, 0, SZ, 2 * SZ}
  BY DEF RingInv
<1>4. (hd + n) % SZ = e
  <2>1. hd + n \in 0 .. 2 * SZ - 1
    BY <1>1, SMTT(30)
  <2>2. (hd + n) % SZ = IF hd + n < SZ THEN hd + n ELSE hd + n - SZ
    BY <1>1, <2>1, Modulo, SMTT(30)
  <2> QED
    BY <1>1, <1>3, <2>1, <2>2, SMTT(30)
<1>5. q \in [0 .. SZ - 1 -> Work \cup {NoWork}]
  BY DEF TypeOK
<1>6. q'[e] = x /\ \A k \in 0 .. SZ - 1 : k # e => q'[k] = q[k]
  BY <1>2, <1>5
<1>7. ASSUME NEW i \in 0 .. n - 1 PROVE (hd + i) % SZ \in 0 .. SZ - 1 /\ (hd + i) % SZ # e
  <2>1. hd + i \in 0 .. 2 * SZ - 1 /\ hd + n \in 0 .. 2 * SZ - 1
    BY <1>1, SMTT(30)
  <2>2. /\ (hd + i) % SZ = IF hd + i < SZ THEN hd + i ELSE hd + i - SZ
        /\ e = IF hd + n < SZ THEN hd + n ELSE hd + n - SZ
    BY <1>1, <1>4, <2>1, Modulo, SMTT(30)
  <2> QED
    BY <1>1, <2>1, <2>2, SMTT(30)
<1>8. \A i \in 0 .. n - 1 : At(i)' = At(i)
  BY <1>6, <1>7 DEF At
<1>9. \A i : i = n => At(i)' = x
  BY <1>4, <1>6 DEF At
<1>11. \A i \in 0 .. n : i # n => i \in 0 .. n - 1
  BY <1>1, SMTT(30)
<1>10. tl' \in 0 .. SZ /\ n' \in 0 .. SZ /\ hd' + n' - tl' \in {-SZ, 0, SZ, 2 * SZ}
  BY <1>1, <1>3, SMTT(30)
<1> QED
  BY <1>2, <1>8, <1>9, <1>10, <1>11

LEMMA DeqInv ==
  ASSUME AsioInv, NEW t \in Threads, Deq(t)
  PROVE  AsioInv'
<1>0. PICK h : h = IF hd = SZ THEN 0 ELSE hd
  OBVIOUS
<1>1. /\ pc[t] = "in" /\ n > 0 /\ job' = [job EXCEPT ![t] = q[h]] /\ hd' = h + 1 /\ n' = n - 1
      /\ LetCond(wr, wr') /\ mtx' = None /\ tl' = tl /\ q' = q
      /\ pc' = [r \in Procs |-> IF r = t THEN "cbLock" ELSE IF r \in wr \ wr' THEN "woken" ELSE pc[r]]
      /\ UNCHANGED <<rd, bar, res, canc, main, works, expired>>
  BY <1>0 DEF Deq, Resume
<1>2. TypeOK /\ RingInv
  BY DEF AsioInv, LabelInv
<1>3. /\ q[h] = At(0) /\ hd' \in 0 .. SZ /\ n' \in 0 .. SZ
      /\ \A i \in 0 .. n' - 1 : i + 1 \in 0 .. n - 1 /\ At(i)' = At(i + 1)
      /\ hd' + n' - tl' \in {-SZ, 0, SZ, 2 * SZ}
  BY <1>0, <1>1, <1>2, RingTakes
<1>4. PICK a : a = At(0)
  OBVIOUS
<1>5. /\ rd' = rd /\ bar' = bar /\ res' = res /\ canc' = canc /\ mi' = mi /\ round' = round
      /\ sig' = sig /\ sem' = sem /\ wst' = wst /\ wmtx' = wmtx /\ expired' = expired /\ wr' \subseteq wr
  BY <1>1 DEF main, works, LetCond
<1>6. /\ job \in [Threads -> Work \cup {NoWork}] /\ rd \subseteq Threads /\ wr \subseteq {Main}
      /\ t \in Procs /\ t # Main /\ n \in 0 .. SZ
  BY <1>2, Basics DEF TypeOK
<1>7. /\ 0 \in 0 .. n - 1 /\ a \in Work /\ a \in Queued
  BY <1>1, <1>2, <1>4, <1>6, QueuedIs, SMTT(30) DEF RingInv
<1>8. Queued' = Queued \ {a}
  <2>1. \A x : x \in Queued' => x \in Queued /\ x # a
    <3>1. SUFFICES ASSUME NEW i \in 0 .. n' - 1 PROVE At(i)' \in Queued /\ At(i)' # a
      BY QueuedIs
    <3>2. i + 1 \in 0 .. n - 1 /\ At(i)' = At(i + 1)
      BY <1>3
    <3>3. i + 1 # 0
      BY AsioAssumption, <1>3, SMTT(30)
    <3> QED
      BY <3>2, <3>3, <1>2, <1>4, <1>7, QueuedIs DEF RingInv
  <2>2. \A x : x \in Queued /\ x # a => x \in Queued'
    <3>1. SUFFICES ASSUME NEW i \in 0 .. n - 1, At(i) # a PROVE At(i) \in Queued'
      BY QueuedIs
    <3>2. i # 0
      BY <3>1, <1>4
    <3>3. PICK k \in 0 .. n' - 1 : k + 1 = i
      <4>1. i - 1 \in 0 .. n' - 1 /\ (i - 1) + 1 = i
        BY <1>1, <1>6, <3>2, SMTT(30)
      <4> QED
        BY <4>1
    <3> QED
      BY <3>3, <1>3, QueuedIs
  <2> QED
    BY <2>1, <2>2
<1>9. RingInv'
  <2>1. \A i \in 0 .. n' - 1 : At(i)' \in Work
    BY <1>2, <1>3 DEF RingInv
  <2>2. \A i, k \in 0 .. n' - 1 : At(i)' = At(k)' => i = k
    <3>1. SUFFICES ASSUME NEW i \in 0 .. n' - 1, NEW k \in 0 .. n' - 1, At(i)' = At(k)' PROVE i = k
      OBVIOUS
    <3>2. i + 1 = k + 1
      BY <3>1, <1>2, <1>3 DEF RingInv
    <3> QED
      BY <3>2, SMTT(30)
  <2> QED
    BY <1>3, <2>1, <2>2 DEF RingInv
<1>10. /\ job' \in [Threads -> Work \cup {NoWork}] /\ job'[t] = a
       /\ \A u \in Threads \ {t} : job'[u] = job[u]
  BY <1>1, <1>3, <1>4, <1>6, <1>7
<1>11. job[t] = NoWork
  BY <1>1 DEF AsioInv, JobInv, CallBack
<1>12. /\ MutexInv' /\ pc' \in [Procs -> Labels] /\ pc'[t] = "cbLock"
       /\ pc'[Main] = pc[Main] \/ (pc[Main] = "wait" /\ pc'[Main] = "woken")
       /\ \A u \in Threads \ {t} : pc'[u] = pc[u]
  <2> DEFINE G == wr \ wr'
             l == "cbLock"
  <2>1. /\ G \in SUBSET (rd \cup wr) /\ l \in Labels /\ l \notin Holding /\ pc[t] \in Holding
        /\ pc' = [r \in Procs |-> IF r = t THEN l ELSE IF r \in G THEN "woken" ELSE pc[r]]
        /\ \A r \in (rd' \cup wr') \ {t} : r \in (rd \cup wr) \ G
        /\ rd' \subseteq Threads /\ wr' \subseteq {Main} /\ t \notin rd' \cup wr' /\ mtx' = None
    <3>1. t \notin rd \cup wr
      BY <1>1 DEF AsioInv, MutexInv
    <3> QED
      BY <1>1, <1>5, <1>6, <3>1, Basics DEF Holding, Labels
  <2>2. \A r \in G : pc[r] = "wait" /\ r = Main
    BY <1>6 DEF AsioInv, MutexInv
  <2>3. pc'[t] = "cbLock"
    BY <1>1, <1>6
  <2> HIDE DEF G, l
  <2>4. /\ MutexInv' /\ pc' \in [Procs -> Labels]
        /\ \A r \in Procs \ {t} : pc'[r] = IF r \in G THEN "woken" ELSE pc[r]
    BY <1>6, <2>1, GivesLock, SMTT(30)
  <2>5. pc'[Main] = pc[Main] \/ (pc[Main] = "wait" /\ pc'[Main] = "woken")
    BY <1>6, <2>2, <2>4, Basics
  <2>6. \A u \in Threads \ {t} : pc'[u] = pc[u]
    BY <2>2, <2>4, Basics
  <2> QED
    BY <2>3, <2>4, <2>5, <2>6
<1>13. LabelInv'
  <2>1. TypeOK'
    BY <1>1, <1>2, <1>3, <1>5, <1>6, <1>10, <1>12 DEF TypeOK
  <2>2. pc'[Main] \in MainAt /\ \A u \in Threads : pc'[u] \in ThreadAt
    BY <1>12 DEF AsioInv, LabelInv, MainAt, Queueing, ThreadAt, CallBack
  <2> QED
    BY <2>1, <2>2 DEF LabelInv
<1>14. PhaseInv'
  <2>1. pc[Main] \notin Before
    BY <1>1 DEF AsioInv, PhaseInv, Outside
  <2>2. PhaseInv /\ pc[t] # "dead"
    BY <1>1 DEF AsioInv
  <2> QED
    BY <1>5, <1>12, <2>1, <2>2 DEF PhaseInv, Before, After, Queueing, Outside
<1>15. JobInv'
  <2>1. \A u \in Threads : job'[u] # NoWork <=> pc'[u] \in CallBack
    BY <1>7, <1>10, <1>12, Basics, SMTT(30) DEF AsioInv, JobInv, CallBack
  <2>2. \A u, v \in Threads : job'[u] # NoWork /\ job'[u] = job'[v] => u = v
    BY <1>7, <1>10, SMTT(30) DEF AsioInv, JobInv
  <2>3. \A u \in Threads : job'[u] \notin Queued'
    BY <1>8, <1>10 DEF AsioInv, JobInv
  <2>4. \A u \in Threads, w \in Work : wmtx'[w] = u <=> job'[u] = w /\ pc'[u] \in WorkHolding
    BY <1>5, <1>10, <1>11, <1>12, Basics, SMTT(30) DEF AsioInv, JobInv, WorkHolding
  <2>5. \A w \in Work : wmtx'[w] = Main <=> mi' = w /\ pc'[Main] \in MainHolding
    BY <1>5, <1>12 DEF AsioInv, JobInv, MainHolding
  <2> QED
    BY <2>1, <2>2, <2>3, <2>4, <2>5 DEF JobInv
<1>16. StageInv'
  <2>1. \A w \in Work : With(w)' <=> With(w)
    BY <1>7, <1>8, <1>10, <1>11, Basics DEF With
  <2>2. \A w \in Work : Quitting(w)' <=> Quitting(w)
    BY <1>1, <1>10, <1>12, ZenonT(40) DEF Quitting
  <2>3. \A w \in Work \ {NoWork} : Stage(w)'
    BY <1>5, <1>12, <2>1, <2>2, StageSame DEF AsioInv, Queueing
  <2> QED
    BY <2>3, Basics DEF StageInv
<1> QED
  BY <1>9, <1>12, <1>13, <1>14, <1>15, <1>16 DEF AsioInv

LEMMA EnqInv ==
  ASSUME AsioInv, Enq
  PROVE  AsioInv'
<1>0. PICK e : e = IF tl = SZ THEN 0 ELSE tl
  OBVIOUS
<1>1. /\ pc[Main] = "in" /\ n # SZ /\ q' = [q EXCEPT ![e] = mi] /\ tl' = e + 1 /\ n' = n + 1 /\ hd' = hd
      /\ LetCond(rd, rd') /\ mtx' = None /\ NextMake
      /\ pc' = [r \in Procs |-> IF r = Main THEN AfterMake ELSE IF r \in rd \ rd' THEN "woken" ELSE pc[r]]
      /\ UNCHANGED <<wr, bar, res, job, canc, works, expired>>
  BY <1>0 DEF Enq, Resume
<1>2. TypeOK /\ RingInv
  BY DEF AsioInv, LabelInv
<1>3. PICK m : m = mi
  OBVIOUS
<1>4. /\ e \in 0 .. SZ - 1 /\ tl' \in 0 .. SZ /\ n' \in 0 .. SZ
      /\ \A i \in 0 .. n : At(i)' = IF i = n THEN m ELSE At(i)
      /\ hd' + n' - tl' \in {-SZ, 0, SZ, 2 * SZ}
  BY <1>0, <1>1, <1>2, <1>3, RingPuts
<1>5. /\ wr' = wr /\ bar' = bar /\ res' = res /\ canc' = canc /\ job' = job
      /\ sig' = sig /\ sem' = sem /\ wst' = wst /\ wmtx' = wmtx /\ expired' = expired /\ rd' \subseteq rd
  BY <1>1 DEF works, LetCond
<1>6. m \in Work /\ round = 1 /\ pc[Main] \notin Before
  BY <1>1, <1>3 DEF AsioInv, PhaseInv, Before, After, Queueing
<1>7. /\ AfterMake = "make" /\ mi' = (IF m = NW THEN 1 ELSE m + 1) /\ round' = (IF m = NW THEN 2 ELSE 1)
      /\ mi' \in Work /\ round' \in 1 .. 2
  BY <1>1, <1>3, <1>6, AsioAssumption, SMTT(30) DEF AfterMake, NextMake, Work
<1>8. /\ rd \subseteq Threads /\ wr \subseteq {Main} /\ n \in 0 .. SZ /\ Main \in Procs
      /\ q \in [0 .. SZ - 1 -> Work \cup {NoWork}]
  BY <1>2, Basics DEF TypeOK
<1>9. Going(m)
  <2>1. Stage(m) /\ ~ (m < m)
    BY <1>6, Basics, SMTT(30) DEF AsioInv, StageInv
  <2> QED
    BY <1>1, <1>3, <2>1 DEF Stage, Queueing
<1>10. m \notin Queued /\ \A t \in Threads : job[t] # m
  BY <1>9 DEF Going, With
<1>11. \A i : i \in 0 .. n' - 1 <=> i \in 0 .. n
  BY <1>1, <1>8, SMTT(30)
<1>12. Queued' = Queued \cup {m}
  <2>1. \A x : x \in Queued' => x \in Queued \/ x = m
    <3>1. SUFFICES ASSUME NEW i \in 0 .. n PROVE At(i)' \in Queued \/ At(i)' = m
      BY <1>11, QueuedIs
    <3>2. CASE i = n
      BY <3>2, <1>4
    <3>3. CASE i # n
      <4>1. i \in 0 .. n - 1
        BY <3>3, <1>8, SMTT(30)
      <4> QED
        BY <3>3, <4>1, <1>4, QueuedIs
    <3> QED
      BY <3>2, <3>3
  <2>2. ASSUME NEW i \in 0 .. n - 1 PROVE At(i) \in Queued'
    <3>1. i \in 0 .. n /\ i # n
      BY <1>8, SMTT(30)
    <3> QED
      BY <3>1, <1>4, <1>11, QueuedIs
  <2>3. m \in Queued'
    <3>1. PICK k : k = n
      OBVIOUS
    <3>2. k \in 0 .. n
      BY <3>1, <1>8, SMTT(30)
    <3>3. At(k)' = m
      BY <1>4, <3>1, <3>2
    <3> QED
      BY <3>2, <3>3, <1>11, QueuedIs
  <2> QED
    BY <2>1, <2>2, <2>3, QueuedIs
<1>13. RingInv'
  <2>1. \A i \in 0 .. n : i # n => i \in 0 .. n - 1
    BY <1>8, SMTT(30)
  <2>2. \A i \in 0 .. n' - 1 : At(i)' \in Work
    <3>1. \A i \in 0 .. n - 1 : At(i) \in Work
      BY <1>2 DEF RingInv
    <3>2. \A i \in 0 .. n : At(i)' \in Work
      BY <3>1, <1>4, <1>6, <2>1
    <3> QED
      BY <3>2, <1>11
  <2>3. \A i, k \in 0 .. n' - 1 : At(i)' = At(k)' => i = k
    <3>1. SUFFICES ASSUME NEW i \in 0 .. n, NEW k \in 0 .. n, At(i)' = At(k)' PROVE i = k
      BY <1>11
    <3>2. \A x \in 0 .. n : x # n => At(x) # m
      BY <1>10, <2>1, QueuedIs
    <3> QED
      BY <3>1, <3>2, <2>1, <1>2, <1>4 DEF RingInv
  <2> QED
    BY <1>4, <2>2, <2>3 DEF RingInv
<1>14. /\ MutexInv' /\ pc' \in [Procs -> Labels] /\ pc'[Main] = "make"
       /\ \A t \in Threads : pc'[t] = pc[t] \/ (pc[t] = "wait" /\ pc'[t] = "woken")
  <2> DEFINE G == rd \ rd'
             l == "make"
  <2>1. /\ G \in SUBSET (rd \cup wr) /\ l \in Labels /\ l \notin Holding /\ pc[Main] \in Holding
        /\ pc' = [r \in Procs |-> IF r = Main THEN l ELSE IF r \in G THEN "woken" ELSE pc[r]]
        /\ \A r \in (rd' \cup wr') \ {Main} : r \in (rd \cup wr) \ G
        /\ rd' \subseteq Threads /\ wr' \subseteq {Main} /\ Main \notin rd' \cup wr' /\ mtx' = None
    <3>1. Main \notin rd \cup wr
      BY <1>1 DEF AsioInv, MutexInv
    <3> QED
      BY <1>1, <1>5, <1>7, <1>8, <3>1, Basics DEF Holding, Labels
  <2>2. \A r \in G : pc[r] = "wait" /\ r \in Threads
    BY <1>8 DEF AsioInv, MutexInv
  <2>3. pc'[Main] = "make"
    BY <1>1, <1>7, <1>8
  <2> HIDE DEF G, l
  <2>4. /\ MutexInv' /\ pc' \in [Procs -> Labels]
        /\ \A r \in Procs \ {Main} : pc'[r] = IF r \in G THEN "woken" ELSE pc[r]
    BY <1>8, <2>1, GivesLock, SMTT(30)
  <2>5. \A t \in Threads : pc'[t] = pc[t] \/ (pc[t] = "wait" /\ pc'[t] = "woken")
    BY <2>2, <2>4, Basics
  <2> QED
    BY <2>3, <2>4, <2>5
<1>15. LabelInv'
  <2>1. q' \in [0 .. SZ - 1 -> Work \cup {NoWork}]
    BY <1>1, <1>3, <1>4, <1>6, <1>8
  <2>2. mi' \in 0 .. NT + NW + 7
    BY <1>7, AsioAssumption, SMTT(30) DEF Work
  <2>3. mtx' \in Procs \cup {None} /\ hd' \in 0 .. SZ
    BY <1>1, <1>2 DEF TypeOK
  <2>4. TypeOK'
    BY <1>2, <1>4, <1>5, <1>7, <1>8, <1>14, <2>1, <2>2, <2>3 DEF TypeOK
  <2>5. pc'[Main] \in MainAt /\ \A u \in Threads : pc'[u] \in ThreadAt
    BY <1>14 DEF AsioInv, LabelInv, MainAt, Making, ThreadAt, Waiting
  <2> QED
    BY <2>4, <2>5 DEF LabelInv
<1>16. PhaseInv'
  <2>1. canc' = {}
    BY <1>1, <1>5 DEF AsioInv, PhaseInv, After
  <2>2. \A t \in Threads : pc'[t] \notin Outside
    BY <1>6, <1>14 DEF AsioInv, PhaseInv, Outside
  <2> QED
    BY <1>7, <1>14, <2>1, <2>2 DEF PhaseInv, Before, After, Queueing
<1>17. JobInv'
  <2>1. \A u \in Threads : job'[u] # NoWork <=> pc'[u] \in CallBack
    BY <1>5, <1>14 DEF AsioInv, JobInv, CallBack
  <2>2. \A u, v \in Threads : job'[u] # NoWork /\ job'[u] = job'[v] => u = v
    BY <1>5 DEF AsioInv, JobInv
  <2>3. \A u \in Threads : job'[u] \notin Queued'
    BY <1>5, <1>10, <1>12 DEF AsioInv, JobInv
  <2>4. \A u \in Threads, w \in Work : wmtx'[w] = u <=> job'[u] = w /\ pc'[u] \in WorkHolding
    BY <1>5, <1>14, SMTT(30) DEF AsioInv, JobInv, WorkHolding
  <2>5. \A w \in Work : wmtx'[w] = Main <=> mi' = w /\ pc'[Main] \in MainHolding
    BY <1>1, <1>5, <1>14 DEF AsioInv, JobInv, MainHolding
  <2> QED
    BY <2>1, <2>2, <2>3, <2>4, <2>5 DEF JobInv
<1>18. StageInv'
  <2>1. \A w \in Work : Quitting(w)' <=> Quitting(w)
    BY <1>5, <1>14 DEF Quitting
  <2>2. \A w \in Work : With(w)' <=> With(w) \/ w = m
    BY <1>5, <1>12 DEF With
  <2>3. \A w \in Work : IF w < m THEN Out(w) ELSE IF w = m THEN Going(w) ELSE Idle(w)
    BY <1>1, <1>3 DEF AsioInv, StageInv, Stage, Queueing
  <2>4. \A w \in Work : IF w <= m THEN Out(w)' ELSE Idle(w)'
    <3>1. SUFFICES ASSUME NEW w \in Work PROVE IF w <= m THEN Out(w)' ELSE Idle(w)'
      OBVIOUS
    <3>2. CASE w < m
      BY <2>1, <2>2, <2>3, <3>2, <1>5, <1>6, Basics, SMTT(30) DEF Out, Ready
    <3>3. CASE w = m
      <4>1. ~ Quitting(m)
        BY <1>10 DEF Quitting
      <4> QED
        BY <2>1, <2>2, <3>3, <4>1, <1>5, <1>6, <1>9, Basics, SMTT(30) DEF Going, Out, Ready
    <3>4. CASE w > m
      BY <2>1, <2>2, <2>3, <3>4, <1>5, <1>6, Basics, SMTT(30) DEF Idle, Ready
    <3> QED
      BY <3>2, <3>3, <3>4, <1>6, Basics, SMTT(30)
  <2>5. ASSUME NEW w \in Work PROVE (w < mi' \/ round' = 2) <=> w <= m
    BY <1>6, <1>7, AsioAssumption, SMTT(30) DEF Work
  <2>6. ASSUME NEW w \in Work PROVE Stage(w)'
    BY <2>4, <2>5, <1>14 DEF Stage, Before, Making, Queueing, Freeing, Freed, After
  <2> QED
    BY <2>6 DEF StageInv
<1> QED
  BY <1>13, <1>14, <1>15, <1>16, <1>17, <1>18 DEF AsioInv

------------------------------------------------------------------------------
(***************************************************************************)
(* The driving program and asio_free: steps of main alone, which change    *)
(* neither the queue nor what the threads have.                            *)
(***************************************************************************)
LEMMA MainMoves ==
  ASSUME AsioInv, NEW l \in MainAt, pc' = [pc EXCEPT ![Main] = l],
         pc[Main] \notin Holding \cup {"wait"}, l \notin Holding \cup {"wait"},
         UNCHANGED <<queue, mtx, rd, wr, bar, job, expired>>,
         res' \subseteq Resources, canc' \subseteq Threads, mi' \in 0 .. NT + NW + 7, round' \in 1 .. 2,
         sig' \in [Work -> {"zero", "quit"}], sem' \in [Work -> 0 .. 1],
         wst' \in [Work -> {"raw", "ready", "gone"}], wmtx' \in [Work -> Procs \cup {None}],
         \A w \in Work : \/ wmtx'[w] = wmtx[w]
                         \/ wmtx[w] \in {Main, None} /\ wmtx'[w] \in {Main, None},
         \A w \in Work : wmtx'[w] = Main <=> mi' = w /\ l \in MainHolding
  PROVE  /\ LabelInv' /\ MutexInv' /\ RingInv' /\ JobInv'
         /\ pc'[Main] = l /\ \A t \in Threads : pc'[t] = pc[t]
         /\ \A w : (With(w)' <=> With(w)) /\ (Quitting(w)' <=> Quitting(w))
<1>1. /\ n' = n /\ hd' = hd /\ tl' = tl /\ q' = q /\ mtx' = mtx /\ rd' = rd /\ wr' = wr /\ bar' = bar
      /\ job' = job /\ expired' = expired
  BY DEF queue
<1>2. pc \in [Procs -> Labels] /\ l \in Labels
  <2>1. l \in Labels
    BY DEF MainAt, Before, Making, Queueing, Freeing, Freed, After, Labels
  <2> QED
    BY <2>1 DEF AsioInv, LabelInv, TypeOK
<1>3. pc' \in [Procs -> Labels] /\ pc'[Main] = l /\ \A t \in Threads : pc'[t] = pc[t]
  BY <1>2, Basics
<1>4. LabelInv'
  <2>1. TypeOK'
    BY <1>1, <1>3, SMTT(30) DEF AsioInv, LabelInv, TypeOK
  <2> QED
    BY <1>3, <2>1 DEF AsioInv, LabelInv
<1>5. MutexInv'
  <2>1. \A r \in Procs : mtx' = r <=> pc'[r] \in Holding
    BY <1>1, <1>3, Basics DEF AsioInv, MutexInv
  <2>2. \A r \in rd' \cup wr' : pc'[r] = "wait"
    <3>1. rd \cup wr \subseteq Procs /\ Main \notin rd \cup wr
      BY Basics DEF AsioInv, LabelInv, TypeOK, MutexInv
    <3> QED
      BY <1>1, <1>3, <3>1, Basics DEF AsioInv, MutexInv
  <2> QED
    BY <2>1, <2>2 DEF MutexInv
<1>6. RingInv'
  BY <1>1 DEF AsioInv, RingInv, At
<1>7. Queued' = Queued
  BY <1>1 DEF Queued
<1>8. \A w : (With(w)' <=> With(w)) /\ (Quitting(w)' <=> Quitting(w))
  BY <1>1, <1>3, <1>7 DEF With, Quitting
<1>9. JobInv'
  <2>1. \A u \in Threads : job'[u] # NoWork <=> pc'[u] \in CallBack
    BY <1>1, <1>3 DEF AsioInv, JobInv
  <2>2. \A u, v \in Threads : job'[u] # NoWork /\ job'[u] = job'[v] => u = v
    BY <1>1, SMTT(30) DEF AsioInv, JobInv
  <2>3. \A u \in Threads : job'[u] \notin Queued'
    BY <1>1, <1>7 DEF AsioInv, JobInv
  <2>4. \A u \in Threads, w \in Work : wmtx'[w] = u <=> wmtx[w] = u
    BY Basics
  <2>5. \A u \in Threads, w \in Work : wmtx'[w] = u <=> job'[u] = w /\ pc'[u] \in WorkHolding
    <3>1. \A u \in Threads, w \in Work : wmtx[w] = u <=> job[u] = w /\ pc[u] \in WorkHolding
      BY DEF AsioInv, JobInv
    <3>2. ASSUME NEW u \in Threads, NEW w \in Work
          PROVE  wmtx'[w] = u <=> job'[u] = w /\ pc'[u] \in WorkHolding
      <4>1. wmtx'[w] = u <=> wmtx[w] = u
        BY <2>4
      <4>2. job'[u] = job[u] /\ pc'[u] = pc[u]
        BY <1>1, <1>3
      <4> QED
        BY <3>1, <4>1, <4>2
    <3> QED
      BY <3>2
  <2>6. \A w \in Work : wmtx'[w] = Main <=> mi' = w /\ pc'[Main] \in MainHolding
    BY <1>3
  <2> QED
    BY <2>1, <2>2, <2>3, <2>5, <2>6 DEF JobInv
<1> QED
  BY <1>3, <1>4, <1>5, <1>6, <1>8, <1>9

\* The stages depend on main's label and on what is said of each work.
LEMMA StageReads ==
  ASSUME NEW w, With(w)' <=> With(w), Quitting(w)' <=> Quitting(w),
         wst'[w] = wst[w], sem'[w] = sem[w], sig'[w] = sig[w]
  PROVE  /\ Raw(w)' <=> Raw(w)
         /\ Idle(w)' <=> Idle(w)
         /\ Going(w)' <=> Going(w)
         /\ Out(w)' <=> Out(w)
         /\ Told(w)' <=> Told(w)
         /\ Over(w)' <=> Over(w)
         /\ Gone(w)' <=> Gone(w)
  BY DEF Raw, Ready, Idle, Going, Out, Told, Over, Gone

\* GetWorkLock by main.
LEMMA MainLocksWork ==
  ASSUME AsioInv, mi \in Work, NEW from, NEW to, GetWorkLock(Main, mi, from, to),
         (from \in Making /\ to \in Making) \/ (from \in Freeing /\ to \in Freeing) \/ (from \in Freed /\ to \in Freed),
         to \in MainHolding
  PROVE  AsioInv'
<1>1. /\ pc[Main] = from /\ wmtx[mi] = None /\ wmtx' = [wmtx EXCEPT ![mi] = Main] /\ pc' = [pc EXCEPT ![Main] = to]
      /\ UNCHANGED <<queue, mtx, rd, wr, bar, res, job, canc, main, sig, sem, wst, expired>>
  BY DEF GetWorkLock, Goto
<1>2. /\ res' = res /\ canc' = canc /\ mi' = mi /\ round' = round /\ sig' = sig /\ sem' = sem /\ wst' = wst
      /\ UNCHANGED <<queue, mtx, rd, wr, bar, job, expired>> /\ n' = n /\ bar' = bar
  BY <1>1 DEF main, queue
<1>3. /\ res \subseteq Resources /\ canc \subseteq Threads /\ mi \in 0 .. NT + NW + 7 /\ round \in 1 .. 2
      /\ sig \in [Work -> {"zero", "quit"}] /\ sem \in [Work -> 0 .. 1]
      /\ wst \in [Work -> {"raw", "ready", "gone"}] /\ wmtx \in [Work -> Procs \cup {None}]
  BY DEF AsioInv, LabelInv, TypeOK
<1>4. /\ wmtx' \in [Work -> Procs \cup {None}] /\ wmtx'[mi] = Main /\ \A w \in Work \ {mi} : wmtx'[w] = wmtx[w]
  BY <1>1, <1>3, Basics
<1>5. /\ to \in MainAt /\ from \notin Holding \cup {"wait"} /\ to \notin Holding \cup {"wait"}
  BY DEF MainAt, Making, Freeing, Freed, Holding
<1>6. \A w \in Work : wmtx'[w] = Main <=> mi' = w /\ to \in MainHolding
  BY <1>2, <1>4 DEF AsioInv, JobInv
<1>7. \A w \in Work : wmtx'[w] = wmtx[w] \/ (wmtx[w] \in {Main, None} /\ wmtx'[w] \in {Main, None})
  BY <1>1, <1>4
<1>8. /\ LabelInv' /\ MutexInv' /\ RingInv' /\ JobInv'
      /\ pc'[Main] = to /\ \A t \in Threads : pc'[t] = pc[t]
      /\ \A w : (With(w)' <=> With(w)) /\ (Quitting(w)' <=> Quitting(w))
  BY <1>1, <1>2, <1>3, <1>4, <1>5, <1>6, <1>7, MainMoves, ZenonT(60)
<1>9. PhaseInv'
  BY <1>1, <1>2, <1>8 DEF AsioInv, PhaseInv, Before, Making, Queueing, Freeing, Freed, After
<1>10. StageInv'
  <2>1. ASSUME NEW w \in Work PROVE Stage(w)'
    <3>1. Stage(w)
      BY DEF AsioInv, StageInv
    <3>2. /\ Out(w)' <=> Out(w)
          /\ Idle(w)' <=> Idle(w)
          /\ Gone(w)' <=> Gone(w)
          /\ Over(w)' <=> Over(w)
      BY <1>2, <1>8, StageReads
    <3>3. CASE from \in Making /\ to \in Making
      BY <1>1, <1>2, <1>8, <3>1, <3>2, <3>3 DEF Stage, Before, Making, Queueing, Freeing, Freed, After
    <3>4. CASE from \in Freeing /\ to \in Freeing
      BY <1>1, <1>2, <1>8, <3>1, <3>2, <3>4 DEF Stage, Before, Making, Queueing, Freeing, Freed, After
    <3>5. CASE from \in Freed /\ to \in Freed
      BY <1>1, <1>2, <1>8, <3>1, <3>2, <3>5 DEF Stage, Before, Making, Queueing, Freeing, Freed, After
    <3> QED
      BY <3>3, <3>4, <3>5
  <2> QED
    BY <2>1 DEF StageInv
<1> QED
  BY <1>8, <1>9, <1>10 DEF AsioInv

\* The same for a step that leaves the mutexes of the works alone.
LEMMA MainPlain ==
  ASSUME AsioInv, NEW l \in MainAt, pc' = [pc EXCEPT ![Main] = l],
         pc[Main] \notin Holding \cup MainHolding \cup {"wait"}, l \notin Holding \cup MainHolding \cup {"wait"},
         UNCHANGED <<queue, mtx, rd, wr, bar, job, sig, wmtx, expired>>,
         res' \subseteq Resources, canc' \subseteq Threads, mi' \in 0 .. NT + NW + 7, round' \in 1 .. 2,
         sem' \in [Work -> 0 .. 1], wst' \in [Work -> {"raw", "ready", "gone"}]
  PROVE  /\ LabelInv' /\ MutexInv' /\ RingInv' /\ JobInv'
         /\ pc'[Main] = l /\ \A t \in Threads : pc'[t] = pc[t]
         /\ \A w : (With(w)' <=> With(w)) /\ (Quitting(w)' <=> Quitting(w))
<1>1. wmtx' = wmtx /\ sig' = sig /\ UNCHANGED <<queue, mtx, rd, wr, bar, job, expired>>
  OBVIOUS
<1>2. /\ sig \in [Work -> {"zero", "quit"}] /\ wmtx \in [Work -> Procs \cup {None}]
  BY DEF AsioInv, LabelInv, TypeOK
<1>3. \A w \in Work : wmtx'[w] = Main <=> mi' = w /\ l \in MainHolding
  BY <1>1 DEF AsioInv, JobInv
<1>4. pc[Main] \notin Holding \cup {"wait"} /\ l \notin Holding \cup {"wait"}
  OBVIOUS
<1> QED
  BY <1>1, <1>2, <1>3, <1>4, MainMoves

\* The same for a step that gives the mutex of main's work back.
LEMMA MainLetsWork ==
  ASSUME AsioInv, NEW l \in MainAt, pc' = [pc EXCEPT ![Main] = l],
         pc[Main] \in MainHolding, mi \in Work, l \notin Holding \cup MainHolding \cup {"wait"},
         wmtx' = [wmtx EXCEPT ![mi] = None],
         UNCHANGED <<queue, mtx, rd, wr, bar, res, job, canc, expired>>,
         mi' \in 0 .. NT + NW + 7, round' \in 1 .. 2, sig' \in [Work -> {"zero", "quit"}],
         sem' \in [Work -> 0 .. 1], wst' \in [Work -> {"raw", "ready", "gone"}]
  PROVE  /\ LabelInv' /\ MutexInv' /\ RingInv' /\ JobInv'
         /\ pc'[Main] = l /\ \A t \in Threads : pc'[t] = pc[t]
         /\ \A w : (With(w)' <=> With(w)) /\ (Quitting(w)' <=> Quitting(w))
<1>1. res' = res /\ canc' = canc /\ UNCHANGED <<queue, mtx, rd, wr, bar, job, expired>>
  OBVIOUS
<1>2. /\ res \subseteq Resources /\ canc \subseteq Threads /\ wmtx \in [Work -> Procs \cup {None}]
  BY DEF AsioInv, LabelInv, TypeOK
<1>3. \A w \in Work : wmtx[w] = Main <=> mi = w
  BY DEF AsioInv, JobInv
<1>4. /\ wmtx' \in [Work -> Procs \cup {None}] /\ wmtx'[mi] = None /\ \A w \in Work \ {mi} : wmtx'[w] = wmtx[w]
  BY <1>2
<1>5. \A w \in Work : wmtx'[w] # Main /\ wmtx'[w] \in {None, wmtx[w]} /\ (wmtx'[w] # wmtx[w] => wmtx[w] = Main /\ wmtx'[w] = None)
  BY <1>3, <1>4, Basics
<1>6. \A w \in Work : wmtx'[w] = wmtx[w] \/ (wmtx[w] \in {Main, None} /\ wmtx'[w] \in {Main, None})
  BY <1>5
<1>7. \A w \in Work : wmtx'[w] = Main <=> mi' = w /\ l \in MainHolding
  BY <1>5
<1>8. pc[Main] \notin Holding \cup {"wait"} /\ l \notin Holding \cup {"wait"}
  BY DEF MainHolding, Holding
<1> QED
  BY <1>1, <1>2, <1>4, <1>6, <1>7, <1>8, MainMoves

\* asio_init: no thread is past the barrier, and main's data is not initialised.
LEMMA BeforeStep ==
  ASSUME AsioInv, pc[Main] \in Before, pc' \in [Procs -> Labels], pc'[Main] \in Before,
         \A t \in Threads : pc'[t] \in Outside,
         UNCHANGED <<queue, mtx, rd, wr, job, canc, round, works, expired>>,
         bar' \subseteq Procs, res' \subseteq Resources, mi' \in 0 .. NT + NW + 7
  PROVE  /\ LabelInv' /\ MutexInv' /\ RingInv' /\ JobInv' /\ StageInv'
         /\ n' = 0 /\ round' = 1 /\ canc' = {} /\ \A t \in Threads : pc[t] \in Outside
<1>1. /\ n' = n /\ hd' = hd /\ tl' = tl /\ q' = q /\ mtx' = mtx /\ rd' = rd /\ wr' = wr
      /\ job' = job /\ canc' = canc /\ round' = round /\ sem' = sem /\ wst' = wst
      /\ sig' = sig /\ wmtx' = wmtx /\ expired' = expired
  BY DEF works, queue
<1>2. /\ n = 0 /\ round = 1 /\ canc = {} /\ \A t \in Threads : pc[t] \in Outside
  BY DEF AsioInv, PhaseInv, Before, After
<1>3. \A w \in Work : Raw(w)
  BY DEF AsioInv, StageInv, Stage, Before
<1>4. LabelInv'
  <2>1. TypeOK'
    BY <1>1 DEF AsioInv, LabelInv, TypeOK
  <2> QED
    BY <2>1 DEF LabelInv, MainAt, ThreadAt
<1>5. \A p \in Procs : pc[p] \notin Holding \cup {"wait"} /\ pc'[p] \notin Holding \cup {"wait"}
  BY <1>2, Basics DEF Before, Outside, Holding
<1>6. MutexInv'
  <2>1. mtx \notin Procs /\ rd = {} /\ wr = {}
    BY <1>5, Basics, SMTT(30) DEF AsioInv, MutexInv, LabelInv, TypeOK
  <2> QED
    BY <1>1, <1>5, <2>1 DEF MutexInv
<1>7. RingInv'
  BY <1>1 DEF AsioInv, RingInv, At
<1>8. \A t \in Threads : job[t] = NoWork
  BY <1>2 DEF AsioInv, JobInv, Outside, CallBack
<1>9. Queued' = Queued
  BY <1>1 DEF Queued
<1>10. JobInv'
  <2>1. \A u \in Threads : job'[u] # NoWork <=> pc'[u] \in CallBack
    BY <1>1, <1>8 DEF CallBack, Outside
  <2>2. \A u, v \in Threads : job'[u] # NoWork /\ job'[u] = job'[v] => u = v
    BY <1>1, <1>8
  <2>3. \A u \in Threads : job'[u] \notin Queued'
    BY <1>1, <1>9 DEF AsioInv, JobInv
  <2>4. \A u \in Threads, w \in Work : wmtx'[w] = u <=> job'[u] = w /\ pc'[u] \in WorkHolding
    BY <1>1, <1>8, Basics, SMTT(30) DEF AsioInv, JobInv, WorkHolding, Outside
  <2>5. \A w \in Work : wmtx'[w] = Main <=> mi' = w /\ pc'[Main] \in MainHolding
    BY <1>1 DEF AsioInv, JobInv, MainHolding, Before
  <2> QED
    BY <2>1, <2>2, <2>3, <2>4, <2>5 DEF JobInv
<1>11. StageInv'
  <2>1. ASSUME NEW w \in Work PROVE Stage(w)'
    <3>1. Raw(w)'
      BY <1>1, <1>3, <1>9, ZenonT(40) DEF Raw, With
    <3> QED
      BY <3>1 DEF Stage, Before, Making, Queueing, Freeing, Freed, After
  <2> QED
    BY <2>1 DEF StageInv
<1> QED
  BY <1>1, <1>2, <1>4, <1>6, <1>7, <1>10, <1>11

LEMMA InitAcquireInv ==
  ASSUME AsioInv, InitAcquire
  PROVE  AsioInv'
<1>0. PICK l : l = IF mi + 1 = 6 THEN "create" ELSE "init"
  OBVIOUS
<1>1. /\ pc[Main] = "init" /\ res' = res \cup {mi + 1} /\ mi' = mi + 1 /\ pc' = [pc EXCEPT ![Main] = l]
      /\ UNCHANGED <<queue, mtx, rd, wr, job, canc, round, works, expired>> /\ bar' = bar
  BY <1>0 DEF InitAcquire, Goto
<1>2. mi \in 0 .. 5 /\ res = 1 .. mi
  BY <1>1 DEF AsioInv, PhaseInv
<1>3. /\ bar \subseteq Procs /\ pc \in [Procs -> Labels]
  BY DEF AsioInv, LabelInv, TypeOK
<1>4. /\ res' = 1 .. mi' /\ res' \subseteq Resources /\ mi' \in 1 .. 6 /\ mi' \in 0 .. NT + NW + 7
      /\ l \in {"create", "init"} /\ (l = "init" => mi' \in 0 .. 5) /\ (l = "create" => mi' = 6)
  BY <1>0, <1>1, <1>2, AsioAssumption, SMTT(30) DEF Resources
<1>5. /\ pc' \in [Procs -> Labels] /\ pc'[Main] = l /\ \A t \in Threads : pc'[t] = pc[t]
  BY <1>1, <1>3, <1>4, Basics DEF Labels
<1>6. pc[Main] \in Before /\ pc'[Main] \in Before /\ \A t \in Threads : pc'[t] \in Outside
  BY <1>1, <1>4, <1>5 DEF AsioInv, PhaseInv, Before
<1>7. /\ LabelInv' /\ MutexInv' /\ RingInv' /\ JobInv' /\ StageInv'
      /\ n' = 0 /\ round' = 1 /\ canc' = {}
  BY <1>1, <1>3, <1>4, <1>5, <1>6, BeforeStep
<1>8. PhaseInv'
  <2>1. 6 \in 6 .. 5 + NT
    BY AsioAssumption, SMTT(30)
  <2> QED
    BY <1>1, <1>4, <1>5, <1>6, <1>7, <2>1 DEF AsioInv, PhaseInv, Before, Queueing, After
<1> QED
  BY <1>7, <1>8 DEF AsioInv

\* CLEANUP without a thread to kill, and with one.
LEMMA InitFailInv ==
  ASSUME AsioInv, InitFail
  PROVE  AsioInv'
<1>1. /\ pc[Main] \in {"init", "create"} /\ res' = res \ (1 .. mi)
      /\ IF mi > 7 THEN pc' = [p \in Procs |-> "killed"] ELSE pc' = [pc EXCEPT ![Main] = "failed"]
      /\ UNCHANGED <<queue, mtx, rd, wr, job, canc, round, works, expired>> /\ bar' = bar /\ mi' = mi
  BY DEF InitFail, Goto, main
<1>2. res' = {}
  <2>1. CASE pc[Main] = "init"
    BY <1>1, <2>1 DEF AsioInv, PhaseInv
  <2>2. CASE pc[Main] = "create"
    <3>1. mi \in 6 .. 5 + NT /\ res = 1 .. 6
      BY <2>2 DEF AsioInv, PhaseInv
    <3>2. 1 .. 6 \subseteq 1 .. mi
      BY <3>1, AsioAssumption, SMTT(30)
    <3> QED
      BY <1>1, <3>1, <3>2
  <2> QED
    BY <1>1, <2>1, <2>2
<1>3. /\ mi \in 0 .. NT + NW + 7 /\ bar \subseteq Procs /\ pc \in [Procs -> Labels]
  BY DEF AsioInv, LabelInv, TypeOK
<1>4. /\ pc[Main] \in Before /\ Main \notin bar /\ \A t \in Threads : pc[t] \in Outside
  BY <1>1 DEF AsioInv, PhaseInv, Before
<1>5. /\ pc' \in [Procs -> Labels] /\ pc'[Main] \in {"failed", "killed"}
      /\ \A t \in Threads : pc'[t] \in Outside /\ (pc'[Main] = "killed" => pc'[t] = "killed")
  <2>1. CASE mi > 7
    BY <1>1, <2>1, Basics DEF Labels, Outside
  <2>2. CASE ~ (mi > 7)
    BY <1>1, <1>3, <1>4, <2>2, Basics, SMTT(30) DEF Labels
  <2> QED
    BY <2>1, <2>2
<1>6. /\ LabelInv' /\ MutexInv' /\ RingInv' /\ JobInv' /\ StageInv'
      /\ n' = 0 /\ round' = 1 /\ canc' = {}
  <2>1. pc'[Main] \in Before /\ res' \subseteq Resources
    BY <1>2, <1>5 DEF Before
  <2> QED
    BY <1>1, <1>3, <1>4, <1>5, <2>1, BeforeStep
<1>7. PhaseInv'
  BY <1>1, <1>2, <1>4, <1>5, <1>6 DEF PhaseInv, Before, Queueing, After
<1> QED
  BY <1>6, <1>7 DEF AsioInv

LEMMA InitCreateInv ==
  ASSUME AsioInv, InitCreate
  PROVE  AsioInv'
<1>0. PICK k, l : k = mi - 5 /\ l = IF mi + 1 = 6 + NT THEN "barrier" ELSE "create"
  OBVIOUS
<1>1. /\ pc[Main] = "create" /\ mi' = mi + 1 /\ res' = res /\ bar' = bar
      /\ pc' = [pc EXCEPT ![k] = "barrier", ![Main] = IF mi + 1 = 6 + NT THEN "barrier" ELSE @]
      /\ UNCHANGED <<queue, mtx, rd, wr, job, canc, round, works, expired>>
  BY <1>0 DEF InitCreate
<1>2. /\ mi \in 6 .. 5 + NT /\ res = 1 .. 6 /\ Main \notin bar /\ \A t \in Threads : pc[t] \in Outside
  BY <1>1 DEF AsioInv, PhaseInv, Before
<1>3. /\ bar \subseteq Procs /\ pc \in [Procs -> Labels]
  BY DEF AsioInv, LabelInv, TypeOK
<1>4. /\ k \in Threads /\ mi' \in 0 .. NT + NW + 7 /\ res' \subseteq Resources
      /\ l \in {"barrier", "create"} /\ (l = "create" => mi' \in 6 .. 5 + NT)
  BY <1>0, <1>1, <1>2, AsioAssumption, SMTT(30) DEF Threads, Resources
<1>5. /\ pc' \in [Procs -> Labels] /\ pc'[Main] = l
      /\ \A t \in Threads : pc'[t] = IF t = k THEN "barrier" ELSE pc[t]
  BY <1>0, <1>1, <1>3, <1>4, Basics DEF Labels
<1>6. pc[Main] \in Before /\ pc'[Main] \in Before /\ \A t \in Threads : pc'[t] \in Outside
  BY <1>1, <1>2, <1>4, <1>5, ZenonT(40) DEF Before, Outside
<1>7. /\ LabelInv' /\ MutexInv' /\ RingInv' /\ JobInv' /\ StageInv'
      /\ n' = 0 /\ round' = 1 /\ canc' = {}
  BY <1>1, <1>3, <1>4, <1>5, <1>6, BeforeStep
<1>8. PhaseInv'
  BY <1>1, <1>2, <1>4, <1>5, <1>6, <1>7 DEF PhaseInv, Before, Queueing, After
<1> QED
  BY <1>7, <1>8 DEF AsioInv

\* The last at the barrier sets everyone off.
LEMMA ArriveBarrierInv ==
  ASSUME AsioInv, NEW p \in Procs, ArriveBarrier(p)
  PROVE  AsioInv'
<1>1. /\ pc[p] = "barrier" /\ bar' = bar \cup {p}
      /\ pc' = (IF bar' = Procs THEN [r \in Procs |-> IF r = Main THEN "initw" ELSE "deq"] ELSE pc)
      /\ mi' = (IF bar' = Procs THEN 1 ELSE mi)
      /\ UNCHANGED <<queue, mtx, rd, wr, job, canc, round, works, expired>> /\ res' = res
  BY DEF ArriveBarrier
<1>2. /\ bar \subseteq Procs /\ pc \in [Procs -> Labels] /\ mi \in 0 .. NT + NW + 7 /\ res \subseteq Resources
  BY DEF AsioInv, LabelInv, TypeOK
<1>3. pc[Main] \in Before /\ \A t \in Threads : pc[t] \in Outside
  BY <1>1, Basics DEF AsioInv, PhaseInv, Before, Outside
<1>4. bar' \subseteq Procs
  BY <1>1, <1>2
<1>5. CASE bar' # Procs
  <2>1. pc' = pc /\ mi' = mi
    BY <1>1, <1>5
  <2>2. /\ LabelInv' /\ MutexInv' /\ RingInv' /\ JobInv' /\ StageInv'
        /\ n' = 0 /\ round' = 1 /\ canc' = {}
    BY <1>1, <1>2, <1>3, <1>4, <2>1, BeforeStep
  <2>3. pc[Main] \in {"init", "create", "failed"} => Main \notin bar'
    BY <1>1 DEF AsioInv, PhaseInv
  <2>4. PhaseInv'
    BY <1>1, <1>3, <2>1, <2>2, <2>3 DEF AsioInv, PhaseInv, Before, Queueing, After
  <2> QED
    BY <2>2, <2>4 DEF AsioInv
<1>6. CASE bar' = Procs
  <2>1. /\ pc' \in [Procs -> Labels] /\ pc'[Main] = "initw" /\ \A t \in Threads : pc'[t] = "deq"
        /\ mi' = 1
    BY <1>1, <1>6, Basics DEF Labels
  <2>2. /\ n' = n /\ hd' = hd /\ tl' = tl /\ q' = q /\ mtx' = mtx /\ rd' = rd /\ wr' = wr
        /\ job' = job /\ canc' = canc /\ round' = round /\ sem' = sem /\ wst' = wst
        /\ sig' = sig /\ wmtx' = wmtx /\ expired' = expired
    BY <1>1 DEF works, queue
  <2>3. /\ n = 0 /\ round = 1 /\ canc = {} /\ \A w \in Work : Raw(w)
    BY <1>3 DEF AsioInv, PhaseInv, StageInv, Stage, Before, After
  <2>4. LabelInv'
    <3>1. mi' \in 0 .. NT + NW + 7
      BY <2>1, AsioAssumption, SMTT(30)
    <3>2. TypeOK'
      BY <1>1, <1>2, <1>4, <2>1, <2>2, <3>1 DEF AsioInv, LabelInv, TypeOK
    <3> QED
      BY <2>1, <3>2 DEF LabelInv, MainAt, ThreadAt, Waiting
  <2>5. \A r \in Procs : pc[r] \notin Holding \cup {"wait"} /\ pc'[r] \notin Holding \cup {"wait"}
    BY <1>3, <2>1, Basics DEF Before, Outside, Holding
  <2>6. MutexInv'
    <3>1. mtx \notin Procs /\ rd = {} /\ wr = {}
      BY <2>5, Basics, SMTT(30) DEF AsioInv, MutexInv, LabelInv, TypeOK
    <3> QED
      BY <2>2, <2>5, <3>1 DEF MutexInv
  <2>7. RingInv'
    BY <2>2 DEF AsioInv, RingInv, At
  <2>8. \A t \in Threads : job[t] = NoWork
    BY <1>3 DEF AsioInv, JobInv, Outside, CallBack
  <2>9. Queued' = Queued
    BY <2>2 DEF Queued
  <2>10. JobInv'
    <3>1. \A u \in Threads : job'[u] # NoWork <=> pc'[u] \in CallBack
      BY <2>1, <2>2, <2>8 DEF CallBack
    <3>2. \A u, v \in Threads : job'[u] # NoWork /\ job'[u] = job'[v] => u = v
      BY <2>2 DEF AsioInv, JobInv
    <3>3. \A u \in Threads : job'[u] \notin Queued'
      BY <2>2, <2>9 DEF AsioInv, JobInv
    <3>4. \A u \in Threads, w \in Work : wmtx'[w] = u <=> job'[u] = w /\ pc'[u] \in WorkHolding
      BY <2>1, <2>2, <2>8, Basics, SMTT(30) DEF AsioInv, JobInv, WorkHolding
    <3>5. \A w \in Work : wmtx'[w] = Main <=> mi' = w /\ pc'[Main] \in MainHolding
      BY <1>3, <2>1, <2>2 DEF AsioInv, JobInv, MainHolding, Before
    <3> QED
      BY <3>1, <3>2, <3>3, <3>4, <3>5 DEF JobInv
  <2>11. PhaseInv'
    <3>1. 1 \in Work
      BY AsioAssumption, SMTT(30) DEF Work
    <3> QED
      BY <2>1, <2>2, <2>3, <3>1 DEF PhaseInv, Before, Queueing, After, Outside
  <2>12. StageInv'
    <3>1. ASSUME NEW w \in Work PROVE Stage(w)'
      <4>1. Raw(w)'
        BY <2>2, <2>3, <2>9 DEF Raw, With
      <4>2. ~ (w < 1)
        BY AsioAssumption, SMTT(30) DEF Work
      <4> QED
        BY <2>1, <4>1, <4>2 DEF Stage, Before, Making, Queueing, Freeing, Freed, After
    <3> QED
      BY <3>1 DEF StageInv
  <2> QED
    BY <2>4, <2>6, <2>7, <2>10, <2>11, <2>12 DEF AsioInv
<1> QED
  BY <1>5, <1>6

LEMMA InitWorkInv ==
  ASSUME AsioInv, InitWork
  PROVE  AsioInv'
<1>0. PICK m, l : m = mi /\ l = IF mi = NW THEN "make" ELSE "initw"
  OBVIOUS
<1>1. /\ pc[Main] = "initw" /\ wst' = [wst EXCEPT ![m] = "ready"] /\ sem' = [sem EXCEPT ![m] = 1]
      /\ mi' = (IF m = NW THEN 1 ELSE m + 1) /\ pc' = [pc EXCEPT ![Main] = l]
      /\ UNCHANGED <<queue, mtx, rd, wr, bar, job, sig, wmtx, expired>>
      /\ n' = n /\ bar' = bar /\ res' = res /\ canc' = canc /\ round' = round /\ sig' = sig
  BY <1>0 DEF InitWork, Goto, queue
<1>2. m \in Work /\ canc = {} /\ \A t \in Threads : pc[t] \notin Outside
  BY <1>0, <1>1 DEF AsioInv, PhaseInv, Before, After
<1>3. /\ canc \subseteq Threads /\ round \in 1 .. 2 /\ sem \in [Work -> 0 .. 1] /\ res \subseteq Resources
      /\ wst \in [Work -> {"raw", "ready", "gone"}]
  BY DEF AsioInv, LabelInv, TypeOK
<1>4. /\ mi' \in Work /\ mi' \in 0 .. NT + NW + 7 /\ l \in {"make", "initw"}
  BY <1>0, <1>1, <1>2, AsioAssumption, SMTT(30) DEF Work
<1>5. /\ l \in MainAt /\ l \notin Holding \cup MainHolding \cup {"wait"}
      /\ pc[Main] \notin Holding \cup MainHolding \cup {"wait"}
  BY <1>1, <1>4 DEF MainAt, Making, Holding, MainHolding
<1>6. /\ sem' \in [Work -> 0 .. 1] /\ wst' \in [Work -> {"raw", "ready", "gone"}]
      /\ sem'[m] = 1 /\ wst'[m] = "ready" /\ \A w \in Work \ {m} : sem'[w] = sem[w] /\ wst'[w] = wst[w]
  BY <1>1, <1>2, <1>3, SMTT(30)
<1>7. /\ LabelInv' /\ MutexInv' /\ RingInv' /\ JobInv'
      /\ pc'[Main] = l /\ \A t \in Threads : pc'[t] = pc[t]
      /\ \A w : (With(w)' <=> With(w)) /\ (Quitting(w)' <=> Quitting(w))
  BY <1>1, <1>3, <1>4, <1>5, <1>6, MainPlain
<1>10. round' = 1
  BY <1>1 DEF AsioInv, PhaseInv
<1>8. PhaseInv'
  BY <1>1, <1>2, <1>4, <1>7, <1>10 DEF PhaseInv, Before, Queueing, After
<1>9. StageInv'
  <2>2. ASSUME NEW w \in Work PROVE IF w <= m THEN Idle(w)' ELSE Raw(w)'
    <3>1. IF w < m THEN Idle(w) ELSE Raw(w)
      BY <1>0, <1>1 DEF AsioInv, StageInv, Stage
    <3>2. CASE w = m
      <4>1. Raw(w)
        BY <3>1, <3>2, Basics, SMTT(30)
      <4>2. Idle(w)'
        BY <4>1, <3>2, <1>1, <1>6, <1>7 DEF Raw, Idle, Ready
      <4> QED
        BY <4>2, <3>2, <1>2, Basics, SMTT(30)
    <3>3. CASE w # m
      <4>1. (Idle(w)' <=> Idle(w)) /\ (Raw(w)' <=> Raw(w))
        BY <3>3, <1>1, <1>6, <1>7, StageReads
      <4> QED
        BY <4>1, <3>1, <3>3, <1>2, Basics, SMTT(30)
    <3> QED
      BY <3>2, <3>3
  <2>3. ASSUME NEW w \in Work PROVE Stage(w)'
    <3>1. l = "make" => mi' = 1 /\ w <= m /\ ~ (w < mi')
      BY <1>0, <1>1, <1>2, AsioAssumption, SMTT(30) DEF Work
    <3>2. l = "initw" => (w < mi' <=> w <= m)
      BY <1>0, <1>1, <1>2, AsioAssumption, SMTT(30) DEF Work
    <3> QED
      <4>1. CASE l = "make"
        <5>1. Idle(w)' /\ ~ (w < mi')
          BY <4>1, <2>2, <3>1
        <5>2. round' # 2
          BY <1>10, SMTT(30)
        <5> QED
          BY <4>1, <5>1, <5>2, <1>7 DEF Stage, Before, Making, Queueing, Freeing, Freed, After
      <4>2. CASE l = "initw"
        <5>1. IF w < mi' THEN Idle(w)' ELSE Raw(w)'
          BY <4>2, <2>2, <3>2
        <5> QED
          BY <4>2, <5>1, <1>7 DEF Stage, Before, Making, Queueing, Freeing, Freed, After
      <4> QED
        BY <4>1, <4>2, <1>4
  <2> QED
    BY <2>3 DEF StageInv
<1> QED
  BY <1>7, <1>8, <1>9 DEF AsioInv

\* make_work: in the first loop the semaphore is free, in the second it is not.
LEMMA MakeTryInv ==
  ASSUME AsioInv, MakeTry
  PROVE  AsioInv'
<1>0. PICK m : m = mi
  OBVIOUS
<1>1. /\ pc[Main] = "try" /\ wmtx' = [wmtx EXCEPT ![mi] = None]
      /\ IF sem[m] = 1
         THEN sem' = [sem EXCEPT ![m] = 0] /\ pc' = [pc EXCEPT ![Main] = "enq"] /\ mi' = m /\ round' = round
         ELSE NextMake /\ pc' = [pc EXCEPT ![Main] = AfterMake] /\ sem' = sem
      /\ UNCHANGED <<queue, mtx, rd, wr, bar, res, job, canc, expired>>
      /\ n' = n /\ bar' = bar /\ res' = res /\ canc' = canc /\ sig' = sig /\ wst' = wst
  BY <1>0 DEF MakeTry, Goto, main, queue
<1>2. m \in Work /\ canc = {} /\ \A t \in Threads : pc[t] \notin Outside
  BY <1>0, <1>1 DEF AsioInv, PhaseInv, Before, Queueing, After
<1>3. /\ round \in 1 .. 2 /\ sem \in [Work -> 0 .. 1] /\ sig \in [Work -> {"zero", "quit"}]
      /\ wst \in [Work -> {"raw", "ready", "gone"}] /\ mi \in 0 .. NT + NW + 7
  BY DEF AsioInv, LabelInv, TypeOK
<1>4. \A w \in Work : IF w < m \/ round = 2 THEN Out(w) ELSE Idle(w)
  BY <1>0, <1>1 DEF AsioInv, StageInv, Stage, Making
<1>5. pc[Main] \in MainHolding /\ mi \in Work
  BY <1>0, <1>1, <1>2 DEF MainHolding
<1>6. CASE sem[m] = 1
  <2>1. sem' = [sem EXCEPT ![m] = 0] /\ pc' = [pc EXCEPT ![Main] = "enq"] /\ mi' = m /\ round' = round
    BY <1>1, <1>6
  <2>2. round = 1
    BY <1>2, <1>3, <1>4, <1>6, SMTT(30) DEF Out, Ready
  <2>3. sem' \in [Work -> 0 .. 1] /\ sem'[m] = 0 /\ \A w \in Work \ {m} : sem'[w] = sem[w]
    BY <1>2, <1>3, <2>1, SMTT(30)
  <2>4. /\ LabelInv' /\ MutexInv' /\ RingInv' /\ JobInv'
        /\ pc'[Main] = "enq" /\ \A t \in Threads : pc'[t] = pc[t]
        /\ \A w : (With(w)' <=> With(w)) /\ (Quitting(w)' <=> Quitting(w))
    <3> DEFINE l == "enq"
    <3>1. /\ l \in MainAt /\ l \notin Holding \cup MainHolding \cup {"wait"} /\ pc' = [pc EXCEPT ![Main] = l]
      BY <2>1 DEF MainAt, Queueing, Holding, MainHolding
    <3>2. /\ LabelInv' /\ MutexInv' /\ RingInv' /\ JobInv'
          /\ pc'[Main] = l /\ \A t \in Threads : pc'[t] = pc[t]
          /\ \A w : (With(w)' <=> With(w)) /\ (Quitting(w)' <=> Quitting(w))
      <4> HIDE DEF l
      <4> QED
        BY <1>0, <1>1, <1>3, <1>5, <2>1, <2>3, <3>1, MainLetsWork
    <3> QED
      BY <3>2
  <2>5. PhaseInv'
    BY <1>1, <1>2, <2>1, <2>2, <2>4 DEF PhaseInv, Before, Queueing, After
  <2>6. StageInv'
    <3>1. ASSUME NEW w \in Work PROVE Stage(w)'
      <4>1. CASE w = m
        <5>1. ~ (w < m)
          BY <4>1, <1>2, Basics, SMTT(30)
        <5>2. Idle(w)
          BY <1>4, <2>2, <5>1, SMTT(30)
        <5>3. Going(w)'
          BY <1>1, <2>3, <2>4, <4>1, <5>2 DEF Idle, Going, Ready
        <5> QED
          BY <2>1, <2>4, <4>1, <5>1, <5>3 DEF Stage, Before, Making, Queueing, Freeing, Freed, After
      <4>2. CASE w # m
        <5>1. (Out(w)' <=> Out(w)) /\ (Idle(w)' <=> Idle(w))
          BY <1>1, <2>3, <2>4, <4>2, StageReads
        <5> QED
          BY <1>4, <2>1, <2>2, <2>4, <4>2, <5>1, SMTT(30) DEF Stage, Before, Making, Queueing, Freeing, Freed, After
      <4> QED
        BY <4>1, <4>2
    <3> QED
      BY <3>1 DEF StageInv
  <2> QED
    BY <2>4, <2>5, <2>6 DEF AsioInv
<1>7. CASE sem[m] # 1
  <2>0. PICK l : l = AfterMake
    OBVIOUS
  <2>1. /\ sem' = sem /\ pc' = [pc EXCEPT ![Main] = l] /\ NextMake
    BY <1>1, <1>7, <2>0
  <2>2. round = 2
    <3>1. ~ Idle(m) /\ ~ (m < m)
      BY <1>2, <1>7, Basics, SMTT(30) DEF Idle, Ready
    <3> QED
      BY <1>2, <1>4, <3>1
  <2>3. /\ l = (IF m = NW THEN "free" ELSE "make") /\ mi' = (IF m = NW THEN 1 ELSE m + 1) /\ round' = 2
    BY <1>0, <2>0, <2>1, <2>2 DEF AfterMake, NextMake
  <2>4. mi' \in Work /\ mi' \in 0 .. NT + NW + 7 /\ l \in {"free", "make"} /\ round' \in 1 .. 2
        /\ (l = "free" => mi' = 1)
    BY <1>2, <2>3, AsioAssumption, SMTT(30) DEF Work
  <2>5. l \in MainAt /\ l \notin Holding \cup MainHolding \cup {"wait"}
    BY <2>4 DEF MainAt, Making, Freeing, Holding, MainHolding
  <2>6. /\ LabelInv' /\ MutexInv' /\ RingInv' /\ JobInv'
        /\ pc'[Main] = l /\ \A t \in Threads : pc'[t] = pc[t]
        /\ \A w : (With(w)' <=> With(w)) /\ (Quitting(w)' <=> Quitting(w))
    BY <1>1, <1>3, <1>5, <2>1, <2>4, <2>5, MainLetsWork
  <2>7. PhaseInv'
    BY <1>1, <1>2, <2>4, <2>6 DEF PhaseInv, Before, Queueing, After
  <2>8. StageInv'
    <3>1. ASSUME NEW w \in Work PROVE Stage(w)'
      <4>1. Out(w)'
        BY <1>1, <1>4, <2>1, <2>2, <2>6, StageReads
      <4>2. ~ (w < 1)
        BY AsioAssumption, SMTT(30) DEF Work
      <4> QED
        BY <2>3, <2>4, <2>6, <4>1, <4>2 DEF Stage, Before, Making, Queueing, Freeing, Freed, After
    <3> QED
      BY <3>1 DEF StageInv
  <2> QED
    BY <2>6, <2>7, <2>8 DEF AsioInv
<1> QED
  BY <1>6, <1>7

\* free_work: every work is with the threads, so main signals it.
LEMMA FreeTryInv ==
  ASSUME AsioInv, FreeTry
  PROVE  AsioInv'
<1>0. PICK m, l : m = mi /\ l = IF sem[mi] = 1 THEN "freeLock" ELSE "sigLock"
  OBVIOUS
<1>1. /\ pc[Main] = "free" /\ sem' = [sem EXCEPT ![m] = 0] /\ pc' = [pc EXCEPT ![Main] = l]
      /\ UNCHANGED <<queue, mtx, rd, wr, bar, job, sig, wmtx, expired>>
      /\ n' = n /\ bar' = bar /\ res' = res /\ canc' = canc /\ mi' = mi /\ round' = round /\ sig' = sig /\ wst' = wst
  BY <1>0 DEF FreeTry, Goto, queue, main
<1>2. m \in Work /\ canc = {} /\ \A t \in Threads : pc[t] \notin Outside
  BY <1>0, <1>1 DEF AsioInv, PhaseInv, Before, After
<1>3. /\ canc \subseteq Threads /\ round \in 1 .. 2 /\ sem \in [Work -> 0 .. 1] /\ res \subseteq Resources
      /\ wst \in [Work -> {"raw", "ready", "gone"}] /\ mi \in 0 .. NT + NW + 7
  BY DEF AsioInv, LabelInv, TypeOK
<1>4. \A w \in Work : IF w < m THEN Gone(w) ELSE Out(w)
  BY <1>0, <1>1 DEF AsioInv, StageInv, Stage, Freeing
<1>5. sem[m] = 0
  <2>1. ~ (m < m)
    BY <1>2, Basics, SMTT(30)
  <2> QED
    BY <1>2, <1>4, <2>1 DEF Out, Ready
<1>6. l = "sigLock" /\ sem' = sem
  <2>1. l = "sigLock"
    BY <1>0, <1>5, SMTT(30)
  <2> QED
    BY <1>1, <1>2, <1>3, <1>5, <2>1
<1>7. /\ l \in MainAt /\ l \notin Holding \cup MainHolding \cup {"wait"}
      /\ pc[Main] \notin Holding \cup MainHolding \cup {"wait"}
  BY <1>1, <1>6 DEF MainAt, Freeing, Holding, MainHolding
<1>8. /\ LabelInv' /\ MutexInv' /\ RingInv' /\ JobInv'
      /\ pc'[Main] = l /\ \A t \in Threads : pc'[t] = pc[t]
      /\ \A w : (With(w)' <=> With(w)) /\ (Quitting(w)' <=> Quitting(w))
  BY <1>1, <1>3, <1>6, <1>7, MainPlain
<1>9. PhaseInv'
  BY <1>0, <1>1, <1>2, <1>6, <1>8 DEF PhaseInv, Before, Queueing, After
<1>10. StageInv'
  <2>1. ASSUME NEW w \in Work PROVE Stage(w)'
    <3>1. IF w < m THEN Gone(w)' ELSE Out(w)'
      BY <1>1, <1>4, <1>6, <1>8, StageReads
    <3> QED
      BY <1>0, <1>1, <1>6, <1>8, <3>1 DEF Stage, Before, Making, Queueing, Freeing, Freed, After
  <2> QED
    BY <2>1 DEF StageInv
<1> QED
  BY <1>8, <1>9, <1>10 DEF AsioInv

LEMMA SigSetInv ==
  ASSUME AsioInv, SigSet
  PROVE  AsioInv'
<1>0. PICK m, l : m = mi /\ l = "semWait"
  OBVIOUS
<1>1. /\ pc[Main] = "sigSet" /\ sig' = [sig EXCEPT ![m] = "quit"] /\ wmtx' = [wmtx EXCEPT ![mi] = None]
      /\ pc' = [pc EXCEPT ![Main] = l]
      /\ UNCHANGED <<queue, mtx, rd, wr, bar, res, job, canc, expired>>
      /\ n' = n /\ bar' = bar /\ res' = res /\ canc' = canc /\ mi' = mi /\ round' = round /\ sem' = sem /\ wst' = wst
  BY <1>0 DEF SigSet, Goto, queue, main
<1>2. m \in Work /\ canc = {} /\ \A t \in Threads : pc[t] \notin Outside
  BY <1>0, <1>1 DEF AsioInv, PhaseInv, Before, After
<1>3. /\ round \in 1 .. 2 /\ sem \in [Work -> 0 .. 1] /\ sig \in [Work -> {"zero", "quit"}]
      /\ wst \in [Work -> {"raw", "ready", "gone"}] /\ mi \in 0 .. NT + NW + 7
  BY DEF AsioInv, LabelInv, TypeOK
<1>4. \A w \in Work : IF w < m THEN Gone(w) ELSE Out(w)
  BY <1>0, <1>1 DEF AsioInv, StageInv, Stage, Freeing
<1>5. sig' \in [Work -> {"zero", "quit"}] /\ sig'[m] = "quit" /\ \A w \in Work \ {m} : sig'[w] = sig[w]
  BY <1>1, <1>2, <1>3
<1>6. /\ l \in MainAt /\ l \notin Holding \cup MainHolding \cup {"wait"} /\ pc[Main] \in MainHolding /\ mi \in Work
  BY <1>0, <1>1, <1>2 DEF MainAt, Holding, MainHolding
<1>7. /\ LabelInv' /\ MutexInv' /\ RingInv' /\ JobInv'
      /\ pc'[Main] = l /\ \A t \in Threads : pc'[t] = pc[t]
      /\ \A w : (With(w)' <=> With(w)) /\ (Quitting(w)' <=> Quitting(w))
  BY <1>1, <1>3, <1>5, <1>6, MainLetsWork
<1>8. PhaseInv'
  BY <1>0, <1>1, <1>2, <1>7 DEF PhaseInv, Before, Queueing, After
<1>9. StageInv'
  <2>1. ASSUME NEW w \in Work PROVE Stage(w)'
    <3>1. CASE w = m
      <4>1. ~ (w < m)
        BY <3>1, <1>2, Basics, SMTT(30)
      <4>2. Out(w)
        BY <1>4, <4>1
      <4>3. Told(w)'
        BY <1>1, <1>5, <1>7, <3>1, <4>2 DEF Out, Told, Ready
      <4> QED
        BY <1>0, <1>1, <1>7, <3>1, <4>1, <4>3 DEF Stage, Before, Making, Queueing, Freeing, Freed, After
    <3>2. CASE w # m
      <4>1. IF w < m THEN Gone(w)' ELSE Out(w)'
        BY <1>1, <1>4, <1>5, <1>7, <3>2, StageReads
      <4> QED
        BY <1>0, <1>1, <1>7, <3>2, <4>1 DEF Stage, Before, Making, Queueing, Freeing, Freed, After
    <3> QED
      BY <3>1, <3>2
  <2> QED
    BY <2>1 DEF StageInv
<1> QED
  BY <1>7, <1>8, <1>9 DEF AsioInv

LEMMA SemWaitInv ==
  ASSUME AsioInv, SemWait
  PROVE  AsioInv'
<1>0. PICK m, l : m = mi /\ l = "freeLock"
  OBVIOUS
<1>1. /\ pc[Main] = "semWait" /\ sem[m] > 0 /\ sem' = [sem EXCEPT ![m] = @ - 1] /\ pc' = [pc EXCEPT ![Main] = l]
      /\ UNCHANGED <<queue, mtx, rd, wr, bar, job, sig, wmtx, expired>>
      /\ n' = n /\ bar' = bar /\ res' = res /\ canc' = canc /\ mi' = mi /\ round' = round /\ sig' = sig /\ wst' = wst
  BY <1>0 DEF SemWait, Goto, queue, main
<1>2. m \in Work /\ canc = {} /\ \A t \in Threads : pc[t] \notin Outside
  BY <1>0, <1>1 DEF AsioInv, PhaseInv, Before, After
<1>3. /\ canc \subseteq Threads /\ round \in 1 .. 2 /\ sem \in [Work -> 0 .. 1] /\ res \subseteq Resources
      /\ wst \in [Work -> {"raw", "ready", "gone"}] /\ mi \in 0 .. NT + NW + 7
  BY DEF AsioInv, LabelInv, TypeOK
<1>4. \A w \in Work : IF w < m THEN Gone(w) ELSE IF w = m THEN Told(w) ELSE Out(w)
  BY <1>0, <1>1 DEF AsioInv, StageInv, Stage
<1>5. sem[m] = 1 /\ sem' \in [Work -> 0 .. 1] /\ sem'[m] = 0 /\ \A w \in Work \ {m} : sem'[w] = sem[w]
  BY <1>1, <1>2, <1>3, SMTT(30)
<1>6. /\ l \in MainAt /\ l \notin Holding \cup MainHolding \cup {"wait"}
      /\ pc[Main] \notin Holding \cup MainHolding \cup {"wait"}
  BY <1>0, <1>1 DEF MainAt, Freed, Holding, MainHolding
<1>7. /\ LabelInv' /\ MutexInv' /\ RingInv' /\ JobInv'
      /\ pc'[Main] = l /\ \A t \in Threads : pc'[t] = pc[t]
      /\ \A w : (With(w)' <=> With(w)) /\ (Quitting(w)' <=> Quitting(w))
  BY <1>1, <1>3, <1>5, <1>6, MainPlain
<1>8. PhaseInv'
  BY <1>0, <1>1, <1>2, <1>7 DEF PhaseInv, Before, Queueing, After
<1>9. StageInv'
  <2>1. ASSUME NEW w \in Work PROVE Stage(w)'
    <3>1. CASE w = m
      <4>1. ~ (w < m)
        BY <3>1, <1>2, Basics, SMTT(30)
      <4>2. Told(w)
        BY <1>4, <3>1, <4>1
      <4>a. Ready(w, 1, "quit") /\ (Quitting(w) \/ ~ With(w))
        <5>1. sem[w] # 0
          BY <1>5, <3>1, SMTT(30)
        <5> QED
          BY <4>2, <5>1 DEF Told, Ready
      <4>3. Over(w)'
        BY <1>1, <1>5, <1>7, <3>1, <4>a DEF Over, Ready
      <4> QED
        BY <1>0, <1>1, <1>7, <3>1, <4>1, <4>3 DEF Stage, Before, Making, Queueing, Freeing, Freed, After
    <3>2. CASE w # m
      <4>1. IF w < m THEN Gone(w)' ELSE Out(w)'
        BY <1>1, <1>4, <1>5, <1>7, <3>2, StageReads
      <4> QED
        BY <1>0, <1>1, <1>7, <3>2, <4>1 DEF Stage, Before, Making, Queueing, Freeing, Freed, After
    <3> QED
      BY <3>1, <3>2
  <2> QED
    BY <2>1 DEF StageInv
<1> QED
  BY <1>7, <1>8, <1>9 DEF AsioInv

\* The thread that posted the semaphore has released the mutex of the work before
\* main took it, so the work is with no thread when it is destroyed.
LEMMA FreeWorkInv ==
  ASSUME AsioInv, FreeWork
  PROVE  AsioInv'
<1>0. PICK m, l : m = mi /\ l = IF mi = NW THEN "cancel" ELSE "free"
  OBVIOUS
<1>1. /\ pc[Main] = "freeIn" /\ wmtx' = [wmtx EXCEPT ![mi] = None] /\ wst' = [wst EXCEPT ![m] = "gone"]
      /\ mi' = (IF m = NW THEN 1 ELSE m + 1) /\ pc' = [pc EXCEPT ![Main] = l]
      /\ UNCHANGED <<queue, mtx, rd, wr, bar, res, job, canc, expired>>
      /\ n' = n /\ bar' = bar /\ res' = res /\ canc' = canc /\ round' = round /\ sem' = sem /\ sig' = sig
  BY <1>0 DEF FreeWork, Goto, queue
<1>2. m \in Work /\ canc = {} /\ \A t \in Threads : pc[t] \notin Outside
  BY <1>0, <1>1 DEF AsioInv, PhaseInv, Before, After
<1>3. /\ round \in 1 .. 2 /\ sem \in [Work -> 0 .. 1] /\ sig \in [Work -> {"zero", "quit"}]
      /\ wst \in [Work -> {"raw", "ready", "gone"}]
  BY DEF AsioInv, LabelInv, TypeOK
<1>4. \A w \in Work : IF w < m THEN Gone(w) ELSE IF w = m THEN Over(w) ELSE Out(w)
  BY <1>0, <1>1 DEF AsioInv, StageInv, Stage, Freed
<1>5. ~ With(m)
  <2>1. wmtx[m] = Main
    BY <1>0, <1>1, <1>2 DEF AsioInv, JobInv, MainHolding
  <2>2. ~ Quitting(m)
    BY <1>2, <2>1, Basics, SMTT(30) DEF AsioInv, JobInv, Quitting, WorkHolding
  <2>3. ~ (m < m)
    BY <1>2, Basics, SMTT(30)
  <2> QED
    BY <1>2, <1>4, <2>2, <2>3 DEF Over
<1>6. wst' \in [Work -> {"raw", "ready", "gone"}] /\ wst'[m] = "gone" /\ \A w \in Work \ {m} : wst'[w] = wst[w]
  BY <1>1, <1>2, <1>3
<1>7. /\ mi' \in 0 .. NT + NW + 7 /\ l \in {"cancel", "free"} /\ 1 \in Threads
      /\ (l = "cancel" => mi' = 1) /\ (l = "free" => mi' \in Work)
  BY <1>0, <1>1, <1>2, AsioAssumption, SMTT(30) DEF Work, Threads
<1>8. /\ l \in MainAt /\ l \notin Holding \cup MainHolding \cup {"wait"} /\ pc[Main] \in MainHolding /\ mi \in Work
  BY <1>0, <1>1, <1>2, <1>7 DEF MainAt, Freeing, After, Holding, MainHolding
<1>9. /\ LabelInv' /\ MutexInv' /\ RingInv' /\ JobInv'
      /\ pc'[Main] = l /\ \A t \in Threads : pc'[t] = pc[t]
      /\ \A w : (With(w)' <=> With(w)) /\ (Quitting(w)' <=> Quitting(w))
  BY <1>1, <1>3, <1>6, <1>7, <1>8, MainLetsWork
<1>10. PhaseInv'
  BY <1>1, <1>2, <1>7, <1>9 DEF PhaseInv, Before, Queueing, After
<1>11. StageInv'
  <2>1. ASSUME NEW w \in Work PROVE IF w <= m THEN Gone(w)' ELSE Out(w)'
    <3>1. CASE w = m
      <4>1. Gone(w)'
        BY <1>5, <1>6, <1>9, <3>1 DEF Gone
      <4> QED
        BY <3>1, <4>1, <1>2, Basics, SMTT(30)
    <3>2. CASE w # m
      <4>1. IF w < m THEN Gone(w)' ELSE Out(w)'
        BY <1>1, <1>4, <1>6, <1>9, <3>2, StageReads
      <4> QED
        BY <3>2, <4>1, <1>2, Basics, SMTT(30)
    <3> QED
      BY <3>1, <3>2
  <2>2. ASSUME NEW w \in Work PROVE Stage(w)'
    <3>1. (l = "cancel" => w <= m) /\ (l = "free" => (w < mi' <=> w <= m))
      BY <1>0, <1>1, <1>2, AsioAssumption, SMTT(30) DEF Work
    <3> QED
      BY <1>7, <1>9, <2>1, <3>1 DEF Stage, Before, Making, Queueing, Freeing, Freed, After
  <2> QED
    BY <2>2 DEF StageInv
<1> QED
  BY <1>9, <1>10, <1>11 DEF AsioInv

\* asio_free.
LEMMA AsioFreeInv ==
  ASSUME AsioInv, FreeCancel \/ FreeJoin \/ FreeRelease
  PROVE  AsioInv'
<1>1. PICK l \in {"cancel", "join", "release", "done"} :
        /\ pc' = [pc EXCEPT ![Main] = l] /\ pc[Main] \in {"cancel", "join", "release"}
        /\ UNCHANGED <<queue, mtx, rd, wr, bar, job, round, works, expired>>
        /\ \/ /\ pc[Main] = "cancel" /\ l = (IF mi = NT THEN "join" ELSE "cancel") /\ canc' = canc \cup {mi}
              /\ mi' = (IF mi = NT THEN 1 ELSE mi + 1) /\ res' = res
           \/ /\ pc[Main] = "join" /\ l = (IF mi = NT THEN "release" ELSE "join") /\ pc[mi] = "dead"
              /\ mi' = (IF mi = NT THEN 1 ELSE mi + 1) /\ canc' = canc /\ res' = res
           \/ pc[Main] = "release" /\ l = "done" /\ res' = {} /\ mi' = mi /\ canc' = canc
  <2>1. CASE FreeCancel
    BY <2>1 DEF FreeCancel, Goto
  <2>2. CASE FreeJoin
    BY <2>2 DEF FreeJoin, Goto
  <2>3. CASE FreeRelease
    BY <2>3 DEF FreeRelease, Goto, main
  <2> QED
    BY <2>1, <2>2, <2>3
<1>2. /\ sem' = sem /\ sig' = sig /\ wst' = wst /\ wmtx' = wmtx /\ round' = round /\ n' = n /\ bar' = bar
      /\ UNCHANGED <<queue, mtx, rd, wr, bar, job, sig, wmtx, expired>>
  BY <1>1 DEF works, queue
<1>3. /\ canc \subseteq Threads /\ round \in 1 .. 2 /\ sem \in [Work -> 0 .. 1] /\ res \subseteq Resources
      /\ wst \in [Work -> {"raw", "ready", "gone"}] /\ mi \in 0 .. NT + NW + 7
  BY DEF AsioInv, LabelInv, TypeOK
<1>4. /\ pc[Main] \in {"cancel", "join"} => mi \in Threads
      /\ pc[Main] = "join" => \A t \in Threads : t < mi => pc[t] = "dead"
      /\ pc[Main] = "release" => \A t \in Threads : pc[t] = "dead"
      /\ \A t \in Threads : pc[t] \notin Outside
  BY <1>1 DEF AsioInv, PhaseInv, Before
<1>5. /\ canc' \subseteq Threads /\ mi' \in 0 .. NT + NW + 7 /\ res' \subseteq Resources
      /\ l \in {"cancel", "join"} => mi' \in Threads
  <2>1. canc' \subseteq Threads /\ res' \subseteq Resources
    BY <1>1, <1>3, <1>4
  <2>2. mi' \in 0 .. NT + NW + 7
    BY <1>1, <1>3, <1>4, AsioAssumption, SMTT(30) DEF Threads
  <2>3. l \in {"cancel", "join"} => mi' \in Threads
    BY <1>1, <1>4, AsioAssumption, SMTT(30) DEF Threads
  <2> QED
    BY <2>1, <2>2, <2>3
<1>6. /\ l \in MainAt /\ l \notin Holding \cup MainHolding \cup {"wait"}
      /\ pc[Main] \notin Holding \cup MainHolding \cup {"wait"}
  BY <1>1 DEF MainAt, After, Holding, MainHolding
<1>7. /\ LabelInv' /\ MutexInv' /\ RingInv' /\ JobInv'
      /\ pc'[Main] = l /\ \A t \in Threads : pc'[t] = pc[t]
      /\ \A w : (With(w)' <=> With(w)) /\ (Quitting(w)' <=> Quitting(w))
  BY <1>1, <1>2, <1>3, <1>5, <1>6, MainPlain
<1>8. /\ l = "join" => \A t \in Threads : t < mi' => pc[t] = "dead"
      /\ l \in {"release", "done"} => \A t \in Threads : pc[t] = "dead"
      /\ l = "done" => res' = {}
  BY <1>1, <1>4, AsioAssumption, SMTT(30) DEF Threads
<1>9. PhaseInv'
  <2>1. l \in After /\ l \notin Before /\ l \notin Queueing \cup {"initw"}
    BY DEF Before, Queueing, After
  <2> QED
    BY <1>4, <1>5, <1>7, <1>8, <2>1 DEF PhaseInv, Before, After
<1>10. StageInv'
  <2>1. ASSUME NEW w \in Work PROVE Stage(w)'
    <3>1. Gone(w)'
      BY <1>1, <1>2, <1>7, StageReads DEF AsioInv, StageInv, Stage, After
    <3> QED
      BY <1>7, <3>1 DEF Stage, Before, Making, Queueing, Freeing, Freed, After
  <2> QED
    BY <2>1 DEF StageInv
<1> QED
  BY <1>7, <1>9, <1>10 DEF AsioInv

------------------------------------------------------------------------------
(***************************************************************************)
(* The invariant holds, and what it implies.                               *)
(***************************************************************************)
LEMMA InitAsioInv ==
  ASSUME Init
  PROVE  AsioInv
<1>1. /\ n = 0 /\ hd = 0 /\ tl = 0 /\ q = [i \in 0 .. SZ - 1 |-> NoWork] /\ mtx = None /\ rd = {} /\ wr = {}
      /\ bar = {} /\ res = {} /\ job = [t \in Threads |-> NoWork] /\ canc = {} /\ mi = 0 /\ round = 1
      /\ sig = [w \in Work |-> "zero"] /\ sem = [w \in Work |-> 0] /\ wmtx = [w \in Work |-> None]
      /\ wst = [w \in Work |-> "raw"] /\ expired = 0
      /\ pc = [p \in Procs |-> IF p = Main THEN "init" ELSE "unborn"]
  BY DEF Init
<1>2. /\ pc \in [Procs -> Labels] /\ pc[Main] = "init" /\ \A t \in Threads : pc[t] = "unborn"
  BY <1>1, Basics DEF Labels
<1>3. LabelInv
  <2>1. TypeOK
    <3>1. 0 \in 0 .. SZ /\ 0 \in 0 .. NT + NW + 7 /\ 0 \in 0 .. MaxTimeouts /\ 1 \in 1 .. 2 /\ 0 \in 0 .. 1
      BY AsioAssumption, SMTT(30)
    <3> QED
      BY <1>1, <1>2, <3>1 DEF TypeOK
  <2> QED
    BY <1>2, <2>1 DEF LabelInv, MainAt, Before, ThreadAt, Outside
<1>4. MutexInv
  BY <1>1, <1>2, Basics DEF MutexInv, Holding
<1>5. PhaseInv
  <2>1. 1 .. 0 = {} /\ 0 \in 0 .. 5
    BY SMTT(30)
  <2> QED
    BY <1>1, <1>2, <2>1 DEF PhaseInv, Before, Queueing, After, Outside
<1>6. RingInv
  BY <1>1, AsioAssumption, SMTT(30) DEF RingInv
<1>7. Queued = {}
  BY <1>1, SMTT(30) DEF Queued
<1>8. JobInv
  BY <1>1, <1>2, <1>7, Basics DEF JobInv, CallBack, WorkHolding, MainHolding
<1>9. StageInv
  <2>1. ASSUME NEW w \in Work PROVE Stage(w)
    <3>1. Raw(w)
      BY <1>1, <1>7, Basics DEF Raw, With
    <3> QED
      BY <1>2, <3>1 DEF Stage, Before, Making, Queueing, Freeing, Freed, After
  <2> QED
    BY <2>1 DEF StageInv
<1> QED
  BY <1>3, <1>4, <1>5, <1>6, <1>8, <1>9 DEF AsioInv

LEMMA ThreadInv ==
  ASSUME AsioInv, NEW t \in Threads, Thread(t)
  PROVE  AsioInv'
<1>1. t \in Procs /\ t # Main
  BY Basics
<1>2. CASE ArriveBarrier(t)
  BY <1>1, <1>2, ArriveBarrierInv
<1>3. CASE DeqLock(t) \/ Reacquire(t) \/ AfterTimeOut(t) \/ DeqCancelLock(t)
  <2>1. PICK from \in {"deq", "woken", "expired", "cancelling"}, to \in {"in", "relock", "cancelled"} : GetLock(t, from, to)
    BY <1>3 DEF DeqLock, Reacquire, AfterTimeOut, DeqCancelLock
  <2>2. to \in Holding /\ from # "wait" /\ from \notin Holding /\ from \in Waiting \ {"dead"} /\ to \in Waiting
    BY DEF Holding, Waiting
  <2> QED
    BY <1>1, <2>1, <2>2, TakesLock
<1>4. CASE Deq(t)
  BY <1>4, DeqInv
<1>5. CASE DeqWait(t)
  BY <1>1, <1>5, Waits DEF DeqWait
<1>6. CASE Cancelled(t)
  <2>1. wr \subseteq {Main} /\ expired \in 0 .. MaxTimeouts
    BY DEF AsioInv, LabelInv, TypeOK
  <2>2. PICK l \in {"woken", "expired", "cancelling"} : l = "cancelling"
    OBVIOUS
  <2>3. /\ pc[t] = "wait" /\ pc' = [pc EXCEPT ![t] = l] /\ rd' = rd \ {t} /\ wr' = wr \ {t} /\ mtx' = mtx
        /\ expired' \in 0 .. MaxTimeouts /\ UNCHANGED <<queue, bar, res, job, canc, main, works>>
    BY <1>1, <1>6, <2>1, <2>2 DEF Cancelled, Goto
  <2> QED
    BY <1>1, <2>3, WaitEnds
<1>7. CASE DeqCancel(t)
  BY <1>7, DeqCancelInv
<1>8. CASE CbLock(t) \/ CbSleep(t) \/ CbWake(t)
  BY <1>8, CallBackLoops
<1>9. CASE CbSwitch(t)
  BY <1>9, CbSwitchInv
<1>10. CASE CbQuit(t)
  BY <1>10, CbQuitInv
<1> QED
  BY <1>2, <1>3, <1>4, <1>5, <1>6, <1>7, <1>8, <1>9, <1>10 DEF Thread

LEMMA MainStepInv ==
  ASSUME AsioInv, MainStep
  PROVE  AsioInv'
<1>1. Main \in Procs
  BY Basics
<1>2. CASE InitAcquire
  BY <1>2, InitAcquireInv
<1>3. CASE InitCreate
  BY <1>3, InitCreateInv
<1>4. CASE ArriveBarrier(Main)
  BY <1>1, <1>4, ArriveBarrierInv
<1>5. CASE InitWork
  BY <1>5, InitWorkInv
<1>6. CASE MakeLock \/ SigLock \/ FreeLock
  <2>1. PICK from, to : /\ mi \in Work /\ GetWorkLock(Main, mi, from, to)
                        /\ <<from, to>> \in {<<"make", "try">>, <<"sigLock", "sigSet">>, <<"freeLock", "freeIn">>}
    BY <1>6 DEF MakeLock, SigLock, FreeLock
  <2>2. /\ (from \in Making /\ to \in Making) \/ (from \in Freeing /\ to \in Freeing) \/ (from \in Freed /\ to \in Freed)
        /\ to \in MainHolding
    BY <2>1 DEF Making, Freeing, Freed, MainHolding
  <2> QED
    BY <2>1, <2>2, MainLocksWork
<1>7. CASE MakeTry
  BY <1>7, MakeTryInv
<1>8. CASE EnqLock \/ Reacquire(Main) \/ AfterTimeOut(Main)
  <2>1. PICK from \in {"enq", "woken", "expired"}, to \in {"in", "relock"} : GetLock(Main, from, to)
    BY <1>8 DEF EnqLock, Reacquire, AfterTimeOut
  <2>2. to \in Holding /\ from # "wait" /\ from \notin Holding /\ from \in Queueing /\ to \in Queueing
    BY DEF Holding, Queueing
  <2> QED
    BY <1>1, <2>1, <2>2, TakesLock
<1>9. CASE Enq
  BY <1>9, EnqInv
<1>10. CASE EnqWait
  BY <1>1, <1>10, Waits DEF EnqWait
<1>11. CASE FreeTry
  BY <1>11, FreeTryInv
<1>12. CASE SigSet
  BY <1>12, SigSetInv
<1>13. CASE SemWait
  BY <1>13, SemWaitInv
<1>14. CASE FreeWork
  BY <1>14, FreeWorkInv
<1>15. CASE FreeCancel \/ FreeJoin \/ FreeRelease
  BY <1>15, AsioFreeInv
<1> QED
  BY <1>2, <1>3, <1>4, <1>5, <1>6, <1>7, <1>8, <1>9, <1>10, <1>11, <1>12, <1>13, <1>14, <1>15 DEF MainStep

\* A wait ends by itself or runs out.
LEMMA WaitEndsInv ==
  ASSUME AsioInv, NEW p \in Procs, SpuriousWake(p) \/ TimeOut(p)
  PROVE  AsioInv'
<1>1. expired \in 0 .. MaxTimeouts
  BY DEF AsioInv, LabelInv, TypeOK
<1>2. PICK l \in {"woken", "expired", "cancelling"} :
        /\ l # "cancelling" /\ pc[p] = "wait" /\ pc' = [pc EXCEPT ![p] = l] /\ rd' = rd \ {p} /\ wr' = wr \ {p}
        /\ mtx' = mtx /\ expired' \in 0 .. MaxTimeouts /\ UNCHANGED <<queue, bar, res, job, canc, main, works>>
  <2>1. CASE SpuriousWake(p)
    BY <1>1, <2>1 DEF SpuriousWake, Goto
  <2>2. CASE TimeOut(p)
    <3>1. expired' \in 0 .. MaxTimeouts
      BY <1>1, <2>2, AsioAssumption, SMTT(30) DEF TimeOut
    <3> QED
      BY <2>2, <3>1 DEF TimeOut, Goto
  <2> QED
    BY <2>1, <2>2
<1> QED
  BY <1>2, WaitEnds

LEMMA AsioStep ==
  ASSUME AsioInv, [Next]_vars
  PROVE  AsioInv'
<1>1. CASE MainStep
  BY <1>1, MainStepInv
<1>2. CASE \E t \in Threads : Thread(t)
  BY <1>2, ThreadInv
<1>3. CASE InitFail
  BY <1>3, InitFailInv
<1>4. CASE \E p \in Procs : SpuriousWake(p) \/ TimeOut(p)
  BY <1>4, WaitEndsInv
<1>5. CASE UNCHANGED vars
  <2>1. /\ n' = n /\ hd' = hd /\ tl' = tl /\ q' = q /\ mtx' = mtx /\ rd' = rd /\ wr' = wr /\ bar' = bar
        /\ res' = res /\ job' = job /\ canc' = canc /\ mi' = mi /\ round' = round /\ sig' = sig /\ sem' = sem
        /\ wmtx' = wmtx /\ wst' = wst /\ expired' = expired /\ pc' = pc
    BY <1>5 DEF vars, queue, main, works
  <2>a. LabelInv'
    BY <2>1 DEF AsioInv, LabelInv, TypeOK
  <2>b. MutexInv'
    BY <2>1 DEF AsioInv, MutexInv
  <2>c. PhaseInv'
    BY <2>1 DEF AsioInv, PhaseInv
  <2>d. RingInv'
    BY <2>1 DEF AsioInv, RingInv, At
  <2>2. LabelInv' /\ MutexInv' /\ PhaseInv' /\ RingInv'
    BY <2>a, <2>b, <2>c, <2>d
  <2>3. Queued' = Queued
    BY <2>1 DEF Queued
  <2>4. JobInv'
    BY <2>1, <2>3 DEF AsioInv, JobInv
  <2>5. \A w : (With(w)' <=> With(w)) /\ (Quitting(w)' <=> Quitting(w))
    BY <2>1, <2>3 DEF With, Quitting
  <2>6. \A w \in Work \ {NoWork} : Stage(w)'
    BY <2>1, <2>5, StageSame DEF AsioInv
  <2> QED
    BY <2>2, <2>4, <2>6, Basics DEF AsioInv, StageInv
<1> QED
  BY <1>1, <1>2, <1>3, <1>4, <1>5 DEF Next

LEMMA AsioInvariant == Spec => []AsioInv
<1>1. Init => AsioInv
  BY InitAsioInv
<1>2. AsioInv /\ [Next]_vars => AsioInv'
  BY AsioStep
<1> QED
  BY <1>1, <1>2, PTL DEF Spec

\* While a work is queued or with a thread that has not posted its semaphore, the
\* semaphore is taken.
LEMMA OutIsTaken ==
  ASSUME AsioInv, NEW w \in Work, With(w), ~ Quitting(w)
  PROVE  sem[w] = 0 /\ wst[w] = "ready"
<1>1. Stage(w) /\ pc[Main] \in MainAt
  BY DEF AsioInv, StageInv, LabelInv
<1> QED
  BY <1>1 DEF Stage, MainAt, Raw, Idle, Going, Out, Told, Over, Gone, Ready

LEMMA WorkOfMain ==
  ASSUME AsioInv, pc[Main] \in MainHolding
  PROVE  /\ mi \in Work /\ wst[mi] = "ready"
         /\ pc[Main] = "sigSet" => sig[mi] = "zero"
         /\ pc[Main] = "freeIn" => sig[mi] = "quit" /\ sem[mi] = 0
<1>1. mi \in Work
  BY DEF AsioInv, PhaseInv, MainHolding, Before, After
<1>2. Stage(mi) /\ ~ (mi < mi)
  BY <1>1, Basics, SMTT(30) DEF AsioInv, StageInv
<1>3. CASE pc[Main] = "try"
  BY <1>1, <1>2, <1>3 DEF Stage, Making, Out, Idle, Ready
<1>4. CASE pc[Main] = "sigSet"
  BY <1>1, <1>2, <1>4 DEF Stage, Freeing, Out, Ready
<1>5. CASE pc[Main] = "freeIn"
  BY <1>1, <1>2, <1>5 DEF Stage, Freed, Over, Ready
<1> QED
  BY <1>3, <1>4, <1>5 DEF MainHolding

LEMMA AtMostOne ==
  ASSUME NEW S, \A x, y \in S : x = y
  PROVE  Cardinality(S) \in 0 .. 1 /\ (S = {} => Cardinality(S) = 0)
<1> DEFINE F(g) == [T \in SUBSET S |-> IF T = {} THEN 0 ELSE 1 + g[T \ {CHOOSE x : x \in T}]]
           f == CHOOSE g : g = F(g)
           h == [T \in SUBSET S |-> IF T = {} THEN 0 ELSE 1]
<1>1. ASSUME NEW T \in SUBSET S, T # {} PROVE T \ {CHOOSE x : x \in T} = {}
  <2>1. PICK z : z \in T
    BY <1>1
  <2>2. (CHOOSE x : x \in T) \in T
    BY <2>1
  <2> QED
    BY <2>2
<1>2. h = F(h)
  <2>1. ASSUME NEW T \in SUBSET S PROVE h[T] = IF T = {} THEN 0 ELSE 1 + h[T \ {CHOOSE x : x \in T}]
    BY <1>1, SMTT(30)
  <2> QED
    BY <2>1
<1>3. f = F(f)
  <2> HIDE DEF h, F
  <2> QED
    BY <1>2
<1>4. Cardinality(S) = f[S]
  BY DEF Cardinality
<1> HIDE DEF f, h
<1>5. f[{}] = 0
  BY <1>3
<1>6. S # {} => f[S] = 1
  <2>1. ASSUME S # {} PROVE f[S] = 1 + f[S \ {CHOOSE x : x \in S}]
    BY <1>3, <2>1
  <2> QED
    BY <2>1, <1>1, <1>5, SMTT(30)
<1> QED
  BY <1>4, <1>5, <1>6, SMTT(30)

LEMMA InvOnePlace ==
  ASSUME AsioInv
  PROVE  OnePlace
<1>1. SUFFICES ASSUME NEW w \in Work
               PROVE  /\ Cardinality({i \in 0 .. n - 1 : q[(hd + i) % SZ] = w})
                           + Cardinality({t \in Threads : job[t] = w}) <= 1
                      /\ w \in Queued \/ (\E t \in Threads : job[t] = w /\ pc[t] # "cbQuit") => sem[w] = 0
  BY DEF OnePlace
<1> DEFINE I == {i \in 0 .. n - 1 : q[(hd + i) % SZ] = w}
           T == {t \in Threads : job[t] = w}
<1>2. \A x, y \in I : x = y
  BY DEF AsioInv, RingInv, At
<1>3. \A x, y \in T : x = y
  BY Basics, SMTT(30) DEF AsioInv, JobInv
<1>4. I # {} <=> w \in Queued
  BY DEF Queued
<1>5. I = {} \/ T = {}
  BY <1>4, SMTT(30) DEF AsioInv, JobInv
<1>6. Cardinality(I) + Cardinality(T) <= 1
  <2> HIDE DEF I, T
  <2>1. Cardinality(I) \in 0 .. 1 /\ (I = {} => Cardinality(I) = 0)
    BY <1>2, AtMostOne
  <2>2. Cardinality(T) \in 0 .. 1 /\ (T = {} => Cardinality(T) = 0)
    BY <1>3, AtMostOne
  <2> QED
    BY <1>5, <2>1, <2>2, SMTT(30)
<1>7. ASSUME w \in Queued \/ \E t \in Threads : job[t] = w /\ pc[t] # "cbQuit"
      PROVE  sem[w] = 0
  <2>1. With(w)
    BY <1>7 DEF With
  <2>2. ~ Quitting(w)
    BY <1>3, <1>4, <1>5, <1>7, SMTT(30) DEF Quitting
  <2> QED
    BY <2>1, <2>2, OutIsTaken
<1> QED
  BY <1>6, <1>7

LEMMA InvNotUsedAfterFree ==
  ASSUME AsioInv
  PROVE  NotUsedAfterFree
<1>1. SUFFICES ASSUME NEW w \in Work, wst[w] = "gone"
               PROVE  w \notin Queued /\ (\A t \in Threads : job[t] # w) /\ wmtx[w] = None
  BY DEF NotUsedAfterFree
<1>2. ~ With(w)
  <2>1. Stage(w) /\ pc[Main] \in MainAt
    BY DEF AsioInv, StageInv, LabelInv
  <2> QED
    BY <1>1, <2>1 DEF Stage, MainAt, Raw, Idle, Going, Out, Told, Over, Gone, Ready
<1>3. wmtx[w] = None
  <2>1. wmtx[w] \in Procs \cup {None}
    BY DEF AsioInv, LabelInv, TypeOK
  <2>2. \A t \in Threads : wmtx[w] # t
    BY <1>2 DEF With, AsioInv, JobInv
  <2>3. wmtx[w] # Main
    BY <1>1, WorkOfMain DEF AsioInv, JobInv
  <2> QED
    BY <2>1, <2>2, <2>3, Basics
<1> QED
  BY <1>2, <1>3 DEF With

LEMMA InvAssertions ==
  ASSUME AsioInv
  PROVE  Assertions
<1>1. ASSUME NEW t \in Threads, pc[t] = "cbIn" PROVE sem[job[t]] = 0
  <2>1. job[t] # NoWork
    BY <1>1 DEF AsioInv, JobInv, CallBack
  <2>2. job[t] \in Work
    BY <2>1 DEF AsioInv, LabelInv, TypeOK
  <2>3. With(job[t])
    BY DEF With
  <2>4. ~ Quitting(job[t])
    BY <1>1, <2>1 DEF AsioInv, JobInv, Quitting
  <2> QED
    BY <2>2, <2>3, <2>4, OutIsTaken
<1> QED
  BY <1>1, WorkOfMain DEF Assertions, MainHolding

LEMMA InvCancelIdleOnly ==
  ASSUME AsioInv
  PROVE  CancelIdleOnly
<1>1. SUFFICES ASSUME canc # {}, NEW t \in Threads PROVE job[t] = NoWork
  BY DEF CancelIdleOnly
<1>2. \A w \in Work : ~ With(w)
  BY <1>1 DEF AsioInv, PhaseInv, StageInv, Stage, Gone
<1>3. job[t] \in Work \cup {NoWork}
  BY DEF AsioInv, LabelInv, TypeOK
<1> QED
  BY <1>2, <1>3 DEF With

LEMMA InvNothingLeft ==
  ASSUME AsioInv
  PROVE  NothingLeft
<1>1. pc[Main] = "done" => \A t \in Threads : pc[t] = "dead"
  BY DEF AsioInv, PhaseInv
<1>2. pc[Main] \in {"done", "failed"} => res = {}
  BY DEF AsioInv, PhaseInv
<1>3. ASSUME pc[Main] \in {"done", "failed"} PROVE mtx = None
  <2>1. \A t \in Threads : pc[t] \in Outside \cup {"dead"}
    BY <1>1, <1>3 DEF AsioInv, PhaseInv, Before
  <2>2. \A p \in Procs : pc[p] \notin Holding
    BY <1>3, <2>1, Basics DEF Outside, Holding
  <2> QED
    BY <2>2 DEF AsioInv, MutexInv, LabelInv, TypeOK
<1> QED
  BY <1>1, <1>2, <1>3 DEF NothingLeft

\* For any number of threads and slots, and as many pieces of work as main may hand
\* out: each is handed to one thread once, its semaphore and mutex are not destroyed
\* by free_work while a thread can reach them, no assertion of asio.c fails, asio_free
\* cancels idle threads only, and what asio_init acquired is given back.
THEOREM WorkAndPoolAreSafe == Spec => []PoolSafe
<1>1. AsioInv => PoolSafe
  BY InvOnePlace, InvNotUsedAfterFree, InvAssertions, InvCancelIdleOnly, InvNothingLeft DEF PoolSafe, AsioInv,
    LabelInv
<1> QED
  BY <1>1, AsioInvariant, PTL

------------------------------------------------------------------------------
(***************************************************************************)
(* The ring as a bounded FIFO.                                             *)
(***************************************************************************)
Stored == [i \in 1 .. n |-> q[(hd + i - 1) % SZ]]

LEMMA StoredIs ==
  ASSUME TypeOK, RingInv
  PROVE  /\ Stored \in Seq(Work) /\ Len(Stored) = n /\ \A i \in 1 .. n : Stored[i] = At(i - 1)
<1>1. n \in Nat /\ hd \in Int
  BY AsioAssumption, SMTT(30) DEF TypeOK
<1>2. ASSUME NEW i \in 1 .. n PROVE i - 1 \in 0 .. n - 1 /\ hd + i - 1 = hd + (i - 1)
  BY <1>1, SMTT(30)
<1>3. \A i \in 1 .. n : Stored[i] = At(i - 1) /\ Stored[i] \in Work
  BY <1>2 DEF Stored, At, RingInv
<1>4. Stored \in [1 .. n -> Work]
  BY <1>3 DEF Stored
<1> QED
  BY <1>1, <1>3, <1>4, SMTT(30)

\* _asio_deq is a Take.
LEMMA DeqTakes ==
  ASSUME AsioInv, NEW t \in Threads, Deq(t)
  PROVE  /\ Stored # <<>> /\ job[t] = NoWork
         /\ job' = [job EXCEPT ![t] = Head(Stored)] /\ Stored' = Tail(Stored)
<1>0. PICK h : h = IF hd = SZ THEN 0 ELSE hd
  OBVIOUS
<1>1. /\ pc[t] = "in" /\ n > 0 /\ hd' = h + 1 /\ n' = n - 1 /\ tl' = tl /\ q' = q /\ job' = [job EXCEPT ![t] = q[h]]
  BY <1>0 DEF Deq
<1>2. TypeOK /\ RingInv /\ TypeOK' /\ RingInv'
  BY DeqInv DEF AsioInv, LabelInv
<1>3. n \in Nat /\ n' \in Nat
  BY <1>2, AsioAssumption, SMTT(30) DEF TypeOK
<1>4. /\ q[h] = At(0) /\ \A i \in 0 .. n' - 1 : At(i)' = At(i + 1)
  BY <1>0, <1>1, <1>2, RingTakes
<1>5. /\ Stored \in Seq(Work) /\ Len(Stored) = n /\ \A i \in 1 .. n : Stored[i] = At(i - 1)
  BY <1>2, StoredIs
<1>6. /\ Stored' \in Seq(Work) /\ Len(Stored') = n' /\ \A i \in 1 .. n' : Stored'[i] = At(i - 1)'
  <2>1. (TypeOK /\ RingInv => /\ Stored \in Seq(Work) /\ Len(Stored) = n /\ \A i \in 1 .. n : Stored[i] = At(i - 1))'
    BY StoredIs, PTL
  <2> QED
    BY <1>2, <2>1
<1>7. Stored # <<>> /\ Head(Stored) = At(0)
  <2>1. 1 \in 1 .. n /\ 1 - 1 = 0
    BY <1>1, <1>3, SMTT(30)
  <2>2. Stored[1] = At(0)
    BY <1>5, <2>1
  <2> QED
    BY <1>1, <1>5, <2>2, SMTT(30)
<1>8. /\ Tail(Stored) \in Seq(Work) /\ Len(Tail(Stored)) = n' /\ \A i \in 1 .. n' : Tail(Stored)[i] = Stored[i + 1]
  BY <1>1, <1>3, <1>5, <1>7, SMTT(30)
<1>9. ASSUME NEW i \in 1 .. n' PROVE Stored'[i] = Tail(Stored)[i]
  <2>1. PICK k : k = i - 1
    OBVIOUS
  <2>2. k \in 0 .. n' - 1 /\ i + 1 \in 1 .. n /\ (i + 1) - 1 = k + 1 /\ k + 1 = i
    BY <1>1, <1>3, <2>1, SMTT(30)
  <2>3. Stored'[i] = At(k)' /\ At(k)' = At(k + 1)
    BY <1>4, <1>6, <2>1, <2>2
  <2>4. Stored[i + 1] = At(k + 1)
    BY <1>5, <2>2
  <2> QED
    BY <1>8, <2>3, <2>4
<1>10. Stored' = Tail(Stored)
  BY <1>6, <1>8, <1>9, SMTT(30)
<1>11. job[t] = NoWork
  BY <1>1 DEF AsioInv, JobInv, CallBack
<1> QED
  BY <1>1, <1>4, <1>7, <1>10, <1>11

\* _asio_enq is a Put.
LEMMA EnqPuts ==
  ASSUME AsioInv, Enq
  PROVE  /\ mi \in Work /\ Len(Stored) < SZ /\ Stored' = Append(Stored, mi) /\ job' = job
<1>0. PICK e, m : e = (IF tl = SZ THEN 0 ELSE tl) /\ m = mi
  OBVIOUS
<1>1. /\ pc[Main] = "in" /\ n # SZ /\ hd' = hd /\ n' = n + 1 /\ tl' = e + 1 /\ q' = [q EXCEPT ![e] = m] /\ job' = job
  BY <1>0 DEF Enq
<1>2. TypeOK /\ RingInv /\ TypeOK' /\ RingInv'
  BY EnqInv DEF AsioInv, LabelInv
<1>3. n \in Nat /\ n' \in Nat /\ n < SZ
  BY <1>1, <1>2, AsioAssumption, SMTT(30) DEF TypeOK
<1>4. \A i \in 0 .. n : At(i)' = IF i = n THEN m ELSE At(i)
  BY <1>0, <1>1, <1>2, RingPuts
<1>5. /\ Stored \in Seq(Work) /\ Len(Stored) = n /\ \A i \in 1 .. n : Stored[i] = At(i - 1)
  BY <1>2, StoredIs
<1>6. /\ Stored' \in Seq(Work) /\ Len(Stored') = n' /\ \A i \in 1 .. n' : Stored'[i] = At(i - 1)'
  <2>1. (TypeOK /\ RingInv => /\ Stored \in Seq(Work) /\ Len(Stored) = n /\ \A i \in 1 .. n : Stored[i] = At(i - 1))'
    BY StoredIs, PTL
  <2> QED
    BY <1>2, <2>1
<1>7. m \in Work
  BY <1>0, <1>1 DEF AsioInv, PhaseInv, Before, Queueing, After
<1>8. /\ Append(Stored, m) \in Seq(Work) /\ Len(Append(Stored, m)) = n'
      /\ \A i \in 1 .. n' : Append(Stored, m)[i] = IF i = n + 1 THEN m ELSE Stored[i]
  BY <1>1, <1>3, <1>5, <1>7, SMTT(30)
<1>9. ASSUME NEW i \in 1 .. n' PROVE Stored'[i] = Append(Stored, m)[i]
  <2>1. PICK k : k = i - 1
    OBVIOUS
  <2>2. k \in 0 .. n /\ (k = n <=> i = n + 1) /\ (i # n + 1 => i \in 1 .. n)
    BY <1>1, <1>3, <2>1, SMTT(30)
  <2>3. Stored'[i] = At(k)' /\ At(k)' = IF k = n THEN m ELSE At(k)
    BY <1>4, <1>6, <2>1, <2>2
  <2>4. i # n + 1 => Stored[i] = At(k)
    BY <1>5, <2>1, <2>2
  <2> QED
    BY <1>8, <2>2, <2>3, <2>4
<1>10. Stored' = Append(Stored, m)
  BY <1>6, <1>8, <1>9, SMTT(30)
<1> QED
  BY <1>0, <1>1, <1>3, <1>5, <1>7, <1>10

\* Every other step but the return of the call-back leaves queue and hands alone.
LEMMA OthersStutter ==
  ASSUME [Next]_vars, ~ Enq, \A t \in Threads : ~ Deq(t) /\ ~ CbQuit(t)
  PROVE  Stored' = Stored /\ job' = job
<1>1. UNCHANGED <<queue, job>>
  <2>1. CASE MainStep
    BY <2>1 DEF MainStep, InitAcquire, InitCreate, ArriveBarrier, InitWork, MakeLock, MakeTry, EnqLock, EnqWait,
      Reacquire, AfterTimeOut, FreeTry, SigLock, SigSet, SemWait, FreeLock, FreeWork, FreeCancel, FreeJoin,
      FreeRelease, GetLock, GetWorkLock
  <2>2. CASE \E t \in Threads : Thread(t)
    BY <2>2 DEF Thread, ArriveBarrier, DeqLock, DeqWait, Reacquire, AfterTimeOut, Cancelled, DeqCancelLock, DeqCancel,
      CbLock, CbSleep, CbWake, CbSwitch, GetLock, GetWorkLock
  <2>3. CASE InitFail \/ \E p \in Procs : SpuriousWake(p) \/ TimeOut(p)
    BY <2>3 DEF InitFail, SpuriousWake, TimeOut
  <2>4. CASE UNCHANGED vars
    BY <2>4 DEF vars, queue
  <2> QED
    BY <2>1, <2>2, <2>3, <2>4 DEF Next
<1> QED
  BY <1>1 DEF queue, Stored

\* The ring, its lazily wrapped indices and the wake-ups implement a bounded FIFO, for
\* any number of slots and threads: works leave in the order they entered, and each
\* goes to one idle thread.
THEOREM RingIsFifo == Spec => ImplementsFifo
<1>1. Init => Fifo!Init
  <2>1. SUFFICES ASSUME Init PROVE Fifo!Init
    OBVIOUS
  <2>2. n = 0 /\ job = [t \in Threads |-> NoWork]
    BY <2>1 DEF Init
  <2>3. [i \in 1 .. n |-> q[(hd + i - 1) % SZ]] = <<>>
    BY <2>2, SMTT(30)
  <2> QED
    BY <2>2, <2>3 DEF Fifo!Init
<1>2. AsioInv /\ [Next]_vars => [Fifo!Next]_(Fifo!vars)
  <2>1. SUFFICES ASSUME AsioInv, [Next]_vars PROVE [Fifo!Next]_(Fifo!vars)
    OBVIOUS
  <2>2. CASE Enq
    <3>1. PICK m \in Work : m = mi
      BY <2>1, <2>2, EnqPuts
    <3>2. Fifo!Put(m)
      BY <2>1, <2>2, <3>1, EnqPuts DEF Fifo!Put, Stored
    <3> QED
      BY <3>2 DEF Fifo!Next
  <2>3. CASE \E t \in Threads : Deq(t)
    <3>1. PICK t \in Threads : Deq(t)
      BY <2>3
    <3>2. Fifo!Take(t)
      BY <2>1, <3>1, DeqTakes DEF Fifo!Take, Stored
    <3> QED
      BY <3>2 DEF Fifo!Next
  <2>4. CASE \E t \in Threads : CbQuit(t)
    <3>1. PICK t \in Threads : CbQuit(t)
      BY <2>4
    <3>2. job[t] # NoWork
      BY <2>1, <3>1 DEF CbQuit, AsioInv, JobInv, CallBack
    <3>3. Fifo!Finish(t)
      BY <3>1, <3>2 DEF Fifo!Finish, CbQuit, queue
    <3> QED
      BY <3>3 DEF Fifo!Next
  <2>5. CASE ~ Enq /\ \A t \in Threads : ~ Deq(t) /\ ~ CbQuit(t)
    BY <2>1, <2>5, OthersStutter DEF Fifo!vars, Stored
  <2> QED
    BY <2>2, <2>3, <2>4, <2>5
<1> QED
  BY <1>1, <1>2, AsioInvariant, PTL DEF Spec, ImplementsFifo, Fifo!Spec

==============================================================================
