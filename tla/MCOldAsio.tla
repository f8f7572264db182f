------------------------------ MODULE MCOldAsio ------------------------------
(***************************************************************************)
(* The three programs of src/old/asio for TLC.  They share no state: prog  *)
(* says which of them this behaviour runs.                                 *)
(***************************************************************************)
EXTENDS Asio, PcQueue, RwLock

VARIABLE prog

allVars == <<prog, vars, pcVars, rwVars>>

MCInit ==
  /\ prog \in {"asio", "pc", "rw"}
  /\ Init /\ PcInit /\ RwInit

RunsAsio == prog = "asio" /\ UNCHANGED <<prog, pcVars, rwVars>>
RunsPc == prog = "pc" /\ UNCHANGED <<prog, vars, rwVars>>
RunsRw == prog = "rw" /\ UNCHANGED <<prog, vars, pcVars>>

MCNext ==
  \/ Next /\ RunsAsio
  \/ PcNext /\ RunsPc
  \/ RwNext /\ RunsRw

\* Thread k of the program that runs; thread 0 is asio's and pc's main and
\* rw's writer.
Actor(k) ==
  \/ RunsAsio /\ k = Main /\ MainStep
  \/ RunsAsio /\ k \in Threads /\ Thread(k)
  \/ RunsPc /\ k = 0 /\ QueueDelete
  \/ RunsPc /\ k = 1 /\ PcStep("producer")
  \/ RunsPc /\ k = 2 /\ PcStep("consumer")
  \/ RunsRw /\ k \in Writers /\ WriterStep(k)
  \/ RunsRw /\ k \in Readers /\ ReaderStep(k)

\* Every thread runs, and gets a mutex it keeps finding free (FairSpec of
\* Asio).  In rw.c only finitely many waits end without a signal: readlock
\* does not look at waiting again, so endless ones would let readers pass a
\* waiting writer for ever.
MCSpec ==
  /\ MCInit /\ [][MCNext]_allVars
  /\ \A k \in {0, 1, 2, 3} : SF_allVars(Actor(k))
  /\ <>[][~ \E u \in Users : RwSpurious(u)]_rwVars

\* The program that runs comes to its end.  asio: every work is handed out,
\* every free_work finds its thread gone and asio_free joins all threads,
\* unless a timed wait has run out.  pc: no wake-up is lost although the
\* signals are sent outside the mutex.  rw: with one writer no wake-up is
\* lost and the readers do not starve the writer.
EachFinishes ==
  <>(CASE prog = "asio" -> \/ pc[Main] \in {"done", "failed", "killed"}
                           \/ \E p \in Procs : Stuck(p)
       [] prog = "pc" -> deleted
       [] prog = "rw" -> \A u \in Users : where[u] = "end")

==============================================================================
