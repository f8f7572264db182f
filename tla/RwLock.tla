------------------------------- MODULE RwLock --------------------------------
(***************************************************************************)
(* The readers/writer lock of src/old/asio/rw.c ("a solution to the multi- *)
(* reader's, one writer problem") and its demonstration program: a writer  *)
(* that writes 2 .. MAXCOUNT - 1 and then 0, and readers that read until   *)
(* they see the 0.                                                         *)
(***************************************************************************)
EXTENDS Integers, FiniteSets

CONSTANTS Readers, Writers, MAXCOUNT

ASSUME RwAssumption ==
  /\ IsFiniteSet(Readers) /\ IsFiniteSet(Writers)
  /\ Readers \cap Writers = {}
  /\ MAXCOUNT \in Nat

Users == Readers \cup Writers

VARIABLES lmut,               \* the mutex of the lock: the set of its holders
          readers, writers, waiting, \* the counters of rwl
          readOK, writeOK,    \* the waiters of the two conditions
          where,              \* where each thread is
          data, got, turn     \* the shared word, each reader's d, each writer's i

rwCounts == <<readers, writers, waiting>>
rwVars == <<lmut, readers, writers, waiting, readOK, writeOK,
            where, data, got, turn>>

\* Where a thread can be in the lock and its loop.
Places == {"idle", "test", "wait", "woken", "retest", "use", "release", "unlock", "end"}

\* initlock, and the threads about to run.
RwInit ==
  /\ lmut = {}
  /\ readers = 0 /\ writers = 0 /\ waiting = 0
  /\ readOK = {} /\ writeOK = {}
  /\ where = [u \in Users |-> "idle"]
  /\ data = 1
  /\ got = [r \in Readers |-> 1]
  /\ turn = [w \in Writers |-> 2]

Moves(u, l) == where' = [where EXCEPT ![u] = l]

TakeMutex(u, from, to) ==
  /\ where[u] = from
  /\ lmut = {}
  /\ lmut' = {u}
  /\ Moves(u, to)
  /\ UNCHANGED <<readOK, writeOK, data, got, turn>>

\* readlock: a reader that finds a writer or a waiting writer waits; once
\* woken it goes on as soon as there is no writer, waiting ones or not.
ReadLock(r) == TakeMutex(r, "idle", "test") /\ UNCHANGED rwCounts

ReadWait(r) ==
  /\ \/ where[r] = "test" /\ (writers # 0 \/ waiting # 0)
     \/ where[r] = "retest" /\ writers # 0
  /\ readOK' = readOK \cup {r}
  /\ lmut' = {}
  /\ Moves(r, "wait")
  /\ UNCHANGED <<rwCounts, writeOK, data, got, turn>>

\* Mutant: only a waiting writer holds a reader back.
ReadEnterEager(r) ==
  /\ where[r] = "retest" \/ (where[r] = "test" /\ waiting = 0)
  /\ readers' = readers + 1
  /\ lmut' = {}
  /\ Moves(r, "use")
  /\ UNCHANGED <<writers, waiting, readOK, writeOK, data, got, turn>>

ReadEnter(r) ==
  /\ \/ where[r] = "test" /\ writers = 0 /\ waiting = 0
     \/ where[r] = "retest" /\ writers = 0
  /\ readers' = readers + 1
  /\ lmut' = {}
  /\ Moves(r, "use")
  /\ UNCHANGED <<writers, waiting, readOK, writeOK, data, got, turn>>

\* A waiter, signalled or not, re-acquires the mutex and tests again.
RwReacquire(u) == TakeMutex(u, "woken", "retest") /\ UNCHANGED rwCounts

RwSpurious(u) ==
  /\ where[u] = "wait"
  /\ readOK' = readOK \ {u} /\ writeOK' = writeOK \ {u}
  /\ Moves(u, "woken")
  /\ UNCHANGED <<lmut, rwCounts, data, got, turn>>

\* writelock announces itself in waiting first.
WriteLock(w) ==
  /\ TakeMutex(w, "idle", "retest")
  /\ waiting' = waiting + 1
  /\ UNCHANGED <<readers, writers>>

WriteWait(w) ==
  /\ where[w] = "retest" /\ (readers # 0 \/ writers # 0)
  /\ writeOK' = writeOK \cup {w}
  /\ lmut' = {}
  /\ Moves(w, "wait")
  /\ UNCHANGED <<rwCounts, readOK, data, got, turn>>

WriteEnter(w) ==
  /\ where[w] = "retest" /\ readers = 0 /\ writers = 0
  /\ waiting' = waiting - 1
  /\ writers' = writers + 1
  /\ lmut' = {}
  /\ Moves(w, "use")
  /\ UNCHANGED <<readers, readOK, writeOK, data, got, turn>>

\* d = data; data = i.
Read(r) ==
  /\ where[r] = "use"
  /\ got' = [got EXCEPT ![r] = data]
  /\ Moves(r, "release")
  /\ UNCHANGED <<lmut, rwCounts, readOK, writeOK, data, turn>>

Write(w) ==
  /\ where[w] = "use"
  /\ data' = IF turn[w] < MAXCOUNT THEN turn[w] ELSE 0
  /\ turn' = [turn EXCEPT ![w] = @ + 1]
  /\ Moves(w, "release")
  /\ UNCHANGED <<lmut, rwCounts, readOK, writeOK, got>>

UnlockStart(u) == TakeMutex(u, "release", "unlock") /\ UNCHANGED rwCounts

\* readunlock signals one writer; the reader ends once it has seen the 0.
ReadUnlock(r) ==
  /\ where[r] = "unlock"
  /\ readers' = readers - 1
  /\ lmut' = {}
  /\ \E woken \in SUBSET writeOK :
       /\ IF writeOK = {} THEN woken = {} ELSE \E w \in writeOK : woken = {w}
       /\ writeOK' = writeOK \ woken
       /\ where' = [u \in Users |->
            IF u \in woken THEN "woken"
            ELSE IF u # r THEN where[u]
            ELSE IF got[r] = 0 THEN "end" ELSE "idle"]
  /\ UNCHANGED <<writers, waiting, readOK, data, got, turn>>

\* writeunlock wakes all the readers, and no writer.
WriteUnlock(w) ==
  /\ where[w] = "unlock"
  /\ writers' = writers - 1
  /\ lmut' = {}
  /\ readOK' = {}
  /\ where' = [u \in Users |->
       IF u \in readOK THEN "woken"
       ELSE IF u # w THEN where[u]
       ELSE IF turn[w] > MAXCOUNT THEN "end" ELSE "idle"]
  /\ UNCHANGED <<readers, waiting, writeOK, data, got, turn>>

ReaderStep(r) ==
  \/ ReadLock(r) \/ ReadWait(r) \/ ReadEnter(r) \/ RwReacquire(r)
  \/ Read(r) \/ UnlockStart(r) \/ ReadUnlock(r)

WriterStep(w) ==
  \/ WriteLock(w) \/ WriteWait(w) \/ WriteEnter(w) \/ RwReacquire(w)
  \/ Write(w) \/ UnlockStart(w) \/ WriteUnlock(w)

RwNext ==
  \/ \E r \in Readers : ReaderStep(r)
  \/ \E w \in Writers : WriterStep(w)
  \/ \E u \in Users : RwSpurious(u)

RwSpec == RwInit /\ [][RwNext]_rwVars

Inside == {"use", "release", "unlock"}

\* A writer inside its critical section excludes every reader and every other
\* writer, whatever the order of locks, wake-ups and releases.
Exclusion ==
  \A w \in Writers : where[w] \in Inside =>
    \A u \in Users \ {w} : where[u] \notin Inside

==============================================================================
