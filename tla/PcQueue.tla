------------------------------- MODULE PcQueue -------------------------------
(***************************************************************************)
(* The producer and consumer of src/old/asio/pc.c: a ring of QUEUESIZE     *)
(* slots whose two indices coincide both when it is full and when it is    *)
(* empty, told apart by two flags; one mutex; two condition variables that *)
(* are signalled after the mutex has been released.                        *)
(***************************************************************************)
EXTENDS Integers, Sequences

CONSTANTS QUEUESIZE, LOOP

ASSUME PcAssumption == QUEUESIZE \in Nat \ {0} /\ LOOP \in Nat \ {0}

Sides == {"producer", "consumer"}
Nothing == -1

VARIABLES buf, head, tail, full, empty, \* the queue
          mut,                \* the side that holds the mutex, or "free"
          waits,              \* the sides waiting, each on its own condition
          at,                 \* where each side is
          made,               \* items added so far
          received,           \* every item received, in order
          deleted             \* main has called queueDelete

pcQueue == <<buf, head, tail, full, empty>>
pcVars == <<buf, head, tail, full, empty, mut, waits, at, made, received, deleted>>

PcTypeOK ==
  /\ buf \in [0 .. QUEUESIZE - 1 -> -1 .. LOOP - 1]
  /\ head \in 0 .. QUEUESIZE - 1 /\ tail \in 0 .. QUEUESIZE - 1
  /\ full \in BOOLEAN /\ empty \in BOOLEAN
  /\ mut \in Sides \cup {"free"}
  /\ waits \subseteq Sides
  /\ at \in [Sides -> {"lock", "test", "wait", "woken", "signal", "end"}]
  /\ made \in 0 .. 2 * LOOP
  /\ received \in Seq(0 .. LOOP - 1)
  /\ deleted \in BOOLEAN

\* queueInit.
PcInit ==
  /\ buf = [i \in 0 .. QUEUESIZE - 1 |-> Nothing]
  /\ head = 0 /\ tail = 0 /\ full = FALSE /\ empty = TRUE
  /\ mut = "free" /\ waits = {}
  /\ at = [s \in Sides |-> "lock"]
  /\ made = 0 /\ received = <<>>
  /\ deleted = FALSE

AtGoes(s, l) == at' = [at EXCEPT ![s] = l]

\* pthread_mutex_lock, by a side that starts a round or was woken.
PcLock(s) ==
  /\ at[s] \in {"lock", "woken"}
  /\ mut = "free"
  /\ mut' = s
  /\ AtGoes(s, "test")
  /\ UNCHANGED <<pcQueue, waits, made, received, deleted>>

\* while (fifo->full), while (fifo->empty): pthread_cond_wait.
PcWait(s) ==
  /\ at[s] = "test"
  /\ IF s = "producer" THEN full ELSE empty
  /\ mut' = "free"
  /\ waits' = waits \cup {s}
  /\ AtGoes(s, "wait")
  /\ UNCHANGED <<pcQueue, made, received, deleted>>

PcSpurious(s) ==
  /\ s \in waits
  /\ waits' = waits \ {s}
  /\ AtGoes(s, "woken")
  /\ UNCHANGED <<pcQueue, mut, made, received, deleted>>

\* The index after i, wrapped at once.
Advance(i) == IF i + 1 = QUEUESIZE THEN 0 ELSE i + 1

\* Mutant: added to a full queue.
QueueAddAnyway ==
  /\ at["producer"] = "test"
  /\ buf' = [buf EXCEPT ![tail] = made % LOOP]
  /\ tail' = Advance(tail)
  /\ full' = (full \/ tail' = head)
  /\ empty' = FALSE
  /\ made' = made + 1
  /\ mut' = "free"
  /\ AtGoes("producer", "signal")
  /\ UNCHANGED <<head, waits, received, deleted>>

\* queueAdd of the producer's i, which runs through LOOP twice.
QueueAdd ==
  /\ at["producer"] = "test"
  /\ ~ full
  /\ buf' = [buf EXCEPT ![tail] = made % LOOP]
  /\ tail' = Advance(tail)
  /\ full' = (full \/ tail' = head)
  /\ empty' = FALSE
  /\ made' = made + 1
  /\ mut' = "free"
  /\ AtGoes("producer", "signal")
  /\ UNCHANGED <<head, waits, received, deleted>>

QueueDel ==
  /\ at["consumer"] = "test"
  /\ ~ empty
  /\ received' = Append(received, buf[head])
  /\ head' = Advance(head)
  /\ empty' = (empty \/ head' = tail)
  /\ full' = FALSE
  /\ mut' = "free"
  /\ AtGoes("consumer", "signal")
  /\ UNCHANGED <<buf, tail, waits, made, deleted>>

\* pthread_cond_signal of the other side's condition, with the mutex already
\* released; then the next round, until 2 * LOOP rounds are done.
PcSignal(s) ==
  LET other == CHOOSE o \in Sides : o # s
      rounds == IF s = "producer" THEN made ELSE Len(received)
      next == IF rounds = 2 * LOOP THEN "end" ELSE "lock"
  IN  /\ at[s] = "signal"
      /\ waits' = waits \ {other}
      /\ at' = [at EXCEPT ![s] = next,
                          ![other] = IF other \in waits THEN "woken" ELSE @]
      /\ UNCHANGED <<pcQueue, mut, made, received, deleted>>

\* main joins both threads, then queueDelete.
QueueDelete ==
  /\ \A s \in Sides : at[s] = "end"
  /\ ~ deleted
  /\ deleted' = TRUE
  /\ UNCHANGED <<pcQueue, mut, waits, at, made, received>>

PcStep(s) ==
  \/ PcLock(s) \/ PcWait(s) \/ PcSignal(s)
  \/ s = "producer" /\ QueueAdd
  \/ s = "consumer" /\ QueueDel

PcNext ==
  \/ \E s \in Sides : PcStep(s) \/ PcSpurious(s)
  \/ QueueDelete

PcSpec == PcInit /\ [][PcNext]_pcVars

\* How many items the indices and the flags say are stored.
Stored ==
  IF full THEN QUEUESIZE
  ELSE IF head <= tail THEN tail - head ELSE tail - head + QUEUESIZE

\* Nothing is lost, doubled or reordered: what was received followed by what
\* is stored is what the producer's two loops have added so far.
InOrder ==
  /\ PcTypeOK
  /\ received \o [i \in 1 .. Stored |-> buf[(head + i - 1) % QUEUESIZE]]
       = [i \in 1 .. made |-> (i - 1) % LOOP]

==============================================================================
