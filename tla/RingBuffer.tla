----------------------------- MODULE RingBuffer -----------------------------
(***************************************************************************)
(* The ring buffer of hw3/ringbuffer.c: an array of Capacity slots, two    *)
(* counters head and tail that are only ever incremented, and three        *)
(* semaphores.  empty counts the free slots, full the lines to remove, mut *)
(* guards the array and the counters.                                      *)
(*                                                                         *)
(* A step is one semaphore operation together with the code up to the next *)
(* one.  head and tail are C ints that wrap; the slot is the counter taken *)
(* modulo the unsigned capacity, so a counter is modelled modulo           *)
(* CounterRange (2^32 in the program).                                     *)
(***************************************************************************)
EXTENDS Integers, Sequences, FiniteSets

CONSTANTS Producers, Consumers, Lines, NoLine, Capacity, CounterRange

\* initRingBuffer(2), and 2 divides 2^32: a counter that wraps continues
\* with the slot after the last one.
ASSUME RingAssumption ==
  /\ Capacity \in Nat \ {0}
  /\ CounterRange \in Nat
  /\ CounterRange > Capacity
  /\ CounterRange % Capacity = 0
  /\ NoLine \notin Lines
  /\ IsFiniteSet(Producers) /\ IsFiniteSet(Consumers)
  /\ Producers \cap Consumers = {}

VARIABLES head, tail,   \* the counters
          buffer,       \* the slots
          mut,          \* sem_t mut
          full, empty,  \* sem_t full, empty
          at,           \* where each thread is in its call
          line,         \* the argument of a producer's call
          index,        \* the counter a thread has read
          popped        \* lineCopy of a consumer's call

ringVars == <<head, tail, buffer, mut, full, empty, at, line, index, popped>>

Threads == Producers \cup Consumers
Slots == 0 .. Capacity - 1
Counters == 0 .. CounterRange - 1

SlotOf(counter) == counter % Capacity
Incremented(counter) == (counter + 1) % CounterRange

\* The slots are malloc'ed and hold nothing meaningful before the first use.
RingInit ==
  /\ head = 0
  /\ tail = 0
  /\ buffer = [s \in Slots |-> NoLine]
  /\ mut = 1
  /\ empty = Capacity
  /\ full = 0
  /\ at = [t \in Threads |-> "idle"]
  /\ line = [p \in Producers |-> NoLine]
  /\ index = [t \in Threads |-> 0]
  /\ popped = [c \in Consumers |-> NoLine]

GoTo(t, place) == at' = [at EXCEPT ![t] = place]

-----------------------------------------------------------------------------
(* insertIntoRingBuf *)

\* The call, with any line.
CallInsert(p) ==
  /\ at[p] = "idle"
  /\ \E l \in Lines : line' = [line EXCEPT ![p] = l]
  /\ GoTo(p, "waitEmpty")
  /\ UNCHANGED <<head, tail, buffer, mut, full, empty, index, popped>>

\* A variant that does not wait for a free slot.
InsertAnyway(p) ==
  /\ at[p] = "waitEmpty"
  /\ GoTo(p, "lock")
  /\ UNCHANGED <<head, tail, buffer, mut, full, empty, line, index, popped>>

WaitEmpty(p) ==
  /\ at[p] = "waitEmpty"
  /\ empty > 0
  /\ empty' = empty - 1
  /\ GoTo(p, "lock")
  /\ UNCHANGED <<head, tail, buffer, mut, full, line, index, popped>>

\* A variant that does not wait for the lock.
ReadTailUnlocked(p) ==
  /\ at[p] = "lock"
  /\ mut' = 0
  /\ index' = [index EXCEPT ![p] = tail]
  /\ GoTo(p, "store")
  /\ UNCHANGED <<head, tail, buffer, full, empty, line, popped>>

\* The lock is taken and tail read (lines 28-31) ...
LockAndReadTail(p) ==
  /\ at[p] = "lock"
  /\ mut > 0
  /\ mut' = mut - 1
  /\ index' = [index EXCEPT ![p] = tail]
  /\ GoTo(p, "store")
  /\ UNCHANGED <<head, tail, buffer, full, empty, line, popped>>

\* ... and the line stored and tail written: rb->buffer[rb->tail++ % ...].
StoreLine(p) ==
  /\ at[p] = "store"
  /\ buffer' = [buffer EXCEPT ![SlotOf(index[p])] = line[p]]
  /\ tail' = Incremented(index[p])
  /\ index' = [index EXCEPT ![p] = 0]
  /\ GoTo(p, "postFull")
  /\ UNCHANGED <<head, mut, full, empty, line, popped>>

\* A variant that does not count the line.
ForgetFull(p) ==
  /\ at[p] = "postFull"
  /\ GoTo(p, "unlock")
  /\ UNCHANGED <<head, tail, buffer, mut, full, empty, line, index, popped>>

PostFull(p) ==
  /\ at[p] = "postFull"
  /\ full' = full + 1
  /\ GoTo(p, "unlock")
  /\ UNCHANGED <<head, tail, buffer, mut, empty, line, index, popped>>

-----------------------------------------------------------------------------
(* removeFromRingBuff *)

CallRemove(c) ==
  /\ at[c] = "idle"
  /\ GoTo(c, "waitFull")
  /\ UNCHANGED <<head, tail, buffer, mut, full, empty, line, index, popped>>

WaitFull(c) ==
  /\ at[c] = "waitFull"
  /\ full > 0
  /\ full' = full - 1
  /\ GoTo(c, "lock")
  /\ UNCHANGED <<head, tail, buffer, mut, empty, line, index, popped>>

\* Lines 38-39, in two steps like the insertion.
LockAndReadHead(c) ==
  /\ at[c] = "lock"
  /\ mut > 0
  /\ mut' = mut - 1
  /\ index' = [index EXCEPT ![c] = head]
  /\ GoTo(c, "load")
  /\ UNCHANGED <<head, tail, buffer, full, empty, line, popped>>

LoadLine(c) ==
  /\ at[c] = "load"
  /\ popped' = [popped EXCEPT ![c] = buffer[SlotOf(index[c])]]
  /\ head' = Incremented(index[c])
  /\ index' = [index EXCEPT ![c] = 0]
  /\ GoTo(c, "postEmpty")
  /\ UNCHANGED <<tail, buffer, mut, full, empty, line>>

PostEmpty(c) ==
  /\ at[c] = "postEmpty"
  /\ empty' = empty + 1
  /\ GoTo(c, "unlock")
  /\ UNCHANGED <<head, tail, buffer, mut, full, line, index, popped>>

\* A variant that returns with the lock in hand.
KeepMut(t) ==
  /\ at[t] = "unlock"
  /\ GoTo(t, "idle")
  /\ UNCHANGED <<head, tail, buffer, mut, full, empty, line, index, popped>>

\* sem_post(mut), the last semaphore operation of both calls.
PostMut(t) ==
  /\ at[t] = "unlock"
  /\ mut' = mut + 1
  /\ GoTo(t, "idle")
  /\ UNCHANGED <<head, tail, buffer, full, empty, line, index, popped>>

-----------------------------------------------------------------------------
ProducerStep(p) ==
  WaitEmpty(p) \/ LockAndReadTail(p) \/ StoreLine(p) \/ PostFull(p) \/ PostMut(p)
ConsumerStep(c) ==
  CallRemove(c) \/ WaitFull(c) \/ LockAndReadHead(c) \/ LoadLine(c) \/ PostEmpty(c)
    \/ PostMut(c)

RingNext ==
  \/ \E p \in Producers : CallInsert(p) \/ ProducerStep(p)
  \/ \E c \in Consumers : ConsumerStep(c)

\* The tellers call removeFromRingBuff in a loop; a producer need not call.
\* A thread that can run eventually does; no semaphore is assumed fair.
RingSpec ==
  /\ RingInit
  /\ [][RingNext]_ringVars
  /\ \A p \in Producers : WF_ringVars(ProducerStep(p))
  /\ \A c \in Consumers : WF_ringVars(ConsumerStep(c))

-----------------------------------------------------------------------------
(* Properties *)

RingTypeOK ==
  /\ head \in Counters /\ tail \in Counters
  /\ buffer \in [Slots -> Lines \cup {NoLine}]
  /\ mut \in 0 .. 1
  /\ full \in 0 .. Capacity
  /\ empty \in 0 .. Capacity
  /\ at \in [Threads -> {"idle", "waitEmpty", "waitFull", "lock", "store", "load",
                         "postFull", "postEmpty", "unlock"}]
  /\ index \in [Threads -> Counters]
  /\ line \in [Producers -> Lines \cup {NoLine}]
  /\ popped \in [Consumers -> Lines \cup {NoLine}]

\* Lines between head and tail, across a wrap of the counters.
Stored == (tail - head) % CounterRange

Contents == [i \in 1 .. Stored |-> buffer[SlotOf(head + i - 1)]]

\* The ring implements the bounded FIFO: a line enters where StoreLine stores
\* it and leaves where LoadLine reads it, whatever the interleaving of
\* producers and consumers and however often the counters have wrapped.
Queue == INSTANCE BoundedQueue WITH queue <- Contents, result <- popped

ImplementsQueue == Queue!QueueSpec

\* How many of the threads of S are at one of the places.
Between(S, places) == Cardinality({t \in S : at[t] \in places})

\* The posts come before the unlock, so full and empty run ahead of or behind
\* the counters; the sum over the two semaphores and the threads between
\* their wait and their post is always the capacity: no slot is lost or
\* counted twice.
SlotsAccounted ==
  full + empty
    + Between(Producers, {"lock", "store", "postFull"})
    + Between(Consumers, {"lock", "load", "postEmpty"}) = Capacity

\* A line in the ring does not stay at its head for ever: sem_wait on mut by a
\* consumer is not starved, because producers stop when the ring is full.
HeadIsRemoved == \A n \in Counters : (head = n /\ Stored > 0) ~> head # n
=============================================================================
