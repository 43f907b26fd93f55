---------------------------- MODULE BoundedQueue ----------------------------
(***************************************************************************)
(* What a ring buffer of the programs promises to the threads that use it: *)
(* a first-in first-out queue of at most Capacity lines.  A producer that  *)
(* inserts waits while the queue is full, a consumer that removes waits    *)
(* while it is empty, and the consumer gets the oldest line.  RingBuffer   *)
(* (hw3/ringbuffer.c) is shown to implement this module, and Eft uses the  *)
(* queue in place of the ring.                                             *)
(***************************************************************************)
EXTENDS Integers, Sequences

CONSTANTS Lines,      \* what can be put in the queue
          Consumers,  \* the threads that remove
          Capacity,   \* how many lines fit
          NoLine      \* the result of a consumer that has removed nothing yet

VARIABLES queue,      \* the lines inserted and not yet removed, oldest first
          result      \* what each consumer removed last

queueVars == <<queue, result>>

CanInsert == Len(queue) < Capacity

QueueInit ==
  /\ queue = <<>>
  /\ result = [c \in Consumers |-> NoLine]

Insert(line) ==
  /\ CanInsert
  /\ queue' = Append(queue, line)
  /\ UNCHANGED result

Remove(c) ==
  /\ queue # <<>>
  /\ result' = [result EXCEPT ![c] = Head(queue)]
  /\ queue' = Tail(queue)

QueueNext ==
  \/ \E line \in Lines : Insert(line)
  \/ \E c \in Consumers : Remove(c)

QueueSpec == QueueInit /\ [][QueueNext]_queueVars
=============================================================================
