---------------------------- MODULE MCRingBuffer ----------------------------
(* hw3/ringbuffer.c with the capacity eft.c gives it, two producers and two  *)
(* consumers, and counters that wrap after two rounds of the array.          *)
EXTENDS RingBuffer
CONSTANTS p1, p2, c1, c2, a, b, none
MCProducers == {p1, p2}
MCConsumers == {c1, c2}
MCLines == {a, b}
MCCapacity == 2
MCCounterRange == 4
=============================================================================
