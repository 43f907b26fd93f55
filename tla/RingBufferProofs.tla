-------------------------- MODULE RingBufferProofs --------------------------
(***************************************************************************)
(* The ring of hw3/ringbuffer.c, for every number of producers and         *)
(* consumers, every capacity and every wrap of the counters that the       *)
(* capacity divides: the slots are accounted for and the ring is a bounded *)
(* FIFO queue.                                                             *)
(***************************************************************************)
EXTENDS RingBuffer, FiniteSetTheorems, SequenceTheorems, TLAPS

\* The remainder is the one number of 0 .. n - 1 that differs by a multiple.
LEMMA ModIs ==
  ASSUME NEW n \in Nat \ {0}, NEW q \in Int, NEW r \in 0 .. n - 1
  PROVE  (n * q + r) % n = r
<1> DEFINE x == n * q + r
           p == x \div n
           s == x % n
<1>1. x \in Int /\ p \in Int /\ s \in 0 .. n - 1 /\ n * p + s = x
  OBVIOUS
<1> HIDE DEF p, s
<1>2. n * (q - p) = s - r
  BY <1>1
<1>3. ~(q - p >= 1)
  <2> SUFFICES ASSUME q - p >= 1 PROVE FALSE
    OBVIOUS
  <2>1. n * (q - p) >= n
    BY <1>1
  <2> QED
    BY <1>1, <1>2, <2>1
<1>4. ~(p - q >= 1)
  <2> SUFFICES ASSUME p - q >= 1 PROVE FALSE
    OBVIOUS
  <2>1. n * (p - q) >= n
    BY <1>1
  <2>2. n * (p - q) = r - s
    BY <1>1
  <2> QED
    BY <1>1, <2>2, <2>1
<1>5. p = q
  BY <1>1, <1>3, <1>4
<1>6. s = r
  BY <1>1, <1>5, <1>2
<1> QED
  BY <1>6 DEF s

\* A multiple of n more leaves the remainder alone.
LEMMA ModShift ==
  ASSUME NEW n \in Nat \ {0}, NEW x \in Int, NEW k \in Int
  PROVE  (x + n * k) % n = x % n
<1> DEFINE q == x \div n
           r == x % n
<1>1. q \in Int /\ r \in 0 .. n - 1 /\ n * q + r = x
  OBVIOUS
<1> HIDE DEF q, r
<1>2. x + n * k = n * (q + k) + r
  BY <1>1
<1>3. (n * (q + k) + r) % n = r
  BY <1>1, ModIs
<1> QED
  BY <1>2, <1>3 DEF r

\* Two numbers less than n apart have different remainders.
LEMMA ModDiffer ==
  ASSUME NEW n \in Nat \ {0}, NEW x \in Int, NEW y \in Int, x < y, y < x + n
  PROVE  x % n # y % n
<1> SUFFICES ASSUME x % n = y % n PROVE FALSE
  OBVIOUS
<1> DEFINE q == x \div n
           r == x % n
           p == y \div n
<1>1. q \in Int /\ p \in Int /\ r \in 0 .. n - 1 /\ n * q + r = x /\ n * p + r = y
  OBVIOUS
<1> HIDE DEF q, r, p
<1>2. y - x = n * (p - q)
  BY <1>1
<1>3. p - q >= 1
  <2> SUFFICES ASSUME p - q <= 0 PROVE FALSE
    BY <1>1
  <2>1. n * (p - q) <= 0
    BY <1>1
  <2> QED
    BY <1>2, <2>1
<1>4. n * (p - q) >= n
  BY <1>1, <1>3
<1> QED
  BY <1>2, <1>4

\* How many members of S the function f puts in P.
CountIn(S, f, P) == Cardinality({u \in S : f[u] \in P})

\* One thread moves: the count of a set of places changes by that thread.
LEMMA CountMove ==
  ASSUME NEW S, IsFiniteSet(S), NEW P, NEW f, NEW g, NEW t,
         \A u \in S : u # t => g[u] = f[u]
  PROVE  LET before == CountIn(S, f, P)
             after == CountIn(S, g, P)
             was == IF t \in S /\ f[t] \in P THEN 1 ELSE 0
             is == IF t \in S /\ g[t] \in P THEN 1 ELSE 0
         IN  before \in Nat /\ after \in Nat /\ before >= was /\ after = before - was + is
<1> DEFINE F == {u \in S : f[u] \in P}
           G == {u \in S : g[u] \in P}
           B == {u \in S : u # t /\ f[u] \in P}
<1>1. IsFiniteSet(F) /\ IsFiniteSet(G) /\ IsFiniteSet(B)
  BY FS_Subset
<1>2. Cardinality(F) \in Nat /\ Cardinality(G) \in Nat /\ Cardinality(B) \in Nat
  BY <1>1, FS_CardinalityType
<1>3. Cardinality(B \cup {t}) = Cardinality(B) + 1
  BY <1>1, FS_AddElement
<1>4. F = IF t \in S /\ f[t] \in P THEN B \cup {t} ELSE B
  OBVIOUS
<1>5. G = IF t \in S /\ g[t] \in P THEN B \cup {t} ELSE B
  OBVIOUS
<1> HIDE DEF F, G, B
<1>6. Cardinality(F) = IF t \in S /\ f[t] \in P THEN Cardinality(B) + 1 ELSE Cardinality(B)
  BY <1>3, <1>4
<1>7. Cardinality(G) = IF t \in S /\ g[t] \in P THEN Cardinality(B) + 1 ELSE Cardinality(B)
  BY <1>3, <1>5
<1> QED
  BY <1>2, <1>6, <1>7 DEF F, G, CountIn

-----------------------------------------------------------------------------
(* The inductive invariant *)

ProducerPlaces == {"idle", "waitEmpty", "lock", "store", "postFull", "unlock"}
ConsumerPlaces == {"idle", "waitFull", "lock", "load", "postEmpty", "unlock"}
LockedPlaces == {"store", "load", "postFull", "postEmpty", "unlock"}

PlacesOK ==
  /\ \A p \in Producers : at[p] \in ProducerPlaces
  /\ \A c \in Consumers : at[c] \in ConsumerPlaces

\* mut is a lock: one thread at most is past it, and then it is taken.
MutHeld ==
  \A t \in Threads : at[t] \in LockedPlaces =>
    /\ mut = 0
    /\ \A u \in Threads : at[u] \in LockedPlaces => u = t

\* The counter a thread has read is still the counter.
IndexFresh ==
  /\ \A p \in Producers : at[p] = "store" => index[p] = tail
  /\ \A c \in Consumers : at[c] = "load" => index[c] = head

LineGiven == \A p \in Producers : at[p] # "idle" => line[p] \in Lines

\* The lines between the counters are those full counts, those a consumer has
\* waited for and not taken, and the one stored and not posted ...
LinesCounted ==
  full + Between(Consumers, {"lock", "load"}) + Between(Producers, {"postFull"}) = Stored

\* ... and the other slots are those empty counts, those a producer has waited
\* for and not filled, and the one emptied and not posted.
FreeCounted ==
  empty + Between(Producers, {"lock", "store"}) + Between(Consumers, {"postEmpty"})
    = Capacity - Stored

RingInv ==
  /\ RingTypeOK
  /\ PlacesOK
  /\ MutHeld
  /\ IndexFresh
  /\ LineGiven
  /\ SlotsAccounted
  /\ LinesCounted
  /\ FreeCounted

-----------------------------------------------------------------------------
(* The counts *)

\* What thread t adds to the count of the threads of S at the places.
Adds(t, S, places) == IF t \in S /\ at[t] \in places THEN 1 ELSE 0

\* A step of t changes each count by what t adds to it.
LEMMA BetweenMove ==
  ASSUME RingTypeOK, NEW t \in Threads, NEW place, GoTo(t, place),
         NEW S \in {Producers, Consumers}, NEW places
  PROVE  /\ Between(S, places) \in Nat
         /\ Between(S, places)' \in Nat
         /\ Between(S, places) >= Adds(t, S, places)
         /\ Between(S, places)' = Between(S, places) - Adds(t, S, places)
                                    + (IF t \in S /\ place \in places THEN 1 ELSE 0)
<1>1. IsFiniteSet(S) /\ S \subseteq Threads
  BY RingAssumption DEF Threads
<1>2. at' = [at EXCEPT ![t] = place] /\ DOMAIN at = Threads
  BY DEF GoTo, RingTypeOK
<1>3. \A u \in S : u # t => at'[u] = at[u]
  BY <1>1, <1>2
<1>4. at'[t] = place
  BY <1>2
<1>5. Between(S, places) = CountIn(S, at, places)
  BY DEF Between, CountIn
<1>6. Between(S, places)' = CountIn(S, at', places)
  BY DEF Between, CountIn
<1>7. LET before == CountIn(S, at, places)
          after == CountIn(S, at', places)
          was == IF t \in S /\ at[t] \in places THEN 1 ELSE 0
          is == IF t \in S /\ at'[t] \in places THEN 1 ELSE 0
      IN  before \in Nat /\ after \in Nat /\ before >= was /\ after = before - was + is
  <2>1. IsFiniteSet(S)
    BY <1>1
  <2> QED
    BY <2>1, <1>3, CountMove
<1> QED
  BY <1>4, <1>5, <1>6, <1>7 DEF Adds

\* No thread is past its wait in the initial state.
LEMMA BetweenNone ==
  ASSUME NEW S, NEW places, \A t \in S : at[t] \notin places
  PROVE  Between(S, places) = 0
<1>1. {t \in S : at[t] \in places} = {}
  OBVIOUS
<1> QED
  BY <1>1, FS_EmptySet DEF Between

\* What a step that takes t to a place does to a count.
Moves(t, place, S, places) ==
  /\ Between(S, places) \in Nat
  /\ Between(S, places)' \in Nat
  /\ Between(S, places) >= Adds(t, S, places)
  /\ Between(S, places)' = Between(S, places) - Adds(t, S, places)
                             + (IF t \in S /\ place \in places THEN 1 ELSE 0)

\* The six counts of the invariant, after a step of t.
LEMMA CountsMove ==
  ASSUME RingTypeOK, NEW t \in Threads, NEW place, GoTo(t, place)
  PROVE  /\ Moves(t, place, Producers, {"lock", "store", "postFull"})
         /\ Moves(t, place, Consumers, {"lock", "load", "postEmpty"})
         /\ Moves(t, place, Consumers, {"lock", "load"})
         /\ Moves(t, place, Producers, {"postFull"})
         /\ Moves(t, place, Producers, {"lock", "store"})
         /\ Moves(t, place, Consumers, {"postEmpty"})
  BY BetweenMove DEF Moves

-----------------------------------------------------------------------------
(* The counters *)

\* CounterRange is a multiple of the capacity.
LEMMA RangeIsMultiple == \E m \in Nat : CounterRange = Capacity * m
<1> DEFINE m == CounterRange \div Capacity
<1>1. CounterRange = Capacity * m + (CounterRange % Capacity) /\ m \in Int
  BY RingAssumption
<1>2. CounterRange = Capacity * m
  BY <1>1, RingAssumption
<1> HIDE DEF m
<1>3. ~(m < 0)
  <2> SUFFICES ASSUME m < 0 PROVE FALSE
    OBVIOUS
  <2>1. Capacity * m <= 0
    BY <1>1, RingAssumption
  <2> QED
    BY <1>2, <2>1, RingAssumption
<1> QED
  BY <1>1, <1>2, <1>3

\* A counter that wraps goes on with the slot after the last one.
LEMMA SlotAcrossWrap ==
  ASSUME NEW c \in Counters, NEW k \in Int
  PROVE  /\ Incremented(c) \in Counters
         /\ SlotOf(Incremented(c) + k) = SlotOf(c + 1 + k)
         /\ \E j \in Int : Incremented(c) = c + 1 + CounterRange * j
<1>1. Incremented(c) = IF c + 1 = CounterRange THEN 0 ELSE c + 1
  BY RingAssumption DEF Incremented, Counters
<1>2. PICK j \in {0, -1} : Incremented(c) = c + 1 + CounterRange * j
  BY <1>1, RingAssumption DEF Counters
<1>3. PICK m \in Nat : CounterRange = Capacity * m
  BY RangeIsMultiple
<1>4. Incremented(c) + k = (c + 1 + k) + Capacity * (m * j)
  BY <1>2, <1>3, RingAssumption DEF Counters
<1>5. m * j \in Int /\ c + 1 + k \in Int
  BY DEF Counters
<1>6. ((c + 1 + k) + Capacity * (m * j)) % Capacity = (c + 1 + k) % Capacity
  BY <1>5, ModShift, RingAssumption
<1>7. SlotOf(Incremented(c) + k) = SlotOf(c + 1 + k)
  BY <1>4, <1>6 DEF SlotOf
<1> QED
  BY <1>1, <1>2, <1>7, RingAssumption DEF Counters

\* The tail is the head and the stored lines further on.
LEMMA StoredIs ==
  ASSUME RingTypeOK
  PROVE  /\ Stored \in 0 .. CounterRange - 1
         /\ SlotOf(tail) = SlotOf(head + Stored)
<1> DEFINE q == (tail - head) \div CounterRange
<1>1. Stored \in 0 .. CounterRange - 1
  BY RingAssumption DEF Stored, RingTypeOK, Counters
<1>2. tail - head = CounterRange * q + Stored /\ q \in Int
  BY RingAssumption DEF Stored, RingTypeOK, Counters
<1> HIDE DEF q
<1>3. PICK m \in Nat : CounterRange = Capacity * m
  BY RangeIsMultiple
<1>4. tail = (head + Stored) + Capacity * (m * q)
  BY <1>1, <1>2, <1>3, RingAssumption DEF RingTypeOK, Counters
<1>5. m * q \in Int /\ head + Stored \in Int
  BY <1>1, <1>2 DEF RingTypeOK, Counters
<1>6. ((head + Stored) + Capacity * (m * q)) % Capacity = (head + Stored) % Capacity
  BY <1>5, ModShift, RingAssumption
<1>7. SlotOf(tail) = SlotOf(head + Stored)
  BY <1>4, <1>6 DEF SlotOf
<1> QED
  BY <1>1, <1>7

\* An insertion stores one line more ...
LEMMA StoredAfterInsert ==
  ASSUME RingTypeOK, Stored < CounterRange - 1, tail' = Incremented(tail), head' = head
  PROVE  Stored' = Stored + 1
<1>1. PICK j \in Int : tail' = tail + 1 + CounterRange * j
  BY SlotAcrossWrap DEF RingTypeOK
<1> DEFINE q == (tail - head) \div CounterRange
<1>2. tail - head = CounterRange * q + Stored /\ q \in Int
  BY RingAssumption DEF Stored, RingTypeOK, Counters
<1> HIDE DEF q
<1>3. Stored \in Int /\ Stored + 1 \in 0 .. CounterRange - 1
  BY StoredIs, RingAssumption
<1>4. CounterRange * (q + j) = CounterRange * q + CounterRange * j
  BY <1>2, RingAssumption
<1>5. head \in Int /\ tail \in Int /\ CounterRange * q \in Int /\ CounterRange * j \in Int
  BY <1>2, RingAssumption DEF RingTypeOK, Counters
<1>6. tail' - head' = CounterRange * (q + j) + (Stored + 1)
  BY <1>1, <1>2, <1>3, <1>4, <1>5
<1>7. CounterRange \in Nat \ {0} /\ q + j \in Int
  BY <1>2, RingAssumption
<1> QED
  BY <1>3, <1>6, <1>7, ModIs DEF Stored

\* ... and a removal one line less.
LEMMA StoredAfterRemove ==
  ASSUME RingTypeOK, Stored > 0, head' = Incremented(head), tail' = tail
  PROVE  Stored' = Stored - 1
<1>1. PICK j \in Int : head' = head + 1 + CounterRange * j
  BY SlotAcrossWrap DEF RingTypeOK
<1> DEFINE q == (tail - head) \div CounterRange
<1>2. tail - head = CounterRange * q + Stored /\ q \in Int
  BY RingAssumption DEF Stored, RingTypeOK, Counters
<1> HIDE DEF q
<1>3. Stored \in Int /\ Stored - 1 \in 0 .. CounterRange - 1
  BY StoredIs, RingAssumption
<1>4. CounterRange * (q - j) = CounterRange * q - CounterRange * j
  BY <1>2, RingAssumption
<1>5. head \in Int /\ tail \in Int /\ CounterRange * q \in Int /\ CounterRange * j \in Int
  BY <1>2, RingAssumption DEF RingTypeOK, Counters
<1>6. tail' - head' = CounterRange * (q - j) + (Stored - 1)
  BY <1>1, <1>2, <1>3, <1>4, <1>5
<1>7. CounterRange \in Nat \ {0} /\ q - j \in Int
  BY <1>2, RingAssumption
<1> QED
  BY <1>3, <1>6, <1>7, ModIs DEF Stored

-----------------------------------------------------------------------------
(* The invariant is inductive *)

\* No thread is in a call, the slots are free and the lock is.
LEMMA RingInvInit == RingInit => RingInv
<1> SUFFICES ASSUME RingInit PROVE RingInv
  OBVIOUS
<1> USE RingAssumption DEF RingInit
<1>1. RingTypeOK
  BY DEF RingTypeOK, Counters, Slots, Threads
<1>2. PlacesOK /\ MutHeld /\ IndexFresh /\ LineGiven
  BY DEF PlacesOK, MutHeld, IndexFresh, LineGiven, ProducerPlaces, ConsumerPlaces,
         LockedPlaces, Threads
<1>3. Stored = 0
  BY DEF Stored
<1>4. /\ Between(Producers, {"lock", "store", "postFull"}) = 0
      /\ Between(Consumers, {"lock", "load", "postEmpty"}) = 0
      /\ Between(Consumers, {"lock", "load"}) = 0
      /\ Between(Producers, {"postFull"}) = 0
      /\ Between(Producers, {"lock", "store"}) = 0
      /\ Between(Consumers, {"postEmpty"}) = 0
  <2>1. \A t \in Producers \cup Consumers : at[t] = "idle"
    BY DEF Threads
  <2> QED
    BY <2>1, BetweenNone
<1> QED
  BY <1>1, <1>2, <1>3, <1>4 DEF RingInv, SlotsAccounted, LinesCounted, FreeCounted

\* A step of a thread preserves the parts that say where the threads are.
LEMMA PlacesNext ==
  ASSUME RingInv, RingNext
  PROVE  PlacesOK' /\ MutHeld' /\ IndexFresh' /\ LineGiven'
<1> USE RingAssumption DEF RingInv, RingTypeOK, PlacesOK, MutHeld, IndexFresh, LineGiven,
         ProducerPlaces, ConsumerPlaces, LockedPlaces, Threads, GoTo
<1>1. ASSUME NEW p \in Producers, CallInsert(p)
      PROVE  PlacesOK' /\ MutHeld' /\ IndexFresh' /\ LineGiven'
  BY <1>1 DEF CallInsert
<1>2. ASSUME NEW p \in Producers, WaitEmpty(p)
      PROVE  PlacesOK' /\ MutHeld' /\ IndexFresh' /\ LineGiven'
  BY <1>2 DEF WaitEmpty
<1>3. ASSUME NEW p \in Producers, LockAndReadTail(p)
      PROVE  PlacesOK' /\ MutHeld' /\ IndexFresh' /\ LineGiven'
  BY <1>3 DEF LockAndReadTail
<1>4. ASSUME NEW p \in Producers, StoreLine(p)
      PROVE  PlacesOK' /\ MutHeld' /\ IndexFresh' /\ LineGiven'
  BY <1>4 DEF StoreLine
<1>5. ASSUME NEW p \in Producers, PostFull(p)
      PROVE  PlacesOK' /\ MutHeld' /\ IndexFresh' /\ LineGiven'
  BY <1>5 DEF PostFull
<1>6. ASSUME NEW c \in Consumers, CallRemove(c)
      PROVE  PlacesOK' /\ MutHeld' /\ IndexFresh' /\ LineGiven'
  BY <1>6 DEF CallRemove
<1>7. ASSUME NEW c \in Consumers, WaitFull(c)
      PROVE  PlacesOK' /\ MutHeld' /\ IndexFresh' /\ LineGiven'
  BY <1>7 DEF WaitFull
<1>8. ASSUME NEW c \in Consumers, LockAndReadHead(c)
      PROVE  PlacesOK' /\ MutHeld' /\ IndexFresh' /\ LineGiven'
  BY <1>8 DEF LockAndReadHead
<1>9. ASSUME NEW c \in Consumers, LoadLine(c)
      PROVE  PlacesOK' /\ MutHeld' /\ IndexFresh' /\ LineGiven'
  BY <1>9 DEF LoadLine
<1>10. ASSUME NEW c \in Consumers, PostEmpty(c)
      PROVE  PlacesOK' /\ MutHeld' /\ IndexFresh' /\ LineGiven'
  BY <1>10 DEF PostEmpty
<1>11. ASSUME NEW t \in Threads, PostMut(t)
      PROVE  PlacesOK' /\ MutHeld' /\ IndexFresh' /\ LineGiven'
  BY <1>11 DEF PostMut
<1> QED
  BY <1>1, <1>2, <1>3, <1>4, <1>5, <1>6, <1>7, <1>8, <1>9, <1>10, <1>11 DEF RingNext, ProducerStep, ConsumerStep

\* A thread at one of the places is counted.
LEMMA BetweenMember ==
  ASSUME NEW S \in {Producers, Consumers}, NEW places, NEW t
  PROVE  /\ Between(S, places) \in Nat
         /\ t \in S /\ at[t] \in places => Between(S, places) > 0
<1>1. IsFiniteSet(S)
  BY RingAssumption
<1>2. /\ CountIn(S, at, places) \in Nat
      /\ CountIn(S, at, places) >= IF t \in S /\ at[t] \in places THEN 1 ELSE 0
  BY <1>1, CountMove
<1> QED
  BY <1>2 DEF Between, CountIn

\* A producer at the array has a slot for its line ...
LEMMA RoomToStore ==
  ASSUME RingInv, NEW p \in Producers, at[p] = "store"
  PROVE  Stored < Capacity
<1>1. Between(Producers, {"lock", "store"}) > 0 /\ Between(Producers, {"lock", "store"}) \in Nat
  BY BetweenMember
<1>2. Between(Consumers, {"postEmpty"}) \in Nat
  BY BetweenMember
<1> QED
  BY <1>1, <1>2, StoredIs, RingAssumption DEF RingInv, FreeCounted, RingTypeOK

\* ... and a consumer at the array has a line to take.
LEMMA LineToLoad ==
  ASSUME RingInv, NEW c \in Consumers, at[c] = "load"
  PROVE  Stored > 0
<1>1. Between(Consumers, {"lock", "load"}) > 0 /\ Between(Consumers, {"lock", "load"}) \in Nat
  BY BetweenMember
<1>2. Between(Producers, {"postFull"}) \in Nat
  BY BetweenMember
<1> QED
  BY <1>1, <1>2, StoredIs, RingAssumption DEF RingInv, LinesCounted, RingTypeOK

\* A step of a thread preserves the three sums.
LEMMA CountsNext ==
  ASSUME RingInv, RingNext
  PROVE  SlotsAccounted' /\ LinesCounted' /\ FreeCounted'
<1> USE RingAssumption DEF RingInv, SlotsAccounted, LinesCounted, FreeCounted, Moves, Adds
<1>0. /\ Stored \in Int
      /\ Producers \subseteq Threads /\ Consumers \subseteq Threads
      /\ full \in Int /\ empty \in Int /\ Capacity \in Int
  BY StoredIs DEF Threads, RingTypeOK
<1>a. ASSUME head' = head, tail' = tail
      PROVE  Stored' = Stored
  BY <1>a DEF Stored
<1>1. ASSUME NEW p \in Producers, CallInsert(p)
      PROVE  SlotsAccounted' /\ LinesCounted' /\ FreeCounted'
  <2>1. Stored' = Stored
    BY <1>1, <1>a DEF CallInsert
  <2>2. GoTo(p, "waitEmpty") /\ p \in Threads
    BY <1>1, <1>0 DEF CallInsert
  <2> QED
    BY <1>1, <2>1, <2>2, <1>0, CountsMove DEF CallInsert
<1>2. ASSUME NEW p \in Producers, WaitEmpty(p)
      PROVE  SlotsAccounted' /\ LinesCounted' /\ FreeCounted'
  <2>1. Stored' = Stored
    BY <1>2, <1>a DEF WaitEmpty
  <2>2. GoTo(p, "lock") /\ p \in Threads
    BY <1>2, <1>0 DEF WaitEmpty
  <2> QED
    BY <1>2, <2>1, <2>2, <1>0, CountsMove DEF WaitEmpty
<1>3. ASSUME NEW p \in Producers, LockAndReadTail(p)
      PROVE  SlotsAccounted' /\ LinesCounted' /\ FreeCounted'
  <2>1. Stored' = Stored
    BY <1>3, <1>a DEF LockAndReadTail
  <2>2. GoTo(p, "store") /\ p \in Threads
    BY <1>3, <1>0 DEF LockAndReadTail
  <2> QED
    BY <1>3, <2>1, <2>2, <1>0, CountsMove DEF LockAndReadTail
<1>4. ASSUME NEW p \in Producers, StoreLine(p)
      PROVE  SlotsAccounted' /\ LinesCounted' /\ FreeCounted'
  <2>1. Stored' = Stored + 1
    BY <1>0, <1>4, RoomToStore, StoredAfterInsert DEF StoreLine, IndexFresh, RingTypeOK
  <2>2. GoTo(p, "postFull") /\ p \in Threads
    BY <1>4, <1>0 DEF StoreLine
  <2> QED
    BY <1>4, <2>1, <2>2, <1>0, CountsMove DEF StoreLine
<1>5. ASSUME NEW p \in Producers, PostFull(p)
      PROVE  SlotsAccounted' /\ LinesCounted' /\ FreeCounted'
  <2>1. Stored' = Stored
    BY <1>5, <1>a DEF PostFull
  <2>2. GoTo(p, "unlock") /\ p \in Threads
    BY <1>5, <1>0 DEF PostFull
  <2> QED
    BY <1>5, <2>1, <2>2, <1>0, CountsMove DEF PostFull
<1>6. ASSUME NEW c \in Consumers, CallRemove(c)
      PROVE  SlotsAccounted' /\ LinesCounted' /\ FreeCounted'
  <2>1. Stored' = Stored
    BY <1>6, <1>a DEF CallRemove
  <2>2. GoTo(c, "waitFull") /\ c \in Threads
    BY <1>6, <1>0 DEF CallRemove
  <2> QED
    BY <1>6, <2>1, <2>2, <1>0, CountsMove DEF CallRemove
<1>7. ASSUME NEW c \in Consumers, WaitFull(c)
      PROVE  SlotsAccounted' /\ LinesCounted' /\ FreeCounted'
  <2>1. Stored' = Stored
    BY <1>7, <1>a DEF WaitFull
  <2>2. GoTo(c, "lock") /\ c \in Threads
    BY <1>7, <1>0 DEF WaitFull
  <2> QED
    BY <1>7, <2>1, <2>2, <1>0, CountsMove DEF WaitFull
<1>8. ASSUME NEW c \in Consumers, LockAndReadHead(c)
      PROVE  SlotsAccounted' /\ LinesCounted' /\ FreeCounted'
  <2>1. Stored' = Stored
    BY <1>8, <1>a DEF LockAndReadHead
  <2>2. GoTo(c, "load") /\ c \in Threads
    BY <1>8, <1>0 DEF LockAndReadHead
  <2> QED
    BY <1>8, <2>1, <2>2, <1>0, CountsMove DEF LockAndReadHead
<1>9. ASSUME NEW c \in Consumers, LoadLine(c)
      PROVE  SlotsAccounted' /\ LinesCounted' /\ FreeCounted'
  <2>1. Stored' = Stored - 1
    BY <1>9, LineToLoad, StoredAfterRemove DEF LoadLine, IndexFresh, RingTypeOK
  <2>2. GoTo(c, "postEmpty") /\ c \in Threads
    BY <1>9, <1>0 DEF LoadLine
  <2>3. /\ Moves(c, "postEmpty", Producers, {"lock", "store", "postFull"})
        /\ Moves(c, "postEmpty", Consumers, {"lock", "load", "postEmpty"})
        /\ Moves(c, "postEmpty", Consumers, {"lock", "load"})
        /\ Moves(c, "postEmpty", Producers, {"postFull"})
        /\ Moves(c, "postEmpty", Producers, {"lock", "store"})
        /\ Moves(c, "postEmpty", Consumers, {"postEmpty"})
    BY <2>2, CountsMove
  <2>4. at[c] = "load" /\ c \notin Producers /\ full' = full /\ empty' = empty
    BY <1>9 DEF LoadLine
  <2>5. SlotsAccounted'
    BY <2>3, <2>4, <1>0
  <2>6. LinesCounted'
    <3>1. Between(Consumers, {"lock", "load"})' = Between(Consumers, {"lock", "load"}) - 1
      BY <2>3, <2>4
    <3>2. Between(Producers, {"postFull"})' = Between(Producers, {"postFull"})
      BY <2>3, <2>4
    <3>3. /\ Between(Consumers, {"lock", "load"}) \in Nat
          /\ Between(Producers, {"postFull"}) \in Nat
      BY <2>3
    <3> QED
      BY <2>1, <2>4, <3>1, <3>2, <3>3, <1>0
  <2>7. FreeCounted'
    <3>1. Between(Producers, {"lock", "store"})' = Between(Producers, {"lock", "store"})
      BY <2>3, <2>4
    <3>2. Between(Consumers, {"postEmpty"})' = Between(Consumers, {"postEmpty"}) + 1
      BY <2>3, <2>4
    <3>3. /\ Between(Producers, {"lock", "store"}) \in Nat
          /\ Between(Consumers, {"postEmpty"}) \in Nat
      BY <2>3
    <3>4. Stored \in Int /\ empty \in Int /\ Capacity \in Int
      BY <1>0
    <3>5. empty + Between(Producers, {"lock", "store"})
            + Between(Consumers, {"postEmpty"}) + 1 = Capacity - (Stored - 1)
      BY <3>3, <3>4
    <3> QED
      BY <2>1, <2>4, <3>1, <3>2, <3>3, <3>4, <3>5
  <2> QED
    BY <2>5, <2>6, <2>7
<1>10. ASSUME NEW c \in Consumers, PostEmpty(c)
      PROVE  SlotsAccounted' /\ LinesCounted' /\ FreeCounted'
  <2>1. Stored' = Stored
    BY <1>10, <1>a DEF PostEmpty
  <2>2. GoTo(c, "unlock") /\ c \in Threads
    BY <1>10, <1>0 DEF PostEmpty
  <2> QED
    BY <1>10, <2>1, <2>2, <1>0, CountsMove DEF PostEmpty
<1>11. ASSUME NEW t \in Threads, PostMut(t)
      PROVE  SlotsAccounted' /\ LinesCounted' /\ FreeCounted'
  <2>1. Stored' = Stored
    BY <1>11, <1>a DEF PostMut
  <2>2. GoTo(t, "idle") /\ t \in Threads
    BY <1>11, <1>0 DEF PostMut
  <2>3. CASE t \in Producers
    BY <1>11, <2>1, <2>2, <2>3, <1>0, CountsMove DEF PostMut
  <2>4. CASE t \in Consumers
    BY <1>11, <2>1, <2>2, <2>4, <1>0, CountsMove DEF PostMut
  <2> QED
    BY <2>3, <2>4 DEF Threads
<1> QED
  BY <1>1, <1>2, <1>3, <1>4, <1>5, <1>6, <1>7, <1>8, <1>9, <1>10, <1>11 DEF RingNext, ProducerStep, ConsumerStep, Threads

\* The two semaphores stay within the capacity because of the sums; the rest
\* of the types by what each step writes.
LEMMA TypesNext ==
  ASSUME RingInv, RingNext, SlotsAccounted'
  PROVE  RingTypeOK'
<1> USE RingAssumption DEF RingInv, RingTypeOK, GoTo
<1>1. \A c \in Counters : Incremented(c) \in Counters
  BY SlotAcrossWrap
<1>2. \A c \in Counters : SlotOf(c) \in Slots
  BY DEF SlotOf, Slots, Counters
<1>3. full' \in Nat /\ empty' \in Nat
  <2>1. ASSUME NEW p \in Producers, CallInsert(p)
        PROVE  full' \in Nat /\ empty' \in Nat
    BY <2>1 DEF CallInsert
  <2>2. ASSUME NEW p \in Producers, WaitEmpty(p)
        PROVE  full' \in Nat /\ empty' \in Nat
    BY <2>2 DEF WaitEmpty
  <2>3. ASSUME NEW p \in Producers, LockAndReadTail(p)
        PROVE  full' \in Nat /\ empty' \in Nat
    BY <2>3 DEF LockAndReadTail
  <2>4. ASSUME NEW p \in Producers, StoreLine(p)
        PROVE  full' \in Nat /\ empty' \in Nat
    BY <2>4 DEF StoreLine
  <2>5. ASSUME NEW p \in Producers, PostFull(p)
        PROVE  full' \in Nat /\ empty' \in Nat
    BY <2>5 DEF PostFull
  <2>6. ASSUME NEW c \in Consumers, CallRemove(c)
        PROVE  full' \in Nat /\ empty' \in Nat
    BY <2>6 DEF CallRemove
  <2>7. ASSUME NEW c \in Consumers, WaitFull(c)
        PROVE  full' \in Nat /\ empty' \in Nat
    BY <2>7 DEF WaitFull
  <2>8. ASSUME NEW c \in Consumers, LockAndReadHead(c)
        PROVE  full' \in Nat /\ empty' \in Nat
    BY <2>8 DEF LockAndReadHead
  <2>9. ASSUME NEW c \in Consumers, LoadLine(c)
        PROVE  full' \in Nat /\ empty' \in Nat
    BY <2>9 DEF LoadLine
  <2>10. ASSUME NEW c \in Consumers, PostEmpty(c)
        PROVE  full' \in Nat /\ empty' \in Nat
    BY <2>10 DEF PostEmpty
  <2>11. ASSUME NEW t \in Threads, PostMut(t)
        PROVE  full' \in Nat /\ empty' \in Nat
    BY <2>11 DEF PostMut
  <2> QED
    BY <2>1, <2>2, <2>3, <2>4, <2>5, <2>6, <2>7, <2>8, <2>9, <2>10, <2>11 DEF RingNext, ProducerStep, ConsumerStep, Threads
<1>4. full' \in 0 .. Capacity /\ empty' \in 0 .. Capacity
  <2>1. /\ Between(Producers, {"lock", "store", "postFull"})' \in Nat
        /\ Between(Consumers, {"lock", "load", "postEmpty"})' \in Nat
    <3>1. IsFiniteSet({t \in Producers : at'[t] \in {"lock", "store", "postFull"}})
      BY FS_Subset
    <3>2. IsFiniteSet({t \in Consumers : at'[t] \in {"lock", "load", "postEmpty"}})
      BY FS_Subset
    <3> QED
      BY <3>1, <3>2, FS_CardinalityType DEF Between
  <2> QED
    BY <1>3, <2>1 DEF SlotsAccounted
<1>5. ASSUME NEW p \in Producers, CallInsert(p)
      PROVE  RingTypeOK'
  BY <1>1, <1>2, <1>4, <1>5 DEF CallInsert, Threads
<1>6. ASSUME NEW p \in Producers, WaitEmpty(p)
      PROVE  RingTypeOK'
  BY <1>1, <1>2, <1>4, <1>6 DEF WaitEmpty, Threads
<1>7. ASSUME NEW p \in Producers, LockAndReadTail(p)
      PROVE  RingTypeOK'
  BY <1>1, <1>2, <1>4, <1>7 DEF LockAndReadTail, Threads, MutHeld, LockedPlaces
<1>8. ASSUME NEW p \in Producers, StoreLine(p)
      PROVE  RingTypeOK'
  <2>1. index[p] \in Counters /\ line[p] \in Lines \cup {NoLine} /\ 0 \in Counters
    BY <1>8 DEF Threads, Counters
  <2>2. buffer' \in [Slots -> Lines \cup {NoLine}]
    BY <1>2, <1>8, <2>1 DEF StoreLine
  <2>3. index' \in [Threads -> Counters] /\ tail' \in Counters
    BY <1>1, <1>8, <2>1 DEF StoreLine
  <2> QED
    BY <1>4, <1>8, <2>2, <2>3 DEF StoreLine
<1>9. ASSUME NEW p \in Producers, PostFull(p)
      PROVE  RingTypeOK'
  BY <1>1, <1>2, <1>4, <1>9 DEF PostFull, Threads
<1>10. ASSUME NEW c \in Consumers, CallRemove(c)
      PROVE  RingTypeOK'
  BY <1>1, <1>2, <1>4, <1>10 DEF CallRemove, Threads
<1>11. ASSUME NEW c \in Consumers, WaitFull(c)
      PROVE  RingTypeOK'
  BY <1>1, <1>2, <1>4, <1>11 DEF WaitFull, Threads
<1>12. ASSUME NEW c \in Consumers, LockAndReadHead(c)
      PROVE  RingTypeOK'
  BY <1>1, <1>2, <1>4, <1>12 DEF LockAndReadHead, Threads, MutHeld, LockedPlaces
<1>13. ASSUME NEW c \in Consumers, LoadLine(c)
      PROVE  RingTypeOK'
  <2>1. index[c] \in Counters /\ c \in Threads /\ 0 \in Counters
    BY <1>13 DEF Threads, Counters
  <2>2. popped' \in [Consumers -> Lines \cup {NoLine}]
    BY <1>2, <1>13, <2>1 DEF LoadLine
  <2>3. index' \in [Threads -> Counters] /\ head' \in Counters
    BY <1>1, <1>13, <2>1 DEF LoadLine
  <2> QED
    BY <1>4, <1>13, <2>2, <2>3 DEF LoadLine
<1>14. ASSUME NEW c \in Consumers, PostEmpty(c)
      PROVE  RingTypeOK'
  BY <1>1, <1>2, <1>4, <1>14 DEF PostEmpty, Threads
<1>15. ASSUME NEW t \in Threads, PostMut(t)
      PROVE  RingTypeOK'
  BY <1>1, <1>2, <1>4, <1>15 DEF PostMut, Threads, MutHeld, LockedPlaces
<1> QED
  BY <1>5, <1>6, <1>7, <1>8, <1>9, <1>10, <1>11, <1>12, <1>13, <1>14, <1>15 DEF RingNext, ProducerStep, ConsumerStep, Threads

\* The invariant is inductive.
LEMMA RingInvNext == RingInv /\ [RingNext]_ringVars => RingInv'
<1> SUFFICES ASSUME RingInv, [RingNext]_ringVars PROVE RingInv'
  OBVIOUS
<1>1. CASE UNCHANGED ringVars
  BY <1>1 DEF ringVars, RingInv, RingTypeOK, PlacesOK, MutHeld, IndexFresh, LineGiven,
              SlotsAccounted, LinesCounted, FreeCounted, Between, Stored
<1>2. CASE RingNext
  BY <1>2, PlacesNext, CountsNext, TypesNext DEF RingInv
<1> QED
  BY <1>1, <1>2

\* In every reachable state the variables have their types, mut excludes, and
\* no slot is lost or counted twice, whatever the number of threads.
THEOREM RingInvariant == RingSpec => [](RingTypeOK /\ SlotsAccounted)
<1>1. RingInv => RingTypeOK /\ SlotsAccounted
  BY DEF RingInv
<1> QED
  BY <1>1, RingInvInit, RingInvNext, PTL DEF RingSpec

\* Semaphores, counters, slots and places have their types in every reachable
\* state: no semaphore is posted beyond what its waits took.
THEOREM RingTypes == RingSpec => []RingTypeOK
  BY RingInvariant, PTL

-----------------------------------------------------------------------------
(* The ring implements the queue *)

\* The contents are a sequence of lines as long as the lines stored, from the
\* slot of the head to the slot before the tail's.
LEMMA ContentsIs ==
  ASSUME RingTypeOK
  PROVE  /\ Stored \in Nat
         /\ Contents \in Seq(Lines \cup {NoLine})
         /\ Len(Contents) = Stored
         /\ \A i \in 1 .. Stored : Contents[i] = buffer[SlotOf(head + i - 1)]
<1>1. Stored \in Nat
  BY StoredIs, RingAssumption
<1>2. \A x \in Int : SlotOf(x) \in Slots
  BY RingAssumption DEF SlotOf, Slots
<1>3. \A i \in 1 .. Stored : buffer[SlotOf(head + i - 1)] \in Lines \cup {NoLine}
  BY <1>1, <1>2 DEF RingTypeOK, Counters
<1>4. Contents \in [1 .. Stored -> Lines \cup {NoLine}]
  BY <1>3 DEF Contents
<1> QED
  BY <1>1, <1>4 DEF Contents

\* A line stored in the slot of the tail joins the contents at their end.
LEMMA StoreAppends ==
  ASSUME RingInv, RingTypeOK', NEW p \in Producers, StoreLine(p)
  PROVE  Stored < Capacity /\ Contents' = Append(Contents, line[p])
<1>1. /\ at[p] = "store" /\ index[p] = tail /\ head' = head
      /\ buffer' = [buffer EXCEPT ![SlotOf(tail)] = line[p]]
      /\ tail' = Incremented(tail) /\ line[p] \in Lines /\ RingTypeOK
  BY DEF StoreLine, RingInv, IndexFresh, LineGiven
<1>2. Stored < Capacity
  BY <1>1, RoomToStore
<1>3. Stored' = Stored + 1
  BY <1>1, <1>2, StoredIs, StoredAfterInsert, RingAssumption
<1>4. /\ Stored \in Nat /\ head \in Nat /\ Capacity \in Nat \ {0}
      /\ SlotOf(tail) = SlotOf(head + Stored) /\ SlotOf(tail) \in Slots
      /\ DOMAIN buffer = Slots
  BY <1>1, StoredIs, ContentsIs, RingAssumption DEF RingTypeOK, Counters, SlotOf, Slots
<1>5. ASSUME NEW i \in 1 .. Stored
      PROVE  buffer'[SlotOf(head + i - 1)] = buffer[SlotOf(head + i - 1)]
  <2>0. /\ head + i - 1 \in Int /\ head + Stored \in Int
        /\ head + i - 1 < head + Stored /\ head + Stored < (head + i - 1) + Capacity
    BY <1>2, <1>4
  <2>1. (head + i - 1) % Capacity # (head + Stored) % Capacity
    BY <1>4, <2>0, ModDiffer
  <2>2. SlotOf(head + i - 1) # SlotOf(tail)
    BY <1>4, <2>1 DEF SlotOf
  <2>3. SlotOf(head + i - 1) \in Slots
    BY <1>4 DEF SlotOf, Slots
  <2> QED
    BY <1>1, <1>4, <2>2, <2>3
<1>6. buffer'[SlotOf(head + (Stored + 1) - 1)] = line[p]
  BY <1>1, <1>4
<1>7. Contents' = [i \in 1 .. Stored + 1 |-> buffer'[SlotOf(head + i - 1)]]
  BY <1>1, <1>3 DEF Contents, SlotOf
<1>8. /\ Contents \in Seq(Lines \cup {NoLine}) /\ Len(Contents) = Stored
      /\ \A i \in 1 .. Stored : Contents[i] = buffer[SlotOf(head + i - 1)]
  BY <1>1, ContentsIs
<1> DEFINE longer == Append(Contents, line[p])
<1>a. /\ longer \in Seq(Lines \cup {NoLine}) /\ Len(longer) = Stored + 1
      /\ \A i \in 1 .. Stored : longer[i] = Contents[i]
      /\ longer[Stored + 1] = line[p]
  BY <1>1, <1>8, AppendProperties
<1> HIDE DEF longer
<1>9. \A i \in 1 .. Stored + 1 : buffer'[SlotOf(head + i - 1)] = longer[i]
  <2> SUFFICES ASSUME NEW i \in 1 .. Stored + 1
               PROVE  buffer'[SlotOf(head + i - 1)] = longer[i]
    OBVIOUS
  <2>1. CASE i = Stored + 1
    BY <1>6, <1>a, <2>1
  <2>2. CASE i \in 1 .. Stored
    BY <1>5, <1>8, <1>a, <2>2
  <2> QED
    BY <1>4, <2>1, <2>2
<1>10. longer = [i \in 1 .. Stored + 1 |-> longer[i]]
  BY <1>a, LenProperties
<1>11. Contents' = longer
  BY <1>7, <1>9, <1>10
<1> QED
  BY <1>2, <1>11 DEF longer

\* A consumer takes the oldest line and leaves the others in their order.
LEMMA LoadTakesHead ==
  ASSUME RingInv, NEW c \in Consumers, LoadLine(c)
  PROVE  /\ Contents # <<>>
         /\ popped' = [popped EXCEPT ![c] = Head(Contents)]
         /\ Contents' = Tail(Contents)
<1>1. /\ at[c] = "load" /\ index[c] = head /\ tail' = tail /\ buffer' = buffer
      /\ popped' = [popped EXCEPT ![c] = buffer[SlotOf(head)]]
      /\ head' = Incremented(head) /\ RingTypeOK
  BY DEF LoadLine, RingInv, IndexFresh
<1>2. Stored > 0
  BY <1>1, LineToLoad
<1>3. Stored' = Stored - 1
  BY <1>1, <1>2, StoredAfterRemove
<1>4. /\ Contents \in Seq(Lines \cup {NoLine}) /\ Len(Contents) = Stored /\ Stored \in Nat
      /\ \A i \in 1 .. Stored : Contents[i] = buffer[SlotOf(head + i - 1)]
  BY <1>1, ContentsIs
<1>5. head \in Counters /\ head \in Nat
  BY <1>1, RingAssumption DEF RingTypeOK, Counters
<1>6. Contents # <<>> /\ Head(Contents) = buffer[SlotOf(head)]
  <2>1. Contents[1] = buffer[SlotOf(head + 1 - 1)] /\ Contents # <<>>
    BY <1>2, <1>4
  <2>2. head + 1 - 1 = head
    BY <1>5
  <2>3. Head(Contents) = Contents[1]
    BY <1>4, <2>1
  <2> QED
    BY <2>1, <2>2, <2>3
<1>7. ASSUME NEW i \in 1 .. Stored - 1
      PROVE  buffer[SlotOf(head' + i - 1)] = Contents[i + 1]
  <2>1. SlotOf(Incremented(head) + (i - 1)) = SlotOf(head + 1 + (i - 1))
    BY <1>5, SlotAcrossWrap
  <2>2. Incremented(head) \in Int
    BY <1>5, RingAssumption DEF Incremented
  <2>3. /\ Incremented(head) + (i - 1) = head' + i - 1
        /\ head + 1 + (i - 1) = head + (i + 1) - 1
    BY <1>1, <1>4, <1>5, <2>2
  <2>4. Contents[i + 1] = buffer[SlotOf(head + (i + 1) - 1)]
    BY <1>4
  <2> QED
    BY <2>1, <2>3, <2>4
<1>8. Contents' = [i \in 1 .. Stored - 1 |-> buffer[SlotOf(head' + i - 1)]]
  BY <1>1, <1>3 DEF Contents, SlotOf
<1> DEFINE rest == Tail(Contents)
<1>9. /\ rest \in Seq(Lines \cup {NoLine}) /\ Len(rest) = Stored - 1
      /\ \A i \in 1 .. Stored - 1 : rest[i] = Contents[i + 1]
  BY <1>4, <1>6, HeadTailProperties
<1> HIDE DEF rest
<1>10. rest = [i \in 1 .. Stored - 1 |-> rest[i]]
  BY <1>9, LenProperties
<1>11. Contents' = rest
  BY <1>7, <1>8, <1>9, <1>10
<1> QED
  BY <1>1, <1>6, <1>11 DEF rest

\* A step of the ring is a step of the queue or leaves it unchanged.
LEMMA RingStepIsQueueStep ==
  ASSUME RingInv, RingInv', [RingNext]_ringVars
  PROVE  [Queue!QueueNext]_(Queue!queueVars)
<1>1. ASSUME head' = head, tail' = tail, buffer' = buffer, popped' = popped
      PROVE  UNCHANGED Queue!queueVars
  BY <1>1 DEF Queue!queueVars, Contents, Stored
<1>2. ASSUME NEW p \in Producers, StoreLine(p)
      PROVE  Queue!QueueNext
  <2>1. Stored < Capacity /\ Contents' = Append(Contents, line[p])
    BY <1>2, StoreAppends DEF RingInv
  <2>2. line[p] \in Lines /\ popped' = popped /\ Len(Contents) = Stored
    BY <1>2, ContentsIs DEF StoreLine, RingInv, LineGiven
  <2>3. Queue!Insert(line[p])
    BY <2>1, <2>2 DEF Queue!Insert, Queue!CanInsert
  <2> QED
    BY <2>2, <2>3 DEF Queue!QueueNext
<1>3. ASSUME NEW c \in Consumers, LoadLine(c)
      PROVE  Queue!QueueNext
  <2>1. Queue!Remove(c)
    BY <1>3, LoadTakesHead DEF Queue!Remove
  <2> QED
    BY <2>1 DEF Queue!QueueNext
<1>4. ASSUME NEW p \in Producers,
             CallInsert(p) \/ WaitEmpty(p) \/ LockAndReadTail(p) \/ PostFull(p)
      PROVE  UNCHANGED Queue!queueVars
  BY <1>1, <1>4 DEF CallInsert, WaitEmpty, LockAndReadTail, PostFull
<1>5. ASSUME NEW c \in Consumers,
             CallRemove(c) \/ WaitFull(c) \/ LockAndReadHead(c) \/ PostEmpty(c)
      PROVE  UNCHANGED Queue!queueVars
  BY <1>1, <1>5 DEF CallRemove, WaitFull, LockAndReadHead, PostEmpty
<1>6. ASSUME NEW t \in Threads, PostMut(t)
      PROVE  UNCHANGED Queue!queueVars
  BY <1>1, <1>6 DEF PostMut
<1>7. CASE UNCHANGED ringVars
  BY <1>1, <1>7 DEF ringVars
<1> QED
  BY <1>2, <1>3, <1>4, <1>5, <1>6, <1>7 DEF RingNext, ProducerStep, ConsumerStep, Threads

\* The ring is a bounded first-in first-out queue: whatever the interleaving
\* of producers and consumers and however often the counters have wrapped,
\* a line enters where it is stored, at the end, and leaves where it is read,
\* at the front, never when there are Capacity lines already.
THEOREM RingImplementsQueue == RingSpec => ImplementsQueue
<1>1. RingInit => Queue!QueueInit
  <2> SUFFICES ASSUME RingInit PROVE Queue!QueueInit
    OBVIOUS
  <2>1. Stored = 0
    BY RingAssumption DEF RingInit, Stored
  <2>2. RingTypeOK
    BY RingInvInit DEF RingInv
  <2>3. Contents = <<>>
    BY <2>1, <2>2, ContentsIs
  <2> QED
    BY <2>3 DEF RingInit, Queue!QueueInit
<1> QED
  BY <1>1, RingInvInit, RingInvNext, RingStepIsQueueStep, PTL
     DEF RingSpec, ImplementsQueue, Queue!QueueSpec
=============================================================================
