------------------------ MODULE ThreadedQueueProofs ------------------------
(***************************************************************************)
(* Theorems about ThreadedQueue for every input, argument and freedom of   *)
(* the waits.  ThreadedInv says who has the mutex, what a signal tells the *)
(* thread that it wakes, and where every line that was kept is: received,  *)
(* held by the reader, in the queue or held by the writer, in this order.  *)
(***************************************************************************)
EXTENDS ThreadedQueue, SequenceTheorems, TLAPS

\* A thread does nothing before main creates it.
Started ==
  /\ main = "createEmail" => pc[Email] = "created"
  /\ main \in {"createEmail", "createCalendar"} => pc[Calendar] = "created"

\* A thread has the mutex between its return from a lock or a wait and the
\* next wait or unlock.
MutexHeld == \A t \in Threads : mutex = t <=> pc[t] \in {"wait", "signal", "unlock"}

\* A reader that was woken by a signal finds a line: the writer signals after
\* it has inserted one, before it gives the mutex back.
ReaderHasLine ==
  /\ pc[Email] = "signal" => queue # <<>>
  /\ Calendar \notin unasked =>
       /\ pc[Calendar] = "woken" => queue # <<>>
       /\ pc[Calendar] \in {"signal", "unlock", "use"} => line # NULL
       /\ ~fault

\* A writer that was woken by a signal finds the queue empty.
WriterHasRoom ==
  Email \notin unasked =>
    /\ Len(queue) <= qsize
    /\ pc[Calendar] = "signal" \/ pc[Email] = "woken" => queue = <<>>

\* The order of the lines; EOF comes after all of them.
Rank(x) == IF x = EOF THEN Len(input) + 1 ELSE x
Before(A, B) == \A a \in A : \A b \in B : Rank(a) < Rank(b)

\* The line that the calendar filter has taken and not used, and the one that
\* the email filter has not inserted yet.
LineHeld == IF pc[Calendar] \in {"signal", "unlock", "use"} /\ line # NULL THEN {line} ELSE {}
ResHeld == IF pc[Email] \in {"lock", "wait", "waiting", "woken"} THEN {res} ELSE {}

Increasing(s) == \A i, j \in DOMAIN s : i < j => Rank(s[i]) < Rank(s[j])
Decreasing(s) == \A i, j \in DOMAIN s : i < j => Rank(s[j]) < Rank(s[i])

\* What is received comes before what is held to be used, that before what is
\* in the queue, and that before what is to be inserted.
LinesOrdered ==
  /\ Increasing(received)
  /\ Decreasing(queue)
  /\ Before(Range(received), LineHeld)
  /\ Before(Range(received) \cup LineHeld, Range(queue))
  /\ Before(Range(received) \cup LineHeld \cup Range(queue), ResHeld)

\* Where a line is that has been read and kept.
Passing == Range(received) \cup LineHeld \cup Range(queue) \cup ResHeld

\* No line that is kept is lost, and none comes from elsewhere.
LinesKept ==
  /\ Range(received) \subseteq KeptLines
  /\ Passing \subseteq KeptLines \cup {EOF}
  /\ \A k \in Passing \ {EOF} : k < next
  /\ \A k \in KeptLines : k < next => k \in Passing

\* EOF comes when the input is at its end, and no line comes after it.
EndLast ==
  /\ res = EOF => next > Len(input)
  /\ EOF \in LineHeld \cup Range(queue) \/ pc[Calendar] = "exited" =>
       res = EOF /\ pc[Email] \in {"signal", "unlock", "exited"}
  /\ pc[Calendar] = "exited" => queue = <<>>

ThreadedInv ==
  /\ TypeOK /\ Started /\ MutexHeld
  /\ ReaderHasLine /\ WriterHasRoom
  /\ LinesOrdered /\ LinesKept /\ EndLast

-----------------------------------------------------------------------------
(* Steps and what they do to the queue *)

\* Before the first step no line has been read.
LEMMA ThreadedInit == Init => ThreadedInv
<1> SUFFICES ASSUME Init PROVE ThreadedInv
  OBVIOUS
<1>1. input \in Inputs /\ input \in Seq(Kinds) /\ Len(input) \in Nat
  BY ThreadedAssumption DEF Init
<1>2. TypeOK
  <2>1. pc \in [Threads -> Places]
    BY DEF Init, Places
  <2>2. next \in 1 .. Len(input) + 1
    BY <1>1 DEF Init
  <2>3. unasked \subseteq Threads /\ queue \in Seq(0 .. Len(input)) /\ received \in Seq(1 .. Len(input))
    BY DEF Init
  <2> QED
    BY <1>1, <2>1, <2>2, <2>3 DEF Init, TypeOK
<1>3. Started /\ MutexHeld
  BY DEF Init, Started, MutexHeld, Threads, Email, Calendar
<1>4. LineHeld = {} /\ ResHeld = {}
  BY DEF Init, LineHeld, ResHeld, Threads, Email, Calendar
<1>5. Range(received) = {} /\ Range(queue) = {}
  BY DEF Init, Range
<1>6. ReaderHasLine /\ WriterHasRoom
  BY DEF Init, ReaderHasLine, WriterHasRoom, Threads, Email, Calendar
<1>7. LinesOrdered
  BY <1>4, <1>5 DEF Init, LinesOrdered, Increasing, Decreasing, Before
<1>8. LinesKept
  BY <1>1, <1>4, <1>5 DEF Init, LinesKept, Passing, KeptLines
<1>9. EndLast
  BY <1>4, <1>5 DEF Init, EndLast, NULL, EOF, Threads, Email, Calendar
<1> QED
  BY <1>2, <1>3, <1>6, <1>7, <1>8, <1>9 DEF ThreadedInv

\* What main, and a thread in the middle of an exchange, do to the lines: nothing.
Passive(t) ==
  \/ Lock(t) /\ MustWait(t)
  \/ Wait(t)
  \/ SpuriousWake(t)
  \/ Signal(t)
  \/ Unlock(t)

\* The ways in which a thread changes the queue.
Changes(t) == (Lock(t) /\ ~MustWait(t)) \/ Rewake(t)

\* Every step is one of these.
LEMMA StepKinds ==
  ASSUME Next
  PROVE  \/ MainStep
         \/ \E t \in Threads : Passive(t)
         \/ Changes(Email)
         \/ Changes(Calendar)
         \/ ReadLine
         \/ ReadEnd
         \/ Process
  BY DEF Next, EmailStep, CalendarStep, Exchange, Passive, Changes, Threads

\* Which thread has the mutex after a step.
LEMMA MutexNext == TypeOK /\ Started /\ MutexHeld /\ Next => Started' /\ MutexHeld'
<1> SUFFICES ASSUME TypeOK, Started, MutexHeld, Next PROVE Started' /\ MutexHeld'
  OBVIOUS
<1> USE DEF Started, MutexHeld, TypeOK, Threads, Email, Calendar, At, GoTo
<1>1. CASE MainStep
  <2>1. CASE CreateEmail
    BY <2>1 DEF CreateEmail, MainGoes
  <2>2. CASE CreateCalendar
    BY <2>2 DEF CreateCalendar, MainGoes
  <2>3. CASE JoinEmail \/ JoinCalendar
    BY <2>3 DEF JoinEmail, JoinCalendar, MainGoes
  <2> QED
    BY <1>1, <2>1, <2>2, <2>3 DEF MainStep
<1>2. ASSUME NEW t \in Threads, Lock(t) \/ Rewake(t) PROVE Started' /\ MutexHeld'
  BY <1>2 DEF Lock, Rewake
<1>3. ASSUME NEW t \in Threads, Wait(t) \/ SpuriousWake(t) PROVE Started' /\ MutexHeld'
  BY <1>3 DEF Wait, SpuriousWake
<1>4. ASSUME NEW t \in Threads, Signal(t) PROVE Started' /\ MutexHeld'
  BY <1>4 DEF Signal
<1>5. ASSUME NEW t \in Threads, Unlock(t) PROVE Started' /\ MutexHeld'
  BY <1>5 DEF Unlock
<1>6. CASE ReadLine \/ ReadEnd
  BY <1>6 DEF ReadLine, ReadEnd
<1>7. CASE Process
  BY <1>7 DEF Process
<1> QED
  BY <1>1, <1>2, <1>3, <1>4, <1>5, <1>6, <1>7 DEF Next, EmailStep, CalendarStep, Exchange

\* What the email filter can write, and the queue it writes to.
Items == {NULL} \cup 0 .. Len(input)

\* The elements of a sequence.
LEMMA RangeIs ==
  ASSUME NEW S, NEW s \in Seq(S)
  PROVE  Range(s) = {s[i] : i \in 1 .. Len(s)}
  BY DEF Range

\* A sequence over a set is one over a larger set.
LEMMA SeqWider ==
  ASSUME NEW S, NEW T, S \subseteq T, NEW s \in Seq(S)
  PROVE  s \in Seq(T)
  OBVIOUS

\* Inserting puts a line before the others.
LEMMA InsertEffect ==
  ASSUME TypeOK, Changes(Email)
  PROVE  /\ Len(queue') = Len(queue) + 1
         /\ \A i \in 1 .. Len(queue) + 1 : queue'[i] = IF i = 1 THEN res ELSE queue[i - 1]
         /\ Range(queue') = {res} \cup Range(queue)
         /\ queue' \in Seq(Items)
         /\ UNCHANGED line
<1>1. queue' = <<res>> \o queue /\ UNCHANGED line
  BY DEF Changes, Lock, Rewake, Change, InsertIntoQ, Email, Calendar
<1>2. queue \in Seq(Items) /\ <<res>> \in Seq(Items) /\ Len(queue) \in Nat
  <2>1. queue \in Seq(0 .. Len(input)) /\ 0 .. Len(input) \subseteq Items /\ res \in Items
    BY DEF TypeOK, Items
  <2> QED
    BY <2>1, SeqWider
<1>3. /\ Len(queue') = 1 + Len(queue)
      /\ \A i \in 1 .. 1 + Len(queue) : queue'[i] = IF i <= 1 THEN <<res>>[i] ELSE queue[i - 1]
      /\ queue' \in Seq(Items)
  BY <1>1, <1>2, ConcatProperties
<1>4. \A i \in 1 .. Len(queue) + 1 : queue'[i] = IF i = 1 THEN res ELSE queue[i - 1]
  BY <1>2, <1>3
<1>5. Range(queue') = {queue'[i] : i \in 1 .. Len(queue) + 1} /\ Range(queue) = {queue[i] : i \in 1 .. Len(queue)}
  BY <1>2, <1>3 DEF Range
<1>6. Range(queue') \subseteq {res} \cup Range(queue)
  BY <1>2, <1>4, <1>5
<1>7. res \in Range(queue')
  BY <1>2, <1>4, <1>5
<1>8. ASSUME NEW i \in 1 .. Len(queue) PROVE queue[i] \in Range(queue')
  <2>1. i + 1 \in 1 .. Len(queue) + 1 /\ queue'[i + 1] = queue[i]
    BY <1>2, <1>4
  <2> QED
    BY <1>5, <2>1
<1>9. Range(queue') = {res} \cup Range(queue)
  BY <1>5, <1>6, <1>7, <1>8
<1>10. Len(queue') = Len(queue) + 1
  BY <1>2, <1>3
<1> QED
  BY <1>1, <1>3, <1>4, <1>9, <1>10

\* Removing takes the last line.
LEMMA RemoveEffect ==
  ASSUME TypeOK, Changes(Calendar), queue # <<>>
  PROVE  /\ Len(queue) > 0 /\ line' = queue[Len(queue)]
         /\ Len(queue') = Len(queue) - 1
         /\ \A i \in 1 .. Len(queue) - 1 : queue'[i] = queue[i]
         /\ Range(queue) = {line'} \cup Range(queue')
         /\ queue' \in Seq(0 .. Len(input))
<1>1. line' = queue[Len(queue)] /\ queue' = SubSeq(queue, 1, Len(queue) - 1)
  BY DEF Changes, Lock, Rewake, Change, RemoveFromQ, Last, Front, Email, Calendar
<1>2. queue \in Seq(0 .. Len(input)) /\ Len(queue) \in Nat /\ Len(queue) > 0
  BY DEF TypeOK
<1>3. Len(queue) - 1 \in Int /\ \A i \in 1 .. Len(queue) - 1 : queue[i] \in 0 .. Len(input)
  BY <1>2
<1>4. /\ queue' \in Seq(0 .. Len(input))
      /\ Len(queue') = IF 1 <= Len(queue) - 1 THEN Len(queue) - 1 - 1 + 1 ELSE 0
      /\ \A i \in 1 .. Len(queue) - 1 - 1 + 1 : queue'[i] = queue[1 + i - 1]
  BY <1>1, <1>3, SubSeqProperties
<1>5. Len(queue') = Len(queue) - 1 /\ \A i \in 1 .. Len(queue) - 1 : queue'[i] = queue[i]
  <2>1. ASSUME NEW n \in Nat, n > 0
        PROVE  /\ (IF 1 <= n - 1 THEN n - 1 - 1 + 1 ELSE 0) = n - 1
               /\ n - 1 - 1 + 1 = n - 1
               /\ \A i \in 1 .. n - 1 : 1 + i - 1 = i
    BY <2>1
  <2>2. Len(queue') = Len(queue) - 1
    BY <1>2, <1>4, <2>1
  <2>3. \A i \in 1 .. Len(queue) - 1 : 1 + i - 1 = i
    OBVIOUS
  <2>4. Len(queue) - 1 - 1 + 1 = Len(queue) - 1
    BY <1>2
  <2>5. \A i \in 1 .. Len(queue) - 1 : queue'[i] = queue[1 + i - 1]
    BY <1>4, <2>4
  <2> QED
    BY <2>2, <2>3, <2>5
<1>6. Range(queue') = {queue'[i] : i \in 1 .. Len(queue) - 1} /\ Range(queue) = {queue[i] : i \in 1 .. Len(queue)}
  <2>1. Range(queue') = {queue'[i] : i \in 1 .. Len(queue')}
    BY <1>4, RangeIs
  <2>2. Range(queue) = {queue[i] : i \in 1 .. Len(queue)}
    BY <1>2, RangeIs
  <2> QED
    BY <1>5, <2>1, <2>2
<1>7. Range(queue) = {line'} \cup Range(queue')
  <2>1. 1 .. Len(queue) = (1 .. Len(queue) - 1) \cup {Len(queue)}
    BY <1>2
  <2> QED
    BY <1>1, <1>5, <1>6, <2>1
<1> QED
  BY <1>1, <1>2, <1>4, <1>5, <1>7

\* The calendar filter finds nothing in an empty queue.
LEMMA RemoveNone ==
  ASSUME TypeOK, Changes(Calendar), queue = <<>>
  PROVE  queue' = <<>> /\ line' = NULL
BY DEF Changes, Lock, Rewake, Change, RemoveFromQ, Email, Calendar

\* Outside the queue's own functions a step leaves the lines where they are.
LEMMA PassiveStays ==
  ASSUME TypeOK, Started, MainStep \/ \E t \in Threads : Passive(t)
  PROVE  /\ UNCHANGED <<input, next, queue, res, line, received, fault>>
         /\ LineHeld' = LineHeld /\ ResHeld' = ResHeld
         /\ pc[Email] \in {"signal", "unlock", "exited"} /\ res = EOF =>
              pc'[Email] \in {"signal", "unlock", "exited"}
         /\ pc'[Calendar] = "exited" <=> pc[Calendar] = "exited"
<1> USE DEF Started, TypeOK, Threads, Email, Calendar, At, GoTo, LineHeld, ResHeld
<1>1. CASE CreateEmail
  BY <1>1 DEF CreateEmail, MainGoes
<1>2. CASE CreateCalendar
  BY <1>2 DEF CreateCalendar, MainGoes
<1>3. CASE JoinEmail \/ JoinCalendar
  BY <1>3 DEF JoinEmail, JoinCalendar, MainGoes
<1>4. ASSUME NEW t \in Threads, Lock(t), MustWait(t)
      PROVE  UNCHANGED <<queue, line>> /\ GoTo(t, "wait")
  BY <1>4 DEF Lock
<1>5. ASSUME NEW t \in Threads, Lock(t), MustWait(t)
      PROVE  /\ UNCHANGED <<input, next, queue, res, line, received, fault>>
             /\ LineHeld' = LineHeld /\ ResHeld' = ResHeld
             /\ pc[Email] \in {"signal", "unlock", "exited"} /\ res = EOF =>
                  pc'[Email] \in {"signal", "unlock", "exited"}
             /\ pc'[Calendar] = "exited" <=> pc[Calendar] = "exited"
  BY <1>4, <1>5 DEF Lock
<1>6. ASSUME NEW t \in Threads, Wait(t) \/ SpuriousWake(t)
      PROVE  /\ UNCHANGED <<input, next, queue, res, line, received, fault>>
             /\ LineHeld' = LineHeld /\ ResHeld' = ResHeld
             /\ pc[Email] \in {"signal", "unlock", "exited"} /\ res = EOF =>
                  pc'[Email] \in {"signal", "unlock", "exited"}
             /\ pc'[Calendar] = "exited" <=> pc[Calendar] = "exited"
  BY <1>6 DEF Wait, SpuriousWake
<1>7. ASSUME NEW t \in Threads, Signal(t)
      PROVE  /\ UNCHANGED <<input, next, queue, res, line, received, fault>>
             /\ LineHeld' = LineHeld /\ ResHeld' = ResHeld
             /\ pc[Email] \in {"signal", "unlock", "exited"} /\ res = EOF =>
                  pc'[Email] \in {"signal", "unlock", "exited"}
             /\ pc'[Calendar] = "exited" <=> pc[Calendar] = "exited"
  BY <1>7 DEF Signal
<1>8. ASSUME NEW t \in Threads, Unlock(t)
      PROVE  /\ UNCHANGED <<input, next, queue, res, line, received, fault>>
             /\ LineHeld' = LineHeld /\ ResHeld' = ResHeld
             /\ pc[Email] \in {"signal", "unlock", "exited"} /\ res = EOF =>
                  pc'[Email] \in {"signal", "unlock", "exited"}
             /\ pc'[Calendar] = "exited" <=> pc[Calendar] = "exited"
  BY <1>8 DEF Unlock
<1> QED
  BY <1>1, <1>2, <1>3, <1>5, <1>6, <1>7, <1>8 DEF MainStep, Passive

\* Where the lines are while one is inserted.
LEMMA InsertMoves ==
  ASSUME TypeOK, MutexHeld, Changes(Email)
  PROVE  /\ UNCHANGED <<input, next, res, received, fault, line>>
         /\ LineHeld' = LineHeld /\ ResHeld = {res} /\ ResHeld' = {}
         /\ pc[Email] \in {"lock", "woken"} /\ pc' = [pc EXCEPT ![Email] = "signal"]
         /\ unasked' = unasked /\ qsize' = qsize /\ mutex = "free"
<1> USE DEF TypeOK, Threads, Email, Calendar, At, GoTo, LineHeld, ResHeld
<1>1. /\ UNCHANGED <<input, next, res, received, fault, unasked, qsize>>
      /\ pc[Email] \in {"lock", "woken"} /\ pc' = [pc EXCEPT ![Email] = "signal"]
      /\ mutex = "free"
  BY DEF Changes, Lock, Rewake
<1>2. line' = line
  BY DEF Changes, Lock, Rewake, Change, InsertIntoQ
<1> QED
  BY <1>1, <1>2

\* Where the lines are while one is removed.
LEMMA RemoveMoves ==
  ASSUME TypeOK, MutexHeld, Changes(Calendar)
  PROVE  /\ UNCHANGED <<input, next, res, received, fault>>
         /\ LineHeld = {} /\ LineHeld' = (IF line' # NULL THEN {line'} ELSE {})
         /\ ResHeld' = ResHeld
         /\ pc[Calendar] \in {"lock", "woken"} /\ pc' = [pc EXCEPT ![Calendar] = "signal"]
         /\ unasked' = unasked /\ qsize' = qsize /\ mutex = "free"
<1> USE DEF TypeOK, Threads, Email, Calendar, At, GoTo, LineHeld, ResHeld
<1>1. /\ UNCHANGED <<input, next, res, received, fault, unasked, qsize>>
      /\ pc[Calendar] \in {"lock", "woken"} /\ pc' = [pc EXCEPT ![Calendar] = "signal"]
      /\ mutex = "free"
  BY DEF Changes, Lock, Rewake
<1> QED
  BY <1>1

\* A thread that changes the queue may do so because of the lock or a signal.
LEMMA ChangeAllowed ==
  ASSUME NEW t \in Threads, Changes(t)
  PROVE  pc[t] = "woken" \/ ~MustWait(t)
  BY DEF Changes, Rewake, At

\* Signals keep their meaning: the other side's condition holds until it wakes.
LEMMA RoomNext ==
  ASSUME TypeOK, Started, MutexHeld, ReaderHasLine, WriterHasRoom, Next
  PROVE  ReaderHasLine' /\ WriterHasRoom'
<1> USE DEF TypeOK, Threads, Email, Calendar, At, GoTo
<1>0. qsize' = 1 /\ qsize = 1 /\ Len(queue) \in Nat /\ unasked \subseteq unasked'
  <2>1. qsize' = qsize /\ unasked \subseteq unasked'
    BY DEF Next, MainStep, CreateEmail, CreateCalendar, JoinEmail, JoinCalendar, EmailStep,
           CalendarStep, ReadLine, ReadEnd, Process, Exchange, Lock, Wait, Rewake, Signal,
           Unlock, SpuriousWake
  <2> QED
    BY <2>1
<1>1. CASE MainStep
  <2>1. UNCHANGED <<queue, line, fault, unasked>>
    BY <1>1 DEF MainStep, CreateEmail, CreateCalendar, JoinEmail, JoinCalendar
  <2>2. \A t \in Threads : pc'[t] = pc[t] \/ pc'[t] \in {"read", "lock"}
    BY <1>1 DEF MainStep, CreateEmail, CreateCalendar, JoinEmail, JoinCalendar
  <2> QED
    BY <1>0, <2>1, <2>2 DEF ReaderHasLine, WriterHasRoom
<1>2. ASSUME NEW t \in Threads, Lock(t), MustWait(t)
      PROVE  ReaderHasLine' /\ WriterHasRoom'
  <2>1. UNCHANGED <<queue, line, fault, unasked>> /\ pc' = [pc EXCEPT ![t] = "wait"]
    BY <1>2 DEF Lock
  <2> QED
    BY <1>0, <2>1 DEF ReaderHasLine, WriterHasRoom
<1>3. ASSUME NEW t \in Threads, Wait(t) \/ SpuriousWake(t)
      PROVE  ReaderHasLine' /\ WriterHasRoom'
  <2>1. UNCHANGED <<queue, line, fault>>
    BY <1>3 DEF Wait, SpuriousWake
  <2>2. CASE Wait(t)
    BY <1>0, <2>1, <2>2 DEF Wait, ReaderHasLine, WriterHasRoom
  <2>3. CASE SpuriousWake(t)
    BY <1>0, <2>1, <2>3 DEF SpuriousWake, ReaderHasLine, WriterHasRoom
  <2> QED
    BY <1>3, <2>2, <2>3
<1>4. ASSUME NEW t \in Threads, Signal(t)
      PROVE  ReaderHasLine' /\ WriterHasRoom'
  BY <1>0, <1>4 DEF Signal, ReaderHasLine, WriterHasRoom
<1>5. ASSUME NEW t \in Threads, Unlock(t)
      PROVE  ReaderHasLine' /\ WriterHasRoom'
  BY <1>0, <1>5 DEF Unlock, ReaderHasLine, WriterHasRoom
<1>6. CASE Changes(Email)
  <2>1. Len(queue') = Len(queue) + 1 /\ line' = line /\ queue' \in Seq(Items)
    BY <1>6, InsertEffect
  <2>2. /\ fault' = fault /\ unasked' = unasked /\ mutex = "free"
        /\ pc[Email] \in {"lock", "woken"} /\ pc' = [pc EXCEPT ![Email] = "signal"]
    BY <1>6, InsertMoves
  <2>3. pc[Email] = "woken" \/ Len(queue) < 1
    BY <1>0, <1>6, ChangeAllowed DEF MustWait
  <2>4. queue' # <<>>
    BY <1>0, <2>1
  <2>5. Email \notin unasked => Len(queue) = 0
    BY <1>0, <2>2, <2>3 DEF WriterHasRoom
  <2>6. pc[Calendar] # "signal"
    BY <2>2 DEF MutexHeld
  <2> QED
    BY <1>0, <2>1, <2>2, <2>4, <2>5, <2>6 DEF ReaderHasLine, WriterHasRoom
<1>7. CASE Changes(Calendar)
  <2>1. /\ fault' = fault /\ unasked' = unasked /\ mutex = "free"
        /\ pc[Calendar] \in {"lock", "woken"} /\ pc' = [pc EXCEPT ![Calendar] = "signal"]
    BY <1>7, RemoveMoves
  <2>2. pc[Calendar] = "woken" \/ queue # <<>>
    BY <1>7, ChangeAllowed DEF MustWait
  <2>3. pc[Email] # "signal"
    BY <2>1 DEF MutexHeld
  <2>4. CASE queue = <<>>
    <3>1. queue' = <<>> /\ line' = NULL
      BY <1>7, <2>4, RemoveNone
    <3> QED
      BY <1>0, <2>1, <2>2, <2>3, <2>4, <3>1 DEF ReaderHasLine, WriterHasRoom
  <2>5. CASE queue # <<>>
    <3>1. /\ Len(queue) > 0 /\ line' = queue[Len(queue)]
          /\ Len(queue') = Len(queue) - 1
          /\ queue' \in Seq(0 .. Len(input))
      BY <1>7, <2>5, RemoveEffect
    <3>2. line' # NULL
      <4>1. Len(queue) \in 1 .. Len(queue)
        BY <1>0, <3>1
      <4>2. line' \in 0 .. Len(input)
        BY <3>1, <4>1
      <4> QED
        BY <4>2 DEF NULL
    <3>3. Len(queue) <= 1 => queue' = <<>>
      BY <1>0, <3>1
    <3>4. Len(queue) <= 1 => Len(queue') <= 1
      BY <1>0, <3>1
    <3> QED
      BY <1>0, <2>1, <2>2, <2>3, <2>5, <3>2, <3>3, <3>4 DEF ReaderHasLine, WriterHasRoom
  <2> QED
    BY <2>4, <2>5
<1>8. CASE ReadLine \/ ReadEnd
  BY <1>0, <1>8 DEF ReadLine, ReadEnd, ReaderHasLine, WriterHasRoom
<1>9. CASE Process
  BY <1>0, <1>9 DEF Process, ReaderHasLine, WriterHasRoom
<1> QED
  BY <1>1, <1>2, <1>3, <1>4, <1>5, <1>6, <1>7, <1>8, <1>9, StepKinds DEF Passive

-----------------------------------------------------------------------------
(* The lines stay in order, and none is lost *)

\* The ranks are numbers.
LEMMA RankIs ==
  ASSUME TypeOK
  PROVE  /\ Len(input) \in Nat /\ next \in Nat
         /\ \A x \in 0 .. Len(input) : Rank(x) \in 1 .. Len(input) + 1
         /\ \A x \in 1 .. Len(input) : Rank(x) = x
         /\ Rank(EOF) = Len(input) + 1
         /\ KeptLines \subseteq 1 .. Len(input)
<1>1. input \in Seq(Kinds)
  BY ThreadedAssumption DEF TypeOK
<1>2. Len(input) \in Nat
  BY <1>1
<1>3. next \in Nat
  BY <1>2 DEF TypeOK
<1> QED
  BY <1>2, <1>3 DEF Rank, EOF, KeptLines

\* What a line that is held or inserted is.
LEMMA PassingTypes ==
  ASSUME TypeOK, LinesKept
  PROVE  /\ Range(received) \subseteq 1 .. Len(input)
         /\ LineHeld \subseteq 0 .. Len(input) /\ Range(queue) \subseteq 0 .. Len(input)
         /\ ResHeld \subseteq 0 .. Len(input)
  BY RankIs DEF LinesKept, Passing, EOF

\* Steps keep the types; what is inserted is a line or EOF, never NULL.
LEMMA TypesNext ==
  ASSUME TypeOK, Started, MutexHeld, LinesKept, Next
  PROVE  TypeOK'
<1> USE DEF Threads, Email, Calendar, At, GoTo
<1>0. /\ input' = input /\ argument' = argument /\ qsize' = qsize
      /\ Len(input) \in Nat /\ next \in 1 .. Len(input) + 1
      /\ mutex \in Threads \cup {"free"}
      /\ pc \in [Threads -> Places] /\ unasked \subseteq Threads
      /\ queue \in Seq(0 .. Len(input)) /\ received \in Seq(1 .. Len(input))
  <2>1. input' = input /\ argument' = argument /\ qsize' = qsize
    BY DEF Next, MainStep, CreateEmail, CreateCalendar, JoinEmail, JoinCalendar, EmailStep,
           CalendarStep, ReadLine, ReadEnd, Process, Exchange, Lock, Wait, Rewake, Signal,
           Unlock, SpuriousWake
  <2> QED
    BY <2>1, RankIs DEF TypeOK
<1>1. mutex' \in Threads \cup {"free"} /\ unasked' \subseteq Threads
  <2>1. mutex' \in {mutex, "free"} \cup Threads /\ unasked' \subseteq unasked \cup Threads
    BY DEF Next, MainStep, CreateEmail, CreateCalendar, JoinEmail, JoinCalendar, EmailStep,
           CalendarStep, ReadLine, ReadEnd, Process, Exchange, Lock, Wait, Rewake, Signal,
           Unlock, SpuriousWake
  <2> QED
    BY <1>0, <2>1
<1>2. main' \in {"createEmail", "createCalendar", "joinEmail", "joinCalendar", "exited"}
  <2>1. main \in {"createEmail", "createCalendar", "joinEmail", "joinCalendar", "exited"}
    BY DEF TypeOK
  <2>2. CASE MainStep
    BY <2>2 DEF MainStep, CreateEmail, CreateCalendar, JoinEmail, JoinCalendar, MainGoes
  <2>3. CASE ~MainStep
    <3>1. main' = main
      BY <2>3 DEF Next, EmailStep, CalendarStep, ReadLine, ReadEnd, Process, Exchange, Lock,
             Wait, Rewake, Signal, Unlock, SpuriousWake
    <3> QED
      BY <2>1, <3>1
  <2> QED
    BY <2>2, <2>3
<1>3. pc' \in [Threads -> Places]
  <2>1. CASE MainStep
    BY <1>0, <2>1 DEF MainStep, CreateEmail, CreateCalendar, JoinEmail, JoinCalendar, Places
  <2>2. ASSUME NEW t \in Threads, Lock(t) \/ Wait(t) \/ Rewake(t) \/ SpuriousWake(t)
        PROVE  pc' \in [Threads -> Places]
    BY <1>0, <2>2 DEF Lock, Wait, Rewake, SpuriousWake, Places
  <2>3. ASSUME NEW t \in Threads, Signal(t)
        PROVE  pc' \in [Threads -> Places]
    <3>1. pc' = [u \in Threads |-> IF u = t THEN "unlock"
                                   ELSE IF pc[u] = "waiting" THEN "woken" ELSE pc[u]]
      BY <2>3 DEF Signal
    <3> QED
      BY <1>0, <3>1 DEF Places
  <2>4. ASSUME NEW t \in Threads, Unlock(t)
        PROVE  pc' \in [Threads -> Places]
    BY <1>0, <2>4 DEF Unlock, Places
  <2>5. CASE ReadLine \/ ReadEnd \/ Process
    BY <1>0, <2>5 DEF ReadLine, ReadEnd, Process, Places
  <2> QED
    BY <2>1, <2>2, <2>3, <2>4, <2>5 DEF Next, EmailStep, CalendarStep, Exchange
<1>4. /\ next' \in 1 .. Len(input) + 1
      /\ queue' \in Seq(0 .. Len(input))
      /\ res' \in {NULL} \cup 0 .. Len(input)
      /\ line' \in {NULL} \cup 0 .. Len(input)
      /\ received' \in Seq(1 .. Len(input))
      /\ fault' \in BOOLEAN
  <2>0. /\ res \in {NULL} \cup 0 .. Len(input)
        /\ line \in {NULL} \cup 0 .. Len(input)
        /\ fault \in BOOLEAN
    BY DEF TypeOK
  <2>1. CASE MainStep \/ \E t \in Threads : Passive(t)
    BY <1>0, <2>0, <2>1, PassiveStays
  <2>2. CASE Changes(Email)
    <3>1. UNCHANGED <<next, res, received, fault, line>> /\ ResHeld = {res}
      BY <2>2, InsertMoves
    <3>2. res \in 0 .. Len(input)
      BY <3>1, PassingTypes
    <3>3. queue' = <<res>> \o queue
      BY <2>2 DEF Changes, Lock, Rewake, Change, InsertIntoQ
    <3>4. queue' \in Seq(0 .. Len(input))
      BY <1>0, <3>2, <3>3
    <3> QED
      BY <1>0, <2>0, <3>1, <3>4
  <2>3. CASE Changes(Calendar)
    <3>1. UNCHANGED <<next, res, received, fault>>
      BY <2>3, RemoveMoves
    <3>2. CASE queue = <<>>
      BY <1>0, <2>0, <2>3, <3>1, <3>2, RemoveNone
    <3>3. CASE queue # <<>>
      <4>1. /\ Len(queue) > 0 /\ line' = queue[Len(queue)]
            /\ queue' \in Seq(0 .. Len(input))
        BY <2>3, <3>3, RemoveEffect
      <4>2. line' \in 0 .. Len(input)
        <5>1. Len(queue) \in 1 .. Len(queue)
          BY <1>0, <4>1
        <5> QED
          BY <1>0, <4>1, <5>1
      <4> QED
        BY <1>0, <2>0, <3>1, <4>1, <4>2
    <3> QED
      BY <3>2, <3>3
  <2>4. CASE ReadLine
    <3>1. /\ next <= Len(input) /\ next' = next + 1
          /\ res' \in {res, next} /\ UNCHANGED <<queue, line, received, fault>>
      BY <2>4 DEF ReadLine
    <3> QED
      BY <1>0, <2>0, <3>1
  <2>5. CASE ReadEnd
    <3>1. res' = EOF /\ UNCHANGED <<next, queue, line, received, fault>>
      BY <2>5 DEF ReadEnd
    <3> QED
      BY <1>0, <2>0, <3>1 DEF EOF
  <2>6. CASE Process
    <3>1. /\ UNCHANGED <<next, queue, res, line>> /\ fault' \in {fault, TRUE}
          /\ \/ received' = received
             \/ line \notin {NULL, EOF} /\ received' = Append(received, line)
      BY <2>6 DEF Process
    <3>2. line \notin {NULL, EOF} => line \in 1 .. Len(input)
      BY <1>0, <2>0 DEF EOF
    <3>3. received' \in Seq(1 .. Len(input))
      <4>1. CASE received' = received
        BY <1>0, <4>1
      <4>2. CASE line \in 1 .. Len(input) /\ received' = Append(received, line)
        BY <1>0, <4>2, AppendProperties
      <4> QED
        BY <3>1, <3>2, <4>1, <4>2
    <3> QED
      BY <1>0, <2>0, <3>1, <3>3
  <2> QED
    BY <2>1, <2>2, <2>3, <2>4, <2>5, <2>6, StepKinds
<1>5. input \in Inputs /\ argument \in Arguments /\ qsize = 1
  BY DEF TypeOK
<1> QED
  BY <1>0, <1>1, <1>2, <1>3, <1>4, <1>5 DEF TypeOK

\* Where nothing is read, moved or used, the lines stay in order.
LEMMA LinesStay ==
  ASSUME TypeOK, Started, LinesOrdered, LinesKept, EndLast,
         MainStep \/ \E t \in Threads : Passive(t)
  PROVE  LinesOrdered' /\ LinesKept' /\ EndLast'
<1>1. /\ UNCHANGED <<input, next, queue, res, line, received>>
      /\ LineHeld' = LineHeld /\ ResHeld' = ResHeld
      /\ pc[Email] \in {"signal", "unlock", "exited"} /\ res = EOF =>
           pc'[Email] \in {"signal", "unlock", "exited"}
      /\ pc'[Calendar] = "exited" <=> pc[Calendar] = "exited"
  BY PassiveStays
<1>2. LinesOrdered'
  BY <1>1 DEF LinesOrdered, Before, Increasing, Decreasing, Rank
<1>3. Passing' = Passing /\ KeptLines' = KeptLines
  BY <1>1 DEF Passing, KeptLines
<1>4. LinesKept'
  BY <1>1, <1>3 DEF LinesKept
<1>5. EndLast'
  BY <1>1 DEF EndLast
<1> QED
  BY <1>2, <1>4, <1>5

\* A line that is inserted comes behind those in the queue.
LEMMA LinesInserted ==
  ASSUME TypeOK, MutexHeld, LinesOrdered, LinesKept, EndLast, Changes(Email)
  PROVE  LinesOrdered' /\ LinesKept' /\ EndLast'
<1>1. /\ UNCHANGED <<input, next, res, received, fault, line>>
      /\ LineHeld' = LineHeld /\ ResHeld = {res} /\ ResHeld' = {}
      /\ pc[Email] \in {"lock", "woken"} /\ pc' = [pc EXCEPT ![Email] = "signal"]
  BY InsertMoves
<1>2. /\ Len(queue') = Len(queue) + 1
      /\ \A i \in 1 .. Len(queue) + 1 : queue'[i] = IF i = 1 THEN res ELSE queue[i - 1]
      /\ Range(queue') = {res} \cup Range(queue)
      /\ queue' \in Seq(Items)
  BY InsertEffect
<1>3. \A x : Rank(x)' = Rank(x)
  BY <1>1 DEF Rank
<1>4. Len(queue) \in Nat /\ DOMAIN queue = 1 .. Len(queue) /\ DOMAIN queue' = 1 .. Len(queue) + 1
  BY <1>2 DEF TypeOK
<1>5. Decreasing(queue)'
  <2> SUFFICES ASSUME NEW i \in 1 .. Len(queue) + 1, NEW j \in 1 .. Len(queue) + 1, i < j
               PROVE  Rank(queue'[j]) < Rank(queue'[i])
    BY <1>3, <1>4 DEF Decreasing
  <2>1. j - 1 \in DOMAIN queue /\ queue'[j] = queue[j - 1] /\ queue[j - 1] \in Range(queue)
    BY <1>2, <1>4 DEF Range
  <2>2. CASE i = 1
    <3>1. queue'[i] = res
      BY <1>2, <1>4, <2>2
    <3> QED
      BY <1>1, <2>1, <3>1 DEF LinesOrdered, Before
  <2>3. CASE i # 1
    <3>1. i - 1 \in DOMAIN queue /\ queue'[i] = queue[i - 1] /\ i - 1 < j - 1
      BY <1>2, <1>4, <2>3
    <3> QED
      BY <2>1, <3>1 DEF LinesOrdered, Decreasing
  <2> QED
    BY <2>2, <2>3
<1>6. LinesOrdered'
  <2>1. Increasing(received)' /\ Before(Range(received), LineHeld)'
    BY <1>1, <1>3 DEF LinesOrdered, Increasing, Before
  <2>2. Before(Range(received) \cup LineHeld, Range(queue))'
    BY <1>1, <1>2, <1>3 DEF LinesOrdered, Before
  <2>3. Before(Range(received) \cup LineHeld \cup Range(queue), ResHeld)'
    BY <1>1 DEF Before
  <2> QED
    BY <1>5, <2>1, <2>2, <2>3 DEF LinesOrdered
<1>7. Passing' = Passing /\ KeptLines' = KeptLines
  BY <1>1, <1>2 DEF Passing, KeptLines
<1>8. LinesKept'
  BY <1>1, <1>7 DEF LinesKept
<1>9. EndLast'
  <2>1. pc[Calendar]' = pc[Calendar] /\ pc'[Email] = "signal"
    BY <1>1 DEF TypeOK, Threads, Email, Calendar
  <2>2. EOF \in LineHeld \cup Range(queue) \/ pc[Calendar] = "exited" => FALSE
    BY <1>1 DEF EndLast
  <2> QED
    BY <1>1, <1>2, <2>1, <2>2 DEF EndLast
<1> QED
  BY <1>6, <1>8, <1>9

\* The line that is removed comes before those left in the queue.
LEMMA LinesRemoved ==
  ASSUME TypeOK, MutexHeld, LinesOrdered, LinesKept, EndLast, Changes(Calendar)
  PROVE  LinesOrdered' /\ LinesKept' /\ EndLast'
<1>1. /\ UNCHANGED <<input, next, res, received>>
      /\ LineHeld = {} /\ LineHeld' = (IF line' # NULL THEN {line'} ELSE {})
      /\ ResHeld' = ResHeld
      /\ pc[Calendar] \in {"lock", "woken"} /\ pc' = [pc EXCEPT ![Calendar] = "signal"]
  BY RemoveMoves
<1>2. \A x : Rank(x)' = Rank(x)
  BY <1>1 DEF Rank
<1>3. pc'[Email] = pc[Email] /\ pc'[Calendar] = "signal"
  BY <1>1 DEF TypeOK, Threads, Email, Calendar
<1>4. KeptLines' = KeptLines
  BY <1>1 DEF KeptLines
<1>5. CASE queue = <<>>
  <2>1. queue' = queue /\ LineHeld' = LineHeld
    BY <1>1, <1>5, RemoveNone
  <2>2. LinesOrdered'
    BY <1>1, <1>2, <2>1 DEF LinesOrdered, Before, Increasing, Decreasing
  <2>3. Passing' = Passing
    BY <1>1, <2>1 DEF Passing
  <2>4. LinesKept'
    BY <1>1, <1>4, <2>3 DEF LinesKept
  <2>5. EndLast'
    BY <1>1, <1>3, <2>1 DEF EndLast
  <2> QED
    BY <2>2, <2>4, <2>5
<1>6. CASE queue # <<>>
  <2>1. /\ Len(queue) > 0 /\ line' = queue[Len(queue)]
        /\ Len(queue') = Len(queue) - 1
        /\ \A i \in 1 .. Len(queue) - 1 : queue'[i] = queue[i]
        /\ Range(queue) = {line'} \cup Range(queue')
        /\ queue' \in Seq(0 .. Len(input))
    BY <1>6, RemoveEffect
  <2>2. LineHeld' = {line'}
    <3>1. line' \in 0 .. Len(input)
      BY <2>1, PassingTypes
    <3> QED
      BY <1>1, <3>1 DEF NULL
  <2>3. Len(queue) \in Nat /\ DOMAIN queue = 1 .. Len(queue) /\ DOMAIN queue' = 1 .. Len(queue) - 1
    BY <2>1 DEF TypeOK
  <2>4. Decreasing(queue)'
    <3>1. \A i \in DOMAIN queue' : i \in DOMAIN queue /\ queue'[i] = queue[i]
      BY <2>1, <2>3
    <3> QED
      BY <1>2, <3>1 DEF LinesOrdered, Decreasing
  <2>5. \A x \in Range(queue') : Rank(line') < Rank(x)
    <3> SUFFICES ASSUME NEW i \in DOMAIN queue' PROVE Rank(line') < Rank(queue'[i])
      BY DEF Range
    <3>1. i \in DOMAIN queue /\ queue'[i] = queue[i] /\ i < Len(queue) /\ Len(queue) \in DOMAIN queue
      BY <2>1, <2>3
    <3> QED
      BY <2>1, <3>1 DEF LinesOrdered, Decreasing
  <2>6. LinesOrdered'
    <3>1. Increasing(received)'
      BY <1>1, <1>2 DEF LinesOrdered, Increasing
    <3>2. Before(Range(received), LineHeld)'
      BY <1>1, <1>2, <2>1, <2>2 DEF LinesOrdered, Before
    <3>3. Before(Range(received) \cup LineHeld, Range(queue))'
      BY <1>1, <1>2, <2>1, <2>2, <2>5 DEF LinesOrdered, Before
    <3>4. Before(Range(received) \cup LineHeld \cup Range(queue), ResHeld)'
      BY <1>1, <1>2, <2>1, <2>2 DEF LinesOrdered, Before
    <3> QED
      BY <2>4, <3>1, <3>2, <3>3, <3>4 DEF LinesOrdered
  <2>7. Passing' = Passing
    BY <1>1, <2>1, <2>2 DEF Passing
  <2>8. LinesKept'
    BY <1>1, <1>4, <2>7 DEF LinesKept
  <2>9. EndLast'
    BY <1>1, <1>3, <2>1, <2>2, <1>6 DEF EndLast
  <2> QED
    BY <2>6, <2>8, <2>9
<1> QED
  BY <1>5, <1>6

\* While the email filter reads it holds nothing, and EOF is nowhere.
LEMMA WhileReading ==
  ASSUME TypeOK, LinesKept, EndLast, pc[Email] = "read"
  PROVE  /\ ResHeld = {} /\ EOF \notin Passing
         /\ \A k \in Passing : k \in KeptLines /\ k < next /\ Rank(k) = k
         /\ pc[Calendar] # "exited"
<1>1. ResHeld = {}
  BY DEF ResHeld
<1>2. EOF \notin LineHeld \cup Range(queue) /\ pc[Calendar] # "exited"
  BY DEF EndLast
<1>3. EOF \notin Range(received)
  BY PassingTypes, RankIs DEF EOF
<1>4. EOF \notin Passing
  BY <1>1, <1>2, <1>3 DEF Passing
<1> QED
  BY <1>1, <1>2, <1>4 DEF LinesKept, Rank

\* A line that is read comes after those read before.
LEMMA LinesRead ==
  ASSUME TypeOK, LinesOrdered, LinesKept, EndLast, ReadLine
  PROVE  LinesOrdered' /\ LinesKept' /\ EndLast'
<1>1. /\ pc[Email] = "read" /\ next <= Len(input) /\ next' = next + 1
      /\ UNCHANGED <<input, queue, line, received>>
  BY DEF ReadLine, At
<1>2. LineHeld' = LineHeld /\ pc'[Calendar] = pc[Calendar]
  BY DEF ReadLine, GoTo, LineHeld, TypeOK, Threads, Email, Calendar
<1>3. \A x : Rank(x)' = Rank(x)
  BY <1>1 DEF Rank
<1>4. KeptLines' = KeptLines
  BY <1>1 DEF KeptLines
<1>5. /\ ResHeld = {} /\ EOF \notin Passing
      /\ \A k \in Passing : k \in KeptLines /\ k < next /\ Rank(k) = k
      /\ pc[Calendar] # "exited"
  BY <1>1, WhileReading
<1>6. next \in 1 .. Len(input) /\ Rank(next) = next /\ KeptLines \subseteq 1 .. Len(input)
  <2>1. next \in 1 .. Len(input)
    BY <1>1, RankIs DEF TypeOK
  <2> QED
    BY <2>1, RankIs
<1>7. EndLast'
  <2>1. res' = EOF => next' > Len(input)
    <3>1. res' \in {res, next} /\ next # EOF
      BY <1>6 DEF ReadLine, EOF
    <3>2. res = EOF => FALSE
      BY <1>1, <1>6 DEF EndLast
    <3> QED
      BY <3>1, <3>2
  <2>2. ~(EOF \in LineHeld \cup Range(queue) \/ pc[Calendar] = "exited")
    BY <1>5 DEF Passing
  <2> QED
    BY <1>1, <1>2, <2>1, <2>2 DEF EndLast
<1>8. CASE input[next] = "kept" /\ res' = next /\ GoTo(Email, "lock")
  <2>1. ResHeld' = {next}
    BY <1>8 DEF ResHeld, GoTo, TypeOK, Threads, Email, Calendar
  <2>2. Passing' = Passing \cup {next}
    BY <1>1, <1>2, <1>5, <2>1 DEF Passing
  <2>3. LinesOrdered'
    <3>1. \A k \in Range(received) \cup LineHeld \cup Range(queue) : Rank(k) < next
      BY <1>5 DEF Passing
    <3>2. Before(Range(received) \cup LineHeld \cup Range(queue), ResHeld)'
      BY <1>1, <1>2, <1>3, <1>6, <2>1, <3>1 DEF Before
    <3>3. (Increasing(received) /\ Decreasing(queue))'
      BY <1>1, <1>3 DEF LinesOrdered, Increasing, Decreasing
    <3>4. (Before(Range(received), LineHeld) /\ Before(Range(received) \cup LineHeld, Range(queue)))'
      BY <1>1, <1>2, <1>3 DEF LinesOrdered, Before
    <3> QED
      BY <3>2, <3>3, <3>4 DEF LinesOrdered
  <2>4. next \in KeptLines
    BY <1>6, <1>8 DEF KeptLines
  <2>5. Range(received)' \subseteq KeptLines'
    BY <1>1, <1>4 DEF LinesKept
  <2>6. \A k \in Passing' \ {EOF} : k < next'
    <3>1. \A k \in Passing : k \in Int /\ k < next /\ next \in Int
      BY <1>5, RankIs
    <3> QED
      BY <1>1, <1>6, <2>2, <3>1
  <2>7. \A k \in KeptLines : k < next + 1 => k \in Passing \cup {next}
    BY <1>6 DEF LinesKept
  <2>8. LinesKept'
    BY <1>1, <1>4, <1>5, <2>2, <2>4, <2>5, <2>6, <2>7 DEF LinesKept
  <2> QED
    BY <1>7, <2>3, <2>8
<1>9. CASE input[next] = "dropped" /\ UNCHANGED <<res, pc>>
  <2>1. ResHeld' = ResHeld
    BY <1>9 DEF ResHeld
  <2>2. Passing' = Passing
    BY <1>1, <1>2, <2>1 DEF Passing
  <2>3. LinesOrdered'
    BY <1>1, <1>2, <1>3, <2>1 DEF LinesOrdered, Before, Increasing, Decreasing
  <2>4. next \notin KeptLines
    BY <1>9 DEF KeptLines
  <2>5. Range(received)' \subseteq KeptLines'
    BY <1>1, <1>4 DEF LinesKept
  <2>6. \A k \in Passing : k < next + 1
    <3>1. \A k \in Passing : k \in Int /\ k < next /\ next \in Int
      BY <1>5, RankIs
    <3> QED
      BY <3>1
  <2>7. \A k \in KeptLines : k < next + 1 => k \in Passing
    BY <1>6, <2>4 DEF LinesKept
  <2>8. LinesKept'
    BY <1>1, <1>4, <1>5, <2>2, <2>5, <2>6, <2>7 DEF LinesKept
  <2> QED
    BY <1>7, <2>3, <2>8
<1> QED
  BY <1>8, <1>9 DEF ReadLine

\* EOF comes after all lines.
LEMMA EndRead ==
  ASSUME TypeOK, LinesOrdered, LinesKept, EndLast, ReadEnd
  PROVE  LinesOrdered' /\ LinesKept' /\ EndLast'
<1>1. /\ pc[Email] = "read" /\ next > Len(input) /\ res' = EOF
      /\ UNCHANGED <<input, next, queue, line, received>>
  BY DEF ReadEnd, At
<1>2. LineHeld' = LineHeld /\ pc'[Calendar] = pc[Calendar] /\ ResHeld' = {EOF}
  BY <1>1 DEF ReadEnd, GoTo, LineHeld, ResHeld, TypeOK, Threads, Email, Calendar
<1>3. \A x : Rank(x)' = Rank(x)
  BY <1>1 DEF Rank
<1>4. KeptLines' = KeptLines
  BY <1>1 DEF KeptLines
<1>5. /\ ResHeld = {} /\ EOF \notin Passing
      /\ \A k \in Passing : k \in KeptLines /\ k < next /\ Rank(k) = k
      /\ pc[Calendar] # "exited"
  BY <1>1, WhileReading
<1>6. LinesOrdered'
  <2>1. \A k \in Range(received) \cup LineHeld \cup Range(queue) : Rank(k) < Rank(EOF)
    BY <1>5, RankIs DEF Passing
  <2>2. Before(Range(received) \cup LineHeld \cup Range(queue), ResHeld)'
    BY <1>1, <1>2, <1>3, <2>1 DEF Before
  <2>3. (Increasing(received) /\ Decreasing(queue))'
    BY <1>1, <1>3 DEF LinesOrdered, Increasing, Decreasing
  <2>4. (Before(Range(received), LineHeld) /\ Before(Range(received) \cup LineHeld, Range(queue)))'
    BY <1>1, <1>2, <1>3 DEF LinesOrdered, Before
  <2> QED
    BY <2>2, <2>3, <2>4 DEF LinesOrdered
<1>7. Passing' = Passing \cup {EOF}
  BY <1>1, <1>2, <1>5 DEF Passing
<1>8. LinesKept'
  BY <1>1, <1>4, <1>7 DEF LinesKept
<1>9. EndLast'
  <2>1. ~(EOF \in LineHeld \cup Range(queue) \/ pc[Calendar] = "exited")
    BY <1>5 DEF Passing
  <2> QED
    BY <1>1, <1>2, <2>1 DEF EndLast
<1> QED
  BY <1>6, <1>8, <1>9

\* A line that is used comes after those used before; EOF ends.
LEMMA LinesUsed ==
  ASSUME TypeOK, LinesOrdered, LinesKept, EndLast, Process
  PROVE  LinesOrdered' /\ LinesKept' /\ EndLast'
<1>1. /\ pc[Calendar] = "use"
      /\ UNCHANGED <<input, next, queue, res, line>>
  BY DEF Process, At
<1>2. ResHeld' = ResHeld /\ pc'[Email] = pc[Email]
  BY DEF Process, GoTo, ResHeld, TypeOK, Threads, Email, Calendar
<1>3. \A x : Rank(x)' = Rank(x)
  BY <1>1 DEF Rank
<1>4. KeptLines' = KeptLines
  BY <1>1 DEF KeptLines
<1>5. CASE line = NULL /\ UNCHANGED <<pc, received>>
  <2>1. LineHeld' = LineHeld
    BY <1>1, <1>5 DEF LineHeld
  <2>2. LinesOrdered'
    BY <1>1, <1>2, <1>3, <1>5, <2>1 DEF LinesOrdered, Before, Increasing, Decreasing
  <2>3. Passing' = Passing
    BY <1>1, <1>2, <1>5, <2>1 DEF Passing
  <2>4. LinesKept'
    BY <1>1, <1>4, <1>5, <2>3 DEF LinesKept
  <2>5. EndLast'
    BY <1>1, <1>5, <2>1 DEF EndLast
  <2> QED
    BY <2>2, <2>4, <2>5
<1>6. CASE line = EOF /\ GoTo(Calendar, "exited") /\ UNCHANGED received
  <2>1. LineHeld = {EOF} /\ LineHeld' = {} /\ pc'[Calendar] = "exited"
    BY <1>1, <1>6 DEF LineHeld, GoTo, EOF, NULL, TypeOK, Threads, Email, Calendar
  <2>2. res = EOF /\ pc[Email] \in {"signal", "unlock", "exited"}
    BY <2>1 DEF EndLast
  <2>3. queue = <<>>
    <3> SUFFICES ASSUME queue # <<>> PROVE FALSE
      OBVIOUS
    <3>1. PICK x : x \in Range(queue)
      <4>1. 1 \in DOMAIN queue
        BY DEF TypeOK
      <4> QED
        BY <4>1 DEF Range
    <3>2. Rank(EOF) < Rank(x)
      BY <2>1, <3>1 DEF LinesOrdered, Before
    <3>3. x \in 0 .. Len(input)
      BY <3>1, PassingTypes
    <3> QED
      BY <3>2, <3>3, RankIs
  <2>4. LinesOrdered'
    BY <1>1, <1>2, <1>3, <1>6, <2>1 DEF LinesOrdered, Before, Increasing, Decreasing
  <2>5. EOF \notin KeptLines
    BY RankIs DEF EOF
  <2>6. Passing' \subseteq Passing /\ Passing \subseteq Passing' \cup {EOF}
    BY <1>1, <1>2, <1>6, <2>1 DEF Passing
  <2>7. LinesKept'
    BY <1>1, <1>4, <1>6, <2>5, <2>6 DEF LinesKept
  <2>8. EndLast'
    BY <1>1, <1>2, <2>1, <2>2, <2>3 DEF EndLast
  <2> QED
    BY <2>4, <2>7, <2>8
<1>7. CASE line \notin {NULL, EOF} /\ received' = Append(received, line) /\ GoTo(Calendar, "lock")
  <2>1. LineHeld = {line} /\ LineHeld' = {} /\ pc'[Calendar] = "lock"
    BY <1>1, <1>7 DEF LineHeld, GoTo, TypeOK, Threads, Email, Calendar
  <2>2. line \in KeptLines /\ line \in 1 .. Len(input)
    BY <1>7, <2>1, RankIs DEF LinesKept, Passing
  <2>3. /\ Len(received) \in Nat /\ DOMAIN received = 1 .. Len(received)
        /\ DOMAIN received' = 1 .. Len(received) + 1
        /\ \A i \in 1 .. Len(received) : received'[i] = received[i]
        /\ received'[Len(received) + 1] = line
    BY <1>7, <2>2 DEF TypeOK
  <2>4. Range(received') = Range(received) \cup {line}
    <3>1. \A i \in DOMAIN received' : i \in DOMAIN received \/ i = Len(received) + 1
      BY <2>3
    <3>2. Range(received') \subseteq Range(received) \cup {line}
      BY <2>3, <3>1 DEF Range
    <3>3. \A i \in DOMAIN received : i \in DOMAIN received' /\ received'[i] = received[i]
      BY <2>3
    <3>4. Len(received) + 1 \in DOMAIN received'
      BY <2>3
    <3> QED
      BY <2>3, <3>2, <3>3, <3>4 DEF Range
  <2>5. Increasing(received)'
    <3> SUFFICES ASSUME NEW i \in DOMAIN received', NEW j \in DOMAIN received', i < j
                 PROVE  Rank(received'[i]) < Rank(received'[j])
      BY <1>3 DEF Increasing
    <3>1. i \in DOMAIN received /\ received'[i] = received[i] /\ received[i] \in Range(received)
      BY <2>3 DEF Range
    <3>2. CASE j = Len(received) + 1
      BY <2>1, <2>3, <3>1, <3>2 DEF LinesOrdered, Before
    <3>3. CASE j # Len(received) + 1
      <4>1. j \in DOMAIN received /\ received'[j] = received[j]
        BY <2>3, <3>3
      <4> QED
        BY <3>1, <4>1 DEF LinesOrdered, Increasing
    <3> QED
      BY <3>2, <3>3
  <2>6. LinesOrdered'
    <3>1. Decreasing(queue)'
      BY <1>1, <1>3 DEF LinesOrdered, Decreasing
    <3>2. Before(Range(received), LineHeld)'
      BY <2>1 DEF Before
    <3>3. Before(Range(received) \cup LineHeld, Range(queue))'
      BY <1>1, <1>3, <2>1, <2>4 DEF LinesOrdered, Before
    <3>4. Before(Range(received) \cup LineHeld \cup Range(queue), ResHeld)'
      BY <1>1, <1>2, <1>3, <2>1, <2>4 DEF LinesOrdered, Before
    <3> QED
      BY <2>5, <3>1, <3>2, <3>3, <3>4 DEF LinesOrdered
  <2>7. Passing' = Passing
    BY <1>1, <1>2, <2>1, <2>4 DEF Passing
  <2>8. LinesKept'
    BY <1>1, <1>4, <2>2, <2>4, <2>7 DEF LinesKept
  <2>9. EndLast'
    BY <1>1, <1>2, <2>1 DEF EndLast
  <2> QED
    BY <2>6, <2>8, <2>9
<1> QED
  BY <1>5, <1>6, <1>7 DEF Process

\* Every step keeps the invariant.
LEMMA ThreadedNext == ThreadedInv /\ [Next]_vars => ThreadedInv'
<1> SUFFICES ASSUME ThreadedInv, [Next]_vars PROVE ThreadedInv'
  OBVIOUS
<1>1. /\ TypeOK /\ Started /\ MutexHeld
      /\ ReaderHasLine /\ WriterHasRoom
      /\ LinesOrdered /\ LinesKept /\ EndLast
  BY DEF ThreadedInv
<1>2. CASE Next
  <2>1. TypeOK'
    BY <1>1, <1>2, TypesNext
  <2>2. Started' /\ MutexHeld'
    BY <1>1, <1>2, MutexNext
  <2>3. ReaderHasLine' /\ WriterHasRoom'
    BY <1>1, <1>2, RoomNext
  <2>4. LinesOrdered' /\ LinesKept' /\ EndLast'
    BY <1>1, <1>2, StepKinds, LinesStay, LinesInserted, LinesRemoved, LinesRead, EndRead,
       LinesUsed
  <2> QED
    BY <2>1, <2>2, <2>3, <2>4 DEF ThreadedInv
<1>3. CASE UNCHANGED vars
  <2>1. TypeOK' /\ Started' /\ MutexHeld'
    BY <1>1, <1>3 DEF vars, TypeOK, Started, MutexHeld
  <2>2. ReaderHasLine' /\ WriterHasRoom'
    BY <1>1, <1>3 DEF vars, ReaderHasLine, WriterHasRoom
  <2>3. LineHeld' = LineHeld /\ ResHeld' = ResHeld /\ KeptLines' = KeptLines
    BY <1>3 DEF vars, LineHeld, ResHeld, KeptLines
  <2>4. Passing' = Passing
    BY <1>3, <2>3 DEF vars, Passing
  <2>5. LinesOrdered'
    BY <1>1, <1>3, <2>3 DEF vars, LinesOrdered, Before, Increasing, Decreasing, Rank
  <2>6. LinesKept' /\ EndLast'
    BY <1>1, <1>3, <2>3, <2>4 DEF vars, LinesKept, EndLast
  <2> QED
    BY <2>1, <2>2, <2>5, <2>6 DEF ThreadedInv
<1> QED
  BY <1>2, <1>3

\* The invariant holds in every reachable state.
THEOREM ThreadedCorrect == Spec => []ThreadedInv
  BY ThreadedInit, ThreadedNext, PTL DEF Spec

\* Every variable keeps its type.
THEOREM ThreadedTypes == Spec => []TypeOK
<1>1. ThreadedInv => TypeOK
  BY DEF ThreadedInv
<1> QED
  BY <1>1, ThreadedCorrect, PTL

\* An empty queue is read only after a wait that returned without a signal.
THEOREM ThreadedNullRead == Spec => []NullReadUnasked
<1>1. ThreadedInv => NullReadUnasked
  BY DEF ThreadedInv, ReaderHasLine, NullReadUnasked
<1> QED
  BY <1>1, ThreadedCorrect, PTL

\* The bound is exceeded only after a wait that returned without a signal.
THEOREM ThreadedBound == Spec => []BoundHeld
<1>1. ASSUME ThreadedInv PROVE BoundHeld
  <2>1. queue \in Seq(0 .. Len(input)) /\ qsize = 1
    BY <1>1 DEF ThreadedInv, TypeOK
  <2> QED
    BY <1>1, <2>1 DEF ThreadedInv, WriterHasRoom, BoundHeld
<1> QED
  BY <1>1, ThreadedCorrect, PTL

\* The lines that are kept arrive in order, once each, and all of them.
THEOREM ThreadedInOrder == Spec => []InOrder
<1>1. ASSUME ThreadedInv PROVE InOrder
  <2>1. TypeOK /\ LinesOrdered /\ LinesKept /\ EndLast
    BY <1>1 DEF ThreadedInv
  <2>2. /\ Range(received) \subseteq KeptLines /\ KeptLines \subseteq 1 .. Len(input)
        /\ \A k \in KeptLines : Rank(k) = k
        /\ \A i \in DOMAIN received : received[i] \in Range(received)
    BY <2>1, RankIs DEF LinesKept, Range
  <2>3. \A i, j \in DOMAIN received : i < j => received[i] < received[j]
    BY <2>1, <2>2 DEF LinesOrdered, Increasing
  <2>4. \A i \in DOMAIN received : \A k \in KeptLines :
          k < received[i] => k \in Range(received)
    <3> SUFFICES ASSUME NEW i \in DOMAIN received, NEW k \in KeptLines, k < received[i]
                 PROVE  k \in Range(received)
      OBVIOUS
    <3>1. received[i] < next /\ received[i] \in Nat /\ k \in Nat /\ next \in Nat
      <4>1. received[i] \in Passing \ {EOF}
        BY <2>2 DEF Passing, EOF
      <4>2. received[i] < next /\ next \in Nat
        BY <2>1, <4>1, RankIs DEF LinesKept
      <4>3. \A n \in KeptLines : n \in Nat
        BY <2>1, RankIs
      <4> QED
        BY <2>2, <4>2, <4>3
    <3>2. k \in Passing
      BY <2>1, <3>1 DEF LinesKept
    <3>3. ASSUME k \in LineHeld \cup Range(queue) \cup ResHeld PROVE FALSE
      <4>1. Rank(received[i]) < Rank(k)
        BY <2>1, <2>2, <3>3 DEF LinesOrdered, Before
      <4>2. received[i] < k
        BY <2>2, <4>1
      <4> QED
        BY <3>1, <4>2
    <3> QED
      BY <3>2, <3>3 DEF Passing
  <2>5. ASSUME pc[Calendar] = "exited" PROVE KeptLines \subseteq Range(received)
    <3>1. res = EOF /\ pc[Email] \in {"signal", "unlock", "exited"} /\ queue = <<>>
      BY <2>1, <2>5 DEF EndLast
    <3>2. next > Len(input)
      BY <2>1, <3>1 DEF EndLast
    <3>3. LineHeld = {} /\ Range(queue) = {} /\ ResHeld = {}
      BY <2>5, <3>1 DEF LineHeld, ResHeld, Range
    <3>4. \A k \in KeptLines : k < next
      BY <2>1, <2>2, <3>2, RankIs
    <3> QED
      BY <2>1, <3>3, <3>4 DEF LinesKept, Passing
  <2> QED
    BY <2>2, <2>3, <2>4, <2>5 DEF InOrder
<1> QED
  BY <1>1, ThreadedCorrect, PTL

\* Where waits return on signals alone, the ifs of lines 75 and 86 are enough: no
\* NULL line is used, and the queue has at most one line.
THEOREM ThreadedSignalsOnly ==
  ASSUME ~Spurious
  PROVE  Spec => [](~fault /\ Len(queue) <= 1)
<1>1. Init => unasked = {}
  BY DEF Init
<1>2. unasked = {} /\ [Next]_vars => (unasked = {})'
  <2> SUFFICES ASSUME unasked = {}, Next PROVE unasked' = {}
    BY DEF vars
  <2>1. \A t \in Threads : ~SpuriousWake(t)
    BY DEF SpuriousWake
  <2> QED
    BY <2>1 DEF Next, MainStep, CreateEmail, CreateCalendar, JoinEmail, JoinCalendar, EmailStep,
           CalendarStep, ReadLine, ReadEnd, Process, Exchange, Lock, Wait, Rewake, Signal, Unlock
<1>3. ThreadedInv /\ unasked = {} => ~fault /\ Len(queue) <= 1
  BY DEF ThreadedInv, ReaderHasLine, WriterHasRoom, TypeOK
<1>4. Spec => [](unasked = {})
  BY <1>1, <1>2, PTL DEF Spec
<1> QED
  BY <1>3, <1>4, ThreadedCorrect, PTL
=============================================================================
