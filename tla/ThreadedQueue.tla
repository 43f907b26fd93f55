--------------------------- MODULE ThreadedQueue ---------------------------
(***************************************************************************)
(* hw2: the email filter and the calendar filter as two threads around a   *)
(* queue with a mutex and two condition variables                          *)
(* (threaded_location_updater.c, queue.c).                                 *)
(*                                                                         *)
(* A step is one call of the pthread library together with the code up to  *)
(* the next one.  A line is its position in the input; what matters of it  *)
(* is whether filterEmail keeps it.  pthread_cond_wait may return without  *)
(* a signal, which POSIX allows.                                           *)
(***************************************************************************)
EXTENDS Integers, Sequences, SequencesExt

CONSTANTS Inputs,     \* the inputs, as sequences of kinds of lines
          Arguments,  \* the values of the argument
          Spurious    \* whether waits may return without a signal

\* "blank" is an empty line: scanf's "\n" skips every one but the first.
Kinds == {"kept", "dropped", "blank"}

ASSUME ThreadedAssumption ==
  /\ \A i \in Inputs : i \in Seq(Kinds) /\ \A k \in 2 .. Len(i) : i[k] # "blank"
  /\ Arguments \subseteq Nat \ {0}
  /\ Spurious \in BOOLEAN

Email == "email"
Calendar == "calendar"
Threads == {Email, Calendar}
NULL == -1
EOF == 0

VARIABLES
  input,     \* the lines of the standard input
  argument,  \* main's qsize
  qsize,     \* the global qsize
  next,      \* the next line to read
  queue,     \* the TAILQ, its head first
  mutex,     \* q_mutex: the thread that has it, or "free"
  pc,        \* where each thread is
  main,      \* how far main is
  res,       \* what emailFilterThread has to write
  line,      \* what calendarFilterThread has read
  received,  \* the lines given to filterCalendarEvent
  fault,     \* whether a NULL line was used
  unasked    \* history: the threads whose wait returned without a signal

vars == <<input, argument, qsize, next, queue, mutex, pc, main, res, line, received,
          fault, unasked>>

Init ==
  /\ input \in Inputs
  /\ argument \in Arguments
  /\ qsize = 1
  /\ next = 1
  /\ queue = <<>>
  /\ mutex = "free"
  /\ pc = [t \in Threads |-> "created"]
  /\ main = "createEmail"
  /\ res = NULL
  /\ line = NULL
  /\ received = <<>>
  /\ fault = FALSE
  /\ unasked = {}

At(t, place) == ~fault /\ pc[t] = place
GoTo(t, place) == pc' = [pc EXCEPT ![t] = place]

-----------------------------------------------------------------------------
(* main.  The argument is stored in a local variable named qsize; the       *)
(* queue's bound is the global one.                                         *)

MainGoes(from, to) == ~fault /\ main = from /\ main' = to

CreateEmail ==
  /\ MainGoes("createEmail", "createCalendar")
  /\ GoTo(Email, "read")
  /\ UNCHANGED <<input, argument, qsize, next, queue, mutex, res, line, received, fault,
                 unasked>>

CreateCalendar ==
  /\ MainGoes("createCalendar", "joinEmail")
  /\ GoTo(Calendar, "lock")
  /\ UNCHANGED <<input, argument, qsize, next, queue, mutex, res, line, received, fault,
                 unasked>>

JoinEmail ==
  /\ pc[Email] = "exited"
  /\ MainGoes("joinEmail", "joinCalendar")
  /\ UNCHANGED <<input, argument, qsize, next, queue, mutex, pc, res, line, received, fault,
                 unasked>>

JoinCalendar ==
  /\ pc[Calendar] = "exited"
  /\ MainGoes("joinCalendar", "exited")
  /\ UNCHANGED <<input, argument, qsize, next, queue, mutex, pc, res, line, received, fault,
                 unasked>>

MainStep == CreateEmail \/ CreateCalendar \/ JoinEmail \/ JoinCalendar

-----------------------------------------------------------------------------
(* The queue: insertIntoQ and removeFromQ *)

\* A variant that inserts at the end that removeFromQ takes from.
InsertAtTail == queue' = Append(queue, res) /\ UNCHANGED line

InsertIntoQ == queue' = <<res>> \o queue /\ UNCHANGED line

RemoveFromQ ==
  \/ queue = <<>> /\ line' = NULL /\ UNCHANGED queue
  \/ queue # <<>> /\ line' = Last(queue) /\ queue' = Front(queue)

Change(t) == (t = Email /\ InsertIntoQ) \/ (t = Calendar /\ RemoveFromQ)

-----------------------------------------------------------------------------
(* safeWrite by the email filter, safeRead by the calendar filter *)

\* A variant that lets the writer in one line too early.
MustWaitOffByOne(t) ==
  \/ t = Email /\ Len(queue) > qsize
  \/ t = Calendar /\ queue = <<>>

\* A variant in which the reader never waits.
MustWaitForRoom(t) == t = Email /\ Len(queue) >= qsize

\* Lines 75 and 86.
MustWait(t) ==
  \/ t = Email /\ Len(queue) >= qsize
  \/ t = Calendar /\ queue = <<>>

\* Lines 74-78 and 85-89 up to the wait or the signal.
Lock(t) ==
  /\ At(t, "lock")
  /\ mutex = "free"
  /\ mutex' = t
  /\ \/ MustWait(t) /\ GoTo(t, "wait") /\ UNCHANGED <<queue, line>>
     \/ ~MustWait(t) /\ GoTo(t, "signal") /\ Change(t)
  /\ UNCHANGED <<input, argument, qsize, next, main, res, received, fault, unasked>>

\* pthread_cond_wait gives the mutex back and waits ...
Wait(t) ==
  /\ At(t, "wait")
  /\ mutex' = "free"
  /\ GoTo(t, "waiting")
  /\ UNCHANGED <<input, argument, qsize, next, queue, main, res, line, received, fault,
                 unasked>>

SpuriousWake(t) ==
  /\ Spurious
  /\ At(t, "waiting")
  /\ GoTo(t, "woken")
  /\ unasked' = unasked \cup {t}
  /\ UNCHANGED <<input, argument, qsize, next, queue, mutex, main, res, line, received,
                 fault>>

\* ... and takes it again before it returns; an if, so the size is not tested
\* again.
Rewake(t) ==
  /\ At(t, "woken")
  /\ mutex = "free"
  /\ mutex' = t
  /\ GoTo(t, "signal")
  /\ Change(t)
  /\ UNCHANGED <<input, argument, qsize, next, main, res, received, fault, unasked>>

Other(t) == IF t = Email THEN Calendar ELSE Email

\* A variant that signals the condition the thread itself waits for.
SignalSelf(t) ==
  /\ At(t, "signal")
  /\ GoTo(t, "unlock")
  /\ UNCHANGED <<input, argument, qsize, next, queue, mutex, main, res, line, received,
                 fault, unasked>>

\* Each condition has one thread that waits for it.
Signal(t) ==
  /\ At(t, "signal")
  /\ pc' = [u \in Threads |-> IF u = t THEN "unlock"
                              ELSE IF pc[u] = "waiting" THEN "woken" ELSE pc[u]]
  /\ UNCHANGED <<input, argument, qsize, next, queue, mutex, main, res, line, received,
                 fault, unasked>>

Unlock(t) ==
  /\ At(t, "unlock")
  /\ mutex' = "free"
  /\ GoTo(t, IF t = Calendar THEN "use" ELSE IF res = EOF THEN "exited" ELSE "read")
  /\ UNCHANGED <<input, argument, qsize, next, queue, main, res, line, received, fault,
                 unasked>>

Exchange(t) == Lock(t) \/ Wait(t) \/ Rewake(t) \/ Signal(t) \/ Unlock(t)

-----------------------------------------------------------------------------
(* emailFilterThread *)

\* Lines 41-46.  A blank first line matches no character: scanf returns 0, not
\* EOF, and consumes nothing, so that the thread reads it again for ever.
ReadLine ==
  /\ At(Email, "read")
  /\ next <= Len(input)
  /\ input[next] # "blank"
  /\ next' = next + 1
  /\ \/ input[next] = "kept" /\ res' = next /\ GoTo(Email, "lock")
     \/ input[next] = "dropped" /\ UNCHANGED <<res, pc>>
  /\ UNCHANGED <<input, argument, qsize, queue, mutex, main, line, received, fault, unasked>>

\* Lines 41, 47 and 48.
ReadEnd ==
  /\ At(Email, "read")
  /\ next > Len(input)
  /\ res' = EOF
  /\ GoTo(Email, "lock")
  /\ UNCHANGED <<input, argument, qsize, next, queue, mutex, main, line, received, fault,
                 unasked>>

EmailStep == ReadLine \/ ReadEnd \/ Exchange(Email)

-----------------------------------------------------------------------------
(* calendarFilterThread, lines 55-69 *)

\* A variant that does not compare the line with "EOF".
ProcessEof ==
  /\ At(Calendar, "use")
  /\ \/ line = NULL /\ fault' = TRUE /\ UNCHANGED <<pc, received>>
     \/ /\ line # NULL
        /\ received' = Append(received, line)
        /\ GoTo(Calendar, "lock")
        /\ UNCHANGED fault
  /\ UNCHANGED <<input, argument, qsize, next, queue, mutex, main, res, line, unasked>>

Process ==
  /\ At(Calendar, "use")
  /\ \/ /\ line = NULL
        /\ fault' = TRUE
        /\ UNCHANGED <<pc, received>>
     \/ line = EOF /\ GoTo(Calendar, "exited") /\ UNCHANGED <<received, fault>>
     \/ /\ line \notin {NULL, EOF}
        /\ received' = Append(received, line)
        /\ GoTo(Calendar, "lock")
        /\ UNCHANGED fault
  /\ UNCHANGED <<input, argument, qsize, next, queue, mutex, main, res, line, unasked>>

CalendarStep == Process \/ Exchange(Calendar)

-----------------------------------------------------------------------------
Next ==
  \/ MainStep
  \/ EmailStep
  \/ CalendarStep
  \/ \E t \in Threads : SpuriousWake(t)

\* The three threads run; no wait has to return without a signal.
Spec ==
  /\ Init
  /\ [][Next]_vars
  /\ WF_vars(MainStep) /\ WF_vars(EmailStep) /\ WF_vars(CalendarStep)

-----------------------------------------------------------------------------
(* Properties *)

Places == {"created", "read", "lock", "wait", "waiting", "woken", "signal", "unlock",
           "use", "exited"}

TypeOK ==
  /\ input \in Inputs
  /\ argument \in Arguments
  /\ qsize = 1
  /\ next \in 1 .. Len(input) + 1
  /\ queue \in Seq(0 .. Len(input))
  /\ mutex \in Threads \cup {"free"}
  /\ pc \in [Threads -> Places]
  /\ main \in {"createEmail", "createCalendar", "joinEmail", "joinCalendar", "exited"}
  /\ res \in {NULL} \cup 0 .. Len(input)
  /\ line \in {NULL} \cup 0 .. Len(input)
  /\ received \in Seq(1 .. Len(input))
  /\ fault \in BOOLEAN
  /\ unasked \subseteq Threads

\* An empty queue is read only after a wait that returned without a signal:
\* the if of line 75 is enough where waits return on signals alone.
NullReadUnasked == fault => Calendar \in unasked

\* The queue exceeds its bound only after a wait of the writer returned
\* without a signal (line 86).
BoundHeld == Len(queue) > qsize => Email \in unasked

\* The lines of the input that filterEmail keeps.
KeptLines == {k \in 1 .. Len(input) : input[k] = "kept"}

\* The calendar filter gets the lines that were kept, in order and once each,
\* and all of them before it ends.
InOrder ==
  /\ Range(received) \subseteq KeptLines
  /\ \A i, j \in DOMAIN received : i < j => received[i] < received[j]
  /\ \A i \in DOMAIN received : \A k \in KeptLines :
       k < received[i] => k \in Range(received)
  /\ pc[Calendar] = "exited" => KeptLines \subseteq Range(received)

\* The program ends: neither thread waits for ever for a signal that has been
\* given or is never given, unless an empty queue was read.
Ends == (input # <<>> => input[1] # "blank") => <>(main = "exited" \/ fault)

\* The writer waits only when the queue has as many lines as the argument says,
\* "specifying the size of the buffer/queue" (line 21).
WaitsWhenFull ==
  [][pc[Email] # "waiting" /\ pc'[Email] = "waiting" => Len(queue) >= argument]_vars
=============================================================================
