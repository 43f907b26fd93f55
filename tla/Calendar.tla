------------------------------ MODULE Calendar ------------------------------
(***************************************************************************)
(* The calendar of hw1/calendar.c and the filter of hw1/filter.c that      *)
(* prints, after a line, where and when the first event of its date is.    *)
(*                                                                         *)
(* The events of a date are a sequence: they are appended and changed in   *)
(* place, never moved nor removed, so a pointer to one is its index.  A    *)
(* date is on the calendar once it has an event.  The fields of a line are *)
(* values; a time is the number that timeCmp reads.                        *)
(***************************************************************************)
EXTENDS Integers, Sequences, FiniteSets

CONSTANTS Titles, Dates, Locations,
          Times,
          Nothing,    \* no output
          NA,         \* the output for a date without events
          MaxEvents   \* bound of the model: the events that are created

ASSUME CalendarAssumption ==
  /\ Times \subseteq Nat
  /\ MaxEvents \in Nat
  /\ Nothing \notin [time : Times, location : Locations] \cup {NA}

Events == [action : {"C", "D", "X"}, title : Titles, date : Dates, time : Times, location : Locations]

VARIABLES cal,      \* of each date: events, and earliestEvent, 0 until it is first set
          printed,  \* of each date: the last line printed
          fate      \* "runs", or how the program fails: "nullDate" or "wildPointer"

vars == <<cal, printed, fate>>

Init ==
  /\ cal = [d \in Dates |-> [events |-> <<>>, earliestEvent |-> 0]]
  /\ printed = [d \in Dates |-> Nothing]
  /\ fate = "runs"

-----------------------------------------------------------------------------
(* calendar.c *)

Positions(events, title) == {i \in DOMAIN events : events[i].title = title}

\* A deletion or a change is of the first event with the title, if there is one.
updateCalendarEvent(events, e) ==
  LET named == Positions(events, e.title)
  IN  IF named = {} THEN events
      ELSE LET first == CHOOSE i \in named : \A j \in named : i <= j
           IN  [events EXCEPT ![first] = [e EXCEPT !.date = events[first].date]]

insertCalendarEvent(events, e) ==
  IF e.action = "C" THEN Append(events, e) ELSE updateCalendarEvent(events, e)

\* 1 if the second time is greater, -1 if the first is.
timeCmp(t1, t2) == IF t1 > t2 THEN -1 ELSE IF t2 > t1 THEN 1 ELSE 0

\* A variant of the scan that keeps a deleted event it began with.
EarliestOrDeleted(events) ==
  LET upTo[i \in 1..Len(events)] ==
        IF i = 1 THEN 1
        ELSE IF events[i].action # "D" /\ timeCmp(events[i].time, events[upTo[i - 1]].time) >= 0
             THEN i ELSE upTo[i - 1]
      last == upTo[Len(events)]
  IN  IF events[last].action = "D" THEN 0 ELSE last

\* The scan of lines 127-141: an index, or 0 if every event is deleted.
getEarliestEvent(events) ==
  LET upTo[i \in 1..Len(events)] ==
        IF i = 1 THEN 1
        ELSE LET best == events[upTo[i - 1]]
             IN  IF \/ events[i].action # "D" /\ timeCmp(events[i].time, best.time) >= 0
                    \/ best.action = "D"
                 THEN i ELSE upTo[i - 1]
      last == upTo[Len(events)]
  IN  IF events[last].action = "D" THEN 0 ELSE last

-----------------------------------------------------------------------------
(* filter.c *)

\* A variant that prints whatever the first event is.
SuppressNever(day, events, earliest, e) == FALSE

\* Lines 41-47: the first event is neither that of the line nor another than it was.
Suppressed(day, events, earliest, e) ==
  /\ events[earliest].title # e.title
  /\ events[day.earliestEvent].title = events[earliest].title

\* filterCalendarEvent, on the date of the event: what is stored and what is
\* printed.  The pointer that line 46 leaves unset is followed only if line 42 is reached.
filterCalendarEvent(day, e) ==
  LET events == insertCalendarEvent(day.events, e)
      earliest == IF events = <<>> THEN 0 ELSE getEarliestEvent(events)
      Result(pointer, line, end) ==
        [day |-> [events |-> events, earliestEvent |-> pointer], line |-> line, fate |-> end]
  IN  IF events = <<>> THEN Result(0, Nothing, "nullDate")
      ELSE IF earliest = 0 THEN Result(day.earliestEvent, NA, "runs")
      ELSE IF events[earliest].title # e.title /\ day.earliestEvent = 0
           THEN Result(0, Nothing, "wildPointer")
      ELSE IF Suppressed(day, events, earliest, e) THEN Result(day.earliestEvent, Nothing, "runs")
      ELSE Result(earliest,
                  [time |-> events[earliest].time, location |-> events[earliest].location],
                  "runs")

Room == Cardinality(UNION {{d} \X DOMAIN cal[d].events : d \in Dates}) < MaxEvents

Filter(e) ==
  LET result == filterCalendarEvent(cal[e.date], e)
  IN  /\ fate = "runs"
      /\ e.action = "C" => Room
      /\ cal' = [cal EXCEPT ![e.date] = result.day]
      /\ printed' = IF result.line = Nothing THEN printed ELSE [printed EXCEPT ![e.date] = result.line]
      /\ fate' = result.fate

Next == \E e \in Events : Filter(e)

Spec == Init /\ [][Next]_vars

-----------------------------------------------------------------------------
(* Properties *)

\* The first event of a date: of those that are not deleted and have the least
\* time, the last one created; 0 if there is none.
First(events) ==
  LET live == {i \in DOMAIN events : events[i].action # "D"}
  IN  IF live = {} THEN 0
      ELSE CHOOSE i \in live : \A j \in live :
             events[i].time < events[j].time \/ (events[i].time = events[j].time /\ j <= i)

\* What was last printed for a date is where and when its first event is now,
\* whatever was created, changed, deleted and revived in between, under whatever
\* titles: a line that prints nothing left that as it was.  earliestEvent is never
\* followed before it is set, although line 46 does not initialise it.
PrintedIsFirst ==
  /\ fate # "wildPointer"
  /\ \A d \in Dates :
       LET events == cal[d].events
           i == First(events)
       IN  events # <<>> =>
             printed[d] = IF i = 0 THEN NA ELSE [time |-> events[i].time, location |-> events[i].location]

\* A line that could come next prints only if it names the event that is then first,
\* or makes another event first than was, or leaves none; the last of these is
\* printed again for every further deletion.
PrintsNews ==
  \A e \in Events :
    LET result == filterCalendarEvent(cal[e.date], e)
        i == First(result.day.events)
    IN  result.line # Nothing =>
          i = 0 \/ result.day.events[i].title = e.title \/ i # First(cal[e.date].events)
=============================================================================
