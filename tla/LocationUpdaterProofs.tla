------------------------ MODULE LocationUpdaterProofs ------------------------
(***************************************************************************)
(* The calendar of hw1 and the three processes that feed it, for every     *)
(* input, every calendar and every size of the pipes: what was last        *)
(* printed for a date is its first event, and every line of the input      *)
(* that is an event reaches the calendar, once and in order.               *)
(*                                                                         *)
(* The scan of getEarliestEvent and EventsOf are recursive functions; what *)
(* they compute is proved by the least counterexample.                     *)
(***************************************************************************)
EXTENDS LocationUpdater, SequenceTheorems, WellFoundedInduction, TLAPS

(* Recursive functions *)

\* A set of naturals that is not empty has a least element.
LEMMA Least ==
  ASSUME NEW T \in SUBSET Nat, T # {}
  PROVE  \E x \in T : \A y \in T : x <= y
<1> DEFINE R == OpToRel(<, Nat)
<1>1. IsWellFoundedOn(R, Nat)
  BY NatLessThanWellFounded
<1>2. \A x, y \in Nat : x < y => <<x, y>> \in R
  BY DEF OpToRel
<1> HIDE DEF R
<1>3. PICK x \in T : \A y \in T : ~(<<y, x>> \in R)
  BY <1>1, WFMin
<1>4. \A y \in T : y \in Nat /\ x \in Nat /\ ~(y < x)
  BY <1>2, <1>3
<1>5. \A y \in T : x <= y
  BY <1>4
<1> QED
  BY <1>3, <1>5

\* f is what a recursion computes, step by step.
Computes(f, a, n, next) == \A i \in 0..n : f[i] = IF i = 0 THEN a ELSE next[<<i, f[i - 1]>>]

\* There is a function that computes a recursion on the naturals up to n.
LEMMA SomeFunction ==
  ASSUME NEW S, NEW a \in S, NEW n \in Nat, NEW next \in [Nat \X S -> S]
  PROVE  \E f \in [0..n -> S] : Computes(f, a, n, next)
<1> USE DEF Computes
<1> DEFINE Good(m) == \E f \in [0..m -> S] : Computes(f, a, m, next)
           Bad == {m \in Nat : ~Good(m)}
<1> SUFFICES ASSUME Bad # {} PROVE FALSE
  OBVIOUS
<1>1. PICK m \in Bad : \A k \in Bad : m <= k
  <2>1. Bad \in SUBSET Nat
    OBVIOUS
  <2> HIDE DEF Bad
  <2> QED
    BY <2>1, Least
<1>2. m \in Nat /\ ~Good(m)
  BY <1>1
<1>3. m # 0
  <2> SUFFICES Good(0)
    BY <1>2
  <2> DEFINE f == [i \in 0..0 |-> a]
  <2>1. f \in [0..0 -> S] /\ \A i \in 0..0 : f[i] = IF i = 0 THEN a ELSE next[<<i, f[i - 1]>>]
    OBVIOUS
  <2> QED
    BY <2>1
<1>4. m - 1 \in Nat /\ Good(m - 1)
  <2>1. m - 1 \in Nat /\ m - 1 \notin Bad
    BY <1>1, <1>2, <1>3
  <2> QED
    BY <2>1
<1>5. PICK g \in [0..(m - 1) -> S] :
        \A i \in 0..(m - 1) : g[i] = IF i = 0 THEN a ELSE next[<<i, g[i - 1]>>]
  BY <1>4
<1> DEFINE f == [i \in 0..m |-> IF i = m THEN next[<<m, g[m - 1]>>] ELSE g[i]]
<1>6. next[<<m, g[m - 1]>>] \in S
  BY <1>2, <1>4, <1>5
<1>7. f \in [0..m -> S]
  BY <1>2, <1>3, <1>5, <1>6
<1>8. \A i \in 0..m : f[i] = IF i = 0 THEN a ELSE next[<<i, f[i - 1]>>]
  <2> SUFFICES ASSUME NEW i \in 0..m PROVE f[i] = IF i = 0 THEN a ELSE next[<<i, f[i - 1]>>]
    OBVIOUS
  <2>1. CASE i = m
    <3>1. m - 1 \in 0..m /\ m - 1 # m /\ m \in 0..m
      BY <1>2, <1>4
    <3>2. f[m - 1] = g[m - 1] /\ f[m] = next[<<m, g[m - 1]>>]
      BY <3>1
    <3> QED
      BY <1>3, <2>1, <3>2
  <2>2. CASE i = 0
    <3>1. 0 \in 0..m /\ 0 # m /\ 0 \in 0..(m - 1)
      BY <1>2, <1>3, <1>4
    <3>2. f[0] = g[0] /\ g[0] = a
      BY <1>5, <3>1
    <3> QED
      BY <2>2, <3>2
  <2>3. CASE i # 0 /\ i # m
    <3>1. i \in 0..(m - 1) /\ i - 1 \in 0..m /\ i - 1 # m
      BY <1>2, <1>3, <2>3
    <3>2. f[i] = g[i] /\ f[i - 1] = g[i - 1]
      BY <2>3, <3>1
    <3> QED
      BY <1>5, <2>3, <3>1, <3>2
  <2> QED
    BY <2>1, <2>2, <2>3
<1> HIDE DEF f
<1>9. Good(m)
  BY <1>7, <1>8
<1> QED
  BY <1>2, <1>9

-----------------------------------------------------------------------------
(* The scan for the first event *)

\* The better of the i-th event and the best before it.
Best(events, i, b) ==
  IF i = 1 THEN 1
  ELSE IF \/ events[i].action # "D" /\ timeCmp(events[i].time, events[b].time) >= 0
          \/ events[b].action = "D"
       THEN i ELSE b

\* getEarliestEvent is computed event by event: each is compared with the best before it.
LEMMA ScanIs ==
  ASSUME NEW events \in Seq(Events), events # <<>>
  PROVE  \E f :
           /\ \A i \in 1..Len(events) : f[i] = Best(events, i, f[i - 1])
           /\ getEarliestEvent(events) =
                IF events[f[Len(events)]].action = "D" THEN 0 ELSE f[Len(events)]
<1> DEFINE n == Len(events)
           next == [x \in Nat \X Int |-> Best(events, x[1], x[2])]
           upTo == CHOOSE f : f =
             [i \in 1..Len(events) |->
               IF i = 1 THEN 1
               ELSE LET best == events[f[i - 1]]
                    IN  IF \/ events[i].action # "D" /\ timeCmp(events[i].time, best.time) >= 0
                           \/ best.action = "D"
                        THEN i ELSE f[i - 1]]
<1>1. n \in Nat \ {0}
  BY EmptySeq, LenProperties
<1>2. next \in [Nat \X Int -> Int] /\ \A i \in Nat, b \in Int : next[<<i, b>>] = Best(events, i, b)
  BY DEF Best
<1> HIDE DEF next
<1>3. PICK h \in [0..n -> Int] : \A i \in 0..n : h[i] = IF i = 0 THEN 0 ELSE next[<<i, h[i - 1]>>]
  <2>1. n \in Nat /\ 0 \in Int
    BY <1>1
  <2>2. next \in [Nat \X Int -> Int]
    BY <1>2
  <2> HIDE DEF n
  <2>3. \E h \in [0..n -> Int] : Computes(h, 0, n, next)
    BY <2>1, <2>2, SomeFunction
  <2> QED
    BY <2>3 DEF Computes
<1> DEFINE g == [i \in 1..n |-> h[i]]
<1>4. \A i \in 1..n : g[i] = Best(events, i, g[i - 1])
  <2> SUFFICES ASSUME NEW i \in 1..n PROVE g[i] = Best(events, i, g[i - 1])
    OBVIOUS
  <2>1. g[i] = Best(events, i, h[i - 1])
    <3>1. i \in 0..n /\ i # 0 /\ i \in Nat /\ i - 1 \in 0..n
      BY <1>1
    <3> QED
      BY <1>2, <1>3, <3>1
  <2>2. i # 1 => i - 1 \in 1..n
    BY <1>1
  <2> QED
    BY <2>1, <2>2 DEF Best
<1>5. g \in [1..n -> Int]
  BY <1>1, <1>3
<1> HIDE DEF g
<1>6. g = [i \in 1..Len(events) |->
               IF i = 1 THEN 1
               ELSE LET best == events[g[i - 1]]
                    IN  IF \/ events[i].action # "D" /\ timeCmp(events[i].time, best.time) >= 0
                           \/ best.action = "D"
                        THEN i ELSE g[i - 1]]
  BY <1>4, <1>5 DEF Best
<1>7. upTo = [i \in 1..Len(events) |->
               IF i = 1 THEN 1
               ELSE LET best == events[upTo[i - 1]]
                    IN  IF \/ events[i].action # "D" /\ timeCmp(events[i].time, best.time) >= 0
                           \/ best.action = "D"
                        THEN i ELSE upTo[i - 1]]
  BY <1>6, Zenon
<1>8. getEarliestEvent(events) = IF events[upTo[n]].action = "D" THEN 0 ELSE upTo[n]
  BY DEF getEarliestEvent
<1> HIDE DEF upTo
<1>9. \A i \in 1..n : upTo[i] = Best(events, i, upTo[i - 1])
  BY <1>7 DEF Best
<1> QED
  BY <1>8, <1>9

\* The i-th event is the first among the k that have been scanned, or all are deleted.
Before(events, i, j) ==
  events[i].time < events[j].time \/ (events[i].time = events[j].time /\ j <= i)
Live(events, j) == events[j].action # "D"
Leads(events, k, i) ==
  /\ i \in 1..k
  /\ ~Live(events, i) => \A j \in 1..k : ~Live(events, j)
  /\ Live(events, i) => \A j \in 1..k : Live(events, j) => Before(events, i, j)

\* The comparison of lines 127-141 keeps the leader as one more event is scanned.
LEMMA BestLeads ==
  ASSUME NEW events \in Seq(Events), NEW k \in 1..Len(events), NEW b,
         k # 1 => Leads(events, k - 1, b)
  PROVE  Leads(events, k, Best(events, k, b))
<1>1. k \in Nat /\ Len(events) \in Nat
  BY LenProperties
<1>2. \A j \in 1..k : j \in 1..Len(events) /\ events[j] \in Events /\ events[j].time \in Nat
  <2>1. \A j \in 1..k : j \in 1..Len(events)
    BY <1>1
  <2>2. \A j \in 1..k : events[j] \in Events
    BY <2>1, ElementOfSeq
  <2>3. \A e \in Events : e.time \in Nat
    BY CalendarAssumption DEF Events
  <2> QED
    BY <2>1, <2>2, <2>3
<1>3. CASE k = 1
  BY <1>2, <1>3 DEF Leads, Best, Live, Before
<1>4. CASE k # 1
  <2>1. /\ b \in 1..(k - 1) /\ b \in 1..k /\ k \in 1..k
        /\ \A j \in 1..k : j = k \/ j \in 1..(k - 1)
        /\ \A j \in 1..(k - 1) : j \in 1..k
    BY <1>1, <1>4 DEF Leads
  <2>2. /\ ~Live(events, b) => \A j \in 1..(k - 1) : ~Live(events, j)
        /\ Live(events, b) => \A j \in 1..(k - 1) : Live(events, j) => Before(events, b, j)
    BY <1>4 DEF Leads
  <2>3. Best(events, k, b) =
          IF (Live(events, k) /\ events[k].time <= events[b].time) \/ ~Live(events, b) THEN k ELSE b
    BY <1>1, <1>2, <1>4, <2>1 DEF Best, Live, timeCmp
  <2>4. CASE ~Live(events, b)
    BY <1>2, <2>1, <2>2, <2>3, <2>4 DEF Leads, Before
  <2>5. CASE Live(events, b) /\ Live(events, k) /\ events[k].time <= events[b].time
    <3>1. \A j \in 1..(k - 1) : Live(events, j) => Before(events, k, j)
      <4> SUFFICES ASSUME NEW j \in 1..(k - 1), Live(events, j) PROVE Before(events, k, j)
        OBVIOUS
      <4>1. events[j].time \in Nat /\ events[k].time \in Nat /\ events[b].time \in Nat /\ j <= k
        BY <1>1, <1>2, <2>1
      <4>2. Before(events, b, j)
        BY <2>2, <2>5
      <4> QED
        BY <2>5, <4>1, <4>2 DEF Before
    <3>2. Before(events, k, k)
      BY <1>1 DEF Before
    <3> QED
      BY <2>1, <2>3, <2>5, <3>1, <3>2 DEF Leads
  <2>6. CASE Live(events, b) /\ ~(Live(events, k) /\ events[k].time <= events[b].time)
    <3>1. Live(events, k) => Before(events, b, k)
      BY <1>2, <2>1, <2>6 DEF Before
    <3> QED
      BY <2>1, <2>2, <2>3, <2>6, <3>1 DEF Leads
  <2> QED
    BY <2>4, <2>5, <2>6
<1> QED
  BY <1>3, <1>4

\* The leader of all the events is their first, or none is if it is deleted.
LEMMA LeaderIsFirst ==
  ASSUME NEW events \in Seq(Events), NEW i, Leads(events, Len(events), i)
  PROVE  First(events) = IF Live(events, i) THEN i ELSE 0
<1> DEFINE n == Len(events)
           live == {j \in DOMAIN events : events[j].action # "D"}
<1>1. n \in Nat /\ DOMAIN events = 1..n /\ i \in 1..n
  BY LenProperties DEF Leads
<1>2. \A j \in 1..n : events[j].time \in Nat
  <2>1. \A j \in 1..n : events[j] \in Events
    BY ElementOfSeq
  <2>2. \A e \in Events : e.time \in Nat
    BY CalendarAssumption DEF Events
  <2> QED
    BY <2>1, <2>2
<1>3. CASE ~Live(events, i)
  <2>1. live = {}
    BY <1>1, <1>3 DEF Leads, Live
  <2> QED
    BY <1>3, <2>1 DEF First
<1>4. CASE Live(events, i)
  <2>1. i \in live /\ \A j \in live : Before(events, i, j)
    BY <1>1, <1>4 DEF Leads, Live
  <2>2. ASSUME NEW x \in live, \A j \in live : Before(events, x, j) PROVE x = i
    <3>1. Before(events, x, i) /\ Before(events, i, x) /\ x \in 1..n
      BY <1>1, <2>1, <2>2
    <3> QED
      BY <1>1, <1>2, <3>1 DEF Before
  <2> HIDE DEF live
  <2> DEFINE c == CHOOSE x \in live : \A j \in live : Before(events, x, j)
  <2>3. c \in live /\ \A j \in live : Before(events, c, j)
    BY <2>1
  <2>4. c = i
    BY <2>2, <2>3
  <2>5. First(events) = c
    BY <2>1 DEF First, Before, live
  <2> QED
    BY <1>4, <2>4, <2>5
<1> QED
  BY <1>3, <1>4

\* The scan ends with the leader of the whole sequence.
LEMMA ScanLeads ==
  ASSUME NEW events \in Seq(Events), events # <<>>
  PROVE  \E b : /\ Leads(events, Len(events), b)
               /\ getEarliestEvent(events) = IF Live(events, b) THEN b ELSE 0
<1> DEFINE n == Len(events)
<1>1. n \in Nat \ {0}
  BY EmptySeq, LenProperties
<1>2. PICK f : /\ \A i \in 1..n : f[i] = Best(events, i, f[i - 1])
               /\ getEarliestEvent(events) = IF events[f[n]].action = "D" THEN 0 ELSE f[n]
  BY ScanIs
<1> DEFINE Bad == {k \in 1..n : ~Leads(events, k, f[k])}
<1>3. Bad = {}
  <2> SUFFICES ASSUME Bad # {} PROVE FALSE
    OBVIOUS
  <2>1. PICK k \in Bad : \A j \in Bad : k <= j
    <3>1. Bad \in SUBSET Nat
      BY <1>1
    <3> HIDE DEF Bad
    <3> QED
      BY <3>1, Least
  <2>2. k \in 1..n /\ ~Leads(events, k, f[k])
    BY <2>1
  <2>3. k # 1 => Leads(events, k - 1, f[k - 1])
    <3>1. k # 1 => k - 1 \in 1..n /\ ~(k <= k - 1)
      BY <1>1, <2>2
    <3>2. k # 1 => k - 1 \notin Bad
      BY <2>1, <3>1
    <3> QED
      BY <3>1, <3>2
  <2>4. Leads(events, k, Best(events, k, f[k - 1]))
    BY <2>2, <2>3, BestLeads
  <2> QED
    BY <1>2, <2>2, <2>4
<1>4. Leads(events, n, f[n])
  BY <1>1, <1>3
<1> QED
  BY <1>2, <1>4 DEF Live

\* getEarliestEvent finds, in every sequence of events, the first: of those that are
\* not deleted and have the least time the last one created, 0 if all are deleted.
THEOREM ScanFindsFirst ==
  ASSUME NEW events \in Seq(Events), events # <<>>
  PROVE  getEarliestEvent(events) = First(events)
  BY ScanLeads, LeaderIsFirst

\* The first event is the one live event that is before every live event.
LEMMA FirstIs ==
  ASSUME NEW events \in Seq(Events)
  PROVE  /\ First(events) \in 0..Len(events)
         /\ First(events) = 0 => \A j \in 1..Len(events) : ~Live(events, j)
         /\ First(events) # 0 =>
              /\ Live(events, First(events))
              /\ \A j \in 1..Len(events) : Live(events, j) => Before(events, First(events), j)
         /\ \A i \in 1..Len(events) :
              Live(events, i) /\ (\A j \in 1..Len(events) : Live(events, j) => Before(events, i, j))
                => i = First(events)
<1> DEFINE n == Len(events)
<1>1. CASE events = <<>>
  <2>1. n = 0 /\ DOMAIN events = {} /\ 1..n = {}
    BY <1>1
  <2>2. First(events) = 0
    BY <2>1 DEF First
  <2> QED
    BY <2>1, <2>2
<1>2. CASE events # <<>>
  <2>1. n \in Nat \ {0}
    BY <1>2, EmptySeq, LenProperties
  <2>2. PICK b : Leads(events, n, b)
    BY <1>2, ScanLeads
  <2>3. First(events) = IF Live(events, b) THEN b ELSE 0
    BY <2>2, LeaderIsFirst
  <2>4. b \in 1..n /\ (~Live(events, b) => \A j \in 1..n : ~Live(events, j))
        /\ (Live(events, b) => \A j \in 1..n : Live(events, j) => Before(events, b, j))
    BY <2>2 DEF Leads
  <2>5. ASSUME NEW i \in 1..n, Live(events, i), \A j \in 1..n : Live(events, j) => Before(events, i, j)
        PROVE  i = First(events)
    <3>1. Live(events, b) /\ Before(events, i, b) /\ Before(events, b, i)
      BY <2>4, <2>5
    <3>2. events[i].time \in Nat /\ events[b].time \in Nat
      <4>1. events[i] \in Events /\ events[b] \in Events
        BY <2>4, ElementOfSeq
      <4> QED
        BY <4>1, CalendarAssumption DEF Events
    <3> QED
      BY <2>1, <2>3, <2>4, <3>1, <3>2 DEF Before
  <2>6. b # 0
    BY <2>4
  <2> QED
    BY <2>3, <2>4, <2>5, <2>6
<1> QED
  BY <1>1, <1>2

\* No event is the first of none.
LEMMA FirstOfNone == First(<<>>) = 0
<1>1. {j \in DOMAIN <<>> : <<>>[j].action # "D"} = {}
  OBVIOUS
<1> QED
  BY <1>1 DEF First

\* A line changes at most one event, m, and leaves or gives it the title of the line.
LEMMA InsertIs ==
  ASSUME NEW events \in Seq(Events), NEW e \in Events
  PROVE  LET new == insertCalendarEvent(events, e)
         IN  /\ new \in Seq(Events) /\ Len(new) \in Nat /\ Len(events) <= Len(new)
             /\ \E m \in 0..Len(new) :
                  /\ \A j \in 1..Len(new) : j # m => j \in 1..Len(events) /\ new[j] = events[j]
                  /\ m # 0 => new[m].title = e.title
                  /\ m # 0 /\ m <= Len(events) => events[m].title = e.title
<1> DEFINE new == insertCalendarEvent(events, e)
           n == Len(events)
           named == Positions(events, e.title)
<1>0. n \in Nat /\ DOMAIN events = 1..n
  BY LenProperties
<1>1. CASE e.action = "C"
  <2>1. new = Append(events, e)
    BY <1>1 DEF insertCalendarEvent
  <2>2. /\ new \in Seq(Events) /\ Len(new) = n + 1
        /\ \A j \in 1..n : new[j] = events[j]
        /\ new[n + 1] = e
    BY <2>1, AppendProperties
  <2>3. \A j \in 1..Len(new) : j # n + 1 => j \in 1..n
    BY <1>0, <2>2
  <2>4. n + 1 \in 0..Len(new) /\ n + 1 # 0 /\ ~(n + 1 <= n) /\ Len(new) \in Nat /\ n <= Len(new)
    BY <1>0, <2>2
  <2> QED
    BY <2>2, <2>3, <2>4
<1>2. CASE e.action # "C" /\ named = {}
  <2>1. new = events
    BY <1>2 DEF insertCalendarEvent, updateCalendarEvent
  <2>2. 0 \in 0..Len(new) /\ n <= Len(new)
    BY <1>0, <2>1
  <2> QED
    BY <1>0, <2>1, <2>2
<1>3. CASE e.action # "C" /\ named # {}
  <2> DEFINE first == CHOOSE i \in named : \A j \in named : i <= j
  <2>1. first \in named
    <3>1. named \in SUBSET Nat
      BY <1>0 DEF Positions
    <3> HIDE DEF named
    <3> QED
      BY <1>3, <3>1, Least
  <2>2. first \in 1..n /\ events[first].title = e.title
    BY <1>0, <2>1 DEF Positions
  <2> DEFINE changed == [e EXCEPT !.date = events[first].date]
  <2>3. new = [events EXCEPT ![first] = changed]
    BY <1>3 DEF insertCalendarEvent, updateCalendarEvent
  <2>4. changed \in Events /\ changed.title = e.title
    <3>1. events[first] \in Events
      BY <2>2, ElementOfSeq
    <3> HIDE DEF first
    <3> QED
      BY <3>1 DEF Events
  <2> HIDE DEF first, changed
  <2>5. /\ new \in Seq(Events) /\ Len(new) = n
        /\ new[first] = changed
        /\ \A j \in 1..n : j # first => new[j] = events[j]
    BY <1>0, <2>2, <2>3, <2>4, ExceptSeq
  <2>6. first \in 0..Len(new) /\ first # 0
    BY <1>0, <2>2, <2>5
  <2> QED
    BY <1>0, <2>2, <2>4, <2>5, <2>6
<1> QED
  BY <1>1, <1>2, <1>3

\* What is printed for the first event.
Shown(events, i) == [time |-> events[i].time, location |-> events[i].location]
Outputs == [time : Times, location : Locations]

\* The pointer is to the first event, while there is one.
DayOK(day) ==
  /\ day.events \in Seq(Events)
  /\ First(day.events) # 0 => day.earliestEvent = First(day.events)

\* A line that does not name the first event has left it as it was, and first.
LEMMA SameFirst ==
  ASSUME NEW events \in Seq(Events), NEW e \in Events,
         LET new == insertCalendarEvent(events, e)
         IN  First(new) # 0 /\ new[First(new)].title # e.title,
         \/ First(events) = 0
         \/ LET new == insertCalendarEvent(events, e)
            IN  new[First(events)].title = new[First(new)].title
  PROVE  /\ First(events) = First(insertCalendarEvent(events, e)) /\ events # <<>>
         /\ First(events) # 0
         /\ insertCalendarEvent(events, e)[First(events)] = events[First(events)]
<1> DEFINE new == insertCalendarEvent(events, e)
           i == First(new)
           p == First(events)
<1>1. /\ new \in Seq(Events) /\ Len(new) \in Nat /\ Len(events) \in Nat /\ Len(events) <= Len(new)
      /\ i \in 1..Len(new) /\ Live(new, i) /\ new[i].title # e.title
      /\ \A j \in 1..Len(new) : Live(new, j) => Before(new, i, j)
  <2>1. new \in Seq(Events) /\ Len(new) \in Nat /\ Len(events) \in Nat /\ Len(events) <= Len(new)
    BY InsertIs, LenProperties
  <2> HIDE DEF new
  <2> QED
    BY <2>1, FirstIs DEF new
<1>2. PICK m \in 0..Len(new) :
             /\ \A j \in 1..Len(new) : j # m => j \in 1..Len(events) /\ new[j] = events[j]
             /\ m # 0 => new[m].title = e.title
             /\ m # 0 /\ m <= Len(events) => events[m].title = e.title
  BY InsertIs
<1>3. i # m /\ i # 0
  BY <1>1, <1>2
<1>4. i \in 1..Len(events) /\ new[i] = events[i] /\ Live(events, i)
  BY <1>1, <1>2, <1>3 DEF Live
<1>5. p # 0 /\ p \in 1..Len(events) /\ Live(events, p) /\ Before(events, p, i)
  BY <1>4, FirstIs
<1>6. p # m /\ p \in 1..Len(new)
  <2>1. new[p].title # e.title
    BY <1>1, <1>5
  <2> QED
    BY <1>1, <1>2, <1>5, <2>1
<1>7. new[p] = events[p]
  BY <1>2, <1>6
<1>8. Before(new, i, p)
  BY <1>1, <1>5, <1>6, <1>7 DEF Live
<1>9. p = i
  <2>1. Before(events, i, p)
    BY <1>4, <1>7, <1>8 DEF Before
  <2>2. events[i].time \in Nat /\ events[p].time \in Nat
    <3>1. events[i] \in Events /\ events[p] \in Events
      BY <1>4, <1>5, ElementOfSeq
    <3> QED
      BY <3>1, CalendarAssumption DEF Events
  <2> QED
    BY <1>1, <1>5, <2>1, <2>2 DEF Before
<1>10. events # <<>>
  BY <1>5
<1> QED
  BY <1>5, <1>7, <1>9, <1>10

\* What a line does to its date.
LEMMA DayStep ==
  ASSUME NEW day, DayOK(day), NEW e \in Events
  PROVE  LET r == filterCalendarEvent(day, e)
             i == First(r.day.events)
         IN  /\ DayOK(r.day)
             /\ r.fate # "wildPointer"
             /\ r.line = Nothing =>
                  \/ r.day.events = <<>>
                  \/ /\ First(day.events) # 0 /\ i = First(day.events) /\ day.events # <<>>
                     /\ r.day.events[i] = day.events[i]
             /\ r.line # Nothing => r.line = IF i = 0 THEN NA ELSE Shown(r.day.events, i)
             /\ r.line # Nothing =>
                  i = 0 \/ r.day.events[i].title = e.title \/ i # First(day.events)
             /\ r.line \in Outputs \cup {Nothing, NA}
<1> DEFINE new == insertCalendarEvent(day.events, e)
           r == filterCalendarEvent(day, e)
           i == First(new)
           p == First(day.events)
           Result(pointer, line, end) ==
             [day |-> [events |-> new, earliestEvent |-> pointer], line |-> line, fate |-> end]
<1>1. new \in Seq(Events) /\ day.events \in Seq(Events) /\ (p # 0 => day.earliestEvent = p)
  BY InsertIs DEF DayOK
<1>2. CASE new = <<>>
  <2>1. r = Result(0, Nothing, "nullDate")
    BY <1>2 DEF filterCalendarEvent
  <2>2. i = 0
    BY <1>2, FirstOfNone
  <2>3. r.day.events = new /\ r.line = Nothing /\ r.fate = "nullDate"
    BY <2>1
  <2>4. DayOK(r.day)
    BY <1>1, <2>2, <2>3 DEF DayOK
  <2> QED
    BY <1>2, <2>3, <2>4
<1>3. CASE new # <<>> /\ i = 0
  <2>1. getEarliestEvent(new) = 0
    BY <1>1, <1>3, ScanFindsFirst
  <2>2. r = Result(day.earliestEvent, NA, "runs")
    BY <1>3, <2>1 DEF filterCalendarEvent
  <2>3. NA # Nothing
    BY CalendarAssumption
  <2> QED
    BY <1>1, <1>3, <2>2, <2>3 DEF DayOK
<1>4. CASE new # <<>> /\ i # 0
  <2>1. getEarliestEvent(new) = i
    BY <1>1, <1>4, ScanFindsFirst
  <2>2. ~(new[i].title # e.title /\ day.earliestEvent = 0)
    <3>1. new[i].title # e.title => p # 0
      <4> SUFFICES ASSUME new[i].title # e.title, p = 0 PROVE FALSE
        OBVIOUS
      <4> QED
        BY <1>1, <1>4, SameFirst
    <3> QED
      BY <1>1, <3>1
  <2>3. Shown(new, i) \in Outputs /\ Shown(new, i) # Nothing
    <3>1. i \in 1..Len(new)
      BY <1>1, <1>4, FirstIs
    <3>2. new[i] \in Events
      BY <1>1, <3>1, ElementOfSeq
    <3>3. Shown(new, i) \in Outputs
      BY <3>2 DEF Events, Shown, Outputs
    <3> QED
      BY <3>3, CalendarAssumption DEF Outputs
  <2>4. CASE Suppressed(day, new, i, e)
    <3>1. r = Result(day.earliestEvent, Nothing, "runs")
      BY <1>4, <2>1, <2>2, <2>4 DEF filterCalendarEvent
    <3>2. new[i].title # e.title /\ (p = 0 \/ new[p].title = new[i].title)
      BY <1>1, <2>4 DEF Suppressed
    <3>3. p = i /\ day.events # <<>> /\ p # 0 /\ new[p] = day.events[p]
      BY <1>1, <1>4, <3>2, SameFirst
    <3> QED
      BY <1>1, <1>4, <3>1, <3>3 DEF DayOK
  <2>5. CASE ~Suppressed(day, new, i, e)
    <3>1. r = Result(i, Shown(new, i), "runs")
      BY <1>4, <2>1, <2>2, <2>5 DEF filterCalendarEvent, Shown
    <3>2. new[i].title = e.title \/ i # p
      BY <1>1, <1>4, <2>5 DEF Suppressed
    <3> QED
      BY <1>1, <1>4, <2>3, <3>1, <3>2 DEF DayOK
  <2> QED
    BY <2>4, <2>5
<1> QED
  BY <1>2, <1>3, <1>4

-----------------------------------------------------------------------------
(* The calendar *)

\* The inductive invariant of the calendar.
CalInv ==
  /\ DOMAIN cal = Dates /\ cal = [d \in Dates |-> cal[d]] /\ \A d \in Dates : DayOK(cal[d])
  /\ printed \in [Dates -> Outputs \cup {Nothing, NA}]
  /\ PrintedIsFirst

\* A line that the filter takes preserves the invariant.
LEMMA FilterNext ==
  ASSUME CalInv, NEW e \in Events, Filter(e)
  PROVE  CalInv'
<1> DEFINE d == e.date
           r == filterCalendarEvent(cal[d], e)
<1>1. d \in Dates /\ DayOK(cal[d])
  BY DEF Events, CalInv
<1>2. /\ cal' = [cal EXCEPT ![d] = r.day] /\ fate' = r.fate
      /\ printed' = IF r.line = Nothing THEN printed ELSE [printed EXCEPT ![d] = r.line]
  BY DEF Filter
<1> DEFINE i == First(r.day.events)
<1>3. /\ DayOK(r.day)
      /\ r.fate # "wildPointer"
      /\ r.line = Nothing =>
           \/ r.day.events = <<>>
           \/ /\ First(cal[d].events) # 0 /\ i = First(cal[d].events) /\ cal[d].events # <<>>
              /\ r.day.events[i] = cal[d].events[i]
      /\ r.line # Nothing => r.line = IF i = 0 THEN NA ELSE Shown(r.day.events, i)
      /\ r.line \in Outputs \cup {Nothing, NA}
  BY <1>1, DayStep
<1> HIDE DEF r
<1>4. /\ DOMAIN cal' = Dates /\ cal' = [x \in Dates |-> cal'[x]]
      /\ cal'[d] = r.day /\ \A x \in Dates : x # d => cal'[x] = cal[x]
  BY <1>1, <1>2 DEF CalInv
<1>5. printed' \in [Dates -> Outputs \cup {Nothing, NA}]
      /\ printed'[d] = (IF r.line = Nothing THEN printed[d] ELSE r.line)
      /\ \A x \in Dates : x # d => printed'[x] = printed[x]
  BY <1>1, <1>2, <1>3 DEF CalInv
<1>6. PrintedIsFirst'
  <2> SUFFICES ASSUME NEW x \in Dates, cal'[x].events # <<>>
               PROVE  printed'[x] = IF First(cal'[x].events) = 0 THEN NA
                                    ELSE Shown(cal'[x].events, First(cal'[x].events))
    BY <1>2, <1>3 DEF PrintedIsFirst, Shown
  <2>1. cal[x].events # <<>> =>
          printed[x] = IF First(cal[x].events) = 0 THEN NA
                       ELSE Shown(cal[x].events, First(cal[x].events))
    BY DEF CalInv, PrintedIsFirst, Shown
  <2>2. CASE x # d
    BY <1>4, <1>5, <2>1, <2>2
  <2>3. CASE x = d /\ r.line # Nothing
    BY <1>3, <1>4, <1>5, <2>3
  <2>4. CASE x = d /\ r.line = Nothing
    <3>1. /\ First(cal[d].events) # 0 /\ i = First(cal[d].events) /\ cal[d].events # <<>>
          /\ r.day.events[i] = cal[d].events[i]
      BY <1>3, <1>4, <2>4
    <3>2. printed'[x] = Shown(cal[d].events, i)
      BY <1>5, <2>1, <2>4, <3>1
    <3> QED
      BY <1>4, <2>4, <3>1, <3>2 DEF Shown
  <2> QED
    BY <2>2, <2>3, <2>4
<1> QED
  BY <1>3, <1>4, <1>5, <1>6 DEF CalInv

\* The empty calendar satisfies the invariant.
LEMMA CalInit ==
  ASSUME Init
  PROVE  CalInv
<1>1. <<>> \in Seq(Events)
  OBVIOUS
<1> QED
  BY <1>1, FirstOfNone DEF Init, CalInv, DayOK, PrintedIsFirst

\* So does a step that leaves the calendar alone.
LEMMA CalStutter ==
  ASSUME CalInv, UNCHANGED vars
  PROVE  CalInv'
  BY DEF CalInv, PrintedIsFirst, vars

\* In every reachable state the last line printed for a date is where and when its first
\* event is, and earliestEvent was never followed before it was set.
THEOREM CalendarPrintedIsFirst == Spec => []PrintedIsFirst
<1>1. CalInv /\ [Next]_vars => CalInv'
  BY FilterNext, CalStutter DEF Next
<1>2. CalInv => PrintedIsFirst
  BY DEF CalInv
<1> QED
  BY CalInit, <1>1, <1>2, PTL DEF Spec

\* In every reachable state a line that prints names the event that is then first, makes
\* another one first, or leaves none.
THEOREM CalendarPrintsNews == Spec => []PrintsNews
<1>1. CalInv /\ [Next]_vars => CalInv'
  BY FilterNext, CalStutter DEF Next
<1>2. CalInv => PrintsNews
  <2> SUFFICES ASSUME CalInv, NEW e \in Events
               PROVE  LET result == filterCalendarEvent(cal[e.date], e)
                          i == First(result.day.events)
                      IN  result.line # Nothing =>
                            \/ i = 0 \/ result.day.events[i].title = e.title
                            \/ i # First(cal[e.date].events)
    BY DEF PrintsNews
  <2>1. DayOK(cal[e.date])
    BY DEF CalInv, Events
  <2> QED
    BY <2>1, DayStep
<1> QED
  BY CalInit, <1>1, <1>2, PTL DEF Spec

-----------------------------------------------------------------------------
(* The lines on their way *)

\* What the scan of a sequence of lines has kept of the first n.
Keeping(s, lines, n) == IF Keeps(lines[n]) THEN Append(s, lines[n].event) ELSE s
Kept(f, lines) ==
  \A n \in 0..Len(lines) : f[n] = IF n = 0 THEN <<>> ELSE Keeping(f[n - 1], lines, n)

\* A line holds an event.
LEMMA EventOfLine == \A l \in Lines : l.event \in Events
  BY DEF Lines

\* EventsOf is computed line by line.
LEMMA EventsOfIs ==
  ASSUME NEW lines \in Seq(Lines)
  PROVE  \E f : Kept(f, lines) /\ EventsOf(lines) = f[Len(lines)]
<1> DEFINE n == Len(lines)
           next == [x \in Nat \X Seq(Events) |-> IF x[1] \in 1..n THEN Keeping(x[2], lines, x[1]) ELSE x[2]]
           upTo == CHOOSE f : f =
             [k \in 0..Len(lines) |->
               IF k = 0 THEN <<>>
               ELSE IF Keeps(lines[k]) THEN Append(f[k - 1], lines[k].event) ELSE f[k - 1]]
<1>1. n \in Nat /\ <<>> \in Seq(Events)
  BY LenProperties
<1>2. \A k \in 1..n, s \in Seq(Events) : Keeping(s, lines, k) \in Seq(Events)
  <2> SUFFICES ASSUME NEW k \in 1..n, NEW s \in Seq(Events) PROVE Keeping(s, lines, k) \in Seq(Events)
    OBVIOUS
  <2>1. lines[k] \in Lines
    BY ElementOfSeq
  <2>2. lines[k].event \in Events
    BY <2>1, EventOfLine
  <2>3. Append(s, lines[k].event) \in Seq(Events)
    BY <2>2, AppendProperties
  <2> QED
    BY <2>3 DEF Keeping
<1>3. next \in [Nat \X Seq(Events) -> Seq(Events)]
  BY <1>2
<1>4. \A k \in 1..n, s \in Seq(Events) : next[<<k, s>>] = Keeping(s, lines, k)
  BY <1>1
<1> HIDE DEF next
<1>5. PICK h \in [0..n -> Seq(Events)] : Computes(h, <<>>, n, next)
  <2> HIDE DEF n
  <2> QED
    BY <1>1, <1>3, SomeFunction
<1>6. \A k \in 0..n : h[k] = IF k = 0 THEN <<>> ELSE Keeping(h[k - 1], lines, k)
  <2> SUFFICES ASSUME NEW k \in 0..n, k # 0 PROVE h[k] = Keeping(h[k - 1], lines, k)
    BY <1>1, <1>5 DEF Computes
  <2>1. k \in 1..n /\ k - 1 \in 0..n
    BY <1>1
  <2>2. h[k - 1] \in Seq(Events) /\ h[k] = next[<<k, h[k - 1]>>]
    BY <1>5, <2>1 DEF Computes
  <2> QED
    BY <1>4, <2>1, <2>2
<1>7. h = [k \in 0..Len(lines) |->
            IF k = 0 THEN <<>>
            ELSE IF Keeps(lines[k]) THEN Append(h[k - 1], lines[k].event) ELSE h[k - 1]]
  BY <1>6 DEF Keeping
<1>8. upTo = [k \in 0..Len(lines) |->
               IF k = 0 THEN <<>>
               ELSE IF Keeps(lines[k]) THEN Append(upTo[k - 1], lines[k].event) ELSE upTo[k - 1]]
  BY <1>7, Zenon
<1>9. EventsOf(lines) = upTo[n]
  BY DEF EventsOf
<1> HIDE DEF upTo
<1>10. Kept(upTo, lines)
  BY <1>8 DEF Kept, Keeping
<1> QED
  BY <1>9, <1>10

\* What has been kept of a prefix depends on the prefix only, and consists of events.
LEMMA KeptPrefix ==
  ASSUME NEW a \in Seq(Lines), NEW b \in Seq(Lines), NEW f, NEW g, Kept(f, a), Kept(g, b),
         NEW n \in 0..Len(a), n <= Len(b), \A k \in 1..n : a[k] = b[k]
  PROVE  f[n] = g[n] /\ f[n] \in Seq(Events)
<1> DEFINE Bad == {k \in 0..n : ~(f[k] = g[k] /\ f[k] \in Seq(Events))}
<1>1. n \in Nat /\ Len(a) \in Nat /\ Len(b) \in Nat
  BY LenProperties
<1>2. Bad = {}
  <2> SUFFICES ASSUME Bad # {} PROVE FALSE
    OBVIOUS
  <2>1. PICK k \in Bad : \A j \in Bad : k <= j
    <3>1. Bad \in SUBSET Nat
      BY <1>1
    <3> HIDE DEF Bad
    <3> QED
      BY <3>1, Least
  <2>2. k \in 0..n /\ ~(f[k] = g[k] /\ f[k] \in Seq(Events))
    BY <2>1
  <2>3. k \in 0..Len(a) /\ k \in 0..Len(b)
    BY <1>1, <2>2
  <2>4. k # 0
    <3> SUFFICES ASSUME k = 0 PROVE FALSE
      OBVIOUS
    <3>1. f[k] = <<>> /\ g[k] = <<>>
      BY <2>3 DEF Kept
    <3> QED
      BY <2>2, <3>1
  <2>5. k - 1 \in 0..n /\ ~(k <= k - 1) /\ k \in 1..n /\ k \in 1..Len(a)
    BY <1>1, <2>2, <2>3, <2>4
  <2>6. f[k - 1] = g[k - 1] /\ f[k - 1] \in Seq(Events)
    <3>1. k - 1 \notin Bad
      BY <2>1, <2>5
    <3> QED
      BY <2>5, <3>1
  <2>7. f[k] = Keeping(f[k - 1], a, k) /\ g[k] = Keeping(g[k - 1], b, k)
    BY <2>3, <2>4 DEF Kept
  <2>8. f[k] = g[k]
    BY <2>5, <2>6, <2>7 DEF Keeping
  <2>9. f[k] \in Seq(Events)
    <3>1. a[k].event \in Events
      BY <2>5, ElementOfSeq, EventOfLine
    <3>2. Append(f[k - 1], a[k].event) \in Seq(Events)
      BY <2>6, <3>1, AppendProperties
    <3> QED
      BY <2>6, <2>7, <3>2 DEF Keeping
  <2> QED
    BY <2>2, <2>8, <2>9
<1>3. n \in 0..n
  BY <1>1
<1> QED
  BY <1>2, <1>3

\* EventsOf returns events, none of no lines.
LEMMA EventsOfTypes ==
  ASSUME NEW lines \in Seq(Lines)
  PROVE  EventsOf(lines) \in Seq(Events) /\ EventsOf(<<>>) = <<>>
<1>1. PICK f : Kept(f, lines) /\ EventsOf(lines) = f[Len(lines)]
  BY EventsOfIs
<1>2. Len(lines) \in Nat
  BY LenProperties
<1>3. EventsOf(lines) \in Seq(Events)
  BY <1>1, <1>2, KeptPrefix
<1>4. <<>> \in Seq(Lines) /\ Len(<<>>) = 0
  OBVIOUS
<1>5. PICK g : Kept(g, <<>>) /\ EventsOf(<<>>) = g[0]
  BY <1>4, EventsOfIs
<1>6. g[0] = <<>>
  BY <1>4, <1>5 DEF Kept
<1> QED
  BY <1>3, <1>5, <1>6

\* One more line adds its event, if the email filter keeps it.
LEMMA EventsOfAppend ==
  ASSUME NEW lines \in Seq(Lines), NEW l \in Lines
  PROVE  EventsOf(Append(lines, l)) =
           IF Keeps(l) THEN Append(EventsOf(lines), l.event) ELSE EventsOf(lines)
<1> DEFINE n == Len(lines)
           all == Append(lines, l)
<1>1. /\ n \in Nat /\ all \in Seq(Lines) /\ Len(all) = n + 1
      /\ \A k \in 1..n : lines[k] = all[k]
      /\ all[n + 1] = l
  BY LenProperties, AppendProperties
<1> HIDE DEF all
<1>2. PICK f : Kept(f, lines) /\ EventsOf(lines) = f[n]
  BY EventsOfIs
<1>3. PICK g : Kept(g, all) /\ EventsOf(all) = g[n + 1]
  BY <1>1, EventsOfIs
<1>4. n \in 0..Len(lines) /\ n <= Len(all) /\ n + 1 \in 0..Len(all) /\ n + 1 # 0 /\ (n + 1) - 1 = n
  BY <1>1
<1>5. f[n] = g[n]
  BY <1>1, <1>2, <1>3, <1>4, KeptPrefix
<1>6. g[n + 1] = Keeping(g[n], all, n + 1)
  BY <1>3, <1>4 DEF Kept
<1> QED
  BY <1>1, <1>2, <1>3, <1>5, <1>6 DEF Keeping, all

\* An append to the second of two sequences is one to both.
LEMMA LineAppended ==
  ASSUME NEW a \in Seq(Lines), NEW c \in Seq(Lines), NEW l \in Lines
  PROVE  a \o Append(c, l) = Append(a \o c, l)
<1>1. <<l>> \in Seq(Lines)
  OBVIOUS
<1>2. a \o c \in Seq(Lines)
  BY ConcatProperties
<1>3. Append(a \o c, l) = (a \o c) \o <<l>>
  BY <1>2, AppendIsConcat
<1>4. Append(c, l) = c \o <<l>>
  BY AppendIsConcat
<1>5. (a \o c) \o <<l>> = a \o (c \o <<l>>)
  BY <1>1, ConcatAssociative
<1> QED
  BY <1>3, <1>4, <1>5

\* The same of events.
LEMMA EventAppended ==
  ASSUME NEW a \in Seq(Events), NEW c \in Seq(Events), NEW l \in Events
  PROVE  a \o Append(c, l) = Append(a \o c, l)
<1>1. <<l>> \in Seq(Events)
  OBVIOUS
<1>2. a \o c \in Seq(Events)
  BY ConcatProperties
<1>3. Append(a \o c, l) = (a \o c) \o <<l>>
  BY <1>2, AppendIsConcat
<1>4. Append(c, l) = c \o <<l>>
  BY AppendIsConcat
<1>5. (a \o c) \o <<l>> = a \o (c \o <<l>>)
  BY <1>1, ConcatAssociative
<1> QED
  BY <1>3, <1>4, <1>5

\* EventsOf of two parts of the input is that of the one, then that of the other.
LEMMA EventsOfConcat ==
  ASSUME NEW a \in Seq(Lines), NEW b \in Seq(Lines)
  PROVE  EventsOf(a \o b) = EventsOf(a) \o EventsOf(b)
<1> DEFINE Splits(s) == EventsOf(a \o s) = EventsOf(a) \o EventsOf(s)
           Bad == {n \in Nat : \E s \in Seq(Lines) : Len(s) = n /\ ~Splits(s)}
<1>1. Bad = {}
  <2> SUFFICES ASSUME Bad # {} PROVE FALSE
    OBVIOUS
  <2>1. PICK n \in Bad : \A k \in Bad : n <= k
    <3>1. Bad \in SUBSET Nat
      OBVIOUS
    <3> HIDE DEF Bad
    <3> QED
      BY <3>1, Least
  <2>2. PICK s \in Seq(Lines) : Len(s) = n /\ ~Splits(s)
    BY <2>1
  <2>3. s # <<>>
    <3> SUFFICES ASSUME s = <<>> PROVE FALSE
      OBVIOUS
    <3>1. a \o <<>> = a /\ EventsOf(<<>>) = <<>> /\ EventsOf(a) \in Seq(Events)
      BY EventsOfTypes, ConcatEmptySeq
    <3>2. EventsOf(a) \o <<>> = EventsOf(a)
      BY <3>1, ConcatEmptySeq
    <3>3. Splits(<<>>)
      BY <3>1, <3>2
    <3> QED
      BY <2>2, <3>3
  <2>4. PICK c \in Seq(Lines), l \in Lines : s = Append(c, l)
    BY <2>3, SequenceEmptyOrAppend
  <2>5. Len(c) \in Nat /\ Len(s) = Len(c) + 1
    BY <2>4, AppendProperties, LenProperties
  <2>6. Splits(c)
    <3>1. Len(c) \notin Bad
      <4>1. n \in Nat /\ n = Len(c) + 1 /\ ~(n <= Len(c))
        BY <2>1, <2>2, <2>5
      <4> HIDE DEF Bad
      <4> QED
        BY <2>1, <4>1
    <3> QED
      BY <2>5, <3>1
  <2>7. a \o s = Append(a \o c, l) /\ a \o c \in Seq(Lines)
    <3>1. a \o Append(c, l) = Append(a \o c, l)
      BY LineAppended
    <3>2. a \o c \in Seq(Lines)
      BY ConcatProperties
    <3> QED
      BY <2>4, <3>1, <3>2
  <2>8. EventsOf(a) \in Seq(Events) /\ EventsOf(c) \in Seq(Events) /\ l.event \in Events
    BY EventsOfTypes, EventOfLine
  <2>9. Append(EventsOf(a) \o EventsOf(c), l.event) = EventsOf(a) \o Append(EventsOf(c), l.event)
    BY <2>8, EventAppended
  <2>10. EventsOf(a \o s) = EventsOf(a) \o EventsOf(s)
    BY <2>4, <2>6, <2>7, <2>9, EventsOfAppend
  <2> QED
    BY <2>2, <2>10
<1>2. Len(b) \in Nat
  BY LenProperties
<1> QED
  BY <1>1, <1>2

\* The first of one sequence becomes the last of another before it.
LEMMA Moves ==
  ASSUME NEW S, NEW s \in Seq(S), NEW t \in Seq(S), t # <<>>
  PROVE  /\ Append(s, Head(t)) \o Tail(t) = s \o t
         /\ Append(s, Head(t)) \in Seq(S) /\ Tail(t) \in Seq(S) /\ Head(t) \in S
         /\ t = <<Head(t)>> \o Tail(t)
<1>1. Head(t) \in S /\ Tail(t) \in Seq(S) /\ <<Head(t)>> \in Seq(S)
  BY HeadTailProperties
<1>2. t = <<Head(t)>> \o Tail(t)
  <2>1. /\ Len(Tail(t)) = Len(t) - 1 /\ Len(t) \in Nat \ {0}
        /\ \A i \in 1..Len(Tail(t)) : Tail(t)[i] = t[i + 1]
    BY HeadTailProperties, LenProperties, EmptySeq
  <2> DEFINE u == <<Head(t)>> \o Tail(t)
  <2>2. /\ u \in Seq(S) /\ Len(u) = 1 + Len(Tail(t))
        /\ u[1] = Head(t) /\ \A i \in 2..(1 + Len(Tail(t))) : u[i] = Tail(t)[i - 1]
    BY <1>1, <2>1, ConcatProperties
  <2> HIDE DEF u
  <2>3. Len(u) = Len(t)
    BY <2>1, <2>2
  <2>4. \A i \in 1..Len(t) : u[i] = t[i]
    <3>1. u[1] = t[1]
      BY <2>2
    <3>2. ASSUME NEW i \in 2..Len(t) PROVE u[i] = t[i]
      <4>1. i - 1 \in 1..Len(Tail(t)) /\ (i - 1) + 1 = i /\ i \in 2..(1 + Len(Tail(t)))
        BY <2>1
      <4> QED
        BY <2>1, <2>2, <4>1
    <3> QED
      BY <2>1, <3>1, <3>2
  <2>5. u = t
    BY <2>2, <2>3, <2>4, SeqEqual
  <2> QED
    BY <2>5 DEF u
<1>3. Append(s, Head(t)) = s \o <<Head(t)>> /\ Append(s, Head(t)) \in Seq(S)
  BY <1>1, AppendIsConcat, AppendProperties
<1>4. (s \o <<Head(t)>>) \o Tail(t) = s \o (<<Head(t)>> \o Tail(t))
  BY <1>1, ConcatAssociative
<1> QED
  BY <1>1, <1>2, <1>3, <1>4

\* Concatenation of lines is associative.
LEMMA LineAssoc ==
  ASSUME NEW a \in Seq(Lines), NEW b \in Seq(Lines), NEW c \in Seq(Lines)
  PROVE  (a \o b) \o c = a \o (b \o c)
  BY ConcatAssociative

\* Moves, of lines.
LEMMA LineMoves ==
  ASSUME NEW s \in Seq(Lines), NEW u \in Seq(Lines), u # <<>>
  PROVE  /\ Append(s, Head(u)) \o Tail(u) = s \o u
         /\ Append(s, Head(u)) \in Seq(Lines) /\ Tail(u) \in Seq(Lines) /\ Head(u) \in Lines
         /\ u = <<Head(u)>> \o Tail(u)
  BY Moves

\* A sequence of one line is the empty one with the line appended.
LEMMA LineFirst == \A x \in Lines : <<x>> = Append(<<>>, x)
<1> SUFFICES ASSUME NEW x \in Lines PROVE <<x>> = Append(<<>>, x)
  OBVIOUS
<1>1. <<x>> \in Seq(Lines) /\ <<>> \in Seq(Lines)
  OBVIOUS
<1>2. Append(<<>>, x) = <<>> \o <<x>>
  BY <1>1, AppendIsConcat
<1>3. <<>> \o <<x>> = <<x>>
  BY <1>1, ConcatEmptySeq
<1> QED
  BY <1>2, <1>3

\* Concatenation of events is associative.
LEMMA EventAssoc ==
  ASSUME NEW a \in Seq(Events), NEW b \in Seq(Events), NEW c \in Seq(Events)
  PROVE  (a \o b) \o c = a \o (b \o c)
  BY ConcatAssociative

\* Moves, of events.
LEMMA EventMoves ==
  ASSUME NEW s \in Seq(Events), NEW u \in Seq(Events), u # <<>>
  PROVE  /\ Append(s, Head(u)) \o Tail(u) = s \o u
         /\ Append(s, Head(u)) \in Seq(Events) /\ Tail(u) \in Seq(Events) /\ Head(u) \in Events
         /\ u = <<Head(u)>> \o Tail(u)
  BY Moves

\* A sequence of one event is the empty one with the event appended.
LEMMA EventFirst == \A x \in Events : <<x>> = Append(<<>>, x)
<1> SUFFICES ASSUME NEW x \in Events PROVE <<x>> = Append(<<>>, x)
  OBVIOUS
<1>1. <<x>> \in Seq(Events) /\ <<>> \in Seq(Events)
  OBVIOUS
<1>2. Append(<<>>, x) = <<>> \o <<x>>
  BY <1>1, AppendIsConcat
<1>3. <<>> \o <<x>> = <<x>>
  BY <1>1, ConcatEmptySeq
<1> QED
  BY <1>2, <1>3

\* What is in the pipes and buffers.
ArriveTypes ==
  /\ input \in Seq(Lines) /\ rest \in Seq(Lines) /\ inputPipe \in Seq(Lines)
  /\ ipcPipe \in Seq(Events) /\ buffered \in Seq(Events) /\ filtered \in Seq(Events)

\* The lines that have been read and those that have not make up the input.
Passed == (filtered \o ipcPipe) \o buffered
Unread == inputPipe \o rest
Arrives == Passed \o EventsOf(Unread) = EventsOf(input)

\* main holds every end until its input has ended, and the email filter the write end
\* of its output.
ProcessesOK ==
  /\ pc \in [Processes -> {"forkEmail", "forkCalendar", "read", "close", "wait1", "wait2",
                           "run", "unborn", "exited"}]
  /\ ends \in [Processes -> SUBSET Ends]
  /\ pc["main"] \notin {"run", "unborn"}
  /\ \A c \in Children : pc[c] \in {"unborn", "close", "run", "exited"}
  /\ pc["main"] \in {"forkEmail", "forkCalendar", "read"} => ends["main"] = Ends
  /\ pc["main"] \in {"forkEmail", "forkCalendar"} => pc["calendar"] = "unborn"
  /\ pc["email"] \in {"close", "run"} => "ipcW" \in ends["email"]

\* When every child has done its work a process ends after those it reads from.
Delivered ==
  faulty = {} =>
    /\ pc["main"] \in {"close", "wait1", "wait2", "exited"} => rest = <<>>
    /\ pc["email"] = "unborn" => pc["main"] = "forkEmail"
    /\ pc["email"] = "exited" => rest = <<>> /\ inputPipe = <<>> /\ buffered = <<>>
    /\ pc["calendar"] = "exited" => pc["email"] = "exited" /\ ipcPipe = <<>>
    /\ pc["main"] = "exited" => pc["calendar"] = "exited"

UpdaterInv == CalInv /\ ArriveTypes /\ Arrives /\ ProcessesOK /\ Delivered

\* The steps that move a line.
LineSteps == Write \/ EmailReads \/ EmailWrites \/ CalendarReads

\* The other steps leave the pipes, the buffers and the calendar as they are.
LEMMA OtherSteps ==
  ASSUME UpdaterNext, ~LineSteps
  PROVE  UNCHANGED pipeVars /\ UNCHANGED vars
  BY DEF UpdaterNext, LineSteps, ForkEmail, ForkCalendar, Fork, ForkFails, InputEnds, Wait, Close, Exec,
         ExecFails, EmailEnds, EmailKilled, CalendarEnds

\* A step that moves a line keeps every line, and their order.
LEMMA ArrivesNext ==
  ASSUME ArriveTypes, Arrives, LineSteps
  PROVE  ArriveTypes' /\ Arrives'
<1>0. /\ input \in Seq(Lines) /\ rest \in Seq(Lines) /\ inputPipe \in Seq(Lines)
      /\ ipcPipe \in Seq(Events) /\ buffered \in Seq(Events) /\ filtered \in Seq(Events)
      /\ filtered \o ipcPipe \in Seq(Events) /\ Passed \in Seq(Events) /\ Unread \in Seq(Lines)
  <2>1. /\ filtered \in Seq(Events) /\ ipcPipe \in Seq(Events) /\ buffered \in Seq(Events)
        /\ inputPipe \in Seq(Lines) /\ rest \in Seq(Lines) /\ input \in Seq(Lines)
    BY DEF ArriveTypes
  <2>2. filtered \o ipcPipe \in Seq(Events)
    BY <2>1, ConcatProperties
  <2>3. Passed \in Seq(Events)
    BY <2>1, <2>2, ConcatProperties DEF Passed
  <2>4. Unread \in Seq(Lines)
    BY <2>1, ConcatProperties DEF Unread
  <2> QED
    BY <2>1, <2>2, <2>3, <2>4
<1>1. CASE Write
  <2>1. /\ rest # <<>> /\ inputPipe' = Append(inputPipe, Head(rest)) /\ rest' = Tail(rest)
        /\ UNCHANGED <<input, ipcPipe, buffered, filtered>>
    BY <1>1 DEF Write
  <2>2. /\ Append(inputPipe, Head(rest)) \o Tail(rest) = inputPipe \o rest
        /\ Append(inputPipe, Head(rest)) \in Seq(Lines) /\ Tail(rest) \in Seq(Lines)
    BY <1>0, <2>1, LineMoves
  <2>3. Unread' = Unread /\ Passed' = Passed
    BY <2>1, <2>2 DEF Unread, Passed
  <2> QED
    BY <1>0, <2>1, <2>2, <2>3 DEF ArriveTypes, Arrives
<1>2. CASE EmailReads
  <2> DEFINE h == Head(inputPipe)
             r == Tail(inputPipe) \o rest
  <2>1. /\ inputPipe # <<>> /\ inputPipe' = Tail(inputPipe)
        /\ buffered' = IF Keeps(h) THEN Append(buffered, h.event) ELSE buffered
        /\ UNCHANGED <<input, rest, ipcPipe, filtered>>
    BY <1>0, <1>2 DEF EmailReads, Readable
  <2>2. Tail(inputPipe) \in Seq(Lines) /\ h \in Lines /\ inputPipe = <<h>> \o Tail(inputPipe)
    BY <1>0, <2>1, LineMoves
  <2>3. <<h>> \in Seq(Lines) /\ <<>> \in Seq(Lines) /\ h.event \in Events
    BY <2>2, EventOfLine
  <2> HIDE DEF h
  <2>4. r \in Seq(Lines)
    BY <1>0, <2>2, ConcatProperties
  <2>5. Unread = <<h>> \o r
    <3>1. (<<h>> \o Tail(inputPipe)) \o rest = <<h>> \o (Tail(inputPipe) \o rest)
      BY <1>0, <2>2, <2>3, LineAssoc
    <3> QED
      BY <2>2, <3>1 DEF Unread
  <2>6. Unread' = r
    BY <2>1 DEF Unread
  <2> HIDE DEF r
  <2> DEFINE k == EventsOf(<<h>>)
             x == EventsOf(r)
  <2>7. EventsOf(Unread) = k \o x
    BY <2>3, <2>4, <2>5, EventsOfConcat
  <2>8. k = IF Keeps(h) THEN <<h.event>> ELSE <<>>
    <3>1. <<h>> = Append(<<>>, h) /\ <<h.event>> = Append(<<>>, h.event) /\ EventsOf(<<>>) = <<>>
      BY <2>2, <2>3, LineFirst, EventFirst, EventsOfTypes
    <3> QED
      BY <2>2, <2>3, <3>1, EventsOfAppend
  <2>9. x \in Seq(Events) /\ k \in Seq(Events) /\ buffered \o k \in Seq(Events)
    <3>1. x \in Seq(Events) /\ k \in Seq(Events)
      BY <2>3, <2>4, EventsOfTypes
    <3> HIDE DEF x, k
    <3> QED
      BY <1>0, <3>1, ConcatProperties
  <2>10. buffered' = buffered \o k
    <3>1. CASE Keeps(h)
      <4>1. Append(buffered, h.event) = buffered \o <<h.event>>
        BY <1>0, <2>3, AppendIsConcat
      <4> QED
        BY <2>1, <2>8, <3>1, <4>1
    <3>2. CASE ~Keeps(h)
      BY <1>0, <2>1, <2>8, <3>2, ConcatEmptySeq
    <3> QED
      BY <3>1, <3>2
  <2> HIDE DEF k, x
  <2>11. Passed' = Passed \o k
    <3> DEFINE f == filtered \o ipcPipe
    <3>1. f \in Seq(Events) /\ k \in Seq(Events) /\ buffered \in Seq(Events)
      BY <1>0, <2>9
    <3>2. Passed = f \o buffered /\ Passed' = f \o buffered'
      BY <2>1 DEF Passed
    <3> HIDE DEF f
    <3>3. (f \o buffered) \o k = f \o (buffered \o k)
      BY <3>1, EventAssoc
    <3> QED
      BY <2>10, <3>2, <3>3
  <2>12. (Passed \o k) \o x = Passed \o (k \o x)
    BY <1>0, <2>9, EventAssoc
  <2>13. Arrives'
    BY <2>1, <2>6, <2>7, <2>11, <2>12 DEF Arrives, x
  <2> QED
    BY <1>0, <2>1, <2>2, <2>9, <2>10, <2>13 DEF ArriveTypes
<1>3. CASE EmailWrites
  <2>1. /\ buffered # <<>> /\ ipcPipe' = Append(ipcPipe, Head(buffered)) /\ buffered' = Tail(buffered)
        /\ UNCHANGED <<input, rest, inputPipe, filtered>>
    BY <1>3 DEF EmailWrites
  <2>2. /\ Append(ipcPipe, Head(buffered)) \o Tail(buffered) = ipcPipe \o buffered
        /\ Append(ipcPipe, Head(buffered)) \in Seq(Events) /\ Tail(buffered) \in Seq(Events)
    BY <1>0, <2>1, EventMoves
  <2>3. ipcPipe' \in Seq(Events) /\ buffered' \in Seq(Events) /\ ipcPipe' \o buffered' = ipcPipe \o buffered
    BY <2>1, <2>2
  <2>4. (filtered \o ipcPipe') \o buffered' = filtered \o (ipcPipe' \o buffered')
    BY <1>0, <2>3, EventAssoc
  <2>5. (filtered \o ipcPipe) \o buffered = filtered \o (ipcPipe \o buffered)
    BY <1>0, EventAssoc
  <2>6. Passed' = Passed /\ Unread' = Unread
    BY <2>1, <2>3, <2>4, <2>5 DEF Passed, Unread
  <2> QED
    BY <1>0, <2>1, <2>3, <2>6 DEF ArriveTypes, Arrives
<1>4. CASE CalendarReads
  <2>1. /\ ipcPipe # <<>> /\ filtered' = Append(filtered, Head(ipcPipe)) /\ ipcPipe' = Tail(ipcPipe)
        /\ UNCHANGED <<input, rest, inputPipe, buffered>>
    BY <1>0, <1>4 DEF CalendarReads, Readable
  <2>2. /\ Append(filtered, Head(ipcPipe)) \o Tail(ipcPipe) = filtered \o ipcPipe
        /\ Append(filtered, Head(ipcPipe)) \in Seq(Events) /\ Tail(ipcPipe) \in Seq(Events)
    BY <1>0, <2>1, EventMoves
  <2>3. Passed' = Passed /\ Unread' = Unread
    BY <2>1, <2>2 DEF Passed, Unread
  <2> QED
    BY <1>0, <2>1, <2>2, <2>3 DEF ArriveTypes, Arrives
<1> QED
  BY <1>1, <1>2, <1>3, <1>4 DEF LineSteps

-----------------------------------------------------------------------------
(* The processes *)

\* Every step preserves what the processes hold.
LEMMA ProcessesNext ==
  ASSUME ProcessesOK, UpdaterNext
  PROVE  ProcessesOK'
<1>0. /\ Processes = {"main", "email", "calendar"} /\ Children = {"email", "calendar"}
      /\ "main" \in Processes /\ "email" \in Processes /\ "calendar" \in Processes
  BY DEF Processes, Children
<1>1. ASSUME NEW p \in Processes, pc[p] = "close", NEW n \in ToClose(p),
             pc' = pc, ends' = [ends EXCEPT ![p] = @ \ {Closes[p][n]}]
      PROVE  ProcessesOK'
  <2>1. pc["main"] = "close" \/ p # "main"
    BY <1>1
  <2>2. p = "email" => Closes[p][n] # "ipcW"
    BY <1>1 DEF ToClose, Closes
  <2>3. ends' \in [Processes -> SUBSET Ends]
    BY <1>1 DEF ProcessesOK
  <2>4. p # "main" => ends'["main"] = ends["main"]
    BY <1>0, <1>1 DEF ProcessesOK
  <2>5. "ipcW" \in ends["email"] => "ipcW" \in ends'["email"]
    BY <1>0, <1>1, <2>2 DEF ProcessesOK
  <2> QED
    BY <1>1, <2>1, <2>3, <2>4, <2>5 DEF ProcessesOK
<1>2. ASSUME NEW p \in Processes, NEW q \in {"forkEmail", "forkCalendar", "read", "close", "wait1", "wait2",
                                             "run", "exited"},
             pc' = [pc EXCEPT ![p] = q],
             p = "main" => q \in {"close", "wait1", "wait2", "exited"},
             p # "main" => q \in {"run", "exited"} /\ pc[p] \in {"close", "run"},
             \/ ends' = ends
             \/ ends' = [ends EXCEPT ![p] = {}] /\ q = "exited"
      PROVE  ProcessesOK'
  <2>1. /\ pc' \in [Processes -> {"forkEmail", "forkCalendar", "read", "close", "wait1", "wait2",
                           "run", "unborn", "exited"}]
        /\ ends' \in [Processes -> SUBSET Ends]
    BY <1>2 DEF ProcessesOK
  <2>2. /\ p # "main" => pc'["main"] = pc["main"] /\ ends'["main"] = ends["main"]
        /\ p = "main" => pc'["main"] = q /\ pc'["email"] = pc["email"] /\ ends'["email"] = ends["email"]
        /\ p # "main" => pc'[p] = q
        /\ \A c \in Children : pc'[c] = IF c = p THEN q ELSE pc[c]
    BY <1>0, <1>2 DEF ProcessesOK
  <2>3. /\ pc'["main"] \notin {"run", "unborn"}
        /\ \A c \in Children : pc'[c] \in {"unborn", "close", "run", "exited"}
    BY <1>0, <1>2, <2>2 DEF ProcessesOK
  <2>4. pc'["main"] \in {"forkEmail", "forkCalendar", "read"} => ends'["main"] = Ends
    BY <1>2, <2>2 DEF ProcessesOK
  <2>5. pc'["main"] \in {"forkEmail", "forkCalendar"} => pc'["calendar"] = "unborn"
    BY <1>0, <1>2, <2>2 DEF ProcessesOK
  <2>6. pc'["email"] \in {"close", "run"} => "ipcW" \in ends'["email"]
    <3>1. CASE p = "email"
      <4>1. pc["email"] \in {"close", "run"} /\ "ipcW" \in ends["email"]
        BY <1>2, <3>1 DEF ProcessesOK
      <4>2. pc'["email"] = q
        BY <2>2, <3>1
      <4> QED
        BY <1>2, <4>1, <4>2
    <3>2. CASE p # "email"
      <4>1. pc'["email"] = pc["email"] /\ ends'["email"] = ends["email"]
        BY <1>0, <1>2, <3>2 DEF ProcessesOK
      <4> QED
        BY <4>1 DEF ProcessesOK
    <3> QED
      BY <3>1, <3>2
  <2> QED
    BY <2>1, <2>3, <2>4, <2>5, <2>6 DEF ProcessesOK
<1>3. CASE pc' = pc /\ ends' = ends
  BY <1>3 DEF ProcessesOK
<1>4. CASE ForkEmail
  BY <1>0, <1>4 DEF ForkEmail, Fork, ProcessesOK, Ends
<1>5. CASE ForkCalendar
  BY <1>0, <1>5 DEF ForkCalendar, Fork, ProcessesOK, Ends
<1>6. CASE ForkFails
  BY <1>0, <1>2, <1>6 DEF ForkFails, Exit, GoTo
<1>7. CASE InputEnds
  BY <1>0, <1>2, <1>7 DEF InputEnds, GoTo
<1>8. CASE Wait
  BY <1>0, <1>2, <1>8 DEF Wait, Exit, GoTo
<1>9. ASSUME NEW p \in Processes, Close(p) PROVE ProcessesOK'
  BY <1>1, <1>9 DEF Close
<1>10. ASSUME NEW c \in Children, Exec(c) PROVE ProcessesOK'
  BY <1>0, <1>2, <1>10 DEF Exec, GoTo
<1>11. ASSUME NEW c \in Children, ExecFails(c) PROVE ProcessesOK'
  BY <1>0, <1>2, <1>11 DEF ExecFails, Die, Exit, GoTo
<1>12. CASE EmailEnds
  BY <1>0, <1>2, <1>12 DEF EmailEnds, Exit, GoTo
<1>13. CASE EmailKilled
  BY <1>0, <1>2, <1>13 DEF EmailKilled, Die, Exit, GoTo
<1>14. CASE CalendarReads
  <2>1. CASE fate' = "runs"
    BY <1>3, <1>14, <2>1 DEF CalendarReads
  <2>2. CASE fate' # "runs"
    BY <1>0, <1>2, <1>14, <2>2 DEF CalendarReads, Die, Exit, GoTo
  <2> QED
    BY <2>1, <2>2
<1>15. CASE CalendarEnds
  BY <1>0, <1>2, <1>15 DEF CalendarEnds, Exit, GoTo
<1>16. CASE Write
  BY <1>3, <1>16 DEF Write
<1>17. CASE EmailReads
  BY <1>3, <1>17 DEF EmailReads
<1>18. CASE EmailWrites
  BY <1>3, <1>18 DEF EmailWrites
<1> QED
  BY <1>4, <1>5, <1>6, <1>7, <1>8, <1>9, <1>10, <1>11, <1>12, <1>13, <1>14, <1>15, <1>16, <1>17, <1>18
     DEF UpdaterNext

\* Every step preserves the order in which the processes end.
LEMMA DeliveredNext ==
  ASSUME ProcessesOK, Delivered, UpdaterNext
  PROVE  Delivered'
<1>0. /\ Processes = {"main", "email", "calendar"} /\ Children = {"email", "calendar"}
      /\ "main" \in Processes /\ "email" \in Processes /\ "calendar" \in Processes
  BY DEF Processes, Children
<1> SUFFICES ASSUME faulty' = {}
             PROVE  Delivered'
  BY DEF Delivered
<1>1. faulty \subseteq faulty'
  BY DEF UpdaterNext, ForkEmail, ForkCalendar, Fork, ForkFails, Write, InputEnds, Wait, Close, Exec,
         ExecFails, EmailReads, EmailEnds, EmailWrites, EmailKilled, CalendarReads, CalendarEnds, Die
<1>2. /\ faulty = {}
      /\ pc["main"] \in {"close", "wait1", "wait2", "exited"} => rest = <<>>
      /\ pc["email"] = "unborn" => pc["main"] = "forkEmail"
      /\ pc["email"] = "exited" => rest = <<>> /\ inputPipe = <<>> /\ buffered = <<>>
      /\ pc["calendar"] = "exited" => pc["email"] = "exited" /\ ipcPipe = <<>>
      /\ pc["main"] = "exited" => pc["calendar"] = "exited"
  BY <1>1 DEF Delivered
<1>3. CASE UNCHANGED <<pc, pipeVars>>
  BY <1>2, <1>3 DEF Delivered, pipeVars
<1>4. CASE ForkEmail
  BY <1>0, <1>2, <1>4 DEF ForkEmail, Fork, ProcessesOK, Delivered, pipeVars
<1>5. CASE ForkCalendar
  BY <1>0, <1>2, <1>5 DEF ForkCalendar, Fork, ProcessesOK, Delivered, pipeVars
<1>6. ~ForkFails
  <2> SUFFICES ASSUME ForkFails PROVE FALSE
    OBVIOUS
  <2>1. pc["calendar"] = "unborn"
    BY DEF ForkFails, ProcessesOK
  <2> QED
    BY <1>0, <2>1 DEF ForkFails
<1>7. CASE InputEnds
  BY <1>0, <1>2, <1>7 DEF InputEnds, GoTo, ProcessesOK, Delivered, pipeVars
<1>8. CASE Wait
  <2>1. UNCHANGED pipeVars
    BY <1>8 DEF Wait
  <2>2. CASE pc' = [pc EXCEPT !["main"] = "wait1"] /\ pc["main"] = "close"
    BY <1>0, <1>2, <2>1, <2>2 DEF ProcessesOK, Delivered, pipeVars
  <2>3. CASE pc' = [pc EXCEPT !["main"] = "wait2"] /\ pc["main"] = "wait1"
    BY <1>0, <1>2, <2>1, <2>3 DEF ProcessesOK, Delivered, pipeVars
  <2>4. CASE pc' = [pc EXCEPT !["main"] = "exited"] /\ pc["main"] = "wait2" /\ Exited = Children
    <3>1. pc["calendar"] = "exited"
      BY <1>0, <2>4 DEF Exited
    <3> QED
      BY <1>0, <1>2, <2>1, <2>4, <3>1 DEF ProcessesOK, Delivered, pipeVars
  <2> QED
    BY <1>8, <2>2, <2>3, <2>4 DEF Wait, GoTo, Exit
<1>9. ASSUME NEW p \in Processes, Close(p) PROVE Delivered'
  BY <1>3, <1>9 DEF Close
<1>10. ASSUME NEW c \in Children, Exec(c) PROVE Delivered'
  BY <1>0, <1>2, <1>10 DEF Exec, GoTo, ProcessesOK, Delivered, pipeVars
<1>11. \A c \in Children : ~ExecFails(c)
  BY DEF ExecFails, Die
<1>12. CASE EmailEnds
  <2>1. pc["email"] = "run" /\ inputPipe = <<>> /\ buffered = <<>> /\ "inW" \notin ends["main"]
    BY <1>0, <1>12 DEF EmailEnds, AtEnd, Holders
  <2>2. pc["main"] \in {"close", "wait1", "wait2", "exited"}
    BY <1>0, <2>1 DEF ProcessesOK, Ends
  <2>3. rest = <<>>
    BY <1>2, <2>2
  <2> QED
    BY <1>0, <1>2, <1>12, <2>1, <2>3 DEF EmailEnds, Exit, GoTo, ProcessesOK, Delivered, pipeVars
<1>13. ~EmailKilled
  BY DEF EmailKilled, Die
<1>14. CASE CalendarReads
  <2>1. UNCHANGED <<pc, rest, inputPipe, buffered>>
    BY <1>14 DEF CalendarReads, Die
  <2>2. pc["calendar"] = "run"
    BY <1>14 DEF CalendarReads
  <2> QED
    BY <1>2, <2>1, <2>2 DEF Delivered
<1>15. CASE CalendarEnds
  <2>1. pc["calendar"] = "run" /\ ipcPipe = <<>> /\ "ipcW" \notin ends["main"] /\ "ipcW" \notin ends["email"]
    BY <1>0, <1>15 DEF CalendarEnds, AtEnd, Holders
  <2>2. pc["email"] # "unborn"
    BY <1>2, <2>1 DEF ProcessesOK, Ends
  <2>3. pc["email"] = "exited"
    BY <1>0, <2>1, <2>2 DEF ProcessesOK
  <2> QED
    BY <1>0, <1>2, <1>15, <2>1, <2>3 DEF CalendarEnds, Exit, GoTo, ProcessesOK, Delivered, pipeVars
<1>16. CASE Write
  BY <1>2, <1>16 DEF Write, Delivered
<1>17. CASE EmailReads
  BY <1>2, <1>17 DEF EmailReads, Delivered
<1>18. CASE EmailWrites
  BY <1>2, <1>18 DEF EmailWrites, Delivered
<1> QED
  BY <1>4, <1>5, <1>6, <1>7, <1>8, <1>9, <1>10, <1>11, <1>12, <1>13, <1>14, <1>15, <1>16, <1>17, <1>18
     DEF UpdaterNext

-----------------------------------------------------------------------------
(* The specification *)

\* The inductive invariant holds initially.
LEMMA UpdaterStarts ==
  ASSUME UpdaterInit
  PROVE  UpdaterInv
<1>1. CalInv
  BY CalInit DEF UpdaterInit
<1>2. ArriveTypes
  <2>1. <<>> \in Seq(Lines) /\ <<>> \in Seq(Events)
    OBVIOUS
  <2>2. input \in Seq(Lines)
    BY UpdaterAssumption DEF UpdaterInit
  <2> QED
    BY <2>1, <2>2 DEF UpdaterInit, ArriveTypes
<1>3. Arrives
  <2>1. <<>> \in Seq(Lines) /\ <<>> \in Seq(Events) /\ EventsOf(input) \in Seq(Events)
    BY <1>2, EventsOfTypes DEF ArriveTypes
  <2>2. input \in Seq(Lines)
    BY <1>2 DEF ArriveTypes
  <2>3. <<>> \o input = input
    BY <2>1, <2>2, ConcatEmptySeq
  <2>4. <<>> \o EventsOf(input) = EventsOf(input)
    BY <2>1, ConcatEmptySeq
  <2>5. (<<>> \o <<>>) \o <<>> = <<>>
    BY ConcatEmptySeq
  <2> QED
    BY <2>3, <2>4, <2>5 DEF UpdaterInit, Arrives, Passed, Unread
<1>4. ProcessesOK
  BY DEF UpdaterInit, ProcessesOK, Processes, Children
<1>5. Delivered
  BY DEF UpdaterInit, Delivered, Processes, Children
<1> QED
  BY <1>1, <1>2, <1>3, <1>4, <1>5 DEF UpdaterInv

\* Every step preserves the inductive invariant.
LEMMA UpdaterSteps ==
  ASSUME UpdaterInv, [UpdaterNext]_updaterVars
  PROVE  UpdaterInv'
<1>1. CASE UNCHANGED updaterVars
  <2>1. UNCHANGED vars /\ UNCHANGED pipeVars /\ pc' = pc /\ ends' = ends /\ faulty' = faulty
    BY <1>1 DEF updaterVars, processVars, pipeVars
  <2>2. CalInv'
    BY <2>1, CalStutter DEF UpdaterInv
  <2>3. ArriveTypes' /\ Arrives' /\ Delivered'
    BY <2>1 DEF UpdaterInv, ArriveTypes, Arrives, Passed, Unread, Delivered, pipeVars
  <2>4. ProcessesOK'
    BY <2>1 DEF UpdaterInv, ProcessesOK
  <2> QED
    BY <2>2, <2>3, <2>4 DEF UpdaterInv
<1>2. CASE UpdaterNext
  <2>1. ProcessesOK' /\ Delivered'
    BY <1>2, ProcessesNext, DeliveredNext DEF UpdaterInv
  <2>2. ArriveTypes' /\ Arrives'
    <3>1. CASE LineSteps
      BY <3>1, ArrivesNext DEF UpdaterInv
    <3>2. CASE ~LineSteps
      BY <1>2, <3>2, OtherSteps DEF UpdaterInv, ArriveTypes, Arrives, Passed, Unread, pipeVars
    <3> QED
      BY <3>1, <3>2
  <2>3. CalInv'
    <3>1. CASE CalendarReads
      <4>1. ipcPipe # <<>> /\ ipcPipe \in Seq(Events)
        BY <3>1 DEF CalendarReads, Readable, UpdaterInv, ArriveTypes
      <4>2. Head(ipcPipe) \in Events
        BY <4>1, EventMoves
      <4> QED
        BY <3>1, <4>2, FilterNext DEF UpdaterInv, CalendarReads
    <3>2. CASE ~CalendarReads
      <4>1. UNCHANGED vars
        BY <1>2, <3>2, OtherSteps DEF LineSteps, Write, EmailReads, EmailWrites
      <4> QED
        BY <4>1, CalStutter DEF UpdaterInv
    <3> QED
      BY <3>1, <3>2
  <2> QED
    BY <2>1, <2>2, <2>3 DEF UpdaterInv
<1> QED
  BY <1>1, <1>2

\* LinesArrive follows from the inductive invariant.
LEMMA UpdaterGives ==
  ASSUME UpdaterInv
  PROVE  LinesArrive
<1>1. /\ input \in Seq(Lines) /\ rest \in Seq(Lines) /\ inputPipe \in Seq(Lines)
      /\ ipcPipe \in Seq(Events) /\ buffered \in Seq(Events) /\ filtered \in Seq(Events)
  BY DEF UpdaterInv, ArriveTypes
<1> DEFINE x == EventsOf(inputPipe)
           y == EventsOf(rest)
           f == filtered \o ipcPipe
           g == f \o buffered
<1>2. EventsOf(Unread) = x \o y
  BY <1>1, EventsOfConcat DEF Unread
<1>3. x \in Seq(Events) /\ y \in Seq(Events) /\ f \in Seq(Events)
  BY <1>1, EventsOfTypes, ConcatProperties
<1>4. g \in Seq(Events)
  <2> HIDE DEF f
  <2> QED
    BY <1>1, <1>3, ConcatProperties
<1>5. (g \o x) \o y = g \o (x \o y)
  <2> HIDE DEF g, x, y
  <2> QED
    BY <1>3, <1>4, EventAssoc
<1>6. g \o (x \o y) = EventsOf(input)
  BY <1>2 DEF UpdaterInv, Arrives, Passed
<1>7. filtered \o ipcPipe \o buffered \o EventsOf(inputPipe) \o EventsOf(rest) = EventsOf(input)
  BY <1>5, <1>6
<1>8. ASSUME pc["main"] = "exited", faulty = {} PROVE filtered = EventsOf(input)
  <2>1. rest = <<>> /\ inputPipe = <<>> /\ buffered = <<>> /\ ipcPipe = <<>>
    BY <1>8 DEF UpdaterInv, Delivered
  <2>2. x = <<>> /\ y = <<>>
    BY <1>1, <2>1, EventsOfTypes
  <2>3. filtered \o <<>> = filtered
    BY <1>1, ConcatEmptySeq
  <2> QED
    BY <1>7, <2>1, <2>2, <2>3
<1> QED
  BY <1>7, <1>8 DEF LinesArrive

\* In every reachable state the lines that are events, and no other, have reached the
\* calendar in order or are on their way; all have when main ends and no child failed.
THEOREM UpdaterLinesArrive == UpdaterSpec => []LinesArrive
  BY UpdaterStarts, UpdaterSteps, UpdaterGives, PTL DEF UpdaterSpec

\* The calendar filter, fed through the pipes, has last printed where and when the first
\* event of each date is, whichever process fails.
THEOREM UpdaterPrintedIsFirst == UpdaterSpec => []PrintedIsFirst
<1>1. UpdaterInv => PrintedIsFirst
  BY DEF UpdaterInv, CalInv
<1> QED
  BY UpdaterStarts, UpdaterSteps, <1>1, PTL DEF UpdaterSpec
=============================================================================
