--------------------------- MODULE LocationUpdater ---------------------------
(***************************************************************************)
(* hw1/location_updater.c: the main process writes the lines of its input  *)
(* to the email filter through inputPipe, which writes those that are      *)
(* events to the calendar filter through ipcPipe.  The calendar is that of *)
(* Calendar.tla.                                                           *)
(*                                                                         *)
(* A pipe is a sequence of whole lines and the set of ends that each       *)
(* process holds; dup2 and the close of the descriptor it copied leave     *)
(* that set as it was.  A filter's read of a line ends at the next line's  *)
(* first character or at the end of the input (scanf's trailing \n), and   *)
(* the email filter's output waits in a buffer of stdio.  fork and exec    *)
(* may fail, and a filter that writes to a pipe without readers dies.      *)
(***************************************************************************)
EXTENDS Calendar

CONSTANTS Inputs,      \* the inputs: sequences of lines
          PipeSize,    \* the lines a pipe and its reader's buffer hold
          BufferSize   \* the lines that wait for the email filter's next write

\* What parseEmailSubject and filterEmail refuse a line for.
Flaws == {"noSubject", "unprintable", "action", "length", "date", "time"}
Lines == [flaws : SUBSET Flaws, event : Events]

ASSUME UpdaterAssumption ==
  /\ Inputs \subseteq Seq(Lines) /\ \A in \in Inputs : Len(in) <= MaxEvents
  /\ PipeSize \in Nat /\ PipeSize >= 2
  /\ BufferSize \in Nat \ {0}

VARIABLES input, rest,           \* the input, and what main has still to write
          inputPipe, ipcPipe,
          buffered,              \* the output of the email filter that is not written
          filtered,              \* history: the events that reached the calendar
          pc, ends,              \* of each process
          faulty                 \* history: the children that did not do their work

processVars == <<input, rest, inputPipe, ipcPipe, buffered, filtered, pc, ends, faulty>>
updaterVars == <<vars, processVars>>
pipeVars == <<input, rest, inputPipe, ipcPipe, buffered, filtered>>

Children == {"email", "calendar"}
Processes == {"main"} \cup Children
Ends == {"inR", "inW", "ipcR", "ipcW"}

UpdaterInit ==
  /\ Init
  /\ input \in Inputs /\ rest = input
  /\ inputPipe = <<>> /\ ipcPipe = <<>> /\ buffered = <<>> /\ filtered = <<>>
  /\ pc = [p \in Processes |-> IF p = "main" THEN "forkEmail" ELSE "unborn"]
  /\ ends = [p \in Processes |-> IF p = "main" THEN Ends ELSE {}]
  /\ faulty = {}

Holders(end) == {p \in Processes : end \in ends[p]}
GoTo(p, place) == pc' = [pc EXCEPT ![p] = place]

\* An exit closes what the process holds.
Exit(p) == GoTo(p, "exited") /\ ends' = [ends EXCEPT ![p] = {}]
Die(p) == Exit(p) /\ faulty' = faulty \cup {p}

-----------------------------------------------------------------------------
(* location_updater.c *)

Fork(child, from, to) ==
  /\ pc["main"] = from
  /\ pc' = [pc EXCEPT !["main"] = to, ![child] = "close"]
  /\ ends' = [ends EXCEPT ![child] = ends["main"]]
  /\ UNCHANGED <<vars, pipeVars, faulty>>

ForkEmail == Fork("email", "forkEmail", "forkCalendar")
ForkCalendar == Fork("calendar", "forkCalendar", "read")

ForkFails ==
  /\ pc["main"] \in {"forkEmail", "forkCalendar"}
  /\ Exit("main")
  /\ faulty' = faulty \cup {p \in Children : pc[p] = "unborn"}
  /\ UNCHANGED <<vars, pipeVars>>

\* main writes each line of its input.
Write ==
  /\ pc["main"] = "read"
  /\ rest # <<>>
  /\ Len(inputPipe) < PipeSize
  /\ inputPipe' = Append(inputPipe, Head(rest))
  /\ rest' = Tail(rest)
  /\ UNCHANGED <<vars, input, ipcPipe, buffered, filtered, pc, ends, faulty>>

InputEnds ==
  /\ pc["main"] = "read"
  /\ rest = <<>>
  /\ GoTo("main", "close")
  /\ UNCHANGED <<vars, pipeVars, ends, faulty>>

\* A variant in which the calendar filter keeps the write end of its own input.
ClosesOwnEnds ==
  [main |-> <<"ipcR", "inW", "ipcW", "inR">>,
   email |-> <<"inW", "ipcR">>,
   calendar |-> <<"inR", "inW">>]

\* What a process closes, in order: main after its input, a child before exec.
Closes ==
  [main |-> <<"ipcR", "inW", "ipcW", "inR">>,
   email |-> <<"inW", "ipcR">>,
   calendar |-> <<"ipcW", "inR", "inW">>]

ToClose(p) == {n \in DOMAIN Closes[p] : Closes[p][n] \in ends[p]}

Close(p) ==
  /\ pc[p] = "close"
  /\ \E n \in ToClose(p) :
       /\ \A m \in ToClose(p) : n <= m
       /\ ends' = [ends EXCEPT ![p] = @ \ {Closes[p][n]}]
  /\ UNCHANGED <<vars, pipeVars, pc, faulty>>

Exec(child) ==
  /\ pc[child] = "close"
  /\ ToClose(child) = {}
  /\ GoTo(child, "run")
  /\ UNCHANGED <<vars, pipeVars, ends, faulty>>

ExecFails(child) ==
  /\ pc[child] = "close"
  /\ ToClose(child) = {}
  /\ Die(child)
  /\ UNCHANGED <<vars, pipeVars>>

Exited == {p \in Children : pc[p] = "exited"}

\* The two calls of wait.
Wait ==
  /\ \/ pc["main"] = "close" /\ ToClose("main") = {} /\ GoTo("main", "wait1") /\ UNCHANGED ends
     \/ pc["main"] = "wait1" /\ Exited # {} /\ GoTo("main", "wait2") /\ UNCHANGED ends
     \/ pc["main"] = "wait2" /\ Exited = Children /\ Exit("main")
  /\ UNCHANGED <<vars, pipeVars, faulty>>

-----------------------------------------------------------------------------
(* email_filter.c *)

\* A line of a pipe can be read once another follows or no process may write more.
Readable(pipe, writeEnd) == Len(pipe) > 1 \/ (pipe # <<>> /\ Holders(writeEnd) = {})
AtEnd(pipe, writeEnd) == pipe = <<>> /\ Holders(writeEnd) = {}

Keeps(line) == line.flaws = {}

EmailReads ==
  /\ pc["email"] = "run"
  /\ Readable(inputPipe, "inW")
  /\ Len(buffered) < BufferSize
  /\ inputPipe' = Tail(inputPipe)
  /\ buffered' = IF Keeps(Head(inputPipe)) THEN Append(buffered, Head(inputPipe).event) ELSE buffered
  /\ UNCHANGED <<vars, input, rest, ipcPipe, filtered, pc, ends, faulty>>

\* A variant that leaves by _exit, which does not write what stdio has kept.
EmailEndsUnflushed ==
  /\ pc["email"] = "run"
  /\ AtEnd(inputPipe, "inW")
  /\ Exit("email")
  /\ UNCHANGED <<vars, pipeVars, faulty>>

EmailEnds ==
  /\ pc["email"] = "run"
  /\ AtEnd(inputPipe, "inW")
  /\ buffered = <<>>
  /\ Exit("email")
  /\ UNCHANGED <<vars, pipeVars, faulty>>

\* stdio writes when its buffer is full and at the exit; here, at any time.
EmailWrites ==
  /\ pc["email"] = "run"
  /\ buffered # <<>>
  /\ Holders("ipcR") # {}
  /\ Len(ipcPipe) < PipeSize
  /\ ipcPipe' = Append(ipcPipe, Head(buffered))
  /\ buffered' = Tail(buffered)
  /\ UNCHANGED <<vars, input, rest, inputPipe, filtered, pc, ends, faulty>>

\* SIGPIPE.
EmailKilled ==
  /\ pc["email"] = "run"
  /\ buffered # <<>>
  /\ Holders("ipcR") = {}
  /\ Die("email")
  /\ UNCHANGED <<vars, pipeVars>>

-----------------------------------------------------------------------------
(* calendar_filter.c *)

\* The calendar filter dies of the NULL date of a deletion or change.
CalendarReads ==
  /\ pc["calendar"] = "run"
  /\ Readable(ipcPipe, "ipcW")
  /\ Filter(Head(ipcPipe))
  /\ filtered' = Append(filtered, Head(ipcPipe))
  /\ ipcPipe' = Tail(ipcPipe)
  /\ IF fate' = "runs" THEN UNCHANGED <<pc, ends, faulty>> ELSE Die("calendar")
  /\ UNCHANGED <<input, rest, inputPipe, buffered>>

CalendarEnds ==
  /\ pc["calendar"] = "run"
  /\ AtEnd(ipcPipe, "ipcW")
  /\ Exit("calendar")
  /\ UNCHANGED <<vars, pipeVars, faulty>>

-----------------------------------------------------------------------------
UpdaterNext ==
  \/ ForkEmail \/ ForkCalendar \/ ForkFails \/ Write \/ InputEnds \/ Wait
  \/ \E p \in Processes : Close(p)
  \/ \E child \in Children : Exec(child) \/ ExecFails(child)
  \/ EmailReads \/ EmailEnds \/ EmailWrites \/ EmailKilled
  \/ CalendarReads \/ CalendarEnds

\* Every process is scheduled; a blocked one runs once it can.
UpdaterFairness ==
  /\ WF_updaterVars(ForkEmail \/ ForkCalendar \/ ForkFails \/ Write \/ InputEnds \/ Close("main") \/ Wait)
  /\ WF_updaterVars(\/ Close("email") \/ Exec("email") \/ ExecFails("email")
                    \/ EmailReads \/ EmailEnds \/ EmailWrites \/ EmailKilled)
  /\ WF_updaterVars(\/ Close("calendar") \/ Exec("calendar") \/ ExecFails("calendar")
                    \/ CalendarReads \/ CalendarEnds)

UpdaterSpec == UpdaterInit /\ [][UpdaterNext]_updaterVars /\ UpdaterFairness

-----------------------------------------------------------------------------
(* Properties *)

\* The events of the lines that the email filter keeps, in order.
EventsOf(lines) ==
  LET upTo[n \in 0..Len(lines)] ==
        IF n = 0 THEN <<>>
        ELSE IF Keeps(lines[n]) THEN Append(upTo[n - 1], lines[n].event) ELSE upTo[n - 1]
  IN  upTo[Len(lines)]

\* Every line of the input that is an event, and no other, reaches the calendar, in
\* the order of the input, or is in a pipe or buffer before it.  Where both filters did
\* their work none is left there: each has seen the end of its input after the last
\* line (email_filter.c:8, calendar_filter.c:11), and the email filter has written all.
LinesArrive ==
  /\ filtered \o ipcPipe \o buffered \o EventsOf(inputPipe) \o EventsOf(rest) = EventsOf(input)
  /\ pc["main"] = "exited" /\ faulty = {} => filtered = EventsOf(input)

\* main holds the read end of inputPipe while it writes, so that a dead reader does
\* not end it: the pipe is full, and the email filter is dead or cannot write either.
Hung ==
  /\ pc["main"] = "read" /\ Len(inputPipe) = PipeSize
  /\ \/ "email" \in faulty
     \/ "calendar" \in faulty /\ Len(ipcPipe) = PipeSize /\ Len(buffered) = BufferSize

\* Every process ends, or main hangs because a filter died while enough input to
\* fill the pipes before it was left.
EndsOrHangs ==
  <>[](\A p \in Processes : pc[p] \in {"exited", "unborn"}) \/ <>[]Hung
=============================================================================
