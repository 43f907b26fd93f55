-------------------------------- MODULE Eft --------------------------------
(***************************************************************************)
(* hw3/eft.c: the main thread reads the input file, adds the accounts to   *)
(* the bank itself and hands the transfers round-robin to the tellers, one *)
(* ring buffer per teller; at the end of the file it sends every teller    *)
(* "END", joins them and prints the table.                                 *)
(*                                                                         *)
(* A ring is the bounded FIFO that RingBuffer is shown to implement.  The  *)
(* main thread is its only producer and its teller the only consumer, so   *)
(* an insertion or a removal is one step.                                  *)
(***************************************************************************)
EXTENDS Bank, Sequences, FiniteSets, Functions

CONSTANTS RingCapacity,  \* initRingBuffer(2)
          Jobs           \* the command lines: a worker count and a file each

AccountLines == [kind : {"account"}, number : Numbers, balance : Int]
TransferLines == [kind : {"transfer"}, from : Numbers, to : Numbers, value : Int]
EndLine == [kind |-> "end"]

\* eft.c refuses a worker count below 1.
ASSUME EftAssumption ==
  /\ IsFiniteSet(Tellers)
  /\ RingCapacity \in Nat \ {0}
  /\ \A job \in Jobs :
       /\ job.workers \in Nat \ {0}
       /\ 0 .. job.workers - 1 \subseteq Tellers
       /\ job.file \in Seq(AccountLines \cup TransferLines)

VARIABLES
  file,         \* the lines of the input file
  workerCount,  \* how many tellers are started
  lineNo,       \* how many lines main has read
  ctr,          \* how many transfers it has handed out
  rings,        \* one queue of lines per teller
  ended,        \* how many tellers it has sent "END"
  joined,       \* how many it has joined
  printed       \* the table it has printed

mainVars == <<file, workerCount, lineNo, ctr, rings, ended, joined, printed>>
vars == <<bankVars, mainVars>>

Init ==
  /\ BankInit
  /\ \E job \in Jobs : file = job.file /\ workerCount = job.workers
  /\ lineNo = 0
  /\ ctr = 0
  /\ rings = [t \in Tellers |-> <<>>]
  /\ ended = 0
  /\ joined = 0
  /\ printed = <<>>

-----------------------------------------------------------------------------
(* main *)

EndOfFile == lineNo = Len(file)
Line == file[lineNo + 1]

\* Main has returned from addAccount and the process is alive.
MainRuns == fault = "none" /\ adding = NoAccount

CanPut(t) == Len(rings[t]) < RingCapacity
Put(t, item) == rings' = [rings EXCEPT ![t] = Append(@, item)]

\* Lines 39-42 up to the lock in addAccount.
ReadAccount ==
  /\ ~EndOfFile
  /\ Line.kind = "account"
  /\ ReserveSlot(Line.number, Line.balance)
  /\ lineNo' = lineNo + 1
  /\ UNCHANGED <<file, workerCount, ctr, rings, ended, joined, printed>>

\* The rest of addAccount.
InsertAccount == AddStep /\ UNCHANGED mainVars

\* Lines 45-46.
Dispatch ==
  /\ MainRuns
  /\ ~EndOfFile
  /\ Line.kind = "transfer"
  /\ LET t == ctr % workerCount
     IN  CanPut(t) /\ Put(t, Line)
  /\ ctr' = ctr + 1
  /\ lineNo' = lineNo + 1
  /\ UNCHANGED <<bankVars, file, workerCount, ended, joined, printed>>

\* Lines 48-50.
SendEnd ==
  /\ MainRuns
  /\ EndOfFile
  /\ ended < workerCount
  /\ CanPut(ended)
  /\ Put(ended, EndLine)
  /\ ended' = ended + 1
  /\ UNCHANGED <<bankVars, file, workerCount, lineNo, ctr, joined, printed>>

\* printResult
Table == [i \in 1 .. size |-> [number |-> number[i], balance |-> balance[i]]]

\* Lines 51-54; the table is printed after the last join.
Join ==
  /\ MainRuns
  /\ ended = workerCount
  /\ joined < workerCount
  /\ pc[joined] = "exited"
  /\ joined' = joined + 1
  /\ printed' = IF joined + 1 = workerCount THEN Table ELSE printed
  /\ UNCHANGED <<bankVars, file, workerCount, lineNo, ctr, rings, ended>>

MainStep == ReadAccount \/ InsertAccount \/ Dispatch \/ SendEnd \/ Join

-----------------------------------------------------------------------------
(* tellerInit *)

TakeLine(t) == rings' = [rings EXCEPT ![t] = Tail(@)]

\* Lines 95 and 99-103: a transfer is removed and transaction is called.
Receive(t) ==
  /\ rings[t] # <<>>
  /\ Head(rings[t]) # EndLine
  /\ LET line == Head(rings[t])
     IN  Begin(t, [from |-> line.from, to |-> line.to, value |-> line.value])
  /\ TakeLine(t)
  /\ UNCHANGED <<file, workerCount, lineNo, ctr, ended, joined, printed>>

\* Lines 95-98.
ReceiveEnd(t) ==
  /\ rings[t] # <<>>
  /\ Head(rings[t]) = EndLine
  /\ Leave(t)
  /\ TakeLine(t)
  /\ UNCHANGED <<file, workerCount, lineNo, ctr, ended, joined, printed>>

Transact(t) == Step(t) /\ UNCHANGED mainVars

TellerStep(t) == Receive(t) \/ ReceiveEnd(t) \/ Transact(t)

Next == MainStep \/ \E t \in Tellers : TellerStep(t)

\* The kernel runs every thread that can run.  No semaphore is assumed to be
\* handed to its waiters in order.
Spec ==
  /\ Init
  /\ [][Next]_vars
  /\ WF_vars(MainStep)
  /\ \A t \in Tellers : WF_vars(TellerStep(t))

Done == joined = workerCount

-----------------------------------------------------------------------------
(* Properties *)

TypeOK ==
  /\ BankTypeOK
  /\ \E job \in Jobs : file = job.file /\ workerCount = job.workers
  /\ lineNo \in 0 .. Len(file)
  /\ ctr \in 0 .. lineNo
  /\ rings \in [Tellers -> Seq(TransferLines \cup {EndLine})]
  /\ ended \in 0 .. workerCount
  /\ joined \in 0 .. ended
  /\ printed \in Seq([number : Numbers \cup {0}, balance : Int])

LinesOf(kind) == {k \in 1 .. Len(file) : file[k].kind = kind}

\* The line that adds the account a number stands for on line k: the first
\* one with the number.
Declares(d, n) ==
  /\ d \in LinesOf("account")
  /\ file[d].number = n
  /\ \A e \in 1 .. d - 1 : e \in LinesOf("account") => file[e].number # n

\* Both accounts of every transfer come earlier in the file, and differ.
Declared ==
  \A k \in LinesOf("transfer") :
    /\ \E d \in 1 .. k - 1 : Declares(d, file[k].from)
    /\ \E d \in 1 .. k - 1 : Declares(d, file[k].to)
NoSelfTransfer == \A k \in LinesOf("transfer") : file[k].from # file[k].to

\* Either all accounts come before all transfers, as in the test's input, or
\* the table is large enough from the start.
AccountsFirst == \A d \in LinesOf("account"), k \in LinesOf("transfer") : d < k
Fits == Cardinality(LinesOf("account")) <= InitCapacity

\* The program has a meaning on files whose accounts are declared and come
\* first or fit: no teller meets a NULL account, a slot that is being added or
\* a table that realloc has moved.
NoWildAccess == Declared /\ (AccountsFirst \/ Fits) => fault = "none"

\* The lines of the accounts that have been stored, and the tellers that have
\* credited a value and not debited it.
Stored == {d \in LinesOf("account") : d <= lineNo /\ ~(adding # NoAccount /\ d = lineNo)}
Halfway == {t \in Tellers : pc[t] \in {"loadFrom", "storeFrom"}}

\* No money is made or lost: the balances add up to the initial balances of
\* the accounts stored so far and the values that are credited and not debited.
Conservation ==
  SumFunctionOnSet(balance, Slots)
    = SumFunctionOnSet([d \in LinesOf("account") |-> file[d].balance], Stored)
        + SumFunctionOnSet([t \in Tellers |-> txn[t].value], Halfway)

\* The table that is printed is the one a single teller would have printed:
\* every transfer of the file is applied, once, to the accounts it names.
SerialBalance(d) ==
  LET Value == [k \in LinesOf("transfer") |-> file[k].value]
      Credits == {k \in LinesOf("transfer") : Declares(d, file[k].to)}
      Debits == {k \in LinesOf("transfer") : Declares(d, file[k].from)}
  IN  file[d].balance + SumFunctionOnSet(Value, Credits) - SumFunctionOnSet(Value, Debits)

SlotOfLine(d) == Cardinality({e \in LinesOf("account") : e <= d})

SerialResult ==
  Done => /\ Len(printed) = Cardinality(LinesOf("account"))
          /\ \A d \in LinesOf("account") :
               printed[SlotOfLine(d)] = [number |-> file[d].number,
                                         balance |-> SerialBalance(d)]

\* On such files, without self-transfers, the program ends: the tellers do not
\* wait for each other or for the main thread for ever.
Termination ==
  [](Declared /\ NoSelfTransfer /\ (AccountsFirst \/ Fits)) => <>Done

\* A transfer from an account to itself takes its semaphore twice (lines 75
\* and 76): the program never ends, whatever the other lines are.
SelfTransferHangs == ~NoSelfTransfer => ~Done
=============================================================================
