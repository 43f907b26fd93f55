-------------------------------- MODULE Bank --------------------------------
(***************************************************************************)
(* The account table of hw3/bank.c and the two calls that change it:       *)
(* addAccount, made by the main thread, and transaction, made by any       *)
(* number of tellers at once.                                              *)
(*                                                                         *)
(* A step is one semaphore operation together with the code up to the next *)
(* one, except that the loads and stores of lines 80-81, which no lock     *)
(* covers, are steps of their own.  The table is an array of slots         *)
(* 1..MaxAccounts; a pointer to an account is a slot and the generation of *)
(* the allocation it points into, which realloc may change.  The program   *)
(* reading through a NULL or a dead pointer, or memory that was never      *)
(* written, has no meaning in C: fault records it and nothing follows.     *)
(* Balances are integers; they do not overflow.                            *)
(***************************************************************************)
EXTENDS Integers

CONSTANTS Tellers,       \* the teller threads
          MaxAccounts,   \* bound of the model: how many accounts are added
          InitCapacity,  \* slots allocated by initBank (32 in the program)
          Numbers        \* the account numbers that occur in the input

\* calloc leaves the number 0 in a slot that no account occupies; a run of
\* the program uses positive account numbers.
ASSUME BankAssumption ==
  /\ MaxAccounts \in Nat
  /\ InitCapacity \in Nat \ {0}
  /\ Numbers \subseteq Nat \ {0}

VARIABLES
  bankSem,       \* bank->sem
  size,          \* bank->size
  capacity,      \* bank->capacity
  allocation,    \* which allocation bank->accounts points to
  number,        \* accounts[i].accountNumber; 0 while nothing was stored
  balance,       \* accounts[i].balance
  sem,           \* accounts[i].sem
  active,        \* accounts[i].activeTransaction
  adding,        \* the account addAccount is adding, and whether it has the lock
  pc,            \* where each teller is
  txn,           \* from, to and value of its call of transaction
  fromAcc,       \* fromAccount
  toAcc,         \* toAccount
  seenIn,        \* the allocation the two pointers point into
  side,          \* which of the two accounts it waits for
  reg,           \* the balance it loaded at line 80 or 81
  fault          \* "none", or the undefined behaviour that was met

tableVars == <<size, capacity, allocation, number, adding>>
accountVars == <<balance, sem, active>>
pointerVars == <<fromAcc, toAcc, seenIn>>
callVars == <<pc, txn, fromAcc, toAcc, seenIn, side, reg>>
bankVars == <<bankSem, size, capacity, allocation, number, balance, sem, active,
              adding, pc, txn, fromAcc, toAcc, seenIn, side, reg, fault>>

NULL == 0
Slots == 1 .. MaxAccounts
Transfers == [from : Numbers, to : Numbers, value : Int]
NoTransfer == [from |-> 0, to |-> 0, value |-> 0]
NoAccount == [id |-> 0, number |-> 0, balance |-> 0, locked |-> FALSE]

Places == {"idle", "lock", "unlock", "await", "pass", "relock", "takeTo", "takeFrom",
           "release", "loadTo", "storeTo", "loadFrom", "storeFrom", "finish",
           "postFrom", "postTo", "postBank", "exited"}

\* Where a teller still has accounts to reach through its two pointers.
Reaching == Places \ {"idle", "lock", "postBank", "exited"}

BankInit ==
  /\ bankSem = 1
  /\ size = 0
  /\ capacity = InitCapacity
  /\ allocation = 0
  /\ number = [i \in Slots |-> 0]
  /\ balance = [i \in Slots |-> 0]
  /\ sem = [i \in Slots |-> 1]
  /\ active = [i \in Slots |-> FALSE]
  /\ adding = NoAccount
  /\ pc = [t \in Tellers |-> "idle"]
  /\ txn = [t \in Tellers |-> NoTransfer]
  /\ fromAcc = [t \in Tellers |-> NULL]
  /\ toAcc = [t \in Tellers |-> NULL]
  /\ seenIn = [t \in Tellers |-> 0]
  /\ side = [t \in Tellers |-> "from"]
  /\ reg = [t \in Tellers |-> 0]
  /\ fault = "none"

-----------------------------------------------------------------------------
(* addAccount and resize, lines 29-55, run by the main thread *)

\* Lines 30-34: the new account is built and the size is counted up before
\* the bank's lock is asked for, so a teller may scan one slot too many.
ReserveSlot(n, b) ==
  /\ fault = "none"
  /\ adding = NoAccount
  /\ size < MaxAccounts
  /\ size' = size + 1
  /\ adding' = [id |-> size + 1, number |-> n, balance |-> b, locked |-> FALSE]
  /\ UNCHANGED <<bankSem, capacity, allocation, number, accountVars, callVars, fault>>

\* Line 38.
LockForAccount ==
  /\ fault = "none"
  /\ adding # NoAccount /\ ~adding.locked
  /\ bankSem = 1
  /\ bankSem' = 0
  /\ adding' = [adding EXCEPT !.locked = TRUE]
  /\ UNCHANGED <<size, capacity, allocation, number, accountVars, callVars, fault>>

\* A variant that doubles the table one account too early.
ResizeEarly ==
  /\ fault = "none"
  /\ adding.locked
  /\ capacity <= adding.id
  /\ capacity' = 2 * capacity
  /\ allocation' \in {allocation, allocation + 1}
  /\ UNCHANGED <<bankSem, size, number, adding, accountVars, callVars, fault>>

\* Lines 39-41 and 46-55: realloc may move the table, its semaphores
\* included, or extend it where it is.
Resize ==
  /\ fault = "none"
  /\ adding.locked
  /\ capacity < adding.id
  /\ capacity' = 2 * capacity
  /\ allocation' \in {allocation, allocation + 1}
  /\ UNCHANGED <<bankSem, size, number, adding, accountVars, callVars, fault>>

\* Lines 39, 42 and 43.
StoreAccount ==
  /\ fault = "none"
  /\ adding.locked
  /\ capacity >= adding.id
  /\ number' = [number EXCEPT ![adding.id] = adding.number]
  /\ balance' = [balance EXCEPT ![adding.id] = adding.balance]
  /\ sem' = [sem EXCEPT ![adding.id] = 1]
  /\ active' = [active EXCEPT ![adding.id] = FALSE]
  /\ adding' = NoAccount
  /\ bankSem' = 1
  /\ UNCHANGED <<size, capacity, allocation, callVars, fault>>

\* The steps of addAccount after its first.
AddStep == LockForAccount \/ Resize \/ StoreAccount

-----------------------------------------------------------------------------
(* transaction, lines 57-88 *)

\* getAccountByAccountNumber: the first slot with that number.
Matches(n) == {i \in 1 .. size : number[i] = n}

\* A variant that returns the last slot with that number.
LookupLast(n) ==
  IF Matches(n) = {} THEN NULL
  ELSE CHOOSE i \in Matches(n) : \A j \in Matches(n) : i >= j

Lookup(n) ==
  IF Matches(n) = {} THEN NULL
  ELSE CHOOSE i \in Matches(n) : \A j \in Matches(n) : i <= j

\* The scan for n reaches the slot that addAccount has counted and not stored,
\* and that slot is not one of those initBank zeroed: it lies past the table,
\* or in the part realloc left unwritten.
ScansUnwritten(n) == adding.id > InitCapacity /\ Lookup(n) = NULL

\* The table has moved since the teller took its pointers.
Stale(t) == pc[t] \in Reaching /\ seenIn[t] # allocation

At(t, place) == fault = "none" /\ pc[t] = place /\ ~Stale(t)
GoTo(t, place) == pc' = [pc EXCEPT ![t] = place]

Begin(t, transfer) ==
  /\ At(t, "idle")
  /\ txn' = [txn EXCEPT ![t] = transfer]
  /\ GoTo(t, "lock")
  /\ UNCHANGED <<bankSem, tableVars, accountVars, pointerVars, side, reg, fault>>

\* Lines 61-69 under the bank's lock: wait for the first account that is in a
\* transaction, or go on to take both.
WaitFor(t, which) == side' = [side EXCEPT ![t] = which] /\ GoTo(t, "unlock")

\* A variant that looks at fromAccount twice.
TestFromTwice(t, f, o) ==
  \/ active[f] /\ WaitFor(t, "from")
  \/ ~active[f] /\ GoTo(t, "takeTo") /\ UNCHANGED side

TestBoth(t, f, o) ==
  \/ active[f] /\ WaitFor(t, "from")
  \/ ~active[f] /\ active[o] /\ WaitFor(t, "to")
  \/ ~active[f] /\ ~active[o] /\ GoTo(t, "takeTo") /\ UNCHANGED side

\* Lines 58-61.  When fromAccount is in a transaction the test does not look
\* at toAccount.
LockBank(t) ==
  LET f == Lookup(txn[t].from)
      o == Lookup(txn[t].to)
  IN  /\ At(t, "lock")
      /\ bankSem = 1
      /\ ~ScansUnwritten(txn[t].from) /\ ~ScansUnwritten(txn[t].to)
      /\ f # NULL
      /\ active[f] \/ o # NULL
      /\ bankSem' = 0
      /\ fromAcc' = [fromAcc EXCEPT ![t] = f]
      /\ toAcc' = [toAcc EXCEPT ![t] = o]
      /\ seenIn' = [seenIn EXCEPT ![t] = allocation]
      /\ TestBoth(t, f, o)
      /\ UNCHANGED <<tableVars, accountVars, txn, reg, fault>>

\* Lines 63 and 69.
Unlock(t) ==
  /\ At(t, "unlock")
  /\ bankSem' = 1
  /\ GoTo(t, "await")
  /\ UNCHANGED <<tableVars, accountVars, txn, pointerVars, side, reg, fault>>

Awaited(t) == IF side[t] = "from" THEN fromAcc[t] ELSE toAcc[t]

\* Lines 64 and 70.
Await(t) ==
  /\ At(t, "await")
  /\ sem[Awaited(t)] > 0
  /\ sem' = [sem EXCEPT ![Awaited(t)] = @ - 1]
  /\ GoTo(t, "pass")
  /\ UNCHANGED <<bankSem, tableVars, balance, active, txn, pointerVars, side, reg, fault>>

\* A variant that keeps the semaphore it has waited for.
KeepAwaited(t) ==
  /\ At(t, "pass")
  /\ GoTo(t, "relock")
  /\ UNCHANGED <<bankSem, tableVars, accountVars, txn, pointerVars, side, reg, fault>>

\* Lines 65 and 71.
Pass(t) ==
  /\ At(t, "pass")
  /\ sem' = [sem EXCEPT ![Awaited(t)] = @ + 1]
  /\ GoTo(t, "relock")
  /\ UNCHANGED <<bankSem, tableVars, balance, active, txn, pointerVars, side, reg, fault>>

\* Lines 66-68 after a wait for fromAccount: toAccount is looked at next.
RelockAfterFrom(t) ==
  /\ At(t, "relock") /\ side[t] = "from"
  /\ bankSem = 1
  /\ toAcc[t] # NULL
  /\ bankSem' = 0
  /\ \/ active[toAcc[t]] /\ WaitFor(t, "to")
     \/ ~active[toAcc[t]] /\ TestBoth(t, fromAcc[t], toAcc[t])
  /\ UNCHANGED <<tableVars, accountVars, txn, pointerVars, reg, fault>>

\* A variant with an if in place of the while of line 61.
RelockAndGo(t) ==
  /\ At(t, "relock") /\ side[t] = "to"
  /\ bankSem = 1
  /\ bankSem' = 0
  /\ GoTo(t, "takeTo")
  /\ UNCHANGED <<tableVars, accountVars, txn, pointerVars, side, reg, fault>>

\* Lines 72 and 61 after a wait for toAccount: back to the loop's test.
RelockAfterTo(t) ==
  /\ At(t, "relock") /\ side[t] = "to"
  /\ bankSem = 1
  /\ bankSem' = 0
  /\ TestBoth(t, fromAcc[t], toAcc[t])
  /\ UNCHANGED <<tableVars, accountVars, txn, pointerVars, reg, fault>>

\* Line 75.
TakeTo(t) ==
  /\ At(t, "takeTo")
  /\ sem[toAcc[t]] > 0
  /\ sem' = [sem EXCEPT ![toAcc[t]] = @ - 1]
  /\ GoTo(t, "takeFrom")
  /\ UNCHANGED <<bankSem, tableVars, balance, active, txn, pointerVars, side, reg, fault>>

\* A variant for semaphores that their owner may take again.
TakeFromAgain(t) ==
  /\ At(t, "takeFrom")
  /\ fromAcc[t] = toAcc[t] \/ sem[fromAcc[t]] > 0
  /\ sem' = [sem EXCEPT ![fromAcc[t]] = 0]
  /\ active' = [active EXCEPT ![fromAcc[t]] = TRUE, ![toAcc[t]] = TRUE]
  /\ GoTo(t, "release")
  /\ UNCHANGED <<bankSem, tableVars, balance, txn, pointerVars, side, reg, fault>>

\* Lines 76-78.
TakeFrom(t) ==
  /\ At(t, "takeFrom")
  /\ sem[fromAcc[t]] > 0
  /\ sem' = [sem EXCEPT ![fromAcc[t]] = @ - 1]
  /\ active' = [active EXCEPT ![fromAcc[t]] = TRUE, ![toAcc[t]] = TRUE]
  /\ GoTo(t, "release")
  /\ UNCHANGED <<bankSem, tableVars, balance, txn, pointerVars, side, reg, fault>>

\* A variant that gives the accounts back with the bank's lock.
ReleaseAll(t) ==
  /\ At(t, "release")
  /\ bankSem' = 1
  /\ active' = [active EXCEPT ![fromAcc[t]] = FALSE, ![toAcc[t]] = FALSE]
  /\ sem' = [sem EXCEPT ![fromAcc[t]] = 1, ![toAcc[t]] = 1]
  /\ GoTo(t, "loadTo")
  /\ UNCHANGED <<tableVars, balance, txn, pointerVars, side, reg, fault>>

\* Line 79.
Release(t) ==
  /\ At(t, "release")
  /\ bankSem' = 1
  /\ GoTo(t, "loadTo")
  /\ UNCHANGED <<tableVars, accountVars, txn, pointerVars, side, reg, fault>>

\* Line 80: a load, an addition and a store.
LoadTo(t) ==
  /\ At(t, "loadTo")
  /\ reg' = [reg EXCEPT ![t] = balance[toAcc[t]]]
  /\ GoTo(t, "storeTo")
  /\ UNCHANGED <<bankSem, tableVars, accountVars, txn, pointerVars, side, fault>>

StoreTo(t) ==
  /\ At(t, "storeTo")
  /\ balance' = [balance EXCEPT ![toAcc[t]] = reg[t] + txn[t].value]
  /\ GoTo(t, "loadFrom")
  /\ UNCHANGED <<bankSem, tableVars, sem, active, txn, pointerVars, side, reg, fault>>

\* Line 81.
LoadFrom(t) ==
  /\ At(t, "loadFrom")
  /\ reg' = [reg EXCEPT ![t] = balance[fromAcc[t]]]
  /\ GoTo(t, "storeFrom")
  /\ UNCHANGED <<bankSem, tableVars, accountVars, txn, pointerVars, side, fault>>

\* A variant that credits both accounts.
StoreSum(t) ==
  /\ At(t, "storeFrom")
  /\ balance' = [balance EXCEPT ![fromAcc[t]] = reg[t] + txn[t].value]
  /\ GoTo(t, "finish")
  /\ UNCHANGED <<bankSem, tableVars, sem, active, txn, pointerVars, side, reg, fault>>

StoreFrom(t) ==
  /\ At(t, "storeFrom")
  /\ balance' = [balance EXCEPT ![fromAcc[t]] = reg[t] - txn[t].value]
  /\ GoTo(t, "finish")
  /\ UNCHANGED <<bankSem, tableVars, sem, active, txn, pointerVars, side, reg, fault>>

\* Lines 82-84.
Finish(t) ==
  /\ At(t, "finish")
  /\ bankSem = 1
  /\ bankSem' = 0
  /\ active' = [active EXCEPT ![fromAcc[t]] = FALSE, ![toAcc[t]] = FALSE]
  /\ GoTo(t, "postFrom")
  /\ UNCHANGED <<tableVars, balance, sem, txn, pointerVars, side, reg, fault>>

\* Lines 85-87.
PostFrom(t) ==
  /\ At(t, "postFrom")
  /\ sem' = [sem EXCEPT ![fromAcc[t]] = @ + 1]
  /\ GoTo(t, "postTo")
  /\ UNCHANGED <<bankSem, tableVars, balance, active, txn, pointerVars, side, reg, fault>>

\* A variant that posts the same account twice.
PostFromAgain(t) ==
  /\ At(t, "postTo")
  /\ sem' = [sem EXCEPT ![fromAcc[t]] = @ + 1]
  /\ GoTo(t, "postBank")
  /\ UNCHANGED <<bankSem, tableVars, balance, active, txn, pointerVars, side, reg, fault>>

PostTo(t) ==
  /\ At(t, "postTo")
  /\ sem' = [sem EXCEPT ![toAcc[t]] = @ + 1]
  /\ GoTo(t, "postBank")
  /\ UNCHANGED <<bankSem, tableVars, balance, active, txn, pointerVars, side, reg, fault>>

PostBank(t) ==
  /\ At(t, "postBank")
  /\ bankSem' = 1
  /\ GoTo(t, "idle")
  /\ UNCHANGED <<tableVars, accountVars, txn, pointerVars, side, reg, fault>>

-----------------------------------------------------------------------------
(* The undefined behaviour the code can meet *)

Fails(kind) ==
  /\ fault' = kind
  /\ UNCHANGED <<bankSem, tableVars, accountVars, callVars>>

\* Line 61 or 68 on an account that the table does not have.
NullDereference(t) ==
  /\ bankSem = 1
  /\ \/ /\ At(t, "lock")
        /\ ~ScansUnwritten(txn[t].from) /\ ~ScansUnwritten(txn[t].to)
        /\ LET f == Lookup(txn[t].from)
           IN  f # NULL => ~active[f] /\ Lookup(txn[t].to) = NULL
     \/ At(t, "relock") /\ side[t] = "from" /\ toAcc[t] = NULL
  /\ Fails("null")

\* Line 22 on the slot of an account that is still being added.
ScanUnwritten(t) ==
  /\ At(t, "lock")
  /\ bankSem = 1
  /\ ScansUnwritten(txn[t].from) \/ ScansUnwritten(txn[t].to)
  /\ Fails("unwritten")

\* Any use of a pointer into a table that realloc has freed.
UseAfterFree(t) ==
  /\ fault = "none"
  /\ Stale(t)
  /\ Fails("freed")

-----------------------------------------------------------------------------
\* The steps of a teller inside transaction.
Step(t) ==
  \/ LockBank(t) \/ Unlock(t) \/ Await(t) \/ Pass(t)
  \/ RelockAfterFrom(t) \/ RelockAfterTo(t)
  \/ TakeTo(t) \/ TakeFrom(t) \/ Release(t)
  \/ LoadTo(t) \/ StoreTo(t) \/ LoadFrom(t) \/ StoreFrom(t)
  \/ Finish(t) \/ PostFrom(t) \/ PostTo(t) \/ PostBank(t)
  \/ NullDereference(t) \/ ScanUnwritten(t) \/ UseAfterFree(t)

\* The teller's loop ends, between two transactions.
Leave(t) ==
  /\ At(t, "idle")
  /\ GoTo(t, "exited")
  /\ UNCHANGED <<bankSem, tableVars, accountVars, txn, pointerVars, side, reg, fault>>

\* The bank with any tellers and any main thread: transactions and accounts
\* come in any order.  Eft restricts them to those of an input file.
BankNext ==
  \/ \E n \in Numbers, b \in Int : ReserveSlot(n, b)
  \/ AddStep
  \/ \E t \in Tellers :
       (\E transfer \in Transfers : Begin(t, transfer)) \/ Step(t) \/ Leave(t)

BankSpec == BankInit /\ [][BankNext]_bankVars

-----------------------------------------------------------------------------
(* Properties *)

BankTypeOK ==
  /\ bankSem \in {0, 1}
  /\ size \in 0 .. MaxAccounts
  /\ capacity \in Nat \ {0}
  /\ allocation \in Nat
  /\ number \in [Slots -> Numbers \cup {0}]
  /\ balance \in [Slots -> Int]
  /\ sem \in [Slots -> {0, 1}]
  /\ active \in [Slots -> BOOLEAN]
  /\ adding \in [id : 0 .. MaxAccounts, number : Numbers \cup {0},
                  balance : Int, locked : BOOLEAN]
  /\ pc \in [Tellers -> Places]
  /\ txn \in [Tellers -> Transfers \cup {NoTransfer}]
  /\ fromAcc \in [Tellers -> Slots \cup {NULL}]
  /\ toAcc \in [Tellers -> Slots \cup {NULL}]
  /\ seenIn \in [Tellers -> Nat]
  /\ side \in [Tellers -> {"from", "to"}]
  /\ reg \in [Tellers -> Int]
  /\ fault \in {"none", "null", "unwritten", "freed"}

\* Between which semaphore operations a teller has the bank's lock, the
\* semaphore of toAccount and that of fromAccount.
HoldsBank(t) == pc[t] \in {"unlock", "takeTo", "takeFrom", "release",
                           "postFrom", "postTo", "postBank"}
Updating(t) == pc[t] \in {"loadTo", "storeTo", "loadFrom", "storeFrom"}
HoldsFrom(t) == Updating(t) \/ pc[t] \in {"release", "finish", "postFrom"}
HoldsTo(t) == HoldsFrom(t) \/ pc[t] \in {"takeFrom", "postTo"}
Passing(t) == pc[t] = "pass"

Holds(t, a) ==
  \/ HoldsTo(t) /\ toAcc[t] = a
  \/ HoldsFrom(t) /\ fromAcc[t] = a
  \/ Passing(t) /\ Awaited(t) = a

\* Two tellers never work on the balances of a common account (lines 80-81
\* run without the bank's lock).
AccountExclusion ==
  \A t, u \in Tellers :
    t # u /\ Updating(t) /\ Updating(u)
      => {fromAcc[t], toAcc[t]} \cap {fromAcc[u], toAcc[u]} = {}

\* The balance a teller is about to overwrite is the one it has loaded: no
\* other teller has changed it in between (lines 80-81 are not atomic).
NoLostUpdate ==
  \A t \in Tellers :
    /\ pc[t] = "storeTo" => reg[t] = balance[toAcc[t]]
    /\ pc[t] = "storeFrom" => reg[t] = balance[fromAcc[t]]

\* Lines 75-76 wait for an account while they hold the bank's lock.  Whoever
\* has that account then only has to post it again (lines 65, 71): it is never
\* a teller that needs the bank's lock before it gives the account back.
TransientWait ==
  \A t, u \in Tellers :
    t # u => /\ pc[t] = "takeTo" /\ Holds(u, toAcc[t]) => Passing(u)
             /\ pc[t] = "takeFrom" /\ Holds(u, fromAcc[t]) => Passing(u)

-----------------------------------------------------------------------------
(* The inductive invariant behind these properties *)

\* The bank's lock is a mutex of the tellers and the main thread.
LockInv ==
  /\ \A t \in Tellers : HoldsBank(t) => bankSem = 0 /\ ~adding.locked
  /\ \A t, u \in Tellers : HoldsBank(t) /\ HoldsBank(u) => t = u
  /\ adding.locked => bankSem = 0

\* Slots are filled in order; the last one is empty while it is being added.
TableInv ==
  /\ \A i \in Slots : i > size => number[i] = 0
  /\ adding # NoAccount => /\ adding.id = size /\ size > 0
                           /\ adding.number \in Numbers
                           /\ number[size] = 0
  /\ adding.locked => adding # NoAccount

\* A teller that has pointers has them to slots in use.
Points(p) == p \in Slots /\ number[p] # 0

PointerInv ==
  \A t \in Tellers :
    /\ pc[t] = "lock" => txn[t] \in Transfers
    /\ pc[t] \in Reaching => /\ Points(fromAcc[t])
                             /\ toAcc[t] = NULL \/ Points(toAcc[t])
    /\ pc[t] \in Reaching \ {"unlock", "await", "pass", "relock"} => Points(toAcc[t])
    /\ pc[t] \in {"unlock", "await", "pass", "relock"} /\ side[t] = "to"
         => Points(toAcc[t])

\* An account's semaphore is a mutex of the tellers, and so a transfer that
\* has both accounts has two different ones.
SemInv ==
  /\ \A t \in Tellers, a \in Slots : Holds(t, a) => sem[a] = 0
  /\ \A t, u \in Tellers, a \in Slots : Holds(t, a) /\ Holds(u, a) => t = u
  /\ \A t \in Tellers : HoldsFrom(t) => fromAcc[t] # toAcc[t]

\* activeTransaction is set from line 77 to line 84 on both accounts, and is
\* clear on both when a teller is about to take them.
InTransaction(t) == Updating(t) \/ pc[t] \in {"release", "finish"}

ActiveInv ==
  \A t \in Tellers :
    /\ InTransaction(t) => active[fromAcc[t]] /\ active[toAcc[t]]
    /\ pc[t] \in {"takeTo", "takeFrom"} => ~active[fromAcc[t]] /\ ~active[toAcc[t]]

\* Who holds which semaphore, and what follows for the table, the pointers and
\* the flags: the invariant that every step of the bank preserves.
BankInv ==
  /\ BankTypeOK
  /\ LockInv
  /\ TableInv
  /\ PointerInv
  /\ SemInv
  /\ ActiveInv
  /\ NoLostUpdate
=============================================================================
