----------------------------- MODULE EftProofs -----------------------------
(***************************************************************************)
(* Theorems about Bank, whoever calls it, and about Eft, which calls it    *)
(* from main and the tellers.                                              *)
(*                                                                         *)
(* The bank: for every set of tellers, every input and every size of the   *)
(* table.  The inductive invariant BankInv says who holds which semaphore: *)
(* from it follow the exclusion on the balances, the absence of lost       *)
(* updates and the form of every wait under the bank's lock.               *)
(*                                                                         *)
(* The program: for every worker count and input file.  Its threads use    *)
(* the bank as Bank describes it, so what is proved of every use of a bank *)
(* holds of it.  What the lines promise needs to know, of every transfer   *)
(* that main has read, which teller it was given to and how far it is      *)
(* (EftInv): from it follow that no pointer goes wrong in a file whose     *)
(* transfers name declared accounts, that only a transfer between two      *)
(* accounts comes to an end, and that the balances are those of the        *)
(* transfers made one after the other.                                     *)
(***************************************************************************)
EXTENDS Eft, FiniteSetTheorems, SequenceTheorems, WellFoundedInduction, TLAPS

(***************************************************************************)
(* The scan of the table                                                   *)
(***************************************************************************)

\* A set of natural numbers that is not empty has a least element.
LEMMA LeastElement ==
  ASSUME NEW S, S \subseteq Nat, S # {}
  PROVE  \E m \in S : \A n \in S : m <= n
<1> DEFINE R == {ss \in Nat \X Nat : ss[1] < ss[2]}
<1>1. R = OpToRel(<, Nat)
  BY Zenon DEF OpToRel
<1>2. IsWellFoundedOn(R, Nat)
  BY <1>1, NatLessThanWellFounded, Zenon
<1> HIDE DEF R
<1>3. PICK m \in S : \A n \in S : <<n, m>> \notin R
  BY <1>2, WFMin
<1>4. \A n \in S : <<n, m>> \in R \/ m <= n
  BY DEF R
<1> QED
  BY <1>3, <1>4

\* getAccountByAccountNumber returns NULL or a slot that holds the number.
LEMMA LookupFinds ==
  ASSUME size \in Nat, NEW n
  PROVE  \/ Lookup(n) = NULL
         \/ Lookup(n) \in 1 .. size /\ number[Lookup(n)] = n
<1>1. CASE Matches(n) = {}
  BY <1>1 DEF Lookup
<1>2. CASE Matches(n) # {}
  <2>1. Matches(n) \subseteq Nat
    BY DEF Matches
  <2>2. \E i \in Matches(n) : \A j \in Matches(n) : i <= j
    BY <1>2, <2>1, LeastElement
  <2>3. Lookup(n) \in Matches(n)
    BY <1>2, <2>2 DEF Lookup
  <2> QED
    BY <2>3 DEF Matches
<1> QED
  BY <1>1, <1>2


(***************************************************************************)
(* What the invariant says about one teller                                *)
(***************************************************************************)

\* The teller's two pointers are slots wherever it uses them.
LEMMA PointersAreSlots ==
  ASSUME BankInv, NEW t \in Tellers
  PROVE  /\ pc[t] \in Reaching => fromAcc[t] \in Slots
         /\ pc[t] \in Reaching \ {"unlock", "await", "pass", "relock"} => toAcc[t] \in Slots
         /\ pc[t] \in {"await", "pass"} => Awaited(t) \in Slots
  BY DEF BankInv, BankTypeOK, PointerInv, Points, Reaching, Places, Awaited

\* A semaphore that the teller posts is 0.
LEMMA PostedIsTaken ==
  ASSUME BankInv, NEW t \in Tellers
  PROVE  /\ pc[t] = "pass" => sem[Awaited(t)] = 0
         /\ pc[t] = "postFrom" => sem[fromAcc[t]] = 0
         /\ pc[t] = "postTo" => sem[toAcc[t]] = 0
<1>1. pc[t] \in {"pass", "postTo", "postFrom"} => pc[t] \in Reaching
  BY DEF Reaching, Places
<1>2. \A a \in Slots : Holds(t, a) => sem[a] = 0
  BY DEF BankInv, SemInv
<1> QED
  BY <1>1, <1>2, PointersAreSlots DEF Holds, HoldsTo, HoldsFrom, Passing

(***************************************************************************)
(* Types                                                                   *)
(***************************************************************************)

\* addAccount (bank.c:29-55) keeps every variable's type.
LEMMA MainTypes ==
  ASSUME BankInv, (\E n \in Numbers, b \in Int : ReserveSlot(n, b)) \/ AddStep
  PROVE  BankTypeOK'
<1> USE BankAssumption DEF BankInv, BankTypeOK, Slots, Transfers, accountVars, callVars
<1>1. CASE \E n \in Numbers, b \in Int : ReserveSlot(n, b)
  BY <1>1 DEF ReserveSlot
<1>2. CASE LockForAccount
  BY <1>2 DEF LockForAccount
<1>3. CASE Resize
  <2>1. capacity' \in Nat \ {0} /\ allocation' \in Nat
    BY <1>3 DEF Resize
  <2> QED
    BY <1>3, <2>1 DEF Resize
<1>4. CASE StoreAccount
  <2>1. /\ number' \in [Slots -> Numbers \cup {0}]
        /\ balance' \in [Slots -> Int]
        /\ sem' \in [Slots -> {0, 1}]
        /\ active' \in [Slots -> BOOLEAN]
    BY <1>4 DEF StoreAccount
  <2>2. adding' \in [id : 0 .. MaxAccounts, number : Numbers \cup {0},
                     balance : Int, locked : BOOLEAN]
    BY <1>4 DEF StoreAccount, NoAccount
  <2> QED
    BY <1>4, <2>1, <2>2 DEF StoreAccount
<1> QED
  BY <1>1, <1>2, <1>3, <1>4 DEF AddStep

\* transaction (bank.c:57-88) keeps every variable's type; for the semaphores
\* this needs that whatever is posted was taken.
LEMMA TellerTypes ==
  ASSUME BankInv, NEW t \in Tellers,
         (\E transfer \in Transfers : Begin(t, transfer)) \/ Step(t) \/ Leave(t)
  PROVE  BankTypeOK'
<1> USE DEF BankInv, BankTypeOK, tableVars, accountVars, pointerVars
<1> DEFINE PcOK == pc' \in [Tellers -> Places]
           SemOK == sem' \in [Slots -> {0, 1}]
<1>1. CASE \E transfer \in Transfers : Begin(t, transfer)
  BY <1>1 DEF Begin, GoTo, Places
<1>2. CASE LockBank(t)
  <2>1. PcOK /\ side' \in [Tellers -> {"from", "to"}]
    BY <1>2 DEF LockBank, TestBoth, WaitFor, GoTo, Places
  <2>2. \A n : Lookup(n) \in Slots \cup {NULL}
    BY BankAssumption, LookupFinds DEF Slots, NULL
  <2>3. /\ fromAcc' \in [Tellers -> Slots \cup {NULL}]
        /\ toAcc' \in [Tellers -> Slots \cup {NULL}]
        /\ seenIn' \in [Tellers -> Nat]
    BY <1>2, <2>2 DEF LockBank
  <2> QED
    BY <1>2, <2>1, <2>3 DEF LockBank, Slots, Transfers
<1>3. CASE Unlock(t) \/ Release(t) \/ PostBank(t) \/ Leave(t)
  <2>1. PcOK
    BY <1>3 DEF Unlock, Release, PostBank, Leave, GoTo, Places
  <2> QED
    BY <1>3, <2>1 DEF Unlock, Release, PostBank, Leave, Slots, Transfers
<1>4. CASE Await(t) \/ TakeTo(t)
  <2>1. PcOK
    BY <1>4 DEF Await, TakeTo, GoTo, Places
  <2>2. SemOK
    BY <1>4, PointersAreSlots DEF Await, TakeTo, At, Reaching, Places
  <2> QED
    BY <1>4, <2>1, <2>2 DEF Await, TakeTo, Slots, Transfers
<1>5. CASE TakeFrom(t)
  <2>1. PcOK
    BY <1>5 DEF TakeFrom, GoTo, Places
  <2>2. SemOK
    BY <1>5, PointersAreSlots DEF TakeFrom, At, Reaching, Places
  <2>3. active' \in [Slots -> BOOLEAN]
    BY <1>5 DEF TakeFrom
  <2> QED
    BY <1>5, <2>1, <2>2, <2>3 DEF TakeFrom, Slots, Transfers
<1>6. CASE Pass(t) \/ PostFrom(t) \/ PostTo(t)
  <2>1. PcOK
    BY <1>6 DEF Pass, PostFrom, PostTo, GoTo, Places
  <2>2. SemOK
    BY <1>6, PostedIsTaken DEF Pass, PostFrom, PostTo, At
  <2> QED
    BY <1>6, <2>1, <2>2 DEF Pass, PostFrom, PostTo, Slots, Transfers
<1>7. CASE RelockAfterFrom(t) \/ RelockAfterTo(t)
  <2>1. PcOK /\ side' \in [Tellers -> {"from", "to"}]
    BY <1>7 DEF RelockAfterFrom, RelockAfterTo, TestBoth, WaitFor, GoTo, Places
  <2> QED
    BY <1>7, <2>1 DEF RelockAfterFrom, RelockAfterTo, Slots, Transfers
<1>8. CASE LoadTo(t) \/ LoadFrom(t)
  <2>1. PcOK
    BY <1>8 DEF LoadTo, LoadFrom, GoTo, Places
  <2>2. reg' \in [Tellers -> Int]
    BY <1>8, PointersAreSlots DEF LoadTo, LoadFrom, At, Reaching, Places
  <2> QED
    BY <1>8, <2>1, <2>2 DEF LoadTo, LoadFrom, Slots, Transfers
<1>9. CASE StoreTo(t) \/ StoreFrom(t)
  <2>1. PcOK
    BY <1>9 DEF StoreTo, StoreFrom, GoTo, Places
  <2>2. txn[t].value \in Int
    BY DEF Transfers, NoTransfer
  <2>3. balance' \in [Slots -> Int]
    BY <1>9, <2>2 DEF StoreTo, StoreFrom
  <2> QED
    BY <1>9, <2>1, <2>3 DEF StoreTo, StoreFrom, Slots, Transfers
<1>10. CASE Finish(t)
  <2>1. PcOK /\ active' \in [Slots -> BOOLEAN]
    BY <1>10 DEF Finish, GoTo, Places
  <2> QED
    BY <1>10, <2>1 DEF Finish, Slots, Transfers
<1>11. CASE NullDereference(t) \/ ScanUnwritten(t) \/ UseAfterFree(t)
  BY <1>11 DEF NullDereference, ScanUnwritten, UseAfterFree, Fails, callVars, Slots, Transfers
<1> QED
  BY <1>1, <1>2, <1>3, <1>4, <1>5, <1>6, <1>7, <1>8, <1>9, <1>10, <1>11 DEF Step

(***************************************************************************)
(* What a step leaves alone                                                *)
(***************************************************************************)

TellerMoves(t) ==
  (\E transfer \in Transfers : Begin(t, transfer)) \/ Step(t) \/ Leave(t)
MainMoves == (\E n \in Numbers, b \in Int : ReserveSlot(n, b)) \/ AddStep

\* A teller changes its own call and no table.
LEMMA OthersUnchanged ==
  ASSUME BankTypeOK, NEW t \in Tellers, TellerMoves(t), NEW u \in Tellers \ {t}
  PROVE  /\ pc'[u] = pc[u] /\ txn'[u] = txn[u] /\ side'[u] = side[u]
         /\ fromAcc'[u] = fromAcc[u] /\ toAcc'[u] = toAcc[u] /\ reg'[u] = reg[u]
<1> USE DEF BankTypeOK, GoTo, pointerVars
<1>1. CASE \E transfer \in Transfers : Begin(t, transfer)
  BY <1>1 DEF Begin
<1>2. CASE LockBank(t)
  BY <1>2 DEF LockBank, TestBoth, WaitFor
<1>3. CASE RelockAfterFrom(t) \/ RelockAfterTo(t)
  BY <1>3 DEF RelockAfterFrom, RelockAfterTo, TestBoth, WaitFor
<1>4. CASE Unlock(t) \/ Await(t) \/ Pass(t) \/ TakeTo(t) \/ TakeFrom(t) \/ Release(t)
  BY <1>4 DEF Unlock, Await, Pass, TakeTo, TakeFrom, Release
<1>5. CASE LoadTo(t) \/ StoreTo(t) \/ LoadFrom(t) \/ StoreFrom(t)
  BY <1>5 DEF LoadTo, StoreTo, LoadFrom, StoreFrom
<1>6. CASE Finish(t) \/ PostFrom(t) \/ PostTo(t) \/ PostBank(t) \/ Leave(t)
  BY <1>6 DEF Finish, PostFrom, PostTo, PostBank, Leave
<1>7. CASE NullDereference(t) \/ ScanUnwritten(t) \/ UseAfterFree(t)
  BY <1>7 DEF NullDereference, ScanUnwritten, UseAfterFree, Fails, callVars
<1> QED
  BY <1>1, <1>2, <1>3, <1>4, <1>5, <1>6, <1>7 DEF TellerMoves, Step

\* transaction adds no account and does not resize the table.
LEMMA TellerKeepsTable ==
  ASSUME NEW t \in Tellers, TellerMoves(t)
  PROVE  UNCHANGED <<size, number, adding>>
<1> USE DEF tableVars
<1>1. CASE (\E transfer \in Transfers : Begin(t, transfer)) \/ LockBank(t)
  BY <1>1 DEF Begin, LockBank
<1>2. CASE RelockAfterFrom(t) \/ RelockAfterTo(t)
  BY <1>2 DEF RelockAfterFrom, RelockAfterTo
<1>3. CASE Unlock(t) \/ Await(t) \/ Pass(t) \/ TakeTo(t) \/ TakeFrom(t) \/ Release(t)
  BY <1>3 DEF Unlock, Await, Pass, TakeTo, TakeFrom, Release
<1>4. CASE LoadTo(t) \/ StoreTo(t) \/ LoadFrom(t) \/ StoreFrom(t)
  BY <1>4 DEF LoadTo, StoreTo, LoadFrom, StoreFrom
<1>5. CASE Finish(t) \/ PostFrom(t) \/ PostTo(t) \/ PostBank(t) \/ Leave(t)
  BY <1>5 DEF Finish, PostFrom, PostTo, PostBank, Leave
<1>6. CASE NullDereference(t) \/ ScanUnwritten(t) \/ UseAfterFree(t)
  BY <1>6 DEF NullDereference, ScanUnwritten, UseAfterFree, Fails
<1> QED
  BY <1>1, <1>2, <1>3, <1>4, <1>5, <1>6 DEF TellerMoves, Step

\* The main thread does not touch the tellers' calls.
LEMMA MainKeepsCalls ==
  ASSUME MainMoves
  PROVE  UNCHANGED callVars
  BY DEF MainMoves, AddStep, ReserveSlot, LockForAccount, Resize, StoreAccount

(***************************************************************************)
(* The bank's lock                                                         *)
(***************************************************************************)

\* addAccount takes the bank's lock when no teller has it (line 38) and gives
\* it back (line 43).
LEMMA MainKeepsLockInv ==
  ASSUME BankInv, MainMoves
  PROVE  LockInv'
<1> USE DEF BankInv, BankTypeOK, LockInv, HoldsBank
<1>1. UNCHANGED pc
  BY MainKeepsCalls DEF callVars
<1>2. CASE \E n \in Numbers, b \in Int : ReserveSlot(n, b)
  BY <1>1, <1>2 DEF ReserveSlot, NoAccount
<1>3. CASE LockForAccount
  BY <1>1, <1>3 DEF LockForAccount
<1>4. CASE Resize
  BY <1>1, <1>4 DEF Resize
<1>5. CASE StoreAccount
  BY <1>1, <1>5 DEF StoreAccount, NoAccount
<1> QED
  BY <1>2, <1>3, <1>4, <1>5 DEF MainMoves, AddStep

\* A step of a teller that takes, keeps or gives back the lock.
LEMMA LockStep ==
  ASSUME BankInv, NEW t \in Tellers, TellerMoves(t),
         \/ bankSem = 1 /\ bankSem' = 0
         \/ HoldsBank(t) /\ bankSem' = 0
         \/ HoldsBank(t) /\ ~HoldsBank(t)' /\ bankSem' = 1
         \/ ~HoldsBank(t)' /\ bankSem' = bankSem
  PROVE  LockInv'
<1>1. UNCHANGED adding
  BY TellerKeepsTable
<1>2. \A u \in Tellers \ {t} : HoldsBank(u)' <=> HoldsBank(u)
  BY OthersUnchanged DEF BankInv, HoldsBank
<1>3. bankSem = 1 => ~adding.locked /\ \A u \in Tellers : ~HoldsBank(u)
  BY DEF BankInv, LockInv
<1>4. HoldsBank(t) => ~adding.locked /\ \A u \in Tellers \ {t} : ~HoldsBank(u)
  BY DEF BankInv, LockInv
<1> QED
  BY <1>1, <1>2, <1>3, <1>4 DEF BankInv, LockInv

\* transaction takes and gives back the bank's lock in pairs (lines 58-87).
LEMMA TellerKeepsLockInv ==
  ASSUME BankInv, NEW t \in Tellers, TellerMoves(t)
  PROVE  LockInv'
<1> USE DEF BankInv, BankTypeOK, HoldsBank, GoTo
<1>1. CASE (\E transfer \in Transfers : Begin(t, transfer)) \/ Leave(t)
  BY <1>1, LockStep DEF Begin, Leave
<1>2. CASE LockBank(t) \/ RelockAfterFrom(t) \/ RelockAfterTo(t) \/ Finish(t)
  BY <1>2, LockStep DEF LockBank, RelockAfterFrom, RelockAfterTo, Finish
<1>3. CASE Unlock(t) \/ Release(t) \/ PostBank(t)
  BY <1>3, LockStep DEF Unlock, Release, PostBank, At
<1>4. CASE Await(t) \/ Pass(t) \/ LoadTo(t) \/ StoreTo(t) \/ LoadFrom(t) \/ StoreFrom(t)
  BY <1>4, LockStep DEF Await, Pass, LoadTo, StoreTo, LoadFrom, StoreFrom
<1>5. CASE TakeTo(t) \/ TakeFrom(t) \/ PostFrom(t) \/ PostTo(t)
  <2>1. HoldsBank(t) /\ bankSem' = bankSem
    BY <1>5 DEF TakeTo, TakeFrom, PostFrom, PostTo, At
  <2> QED
    BY <2>1, LockStep DEF LockInv
<1>6. CASE NullDereference(t) \/ ScanUnwritten(t) \/ UseAfterFree(t)
  <2>1. UNCHANGED <<bankSem, pc, adding>>
    BY <1>6 DEF NullDereference, ScanUnwritten, UseAfterFree, Fails, callVars, tableVars
  <2> QED
    BY <2>1 DEF LockInv
<1> QED
  BY <1>1, <1>2, <1>3, <1>4, <1>5, <1>6 DEF TellerMoves, Step

(***************************************************************************)
(* The table and the pointers into it                                      *)
(***************************************************************************)

\* addAccount fills the table in order, one account at a time.
LEMMA MainKeepsTableInv ==
  ASSUME BankInv, MainMoves
  PROVE  TableInv'
<1> USE BankAssumption DEF BankInv, BankTypeOK, TableInv, Slots, NoAccount
<1>1. CASE \E n \in Numbers, b \in Int : ReserveSlot(n, b)
  BY <1>1 DEF ReserveSlot
<1>2. CASE LockForAccount
  BY <1>2 DEF LockForAccount
<1>3. CASE Resize
  BY <1>3 DEF Resize
<1>4. CASE StoreAccount
  BY <1>4 DEF StoreAccount
<1> QED
  BY <1>1, <1>2, <1>3, <1>4 DEF MainMoves, AddStep

\* transaction leaves the table's slots as they are.
LEMMA TellerKeepsTableInv ==
  ASSUME BankInv, NEW t \in Tellers, TellerMoves(t)
  PROVE  TableInv'
<1>1. UNCHANGED <<size, number, adding>>
  BY TellerKeepsTable
<1> QED
  BY <1>1 DEF BankInv, TableInv

\* A slot in use stays in use: accounts are added and never removed.
LEMMA MainKeepsPoints ==
  ASSUME BankInv, MainMoves, NEW p, Points(p)
  PROVE  Points(p)'
<1>1. CASE UNCHANGED number
  BY <1>1 DEF Points, Slots
<1>2. CASE StoreAccount
  BY <1>2, BankAssumption DEF StoreAccount, BankInv, BankTypeOK, TableInv, Points, Slots, NoAccount
<1> QED
  BY <1>1, <1>2 DEF MainMoves, AddStep, ReserveSlot, LockForAccount, Resize

\* Adding an account leaves a teller's pointers on slots in use.
LEMMA MainKeepsPointerInv ==
  ASSUME BankInv, MainMoves
  PROVE  PointerInv'
<1>1. UNCHANGED <<pc, txn, fromAcc, toAcc, side>>
  BY MainKeepsCalls DEF callVars
<1>2. \A p : Points(p) => Points(p)'
  BY MainKeepsPoints
<1> QED
  BY <1>1, <1>2 DEF BankInv, PointerInv

\* A teller gets its pointers from the scan of lines 59-60 and uses the second
\* one only after it has tested the account it points to.
LEMMA TellerKeepsPointerInv ==
  ASSUME BankInv, NEW t \in Tellers, TellerMoves(t)
  PROVE  PointerInv'
<1> DEFINE Pointed(u) ==
             /\ pc[u] = "lock" => txn[u] \in Transfers
             /\ pc[u] \in Reaching => /\ Points(fromAcc[u])
                                      /\ toAcc[u] = NULL \/ Points(toAcc[u])
             /\ pc[u] \in Reaching \ {"unlock", "await", "pass", "relock"}
                  => Points(toAcc[u])
             /\ pc[u] \in {"unlock", "await", "pass", "relock"} /\ side[u] = "to"
                  => Points(toAcc[u])
<1>1. \A p : Points(p)' <=> Points(p)
  BY TellerKeepsTable DEF Points, Slots
<1>2. \A u \in Tellers \ {t} : Pointed(u)'
  BY <1>1, OthersUnchanged DEF BankInv, PointerInv
<1>3. Pointed(t)
  BY DEF BankInv, PointerInv
<1>4. Pointed(t)'
  <2> USE <1>1, <1>3 DEF BankInv, BankTypeOK, GoTo, At, Reaching, Places, pointerVars
  <2>1. CASE \E transfer \in Transfers : Begin(t, transfer)
    BY <2>1 DEF Begin
  <2>2. CASE LockBank(t)
    <3>1. \A n \in Numbers : Lookup(n) = NULL \/ Points(Lookup(n))
      BY BankAssumption, LookupFinds DEF Points, Slots, NULL
    <3>2. txn[t].from \in Numbers /\ txn[t].to \in Numbers
      BY <2>2 DEF LockBank, Transfers
    <3>3. Points(fromAcc'[t]) /\ (toAcc'[t] = NULL \/ Points(toAcc'[t]))
      BY <2>2, <3>1, <3>2 DEF LockBank
    <3>4. toAcc'[t] = NULL => pc'[t] = "unlock" /\ side'[t] = "from"
      BY <2>2 DEF LockBank, TestBoth, WaitFor
    <3>5. pc'[t] \in {"unlock", "takeTo"}
      BY <2>2 DEF LockBank, TestBoth, WaitFor
    <3> QED
      BY <3>3, <3>4, <3>5
  <2>3. CASE RelockAfterFrom(t) \/ RelockAfterTo(t)
    BY <2>3 DEF RelockAfterFrom, RelockAfterTo, TestBoth, WaitFor
  <2>4. CASE Unlock(t) \/ Await(t) \/ Pass(t) \/ TakeTo(t) \/ TakeFrom(t) \/ Release(t)
    BY <2>4 DEF Unlock, Await, Pass, TakeTo, TakeFrom, Release
  <2>5. CASE LoadTo(t) \/ StoreTo(t) \/ LoadFrom(t) \/ StoreFrom(t)
    BY <2>5 DEF LoadTo, StoreTo, LoadFrom, StoreFrom
  <2>6. CASE Finish(t) \/ PostFrom(t) \/ PostTo(t) \/ PostBank(t) \/ Leave(t)
    BY <2>6 DEF Finish, PostFrom, PostTo, PostBank, Leave
  <2>7. CASE NullDereference(t) \/ ScanUnwritten(t) \/ UseAfterFree(t)
    BY <2>7 DEF NullDereference, ScanUnwritten, UseAfterFree, Fails, callVars
  <2> QED
    BY <2>1, <2>2, <2>3, <2>4, <2>5, <2>6, <2>7 DEF TellerMoves, Step
<1> QED
  BY <1>2, <1>4 DEF PointerInv

(***************************************************************************)
(* The semaphores of the accounts                                          *)
(***************************************************************************)

\* The slots whose semaphore a teller has.
Has(t) == {a \in Slots : Holds(t, a)}

\* A step of a teller that takes, keeps or gives back one semaphore keeps
\* every semaphore with at most one teller.
LEMMA SemStep ==
  ASSUME BankInv, NEW t \in Tellers, TellerMoves(t),
         \/ sem' = sem /\ Has(t)' \subseteq Has(t)
         \/ \E b \in Slots : /\ sem[b] > 0
                             /\ sem' = [sem EXCEPT ![b] = @ - 1]
                             /\ Has(t)' \subseteq Has(t) \cup {b}
         \/ \E b \in Slots : /\ b \in Has(t)
                             /\ sem' = [sem EXCEPT ![b] = @ + 1]
                             /\ Has(t)' \subseteq Has(t) \ {b},
         HoldsFrom(t)' => fromAcc'[t] # toAcc'[t]
  PROVE  SemInv'
<1>1. \A u \in Tellers \ {t} : \A a : Holds(u, a)' <=> Holds(u, a)
  BY OthersUnchanged
     DEF BankInv, Holds, HoldsTo, HoldsFrom, Updating, Passing, Awaited
<1>2. \A u \in Tellers \ {t} : HoldsFrom(u)' => fromAcc'[u] # toAcc'[u]
  BY OthersUnchanged DEF BankInv, SemInv, HoldsFrom, Updating
<1>3. /\ sem \in [Slots -> {0, 1}]
      /\ \A u \in Tellers, a \in Slots : Holds(u, a) => sem[a] = 0
      /\ \A u, v \in Tellers, a \in Slots : Holds(u, a) /\ Holds(v, a) => u = v
  BY DEF BankInv, BankTypeOK, SemInv
<1>4. \A a \in Slots : (a \in Has(t) <=> Holds(t, a)) /\ (a \in Has(t)' <=> Holds(t, a)')
  BY DEF Has, Slots
<1>5. CASE sem' = sem /\ Has(t)' \subseteq Has(t)
  BY <1>1, <1>2, <1>3, <1>4, <1>5 DEF SemInv, Slots
<1>6. ASSUME NEW b \in Slots, sem[b] > 0, sem' = [sem EXCEPT ![b] = @ - 1],
             Has(t)' \subseteq Has(t) \cup {b}
      PROVE  SemInv'
  <2>1. \A u \in Tellers : ~Holds(u, b)
    BY <1>3, <1>6
  <2>2. \A a \in Slots : sem'[a] = IF a = b THEN 0 ELSE sem[a]
    BY <1>3, <1>6
  <2> QED
    BY <1>1, <1>2, <1>3, <1>4, <1>6, <2>1, <2>2 DEF SemInv, Slots
<1>7. ASSUME NEW b \in Slots, b \in Has(t), sem' = [sem EXCEPT ![b] = @ + 1],
             Has(t)' \subseteq Has(t) \ {b}
      PROVE  SemInv'
  <2>1. \A u \in Tellers \ {t} : ~Holds(u, b)
    BY <1>3, <1>4, <1>7
  <2>2. \A a \in Slots : a # b => sem'[a] = sem[a]
    BY <1>3, <1>7
  <2> QED
    BY <1>1, <1>2, <1>3, <1>4, <1>7, <2>1, <2>2 DEF SemInv, Slots
<1> QED
  BY <1>5, <1>6, <1>7

\* Every wait and post of transaction keeps the accounts' semaphores mutexes.
LEMMA TellerKeepsSemInv ==
  ASSUME BankInv, NEW t \in Tellers, TellerMoves(t)
  PROVE  SemInv'
<1> USE DEF BankInv, BankTypeOK, GoTo, At, pointerVars
<1> USE DEF Has, Holds, HoldsTo, HoldsFrom, Updating, Passing, Awaited, Slots
<1>0. HoldsFrom(t) => fromAcc[t] # toAcc[t]
  BY DEF SemInv
<1>1. CASE (\E transfer \in Transfers : Begin(t, transfer)) \/ Leave(t)
  BY <1>1, SemStep DEF Begin, Leave, accountVars
<1>2. CASE LockBank(t)
  <2>1. Has(t)' = {} /\ sem' = sem /\ ~HoldsFrom(t)'
    BY <1>2 DEF LockBank, TestBoth, WaitFor, accountVars
  <2> QED
    BY <2>1, SemStep
<1>3. CASE RelockAfterFrom(t) \/ RelockAfterTo(t)
  <2>1. Has(t)' = {} /\ sem' = sem /\ ~HoldsFrom(t)'
    BY <1>3 DEF RelockAfterFrom, RelockAfterTo, TestBoth, WaitFor, accountVars
  <2> QED
    BY <2>1, SemStep
<1>4. CASE Unlock(t) \/ PostBank(t)
  BY <1>4, SemStep DEF Unlock, PostBank, accountVars
<1>5. CASE Release(t) \/ LoadTo(t) \/ LoadFrom(t)
  <2>1. Has(t)' = Has(t) /\ sem' = sem
    BY <1>5 DEF Release, LoadTo, LoadFrom, accountVars
  <2>2. fromAcc'[t] # toAcc'[t]
    BY <1>0, <1>5 DEF Release, LoadTo, LoadFrom
  <2> QED
    BY <2>1, <2>2, SemStep
<1>6. CASE StoreTo(t) \/ StoreFrom(t) \/ Finish(t)
  <2>1. Has(t)' = Has(t) /\ sem' = sem
    BY <1>6 DEF StoreTo, StoreFrom, Finish
  <2>2. fromAcc'[t] # toAcc'[t]
    BY <1>0, <1>6 DEF StoreTo, StoreFrom, Finish
  <2> QED
    BY <2>1, <2>2, SemStep
<1>7. CASE Await(t)
  <2>1. Awaited(t) \in Slots /\ Has(t)' = Has(t) \cup {Awaited(t)} /\ ~HoldsFrom(t)'
    BY <1>7, PointersAreSlots DEF Await
  <2> QED
    BY <1>7, <2>1, SemStep DEF Await
<1>8. CASE Pass(t)
  <2>1. Awaited(t) \in Has(t) /\ Has(t)' = Has(t) \ {Awaited(t)} /\ ~HoldsFrom(t)'
    BY <1>8, PointersAreSlots DEF Pass
  <2> QED
    BY <1>8, <2>1, SemStep DEF Pass
<1>9. CASE TakeTo(t)
  <2>1. toAcc[t] \in Slots
    BY <1>9, PointersAreSlots DEF TakeTo, Reaching, Places
  <2>2. Has(t)' = {toAcc[t]} /\ ~HoldsFrom(t)'
    BY <1>9, <2>1 DEF TakeTo
  <2> QED
    BY <1>9, <2>1, <2>2, SemStep DEF TakeTo
<1>10. CASE TakeFrom(t)
  <2>1. fromAcc[t] \in Slots /\ toAcc[t] \in Slots
    BY <1>10, PointersAreSlots DEF TakeFrom, Reaching, Places
  <2>2. Has(t)' = Has(t) \cup {fromAcc[t]}
    BY <1>10, <2>1 DEF TakeFrom
  <2>3. fromAcc'[t] # toAcc'[t]
    BY <1>10, <2>1 DEF TakeFrom, SemInv
  <2> QED
    BY <1>10, <2>1, <2>2, <2>3, SemStep DEF TakeFrom
<1>11. CASE PostFrom(t)
  <2>1. fromAcc[t] \in Slots /\ fromAcc[t] # toAcc[t]
    BY <1>0, <1>11, PointersAreSlots DEF PostFrom, Reaching, Places
  <2>2. fromAcc[t] \in Has(t) /\ Has(t)' = Has(t) \ {fromAcc[t]} /\ ~HoldsFrom(t)'
    BY <1>11, <2>1 DEF PostFrom
  <2> QED
    BY <1>11, <2>1, <2>2, SemStep DEF PostFrom
<1>12. CASE PostTo(t)
  <2>1. toAcc[t] \in Slots
    BY <1>12, PointersAreSlots DEF PostTo, Reaching, Places
  <2>2. toAcc[t] \in Has(t) /\ Has(t)' = Has(t) \ {toAcc[t]} /\ ~HoldsFrom(t)'
    BY <1>12, <2>1 DEF PostTo
  <2> QED
    BY <1>12, <2>1, <2>2, SemStep DEF PostTo
<1>13. CASE NullDereference(t) \/ ScanUnwritten(t) \/ UseAfterFree(t)
  <2>1. UNCHANGED <<sem, pc, fromAcc, toAcc, side>>
    BY <1>13 DEF NullDereference, ScanUnwritten, UseAfterFree, Fails, callVars, accountVars
  <2> QED
    BY <2>1 DEF SemInv
<1> QED
  BY <1>1, <1>2, <1>3, <1>4, <1>5, <1>6, <1>7, <1>8, <1>9, <1>10, <1>11, <1>12, <1>13
     DEF TellerMoves, Step

\* The account that is stored is new: no teller has a pointer to it.
LEMMA NobodyPointsToNew ==
  ASSUME BankInv, adding.locked, NEW t \in Tellers
  PROVE  /\ adding.id \in Slots
         /\ pc[t] \in Reaching => fromAcc[t] # adding.id /\ toAcc[t] # adding.id
         /\ ~Holds(t, adding.id)
<1>1. adding.id \in Slots /\ ~Points(adding.id) /\ adding.id # NULL
  BY BankAssumption DEF BankInv, BankTypeOK, TableInv, Points, Slots, NULL
<1>2. pc[t] \in Reaching => fromAcc[t] # adding.id /\ toAcc[t] # adding.id
  BY <1>1 DEF BankInv, PointerInv
<1>3. HoldsTo(t) \/ HoldsFrom(t) \/ Passing(t) => pc[t] \in Reaching
  BY DEF HoldsTo, HoldsFrom, Updating, Passing, Reaching, Places
<1> QED
  BY <1>1, <1>2, <1>3 DEF Holds, Awaited

\* The semaphore of a new account (line 42) is one that no teller has.
LEMMA MainKeepsSemInv ==
  ASSUME BankInv, MainMoves
  PROVE  SemInv'
<1>1. UNCHANGED <<pc, fromAcc, toAcc, side>>
  BY MainKeepsCalls DEF callVars
<1>2. CASE UNCHANGED sem
  BY <1>1, <1>2 DEF BankInv, SemInv, Holds, HoldsTo, HoldsFrom, Updating, Passing, Awaited, Slots
<1>3. CASE StoreAccount
  <2>1. \A t \in Tellers, a \in Slots : Holds(t, a) => sem'[a] = sem[a]
    BY <1>3, NobodyPointsToNew DEF StoreAccount, BankInv, BankTypeOK
  <2> QED
    BY <1>1, <2>1 DEF BankInv, SemInv, Holds, HoldsTo, HoldsFrom, Updating, Passing, Awaited, Slots
<1> QED
  BY <1>2, <1>3 DEF MainMoves, AddStep, ReserveSlot, LockForAccount, Resize, accountVars

(***************************************************************************)
(* The flags                                                               *)
(***************************************************************************)

\* Two tellers in a transaction have no account in common.
LEMMA TransactionsDisjoint ==
  ASSUME BankInv, NEW t \in Tellers, NEW u \in Tellers \ {t},
         InTransaction(t), InTransaction(u)
  PROVE  {fromAcc[t], toAcc[t]} \cap {fromAcc[u], toAcc[u]} = {}
<1>1. \A v \in {t, u} : /\ HoldsFrom(v) /\ HoldsTo(v)
                        /\ fromAcc[v] \in Slots /\ toAcc[v] \in Slots
  BY PointersAreSlots
     DEF InTransaction, HoldsFrom, HoldsTo, Updating, Reaching, Places
<1>2. \A a \in Slots : ~(Holds(t, a) /\ Holds(u, a))
  BY DEF BankInv, SemInv
<1> QED
  BY <1>1, <1>2 DEF Holds

\* What ActiveInv says of one teller.
Flagged(t) ==
  /\ InTransaction(t) => active[fromAcc[t]] /\ active[toAcc[t]]
  /\ pc[t] \in {"takeTo", "takeFrom"} => ~active[fromAcc[t]] /\ ~active[toAcc[t]]

\* The flags are set and cleared under the lock, between the accounts'
\* semaphores being taken and posted (lines 75-87).
LEMMA TellerKeepsActiveInv ==
  ASSUME BankInv, NEW t \in Tellers, TellerMoves(t)
  PROVE  ActiveInv'
<1> USE DEF InTransaction, Updating
<1>1. \A u \in Tellers : Flagged(u)
  BY DEF BankInv, ActiveInv, Flagged
<1>2. ASSUME UNCHANGED active, NEW u \in Tellers \ {t}
      PROVE  Flagged(u)'
  BY <1>1, <1>2, OthersUnchanged DEF BankInv, Flagged
<1>3. ASSUME NEW u \in Tellers \ {t}, TakeFrom(t)
      PROVE  Flagged(u)'
  <2>1. pc[u] \notin {"takeTo", "takeFrom"}
    BY <1>3 DEF TakeFrom, At, BankInv, LockInv, HoldsBank
  <2>2. \A a \in Slots : active[a] => active'[a]
    BY <1>3 DEF TakeFrom, BankInv, BankTypeOK
  <2>3. InTransaction(u) => fromAcc[u] \in Slots /\ toAcc[u] \in Slots
    BY PointersAreSlots DEF Reaching, Places
  <2> QED
    BY <1>1, <2>1, <2>2, <2>3, OthersUnchanged DEF BankInv, Flagged
<1>4. ASSUME NEW u \in Tellers \ {t}, Finish(t)
      PROVE  Flagged(u)'
  <2>1. pc[u] \notin {"takeTo", "takeFrom"}
    BY <1>4 DEF Finish, BankInv, LockInv, HoldsBank
  <2>2. InTransaction(u) => {fromAcc[t], toAcc[t]} \cap {fromAcc[u], toAcc[u]} = {}
    BY <1>4, TransactionsDisjoint DEF Finish, At
  <2>3. \A a \in Slots : a \notin {fromAcc[t], toAcc[t]} => active'[a] = active[a]
    BY <1>4 DEF Finish, BankInv, BankTypeOK
  <2>4. InTransaction(u) => fromAcc[u] \in Slots /\ toAcc[u] \in Slots
    BY PointersAreSlots DEF Reaching, Places
  <2> QED
    BY <1>1, <2>1, <2>2, <2>3, <2>4, OthersUnchanged DEF BankInv, Flagged
<1>5. Flagged(t)' /\ (TakeFrom(t) \/ Finish(t) \/ UNCHANGED active)
  <2> USE <1>1 DEF Flagged, BankInv, BankTypeOK, GoTo, At, pointerVars, accountVars
  <2>1. CASE (\E transfer \in Transfers : Begin(t, transfer)) \/ Leave(t)
    BY <2>1 DEF Begin, Leave
  <2>2. CASE LockBank(t)
    BY <2>2 DEF LockBank, TestBoth, WaitFor
  <2>3. CASE RelockAfterFrom(t) \/ RelockAfterTo(t)
    BY <2>3 DEF RelockAfterFrom, RelockAfterTo, TestBoth, WaitFor
  <2>4. CASE Unlock(t) \/ Await(t) \/ Pass(t) \/ TakeTo(t) \/ Release(t)
    BY <2>4 DEF Unlock, Await, Pass, TakeTo, Release
  <2>5. CASE TakeFrom(t)
    <3>1. fromAcc[t] \in Slots /\ toAcc[t] \in Slots
      BY <2>5, PointersAreSlots DEF TakeFrom, Reaching, Places
    <3>2. pc'[t] = "release" /\ UNCHANGED <<fromAcc, toAcc>>
      BY <2>5 DEF TakeFrom
    <3>3. active'[fromAcc[t]] /\ active'[toAcc[t]]
      BY <2>5, <3>1 DEF TakeFrom
    <3> QED
      BY <2>5, <3>2, <3>3
  <2>6. CASE LoadTo(t) \/ StoreTo(t) \/ LoadFrom(t) \/ StoreFrom(t)
    BY <2>6 DEF LoadTo, StoreTo, LoadFrom, StoreFrom
  <2>7. CASE Finish(t) \/ PostFrom(t) \/ PostTo(t) \/ PostBank(t)
    BY <2>7 DEF Finish, PostFrom, PostTo, PostBank
  <2>8. CASE NullDereference(t) \/ ScanUnwritten(t) \/ UseAfterFree(t)
    BY <2>8 DEF NullDereference, ScanUnwritten, UseAfterFree, Fails, callVars
  <2> QED
    BY <2>1, <2>2, <2>3, <2>4, <2>5, <2>6, <2>7, <2>8 DEF TellerMoves, Step
<1> QED
  BY <1>2, <1>3, <1>4, <1>5 DEF ActiveInv, Flagged

\* The flag of a new account is clear, and no teller points to it.
LEMMA MainKeepsActiveInv ==
  ASSUME BankInv, MainMoves
  PROVE  ActiveInv'
<1> USE DEF BankInv, ActiveInv, InTransaction, Updating
<1>1. UNCHANGED <<pc, fromAcc, toAcc>>
  BY MainKeepsCalls DEF callVars
<1>2. CASE UNCHANGED active
  BY <1>1, <1>2
<1>3. CASE StoreAccount
  <2>1. \A a \in Slots : a # adding.id => active'[a] = active[a]
    BY <1>3 DEF StoreAccount, BankTypeOK
  <2>2. \A t \in Tellers : pc[t] \in Reaching =>
          fromAcc[t] # adding.id /\ toAcc[t] # adding.id
    BY <1>3, NobodyPointsToNew DEF StoreAccount
  <2>3. \A t \in Tellers : pc[t] \in Reaching \ {"unlock", "await", "pass", "relock"} =>
          fromAcc[t] \in Slots /\ toAcc[t] \in Slots
    BY PointersAreSlots
  <2> QED
    BY <1>1, <2>1, <2>2, <2>3 DEF Reaching, Places
<1> QED
  BY <1>2, <1>3 DEF MainMoves, AddStep, ReserveSlot, LockForAccount, Resize, accountVars

(***************************************************************************)
(* The balances                                                            *)
(***************************************************************************)

\* What NoLostUpdate says of one teller.
Current(t) ==
  /\ pc[t] = "storeTo" => reg[t] = balance[toAcc[t]]
  /\ pc[t] = "storeFrom" => reg[t] = balance[fromAcc[t]]

\* No other teller stores to an account between a teller's load and its store
\* (lines 80-81).
LEMMA TellerKeepsNoLostUpdate ==
  ASSUME BankInv, NEW t \in Tellers, TellerMoves(t)
  PROVE  NoLostUpdate'
<1>1. \A u \in Tellers : Current(u)
  BY DEF BankInv, NoLostUpdate, Current
<1>2. ASSUME UNCHANGED balance, NEW u \in Tellers \ {t}
      PROVE  Current(u)'
  BY <1>1, <1>2, OthersUnchanged DEF BankInv, Current
<1>3. ASSUME NEW u \in Tellers \ {t}, StoreTo(t) \/ StoreFrom(t)
      PROVE  Current(u)'
  <2>1. Updating(t)
    BY <1>3 DEF StoreTo, StoreFrom, At, Updating
  <2>2. Updating(u) => {fromAcc[t], toAcc[t]} \cap {fromAcc[u], toAcc[u]} = {}
    BY <2>1, TransactionsDisjoint DEF InTransaction
  <2>3. \A a \in Slots : a \notin {fromAcc[t], toAcc[t]} => balance'[a] = balance[a]
    BY <1>3 DEF StoreTo, StoreFrom, BankInv, BankTypeOK
  <2>4. Updating(u) => fromAcc[u] \in Slots /\ toAcc[u] \in Slots
    BY PointersAreSlots DEF Updating, Reaching, Places
  <2>5. /\ pc'[u] = pc[u] /\ reg'[u] = reg[u]
        /\ fromAcc'[u] = fromAcc[u] /\ toAcc'[u] = toAcc[u]
    BY OthersUnchanged DEF BankInv
  <2>6. CASE Updating(u)
    <3>1. balance'[fromAcc[u]] = balance[fromAcc[u]] /\ balance'[toAcc[u]] = balance[toAcc[u]]
      BY <2>2, <2>3, <2>4, <2>6
    <3> QED
      BY <1>1, <2>5, <3>1 DEF Current
  <2>7. CASE ~Updating(u)
    BY <2>5, <2>7 DEF Current, Updating
  <2> QED
    BY <2>6, <2>7
<1>4. Current(t)' /\ (StoreTo(t) \/ StoreFrom(t) \/ UNCHANGED balance)
  <2> USE <1>1 DEF Current, BankInv, BankTypeOK, GoTo, At, pointerVars, accountVars
  <2>1. CASE (\E transfer \in Transfers : Begin(t, transfer)) \/ Leave(t)
    BY <2>1 DEF Begin, Leave
  <2>2. CASE LockBank(t)
    BY <2>2 DEF LockBank, TestBoth, WaitFor
  <2>3. CASE RelockAfterFrom(t) \/ RelockAfterTo(t)
    BY <2>3 DEF RelockAfterFrom, RelockAfterTo, TestBoth, WaitFor
  <2>4. CASE Unlock(t) \/ Await(t) \/ Pass(t) \/ TakeTo(t) \/ TakeFrom(t) \/ Release(t)
    BY <2>4 DEF Unlock, Await, Pass, TakeTo, TakeFrom, Release
  <2>5. CASE LoadTo(t) \/ StoreTo(t) \/ LoadFrom(t) \/ StoreFrom(t)
    BY <2>5 DEF LoadTo, StoreTo, LoadFrom, StoreFrom
  <2>6. CASE Finish(t) \/ PostFrom(t) \/ PostTo(t) \/ PostBank(t)
    BY <2>6 DEF Finish, PostFrom, PostTo, PostBank
  <2>7. CASE NullDereference(t) \/ ScanUnwritten(t) \/ UseAfterFree(t)
    BY <2>7 DEF NullDereference, ScanUnwritten, UseAfterFree, Fails, callVars
  <2> QED
    BY <2>1, <2>2, <2>3, <2>4, <2>5, <2>6, <2>7 DEF TellerMoves, Step
<1> QED
  BY <1>2, <1>3, <1>4 DEF NoLostUpdate, Current

\* The balance of a new account is stored where no teller has loaded one.
LEMMA MainKeepsNoLostUpdate ==
  ASSUME BankInv, MainMoves
  PROVE  NoLostUpdate'
<1> USE DEF BankInv, NoLostUpdate
<1>1. UNCHANGED <<pc, fromAcc, toAcc, reg>>
  BY MainKeepsCalls DEF callVars
<1>2. CASE UNCHANGED balance
  BY <1>1, <1>2
<1>3. CASE StoreAccount
  <2>1. \A a \in Slots : a # adding.id => balance'[a] = balance[a]
    BY <1>3 DEF StoreAccount, BankTypeOK
  <2>2. \A t \in Tellers : pc[t] \in Reaching =>
          fromAcc[t] # adding.id /\ toAcc[t] # adding.id
    BY <1>3, NobodyPointsToNew DEF StoreAccount
  <2>3. \A t \in Tellers : pc[t] \in Reaching \ {"unlock", "await", "pass", "relock"} =>
          fromAcc[t] \in Slots /\ toAcc[t] \in Slots
    BY PointersAreSlots
  <2> QED
    BY <1>1, <2>1, <2>2, <2>3 DEF Reaching, Places
<1> QED
  BY <1>2, <1>3 DEF MainMoves, AddStep, ReserveSlot, LockForAccount, Resize, accountVars

(***************************************************************************)
(* The theorems                                                            *)
(***************************************************************************)

\* No semaphore is taken, no pointer in use and no account in the table when
\* initBank returns.
LEMMA BankInvInit ==
  ASSUME BankInit
  PROVE  BankInv
<1> USE BankAssumption DEF BankInit, NULL, Slots
<1>1. BankTypeOK
  BY DEF BankTypeOK, Places, NoAccount
<1>2. LockInv /\ TableInv
  BY DEF LockInv, HoldsBank, TableInv, NoAccount
<1>3. PointerInv /\ ActiveInv /\ NoLostUpdate
  BY DEF PointerInv, Reaching, ActiveInv, InTransaction, Updating, NoLostUpdate
<1>4. SemInv
  BY DEF SemInv, Holds, HoldsTo, HoldsFrom, Updating, Passing
<1> QED
  BY <1>1, <1>2, <1>3, <1>4 DEF BankInv

\* Every step of the bank preserves the invariant.
LEMMA BankInvStep ==
  ASSUME BankInv, [BankNext]_bankVars
  PROVE  BankInv'
<1>1. CASE MainMoves
  BY <1>1, MainTypes, MainKeepsLockInv, MainKeepsTableInv, MainKeepsPointerInv,
     MainKeepsSemInv, MainKeepsActiveInv, MainKeepsNoLostUpdate
     DEF BankInv, MainMoves
<1>2. ASSUME NEW t \in Tellers, TellerMoves(t)
      PROVE  BankInv'
  BY <1>2, TellerTypes, TellerKeepsLockInv, TellerKeepsTableInv, TellerKeepsPointerInv,
     TellerKeepsSemInv, TellerKeepsActiveInv, TellerKeepsNoLostUpdate
     DEF BankInv, TellerMoves
<1>3. CASE UNCHANGED bankVars
  <2> USE <1>3 DEF BankInv, bankVars, tableVars, accountVars, callVars
  <2>1. BankTypeOK'
    BY DEF BankTypeOK
  <2>2. LockInv' /\ TableInv'
    BY DEF LockInv, HoldsBank, TableInv
  <2>3. PointerInv'
    BY DEF PointerInv, Points
  <2>4. SemInv'
    BY DEF SemInv, Holds, HoldsTo, HoldsFrom, Updating, Passing, Awaited
  <2>5. ActiveInv' /\ NoLostUpdate'
    BY DEF ActiveInv, InTransaction, Updating, NoLostUpdate
  <2> QED
    BY <2>1, <2>2, <2>3, <2>4, <2>5
<1> QED
  BY <1>1, <1>2, <1>3 DEF BankNext, MainMoves, TellerMoves

\* The bank keeps its invariant, whatever transactions and accounts come in
\* whatever order (bank.c:29-88).
THEOREM BankCorrect == BankSpec => []BankInv
<1>1. BankInit => BankInv
  BY BankInvInit
<1>2. BankInv /\ [BankNext]_bankVars => BankInv'
  BY BankInvStep
<1> QED
  BY <1>1, <1>2, PTL DEF BankSpec

\* The invariant implies that balances are updated by one teller at a time.
LEMMA InvImpliesExclusion ==
  ASSUME BankInv
  PROVE  AccountExclusion
  BY TransactionsDisjoint DEF AccountExclusion, InTransaction

\* The invariant implies that a wait under the bank's lock is for a teller
\* that is about to post: everyone else with the account is in a transaction
\* on it, or has the lock.
LEMMA InvImpliesTransientWait ==
  ASSUME BankInv
  PROVE  TransientWait
<1> SUFFICES ASSUME NEW t \in Tellers, NEW u \in Tellers, t # u,
                    NEW a \in {fromAcc[t], toAcc[t]},
                    pc[t] \in {"takeTo", "takeFrom"}, Holds(u, a)
             PROVE  Passing(u)
  BY DEF TransientWait
<1>1. ~HoldsBank(u)
  BY DEF BankInv, LockInv, HoldsBank
<1>2. ~active[a]
  BY DEF BankInv, ActiveInv
<1>3. InTransaction(u) => active[fromAcc[u]] /\ active[toAcc[u]]
  BY DEF BankInv, ActiveInv
<1>4. HoldsTo(u) \/ HoldsFrom(u) => HoldsBank(u) \/ InTransaction(u)
  BY DEF HoldsTo, HoldsFrom, Updating, HoldsBank, InTransaction
<1>5. Holds(u, a) /\ ~Passing(u) => InTransaction(u) /\ a \in {fromAcc[u], toAcc[u]}
  BY <1>1, <1>4 DEF Holds
<1> QED
  BY <1>2, <1>3, <1>5

-----------------------------------------------------------------------------
\* The types of main and the tellers, and the use of the bank.

\* What main knows of a line by its first letter (eft.c:39).
LEMMA LineTypes ==
  ASSUME TypeOK, ~EndOfFile
  PROVE  /\ Line.kind = "account" => Line.number \in Numbers /\ Line.balance \in Int
         /\ Line.kind = "transfer" => Line \in TransferLines
<1>1. file \in Seq(AccountLines \cup TransferLines)
  BY EftAssumption DEF TypeOK
<1>2. Line \in AccountLines \cup TransferLines
  BY <1>1 DEF TypeOK, EndOfFile, Line
<1>3. \A l \in AccountLines : l.kind = "account" /\ l.number \in Numbers /\ l.balance \in Int
  BY DEF AccountLines
<1>4. \A l \in TransferLines : l.kind = "transfer"
  BY DEF TransferLines
<1> QED
  BY <1>2, <1>3, <1>4

\* What a teller receives is a transfer or the end marker.
LEMMA ReceivedTypes ==
  ASSUME TypeOK, NEW t \in Tellers, rings[t] # <<>>, Head(rings[t]) # EndLine
  PROVE  LET l == Head(rings[t])
         IN  [from |-> l.from, to |-> l.to, value |-> l.value] \in Transfers
<1>1. rings[t] \in Seq(TransferLines \cup {EndLine})
  BY DEF TypeOK
<1>2. Head(rings[t]) \in TransferLines
  BY <1>1
<1> QED
  BY <1>2 DEF TransferLines, Transfers

\* A step of the program is a step of the bank or leaves it unchanged.
LEMMA StepIsBankStep ==
  ASSUME TypeOK, [Next]_vars
  PROVE  [BankNext]_bankVars
<1>1. CASE UNCHANGED vars
  BY <1>1 DEF vars
<1>2. CASE ReadAccount
  BY <1>2, LineTypes DEF ReadAccount, BankNext
<1>3. CASE InsertAccount
  BY <1>3 DEF InsertAccount, BankNext
<1>4. CASE Dispatch \/ SendEnd \/ Join
  BY <1>4 DEF Dispatch, SendEnd, Join
<1>5. ASSUME NEW t \in Tellers, Receive(t)
      PROVE  BankNext
  BY <1>5, ReceivedTypes DEF Receive, BankNext
<1>6. ASSUME NEW t \in Tellers, ReceiveEnd(t)
      PROVE  BankNext
  BY <1>6 DEF ReceiveEnd, BankNext
<1>7. ASSUME NEW t \in Tellers, Transact(t)
      PROVE  BankNext
  BY <1>7 DEF Transact, BankNext
<1> QED
  BY <1>1, <1>2, <1>3, <1>4, <1>5, <1>6, <1>7 DEF Next, MainStep, TellerStep

\* A function on 1..n is a sequence: the table that printResult prints.
LEMMA FunctionIsSeq ==
  ASSUME NEW S, NEW n \in Nat, NEW f \in [1 .. n -> S]
  PROVE  f \in Seq(S)
<1>1. Seq(S) = UNION {[1 .. m -> S] : m \in Nat}
  BY SeqDef
<1>2. [1 .. n -> S] \in {[1 .. m -> S] : m \in Nat}
  OBVIOUS
<1> QED
  BY <1>1, <1>2

\* The variables of the main thread and the rings.
MainTypeOK ==
  /\ \E job \in Jobs : file = job.file /\ workerCount = job.workers
  /\ lineNo \in 0 .. Len(file)
  /\ ctr \in 0 .. lineNo
  /\ rings \in [Tellers -> Seq(TransferLines \cup {EndLine})]
  /\ ended \in 0 .. workerCount
  /\ joined \in 0 .. ended
  /\ printed \in Seq([number : Numbers \cup {0}, balance : Int])

\* What EftAssumption says of the command line that was given.
LEMMA JobTypes ==
  ASSUME TypeOK
  PROVE  workerCount \in Nat \ {0} /\ Len(file) \in Nat
<1>1. file \in Seq(AccountLines \cup TransferLines) /\ workerCount \in Nat \ {0}
  BY EftAssumption DEF TypeOK
<1> QED
  BY <1>1

\* Every step of main and of the tellers keeps the type of main's variables.
LEMMA MainTypesStep ==
  ASSUME TypeOK, [Next]_vars
  PROVE  MainTypeOK'
<1> USE JobTypes DEF TypeOK, MainTypeOK
<1> DEFINE Items == TransferLines \cup {EndLine}
<1>1. CASE UNCHANGED vars \/ InsertAccount
  BY <1>1 DEF vars, InsertAccount, mainVars
<1>2. CASE ReadAccount
  BY <1>2 DEF ReadAccount, EndOfFile
<1>3. ASSUME NEW t, NEW item \in Items, Put(t, item)
      PROVE  rings' \in [Tellers -> Seq(Items)]
  <2>1. \A s \in Seq(Items) : Append(s, item) \in Seq(Items)
    BY AppendProperties
  <2> HIDE DEF Items
  <2> QED
    BY <1>3, <2>1 DEF Put, Items
<1>4. CASE Dispatch
  <2>1. rings' \in [Tellers -> Seq(Items)]
    BY <1>3, <1>4, LineTypes DEF Dispatch
  <2> QED
    BY <1>4, <2>1 DEF Dispatch, EndOfFile
<1>5. CASE SendEnd
  <2>1. rings' \in [Tellers -> Seq(Items)]
    BY <1>3, <1>5 DEF SendEnd
  <2> QED
    BY <1>5, <2>1 DEF SendEnd
<1>6. CASE Join
  <2>1. size \in Nat /\ \A i \in 1 .. size : i \in Slots
    BY BankAssumption DEF BankTypeOK, Slots
  <2>2. Table \in [1 .. size -> [number : Numbers \cup {0}, balance : Int]]
    BY <2>1 DEF Table, BankTypeOK
  <2>3. Table \in Seq([number : Numbers \cup {0}, balance : Int])
    BY <2>1, <2>2, FunctionIsSeq
  <2>4. joined' \in 0 .. ended' /\ printed' \in Seq([number : Numbers \cup {0}, balance : Int])
    BY <1>6, <2>3 DEF Join
  <2> QED
    BY <1>6, <2>4 DEF Join
<1>7. ASSUME NEW t \in Tellers, Receive(t) \/ ReceiveEnd(t)
      PROVE  MainTypeOK'
  <2>1. \A s \in Seq(Items) : s # <<>> => Tail(s) \in Seq(Items)
    BY HeadTailProperties
  <2>2. rings' \in [Tellers -> Seq(Items)]
    <3> HIDE DEF Items
    <3> QED
      BY <1>7, <2>1 DEF Receive, ReceiveEnd, TakeLine, Items
  <2> QED
    BY <1>7, <2>2 DEF Receive, ReceiveEnd
<1>8. ASSUME NEW t \in Tellers, Transact(t)
      PROVE  MainTypeOK'
  BY <1>8 DEF Transact, mainVars
<1> QED
  BY <1>1, <1>2, <1>4, <1>5, <1>6, <1>7, <1>8 DEF Next, MainStep, TellerStep

\* The types and the bank's invariant hold when main starts to read.
LEMMA InitTypes ==
  ASSUME Init
  PROVE  TypeOK /\ BankInv
<1>1. BankInv
  BY BankInvInit DEF Init
<1>2. PICK job \in Jobs : file = job.file /\ workerCount = job.workers
  BY DEF Init
<1>3. Len(file) \in Nat /\ workerCount \in Nat
  BY <1>2, EftAssumption
<1> QED
  BY <1>1, <1>2, <1>3 DEF Init, TypeOK, BankInv

\* Every variable keeps its type, and the bank its invariant.
THEOREM EftInvariant == Spec => [](TypeOK /\ BankInv)
<1>1. Init => TypeOK /\ BankInv
  BY InitTypes
<1>2. TypeOK /\ BankInv /\ [Next]_vars => (TypeOK /\ BankInv)'
  <2> SUFFICES ASSUME TypeOK, BankInv, [Next]_vars
               PROVE  TypeOK' /\ BankInv'
    OBVIOUS
  <2>1. BankInv'
    BY StepIsBankStep, BankInvStep
  <2>2. MainTypeOK'
    BY MainTypesStep
  <2> QED
    BY <2>1, <2>2 DEF TypeOK, MainTypeOK, BankInv
<1> QED
  BY <1>1, <1>2, PTL DEF Spec

\* The program, its main thread and rings hidden, is a bank.
THEOREM EftUsesBank == Spec => BankSpec
<1>1. Init => BankInit
  BY DEF Init
<1>2. TypeOK /\ [Next]_vars => [BankNext]_bankVars
  BY StepIsBankStep
<1> QED
  BY <1>1, <1>2, EftInvariant, PTL DEF Spec, BankSpec

\* Every variable of eft keeps its type; in particular every semaphore of the
\* bank is 0 or 1.
THEOREM EftTypes == Spec => []TypeOK
  BY EftInvariant, PTL

\* No two tellers update the balance of a common account at once (bank.c:80-81).
THEOREM EftAccountExclusion == Spec => []AccountExclusion
<1>1. BankInv => AccountExclusion
  BY InvImpliesExclusion
<1> QED
  BY <1>1, EftInvariant, PTL

\* No update of a balance is lost (bank.c:80-81).
THEOREM EftNoLostUpdate == Spec => []NoLostUpdate
<1>1. BankInv => NoLostUpdate
  BY DEF BankInv
<1> QED
  BY <1>1, EftInvariant, PTL

\* A teller that waits for an account with the bank's lock in hand waits for a
\* teller that needs nothing to give it back (bank.c:75-76).
THEOREM EftTransientWait == Spec => []TransientWait
<1>1. BankInv => TransientWait
  BY InvImpliesTransientWait
<1> QED
  BY <1>1, EftInvariant, PTL

-----------------------------------------------------------------------------
\* Sums over finite sets, by the smallest set of which a fact is false.

\* Among the subsets of a finite set that are in B one has no smaller one in B.
LEMMA SmallestSet ==
  ASSUME NEW S, IsFiniteSet(S), NEW B \in SUBSET (SUBSET S), B # {}
  PROVE  \E b \in B : \A c \in B : ~(c \subseteq b /\ c # b)
<1> DEFINE R == StrictSubsetOrdering(S)
<1>1. IsWellFoundedOn(R, FiniteSubsetsOf(S))
  BY FS_StrictSubsetOrderingWellFounded
<1>2. B \subseteq FiniteSubsetsOf(S)
  BY FS_Subset DEF FiniteSubsetsOf
<1>3. \A c, b \in SUBSET S : c \subseteq b /\ c # b => <<c, b>> \in R
  BY DEF StrictSubsetOrdering
<1> HIDE DEF R
<1>4. PICK b \in B : \A c \in B : ~(<<c, b>> \in R)
  BY <1>1, <1>2, WFMin
<1> QED
  BY <1>3, <1>4

\* The element of a set that a sum takes first.
Chosen(s) == CHOOSE x \in s : TRUE

\* g sums f over the subsets of S.
Summing(g, f, S) ==
  \A s \in SUBSET S : g[s] = IF s = {} THEN 0 ELSE f[Chosen(s)] + g[s \ {Chosen(s)}]

\* SumFunctionOnSet is computed by taking the elements of the set one by one.
LEMMA SumIs ==
  ASSUME NEW S, IsFiniteSet(S), NEW f
  PROVE  \E g : Summing(g, f, S) /\ SumFunctionOnSet(f, S) = g[S]
<1> DEFINE Rec(g, s) == IF s = {} THEN 0 ELSE f[Chosen(s)] + g[s \ {Chosen(s)}]
           Good(n) == \E g : \A s \in SUBSET S : Cardinality(s) <= n => g[s] = Rec(g, s)
           Bad == {n \in Nat : ~Good(n)}
<1>0. /\ \A s \in SUBSET S : Cardinality(s) \in Nat
      /\ \A s \in SUBSET S : s # {} => /\ s \ {Chosen(s)} \in SUBSET S /\ Chosen(s) \in s
                                       /\ Cardinality(s \ {Chosen(s)}) = Cardinality(s) - 1
  <2> SUFFICES ASSUME NEW s \in SUBSET S
               PROVE  /\ Cardinality(s) \in Nat
                      /\ s # {} => /\ s \ {Chosen(s)} \in SUBSET S /\ Chosen(s) \in s
                                   /\ Cardinality(s \ {Chosen(s)}) = Cardinality(s) - 1
    OBVIOUS
  <2>1. IsFiniteSet(s)
    BY FS_Subset
  <2>2. Cardinality(s) \in Nat
    BY <2>1, FS_CardinalityType
  <2>3. s # {} => Chosen(s) \in s
    BY DEF Chosen
  <2>4. s # {} => Cardinality(s \ {Chosen(s)}) = Cardinality(s) - 1
    BY <2>1, <2>3, FS_RemoveElement
  <2> QED
    BY <2>2, <2>3, <2>4
<1>1. ASSUME NEW n \in Nat, Good(n) PROVE Good(n + 1)
  <2>1. PICK g : \A s \in SUBSET S : Cardinality(s) <= n => g[s] = Rec(g, s)
    BY <1>1
  <2> DEFINE h == [s \in SUBSET S |-> Rec(g, s)]
  <2>2. ASSUME NEW s \in SUBSET S, Cardinality(s) <= n + 1 PROVE h[s] = Rec(h, s)
    <3>1. h[s] = Rec(g, s)
      OBVIOUS
    <3>2. s # {} => h[s \ {Chosen(s)}] = g[s \ {Chosen(s)}]
      <4> SUFFICES ASSUME s # {} PROVE h[s \ {Chosen(s)}] = g[s \ {Chosen(s)}]
        OBVIOUS
      <4> DEFINE u == s \ {Chosen(s)}
      <4>1. u \in SUBSET S /\ Cardinality(u) <= n
        BY <1>0, <2>2
      <4> HIDE DEF u
      <4>2. h[u] = Rec(g, u) /\ g[u] = Rec(g, u)
        BY <2>1, <4>1
      <4> QED
        BY <4>2 DEF u
    <3> HIDE DEF h
    <3> QED
      BY <3>1, <3>2
  <2> HIDE DEF h
  <2> QED
    BY <2>2
<1>2. Good(0)
  <2> DEFINE h == [s \in SUBSET S |-> 0]
  <2>1. ASSUME NEW s \in SUBSET S, Cardinality(s) <= 0 PROVE h[s] = Rec(h, s)
    <3>1. s = {}
      <4>1. IsFiniteSet(s) /\ Cardinality(s) = 0
        BY <1>0, <2>1, FS_Subset
      <4> QED
        BY <4>1, FS_EmptySet
    <3> QED
      BY <3>1
  <2> HIDE DEF h
  <2> QED
    BY <2>1
<1> HIDE DEF Good
<1>3. Bad = {}
  <2> SUFFICES ASSUME Bad # {} PROVE FALSE
    OBVIOUS
  <2>1. PICK n \in Bad : \A m \in Bad : n <= m
    <3>1. Bad \subseteq Nat
      OBVIOUS
    <3> HIDE DEF Bad
    <3> QED
      BY <3>1, LeastElement
  <2>2. n \in Nat /\ ~Good(n) /\ n # 0
    BY <1>2, <2>1
  <2>3. n - 1 \in Nat /\ ~(n <= n - 1) /\ (n - 1) + 1 = n
    BY <2>2
  <2>4. Good(n - 1)
    BY <2>1, <2>3
  <2>5. Good((n - 1) + 1)
    BY <1>1, <2>3, <2>4
  <2> QED
    BY <2>2, <2>3, <2>5
<1>4. Cardinality(S) \in Nat
  BY <1>0
<1>5. Good(Cardinality(S))
  BY <1>3, <1>4
<1>6. PICK g : \A s \in SUBSET S : Cardinality(s) <= Cardinality(S) => g[s] = Rec(g, s)
  BY <1>5 DEF Good
<1>7. \A s \in SUBSET S : g[s] = Rec(g, s)
  BY <1>6, FS_Subset
<1> DEFINE h == [s \in SUBSET S |-> g[s]]
<1>8. h = [s \in SUBSET S |-> IF s = {} THEN 0
                              ELSE f[CHOOSE x \in s : TRUE] + h[s \ {CHOOSE x \in s : TRUE}]]
  BY <1>0, <1>7 DEF Chosen
<1> DEFINE iter == CHOOSE iter : iter = [s \in SUBSET S |-> IF s = {} THEN 0
                              ELSE f[CHOOSE x \in s : TRUE] + iter[s \ {CHOOSE x \in s : TRUE}]]
<1> HIDE DEF h
<1>9. iter = [s \in SUBSET S |-> IF s = {} THEN 0
                              ELSE f[CHOOSE x \in s : TRUE] + iter[s \ {CHOOSE x \in s : TRUE}]]
  BY <1>8, Zenon
<1>10. SumFunctionOnSet(f, S) = iter[S]
  BY DEF SumFunctionOnSet, FoldFunctionOnSet, MapThenFoldSet
<1> HIDE DEF iter
<1>11. Summing(iter, f, S)
  BY <1>9 DEF Summing, Chosen
<1> QED
  BY <1>10, <1>11

\* Any element of the set can be taken first.
LEMMA SummingTakes ==
  ASSUME NEW S, IsFiniteSet(S), NEW f, \A x \in S : f[x] \in Int, NEW g, Summing(g, f, S)
  PROVE  \A s \in SUBSET S : g[s] \in Int /\ \A x \in s : g[s] = f[x] + g[s \ {x}]
<1> DEFINE Good(s) == g[s] \in Int /\ \A x \in s : g[s] = f[x] + g[s \ {x}]
           Bad == {s \in SUBSET S : ~Good(s)}
<1>1. Bad = {}
  <2> SUFFICES ASSUME Bad # {} PROVE FALSE
    OBVIOUS
  <2>1. PICK s \in Bad : \A u \in Bad : ~(u \subseteq s /\ u # s)
    <3>1. Bad \in SUBSET (SUBSET S)
      OBVIOUS
    <3> HIDE DEF Bad
    <3> QED
      BY <3>1, SmallestSet
  <2>2. s \in SUBSET S /\ ~Good(s)
    BY <2>1
  <2>3. ASSUME NEW u, u \subseteq s, u # s PROVE Good(u)
    BY <2>1, <2>2, <2>3
  <2>4. g[s] = IF s = {} THEN 0 ELSE f[Chosen(s)] + g[s \ {Chosen(s)}]
    BY <2>2 DEF Summing
  <2>5. s # {}
    BY <2>2, <2>4
  <2> DEFINE c == Chosen(s)
  <2>6. c \in s
    BY <2>5 DEF Chosen
  <2>7. g[s] = f[c] + g[s \ {c}]
    BY <2>4, <2>5
  <2> HIDE DEF c
  <2>8. g[s \ {c}] \in Int /\ f[c] \in Int
    BY <2>2, <2>3, <2>6
  <2>9. ASSUME NEW x \in s PROVE g[s] = f[x] + g[s \ {x}]
    <3>1. CASE x = c
      BY <2>7, <3>1
    <3>2. CASE x # c
      <4>1. x \in s \ {c} /\ c \in s \ {x}
        BY <2>6, <3>2
      <4>2. Good(s \ {c}) /\ Good(s \ {x}) /\ Good((s \ {c}) \ {x})
        BY <2>3, <2>6
      <4>3. g[s \ {c}] = f[x] + g[(s \ {c}) \ {x}]
        BY <4>1, <4>2
      <4>4. g[s \ {x}] = f[c] + g[(s \ {x}) \ {c}]
        BY <4>1, <4>2
      <4>5. (s \ {x}) \ {c} = (s \ {c}) \ {x}
        OBVIOUS
      <4>6. g[(s \ {c}) \ {x}] \in Int /\ f[x] \in Int
        BY <2>2, <4>2
      <4>7. g[s] = f[c] + (f[x] + g[(s \ {c}) \ {x}])
        BY <2>7, <4>3
      <4>8. g[s \ {x}] = f[c] + g[(s \ {c}) \ {x}]
        BY <4>4, <4>5
      <4> HIDE DEF Good
      <4> QED
        BY <2>8, <4>6, <4>7, <4>8
    <3> QED
      BY <3>1, <3>2
  <2>10. g[s] \in Int
    BY <2>7, <2>8
  <2> QED
    BY <2>2, <2>9, <2>10
<1> QED
  BY <1>1

\* Two sums agree on a set where what they add does.
LEMMA SummingAgrees ==
  ASSUME NEW S, IsFiniteSet(S), NEW T, NEW f, NEW e, NEW g, NEW h,
         Summing(g, f, S), Summing(h, e, T), NEW r, r \subseteq S, r \subseteq T, \A x \in r : f[x] = e[x]
  PROVE  g[r] = h[r]
<1> DEFINE Bad == {s \in SUBSET r : g[s] # h[s]}
<1>1. Bad = {}
  <2> SUFFICES ASSUME Bad # {} PROVE FALSE
    OBVIOUS
  <2>1. PICK s \in Bad : \A u \in Bad : ~(u \subseteq s /\ u # s)
    <3>1. Bad \in SUBSET (SUBSET S)
      OBVIOUS
    <3> HIDE DEF Bad
    <3> QED
      BY <3>1, SmallestSet
  <2>2. /\ g[s] = IF s = {} THEN 0 ELSE f[Chosen(s)] + g[s \ {Chosen(s)}]
        /\ h[s] = IF s = {} THEN 0 ELSE e[Chosen(s)] + h[s \ {Chosen(s)}]
    BY <2>1 DEF Summing
  <2> DEFINE c == Chosen(s)
  <2>3. s # {}
    BY <2>1, <2>2
  <2>4. c \in s
    BY <2>3 DEF Chosen
  <2>5. g[s] = f[c] + g[s \ {c}] /\ h[s] = e[c] + h[s \ {c}]
    BY <2>2, <2>3
  <2> HIDE DEF c
  <2>6. f[c] = e[c]
    BY <2>1, <2>4
  <2>7. g[s \ {c}] = h[s \ {c}]
    <3>1. s \ {c} \in SUBSET r /\ s \ {c} \subseteq s /\ s \ {c} # s
      BY <2>1, <2>4
    <3> QED
      BY <2>1, <3>1
  <2> QED
    BY <2>1, <2>5, <2>6, <2>7
<1> QED
  BY <1>1

\* The sum of no elements is 0, and the order of the others does not matter.
LEMMA SumOfNone == ASSUME NEW f PROVE SumFunctionOnSet(f, {}) = 0
<1>1. IsFiniteSet({})
  BY FS_EmptySet
<1>2. PICK g : Summing(g, f, {}) /\ SumFunctionOnSet(f, {}) = g[{}]
  BY <1>1, SumIs
<1> QED
  BY <1>2 DEF Summing

\* A sum of integers is an integer, and any of its elements can be taken off.
LEMMA SumTakes ==
  ASSUME NEW S, IsFiniteSet(S), NEW f, \A x \in S : f[x] \in Int
  PROVE  /\ SumFunctionOnSet(f, S) \in Int
         /\ \A x \in S : SumFunctionOnSet(f, S) = f[x] + SumFunctionOnSet(f, S \ {x})
<1>1. PICK g : Summing(g, f, S) /\ SumFunctionOnSet(f, S) = g[S]
  BY SumIs
<1>2. g[S] \in Int /\ \A x \in S : g[S] = f[x] + g[S \ {x}]
  BY <1>1, SummingTakes
<1>3. ASSUME NEW x \in S PROVE SumFunctionOnSet(f, S) = f[x] + SumFunctionOnSet(f, S \ {x})
  <2>1. IsFiniteSet(S \ {x})
    BY FS_Subset
  <2>2. PICK h : Summing(h, f, S \ {x}) /\ SumFunctionOnSet(f, S \ {x}) = h[S \ {x}]
    BY <2>1, SumIs
  <2>3. g[S \ {x}] = h[S \ {x}]
    <3> DEFINE T == S \ {x}
    <3>1. T \subseteq S /\ T \subseteq T
      OBVIOUS
    <3>2. Summing(h, f, T)
      BY <2>2
    <3> HIDE DEF T
    <3>3. g[T] = h[T]
      BY <1>1, <3>1, <3>2, SummingAgrees
    <3> QED
      BY <3>3 DEF T
  <2> QED
    BY <1>1, <1>2, <2>2, <2>3
<1> QED
  BY <1>1, <1>2, <1>3

\* A sum is that of the values added.
LEMMA SumAgrees ==
  ASSUME NEW S, IsFiniteSet(S), NEW f, NEW e, \A x \in S : f[x] = e[x]
  PROVE  SumFunctionOnSet(f, S) = SumFunctionOnSet(e, S)
<1>1. PICK g : Summing(g, f, S) /\ SumFunctionOnSet(f, S) = g[S]
  BY SumIs
<1>2. PICK h : Summing(h, e, S) /\ SumFunctionOnSet(e, S) = h[S]
  BY SumIs
<1>3. g[S] = h[S]
  BY <1>1, <1>2, SummingAgrees
<1> QED
  BY <1>1, <1>2, <1>3

\* One more element adds its value.
LEMMA SumAdds ==
  ASSUME NEW S, IsFiniteSet(S), NEW f, NEW x, x \notin S, f[x] \in Int, \A y \in S : f[y] \in Int
  PROVE  /\ SumFunctionOnSet(f, S) \in Int
         /\ SumFunctionOnSet(f, S \cup {x}) = SumFunctionOnSet(f, S) + f[x]
<1> DEFINE T == S \cup {x}
<1>1. IsFiniteSet(T) /\ x \in T /\ T \ {x} = S /\ \A y \in T : f[y] \in Int
  BY FS_AddElement
<1> HIDE DEF T
<1>2. SumFunctionOnSet(f, T) = f[x] + SumFunctionOnSet(f, T \ {x})
  BY <1>1, SumTakes
<1>3. SumFunctionOnSet(f, S) \in Int
  BY SumTakes
<1> DEFINE a == SumFunctionOnSet(f, S)
<1>4. SumFunctionOnSet(f, T) = f[x] + a
  BY <1>1, <1>2
<1>5. a \in Int /\ f[x] \in Int
  BY <1>3
<1> HIDE DEF a
<1>6. SumFunctionOnSet(f, T) = a + f[x]
  BY <1>4, <1>5
<1> QED
  BY <1>5, <1>6 DEF T, a

\* When one value changes the sum changes with it.
LEMMA SumChanges ==
  ASSUME NEW S, IsFiniteSet(S), NEW f, NEW e, NEW x \in S, e[x] \in Int,
         \A y \in S : f[y] \in Int, \A y \in S \ {x} : e[y] = f[y]
  PROVE  SumFunctionOnSet(e, S) = SumFunctionOnSet(f, S) + (e[x] - f[x])
<1> DEFINE T == S \ {x}
<1>1. IsFiniteSet(T) /\ \A y \in T : e[y] = f[y]
  BY FS_Subset
<1>2. \A y \in S : e[y] \in Int
  OBVIOUS
<1>3. SumFunctionOnSet(f, S) = f[x] + SumFunctionOnSet(f, S \ {x})
  BY SumTakes
<1>4. SumFunctionOnSet(e, S) = e[x] + SumFunctionOnSet(e, S \ {x})
  BY <1>2, SumTakes
<1>5. \A y \in T : f[y] \in Int
  OBVIOUS
<1> HIDE DEF T
<1>6. SumFunctionOnSet(e, T) = SumFunctionOnSet(f, T)
  BY <1>1, SumAgrees
<1>7. SumFunctionOnSet(f, T) \in Int
  BY <1>1, <1>5, SumTakes
<1>8. f[x] \in Int
  OBVIOUS
<1> DEFINE a == SumFunctionOnSet(f, T)
<1>9. SumFunctionOnSet(f, S) = f[x] + a /\ SumFunctionOnSet(e, S) = e[x] + a
  BY <1>3, <1>4, <1>6 DEF T
<1> HIDE DEF a
<1>10. a \in Int
  BY <1>7 DEF a
<1> QED
  BY <1>8, <1>9, <1>10

-----------------------------------------------------------------------------
\* The lines of the file, the calls made for them and the accounts stored.

\* The lines that main has read.
AccountsRead == {d \in LinesOf("account") : d <= lineNo}
TransfersRead == {k \in LinesOf("transfer") : k <= lineNo}

\* The account that is being added is that of the line read last.
AddInv ==
  adding # NoAccount =>
    /\ lineNo \in LinesOf("account")
    /\ adding.number = file[lineNo].number /\ adding.balance = file[lineNo].balance

\* The slots are those of the account lines, in their order; one that nothing was
\* stored in is still zeroed.
SlotsInv ==
  /\ size = Cardinality(AccountsRead)
  /\ \A i \in 1 .. size : \E d \in AccountsRead : SlotOfLine(d) = i
  /\ \A d \in Stored : number[SlotOfLine(d)] = file[d].number
  /\ \A i \in Slots : number[i] = 0 => balance[i] = 0

\* A teller's pointers are to the slots of the accounts that its transfer names.
PointerLines ==
  \A t \in Tellers : pc[t] \in Reaching =>
    /\ \E d \in Stored : Declares(d, txn[t].from) /\ fromAcc[t] = SlotOfLine(d)
    /\ \/ toAcc[t] = NULL
       \/ \E d \in Stored : Declares(d, txn[t].to) /\ toAcc[t] = SlotOfLine(d)

\* "END" comes last, a teller exits when its ring is empty, and when all are joined
\* the table is the one printed.
Workers == 0 .. workerCount - 1
EndInv ==
  /\ ended > 0 => EndOfFile /\ adding = NoAccount
  /\ \A t \in Tellers : \A i \in DOMAIN rings[t] :
       rings[t][i] = EndLine => i = Len(rings[t]) /\ t \in 0 .. ended - 1
  /\ \A t \in Tellers : pc[t] = "exited" => rings[t] = <<>> /\ t \in 0 .. ended - 1
  /\ \A t \in 0 .. joined - 1 : pc[t] = "exited"
  /\ \A t \in Tellers : t \notin Workers => rings[t] = <<>> /\ pc[t] = "idle"
  /\ Done => printed = Table

\* On files with a meaning no pointer is NULL or dead.
WildInv ==
  /\ capacity >= InitCapacity
  /\ Declared /\ (AccountsFirst \/ Fits) =>
       /\ fault = "none"
       /\ \A t \in Tellers : pc[t] \in Reaching => toAcc[t] # NULL /\ seenIn[t] = allocation

\* Where the transfers are that main has handed out: to which teller, and at which
\* place of its ring, with the teller (0) or done (-1).
InCall(t) == pc[t] \notin {"idle", "exited"}
TransferOf(k) == [from |-> file[k].from, to |-> file[k].to, value |-> file[k].value]

Handed(to, at) ==
  /\ to \in [TransfersRead -> Workers] /\ at \in [TransfersRead -> Nat \cup {-1}]
  /\ \A k \in TransfersRead :
       /\ at[k] > 0 => at[k] \in DOMAIN rings[to[k]] /\ rings[to[k]][at[k]] = file[k]
       /\ at[k] = 0 => InCall(to[k]) /\ txn[to[k]] = TransferOf(k)
       /\ at[k] = -1 => file[k].from # file[k].to
  /\ \A k, l \in TransfersRead : to[k] = to[l] /\ at[k] = at[l] /\ at[k] >= 0 => k = l
  /\ \A t \in Tellers :
       /\ InCall(t) => \E k \in TransfersRead : to[k] = t /\ at[k] = 0
       /\ \A i \in DOMAIN rings[t] : rings[t][i] # EndLine =>
            \E k \in TransfersRead : to[k] = t /\ at[k] = i

\* The transfers whose value has been credited, and debited.
Debited == {"finish", "postFrom", "postTo", "postBank"}
Credited == Debited \cup {"loadFrom", "storeFrom"}
Past(places, to, at) ==
  {k \in TransfersRead : at[k] = -1 \/ (at[k] = 0 /\ pc[to[k]] \in places)}

\* Each balance is what those transfers make of the account's first one.
Value == [k \in LinesOf("transfer") |-> file[k].value]
Credits(d, to, at) == {k \in Past(Credited, to, at) : Declares(d, file[k].to)}
Debits(d, to, at) == {k \in Past(Debited, to, at) : Declares(d, file[k].from)}
Applied(to, at) ==
  /\ \A k \in Past(Credited, to, at) : \E d \in Stored : Declares(d, file[k].to)
  /\ \A k \in Past(Debited, to, at) : \E d \in Stored : Declares(d, file[k].from)
  /\ \A d \in Stored :
       balance[SlotOfLine(d)] =
         file[d].balance + SumFunctionOnSet(Value, Credits(d, to, at))
                         - SumFunctionOnSet(Value, Debits(d, to, at))

\* A transfer that is about to give the second account back has had both, and so
\* they differ.
DistinctInv ==
  \A t \in Tellers : pc[t] \in {"postTo", "postBank"} => txn[t].from # txn[t].to

LinesInv == AddInv /\ SlotsInv /\ PointerLines /\ EndInv /\ WildInv /\ DistinctInv

-----------------------------------------------------------------------------
\* What the lines of the file are.
LEMMA FileTypes ==
  ASSUME TypeOK
  PROVE  /\ Len(file) \in Nat /\ lineNo \in 0 .. Len(file) /\ workerCount \in Nat \ {0}
         /\ Workers \subseteq Tellers
         /\ \A d \in LinesOf("account") : d \in 1 .. Len(file) /\ file[d].number \in Numbers /\ file[d].balance \in Int
         /\ \A k \in LinesOf("transfer") :
              /\ k \in 1 .. Len(file) /\ file[k] \in TransferLines /\ file[k] # EndLine
              /\ file[k].from \in Numbers /\ file[k].to \in Numbers /\ file[k].value \in Int
              /\ TransferOf(k) \in Transfers
<1>1. /\ file \in Seq(AccountLines \cup TransferLines) /\ workerCount \in Nat \ {0}
      /\ 0 .. workerCount - 1 \subseteq Tellers /\ lineNo \in 0 .. Len(file)
  BY EftAssumption DEF TypeOK
<1>2. \A k \in 1 .. Len(file) : file[k] \in AccountLines \cup TransferLines
  BY <1>1, ElementOfSeq
<1>3. \A l \in AccountLines : l.kind = "account" /\ l.number \in Numbers /\ l.balance \in Int
  BY DEF AccountLines
<1>4. \A l \in TransferLines : l.kind = "transfer" /\ l.from \in Numbers /\ l.to \in Numbers /\ l.value \in Int
  BY DEF TransferLines
<1>5. EndLine.kind = "end"
  BY DEF EndLine
<1>6. Len(file) \in Nat
  BY <1>1, LenProperties
<1>7. ASSUME NEW k \in LinesOf("transfer")
      PROVE  /\ k \in 1 .. Len(file) /\ file[k] \in TransferLines /\ file[k] # EndLine
             /\ file[k].from \in Numbers /\ file[k].to \in Numbers /\ file[k].value \in Int
             /\ TransferOf(k) \in Transfers
  <2>1. k \in 1 .. Len(file) /\ file[k].kind = "transfer"
    BY <1>7 DEF LinesOf
  <2>2. file[k] \in TransferLines
    BY <1>2, <1>3, <2>1
  <2>3. file[k].from \in Numbers /\ file[k].to \in Numbers /\ file[k].value \in Int
    BY <1>4, <2>2
  <2>4. TransferOf(k) \in Transfers
    BY <2>3 DEF TransferOf, Transfers
  <2> QED
    BY <1>5, <2>1, <2>2, <2>3, <2>4
<1>8. ASSUME NEW d \in LinesOf("account")
      PROVE  d \in 1 .. Len(file) /\ file[d].number \in Numbers /\ file[d].balance \in Int
  <2>1. d \in 1 .. Len(file) /\ file[d].kind = "account"
    BY <1>8 DEF LinesOf
  <2>2. file[d] \in AccountLines
    BY <1>2, <1>4, <2>1
  <2> QED
    BY <1>3, <2>1, <2>2
<1> QED
  BY <1>1, <1>6, <1>7, <1>8 DEF Workers

\* The account lines have slots in their order.
LEMMA SlotsOrdered ==
  ASSUME TypeOK
  PROVE  /\ IsFiniteSet(LinesOf("account")) /\ IsFiniteSet(LinesOf("transfer"))
         /\ \A d \in LinesOf("account") : SlotOfLine(d) \in Nat /\ SlotOfLine(d) > 0
         /\ \A d, e \in LinesOf("account") : d < e => SlotOfLine(d) < SlotOfLine(e)
         /\ \A d, e \in LinesOf("account") : SlotOfLine(d) = SlotOfLine(e) => d = e
<1> DEFINE UpTo(d) == {e \in LinesOf("account") : e <= d}
<1>0. Len(file) \in Nat /\ \A d \in LinesOf("account") : d \in 1 .. Len(file)
  BY FileTypes
<1>1. IsFiniteSet(LinesOf("account")) /\ IsFiniteSet(LinesOf("transfer"))
  <2>1. IsFiniteSet(1 .. Len(file))
    BY <1>0, FS_Interval
  <2> QED
    BY <2>1, FS_Subset DEF LinesOf
<1>2. \A d : IsFiniteSet(UpTo(d)) /\ SlotOfLine(d) = Cardinality(UpTo(d)) /\ SlotOfLine(d) \in Nat
  <2> SUFFICES ASSUME NEW d
               PROVE  IsFiniteSet(UpTo(d)) /\ SlotOfLine(d) = Cardinality(UpTo(d)) /\ SlotOfLine(d) \in Nat
    OBVIOUS
  <2>1. IsFiniteSet(UpTo(d))
    BY <1>1, FS_Subset
  <2>2. SlotOfLine(d) = Cardinality(UpTo(d))
    BY DEF SlotOfLine
  <2> QED
    BY <2>1, <2>2, FS_CardinalityType
<1>3. ASSUME NEW d \in LinesOf("account") PROVE SlotOfLine(d) > 0
  <2>1. d \in UpTo(d)
    BY <1>0
  <2> HIDE DEF UpTo
  <2>2. Cardinality(UpTo(d)) # 0
    BY <1>2, <2>1, FS_EmptySet
  <2> QED
    BY <1>2, <2>2
<1>4. ASSUME NEW d \in LinesOf("account"), NEW e \in LinesOf("account"), d < e
      PROVE  SlotOfLine(d) < SlotOfLine(e)
  <2>1. UpTo(d) \in SUBSET UpTo(e) /\ UpTo(d) # UpTo(e)
    <3>1. d \in Int /\ e \in Int /\ \A x \in LinesOf("account") : x \in Int
      BY <1>0
    <3>2. e \in UpTo(e) /\ e \notin UpTo(d)
      BY <1>4, <3>1
    <3>3. \A x \in LinesOf("account") : x <= d => x <= e
      BY <1>4, <3>1
    <3>4. UpTo(d) \in SUBSET UpTo(e)
      BY <3>3
    <3> QED
      BY <3>2, <3>4
  <2> HIDE DEF UpTo
  <2>2. Cardinality(UpTo(d)) <= Cardinality(UpTo(e)) /\ Cardinality(UpTo(d)) # Cardinality(UpTo(e))
    BY <1>2, <2>1, FS_Subset
  <2> QED
    BY <1>2, <2>2
<1>5. ASSUME NEW d \in LinesOf("account"), NEW e \in LinesOf("account"), SlotOfLine(d) = SlotOfLine(e)
      PROVE  d = e
  <2>1. d \in Int /\ e \in Int
    BY <1>0
  <2> DEFINE s == SlotOfLine(d)
  <2>2. s \in Nat /\ SlotOfLine(e) = s
    BY <1>2, <1>5
  <2>3. (d < e => s < s) /\ (e < d => s < s)
    BY <1>4, <2>2
  <2> HIDE DEF s
  <2>4. ~(s < s)
    BY <2>2
  <2> QED
    BY <2>1, <2>3, <2>4
<1> QED
  BY <1>1, <1>2, <1>3, <1>4, <1>5

\* The slots of the lines that have been read.
LEMMA SlotsRead ==
  ASSUME TypeOK
  PROVE  /\ IsFiniteSet(AccountsRead) /\ Cardinality(AccountsRead) \in Nat
         /\ Cardinality(AccountsRead) <= Cardinality(LinesOf("account"))
         /\ \A d \in AccountsRead : SlotOfLine(d) \in 1 .. Cardinality(AccountsRead)
         /\ lineNo \in LinesOf("account") =>
              lineNo \in AccountsRead /\ SlotOfLine(lineNo) = Cardinality(AccountsRead)
<1>1. IsFiniteSet(AccountsRead) /\ Cardinality(AccountsRead) <= Cardinality(LinesOf("account"))
  BY SlotsOrdered, FS_Subset DEF AccountsRead
<1>2. Cardinality(AccountsRead) \in Nat
  BY <1>1, FS_CardinalityType
<1>3. /\ \A d \in LinesOf("account") : d \in Int
      /\ lineNo \in Int
  BY FileTypes
<1>4. ASSUME NEW d \in AccountsRead PROVE SlotOfLine(d) \in 1 .. Cardinality(AccountsRead)
  <2> DEFINE U == {e \in LinesOf("account") : e <= d}
  <2>1. U \in SUBSET AccountsRead
    <3>1. d \in LinesOf("account") /\ d <= lineNo
      BY <1>4 DEF AccountsRead
    <3>2. \A e \in LinesOf("account") : e <= d => e <= lineNo
      BY <1>3, <3>1
    <3> QED
      BY <3>2 DEF AccountsRead
  <2>2. SlotOfLine(d) = Cardinality(U)
    BY DEF SlotOfLine
  <2> HIDE DEF U
  <2>3. Cardinality(U) <= Cardinality(AccountsRead)
    BY <1>1, <2>1, FS_Subset
  <2>4. SlotOfLine(d) \in Nat /\ SlotOfLine(d) > 0
    BY SlotsOrdered DEF AccountsRead
  <2> QED
    BY <1>2, <2>2, <2>3, <2>4
<1>5. ASSUME lineNo \in LinesOf("account")
      PROVE  lineNo \in AccountsRead /\ SlotOfLine(lineNo) = Cardinality(AccountsRead)
  BY <1>3, <1>5 DEF AccountsRead, SlotOfLine
<1> QED
  BY <1>1, <1>2, <1>4, <1>5

\* One line declares a number.
LEMMA DeclaresOne ==
  ASSUME TypeOK, NEW d, NEW e, NEW n, Declares(d, n), Declares(e, n)
  PROVE  d = e
<1>1. d \in LinesOf("account") /\ e \in LinesOf("account") /\ file[d].number = n /\ file[e].number = n
  BY DEF Declares
<1>2. d \in 1 .. Len(file) /\ e \in 1 .. Len(file) /\ Len(file) \in Nat
  BY <1>1, FileTypes
<1>3. ~(d \in 1 .. e - 1) /\ ~(e \in 1 .. d - 1)
  BY <1>1 DEF Declares
<1> QED
  BY <1>2, <1>3

\* The lines of the accounts that have been stored.
LEMMA StoredIs ==
  ASSUME TypeOK, BankInv, LinesInv
  PROVE  /\ Stored \subseteq AccountsRead /\ AccountsRead \subseteq LinesOf("account")
         /\ adding = NoAccount => Stored = AccountsRead
         /\ adding # NoAccount =>
              /\ lineNo \in AccountsRead /\ Stored = AccountsRead \ {lineNo} /\ SlotOfLine(lineNo) = size
              /\ adding.id = size /\ number[size] = 0
         /\ \A d \in Stored : SlotOfLine(d) \in 1 .. size
         /\ size \in Nat /\ 1 .. size \subseteq Slots
<1>1. Stored \subseteq AccountsRead /\ AccountsRead \subseteq LinesOf("account")
  BY DEF Stored, AccountsRead
<1>2. adding = NoAccount => Stored = AccountsRead
  BY DEF Stored, AccountsRead
<1>3. adding # NoAccount => lineNo \in LinesOf("account") /\ Stored = AccountsRead \ {lineNo}
  BY DEF LinesInv, AddInv, Stored, AccountsRead
<1>4. size = Cardinality(AccountsRead)
  BY DEF LinesInv, SlotsInv
<1>5. size \in Nat /\ 1 .. size \subseteq Slots
  BY BankAssumption DEF BankInv, BankTypeOK, Slots
<1>6. adding # NoAccount => adding.id = size /\ number[size] = 0
  BY DEF BankInv, TableInv
<1> QED
  BY <1>1, <1>2, <1>3, <1>4, <1>5, <1>6, SlotsRead

\* The scan of the table finds the account that the file declares, if it is stored.
LEMMA LookupLine ==
  ASSUME TypeOK, BankInv, LinesInv, NEW n \in Numbers
  PROVE  /\ Lookup(n) # NULL => \E d \in Stored : Declares(d, n) /\ Lookup(n) = SlotOfLine(d)
         /\ (\E d \in Stored : file[d].number = n) => Lookup(n) # NULL
<1>1. size \in Nat /\ n # 0
  BY StoredIs, BankAssumption
<1>2. ASSUME Lookup(n) # NULL
      PROVE  \E d \in Stored : Declares(d, n) /\ Lookup(n) = SlotOfLine(d)
  <2> DEFINE i == Lookup(n)
  <2>1. i \in 1 .. size /\ number[i] = n
    BY <1>1, <1>2, LookupFinds
  <2>2. \A j \in 1 .. size : number[j] = n => i <= j
    <3>1. Matches(n) # {} /\ Matches(n) \subseteq Nat
      BY <2>1 DEF Matches
    <3>2. \E m \in Matches(n) : \A j \in Matches(n) : m <= j
      BY <3>1, LeastElement
    <3>3. \A j \in Matches(n) : i <= j
      BY <3>1, <3>2 DEF Lookup
    <3> QED
      BY <3>3 DEF Matches
  <2> HIDE DEF i
  <2>3. PICK d \in AccountsRead : SlotOfLine(d) = i
    BY <2>1 DEF LinesInv, SlotsInv
  <2>4. d \in Stored
    <3>1. adding # NoAccount /\ d = lineNo => number[i] = 0
      BY <2>3, StoredIs
    <3> QED
      BY <1>1, <2>1, <3>1, StoredIs
  <2>5. file[d].number = n
    BY <2>1, <2>3, <2>4 DEF LinesInv, SlotsInv
  <2>6. ASSUME NEW e \in 1 .. d - 1, e \in LinesOf("account")
        PROVE  file[e].number # n
    <3> SUFFICES ASSUME file[e].number = n PROVE FALSE
      OBVIOUS
    <3>1. d \in Int /\ e \in Int /\ e < d /\ d <= lineNo /\ lineNo \in Int /\ d \in LinesOf("account")
      BY <2>3, FileTypes DEF AccountsRead
    <3>2. e \in Stored
      BY <2>6, <3>1 DEF Stored
    <3>3. number[SlotOfLine(e)] = n /\ SlotOfLine(e) \in 1 .. size
      BY <3>2, StoredIs DEF LinesInv, SlotsInv
    <3>4. i <= SlotOfLine(e)
      BY <2>2, <3>3
    <3>5. SlotOfLine(e) < i
      BY <2>3, <2>6, <3>1, SlotsOrdered
    <3> QED
      BY <2>1, <3>3, <3>4, <3>5
  <2>7. Declares(d, n)
    BY <2>3, <2>5, <2>6 DEF Declares, AccountsRead
  <2> QED
    BY <2>3, <2>4, <2>7 DEF i
<1>3. ASSUME NEW d \in Stored, file[d].number = n
      PROVE  Lookup(n) # NULL
  <2>1. SlotOfLine(d) \in Matches(n)
    BY <1>3, StoredIs DEF Matches, LinesInv, SlotsInv
  <2>2. Matches(n) \subseteq Nat
    BY DEF Matches
  <2>3. \E m \in Matches(n) : \A j \in Matches(n) : m <= j
    BY <2>1, <2>2, LeastElement
  <2>4. Lookup(n) \in Matches(n)
    BY <2>1, <2>3 DEF Lookup
  <2> QED
    BY <2>4 DEF Matches, NULL
<1> QED
  BY <1>2, <1>3

\* Where a teller has taken both accounts of its transfer.
Taken == {"release", "loadTo", "storeTo", "loadFrom", "storeFrom"} \cup Debited

MovesTo(t, place) == pc' = [pc EXCEPT ![t] = place]

\* A step of transaction that changes no balance, pointer or fault.
Quiet(t) ==
  /\ UNCHANGED <<balance, fromAcc, toAcc, seenIn, fault>>
  /\ pc[t] \in Reaching
  /\ \E place \in Reaching \cup {"postBank"} :
       /\ MovesTo(t, place)
       /\ place \in Credited <=> pc[t] \in Credited
       /\ place \in Debited <=> pc[t] \in Debited
       /\ place \in {"postTo", "postBank"} => pc[t] \in Taken

\* Undefined behaviour changes nothing else.
Fault(t) ==
  /\ UNCHANGED <<balance, fromAcc, toAcc, seenIn, pc>>
  /\ NullDereference(t) \/ ScanUnwritten(t) \/ UseAfterFree(t)

\* What the steps inside transaction do.
LEMMA TransactEffects ==
  ASSUME TypeOK, NEW t \in Tellers, Step(t)
  PROVE  /\ UNCHANGED <<size, capacity, allocation, number, adding, txn>>
         /\ fault = "none"
         /\ \/ LockBank(t) \/ StoreTo(t) \/ StoreFrom(t) \/ PostBank(t)
            \/ Quiet(t) \/ Fault(t)
<1> USE DEF tableVars, accountVars, pointerVars, callVars, At, GoTo, MovesTo
<1>1. CASE LockBank(t)
  BY <1>1 DEF LockBank
<1>2. CASE StoreTo(t)
  BY <1>2 DEF StoreTo
<1>3. CASE StoreFrom(t)
  BY <1>3 DEF StoreFrom
<1>4. CASE PostBank(t)
  BY <1>4 DEF PostBank
<1>5. CASE NullDereference(t) \/ ScanUnwritten(t) \/ UseAfterFree(t)
  BY <1>5 DEF NullDereference, ScanUnwritten, UseAfterFree, Fails, Fault
<1>6. ASSUME NEW p \in Reaching, NEW q \in Reaching \cup {"postBank"},
             pc[t] = p, MovesTo(t, q), UNCHANGED <<balance, fromAcc, toAcc, seenIn, fault>>,
             <<p, q>> \in {<<"unlock", "await">>, <<"await", "pass">>, <<"pass", "relock">>,
                           <<"relock", "unlock">>, <<"relock", "takeTo">>, <<"takeTo", "takeFrom">>,
                           <<"takeFrom", "release">>, <<"release", "loadTo">>, <<"loadTo", "storeTo">>,
                           <<"loadFrom", "storeFrom">>, <<"finish", "postFrom">>, <<"postFrom", "postTo">>,
                           <<"postTo", "postBank">>}
      PROVE  Quiet(t)
  <2>1. /\ q \in Credited <=> p \in Credited
        /\ q \in Debited <=> p \in Debited
        /\ q \in {"postTo", "postBank"} => p \in Taken
    BY <1>6 DEF Credited, Debited, Taken
  <2> QED
    BY <1>6, <2>1 DEF Quiet
<1>7. /\ {"unlock", "await", "pass", "relock", "takeTo", "takeFrom", "release", "loadTo", "storeTo",
          "loadFrom", "storeFrom", "finish", "postFrom", "postTo"} \subseteq Reaching
  BY DEF Reaching, Places
<1>8. CASE Unlock(t) \/ Await(t) \/ Pass(t)
  BY <1>6, <1>7, <1>8 DEF Unlock, Await, Pass
<1>9. CASE RelockAfterFrom(t) \/ RelockAfterTo(t)
  BY <1>6, <1>7, <1>9 DEF RelockAfterFrom, RelockAfterTo, TestBoth, WaitFor
<1>10. CASE TakeTo(t) \/ TakeFrom(t) \/ Release(t)
  BY <1>6, <1>7, <1>10 DEF TakeTo, TakeFrom, Release
<1>11. CASE LoadTo(t) \/ LoadFrom(t)
  BY <1>6, <1>7, <1>11 DEF LoadTo, LoadFrom
<1>12. CASE Finish(t) \/ PostFrom(t) \/ PostTo(t)
  BY <1>6, <1>7, <1>12 DEF Finish, PostFrom, PostTo
<1> QED
  BY <1>1, <1>2, <1>3, <1>4, <1>5, <1>8, <1>9, <1>10, <1>11, <1>12 DEF Step

\* The file's lines keep their meaning, and main its place, while it does nothing.
LEMMA FileFixed ==
  ASSUME file' = file
  PROVE  /\ \A kind : LinesOf(kind)' = LinesOf(kind)
         /\ \A d, n : Declares(d, n)' = Declares(d, n)
         /\ \A d : SlotOfLine(d)' = SlotOfLine(d)
         /\ \A k : TransferOf(k)' = TransferOf(k)
         /\ Value' = Value
  BY DEF LinesOf, Declares, SlotOfLine, TransferOf, Value

\* The lines and the command line stay what they are.
LEMMA FileStays ==
  ASSUME Next
  PROVE  file' = file /\ workerCount' = workerCount
  BY DEF Next, MainStep, ReadAccount, InsertAccount, Dispatch, SendEnd, Join, TellerStep, Receive,
         ReceiveEnd, Transact, mainVars

\* After an account line has been read its account is not stored yet.
LEMMA ReadLines ==
  ASSUME TypeOK, ReadAccount
  PROVE  /\ lineNo + 1 \in LinesOf("account") /\ lineNo + 1 \notin AccountsRead
         /\ AccountsRead' = AccountsRead \cup {lineNo + 1}
         /\ TransfersRead' = TransfersRead /\ Stored' = Stored /\ Stored = AccountsRead
         /\ adding' # NoAccount
<1> DEFINE n == lineNo + 1
<1>0. /\ Len(file) \in Nat /\ lineNo \in 0 .. Len(file) /\ lineNo \in Int
      /\ \A d \in LinesOf("account") \cup LinesOf("transfer") : d \in Int
      /\ LinesOf("account") \cap LinesOf("transfer") = {}
  BY FileTypes DEF LinesOf
<1>1. file' = file
  BY DEF ReadAccount
<1>2. \A kind : LinesOf(kind)' = LinesOf(kind)
  BY <1>1, FileFixed
<1>3. lineNo' = n /\ adding = NoAccount /\ adding'.id = size + 1
  BY DEF ReadAccount, ReserveSlot
<1>4. n \in LinesOf("account")
  BY <1>0 DEF ReadAccount, EndOfFile, Line, LinesOf
<1>5. adding' # NoAccount
  BY <1>3 DEF NoAccount, TypeOK, BankTypeOK
<1>6. \A d \in LinesOf("account") \cup LinesOf("transfer") : d <= n <=> d <= lineNo \/ d = n
  BY <1>0
<1>7. AccountsRead' = AccountsRead \cup {n} /\ n \notin AccountsRead
  BY <1>0, <1>2, <1>3, <1>4, <1>6 DEF AccountsRead
<1>8. TransfersRead' = TransfersRead
  BY <1>0, <1>2, <1>3, <1>4, <1>6 DEF TransfersRead
<1>9. Stored' = AccountsRead /\ Stored = AccountsRead
  BY <1>0, <1>2, <1>3, <1>4, <1>5, <1>6 DEF Stored, AccountsRead
<1> QED
  BY <1>4, <1>5, <1>7, <1>8, <1>9

\* addAccount returns when it has stored the account of the line read last.
LEMMA StoreLines ==
  ASSUME TypeOK, BankInv, LinesInv, InsertAccount, StoreAccount
  PROVE  /\ lineNo \in LinesOf("account") /\ lineNo \notin Stored /\ adding # NoAccount /\ adding' = NoAccount
         /\ adding.id \in Slots /\ adding.id = SlotOfLine(lineNo)
         /\ adding.number = file[lineNo].number /\ adding.balance = file[lineNo].balance
         /\ number' = [number EXCEPT ![adding.id] = adding.number]
         /\ balance' = [balance EXCEPT ![adding.id] = adding.balance]
         /\ AccountsRead' = AccountsRead /\ TransfersRead' = TransfersRead
         /\ Stored' = Stored \cup {lineNo}
         /\ UNCHANGED mainVars /\ UNCHANGED callVars /\ UNCHANGED <<size, fault, capacity, allocation>>
<1>1. UNCHANGED mainVars /\ file' = file /\ lineNo' = lineNo
  BY DEF InsertAccount, mainVars
<1>2. \A kind : LinesOf(kind)' = LinesOf(kind)
  BY <1>1, FileFixed
<1>3. /\ adding.locked /\ adding' = NoAccount
      /\ number' = [number EXCEPT ![adding.id] = adding.number]
      /\ balance' = [balance EXCEPT ![adding.id] = adding.balance]
      /\ UNCHANGED callVars /\ UNCHANGED <<size, fault, capacity, allocation>>
  BY DEF StoreAccount
<1>4. adding # NoAccount
  BY <1>3 DEF BankInv, TableInv
<1>5. /\ lineNo \in LinesOf("account")
      /\ adding.number = file[lineNo].number /\ adding.balance = file[lineNo].balance
  BY <1>4 DEF LinesInv, AddInv
<1>6. adding.id \in Slots /\ adding.id = SlotOfLine(lineNo)
  <2>1. adding.id = size /\ size > 0
    BY <1>4 DEF BankInv, TableInv
  <2>2. size \in 1 .. size /\ size = SlotOfLine(lineNo) /\ 1 .. size \subseteq Slots
    BY <1>4, <2>1, StoredIs
  <2> QED
    BY <2>1, <2>2
<1>7. AccountsRead' = AccountsRead /\ TransfersRead' = TransfersRead
  BY <1>1, <1>2 DEF AccountsRead, TransfersRead
<1>8. lineNo \notin Stored /\ Stored' = Stored \cup {lineNo}
  <2>1. lineNo \in Int
    BY FileTypes
  <2>2. Stored' = {d \in LinesOf("account") : d <= lineNo}
    BY <1>1, <1>2, <1>3 DEF Stored
  <2>3. Stored = {d \in LinesOf("account") : d <= lineNo /\ d # lineNo}
    BY <1>4 DEF Stored
  <2> QED
    BY <1>5, <2>1, <2>2, <2>3
<1> QED
  BY <1>1, <1>3, <1>4, <1>5, <1>6, <1>7, <1>8

\* A transfer is handed out when its line is read.
LEMMA DispatchLines ==
  ASSUME TypeOK, Dispatch
  PROVE  /\ lineNo + 1 \in LinesOf("transfer") /\ lineNo + 1 \notin TransfersRead
         /\ TransfersRead' = TransfersRead \cup {lineNo + 1}
         /\ AccountsRead' = AccountsRead /\ Stored' = Stored /\ Stored = AccountsRead
         /\ adding = NoAccount /\ UNCHANGED bankVars
<1> DEFINE n == lineNo + 1
<1>0. /\ Len(file) \in Nat /\ lineNo \in 0 .. Len(file) /\ lineNo \in Int
      /\ \A d \in LinesOf("account") \cup LinesOf("transfer") : d \in Int
      /\ LinesOf("account") \cap LinesOf("transfer") = {}
  BY FileTypes DEF LinesOf
<1>1. file' = file /\ lineNo' = n /\ adding = NoAccount /\ UNCHANGED bankVars
  BY DEF Dispatch, MainRuns
<1>2. \A kind : LinesOf(kind)' = LinesOf(kind)
  BY <1>1, FileFixed
<1>3. adding' = adding
  BY <1>1 DEF bankVars
<1>4. n \in LinesOf("transfer")
  BY <1>0 DEF Dispatch, EndOfFile, Line, LinesOf
<1>6. \A d \in LinesOf("account") \cup LinesOf("transfer") : d <= n <=> d <= lineNo \/ d = n
  BY <1>0
<1>7. TransfersRead' = TransfersRead \cup {n} /\ n \notin TransfersRead
  BY <1>0, <1>1, <1>2, <1>4, <1>6 DEF TransfersRead
<1>8. AccountsRead' = AccountsRead
  BY <1>0, <1>1, <1>2, <1>4, <1>6 DEF AccountsRead
<1>9. Stored' = AccountsRead /\ Stored = AccountsRead
  BY <1>0, <1>1, <1>2, <1>3, <1>4, <1>6 DEF Stored, AccountsRead
<1> QED
  BY <1>1, <1>4, <1>7, <1>8, <1>9

\* The other steps read and store nothing.
LEMMA OtherLines ==
  ASSUME file' = file, lineNo' = lineNo, adding' = NoAccount <=> adding = NoAccount
  PROVE  AccountsRead' = AccountsRead /\ TransfersRead' = TransfersRead /\ Stored' = Stored
<1>1. \A kind : LinesOf(kind)' = LinesOf(kind)
  BY FileFixed
<1> QED
  BY <1>1 DEF AccountsRead, TransfersRead, Stored

\* The other steps leave the lines and the table's accounts as they are.
Still ==
  /\ UNCHANGED <<file, workerCount, lineNo, size, number>>
  /\ adding' = NoAccount <=> adding = NoAccount
  /\ adding'.number = adding.number /\ adding'.balance = adding.balance
  /\ \/ balance' = balance
     \/ \E t \in Tellers : StoreTo(t) \/ StoreFrom(t)

\* The steps but the three that read a line or store an account.
LEMMA StillSteps ==
  ASSUME TypeOK, Next, ~ReadAccount, ~(InsertAccount /\ StoreAccount), ~Dispatch
  PROVE  Still
<1>0. file' = file /\ workerCount' = workerCount
  BY FileStays
<1>1. CASE InsertAccount /\ LockForAccount
  <2>1. /\ adding # NoAccount /\ adding' = [adding EXCEPT !.locked = TRUE]
        /\ UNCHANGED <<size, number, balance, lineNo>>
    BY <1>1 DEF InsertAccount, LockForAccount, accountVars, mainVars
  <2>2. adding \in [id : 0 .. MaxAccounts, number : Numbers \cup {0}, balance : Int, locked : BOOLEAN]
    BY DEF TypeOK, BankTypeOK
  <2>3. adding'.number = adding.number /\ adding'.balance = adding.balance /\ adding'.locked = TRUE
    BY <2>1, <2>2
  <2>4. NoAccount.locked = FALSE
    BY DEF NoAccount
  <2>5. adding' # NoAccount
    BY <2>3, <2>4
  <2> QED
    BY <1>0, <2>1, <2>3, <2>5 DEF Still
<1>2. CASE InsertAccount /\ Resize
  BY <1>0, <1>2 DEF InsertAccount, Resize, accountVars, mainVars, Still
<1>3. CASE SendEnd \/ Join
  BY <1>0, <1>3 DEF SendEnd, Join, bankVars, Still
<1>4. ASSUME NEW t \in Tellers, Receive(t) \/ ReceiveEnd(t) PROVE Still
  BY <1>0, <1>4 DEF Receive, ReceiveEnd, Begin, Leave, tableVars, accountVars, Still
<1>5. ASSUME NEW t \in Tellers, Transact(t) PROVE Still
  <2>1. Step(t) /\ lineNo' = lineNo
    BY <1>5 DEF Transact, mainVars
  <2>2. UNCHANGED <<size, number, adding>>
    BY <2>1, TransactEffects
  <2>3. balance' = balance \/ StoreTo(t) \/ StoreFrom(t)
    <3>1. CASE LockBank(t) \/ PostBank(t)
      BY <3>1 DEF LockBank, PostBank, accountVars
    <3> QED
      BY <2>1, <3>1, TransactEffects DEF Quiet, Fault
  <2> QED
    BY <1>0, <2>1, <2>2, <2>3 DEF Still
<1> QED
  BY <1>1, <1>2, <1>3, <1>4, <1>5 DEF Next, MainStep, TellerStep, InsertAccount, AddStep

\* Every step preserves what is known of the account being added.
LEMMA AddNext ==
  ASSUME TypeOK, BankInv, LinesInv, Next
  PROVE  AddInv'
<1>0. file' = file /\ LinesOf("account")' = LinesOf("account")
  BY FileStays, FileFixed
<1>1. CASE ReadAccount
  <2>1. /\ lineNo' = lineNo + 1 /\ lineNo + 1 \in LinesOf("account")
        /\ adding'.number = Line.number /\ adding'.balance = Line.balance
    BY <1>1, ReadLines DEF ReadAccount, ReserveSlot
  <2> QED
    BY <1>0, <2>1 DEF AddInv, Line
<1>2. CASE InsertAccount /\ StoreAccount
  BY <1>2 DEF StoreAccount, AddInv
<1>3. CASE Dispatch
  <2>1. adding' = NoAccount
    BY <1>3, DispatchLines DEF bankVars
  <2> QED
    BY <2>1 DEF AddInv
<1>4. CASE Still
  BY <1>0, <1>4 DEF Still, LinesInv, AddInv
<1> QED
  BY <1>1, <1>2, <1>3, <1>4, StillSteps

\* Every step preserves the slots of the lines.
LEMMA SlotsNext ==
  ASSUME TypeOK, BankInv, LinesInv, Next
  PROVE  SlotsInv'
<1>0. file' = file /\ LinesOf("account")' = LinesOf("account") /\ \A d : SlotOfLine(d)' = SlotOfLine(d)
  BY FileStays, FileFixed
<1>1. /\ size = Cardinality(AccountsRead)
      /\ \A i \in 1 .. size : \E d \in AccountsRead : SlotOfLine(d) = i
      /\ \A d \in Stored : number[SlotOfLine(d)] = file[d].number
      /\ \A i \in Slots : number[i] = 0 => balance[i] = 0
  BY DEF LinesInv, SlotsInv
<1>2. CASE ReadAccount
  <2> DEFINE n == lineNo + 1
  <2>1. size' = size + 1 /\ UNCHANGED <<number, balance>> /\ lineNo' = n
    BY <1>2 DEF ReadAccount, ReserveSlot, accountVars
  <2>2. /\ n \in LinesOf("account") /\ n \notin AccountsRead
        /\ AccountsRead' = AccountsRead \cup {n} /\ Stored' = Stored
    BY <1>2, ReadLines
  <2>3. IsFiniteSet(AccountsRead) /\ size \in Nat
    BY <1>1, SlotsRead
  <2>4. Cardinality(AccountsRead') = size + 1
    BY <1>1, <2>2, <2>3, FS_AddElement
  <2>5. SlotOfLine(n) = size + 1
    <3>1. AccountsRead' = {e \in LinesOf("account") : e <= n}
      BY <1>0, <2>1 DEF AccountsRead
    <3> QED
      BY <2>4, <3>1 DEF SlotOfLine
  <2>6. ASSUME NEW i \in 1 .. size' PROVE \E d \in AccountsRead' : SlotOfLine(d) = i
    <3>1. CASE i = size + 1
      BY <2>2, <2>5, <3>1
    <3>2. CASE i # size + 1
      BY <1>1, <2>1, <2>2, <2>3, <3>2
    <3> QED
      BY <3>1, <3>2
  <2> QED
    BY <1>0, <1>1, <2>1, <2>2, <2>4, <2>6 DEF SlotsInv
<1>3. CASE InsertAccount /\ StoreAccount
  <2> DEFINE s == SlotOfLine(lineNo)
  <2>1. /\ lineNo \in LinesOf("account") /\ s \in Slots /\ lineNo \notin Stored
        /\ number' = [number EXCEPT ![s] = file[lineNo].number]
        /\ balance' = [balance EXCEPT ![s] = file[lineNo].balance]
        /\ AccountsRead' = AccountsRead /\ Stored' = Stored \cup {lineNo} /\ size' = size
    BY <1>3, StoreLines
  <2>2. number \in [Slots -> Numbers \cup {0}] /\ balance \in [Slots -> Int]
    BY DEF TypeOK, BankTypeOK
  <2>3. \A d \in Stored : SlotOfLine(d) # s /\ SlotOfLine(d) \in Slots
    BY <2>1, SlotsOrdered, StoredIs
  <2> HIDE DEF s
  <2>4. \A d \in Stored' : number'[SlotOfLine(d)] = file[d].number
    BY <1>1, <2>1, <2>2, <2>3 DEF s
  <2>5. file[lineNo].number # 0
    BY <2>1, FileTypes, BankAssumption
  <2>6. \A i \in Slots : number'[i] = 0 => balance'[i] = 0
    BY <1>1, <2>1, <2>2, <2>5
  <2> QED
    BY <1>0, <1>1, <2>1, <2>4, <2>6 DEF SlotsInv
<1>4. CASE Dispatch
  BY <1>0, <1>1, <1>4, DispatchLines DEF SlotsInv, bankVars
<1>5. CASE Still
  <2>1. AccountsRead' = AccountsRead /\ Stored' = Stored
    BY <1>5, OtherLines DEF Still
  <2>2. \A i \in Slots : number[i] = 0 => balance'[i] = balance[i]
    <3> SUFFICES ASSUME NEW t \in Tellers, StoreTo(t) \/ StoreFrom(t)
                 PROVE  \A i \in Slots : number[i] = 0 => balance'[i] = balance[i]
      BY <1>5 DEF Still
    <3>1. pc[t] \in {"storeTo", "storeFrom"}
      BY DEF StoreTo, StoreFrom, At
    <3>2. Points(toAcc[t]) /\ Points(fromAcc[t])
      BY <3>1 DEF BankInv, PointerInv, Reaching, Places
    <3>3. balance \in [Slots -> Int]
      BY DEF TypeOK, BankTypeOK
    <3> QED
      BY <3>2, <3>3 DEF StoreTo, StoreFrom, Points
  <2> QED
    BY <1>0, <1>1, <1>5, <2>1, <2>2 DEF SlotsInv, Still
<1> QED
  BY <1>2, <1>3, <1>4, <1>5, StillSteps

\* What a step of a teller leaves to the others.
LEMMA OthersStay ==
  ASSUME TypeOK, NEW t \in Tellers, TellerStep(t), NEW u \in Tellers \ {t}
  PROVE  /\ pc'[u] = pc[u] /\ txn'[u] = txn[u] /\ fromAcc'[u] = fromAcc[u] /\ toAcc'[u] = toAcc[u]
         /\ seenIn'[u] = seenIn[u] /\ rings'[u] = rings[u]
<1>0. BankTypeOK /\ rings \in [Tellers -> Seq(TransferLines \cup {EndLine})]
  BY DEF TypeOK
<1>1. CASE Receive(t) \/ ReceiveEnd(t)
  BY <1>0, <1>1 DEF Receive, ReceiveEnd, Begin, Leave, GoTo, TakeLine, pointerVars, BankTypeOK
<1>2. CASE Transact(t)
  <2>1. Step(t) /\ rings' = rings
    BY <1>2 DEF Transact, mainVars
  <2>2. TellerMoves(t)
    BY <2>1 DEF TellerMoves
  <2>3. seenIn'[u] = seenIn[u]
    <3>1. CASE LockBank(t)
      BY <1>0, <3>1 DEF LockBank, BankTypeOK
    <3>2. CASE StoreTo(t) \/ StoreFrom(t) \/ PostBank(t)
      BY <3>2 DEF StoreTo, StoreFrom, PostBank, pointerVars
    <3> QED
      BY <2>1, <3>1, <3>2, TransactEffects DEF Quiet, Fault
  <2> QED
    BY <1>0, <2>1, <2>2, <2>3, OthersUnchanged
<1> QED
  BY <1>1, <1>2 DEF TellerStep

\* Main does not touch the tellers' calls.
LEMMA MainStays ==
  ASSUME MainStep
  PROVE  UNCHANGED callVars
<1>1. CASE ReadAccount \/ InsertAccount
  BY <1>1 DEF ReadAccount, InsertAccount, AddStep, ReserveSlot, LockForAccount, Resize, StoreAccount
<1>2. CASE Dispatch \/ SendEnd \/ Join
  BY <1>2 DEF Dispatch, SendEnd, Join, bankVars, callVars
<1> QED
  BY <1>1, <1>2 DEF MainStep

\* A stored account stays stored.
LEMMA StoredStays ==
  ASSUME TypeOK, BankInv, LinesInv, Next
  PROVE  Stored \subseteq Stored'
<1>1. CASE ReadAccount
  BY <1>1, ReadLines
<1>2. CASE InsertAccount /\ StoreAccount
  BY <1>2, StoreLines
<1>3. CASE Dispatch
  BY <1>3, DispatchLines
<1>4. CASE Still
  BY <1>4, OtherLines DEF Still
<1> QED
  BY <1>1, <1>2, <1>3, <1>4, StillSteps

\* Every step preserves what the tellers' pointers point to.
LEMMA PointerLinesNext ==
  ASSUME TypeOK, BankInv, LinesInv, Next
  PROVE  PointerLines'
<1> DEFINE Pointing(u) ==
      pc[u] \in Reaching =>
        /\ \E d \in Stored : Declares(d, txn[u].from) /\ fromAcc[u] = SlotOfLine(d)
        /\ \/ toAcc[u] = NULL
           \/ \E d \in Stored : Declares(d, txn[u].to) /\ toAcc[u] = SlotOfLine(d)
<1>0. /\ \A d, n : Declares(d, n)' <=> Declares(d, n)
      /\ \A d : SlotOfLine(d)' = SlotOfLine(d)
      /\ Stored \subseteq Stored'
  BY FileStays, FileFixed, StoredStays
<1>00. \A d, u : /\ Declares(d, txn[u].from)' <=> Declares(d, txn'[u].from)
                 /\ Declares(d, txn[u].to)' <=> Declares(d, txn'[u].to)
  <2>1. file' = file /\ \A kind : LinesOf(kind)' = LinesOf(kind)
    BY FileStays, FileFixed
  <2> QED
    BY <2>1 DEF Declares
<1>1. \A u \in Tellers : Pointing(u)
  BY DEF LinesInv, PointerLines
<1>2. ASSUME NEW u \in Tellers, pc'[u] = pc[u] \/ pc[u] \in Reaching, txn'[u] = txn[u],
             fromAcc'[u] = fromAcc[u], toAcc'[u] = toAcc[u]
      PROVE  Pointing(u)'
  <2> SUFFICES ASSUME pc'[u] \in Reaching
               PROVE  /\ \E d \in Stored' : Declares(d, txn'[u].from) /\ fromAcc'[u] = SlotOfLine(d)
                      /\ \/ toAcc'[u] = NULL
                         \/ \E d \in Stored' : Declares(d, txn'[u].to) /\ toAcc'[u] = SlotOfLine(d)
    BY <1>0, <1>00
  <2> QED
    BY <1>0, <1>1, <1>2
<1>3. CASE MainStep
  BY <1>2, <1>3, MainStays DEF callVars, PointerLines
<1>4. ASSUME NEW t \in Tellers, TellerStep(t) PROVE PointerLines'
  <2>1. \A u \in Tellers \ {t} : Pointing(u)'
    BY <1>2, <1>4, OthersStay
  <2>2. Pointing(t)'
    <3>0. pc \in [Tellers -> Places] /\ fromAcc \in [Tellers -> Slots \cup {NULL}] /\ toAcc \in [Tellers -> Slots \cup {NULL}]
      BY DEF TypeOK, BankTypeOK
    <3>1. CASE Receive(t) \/ ReceiveEnd(t)
      <4>1. pc'[t] \in {"lock", "exited"}
        BY <3>0, <3>1 DEF Receive, ReceiveEnd, Begin, Leave, GoTo
      <4> QED
        BY <4>1 DEF Reaching
    <3>2. CASE Step(t)
      <4>0. txn' = txn
        BY <3>2, TransactEffects
      <4>1. CASE LockBank(t)
        <5>1. txn[t] \in Transfers
          BY <4>1 DEF LockBank, At, BankInv, PointerInv
        <5>2. txn[t].from \in Numbers /\ txn[t].to \in Numbers
          BY <5>1 DEF Transfers
        <5>3. fromAcc'[t] = Lookup(txn[t].from) /\ toAcc'[t] = Lookup(txn[t].to) /\ Lookup(txn[t].from) # NULL
          BY <3>0, <4>1 DEF LockBank
        <5>4. \E d \in Stored : Declares(d, txn[t].from) /\ fromAcc'[t] = SlotOfLine(d)
          BY <5>2, <5>3, LookupLine
        <5>5. \/ toAcc'[t] = NULL
              \/ \E d \in Stored : Declares(d, txn[t].to) /\ toAcc'[t] = SlotOfLine(d)
          BY <5>2, <5>3, LookupLine
        <5>6. /\ \E d \in Stored' : Declares(d, txn'[t].from) /\ fromAcc'[t] = SlotOfLine(d)
              /\ \/ toAcc'[t] = NULL
                 \/ \E d \in Stored' : Declares(d, txn'[t].to) /\ toAcc'[t] = SlotOfLine(d)
          BY <1>0, <4>0, <5>4, <5>5
        <5> QED
          BY <1>0, <1>00, <5>6
      <4>2. CASE PostBank(t)
        <5>1. pc'[t] = "idle"
          BY <3>0, <4>2 DEF PostBank, GoTo
        <5> QED
          BY <5>1 DEF Reaching
      <4>3. CASE StoreTo(t) \/ StoreFrom(t) \/ Quiet(t)
        <5>1. pc[t] \in Reaching /\ fromAcc' = fromAcc /\ toAcc' = toAcc
          BY <4>3 DEF StoreTo, StoreFrom, Quiet, At, Reaching, Places, pointerVars
        <5> QED
          BY <1>2, <4>0, <5>1
      <4>4. CASE Fault(t)
        BY <1>2, <4>0, <4>4 DEF Fault
      <4> QED
        BY <3>2, <4>1, <4>2, <4>3, <4>4, TransactEffects
    <3> QED
      BY <1>4, <3>1, <3>2 DEF TellerStep, Transact
  <2> QED
    BY <2>1, <2>2 DEF PointerLines
<1> QED
  BY <1>3, <1>4 DEF Next

\* What an insertion does to a ring.
LEMMA PutEffect ==
  ASSUME TypeOK, NEW t \in Tellers, NEW item \in TransferLines \cup {EndLine}, Put(t, item)
  PROVE  /\ \A u \in Tellers \ {t} : rings'[u] = rings[u]
         /\ Len(rings[t]) \in Nat /\ DOMAIN rings[t] = 1 .. Len(rings[t])
         /\ Len(rings'[t]) = Len(rings[t]) + 1 /\ DOMAIN rings'[t] = 1 .. Len(rings[t]) + 1
         /\ rings'[t][Len(rings[t]) + 1] = item
         /\ \A i \in 1 .. Len(rings[t]) : rings'[t][i] = rings[t][i]
<1> DEFINE Items == TransferLines \cup {EndLine}
           s == rings[t]
           a == Append(s, item)
<1>0. rings \in [Tellers -> Seq(Items)] /\ item \in Items
  BY DEF TypeOK
<1>1. rings' = [rings EXCEPT ![t] = a]
  BY DEF Put
<1> HIDE DEF Items
<1>2. s \in Seq(Items)
  BY <1>0
<1> HIDE DEF s
<1>3. /\ Len(s) \in Nat /\ DOMAIN s = 1 .. Len(s) /\ a \in Seq(Items) /\ Len(a) = Len(s) + 1
      /\ a[Len(s) + 1] = item /\ \A i \in 1 .. Len(s) : a[i] = s[i]
  BY <1>0, <1>2, LenProperties, AppendProperties
<1>4. DOMAIN a = 1 .. Len(s) + 1
  BY <1>3, LenProperties
<1> HIDE DEF a
<1>5. rings'[t] = a /\ \A u \in Tellers \ {t} : rings'[u] = rings[u]
  BY <1>0, <1>1
<1> QED
  BY <1>3, <1>4, <1>5 DEF s

\* What a removal does to a ring.
LEMMA TakeEffect ==
  ASSUME TypeOK, NEW t \in Tellers, TakeLine(t), rings[t] # <<>>
  PROVE  /\ \A u \in Tellers \ {t} : rings'[u] = rings[u]
         /\ Len(rings[t]) \in Nat \ {0} /\ DOMAIN rings[t] = 1 .. Len(rings[t])
         /\ Len(rings'[t]) = Len(rings[t]) - 1 /\ DOMAIN rings'[t] = 1 .. Len(rings[t]) - 1
         /\ Head(rings[t]) = rings[t][1]
         /\ \A i \in 1 .. Len(rings[t]) - 1 : rings'[t][i] = rings[t][i + 1]
         /\ Len(rings[t]) = 1 => rings'[t] = <<>>
<1> DEFINE Items == TransferLines \cup {EndLine}
           s == rings[t]
           a == Tail(s)
<1>0. rings \in [Tellers -> Seq(Items)]
  BY DEF TypeOK
<1>1. rings' = [rings EXCEPT ![t] = a]
  BY DEF TakeLine
<1> HIDE DEF Items
<1>2. s \in Seq(Items) /\ s # <<>>
  BY <1>0
<1> HIDE DEF s
<1>3. Len(s) \in Nat /\ DOMAIN s = 1 .. Len(s) /\ Len(s) # 0
  BY <1>2, LenProperties, EmptySeq
<1>4. /\ a \in Seq(Items) /\ Len(a) = Len(s) - 1 /\ Head(s) = s[1]
      /\ \A i \in 1 .. Len(s) - 1 : a[i] = s[i + 1]
  BY <1>2, <1>3, HeadTailProperties
<1>5. DOMAIN a = 1 .. Len(s) - 1
  BY <1>4, LenProperties
<1> HIDE DEF a
<1>6. Len(s) = 1 => a = <<>>
  <2>1. a # <<>> => Len(a) \in Nat \ {0}
    BY <1>4, EmptySeq
  <2> QED
    BY <1>4, <2>1
<1>7. rings'[t] = a /\ \A u \in Tellers \ {t} : rings'[u] = rings[u]
  BY <1>0, <1>1
<1> QED
  BY <1>3, <1>4, <1>5, <1>6, <1>7 DEF s

\* A teller that moves is in transaction or takes a line; it never goes back.
LEMMA StepMoves ==
  ASSUME TypeOK, NEW t \in Tellers, Step(t)
  PROVE  /\ pc[t] \notin {"idle", "exited"} /\ pc'[t] # "exited"
         /\ pc'[t] = "lock" => pc[t] = "lock"
         /\ pc'[t] = "idle" => PostBank(t)
<1>0. pc \in [Tellers -> Places]
  BY DEF TypeOK, BankTypeOK
<1>1. CASE LockBank(t)
  BY <1>0, <1>1 DEF LockBank, TestBoth, WaitFor, GoTo, At
<1>2. CASE StoreTo(t) \/ StoreFrom(t) \/ PostBank(t)
  BY <1>0, <1>2 DEF StoreTo, StoreFrom, PostBank, At, GoTo
<1>3. CASE Quiet(t)
  <2>1. pc[t] \in Reaching /\ pc'[t] \in Reaching \cup {"postBank"}
    BY <1>0, <1>3 DEF Quiet, MovesTo
  <2> QED
    BY <2>1 DEF Reaching
<1>4. CASE Fault(t)
  <2>1. pc[t] \notin {"idle", "exited"} /\ pc' = pc
    BY <1>4 DEF Fault, NullDereference, ScanUnwritten, UseAfterFree, At, Stale, Reaching
  <2> QED
    BY <2>1
<1> QED
  BY <1>1, <1>2, <1>3, <1>4, TransactEffects

\* Every step preserves what is known of the ends.
LEMMA EndNext ==
  ASSUME TypeOK, BankInv, LinesInv, Next
  PROVE  EndInv'
<1> DEFINE Last(u) == \A i \in DOMAIN rings[u] : rings[u][i] = EndLine => i = Len(rings[u]) /\ u \in 0 .. ended - 1
           Exit(u) == pc[u] = "exited" => rings[u] = <<>> /\ u \in 0 .. ended - 1
           Idle(u) == u \notin Workers => rings[u] = <<>> /\ pc[u] = "idle"
<1>0. /\ file' = file /\ workerCount' = workerCount /\ Workers' = Workers /\ Workers \subseteq Tellers
      /\ workerCount \in Nat \ {0} /\ ended \in 0 .. workerCount /\ joined \in 0 .. ended
      /\ ended \in Int /\ joined \in Int /\ Len(file) \in Nat
  BY FileStays, FileTypes DEF Workers, TypeOK
<1>1. /\ ended > 0 => EndOfFile /\ adding = NoAccount
      /\ \A u \in Tellers : Last(u) /\ Exit(u) /\ Idle(u)
      /\ \A u \in 0 .. joined - 1 : pc[u] = "exited"
      /\ Done => printed = Table
  BY DEF LinesInv, EndInv
<1>2. adding.locked => adding # NoAccount
  BY DEF BankInv, TableInv
<1> DEFINE Rest == /\ \A u \in Tellers : Last(u) /\ Exit(u) /\ Idle(u)
                   /\ \A u \in 0 .. joined - 1 : pc[u] = "exited"
<1>3. (ended > 0 => EndOfFile /\ adding = NoAccount)'
  <2>1. CASE SendEnd
    BY <2>1 DEF SendEnd, MainRuns, EndOfFile, bankVars
  <2>2. CASE ended' = ended /\ ended = 0
    BY <2>2
  <2>3. CASE ended' = ended /\ EndOfFile /\ adding = NoAccount
    <3>1. ~ReadAccount /\ ~Dispatch /\ ~InsertAccount
      BY <1>2, <2>3 DEF ReadAccount, Dispatch, InsertAccount, AddStep, LockForAccount, Resize, StoreAccount
    <3>2. Still
      BY <3>1, StillSteps
    <3> QED
      BY <1>0, <2>3, <3>2 DEF Still, EndOfFile
  <2>4. SendEnd \/ ended' = ended
    BY DEF Next, MainStep, ReadAccount, InsertAccount, Dispatch, Join, TellerStep, Receive, ReceiveEnd,
           Transact, mainVars
  <2> QED
    BY <1>0, <1>1, <2>1, <2>2, <2>3, <2>4
<1>4. ASSUME UNCHANGED <<rings, ended, joined, pc>>
      PROVE  Rest'
  BY <1>0, <1>1, <1>4
<1>5. ASSUME ReadAccount \/ InsertAccount PROVE Rest'
  <2>1. UNCHANGED <<rings, ended, joined, pc>>
    BY <1>5, MainStays DEF MainStep, ReadAccount, InsertAccount, mainVars, callVars
  <2> QED
    BY <1>4, <2>1
<1>6. ASSUME NEW t \in Workers, NEW item \in TransferLines \cup {EndLine}, Put(t, item),
             \A i \in DOMAIN rings[t] : rings[t][i] # EndLine, pc[t] # "exited",
             UNCHANGED <<pc, joined>>, ended' \in {ended, ended + 1}, item = EndLine => t \in 0 .. ended' - 1
      PROVE  Rest'
  <2>1. t \in Tellers
    BY <1>0
  <2>2. /\ \A u \in Tellers \ {t} : rings'[u] = rings[u]
        /\ Len(rings[t]) \in Nat /\ DOMAIN rings[t] = 1 .. Len(rings[t])
        /\ Len(rings'[t]) = Len(rings[t]) + 1 /\ DOMAIN rings'[t] = 1 .. Len(rings[t]) + 1
        /\ rings'[t][Len(rings[t]) + 1] = item
        /\ \A i \in 1 .. Len(rings[t]) : rings'[t][i] = rings[t][i]
    BY <1>6, <2>1, PutEffect
  <2>3. \A u \in 0 .. ended - 1 : u \in 0 .. ended' - 1
    <3>1. ended \in Int /\ (ended' = ended \/ ended' = ended + 1)
      BY <1>0, <1>6
    <3>2. \A n \in Int : \A u \in 0 .. n - 1 : u \in 0 .. (n + 1) - 1
      OBVIOUS
    <3> QED
      BY <3>1, <3>2
  <2>4. \A u \in Tellers \ {t} : Last(u)' /\ Exit(u)' /\ Idle(u)'
    BY <1>0, <1>1, <1>6, <2>2, <2>3
  <2>5. Last(t)'
    BY <1>6, <2>2
  <2>6. Exit(t)' /\ Idle(t)'
    BY <1>0, <1>6
  <2> QED
    BY <1>1, <1>6, <2>4, <2>5, <2>6
<1>7. ASSUME Dispatch PROVE Rest'
  <2> DEFINE t == ctr % workerCount
  <2>1. ended = 0 /\ UNCHANGED <<pc, joined, ended>>
    BY <1>0, <1>1, <1>7 DEF Dispatch, bankVars
  <2>2. Line \in TransferLines /\ Line # EndLine
    BY <1>7, LineTypes DEF Dispatch, TransferLines, EndLine
  <2>3. t \in Workers
    BY <1>0 DEF TypeOK, Workers
  <2>4. Put(t, Line)
    BY <1>7 DEF Dispatch
  <2> HIDE DEF t
  <2>5. t \in Tellers /\ t \notin 0 .. ended - 1
    BY <1>0, <2>1, <2>3
  <2>6. (\A i \in DOMAIN rings[t] : rings[t][i] # EndLine) /\ pc[t] # "exited"
    BY <1>1, <2>5
  <2> QED
    BY <1>6, <2>1, <2>2, <2>3, <2>4, <2>6
<1>8. ASSUME SendEnd PROVE Rest'
  <2>1. ended' = ended + 1 /\ UNCHANGED <<pc, joined>> /\ Put(ended, EndLine) /\ ended < workerCount
    BY <1>8 DEF SendEnd, bankVars
  <2>2. ended \in Workers /\ ended \in Tellers /\ ended \notin 0 .. ended - 1 /\ ended \in 0 .. ended' - 1
    BY <1>0, <2>1 DEF Workers
  <2>3. (\A i \in DOMAIN rings[ended] : rings[ended][i] # EndLine) /\ pc[ended] # "exited"
    BY <1>1, <2>2
  <2> QED
    BY <1>6, <2>1, <2>2, <2>3
<1>9. ASSUME Join PROVE Rest'
  <2>1. UNCHANGED <<rings, ended, pc>> /\ joined' = joined + 1 /\ pc[joined] = "exited"
    BY <1>9 DEF Join, bankVars
  <2>2. \A u \in 0 .. joined' - 1 : u = joined \/ u \in 0 .. joined - 1
    BY <1>0, <2>1
  <2> QED
    BY <1>0, <1>1, <2>1, <2>2
<1>10. ASSUME NEW t \in Tellers, TellerStep(t)
       PROVE  Rest'
  <2>0. /\ \A u \in Tellers \ {t} : rings'[u] = rings[u] /\ pc'[u] = pc[u]
        /\ UNCHANGED <<ended, joined>>
    BY <1>10, OthersStay DEF TellerStep, Receive, ReceiveEnd, Transact, mainVars
  <2>1. \A u \in Tellers \ {t} : Last(u)' /\ Exit(u)' /\ Idle(u)'
    BY <1>0, <1>1, <2>0
  <2>2. pc \in [Tellers -> Places]
    BY DEF TypeOK, BankTypeOK
  <2>3. CASE Receive(t) \/ ReceiveEnd(t)
    <3>1. TakeLine(t) /\ rings[t] # <<>> /\ pc[t] = "idle"
      BY <2>3 DEF Receive, ReceiveEnd, Begin, Leave, At
    <3>2. /\ Len(rings[t]) \in Nat \ {0} /\ DOMAIN rings[t] = 1 .. Len(rings[t])
          /\ Len(rings'[t]) = Len(rings[t]) - 1 /\ DOMAIN rings'[t] = 1 .. Len(rings[t]) - 1
          /\ Head(rings[t]) = rings[t][1]
          /\ \A i \in 1 .. Len(rings[t]) - 1 : rings'[t][i] = rings[t][i + 1]
          /\ Len(rings[t]) = 1 => rings'[t] = <<>>
      BY <3>1, TakeEffect
    <3>3. Last(t)'
      BY <1>1, <2>0, <3>2
    <3>4. Exit(t)'
      <4>1. CASE Receive(t)
        <5>1. pc'[t] = "lock"
          BY <2>2, <4>1 DEF Receive, Begin, GoTo
        <5> QED
          BY <5>1
      <4>2. CASE ReceiveEnd(t)
        <5>1. rings[t][1] = EndLine
          BY <3>2, <4>2 DEF ReceiveEnd
        <5>2. Len(rings[t]) = 1 /\ t \in 0 .. ended - 1
          <6>1. 1 \in DOMAIN rings[t]
            BY <3>2
          <6>2. Last(t)
            BY <1>1
          <6> QED
            BY <5>1, <6>1, <6>2
        <5> QED
          BY <2>0, <3>2, <5>2
      <4> QED
        BY <2>3, <4>1, <4>2
    <3>5. Idle(t)'
      BY <1>0, <1>1, <3>1
    <3>6. \A u \in 0 .. joined' - 1 : pc'[u] = "exited"
      <4>1. \A u \in 0 .. joined - 1 : u \in Tellers
        BY <1>0 DEF Workers
      <4> QED
        BY <1>1, <2>0, <3>1, <4>1
    <3> QED
      BY <2>1, <3>3, <3>4, <3>5, <3>6
  <2>4. CASE Step(t) /\ rings' = rings
    <3>1. pc[t] \notin {"idle", "exited"} /\ pc'[t] # "exited"
      BY <2>4, StepMoves
    <3>2. Last(t)' /\ Exit(t)' /\ Idle(t)'
      BY <1>0, <1>1, <2>0, <2>4, <3>1
    <3>3. \A u \in 0 .. joined' - 1 : pc'[u] = "exited"
      <4>1. \A u \in 0 .. joined - 1 : u \in Tellers
        BY <1>0 DEF Workers
      <4> QED
        BY <1>1, <2>0, <3>1, <4>1
    <3> QED
      BY <2>1, <3>2, <3>3
  <2> QED
    BY <1>10, <2>3, <2>4 DEF TellerStep, Transact, mainVars
<1>11. Rest'
  BY <1>5, <1>7, <1>8, <1>9, <1>10 DEF Next, MainStep
<1>12. ASSUME Done' PROVE (printed = Table)'
  <2>1. CASE Join
    <3>1. printed' = Table /\ UNCHANGED <<size, number, balance>>
      BY <1>0, <1>12, <2>1 DEF Join, Done, bankVars
    <3> QED
      BY <3>1 DEF Table
  <2>2. CASE ~Join
    <3>1. joined' = joined /\ printed' = printed
      BY <2>2 DEF Next, MainStep, ReadAccount, InsertAccount, Dispatch, SendEnd, TellerStep, Receive, ReceiveEnd,
                  Transact, mainVars
    <3>2. Done /\ ended > 0 /\ EndOfFile /\ adding = NoAccount /\ \A u \in Workers : pc[u] = "exited"
      BY <1>0, <1>1, <1>12, <3>1 DEF Done, Workers
    <3>3. ~ReadAccount /\ ~Dispatch /\ ~InsertAccount
      BY <1>2, <3>2 DEF ReadAccount, Dispatch, InsertAccount, AddStep, LockForAccount, Resize, StoreAccount
    <3>4. Still
      BY <3>3, StillSteps
    <3>5. \A u \in Tellers : pc[u] \in {"idle", "exited"}
      BY <1>1, <3>2
    <3>6. UNCHANGED <<size, number, balance>>
      BY <3>4, <3>5 DEF Still, StoreTo, StoreFrom, At
    <3> QED
      BY <1>1, <3>1, <3>2, <3>6 DEF Table
  <2> QED
    BY <2>1, <2>2
<1> QED
  BY <1>3, <1>11, <1>12 DEF EndInv

\* A teller in transaction has a transfer that main has read.
LEMMA CallOfLine ==
  ASSUME TypeOK, NEW to, NEW at, Handed(to, at), NEW t \in Tellers, InCall(t)
  PROVE  \E k \in TransfersRead : txn[t] = TransferOf(k) /\ txn[t] \in Transfers
<1>1. PICK k \in TransfersRead : to[k] = t /\ at[k] = 0
  BY DEF Handed
<1>2. txn[t] = TransferOf(k)
  BY <1>1 DEF Handed
<1>3. TransferOf(k) \in Transfers
  BY FileTypes DEF TransfersRead
<1> QED
  BY <1>2, <1>3

\* In a file with a meaning the accounts that a transfer names have been stored.
LEMMA DeclaredStored ==
  ASSUME TypeOK, Declared, NEW k \in TransfersRead
  PROVE  /\ \E d \in Stored : Declares(d, file[k].from)
         /\ \E d \in Stored : Declares(d, file[k].to)
<1>1. k \in LinesOf("transfer") /\ k \in Int /\ k <= lineNo /\ lineNo \in Int
  BY FileTypes DEF TransfersRead
<1>2. ASSUME NEW n, NEW d \in 1 .. k - 1, Declares(d, n)
      PROVE  d \in Stored
  <2>1. d \in LinesOf("account") /\ d \in Int
    BY <1>2 DEF Declares
  <2>2. d < k
    BY <1>1, <2>1
  <2>3. d <= lineNo /\ d # lineNo
    BY <1>1, <2>1, <2>2
  <2> QED
    BY <2>1, <2>3 DEF Stored
<1>3. /\ \E d \in 1 .. k - 1 : Declares(d, file[k].from)
      /\ \E d \in 1 .. k - 1 : Declares(d, file[k].to)
  BY <1>1 DEF Declared
<1> QED
  BY <1>2, <1>3

\* So a teller finds both of them.
LEMMA FindsBoth ==
  ASSUME TypeOK, BankInv, LinesInv, NEW to, NEW at, Handed(to, at), Declared,
         NEW t \in Tellers, InCall(t)
  PROVE  Lookup(txn[t].from) # NULL /\ Lookup(txn[t].to) # NULL
<1>1. PICK k \in TransfersRead : txn[t] = TransferOf(k) /\ txn[t] \in Transfers
  BY CallOfLine
<1>2. txn[t].from \in Numbers /\ txn[t].to \in Numbers
  BY <1>1 DEF Transfers
<1>3. txn[t].from = file[k].from /\ txn[t].to = file[k].to
  BY <1>1 DEF TransferOf
<1>4. /\ \E d \in Stored : file[d].number = txn[t].from
      /\ \E d \in Stored : file[d].number = txn[t].to
  BY <1>3, DeclaredStored DEF Declares
<1> QED
  BY <1>2, <1>4, LookupLine

\* Only resize changes the allocation.
LEMMA TableStays ==
  ASSUME TypeOK, Next, ~(InsertAccount /\ Resize)
  PROVE  UNCHANGED <<capacity, allocation>>
<1>1. CASE ReadAccount \/ InsertAccount
  BY <1>1 DEF ReadAccount, InsertAccount, AddStep, ReserveSlot, LockForAccount, StoreAccount
<1>2. CASE Dispatch \/ SendEnd \/ Join
  BY <1>2 DEF Dispatch, SendEnd, Join, bankVars
<1>3. ASSUME NEW t \in Tellers, Receive(t) \/ ReceiveEnd(t) PROVE UNCHANGED <<capacity, allocation>>
  BY <1>3 DEF Receive, ReceiveEnd, Begin, Leave, tableVars
<1>4. ASSUME NEW t \in Tellers, Transact(t) PROVE UNCHANGED <<capacity, allocation>>
  BY <1>4, TransactEffects DEF Transact
<1> QED
  BY <1>1, <1>2, <1>3, <1>4 DEF Next, MainStep, TellerStep

\* Only a teller meets undefined behaviour.
LEMMA FaultStays ==
  ASSUME TypeOK, Next, \A t \in Tellers : ~(Step(t) /\ Fault(t))
  PROVE  fault' = fault
<1>1. CASE ReadAccount \/ InsertAccount
  BY <1>1 DEF ReadAccount, InsertAccount, AddStep, ReserveSlot, LockForAccount, Resize, StoreAccount
<1>2. CASE Dispatch \/ SendEnd \/ Join
  BY <1>2 DEF Dispatch, SendEnd, Join, bankVars
<1>3. ASSUME NEW t \in Tellers, Receive(t) \/ ReceiveEnd(t) PROVE fault' = fault
  BY <1>3 DEF Receive, ReceiveEnd, Begin, Leave
<1>4. ASSUME NEW t \in Tellers, Transact(t) PROVE fault' = fault
  <2>1. Step(t) /\ ~Fault(t)
    BY <1>4 DEF Transact
  <2>2. CASE LockBank(t) \/ StoreTo(t) \/ StoreFrom(t) \/ PostBank(t)
    BY <2>2 DEF LockBank, StoreTo, StoreFrom, PostBank
  <2> QED
    BY <2>1, <2>2, TransactEffects DEF Quiet
<1> QED
  BY <1>1, <1>2, <1>3, <1>4 DEF Next, MainStep, TellerStep

\* The table does not move under a teller that has pointers into it.
LEMMA NoMove ==
  ASSUME TypeOK, BankInv, LinesInv, NEW to, NEW at, Handed(to, at), AccountsFirst \/ Fits,
         InsertAccount, Resize, NEW t \in Tellers
  PROVE  pc[t] \notin Reaching
<1>1. capacity < adding.id /\ adding # NoAccount /\ adding.id = size /\ capacity >= InitCapacity /\ capacity \in Int
  BY DEF Resize, BankInv, BankTypeOK, TableInv, LinesInv, WildInv
<1>2. CASE Fits
  <2>1. /\ size = Cardinality(AccountsRead) /\ Cardinality(AccountsRead) <= Cardinality(LinesOf("account"))
        /\ size \in Nat
    BY SlotsRead DEF LinesInv, SlotsInv
  <2>2. Cardinality(LinesOf("account")) \in Nat /\ InitCapacity \in Nat
    BY SlotsOrdered, FS_CardinalityType, BankAssumption
  <2> QED
    BY <1>1, <1>2, <2>1, <2>2 DEF Fits
<1>3. CASE AccountsFirst
  <2> SUFFICES ASSUME pc[t] \in Reaching PROVE FALSE
    OBVIOUS
  <2>1. InCall(t)
    BY DEF InCall, Reaching
  <2>2. PICK k \in TransfersRead : txn[t] = TransferOf(k)
    BY <2>1, CallOfLine
  <2>3. lineNo \in LinesOf("account")
    BY <1>1 DEF LinesInv, AddInv
  <2>4. k \in LinesOf("transfer") /\ k <= lineNo /\ k \in Int /\ lineNo \in Int
    BY FileTypes DEF TransfersRead
  <2> QED
    BY <1>3, <2>3, <2>4 DEF AccountsFirst
<1> QED
  BY <1>2, <1>3

\* Every step keeps the pointers alive on a file with a meaning.
LEMMA WildNext ==
  ASSUME TypeOK, BankInv, LinesInv, NEW to, NEW at, Handed(to, at), Next
  PROVE  WildInv'
<1> DEFINE Alive(u) == pc[u] \in Reaching => toAcc[u] # NULL /\ seenIn[u] = allocation
<1>0. Declared' = Declared /\ AccountsFirst' = AccountsFirst /\ Fits' = Fits
  <2>1. file' = file /\ (\A kind : LinesOf(kind)' = LinesOf(kind)) /\ \A d, n : Declares(d, n)' = Declares(d, n)
    BY FileStays, FileFixed
  <2>2. Declared' = Declared
    <3>1. \A d, k : /\ Declares(d, file[k].from)' = Declares(d, file[k].from)
                    /\ Declares(d, file[k].to)' = Declares(d, file[k].to)
      BY <2>1 DEF Declares
    <3> QED
      BY <2>1, <3>1 DEF Declared
  <2>3. AccountsFirst' = AccountsFirst
    BY <2>1 DEF AccountsFirst
  <2>4. Fits' = Fits
    BY <2>1 DEF Fits
  <2> QED
    BY <2>2, <2>3, <2>4
<1>1. capacity' >= InitCapacity
  <2>1. capacity \in Nat \ {0} /\ InitCapacity \in Nat /\ capacity >= InitCapacity
    BY BankAssumption DEF BankInv, BankTypeOK, LinesInv, WildInv
  <2>2. CASE InsertAccount /\ Resize
    BY <2>1, <2>2 DEF Resize
  <2> QED
    BY <2>1, <2>2, TableStays
<1>2. ASSUME Declared, AccountsFirst \/ Fits
      PROVE  fault' = "none" /\ \A u \in Tellers : Alive(u)'
  <2>1. fault = "none" /\ \A u \in Tellers : Alive(u)
    BY <1>2 DEF LinesInv, WildInv
  <2>2. ASSUME NEW t \in Tellers, Step(t) PROVE ~Fault(t)
    <3>0. pc[t] = "lock" => Lookup(txn[t].from) # NULL /\ Lookup(txn[t].to) # NULL
      BY <1>2, FindsBoth DEF InCall
    <3>1. ~ScanUnwritten(t)
      BY <3>0 DEF ScanUnwritten, ScansUnwritten, At
    <3>2. ~UseAfterFree(t)
      BY <2>1 DEF UseAfterFree, Stale
    <3>3. ~NullDereference(t)
      <4>1. pc[t] = "relock" => toAcc[t] # NULL
        BY <2>1 DEF Reaching, Places
      <4> QED
        BY <3>0, <4>1 DEF NullDereference, At
    <3> QED
      BY <3>1, <3>2, <3>3 DEF Fault
  <2>3. fault' = "none"
    BY <2>1, <2>2, FaultStays
  <2>4. CASE InsertAccount /\ Resize
    <3>1. UNCHANGED callVars
      BY <2>4, MainStays DEF MainStep
    <3> QED
      BY <1>2, <2>3, <2>4, <3>1, NoMove DEF callVars
  <2>5. CASE ~(InsertAccount /\ Resize)
    <3>0. allocation' = allocation
      BY <2>5, TableStays
    <3>1. CASE MainStep
      BY <2>1, <2>3, <3>0, <3>1, MainStays DEF callVars
    <3>2. ASSUME NEW t \in Tellers, TellerStep(t)
          PROVE  \A u \in Tellers : Alive(u)'
      <4>1. \A u \in Tellers \ {t} : Alive(u)'
        BY <2>1, <3>0, <3>2, OthersStay
      <4>2. /\ pc \in [Tellers -> Places] /\ toAcc \in [Tellers -> Slots \cup {NULL}]
            /\ seenIn \in [Tellers -> Nat]
        BY DEF TypeOK, BankTypeOK
      <4>3. CASE Receive(t) \/ ReceiveEnd(t)
        <5>1. pc'[t] \in {"lock", "exited"}
          BY <4>2, <4>3 DEF Receive, ReceiveEnd, Begin, Leave, GoTo
        <5> QED
          BY <4>1, <5>1 DEF Reaching
      <4>4. CASE Step(t)
        <5>1. CASE LockBank(t)
          <6>1. Lookup(txn[t].to) # NULL
            BY <1>2, <5>1, FindsBoth DEF InCall, LockBank, At
          <6>2. toAcc'[t] = Lookup(txn[t].to) /\ seenIn'[t] = allocation
            BY <4>2, <5>1 DEF LockBank
          <6> QED
            BY <3>0, <4>1, <6>1, <6>2
        <5>2. CASE PostBank(t)
          <6>1. pc'[t] = "idle"
            BY <4>2, <5>2 DEF PostBank, GoTo
          <6> QED
            BY <4>1, <6>1 DEF Reaching
        <5>3. CASE StoreTo(t) \/ StoreFrom(t) \/ Quiet(t)
          <6>1. pc[t] \in Reaching /\ UNCHANGED <<toAcc, seenIn>>
            BY <5>3 DEF StoreTo, StoreFrom, Quiet, At, Reaching, Places, pointerVars
          <6> QED
            BY <2>1, <3>0, <4>1, <6>1
        <5> QED
          BY <2>2, <4>4, <5>1, <5>2, <5>3, TransactEffects
      <4> QED
        BY <3>2, <4>3, <4>4 DEF TellerStep, Transact
    <3> QED
      BY <2>3, <3>1, <3>2 DEF Next
  <2> QED
    BY <2>4, <2>5
<1> QED
  BY <1>0, <1>1, <1>2 DEF WildInv

-----------------------------------------------------------------------------
\* Where each transfer is: which teller has it, and at which place of its ring.

\* A teller that has both accounts has two.
LEMMA TakenDistinct ==
  ASSUME TypeOK, BankInv, LinesInv, NEW t \in Tellers, pc[t] \in Taken
  PROVE  txn[t].from # txn[t].to
<1>1. CASE pc[t] \in {"postTo", "postBank"}
  BY <1>1 DEF LinesInv, DistinctInv
<1>2. CASE pc[t] \notin {"postTo", "postBank"}
  <2>1. HoldsFrom(t) /\ pc[t] \in Reaching
    BY <1>2 DEF HoldsFrom, Updating, Taken, Debited, Reaching, Places
  <2>2. fromAcc[t] # toAcc[t]
    BY <2>1 DEF BankInv, SemInv
  <2>3. toAcc[t] # NULL
    BY <1>2, <2>1 DEF BankInv, PointerInv, Points, Slots, NULL, Taken, Debited
  <2>4. PICK d \in Stored : Declares(d, txn[t].from) /\ fromAcc[t] = SlotOfLine(d)
    BY <2>1 DEF LinesInv, PointerLines
  <2>5. PICK e \in Stored : Declares(e, txn[t].to) /\ toAcc[t] = SlotOfLine(e)
    BY <2>1, <2>3 DEF LinesInv, PointerLines
  <2>6. txn[t].from = txn[t].to => d = e
    BY <2>4, <2>5, DeclaresOne
  <2> QED
    BY <2>2, <2>4, <2>5, <2>6
<1> QED
  BY <1>1, <1>2

\* Every step preserves that.
LEMMA DistinctNext ==
  ASSUME TypeOK, BankInv, LinesInv, Next
  PROVE  DistinctInv'
<1> DEFINE Distinct(u) == pc[u] \in {"postTo", "postBank"} => txn[u].from # txn[u].to
<1>1. \A u \in Tellers : Distinct(u)
  BY DEF LinesInv, DistinctInv
<1>2. CASE MainStep
  BY <1>1, <1>2, MainStays DEF callVars, DistinctInv
<1>3. ASSUME NEW t \in Tellers, TellerStep(t) PROVE DistinctInv'
  <2>1. \A u \in Tellers \ {t} : Distinct(u)'
    BY <1>1, <1>3, OthersStay
  <2>2. Distinct(t)'
    <3>0. pc \in [Tellers -> Places]
      BY DEF TypeOK, BankTypeOK
    <3>1. CASE Receive(t) \/ ReceiveEnd(t)
      BY <3>0, <3>1 DEF Receive, ReceiveEnd, Begin, Leave, GoTo
    <3>2. CASE Step(t)
      <4>0. txn' = txn
        BY <3>2, TransactEffects
      <4>1. CASE LockBank(t) \/ StoreTo(t) \/ StoreFrom(t) \/ PostBank(t)
        <5>1. pc'[t] \notin {"postTo", "postBank"}
          BY <3>0, <4>1 DEF LockBank, StoreTo, StoreFrom, PostBank, TestBoth, WaitFor, GoTo
        <5> QED
          BY <5>1
      <4>2. CASE Quiet(t)
        <5>1. pc'[t] \in {"postTo", "postBank"} => pc[t] \in Taken
          BY <3>0, <4>2 DEF Quiet, MovesTo
        <5> QED
          BY <4>0, <5>1, TakenDistinct
      <4>3. CASE Fault(t)
        BY <1>1, <4>0, <4>3 DEF Fault
      <4> QED
        BY <3>2, <4>1, <4>2, <4>3, TransactEffects
    <3> QED
      BY <1>3, <3>1, <3>2 DEF TellerStep, Transact
  <2> QED
    BY <2>1, <2>2 DEF DistinctInv
<1> QED
  BY <1>2, <1>3 DEF Next

-----------------------------------------------------------------------------
\* A step that changes no call and adds at most the end marker to a ring.
LEMMA HandedStays ==
  ASSUME TypeOK, NEW to, NEW at, Handed(to, at), Next, TransfersRead' = TransfersRead,
         \A u \in Tellers :
           /\ InCall(u)' = InCall(u) /\ txn'[u] = txn[u]
           /\ DOMAIN rings[u] \subseteq DOMAIN rings'[u]
           /\ \A i \in DOMAIN rings[u] : rings'[u][i] = rings[u][i]
           /\ \A i \in DOMAIN rings'[u] \ DOMAIN rings[u] : rings'[u][i] = EndLine
  PROVE  Handed(to, at)'
<1>0. /\ file' = file /\ Workers' = Workers /\ Workers \subseteq Tellers
      /\ \A k : TransferOf(k)' = TransferOf(k)
  BY FileStays, FileFixed, FileTypes DEF Workers
<1>1. \A k \in TransfersRead : to[k] \in Tellers
  BY <1>0 DEF Handed
<1>2. to \in [TransfersRead -> Workers] /\ at \in [TransfersRead -> Nat \cup {-1}]
  BY DEF Handed
<1>3. ASSUME NEW k \in TransfersRead
      PROVE  /\ at[k] > 0 => at[k] \in DOMAIN rings'[to[k]] /\ rings'[to[k]][at[k]] = file[k]
             /\ at[k] = 0 => InCall(to[k])' /\ txn'[to[k]] = TransferOf(k)
             /\ at[k] = -1 => file[k].from # file[k].to
  BY <1>1 DEF Handed
<1>4. ASSUME NEW u \in Tellers
      PROVE  /\ InCall(u)' => \E k \in TransfersRead : to[k] = u /\ at[k] = 0
             /\ \A i \in DOMAIN rings'[u] : rings'[u][i] # EndLine =>
                  \E k \in TransfersRead : to[k] = u /\ at[k] = i
  BY DEF Handed
<1> QED
  BY <1>0, <1>2, <1>3, <1>4 DEF Handed

\* Main's other steps hand nothing out.
LEMMA HandedMain ==
  ASSUME TypeOK, BankInv, LinesInv, NEW to, NEW at, Handed(to, at),
         ReadAccount \/ InsertAccount \/ SendEnd \/ Join
  PROVE  /\ Handed(to, at)' /\ TransfersRead' = TransfersRead
         /\ \A places : Past(places, to, at)' = Past(places, to, at)
<1>0. Next /\ pc' = pc /\ txn' = txn
  <2>1. UNCHANGED callVars
    BY MainStays DEF MainStep
  <2> QED
    BY <2>1 DEF Next, MainStep, callVars
<1>1. TransfersRead' = TransfersRead
  <2>1. CASE ReadAccount
    BY <2>1, ReadLines
  <2>2. CASE ~ReadAccount
    <3>1. lineNo' = lineNo /\ file' = file /\ \A kind : LinesOf(kind)' = LinesOf(kind)
      BY <1>0, <2>2, FileStays, FileFixed DEF InsertAccount, SendEnd, Join, mainVars
    <3> QED
      BY <3>1 DEF TransfersRead
  <2> QED
    BY <2>1, <2>2
<1>2. ASSUME NEW u \in Tellers
      PROVE  /\ DOMAIN rings[u] \subseteq DOMAIN rings'[u]
             /\ \A i \in DOMAIN rings[u] : rings'[u][i] = rings[u][i]
             /\ \A i \in DOMAIN rings'[u] \ DOMAIN rings[u] : rings'[u][i] = EndLine
  <2>1. CASE SendEnd
    <3>1. Put(ended, EndLine) /\ ended \in Tellers
      <4>1. ended \in Workers
        BY <2>1, FileTypes DEF SendEnd, Workers, TypeOK
      <4> QED
        BY <2>1, <4>1, FileTypes DEF SendEnd
    <3>2. /\ \A v \in Tellers \ {ended} : rings'[v] = rings[v]
          /\ Len(rings[ended]) \in Nat /\ DOMAIN rings[ended] = 1 .. Len(rings[ended])
          /\ DOMAIN rings'[ended] = 1 .. Len(rings[ended]) + 1
          /\ rings'[ended][Len(rings[ended]) + 1] = EndLine
          /\ \A i \in 1 .. Len(rings[ended]) : rings'[ended][i] = rings[ended][i]
      BY <3>1, PutEffect
    <3>3. CASE u = ended
      BY <3>2, <3>3
    <3>4. CASE u # ended
      BY <3>2, <3>4
    <3> QED
      BY <3>3, <3>4
  <2>2. CASE ~SendEnd
    <3>1. rings' = rings
      BY <2>2 DEF ReadAccount, InsertAccount, Join, mainVars
    <3> QED
      BY <3>1
  <2> QED
    BY <2>1, <2>2
<1>3. Handed(to, at)'
  BY <1>0, <1>1, <1>2, HandedStays DEF InCall
<1>4. \A places : Past(places, to, at)' = Past(places, to, at)
  BY <1>0, <1>1 DEF Past
<1> QED
  BY <1>1, <1>3, <1>4

\* No more does a step inside transaction but the last.
LEMMA HandedStep ==
  ASSUME TypeOK, BankInv, LinesInv, NEW to, NEW at, Handed(to, at), NEW t \in Tellers,
         Transact(t), ~PostBank(t)
  PROVE  Handed(to, at)' /\ TransfersRead' = TransfersRead
<1>0. Next /\ Step(t) /\ rings' = rings /\ txn' = txn /\ lineNo' = lineNo /\ file' = file
  BY TransactEffects DEF Next, TellerStep, Transact, mainVars
<1>1. TransfersRead' = TransfersRead
  <2>1. \A kind : LinesOf(kind)' = LinesOf(kind)
    BY <1>0, FileFixed
  <2> QED
    BY <1>0, <2>1 DEF TransfersRead
<1>2. pc[t] \notin {"idle", "exited"} /\ pc'[t] \notin {"idle", "exited"}
  BY <1>0, StepMoves
<1>3. \A u \in Tellers : InCall(u)' = InCall(u)
  <2>1. InCall(t)' = InCall(t)
    BY <1>2 DEF InCall
  <2>2. \A u \in Tellers \ {t} : pc'[u] = pc[u]
    BY OthersStay DEF TellerStep
  <2> QED
    BY <2>1, <2>2 DEF InCall
<1> QED
  BY <1>0, <1>1, <1>3, HandedStays

\* The end marker is no transfer.
LEMMA HandedEnd ==
  ASSUME TypeOK, BankInv, LinesInv, NEW to, NEW at, Handed(to, at), NEW t \in Tellers, ReceiveEnd(t)
  PROVE  /\ Handed(to, at)' /\ TransfersRead' = TransfersRead
         /\ \A places : "exited" \notin places => Past(places, to, at)' = Past(places, to, at)
<1>0. /\ file' = file /\ Workers' = Workers /\ lineNo' = lineNo /\ txn' = txn
      /\ \A k : TransferOf(k)' = TransferOf(k)
  <2>1. Next
    BY DEF Next, TellerStep
  <2> QED
    BY <2>1, FileStays, FileFixed DEF Workers, ReceiveEnd, Leave
<1>1. TransfersRead' = TransfersRead
  <2>1. \A kind : LinesOf(kind)' = LinesOf(kind)
    BY <1>0, FileFixed
  <2> QED
    BY <1>0, <2>1 DEF TransfersRead
<1>2. pc[t] = "idle" /\ pc'[t] = "exited" /\ \A u \in Tellers \ {t} : pc'[u] = pc[u] /\ rings'[u] = rings[u]
  BY OthersStay DEF TellerStep, ReceiveEnd, Leave, At, GoTo, TypeOK, BankTypeOK
<1>3. rings[t][1] = EndLine /\ DOMAIN rings[t] = {1} /\ rings'[t] = <<>>
  <2>1. /\ Len(rings[t]) \in Nat \ {0} /\ DOMAIN rings[t] = 1 .. Len(rings[t])
        /\ Head(rings[t]) = rings[t][1]
        /\ Len(rings[t]) = 1 => rings'[t] = <<>>
    BY TakeEffect DEF ReceiveEnd
  <2>2. rings[t][1] = EndLine /\ 1 \in DOMAIN rings[t]
    BY <2>1 DEF ReceiveEnd
  <2>3. Len(rings[t]) = 1
    BY <2>2 DEF LinesInv, EndInv
  <2> QED
    BY <2>1, <2>2, <2>3
<1>4. /\ to \in [TransfersRead -> Workers] /\ at \in [TransfersRead -> Nat \cup {-1}]
      /\ \A k \in TransfersRead : to[k] \in Tellers /\ file[k] # EndLine
  BY FileTypes DEF Handed, TransfersRead
<1>5. \A k \in TransfersRead : to[k] = t => at[k] = -1
  <2> SUFFICES ASSUME NEW k \in TransfersRead, to[k] = t PROVE at[k] = -1
    OBVIOUS
  <2>1. at[k] # 0
    BY <1>2 DEF Handed, InCall
  <2>2. ~(at[k] > 0)
    BY <1>3, <1>4 DEF Handed
  <2> QED
    BY <1>4, <2>1, <2>2
<1>6. ASSUME NEW k \in TransfersRead
      PROVE  /\ at[k] > 0 => at[k] \in DOMAIN rings'[to[k]] /\ rings'[to[k]][at[k]] = file[k]
             /\ at[k] = 0 => InCall(to[k])' /\ txn'[to[k]] = TransferOf(k)
             /\ at[k] = -1 => file[k].from # file[k].to
  <2>1. CASE to[k] = t
    BY <1>5, <2>1 DEF Handed
  <2>2. CASE to[k] # t
    <3>1. to[k] \in Tellers \ {t}
      BY <1>4, <2>2
    <3>2. /\ at[k] > 0 => at[k] \in DOMAIN rings[to[k]] /\ rings[to[k]][at[k]] = file[k]
          /\ at[k] = 0 => InCall(to[k]) /\ txn[to[k]] = TransferOf(k)
          /\ at[k] = -1 => file[k].from # file[k].to
      BY DEF Handed
    <3>3. InCall(to[k]) => InCall(to[k])'
      BY <1>2, <3>1 DEF InCall
    <3> QED
      BY <1>0, <1>2, <3>1, <3>2, <3>3
  <2> QED
    BY <2>1, <2>2
<1>7. ASSUME NEW u \in Tellers
      PROVE  /\ InCall(u)' => \E k \in TransfersRead : to[k] = u /\ at[k] = 0
             /\ \A i \in DOMAIN rings'[u] : rings'[u][i] # EndLine =>
                  \E k \in TransfersRead : to[k] = u /\ at[k] = i
  <2>1. CASE u = t
    <3>1. ~InCall(u)'
      BY <1>2, <2>1 DEF InCall
    <3>2. DOMAIN rings'[u] = {}
      BY <1>3, <2>1
    <3> QED
      BY <3>1, <3>2
  <2>2. CASE u # t
    BY <1>2, <2>2 DEF Handed, InCall
  <2> QED
    BY <2>1, <2>2
<1>8. Handed(to, at)'
  BY <1>0, <1>1, <1>4, <1>6, <1>7 DEF Handed
<1>9. ASSUME NEW places, "exited" \notin places PROVE Past(places, to, at)' = Past(places, to, at)
  <2>1. \A k \in TransfersRead : at[k] = 0 => pc'[to[k]] = pc[to[k]]
    BY <1>2, <1>4, <1>5
  <2> QED
    BY <1>1, <2>1 DEF Past
<1> QED
  BY <1>1, <1>8, <1>9

\* A teller takes the transfer at the front of its ring; those behind it move up.
LEMMA HandedReceive ==
  ASSUME TypeOK, BankInv, LinesInv, NEW to, NEW at, Handed(to, at), NEW t \in Tellers, Receive(t)
  PROVE  \E up : /\ Handed(to, up)' /\ TransfersRead' = TransfersRead
                 /\ \A places : "lock" \notin places => Past(places, to, up)' = Past(places, to, at)
<1>0. /\ file' = file /\ Workers' = Workers /\ lineNo' = lineNo
      /\ \A k : TransferOf(k)' = TransferOf(k)
  <2>1. Next
    BY DEF Next, TellerStep
  <2> QED
    BY <2>1, FileStays, FileFixed DEF Workers, Receive
<1>1. TransfersRead' = TransfersRead
  <2>1. \A kind : LinesOf(kind)' = LinesOf(kind)
    BY <1>0, FileFixed
  <2> QED
    BY <1>0, <2>1 DEF TransfersRead
<1>2. pc[t] = "idle" /\ pc'[t] = "lock"
  BY DEF Receive, Begin, At, GoTo, TypeOK, BankTypeOK
<1>3. \A u \in Tellers \ {t} : pc'[u] = pc[u] /\ rings'[u] = rings[u] /\ txn'[u] = txn[u]
  BY OthersStay DEF TellerStep
<1>4. /\ Len(rings[t]) \in Nat \ {0} /\ DOMAIN rings[t] = 1 .. Len(rings[t])
      /\ DOMAIN rings'[t] = 1 .. Len(rings[t]) - 1
      /\ Head(rings[t]) = rings[t][1]
      /\ \A i \in 1 .. Len(rings[t]) - 1 : rings'[t][i] = rings[t][i + 1]
  BY TakeEffect DEF Receive
<1>5. /\ rings[t][1] # EndLine
      /\ txn'[t] = [from |-> rings[t][1].from, to |-> rings[t][1].to, value |-> rings[t][1].value]
  BY <1>4 DEF Receive, Begin, TypeOK, BankTypeOK
<1>6. /\ to \in [TransfersRead -> Workers] /\ at \in [TransfersRead -> Nat \cup {-1}]
      /\ \A k \in TransfersRead : to[k] \in Tellers
  BY FileTypes DEF Handed
<1>7. PICK up : up = [k \in TransfersRead |-> IF to[k] = t /\ at[k] > 0 THEN at[k] - 1 ELSE at[k]]
  OBVIOUS
<1>8. \A k \in TransfersRead : /\ to[k] # t => up[k] = at[k]
                               /\ to[k] = t => at[k] # 0
                               /\ to[k] = t /\ at[k] = -1 => up[k] = -1
                               /\ to[k] = t /\ at[k] > 0 => up[k] = at[k] - 1
                               /\ at[k] \in Nat \cup {-1} /\ up[k] \in Nat \cup {-1}
  <2>1. \A k \in TransfersRead : to[k] = t => at[k] # 0
    BY <1>2 DEF Handed, InCall
  <2> QED
    BY <1>6, <1>7, <2>1
<1>9. up \in [TransfersRead -> Nat \cup {-1}]
  BY <1>7, <1>8
<1>10. ASSUME NEW k \in TransfersRead
       PROVE  /\ up[k] > 0 => up[k] \in DOMAIN rings'[to[k]] /\ rings'[to[k]][up[k]] = file[k]
              /\ up[k] = 0 => InCall(to[k])' /\ txn'[to[k]] = TransferOf(k)
              /\ up[k] = -1 => file[k].from # file[k].to
  <2>0. /\ at[k] > 0 => at[k] \in DOMAIN rings[to[k]] /\ rings[to[k]][at[k]] = file[k]
        /\ at[k] = 0 => InCall(to[k]) /\ txn[to[k]] = TransferOf(k)
        /\ at[k] = -1 => file[k].from # file[k].to
    BY DEF Handed
  <2>1. CASE to[k] = t /\ at[k] > 0
    <3>1. up[k] = at[k] - 1 /\ at[k] \in 1 .. Len(rings[t]) /\ rings[t][at[k]] = file[k]
      BY <1>4, <1>8, <2>0, <2>1
    <3>2. CASE at[k] = 1
      <4>1. txn'[t] = TransferOf(k)
        BY <1>5, <3>1, <3>2 DEF TransferOf
      <4>2. InCall(t)'
        BY <1>2 DEF InCall
      <4> QED
        BY <2>1, <3>1, <3>2, <4>1, <4>2
    <3>3. CASE at[k] # 1
      <4> DEFINE i == at[k] - 1
      <4>1. i \in 1 .. Len(rings[t]) - 1 /\ i + 1 = at[k]
        BY <1>4, <3>1, <3>3
      <4>2. rings'[t][i] = rings[t][i + 1]
        BY <1>4, <4>1
      <4> QED
        BY <1>4, <2>1, <3>1, <4>1, <4>2
    <3> QED
      BY <3>2, <3>3
  <2>2. CASE to[k] = t /\ ~(at[k] > 0)
    <3>1. at[k] = -1 /\ up[k] = -1
      BY <1>8, <2>2
    <3> QED
      BY <2>0, <3>1
  <2>3. CASE to[k] # t
    <3>1. to[k] \in Tellers \ {t} /\ up[k] = at[k]
      BY <1>6, <1>8, <2>3
    <3>2. InCall(to[k]) => InCall(to[k])'
      BY <1>3, <3>1 DEF InCall
    <3> QED
      BY <1>3, <2>0, <3>1, <3>2
  <2> QED
    BY <2>1, <2>2, <2>3
<1>11. ASSUME NEW k \in TransfersRead, NEW l \in TransfersRead, to[k] = to[l], up[k] = up[l], up[k] >= 0
       PROVE  k = l
  <2>1. at[k] = at[l] /\ at[k] >= 0
    <3>1. CASE to[k] = t
      <4>1. /\ at[k] # 0 /\ (at[k] = -1 => up[k] = -1) /\ (at[k] > 0 => up[k] = at[k] - 1)
            /\ at[k] \in Nat \cup {-1}
        BY <1>8, <3>1
      <4>2. /\ at[l] # 0 /\ (at[l] = -1 => up[l] = -1) /\ (at[l] > 0 => up[l] = at[l] - 1)
            /\ at[l] \in Nat \cup {-1}
        BY <1>8, <1>11, <3>1
      <4> DEFINE a == at[k]
                 b == at[l]
                 c == up[k]
                 d == up[l]
      <4>3. /\ a # 0 /\ (a = -1 => c = -1) /\ (a > 0 => c = a - 1) /\ a \in Nat \cup {-1}
            /\ b # 0 /\ (b = -1 => d = -1) /\ (b > 0 => d = b - 1) /\ b \in Nat \cup {-1}
            /\ c = d /\ c >= 0
        BY <1>11, <4>1, <4>2
      <4> HIDE DEF a, b, c, d
      <4>4. a = b /\ a >= 0
        BY <4>3
      <4> QED
        BY <4>4 DEF a, b
    <3>2. CASE to[k] # t
      BY <1>8, <1>11, <3>2
    <3> QED
      BY <3>1, <3>2
  <2> QED
    BY <1>11, <2>1 DEF Handed
<1>12. ASSUME NEW u \in Tellers
       PROVE  /\ InCall(u)' => \E k \in TransfersRead : to[k] = u /\ up[k] = 0
              /\ \A i \in DOMAIN rings'[u] : rings'[u][i] # EndLine =>
                   \E k \in TransfersRead : to[k] = u /\ up[k] = i
  <2>0. \A i \in DOMAIN rings[u] : rings[u][i] # EndLine => \E k \in TransfersRead : to[k] = u /\ at[k] = i
    BY DEF Handed
  <2>1. CASE u = t
    <3>1. \E k \in TransfersRead : to[k] = u /\ up[k] = 0
      <4>1. 1 \in DOMAIN rings[u]
        BY <1>4, <2>1
      <4>2. PICK k \in TransfersRead : to[k] = u /\ at[k] = 1
        BY <1>5, <2>0, <2>1, <4>1
      <4> QED
        BY <1>8, <2>1, <4>2
    <3>2. ASSUME NEW i \in DOMAIN rings'[u], rings'[u][i] # EndLine
          PROVE  \E k \in TransfersRead : to[k] = u /\ up[k] = i
      <4>1. i \in 1 .. Len(rings[t]) - 1 /\ i + 1 \in DOMAIN rings[u]
        BY <1>4, <2>1, <3>2
      <4>2. rings[u][i + 1] # EndLine
        BY <1>4, <2>1, <3>2, <4>1
      <4>3. PICK k \in TransfersRead : to[k] = u /\ at[k] = i + 1
        BY <2>0, <4>1, <4>2
      <4>4. at[k] > 0 /\ at[k] - 1 = i
        BY <4>1, <4>3
      <4> QED
        BY <1>8, <2>1, <4>3, <4>4
    <3> QED
      BY <3>1, <3>2
  <2>2. CASE u # t
    <3>1. InCall(u)' => \E k \in TransfersRead : to[k] = u /\ at[k] = 0
      BY <1>3, <2>2 DEF Handed, InCall
    <3> QED
      BY <1>3, <1>8, <2>0, <2>2, <3>1
  <2> QED
    BY <2>1, <2>2
<1>13. Handed(to, up)'
  BY <1>0, <1>1, <1>6, <1>9, <1>10, <1>11, <1>12 DEF Handed
<1>14. ASSUME NEW places, "lock" \notin places PROVE Past(places, to, up)' = Past(places, to, at)
  <2>1. \A k \in TransfersRead : /\ up[k] = -1 <=> at[k] = -1
                                 /\ (up[k] = 0 /\ pc'[to[k]] \in places) <=> (at[k] = 0 /\ pc[to[k]] \in places)
    <3> SUFFICES ASSUME NEW k \in TransfersRead
                 PROVE  /\ up[k] = -1 <=> at[k] = -1
                        /\ (up[k] = 0 /\ pc'[to[k]] \in places) <=> (at[k] = 0 /\ pc[to[k]] \in places)
      OBVIOUS
    <3>1. CASE to[k] = t
      <4>1. up[k] = -1 <=> at[k] = -1
        BY <1>8, <3>1
      <4> QED
        BY <1>2, <1>8, <1>14, <3>1, <4>1
    <3>2. CASE to[k] # t
      <4>1. to[k] \in Tellers \ {t} /\ up[k] = at[k]
        BY <1>6, <1>8, <3>2
      <4> QED
        BY <1>3, <4>1
    <3> QED
      BY <3>1, <3>2
  <2> QED
    BY <1>1, <2>1 DEF Past
<1> QED
  BY <1>1, <1>13, <1>14

\* The last step of transaction: the transfer is done.
LEMMA HandedDone ==
  ASSUME TypeOK, BankInv, LinesInv, NEW to, NEW at, Handed(to, at), NEW t \in Tellers,
         Transact(t), PostBank(t)
  PROVE  \E up : /\ Handed(to, up)' /\ TransfersRead' = TransfersRead
                 /\ \A places : "idle" \notin places /\ "postBank" \in places =>
                      Past(places, to, up)' = Past(places, to, at)
<1>0. /\ file' = file /\ Workers' = Workers /\ lineNo' = lineNo /\ txn' = txn /\ rings' = rings
      /\ \A k : TransferOf(k)' = TransferOf(k)
  <2>1. Next
    BY DEF Next, TellerStep
  <2> QED
    BY <2>1, FileStays, FileFixed DEF Workers, Transact, mainVars, PostBank
<1>1. TransfersRead' = TransfersRead
  <2>1. \A kind : LinesOf(kind)' = LinesOf(kind)
    BY <1>0, FileFixed
  <2> QED
    BY <1>0, <2>1 DEF TransfersRead
<1>2. pc[t] = "postBank" /\ pc'[t] = "idle"
  BY DEF PostBank, At, GoTo, TypeOK, BankTypeOK
<1>3. \A u \in Tellers \ {t} : pc'[u] = pc[u]
  BY OthersStay DEF TellerStep
<1>6. /\ to \in [TransfersRead -> Workers] /\ at \in [TransfersRead -> Nat \cup {-1}]
      /\ \A k \in TransfersRead : to[k] \in Tellers
  BY FileTypes DEF Handed
<1>7. PICK up : up = [k \in TransfersRead |-> IF to[k] = t /\ at[k] = 0 THEN -1 ELSE at[k]]
  OBVIOUS
<1>8. \A k \in TransfersRead : /\ to[k] = t /\ at[k] = 0 => up[k] = -1
                               /\ ~(to[k] = t /\ at[k] = 0) => up[k] = at[k]
                               /\ at[k] \in Nat \cup {-1} /\ up[k] \in Nat \cup {-1}
  BY <1>6, <1>7
<1>9. up \in [TransfersRead -> Nat \cup {-1}]
  BY <1>7, <1>8
<1>10. ASSUME NEW k \in TransfersRead
       PROVE  /\ up[k] > 0 => up[k] \in DOMAIN rings'[to[k]] /\ rings'[to[k]][up[k]] = file[k]
              /\ up[k] = 0 => InCall(to[k])' /\ txn'[to[k]] = TransferOf(k)
              /\ up[k] = -1 => file[k].from # file[k].to
  <2>0. /\ at[k] > 0 => at[k] \in DOMAIN rings[to[k]] /\ rings[to[k]][at[k]] = file[k]
        /\ at[k] = 0 => InCall(to[k]) /\ txn[to[k]] = TransferOf(k)
        /\ at[k] = -1 => file[k].from # file[k].to
    BY DEF Handed
  <2>1. CASE to[k] = t /\ at[k] = 0
    <3>1. up[k] = -1 /\ txn[t] = TransferOf(k)
      BY <1>8, <2>0, <2>1
    <3>2. txn[t].from # txn[t].to
      BY <1>2, TakenDistinct DEF Taken, Debited
    <3>3. file[k].from # file[k].to
      BY <3>1, <3>2 DEF TransferOf
    <3> QED
      BY <3>1, <3>3
  <2>2. CASE ~(to[k] = t /\ at[k] = 0)
    <3>1. up[k] = at[k]
      BY <1>8, <2>2
    <3>2. at[k] = 0 => (InCall(to[k]) => InCall(to[k])')
      BY <1>3, <1>6, <2>2 DEF InCall
    <3> QED
      BY <1>0, <2>0, <3>1, <3>2
  <2> QED
    BY <2>1, <2>2
<1>11. ASSUME NEW k \in TransfersRead, NEW l \in TransfersRead, to[k] = to[l], up[k] = up[l], up[k] >= 0
       PROVE  k = l
  <2>1. up[k] # -1 /\ up[l] # -1
    BY <1>11
  <2>2. at[k] = up[k] /\ at[l] = up[l]
    BY <1>8, <2>1
  <2>3. at[k] = at[l] /\ at[k] >= 0
    BY <1>11, <2>2
  <2> QED
    BY <1>11, <2>3 DEF Handed
<1>12. ASSUME NEW u \in Tellers
       PROVE  /\ InCall(u)' => \E k \in TransfersRead : to[k] = u /\ up[k] = 0
              /\ \A i \in DOMAIN rings'[u] : rings'[u][i] # EndLine =>
                   \E k \in TransfersRead : to[k] = u /\ up[k] = i
  <2>1. ASSUME NEW i \in DOMAIN rings[u], rings[u][i] # EndLine
        PROVE  \E k \in TransfersRead : to[k] = u /\ up[k] = i
    <3>1. PICK k \in TransfersRead : to[k] = u /\ at[k] = i
      BY <2>1 DEF Handed
    <3>2. rings[u] \in Seq(TransferLines \cup {EndLine})
      BY DEF TypeOK
    <3>3. i # 0
      BY <2>1, <3>2, LenProperties
    <3> QED
      BY <1>8, <3>1, <3>3
  <2>2. InCall(u)' => \E k \in TransfersRead : to[k] = u /\ up[k] = 0
    <3>1. CASE u = t
      BY <1>2, <3>1 DEF InCall
    <3>2. CASE u # t
      <4>1. InCall(u)' = InCall(u)
        BY <1>3, <3>2 DEF InCall
      <4>2. InCall(u) => \E k \in TransfersRead : to[k] = u /\ at[k] = 0
        BY DEF Handed
      <4> QED
        BY <1>8, <3>2, <4>1, <4>2
    <3> QED
      BY <3>1, <3>2
  <2> QED
    BY <1>0, <2>1, <2>2
<1>13. Handed(to, up)'
  BY <1>0, <1>1, <1>6, <1>9, <1>10, <1>11, <1>12 DEF Handed
<1>14. ASSUME NEW places, "idle" \notin places, "postBank" \in places
       PROVE  Past(places, to, up)' = Past(places, to, at)
  <2>1. \A k \in TransfersRead : (up[k] = -1 \/ (up[k] = 0 /\ pc'[to[k]] \in places))
                                   <=> (at[k] = -1 \/ (at[k] = 0 /\ pc[to[k]] \in places))
    <3> SUFFICES ASSUME NEW k \in TransfersRead
                 PROVE  (up[k] = -1 \/ (up[k] = 0 /\ pc'[to[k]] \in places))
                          <=> (at[k] = -1 \/ (at[k] = 0 /\ pc[to[k]] \in places))
      OBVIOUS
    <3>1. CASE to[k] = t /\ at[k] = 0
      BY <1>2, <1>8, <1>14, <3>1
    <3>2. CASE ~(to[k] = t /\ at[k] = 0)
      <4>1. up[k] = at[k] /\ (at[k] = 0 => pc'[to[k]] = pc[to[k]])
        BY <1>3, <1>6, <1>8, <3>2
      <4> QED
        BY <4>1
    <3> QED
      BY <3>1, <3>2
  <2> QED
    BY <1>1, <2>1 DEF Past
<1> QED
  BY <1>1, <1>13, <1>14

\* Main puts the transfer it has read last at the end of a ring.
LEMMA HandedDispatch ==
  ASSUME TypeOK, BankInv, LinesInv, NEW to, NEW at, Handed(to, at), Dispatch
  PROVE  \E go, up : /\ Handed(go, up)'
                     /\ \A places : Past(places, go, up)' = Past(places, to, at)
<1> DEFINE n == lineNo + 1
           t == ctr % workerCount
<1>0. /\ file' = file /\ Workers' = Workers /\ txn' = txn /\ pc' = pc
      /\ \A k : TransferOf(k)' = TransferOf(k)
      /\ Put(t, Line)
  <2>1. Next
    BY DEF Next, MainStep
  <2> QED
    BY <2>1, FileStays, FileFixed DEF Workers, Dispatch, bankVars
<1>1. /\ n \in LinesOf("transfer") /\ n \notin TransfersRead
      /\ TransfersRead' = TransfersRead \cup {n}
  BY DispatchLines
<1>2. Line \in TransferLines /\ Line = file[n] /\ file[n] # EndLine
  BY <1>1, LineTypes, FileTypes DEF Dispatch, Line
<1>3. t \in Workers /\ t \in Tellers
  BY FileTypes DEF TypeOK, Workers
<1> HIDE DEF n, t
<1>4. /\ \A u \in Tellers \ {t} : rings'[u] = rings[u]
      /\ Len(rings[t]) \in Nat /\ DOMAIN rings[t] = 1 .. Len(rings[t])
      /\ DOMAIN rings'[t] = 1 .. Len(rings[t]) + 1
      /\ rings'[t][Len(rings[t]) + 1] = file[n]
      /\ \A i \in 1 .. Len(rings[t]) : rings'[t][i] = rings[t][i]
  BY <1>0, <1>2, <1>3, PutEffect
<1>5. PICK z : z = Len(rings[t]) + 1
  OBVIOUS
<1>6. /\ to \in [TransfersRead -> Workers] /\ at \in [TransfersRead -> Nat \cup {-1}]
      /\ \A k \in TransfersRead : to[k] \in Tellers
  BY FileTypes DEF Handed
<1>7. PICK w, m : w = t /\ m = n
  OBVIOUS
<1>8. PICK go : go = [k \in TransfersRead \cup {m} |-> IF k = m THEN w ELSE to[k]]
  OBVIOUS
<1>9. PICK up : up = [k \in TransfersRead \cup {m} |-> IF k = m THEN z ELSE at[k]]
  OBVIOUS
<1>10. /\ go[m] = w /\ up[m] = z /\ z \in Nat \ {0}
       /\ \A k \in TransfersRead : go[k] = to[k] /\ up[k] = at[k] /\ k # m
       /\ TransfersRead' = TransfersRead \cup {m} /\ w \in Workers /\ w \in Tellers
  BY <1>1, <1>3, <1>4, <1>5, <1>7, <1>8, <1>9
<1>11. go \in [TransfersRead' -> Workers] /\ up \in [TransfersRead' -> Nat \cup {-1}]
  BY <1>6, <1>8, <1>9, <1>10
<1>12. /\ \A u \in Tellers \ {w} : rings'[u] = rings[u]
       /\ DOMAIN rings'[w] = DOMAIN rings[w] \cup {z} /\ z \notin DOMAIN rings[w]
       /\ rings'[w][z] = file[m]
       /\ \A i \in DOMAIN rings[w] : rings'[w][i] = rings[w][i]
  BY <1>4, <1>5, <1>7
<1>13. \A u \in Tellers : /\ DOMAIN rings[u] \subseteq DOMAIN rings'[u]
                          /\ \A i \in DOMAIN rings[u] : rings'[u][i] = rings[u][i]
  BY <1>12
<1>14. ASSUME NEW k \in TransfersRead'
       PROVE  /\ up[k] > 0 => up[k] \in DOMAIN rings'[go[k]] /\ rings'[go[k]][up[k]] = file[k]
              /\ up[k] = 0 => InCall(go[k])' /\ txn'[go[k]] = TransferOf(k)
              /\ up[k] = -1 => file[k].from # file[k].to
  <2>1. CASE k = m
    BY <1>10, <1>12, <2>1
  <2>2. CASE k \in TransfersRead
    <3>1. /\ at[k] > 0 => at[k] \in DOMAIN rings[to[k]] /\ rings[to[k]][at[k]] = file[k]
          /\ at[k] = 0 => InCall(to[k]) /\ txn[to[k]] = TransferOf(k)
          /\ at[k] = -1 => file[k].from # file[k].to
      BY <2>2 DEF Handed
    <3>2. go[k] = to[k] /\ up[k] = at[k] /\ to[k] \in Tellers
      BY <1>6, <1>10, <2>2
    <3>3. InCall(to[k])' = InCall(to[k])
      BY <1>0 DEF InCall
    <3> QED
      BY <1>0, <1>13, <3>1, <3>2, <3>3
  <2> QED
    BY <1>10, <2>1, <2>2
<1>15. ASSUME NEW k \in TransfersRead', NEW l \in TransfersRead', go[k] = go[l], up[k] = up[l], up[k] >= 0
       PROVE  k = l
  <2>1. \A j \in TransfersRead : ~(to[j] = w /\ at[j] = z)
    <3>1. \A j \in TransfersRead : at[j] > 0 => at[j] \in DOMAIN rings[to[j]]
      BY DEF Handed
    <3> QED
      BY <1>10, <1>12, <3>1
  <2>2. CASE k = m
    BY <1>10, <1>15, <2>1, <2>2
  <2>3. CASE l = m
    BY <1>10, <1>15, <2>1, <2>3
  <2>4. CASE k \in TransfersRead /\ l \in TransfersRead
    <3>1. to[k] = to[l] /\ at[k] = at[l] /\ at[k] >= 0
      BY <1>10, <1>15, <2>4
    <3> QED
      BY <2>4, <3>1 DEF Handed
  <2> QED
    BY <1>10, <2>2, <2>3, <2>4
<1>16. ASSUME NEW u \in Tellers
       PROVE  /\ InCall(u)' => \E k \in TransfersRead' : go[k] = u /\ up[k] = 0
              /\ \A i \in DOMAIN rings'[u] : rings'[u][i] # EndLine =>
                   \E k \in TransfersRead' : go[k] = u /\ up[k] = i
  <2>1. InCall(u)' => \E k \in TransfersRead' : go[k] = u /\ up[k] = 0
    <3>1. InCall(u)' = InCall(u)
      BY <1>0 DEF InCall
    <3>2. InCall(u) => \E k \in TransfersRead : to[k] = u /\ at[k] = 0
      BY DEF Handed
    <3> QED
      BY <1>10, <3>1, <3>2
  <2>2. ASSUME NEW i \in DOMAIN rings'[u], rings'[u][i] # EndLine
        PROVE  \E k \in TransfersRead' : go[k] = u /\ up[k] = i
    <3>1. CASE i \in DOMAIN rings[u]
      <4>1. rings[u][i] # EndLine
        BY <1>13, <2>2, <3>1
      <4>2. PICK k \in TransfersRead : to[k] = u /\ at[k] = i
        BY <3>1, <4>1 DEF Handed
      <4> QED
        BY <1>10, <4>2
    <3>2. CASE i \notin DOMAIN rings[u]
      <4>1. u = w /\ i = z
        BY <1>12, <2>2, <3>2
      <4> QED
        BY <1>10, <4>1
    <3> QED
      BY <3>1, <3>2
  <2> QED
    BY <2>1, <2>2
<1>17. Handed(go, up)'
  BY <1>0, <1>11, <1>14, <1>15, <1>16 DEF Handed
<1>18. \A places : Past(places, go, up)' = Past(places, to, at)
  BY <1>0, <1>10 DEF Past
<1> QED
  BY <1>17, <1>18

\* Which transfers are past a place changes with the teller that moves.
LEMMA PastStep ==
  ASSUME TypeOK, BankInv, LinesInv, NEW to, NEW at, Handed(to, at), NEW t \in Tellers,
         Transact(t), ~PostBank(t), NEW places
  PROVE  /\ (pc'[t] \in places <=> pc[t] \in places) => Past(places, to, at)' = Past(places, to, at)
         /\ pc[t] \notin places /\ pc'[t] \in places =>
              \E k \in TransfersRead : /\ txn[t] = TransferOf(k) /\ k \notin Past(places, to, at)
                                       /\ Past(places, to, at)' = Past(places, to, at) \cup {k}
<1>0. TransfersRead' = TransfersRead
  BY HandedStep
<1>1. \A u \in Tellers \ {t} : pc'[u] = pc[u]
  BY OthersStay DEF TellerStep
<1>2. \A k \in TransfersRead : to[k] \in Tellers
  BY FileTypes DEF Handed
<1>3. ASSUME pc'[t] \in places <=> pc[t] \in places
      PROVE  Past(places, to, at)' = Past(places, to, at)
  <2>1. \A u \in Tellers : pc'[u] \in places <=> pc[u] \in places
    BY <1>1, <1>3
  <2> QED
    BY <1>0, <1>2, <2>1 DEF Past
<1>4. ASSUME pc[t] \notin places, pc'[t] \in places
      PROVE  \E k \in TransfersRead : /\ txn[t] = TransferOf(k) /\ k \notin Past(places, to, at)
                                      /\ Past(places, to, at)' = Past(places, to, at) \cup {k}
  <2>1. InCall(t)
    BY StepMoves DEF InCall, Transact
  <2>2. PICK k \in TransfersRead : to[k] = t /\ at[k] = 0
    BY <2>1 DEF Handed
  <2>3. txn[t] = TransferOf(k)
    BY <2>2 DEF Handed
  <2>4. k \notin Past(places, to, at)
    BY <1>4, <2>2 DEF Past
  <2>5. \A l \in TransfersRead : to[l] = t /\ at[l] = 0 => l = k
    BY <2>2 DEF Handed
  <2>6. \A l \in TransfersRead : (at[l] = -1 \/ (at[l] = 0 /\ pc'[to[l]] \in places))
                                   <=> (at[l] = -1 \/ (at[l] = 0 /\ pc[to[l]] \in places) \/ l = k)
    <3> SUFFICES ASSUME NEW l \in TransfersRead
                 PROVE  (at[l] = -1 \/ (at[l] = 0 /\ pc'[to[l]] \in places))
                          <=> (at[l] = -1 \/ (at[l] = 0 /\ pc[to[l]] \in places) \/ l = k)
      OBVIOUS
    <3>1. CASE to[l] = t
      BY <1>4, <2>2, <2>5, <3>1
    <3>2. CASE to[l] # t
      BY <1>1, <1>2, <2>2, <3>2
    <3> QED
      BY <3>1, <3>2
  <2>7. Past(places, to, at)' = Past(places, to, at) \cup {k}
    BY <1>0, <2>2, <2>6 DEF Past
  <2> QED
    BY <2>3, <2>4, <2>7
<1> QED
  BY <1>3, <1>4

\* What every step does to the transfers that are credited and debited.
Same(places, to, at, go, up) == Past(places, go, up)' = Past(places, to, at)
More(places, to, at, go, up, t) ==
  \E k \in TransfersRead : /\ txn[t] = TransferOf(k) /\ k \notin Past(places, to, at)
                           /\ Past(places, go, up)' = Past(places, to, at) \cup {k}

\* Every step keeps where each transfer is.
LEMMA HandedNext ==
  ASSUME TypeOK, BankInv, LinesInv, NEW to, NEW at, Handed(to, at), Next
  PROVE  \E go, up :
           /\ Handed(go, up)'
           /\ \/ /\ Same(Credited, to, at, go, up) /\ Same(Debited, to, at, go, up)
                 /\ (InsertAccount /\ StoreAccount) \/ balance' = balance
              \/ \E t \in Tellers : /\ Transact(t) /\ StoreTo(t)
                                    /\ More(Credited, to, at, go, up, t) /\ Same(Debited, to, at, go, up)
              \/ \E t \in Tellers : /\ Transact(t) /\ StoreFrom(t)
                                    /\ Same(Credited, to, at, go, up) /\ More(Debited, to, at, go, up, t)
<1> DEFINE Goal(go, up) ==
      /\ Handed(go, up)'
      /\ \/ /\ Same(Credited, to, at, go, up) /\ Same(Debited, to, at, go, up)
            /\ (InsertAccount /\ StoreAccount) \/ balance' = balance
         \/ \E t \in Tellers : /\ Transact(t) /\ StoreTo(t)
                               /\ More(Credited, to, at, go, up, t) /\ Same(Debited, to, at, go, up)
         \/ \E t \in Tellers : /\ Transact(t) /\ StoreFrom(t)
                               /\ Same(Credited, to, at, go, up) /\ More(Debited, to, at, go, up, t)
<1> SUFFICES \E go, up : Goal(go, up)
  OBVIOUS
<1>0. /\ {"lock", "idle", "exited", "storeTo", "unlock", "takeTo"} \cap Credited = {}
      /\ {"lock", "idle", "exited", "storeTo", "loadFrom", "storeFrom", "unlock", "takeTo"} \cap Debited = {}
      /\ {"loadFrom", "storeFrom", "finish", "postBank"} \subseteq Credited /\ {"finish", "postBank"} \subseteq Debited
  BY DEF Credited, Debited
<1>00. pc \in [Tellers -> Places]
  BY DEF TypeOK, BankTypeOK
<1>1. CASE ReadAccount \/ InsertAccount \/ SendEnd \/ Join
  <2>1. Handed(to, at)' /\ \A places : Past(places, to, at)' = Past(places, to, at)
    BY <1>1, HandedMain
  <2>2. (InsertAccount /\ StoreAccount) \/ balance' = balance
    BY <1>1 DEF ReadAccount, ReserveSlot, InsertAccount, AddStep, LockForAccount, Resize, SendEnd, Join, bankVars,
                accountVars
  <2>3. Goal(to, at)
    BY <2>1, <2>2 DEF Same
  <2> QED
    BY <2>3
<1>2. CASE Dispatch
  <2>1. PICK go, up : Handed(go, up)' /\ \A places : Past(places, go, up)' = Past(places, to, at)
    BY <1>2, HandedDispatch
  <2>2. balance' = balance
    BY <1>2 DEF Dispatch, bankVars
  <2>3. Goal(go, up)
    BY <2>1, <2>2 DEF Same
  <2> QED
    BY <2>3
<1>3. ASSUME NEW t \in Tellers, Receive(t) PROVE \E go, up : Goal(go, up)
  <2>1. PICK up : /\ Handed(to, up)'
                  /\ \A places : "lock" \notin places => Past(places, to, up)' = Past(places, to, at)
    BY <1>3, HandedReceive
  <2>2. balance' = balance
    BY <1>3 DEF Receive, Begin, accountVars
  <2>3. Goal(to, up)
    BY <1>0, <2>1, <2>2 DEF Same
  <2> QED
    BY <2>3
<1>4. ASSUME NEW t \in Tellers, ReceiveEnd(t) PROVE \E go, up : Goal(go, up)
  <2>1. Handed(to, at)' /\ \A places : "exited" \notin places => Past(places, to, at)' = Past(places, to, at)
    BY <1>4, HandedEnd
  <2>2. balance' = balance
    BY <1>4 DEF ReceiveEnd, Leave, accountVars
  <2>3. Goal(to, at)
    BY <1>0, <2>1, <2>2 DEF Same
  <2> QED
    BY <2>3
<1>5. ASSUME NEW t \in Tellers, Transact(t) PROVE \E go, up : Goal(go, up)
  <2>1. CASE PostBank(t)
    <3>1. PICK up : /\ Handed(to, up)'
                    /\ \A places : "idle" \notin places /\ "postBank" \in places =>
                         Past(places, to, up)' = Past(places, to, at)
      BY <1>5, <2>1, HandedDone
    <3>2. balance' = balance
      BY <2>1 DEF PostBank, accountVars
    <3>3. Goal(to, up)
      BY <1>0, <3>1, <3>2 DEF Same
    <3> QED
      BY <3>3
  <2>2. CASE ~PostBank(t)
    <3>0. Handed(to, at)' /\ Step(t)
      BY <1>5, <2>2, HandedStep DEF Transact
    <3>1. CASE StoreTo(t)
      <4>1. pc[t] = "storeTo" /\ pc'[t] = "loadFrom"
        BY <1>00, <3>1 DEF StoreTo, At, GoTo
      <4>2. More(Credited, to, at, to, at, t)
        BY <1>0, <1>5, <2>2, <4>1, PastStep DEF More
      <4>3. Same(Debited, to, at, to, at)
        BY <1>0, <1>5, <2>2, <4>1, PastStep DEF Same
      <4>4. Goal(to, at)
        BY <1>5, <3>0, <3>1, <4>2, <4>3
      <4> QED
        BY <4>4
    <3>2. CASE StoreFrom(t)
      <4>1. pc[t] = "storeFrom" /\ pc'[t] = "finish"
        BY <1>00, <3>2 DEF StoreFrom, At, GoTo
      <4>2. More(Debited, to, at, to, at, t)
        BY <1>0, <1>5, <2>2, <4>1, PastStep DEF More
      <4>3. Same(Credited, to, at, to, at)
        BY <1>0, <1>5, <2>2, <4>1, PastStep DEF Same
      <4>4. Goal(to, at)
        BY <1>5, <3>0, <3>2, <4>2, <4>3
      <4> QED
        BY <4>4
    <3>3. CASE LockBank(t) \/ Quiet(t) \/ Fault(t)
      <4>1. /\ pc'[t] \in Credited <=> pc[t] \in Credited
            /\ pc'[t] \in Debited <=> pc[t] \in Debited
        <5>1. CASE LockBank(t)
          <6>1. pc[t] = "lock" /\ pc'[t] \in {"unlock", "takeTo"}
            BY <1>00, <5>1 DEF LockBank, At, TestBoth, WaitFor, GoTo
          <6> QED
            BY <1>0, <6>1
        <5>2. CASE Quiet(t)
          BY <1>00, <5>2 DEF Quiet, MovesTo
        <5>3. CASE Fault(t)
          BY <5>3 DEF Fault
        <5> QED
          BY <3>3, <5>1, <5>2, <5>3
      <4>2. Same(Credited, to, at, to, at) /\ Same(Debited, to, at, to, at)
        BY <1>5, <2>2, <4>1, PastStep DEF Same
      <4>3. balance' = balance
        BY <3>3 DEF LockBank, Quiet, Fault, accountVars
      <4>4. Goal(to, at)
        BY <3>0, <4>2, <4>3
      <4> QED
        BY <4>4
    <3> QED
      BY <2>2, <3>0, <3>1, <3>2, <3>3, TransactEffects
  <2> QED
    BY <2>1, <2>2
<1> QED
  BY <1>1, <1>2, <1>3, <1>4, <1>5 DEF Next, MainStep, TellerStep

-----------------------------------------------------------------------------
\* The balances are those that the lines and the steps done add up to.

\* The sets that the sums range over.
LEMMA SumsDefined ==
  ASSUME TypeOK, NEW to, NEW at, NEW d
  PROVE  /\ IsFiniteSet(Credits(d, to, at)) /\ IsFiniteSet(Debits(d, to, at))
         /\ \A k \in TransfersRead : Value[k] = file[k].value /\ Value[k] \in Int
         /\ \A k \in Credits(d, to, at) \cup Debits(d, to, at) : k \in TransfersRead /\ Value[k] \in Int
         /\ SumFunctionOnSet(Value, Credits(d, to, at)) \in Int
         /\ SumFunctionOnSet(Value, Debits(d, to, at)) \in Int
<1>1. Credits(d, to, at) \subseteq TransfersRead /\ Debits(d, to, at) \subseteq TransfersRead
  BY DEF Credits, Debits, Past
<1>2. IsFiniteSet(TransfersRead)
  BY SlotsOrdered, FS_Subset DEF TransfersRead
<1>3. \A k \in TransfersRead : Value[k] = file[k].value /\ Value[k] \in Int
  BY FileTypes DEF TransfersRead, Value
<1>4. IsFiniteSet(Credits(d, to, at)) /\ IsFiniteSet(Debits(d, to, at))
  BY <1>1, <1>2, FS_Subset
<1>5. \A k \in Credits(d, to, at) \cup Debits(d, to, at) : k \in TransfersRead /\ Value[k] \in Int
  BY <1>1, <1>3
<1>6. SumFunctionOnSet(Value, Credits(d, to, at)) \in Int /\ SumFunctionOnSet(Value, Debits(d, to, at)) \in Int
  BY <1>4, <1>5, SumTakes
<1> QED
  BY <1>3, <1>4, <1>5, <1>6

\* Every step preserves what the balances are.
LEMMA AppliedNext ==
  ASSUME TypeOK, BankInv, LinesInv, NEW to, NEW at, Handed(to, at), Applied(to, at), Next
  PROVE  \E go, up : Handed(go, up)' /\ Applied(go, up)'
<1>0. /\ file' = file /\ Value' = Value
      /\ \A d, n : Declares(d, n)' <=> Declares(d, n)
      /\ \A d, k : /\ Declares(d, file[k].to)' <=> Declares(d, file[k].to)
                   /\ Declares(d, file[k].from)' <=> Declares(d, file[k].from)
      /\ \A d : SlotOfLine(d)' = SlotOfLine(d)
  <2>1. file' = file /\ (\A kind : LinesOf(kind)' = LinesOf(kind)) /\ Value' = Value
    BY FileStays, FileFixed
  <2> QED
    BY <2>1, FileFixed DEF Declares
<1> DEFINE CreditSum(d) == SumFunctionOnSet(Value, Credits(d, to, at))
           DebitSum(d) == SumFunctionOnSet(Value, Debits(d, to, at))
<1>1. /\ \A k \in Past(Credited, to, at) : \E d \in Stored : Declares(d, file[k].to)
      /\ \A k \in Past(Debited, to, at) : \E d \in Stored : Declares(d, file[k].from)
      /\ \A d \in Stored : balance[SlotOfLine(d)] = file[d].balance + CreditSum(d) - DebitSum(d)
  BY DEF Applied
<1>2. PICK go, up :
        /\ Handed(go, up)'
        /\ \/ /\ Same(Credited, to, at, go, up) /\ Same(Debited, to, at, go, up)
              /\ (InsertAccount /\ StoreAccount) \/ balance' = balance
           \/ \E t \in Tellers : /\ Transact(t) /\ StoreTo(t)
                                 /\ More(Credited, to, at, go, up, t) /\ Same(Debited, to, at, go, up)
           \/ \E t \in Tellers : /\ Transact(t) /\ StoreFrom(t)
                                 /\ Same(Credited, to, at, go, up) /\ More(Debited, to, at, go, up, t)
  BY HandedNext
<1>3. \A d : /\ Credits(d, go, up)' = {k \in Past(Credited, go, up)' : Declares(d, file[k].to)}
             /\ Debits(d, go, up)' = {k \in Past(Debited, go, up)' : Declares(d, file[k].from)}
  BY <1>0 DEF Credits, Debits
<1>4. \A d : /\ Same(Credited, to, at, go, up) => Credits(d, go, up)' = Credits(d, to, at)
             /\ Same(Debited, to, at, go, up) => Debits(d, go, up)' = Debits(d, to, at)
  BY <1>3 DEF Same, Credits, Debits
<1>5. ASSUME \A k \in Past(Credited, go, up)' : \E d \in Stored' : Declares(d, file[k].to),
             \A k \in Past(Debited, go, up)' : \E d \in Stored' : Declares(d, file[k].from),
             \A d \in Stored' : balance'[SlotOfLine(d)] =
               file[d].balance + SumFunctionOnSet(Value, Credits(d, go, up)')
                               - SumFunctionOnSet(Value, Debits(d, go, up)')
      PROVE  Applied(go, up)'
  BY <1>0, <1>5 DEF Applied
<1>6. CASE /\ Same(Credited, to, at, go, up) /\ Same(Debited, to, at, go, up)
           /\ InsertAccount /\ StoreAccount
  <2>1. /\ lineNo \in LinesOf("account") /\ lineNo \notin Stored
        /\ balance' = [balance EXCEPT ![SlotOfLine(lineNo)] = file[lineNo].balance]
        /\ Stored' = Stored \cup {lineNo} /\ SlotOfLine(lineNo) \in Slots
    BY <1>6, StoreLines
  <2>2. \A k \in Past(Credited, to, at) : ~Declares(lineNo, file[k].to)
    BY <1>1, <2>1, DeclaresOne
  <2>3. \A k \in Past(Debited, to, at) : ~Declares(lineNo, file[k].from)
    BY <1>1, <2>1, DeclaresOne
  <2>4. Credits(lineNo, to, at) = {} /\ Debits(lineNo, to, at) = {}
    BY <2>2, <2>3 DEF Credits, Debits
  <2>5. file[lineNo].balance \in Int /\ balance \in [Slots -> Int]
    BY <2>1, FileTypes DEF TypeOK, BankTypeOK
  <2>6. \A d \in Stored : SlotOfLine(d) \in Slots /\ SlotOfLine(d) # SlotOfLine(lineNo)
    BY <2>1, StoredIs, SlotsOrdered
  <2>7. ASSUME NEW d \in Stored'
        PROVE  balance'[SlotOfLine(d)] =
                 file[d].balance + SumFunctionOnSet(Value, Credits(d, go, up)')
                                 - SumFunctionOnSet(Value, Debits(d, go, up)')
    <3>1. CASE d = lineNo
      <4>1. /\ SumFunctionOnSet(Value, Credits(d, go, up)') = 0
            /\ SumFunctionOnSet(Value, Debits(d, go, up)') = 0
        BY <1>4, <1>6, <2>4, <3>1, SumOfNone
      <4>2. balance'[SlotOfLine(d)] = file[d].balance /\ file[d].balance \in Int
        BY <2>1, <2>5, <3>1
      <4> QED
        BY <4>1, <4>2
    <3>2. CASE d \in Stored
      <4>1. balance'[SlotOfLine(d)] = balance[SlotOfLine(d)]
        BY <2>1, <2>5, <2>6, <3>2
      <4> QED
        BY <1>1, <1>4, <1>6, <3>2, <4>1
    <3> QED
      BY <2>1, <3>1, <3>2
  <2>8. Past(Credited, go, up)' = Past(Credited, to, at) /\ Past(Debited, go, up)' = Past(Debited, to, at)
    BY <1>6 DEF Same
  <2>9. Applied(go, up)'
    BY <1>1, <1>5, <2>1, <2>7, <2>8
  <2> QED
    BY <1>2, <2>9
<1>7. ASSUME ~(InsertAccount /\ StoreAccount) PROVE Stored' = Stored
  <2>1. CASE ReadAccount
    BY <2>1, ReadLines
  <2>2. CASE Dispatch
    BY <2>2, DispatchLines
  <2>3. CASE Still
    BY <2>3, OtherLines DEF Still
  <2> QED
    BY <1>7, <2>1, <2>2, <2>3, StillSteps
<1>8. CASE /\ Same(Credited, to, at, go, up) /\ Same(Debited, to, at, go, up)
           /\ balance' = balance /\ ~(InsertAccount /\ StoreAccount)
  <2>1. Stored' = Stored
    BY <1>7, <1>8
  <2>2. Past(Credited, go, up)' = Past(Credited, to, at) /\ Past(Debited, go, up)' = Past(Debited, to, at)
    BY <1>8 DEF Same
  <2>3. Applied(go, up)'
    BY <1>1, <1>4, <1>5, <1>8, <2>1, <2>2
  <2> QED
    BY <1>2, <2>3
<1>9. ASSUME NEW t \in Tellers, Transact(t), StoreTo(t) \/ StoreFrom(t)
      PROVE  /\ Stored' = Stored /\ balance \in [Slots -> Int] /\ txn[t].value \in Int
             /\ \A d \in Stored : SlotOfLine(d) \in Slots
             /\ \A d, e \in Stored : SlotOfLine(d) = SlotOfLine(e) => d = e
  <2>0. Step(t) /\ UNCHANGED adding
    BY <1>9, TransactEffects DEF Transact
  <2>1. ~(InsertAccount /\ StoreAccount)
    <3>1. UNCHANGED pc => ~(StoreTo(t) \/ StoreFrom(t))
      BY DEF StoreTo, StoreFrom, At, GoTo, TypeOK, BankTypeOK
    <3>2. StoreAccount => UNCHANGED pc
      BY DEF StoreAccount, callVars
    <3> QED
      BY <1>9, <3>1, <3>2
  <2>2. Stored' = Stored
    BY <1>7, <2>1
  <2>3. InCall(t)
    BY <1>9 DEF InCall, StoreTo, StoreFrom, At
  <2>4. txn[t].value \in Int
    <3>1. txn[t] \in Transfers
      BY <2>3, CallOfLine
    <3> QED
      BY <3>1 DEF Transfers
  <2> QED
    BY <2>2, <2>4, StoredIs, SlotsOrdered DEF TypeOK, BankTypeOK
<1>10. ASSUME NEW t \in Tellers, Transact(t), StoreTo(t), More(Credited, to, at, go, up, t),
              Same(Debited, to, at, go, up)
       PROVE  Applied(go, up)'
  <2>1. PICK k \in TransfersRead : /\ txn[t] = TransferOf(k) /\ k \notin Past(Credited, to, at)
                                   /\ Past(Credited, go, up)' = Past(Credited, to, at) \cup {k}
    BY <1>10 DEF More
  <2>2. pc[t] = "storeTo" /\ pc[t] \in Reaching /\ toAcc[t] # NULL
    BY <1>10 DEF StoreTo, At, Reaching, Places, BankInv, PointerInv, Points, Slots, NULL
  <2>3. PICK e \in Stored : Declares(e, txn[t].to) /\ toAcc[t] = SlotOfLine(e)
    BY <2>2 DEF LinesInv, PointerLines
  <2>4. txn[t].to = file[k].to /\ txn[t].value = Value[k] /\ Value[k] \in Int
    BY <2>1, SumsDefined DEF TransferOf
  <2>5. balance' = [balance EXCEPT ![SlotOfLine(e)] = balance[SlotOfLine(e)] + Value[k]]
    BY <1>10, <2>2, <2>3, <2>4 DEF StoreTo, BankInv, NoLostUpdate
  <2>6. Past(Debited, go, up)' = Past(Debited, to, at)
    BY <1>10 DEF Same
  <2>7. /\ \A l \in Past(Credited, go, up)' : \E d \in Stored' : Declares(d, file[l].to)
        /\ \A l \in Past(Debited, go, up)' : \E d \in Stored' : Declares(d, file[l].from)
    BY <1>1, <1>9, <1>10, <2>1, <2>3, <2>4, <2>6
  <2>8. ASSUME NEW d \in Stored'
        PROVE  balance'[SlotOfLine(d)] =
                 file[d].balance + SumFunctionOnSet(Value, Credits(d, go, up)')
                                 - SumFunctionOnSet(Value, Debits(d, go, up)')
    <3>0. d \in Stored /\ SlotOfLine(d) \in Slots /\ SlotOfLine(e) \in Slots /\ balance \in [Slots -> Int]
      BY <1>9, <1>10
    <3>1. CASE d = e
      <4>1. Credits(d, go, up)' = Credits(d, to, at) \cup {k} /\ k \notin Credits(d, to, at)
        BY <1>3, <2>1, <2>3, <2>4, <3>1 DEF Credits
      <4>2. SumFunctionOnSet(Value, Credits(d, go, up)') = CreditSum(d) + Value[k]
        <5>1. IsFiniteSet(Credits(d, to, at)) /\ \A y \in Credits(d, to, at) : Value[y] \in Int
          BY SumsDefined
        <5> QED
          BY <2>4, <4>1, <5>1, SumAdds
      <4>3. SumFunctionOnSet(Value, Debits(d, go, up)') = DebitSum(d)
        BY <1>4, <1>10
      <4>4. balance'[SlotOfLine(d)] = balance[SlotOfLine(d)] + Value[k]
        BY <2>5, <3>0, <3>1
      <4>5. balance[SlotOfLine(d)] = file[d].balance + CreditSum(d) - DebitSum(d)
        BY <1>1, <3>0
      <4>6. CreditSum(d) \in Int /\ DebitSum(d) \in Int /\ file[d].balance \in Int
        BY <3>0, SumsDefined, FileTypes DEF Stored
      <4> HIDE DEF CreditSum, DebitSum
      <4> QED
        BY <2>4, <4>2, <4>3, <4>4, <4>5, <4>6
    <3>2. CASE d # e
      <4>1. Credits(d, go, up)' = Credits(d, to, at)
        <5>1. ~Declares(d, file[k].to)
          BY <2>3, <2>4, <3>2, DeclaresOne
        <5> QED
          BY <1>3, <2>1, <5>1 DEF Credits
      <4>2. balance'[SlotOfLine(d)] = balance[SlotOfLine(d)]
        BY <1>9, <1>10, <2>5, <3>0, <3>2
      <4> QED
        BY <1>1, <1>4, <1>10, <3>0, <4>1, <4>2
    <3> QED
      BY <3>1, <3>2
  <2> QED
    BY <1>5, <2>7, <2>8
<1>11. ASSUME NEW t \in Tellers, Transact(t), StoreFrom(t), Same(Credited, to, at, go, up),
              More(Debited, to, at, go, up, t)
       PROVE  Applied(go, up)'
  <2>1. PICK k \in TransfersRead : /\ txn[t] = TransferOf(k) /\ k \notin Past(Debited, to, at)
                                   /\ Past(Debited, go, up)' = Past(Debited, to, at) \cup {k}
    BY <1>11 DEF More
  <2>2. pc[t] = "storeFrom" /\ pc[t] \in Reaching
    BY <1>11 DEF StoreFrom, At, Reaching, Places
  <2>3. PICK e \in Stored : Declares(e, txn[t].from) /\ fromAcc[t] = SlotOfLine(e)
    BY <2>2 DEF LinesInv, PointerLines
  <2>4. txn[t].from = file[k].from /\ txn[t].value = Value[k] /\ Value[k] \in Int
    BY <2>1, SumsDefined DEF TransferOf
  <2>5. balance' = [balance EXCEPT ![SlotOfLine(e)] = balance[SlotOfLine(e)] - Value[k]]
    BY <1>11, <2>2, <2>3, <2>4 DEF StoreFrom, BankInv, NoLostUpdate
  <2>6. Past(Credited, go, up)' = Past(Credited, to, at)
    BY <1>11 DEF Same
  <2>7. /\ \A l \in Past(Credited, go, up)' : \E d \in Stored' : Declares(d, file[l].to)
        /\ \A l \in Past(Debited, go, up)' : \E d \in Stored' : Declares(d, file[l].from)
    BY <1>1, <1>9, <1>11, <2>1, <2>3, <2>4, <2>6
  <2>8. ASSUME NEW d \in Stored'
        PROVE  balance'[SlotOfLine(d)] =
                 file[d].balance + SumFunctionOnSet(Value, Credits(d, go, up)')
                                 - SumFunctionOnSet(Value, Debits(d, go, up)')
    <3>0. d \in Stored /\ SlotOfLine(d) \in Slots /\ SlotOfLine(e) \in Slots /\ balance \in [Slots -> Int]
      BY <1>9, <1>11
    <3>1. CASE d = e
      <4>1. Debits(d, go, up)' = Debits(d, to, at) \cup {k} /\ k \notin Debits(d, to, at)
        BY <1>3, <2>1, <2>3, <2>4, <3>1 DEF Debits
      <4>2. SumFunctionOnSet(Value, Debits(d, go, up)') = DebitSum(d) + Value[k]
        <5>1. IsFiniteSet(Debits(d, to, at)) /\ \A y \in Debits(d, to, at) : Value[y] \in Int
          BY SumsDefined
        <5> QED
          BY <2>4, <4>1, <5>1, SumAdds
      <4>3. SumFunctionOnSet(Value, Credits(d, go, up)') = CreditSum(d)
        BY <1>4, <1>11
      <4>4. balance'[SlotOfLine(d)] = balance[SlotOfLine(d)] - Value[k]
        BY <2>5, <3>0, <3>1
      <4>5. balance[SlotOfLine(d)] = file[d].balance + CreditSum(d) - DebitSum(d)
        BY <1>1, <3>0
      <4>6. CreditSum(d) \in Int /\ DebitSum(d) \in Int /\ file[d].balance \in Int
        BY <3>0, SumsDefined, FileTypes DEF Stored
      <4> HIDE DEF CreditSum, DebitSum
      <4> QED
        BY <2>4, <4>2, <4>3, <4>4, <4>5, <4>6
    <3>2. CASE d # e
      <4>1. Debits(d, go, up)' = Debits(d, to, at)
        <5>1. ~Declares(d, file[k].from)
          BY <2>3, <2>4, <3>2, DeclaresOne
        <5> QED
          BY <1>3, <2>1, <5>1 DEF Debits
      <4>2. balance'[SlotOfLine(d)] = balance[SlotOfLine(d)]
        BY <1>9, <1>11, <2>5, <3>0, <3>2
      <4> QED
        BY <1>1, <1>4, <1>11, <3>0, <4>1, <4>2
    <3> QED
      BY <3>1, <3>2
  <2> QED
    BY <1>5, <2>7, <2>8
<1> QED
  BY <1>2, <1>6, <1>8, <1>10, <1>11

\* The balances of the account lines, and the values of the calls.
FirstBalance == [d \in LinesOf("account") |-> file[d].balance]
CallValue == [t \in Tellers |-> txn[t].value]

\* What the sums of Conservation range over.
LEMMA MoneyDefined ==
  ASSUME TypeOK
  PROVE  /\ IsFiniteSet(Slots) /\ IsFiniteSet(Stored) /\ IsFiniteSet(Halfway)
         /\ \A i \in Slots : balance[i] \in Int
         /\ \A d \in LinesOf("account") : FirstBalance[d] = file[d].balance /\ FirstBalance[d] \in Int
         /\ \A t \in Tellers : CallValue[t] = txn[t].value /\ CallValue[t] \in Int
         /\ Halfway \subseteq Tellers /\ Stored \subseteq LinesOf("account")
         /\ SumFunctionOnSet(balance, Slots) \in Int
         /\ SumFunctionOnSet(FirstBalance, Stored) \in Int
         /\ SumFunctionOnSet(CallValue, Halfway) \in Int
<1>1. IsFiniteSet(Slots)
  BY BankAssumption, FS_Interval DEF Slots
<1>2. IsFiniteSet(Stored) /\ Stored \subseteq LinesOf("account")
  BY SlotsOrdered, FS_Subset DEF Stored
<1>3. IsFiniteSet(Halfway) /\ Halfway \subseteq Tellers
  BY EftAssumption, FS_Subset DEF Halfway
<1>4. \A i \in Slots : balance[i] \in Int
  BY DEF TypeOK, BankTypeOK
<1>5. \A d \in LinesOf("account") : FirstBalance[d] = file[d].balance /\ FirstBalance[d] \in Int
  BY FileTypes DEF FirstBalance
<1>6. \A t \in Tellers : CallValue[t] = txn[t].value /\ CallValue[t] \in Int
  <2>1. txn \in [Tellers -> Transfers \cup {NoTransfer}]
    BY DEF TypeOK, BankTypeOK
  <2>2. \A x \in Transfers \cup {NoTransfer} : x.value \in Int
    BY DEF Transfers, NoTransfer
  <2> QED
    BY <2>1, <2>2 DEF CallValue
<1>7. SumFunctionOnSet(balance, Slots) \in Int
  BY <1>1, <1>4, SumTakes
<1>8. SumFunctionOnSet(FirstBalance, Stored) \in Int
  <2>1. \A d \in Stored : FirstBalance[d] \in Int
    BY <1>2, <1>5
  <2> QED
    BY <1>2, <2>1, SumTakes
<1>9. SumFunctionOnSet(CallValue, Halfway) \in Int
  <2>1. \A t \in Halfway : CallValue[t] \in Int
    BY <1>3, <1>6
  <2> QED
    BY <1>3, <2>1, SumTakes
<1> QED
  BY <1>1, <1>2, <1>3, <1>4, <1>5, <1>6, <1>7, <1>8, <1>9

\* Every step preserves the sum.
LEMMA MoneyNext ==
  ASSUME TypeOK, BankInv, LinesInv, NEW to, NEW at, Handed(to, at), Conservation, Next
  PROVE  Conservation'
<1> DEFINE Bal == SumFunctionOnSet(balance, Slots)
           First == SumFunctionOnSet(FirstBalance, Stored)
           Half == SumFunctionOnSet(CallValue, Halfway)
<1>0. Bal = First + Half
  BY DEF Conservation, FirstBalance, CallValue
<1>1. file' = file /\ FirstBalance' = FirstBalance /\ LinesOf("account")' = LinesOf("account")
  BY FileStays, FileFixed DEF FirstBalance
<1>2. SUFFICES SumFunctionOnSet(balance', Slots)
                 = SumFunctionOnSet(FirstBalance, Stored') + SumFunctionOnSet(CallValue', Halfway')
  BY <1>1 DEF Conservation, FirstBalance, CallValue
<1>3. Bal \in Int /\ First \in Int /\ Half \in Int
  BY MoneyDefined
<1>4. ASSUME \A t \in Tellers : /\ t \in Halfway' <=> t \in Halfway
                                /\ t \in Halfway => txn'[t] = txn[t]
      PROVE  SumFunctionOnSet(CallValue', Halfway') = Half
  <2>1. Halfway' = Halfway
    BY <1>4 DEF Halfway
  <2>2. \A t \in Halfway : CallValue'[t] = CallValue[t]
    <3>1. \A t \in Halfway : t \in Tellers
      BY DEF Halfway
    <3> QED
      BY <1>4, <3>1 DEF CallValue
  <2>3. IsFiniteSet(Halfway)
    BY MoneyDefined
  <2> QED
    BY <2>1, <2>2, <2>3, SumAgrees
<1>5. CASE InsertAccount /\ StoreAccount
  <2> DEFINE s == SlotOfLine(lineNo)
  <2>1. /\ lineNo \in LinesOf("account") /\ lineNo \notin Stored /\ Stored' = Stored \cup {lineNo}
        /\ s \in Slots /\ balance' = [balance EXCEPT ![s] = file[lineNo].balance]
        /\ adding # NoAccount /\ adding.id = s /\ UNCHANGED <<pc, txn>>
    BY <1>5, StoreLines DEF callVars
  <2>2. balance[s] = 0
    <3>1. number[s] = 0
      BY <2>1 DEF BankInv, TableInv
    <3> QED
      BY <2>1, <3>1 DEF LinesInv, SlotsInv
  <2> HIDE DEF s
  <2>3. balance \in [Slots -> Int] /\ FirstBalance[lineNo] = file[lineNo].balance /\ FirstBalance[lineNo] \in Int
    BY <2>1, MoneyDefined DEF TypeOK, BankTypeOK
  <2>4. balance'[s] = FirstBalance[lineNo] /\ \A y \in Slots \ {s} : balance'[y] = balance[y]
    BY <2>1, <2>3
  <2>5. SumFunctionOnSet(balance', Slots) = Bal + (balance'[s] - balance[s])
    <3>1. IsFiniteSet(Slots) /\ \A y \in Slots : balance[y] \in Int
      BY MoneyDefined
    <3>2. s \in Slots /\ balance'[s] \in Int /\ \A y \in Slots \ {s} : balance'[y] = balance[y]
      BY <2>1, <2>3, <2>4
    <3> QED
      BY <3>1, <3>2, SumChanges
  <2>6. SumFunctionOnSet(FirstBalance, Stored') = First + FirstBalance[lineNo]
    <3>1. IsFiniteSet(Stored) /\ \A d \in Stored : FirstBalance[d] \in Int
      BY MoneyDefined
    <3> QED
      BY <2>1, <2>3, <3>1, SumAdds
  <2>7. SumFunctionOnSet(CallValue', Halfway') = Half
    BY <1>4, <2>1 DEF Halfway
  <2> HIDE DEF Bal, First, Half
  <2> QED
    BY <1>0, <1>3, <2>2, <2>3, <2>4, <2>5, <2>6, <2>7
<1>6. ASSUME ~(InsertAccount /\ StoreAccount) PROVE Stored' = Stored
  <2>1. CASE ReadAccount
    BY <2>1, ReadLines
  <2>2. CASE Dispatch
    BY <2>2, DispatchLines
  <2>3. CASE Still
    BY <2>3, OtherLines DEF Still
  <2> QED
    BY <1>6, <2>1, <2>2, <2>3, StillSteps
<1>7. ASSUME NEW t \in Tellers, Transact(t), StoreTo(t) \/ StoreFrom(t)
      PROVE  /\ Stored' = Stored /\ txn' = txn /\ CallValue' = CallValue /\ txn[t].value = CallValue[t]
             /\ CallValue[t] \in Int /\ balance \in [Slots -> Int]
             /\ toAcc[t] \in Slots /\ fromAcc[t] \in Slots
             /\ \A u \in Tellers \ {t} : pc'[u] = pc[u]
  <2>1. txn' = txn
    BY <1>7, TransactEffects DEF Transact
  <2>2. ~(InsertAccount /\ StoreAccount)
    <3>1. UNCHANGED pc => ~(StoreTo(t) \/ StoreFrom(t))
      BY DEF StoreTo, StoreFrom, At, GoTo, TypeOK, BankTypeOK
    <3>2. StoreAccount => UNCHANGED pc
      BY DEF StoreAccount, callVars
    <3> QED
      BY <1>7, <3>1, <3>2
  <2>3. pc[t] \in {"storeTo", "storeFrom"}
    BY <1>7 DEF StoreTo, StoreFrom, At
  <2>4. Points(toAcc[t]) /\ Points(fromAcc[t])
    BY <2>3 DEF BankInv, PointerInv, Reaching, Places
  <2>5. \A u \in Tellers \ {t} : pc'[u] = pc[u]
    BY <1>7, OthersStay DEF TellerStep
  <2>6. CallValue' = CallValue
    BY <2>1 DEF CallValue
  <2> QED
    BY <1>6, <2>1, <2>2, <2>4, <2>5, <2>6, MoneyDefined DEF Points, TypeOK, BankTypeOK
<1>8. ASSUME NEW t \in Tellers, Transact(t), StoreTo(t)
      PROVE  SumFunctionOnSet(balance', Slots)
               = SumFunctionOnSet(FirstBalance, Stored') + SumFunctionOnSet(CallValue', Halfway')
  <2> DEFINE a == toAcc[t]
             v == CallValue[t]
  <2>1. /\ Stored' = Stored /\ CallValue' = CallValue /\ txn[t].value = v /\ v \in Int
        /\ balance \in [Slots -> Int] /\ a \in Slots /\ \A u \in Tellers \ {t} : pc'[u] = pc[u]
    BY <1>7, <1>8
  <2>2. pc[t] = "storeTo" /\ pc'[t] = "loadFrom"
    BY <1>8 DEF StoreTo, At, GoTo, TypeOK, BankTypeOK
  <2>3. balance' = [balance EXCEPT ![a] = balance[a] + v]
    BY <1>8, <2>1, <2>2 DEF StoreTo, BankInv, NoLostUpdate
  <2>4. t \notin Halfway /\ Halfway' = Halfway \cup {t}
    BY <2>1, <2>2 DEF Halfway
  <2> HIDE DEF a, v
  <2>5. balance'[a] = balance[a] + v /\ balance'[a] \in Int /\ balance[a] \in Int
        /\ \A y \in Slots \ {a} : balance'[y] = balance[y]
    BY <2>1, <2>3
  <2>6. SumFunctionOnSet(balance', Slots) = Bal + (balance'[a] - balance[a])
    <3>1. IsFiniteSet(Slots) /\ \A y \in Slots : balance[y] \in Int
      BY MoneyDefined
    <3>2. a \in Slots /\ balance'[a] \in Int /\ \A y \in Slots \ {a} : balance'[y] = balance[y]
      BY <2>1, <2>5
    <3> QED
      BY <3>1, <3>2, SumChanges
  <2>7. SumFunctionOnSet(CallValue, Halfway \cup {t}) = Half + CallValue[t]
    <3>1. IsFiniteSet(Halfway) /\ (\A u \in Halfway : CallValue[u] \in Int) /\ CallValue[t] \in Int
      BY MoneyDefined
    <3> QED
      BY <2>4, <3>1, SumAdds
  <2>8. SumFunctionOnSet(CallValue', Halfway') = Half + v
    BY <2>1, <2>4, <2>7 DEF v
  <2> HIDE DEF Bal, First, Half
  <2>9. SumFunctionOnSet(FirstBalance, Stored') = First
    BY <2>1 DEF First
  <2> QED
    BY <1>0, <1>3, <2>1, <2>5, <2>6, <2>8, <2>9
<1>9. ASSUME NEW t \in Tellers, Transact(t), StoreFrom(t)
      PROVE  SumFunctionOnSet(balance', Slots)
               = SumFunctionOnSet(FirstBalance, Stored') + SumFunctionOnSet(CallValue', Halfway')
  <2> DEFINE a == fromAcc[t]
             v == CallValue[t]
  <2>1. /\ Stored' = Stored /\ CallValue' = CallValue /\ txn[t].value = v /\ v \in Int
        /\ balance \in [Slots -> Int] /\ a \in Slots /\ \A u \in Tellers \ {t} : pc'[u] = pc[u]
    BY <1>7, <1>9
  <2>2. pc[t] = "storeFrom" /\ pc'[t] = "finish"
    BY <1>9 DEF StoreFrom, At, GoTo, TypeOK, BankTypeOK
  <2>3. balance' = [balance EXCEPT ![a] = balance[a] - v]
    BY <1>9, <2>1, <2>2 DEF StoreFrom, BankInv, NoLostUpdate
  <2>4. t \in Halfway /\ Halfway' = Halfway \ {t}
    BY <2>1, <2>2 DEF Halfway
  <2> HIDE DEF a, v
  <2>5. balance'[a] = balance[a] - v /\ balance'[a] \in Int /\ balance[a] \in Int
        /\ \A y \in Slots \ {a} : balance'[y] = balance[y]
    BY <2>1, <2>3
  <2>6. SumFunctionOnSet(balance', Slots) = Bal + (balance'[a] - balance[a])
    <3>1. IsFiniteSet(Slots) /\ \A y \in Slots : balance[y] \in Int
      BY MoneyDefined
    <3>2. a \in Slots /\ balance'[a] \in Int /\ \A y \in Slots \ {a} : balance'[y] = balance[y]
      BY <2>1, <2>5
    <3> QED
      BY <3>1, <3>2, SumChanges
  <2>7. Half = CallValue[t] + SumFunctionOnSet(CallValue, Halfway \ {t})
    <3>1. IsFiniteSet(Halfway) /\ \A u \in Halfway : CallValue[u] \in Int
      BY MoneyDefined
    <3> QED
      BY <2>4, <3>1, SumTakes
  <2>8. SumFunctionOnSet(CallValue, Halfway \ {t}) \in Int
    <3>1. IsFiniteSet(Halfway \ {t}) /\ \A u \in Halfway \ {t} : CallValue[u] \in Int
      BY MoneyDefined, FS_Subset
    <3> QED
      BY <3>1, SumTakes
  <2> DEFINE Less == SumFunctionOnSet(CallValue, Halfway \ {t})
  <2>9. SumFunctionOnSet(CallValue', Halfway') = Less /\ Half = v + Less /\ Less \in Int
    BY <2>1, <2>4, <2>7, <2>8 DEF v
  <2> HIDE DEF Bal, First, Half, Less
  <2>10. SumFunctionOnSet(FirstBalance, Stored') = First
    BY <2>1 DEF First
  <2> QED
    BY <1>0, <1>3, <2>1, <2>5, <2>6, <2>9, <2>10
<1>10. CASE /\ ~(InsertAccount /\ StoreAccount)
            /\ \A t \in Tellers : ~(Transact(t) /\ (StoreTo(t) \/ StoreFrom(t)))
  <2>1. Stored' = Stored
    BY <1>6, <1>10
  <2>2. balance' = balance
    BY <1>10, HandedNext
  <2>3. ASSUME NEW u \in Tellers
        PROVE  /\ u \in Halfway' <=> u \in Halfway
               /\ u \in Halfway => txn'[u] = txn[u]
    <3>1. CASE MainStep
      BY <3>1, MainStays DEF callVars, Halfway
    <3>2. ASSUME NEW t \in Tellers, TellerStep(t), t # u
          PROVE  pc'[u] = pc[u] /\ txn'[u] = txn[u]
      BY <3>2, OthersStay
    <3>3. ASSUME TellerStep(u)
          PROVE  /\ pc'[u] \in {"loadFrom", "storeFrom"} <=> pc[u] \in {"loadFrom", "storeFrom"}
                 /\ pc[u] \in {"loadFrom", "storeFrom"} => txn'[u] = txn[u]
      <4>0. pc \in [Tellers -> Places]
        BY DEF TypeOK, BankTypeOK
      <4>1. CASE Receive(u) \/ ReceiveEnd(u)
        BY <4>0, <4>1 DEF Receive, ReceiveEnd, Begin, Leave, At, GoTo
      <4>2. CASE Transact(u)
        <5>1. Step(u) /\ txn' = txn /\ ~StoreTo(u) /\ ~StoreFrom(u)
          BY <1>10, <4>2, TransactEffects DEF Transact
        <5>2. CASE LockBank(u) \/ PostBank(u)
          BY <4>0, <5>1, <5>2 DEF LockBank, PostBank, At, TestBoth, WaitFor, GoTo
        <5>3. CASE Quiet(u)
          <6>1. /\ pc'[u] \in Credited <=> pc[u] \in Credited
                /\ pc'[u] \in Debited <=> pc[u] \in Debited
            BY <4>0, <5>3 DEF Quiet, MovesTo
          <6>2. \A p : p \in {"loadFrom", "storeFrom"} <=> p \in Credited /\ p \notin Debited
            BY DEF Credited, Debited
          <6> QED
            BY <5>1, <6>1, <6>2
        <5>4. CASE Fault(u)
          BY <5>1, <5>4 DEF Fault
        <5> QED
          BY <5>1, <5>2, <5>3, <5>4, TransactEffects
      <4> QED
        BY <3>3, <4>1, <4>2 DEF TellerStep
    <3> QED
      BY <3>1, <3>2, <3>3 DEF Next, Halfway
  <2>4. SumFunctionOnSet(CallValue', Halfway') = Half
    BY <1>4, <2>3
  <2> QED
    BY <1>0, <2>1, <2>2, <2>4
<1> QED
  BY <1>5, <1>8, <1>9, <1>10

-----------------------------------------------------------------------------
\* The inductive invariant, and what follows from it.

\* Zeros add up to zero.
LEMMA SumOfZeros ==
  ASSUME NEW S, IsFiniteSet(S), NEW f, \A x \in S : f[x] = 0
  PROVE  SumFunctionOnSet(f, S) = 0
<1> DEFINE Bad == {s \in SUBSET S : SumFunctionOnSet(f, s) # 0}
<1>1. Bad = {}
  <2> SUFFICES ASSUME Bad # {} PROVE FALSE
    OBVIOUS
  <2>1. PICK s \in Bad : \A u \in Bad : ~(u \subseteq s /\ u # s)
    <3>1. Bad \in SUBSET (SUBSET S)
      OBVIOUS
    <3> HIDE DEF Bad
    <3> QED
      BY <3>1, SmallestSet
  <2>2. s \in SUBSET S /\ SumFunctionOnSet(f, s) # 0
    BY <2>1
  <2>3. PICK x \in s : TRUE
    BY <2>2, SumOfNone
  <2>4. SumFunctionOnSet(f, s) = f[x] + SumFunctionOnSet(f, s \ {x}) /\ f[x] = 0
    <3>1. IsFiniteSet(s)
      BY <2>2, FS_Subset
    <3>2. \A y \in s : f[y] = 0 /\ f[y] \in Int
      BY <2>2
    <3> QED
      BY <2>3, <3>1, <3>2, SumTakes
  <2>5. s \ {x} \in SUBSET S /\ s \ {x} \subseteq s /\ s \ {x} # s
    BY <2>2, <2>3
  <2>6. SumFunctionOnSet(f, s \ {x}) = 0
    BY <2>1, <2>5
  <2> QED
    BY <2>2, <2>4, <2>6
<1>2. S \in SUBSET S
  OBVIOUS
<1> QED
  BY <1>1, <1>2

\* What is true of the program in every state: the types, the bank's invariant, what
\* main and the tellers have made of the lines, and that no money is lost.
EftInv ==
  /\ TypeOK /\ BankInv /\ LinesInv /\ Conservation
  /\ \E to, at : Handed(to, at) /\ Applied(to, at)

\* It is true when main starts to read.
LEMMA EftInvInit ==
  ASSUME Init
  PROVE  EftInv
<1>0. TypeOK /\ BankInv
  BY InitTypes
<1>1. /\ lineNo = 0 /\ adding = NoAccount /\ size = 0 /\ capacity = InitCapacity /\ fault = "none" /\ ended = 0 /\ joined = 0
      /\ \A t \in Tellers : pc[t] = "idle" /\ rings[t] = <<>>
      /\ balance = [i \in Slots |-> 0]
  BY DEF Init, BankInit
<1>2. AccountsRead = {} /\ TransfersRead = {} /\ Stored = {} /\ Halfway = {}
  <2>1. /\ \A d \in LinesOf("account") : ~(d <= lineNo)
        /\ \A k \in LinesOf("transfer") : ~(k <= lineNo)
    BY <1>0, <1>1, FileTypes
  <2>2. Halfway = {}
    BY <1>1 DEF Halfway
  <2> QED
    BY <2>1, <2>2 DEF AccountsRead, TransfersRead, Stored
<1>3. AddInv /\ DistinctInv /\ PointerLines
  BY <1>1 DEF AddInv, DistinctInv, PointerLines, Reaching
<1>4. SlotsInv
  BY <1>1, <1>2, FS_EmptySet DEF SlotsInv
<1>5. \A t \in Tellers : DOMAIN rings[t] = {}
  <2>1. DOMAIN <<>> = {}
    OBVIOUS
  <2> QED
    BY <1>1, <2>1
<1>6. EndInv
  <2>1. ~Done
    BY <1>0, <1>1, FileTypes DEF Done
  <2> QED
    BY <1>1, <1>5, <2>1 DEF EndInv
<1>7. WildInv
  BY <1>1, BankAssumption DEF WildInv, Reaching
<1>8. Conservation
  <2>1. SumFunctionOnSet(balance, Slots) = 0
    <3>1. IsFiniteSet(Slots) /\ \A i \in Slots : balance[i] = 0
      BY <1>0, <1>1, MoneyDefined
    <3> QED
      BY <3>1, SumOfZeros
  <2>2. /\ SumFunctionOnSet([d \in LinesOf("account") |-> file[d].balance], Stored) = 0
        /\ SumFunctionOnSet([t \in Tellers |-> txn[t].value], Halfway) = 0
    BY <1>2, SumOfNone
  <2> QED
    BY <2>1, <2>2 DEF Conservation
<1>9. \E to, at : Handed(to, at) /\ Applied(to, at)
  <2>1. PICK none : none = [k \in TransfersRead |-> 0]
    OBVIOUS
  <2>2. none \in [TransfersRead -> Workers] /\ none \in [TransfersRead -> Nat \cup {-1}]
    BY <1>2, <2>1
  <2>3. Handed(none, none)
    BY <1>1, <1>2, <1>5, <2>2 DEF Handed, InCall
  <2>4. Applied(none, none)
    BY <1>2 DEF Applied, Past
  <2> QED
    BY <2>3, <2>4
<1> QED
  BY <1>0, <1>3, <1>4, <1>6, <1>7, <1>8, <1>9 DEF EftInv, LinesInv

\* Every step of main and of the tellers preserves it.
LEMMA EftInvNext ==
  ASSUME EftInv, [Next]_vars
  PROVE  EftInv'
<1>0. TypeOK' /\ BankInv'
  <2>1. BankInv'
    BY StepIsBankStep, BankInvStep DEF EftInv
  <2>2. MainTypeOK'
    BY MainTypesStep DEF EftInv
  <2> QED
    BY <2>1, <2>2 DEF TypeOK, MainTypeOK, BankInv
<1>1. CASE UNCHANGED vars
  <2>0. LinesInv /\ Conservation /\ \E to, at : Handed(to, at) /\ Applied(to, at)
    BY DEF EftInv
  <2>1. UNCHANGED bankVars /\ UNCHANGED mainVars
    BY <1>1 DEF vars
  <2> USE <2>1 DEF bankVars, mainVars
  <2>2. /\ \A kind : LinesOf(kind)' = LinesOf(kind)
        /\ \A d, n : Declares(d, n)' <=> Declares(d, n)
        /\ \A d : SlotOfLine(d)' = SlotOfLine(d)
        /\ \A k : TransferOf(k)' = TransferOf(k)
        /\ Value' = Value /\ Workers' = Workers /\ Table' = Table /\ Done' = Done
    BY FileFixed DEF Workers, Table, Done
  <2>3. /\ \A d, t : /\ Declares(d, txn[t].from)' <=> Declares(d, txn[t].from)
                     /\ Declares(d, txn[t].to)' <=> Declares(d, txn[t].to)
        /\ \A d, k : /\ Declares(d, file[k].from)' <=> Declares(d, file[k].from)
                     /\ Declares(d, file[k].to)' <=> Declares(d, file[k].to)
    BY <2>2 DEF Declares
  <2>4. AccountsRead' = AccountsRead /\ TransfersRead' = TransfersRead /\ Stored' = Stored
    BY <2>2 DEF AccountsRead, TransfersRead, Stored
  <2>5. AddInv' /\ SlotsInv' /\ PointerLines'
    BY <2>0, <2>2, <2>3, <2>4 DEF LinesInv, AddInv, SlotsInv, PointerLines
  <2>6. EndInv' /\ DistinctInv'
    BY <2>0, <2>2 DEF LinesInv, EndInv, DistinctInv, EndOfFile
  <2>7. WildInv'
    BY <2>0, <2>2, <2>3 DEF LinesInv, WildInv, Declared, AccountsFirst, Fits
  <2>8. Conservation'
    BY <2>0, <2>2, <2>4 DEF Conservation, Halfway
  <2>9. ASSUME NEW to, NEW at, Handed(to, at), Applied(to, at)
        PROVE  Handed(to, at)' /\ Applied(to, at)'
    <3>1. Handed(to, at)'
      BY <2>2, <2>4, <2>9 DEF Handed, InCall
    <3>2. \A places : Past(places, to, at)' = Past(places, to, at)
      BY <2>4 DEF Past
    <3>3. \A d : Credits(d, to, at)' = Credits(d, to, at) /\ Debits(d, to, at)' = Debits(d, to, at)
      BY <2>3, <3>2 DEF Credits, Debits
    <3>4. Applied(to, at)'
      BY <2>2, <2>3, <2>4, <2>9, <3>2, <3>3 DEF Applied
    <3> QED
      BY <3>1, <3>4
  <2> QED
    BY <1>0, <2>0, <2>5, <2>6, <2>7, <2>8, <2>9 DEF EftInv, LinesInv
<1>2. CASE Next
  <2>0. TypeOK /\ BankInv /\ LinesInv /\ Conservation
    BY DEF EftInv
  <2>1. PICK to, at : Handed(to, at) /\ Applied(to, at)
    BY DEF EftInv
  <2>3. AddInv' /\ SlotsInv' /\ PointerLines' /\ EndInv' /\ DistinctInv'
    BY <1>2, <2>0, AddNext, SlotsNext, PointerLinesNext, EndNext, DistinctNext
  <2>4. WildInv'
    BY <1>2, <2>0, <2>1, WildNext
  <2>5. Conservation'
    BY <1>2, <2>0, <2>1, MoneyNext
  <2>6. \E go, up : Handed(go, up)' /\ Applied(go, up)'
    BY <1>2, <2>0, <2>1, AppliedNext
  <2> QED
    BY <1>0, <2>3, <2>4, <2>5, <2>6 DEF EftInv, LinesInv
<1> QED
  BY <1>1, <1>2

\* So it is true in every state.
THEOREM EftCorrect == Spec => []EftInv
<1>1. Init => EftInv
  BY EftInvInit
<1>2. EftInv /\ [Next]_vars => EftInv'
  BY EftInvNext
<1> QED
  BY <1>1, <1>2, PTL DEF Spec

\* When all tellers are joined all transfers of the file are done.
LEMMA DoneAll ==
  ASSUME TypeOK, LinesInv, NEW to, NEW at, Handed(to, at), Done
  PROVE  /\ EndOfFile /\ adding = NoAccount /\ printed = Table
         /\ TransfersRead = LinesOf("transfer") /\ AccountsRead = LinesOf("account") /\ Stored = LinesOf("account")
         /\ \A k \in LinesOf("transfer") : at[k] = -1
<1>0. /\ workerCount \in Nat \ {0} /\ ended \in 0 .. workerCount /\ joined \in 0 .. ended /\ Workers \subseteq Tellers
      /\ joined = workerCount
  BY FileTypes DEF TypeOK, Done
<1>1. EndOfFile /\ adding = NoAccount /\ printed = Table
  BY <1>0 DEF LinesInv, EndInv, Done
<1>2. /\ \A d \in LinesOf("account") : d <= lineNo
      /\ \A k \in LinesOf("transfer") : k <= lineNo
  BY <1>1, FileTypes DEF EndOfFile
<1>3. TransfersRead = LinesOf("transfer") /\ AccountsRead = LinesOf("account") /\ Stored = LinesOf("account")
  BY <1>1, <1>2 DEF TransfersRead, AccountsRead, Stored
<1>4. \A t \in Workers : pc[t] = "exited" /\ rings[t] = <<>>
  BY <1>0 DEF LinesInv, EndInv, Workers
<1>5. ASSUME NEW k \in LinesOf("transfer") PROVE at[k] = -1
  <2>1. to[k] \in Workers /\ at[k] \in Nat \cup {-1}
    BY <1>3 DEF Handed
  <2>2. at[k] # 0
    BY <1>3, <1>4, <2>1 DEF Handed, InCall
  <2>3. ~(at[k] > 0)
    <3>1. DOMAIN rings[to[k]] = {}
      <4>1. DOMAIN <<>> = {}
        OBVIOUS
      <4> QED
        BY <1>4, <2>1, <4>1
    <3> QED
      BY <1>3, <3>1 DEF Handed
  <2> QED
    BY <2>1, <2>2, <2>3
<1> QED
  BY <1>1, <1>3, <1>5

\* On a file whose accounts are declared and come first or fit no teller dereferences
\* NULL, reads a slot that is being added or uses a table that was moved (bank.c:22, 61).
THEOREM EftNoWildAccess == Spec => []NoWildAccess
<1>1. EftInv => NoWildAccess
  BY DEF EftInv, LinesInv, WildInv, NoWildAccess
<1> QED
  BY <1>1, EftCorrect, PTL

\* A file with a transfer from an account to itself is never done (bank.c:75-76).
THEOREM EftSelfTransferHangs == Spec => []SelfTransferHangs
<1>1. ASSUME EftInv PROVE SelfTransferHangs
  <2> SUFFICES ASSUME Done PROVE NoSelfTransfer
    BY DEF SelfTransferHangs
  <2>1. PICK to, at : Handed(to, at)
    BY <1>1 DEF EftInv
  <2>2. TransfersRead = LinesOf("transfer") /\ \A k \in LinesOf("transfer") : at[k] = -1
    BY <1>1, <2>1, DoneAll DEF EftInv
  <2> QED
    BY <2>1, <2>2 DEF Handed, NoSelfTransfer
<1> QED
  BY <1>1, EftCorrect, PTL

\* The balances add up to what the accounts started with and what is credited and not
\* debited yet (bank.c:80-81).
THEOREM EftConservation == Spec => []Conservation
<1>1. EftInv => Conservation
  BY DEF EftInv
<1> QED
  BY <1>1, EftCorrect, PTL

\* The table that main prints is the one that the transfers make of the accounts, each
\* applied once, in whatever order the tellers took them (eft.c:45-54, bank.c:80-81).
THEOREM EftSerialResult == Spec => []SerialResult
<1>1. ASSUME EftInv PROVE SerialResult
  <2> SUFFICES ASSUME Done
               PROVE  /\ Len(printed) = Cardinality(LinesOf("account"))
                      /\ \A d \in LinesOf("account") :
                           printed[SlotOfLine(d)] = [number |-> file[d].number, balance |-> SerialBalance(d)]
    BY DEF SerialResult
  <2>0. TypeOK /\ BankInv /\ LinesInv
    BY <1>1 DEF EftInv
  <2>1. PICK to, at : Handed(to, at) /\ Applied(to, at)
    BY <1>1 DEF EftInv
  <2>2. /\ printed = Table /\ TransfersRead = LinesOf("transfer")
        /\ AccountsRead = LinesOf("account") /\ Stored = LinesOf("account")
        /\ \A k \in LinesOf("transfer") : at[k] = -1
    BY <2>0, <2>1, DoneAll
  <2>3. size = Cardinality(LinesOf("account")) /\ size \in Nat
    BY <2>0, <2>2, StoredIs DEF LinesInv, SlotsInv
  <2>4. Len(printed) = size
    BY <2>2, <2>3 DEF Table
  <2>5. ASSUME NEW d \in LinesOf("account")
        PROVE  printed[SlotOfLine(d)] = [number |-> file[d].number, balance |-> SerialBalance(d)]
    <3>1. SlotOfLine(d) \in 1 .. size
      BY <2>0, <2>2, StoredIs
    <3>2. number[SlotOfLine(d)] = file[d].number
      BY <2>0, <2>2 DEF LinesInv, SlotsInv
    <3>3. \A places : Past(places, to, at) = LinesOf("transfer")
      BY <2>2 DEF Past
    <3>4. balance[SlotOfLine(d)] = SerialBalance(d)
      BY <2>1, <2>2, <3>3 DEF Applied, Credits, Debits, SerialBalance, Value
    <3> QED
      BY <2>2, <3>1, <3>2, <3>4 DEF Table
  <2> QED
    BY <2>3, <2>4, <2>5
<1> QED
  BY <1>1, EftCorrect, PTL
=============================================================================
