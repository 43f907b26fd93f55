------------------------------- MODULE MCEft -------------------------------
(* Small files for eft: what the lines have in common decides what can        *)
(* happen, so each file is built for one situation.  Balances and values are  *)
(* powers of two or their multiples, so that no two sums are equal by chance. *)
EXTENDS Eft

Acc(n, b) == [kind |-> "account", number |-> n, balance |-> b]
Tr(f, o, v) == [kind |-> "transfer", from |-> f, to |-> o, value |-> v]

MCNumbers == {1, 2, 3, 4, 9}
MCMaxAccounts == 4
MCInitCapacity == 3
MCRingCapacity == 2
MCTellers == 0 .. 2

\* Opposite transfers between two accounts, and a chain through a third; the
\* table grows once.
Cycle == <<Acc(1, 100), Acc(2, 200), Acc(3, 400), Acc(4, 800),
           Tr(1, 2, 1), Tr(2, 1, 2), Tr(2, 4, 4), Tr(4, 1, 8)>>
\* Enough transfers on one account for main to wait for a full ring.
Busy == <<Acc(1, 100), Acc(2, 200), Tr(1, 2, 1), Tr(2, 1, 2), Tr(1, 2, 4), Tr(2, 1, 8),
          Tr(1, 2, 16), Tr(1, 2, 32), Tr(2, 1, 64)>>
\* The number 1 again: its second account is never used.
Duplicate == <<Acc(1, 100), Acc(2, 200), Acc(1, 400), Tr(1, 2, 1), Tr(2, 1, 2)>>
\* An account after a transfer, in a table that has room.
LateFits == <<Acc(1, 100), Acc(2, 200), Tr(1, 2, 1), Tr(2, 1, 2), Acc(3, 400), Tr(3, 1, 4)>>
\* An account after a transfer, for which the table is reallocated.
LateGrows == <<Acc(1, 100), Acc(2, 200), Acc(3, 400), Tr(1, 2, 1), Tr(2, 1, 2),
               Acc(4, 800), Tr(3, 4, 4)>>
\* Transfers with an account that does not exist.
Unknown == <<Acc(1, 100), Acc(2, 200), Tr(1, 2, 1), Tr(1, 9, 2), Tr(9, 1, 4)>>
\* A transfer to an account that a later line adds, beyond the first table.
Early == <<Acc(1, 100), Acc(2, 200), Acc(3, 400), Tr(1, 4, 1), Acc(4, 800)>>
\* A transfer from an account to itself.
Self == <<Acc(1, 100), Acc(2, 200), Tr(1, 2, 1), Tr(1, 1, 2), Tr(2, 1, 4)>>

MCJobs ==
  {[workers |-> 3, file |-> Cycle], [workers |-> 2, file |-> Busy],
   [workers |-> 1, file |-> Duplicate], [workers |-> 2, file |-> LateFits],
   [workers |-> 2, file |-> LateGrows], [workers |-> 3, file |-> Unknown],
   [workers |-> 2, file |-> Self], [workers |-> 1, file |-> Early]}
=============================================================================
