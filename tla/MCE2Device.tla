----------------------------- MODULE MCE2Device -----------------------------
(* The device with three programs of one thread each, every one of which may  *)
(* have it open twice, as the programs of solution.md do, and with a program  *)
(* of two threads and one of one.                                             *)
EXTENDS E2Device
CONSTANTS t1, t2, t3
MCThreads == {t1, t2, t3}
MCSharings == {[t \in MCThreads |-> t], [t \in MCThreads |-> IF t = t2 THEN t1 ELSE t]}
MCMaxFiles == 2
=============================================================================
