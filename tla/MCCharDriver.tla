---------------------------- MODULE MCCharDriver ----------------------------
(* Two threads share a file, and a third has one of its own on the device.    *)
EXTENDS CharDriver, TLC
CONSTANTS t1, t2, t3, shared, own, disk
MCThreads == {t1, t2, t3}
MCFiles == {shared, own}
MCDevices == {disk}
MCFileOf == [t \in MCThreads |-> IF t = t3 THEN own ELSE shared]
MCDeviceOf == [f \in MCFiles |-> disk]
MCSymmetry == Permutations({t1, t2})
MCLengths == {1, 2, 3}
MCOffsets == {-3, -1, 1, 3}
=============================================================================
