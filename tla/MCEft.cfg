SPECIFICATION Spec
CONSTANTS
  Tellers <- MCTellers
  MaxAccounts <- MCMaxAccounts
  InitCapacity <- MCInitCapacity
  Numbers <- MCNumbers
  RingCapacity <- MCRingCapacity
  Jobs <- MCJobs
CHECK_DEADLOCK FALSE
INVARIANTS
  TypeOK
  BankInv
  AccountExclusion
  NoLostUpdate
  TransientWait
  NoWildAccess
  Conservation
  SerialResult
  SelfTransferHangs
PROPERTIES
  Termination
