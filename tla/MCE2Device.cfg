SPECIFICATION Spec
CONSTANTS
  t1 = t1
  t2 = t2
  t3 = t3
  Threads <- MCThreads
  Processes <- MCThreads
  Sharings <- MCSharings
  MaxFiles <- MCMaxFiles
  Signals = FALSE
CHECK_DEADLOCK FALSE
INVARIANTS
  TypeOK
  CopyExclusion
  CountsAgree
  OneFileInMode1
  DeadlockForms
  NoLostWakeup
PROPERTIES
  Sem1Released
  OpenAdmitted
