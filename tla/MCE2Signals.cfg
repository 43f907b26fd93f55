SPECIFICATION SignalSpec
CONSTANTS
  t1 = t1
  t2 = t2
  t3 = t3
  Threads <- MCThreads
  Processes <- MCThreads
  Sharings <- MCSharings
  MaxFiles <- MCMaxFiles
  Signals = TRUE
CHECK_DEADLOCK FALSE
INVARIANTS
  Mode2CopyExclusion
