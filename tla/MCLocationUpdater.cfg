SPECIFICATION UpdaterSpec
CONSTANTS
  t1 = t1
  t2 = t2
  d1 = d1
  d2 = d2
  here = here
  Nothing = Nothing
  NA = NA
  Titles <- MCTitles
  Dates <- MCDates
  Locations <- MCLocations
  Times <- MCTimes
  MaxEvents <- MCMaxEvents
  Inputs <- MCInputs
  PipeSize = 2
  BufferSize = 1
CHECK_DEADLOCK FALSE
INVARIANTS
  LinesArrive
PROPERTIES
  EndsOrHangs
