SPECIFICATION Spec
CONSTANTS
  t1 = t1
  t2 = t2
  d1 = d1
  d2 = d2
  here = here
  there = there
  Nothing = Nothing
  NA = NA
  Titles <- MCTitles
  Dates <- MCDates
  Locations <- MCLocations
  Times <- MCTimes
  MaxEvents <- MCMaxEvents
SYMMETRY MCSymmetry
CHECK_DEADLOCK FALSE
INVARIANTS
  PrintedIsFirst
  PrintsNews
