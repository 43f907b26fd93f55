----------------------------- MODULE MCCalendar -----------------------------
(* A calendar of two dates, with four events of two titles at two times.    *)
EXTENDS Calendar, TLC
CONSTANTS t1, t2, d1, d2, here, there
MCTitles == {t1, t2}
MCDates == {d1, d2}
MCLocations == {here, there}
MCTimes == 1..2
MCMaxEvents == 4
MCSymmetry == Permutations(MCTitles) \cup Permutations(MCDates) \cup Permutations(MCLocations)
=============================================================================
