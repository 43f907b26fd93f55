-------------------------- MODULE MCLocationUpdater --------------------------
(* Inputs short and long enough to fill both pipes, with lines that are        *)
(* refused and lines that the calendar filter dies of.                         *)
EXTENDS LocationUpdater
CONSTANTS t1, t2, d1, d2, here

MCTitles == {t1, t2}
MCDates == {d1, d2}
MCLocations == {here}
MCTimes == 1..2
MCMaxEvents == 8

Line(action, title, date, time, flaws) ==
  [flaws |-> flaws,
   event |-> [action |-> action, title |-> title, date |-> date, time |-> time, location |-> here]]
create1 == Line("C", t1, d1, 2, {})
create2 == Line("C", t2, d1, 1, {})
delete2 == Line("D", t2, d1, 1, {})
unknown == Line("X", t1, d2, 1, {})
refused == Line("C", t1, d2, 1, {"length"})

Some == {create1, create2, delete2, unknown, refused}
MCInputs ==
  {<<>>} \cup {<<l>> : l \in Some} \cup {<<l, m, n>> : l, m, n \in Some}
  \cup {<<create1, refused, create2, delete2, create2, create1, refused, delete2>>,
        <<create1, unknown, create2, create2, create1, create1, create2, delete2>>}
=============================================================================
