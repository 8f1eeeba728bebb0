----------------------------- MODULE MCTraffic -----------------------------
(* Two stops, so one road each way, two links, and two places: one near    *)
(* two of the roads, one near all.  A link may move from one to the other  *)
(* with its next record, and one pair of stops may be at the same place.   *)
EXTENDS Traffic

MCStops == 0..1
MCLinks == 1..2
MCPlaces == 1..2
Road(near1, near2, speed) == [near |-> <<near1, near2>>, mph |-> speed]
MCRoads == {Road(2, 1, 20), Road(0, 1, 10), Road(1, 1, 0)}
Reading(mph, isDated, points) == [speed |-> mph, dated |-> isDated, points |-> points]
MCReadings == {Reading(5, TRUE, 1), Reading(20, TRUE, 2), Reading(0, TRUE, 1),
               Reading(20, FALSE, 1), Reading(5, TRUE, NoPoints)}
Options(preserve, size, perLink, maxLinks, highest) ==
  [preserveExisting |-> preserve, chunkSize |-> size, limitPerLink |-> perLink,
   maxLinksPerEdge |-> maxLinks, default |-> 100, alpha |-> 50, min |-> 50, max |-> highest]
MCOptionSets == {Options(TRUE, 1, 1, 1, 300), Options(FALSE, 2, 1, 0, 300), Options(FALSE, 1, 2, 1, 40)}
============================================================================
