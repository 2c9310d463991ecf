--------------------------- MODULE MCPlaceSearch ---------------------------
(* A small instance of PlaceSearch for TLC: one meeting that moves once, from *)
(* a circle without places to one with two, on the same tile, and whose plan  *)
(* gains the category 'other' before or after it moves.                      *)
EXTENDS PlaceSearch, TLC

CONSTANTS m1, w1, t1, p1, p2, c1, c2

TourMoving == m1 :> <<<<t1>>, <<t1>>>>
CircleMoving == m1 :> <<{}, {p1, p2}>>
NearestMoving == m1 :> <<<<>>, <<p1, p2>>>>
FoundOne == [c \in Categories |-> t1 :> {p1, p2}]

PlanGrows == {<<{}, {c1}>>, <<{c1}, {c1, c2}>>}

\* The production ratio of 1, 5 and 5 minutes, shortened.
DelaysAndLease == <<1, 2>>
=============================================================================
