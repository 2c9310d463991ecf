---------------------------- MODULE MCPlaceSync ----------------------------
(* Small instances of PlaceSync for TLC.                                   *)
EXTENDS PlaceSync, TLC

CONSTANTS m1, m2, w1, w2, t1, t2, p1, p2, c1, c2

\* Two meetings whose circles share tile t2.
TourShared == (m1 :> <<<<t1, t2>>>>) @@ (m2 :> <<<<t2>>>>)
CircleShared == (m1 :> <<{p1}>>) @@ (m2 :> <<{p1, p2}>>)
FoundOne == [c \in Categories |-> (t1 :> {}) @@ (t2 :> {p1, p2})]

\* One meeting that moves once, to a circle that shares tile t2.
TourMoving == m1 :> <<<<t1>>, <<t1, t2>>>>
TourMovingShort == m1 :> <<<<t1>>, <<t1>>>>
CircleMoving == m1 :> <<{p1}, {p1, p2}>>

\* One meeting, two tiles, nobody else.
TourOne == m1 :> <<<<t1, t2>>>>
CircleOne == m1 :> <<{p1}>>

\* Every meeting plans all categories for good.
WholePlan == {<<{}, Categories>>}
\* A plan of all categories that may be emptied, before or after the meeting moves.
PlanEmptied == WholePlan \cup {<<Categories, {}>>}

\* Retry delays of 1 and 2 ticks: together longer than a lease of 2 ticks.
Delays == <<1, 2>>
\* The production ratio of 1, 5 and 5 minutes, shortened.
DelaysAndLease == <<1, 3>>
DelayOne == <<1>>

WorkerSymmetry == Permutations(Workers)
=============================================================================
