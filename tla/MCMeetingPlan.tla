--------------------------- MODULE MCMeetingPlan ---------------------------
(* Small instances of MeetingPlan: two categories, two locations, and      *)
(* places that are in range of one location, of both, or of one only.      *)
EXTENDS MeetingPlan, TLC

CONSTANTS c1, c2, cafe, bar, north, south, p, q

MCCategoryOf == (p :> cafe) @@ (q :> bar)
MCInRange == (north :> {p, q}) @@ (south :> {q})
MCOnePlace == p :> cafe
MCOneInRange == (north :> {p}) @@ (south :> {})

Symmetry == Permutations(Clients)
=============================================================================
