---------------------------- MODULE MeetingPlan ----------------------------
(***************************************************************************)
(* One meeting's course plan, base location and place recommendations, and *)
(* the requests that read and change them (MeetingService: getCoursePlan,  *)
(* updateCoursePlan, updateLocation, addRecommendation).                   *)
(*                                                                         *)
(* One action is one statement outside a transaction, or one transaction:  *)
(* both transactions lock the meeting row before they read or write what   *)
(* they change.  What a request read before is in its memory, and may be   *)
(* stale by the time it is used.                                           *)
(***************************************************************************)
EXTENDS Integers, FiniteSets

CONSTANTS
  Clients,        \* requests in flight at the same time
  Categories,     \* course categories
  Spots,          \* base locations
  Places,         \* stored places
  CategoryOf,     \* [Places -> Categories]
  InRange,        \* [Spots -> SUBSET Places]: within 2 km
  MaxSteps,       \* MAX_COURSE_STEPS
  MaxPlans,       \* bound: courseVersion
  MaxMoves,       \* bound: syncVersion
  None            \* nothing read, nobody

ASSUME PlanAssumption ==
  /\ MaxSteps \in Nat \ {0} /\ MaxPlans \in Nat \ {0} /\ MaxMoves \in Nat \ {0}
  /\ CategoryOf \in [Places -> Categories]
  /\ InRange \in [Spots -> SUBSET Places]
  /\ None \notin Clients /\ None \notin Places /\ None \notin Spots

VARIABLES
  plan,           \* the categories of course_category_step, by order
  courseVersion,  \* meeting.course_version
  spot,           \* meeting_location
  syncVersion,    \* meeting_location.sync_version
  jobs,           \* place_sync_job rows: <<version, category>>
  recommender,    \* meeting_place_recommendation rows: [Places -> Clients or None]
  pc,             \* where each request is
  memory,         \* what each request has been told
  torn,           \* history: a plan was saved between the two reads of a request
  fitted          \* history: what the place of a request has satisfied since it began

vars == <<plan, courseVersion, spot, syncVersion, jobs, recommender,
          pc, memory, torn, fitted>>

planVars == <<plan, courseVersion>>
spotVars == <<spot, syncVersion, jobs>>

\* courseSlugsSchema: repetitions are allowed; an update may also be empty.
Plans == UNION {[1..n -> Categories] : n \in 0..MaxSteps}
CategoriesOf(p) == {p[i] : i \in DOMAIN p}
NoSteps == [i \in 1..0 |-> None]

Reading == {"reading", "versionRead", "stepsRead"}
Adding == {"location", "step", "existing", "insert"}
Answered == {"saved", "stale", "added", "refused", "duplicate", "moved", "failed"}
PC == {"idle", "editing"} \cup Reading \cup Adding \cup Answered

Memory == [version : Nat, steps : Plans, place : Places \cup {None}, spot : Spots \cup {None}]
Blank == [version |-> 0, steps |-> NoSteps, place |-> None, spot |-> None]

Fitted == [category : BOOLEAN, distance : BOOLEAN]
NotFitted == [category |-> FALSE, distance |-> FALSE]

\* createMeeting: one to MaxSteps categories, one job per distinct category.
Init ==
  /\ plan \in Plans \ {NoSteps}
  /\ courseVersion = 1
  /\ spot \in Spots
  /\ syncVersion = 1
  /\ jobs = {<<1, k>> : k \in CategoriesOf(plan)}
  /\ recommender = [p \in Places |-> None]
  /\ pc = [c \in Clients |-> "idle"]
  /\ memory = [c \in Clients |-> Blank]
  /\ torn = [c \in Clients |-> FALSE]
  /\ fitted = [c \in Clients |-> NotFitted]

Goto(c, from, to) == pc[c] = from /\ pc' = [pc EXCEPT ![c] = to]

FitsNow(p, steps, s) ==
  [category |-> p # None /\ CategoryOf[p] \in CategoriesOf(steps),
   distance |-> p # None /\ p \in InRange[s]]

\* The plan or the location changes under the requests that are adding a place.
Refit(steps, s) ==
  fitted' = [c \in Clients |->
    LET now == FitsNow(memory[c].place, steps, s)
    IN  [category |-> fitted[c].category \/ now.category,
         distance |-> fitted[c].distance \/ now.distance]]

-----------------------------------------------------------------------------
(* getCoursePlan: the meeting and its steps are read by two statements     *)
(* that run side by side, on two connections.                              *)

GetCoursePlan(c) ==
  /\ Goto(c, "idle", "reading")
  /\ UNCHANGED <<planVars, spotVars, recommender, memory, torn, fitted>>

ReadVersion(c) ==
  /\ Goto(c, "reading", "versionRead") \/ Goto(c, "stepsRead", "editing")
  /\ memory' = [memory EXCEPT ![c].version = courseVersion]
  /\ UNCHANGED <<planVars, spotVars, recommender, torn, fitted>>

ReadSteps(c) ==
  /\ Goto(c, "reading", "stepsRead") \/ Goto(c, "versionRead", "editing")
  /\ memory' = [memory EXCEPT ![c].steps = plan]
  /\ UNCHANGED <<planVars, spotVars, recommender, torn, fitted>>

-----------------------------------------------------------------------------
(* updateCoursePlan and updateLocation: the host's transactions.           *)

\* Faulty: a version that was saved over once is still accepted.
VersionMatchesLoosely(c) == memory[c].version + 1 >= courseVersion

\* The lock on the meeting row makes the comparison and the write one step.
VersionMatches(c) == memory[c].version = courseVersion

\* Faulty: the version does not move on.
SaveUncounted(c, steps) ==
  /\ Goto(c, "editing", "saved")
  /\ VersionMatches(c)
  /\ plan' = steps
  /\ memory' = [memory EXCEPT ![c].steps = steps]
  /\ torn' = [d \in Clients |-> IF d = c THEN FALSE
                                ELSE torn[d] \/ pc[d] \in {"versionRead", "stepsRead"}]
  /\ Refit(steps, spot)
  /\ UNCHANGED <<courseVersion, spotVars, recommender>>

\* The steps are replaced and the version moves on; the answer holds both.
SavePlan(c, steps) ==
  /\ Goto(c, "editing", "saved")
  /\ VersionMatches(c)
  /\ courseVersion < MaxPlans
  /\ plan' = steps
  /\ courseVersion' = courseVersion + 1
  /\ memory' = [memory EXCEPT ![c].version = courseVersion', ![c].steps = steps]
  /\ torn' = [d \in Clients |-> IF d = c THEN FALSE
                                ELSE torn[d] \/ pc[d] \in {"versionRead", "stepsRead"}]
  /\ Refit(steps, spot)
  /\ UNCHANGED <<spotVars, recommender>>

StalePlan(c) ==
  /\ Goto(c, "editing", "stale")
  /\ ~VersionMatches(c)
  /\ UNCHANGED <<planVars, spotVars, recommender, memory, torn, fitted>>

\* Two steps of one category would be two jobs of one scope.
Repeats == \E i, j \in DOMAIN plan : i # j /\ plan[i] = plan[j]

\* Faulty: the jobs are registered for a version the location does not get.
MoveUncounted(c, s) ==
  /\ Goto(c, "idle", "moved")
  /\ ~Repeats
  /\ syncVersion < MaxMoves
  /\ spot' = s
  /\ jobs' = jobs \cup {<<syncVersion + 1, k>> : k \in CategoriesOf(plan)}
  /\ Refit(plan, s)
  /\ UNCHANGED <<planVars, syncVersion, recommender, memory, torn>>

\* The location moves and a job per step of the plan is registered for it.
MoveLocation(c, s) ==
  /\ Goto(c, "idle", "moved")
  /\ ~Repeats
  /\ syncVersion < MaxMoves
  /\ spot' = s
  /\ syncVersion' = syncVersion + 1
  /\ jobs' = jobs \cup {<<syncVersion + 1, k>> : k \in CategoriesOf(plan)}
  /\ Refit(plan, s)
  /\ UNCHANGED <<planVars, recommender, memory, torn>>

\* UQ_place_sync_job_scope rejects the jobs: the transaction is rolled back.
MoveConflicts(c) ==
  /\ Goto(c, "idle", "failed")
  /\ Repeats
  /\ UNCHANGED <<planVars, spotVars, recommender, memory, torn, fitted>>

-----------------------------------------------------------------------------
(* addRecommendation: four statements without a transaction.               *)

AddRecommendation(c, p) ==
  /\ Goto(c, "idle", "location")
  /\ memory' = [memory EXCEPT ![c].place = p]
  /\ fitted' = [fitted EXCEPT ![c] = FitsNow(p, plan, spot)]
  /\ UNCHANGED <<planVars, spotVars, recommender, torn>>

ReadLocation(c) ==
  /\ Goto(c, "location", "step")
  /\ memory' = [memory EXCEPT ![c].spot = spot]
  /\ UNCHANGED <<planVars, spotVars, recommender, torn, fitted>>

\* Faulty: only the distance is checked.
AcceptableAnyCategory(c) == memory[c].place \in InRange[memory[c].spot]

\* A step of the place's category, now, and the distance to the location read before.
Acceptable(c) ==
  /\ CategoryOf[memory[c].place] \in CategoriesOf(plan)
  /\ memory[c].place \in InRange[memory[c].spot]

CheckPlace(c) ==
  /\ pc[c] = "step"
  /\ IF Acceptable(c) THEN Goto(c, "step", "existing") ELSE Goto(c, "step", "refused")
  /\ UNCHANGED <<planVars, spotVars, recommender, memory, torn, fitted>>

FindExisting(c) ==
  /\ pc[c] = "existing"
  /\ IF recommender[memory[c].place] = None
     THEN Goto(c, "existing", "insert") ELSE Goto(c, "existing", "duplicate")
  /\ UNCHANGED <<planVars, spotVars, recommender, memory, torn, fitted>>

\* Faulty: the last of two concurrent requests replaces the first one's row.
InsertOrReplace(c) ==
  /\ Goto(c, "insert", "added")
  /\ recommender' = [recommender EXCEPT ![memory[c].place] = c]
  /\ UNCHANGED <<planVars, spotVars, memory, torn, fitted>>

\* The unique index on (meeting, place) decides between concurrent requests.
InsertRecommendation(c) ==
  /\ pc[c] = "insert"
  /\ IF recommender[memory[c].place] = None
     THEN /\ Goto(c, "insert", "added")
          /\ recommender' = [recommender EXCEPT ![memory[c].place] = c]
     ELSE /\ Goto(c, "insert", "duplicate")
          /\ UNCHANGED recommender
  /\ UNCHANGED <<planVars, spotVars, memory, torn, fitted>>

-----------------------------------------------------------------------------
(* The client: it may edit the plan it was answered with, or give up.      *)

EditAgain(c) ==
  /\ Goto(c, "saved", "editing")
  /\ UNCHANGED <<planVars, spotVars, recommender, memory, torn, fitted>>

NextRequest(c) ==
  /\ pc[c] \in Answered \cup {"editing"}
  /\ pc' = [pc EXCEPT ![c] = "idle"]
  /\ memory' = [memory EXCEPT ![c] = Blank]
  /\ torn' = [torn EXCEPT ![c] = FALSE]
  /\ fitted' = [fitted EXCEPT ![c] = NotFitted]
  /\ UNCHANGED <<planVars, spotVars, recommender>>

Step(c) ==
  \/ GetCoursePlan(c) \/ ReadVersion(c) \/ ReadSteps(c)
  \/ (\E steps \in Plans : SavePlan(c, steps)) \/ StalePlan(c)
  \/ (\E s \in Spots : MoveLocation(c, s)) \/ MoveConflicts(c)
  \/ (\E p \in Places : AddRecommendation(c, p))
  \/ ReadLocation(c) \/ CheckPlace(c) \/ FindExisting(c) \/ InsertRecommendation(c)
  \/ EditAgain(c) \/ NextRequest(c)

Next == \E c \in Clients : Step(c)

Spec == Init /\ [][Next]_vars

-----------------------------------------------------------------------------
(* Properties.                                                             *)

\* Type correctness, with: a job's version is one the location has had, so no
\* collection is queued for a location that does not exist.
TypeOK ==
  /\ plan \in Plans
  /\ courseVersion \in Nat \ {0}
  /\ spot \in Spots
  /\ syncVersion \in Nat \ {0}
  /\ jobs \subseteq (1..syncVersion) \X Categories
  /\ recommender \in [Places -> Clients \cup {None}]
  /\ pc \in [Clients -> PC]
  /\ memory \in [Clients -> Memory]
  /\ torn \in [Clients -> BOOLEAN]
  /\ fitted \in [Clients -> Fitted]

\* The requests that hold an answer with a version and steps.
Edits(c) == pc[c] \in {"editing", "saved"}

\* An editor's version is never ahead of the stored one, and when it is the stored
\* one, its steps are the stored ones: unless a save fell between its two reads.
ReadInv ==
  \A c \in Clients :
    /\ memory[c].version <= courseVersion
    /\ pc[c] = "versionRead" /\ ~torn[c] => memory[c].version = courseVersion
    /\ pc[c] = "stepsRead" /\ ~torn[c] => memory[c].steps = plan
    /\ Edits(c) /\ ~torn[c] /\ memory[c].version = courseVersion => memory[c].steps = plan

\* An accepted save loses no other editor's change to an editor that read the
\* meeting and its steps together (updateCoursePlan's version check).
UntornSaverSawPlan ==
  [][\A c \in Clients : pc[c] = "editing" /\ pc'[c] = "saved" /\ ~torn[c]
       => memory[c].steps = plan]_vars

\* The editor whose save is accepted had been shown the plan it replaces
\* (UpdateCoursePlanDto: another change saved first is a conflict).
SaverSawPlan ==
  [][\A c \in Clients : pc[c] = "editing" /\ pc'[c] = "saved" => memory[c].steps = plan]_vars

\* A place told "added" was of the plan at some moment of the request and within
\* range of the location at some moment of it, however often both changed.
AddedFitted ==
  \A c \in Clients : pc[c] = "added" => fitted[c].category /\ fitted[c].distance

\* A place is told "added" to one request only, and its row stays that request's.
AddedOnce ==
  \A c \in Clients : pc[c] = "added" => recommender[memory[c].place] = c
=============================================================================
