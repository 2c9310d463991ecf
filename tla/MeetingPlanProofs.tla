-------------------------- MODULE MeetingPlanProofs --------------------------
(***************************************************************************)
(* What the version check of updateCoursePlan and the checks of            *)
(* addRecommendation guarantee, for any number of requests, categories,    *)
(* locations and places.                                                   *)
(***************************************************************************)
EXTENDS MeetingPlan, TLAPS

\* What a request that is adding a place has established so far.
FitInv ==
  \A c \in Clients :
    /\ pc[c] \in Adding \cup {"added"} => memory[c].place \in Places
    /\ pc[c] \in {"location", "step"} =>
         /\ CategoryOf[memory[c].place] \in CategoriesOf(plan) => fitted[c].category
         /\ memory[c].place \in InRange[spot] => fitted[c].distance
    /\ pc[c] = "step" /\ memory[c].place \in InRange[memory[c].spot] => fitted[c].distance
    /\ pc[c] \in {"existing", "insert", "added"} => fitted[c].category /\ fitted[c].distance

LEMMA StepsArePlans == NoSteps \in Plans
  <1>1. 0 \in 0..MaxSteps
    BY PlanAssumption
  <1>2. NoSteps \in [1..0 -> Categories]
    BY DEF NoSteps
  <1> QED BY <1>1, <1>2 DEF Plans

LEMMA CategoriesOfPlan ==
  ASSUME NEW p \in Plans
  PROVE  CategoriesOf(p) \subseteq Categories
  BY DEF Plans, CategoriesOf

\* A value that is typed by a record set stays in it when a field is replaced.
LEMMA MemoryKept ==
  ASSUME NEW m \in [Clients -> Memory], NEW c \in Clients
  PROVE  /\ \A n \in Nat : [m EXCEPT ![c].version = n] \in [Clients -> Memory]
         /\ \A s \in Plans : [m EXCEPT ![c].steps = s] \in [Clients -> Memory]
         /\ \A n \in Nat, s \in Plans :
              [m EXCEPT ![c].version = n, ![c].steps = s] \in [Clients -> Memory]
         /\ \A p \in Places : [m EXCEPT ![c].place = p] \in [Clients -> Memory]
         /\ \A s \in Spots : [m EXCEPT ![c].spot = s] \in [Clients -> Memory]
  BY DEF Memory

LEMMA FitsNowTyped ==
  ASSUME NEW p, NEW steps, NEW s
  PROVE  FitsNow(p, steps, s) \in Fitted
  BY DEF FitsNow, Fitted

LEMMA RefitTyped ==
  ASSUME NEW steps, NEW s, fitted \in [Clients -> Fitted], Refit(steps, s)
  PROVE  /\ fitted' \in [Clients -> Fitted]
         /\ \A c \in Clients :
              /\ fitted[c].category => fitted'[c].category
              /\ fitted[c].distance => fitted'[c].distance
              /\ FitsNow(memory[c].place, steps, s).category => fitted'[c].category
              /\ FitsNow(memory[c].place, steps, s).distance => fitted'[c].distance
  BY DEF Refit, Fitted, FitsNow

-----------------------------------------------------------------------------
LEMMA TypeInit == Init => TypeOK
  <1> SUFFICES ASSUME Init PROVE TypeOK
    OBVIOUS
  <1>1. plan \in Plans
    BY DEF Init
  <1>2. jobs \subseteq (1..syncVersion) \X Categories
    BY <1>1, CategoriesOfPlan DEF Init
  <1>3. Blank \in Memory
    BY StepsArePlans DEF Blank, Memory
  <1>4. NotFitted \in Fitted
    BY DEF NotFitted, Fitted
  <1> QED BY <1>1, <1>2, <1>3, <1>4 DEF Init, TypeOK, PC

LEMMA TypeStep == TypeOK /\ [Next]_vars => TypeOK'
  <1> SUFFICES ASSUME TypeOK, [Next]_vars PROVE TypeOK'
    OBVIOUS
  <1> USE DEF planVars, spotVars
  <1>q. "idle" \in PC /\ "editing" \in PC /\ Reading \subseteq PC /\ Adding \subseteq PC
        /\ Answered \subseteq PC
    BY DEF PC
  <1>p. ASSUME NEW c \in Clients, NEW from, NEW to \in PC, Goto(c, from, to)
        PROVE  pc' \in [Clients -> PC]
    BY <1>p DEF Goto, TypeOK
  <1>0. CASE UNCHANGED vars
    BY <1>0 DEF vars, TypeOK
  <1>s. ASSUME NEW c \in Clients, Step(c) PROVE TypeOK'
    <2>1. CASE GetCoursePlan(c)
      BY <2>1, <1>p, <1>q DEF GetCoursePlan, TypeOK, Reading
    <2>2. CASE ReadVersion(c)
      <3>1. pc' \in [Clients -> PC]
        BY <2>2, <1>p, <1>q DEF ReadVersion, Reading
      <3>2. memory' \in [Clients -> Memory]
        BY <2>2, MemoryKept DEF ReadVersion, TypeOK
      <3> QED BY <2>2, <3>1, <3>2 DEF ReadVersion, TypeOK
    <2>3. CASE ReadSteps(c)
      <3>1. pc' \in [Clients -> PC]
        BY <2>3, <1>p, <1>q DEF ReadSteps, Reading
      <3>2. memory' \in [Clients -> Memory]
        BY <2>3, MemoryKept DEF ReadSteps, TypeOK
      <3> QED BY <2>3, <3>1, <3>2 DEF ReadSteps, TypeOK
    <2>4. CASE \E steps \in Plans : SavePlan(c, steps)
      <3>1. PICK steps \in Plans : SavePlan(c, steps)
        BY <2>4
      <3>2. pc' \in [Clients -> PC]
        BY <3>1, <1>p, <1>q DEF SavePlan, Answered
      <3>3. memory' \in [Clients -> Memory]
        <4>1. courseVersion' \in Nat
          BY <3>1 DEF SavePlan, TypeOK
        <4> QED BY <3>1, <4>1, MemoryKept DEF SavePlan, TypeOK
      <3>4. fitted' \in [Clients -> Fitted]
        BY <3>1, RefitTyped DEF SavePlan, TypeOK
      <3>5. torn' \in [Clients -> BOOLEAN]
        BY <3>1, Zenon DEF SavePlan, TypeOK
      <3>6. plan' \in Plans /\ courseVersion' \in Nat \ {0}
        BY <3>1 DEF SavePlan, TypeOK
      <3> QED BY <3>1, <3>2, <3>3, <3>4, <3>5, <3>6 DEF SavePlan, TypeOK
    <2>5. CASE StalePlan(c)
      BY <2>5, <1>p, <1>q DEF StalePlan, TypeOK, Answered
    <2>6. CASE \E s \in Spots : MoveLocation(c, s)
      <3>1. PICK s \in Spots : MoveLocation(c, s)
        BY <2>6
      <3>2. pc' \in [Clients -> PC]
        BY <3>1, <1>p, <1>q DEF MoveLocation, Answered
      <3>3. jobs' \subseteq (1..syncVersion') \X Categories
        BY <3>1, CategoriesOfPlan DEF MoveLocation, TypeOK
      <3>4. fitted' \in [Clients -> Fitted]
        BY <3>1, RefitTyped DEF MoveLocation, TypeOK
      <3> QED BY <3>1, <3>2, <3>3, <3>4 DEF MoveLocation, TypeOK
    <2>7. CASE MoveConflicts(c)
      BY <2>7, <1>p, <1>q DEF MoveConflicts, TypeOK, Answered
    <2>8. CASE \E p \in Places : AddRecommendation(c, p)
      <3>1. PICK p \in Places : AddRecommendation(c, p)
        BY <2>8
      <3>2. pc' \in [Clients -> PC]
        BY <3>1, <1>p, <1>q DEF AddRecommendation, Adding
      <3>3. memory' \in [Clients -> Memory]
        BY <3>1, MemoryKept DEF AddRecommendation, TypeOK
      <3>4. fitted' \in [Clients -> Fitted]
        BY <3>1, FitsNowTyped DEF AddRecommendation, TypeOK
      <3> QED BY <3>1, <3>2, <3>3, <3>4 DEF AddRecommendation, TypeOK
    <2>9. CASE ReadLocation(c)
      <3>1. pc' \in [Clients -> PC]
        BY <2>9, <1>p, <1>q DEF ReadLocation, Adding
      <3>2. memory' \in [Clients -> Memory]
        BY <2>9, MemoryKept DEF ReadLocation, TypeOK
      <3> QED BY <2>9, <3>1, <3>2 DEF ReadLocation, TypeOK
    <2>10. CASE CheckPlace(c)
      <3>1. pc' \in [Clients -> PC]
        BY <2>10, <1>p, <1>q DEF CheckPlace, Adding, Answered
      <3> QED BY <2>10, <3>1 DEF CheckPlace, TypeOK
    <2>11. CASE FindExisting(c)
      <3>1. pc' \in [Clients -> PC]
        BY <2>11, <1>p, <1>q DEF FindExisting, Adding, Answered
      <3> QED BY <2>11, <3>1 DEF FindExisting, TypeOK
    <2>12. CASE InsertRecommendation(c)
      <3>1. pc' \in [Clients -> PC]
        BY <2>12, <1>p, <1>q DEF InsertRecommendation, Answered
      <3>2. recommender' \in [Places -> Clients \cup {None}]
        BY <2>12 DEF InsertRecommendation, TypeOK
      <3> QED BY <2>12, <3>1, <3>2 DEF InsertRecommendation, TypeOK
    <2>13. CASE EditAgain(c)
      BY <2>13, <1>p, <1>q DEF EditAgain, TypeOK
    <2>14. CASE NextRequest(c)
      <3>1. Blank \in Memory /\ NotFitted \in Fitted
        BY StepsArePlans DEF Blank, Memory, NotFitted, Fitted
      <3> QED BY <2>14, <3>1, <1>q DEF NextRequest, TypeOK
    <2> QED BY <1>s, <2>1, <2>2, <2>3, <2>4, <2>5, <2>6, <2>7, <2>8, <2>9, <2>10,
               <2>11, <2>12, <2>13, <2>14 DEF Step
  <1> QED BY <1>0, <1>s DEF Next

\* Every table and every request's memory keeps its type, and no collection job
\* belongs to a location version that was never reached.
THEOREM PlanTypeCorrect == Spec => []TypeOK
  <1>1. Init => TypeOK
    BY TypeInit
  <1>2. TypeOK /\ [Next]_vars => TypeOK'
    BY TypeStep
  <1> QED BY <1>1, <1>2, PTL DEF Spec

-----------------------------------------------------------------------------
\* The steps that leave the plan, its version, and every editor's memory alone.
LEMMA ReadKept ==
  ASSUME TypeOK, ReadInv, NEW c \in Clients,
         UNCHANGED <<plan, courseVersion, torn>>,
         \A d \in Clients : memory'[d].version = memory[d].version /\ memory'[d].steps = memory[d].steps,
         \A d \in Clients : d # c => pc'[d] = pc[d],
         pc'[c] \notin {"versionRead", "stepsRead", "editing", "saved"}
  PROVE  ReadInv'
  BY DEF ReadInv, Edits

LEMMA ReadStep == TypeOK /\ TypeOK' /\ ReadInv /\ [Next]_vars => ReadInv'
  <1> SUFFICES ASSUME TypeOK, TypeOK', ReadInv, [Next]_vars PROVE ReadInv'
    OBVIOUS
  <1> USE DEF planVars, spotVars
  <1>0. CASE UNCHANGED vars
    BY <1>0 DEF vars, ReadInv, Edits
  <1>s. ASSUME NEW c \in Clients, Step(c) PROVE ReadInv'
    <2>p. ASSUME NEW from, NEW to, Goto(c, from, to)
          PROVE  /\ pc[c] = from /\ pc'[c] = to
                 /\ \A d \in Clients : d # c => pc'[d] = pc[d]
      BY <2>p DEF Goto, TypeOK
    <2>1. CASE GetCoursePlan(c)
      BY <2>1, <2>p, ReadKept DEF GetCoursePlan
    <2>2. CASE ReadVersion(c)
      <3>1. /\ \A d \in Clients : d # c => pc'[d] = pc[d] /\ memory'[d] = memory[d]
            /\ memory'[c].version = courseVersion /\ memory'[c].steps = memory[c].steps
            /\ UNCHANGED <<plan, courseVersion, torn>>
        BY <2>2, <2>p DEF ReadVersion, TypeOK, Memory
      <3>2. \/ pc[c] = "reading" /\ pc'[c] = "versionRead"
            \/ pc[c] = "stepsRead" /\ pc'[c] = "editing"
        BY <2>2, <2>p DEF ReadVersion
      <3> QED BY <3>1, <3>2 DEF ReadInv, Edits, TypeOK
    <2>3. CASE ReadSteps(c)
      <3>1. /\ \A d \in Clients : d # c => pc'[d] = pc[d] /\ memory'[d] = memory[d]
            /\ memory'[c].version = memory[c].version /\ memory'[c].steps = plan
            /\ UNCHANGED <<plan, courseVersion, torn>>
        BY <2>3, <2>p DEF ReadSteps, TypeOK, Memory
      <3>2. \/ pc[c] = "reading" /\ pc'[c] = "stepsRead"
            \/ pc[c] = "versionRead" /\ pc'[c] = "editing"
        BY <2>3, <2>p DEF ReadSteps
      <3> QED BY <3>1, <3>2 DEF ReadInv, Edits, TypeOK
    <2>4. CASE \E steps \in Plans : SavePlan(c, steps)
      <3>1. PICK steps \in Plans : SavePlan(c, steps)
        BY <2>4
      <3>2. /\ plan' = steps /\ courseVersion' = courseVersion + 1
            /\ pc'[c] = "saved"
            /\ \A d \in Clients : d # c => pc'[d] = pc[d]
        BY <3>1, <2>p DEF SavePlan
      <3>3. /\ \A d \in Clients : d # c => memory'[d] = memory[d]
            /\ memory'[c].version = courseVersion' /\ memory'[c].steps = steps
        BY <3>1 DEF SavePlan, TypeOK, Memory
      <3>4. \A d \in Clients : d # c /\ pc[d] \in {"versionRead", "stepsRead"} => torn'[d]
        BY <3>1, Zenon DEF SavePlan
      <3>5. \A d \in Clients : memory[d].version \in Nat
        BY DEF TypeOK, Memory
      <3>6. courseVersion \in Nat
        BY DEF TypeOK
      <3>7. ASSUME NEW d \in Clients, d # c
            PROVE  memory'[d].version < courseVersion'
        <4>1. memory[d].version <= courseVersion
          BY DEF ReadInv
        <4>2. memory'[d].version = memory[d].version
          BY <3>3, <3>7
        <4> QED BY <4>1, <4>2, <3>2, <3>5, <3>6
      <3>8. ASSUME NEW d \in Clients, d # c
            PROVE  /\ memory'[d].version < courseVersion' /\ memory'[d].version \in Nat
                   /\ (pc'[d] \in {"versionRead", "stepsRead"} => torn'[d])
        BY <3>2, <3>3, <3>4, <3>5, <3>7, <3>8 DEF ReadInv, Edits
      <3>9. ASSUME NEW d \in Clients, d = c
            PROVE  /\ memory'[d].version = courseVersion' /\ memory'[d].steps = plan'
                   /\ pc'[d] = "saved"
        BY <3>2, <3>3, <3>6, <3>9
      <3>10. courseVersion' \in Nat
        BY <3>2, <3>6
      <3> QED BY <3>8, <3>9, <3>10 DEF ReadInv, Edits
    <2>5. CASE StalePlan(c)
      BY <2>5, <2>p, ReadKept DEF StalePlan
    <2>6. CASE \E s \in Spots : MoveLocation(c, s)
      BY <2>6, <2>p, ReadKept DEF MoveLocation
    <2>7. CASE MoveConflicts(c)
      BY <2>7, <2>p, ReadKept DEF MoveConflicts
    <2>8. CASE \E p \in Places : AddRecommendation(c, p)
      <3>1. PICK p \in Places : AddRecommendation(c, p)
        BY <2>8
      <3>2. \A d \in Clients : memory'[d].version = memory[d].version /\ memory'[d].steps = memory[d].steps
        BY <3>1 DEF AddRecommendation, TypeOK, Memory
      <3> QED BY <3>1, <3>2, <2>p, ReadKept DEF AddRecommendation
    <2>9. CASE ReadLocation(c)
      <3>1. \A d \in Clients : memory'[d].version = memory[d].version /\ memory'[d].steps = memory[d].steps
        BY <2>9 DEF ReadLocation, TypeOK, Memory
      <3> QED BY <2>9, <3>1, <2>p, ReadKept DEF ReadLocation
    <2>10. CASE CheckPlace(c)
      BY <2>10, <2>p, ReadKept DEF CheckPlace
    <2>11. CASE FindExisting(c)
      BY <2>11, <2>p, ReadKept DEF FindExisting
    <2>12. CASE InsertRecommendation(c)
      BY <2>12, <2>p, ReadKept DEF InsertRecommendation
    <2>13. CASE EditAgain(c)
      BY <2>13, <2>p DEF EditAgain, ReadInv, Edits, TypeOK
    <2>14. CASE NextRequest(c)
      <3>1. /\ pc'[c] = "idle" /\ memory'[c].version = 0
            /\ \A d \in Clients : d # c => /\ pc'[d] = pc[d] /\ memory'[d] = memory[d]
                                          /\ torn'[d] = torn[d]
            /\ UNCHANGED <<plan, courseVersion>>
        BY <2>14 DEF NextRequest, TypeOK, Blank
      <3> QED BY <3>1 DEF ReadInv, Edits, TypeOK
    <2> QED BY <1>s, <2>1, <2>2, <2>3, <2>4, <2>5, <2>6, <2>7, <2>8, <2>9, <2>10,
               <2>11, <2>12, <2>13, <2>14 DEF Step
  <1> QED BY <1>0, <1>s DEF Next

LEMMA ReadInit == Init => ReadInv
  BY DEF Init, ReadInv, Edits, Blank

\* What an editor holds under the stored version is the stored plan, unless its two
\* reads were torn.
THEOREM ReadAgrees == Spec => []ReadInv
  <1>1. TypeOK /\ TypeOK' /\ ReadInv /\ [Next]_vars => ReadInv'
    BY ReadStep
  <1> QED BY <1>1, ReadInit, PlanTypeCorrect, PTL DEF Spec

LEMMA SaverSawStep ==
  ASSUME TypeOK, ReadInv, Next
  PROVE  \A c \in Clients : pc[c] = "editing" /\ pc'[c] = "saved" /\ ~torn[c]
           => memory[c].steps = plan
  <1> SUFFICES ASSUME NEW d \in Clients, pc[d] = "editing", pc'[d] = "saved", ~torn[d]
              PROVE  memory[d].steps = plan
    OBVIOUS
  <1>1. PICK c \in Clients : Step(c)
    BY DEF Next
  <1>p. ASSUME NEW from, NEW to, Goto(c, from, to)
        PROVE  pc[c] = from /\ \A e \in Clients : pc'[e] = IF e = c THEN to ELSE pc[e]
    BY <1>p DEF Goto, TypeOK
  <1>2. CASE \E steps \in Plans : SavePlan(c, steps)
    <2>1. c = d /\ VersionMatches(c)
      BY <1>2, <1>p DEF SavePlan
    <2> QED BY <2>1 DEF VersionMatches, ReadInv, Edits
  <1>3. CASE NextRequest(c)
    BY <1>3 DEF NextRequest, TypeOK
  <1>4. CASE ~(\E steps \in Plans : SavePlan(c, steps)) /\ ~NextRequest(c)
    BY <1>1, <1>4, <1>p DEF Step, GetCoursePlan, ReadVersion, ReadSteps, StalePlan,
       MoveLocation, MoveConflicts, AddRecommendation, ReadLocation, CheckPlace,
       FindExisting, InsertRecommendation, EditAgain
  <1> QED BY <1>2, <1>3, <1>4

\* An accepted save replaces the plan its sender was shown, unless its two reads were
\* torn: the version check loses no update.
THEOREM NoLostUpdate == Spec => UntornSaverSawPlan
  <1>1. TypeOK /\ ReadInv /\ [Next]_vars =>
          [\A c \in Clients : pc[c] = "editing" /\ pc'[c] = "saved" /\ ~torn[c]
             => memory[c].steps = plan]_vars
    BY SaverSawStep
  <1> QED BY <1>1, ReadAgrees, PlanTypeCorrect, PTL DEF Spec, UntornSaverSawPlan

-----------------------------------------------------------------------------
\* The steps after which c is not adding a place, and that leave the others alone.
LEMMA FitKept ==
  ASSUME TypeOK, FitInv, AddedOnce, NEW c \in Clients,
         UNCHANGED <<plan, spot, recommender>>,
         \A d \in Clients : d # c => /\ pc'[d] = pc[d] /\ memory'[d] = memory[d]
                                   /\ fitted'[d] = fitted[d],
         pc'[c] \notin Adding \cup {"added"}
  PROVE  FitInv' /\ AddedOnce'
  BY DEF FitInv, AddedOnce, Adding

\* A change of the plan or the location only adds to what was satisfied.
LEMMA FitRefit ==
  ASSUME TypeOK, FitInv, AddedOnce, NEW c \in Clients, UNCHANGED recommender,
         NEW steps, NEW s, plan' = steps, spot' = s, Refit(steps, s),
         \A d \in Clients : d # c => pc'[d] = pc[d] /\ memory'[d] = memory[d],
         pc'[c] \notin Adding \cup {"added"}
  PROVE  FitInv' /\ AddedOnce'
  <1>1. \A d \in Clients :
              /\ fitted[d].category => fitted'[d].category
              /\ fitted[d].distance => fitted'[d].distance
              /\ FitsNow(memory[d].place, steps, s).category => fitted'[d].category
              /\ FitsNow(memory[d].place, steps, s).distance => fitted'[d].distance
    BY RefitTyped DEF TypeOK
  <1>2. ASSUME NEW d \in Clients, memory[d].place \in Places
        PROVE  /\ CategoryOf[memory[d].place] \in CategoriesOf(plan') => fitted'[d].category
               /\ memory[d].place \in InRange[spot'] => fitted'[d].distance
    BY <1>1, <1>2, PlanAssumption DEF FitsNow
  <1>3. FitInv'
    <2> SUFFICES ASSUME NEW d \in Clients, d # c
                 PROVE  /\ pc'[d] \in Adding \cup {"added"} => memory'[d].place \in Places
                        /\ pc'[d] \in {"location", "step"} =>
                             /\ CategoryOf[memory'[d].place] \in CategoriesOf(plan') => fitted'[d].category
                             /\ memory'[d].place \in InRange[spot'] => fitted'[d].distance
                        /\ pc'[d] = "step" /\ memory'[d].place \in InRange[memory'[d].spot] => fitted'[d].distance
                        /\ pc'[d] \in {"existing", "insert", "added"} => fitted'[d].category /\ fitted'[d].distance
      BY DEF FitInv, Adding
    <2> QED BY <1>1, <1>2 DEF FitInv, Adding
  <1>4. AddedOnce'
    BY DEF AddedOnce
  <1> QED BY <1>3, <1>4

\* The steps of c within a recommendation that read but do not change its place.
LEMMA FitMoved ==
  ASSUME TypeOK, FitInv, NEW c \in Clients, UNCHANGED <<plan, spot, fitted>>,
         \A d \in Clients : d # c => pc'[d] = pc[d] /\ memory'[d] = memory[d],
         pc[c] \in Adding, memory'[c].place = memory[c].place,
         \/ /\ pc[c] = "location" /\ pc'[c] = "step" /\ memory'[c].spot = spot
         \/ /\ pc'[c] \in {"existing", "insert", "added"}
            /\ fitted[c].category /\ fitted[c].distance
  PROVE  FitInv'
  BY DEF FitInv, Adding

LEMMA FitStep ==
  TypeOK /\ FitInv /\ AddedOnce /\ [Next]_vars => FitInv' /\ AddedOnce'
  <1> SUFFICES ASSUME TypeOK, FitInv, AddedOnce, [Next]_vars PROVE FitInv' /\ AddedOnce'
    OBVIOUS
  <1> USE DEF planVars, spotVars
  <1>0. CASE UNCHANGED vars
    BY <1>0 DEF vars, FitInv, AddedOnce
  <1>s. ASSUME NEW c \in Clients, Step(c) PROVE FitInv' /\ AddedOnce'
    <2>p. ASSUME NEW from, NEW to, Goto(c, from, to)
          PROVE  /\ pc[c] = from /\ pc'[c] = to
                 /\ \A d \in Clients : d # c => pc'[d] = pc[d]
      BY <2>p DEF Goto, TypeOK
    <2>1. CASE GetCoursePlan(c)
      BY <2>1, <2>p, FitKept DEF GetCoursePlan, Adding
    <2>2. CASE ReadVersion(c)
      BY <2>2, <2>p, FitKept DEF ReadVersion, Adding
    <2>3. CASE ReadSteps(c)
      BY <2>3, <2>p, FitKept DEF ReadSteps, Adding
    <2>4. CASE \E steps \in Plans : SavePlan(c, steps)
      <3>1. PICK steps \in Plans : SavePlan(c, steps)
        BY <2>4
      <3>4. \A d \in Clients : d # c => memory'[d] = memory[d]
        BY <3>1 DEF SavePlan, TypeOK, Memory
      <3>2. pc'[c] = "saved" /\ \A d \in Clients : d # c => pc'[d] = pc[d] /\ memory'[d] = memory[d]
        BY <3>1, <3>4, <2>p DEF SavePlan
      <3>3. plan' = steps /\ spot' = spot /\ Refit(steps, spot) /\ UNCHANGED recommender
        BY <3>1 DEF SavePlan
      <3> QED BY <3>2, <3>3, FitRefit DEF Adding
    <2>5. CASE StalePlan(c)
      BY <2>5, <2>p, FitKept DEF StalePlan, Adding
    <2>6. CASE \E s \in Spots : MoveLocation(c, s)
      <3>1. PICK s \in Spots : MoveLocation(c, s)
        BY <2>6
      <3>2. pc'[c] = "moved" /\ \A d \in Clients : d # c => pc'[d] = pc[d] /\ memory'[d] = memory[d]
        BY <3>1, <2>p DEF MoveLocation
      <3>3. plan' = plan /\ spot' = s /\ Refit(plan, s) /\ UNCHANGED recommender
        BY <3>1 DEF MoveLocation
      <3> QED BY <3>2, <3>3, FitRefit DEF Adding
    <2>7. CASE MoveConflicts(c)
      BY <2>7, <2>p, FitKept DEF MoveConflicts, Adding
    <2>8. CASE \E p \in Places : AddRecommendation(c, p)
      <3>1. PICK p \in Places : AddRecommendation(c, p)
        BY <2>8
      <3>2. /\ pc'[c] = "location"
            /\ \A d \in Clients : d # c => pc'[d] = pc[d]
        BY <3>1, <2>p DEF AddRecommendation
      <3>3. /\ \A d \in Clients : d # c => memory'[d] = memory[d] /\ fitted'[d] = fitted[d]
            /\ memory'[c].place = p
            /\ fitted'[c] = FitsNow(p, plan, spot)
            /\ UNCHANGED <<plan, spot, recommender>>
        BY <3>1 DEF AddRecommendation, TypeOK, Memory
      <3>4. /\ CategoryOf[p] \in CategoriesOf(plan) => FitsNow(p, plan, spot).category
            /\ p \in InRange[spot] => FitsNow(p, plan, spot).distance
        BY PlanAssumption DEF FitsNow
      <3>5. AddedOnce'
        BY <3>2, <3>3 DEF AddedOnce
      <3>6. ASSUME NEW d \in Clients, d # c
            PROVE  /\ pc'[d] = pc[d] /\ memory'[d] = memory[d] /\ fitted'[d] = fitted[d]
        BY <3>2, <3>3, <3>6
      <3>7. FitInv'
        BY <3>2, <3>3, <3>4, <3>6 DEF FitInv
      <3> QED BY <3>5, <3>7
    <2>9. CASE ReadLocation(c)
      <3>1. /\ memory'[c].place = memory[c].place /\ memory'[c].spot = spot
            /\ \A d \in Clients : d # c => memory'[d] = memory[d]
            /\ UNCHANGED <<plan, spot, recommender, fitted>>
        BY <2>9 DEF ReadLocation, TypeOK, Memory
      <3>2. pc[c] = "location" /\ pc'[c] = "step" /\ \A d \in Clients : d # c => pc'[d] = pc[d]
        BY <2>9, <2>p DEF ReadLocation
      <3>3. FitInv'
        BY <3>1, <3>2, FitMoved DEF Adding
      <3>4. AddedOnce'
        BY <3>1, <3>2 DEF AddedOnce
      <3> QED BY <3>3, <3>4
    <2>10. CASE CheckPlace(c)
      <3>1. CASE Acceptable(c)
        <4>1. pc[c] = "step" /\ pc'[c] = "existing" /\ \A d \in Clients : d # c => pc'[d] = pc[d]
          BY <2>10, <3>1, <2>p DEF CheckPlace
        <4>2. fitted[c].category /\ fitted[c].distance
          BY <3>1, <4>1 DEF FitInv, Acceptable
        <4>3. UNCHANGED <<plan, spot, recommender, memory, fitted>>
          BY <2>10 DEF CheckPlace
        <4>4. FitInv'
          BY <4>1, <4>2, <4>3, FitMoved DEF Adding
        <4> QED BY <4>1, <4>3, <4>4 DEF AddedOnce
      <3>2. CASE ~Acceptable(c)
        BY <2>10, <3>2, <2>p, FitKept DEF CheckPlace, Adding
      <3> QED BY <3>1, <3>2
    <2>11. CASE FindExisting(c)
      <3>1. CASE recommender[memory[c].place] = None
        <4>1. pc[c] = "existing" /\ pc'[c] = "insert" /\ \A d \in Clients : d # c => pc'[d] = pc[d]
          BY <2>11, <3>1, <2>p DEF FindExisting
        <4>2. UNCHANGED <<plan, spot, recommender, memory, fitted>>
          BY <2>11 DEF FindExisting
        <4>3. FitInv'
          BY <4>1, <4>2, FitMoved DEF FitInv, Adding
        <4> QED BY <4>1, <4>2, <4>3 DEF AddedOnce
      <3>2. CASE recommender[memory[c].place] # None
        BY <2>11, <3>2, <2>p, FitKept DEF FindExisting, Adding
      <3> QED BY <3>1, <3>2
    <2>12. CASE InsertRecommendation(c)
      <3>1. CASE recommender[memory[c].place] = None
        <4>1. pc[c] = "insert" /\ pc'[c] = "added" /\ \A d \in Clients : d # c => pc'[d] = pc[d]
          BY <2>12, <3>1, <2>p DEF InsertRecommendation
        <4>2. UNCHANGED <<plan, spot, memory, fitted>>
          BY <2>12 DEF InsertRecommendation
        <4>3. FitInv'
          BY <4>1, <4>2, FitMoved DEF FitInv, Adding
        <4>4. memory[c].place \in Places
          BY <4>1 DEF FitInv, Adding
        <4>5. recommender' = [recommender EXCEPT ![memory[c].place] = c]
          BY <2>12, <3>1 DEF InsertRecommendation
        <4>6. \A d \in Clients : pc[d] = "added" => memory[d].place # memory[c].place
          BY <3>1, PlanAssumption DEF AddedOnce
        <4>7. AddedOnce'
          BY <4>1, <4>2, <4>4, <4>5, <4>6 DEF AddedOnce, TypeOK
        <4> QED BY <4>3, <4>7
      <3>2. CASE recommender[memory[c].place] # None
        BY <2>12, <3>2, <2>p, FitKept DEF InsertRecommendation, Adding
      <3> QED BY <3>1, <3>2
    <2>13. CASE EditAgain(c)
      BY <2>13, <2>p, FitKept DEF EditAgain, Adding
    <2>14. CASE NextRequest(c)
      <3>1. /\ pc'[c] = "idle" /\ UNCHANGED <<plan, spot, recommender>>
            /\ \A d \in Clients : d # c => /\ pc'[d] = pc[d] /\ memory'[d] = memory[d]
                                          /\ fitted'[d] = fitted[d]
        BY <2>14 DEF NextRequest, TypeOK
      <3> QED BY <3>1, FitKept DEF Adding
    <2> QED BY <1>s, <2>1, <2>2, <2>3, <2>4, <2>5, <2>6, <2>7, <2>8, <2>9, <2>10,
               <2>11, <2>12, <2>13, <2>14 DEF Step
  <1> QED BY <1>0, <1>s DEF Next

LEMMA FitInit == Init => FitInv /\ AddedOnce
  BY DEF Init, FitInv, AddedOnce, Adding

\* Every place told "added" was in the plan, and in range, at some moment of the request.
THEOREM AddedPlacesFit == Spec => []AddedFitted
  <1>1. FitInv => AddedFitted
    BY DEF FitInv, AddedFitted
  <1> QED BY <1>1, FitInit, FitStep, PlanTypeCorrect, PTL DEF Spec

\* No two requests are told they added the same place.
THEOREM AddedPlacesOnce == Spec => []AddedOnce
  BY FitInit, FitStep, PlanTypeCorrect, PTL DEF Spec
=============================================================================
