------------------------- MODULE PlaceSearchProofs -------------------------
(***************************************************************************)
(* A search reads the version of the location first and the jobs last.     *)
(* That its READY is true all the same rests on two facts: versions only   *)
(* grow, so that the jobs of a version read earlier are those of the plan   *)
(* it was set under, and the coverage of a job is never taken back.        *)
(*                                                                         *)
(* What a list of places becomes under the filter of a search, and what a  *)
(* place that is stored does to the positions of the others, is a matter   *)
(* of counting the positions kept (SubsequenceProofs): no induction.       *)
(***************************************************************************)
EXTENDS PlaceSearch, PlaceSyncLifecycleProofs, SubsequenceProofs

\* The version in a question was read from the location some time ago.
Asked(q) == q \in Question /\ q.version <= version[q.meeting]

AnswerCovered ==
  answer.status = "READY" =>
    /\ Asked(answer.question)
    /\ PlanOf(answer.question) # {}
    /\ \A c \in PlanOf(answer.question) :
         JobCovered([meeting |-> answer.question.meeting,
                     version |-> answer.question.version, category |-> c])

\* The request in progress has its fields.
InProgress ==
  search = [step |-> "query", question |-> search.question, page |-> search.page,
            rows |-> search.rows, hasNext |-> search.hasNext]

\* What is kept of the search in progress and of the last answer.
SearchInv ==
  /\ CoverageInv
  /\ search.step = "query" => InProgress /\ Asked(search.question)
  /\ AnswerCovered

\* Workers, faults and time leave meetings alone.
LEMMA LocationsByAPI ==
  ASSUME [Next]_vars
  PROVE  UNCHANGED meetingVars \/ \E m \in Meetings : MeetingStep(m)
<1>1. ASSUME NEW w \in Workers, WorkerStep(w) PROVE UNCHANGED meetingVars
  BY <1>1 DEF WorkerStep, RecoverStale, Claim, NothingDue, Load, SkipFreshTile,
     MissTile, AcquireTileLease, TileLeaseUnavailable, CollectTile, CollectTileFails,
     ReleaseTileLease, SaveCoverage, SaveCoverageConflicts, CompleteJob, FailOrRetryJob
<1>2. ASSUME NEW w \in Workers, FaultStep(w) PROVE UNCHANGED meetingVars
  BY <1>2 DEF FaultStep, Crash, QueryErrorInLoop, QueryErrorInJob, UpsertError, ReplyLost
<1>3. Tick \/ UNCHANGED vars => UNCHANGED meetingVars
  BY DEF Tick, vars
<1>4. QED BY <1>1, <1>2, <1>3 DEF Next

\* The location of a meeting only gets newer.
LEMMA VersionsGrow ==
  ASSUME TypeOK, [Next]_vars, NEW m \in Meetings
  PROVE  version[m] \in 0..MaxVersion /\ version'[m] \in Nat /\ version[m] <= version'[m]
<1>0. version \in [Meetings -> 0..MaxVersion] /\ version[m] \in Nat
  BY Bounds DEF TypeOK
<1>1. UNCHANGED meetingVars => version' = version
  BY DEF meetingVars
<1>2. ASSUME NEW k \in Meetings, MeetingStep(k)
      PROVE  version' = version \/ version' = [version EXCEPT ![k] = version[k] + 1]
  BY <1>2, MeetingEffect DEF LocationSet
<1>3. QED BY <1>0, <1>1, <1>2, LocationsByAPI

\* A location once set keeps the plan it was set under.
LEMMA PlanStays ==
  ASSUME TypeOK, [Next]_vars, NEW m \in Meetings, NEW v \in 1..MaxVersion, v <= version[m]
  PROVE  planned'[m][v] = planned[m][v]
<1>1. UNCHANGED meetingVars => planned' = planned
  BY DEF meetingVars
<1>2. ASSUME NEW k \in Meetings, MeetingStep(k) PROVE planned'[m][v] = planned[m][v]
  <2>1. CASE planned' = planned
    BY <2>1
  <2>2. ASSUME NEW cats, LocationSet(k, version[k] + 1, cats) PROVE planned'[m][v] = planned[m][v]
    <3>1. version[m] \in Nat /\ v \in Nat
      BY Bounds DEF TypeOK
    <3>2. ~(k = m /\ v = version[k] + 1)
      BY <3>1
    <3>3. QED BY <2>2, <3>2 DEF LocationSet, TypeOK
  <2>3. QED BY <1>2, <2>1, <2>2, MeetingEffect
<1>3. QED BY <1>1, <1>2, LocationsByAPI

LEMMA AskedStays ==
  ASSUME TypeOK, [Next]_vars, NEW q, Asked(q)
  PROVE  /\ q \in Question /\ q.version <= version'[q.meeting]
         /\ PlanOf(q)' = PlanOf(q)
<1>1. /\ q \in Question /\ q.meeting \in Meetings /\ q.version \in 1..MaxVersion
      /\ q.version \in Nat /\ q.version <= version[q.meeting]
  BY Bounds DEF Asked, Question
<1>2. planned'[q.meeting][q.version] = planned[q.meeting][q.version]
  BY <1>1, PlanStays
<1>3. QED BY <1>1, <1>2, VersionsGrow DEF PlanOf

LEMMA PlanOfType ==
  ASSUME TypeOK, NEW q \in Question
  PROVE  /\ PlanOf(q) \subseteq Categories
         /\ \A c \in PlanOf(q) : [meeting |-> q.meeting, version |-> q.version, category |-> c] \in Job
<1>1. q.meeting \in Meetings /\ q.version \in 1..MaxVersion
  BY DEF Question
<1>2. planned \in [Meetings -> [1..MaxVersion -> SUBSET Categories]]
  BY DEF TypeOK
<1>3. PlanOf(q) \subseteq Categories
  BY <1>1, <1>2 DEF PlanOf
<1>4. QED BY <1>1, <1>3 DEF Job

LEMMA SearchInvStep == SearchInv /\ [SearchNext]_allVars => SearchInv'
<1> SUFFICES ASSUME SearchInv, [SearchNext]_allVars PROVE SearchInv'
  OBVIOUS
<1>0. [Next]_vars /\ CoverageInv /\ TypeOK
  BY DEF SearchNext, SyncStep, SearchStep, ReadLocation, SelectRows, CountRows, Respond,
     allVars, SearchInv, CoverageInv
<1>1. CoverageInv'
  BY <1>0, CoverageStep
\* The synchronisation runs, or nothing happens.
<1>2. ASSUME UNCHANGED <<search, answer>> PROVE SearchInv'
  <2>1. search.step = "query" => InProgress' /\ Asked(search.question)'
    BY <1>0, <1>2, AskedStays DEF SearchInv, Asked, InProgress
  <2>2. AnswerCovered'
    <3> SUFFICES ASSUME answer.status = "READY"
                 PROVE  /\ Asked(answer.question)'
                        /\ PlanOf(answer.question)' # {}
                        /\ \A c \in PlanOf(answer.question)' :
                             JobCovered([meeting |-> answer.question.meeting,
                                         version |-> answer.question.version, category |-> c])'
      BY <1>2 DEF AnswerCovered
    <3>1. Asked(answer.question) /\ PlanOf(answer.question) # {}
      BY DEF SearchInv, AnswerCovered
    <3>2. /\ Asked(answer.question)' /\ PlanOf(answer.question)' = PlanOf(answer.question)
      BY <1>0, <1>2, <3>1, AskedStays DEF Asked, PlanOf
    <3>3. ASSUME NEW c \in PlanOf(answer.question)
          PROVE  JobCovered([meeting |-> answer.question.meeting,
                             version |-> answer.question.version, category |-> c])'
      <4>2. PICK j \in Job : j = [meeting |-> answer.question.meeting,
                                  version |-> answer.question.version, category |-> c]
        BY <1>0, <3>1, <3>3, PlanOfType DEF Asked
      <4>3. JobCovered(j)'
        BY <1>0, <4>2, JobStaysCovered DEF SearchInv, AnswerCovered
      <4>4. QED BY <1>2, <4>2, <4>3 DEF JobCovered, CollectedBefore, Collected, TourOf
    <3>4. QED BY <3>1, <3>2, <3>3
  <2>3. QED BY <1>1, <1>2, <2>1, <2>2 DEF SearchInv
\* A search takes a step: the tables stay.
<1>3. ASSUME UNCHANGED vars
      PROVE  version' = version /\ planned' = planned /\ coverage' = coverage /\ answered' = answered
  BY <1>3 DEF vars, meetingVars, dataVars
<1>4. ASSUME UNCHANGED vars, answer' = answer PROVE AnswerCovered'
  BY <1>3, <1>4 DEF SearchInv, AnswerCovered, Asked, PlanOf, JobCovered,
     CollectedBefore, Collected, TourOf
<1>5. ASSUME NEW m \in Meetings, NEW c \in Filters, NEW n \in 1..MaxPage, ReadLocation(m, c, n)
      PROVE  SearchInv'
  <2>1. UNCHANGED vars /\ answer' = answer
    BY <1>5 DEF ReadLocation
  <2>2. search'.question = [meeting |-> m, version |-> version[m], category |-> c]
    BY <1>5 DEF ReadLocation
  <2>3. version[m] \in 1..MaxVersion
    BY <1>0, <1>5, Bounds DEF ReadLocation, TypeOK
  <2>4. InProgress' /\ Asked(search.question)'
    BY <1>3, <1>5, <2>1, <2>2, <2>3 DEF Asked, Question, InProgress, ReadLocation
  <2>5. AnswerCovered'
    BY <1>4, <2>1
  <2>6. QED BY <1>1, <2>4, <2>5 DEF SearchInv
<1>6. ASSUME SelectRows \/ CountRows PROVE SearchInv'
  <2>1. UNCHANGED vars /\ answer' = answer
    BY <1>6 DEF SelectRows, CountRows
  <2>2. search.step = "query" /\ InProgress
    BY <1>6 DEF SelectRows, CountRows, SearchInv
  <2>3. search'.question = search.question /\ InProgress'
    BY <1>6, <2>2 DEF SelectRows, CountRows, InProgress
  <2>4. Asked(search.question)'
    BY <1>3, <2>1, <2>2, <2>3 DEF SearchInv, Asked
  <2>5. AnswerCovered'
    BY <1>4, <2>1
  <2>6. QED BY <1>1, <2>3, <2>4, <2>5 DEF SearchInv
<1>7. ASSUME Respond PROVE SearchInv'
  <2>1. UNCHANGED vars /\ search' = NoSearch /\ search.step = "query"
    BY <1>7 DEF Respond
  <2>2. /\ answer'.question = search.question
        /\ answer'.status = StatusOfVersion(search.question.meeting, search.question.version)
    BY <1>7 DEF Respond
  <2>3. Asked(search.question) /\ Asked(answer.question)'
    BY <1>3, <2>1, <2>2 DEF SearchInv, Asked
  <2>4. ASSUME answer'.status = "READY"
        PROVE  /\ PlanOf(answer.question)' # {}
               /\ \A c \in PlanOf(answer.question)' :
                    JobCovered([meeting |-> answer.question.meeting,
                                version |-> answer.question.version, category |-> c])'
    <3>1. /\ search.question.meeting \in Meetings /\ search.question.version \in 1..MaxVersion
      BY <2>3 DEF Asked, Question
    <3>2. StatusOfVersion(search.question.meeting, search.question.version) = "READY"
      BY <2>2, <2>4
    <3>3. /\ PlanOf(search.question) # {}
          /\ \A c \in PlanOf(search.question) :
               JobCovered([meeting |-> search.question.meeting,
                           version |-> search.question.version, category |-> c])
      BY <3>1, <3>2, ReadyCovered DEF SearchInv, PlanOf
    <3>4. PlanOf(answer.question)' = PlanOf(search.question)
      BY <1>3, <2>1, <2>2 DEF PlanOf
    <3>5. QED
      BY <1>3, <2>1, <2>2, <3>3, <3>4 DEF JobCovered, CollectedBefore, Collected, TourOf
  <2>5. AnswerCovered'
    BY <2>2, <2>3, <2>4 DEF AnswerCovered
  <2>6. search'.step # "query"
    BY <2>1 DEF NoSearch
  <2>7. QED BY <1>1, <2>5, <2>6 DEF SearchInv
<1>8. CASE SearchStep
  BY <1>5, <1>6, <1>7, <1>8 DEF SearchStep
<1>9. CASE SyncStep \/ UNCHANGED allVars
  BY <1>2, <1>9 DEF SyncStep, allVars, searchVars
<1>10. QED BY <1>8, <1>9 DEF SearchNext

LEMMA SearchInvInit == SearchInit => SearchInv
BY CoverageInit DEF SearchInit, SearchInv, AnswerCovered, NoSearch, NoAnswer

\* A search that answers READY names a location that is collected: the version
\* it read first may be outdated when it reads the jobs, but its jobs exist and
\* what they report is never taken back.
THEOREM ReadyAnswered == SearchSpec => []ReadyAnswersCovered
<1>1. SearchInv => ReadyAnswersCovered
  BY DEF SearchInv, AnswerCovered, ReadyAnswersCovered
<1>2. QED BY <1>1, SearchInvInit, SearchInvStep, PTL DEF SearchSpec

-----------------------------------------------------------------------------
(***************************************************************************)
(* Pages read one after the other.  While nothing is stored the listing of *)
(* a question stays what it is; the pages read so far are then a prefix of *)
(* it, whose length is known from the number of the next page, and hasNext *)
(* says whether the prefix is the whole.                                   *)
(***************************************************************************)

\* How much of a listing of length l the pages before page n hold.
Read(n, l) == Smaller((n - 1) * PageSize, l)

\* The pages before the next one were read, and are all there is when over.
Walked(W, L) ==
  /\ W = [question |-> W.question, next |-> W.next, seen |-> W.seen, over |-> W.over]
  /\ W.question \in Question /\ W.next \in Nat \ {0} /\ W.over \in BOOLEAN
  /\ W.seen = SubSeq(L, 1, Read(W.next, Len(L)))
  /\ IF W.over THEN Len(L) <= (W.next - 1) * PageSize ELSE (W.next - 1) * PageSize <= Len(L)

\* A request of the walk reads its next page.
Follows(S, W, L) ==
  W # NoWalk /\ W.next = S.page /\ W.question = S.question =>
    /\ ~W.over
    /\ S.rows # NotRead => S.rows = Page(L, S.page)
    /\ S.hasNext # NotRead => S.hasNext = HasNext(S.page, Len(L))

WalkInv ==
  /\ SearchInv
  /\ walk # NoWalk => Walked(walk, Listed(walk.question))
  /\ search.step = "query" => /\ search.page \in Nat \ {0}
                              /\ Follows(search, walk, Listed(walk.question))

LEMMA PageSizes == PageSize \in Nat \ {0} /\ MaxPage \in Nat \ {0}
BY SearchAssumption

LEMMA NearestType ==
  ASSUME NEW q \in Question
  PROVE  /\ Nearest[q.meeting][q.version] \in Seq(Places)
         /\ \A a, b \in 1..Len(Nearest[q.meeting][q.version]) :
              Nearest[q.meeting][q.version][a] = Nearest[q.meeting][q.version][b] => a = b
<1>1. q.meeting \in Meetings /\ q.version \in 1..MaxVersion
  BY DEF Question
<1>2. Nearest[q.meeting] \in [1..MaxVersion -> Seq(Places)]
  BY <1>1, SearchAssumption
<1>3. Nearest[q.meeting][q.version] \in Seq(Places)
  BY <1>1, <1>2
<1>4. IsInjective(Nearest[q.meeting][q.version])
  BY <1>1, SearchAssumption
<1>5. QED BY <1>3, <1>4 DEF IsInjective

LEMMA ListedType ==
  ASSUME NEW q \in Question
  PROVE  Listed(q) \in Seq(Places) /\ Len(Listed(q)) \in Nat
BY NearestType, KeepType DEF Listed

LEMMA PagesType ==
  ASSUME NEW n \in Nat \ {0}, NEW l \in Nat
  PROVE  /\ Read(n, l) \in Nat /\ Read(n, l) <= l
         /\ Smaller(n * PageSize, l) \in Nat /\ Smaller(n * PageSize, l) <= l
         /\ Read(n, l) <= Smaller(n * PageSize, l)
         /\ (n - 1) * PageSize \in Nat /\ n * PageSize = (n - 1) * PageSize + PageSize
<1>1. PageSize \in Nat /\ n - 1 \in Nat
  BY PageSizes
<1>2. (n - 1) * PageSize \in Nat
  BY <1>1
<1>3. n * PageSize = (n - 1) * PageSize + PageSize
  <2>1. \A k, p \in Nat : (k + 1) * p = k * p + p
    OBVIOUS
  <2>2. ((n - 1) + 1) * PageSize = (n - 1) * PageSize + PageSize /\ (n - 1) + 1 = n
    BY <1>1, <2>1
  <2>3. QED BY <2>2
<1> DEFINE a == (n - 1) * PageSize
           b == n * PageSize
<1>4. a \in Nat /\ b = a + PageSize /\ PageSize \in Nat
  BY <1>1, <1>2, <1>3
<1> HIDE DEF a, b
<1>5. /\ Smaller(a, l) \in Nat /\ Smaller(a, l) <= l
      /\ Smaller(b, l) \in Nat /\ Smaller(b, l) <= l /\ Smaller(a, l) <= Smaller(b, l)
  BY <1>4 DEF Smaller
<1>6. QED BY <1>4, <1>5 DEF Read, a, b

\* A prefix and what follows it make a longer prefix.
LEMMA PrefixGrows ==
  ASSUME NEW S, NEW s \in Seq(S), NEW a \in Nat, NEW b \in Nat, a <= b, b <= Len(s)
  PROVE  SubSeq(s, 1, a) \o SubSeq(s, a + 1, b) = SubSeq(s, 1, b)
<1> DEFINE p == SubSeq(s, 1, a)
           t == SubSeq(s, a + 1, b)
<1>1. p \in Seq(S) /\ Len(p) = a /\ \A i \in 1..a : p[i] = s[i]
  OBVIOUS
<1>2. t \in Seq(S) /\ Len(t) = b - a /\ \A i \in 1..(b - a) : t[i] = s[a + i]
  OBVIOUS
<1> HIDE DEF p, t
<1>3. /\ p \o t \in Seq(S) /\ Len(p \o t) = b
      /\ \A i \in 1..b : (p \o t)[i] = s[i]
  <2>1. /\ p \o t \in Seq(S) /\ Len(p \o t) = Len(p) + Len(t)
        /\ \A i \in 1..(Len(p) + Len(t)) :
             (p \o t)[i] = IF i <= Len(p) THEN p[i] ELSE t[i - Len(p)]
    <3>1. p \o t \in Seq(S)
      BY <1>1, <1>2
    <3>2. p \in Seq(S) /\ t \in Seq(S)
      BY <1>1, <1>2
    <3>3. Len(p \o t) = Len(p) + Len(t)
      BY <3>2
    <3>4. \A i \in 1..(Len(p) + Len(t)) :
             (p \o t)[i] = IF i <= Len(p) THEN p[i] ELSE t[i - Len(p)]
      BY <3>2
    <3>5. QED BY <3>1, <3>3, <3>4
  <2>2. ASSUME NEW i \in 1..b PROVE (p \o t)[i] = s[i]
    <3>1. CASE i <= a
      BY <1>1, <1>2, <2>1, <3>1
    <3>2. CASE ~(i <= a)
      <4>1. i - a \in 1..(b - a) /\ a + (i - a) = i
        BY <3>2
      <4>2. t[i - a] = s[i]
        BY <1>2, <4>1
      <4>3. QED BY <1>1, <1>2, <2>1, <3>2, <4>2
    <3>3. QED BY <3>1, <3>2
  <2>3. QED BY <1>1, <1>2, <2>1, <2>2
<1>4. SubSeq(s, 1, b) \in Seq(S) /\ Len(SubSeq(s, 1, b)) = b
      /\ \A i \in 1..b : SubSeq(s, 1, b)[i] = s[i]
  OBVIOUS
<1>5. QED BY <1>3, <1>4 DEF p, t

\* The pages read so far and the next one.
LEMMA NextPage ==
  ASSUME NEW S, NEW s \in Seq(S), NEW n \in Nat \ {0},
         (n - 1) * PageSize <= Len(s)
  PROVE  SubSeq(s, 1, Read(n, Len(s))) \o Page(s, n) = SubSeq(s, 1, Read(n + 1, Len(s)))
<1> DEFINE a == (n - 1) * PageSize
           b == Smaller(n * PageSize, Len(s))
<1>1. Len(s) \in Nat /\ a \in Nat /\ a <= Len(s)
  <2>1. Len(s) \in Nat
    OBVIOUS
  <2>2. QED BY <2>1, PagesType
<1>2. Read(n, Len(s)) = a /\ Read(n + 1, Len(s)) = b
  BY <1>1, (n + 1) - 1 = n DEF Read, Smaller
<1>3. b \in Nat /\ a <= b /\ b <= Len(s)
  <2>1. Read(n, Len(s)) <= Smaller(n * PageSize, Len(s))
    BY <1>1, PagesType
  <2>2. QED BY <1>1, <1>2, <2>1, PagesType
<1>4. Page(s, n) = SubSeq(s, a + 1, b)
  BY DEF Page
<1> HIDE DEF a, b
<1>5. SubSeq(s, 1, a) \o SubSeq(s, a + 1, b) = SubSeq(s, 1, b)
  BY <1>1, <1>3, PrefixGrows
<1>6. QED BY <1>2, <1>4, <1>5

\* A step of a search or of the workers that stores nothing keeps what the
\* walk knows; a step that stores something ends it.
LEMMA WalkInvStep == WalkInv /\ [SearchNext]_allVars => WalkInv'
<1> SUFFICES ASSUME WalkInv, [SearchNext]_allVars PROVE WalkInv'
  OBVIOUS
<1>1. SearchInv /\ SearchInv'
  BY SearchInvStep DEF WalkInv
<1>2. /\ walk # NoWalk => Walked(walk, Listed(walk.question))
      /\ search.step = "query" => /\ search.page \in Nat \ {0}
                                  /\ Follows(search, walk, Listed(walk.question))
  BY DEF WalkInv
<1>3. ASSUME placeCategory' = placeCategory, NEW q PROVE Listed(q)' = Listed(q)
  BY <1>3 DEF Listed, Wanted
\* The synchronisation runs, or nothing happens.
<1>4. ASSUME UNCHANGED <<search, answer>>,
             (placeCategory' = placeCategory /\ walk' = walk)
               \/ walk' = NoWalk
      PROVE  WalkInv'
  <2>1. CASE placeCategory' = placeCategory /\ walk' = walk
    <3>1. Listed(walk.question)' = Listed(walk.question)
      BY <2>1 DEF Listed, Wanted
    <3>2. walk' # NoWalk => Walked(walk', Listed(walk.question)')
      BY <1>2, <2>1, <3>1
    <3>3. search'.step = "query" => /\ search'.page \in Nat \ {0}
                                    /\ Follows(search', walk', Listed(walk.question)')
      BY <1>2, <1>4, <2>1, <3>1
    <3>4. QED BY <1>1, <3>2, <3>3 DEF WalkInv
  <2>2. CASE walk' = NoWalk
    <3>1. search'.step = "query" => /\ search'.page \in Nat \ {0}
                                    /\ Follows(search', walk', Listed(walk.question)')
      BY <1>2, <1>4, <2>2 DEF Follows
    <3>2. QED BY <1>1, <2>2, <3>1 DEF WalkInv
  <2>3. QED BY <1>4, <2>1, <2>2
\* A search begins; with page 1 it begins a walk.
<1>5. ASSUME NEW m \in Meetings, NEW c \in Filters, NEW n \in 1..MaxPage, ReadLocation(m, c, n)
      PROVE  WalkInv'
  <2>0. PICK q \in Question : q = [meeting |-> m, version |-> version[m], category |-> c]
    <3>1. version[m] \in 1..MaxVersion
      BY <1>1, <1>5, Bounds DEF ReadLocation, TypeOK, SearchInv, CoverageInv
    <3>2. QED BY <3>1 DEF Question
  <2>1. /\ search' = [step |-> "query", question |-> q, page |-> n,
                      rows |-> NotRead, hasNext |-> NotRead]
        /\ walk' = IF n = 1 THEN [question |-> q, next |-> 1, seen |-> <<>>, over |-> FALSE]
                            ELSE walk
        /\ placeCategory' = placeCategory
        /\ n > 1 => walk # NoWalk /\ ~walk.over
    BY <1>5, <2>0 DEF ReadLocation, vars, dataVars
  <2>3. n \in Nat \ {0} /\ search'.page = n /\ search'.question = q
        /\ search'.rows = NotRead /\ search'.hasNext = NotRead /\ search'.step = "query"
    BY <2>1, PageSizes
  <2>4. CASE n = 1
    <3>1. walk' = [question |-> q, next |-> 1, seen |-> <<>>, over |-> FALSE]
      BY <2>1, <2>4
    <3> DEFINE L == Listed(q)'
    <3>2. L = Listed(q)
      BY <2>1 DEF Listed, Wanted
    <3>3. L \in Seq(Places) /\ Len(L) \in Nat
      BY <3>2, ListedType
    <3>4. Listed(walk.question)' = L
      BY <3>1
    <3> HIDE DEF L
    <3>5. (1 - 1) * PageSize = 0 /\ Read(1, Len(L)) = 0
      <4>1. 0 * PageSize = 0 /\ 1 - 1 = 0
        BY PageSizes
      <4>2. QED BY <3>3, <4>1 DEF Read, Smaller
    <3>6. SubSeq(L, 1, 0) = <<>>
      BY <3>3
    <3>7. Walked(walk', L)
      BY <3>1, <3>3, <3>5, <3>6 DEF Walked
    <3>8. Follows(search', walk', L)
      BY <2>3, <3>1 DEF Follows
    <3>9. QED BY <1>1, <2>3, <3>4, <3>7, <3>8 DEF WalkInv
  <2>5. CASE n # 1
    <3>1. walk' = walk /\ walk # NoWalk /\ ~walk.over
      BY <2>1, <2>3, <2>5
    <3>2. Listed(walk.question)' = Listed(walk.question)
      BY <2>1, <3>1 DEF Listed, Wanted
    <3>3. Walked(walk', Listed(walk.question)')
      BY <1>2, <3>1, <3>2
    <3>4. Follows(search', walk', Listed(walk.question)')
      BY <2>3, <3>1 DEF Follows
    <3>5. QED BY <1>1, <2>3, <3>3, <3>4 DEF WalkInv
  <2>6. QED BY <2>4, <2>5
<1>6. ASSUME SelectRows \/ CountRows PROVE WalkInv'
  <2>1. placeCategory' = placeCategory /\ walk' = walk /\ search.step = "query" /\ InProgress
    BY <1>1, <1>6 DEF SelectRows, CountRows, vars, dataVars, SearchInv
  <2> DEFINE L == Listed(walk.question)
  <2>2. Listed(walk.question)' = L
    BY <2>1 DEF Listed, Wanted
  <2>3. /\ search'.step = "query" /\ search'.page = search.page
        /\ search'.question = search.question
        /\ search'.rows \in {search.rows, Page(Listed(search.question), search.page)}
        /\ search'.hasNext \in {search.hasNext,
                                HasNext(search.page, Len(Listed(search.question)))}
    BY <1>6, <2>1 DEF SelectRows, CountRows, InProgress
  <2>4. search.page \in Nat \ {0} /\ Follows(search, walk, L)
    BY <1>2, <2>1
  <2>5. walk.question = search.question => Listed(search.question) = L
    BY Zenon
  <2> HIDE DEF L
  <2>6. Follows(search', walk', L)
    BY <2>1, <2>3, <2>4, <2>5 DEF Follows
  <2>7. walk' # NoWalk => Walked(walk', L)
    BY <1>2, <2>1 DEF L
  <2>8. QED BY <1>1, <2>2, <2>3, <2>4, <2>6, <2>7 DEF WalkInv
\* The page is read and counted: it is the next one of the walk, or ends it.
<1>7. ASSUME Respond PROVE WalkInv'
  <2>1. /\ placeCategory' = placeCategory /\ search' = NoSearch /\ search.step = "query"
        /\ search.rows # NotRead /\ search.hasNext # NotRead
    BY <1>7 DEF Respond, vars, dataVars
  <2>2. search'.step # "query"
    BY <2>1 DEF NoSearch
  <2> DEFINE Goes == walk.next = search.page /\ walk.question = search.question
  <2>3. CASE Goes
    <3>1. search.page \in Nat \ {0}
      BY <1>2, <2>1
    <3>2. walk # NoWalk
      BY <2>3, <3>1 DEF NoWalk
    <3> DEFINE q == walk.question
               n == walk.next
               L == Listed(q)
    <3>3. Walked(walk, L) /\ Follows(search, walk, L)
      BY <1>2, <2>1, <3>2
    <3>4. walk' = [walk EXCEPT !.next = n + 1, !.seen = @ \o search.rows, !.over = ~search.hasNext]
      BY <1>7, <2>3 DEF Respond
    <3>5. /\ q \in Question /\ n \in Nat \ {0}
          /\ walk.seen = SubSeq(L, 1, Read(n, Len(L)))
          /\ walk = [question |-> q, next |-> n, seen |-> walk.seen, over |-> walk.over]
      BY <3>3 DEF Walked
    <3>6. search.rows = Page(L, n) /\ search.hasNext = HasNext(n, Len(L)) /\ ~walk.over
      BY <2>1, <2>3, <3>2, <3>3 DEF Follows
    <3>7. L \in Seq(Places) /\ Len(L) \in Nat
      BY <3>5, ListedType
    <3>8. (n - 1) * PageSize <= Len(L)
      BY <3>3, <3>6 DEF Walked
    <3>9. SubSeq(L, 1, Read(n, Len(L))) \o Page(L, n) = SubSeq(L, 1, Read(n + 1, Len(L)))
      BY <3>5, <3>7, <3>8, NextPage
    <3>10. Listed(walk.question)' = L
      <4>1. walk'.question = q
        BY <3>4, <3>5
      <4>2. QED BY <2>1, <4>1 DEF Listed, Wanted
    <3> HIDE DEF L
    <3>11. walk' = [question |-> q, next |-> n + 1, seen |-> SubSeq(L, 1, Read(n + 1, Len(L))),
                    over |-> ~HasNext(n, Len(L))]
      BY <3>4, <3>5, <3>6, <3>9
    <3>12. Walked(walk', L)
      <4>1. n + 1 \in Nat \ {0} /\ (n + 1) - 1 = n /\ n * PageSize \in Nat
        BY <3>5, PageSizes
      <4>2. HasNext(n, Len(L)) \in BOOLEAN
            /\ IF ~HasNext(n, Len(L)) THEN Len(L) <= n * PageSize ELSE n * PageSize <= Len(L)
        BY <3>7, <4>1 DEF HasNext
      <4>3. QED BY <3>5, <3>11, <4>1, <4>2 DEF Walked
    <3>13. QED BY <1>1, <2>2, <3>10, <3>12 DEF WalkInv
  <2>4. CASE ~Goes
    <3>1. walk' = NoWalk
      BY <1>7, <2>4 DEF Respond
    <3>2. QED BY <1>1, <2>2, <3>1 DEF WalkInv
  <2>5. QED BY <2>3, <2>4
<1>8. CASE SearchStep
  BY <1>5, <1>6, <1>7, <1>8 DEF SearchStep
<1>9. CASE SyncStep \/ UNCHANGED allVars
  BY <1>4, <1>9 DEF SyncStep, allVars, searchVars, vars, dataVars
<1>10. QED BY <1>8, <1>9 DEF SearchNext

LEMMA WalkInvInit == SearchInit => WalkInv
BY SearchInvInit DEF SearchInit, WalkInv, NoSearch

\* Whoever reads page 1, 2, .. of a question until hasNext is false, while
\* nothing is stored, has read every stored place of the circle, once and
\* nearest first.
THEOREM QuietWalk == SearchSpec => []QuietWalkComplete
<1>1. WalkInv => QuietWalkComplete
  <2> SUFFICES ASSUME WalkInv, walk # NoWalk, walk.over PROVE walk.seen = Listed(walk.question)
    BY DEF QuietWalkComplete
  <2> DEFINE q == walk.question
             n == walk.next
             L == Listed(q)
  <2>1. Walked(walk, L)
    BY DEF WalkInv
  <2>2. q \in Question /\ n \in Nat \ {0} /\ walk.seen = SubSeq(L, 1, Read(n, Len(L)))
        /\ Len(L) <= (n - 1) * PageSize
    BY <2>1 DEF Walked
  <2>3. L \in Seq(Places) /\ Len(L) \in Nat
    BY <2>2, ListedType
  <2> HIDE DEF L, n
  <2>4. Read(n, Len(L)) = Len(L)
    <3>1. (n - 1) * PageSize \in Nat
      BY <2>2, <2>3, PagesType
    <3>2. QED BY <2>2, <2>3, <3>1 DEF Read, Smaller
  <2>5. SubSeq(L, 1, Len(L)) = L
    BY <2>3
  <2>6. QED BY <2>2, <2>4, <2>5 DEF L
<1>2. QED BY <1>1, WalkInvInit, WalkInvStep, PTL DEF SearchSpec

-----------------------------------------------------------------------------
(***************************************************************************)
(* Two answers to one question.  READY stays READY because the jobs of a   *)
(* version are all there from the moment the version is, and a completed   *)
(* job stays completed.  A place stays on its page or moves to a later one *)
(* because what is stored stays stored: more places are kept from the same *)
(* sequence, and the rank of each can only grow.                           *)
(***************************************************************************)

\* A location of which every job is completed.
Settled(q) ==
  /\ Asked(q)
  /\ PlanOf(q) # {}
  /\ \A c \in PlanOf(q) :
       status[[meeting |-> q.meeting, version |-> q.version, category |-> c]] = "COMPLETED"

\* No place of a page stands before that page in the listing of today.
NotBefore(rows, n, q) ==
  \A p \in ToSet(rows) :
    \E k \in 1..Len(Listed(q)) : Listed(q)[k] = p /\ (n - 1) * PageSize < k

\* A page read after another one shares places with it only when it is not an
\* earlier one.
After(S, A) ==
  \A p \in ToSet(A.rows) \cap ToSet(S.rows) : S.page >= A.page

Everything(q) == q.category = AnyCategory

RegressInv ==
  /\ WalkInv /\ OwnedInv
  /\ answer.status = "READY" => Settled(answer.question)
  /\ search.step = "query" /\ search.rows # NotRead /\ Everything(search.question) =>
       NotBefore(search.rows, search.page, search.question)
  /\ answer # NoAnswer =>
       /\ answer.question \in Question /\ answer.page \in Nat \ {0}
       /\ Everything(answer.question) => NotBefore(answer.rows, answer.page, answer.question)
  /\ (/\ search.step = "query" /\ search.rows # NotRead /\ answer # NoAnswer
      /\ search.question = answer.question /\ Everything(answer.question)) =>
       After(search, answer)

\* READY is the status of a settled location, and of no other.
LEMMA ReadySettled ==
  ASSUME CoverageInv, NEW q \in Question, Asked(q)
  PROVE  StatusOfVersion(q.meeting, q.version) = "READY" <=> Settled(q)
<1> DEFINE m == q.meeting
           v == q.version
           rows == {k \in Job : k.meeting = m /\ k.version = v /\ status[k] # "absent"}
           found == {status[k] : k \in rows}
           job(c) == [meeting |-> m, version |-> v, category |-> c]
<1>1. m \in Meetings /\ v \in 1..MaxVersion /\ v \in Nat /\ version[m] \in Nat /\ v <= version[m]
  BY Bounds DEF Asked, Question, CoverageInv, TypeOK
<1>2. \A c \in PlanOf(q) : job(c) \in rows
  <2>1. ASSUME NEW c \in PlanOf(q) PROVE job(c) \in Job
    BY <2>1, PlanOfType DEF CoverageInv
  <2>2. ASSUME NEW c \in PlanOf(q) PROVE status[job(c)] # "absent"
    BY <2>1, <2>2 DEF CoverageInv, JobsFollowLocation, PlanOf
  <2>3. QED BY <2>1, <2>2
<1>3. \A k \in rows : \E c \in PlanOf(q) : k = job(c)
  BY DEF Job, CoverageInv, JobsFollowLocation, PlanOf
<1>4. StatusOfVersion(m, v) = "READY" <=> found = {"COMPLETED"}
  BY DEF StatusOfVersion
<1> HIDE DEF rows, job
<1>5. found = {"COMPLETED"} <=> PlanOf(q) # {} /\ \A c \in PlanOf(q) : status[job(c)] = "COMPLETED"
  BY <1>2, <1>3
<1>6. QED BY <1>4, <1>5 DEF Settled, job

LEMMA SettledStays ==
  ASSUME "lostReply" \notin Faults, OwnedInv, [Next]_vars, NEW q, Settled(q)
  PROVE  Settled(q)'
<1>1. TypeOK
  BY DEF OwnedInv, KnownInv, Claimed
<1>2. q \in Question /\ q.version <= version'[q.meeting] /\ PlanOf(q)' = PlanOf(q)
  BY <1>1, AskedStays DEF Settled
<1>3. ASSUME NEW c \in PlanOf(q)
      PROVE  status'[[meeting |-> q.meeting, version |-> q.version, category |-> c]] = "COMPLETED"
  <2>1. [meeting |-> q.meeting, version |-> q.version, category |-> c] \in Job
    BY <1>1, <1>2, <1>3, PlanOfType
  <2>2. QED BY <2>1, CompletedStays DEF Settled
<1>4. QED BY <1>2, <1>3 DEF Settled, Asked

\* What is stored stays stored, in one category or another.
LEMMA StoredStays ==
  ASSUME TypeOK, TaskFitsPosition, [Next]_vars, NEW p \in Places, placeCategory[p] \in Categories
  PROVE  placeCategory'[p] \in Categories
<1>0. placeCategory \in [Places -> Categories \cup {NoCategory}]
  BY DEF TypeOK
<1>1. ASSUME NEW w \in Workers, CollectTile(w) PROVE placeCategory'[p] \in Categories
  <2>1. JobOf(w) \in Job
    BY <1>1 DEF CollectTile, TypeOK, TaskFitsPosition, Busy, JobOf, Task
  <2>2. QED BY <1>1, <2>1, JobData DEF CollectTile
<1>2. ASSUME NEW w \in Workers, WorkerStep(w) \/ FaultStep(w), ~CollectTile(w)
      PROVE  placeCategory' = placeCategory
  BY <1>2 DEF WorkerStep, RecoverStale, Claim, NothingDue, Load, SkipFreshTile,
     MissTile, AcquireTileLease, TileLeaseUnavailable, CollectTileFails,
     ReleaseTileLease, SaveCoverage, SaveCoverageConflicts, CompleteJob, FailOrRetryJob,
     FaultStep, Crash, QueryErrorInLoop, QueryErrorInJob, UpsertError, ReplyLost, dataVars
<1>3. ASSUME NEW k \in Meetings, MeetingStep(k)
      PROVE  placeCategory' = placeCategory
  BY <1>3, MeetingQuiet DEF dataVars
<1>4. Tick \/ UNCHANGED vars => placeCategory' = placeCategory
  BY DEF Tick, vars, dataVars
<1>5. QED BY <1>1, <1>2, <1>3, <1>4 DEF Next

\* A listing has no place twice.
LEMMA ListedOnce ==
  ASSUME NEW q \in Question,
         NEW h \in 1..Len(Listed(q)), NEW i \in 1..Len(Listed(q)), Listed(q)[h] = Listed(q)[i]
  PROVE  h = i
<1> DEFINE s == Nearest[q.meeting][q.version]
           T == {p \in Places : placeCategory[p] \in Wanted(q)}
<1>1. s \in Seq(Places) /\ \A a, b \in 1..Len(s) : s[a] = s[b] => a = b
  BY NearestType
<1>2. Listed(q) = Keep(s, T)
  BY DEF Listed
<1> HIDE DEF s, T
<1>3. h <= i /\ i <= h
  BY <1>1, <1>2, KeepMore
<1>4. Len(Listed(q)) \in Nat
  BY ListedType
<1>5. QED BY <1>3, <1>4

\* A place that is listed stays listed, where it was or later, when more is stored.
LEMMA ListedLater ==
  ASSUME TypeOK, TaskFitsPosition, [Next]_vars, NEW q \in Question, Everything(q),
         NEW h \in 1..Len(Listed(q))
  PROVE  \E k \in 1..Len(Listed(q)') : Listed(q)'[k] = Listed(q)[h] /\ h <= k
<1> DEFINE s == Nearest[q.meeting][q.version]
           T == {p \in Places : placeCategory[p] \in Categories}
           U == {p \in Places : placeCategory'[p] \in Categories}
<1>1. s \in Seq(Places) /\ \A a, b \in 1..Len(s) : s[a] = s[b] => a = b
  BY NearestType
<1>2. Listed(q) = Keep(s, T) /\ Listed(q)' = Keep(s, U)
  BY DEF Listed, Wanted, Everything
<1>3. T \subseteq U
  BY StoredStays
<1> HIDE DEF s, T, U
<1> DEFINE i == Nth(Positions(s, T), h)
<1>4. i \in Positions(s, T) /\ Listed(q)[h] = s[i]
  BY <1>1, <1>2, KeepType
<1>5. i \in Positions(s, U)
  BY <1>3, <1>4 DEF Positions
<1> DEFINE k == Rank(Positions(s, U), i)
<1>6. k \in 1..Len(Keep(s, U)) /\ Keep(s, U)[k] = s[i]
  BY <1>1, <1>5, KeepEach
<1> HIDE DEF i, k
<1>7. h <= k
  BY <1>1, <1>2, <1>3, <1>4, <1>6, KeepMore
<1>8. QED BY <1>2, <1>4, <1>6, <1>7

LEMMA NotBeforeStays ==
  ASSUME TypeOK, TaskFitsPosition, [Next]_vars, NEW q \in Question, Everything(q),
         NEW n \in Nat \ {0}, NEW rows, NotBefore(rows, n, q)
  PROVE  \A p \in ToSet(rows) :
           \E k \in 1..Len(Listed(q)') : Listed(q)'[k] = p /\ (n - 1) * PageSize < k
<1> SUFFICES ASSUME NEW p \in ToSet(rows)
             PROVE  \E k \in 1..Len(Listed(q)') : Listed(q)'[k] = p /\ (n - 1) * PageSize < k
  OBVIOUS
<1>1. PICK h \in 1..Len(Listed(q)) : Listed(q)[h] = p /\ (n - 1) * PageSize < h
  BY DEF NotBefore
<1>2. PICK k \in 1..Len(Listed(q)') : Listed(q)'[k] = Listed(q)[h] /\ h <= k
  BY ListedLater
<1>3. (n - 1) * PageSize \in Nat /\ h \in Int /\ k \in Int
  BY PagesType
<1>4. (n - 1) * PageSize < k
  BY <1>1, <1>2, <1>3
<1>5. QED BY <1>1, <1>2, <1>4

\* Where the places of a page stand.
LEMMA PageRanks ==
  ASSUME NEW q \in Question, NEW n \in Nat \ {0}, NEW p \in ToSet(Page(Listed(q), n))
  PROVE  \E k \in 1..Len(Listed(q)) :
           Listed(q)[k] = p /\ (n - 1) * PageSize < k /\ k <= n * PageSize
<1> DEFINE L == Listed(q)
           a == (n - 1) * PageSize
           b == Smaller(n * PageSize, Len(L))
<1>1. L \in Seq(Places) /\ Len(L) \in Nat
  BY ListedType
<1>2. a \in Nat /\ n * PageSize = a + PageSize /\ PageSize \in Nat
  BY PagesType, PageSizes, <1>1
<1> DEFINE c == n * PageSize
<1>3. Page(L, n) = SubSeq(L, a + 1, b)
  BY DEF Page
<1> HIDE DEF L, a, c
<1>4. c \in Nat /\ b \in Nat /\ b <= Len(L) /\ b <= c
  BY <1>1, <1>2 DEF Smaller, c
<1> HIDE DEF b
<1>5. SubSeq(L, a + 1, b) = [i \in 1..(b - a) |-> L[a + i]]
  BY <1>1, <1>2, <1>4
<1>6. PICK i \in 1..(b - a) : p = L[a + i]
  BY <1>3, <1>5 DEF ToSet, L
<1>7. a + i \in 1..Len(L) /\ a < a + i /\ a + i <= c
  BY <1>1, <1>2, <1>4, <1>6
<1>8. QED BY <1>6, <1>7 DEF L, a, c

\* A page read now and one read earlier.
LEMMA PageAfter ==
  ASSUME NEW q \in Question, NEW n \in Nat \ {0}, NEW a \in Nat \ {0}, NEW rows,
         NotBefore(rows, a, q), NEW p \in ToSet(rows) \cap ToSet(Page(Listed(q), n))
  PROVE  n >= a
<1>1. PICK k \in 1..Len(Listed(q)) :
        Listed(q)[k] = p /\ (n - 1) * PageSize < k /\ k <= n * PageSize
  BY PageRanks
<1>2. PICK h \in 1..Len(Listed(q)) : Listed(q)[h] = p /\ (a - 1) * PageSize < h
  BY DEF NotBefore
<1>3. h = k /\ h \in Nat
  BY <1>1, <1>2, ListedOnce, ListedType
<1>4. (a - 1) * PageSize < n * PageSize
  <2>1. (a - 1) * PageSize \in Nat /\ n * PageSize \in Nat
    BY PageSizes
  <2>2. QED BY <1>1, <1>2, <1>3, <2>1
<1>5. \A x, y, z \in Nat : x * z < y * z => x < y
  OBVIOUS
<1>6. a - 1 < n
  BY <1>4, <1>5, PageSizes, a - 1 \in Nat
<1>7. QED BY <1>6

\* The types and the jobs of the locations, as the lemmas above need them.
LEMMA RegressParts ==
  RegressInv => WalkInv /\ SearchInv /\ CoverageInv /\ OwnedInv /\ TypeOK /\ TaskFitsPosition
BY DEF RegressInv, WalkInv, SearchInv, CoverageInv

\* What an answer says of the tables holds after a step of the workers too.
LEMMA AnswerStays ==
  ASSUME "lostReply" \notin Faults, RegressInv, [Next]_vars, UNCHANGED answer
  PROVE  /\ answer'.status = "READY" => Settled(answer.question)'
         /\ answer' # NoAnswer =>
              /\ answer'.question \in Question /\ answer'.page \in Nat \ {0}
              /\ Everything(answer'.question) => NotBefore(answer.rows, answer.page, answer.question)'
<1>1. OwnedInv /\ TypeOK /\ TaskFitsPosition
  BY RegressParts
<1>2. ASSUME answer.status = "READY" PROVE Settled(answer.question)'
  <2>1. PICK q : q = answer.question
    OBVIOUS
  <2>2. Settled(q)'
    BY <1>1, <1>2, <2>1, SettledStays DEF RegressInv
  <2>3. answer'.question = q
    BY <2>1
  <2>4. QED BY <2>2, <2>3 DEF Settled, Asked
<1>3. ASSUME answer # NoAnswer, Everything(answer.question)
      PROVE  NotBefore(answer.rows, answer.page, answer.question)'
  <2>1. PICK q, n, rows : /\ q \in Question /\ q = answer.question
                          /\ n \in Nat \ {0} /\ n = answer.page
                          /\ rows = answer.rows
    BY <1>3 DEF RegressInv
  <2>2. \A p \in ToSet(rows) :
          \E k \in 1..Len(Listed(q)') : Listed(q)'[k] = p /\ (n - 1) * PageSize < k
    BY <1>1, <1>3, <2>1, NotBeforeStays DEF RegressInv
  <2>3. q = answer'.question /\ n = answer'.page /\ rows = answer'.rows
    BY <2>1
  <2>4. QED BY <2>2, <2>3 DEF NotBefore
<1>4. QED BY <1>2, <1>3 DEF RegressInv

LEMMA RowsStay ==
  ASSUME RegressInv, [Next]_vars, UNCHANGED search,
         search.step = "query", search.rows # NotRead, Everything(search.question)
  PROVE  NotBefore(search.rows, search.page, search.question)'
<1>1. TypeOK /\ TaskFitsPosition /\ WalkInv /\ SearchInv
  BY RegressParts
<1>2. PICK q, n, rows : /\ q \in Question /\ q = search.question
                        /\ n \in Nat \ {0} /\ n = search.page
                        /\ rows = search.rows
  BY <1>1 DEF WalkInv, SearchInv, Asked
<1>3. \A p \in ToSet(rows) :
        \E k \in 1..Len(Listed(q)') : Listed(q)'[k] = p /\ (n - 1) * PageSize < k
  BY <1>1, <1>2, NotBeforeStays DEF RegressInv
<1>4. q = search'.question /\ n = search'.page /\ rows = search'.rows
  BY <1>2
<1>5. QED BY <1>3, <1>4 DEF NotBefore

LEMMA RegressInvStep ==
  ASSUME Prompt, "lostReply" \notin Faults
  PROVE  RegressInv /\ [SearchNext]_allVars => RegressInv'
<1> SUFFICES ASSUME RegressInv, [SearchNext]_allVars PROVE RegressInv'
  OBVIOUS
<1>1. WalkInv /\ SearchInv /\ CoverageInv /\ OwnedInv /\ TypeOK /\ TaskFitsPosition
  BY RegressParts
<1>2. [Next]_vars
  BY DEF SearchNext, SyncStep, SearchStep, ReadLocation, SelectRows, CountRows, Respond, allVars
<1>3. WalkInv' /\ OwnedInv'
  BY <1>1, <1>2, WalkInvStep, OwnedStep
\* The answer stays: the workers run, or a search reads.
<1>4. ASSUME UNCHANGED answer,
             \/ UNCHANGED search
             \/ search'.step = "query" /\ search'.rows = NotRead
      PROVE  RegressInv'
  <2>1. (/\ search'.step = "query" /\ search'.rows # NotRead) =>
          /\ Everything(search.question)' => NotBefore(search.rows, search.page, search.question)'
          /\ answer' # NoAnswer /\ search'.question = answer'.question /\ Everything(answer.question)'
               => After(search, answer)'
    <3>1. CASE UNCHANGED search
      <4>1. search'.question = search.question /\ answer'.question = answer.question
        BY <1>4, <3>1
      <4>2. Everything(search.question)' <=> Everything(search.question)
        BY <4>1 DEF Everything
      <4>3. Everything(answer.question)' <=> Everything(answer.question)
        BY <4>1 DEF Everything
      <4>4. After(search, answer)' <=> After(search, answer)
        BY <1>4, <3>1 DEF After
      <4>5. QED BY <1>2, <1>4, <3>1, <4>2, <4>3, <4>4, RowsStay DEF RegressInv
    <3>2. CASE search'.rows = NotRead
      BY <3>2
    <3>3. QED BY <1>4, <3>1, <3>2
  <2>2. /\ answer'.status = "READY" => Settled(answer.question)'
        /\ answer' # NoAnswer =>
             /\ answer'.question \in Question /\ answer'.page \in Nat \ {0}
             /\ Everything(answer'.question) => NotBefore(answer.rows, answer.page, answer.question)'
    BY <1>2, <1>4, AnswerStays
  <2>3. QED BY <1>3, <2>1, <2>2 DEF RegressInv, Everything
<1>5. ASSUME NEW m \in Meetings, NEW c \in Filters, NEW n \in 1..MaxPage, ReadLocation(m, c, n)
      PROVE  RegressInv'
  BY <1>4, <1>5 DEF ReadLocation
\* The rows are counted.
<1>6. ASSUME CountRows PROVE RegressInv'
  <2>1. /\ search.step = "query" /\ search'.step = "query" /\ search'.question = search.question
        /\ search'.page = search.page /\ search'.rows = search.rows
        /\ UNCHANGED <<answer, placeCategory>>
    BY <1>1, <1>6 DEF CountRows, SearchInv, InProgress, vars, dataVars
  <2>2. /\ answer'.status = "READY" => Settled(answer.question)'
        /\ answer' # NoAnswer =>
             /\ answer'.question \in Question /\ answer'.page \in Nat \ {0}
             /\ Everything(answer'.question) => NotBefore(answer.rows, answer.page, answer.question)'
    BY <1>2, <2>1, AnswerStays
  <2>3. /\ Everything(search.question)' <=> Everything(search.question)
        /\ Everything(answer.question)' <=> Everything(answer.question)
    BY <2>1 DEF Everything
  <2>4. After(search, answer)' <=> After(search, answer)
    BY <2>1 DEF After
  <2>5. Listed(search.question)' = Listed(search.question)
    BY <2>1 DEF Listed, Wanted
  <2>6. NotBefore(search.rows, search.page, search.question)' <=>
          NotBefore(search.rows, search.page, search.question)
    BY <2>1, <2>5 DEF NotBefore
  <2>7. QED BY <1>3, <2>1, <2>2, <2>3, <2>4, <2>6 DEF RegressInv, Everything
\* The page is read: its places stand on it, the answer's not before theirs.
<1>7. ASSUME SelectRows PROVE RegressInv'
  <2>1. /\ search.step = "query" /\ search'.step = "query" /\ search'.question = search.question
        /\ search'.page = search.page
        /\ search'.rows = Page(Listed(search.question), search.page)
        /\ UNCHANGED <<answer, placeCategory>>
    BY <1>1, <1>7 DEF SelectRows, SearchInv, InProgress, vars, dataVars
  <2>2. PICK q \in Question, n \in Nat \ {0} : q = search.question /\ n = search.page
    BY <1>1, <2>1 DEF WalkInv, SearchInv, Asked
  <2>3. q = search'.question /\ n = search'.page /\ search'.rows = Page(Listed(q), n)
    BY <2>1, <2>2
  <2>4. Listed(q)' = Listed(q)
    BY <2>1 DEF Listed, Wanted
  <2>5. NotBefore(search.rows, search.page, search.question)'
    BY <2>2, <2>3, <2>4, PageRanks DEF NotBefore
  <2>6. ASSUME answer # NoAnswer, q = answer.question, Everything(q)
        PROVE  After(search, answer)'
    <3>1. PICK a, rows : a \in Nat \ {0} /\ a = answer.page /\ rows = answer.rows
      BY <2>6 DEF RegressInv
    <3>2. NotBefore(rows, a, q)
      BY <2>6, <3>1 DEF RegressInv
    <3>3. a = answer'.page /\ rows = answer'.rows
      BY <2>1, <3>1
    <3>4. QED BY <2>2, <2>3, <3>1, <3>2, <3>3, PageAfter DEF After
  <2>7. /\ answer'.status = "READY" => Settled(answer.question)'
        /\ answer' # NoAnswer =>
             /\ answer'.question \in Question /\ answer'.page \in Nat \ {0}
             /\ Everything(answer'.question) => NotBefore(answer.rows, answer.page, answer.question)'
    BY <1>2, <2>1, AnswerStays
  <2>8. answer' # NoAnswer /\ search'.question = answer'.question /\ Everything(answer'.question)
          => After(search, answer)'
    <3>1. answer'.question = answer.question /\ answer' = answer
      BY <2>1
    <3>2. QED BY <2>3, <2>6, <3>1 DEF Everything
  <2>9. QED BY <1>3, <2>1, <2>5, <2>7, <2>8 DEF RegressInv, Everything
\* The answer is the page read, with the status of its location.
<1>8. ASSUME Respond PROVE RegressInv'
  <2>1. /\ search.step = "query" /\ search.rows # NotRead
        /\ answer' = [question |-> search.question, page |-> search.page, rows |-> search.rows,
                      status |-> StatusOfVersion(search.question.meeting, search.question.version)]
        /\ search' = NoSearch /\ UNCHANGED <<version, planned, status, placeCategory>>
    BY <1>8 DEF Respond, vars, meetingVars, jobVars, dataVars
  <2>2. PICK q, n, rows : /\ q \in Question /\ q = search.question /\ Asked(q)
                          /\ n \in Nat \ {0} /\ n = search.page
                          /\ rows = search.rows
    BY <1>1, <2>1 DEF WalkInv, SearchInv, Asked
  <2>3. q = answer'.question /\ n = answer'.page /\ rows = answer'.rows
        /\ answer'.status = StatusOfVersion(q.meeting, q.version)
    BY <2>1, <2>2
  <2>4. answer'.status = "READY" => Settled(answer.question)'
    <3>1. answer'.status = "READY" => Settled(q)
      BY <1>1, <2>2, <2>3, ReadySettled
    <3>2. Settled(answer.question)' <=> Settled(q)
      BY <2>1, <2>3 DEF Settled, Asked, PlanOf
    <3>3. QED BY <3>1, <3>2
  <2>5. Everything(q) => NotBefore(answer.rows, answer.page, answer.question)'
    <3>1. Listed(q)' = Listed(q)
      BY <2>1 DEF Listed, Wanted
    <3>2. Everything(q) => NotBefore(rows, n, q)
      BY <2>1, <2>2 DEF RegressInv
    <3>3. QED BY <2>3, <3>1, <3>2 DEF NotBefore
  <2>6. search'.step # "query"
    BY <2>1 DEF NoSearch
  <2>7. answer'.question \in Question /\ answer'.page \in Nat \ {0}
    BY <2>2, <2>3
  <2>8. Everything(answer'.question) => NotBefore(answer.rows, answer.page, answer.question)'
    BY <2>3, <2>5
  <2>9. QED BY <1>3, <2>4, <2>6, <2>7, <2>8 DEF RegressInv, Everything
<1>9. CASE SearchStep
  BY <1>5, <1>6, <1>7, <1>8, <1>9 DEF SearchStep
<1>10. CASE SyncStep \/ UNCHANGED allVars
  BY <1>4, <1>10 DEF SyncStep, allVars, searchVars
<1>11. QED BY <1>9, <1>10 DEF SearchNext

LEMMA RegressInvInit == SearchInit => RegressInv
<1>1. SearchInit => WalkInv /\ OwnedInv
  BY WalkInvInit, OwnedInit DEF SearchInit
<1>2. QED BY <1>1 DEF SearchInit, RegressInv, NoSearch, NoAnswer

\* With prompt workers and no lost reply, an answer never takes back what an
\* earlier one to the same question said: READY stays READY, and a place found
\* on a page is not found on an earlier one, however much is stored meanwhile.
THEOREM NeverRegress ==
  ASSUME Prompt, "lostReply" \notin Faults
  PROVE  SearchSpec => AnswersNeverRegress
<1>1. ASSUME RegressInv, SearchNext, answer' # answer, answer # NoAnswer,
             answer'.question = answer.question
      PROVE  /\ answer.status = "READY" => answer'.status = "READY"
             /\ answer.question.category = AnyCategory =>
                  \A p \in ToSet(answer.rows) \cap ToSet(answer'.rows) : answer'.page >= answer.page
  <2>1. Respond
    BY <1>1 DEF SearchNext, SyncStep, SearchStep, ReadLocation, SelectRows, CountRows
  <2>2. /\ search.step = "query" /\ search.rows # NotRead
        /\ answer' = [question |-> search.question, page |-> search.page, rows |-> search.rows,
                      status |-> StatusOfVersion(search.question.meeting, search.question.version)]
    BY <2>1 DEF Respond
  <2> DEFINE q == search.question
  <2>3. q = answer.question /\ answer'.page = search.page /\ answer'.rows = search.rows
        /\ answer'.status = StatusOfVersion(q.meeting, q.version)
    BY <1>1, <2>2
  <2>4. CoverageInv /\ q \in Question /\ Asked(q)
    BY <1>1, <2>2, RegressParts DEF SearchInv, Asked
  <2>5. answer.status = "READY" => answer'.status = "READY"
    BY <1>1, <2>3, <2>4, ReadySettled DEF RegressInv
  <2>6. answer.question.category = AnyCategory => After(search, answer)
    BY <1>1, <2>2, <2>3 DEF RegressInv, Everything
  <2>7. QED BY <2>3, <2>5, <2>6 DEF After
<1>2. RegressInv /\ [SearchNext]_allVars =>
        [(answer' # answer /\ answer # NoAnswer /\ answer'.question = answer.question) =>
           /\ answer.status = "READY" => answer'.status = "READY"
           /\ answer.question.category = AnyCategory =>
                \A p \in ToSet(answer.rows) \cap ToSet(answer'.rows) :
                  answer'.page >= answer.page]_allVars
  BY <1>1
<1>3. QED
  BY <1>2, RegressInvInit, RegressInvStep, PTL DEF SearchSpec, AnswersNeverRegress
=============================================================================
