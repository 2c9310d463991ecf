---------------------------- MODULE PlaceSearch ----------------------------
(***************************************************************************)
(* PlaceService.searchPlaces (src/place) on top of the synchronisation that *)
(* fills the table it reads.  A search is four statements: the location,   *)
(* then the rows and their count side by side (Promise.all), then the jobs  *)
(* of the location version read first.  Workers, other searches and        *)
(* location changes run between any two of them.                           *)
(*                                                                         *)
(* One client is enough: searches write nothing, so two clients do not     *)
(* meet.  It reads on while there is a next page, or starts over.  The     *)
(* participant row that authenticates it is never deleted.                 *)
(***************************************************************************)
EXTENDS PlaceSync, SequencesExt, Subsequences

CONSTANTS
  Nearest,        \* [Meetings -> [1..MaxVersion -> Seq(Places)]]: the places within
                  \* PLACE_SYNC_RADIUS_METERS, by distance, then id
  PageSize,       \* request.size
  MaxPage,        \* bound: the largest page asked for
  Filters,        \* bound: the categories a search may ask for
  AnyCategory,    \* no categoryId in the request
  NotRead

ASSUME SearchAssumption ==
  /\ Nearest \in [Meetings -> [1..MaxVersion -> Seq(Places)]]
  /\ \A m \in Meetings, v \in 1..MaxVersion : IsInjective(Nearest[m][v])
  /\ PageSize \in Nat \ {0}
  /\ MaxPage \in Nat \ {0}
  /\ Filters \subseteq Categories \cup {AnyCategory}
  /\ AnyCategory \notin Categories \cup {NoCategory}
  /\ NotRead \notin BOOLEAN /\ NotRead \notin Seq(Places)

VARIABLES
  search,         \* the request in progress: its step and local variables
  answer,         \* the last response
  walk            \* history of the pages 1, 2, .. of one question in a row

searchVars == <<search, answer, walk>>
allVars == <<vars, searchVars>>

Question == [meeting : Meetings, version : 1..MaxVersion, category : Filters]

\* The categories a question asks for.
Wanted(q) == IF q.category = AnyCategory THEN Categories ELSE {q.category}

\* The stored places of a question in the order of the response.
Listed(q) ==
  Keep(Nearest[q.meeting][q.version], {p \in Places : placeCategory[p] \in Wanted(q)})

\* Faulty: the first page is skipped.
PageAfterNext(s, n) == SubSeq(s, n * PageSize + 1, Smaller((n + 1) * PageSize, Len(s)))

\* LIMIT size OFFSET (page - 1) * size.
Page(s, n) == SubSeq(s, (n - 1) * PageSize + 1, Smaller(n * PageSize, Len(s)))

HasNext(n, total) == n * PageSize < total

NoSearch == [step |-> "none"]
NoAnswer == [status |-> "none"]
NoWalk == [next |-> 0]

SearchInit ==
  /\ Init
  /\ search = NoSearch
  /\ answer = NoAnswer
  /\ walk = NoWalk

\* The location of the meeting is read once, with its version.  A client asks
\* for the first page, which starts a walk, or for the next one.
ReadLocation(m, c, n) ==
  LET q == [meeting |-> m, version |-> version[m], category |-> c]
  IN /\ search = NoSearch
     /\ version[m] > 0
     /\ n > 1 => walk # NoWalk /\ walk.next = n /\ walk.question = q /\ ~walk.over
     /\ search' = [step |-> "query", question |-> q, page |-> n,
                   rows |-> NotRead, hasNext |-> NotRead]
     /\ walk' = IF n = 1 THEN [question |-> q, next |-> 1, seen |-> <<>>, over |-> FALSE] ELSE walk
     /\ UNCHANGED <<vars, answer>>

\* The two queries of findNearby run on two connections, in either order.
SelectRows ==
  /\ search.step = "query" /\ search.rows = NotRead
  /\ search' = [search EXCEPT !.rows = Page(Listed(search.question), search.page)]
  /\ UNCHANGED <<vars, answer, walk>>

CountRows ==
  /\ search.step = "query" /\ search.hasNext = NotRead
  /\ search' = [search EXCEPT !.hasNext = HasNext(search.page, Len(Listed(search.question)))]
  /\ UNCHANGED <<vars, answer, walk>>

\* Faulty: the status of the location the meeting has by now.
RespondForCurrentLocation ==
  LET q == search.question
      n == search.page
  IN /\ search.step = "query" /\ search.rows # NotRead /\ search.hasNext # NotRead
     /\ answer' = [question |-> q, page |-> n, rows |-> search.rows,
                   status |-> CollectionStatus(q.meeting)]
     /\ walk' = NoWalk
     /\ search' = NoSearch
     /\ UNCHANGED vars

\* getStatus for the version read first, and the response.  A walk goes on while
\* the pages of one question are read in turn.
Respond ==
  LET q == search.question
      n == search.page
  IN /\ search.step = "query" /\ search.rows # NotRead /\ search.hasNext # NotRead
     /\ answer' = [question |-> q, page |-> n, rows |-> search.rows,
                   status |-> StatusOfVersion(q.meeting, q.version)]
     /\ walk' = IF walk.next = n /\ walk.question = q
                THEN [walk EXCEPT !.next = n + 1, !.seen = @ \o search.rows,
                                      !.over = ~search.hasNext]
                ELSE NoWalk
     /\ search' = NoSearch
     /\ UNCHANGED vars

\* The synchronisation runs; what it stores ends a walk.
SyncStep ==
  /\ Next
  /\ walk' = IF placeCategory' = placeCategory THEN walk ELSE NoWalk
  /\ UNCHANGED <<search, answer>>

SearchStep ==
  \/ \E m \in Meetings, c \in Filters, n \in 1..MaxPage : ReadLocation(m, c, n)
  \/ SelectRows \/ CountRows \/ Respond

SearchNext == SyncStep \/ SearchStep

SearchSpec == SearchInit /\ [][SearchNext]_allVars

\* The fairness of PlaceSync; clients owe nothing.
SearchFairSpec ==
  SearchSpec /\ WF_vars(Tick) /\ \A w \in Workers : WF_vars(WorkerStep(w))

-----------------------------------------------------------------------------
(* Properties.                                                             *)

\* The plan a meeting had when the location of a question was set.
PlanOf(q) == planned[q.meeting][q.version]

\* A search that answers READY names a location whose tiles are all collected,
\* for every category the plan had when that location was set and at least one,
\* although it reads the version first and the jobs last and the location and
\* the plan may have changed in between.  A category that joined the plan after
\* the location was set has no job, and READY says nothing of it.
ReadyAnswersCovered ==
  answer.status = "READY" =>
    LET q == answer.question
    IN /\ PlanOf(q) # {}
       /\ \A c \in PlanOf(q) :
            JobCovered([meeting |-> q.meeting, version |-> q.version, category |-> c])

\* Two answers to one question never go back: READY stays READY, and without a
\* category filter a place moves to later pages only, so that a client that
\* reads on misses no place because others were stored meanwhile.
AnswersNeverRegress ==
  [][(answer' # answer /\ answer # NoAnswer /\ answer'.question = answer.question) =>
       /\ answer.status = "READY" => answer'.status = "READY"
       /\ answer.question.category = AnyCategory =>
            \A p \in ToSet(answer.rows) \cap ToSet(answer'.rows) : answer'.page >= answer.page]_allVars

\* Reading page after page until hasNext is false lists every stored place of
\* the circle, once and nearest first, when nothing is stored meanwhile.
QuietWalkComplete ==
  walk # NoWalk /\ walk.over => walk.seen = Listed(walk.question)
=============================================================================
