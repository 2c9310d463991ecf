----------------------------- MODULE Migrations -----------------------------
(***************************************************************************)
(* The four TypeORM migrations of src/database/migrations and the release  *)
(* procedure that runs them: an ArgoCD PreSync job executes migration:run  *)
(* of the new image, at most one retry of it may overlap, and an operator  *)
(* may execute migration:revert.                                           *)
(*                                                                         *)
(* TypeORM reads the list of pending migrations first and then executes    *)
(* the list in one transaction, with no lock in between.  The statements   *)
(* of a transaction work on a copy of the database that replaces it at the *)
(* commit; two transactions wait for each other on the tables they alter.  *)
(* The schema is the set of tables, types, columns and indexes that some   *)
(* migration adds; the rows are those that a migration reads or rewrites.  *)
(***************************************************************************)
EXTENDS Integers, Sequences, FiniteSets, Subsequences

CONSTANTS
  Runners,        \* pods of the migration job
  Users,          \* users
  Avatars,        \* values of a profile_avatar_id
  DefaultAvatar,  \* 'momo-blue'
  Addresses,      \* where a meeting starts
  Nicknames,      \* nicknames of participants
  LegacyNames,    \* names of the categories and meeting types before CompletePlaceFlow
  Contents,       \* what the releases before CompletePlaceFlow may have stored
  RevertsRace,    \* migration:revert may run beside a migration job
  None

ASSUME DefaultAssumption == DefaultAvatar \in Avatars
ASSUME NullAssumption == None \notin Avatars \cup Addresses \cup Nicknames

\* What the columns of SchemaMigration admit: unique slugs (the domain), names,
\* ids counted from 1, and a first location for every meeting.
ASSUME ContentsAssumption ==
  \A c \in Contents :
    /\ \A s \in DOMAIN c.categories :
         c.categories[s] \in [id : Nat \ {0}, name : LegacyNames, order : Int]
    /\ \A s, t \in DOMAIN c.categories :
         s # t => /\ c.categories[s].id # c.categories[t].id
                  /\ c.categories[s].name # c.categories[t].name
    /\ IsFiniteSet(DOMAIN c.categories)
    /\ \A o \in DOMAIN c.types : c.types[o] \in [name : LegacyNames, code : {None}]
    /\ c.joined \subseteq Users
    /\ c.nickname \in [Users -> Nicknames \cup {None}]
    /\ c.avatar \in [Users -> Avatars \cup {None}]
    /\ c.start \in Addresses \cup {None}
    /\ c.joined # {} => c.start # None

Versions == 1..4

VARIABLES
  release,  \* how many migrations the image to be deployed contains
  db,       \* the committed database
  tx,       \* the open migration transaction
  runner,   \* what each pod and the operator is doing
  chosen    \* history: the avatar each user chose last

vars == <<release, db, tx, runner, chosen>>

Operator == "operator"
Actors == Runners \cup {Operator}

ASSUME OperatorAssumption == Operator \notin Runners

-----------------------------------------------------------------------------
(* The schema.                                                             *)

\* SchemaMigration: the tables and enumerations of the first release.
FirstTables ==
  {"category", "media_asset", "user", "place", "meeting_type", "meeting",
   "meeting_participant", "course_candidate", "course_candidate_comment",
   "meeting_place_recommendation", "course_candidate_place",
   "course_category_step", "meeting_place_recommendation_vote", "place_image",
   "place_review_summary", "place_source_enum", "media_asset_mime_type_enum",
   "user.profile_avatar_id", "meeting.first_location_place_id"}

\* AddPostgisPlaceLocation.
LocationTables == {"place.location", "meeting_location"}

\* CompletePlaceFlow: columns and constraints added to existing tables.
PlaceFlowColumns ==
  {"meeting_type.code", "place_source_enum.GOOGLE", "place.provider_place_id",
   "place.place_url", "place.phone", "place.road_address",
   "place.provider_category_code", "place.last_synced_at",
   "meeting_location.sync_version", "meeting_participant.profile_avatar_id",
   "meeting.status", "meeting.course_version", "UQ_meeting_participant_nickname"}

\* CompletePlaceFlow: the queue, coverage and lease tables of place-sync.
PlaceFlowTables ==
  {"place_sync_job", "place_sync_coverage", "place_sync_tile_lease"}

\* AddCourseCandidateNameAndSelectionConstraint.
CandidateColumns ==
  {"course_candidate.name", "course_candidate_comment.content(300)",
   "UQ_course_candidate_selected"}

Adds(m) == CASE m = 1 -> FirstTables
             [] m = 2 -> LocationTables
             [] m = 3 -> PlaceFlowColumns \cup PlaceFlowTables
             [] m = 4 -> CandidateColumns

\* CompletePlaceFlow alone drops columns.
Drops(m) == IF m = 3 THEN {"user.profile_avatar_id", "meeting.first_location_place_id"}
            ELSE {}

\* The tables and columns a migration alters or reads without adding them.
Needs(m) == CASE m = 1 -> {}
              [] m = 2 -> {"place", "meeting", "meeting.first_location_place_id"}
              [] m = 3 -> {"meeting_type", "place", "meeting_location",
                           "meeting_participant", "meeting", "user", "category"} \cup Drops(3)
              [] m = 4 -> {"course_candidate", "course_candidate_comment"}

\* PostgreSQL rejects a second ADD, a DROP of what is missing and a DROP TABLE
\* of what a later table refers to.
UpFits(m, d) == Adds(m) \cap d.schema = {} /\ Needs(m) \subseteq d.schema
DownFits(m, d) ==
  /\ Adds(m) \subseteq d.schema
  /\ Drops(m) \cap d.schema = {}
  /\ m = 1 => "meeting_location" \notin d.schema

-----------------------------------------------------------------------------
(* The rows.                                                               *)

\* The seeds of CompletePlaceFlow in the order of the INSERT; the name of a
\* seed is written as its slug, or as its code.
SeedSlugs == <<"cafe", "restaurant", "walk", "bar", "shopping", "activity",
               "culture", "other">>
SeedOrders == <<2, 1, 4, 3, 5, 6, 7, 8>>
SeedTypes == <<"SOCIAL", "DATING_HOBBY", "COMPANY_DINNER", "FAMILY", "TRAVEL",
               "STUDY", "BUSINESS", "ANNIVERSARY_EXERCISE", "OTHER">>

RangeOf(s) == {s[i] : i \in DOMAIN s}
Slugs == RangeOf(SeedSlugs)
Codes == RangeOf(SeedTypes)
RankOf(slug) == CHOOSE k \in DOMAIN SeedSlugs : SeedSlugs[k] = slug

\* Seed k conflicts on the unique name with a row that no earlier seed and not
\* seed k itself has renamed.
CategoryClash(rows) ==
  \E k \in DOMAIN SeedSlugs : \E s \in DOMAIN rows :
    s \notin {SeedSlugs[i] : i \in 1..k} /\ rows[s].name = SeedSlugs[k]
TypeClash(rows) ==
  \E k \in DOMAIN SeedTypes : \E o \in DOMAIN rows : o > k /\ rows[o].name = SeedTypes[k]

\* The highest id of a table of categories.
LastId(rows) ==
  CHOOSE n \in {0} \cup {rows[s].id : s \in DOMAIN rows} :
    \A s \in DOMAIN rows : rows[s].id <= n

\* Faulty: the display orders in use are not moved out of the way for good.
CategoriesSeededOnce(rows) ==
  [s \in DOMAIN rows \cup Slugs |->
     IF s \in DOMAIN rows THEN rows[s]
     ELSE [id |-> LastId(rows) + RankOf(s), name |-> s, order |-> SeedOrders[RankOf(s)]]]

\* UPDATE display_order = -id, then the upsert of the seeds by slug.
CategoriesSeeded(rows) ==
  [s \in DOMAIN rows \cup Slugs |->
     IF s \in Slugs
     THEN [id |-> IF s \in DOMAIN rows THEN rows[s].id ELSE LastId(rows) + RankOf(s),
           name |-> s, order |-> SeedOrders[RankOf(s)]]
     ELSE [rows[s] EXCEPT !.order = -rows[s].id]]

\* The code by display order, then the upsert of the seeds by display order.
TypesSeeded(rows) ==
  [o \in DOMAIN rows \cup DOMAIN SeedTypes |-> [name |-> SeedTypes[o], code |-> SeedTypes[o]]]

\* What the data must be like for a migration not to throw.
UpAdmits(m, d) ==
  m = 3 => /\ DOMAIN d.types \subseteq 1..9
           /\ ~CategoryClash(d.categories) /\ ~TypeClash(d.types)
           /\ \A u, v \in d.joined : u # v => d.nickname[u] # d.nickname[v]
DownAdmits(m, d) ==
  /\ m = 3 => d.joined = {} /\ ~d.google /\ ~d.previewNull
  /\ m = 2 => ~d.previewNull

-----------------------------------------------------------------------------
(* What a migration does to the database it works on.                      *)

NoRows == [s \in {} |-> None]
Nobody == [u \in Users |-> None]

Empty ==
  [applied |-> <<>>, schema |-> {}, categories |-> NoRows, types |-> NoRows,
   joined |-> {}, nickname |-> Nobody, avatar |-> Nobody, member |-> Nobody,
   start |-> None, location |-> None,
   previewRequired |-> TRUE, previewNull |-> FALSE, google |-> FALSE]

\* INSERT INTO meeting_location SELECT the first location of every meeting.
LocationsCopied(d) == [d EXCEPT !.location = d.start, !.previewRequired = FALSE]
LocationsDropped(d) == [d EXCEPT !.location = None, !.previewRequired = TRUE]

\* Faulty: the user's column is dropped before it is copied.
AvatarsDropped(d) ==
  [d EXCEPT !.member = [u \in Users |-> IF u \in d.joined THEN DefaultAvatar ELSE None],
            !.avatar = Nobody]

\* COALESCE(user.profile_avatar_id, 'momo-blue') becomes the participant's.
AvatarsMoved(d) ==
  [d EXCEPT !.member = [u \in Users |-> IF u \notin d.joined THEN None
                                        ELSE IF d.avatar[u] = None THEN DefaultAvatar
                                        ELSE d.avatar[u]],
            !.avatar = Nobody]

\* The avatars of users who still participate go back to their users: down
\* has made sure that there is no meeting, so nobody gets one back.
AvatarsReturned(d) ==
  [d EXCEPT !.avatar = [u \in Users |-> IF u \in d.joined THEN d.member[u] ELSE None],
            !.member = Nobody]

PlaceFlowCompleted(d) ==
  [AvatarsMoved(d) EXCEPT !.start = None, !.previewRequired = FALSE,
     !.categories = CategoriesSeeded(d.categories), !.types = TypesSeeded(d.types)]

\* The seeds stay; the codes go with their column.
PlaceFlowReverted(d) ==
  [AvatarsReturned(d) EXCEPT !.start = None, !.previewRequired = TRUE,
     !.types = [o \in DOMAIN d.types |-> [d.types[o] EXCEPT !.code = None]]]

UpRows(m, d) == CASE m = 2 -> LocationsCopied(d)
                  [] m = 3 -> PlaceFlowCompleted(d)
                  [] OTHER -> d
DownRows(m, d) == CASE m = 1 -> Empty
                    [] m = 2 -> LocationsDropped(d)
                    [] m = 3 -> PlaceFlowReverted(d)
                    [] m = 4 -> d

\* Faulty: the reverted migration leaves its columns behind.
DownWithoutDrops(m, d) ==
  [DownRows(m, d) EXCEPT
     !.schema = (d.schema \ (Adds(m) \ PlaceFlowColumns)) \cup Drops(m),
     !.applied = SubSeq(@, 1, Len(@) - 1)]

Up(m, d) == [UpRows(m, d) EXCEPT !.schema = (d.schema \ Drops(m)) \cup Adds(m),
                                 !.applied = Append(d.applied, m)]

\* The row of the migration is deleted, wherever it stands in the history.
Down(m, d) == [DownRows(m, d) EXCEPT
                 !.schema = (d.schema \ Adds(m)) \cup Drops(m),
                 !.applied = Keep(d.applied, Versions \ {m})]

-----------------------------------------------------------------------------
(* The release procedure.                                                  *)

Idle == [pc |-> "idle", dir |-> "run", list |-> <<>>]

Init ==
  /\ release = 0
  /\ db = Empty
  /\ tx = None
  /\ runner = [r \in Actors |-> Idle]
  /\ chosen = Nobody

Deploy(n) ==
  /\ n > release
  /\ release' = n
  /\ UNCHANGED <<db, tx, runner, chosen>>

PendingIgnoringHistory(d) ==  \* Faulty: what was executed is executed again.
  [i \in 1..release |-> i]

\* The migrations of the image that the table of executed ones does not list.
Pending(d) == Keep([i \in 1..release |-> i], Versions \ RangeOf(d.applied))

Latest(d) == IF d.applied = <<>> THEN <<>> ELSE <<d.applied[Len(d.applied)]>>
ToDo(r, d) == IF runner[r].dir = "run" THEN Pending(d) ELSE Latest(d)

Loaded(r) == runner[r].pc = "loaded"

\* migration:run reads what is pending.
LoadPending(r) ==
  /\ r \in Runners /\ ~Loaded(r)
  /\ RevertsRace \/ ~Loaded(Operator)
  /\ runner' = [runner EXCEPT ![r] = [pc |-> "loaded", dir |-> "run", list |-> Pending(db)]]
  /\ UNCHANGED <<release, db, tx, chosen>>

\* migration:revert reads what was executed last.
LoadLatest ==
  /\ ~Loaded(Operator)
  /\ RevertsRace \/ \A r \in Runners : ~Loaded(r)
  /\ runner' = [runner EXCEPT ![Operator] =
                  [pc |-> "loaded", dir |-> "revert", list |-> Latest(db)]]
  /\ UNCHANGED <<release, db, tx, chosen>>

\* START TRANSACTION; whether the list is still what it would be now is noted.
Begin(r) ==
  /\ Loaded(r) /\ tx = None
  /\ tx' = [owner |-> r, left |-> runner[r].list, work |-> db,
            fresh |-> runner[r].list = ToDo(r, db)]
  /\ UNCHANGED <<release, db, runner, chosen>>

Fits(r, d) ==
  LET m == Head(tx.left)
  IN IF runner[r].dir = "run" THEN UpFits(m, d) /\ UpAdmits(m, d)
     ELSE DownFits(m, d) /\ DownAdmits(m, d)

Owns(r) == tx # None /\ tx.owner = r

\* up or down of the next migration of the list, and the row that records it.
Apply(r) ==
  /\ Owns(r) /\ tx.left # <<>> /\ Fits(r, tx.work)
  /\ tx' = [tx EXCEPT !.left = Tail(@),
                      !.work = IF runner[r].dir = "run" THEN Up(Head(tx.left), @)
                               ELSE Down(Head(tx.left), @)]
  /\ UNCHANGED <<release, db, runner, chosen>>

Finish(r, pc) == runner' = [runner EXCEPT ![r] = [Idle EXCEPT !.pc = pc]]

\* A migration throws, or PostgreSQL rejects a statement: everything is rolled back.
Refuse(r) ==
  /\ Owns(r) /\ tx.left # <<>> /\ ~Fits(r, tx.work)
  /\ tx' = None
  /\ Finish(r, "failed")
  /\ UNCHANGED <<release, db, chosen>>

\* The pod may die between the commit and its exit.
Commit(r) ==
  /\ Owns(r) /\ tx.left = <<>>
  /\ db' = tx.work
  /\ tx' = None
  /\ \E pc \in {"done", "failed"} : Finish(r, pc)
  /\ chosen' = IF 1 \in RangeOf(tx.work.applied) THEN chosen ELSE Nobody
  /\ UNCHANGED release

\* Out of memory, eviction, or activeDeadlineSeconds: the open transaction dies too.
Kill(r) ==
  /\ Loaded(r)
  /\ tx' = IF Owns(r) THEN None ELSE tx
  /\ Finish(r, "failed")
  /\ UNCHANGED <<release, db, chosen>>

-----------------------------------------------------------------------------
(* What the releases write, while no migration runs.                       *)

\* The rows that the first release collected, and those inserted by hand.
LegacyUse(c) ==
  /\ tx = None /\ db.applied = <<1>> /\ DOMAIN db.categories = {}
  /\ db' = [db EXCEPT !.categories = c.categories, !.types = c.types,
                      !.joined = c.joined, !.nickname = c.nickname,
                      !.avatar = c.avatar, !.start = c.start]
  /\ chosen' = c.avatar
  /\ UNCHANGED <<release, tx, runner>>

\* createMeeting and joinMeeting of the complete release.
Join(u, a, n, l) ==
  /\ tx = None /\ RangeOf(db.applied) = Versions
  /\ \A v \in db.joined \ {u} : db.nickname[v] # n
  /\ db' = [db EXCEPT !.joined = @ \cup {u}, !.nickname[u] = n, !.member[u] = a,
                      !.location = IF db.joined = {} THEN l ELSE @]
  /\ chosen' = [chosen EXCEPT ![u] = a]
  /\ UNCHANGED <<release, tx, runner>>

\* A synchronisation worker stores a Google place, which has no preview.
StorePlace ==
  /\ tx = None /\ RangeOf(db.applied) = Versions /\ ~db.previewRequired
  /\ db' = [db EXCEPT !.google = TRUE, !.previewNull = TRUE]
  /\ UNCHANGED <<release, tx, runner, chosen>>

-----------------------------------------------------------------------------
RunnerStep(r) == LoadPending(r) \/ Begin(r) \/ Apply(r) \/ Refuse(r) \/ Commit(r) \/ Kill(r)

Next ==
  \/ \E n \in Versions : Deploy(n)
  \/ \E r \in Actors : RunnerStep(r)
  \/ LoadLatest
  \/ \E c \in Contents : LegacyUse(c)
  \/ \E u \in Users, a \in Avatars, n \in Nicknames, l \in Addresses : Join(u, a, n, l)
  \/ StorePlace

Spec == Init /\ [][Next]_vars

-----------------------------------------------------------------------------
(* Properties.                                                             *)

Databases == {db} \cup (IF tx = None THEN {} ELSE {tx.work})

\* A database has its columns, each with values of its type.
Schema == UNION {Adds(m) : m \in Versions}
Columns(d) ==
  /\ d \in [applied : Seq(Versions), schema : SUBSET Schema,
            categories : {d.categories}, types : {d.types},
            joined : SUBSET Users, nickname : [Users -> Nicknames \cup {None}],
            avatar : [Users -> Avatars \cup {None}], member : [Users -> Avatars \cup {None}],
            start : Addresses \cup {None}, location : Addresses \cup {None},
            previewRequired : BOOLEAN, previewNull : BOOLEAN, google : BOOLEAN]
  /\ IsFiniteSet(DOMAIN d.categories)
  /\ \A s \in DOMAIN d.categories :
       d.categories[s] \in [id : Nat \ {0}, name : LegacyNames \cup Slugs, order : Int]
  /\ \A o \in DOMAIN d.types :
       d.types[o] \in [name : LegacyNames \cup Codes, code : Codes \cup {None}]

\* The databases, the open transaction and the pods keep their types.
TablesTyped ==
  /\ release \in 0..4 /\ Columns(db) /\ chosen \in [Users -> Avatars \cup {None}]
  /\ tx # None => /\ tx \in [owner : Actors, left : Seq(Versions), work : {tx.work},
                              fresh : BOOLEAN]
                  /\ Columns(tx.work)
  /\ runner \in [Actors -> [pc : {"idle", "loaded", "done", "failed"},
                            dir : {"run", "revert"}, list : Seq(Versions)]]

\* What was executed are the first migrations of the directory, and the schema
\* is exactly what they build.
Built(d) ==
  LET done == RangeOf(d.applied)
  IN /\ \A i \in DOMAIN d.applied : d.applied[i] = i
     /\ d.schema = (UNION {Adds(m) : m \in done}) \ (UNION {Drops(m) : m \in done})
     /\ 3 \in done => ~d.previewRequired
     /\ done \subseteq {1} => d.previewRequired

\* No killed or refused run, no rerun of a list that another pod executed
\* meanwhile and no revert leaves a table or a column that the record does not
\* explain.
HistoryMatchesSchema == \A d \in Databases : Built(d)

\* A list that was read stays usable or becomes harmless: it names consecutive
\* migrations and none beyond the next one, whatever other pods commit before
\* its transaction begins and while it is executed; and a revert finds what it
\* read to be the last migration still.
Consecutive(list) == \A i \in DOMAIN list : list[i] = list[1] + i - 1
Reaches(list, d) == list # <<>> => list[1] <= Len(d.applied) + 1
ListsFitHistory ==
  /\ \A r \in Runners : Loaded(r) =>
       /\ runner[r].dir = "run" /\ ~Loaded(Operator)
       /\ Consecutive(runner[r].list) /\ Reaches(runner[r].list, db)
  /\ Loaded(Operator) => runner[Operator].dir = "revert" /\ runner[Operator].list = Latest(db)
  /\ tx # None =>
       /\ Loaded(tx.owner)
       /\ IF tx.owner = Operator THEN tx.left # <<>> => tx.left = Latest(tx.work)
          ELSE /\ Consecutive(tx.left) /\ Reaches(tx.left, tx.work)
               /\ tx.fresh /\ tx.left # <<>> => tx.left[1] = Len(tx.work.applied) + 1
               /\ Len(db.applied) <= Len(tx.work.applied)

\* Whatever the categories and meeting types were before, CompletePlaceFlow
\* leaves every seed with its name and place in the list, no two rows with one
\* name or one place, and the rows that are no seed before the seeds.
CatalogueSeeded ==
  \A d \in Databases : 3 \in RangeOf(d.applied) =>
    LET rows == d.categories
    IN /\ \A k \in DOMAIN SeedSlugs : SeedSlugs[k] \in DOMAIN rows
            /\ rows[SeedSlugs[k]].name = SeedSlugs[k]
            /\ rows[SeedSlugs[k]].order = SeedOrders[k]
       /\ \A s, t \in DOMAIN rows : s # t => /\ rows[s].name # rows[t].name
                                            /\ rows[s].order # rows[t].order
                                            /\ rows[s].id # rows[t].id
       /\ \A s \in DOMAIN rows \ Slugs : rows[s].order < 0
       /\ d.types = [o \in DOMAIN SeedTypes |->
                       [name |-> SeedTypes[o], code |-> SeedTypes[o]]]

\* A participant keeps the avatar chosen last, and a meeting where it starts,
\* through every sequence of upgrades and reverts that the guards let happen.
ChoicesCarried ==
  \A d \in Databases : \A u \in d.joined :
    IF 3 \in RangeOf(d.applied)
    THEN /\ d.member[u] = IF chosen[u] = None THEN DefaultAvatar ELSE chosen[u]
         /\ d.location # None
    ELSE /\ d.avatar[u] = chosen[u]
         /\ d.start # None
         /\ 2 \in RangeOf(d.applied) => d.location = d.start

\* A run that starts from the list as it is meets no table or column it does
\* not expect: only the data can refuse it, and only a list that another pod
\* executed meanwhile fails on the schema.
FreshRunFits ==
  tx # None /\ tx.left # <<>> /\ tx.fresh =>
    IF runner[tx.owner].dir = "run" THEN UpFits(Head(tx.left), tx.work)
    ELSE DownFits(Head(tx.left), tx.work)
=============================================================================
