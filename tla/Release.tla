------------------------------ MODULE Release ------------------------------
(***************************************************************************)
(* A release: the migrations run first, as a PreSync hook, and the pods of *)
(* the image answer requests once the hook has succeeded.  ApiContract     *)
(* reads the categories and meeting types from the tables that Migrations  *)
(* has filled.                                                             *)
(***************************************************************************)
EXTENDS Migrations

CONSTANTS Courses, Types, Spots, Places, SlugOf, Near, MaxVersion

VARIABLES
  served,   \* the pods of the image answer requests
  meeting   \* the meeting that ApiContract follows

releaseVars == <<vars, served, meeting>>

Api == INSTANCE ApiContract WITH
         slugs <- DOMAIN db.categories,
         typeCodes <- {db.types[o].code : o \in DOMAIN db.types}

\* The schemas admit known categories only, and no body is null.
ASSUME RequestAssumption ==
  /\ Courses \subseteq Seq(Api!CategorySlugs)
  /\ MaxVersion \in Nat \ {0}
  /\ None \notin [type : Api!MeetingTypeCodes, slugs : Seq(Api!CategorySlugs)]
  /\ None \notin [slugs : Seq(Api!CategorySlugs), version : Nat]

ReleaseInit == Init /\ served = FALSE /\ meeting = None

Migrate == ~served /\ Next /\ UNCHANGED <<served, meeting>>

\* The hook succeeded: its job is deleted (HookSucceeded) and the image serves.
\* What the first meetings of a release read is the catalogue; that of a
\* database with participants of earlier releases is the same.
Serve ==
  /\ ~served /\ tx = None /\ RangeOf(db.applied) = Versions
  /\ \E r \in Runners : runner[r].pc = "done"
  /\ \A r \in Actors : ~Loaded(r)
  /\ db.joined = {} /\ ~db.google
  /\ served' = TRUE
  /\ runner' = [r \in Actors |-> Idle]
  /\ UNCHANGED <<release, db, tx, chosen, meeting>>

RequestWithoutHook ==  \* Faulty: the image serves while its migrations run.
  Api!Handle /\ UNCHANGED <<vars, served>>

Request == served /\ Api!Handle /\ UNCHANGED <<vars, served>>

ReleaseNext == Migrate \/ Serve \/ Request

ReleaseSpec == ReleaseInit /\ [][ReleaseNext]_releaseVars

-----------------------------------------------------------------------------
\* A meeting as its requests see it.
Meeting == [plan : Courses, version : 1..(MaxVersion + 1), jobs : SUBSET Api!CategorySlugs,
            edited : BOOLEAN, spot : Spots, recommended : SUBSET Places,
            nickname : [DOMAIN Api!Nobody -> Nicknames \cup {None}]]

\* The tables, the open transaction, the pods and the meeting keep their types,
\* and no meeting is served before the image is.
TypeOK ==
  /\ TablesTyped
  /\ served \in BOOLEAN
  /\ meeting # None => served /\ meeting \in Meeting

\* In every state each endpoint answers each request of the kinds that ApiContract
\* lists (ids, tokens and bodies, valid and not) with a status that its controller
\* documents, but for the gaps named there.
OnlyKnownGaps == served => Api!Documented

\* Whatever the tables held before the migrations, no request that the schemas
\* let through names a category or a meeting type that is not there.
SeedsCoverSchemas == served => Api!SeedsCover

\* Without a token of the meeting, no answer tells whether the meeting exists.
StrangersLearnNothing == served => Api!NothingLearnt

\* The categories that are collected around the base location are those of the
\* plan, unless the plan was saved after the location was last set.
JobsFollowPlan == served => Api!JobsFollow
=============================================================================
