# A TLA+ model of the momo backend

This directory models, checks and proves properties of the backend in `src/`
(NestJS, TypeORM, PostgreSQL, an S3-compatible object store, Google Places). It is
meant to be read beside the code: every definition that models code is tied to the
lines it stands for by the `map` of `PROJECT.json`.

Contents: 1 the system, 2 what is hard in it, 3 the modules, 4 how the models
correspond to the code, 5 the runs, 6 the proofs, 7 what the checks found,
8 what is not modelled, 9 the plan.

## 1. The system

Two kinds of process share one PostgreSQL database and one bucket.

* The **API** (`src/src/main.ts`), any number of replicas. All of its state is in the
  database and the bucket; a request is a few statements, some of them in one
  transaction (READ COMMITTED, TypeORM's default).
* The **worker** (`src/src/place/place-sync-worker.ts`), one replica by its manifest
  (`deploy/k8s/base/place-sync-worker.yaml`), but two for a moment whenever it is
  rolled out. It runs two loops, place synchronisation and media clean-up.

| Component | State | Operations | Talks to |
|---|---|---|---|
| Place synchronisation (`place/sync`) | `place_sync_job` (status, attempt_count, next_run_at, started_at), `place_sync_tile_lease`, `place_sync_coverage`, `place` | recover stale jobs, claim (`FOR UPDATE SKIP LOCKED`), process: per tile read coverage, lease, query, upsert, release, record; complete, retry or fail | Google provider, database; its rows are created by the meeting transactions |
| Google provider (`place/provider`) | none | `searchNearby`, 10 s timeout, at most 20 places ("capped") | HTTP |
| Tile geometry (`place-sync.constants.ts`) | none | `buildCoverageTiles`, haversine | called by `processJob` |
| Place search (`place.service.ts`, `place.repository.ts`) | none | check participant, read location, read page and count, read collection status | database, `getStatus` |
| Meeting plan and location (`meeting.service.ts`) | `meeting.course_version`, `course_category_step`, `meeting_location.sync_version` | `getCoursePlan`, `updateCoursePlan`, `updateLocation` | creates and fails sync jobs |
| Recommendations (`meeting.service.ts`) | `meeting_place_recommendation` | `addRecommendation`, `getRecommendations` | reads plan, location, place |
| Membership (`meeting.service.ts`) | `user`, `meeting_participant` (role, nickname, access token) | `createMeeting`, `joinMeeting`, `previewInvitation`, access-token checks | every other request reads it |
| Course image (`meeting.service.ts`, `media.service.ts`) | `meeting.course_image_key`, `media_asset`, bucket objects | `storeCourseImage`, `downloadCourseImage`, compensation, discard | object store and database, which fail separately |
| Media clean-up (`media-cleanup.worker.ts`) | none of its own | hourly: unreferenced assets, untracked objects, both older than 24 h | object store and database |
| Catalogue, categories, avatars | rows seeded by a migration | read | database |
| Kakao address search | none | HTTP proxy, 5 s timeout | HTTP |
| Course candidates, comments, votes | tables only | every handler runs its pipes and answers 501 | - |
| Controllers, pipes, exception filter | none | turn a request into a call and an exception into a status | every service |
| Migrations and the release job | the schema, the rows a migration converts, the table of executed migrations | `migration:run` by a PreSync job, `migration:revert` by hand | database, before the image serves |
| Health, configuration, CI | none | probes, start-up | - |

Interaction is by shared rows only: nothing sends a message to another process. The
API writes jobs and the worker polls them; a search reads what the worker wrote; the
clean-up deletes what the API left behind; concurrent API requests meet in row locks,
unique indexes and conditional UPDATEs.

## 2. What is hard in it

* **Long work on a snapshot.** `processJob` reads the job once and works on it for
  minutes, while the location may change, the job may be recovered as stale by another
  worker, and the lease of its tile may expire.
* **Crashes.** The worker may be killed anywhere; the job stays RUNNING and the lease
  stays taken until timers run out. The timers have to fit one another
  (60 s < 300 s = lease < 360 s < 900 s).
* **Check, then act.** Coverage before the lease, plan and distance before a
  recommendation, nickname before a participant: each check is a statement of its own
  and only a unique index or a second check closes the gap.
* **Two stores.** An image is an object, a row and a key in the meeting, written by
  three calls that may each fail, or succeed without saying so.
* **Optimistic versions.** The plan's version guards a save, but the read that
  delivers it is two statements.
* **Reading what is being written.** A search is four statements between which
  workers store places, finish jobs and fail, and the location moves; a client pages
  through the result meanwhile.
* **A schema that is rewritten under data.** Four migrations convert rows that earlier
  releases stored under looser rules; the job that runs them may be killed, retried
  beside a predecessor that is still alive, and reverted.
* **A contract nobody computes.** What an endpoint answers to an odd id, token or body
  is the outcome of pipes, schema, checks and the filter together.

The list, hazard by hazard with its line and the properties that cover it, is
`hazards` in `PROJECT.json`.

What makes each part correct:

* place sync: a completed job is really covered; one worker per job; retries are
  bounded and every job settles; an invalidated job stays invalid;
* plan: no editor overwrites a plan it has not seen; an added place fitted the plan
  and is added once;
* membership: one host, unique nicknames, a token that stays valid, refusals only for
  a reason, joins that end;
* course image: one image wins and stays; nothing else stays for ever;
* search: READY is true of the version it is said of and is not taken back; paging
  neither skips nor repeats;
* release: the recorded migrations explain the schema, whoever ran and died; seeds and
  users' choices survive; the code's enumerations are in the tables it serves;
* API: documented statuses only, and no answer to a stranger depends on whether the
  meeting exists.

## 3. The modules

| Module | Models | Proofs |
|---|---|---|
| `JobLifecycle` | abstract: what the rows of `place_sync_job` go through, seen from outside; no workers, leases, clocks or tiles | - |
| `PlaceSync` | queue, claim, recovery, tile loop, leases, coverage, retries, `createMeeting`/`updateLocation`/`updateCoursePlan` as far as they write the queue or decide what it gets, `getStatus`; implements `JobLifecycle` | `PlaceSyncProofs` (types, coverage), `PlaceSyncLifecycleProofs` (claims, leases, the refinement, attempts) |
| `PlaceSearch` | `searchPlaces` and `findNearby` statement by statement, composed with `PlaceSync` (EXTENDS) | `PlaceSearchProofs` |
| `MeetingPlan` | `getCoursePlan`, `updateCoursePlan`, `updateLocation`, `addRecommendation` of concurrent clients | `MeetingPlanProofs` |
| `Membership` | `joinMeeting` with `findOrCreateUser` | `MembershipProofs` |
| `CourseImage` | `storeCourseImage`, media storage with compensation, the clean-up worker | `CourseImageProofs` |
| `Migrations` | `up` and `down` of the four migrations and the processes that run them | `ReleaseProofs` |
| `ApiContract` | every endpoint: pipes, schema, the checks of the service in order, the exception filter, the documented statuses | `ReleaseProofs` |
| `Release` | composes them: the migrations run, then the image serves the catalogue they left (`INSTANCE ApiContract`) | `ReleaseProofs` |
| `Subsequences` | the elements of a list that belong to a set, in their order: the WHERE of the search, the filter of the pending migrations | `SubsequenceProofs` |

`MCx` instantiates `x` for TLC, `*.cfg` gives the constants. The modules fall into
five systems: `PlaceSync` with `JobLifecycle` and `PlaceSearch`; `MeetingPlan`;
`Membership`; `CourseImage`; `Release` with `Migrations` and `ApiContract`. They share
no variables. They meet where one system keeps an abstract version of what another one
has in detail: `PlaceSync` sees a meeting as a location version and a plan that is a set of categories,
of which `MeetingPlan` has the statement-level transactions; `ApiContract` executes one
request after the other, and the other four have the interleavings of those requests
that change state. In each module a definition headed "Faulty" is a bug the
code does not have: replacing the definition after it by the faulty one must make a
property fail, which is how `mutants` shows that each property depends on the code.

## 4. How the models correspond to the code

**PlaceSync.** One action is what a worker does between two awaits, or one transaction.
`pc[w]` is the await the worker stands at: `idle` (loop of `PlaceSyncWorker.run`),
`poll` (claim), `load` ... `fail` (inside `processJob`). `task[w]` is the local state of
that `processJob` call: the job, the `attempt_count` it read in `Load`, the tile index,
whether a coverage row was read, the place ids seen.

* A job is named by its unique scope (meeting, location version, category); `absent`
  means no row.
* `plan` is the set of categories of a meeting's steps. `UpdateCoursePlan` replaces it
  and creates no job, as the code does; `UpdateLocation` creates the jobs of the plan it
  finds. `planned[m][v]` is a history variable: the plan under which version v was set.
  `PlanChanges` bounds which plans may follow which.
* There is no clock. A timestamp that the code compares with now() is the number of
  ticks left (`wait`, `leaseLeft`) or passed (`age`), and `Tick` is time. The time
  modelled is far below the 30 days of the coverage TTL, so a coverage row starts as
  none or stale and does not age.
* `Claim` takes any due row: `SKIP LOCKED` may pass over the oldest.
* A lease's `owner_token` is a fresh UUID per tile; the model uses the worker, and
  `Orphan` once no live call knows the token (a crash, or a lost reply).
* `Tour` (TourOf), `Circle` and `Found` (TilePlaces) are what `buildCoverageTiles`, the haversine filter and
  the provider would answer; `CollectTile` is the answer, filter and upsert together,
  `CollectTileFails` the provider error or a quarter tile that stays capped.
* Faults: `Crash` (the pod is killed and starts again), `QueryErrorInLoop`,
  `QueryErrorInJob` and `UpsertError` (a statement is rejected: the loop, `catch` or
  `finally` goes on where the code goes on), `ReplyLost` (a statement commits and the
  call rejects).
* `Prompt` says workers are faster than the timers. The code justifies it: a tile takes
  at most two rounds of provider calls of 10 s against a lease of 5 min, and a job some
  36 tiles, 12 min at worst, against 15 min. It does not enforce it, so `sync_slow`
  drops it.

**JobLifecycle.** Its `current`, `state` and `taken` are `version`, `status` and
`attempts` of `PlaceSync` (`Lifecycle`). A change of location fails the unfinished older
jobs; a job that is over stays over, but for one that was failed under its worker's
hands (`Underway`); a job is retried only while it has attempts left. Leases, tiles,
timers and local variables are stuttering steps.

**PlaceSearch.** `ReadLocation`, `SelectRows` and `CountRows` (two connections, in either
order), `Respond` (`getStatus` and the response); `SyncStep` is any step of `PlaceSync`
in between. Searches write nothing, so one client is as good as many. It asks for page
1, which begins a `walk`, or for the page after the last answer; a step that stores a
place ends the walk, which makes `QuietWalkComplete` a statement about quiet walks.
`Nearest` is the order of ST_Distance and id of the places within 2 km: places do not
move. The participant check reads a row that is never deleted; its failure is in
`ApiContract`. READY is said of a location, and `ReadyAnswersCovered` holds it to the plan
that the location was set under (`PlanOf`): the plan goes on changing in the runs, and a
category added later is not among what READY promises (section 7).

**Migrations.** The database is a record: the executed migrations in order, the set of
tables, columns, types and indexes that some migration adds, and the rows a migration
reads or rewrites (categories, meeting types, one meeting with its start, participants
with nickname and avatar). `Needs`, `Adds` and `Drops` are what PostgreSQL would accept;
`UpAdmits` and `DownAdmits` are the guards a migration begins with and the unique
constraints its statements meet. TypeORM reads the pending list, then opens one
transaction for the whole list; nothing locks in between, so two pods may hold the same
list. A transaction works on a copy (`tx.work`) that replaces `db` at `Commit`. `Kill`
may come at any moment, also between the commit and the exit of the pod. `LegacyUse` is
what the first release stored or an administrator inserted; `Join` and `StorePlace` are
what the complete release writes.

**ApiContract.** A request is a record: endpoint, kind of id (`Ids`), whose token
(`Tokens`) and body, where `None` is a body the schema or the multipart parser rejects.
`Outcome` is a handler: its success status, the statuses its decorators document, and
its checks in the order of the code, each with what it throws; `Resolve` is the filter.
An Error that no code throws on purpose (PostgreSQL rejecting an id, a repeated query
parameter reaching `trim` or `split`, a number beyond bigint) is `Unhandled`. Whether
PostgreSQL grants the lock of `updateLocation` is part of the request (`locked`), since
the tests and the database disagree about it (section 7). Texts with a NUL and bodies
beyond the parser's limit are no requests of the model. `Create`, `Join`, `Move`, `Plan` and
`Recommend` are the accepted requests that change the meeting.

**Release.** `Migrate` until every migration of the repository is executed and a pod has
exited with success, then `Serve` (ArgoCD deletes the succeeded job and rolls out), then
`Request`. Releases begin with the catalogue the migrations left, whatever was there
before.

**MeetingPlan.** `updateCoursePlan` and `updateLocation` are one action each, since both
lock the meeting row before they read what they change; `getCoursePlan` is two reads in
either order, `addRecommendation` four statements. `plan` keeps order and repetitions,
because the schema allows a category twice, and `MoveConflicts` is what becomes of it.
`torn` and `fitted` are history variables. Access checks read rows nobody changes and
are left out.

**Membership.** One action is one statement of a `joinMeeting` transaction. Reads see
committed rows; `Blocked` is the wait of a write for an uncommitted row with which it
shares a unique key; `UpsertUser` waits likewise for the user row. `Reload` and
`UpdateParticipant` are the SELECT and UPDATE of `save`; the avatar is part of the row
and not told apart. `Commit` includes the commit whose reply is lost, `Abort` the rest
of the failures. Each request is issued once and draws one token, so tokens are named
after requests.

**CourseImage.** Object, row and meeting key are written by actions of their own; every
one may fail by itself, and a failing write may or may not have had its effect. Objects
and rows become `old` (older than 24 h) only when their request is over: a request does
not last a day. `SelectionFails` is a pass whose query or listing is rejected: the pass is
logged and the next one still runs; a listing that fails after its first page, or a
killed worker, is `CleanerRestarts`. `Batches` lets the clean-up take any batch of the right size. The state
COURSE_CONFIRMED is reached by no code of the repository yet; `ConfirmCourse` stands
for what will set it.

## 5. The runs

| Run | Instance | Shows |
|---|---|---|
| `sync_shared` | 2 prompt workers, 2 meetings that share a tile, one crash or rejected statement | covered when completed, one worker per job and its invariant `Claimed`, exclusive collection, attempts bounded, completed is final |
| `sync_slow` | 2 workers of any speed, 1 job of 2 tiles, one fault of any kind | the inductive invariant `CoverageInv`; a lease is taken only when it expired |
| `sync_settles` | 2 fair workers, a meeting that moves and whose plan may be emptied before or after, a crash, a provider that may always fail | every job settles; an invalidated job nobody runs is not taken up again; `PlaceSync` implements `JobLifecycle` |
| `place_search` | 1 fair worker, a meeting that moves and whose plan gains a category, a crash, a reliable provider; a client that pages with size 1 | READY is true of the version asked for and of the plan it was set under, and stays; pages neither repeat nor skip; the collection ends READY |
| `plan_two_clients` | 2 clients, 2 categories, plans of up to 2 steps, 2 locations, 1 place | reads agree with saves, no lost update, added places fit and are added once |
| `membership_joins` | a guest joining twice with two nicknames, a rival for one, the host renaming itself to the other | roster, answered token, stable token, justified refusal; every join ends |
| `image_race` | 3 uploads and the clean-up, 2 failures, batches of 1 | only unpublished images are deleted, answers agree on the published one, orphans removed |
| `release` | 2 pods, an operator, 2 users, 6 legacy databases, kills; then one meeting with a guest, 5 course plans, 2 locations, 3 places | history and schema agree and no stale list can part them, seeds complete, choices carried; documented statuses, seeds cover schemas, strangers learn nothing, jobs follow the plan |
| `sync_resurrected` | 2 workers, a meeting that moves, an unmapped category | violation: section 7 |
| `sync_unstored` | 1 worker, shared tile | violation: section 7 |
| `plan_torn_read` | as `plan_two_clients`, plans of 1 step | violation: section 7 |
| `image_lost_reply` | 2 uploads, a lost reply | violation: section 7 |

**Bounds.** Two workers are what a rollout makes of the one replica, and the least for
which leases and claims mean anything; the proofs cover any number. Two tiles of which
one is shared give skipped, contended and private tiles; two versions give an obsolete
and a current job. `MaxFaults` bounds faults, `MaxClaims` the claims of one job: it is
reached only in `sync_slow`, where slow workers hand a job around for ever. Retry
delays, lease and stale limit are small numbers; in `place_search` they keep the order
that retries depend on (first delay < lease <= sum of the delays), while the stale limit
is below the lease so that the recovered job meets the abandoned lease. Two editors
are the least that conflict; three image requests give a winner, a loser and one that
comes after; four joins give every pair of conflicting unique keys at once.
In `place_search` the meeting moves from a circle without places to one with two on the
same tile, and its plan gains the category 'other' before or after it moves, so that rows,
count, version and plan all change under a search and the old and the new location have
one job or two; with pages of one place, two pages are a complete walk. No filter:
`Filters` holds `AnyCategory` alone. In `release` the six legacy databases are
one that converts with two participants, one without, and one for each reason for which
CompletePlaceFlow refuses (equal nicknames, a category name, a meeting type's place, a
meeting type's name); two pods are one job and its retry.
`MembershipJoins.cfg` switches the deadlock check off, because the system stops when
all four requests are answered. Symmetry is used in runs without liveness only.

**Fairness.** `PlaceSync`: weak fairness of each worker's loop (Kubernetes restarts the
pod, the loop never returns, every await has a timeout or an error) and of `Tick`; none
of the users or of faults. `CourseImage`: of the requests' steps and of the clean-up
loop, which runs every hour; none of failures. `Membership`: of each join's next
statement, which is disabled while it waits for a row, and of its first one, because a
request in the pool is served; an abort may come at any time and need not.

**What the runs do not say.** `EndsReady` is checked with one worker. With two, tile
contention alone can use up the attempts of a job (place-sync.service.ts:178): the code
treats a leased tile as a failure to be retried. `JobsSettle` counts FAILED as settled,
which is what the code promises. `ImplementsLifecycle` and `CompletedIsFinal` assume that
no commit loses its reply: with `lostReply` among the faults TLC finds a job that is
COMPLETED and then retried, because the worker takes the lost reply for a failure. `QuietWalkComplete` speaks of walks during which nothing is stored.
While a collection runs, the first READY page may be one that was read before the last
places were stored, and a count read before them may end a walk early (`hasNext`); a
client that wants all places has to begin again once it has seen READY.
`HistoryMatchesSchema` holds with `RevertsRace = FALSE`, that is, when nobody executes
`migration:revert` while a migration job runs. With TRUE TLC finds a history with a gap:
a revert that read its list before a job added a migration undoes an older one. That is
a rule for operators that no code enforces.

## 6. The proofs

All theorems hold for every value of the constants allowed by the named assumptions of
the modules, which say no more than that bounds are numbers, that an absent value is no
value, and that the data given as constants (tiles, circles, plans, the rows of earlier
releases) have the types of their columns. What a theorem assumes beyond them stands in
its own ASSUME: `Prompt` (workers faster than the timers), no lost reply, and
`~RevertsRace` (nobody reverts while a migration job runs).

| Theorem | Argument |
|---|---|
| `TypeCorrect` (PlaceSyncProofs) | TypeOK is inductive |
| `CompletedCovered`, `CoverageHolds` (PlaceSyncProofs) | `CoverageInv`; no assumption on speed or faults |
| `OneWorker`, `ClaimsHeld` (PlaceSyncLifecycleProofs) | `Claimed`, assuming `Prompt` |
| `CollectorsAlone` (PlaceSyncLifecycleProofs) | a collector holds an unexpired lease, assuming `Prompt` |
| `LeaseHeld` (PlaceSyncLifecycleProofs) | step by step from TypeOK |
| `LifecycleImplemented`, `CompletedFinal` (PlaceSyncLifecycleProofs) | `OwnedInv`, assuming `Prompt` and no lost reply |
| `SupersededStays` (PlaceSyncLifecycleProofs) | step by step from TypeOK and `JobsFollowLocation` |
| `Budget` (PlaceSyncLifecycleProofs) | `BudgetInv`, assuming `Prompt` |
| `ReadyAnswered` (PlaceSearchProofs) | `SearchInv`, on top of `CoverageInv` |
| `QuietWalk` (PlaceSearchProofs) | `WalkInv`, no further assumption |
| `NeverRegress` (PlaceSearchProofs) | `RegressInv`, assuming `Prompt` and no lost reply |
| `PlanTypeCorrect`, `ReadAgrees`, `NoLostUpdate`, `AddedPlacesFit`, `AddedPlacesOnce` (MeetingPlanProofs) | TypeOK, `ReadInv`, and `FitInv` (what a request has checked did hold) with `AddedOnce` |
| `RosterConsistent`, `AnswersStayValid`, `TokensStable`, `RefusalsJustified` (MembershipProofs) | `Roster` |
| `OnlyUnpublishedDeleted`, `PublishedIsStored`, `OneAnswer` (CourseImageProofs) | the first two assume that the publishing UPDATE loses no reply |
| `HistoryMatches`, `ListsFit`, `FreshRunsFit` (ReleaseProofs) | `HistoryInv`, assuming that no revert runs beside a job |
| `ChoicesSurvive` (ReleaseProofs) | `CarriedInv`, on top of `HistoryInv` |
| `CatalogueComplete` (ReleaseProofs) | `CatalogueInv`, on top of `HistoryInv` |
| `SeedsCoverRequests` (ReleaseProofs) | `Serving` (an image serves only a complete history) with `CatalogueInv` |
| `ReleaseTypes`, `JobsAreThePlan` (ReleaseProofs) | `MeetingInv`, also when reverts race |
| `StrangersKnowNothing`, `GapsAreKnown` (ReleaseProofs) | every endpoint's checks one by one, also when reverts race |

* `CompletedMeansCovered` is not inductive: whether `CompleteJob` may write COMPLETED
  depends on what the worker has passed. `CoverageInv` adds, for every worker, that the
  tiles before the current one are collected and that an answer about to be recorded
  was stored (`Passed`), that its memory fits its position (`TaskFitsPosition`), and
  that rows exist for exactly the locations a meeting has had (`JobsFollowLocation`).
  It needs neither promptness nor leases: coverage is safe even when two workers run
  one job, which is why the code may be careless about stale recovery.
* `OneWorkerPerJob` needs that a job in processing is never PENDING and, while RUNNING,
  not stale (`Claimed`); `Prompt` keeps the age below the limit.
* The refinement needs to know of every worker inside `processJob` that its job is
  underway and that the `attempt_count` it read is still the row's (`OwnedInv`): then
  the retry decision taken on the snapshot is the one the lifecycle takes on the row.
  Promptness gives the exclusive claim, and without lost replies a job that is COMPLETED
  has left its worker's hands. `Budget` uses the same knowledge of the snapshot: an
  attempt beyond the maximum needs a recovery, and a recovery needs a fault.
* `ReadyAnswered`: a search reads the version before, and the jobs after, everything
  else. `SearchInv` keeps that the version was current at some time (`Asked`), so that
  the plan it was set under is fixed and its jobs exist (versions only grow), and that
  coverage once said is never taken back. The current plan may be any other by then.
* `Roster` joins the committed roster with the uncommitted rows (`PendingRoster`) and
  with what the transactions have read (`ReadsAgree`): a commit is safe because its row
  was checked against both committed and uncommitted rows and keeps the old token.
* `RefusalsJustified` adds `Watched`: whoever sees the nickname taken has been recorded
  as rivalled, through every commit since it began.

* `QuietWalk`: `WalkInv` says that the rows a walk has collected are exactly the first
  `page * PageSize` places of the listing, and that the page being read is the next one
  of the same listing; the count that ends the walk is the length of that listing, as
  long as nothing is stored. What the pages add up to needs the length and the elements
  of a filtered sequence. `Keep` therefore defines the WHERE by counting: the n-th kept
  element stands at the position that has n kept positions up to it. With that no
  recursion and no induction over sequences is needed, only the theorems on finite
  cardinalities (`SubsequenceProofs`: length, elements, order, and that a larger set
  only moves an element back).
* `NeverRegress`: while places are added, the rank of a place in a listing without a
  category filter only grows, so that a place found on page n is never found before it
  again (`NotBefore`, `After`). READY means that every job of the version is COMPLETED
  (`Settled`), and completed jobs stay so by `CompletedFinal`. With a filter the
  statement is false, because an upsert may take a place out of a category, and
  the property does not claim it.
* `HistoryInv` joins to "the history is a prefix of the directory and the schema is what
  it builds" the same of an open transaction's copy, and of every list a pod holds that
  it is consecutive and begins at most one migration beyond the history. A stale list
  begins with a migration that is already executed; what it would add is there, so that
  its first statement fails and the transaction is rolled back. That is why two jobs
  need no lock. A revert beside a job breaks it: a pod's list may then begin further
  on, and TLC finds the gap in the history.
* `CarriedInv`: avatars and starts are in the columns of the old or of the new schema
  depending on whether CompletePlaceFlow is executed, in the tables and in the copy of
  a transaction that may still be rolled back. It holds the last choice against the
  column that is current.
* `CatalogueInv`: names and places in the list are distinct, ids are, and once three
  migrations are executed every seed has its row. The guard of CompletePlaceFlow and
  the unique constraints are enough for any rows of earlier releases; the proof does not
  bound how many there were.
* `MeetingInv`: the host takes part from the creation on and has a nickname, the plan is
  one of the plans that can be saved, and the jobs are those of the plan unless it was
  saved after the location.
* `GapsAreKnown` and `StrangersKnowNothing` first show that the outcome of a list of
  checks is decided by its first failing one (`OutcomeAnswer`), then that each check of
  each endpoint throws only what its controller documents or what `KnownGap` names, and
  that for a stranger the checks before the one on the token do not look at whether the
  meeting exists. They hold for any tables and meeting, so they need no invariant but
  that the host is there. "Each request" means each of the kinds `ApiContract` lists.

Only model-checked: `JobsSettle`, `EndsReady`, `JoinsEnd` and `OrphansRemoved`. Fairness
and ENABLED are out of the prover's reach. Every other property of a passing run is
also a theorem.

## 7. What the checks found

* **A superseded job comes back** (`sync_resurrected`). `updateLocation` fails the old
  jobs, but the worker in the middle of one writes its row by id and sets it back to
  COMPLETED or PENDING; in the second case it is collected again for a location nobody
  uses. The answer to a search is not affected: it looks at the current version. The
  trace needs `updateLocation` to commit; as long as PostgreSQL refuses its lock (below),
  no location moves and no job is superseded.
* **Completed, but not stored** (`sync_unstored`). Only the places in the circle of the
  job are stored, but the whole tile is recorded as covered. The next meeting nearby
  skips the tile for 30 days, and its READY search misses places.
* **A torn read of the plan** (`plan_torn_read`). The two statements of `getCoursePlan`
  may pair the old steps with the new version; the save made from them is accepted and
  overwrites a plan its author never saw.
* **A published image deleted** (`image_lost_reply`). If the publishing UPDATE commits
  and its reply is lost, the catch block discards the image the meeting refers to; the
  meeting keeps a key that cannot be downloaded, and no later upload replaces it.

Behaviour the models show, and that no run states as a violation:

* a plan with a category twice makes every `updateLocation` of the meeting fail;
* a location moved under an empty plan has no jobs, and its status is PENDING for ever;
* a category added to the plan is not collected until the location moves, and a search
  answers READY meanwhile: READY speaks of the plan the location was set under;
* a user who clicks twice on "join" may be refused for its own nickname: the check of
  the second request (line 221) sees the row the first one committed after line 216;
  the profile of the second request is then ignored;
* a place that two categories find belongs to the one that was collected last;
* the clean-up takes the oldest 100 rows; if 100 cannot be deleted it goes no further;
* the statuses that controllers do not document (`KnownGap` of `ApiContract`): 500 for an
  id beyond bigint, or of letters where no pipe looks at it; 500 for a placeId to recommend
  or a categoryId to search for that is beyond bigint; 500 for an accessToken given twice
  in the query, and for `excludeIds` given twice to `getSimilarPlaces`; 500 when
  PostgreSQL refuses the lock of `updateLocation`, or when the location of a plan with a
  repeated category moves; 413
  for an image that is too large; 400 on `downloadCourseImage` for a malformed id; 201
  instead of the documented 200 on `previewInvitation`;
* reverting CompletePlaceFlow demands that no participant is left, so that the avatars
  its `down` copies back are always none; it makes `preview_url` required again, which
  AddPostgisPlaceLocation had already made optional, and leaves `first_location_place_id`
  nullable (line 322), which SchemaMigration had made required (line 29);
* categories of the first release that are no seed get a negative display order and come
  before the seeds;
* AddCourseCandidateNameAndSelectionConstraint adds a required column without a default:
  it would fail if a course candidate existed, and no code writes one.

Read in the code, outside the models: `updateLocation` locks with `pessimistic_write` a
query with a LEFT JOIN, which PostgreSQL refuses on the nullable side; `query()` of an
`UPDATE ... RETURNING` answers `[rows, count]` in some versions of TypeORM, where the
worker expects rows; and TIMESTAMP columns without time zone are compared with now().
The tests run these statements against mocks only, so that they do not settle it.
`ApiContract` has both outcomes of the lock. `PlaceSync` and `MeetingPlan` take the
reading the tests take: the lock is held, the rows come back, the clocks agree. For their
safety properties the lock that is held only adds behaviours.

## 8. What is not modelled

* **Health checks, configuration, CI, scripts**: stateless probes and start-up that no
  other part reads.
* **Floating-point geometry**: `Tour`, `Circle`, `Found`, `Near` and `Nearest` are
  parameters. Neither TLC nor TLAPS has trigonometry. So the grid at the poles and the
  antimeridian (place-sync.constants.ts:61) and the boundary where haversine
  (meeting.service.ts:587) and ST_DWithin (place.repository.ts:41) differ stay outside.
* **The ageing of coverage** beyond 30 days: a coverage row does not turn stale in a run.
* **Two categories of one place** in a filtered search: the models keep
  `place.category_id`, but nothing says which category should win.
* **A place whose category changes under `addRecommendation`**: `CategoryOf` of
  `MeetingPlan` is a constant, while the upsert of place-sync.service.ts:216 may change a
  category between the read of the place and that of the plan's step. `AddedFitted` speaks
  of the category the request read.
* **An upload longer than the grace period** of 24 h: objects and rows age in
  `CourseImage` only when their request is over.
* **Nullability of columns**: "the schema is what the migrations build" is about tables,
  columns, types and indexes.
* **createMeeting under a lost reply**: the request carries no key that would tell a
  retry from a second meeting. Its attempts to draw an invitation code are one outcome.
* **Payloads**: image validation (sharp), the addresses Kakao returns, Google's JSON,
  dates and times of a meeting, `result_count`, messages and logging; a JSON body beyond
  the parser's limit and NUL characters in strings, for which `GapsAreKnown` says nothing,
  and `PLACE_INVALID_SEARCH_RESPONSE`, which only a row that breaks its own columns' types
  can cause.
* **The release beside traffic**: `Serve` follows the last migration. Requests of the old
  image during a migration, and a revert while the image serves, are not composed.
* **Bulk operations of TypeORM and PostgreSQL** other than what the code's statements
  need: isolation is READ COMMITTED with row locks and unique indexes; serialisation
  failures do not occur there.

## 9. The plan

Done, in this order: `PlaceSync` with its proofs, `MeetingPlan`, `CourseImage`,
`Membership`, each with its proofs; then `JobLifecycle` and the refinement with its proof,
`PlaceSearch` with its proof, `Migrations`, `ApiContract` and `Release`, the proofs of
the claim, lease, attempt and lifecycle properties of `PlaceSync`, those of paging and of
answers that do not regress, and those of the migrations and the API.

Worth doing next:

1. a bound on the attempts and a claim invariant for workers that are not prompt, so that
   `sync_slow` has theorems about more than coverage and leases;
2. the course endpoints, once they do something: course generation and confirmation are
   documented with 202, 409 and 422 and will be long-running jobs like place sync;
3. an age for coverage rows, as soon as meetings live longer than the TTL of 30 days.
