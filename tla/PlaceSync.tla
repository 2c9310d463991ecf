----------------------------- MODULE PlaceSync -----------------------------
(***************************************************************************)
(* The place-synchronisation subsystem: the place_sync_job queue, the      *)
(* per-tile leases, the coverage table and the workers that drain the      *)
(* queue (src/place/sync), together with the API transactions that write   *)
(* the queue or the course plan it is filled from (createMeeting,          *)
(* updateLocation and updateCoursePlan of MeetingService).                 *)
(*                                                                         *)
(* One action is one database statement, provider call or transaction:     *)
(* everything between two awaits of a worker.  A clock is not kept; each   *)
(* timestamp the code compares with now() is the number of ticks left to   *)
(* it (next_run_at, expires_at) or passed since it (started_at), and Tick  *)
(* is the passage of time.                                                 *)
(***************************************************************************)
EXTENDS Integers, Sequences, FiniteSets

CONSTANTS
  Workers,        \* place-sync worker processes
  Meetings,       \* meetings
  MaxVersion,     \* bound: how often a location is set
  Categories,     \* categories of places
  Unmapped,       \* categories without Google place types ('other')
  PlanChanges,    \* bound: the course plans before and after a change, {} before the first
  Tiles,          \* Web-Mercator grid tiles
  Tour,           \* [Meetings -> [1..MaxVersion -> Seq(Tiles)]]: buildCoverageTiles
  Places,         \* places the provider knows
  Circle,         \* [Meetings -> [1..MaxVersion -> SUBSET Places]]: within radiusMeters
  Found,          \* [Categories -> [Tiles -> SUBSET Places]]: the provider's answer
  MaxAttempts,    \* PLACE_SYNC_MAX_ATTEMPTS
  RetryDelay,     \* PLACE_SYNC_RETRY_DELAYS_SECONDS, in ticks
  LeaseTtl,       \* PLACE_SYNC_TILE_LEASE_TTL_MS, in ticks
  StaleAfter,     \* PLACE_SYNC_STALE_AFTER_MS, in ticks
  Faults,         \* the kinds of fault that may happen
  MaxFaults,      \* bound: how many faults happen
  MaxClaims,      \* bound: how often one job is claimed
  Prompt,         \* workers outrun the lease and the stale deadline
  ProviderFails,  \* the provider may answer with an error
  NoJob, NoOwner, Orphan, NoCategory

FaultKinds == {"crash", "error", "lostReply"}

ASSUME BoundsAssumption ==
  /\ MaxVersion \in Nat \ {0}
  /\ MaxAttempts \in Nat \ {0}
  /\ RetryDelay \in Seq(Nat \ {0}) /\ RetryDelay # <<>>
  /\ LeaseTtl \in Nat \ {0}
  /\ StaleAfter \in Nat \ {0}
  /\ MaxFaults \in Nat
  /\ MaxClaims \in Nat

ASSUME DataAssumption ==
  /\ Unmapped \subseteq Categories
  /\ PlanChanges \subseteq (SUBSET Categories) \X (SUBSET Categories)
  /\ Tour \in [Meetings -> [1..MaxVersion -> Seq(Tiles)]]
  /\ Circle \in [Meetings -> [1..MaxVersion -> SUBSET Places]]
  /\ Found \in [Categories -> [Tiles -> SUBSET Places]]
  /\ Faults \subseteq FaultKinds
  /\ Prompt \in BOOLEAN
  /\ ProviderFails \in BOOLEAN

\* The rows of place_sync_job, by their unique scope (UQ_place_sync_job_scope).
Job == [meeting : Meetings, version : 1..MaxVersion, category : Categories]

\* The unique scope of a tile lease and of a coverage row.
Scope == Categories \X Tiles

ASSUME NullAssumption ==
  /\ NoJob \notin Job
  /\ NoOwner \notin Workers /\ Orphan \notin Workers /\ NoOwner # Orphan
  /\ NoCategory \notin Categories

VARIABLES
  version,        \* meeting_location.sync_version (0: no meeting yet)
  plan,           \* the categories of meeting's course_category_step rows
  planned,        \* history: the plan when each version of a location was set
  status,         \* place_sync_job.status
  attempts,       \* place_sync_job.attempt_count
  wait,           \* ticks until place_sync_job.next_run_at
  age,            \* ticks since place_sync_job.started_at, while RUNNING
  leaseOwner,     \* place_sync_tile_lease.owner_token
  leaseLeft,      \* ticks until place_sync_tile_lease.expires_at
  coverage,       \* place_sync_coverage: no row, older than the TTL, fresh
  placeCategory,  \* place.category_id of the stored places
  answered,       \* history: scopes whose provider answer was stored
  pc,             \* where each worker is
  task,           \* the local variables of each worker's processJob
  faultCount      \* faults so far

meetingVars == <<version, plan, planned>>
jobVars   == <<status, attempts, wait, age>>
leaseVars == <<leaseOwner, leaseLeft>>
dataVars  == <<coverage, placeCategory, answered>>
vars == <<meetingVars, jobVars, leaseVars, dataVars, pc, task, faultCount>>

JobStatus == {"absent", "PENDING", "RUNNING", "COMPLETED", "FAILED"}
CoverageState == {"none", "stale", "fresh"}
PC == {"idle", "poll", "load", "scan", "lease", "collect", "release",
       "save", "complete", "fail"}

(***************************************************************************)
(* What processJob holds in memory: the job, the attempt_count it read,    *)
(* the index of the current tile, whether a coverage row was read for the  *)
(* tile (alreadyCovered), the place ids of this run, and whether the tile's *)
(* try block threw.                                                        *)
(***************************************************************************)
Task == [job : Job \cup {NoJob}, attempt : Nat, at : Nat, row : BOOLEAN,
         seen : SUBSET Places, failed : BOOLEAN]

NoTask == [job |-> NoJob, attempt |-> 0, at |-> 0, row |-> FALSE,
           seen |-> {}, failed |-> FALSE]

TourOf(j) == Tour[j.meeting][j.version]
JobOf(w) == task[w].job
ScopeOf(w) == <<JobOf(w).category, TourOf(JobOf(w))[task[w].at]>>

\* Inside the loop over the tiles.
AtTile == {"scan", "lease", "collect", "release", "save"}

\* A worker is inside processJob.
Busy(w) == pc[w] \notin {"idle", "poll"}

\* The pc at which processJob continues when the loop stands at tile n of j.
LoopAt(j, n) == IF n <= Len(TourOf(j)) THEN "scan" ELSE "complete"

Smaller(a, b) == IF a <= b THEN a ELSE b

Init ==
  /\ version = [m \in Meetings |-> 0]
  /\ plan = [m \in Meetings |-> {}]
  /\ planned = [m \in Meetings |-> [v \in 1..MaxVersion |-> {}]]
  /\ status = [j \in Job |-> "absent"]
  /\ attempts = [j \in Job |-> 0]
  /\ wait = [j \in Job |-> 0]
  /\ age = [j \in Job |-> 0]
  /\ leaseOwner = [s \in Scope |-> NoOwner]
  /\ leaseLeft = [s \in Scope |-> 0]
  /\ coverage \in [Scope -> {"none", "stale"}]
  /\ \A s \in Scope : s[1] \in Unmapped => coverage[s] = "none"
  /\ placeCategory = [p \in Places |-> NoCategory]
  /\ answered = {}
  /\ pc = [w \in Workers |-> "idle"]
  /\ task = [w \in Workers |-> NoTask]
  /\ faultCount = 0

-----------------------------------------------------------------------------
(* The API transactions that write the queue or a plan.                    *)

\* createJobs: one PENDING row per category of the plan, due at once.
JobsCreated(m, v, cats) ==
  [j \in Job |-> IF j.meeting = m /\ j.version = v /\ j.category \in cats
                 THEN "PENDING" ELSE status[j]]

\* Version v of the location of m is set under the plan cats.
LocationSet(m, v, cats) ==
  /\ version' = [version EXCEPT ![m] = v]
  /\ plan' = [plan EXCEPT ![m] = cats]
  /\ planned' = [planned EXCEPT ![m][v] = cats]

\* A first plan has at least one category.
CreateMeeting(m, cats) ==
  /\ version[m] = 0 /\ cats # {}
  /\ <<{}, cats>> \in PlanChanges
  /\ LocationSet(m, 1, cats)
  /\ status' = JobsCreated(m, 1, cats)
  /\ UNCHANGED <<attempts, wait, age, leaseVars, dataVars, pc, task, faultCount>>

\* The steps of the plan are replaced; no job is created or cancelled.
UpdateCoursePlan(m, cats) ==
  /\ version[m] > 0
  /\ <<plan[m], cats>> \in PlanChanges
  /\ plan' = [plan EXCEPT ![m] = cats]
  /\ UNCHANGED <<version, planned, jobVars, leaseVars, dataVars, pc, task, faultCount>>

Superseded(j) == j.version < version[j.meeting]

\* Older PENDING and RUNNING jobs are failed, jobs of the new version created.
UpdateLocation(m) ==
  LET next == version[m] + 1
      invalid(j) == /\ j.meeting = m /\ j.version < next
                    /\ status[j] \in {"PENDING", "RUNNING"}
  IN /\ version[m] > 0 /\ version[m] < MaxVersion
     /\ LocationSet(m, next, plan[m])
     /\ status' = [j \in Job |-> IF invalid(j) THEN "FAILED"
                                 ELSE JobsCreated(m, next, plan[m])[j]]
     /\ age' = [j \in Job |-> IF invalid(j) THEN 0 ELSE age[j]]
     /\ UNCHANGED <<attempts, wait, leaseVars, dataVars, pc, task, faultCount>>

-----------------------------------------------------------------------------
(* PlaceSyncWorker.runOnce: recover, claim, process.                       *)

Goto(w, l) == pc' = [pc EXCEPT ![w] = l]

\* processJob returned, or threw into the loop of PlaceSyncWorker.run.
Return(w) == Goto(w, "idle") /\ task' = [task EXCEPT ![w] = NoTask]

\* A job row written with status s; started_at matters only while RUNNING.
SetStatus(j, s) ==
  /\ status' = [status EXCEPT ![j] = s]
  /\ age' = [age EXCEPT ![j] = 0]

\* Faulty: recovers running jobs of any age, or none.
StaleAtAnyAge(j) == status[j] = "RUNNING"
NeverStale(j) == FALSE

Stale(j) == status[j] = "RUNNING" /\ age[j] > StaleAfter

\* UPDATE ... SET status = 'PENDING' WHERE status = 'RUNNING' and started too long ago.
RecoverStale(w) ==
  /\ pc[w] = "idle"
  /\ status' = [j \in Job |-> IF Stale(j) THEN "PENDING" ELSE status[j]]
  /\ wait' = [j \in Job |-> IF Stale(j) THEN 0 ELSE wait[j]]
  /\ age' = [j \in Job |-> IF Stale(j) THEN 0 ELSE age[j]]
  /\ Goto(w, "poll")
  /\ UNCHANGED <<meetingVars, attempts, leaseVars, dataVars, task, faultCount>>

\* Faulty: the claim takes jobs that run already, or that failed.
DueOrRunning(j) == status[j] \in {"PENDING", "RUNNING"} /\ wait[j] = 0 /\ attempts[j] < MaxClaims
DueOrFailed(j) == status[j] \in {"PENDING", "FAILED"} /\ wait[j] = 0 /\ attempts[j] < MaxClaims

Due(j) == status[j] = "PENDING" /\ wait[j] = 0 /\ attempts[j] < MaxClaims

\* Faulty: the claimed id is not returned to the worker.
ClaimWithoutReturning(w, j) ==
  /\ pc[w] = "poll"
  /\ Due(j)
  /\ SetStatus(j, "RUNNING")
  /\ attempts' = [attempts EXCEPT ![j] = @ + 1]
  /\ Goto(w, "load")
  /\ UNCHANGED <<meetingVars, wait, leaseVars, dataVars, task, faultCount>>

\* SKIP LOCKED may pass over the oldest due row, so any due row may be claimed.
Claim(w, j) ==
  /\ pc[w] = "poll"
  /\ Due(j)
  /\ SetStatus(j, "RUNNING")
  /\ attempts' = [attempts EXCEPT ![j] = @ + 1]
  /\ Goto(w, "load")
  /\ task' = [task EXCEPT ![w].job = j]
  /\ UNCHANGED <<meetingVars, wait, leaseVars, dataVars, faultCount>>

NothingDue(w) ==
  /\ pc[w] = "poll"
  /\ \A j \in Job : ~Due(j)
  /\ Return(w)
  /\ UNCHANGED <<meetingVars, jobVars, leaseVars, dataVars, faultCount>>

-----------------------------------------------------------------------------
(* PlaceSyncService.processJob.                                            *)

\* findOne: attempt_count is read once, here; no place types: nothing to collect.
Load(w) ==
  /\ pc[w] = "load"
  /\ task' = [task EXCEPT ![w].attempt = attempts[JobOf(w)], ![w].at = 1]
  /\ Goto(w, IF JobOf(w).category \in Unmapped THEN "complete"
             ELSE LoopAt(JobOf(w), 1))
  /\ UNCHANGED <<meetingVars, jobVars, leaseVars, dataVars, faultCount>>

\* Faulty: the age of a coverage row is not looked at.
SkipCoveredTile(w) ==
  /\ pc[w] = "scan"
  /\ coverage[ScopeOf(w)] # "none"
  /\ task' = [task EXCEPT ![w].at = @ + 1]
  /\ Goto(w, LoopAt(JobOf(w), task[w].at + 1))
  /\ UNCHANGED <<meetingVars, jobVars, leaseVars, dataVars, faultCount>>

\* A tile with fresh coverage is skipped.
SkipFreshTile(w) ==
  /\ pc[w] = "scan"
  /\ coverage[ScopeOf(w)] = "fresh"
  /\ task' = [task EXCEPT ![w].at = @ + 1]
  /\ Goto(w, LoopAt(JobOf(w), task[w].at + 1))
  /\ UNCHANGED <<meetingVars, jobVars, leaseVars, dataVars, faultCount>>

\* A tile without fresh coverage is to be collected; the row read is remembered.
MissTile(w) ==
  /\ pc[w] = "scan"
  /\ coverage[ScopeOf(w)] # "fresh"
  /\ task' = [task EXCEPT ![w].row = (coverage[ScopeOf(w)] = "stale")]
  /\ Goto(w, "lease")
  /\ UNCHANGED <<meetingVars, jobVars, leaseVars, dataVars, faultCount>>

\* Faulty: the upsert of the lease row lost its WHERE clause.
LeaseAlwaysFree(s) == leaseOwner[s] \in Workers \cup {NoOwner, Orphan}

LeaseFree(s) == leaseOwner[s] = NoOwner \/ leaseLeft[s] = 0

GrantLease(s, owner) ==
  /\ leaseOwner' = [leaseOwner EXCEPT ![s] = owner]
  /\ leaseLeft' = [leaseLeft EXCEPT ![s] = LeaseTtl]

AcquireTileLease(w) ==
  /\ pc[w] = "lease"
  /\ LeaseFree(ScopeOf(w))
  /\ GrantLease(ScopeOf(w), w)
  /\ Goto(w, "collect")
  /\ UNCHANGED <<meetingVars, jobVars, dataVars, task, faultCount>>

TileLeaseUnavailable(w) ==
  /\ pc[w] = "lease"
  /\ ~LeaseFree(ScopeOf(w))
  /\ Goto(w, "fail")
  /\ UNCHANGED <<meetingVars, jobVars, leaseVars, dataVars, task, faultCount>>

\* collectTilePlaces: what the query of the tile, or the queries of its quarters, find.
TilePlaces(s) == Found[s[1]][s[2]]

\* The places of the tile inside this job's circle, not yet seen in this run.
Filtered(w) ==
  LET j == JobOf(w)
  IN (TilePlaces(ScopeOf(w)) \cap Circle[j.meeting][j.version]) \ task[w].seen

\* Provider answer and upsert: the conflicting row takes this job's category.
CollectTile(w) ==
  /\ pc[w] = "collect"
  /\ placeCategory' = [p \in Places |-> IF p \in Filtered(w) THEN JobOf(w).category
                                        ELSE placeCategory[p]]
  /\ answered' = answered \cup {ScopeOf(w)}
  /\ task' = [task EXCEPT ![w].seen = @ \cup Filtered(w)]
  /\ Goto(w, "release")
  /\ UNCHANGED <<meetingVars, jobVars, leaseVars, coverage, faultCount>>

\* The provider fails, or a quarter of a capped tile is still capped.
CollectTileFails(w) ==
  /\ pc[w] = "collect"
  /\ ProviderFails
  /\ task' = [task EXCEPT ![w].failed = TRUE]
  /\ Goto(w, "release")
  /\ UNCHANGED <<meetingVars, jobVars, leaseVars, dataVars, faultCount>>

\* Faulty: the lease is deleted by tile and not by owner.
LeasesWithoutTileOf(w) ==
  /\ leaseOwner' = [leaseOwner EXCEPT ![ScopeOf(w)] = NoOwner]
  /\ leaseLeft' = [leaseLeft EXCEPT ![ScopeOf(w)] = 0]

\* DELETE ... WHERE owner_token = this run's token.
LeasesWithout(w) ==
  /\ leaseOwner' = [s \in Scope |-> IF leaseOwner[s] = w THEN NoOwner ELSE leaseOwner[s]]
  /\ leaseLeft' = [s \in Scope |-> IF leaseOwner[s] = w THEN 0 ELSE leaseLeft[s]]

\* Faulty: the finally block swallows the error of the try block.
ReleaseAndForgetError(w) ==
  /\ pc[w] = "release"
  /\ LeasesWithout(w)
  /\ Goto(w, "save")
  /\ UNCHANGED <<meetingVars, jobVars, dataVars, task, faultCount>>

ReleaseTileLease(w) ==
  /\ pc[w] = "release"
  /\ LeasesWithout(w)
  /\ Goto(w, IF task[w].failed THEN "fail" ELSE "save")
  /\ UNCHANGED <<meetingVars, jobVars, dataVars, task, faultCount>>

\* INSERT of a row somebody else inserted meanwhile (UQ_place_sync_coverage_scope).
CoverageConflict(w) == ~task[w].row /\ coverage[ScopeOf(w)] # "none"

SaveCoverage(w) ==
  /\ pc[w] = "save"
  /\ ~CoverageConflict(w)
  /\ coverage' = [coverage EXCEPT ![ScopeOf(w)] = "fresh"]
  /\ task' = [task EXCEPT ![w].at = @ + 1]
  /\ Goto(w, LoopAt(JobOf(w), task[w].at + 1))
  /\ UNCHANGED <<meetingVars, jobVars, leaseVars, placeCategory, answered, faultCount>>

SaveCoverageConflicts(w) ==
  /\ pc[w] = "save"
  /\ CoverageConflict(w)
  /\ Goto(w, "fail")
  /\ UNCHANGED <<meetingVars, jobVars, leaseVars, dataVars, task, faultCount>>

\* The status in the row is not looked at.
CompleteJob(w) ==
  /\ pc[w] = "complete"
  /\ SetStatus(JobOf(w), "COMPLETED")
  /\ Return(w)
  /\ UNCHANGED <<meetingVars, attempts, wait, leaseVars, dataVars, faultCount>>

\* Faulty: every retry waits for the first delay.
FirstBackoff(n) == RetryDelay[Smaller(n, 1)]

Backoff(n) == RetryDelay[Smaller(n, Len(RetryDelay))]

\* Faulty: one retry too many.
MayRetryOnceMore(w) == task[w].attempt <= MaxAttempts

MayRetry(w) == task[w].attempt < MaxAttempts

\* Decided by the attempt_count read in Load; the status in the row is not looked at.
FailOrRetryJob(w) ==
  LET retry == MayRetry(w)
  IN /\ pc[w] = "fail"
     /\ SetStatus(JobOf(w), IF retry THEN "PENDING" ELSE "FAILED")
     /\ wait' = IF retry THEN [wait EXCEPT ![JobOf(w)] = Backoff(task[w].attempt)]
                ELSE wait
     /\ Return(w)
     /\ UNCHANGED <<meetingVars, attempts, leaseVars, dataVars, faultCount>>

-----------------------------------------------------------------------------
(* Faults.                                                                 *)

Fault(kind) ==
  /\ kind \in Faults
  /\ faultCount < MaxFaults
  /\ faultCount' = faultCount + 1

\* A token that no running process holds any more.
LeasesOrphaned(w) ==
  /\ leaseOwner' = [s \in Scope |-> IF leaseOwner[s] = w THEN Orphan ELSE leaseOwner[s]]
  /\ UNCHANGED leaseLeft

\* The process dies (out of memory, SIGKILL after the grace period) and restarts.
Crash(w) ==
  /\ pc[w] # "idle"
  /\ Fault("crash")
  /\ LeasesOrphaned(w)
  /\ Return(w)
  /\ UNCHANGED <<meetingVars, jobVars, dataVars>>

\* A database call rejects without effect, outside the try of processJob.
QueryErrorInLoop(w) ==
  /\ pc[w] \in {"poll", "load", "fail"}
  /\ Fault("error")
  /\ Return(w)
  /\ UNCHANGED <<meetingVars, jobVars, leaseVars, dataVars>>

\* A database call rejects without effect, inside the try of processJob.
QueryErrorInJob(w) ==
  /\ pc[w] \in {"scan", "lease", "release", "save", "complete"}
  /\ Fault("error")
  /\ LeasesOrphaned(w)
  /\ Goto(w, "fail")
  /\ UNCHANGED <<meetingVars, jobVars, dataVars, task>>

\* The upsert rejects: the lease is still released.
UpsertError(w) ==
  /\ pc[w] = "collect"
  /\ Fault("error")
  /\ task' = [task EXCEPT ![w].failed = TRUE]
  /\ Goto(w, "release")
  /\ UNCHANGED <<meetingVars, jobVars, leaseVars, dataVars>>

\* A statement commits but its reply is lost: the call rejects all the same.
ReplyLost(w) ==
  /\ Fault("lostReply")
  /\ \/ /\ pc[w] = "lease" /\ LeaseFree(ScopeOf(w))
        /\ GrantLease(ScopeOf(w), Orphan)
        /\ UNCHANGED <<status, age, coverage>>
     \/ /\ pc[w] = "save" /\ ~CoverageConflict(w)
        /\ coverage' = [coverage EXCEPT ![ScopeOf(w)] = "fresh"]
        /\ UNCHANGED <<status, age, leaseVars>>
     \/ /\ pc[w] = "complete"
        /\ SetStatus(JobOf(w), "COMPLETED")
        /\ UNCHANGED <<leaseVars, coverage>>
  /\ Goto(w, "fail")
  /\ UNCHANGED <<meetingVars, attempts, wait, placeCategory, answered, task>>

-----------------------------------------------------------------------------
(* Time.  Prompt: a worker neither lets its tile lease expire while it     *)
(* collects the tile, nor its job become stale while it processes it.      *)

InTime(w) ==
  /\ pc[w] \in {"collect", "release"} =>
       (leaseOwner[ScopeOf(w)] = w => leaseLeft[ScopeOf(w)] > 1)
  /\ Busy(w) => (status[JobOf(w)] = "RUNNING" => age[JobOf(w)] < StaleAfter)

Tick ==
  /\ Prompt => \A w \in Workers : InTime(w)
  /\ wait' = [j \in Job |-> IF wait[j] > 0 THEN wait[j] - 1 ELSE 0]
  /\ leaseLeft' = [s \in Scope |-> IF leaseLeft[s] > 0 THEN leaseLeft[s] - 1 ELSE 0]
  /\ age' = [j \in Job |-> IF status[j] = "RUNNING"
                           THEN Smaller(age[j] + 1, StaleAfter + 1) ELSE age[j]]
  /\ UNCHANGED <<meetingVars, status, attempts, leaseOwner, dataVars, pc, task, faultCount>>

-----------------------------------------------------------------------------
MeetingStep(m) ==
  \/ UpdateLocation(m)
  \/ \E cats \in SUBSET Categories : CreateMeeting(m, cats) \/ UpdateCoursePlan(m, cats)

WorkerStep(w) ==
  \/ RecoverStale(w) \/ (\E j \in Job : Claim(w, j)) \/ NothingDue(w)
  \/ Load(w) \/ SkipFreshTile(w) \/ MissTile(w)
  \/ AcquireTileLease(w) \/ TileLeaseUnavailable(w)
  \/ CollectTile(w) \/ CollectTileFails(w) \/ ReleaseTileLease(w)
  \/ SaveCoverage(w) \/ SaveCoverageConflicts(w)
  \/ CompleteJob(w) \/ FailOrRetryJob(w)

FaultStep(w) ==
  Crash(w) \/ QueryErrorInLoop(w) \/ QueryErrorInJob(w) \/ UpsertError(w) \/ ReplyLost(w)

Next ==
  \/ \E m \in Meetings : MeetingStep(m)
  \/ \E w \in Workers : WorkerStep(w) \/ FaultStep(w)
  \/ Tick

Spec == Init /\ [][Next]_vars

\* The worker loop keeps running and time passes; users owe nothing.
FairSpec == Spec /\ WF_vars(Tick) /\ \A w \in Workers : WF_vars(WorkerStep(w))

-----------------------------------------------------------------------------
(* PlaceSyncService.getStatus.                                             *)

\* Faulty: one completed job outweighs those that still wait.
ReadyOnceCompleted(m, v) ==
  LET rows == {j \in Job : j.meeting = m /\ j.version = v /\ status[j] # "absent"}
      found == {status[j] : j \in rows}
  IN IF "RUNNING" \in found THEN "RUNNING"
     ELSE IF "COMPLETED" \in found THEN "READY"
     ELSE IF found = {} \/ "PENDING" \in found THEN "PENDING" ELSE "FAILED"

\* The jobs of meeting m for version v of its location, as one status.
StatusOfVersion(m, v) ==
  LET rows == {j \in Job : j.meeting = m /\ j.version = v /\ status[j] # "absent"}
      found == {status[j] : j \in rows}
  IN IF "RUNNING" \in found THEN "RUNNING"
     ELSE IF found = {} \/ "PENDING" \in found THEN "PENDING"
     ELSE IF found = {"COMPLETED"} THEN "READY"
     ELSE IF "COMPLETED" \in found THEN "PARTIAL" ELSE "FAILED"

CollectionStatus(m) == StatusOfVersion(m, version[m])

-----------------------------------------------------------------------------
(* Properties.                                                             *)

\* Type correctness of the tables and of the workers' memory.
TypeOK ==
  /\ version \in [Meetings -> 0..MaxVersion]
  /\ plan \in [Meetings -> SUBSET Categories]
  /\ planned \in [Meetings -> [1..MaxVersion -> SUBSET Categories]]
  /\ status \in [Job -> JobStatus]
  /\ attempts \in [Job -> Nat]
  /\ wait \in [Job -> Nat]
  /\ age \in [Job -> 0..(StaleAfter + 1)]
  /\ leaseOwner \in [Scope -> Workers \cup {NoOwner, Orphan}]
  /\ leaseLeft \in [Scope -> 0..LeaseTtl]
  /\ coverage \in [Scope -> CoverageState]
  /\ placeCategory \in [Places -> Categories \cup {NoCategory}]
  /\ answered \subseteq Scope
  /\ pc \in [Workers -> PC]
  /\ task \in [Workers -> Task]
  /\ \A w \in Workers : Busy(w) => JobOf(w) \in Job
  /\ faultCount \in 0..MaxFaults

Collected(s) == coverage[s] = "fresh" /\ s \in answered

\* The tiles of job j before the n-th are collected; all of them are.
CollectedBefore(j, n) ==
  \A i \in DOMAIN TourOf(j) : i < n => Collected(<<j.category, TourOf(j)[i]>>)
JobCovered(j) ==
  j.category \in Unmapped \/ CollectedBefore(j, Len(TourOf(j)) + 1)

\* Whatever workers, retries, recoveries and lost leases did to a job, a job
\* that reads COMPLETED has fresh coverage for every tile of its circle, and
\* the provider's answer for that tile was stored: no path through processJob
\* reaches completeJob past a tile that nobody collected.
CompletedMeansCovered ==
  \A j \in Job : status[j] = "COMPLETED" => JobCovered(j)

\* The worker's memory fits its position: a job once claimed has an attempt,
\* processJob read it, and a tile is worked on only inside the tour.
TaskFitsPosition ==
  \A w \in Workers :
    /\ Busy(w) => attempts[JobOf(w)] > 0
    /\ Busy(w) /\ pc[w] # "load" => task[w].attempt > 0
    /\ pc[w] \in AtTile => task[w].at \in DOMAIN TourOf(JobOf(w))

\* A row exists for every category that was in the plan when a location of the
\* meeting was set, no other; a worker processes a row that exists.
JobsFollowLocation ==
  /\ \A j \in Job : status[j] = "absent" <=> j.category \notin planned[j.meeting][j.version]
  /\ \A j \in Job : j.version > version[j.meeting] => planned[j.meeting][j.version] = {}
  /\ \A w \in Workers : Busy(w) => status[JobOf(w)] # "absent"

\* What the tile loop has established when worker w stands at a position: the
\* answer it is about to record was stored, and every tile it passed is
\* collected, whoever collected it.
Passed(w) ==
  /\ pc[w] = "save" \/ (pc[w] = "release" /\ ~task[w].failed) => ScopeOf(w) \in answered
  /\ pc[w] \in AtTile => CollectedBefore(JobOf(w), task[w].at)
  /\ pc[w] = "complete" => JobCovered(JobOf(w))

\* The inductive invariant behind CompletedMeansCovered.
CoverageInv ==
  /\ TypeOK /\ TaskFitsPosition /\ JobsFollowLocation
  /\ \A s \in Scope : coverage[s] = "fresh" => s \in answered
  /\ \A w \in Workers : Passed(w)
  /\ CompletedMeansCovered

\* While workers are prompt, the claim and the stale recovery never hand one
\* job to two workers, across crashes, retries and location changes.
OneWorkerPerJob ==
  \A v, w \in Workers : v # w /\ Busy(v) /\ Busy(w) => JobOf(v) # JobOf(w)

\* The inductive invariant behind OneWorkerPerJob: a job being processed is
\* never PENDING, and while it is RUNNING it is not yet stale.
Claimed ==
  /\ TypeOK /\ TaskFitsPosition /\ JobsFollowLocation
  /\ \A w \in Workers : Busy(w) =>
       /\ status[JobOf(w)] \in {"RUNNING", "COMPLETED", "FAILED"}
       /\ status[JobOf(w)] = "RUNNING" => age[JobOf(w)] <= StaleAfter
  /\ OneWorkerPerJob

\* While workers are prompt, the tile lease keeps two workers from calling
\* the provider for the same tile and category at the same time.
CollectorsExclusive ==
  \A v, w \in Workers :
    v # w /\ pc[v] = "collect" /\ pc[w] = "collect" => ScopeOf(v) # ScopeOf(w)

\* attempt_count exceeds MAX_ATTEMPTS only by as many recoveries as faults
\* made necessary: the retry decision on the snapshot adds no attempt.
AttemptBudget == \A j \in Job : attempts[j] <= MaxAttempts + faultCount

\* An unexpired lease of a live worker is taken away by nobody else, neither
\* by an acquisition nor by a release, an expired holder's late one included.
LeaseHeldUntilExpiry ==
  [][\A s \in Scope : \A w \in Workers :
       leaseOwner[s] = w /\ leaseLeft[s] > 0 /\ pc'[w] = pc[w] => leaseOwner'[s] = w]_vars

\* A job that completed stays COMPLETED: no recovery, late retry or location
\* change takes READY back from a client.
CompletedIsFinal ==
  [][\A j \in Job : status[j] = "COMPLETED" => status'[j] = "COMPLETED"]_vars

\* What the rows of the queue go through is a job's lifecycle: workers, leases,
\* retries, recoveries and crashes implement it, provided that workers are
\* prompt and no reply of a commit is lost.
Lifecycle == INSTANCE JobLifecycle
               WITH current <- version, state <- status, taken <- attempts
ImplementsLifecycle == Lifecycle!Spec

\* A job failed because its location changed is never run again, once no
\* worker is processing it.
SupersededStaysFailed ==
  [][\A j \in Job :
       (Superseded(j) /\ status[j] = "FAILED" /\ \A w \in Workers : JobOf(w) # j)
         => status'[j] = "FAILED"]_vars

\* A job whose location changed is invalid from then on: nothing turns it back
\* into a pending or a completed job.
SupersededIsFinal ==
  [][\A j \in Job : Superseded(j) /\ status[j] = "FAILED" => status'[j] = "FAILED"]_vars

\* When every job of a location is completed, the places the provider has for
\* its tiles and that lie in its circle are stored.
CompletedMeansStored ==
  \A j \in Job : status[j] = "COMPLETED" =>
    \A i \in DOMAIN TourOf(j) :
      \A p \in TilePlaces(<<j.category, TourOf(j)[i]>>) \cap Circle[j.meeting][j.version] :
        placeCategory[p] # NoCategory

\* With faults over and workers prompt, every job settles for good.
JobsSettle ==
  <>[](\A j \in Job : status[j] \in {"absent", "COMPLETED", "FAILED"})

\* The provider answers and at most one fault happens: the collection of the
\* location a meeting ends up with becomes READY and stays so, for the retry
\* delays together outlast the lease that a dead worker left behind.  A location
\* set for a plan without categories has nothing to collect and stays PENDING.
EndsReady ==
  \A m \in Meetings :
    <>[](version[m] > 0 /\ planned[m][version[m]] # {} => CollectionStatus(m) = "READY")
=============================================================================
