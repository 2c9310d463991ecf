-------------------------- MODULE PlaceSyncProofs ---------------------------
(***************************************************************************)
(* Theorems about PlaceSync, for every number of workers, meetings,        *)
(* categories, tiles and places, every bound and every choice of faults.   *)
(***************************************************************************)
EXTENDS PlaceSync, TLAPS

USE DEF JobStatus, CoverageState, PC

\* The tour, circle and scope of a job are what their names say.
LEMMA JobData ==
  ASSUME NEW j \in Job
  PROVE  /\ j.meeting \in Meetings /\ j.version \in 1..MaxVersion
         /\ j.category \in Categories
         /\ TourOf(j) \in Seq(Tiles)
         /\ Circle[j.meeting][j.version] \subseteq Places
BY DataAssumption DEF Job, TourOf

LEMMA Bounds ==
  /\ MaxVersion \in Nat \ {0} /\ MaxAttempts \in Nat \ {0}
  /\ LeaseTtl \in Nat \ {0} /\ StaleAfter \in Nat \ {0} /\ MaxFaults \in Nat
BY BoundsAssumption

LEMMA NoTaskType == NoTask \in Task
BY DEF NoTask, Task

\* A task with one field replaced by a value of its type is a task.
LEMMA TaskUpdate ==
  ASSUME NEW t \in Task
  PROVE  /\ \A j \in Job : [t EXCEPT !.job = j] \in Task
         /\ \A a \in Nat : [t EXCEPT !.attempt = a, !.at = 1] \in Task
         /\ [t EXCEPT !.at = t.at + 1] \in Task
         /\ \A b \in BOOLEAN : [t EXCEPT !.row = b] \in Task
         /\ \A s \in SUBSET Places : [t EXCEPT !.seen = t.seen \cup s] \in Task
         /\ [t EXCEPT !.failed = TRUE] \in Task
<1> USE DEF Task
<1>1. \A j \in Job : [t EXCEPT !.job = j] \in Task
  OBVIOUS
<1>2. \A a \in Nat : [t EXCEPT !.attempt = a, !.at = 1] \in Task
  OBVIOUS
<1>3. [t EXCEPT !.at = t.at + 1] \in Task
  OBVIOUS
<1>4. \A b \in BOOLEAN : [t EXCEPT !.row = b] \in Task
  OBVIOUS
<1>5. \A s \in SUBSET Places : [t EXCEPT !.seen = t.seen \cup s] \in Task
  <2> TAKE s \in SUBSET Places
  <2>1. t.seen \cup s \in SUBSET Places
    OBVIOUS
  <2>2. QED BY <2>1
<1>6. [t EXCEPT !.failed = TRUE] \in Task
  OBVIOUS
<1>7. QED BY <1>1, <1>2, <1>3, <1>4, <1>5, <1>6

\* After its first attempt a job always has a delay to wait for.
LEMMA BackoffType ==
  ASSUME NEW n \in Nat \ {0} PROVE Backoff(n) \in Nat \ {0}
<1>1. RetryDelay \in Seq(Nat \ {0}) /\ Len(RetryDelay) \in Nat \ {0}
  BY BoundsAssumption
<1>2. Smaller(n, Len(RetryDelay)) \in 1..Len(RetryDelay)
  BY <1>1 DEF Smaller
<1>3. QED BY <1>1, <1>2 DEF Backoff

\* At a tile, the scope a worker handles is a scope.
LEMMA ScopeOfType ==
  ASSUME TypeOK, TaskFitsPosition, NEW w \in Workers, pc[w] \in AtTile
  PROVE  /\ ScopeOf(w) \in Scope /\ JobOf(w) \in Job
         /\ task[w].at \in DOMAIN TourOf(JobOf(w))
<1>1. Busy(w) /\ JobOf(w) \in Job
  BY DEF Busy, TypeOK, AtTile
<1>2. task[w].at \in DOMAIN TourOf(JobOf(w))
  BY DEF TaskFitsPosition
<1>3. QED BY <1>1, <1>2, JobData DEF ScopeOf, Scope

LEMMA LoopAtType ==
  ASSUME NEW j, NEW n PROVE LoopAt(j, n) \in PC
BY DEF LoopAt

\* The parts of TypeOK that a step of the workers and of the API can disturb.
THEOREM TypeInit == Init => TypeOK
BY NullAssumption, NoTaskType, Bounds
   DEF Init, TypeOK, Busy, JobOf

\* What a transaction of the API leaves alone.
LEMMA MeetingQuiet ==
  ASSUME NEW m \in Meetings, MeetingStep(m)
  PROVE  UNCHANGED <<attempts, wait, leaseVars, dataVars, pc, task, faultCount>>
BY DEF MeetingStep, CreateMeeting, UpdateLocation, UpdateCoursePlan, jobVars

\* It sets the next location, with a job for each category of the plan of that
\* moment, or changes the plan alone.
LEMMA MeetingEffect ==
  ASSUME TypeOK, NEW m \in Meetings, MeetingStep(m)
  PROVE  \/ /\ version[m] + 1 \in 1..MaxVersion
            /\ \E cats \in SUBSET Categories :
                 /\ LocationSet(m, version[m] + 1, cats)
                 /\ \/ status' = JobsCreated(m, version[m] + 1, cats) /\ age' = age
                    \/ UpdateLocation(m) /\ cats = plan[m]
         \/ /\ UNCHANGED <<version, planned, status, age>>
            /\ \E cats \in SUBSET Categories : plan' = [plan EXCEPT ![m] = cats]
<1>1. version[m] \in 0..MaxVersion /\ plan[m] \in SUBSET Categories
  BY DEF TypeOK
<1>2. CASE UpdateLocation(m)
  <2>1. version[m] + 1 \in 1..MaxVersion
    BY <1>1, <1>2, Bounds DEF UpdateLocation
  <2>2. LocationSet(m, version[m] + 1, plan[m])
    BY <1>2 DEF UpdateLocation
  <2>3. QED BY <1>1, <1>2, <2>1, <2>2
<1>3. ASSUME NEW cats \in SUBSET Categories, CreateMeeting(m, cats)
      PROVE  /\ version[m] + 1 \in 1..MaxVersion
             /\ LocationSet(m, version[m] + 1, cats)
             /\ status' = JobsCreated(m, version[m] + 1, cats) /\ age' = age
  BY <1>3, Bounds DEF CreateMeeting
<1>4. ASSUME NEW cats \in SUBSET Categories, UpdateCoursePlan(m, cats)
      PROVE  UNCHANGED <<version, planned, status, age>> /\ plan' = [plan EXCEPT ![m] = cats]
  BY <1>4 DEF UpdateCoursePlan, jobVars
<1>5. QED BY <1>2, <1>3, <1>4 DEF MeetingStep

LEMMA LocationSetType ==
  ASSUME TypeOK, NEW m \in Meetings, NEW v \in 1..MaxVersion, NEW cats \in SUBSET Categories,
         LocationSet(m, v, cats)
  PROVE  /\ version' \in [Meetings -> 0..MaxVersion]
         /\ plan' \in [Meetings -> SUBSET Categories]
         /\ planned' \in [Meetings -> [1..MaxVersion -> SUBSET Categories]]
<1>1. v \in 0..MaxVersion
  BY Bounds
<1>2. [planned[m] EXCEPT ![v] = cats] \in [1..MaxVersion -> SUBSET Categories]
  BY DEF TypeOK
<1>3. planned' = [planned EXCEPT ![m] = [planned[m] EXCEPT ![v] = cats]]
  BY DEF LocationSet, TypeOK
<1>4. QED BY <1>1, <1>2, <1>3 DEF LocationSet, TypeOK

LEMMA TypeAPI ==
  ASSUME TypeOK, NEW m \in Meetings, MeetingStep(m)
  PROVE  TypeOK'
<1>1. /\ version' \in [Meetings -> 0..MaxVersion]
      /\ plan' \in [Meetings -> SUBSET Categories]
      /\ planned' \in [Meetings -> [1..MaxVersion -> SUBSET Categories]]
  <2>1. CASE UNCHANGED <<version, planned, status, age>>
             /\ \E cats \in SUBSET Categories : plan' = [plan EXCEPT ![m] = cats]
    BY <2>1 DEF TypeOK
  <2>2. QED BY <2>1, MeetingEffect, LocationSetType
<1>2. status' \in [Job -> JobStatus] /\ age' \in [Job -> 0..(StaleAfter + 1)]
  <2>1. CASE UpdateLocation(m)
    BY <2>1, Bounds DEF UpdateLocation, JobsCreated, TypeOK
  <2>2. QED BY <2>1, MeetingEffect DEF JobsCreated, TypeOK
<1>3. QED
  BY <1>1, <1>2, MeetingQuiet DEF TypeOK, leaseVars, dataVars, Busy, JobOf

LEMMA SetStatusType ==
  ASSUME TypeOK, NEW j, NEW s \in JobStatus, SetStatus(j, s)
  PROVE  status' \in [Job -> JobStatus] /\ age' \in [Job -> 0..(StaleAfter + 1)]
<1>1. 0 \in 0..(StaleAfter + 1)
  BY Bounds
<1>2. status \in [Job -> JobStatus] /\ age \in [Job -> 0..(StaleAfter + 1)]
  BY DEF TypeOK
<1>3. QED BY <1>1, <1>2 DEF SetStatus

LEMMA TypeWorker ==
  ASSUME TypeOK, TaskFitsPosition, NEW w \in Workers, WorkerStep(w)
  PROVE  TypeOK'
<1> USE DEF TypeOK, meetingVars, jobVars, leaseVars, dataVars
<1>1. CASE RecoverStale(w)
  <2>1. /\ status' \in [Job -> JobStatus] /\ wait' \in [Job -> Nat]
        /\ age' \in [Job -> 0..(StaleAfter + 1)]
    BY <1>1, Bounds DEF RecoverStale
  <2>2. QED BY <1>1, <2>1 DEF RecoverStale, Goto, Busy, JobOf
<1>2. ASSUME NEW j \in Job, Claim(w, j) PROVE TypeOK'
  <2>1. status' \in [Job -> JobStatus] /\ age' \in [Job -> 0..(StaleAfter + 1)]
    BY <1>2, SetStatusType DEF Claim
  <2>2. attempts' \in [Job -> Nat]
    BY <1>2 DEF Claim
  <2>3. task' \in [Workers -> Task]
    BY <1>2, TaskUpdate DEF Claim
  <2>4. \A v \in Workers : Busy(v)' => JobOf(v)' \in Job
    BY <1>2, <2>3 DEF Claim, Goto, Busy, JobOf, Task
  <2>5. QED BY <1>2, <2>1, <2>2, <2>3, <2>4 DEF Claim, Goto
<1>3. CASE NothingDue(w)
  BY <1>3, NoTaskType DEF NothingDue, Return, Goto, Busy, JobOf
<1>4. CASE Load(w)
  <2>1. Busy(w) /\ JobOf(w) \in Job
    BY <1>4 DEF Load, Busy
  <2>2. task' \in [Workers -> Task]
    BY <1>4, <2>1, TaskUpdate DEF Load
  <2>3. pc' \in [Workers -> PC]
    BY <1>4, LoopAtType DEF Load, Goto
  <2>4. \A v \in Workers : JobOf(v)' = JobOf(v)
    BY <1>4, <2>1 DEF Load, JobOf, Task
  <2>5. QED BY <1>4, <2>1, <2>2, <2>3, <2>4 DEF Load, Goto, Busy
<1>5. CASE SkipFreshTile(w)
  <2>1. task' \in [Workers -> Task]
    BY <1>5, TaskUpdate DEF SkipFreshTile
  <2>2. pc' \in [Workers -> PC]
    BY <1>5, LoopAtType DEF SkipFreshTile, Goto
  <2>3. \A v \in Workers : JobOf(v)' = JobOf(v)
    BY <1>5 DEF SkipFreshTile, JobOf, Task
  <2>4. QED BY <1>5, <2>1, <2>2, <2>3 DEF SkipFreshTile, Goto, Busy
<1>6. CASE MissTile(w)
  <2>1. task' \in [Workers -> Task]
    BY <1>6, TaskUpdate DEF MissTile
  <2>2. \A v \in Workers : JobOf(v)' = JobOf(v)
    BY <1>6 DEF MissTile, JobOf, Task
  <2>3. QED BY <1>6, <2>1, <2>2 DEF MissTile, Goto, Busy
<1>7. CASE AcquireTileLease(w)
  <2>1. leaseOwner' \in [Scope -> Workers \cup {NoOwner, Orphan}]
    BY <1>7 DEF AcquireTileLease, GrantLease
  <2>2. leaseLeft' \in [Scope -> 0..LeaseTtl]
    <3>1. LeaseTtl \in 0..LeaseTtl
      BY Bounds
    <3>2. QED BY <1>7, <3>1 DEF AcquireTileLease, GrantLease
  <2>3. QED BY <1>7, <2>1, <2>2 DEF AcquireTileLease, Goto, Busy, JobOf
<1>8. CASE TileLeaseUnavailable(w)
  BY <1>8 DEF TileLeaseUnavailable, Goto, Busy, JobOf
<1>9. CASE CollectTile(w)
  <2>1. Busy(w) /\ JobOf(w) \in Job
    BY <1>9 DEF CollectTile, Busy
  <2>2. Filtered(w) \subseteq Places
    BY <2>1, JobData DEF Filtered
  <2>3. task' \in [Workers -> Task]
    BY <1>9, <2>2, TaskUpdate DEF CollectTile
  <2>4. placeCategory' \in [Places -> Categories \cup {NoCategory}]
    BY <1>9, <2>1, JobData DEF CollectTile
  <2>5. \A v \in Workers : JobOf(v)' = JobOf(v)
    BY <1>9 DEF CollectTile, JobOf, Task
  <2>6. answered' \subseteq Scope
    BY <1>9, ScopeOfType DEF CollectTile, AtTile
  <2>7. QED BY <1>9, <2>1, <2>3, <2>4, <2>5, <2>6 DEF CollectTile, Goto, Busy
<1>10. CASE CollectTileFails(w)
  <2>1. task' \in [Workers -> Task]
    BY <1>10, TaskUpdate DEF CollectTileFails
  <2>2. \A v \in Workers : JobOf(v)' = JobOf(v)
    BY <1>10 DEF CollectTileFails, JobOf, Task
  <2>3. QED BY <1>10, <2>1, <2>2 DEF CollectTileFails, Goto, Busy
<1>11. CASE ReleaseTileLease(w)
  <2>1. /\ leaseOwner' \in [Scope -> Workers \cup {NoOwner, Orphan}]
        /\ leaseLeft' \in [Scope -> 0..LeaseTtl]
    BY <1>11, Bounds DEF ReleaseTileLease, LeasesWithout
  <2>2. QED BY <1>11, <2>1 DEF ReleaseTileLease, Goto, Busy, JobOf
<1>12. CASE SaveCoverage(w)
  <2>1. task' \in [Workers -> Task]
    BY <1>12, TaskUpdate DEF SaveCoverage
  <2>2. pc' \in [Workers -> PC]
    BY <1>12, LoopAtType DEF SaveCoverage, Goto
  <2>3. \A v \in Workers : JobOf(v)' = JobOf(v)
    BY <1>12 DEF SaveCoverage, JobOf, Task
  <2>4. QED BY <1>12, <2>1, <2>2, <2>3 DEF SaveCoverage, Goto, Busy
<1>13. CASE SaveCoverageConflicts(w)
  BY <1>13 DEF SaveCoverageConflicts, Goto, Busy, JobOf
<1>14. CASE CompleteJob(w)
  <2>1. status' \in [Job -> JobStatus] /\ age' \in [Job -> 0..(StaleAfter + 1)]
    BY <1>14, SetStatusType DEF CompleteJob
  <2>2. QED BY <1>14, <2>1, NoTaskType DEF CompleteJob, Return, Goto, Busy, JobOf
<1>15. CASE FailOrRetryJob(w)
  <2>1. status' \in [Job -> JobStatus] /\ age' \in [Job -> 0..(StaleAfter + 1)]
    <3>1. (IF MayRetry(w) THEN "PENDING" ELSE "FAILED") \in JobStatus
      OBVIOUS
    <3>2. QED BY <1>15, <3>1, SetStatusType DEF FailOrRetryJob
  <2>2. wait' \in [Job -> Nat]
    <3>1. ASSUME MayRetry(w) PROVE Backoff(task[w].attempt) \in Nat
      <4>1. task[w].attempt \in Nat \ {0}
        <5>1. Busy(w) /\ pc[w] # "load"
          BY <1>15 DEF FailOrRetryJob, Busy
        <5>2. task[w].attempt \in Nat
          BY DEF Task
        <5>3. QED BY <5>1, <5>2 DEF TaskFitsPosition
      <4>2. QED BY <4>1, BackoffType
    <3>2. QED BY <1>15, <3>1 DEF FailOrRetryJob
  <2>3. QED BY <1>15, <2>1, <2>2, NoTaskType DEF FailOrRetryJob, Return, Goto, Busy, JobOf
<1>16. QED
  BY <1>1, <1>2, <1>3, <1>4, <1>5, <1>6, <1>7, <1>8, <1>9, <1>10, <1>11, <1>12,
     <1>13, <1>14, <1>15 DEF WorkerStep

LEMMA TypeFault ==
  ASSUME TypeOK, NEW w \in Workers, FaultStep(w)
  PROVE  TypeOK'
<1> USE DEF TypeOK, meetingVars, jobVars, leaseVars, dataVars
<1>1. ASSUME NEW kind, Fault(kind) PROVE faultCount' \in 0..MaxFaults
  BY <1>1, Bounds DEF Fault
<1>2. ASSUME LeasesOrphaned(w)
      PROVE  /\ leaseOwner' \in [Scope -> Workers \cup {NoOwner, Orphan}]
             /\ leaseLeft' \in [Scope -> 0..LeaseTtl]
  BY <1>2 DEF LeasesOrphaned
<1>3. CASE Crash(w)
  BY <1>1, <1>2, <1>3, NoTaskType DEF Crash, Return, Goto, Busy, JobOf
<1>4. CASE QueryErrorInLoop(w)
  BY <1>1, <1>4, NoTaskType DEF QueryErrorInLoop, Return, Goto, Busy, JobOf
<1>5. CASE QueryErrorInJob(w)
  BY <1>1, <1>2, <1>5 DEF QueryErrorInJob, Goto, Busy, JobOf
<1>6. CASE UpsertError(w)
  <2>1. task' \in [Workers -> Task]
    BY <1>6, TaskUpdate DEF UpsertError
  <2>2. \A v \in Workers : JobOf(v)' = JobOf(v)
    BY <1>6 DEF UpsertError, JobOf, Task
  <2>3. QED BY <1>1, <1>6, <2>1, <2>2 DEF UpsertError, Goto, Busy
<1>7. CASE ReplyLost(w)
  <2>1. /\ leaseOwner' \in [Scope -> Workers \cup {NoOwner, Orphan}]
        /\ leaseLeft' \in [Scope -> 0..LeaseTtl]
    <3>1. LeaseTtl \in 0..LeaseTtl
      BY Bounds
    <3>2. QED BY <1>7, <3>1 DEF ReplyLost, GrantLease
  <2>2. coverage' \in [Scope -> CoverageState]
    BY <1>7 DEF ReplyLost
  <2>3. status' \in [Job -> JobStatus] /\ age' \in [Job -> 0..(StaleAfter + 1)]
    BY <1>7, SetStatusType DEF ReplyLost
  <2>4. QED BY <1>1, <1>7, <2>1, <2>2, <2>3 DEF ReplyLost, Goto, Busy, JobOf
<1>8. QED BY <1>3, <1>4, <1>5, <1>6, <1>7 DEF FaultStep

LEMMA TypeTick == TypeOK /\ Tick => TypeOK'
<1> SUFFICES ASSUME TypeOK, Tick PROVE TypeOK'
  OBVIOUS
<1> USE DEF TypeOK, Tick
<1>1. wait' \in [Job -> Nat]
  OBVIOUS
<1>2. leaseLeft' \in [Scope -> 0..LeaseTtl]
  BY Bounds
<1>3. age' \in [Job -> 0..(StaleAfter + 1)]
  BY Bounds DEF Smaller
<1>4. QED BY <1>1, <1>2, <1>3 DEF meetingVars, dataVars, Busy, JobOf

-----------------------------------------------------------------------------
(* The worker's memory fits its position.                                  *)

THEOREM FitsInit == Init => TaskFitsPosition
BY DEF Init, TaskFitsPosition, Busy, AtTile

\* A step that moves no worker and lowers no attempt_count keeps it.
LEMMA FitsElsewhere ==
  ASSUME TypeOK, TaskFitsPosition, UNCHANGED <<attempts, pc, task>>
  PROVE  TaskFitsPosition'
BY DEF TaskFitsPosition, Busy, JobOf, TourOf

\* A step that moves only w keeps it, if it holds for w afterwards.
LEMMA FitsLocal ==
  ASSUME TypeOK, TaskFitsPosition, NEW w \in Workers,
         \A v \in Workers \ {w} : pc'[v] = pc[v] /\ task'[v] = task[v],
         \A j \in Job : attempts'[j] >= attempts[j],
         attempts' \in [Job -> Nat],
         Busy(w)' => attempts'[JobOf(w)'] > 0,
         Busy(w)' /\ pc'[w] # "load" => task'[w].attempt > 0,
         pc'[w] \in AtTile => task'[w].at \in DOMAIN TourOf(JobOf(w)')
  PROVE  TaskFitsPosition'
<1>1. ASSUME NEW v \in Workers, v # w
      PROVE  /\ Busy(v)' => attempts'[JobOf(v)'] > 0
             /\ Busy(v)' /\ pc'[v] # "load" => task'[v].attempt > 0
             /\ pc'[v] \in AtTile => task'[v].at \in DOMAIN TourOf(JobOf(v)')
  <2>1. Busy(v) => JobOf(v) \in Job /\ attempts[JobOf(v)] \in Nat
    BY DEF TypeOK
  <2>2. pc'[v] = pc[v] /\ task'[v] = task[v]
    BY <1>1
  <2>3. (Busy(v)' <=> Busy(v)) /\ JobOf(v)' = JobOf(v)
    BY <2>2 DEF Busy, JobOf
  <2>4. Busy(v) => attempts[JobOf(v)] > 0 /\ attempts'[JobOf(v)] \in Nat
    BY <2>1 DEF TaskFitsPosition
  <2>5. QED BY <2>1, <2>2, <2>3, <2>4 DEF TaskFitsPosition, TourOf
<1>2. QED BY <1>1 DEF TaskFitsPosition, TourOf

\* The loop position n of job j is a tile, unless the loop is over.
LEMMA LoopAtTile ==
  ASSUME NEW j \in Job, NEW n \in Nat \ {0}, LoopAt(j, n) \in AtTile
  PROVE  n \in DOMAIN TourOf(j)
BY JobData DEF LoopAt, AtTile

LEMMA FitsWorker ==
  ASSUME TypeOK, TaskFitsPosition, NEW w \in Workers, WorkerStep(w)
  PROVE  TaskFitsPosition'
<1> USE DEF jobVars, leaseVars, dataVars
<1>0. /\ pc \in [Workers -> PC] /\ task \in [Workers -> Task]
      /\ attempts \in [Job -> Nat]
      /\ Busy(w) => JobOf(w) \in Job /\ attempts[JobOf(w)] > 0
      /\ Busy(w) /\ pc[w] # "load" => task[w].attempt > 0
  BY DEF TypeOK, TaskFitsPosition
<1>1. CASE RecoverStale(w)
  <2>1. pc' = [pc EXCEPT ![w] = "poll"] /\ task' = task /\ attempts' = attempts
    BY <1>1 DEF RecoverStale, Goto
  <2>2. QED BY <1>0, <2>1, FitsLocal DEF Busy, AtTile
<1>2. ASSUME NEW j \in Job, Claim(w, j) PROVE TaskFitsPosition'
  <2>1. /\ pc' = [pc EXCEPT ![w] = "load"] /\ task' = [task EXCEPT ![w].job = j]
        /\ attempts' = [attempts EXCEPT ![j] = @ + 1]
    BY <1>2 DEF Claim, Goto
  <2>2. JobOf(w)' = j
    BY <1>0, <2>1 DEF JobOf, Task
  <2>3. attempts' \in [Job -> Nat] /\ attempts'[j] > 0
    BY <1>0, <2>1
  <2>4. \A k \in Job : attempts'[k] >= attempts[k]
    BY <1>0, <2>1
  <2>5. QED BY <1>0, <2>1, <2>2, <2>3, <2>4, FitsLocal DEF AtTile
<1>3. CASE NothingDue(w) \/ CompleteJob(w) \/ FailOrRetryJob(w)
  <2>1. pc' = [pc EXCEPT ![w] = "idle"] /\ task' = [task EXCEPT ![w] = NoTask]
        /\ attempts' = attempts
    BY <1>3 DEF NothingDue, CompleteJob, FailOrRetryJob, Return, Goto
  <2>2. QED BY <1>0, <2>1, FitsLocal DEF Busy, AtTile
<1>4. CASE Load(w)
  <2>1. Busy(w)
    BY <1>4 DEF Load, Busy
  <2>2. /\ attempts' = attempts
        /\ task' = [task EXCEPT ![w].attempt = attempts[JobOf(w)], ![w].at = 1]
        /\ pc' = [pc EXCEPT ![w] = IF JobOf(w).category \in Unmapped THEN "complete"
                                   ELSE LoopAt(JobOf(w), 1)]
    BY <1>4 DEF Load, Goto
  <2>3. /\ JobOf(w)' = JobOf(w) /\ task'[w].attempt = attempts[JobOf(w)]
        /\ task'[w].at = 1
    BY <1>0, <2>2 DEF JobOf, Task
  <2>4. pc'[w] \in AtTile => 1 \in DOMAIN TourOf(JobOf(w))
    BY <1>0, <2>1, <2>2, LoopAtTile DEF AtTile
  <2>5. QED BY <1>0, <2>1, <2>2, <2>3, <2>4, FitsLocal
<1>5. CASE SkipFreshTile(w) \/ SaveCoverage(w)
  <2>1. Busy(w) /\ pc[w] # "load" /\ pc[w] \in AtTile
    BY <1>5 DEF SkipFreshTile, SaveCoverage, Busy, AtTile
  <2>2. /\ attempts' = attempts /\ task' = [task EXCEPT ![w].at = task[w].at + 1]
        /\ pc' = [pc EXCEPT ![w] = LoopAt(JobOf(w), task[w].at + 1)]
    BY <1>5 DEF SkipFreshTile, SaveCoverage, Goto
  <2>3. /\ JobOf(w)' = JobOf(w) /\ task'[w].attempt = task[w].attempt
        /\ task'[w].at = task[w].at + 1 /\ task[w].at + 1 \in Nat \ {0}
    BY <1>0, <2>2 DEF JobOf, Task
  <2>4. pc'[w] \in AtTile => task'[w].at \in DOMAIN TourOf(JobOf(w))
    BY <1>0, <2>1, <2>2, <2>3, LoopAtTile
  <2>5. QED BY <1>0, <2>1, <2>2, <2>3, <2>4, FitsLocal
<1>6. ASSUME NEW l \in PC, pc[w] \in AtTile, l \in AtTile \cup {"fail"},
             pc' = [pc EXCEPT ![w] = l], attempts' = attempts,
             task' = task \/ (\E b \in BOOLEAN : task' = [task EXCEPT ![w].row = b])
               \/ (task' = [task EXCEPT ![w].failed = TRUE])
               \/ (\E s \in SUBSET Places : task' = [task EXCEPT ![w].seen = @ \cup s])
      PROVE  TaskFitsPosition'
  <2>1. Busy(w) /\ pc[w] # "load"
    BY <1>6 DEF Busy, AtTile
  <2>2. /\ JobOf(w)' = JobOf(w) /\ task'[w].attempt = task[w].attempt
        /\ task'[w].at = task[w].at
        /\ \A v \in Workers \ {w} : task'[v] = task[v]
    BY <1>0, <1>6 DEF JobOf, Task
  <2>3. task[w].at \in DOMAIN TourOf(JobOf(w))
    BY <1>6 DEF TaskFitsPosition
  <2>4. QED BY <1>0, <1>6, <2>1, <2>2, <2>3, FitsLocal
<1>7. CASE MissTile(w)
  BY <1>6, <1>7 DEF MissTile, Goto, AtTile
<1>8. CASE AcquireTileLease(w) \/ TileLeaseUnavailable(w)
  BY <1>6, <1>8 DEF AcquireTileLease, TileLeaseUnavailable, Goto, AtTile
<1>9. CASE CollectTile(w)
  <2>1. Filtered(w) \subseteq Places
    BY <1>0, <1>9, JobData DEF Filtered, CollectTile, Busy
  <2>2. QED BY <1>6, <1>9, <2>1 DEF CollectTile, Goto, AtTile
<1>10. CASE CollectTileFails(w)
  BY <1>6, <1>10 DEF CollectTileFails, Goto, AtTile
<1>11. CASE ReleaseTileLease(w)
  BY <1>6, <1>11 DEF ReleaseTileLease, Goto, AtTile
<1>12. CASE SaveCoverageConflicts(w)
  BY <1>6, <1>12 DEF SaveCoverageConflicts, Goto, AtTile
<1>13. QED
  BY <1>1, <1>2, <1>3, <1>4, <1>5, <1>7, <1>8, <1>9, <1>10, <1>11, <1>12
     DEF WorkerStep

LEMMA FitsFault ==
  ASSUME TypeOK, TaskFitsPosition, NEW w \in Workers, FaultStep(w)
  PROVE  TaskFitsPosition'
<1> USE DEF jobVars, leaseVars, dataVars
<1>0. /\ pc \in [Workers -> PC] /\ task \in [Workers -> Task]
      /\ attempts \in [Job -> Nat]
      /\ Busy(w) => JobOf(w) \in Job /\ attempts[JobOf(w)] > 0
      /\ Busy(w) /\ pc[w] # "load" => task[w].attempt > 0
  BY DEF TypeOK, TaskFitsPosition
<1>1. CASE Crash(w) \/ QueryErrorInLoop(w)
  <2>1. pc' = [pc EXCEPT ![w] = "idle"] /\ task' = [task EXCEPT ![w] = NoTask]
        /\ attempts' = attempts
    BY <1>1 DEF Crash, QueryErrorInLoop, Return, Goto
  <2>2. QED BY <1>0, <2>1, FitsLocal DEF Busy, AtTile
<1>2. CASE QueryErrorInJob(w) \/ ReplyLost(w)
  <2>1. Busy(w) /\ pc[w] # "load"
    BY <1>2 DEF QueryErrorInJob, ReplyLost, Busy
  <2>2. pc' = [pc EXCEPT ![w] = "fail"] /\ task' = task /\ attempts' = attempts
    BY <1>2 DEF QueryErrorInJob, ReplyLost, Goto
  <2>3. JobOf(w)' = JobOf(w)
    BY <2>2 DEF JobOf
  <2>4. QED BY <1>0, <2>1, <2>2, <2>3, FitsLocal DEF AtTile
<1>3. CASE UpsertError(w)
  <2>1. Busy(w) /\ pc[w] # "load" /\ task[w].at \in DOMAIN TourOf(JobOf(w))
    BY <1>3 DEF UpsertError, Busy, TaskFitsPosition, AtTile
  <2>2. /\ pc' = [pc EXCEPT ![w] = "release"] /\ attempts' = attempts
        /\ task' = [task EXCEPT ![w].failed = TRUE]
    BY <1>3 DEF UpsertError, Goto
  <2>3. /\ JobOf(w)' = JobOf(w) /\ task'[w].attempt = task[w].attempt
        /\ task'[w].at = task[w].at
    BY <1>0, <2>2 DEF JobOf, Task
  <2>4. QED BY <1>0, <2>1, <2>2, <2>3, FitsLocal
<1>4. QED BY <1>1, <1>2, <1>3 DEF FaultStep

-----------------------------------------------------------------------------
(* Jobs follow the location.                                               *)

\* A step that creates and deletes no row; whoever is busy afterwards was busy
\* with the same job, or holds a job with a row.
LEMMA JobsKept ==
  ASSUME TypeOK, JobsFollowLocation, version' = version, planned' = planned,
         \A j \in Job : status'[j] = "absent" <=> status[j] = "absent",
         \A v \in Workers : Busy(v)' =>
            \/ Busy(v) /\ JobOf(v)' = JobOf(v)
            \/ JobOf(v)' \in Job /\ status[JobOf(v)'] # "absent"
  PROVE  JobsFollowLocation'
<1>1. /\ \A j \in Job : status'[j] = "absent" <=> j.category \notin planned'[j.meeting][j.version]
      /\ \A j \in Job : j.version > version'[j.meeting] => planned'[j.meeting][j.version] = {}
  BY DEF JobsFollowLocation
<1>2. ASSUME NEW v \in Workers, Busy(v)' PROVE status'[JobOf(v)'] # "absent"
  <2>1. CASE Busy(v) /\ JobOf(v)' = JobOf(v)
    <3>1. JobOf(v) \in Job /\ status[JobOf(v)] # "absent"
      BY <2>1 DEF TypeOK, JobsFollowLocation
    <3>2. QED BY <2>1, <3>1
  <2>2. CASE JobOf(v)' \in Job /\ status[JobOf(v)'] # "absent"
    BY <2>2
  <2>3. QED BY <1>2, <2>1, <2>2
<1>3. QED BY <1>1, <1>2 DEF JobsFollowLocation

\* A job with a row belongs to a version the location has had.
LEMMA RowVersion ==
  ASSUME TypeOK, JobsFollowLocation, NEW j \in Job, status[j] # "absent"
  PROVE  /\ j.meeting \in Meetings /\ j.version \in Nat /\ version[j.meeting] \in Nat
         /\ j.version <= version[j.meeting]
<1>1. j.meeting \in Meetings /\ j.version \in Nat /\ version[j.meeting] \in Nat
  BY JobData, Bounds DEF TypeOK
<1>2. ~(j.version > version[j.meeting])
  BY DEF JobsFollowLocation
<1>3. QED BY <1>1, <1>2

\* A new location: no row of its version existed, the plan's rows do now.
LEMMA JobsSet ==
  ASSUME TypeOK, JobsFollowLocation, NEW m \in Meetings, NEW cats \in SUBSET Categories,
         version[m] + 1 \in 1..MaxVersion, LocationSet(m, version[m] + 1, cats),
         NEW j \in Job,
         status'[j] = "absent" <=> JobsCreated(m, version[m] + 1, cats)[j] = "absent"
  PROVE  /\ status'[j] = "absent" <=> j.category \notin planned'[j.meeting][j.version]
         /\ j.version > version'[j.meeting] => planned'[j.meeting][j.version] = {}
         /\ status[j] # "absent" => status'[j] # "absent"
<1> DEFINE v == version[m] + 1
           new == j.meeting = m /\ j.version = v
<1>1. /\ j.meeting \in Meetings /\ j.version \in 1..MaxVersion /\ j.version \in Nat
      /\ version[j.meeting] \in Nat /\ version[m] \in Nat
  BY JobData, Bounds DEF TypeOK
<1>2. /\ version'[j.meeting] = IF j.meeting = m THEN v ELSE version[j.meeting]
      /\ planned'[j.meeting][j.version] = IF new THEN cats ELSE planned[j.meeting][j.version]
  BY <1>1 DEF LocationSet, TypeOK
<1>3. /\ status[j] = "absent" <=> j.category \notin planned[j.meeting][j.version]
      /\ j.version > version[j.meeting] => planned[j.meeting][j.version] = {}
  BY DEF JobsFollowLocation
<1>4. JobsCreated(m, v, cats)[j] = IF new /\ j.category \in cats THEN "PENDING" ELSE status[j]
  BY DEF JobsCreated
<1>5. CASE new
  <2>1. status[j] = "absent"
    BY <1>1, <1>3, <1>5
  <2>2. QED BY <1>1, <1>2, <1>4, <1>5, <2>1
<1>6. CASE ~new
  <2>1. j.version > version'[j.meeting] => j.version > version[j.meeting]
    BY <1>1, <1>2
  <2>2. QED BY <1>2, <1>3, <1>4, <1>6, <2>1
<1>7. QED BY <1>5, <1>6

LEMMA JobsAPI ==
  ASSUME TypeOK, JobsFollowLocation, NEW m \in Meetings, MeetingStep(m)
  PROVE  JobsFollowLocation'
<1>1. UNCHANGED <<pc, task>>
  BY MeetingQuiet
<1>2. CASE UNCHANGED <<version, planned, status, age>>
  BY <1>1, <1>2, JobsKept DEF Busy, JobOf
<1>3. ASSUME version[m] + 1 \in 1..MaxVersion, NEW cats \in SUBSET Categories,
             LocationSet(m, version[m] + 1, cats),
             \/ status' = JobsCreated(m, version[m] + 1, cats)
             \/ UpdateLocation(m) /\ cats = plan[m]
      PROVE  JobsFollowLocation'
  <2>1. ASSUME NEW j \in Job
        PROVE  status'[j] = "absent" <=> JobsCreated(m, version[m] + 1, cats)[j] = "absent"
    <3>1. CASE UpdateLocation(m) /\ cats = plan[m]
      <4>1. j.version < version[m] + 1 => JobsCreated(m, version[m] + 1, cats)[j] = status[j]
        BY JobData, Bounds DEF JobsCreated, TypeOK
      <4>2. QED BY <3>1, <4>1 DEF UpdateLocation
    <3>2. QED BY <1>3, <3>1
  <2>2. \A j \in Job :
          /\ status'[j] = "absent" <=> j.category \notin planned'[j.meeting][j.version]
          /\ j.version > version'[j.meeting] => planned'[j.meeting][j.version] = {}
          /\ status[j] # "absent" => status'[j] # "absent"
    BY <1>3, <2>1, JobsSet
  <2>3. ASSUME NEW v \in Workers, Busy(v)' PROVE status'[JobOf(v)'] # "absent"
    <3>1. JobOf(v) \in Job /\ status[JobOf(v)] # "absent" /\ JobOf(v)' = JobOf(v)
      BY <1>1, <2>3 DEF TypeOK, JobsFollowLocation, Busy, JobOf
    <3>2. QED BY <2>2, <3>1
  <2>4. QED BY <2>2, <2>3 DEF JobsFollowLocation
<1>4. QED BY <1>2, <1>3, MeetingEffect

LEMMA JobsWorker ==
  ASSUME TypeOK, JobsFollowLocation, NEW w \in Workers, WorkerStep(w)
  PROVE  JobsFollowLocation'
<1> USE DEF meetingVars, jobVars, leaseVars, dataVars
<1>0. /\ pc \in [Workers -> PC] /\ task \in [Workers -> Task] /\ status \in [Job -> JobStatus]
      /\ Busy(w) => JobOf(w) \in Job /\ status[JobOf(w)] # "absent"
  BY DEF TypeOK, JobsFollowLocation
<1>1. CASE RecoverStale(w)
  <2>1. \A j \in Job : status'[j] = "absent" <=> status[j] = "absent"
    BY <1>0, <1>1 DEF RecoverStale, Stale
  <2>2. QED BY <1>0, <1>1, <2>1, JobsKept DEF RecoverStale, Goto, Busy, JobOf
<1>2. ASSUME NEW j \in Job, Claim(w, j) PROVE JobsFollowLocation'
  <2>1. \A k \in Job : status'[k] = "absent" <=> status[k] = "absent"
    BY <1>0, <1>2 DEF Claim, Due, SetStatus
  <2>2. JobOf(w)' = j /\ status[j] # "absent"
    BY <1>0, <1>2 DEF Claim, Due, JobOf, Task
  <2>3. \A v \in Workers \ {w} : JobOf(v)' = JobOf(v) /\ Busy(v)' = Busy(v)
    BY <1>0, <1>2 DEF Claim, Goto, JobOf, Busy
  <2>4. QED BY <1>2, <2>1, <2>2, <2>3, JobsKept DEF Claim
<1>3. ASSUME NEW s \in JobStatus \ {"absent"}, Busy(w), SetStatus(JobOf(w), s), Return(w),
             version' = version /\ planned' = planned
      PROVE  JobsFollowLocation'
  <2>1. \A j \in Job : status'[j] = "absent" <=> status[j] = "absent"
    BY <1>0, <1>3 DEF SetStatus
  <2>2. QED BY <1>0, <1>3, <2>1, JobsKept DEF Return, Goto, Busy, JobOf
<1>4. CASE CompleteJob(w)
  BY <1>3, <1>4 DEF CompleteJob, Busy
<1>5. CASE FailOrRetryJob(w)
  <2>1. (IF MayRetry(w) THEN "PENDING" ELSE "FAILED") \in JobStatus \ {"absent"}
    OBVIOUS
  <2>2. QED BY <1>3, <1>5, <2>1 DEF FailOrRetryJob, Busy
<1>6. CASE NothingDue(w)
  BY <1>0, <1>6, JobsKept DEF NothingDue, Return, Goto, Busy, JobOf
\* The steps inside processJob write no job row.
<1>7. ASSUME version' = version /\ planned' = planned, status' = status, Busy(w), NEW l \in PC,
             pc' = [pc EXCEPT ![w] = l], \A v \in Workers : task'[v].job = task[v].job
      PROVE  JobsFollowLocation'
  BY <1>0, <1>7, JobsKept DEF Busy, JobOf
<1>8. CASE Load(w)
  BY <1>0, <1>7, <1>8, LoopAtType DEF Load, Goto, Busy, Task
<1>9. CASE SkipFreshTile(w) \/ SaveCoverage(w)
  <2>1. CASE SkipFreshTile(w)
    BY <1>0, <1>7, <2>1, LoopAtType DEF SkipFreshTile, Goto, Busy, Task
  <2>2. CASE SaveCoverage(w)
    BY <1>0, <1>7, <2>2, LoopAtType DEF SaveCoverage, Goto, Busy, Task
  <2>3. QED BY <1>9, <2>1, <2>2
<1>10. CASE MissTile(w) \/ AcquireTileLease(w) \/ TileLeaseUnavailable(w)
  <2>1. CASE MissTile(w)
    BY <1>0, <1>7, <2>1 DEF MissTile, Goto, Busy, Task
  <2>2. CASE AcquireTileLease(w) \/ TileLeaseUnavailable(w)
    BY <1>0, <1>7, <2>2 DEF AcquireTileLease, TileLeaseUnavailable, Goto, Busy, Task
  <2>3. QED BY <1>10, <2>1, <2>2
<1>11. CASE CollectTile(w) \/ CollectTileFails(w)
  <2>1. CASE CollectTile(w)
    BY <1>0, <1>7, <2>1 DEF CollectTile, Goto, Busy, Task
  <2>2. CASE CollectTileFails(w)
    BY <1>0, <1>7, <2>2 DEF CollectTileFails, Goto, Busy, Task
  <2>3. QED BY <1>11, <2>1, <2>2
<1>12. CASE ReleaseTileLease(w) \/ SaveCoverageConflicts(w)
  BY <1>0, <1>7, <1>12 DEF ReleaseTileLease, SaveCoverageConflicts, Goto, Busy, Task
<1>13. QED
  BY <1>1, <1>2, <1>4, <1>5, <1>6, <1>8, <1>9, <1>10, <1>11, <1>12 DEF WorkerStep

LEMMA JobsFault ==
  ASSUME TypeOK, JobsFollowLocation, NEW w \in Workers, FaultStep(w)
  PROVE  JobsFollowLocation'
<1> USE DEF meetingVars, jobVars, leaseVars, dataVars
<1>0. /\ pc \in [Workers -> PC] /\ task \in [Workers -> Task] /\ status \in [Job -> JobStatus]
      /\ Busy(w) => JobOf(w) \in Job /\ status[JobOf(w)] # "absent"
  BY DEF TypeOK, JobsFollowLocation
<1>1. CASE Crash(w) \/ QueryErrorInLoop(w)
  BY <1>0, <1>1, JobsKept DEF Crash, QueryErrorInLoop, Return, Goto, Busy, JobOf
<1>2. CASE QueryErrorInJob(w) \/ UpsertError(w)
  BY <1>0, <1>2, JobsKept DEF QueryErrorInJob, UpsertError, Goto, Busy, JobOf, Task
<1>3. CASE ReplyLost(w)
  <2>1. Busy(w) /\ version' = version /\ planned' = planned /\ pc' = [pc EXCEPT ![w] = "fail"] /\ task' = task
    BY <1>3 DEF ReplyLost, Goto, Busy
  <2>2. \A j \in Job : status'[j] = "absent" <=> status[j] = "absent"
    BY <1>0, <1>3, <2>1 DEF ReplyLost, SetStatus
  <2>3. QED BY <1>0, <2>1, <2>2, JobsKept DEF Busy, JobOf
<1>4. QED BY <1>1, <1>2, <1>3 DEF FaultStep

-----------------------------------------------------------------------------
(* The three together are inductive.                                       *)

Consistent == TypeOK /\ TaskFitsPosition /\ JobsFollowLocation

LEMMA ConsistentInit == Init => Consistent
<1>1. Init => JobsFollowLocation
  BY JobData, Bounds DEF Init, JobsFollowLocation, Busy
<1>2. QED BY <1>1, TypeInit, FitsInit DEF Consistent

LEMMA ConsistentStep == Consistent /\ [Next]_vars => Consistent'
<1> SUFFICES ASSUME TypeOK, TaskFitsPosition, JobsFollowLocation, [Next]_vars
             PROVE  TypeOK' /\ TaskFitsPosition' /\ JobsFollowLocation'
  BY DEF Consistent
<1> USE DEF Consistent
<1>1. ASSUME NEW m \in Meetings, MeetingStep(m)
      PROVE  Consistent'
  BY <1>1, TypeAPI, FitsElsewhere, JobsAPI, MeetingQuiet
<1>2. ASSUME NEW w \in Workers, WorkerStep(w)
      PROVE  Consistent'
  BY <1>2, TypeWorker, FitsWorker, JobsWorker
<1>3. ASSUME NEW w \in Workers, FaultStep(w)
      PROVE  Consistent'
  BY <1>3, TypeFault, FitsFault, JobsFault
<1>4. CASE Tick
  <2>1. JobsFollowLocation'
    BY <1>4, JobsKept DEF Tick, meetingVars, Busy, JobOf
  <2>2. QED BY <1>4, <2>1, TypeTick, FitsElsewhere DEF Tick
<1>5. CASE UNCHANGED vars
  <2>1. JobsFollowLocation'
    BY <1>5, JobsKept DEF vars, meetingVars, jobVars, Busy, JobOf
  <2>2. TypeOK'
    BY <1>5 DEF TypeOK, vars, meetingVars, jobVars, leaseVars, dataVars, Busy, JobOf
  <2>3. QED BY <1>5, <2>1, <2>2, FitsElsewhere DEF vars, jobVars
<1>6. QED BY <1>1, <1>2, <1>3, <1>4, <1>5 DEF Next

\* Type correctness: every table and every worker's memory stays in its type,
\* for any number of workers and any interleaving of their steps and faults.
THEOREM TypeCorrect == Spec => []TypeOK
<1>1. Consistent => TypeOK
  BY DEF Consistent
<1>2. QED BY <1>1, ConsistentInit, ConsistentStep, PTL DEF Spec

-----------------------------------------------------------------------------
(***************************************************************************)
(* A completed job is covered: processJob reaches completeJob only past    *)
(* tiles whose coverage is fresh and whose provider answer was stored, and *)
(* neither is ever taken back.  No assumption on time is needed: the       *)
(* theorem holds with lost leases, crashes, lost replies and two workers   *)
(* on one job.                                                             *)
(***************************************************************************)

\* Coverage and answers only grow.
Grows ==
  /\ \A s \in Scope : coverage[s] = "fresh" => coverage'[s] = "fresh"
  /\ answered \subseteq answered'

Fresh == \A s \in Scope : coverage[s] = "fresh" => s \in answered

LEMMA TileScope ==
  ASSUME NEW j \in Job, NEW i \in DOMAIN TourOf(j)
  PROVE  <<j.category, TourOf(j)[i]>> \in Scope
BY JobData DEF Scope

LEMMA CollectedGrows ==
  ASSUME Grows, NEW j \in Job
  PROVE  /\ \A n \in Nat : CollectedBefore(j, n) => CollectedBefore(j, n)'
         /\ JobCovered(j) => JobCovered(j)'
<1>1. ASSUME NEW n, CollectedBefore(j, n) PROVE CollectedBefore(j, n)'
  BY <1>1, TileScope DEF CollectedBefore, Collected, Grows, TourOf
<1>2. QED BY <1>1 DEF JobCovered, TourOf

\* The loop position after n collected tiles: still inside the tour, or done.
LEMMA LoopAtCovered ==
  ASSUME NEW j \in Job, NEW n \in Nat \ {0}, CollectedBefore(j, n)
  PROVE  LoopAt(j, n) = "complete" => JobCovered(j)
<1>1. Len(TourOf(j)) \in Nat /\ DOMAIN TourOf(j) = 1..Len(TourOf(j))
  BY JobData
<1>2. QED BY <1>1 DEF LoopAt, JobCovered, CollectedBefore

\* One more collected tile.
LEMMA CollectedNext ==
  ASSUME NEW j \in Job, NEW n \in DOMAIN TourOf(j), CollectedBefore(j, n)',
         Collected(<<j.category, TourOf(j)[n]>>)'
  PROVE  /\ CollectedBefore(j, n + 1)'
         /\ LoopAt(j, n + 1) = "complete" => JobCovered(j)'
<1>1. Len(TourOf(j)) \in Nat /\ DOMAIN TourOf(j) = 1..Len(TourOf(j))
  BY JobData
<1>2. CollectedBefore(j, n + 1)'
  <2>1. ASSUME NEW i \in DOMAIN TourOf(j), i < n + 1
        PROVE  Collected(<<j.category, TourOf(j)[i]>>)'
    <3>1. i = n \/ i < n
      BY <1>1, <2>1
    <3>2. QED BY <3>1 DEF CollectedBefore, TourOf
  <2>2. QED BY <2>1 DEF CollectedBefore, TourOf
<1>3. QED BY <1>1, <1>2 DEF LoopAt, JobCovered, CollectedBefore, TourOf

\* A worker that does not move loses nothing it has established.
LEMMA PassedElsewhere ==
  ASSUME TypeOK, TaskFitsPosition, Grows, NEW v \in Workers, Passed(v),
         pc'[v] = pc[v], task'[v] = task[v]
  PROVE  Passed(v)'
<1>1. JobOf(v)' = JobOf(v) /\ ScopeOf(v)' = ScopeOf(v)
  BY DEF JobOf, ScopeOf, TourOf
<1>2. pc[v] \in AtTile \cup {"complete"} => JobOf(v) \in Job
  BY DEF TypeOK, Busy, AtTile
<1>3. pc[v] \in AtTile => task[v].at \in Nat
  BY DEF TypeOK, Task
<1>4. pc[v] = "save" \/ (pc[v] = "release" /\ ~task[v].failed)
        => ScopeOf(v) \in answered'
  BY DEF Passed, Grows
<1>5. pc[v] \in AtTile => CollectedBefore(JobOf(v), task[v].at)'
  BY <1>1, <1>2, <1>3, CollectedGrows DEF Passed
<1>6. pc[v] = "complete" => JobCovered(JobOf(v))'
  BY <1>1, <1>2, CollectedGrows DEF Passed
<1>7. QED BY <1>1, <1>4, <1>5, <1>6 DEF Passed, CollectedBefore, JobCovered, TourOf

\* A job newly completed is covered: so are all completed jobs.
LEMMA CompletedGrows ==
  ASSUME TypeOK, CompletedMeansCovered, Grows,
         \A j \in Job : status'[j] = "COMPLETED" => status[j] = "COMPLETED" \/ JobCovered(j)
  PROVE  CompletedMeansCovered'
BY CollectedGrows DEF CompletedMeansCovered

THEOREM CoverageInit == Init => CoverageInv
<1> SUFFICES ASSUME Init PROVE CoverageInv
  OBVIOUS
<1>1. Consistent
  BY ConsistentInit
<1>2. \A s \in Scope : coverage[s] # "fresh"
  BY DEF Init
<1>3. \A w \in Workers : Passed(w)
  BY DEF Init, Passed, AtTile
<1>4. CompletedMeansCovered
  BY DEF Init, CompletedMeansCovered
<1>5. QED BY <1>1, <1>2, <1>3, <1>4 DEF CoverageInv, Consistent

\* A step that moves no worker, touches no data row and completes no job.
LEMMA CoverageQuiet ==
  ASSUME CoverageInv, Consistent', UNCHANGED <<coverage, answered, pc, task>>,
         \A j \in Job : status'[j] = "COMPLETED" => status[j] = "COMPLETED"
  PROVE  CoverageInv'
<1>1. Grows
  BY DEF Grows
<1>2. \A v \in Workers : Passed(v)'
  BY <1>1, PassedElsewhere DEF CoverageInv
<1>3. CompletedMeansCovered'
  BY <1>1, CompletedGrows DEF CoverageInv
<1>4. QED BY <1>2, <1>3 DEF CoverageInv, Consistent

\* A step that moves only w: what is left to show.
LEMMA CoverageLocal ==
  ASSUME CoverageInv, Consistent', NEW w \in Workers,
         \A v \in Workers \ {w} : pc'[v] = pc[v] /\ task'[v] = task[v],
         Grows, Fresh', Passed(w)',
         \A j \in Job : status'[j] = "COMPLETED" => status[j] = "COMPLETED" \/ JobCovered(j)
  PROVE  CoverageInv'
<1>1. \A v \in Workers : Passed(v)'
  BY PassedElsewhere DEF CoverageInv
<1>2. CompletedMeansCovered'
  BY CompletedGrows DEF CoverageInv
<1>3. QED BY <1>1, <1>2 DEF CoverageInv, Fresh, Consistent

LEMMA CoverageWorker ==
  ASSUME CoverageInv, Consistent', NEW w \in Workers, WorkerStep(w)
  PROVE  CoverageInv'
<1> USE DEF meetingVars, jobVars, leaseVars, dataVars
<1>0. /\ pc \in [Workers -> PC] /\ task \in [Workers -> Task]
      /\ coverage \in [Scope -> CoverageState] /\ status \in [Job -> JobStatus]
      /\ Busy(w) => JobOf(w) \in Job
      /\ TypeOK /\ TaskFitsPosition /\ Fresh /\ Passed(w)
  BY DEF TypeOK, CoverageInv, Fresh
<1>t. ASSUME pc[w] \in AtTile
      PROVE  /\ JobOf(w) \in Job /\ ScopeOf(w) \in Scope
             /\ task[w].at \in DOMAIN TourOf(JobOf(w)) /\ task[w].at \in Nat \ {0}
             /\ CollectedBefore(JobOf(w), task[w].at)
  BY <1>0, <1>t, ScopeOfType, JobData DEF Passed
\* A step of w that leaves the data rows alone and completes no job.
<1>q. ASSUME UNCHANGED <<coverage, answered>>,
             \A v \in Workers \ {w} : pc'[v] = pc[v] /\ task'[v] = task[v],
             \A j \in Job : status'[j] = "COMPLETED" => status[j] = "COMPLETED" \/ JobCovered(j),
             Passed(w)'
      PROVE  CoverageInv'
  BY <1>0, <1>q, CoverageLocal DEF Grows, Fresh
<1>1. CASE RecoverStale(w)
  <2>1. Passed(w)'
    BY <1>0, <1>1 DEF RecoverStale, Goto, Passed, AtTile
  <2>2. QED BY <1>0, <1>1, <1>q, <2>1 DEF RecoverStale, Goto
<1>2. ASSUME NEW j \in Job, Claim(w, j) PROVE CoverageInv'
  <2>1. Passed(w)'
    BY <1>0, <1>2 DEF Claim, Goto, Passed, AtTile
  <2>2. QED BY <1>0, <1>2, <1>q, <2>1 DEF Claim, Goto, SetStatus
<1>3. CASE NothingDue(w)
  <2>1. Passed(w)'
    BY <1>0, <1>3 DEF NothingDue, Return, Goto, Passed, AtTile
  <2>2. QED BY <1>0, <1>3, <1>q, <2>1 DEF NothingDue, Return, Goto
<1>4. CASE Load(w)
  <2>1. JobOf(w) \in Job
    BY <1>0, <1>4 DEF Load, Busy
  <2>2. JobOf(w)' = JobOf(w) /\ task'[w].at = 1
    BY <1>0, <1>4 DEF Load, JobOf, Task
  <2>3. CollectedBefore(JobOf(w), 1)
    BY <2>1, JobData DEF CollectedBefore
  <2>4. pc'[w] = "complete" => JobCovered(JobOf(w))
    BY <1>0, <1>4, <2>1, <2>3, LoopAtCovered DEF Load, Goto, JobCovered
  <2>5. pc'[w] \in {"scan", "complete"}
    BY <1>0, <1>4 DEF Load, Goto, LoopAt
  <2>6. UNCHANGED <<coverage, answered, status>>
    BY <1>4 DEF Load
  <2>7. Passed(w)'
    BY <2>2, <2>3, <2>4, <2>5, <2>6 DEF Passed, CollectedBefore, JobCovered, Collected, TourOf
  <2>8. QED BY <1>0, <1>4, <1>q, <2>6, <2>7 DEF Load, Goto
\* A step of w on its tile: the collected prefix of the tour is kept.
<1>5. ASSUME pc[w] \in AtTile, NEW l \in AtTile \cup {"fail"}, pc' = [pc EXCEPT ![w] = l],
             \A v \in Workers \ {w} : task'[v] = task[v],
             task'[w].job = task[w].job, task'[w].at = task[w].at, Grows
      PROVE  /\ JobOf(w)' = JobOf(w) /\ ScopeOf(w)' = ScopeOf(w) /\ pc'[w] = l
             /\ CollectedBefore(JobOf(w), task[w].at)'
             /\ ((l = "save" \/ (l = "release" /\ ~task'[w].failed)) => ScopeOf(w) \in answered')
                  => Passed(w)'
  <2>1. JobOf(w)' = JobOf(w) /\ ScopeOf(w)' = ScopeOf(w) /\ pc'[w] = l
    BY <1>0, <1>5 DEF JobOf, ScopeOf, TourOf
  <2>2. CollectedBefore(JobOf(w), task[w].at)'
    BY <1>t, <1>5, <2>1, CollectedGrows
  <2>3. QED BY <2>1, <2>2 DEF Passed, AtTile
<1>6. CASE MissTile(w)
  <2>1. /\ pc[w] \in AtTile /\ pc' = [pc EXCEPT ![w] = "lease"]
        /\ \A v \in Workers \ {w} : task'[v] = task[v]
        /\ task'[w].job = task[w].job /\ task'[w].at = task[w].at
    BY <1>0, <1>6 DEF MissTile, Goto, AtTile, Task
  <2>2. UNCHANGED <<coverage, answered, status>> /\ Grows
    BY <1>6 DEF MissTile, Grows
  <2>3. Passed(w)'
    BY <1>5, <2>1, <2>2 DEF AtTile
  <2>4. QED BY <1>0, <1>q, <2>1, <2>2, <2>3
<1>7. CASE AcquireTileLease(w) \/ TileLeaseUnavailable(w) \/ SaveCoverageConflicts(w)
  <2>1. /\ pc[w] \in AtTile /\ task' = task
        /\ \/ pc' = [pc EXCEPT ![w] = "collect"]
           \/ pc' = [pc EXCEPT ![w] = "fail"]
    BY <1>0, <1>7
       DEF AcquireTileLease, TileLeaseUnavailable, SaveCoverageConflicts, Goto, AtTile
  <2>2. UNCHANGED <<coverage, answered, status>> /\ Grows
    BY <1>7 DEF AcquireTileLease, TileLeaseUnavailable, SaveCoverageConflicts, Grows
  <2>3. Passed(w)'
    BY <1>5, <2>1, <2>2 DEF AtTile
  <2>4. QED BY <1>0, <1>q, <2>1, <2>2, <2>3
<1>8. CASE CollectTile(w)
  <2>1. /\ pc[w] \in AtTile /\ pc' = [pc EXCEPT ![w] = "release"]
        /\ \A v \in Workers \ {w} : task'[v] = task[v]
        /\ task'[w].job = task[w].job /\ task'[w].at = task[w].at
    BY <1>0, <1>8 DEF CollectTile, Goto, AtTile, Task
  <2>2. Grows /\ Fresh' /\ ScopeOf(w) \in answered' /\ status' = status
    BY <1>0, <1>8 DEF CollectTile, Grows, Fresh
  <2>3. Passed(w)'
    BY <1>5, <2>1, <2>2 DEF AtTile
  <2>4. QED BY <1>0, <2>1, <2>2, <2>3, CoverageLocal
<1>9. CASE CollectTileFails(w)
  <2>1. /\ pc[w] \in AtTile /\ pc' = [pc EXCEPT ![w] = "release"]
        /\ \A v \in Workers \ {w} : task'[v] = task[v]
        /\ task'[w].job = task[w].job /\ task'[w].at = task[w].at /\ task'[w].failed
    BY <1>0, <1>9 DEF CollectTileFails, Goto, AtTile, Task
  <2>2. UNCHANGED <<coverage, answered, status>> /\ Grows
    BY <1>9 DEF CollectTileFails, Grows
  <2>3. Passed(w)'
    BY <1>5, <2>1, <2>2 DEF AtTile
  <2>4. QED BY <1>0, <1>q, <2>1, <2>2, <2>3
<1>10. CASE ReleaseTileLease(w)
  <2>1. /\ pc[w] \in AtTile /\ task' = task
        /\ pc' = [pc EXCEPT ![w] = IF task[w].failed THEN "fail" ELSE "save"]
    BY <1>10 DEF ReleaseTileLease, Goto, AtTile
  <2>2. UNCHANGED <<coverage, answered, status>> /\ Grows
    BY <1>10 DEF ReleaseTileLease, Grows
  <2>3. ~task[w].failed => ScopeOf(w) \in answered
    BY <1>0, <1>10 DEF Passed, ReleaseTileLease
  <2>4. Passed(w)'
    <3>1. CASE task[w].failed
      BY <1>5, <2>1, <2>2, <3>1 DEF AtTile
    <3>2. CASE ~task[w].failed
      BY <1>5, <2>1, <2>2, <2>3, <3>2 DEF AtTile
    <3>3. QED BY <3>1, <3>2
  <2>5. QED BY <1>0, <1>q, <2>1, <2>2, <2>4
\* The tile of w is collected: w goes on to the next one.
<1>11. ASSUME pc[w] \in AtTile, coverage'[ScopeOf(w)] = "fresh" /\ ScopeOf(w) \in answered',
              Grows, Fresh', status' = status,
              task' = [task EXCEPT ![w].at = @ + 1],
              pc' = [pc EXCEPT ![w] = LoopAt(JobOf(w), task[w].at + 1)]
       PROVE  CoverageInv'
  <2>1. /\ JobOf(w)' = JobOf(w) /\ task'[w].at = task[w].at + 1
        /\ \A v \in Workers \ {w} : pc'[v] = pc[v] /\ task'[v] = task[v]
    BY <1>0, <1>11 DEF JobOf, Task
  <2>2. PICK j \in Job, n \in Nat : j = JobOf(w) /\ n = task[w].at /\ n \in DOMAIN TourOf(j)
    BY <1>t, <1>11
  <2>3. CollectedBefore(j, n)' /\ Collected(<<j.category, TourOf(j)[n]>>)'
    <3>1. n \in Nat /\ CollectedBefore(j, n)
      BY <1>t, <1>11, <2>2
    <3>2. ScopeOf(w) = <<j.category, TourOf(j)[n]>>
      BY <2>2 DEF ScopeOf
    <3>3. QED BY <1>11, <3>1, <3>2, CollectedGrows DEF Collected, TourOf
  <2>4. pc'[w] = LoopAt(j, n + 1) /\ pc'[w] \in {"scan", "complete"}
    BY <1>0, <1>11, <2>2 DEF LoopAt
  <2>5. Passed(w)'
    BY <2>1, <2>2, <2>3, <2>4, CollectedNext DEF Passed
  <2>6. QED BY <1>0, <1>11, <2>1, <2>5, CoverageLocal
<1>12. CASE SkipFreshTile(w)
  <2>1. pc[w] \in AtTile /\ Collected(ScopeOf(w))
    BY <1>0, <1>t, <1>12 DEF SkipFreshTile, AtTile, Collected, Fresh
  <2>2. UNCHANGED <<coverage, answered, status>> /\ Grows /\ Fresh'
    BY <1>0, <1>12 DEF SkipFreshTile, Grows, Fresh
  <2>3. coverage'[ScopeOf(w)] = "fresh" /\ ScopeOf(w) \in answered'
    BY <2>1, <2>2 DEF Collected
  <2>4. QED BY <1>11, <1>12, <2>1, <2>2, <2>3 DEF SkipFreshTile, Goto
<1>13. CASE SaveCoverage(w)
  <2>1. pc[w] \in AtTile /\ ScopeOf(w) \in Scope /\ ScopeOf(w) \in answered
    BY <1>0, <1>t, <1>13 DEF SaveCoverage, AtTile, Passed
  <2>2. coverage' = [coverage EXCEPT ![ScopeOf(w)] = "fresh"] /\ UNCHANGED <<answered, status>>
    BY <1>13 DEF SaveCoverage
  <2>3. Grows /\ Fresh' /\ coverage'[ScopeOf(w)] = "fresh" /\ ScopeOf(w) \in answered'
    BY <1>0, <2>1, <2>2 DEF Grows, Fresh, Collected
  <2>4. QED BY <1>11, <1>13, <2>1, <2>2, <2>3 DEF SaveCoverage, Goto
<1>14. CASE CompleteJob(w)
  <2>1. JobOf(w) \in Job /\ JobCovered(JobOf(w))
    BY <1>0, <1>14 DEF CompleteJob, Busy, Passed
  <2>2. Passed(w)'
    BY <1>0, <1>14 DEF CompleteJob, Return, Goto, Passed, AtTile
  <2>3. \A j \in Job : status'[j] = "COMPLETED" => status[j] = "COMPLETED" \/ JobCovered(j)
    BY <1>0, <1>14, <2>1 DEF CompleteJob, SetStatus
  <2>4. QED BY <1>0, <1>14, <1>q, <2>2, <2>3 DEF CompleteJob, Return, Goto
<1>15. CASE FailOrRetryJob(w)
  <2>1. Passed(w)'
    BY <1>0, <1>15 DEF FailOrRetryJob, Return, Goto, Passed, AtTile
  <2>2. \A j \in Job : status'[j] = "COMPLETED" => status[j] = "COMPLETED"
    BY <1>0, <1>15 DEF FailOrRetryJob, SetStatus
  <2>3. QED BY <1>0, <1>15, <1>q, <2>1, <2>2 DEF FailOrRetryJob, Return, Goto
<1>16. QED
  BY <1>1, <1>2, <1>3, <1>4, <1>6, <1>7, <1>8, <1>9, <1>10, <1>12, <1>13, <1>14, <1>15
     DEF WorkerStep

LEMMA CoverageFault ==
  ASSUME CoverageInv, Consistent', NEW w \in Workers, FaultStep(w)
  PROVE  CoverageInv'
<1> USE DEF meetingVars, jobVars, leaseVars, dataVars
<1>0. /\ pc \in [Workers -> PC] /\ task \in [Workers -> Task]
      /\ coverage \in [Scope -> CoverageState] /\ status \in [Job -> JobStatus]
      /\ Busy(w) => JobOf(w) \in Job
      /\ TypeOK /\ TaskFitsPosition /\ Fresh /\ Passed(w)
  BY DEF TypeOK, CoverageInv, Fresh
<1>1. CASE Crash(w) \/ QueryErrorInLoop(w)
  <2>1. /\ pc' = [pc EXCEPT ![w] = "idle"] /\ task' = [task EXCEPT ![w] = NoTask]
        /\ UNCHANGED <<status, coverage, answered>>
    BY <1>1 DEF Crash, QueryErrorInLoop, Return, Goto
  <2>2. Passed(w)'
    BY <1>0, <2>1 DEF Passed, AtTile
  <2>3. Grows /\ Fresh'
    BY <1>0, <2>1 DEF Grows, Fresh
  <2>4. QED BY <1>0, <2>1, <2>2, <2>3, CoverageLocal
<1>2. CASE QueryErrorInJob(w)
  <2>1. /\ pc' = [pc EXCEPT ![w] = "fail"] /\ task' = task
        /\ UNCHANGED <<status, coverage, answered>>
    BY <1>2 DEF QueryErrorInJob, Goto
  <2>2. Passed(w)'
    BY <1>0, <2>1 DEF Passed, AtTile
  <2>3. Grows /\ Fresh'
    BY <1>0, <2>1 DEF Grows, Fresh
  <2>4. QED BY <1>0, <2>1, <2>2, <2>3, CoverageLocal
<1>3. CASE UpsertError(w)
  <2>1. /\ pc' = [pc EXCEPT ![w] = "release"] /\ task' = [task EXCEPT ![w].failed = TRUE]
        /\ UNCHANGED <<status, coverage, answered>> /\ pc[w] = "collect"
    BY <1>3 DEF UpsertError, Goto
  <2>2. Grows /\ Fresh'
    BY <1>0, <2>1 DEF Grows, Fresh
  <2>3. PICK j \in Job, n \in Nat : j = JobOf(w) /\ n = task[w].at /\ CollectedBefore(j, n)
    BY <1>0, <2>1, ScopeOfType, JobData DEF Passed, AtTile
  <2>4. CollectedBefore(j, n)'
    BY <2>2, <2>3, CollectedGrows
  <2>5. JobOf(w)' = j /\ task'[w].at = n /\ pc'[w] = "release" /\ task'[w].failed
    BY <1>0, <2>1, <2>3 DEF JobOf, Task
  <2>6. Passed(w)'
    BY <2>4, <2>5 DEF Passed
  <2>7. QED BY <1>0, <2>1, <2>2, <2>6, CoverageLocal
<1>4. CASE ReplyLost(w)
  <2>1. pc' = [pc EXCEPT ![w] = "fail"] /\ task' = task /\ answered' = answered
    BY <1>4 DEF ReplyLost, Goto
  <2>2. Passed(w)'
    BY <1>0, <2>1 DEF Passed, AtTile
  <2>3. \/ coverage' = coverage
        \/ coverage' = [coverage EXCEPT ![ScopeOf(w)] = "fresh"] /\ pc[w] = "save"
    BY <1>4 DEF ReplyLost
  <2>4. Grows /\ Fresh'
    BY <1>0, <2>1, <2>3 DEF Grows, Fresh, Passed
  <2>5. \A j \in Job : status'[j] = "COMPLETED" => status[j] = "COMPLETED" \/ JobCovered(j)
    <3>1. status' = status \/ (pc[w] = "complete" /\ SetStatus(JobOf(w), "COMPLETED"))
      BY <1>4 DEF ReplyLost
    <3>2. pc[w] = "complete" => JobCovered(JobOf(w))
      BY <1>0 DEF Passed
    <3>3. QED BY <1>0, <3>1, <3>2 DEF SetStatus
  <2>6. QED BY <1>0, <2>1, <2>2, <2>4, <2>5, CoverageLocal
<1>5. QED BY <1>1, <1>2, <1>3, <1>4 DEF FaultStep

LEMMA CoverageStep == CoverageInv /\ [Next]_vars => CoverageInv'
<1> SUFFICES ASSUME CoverageInv, [Next]_vars PROVE CoverageInv'
  OBVIOUS
<1>0. Consistent' /\ TypeOK /\ status \in [Job -> JobStatus]
  BY ConsistentStep DEF CoverageInv, TypeOK, Consistent
<1>1. ASSUME NEW m \in Meetings, MeetingStep(m) PROVE CoverageInv'
  <2>1. \A j \in Job : status'[j] = "COMPLETED" => status[j] = "COMPLETED"
    <3>1. CASE UpdateLocation(m)
      BY <1>0, <3>1 DEF UpdateLocation, JobsCreated
    <3>2. QED BY <1>0, <1>1, <3>1, MeetingEffect DEF JobsCreated
  <2>2. QED BY <1>0, <1>1, <2>1, CoverageQuiet, MeetingQuiet DEF dataVars
<1>2. ASSUME NEW w \in Workers, WorkerStep(w) PROVE CoverageInv'
  BY <1>0, <1>2, CoverageWorker
<1>3. ASSUME NEW w \in Workers, FaultStep(w) PROVE CoverageInv'
  BY <1>0, <1>3, CoverageFault
<1>4. CASE Tick
  BY <1>0, <1>4, CoverageQuiet DEF Tick, dataVars
<1>5. CASE UNCHANGED vars
  BY <1>0, <1>5, CoverageQuiet DEF vars, jobVars, dataVars
<1>6. QED BY <1>1, <1>2, <1>3, <1>4, <1>5 DEF Next

\* Whatever interleaving, crash, lost lease or retry happens: a COMPLETED job has
\* fresh coverage and a stored answer for every tile of its circle.
THEOREM CompletedCovered == Spec => []CompletedMeansCovered
<1>1. CoverageInv => CompletedMeansCovered
  BY DEF CoverageInv
<1>2. QED BY <1>1, CoverageInit, CoverageStep, PTL DEF Spec

\* The inductive invariant itself, as the runs check it.
THEOREM CoverageHolds == Spec => []CoverageInv
BY CoverageInit, CoverageStep, PTL DEF Spec

\* Nothing takes the coverage of a job back.
LEMMA JobStaysCovered ==
  ASSUME CoverageInv, [Next]_vars, NEW j \in Job, JobCovered(j)
  PROVE  JobCovered(j)'
<1>0. TypeOK /\ (\A s \in Scope : coverage[s] \in CoverageState)
  BY DEF CoverageInv, TypeOK
<1>1. ASSUME NEW w \in Workers, WorkerStep(w) PROVE Grows
  BY <1>0, <1>1 DEF WorkerStep, RecoverStale, Claim, NothingDue, Load, SkipFreshTile,
     MissTile, AcquireTileLease, TileLeaseUnavailable, CollectTile, CollectTileFails,
     ReleaseTileLease, SaveCoverage, SaveCoverageConflicts, CompleteJob, FailOrRetryJob,
     dataVars, Grows, TypeOK
<1>2. ASSUME NEW w \in Workers, FaultStep(w) PROVE Grows
  BY <1>0, <1>2 DEF FaultStep, Crash, QueryErrorInLoop, QueryErrorInJob, UpsertError,
     ReplyLost, dataVars, Grows, TypeOK
<1>3. ASSUME NEW m \in Meetings, MeetingStep(m) PROVE Grows
  BY <1>3, MeetingQuiet DEF dataVars, Grows
<1>4. Tick \/ UNCHANGED vars => Grows
  BY DEF Tick, vars, dataVars, Grows
<1>5. Grows
  BY <1>1, <1>2, <1>3, <1>4 DEF Next
<1>6. QED BY <1>5, CollectedGrows

\* READY for a version of the location: its tiles are all collected, for every
\* category of the plan it was set under, and there is one.
LEMMA ReadyCovered ==
  ASSUME CoverageInv, NEW m \in Meetings, NEW v \in 1..MaxVersion,
         StatusOfVersion(m, v) = "READY"
  PROVE  /\ planned[m][v] # {}
         /\ \A c \in planned[m][v] :
              JobCovered([meeting |-> m, version |-> v, category |-> c])
<1> DEFINE rows == {k \in Job : k.meeting = m /\ k.version = v /\ status[k] # "absent"}
           found == {status[k] : k \in rows}
<1>1. found = {"COMPLETED"}
  BY DEF StatusOfVersion
<1>2. planned[m][v] # {}
  <2>1. PICK k \in rows : status[k] = "COMPLETED"
    BY <1>1
  <2>2. QED BY <2>1 DEF CoverageInv, JobsFollowLocation
<1>3. ASSUME NEW c \in planned[m][v]
      PROVE  JobCovered([meeting |-> m, version |-> v, category |-> c])
  <2> DEFINE j == [meeting |-> m, version |-> v, category |-> c]
  <2>1. j \in Job /\ j.meeting = m /\ j.version = v /\ j.category = c
    <3>1. c \in Categories
      BY DEF CoverageInv, TypeOK
    <3>2. QED BY <3>1 DEF Job
  <2>2. status[j] # "absent"
    BY <2>1 DEF CoverageInv, JobsFollowLocation
  <2>3. status[j] = "COMPLETED"
    BY <1>1, <2>1, <2>2
  <2>4. QED BY <2>1, <2>3 DEF CoverageInv, CompletedMeansCovered
<1>4. QED BY <1>2, <1>3
=============================================================================
