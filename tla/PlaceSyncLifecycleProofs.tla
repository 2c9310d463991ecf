---------------------- MODULE PlaceSyncLifecycleProofs ----------------------
(***************************************************************************)
(* Who may write a job row.  First: a job is processed by one worker at a  *)
(* time.  Then: every write is that worker's, which is why the queue       *)
(* implements JobLifecycle and the attempts are bounded.                   *)
(***************************************************************************)
EXTENDS PlaceSyncProofs

-----------------------------------------------------------------------------
(***************************************************************************)
(* A job is processed by one worker at a time, as long as no job outlives  *)
(* the stale deadline while its worker is alive (Prompt).  A claimed job   *)
(* is never PENDING, so nobody claims it; it is not stale, so nobody       *)
(* recovers it; and whoever gives it up forgets it in the same step.       *)
(***************************************************************************)

\* What Claimed says of the job of worker v.
Held(v) ==
  Busy(v) => /\ status[JobOf(v)] \in {"RUNNING", "COMPLETED", "FAILED"}
             /\ status[JobOf(v)] = "RUNNING" => age[JobOf(v)] <= StaleAfter

\* A step after which nobody holds a job he did not hold before.
LEMMA ClaimedKept ==
  ASSUME Claimed, Consistent',
         \A v \in Workers : Busy(v)' => Busy(v) /\ JobOf(v)' = JobOf(v) /\ Held(v)'
  PROVE  Claimed'
<1>1. OneWorkerPerJob'
  BY DEF OneWorkerPerJob, Claimed
<1>2. QED BY <1>1 DEF Claimed, Consistent, Held

\* A step that writes the row of no job but k, where nobody else holds k.
LEMMA HeldElsewhere ==
  ASSUME Claimed, NEW k, NEW v \in Workers, Busy(v), JobOf(v) # k,
         \A j \in Job \ {k} : status'[j] = status[j] /\ age'[j] = age[j],
         pc'[v] = pc[v], task'[v] = task[v]
  PROVE  Busy(v) /\ JobOf(v)' = JobOf(v) /\ Held(v)'
<1>1. JobOf(v)' = JobOf(v) /\ JobOf(v) \in Job \ {k}
  BY DEF JobOf, Claimed, TypeOK
<1>2. QED BY <1>1 DEF Claimed, Held, Busy

LEMMA ClaimedInit == Init => Claimed
<1>1. Init => Consistent
  BY ConsistentInit
<1>2. QED BY <1>1 DEF Init, Claimed, Consistent, OneWorkerPerJob, Busy

LEMMA ClaimedAPI ==
  ASSUME Claimed, Consistent', NEW m \in Meetings, MeetingStep(m)
  PROVE  Claimed'
<1>1. ASSUME NEW v \in Workers, Busy(v)'
      PROVE  Busy(v) /\ JobOf(v)' = JobOf(v) /\ Held(v)'
  <2>1. pc' = pc /\ task' = task /\ TypeOK /\ JobsFollowLocation
    BY MeetingQuiet DEF Claimed
  <2>2. Busy(v) /\ JobOf(v)' = JobOf(v)
    BY <1>1, <2>1 DEF Busy, JobOf
  <2>3. PICK j \in Job : j = JobOf(v)
    BY <2>2 DEF Claimed, TypeOK
  <2>4. status[j] \in {"RUNNING", "COMPLETED", "FAILED"}
        /\ (status[j] = "RUNNING" => age[j] <= StaleAfter)
    BY <2>2, <2>3 DEF Claimed
  <2>5. ~(j.meeting = m /\ j.version = version[m] + 1)
    BY <2>1, <2>4, RowVersion
  <2>6. \/ status'[j] = status[j] /\ age'[j] = age[j]
        \/ status'[j] = "FAILED"
    <3>1. CASE UpdateLocation(m)
      BY <2>5, <3>1 DEF UpdateLocation, JobsCreated
    <3>2. QED BY <2>1, <2>5, <3>1, MeetingEffect DEF JobsCreated
  <2>7. QED BY <2>2, <2>3, <2>4, <2>6 DEF Held
<1>2. QED BY <1>1, ClaimedKept

LEMMA ClaimedWorker ==
  ASSUME Claimed, Consistent', NEW w \in Workers, WorkerStep(w)
  PROVE  Claimed'
<1> USE DEF meetingVars, jobVars, leaseVars, dataVars
<1>t. pc \in [Workers -> PC] /\ task \in [Workers -> Task]
  BY DEF Claimed, TypeOK
<1>0. /\ pc \in [Workers -> PC] /\ task \in [Workers -> Task] /\ status \in [Job -> JobStatus]
      /\ age \in [Job -> 0..(StaleAfter + 1)]
      /\ \A v \in Workers : Held(v) /\ (Busy(v) => JobOf(v) \in Job)
  BY DEF Claimed, TypeOK, Held
<1>1. CASE RecoverStale(w)
  <2>1. ASSUME NEW v \in Workers, Busy(v)'
        PROVE  Busy(v) /\ JobOf(v)' = JobOf(v) /\ Held(v)'
    <3>1. Busy(v) /\ JobOf(v)' = JobOf(v)
      BY <1>0, <1>1, <2>1 DEF RecoverStale, Goto, Busy, JobOf
    <3>2. ~Stale(JobOf(v))
      BY <1>0, <3>1, Bounds DEF Held, Stale
    <3>3. QED BY <1>0, <1>1, <3>1, <3>2 DEF RecoverStale, Held
  <2>2. QED BY <2>1, ClaimedKept
<1>2. ASSUME NEW j \in Job, Claim(w, j) PROVE Claimed'
  <2>1. /\ pc' = [pc EXCEPT ![w] = "load"] /\ task' = [task EXCEPT ![w].job = j]
        /\ SetStatus(j, "RUNNING") /\ status[j] = "PENDING"
    BY <1>2 DEF Claim, Goto, Due
  <2>2. JobOf(w)' = j /\ Held(w)'
    BY <1>0, <2>1, Bounds DEF SetStatus, JobOf, Held, Task
  <2>3. ASSUME NEW v \in Workers \ {w}, Busy(v)'
        PROVE  Busy(v) /\ JobOf(v)' = JobOf(v) /\ Held(v)' /\ JobOf(v) # j
    <3>1. pc'[v] = pc[v] /\ task'[v] = task[v] /\ Busy(v)
      BY <1>0, <2>1, <2>3 DEF Busy
    <3>2. JobOf(v) # j
      BY <1>0, <2>1, <3>1 DEF Held
    <3>3. \A i \in Job \ {j} : status'[i] = status[i] /\ age'[i] = age[i]
      BY <1>0, <2>1 DEF SetStatus
    <3>4. QED BY <3>1, <3>2, <3>3, HeldElsewhere
  <2>4. OneWorkerPerJob'
    <3> SUFFICES ASSUME NEW u \in Workers, NEW v \in Workers, u # v, Busy(u)', Busy(v)'
                 PROVE  JobOf(u)' # JobOf(v)'
      BY DEF OneWorkerPerJob
    <3>1. CASE u = w
      BY <2>2, <2>3, <3>1
    <3>2. CASE v = w
      BY <2>2, <2>3, <3>2
    <3>3. CASE u # w /\ v # w
      BY <2>3, <3>3 DEF Claimed, OneWorkerPerJob
    <3>4. QED BY <3>1, <3>2, <3>3
  <2>5. QED BY <2>2, <2>3, <2>4 DEF Claimed, Consistent, Held
\* w gives its job up and writes its row, or returns without a job.
<1>3. ASSUME Return(w), NEW k, \A v \in Workers \ {w} : Busy(v) => JobOf(v) # k,
             \A i \in Job \ {k} : status'[i] = status[i] /\ age'[i] = age[i]
      PROVE  Claimed'
  <2>1. ~Busy(w)'
    BY <1>0, <1>3 DEF Return, Goto, Busy
  <2>2. ASSUME NEW v \in Workers \ {w}, Busy(v)'
        PROVE  Busy(v) /\ JobOf(v)' = JobOf(v) /\ Held(v)'
    <3>1. pc'[v] = pc[v] /\ task'[v] = task[v] /\ Busy(v)
      BY <1>0, <1>3, <2>2 DEF Return, Goto, Busy
    <3>2. QED BY <1>3, <3>1, HeldElsewhere
  <2>3. QED BY <2>1, <2>2, ClaimedKept
<1>4. CASE NothingDue(w)
  BY <1>0, <1>3, <1>4, NullAssumption DEF NothingDue
<1>5. CASE CompleteJob(w) \/ FailOrRetryJob(w)
  <2>1. Busy(w) /\ Return(w) /\ \E s : SetStatus(JobOf(w), s)
    BY <1>5 DEF CompleteJob, FailOrRetryJob, Busy
  <2>2. \A v \in Workers \ {w} : Busy(v) => JobOf(v) # JobOf(w)
    BY <2>1 DEF Claimed, OneWorkerPerJob
  <2>3. \A i \in Job \ {JobOf(w)} : status'[i] = status[i] /\ age'[i] = age[i]
    BY <1>0, <2>1 DEF SetStatus
  <2>4. QED BY <1>3, <2>1, <2>2, <2>3
\* The steps inside processJob write no job row.
<1>6. ASSUME status' = status, age' = age, Busy(w),
             \A v \in Workers \ {w} : pc'[v] = pc[v],
             \A v \in Workers : task'[v].job = task[v].job
      PROVE  Claimed'
  <2>1. ASSUME NEW v \in Workers, Busy(v)'
        PROVE  Busy(v) /\ JobOf(v)' = JobOf(v) /\ Held(v)'
    <3>1. Busy(v) /\ JobOf(v)' = JobOf(v)
      BY <1>0, <1>6, <2>1 DEF Busy, JobOf
    <3>2. QED BY <1>0, <1>6, <3>1 DEF Held
  <2>2. QED BY <2>1, ClaimedKept
\* Each of those steps is one of these; the disjunction is split once.
<1>7. ASSUME \/ Load(w) \/ SkipFreshTile(w) \/ MissTile(w) \/ AcquireTileLease(w)
             \/ TileLeaseUnavailable(w) \/ CollectTile(w) \/ CollectTileFails(w)
             \/ ReleaseTileLease(w) \/ SaveCoverage(w) \/ SaveCoverageConflicts(w)
      PROVE  Claimed'
  <2>1. status' = status /\ age' = age /\ Busy(w)
    BY <1>7 DEF Load, SkipFreshTile, MissTile, AcquireTileLease, TileLeaseUnavailable,
       CollectTile, CollectTileFails, ReleaseTileLease, SaveCoverage,
       SaveCoverageConflicts, Busy
  <2>2. \A v \in Workers \ {w} : pc'[v] = pc[v]
    BY <1>t, <1>7 DEF Load, SkipFreshTile, MissTile, AcquireTileLease,
       TileLeaseUnavailable, CollectTile, CollectTileFails, ReleaseTileLease,
       SaveCoverage, SaveCoverageConflicts, Goto
  <2>3. \A v \in Workers : task'[v].job = task[v].job
    BY <1>t, <1>7 DEF Load, SkipFreshTile, MissTile, AcquireTileLease,
       TileLeaseUnavailable, CollectTile, CollectTileFails, ReleaseTileLease,
       SaveCoverage, SaveCoverageConflicts, Task
  <2>4. QED BY <1>6, <2>1, <2>2, <2>3
<1>8. QED
  BY <1>1, <1>2, <1>4, <1>5, <1>7 DEF WorkerStep

LEMMA ClaimedFault ==
  ASSUME Claimed, Consistent', NEW w \in Workers, FaultStep(w)
  PROVE  Claimed'
<1> USE DEF meetingVars, jobVars, leaseVars, dataVars
<1>0. /\ pc \in [Workers -> PC] /\ task \in [Workers -> Task] /\ status \in [Job -> JobStatus]
      /\ age \in [Job -> 0..(StaleAfter + 1)]
      /\ \A v \in Workers : Held(v) /\ (Busy(v) => JobOf(v) \in Job)
  BY DEF Claimed, TypeOK, Held
<1>1. ASSUME UNCHANGED <<status, age>>, NEW v \in Workers, Busy(v), JobOf(v)' = JobOf(v)
      PROVE  Held(v)'
  BY <1>0, <1>1 DEF Held
<1>2. CASE Crash(w) \/ QueryErrorInLoop(w)
  <2>1. ASSUME NEW v \in Workers, Busy(v)'
        PROVE  Busy(v) /\ JobOf(v)' = JobOf(v)
    BY <1>0, <1>2, <2>1 DEF Crash, QueryErrorInLoop, Return, Goto, Busy, JobOf
  <2>2. UNCHANGED <<status, age>>
    BY <1>2 DEF Crash, QueryErrorInLoop
  <2>3. QED BY <1>1, <2>1, <2>2, ClaimedKept
<1>3. CASE QueryErrorInJob(w) \/ UpsertError(w)
  <2>1. ASSUME NEW v \in Workers, Busy(v)'
        PROVE  Busy(v) /\ JobOf(v)' = JobOf(v)
    BY <1>0, <1>3, <2>1 DEF QueryErrorInJob, UpsertError, Goto, Busy, JobOf, Task
  <2>2. UNCHANGED <<status, age>>
    BY <1>3 DEF QueryErrorInJob, UpsertError
  <2>3. QED BY <1>1, <2>1, <2>2, ClaimedKept
<1>4. CASE ReplyLost(w)
  <2>1. ASSUME NEW v \in Workers, Busy(v)'
        PROVE  Busy(v) /\ JobOf(v)' = JobOf(v)
    BY <1>0, <1>4, <2>1 DEF ReplyLost, Goto, Busy, JobOf
  <2>2. UNCHANGED <<status, age>> \/ SetStatus(JobOf(w), "COMPLETED")
    BY <1>4 DEF ReplyLost
  <2>3. ASSUME NEW v \in Workers, Busy(v)' PROVE Held(v)'
    <3>1. CASE SetStatus(JobOf(w), "COMPLETED")
      <4>1. \/ status'[JobOf(v)] = status[JobOf(v)] /\ age'[JobOf(v)] = age[JobOf(v)]
            \/ status'[JobOf(v)] = "COMPLETED"
        BY <1>0, <2>1, <2>3, <3>1 DEF SetStatus
      <4>2. QED BY <1>0, <2>1, <2>3, <4>1 DEF Held
    <3>2. CASE UNCHANGED <<status, age>>
      BY <1>1, <2>1, <2>3, <3>2
    <3>3. QED BY <2>2, <3>1, <3>2
  <2>4. QED BY <2>1, <2>3, ClaimedKept
<1>5. QED BY <1>2, <1>3, <1>4 DEF FaultStep

LEMMA ClaimedTick ==
  ASSUME Prompt, Claimed, Consistent', Tick
  PROVE  Claimed'
<1>1. ASSUME NEW v \in Workers, Busy(v)'
      PROVE  Busy(v) /\ JobOf(v)' = JobOf(v) /\ Held(v)'
  <2>1. Busy(v) /\ JobOf(v)' = JobOf(v) /\ JobOf(v) \in Job
    BY <1>1 DEF Tick, Busy, JobOf, Claimed, TypeOK
  <2>2. PICK j \in Job : j = JobOf(v)
    BY <2>1
  <2>3. status[j] = "RUNNING" => age[j] < StaleAfter
    BY <2>1, <2>2 DEF Tick, InTime
  <2>4. age[j] \in Nat /\ status'[j] = status[j]
    BY Bounds DEF Tick, Claimed, TypeOK
  <2>5. status[j] = "RUNNING" => age'[j] <= StaleAfter
    BY <2>3, <2>4, Bounds DEF Tick, Smaller
  <2>6. QED BY <2>1, <2>2, <2>4, <2>5 DEF Claimed, Held
<1>2. QED BY <1>1, ClaimedKept

LEMMA ClaimedStep ==
  ASSUME Prompt
  PROVE  Claimed /\ [Next]_vars => Claimed'
<1> SUFFICES ASSUME Claimed, [Next]_vars PROVE Claimed'
  OBVIOUS
<1>0. Consistent'
  BY ConsistentStep DEF Claimed, Consistent
<1>1. CASE Next
  BY <1>0, <1>1, ClaimedAPI, ClaimedWorker, ClaimedFault, ClaimedTick DEF Next
<1>2. CASE UNCHANGED vars
  BY <1>0, <1>2, ClaimedKept DEF vars, jobVars, Busy, JobOf, Held, Claimed
<1>3. QED BY <1>1, <1>2

\* If every worker finishes or gives up a job before the stale deadline, no job
\* is ever in the hands of two workers, through crashes, retries, recoveries,
\* lost replies and location changes.
THEOREM OneWorker ==
  ASSUME Prompt
  PROVE  Spec => []OneWorkerPerJob
<1>1. Claimed => OneWorkerPerJob
  BY DEF Claimed
<1>2. Claimed /\ [Next]_vars => Claimed'
  BY ClaimedStep
<1>3. QED BY <1>1, <1>2, ClaimedInit, PTL DEF Spec

\* The claim invariant itself: the job in a worker's hands is neither waiting
\* nor stale, so that neither the claim nor the recovery can take it.
THEOREM ClaimsHeld ==
  ASSUME Prompt
  PROVE  Spec => []Claimed
<1>1. Claimed /\ [Next]_vars => Claimed'
  BY ClaimedStep
<1>2. QED BY <1>1, ClaimedInit, PTL DEF Spec

-----------------------------------------------------------------------------
(* Leases.  A prompt worker that calls the provider holds an unexpired     *)
(* lease of the tile, and nobody but its holder touches such a lease.      *)

\* Collecting workers hold their lease.
Leased(v) ==
  pc[v] = "collect" => leaseOwner[ScopeOf(v)] = v /\ leaseLeft[ScopeOf(v)] > 0

LeaseInv == Consistent /\ \A v \in Workers : Leased(v)

\* What a step of w may do to the leases: it takes a free one, drops its own
\* ones (forgets or deletes them), or leaves the table alone.
LEMMA LeaseStep ==
  ASSUME TypeOK, NEW w \in Workers, WorkerStep(w) \/ FaultStep(w), NEW s \in Scope
  PROVE  \/ UNCHANGED <<leaseOwner[s], leaseLeft[s]>>
         \/ LeaseFree(s)
         \/ leaseOwner[s] = w /\ pc'[w] # pc[w]
<1> USE DEF meetingVars, jobVars, leaseVars, dataVars
<1>0. /\ pc \in [Workers -> PC]
      /\ leaseOwner \in [Scope -> Workers \cup {NoOwner, Orphan}]
      /\ leaseLeft \in [Scope -> 0..LeaseTtl]
  BY DEF TypeOK
<1>1. CASE \/ RecoverStale(w) \/ (\E j \in Job : Claim(w, j)) \/ NothingDue(w)
           \/ Load(w) \/ SkipFreshTile(w) \/ MissTile(w) \/ TileLeaseUnavailable(w)
           \/ CollectTile(w) \/ CollectTileFails(w) \/ SaveCoverage(w)
           \/ SaveCoverageConflicts(w) \/ CompleteJob(w) \/ FailOrRetryJob(w)
           \/ QueryErrorInLoop(w) \/ UpsertError(w)
  BY <1>1 DEF RecoverStale, Claim, NothingDue, Load, SkipFreshTile, MissTile,
     TileLeaseUnavailable, CollectTile, CollectTileFails, SaveCoverage,
     SaveCoverageConflicts, CompleteJob, FailOrRetryJob, QueryErrorInLoop, UpsertError
<1>2. CASE AcquireTileLease(w)
  BY <1>0, <1>2 DEF AcquireTileLease, GrantLease
<1>3. CASE ReleaseTileLease(w)
  BY <1>0, <1>3 DEF ReleaseTileLease, LeasesWithout, Goto
<1>4. CASE Crash(w)
  BY <1>0, <1>4 DEF Crash, LeasesOrphaned, Return, Goto
<1>5. CASE QueryErrorInJob(w)
  BY <1>0, <1>5 DEF QueryErrorInJob, LeasesOrphaned, Goto
<1>6. CASE ReplyLost(w)
  BY <1>0, <1>6 DEF ReplyLost, GrantLease
<1>7. QED BY <1>1, <1>2, <1>3, <1>4, <1>5, <1>6 DEF WorkerStep, FaultStep

\* A step of w moves no other worker.
LEMMA OthersStay ==
  ASSUME TypeOK, NEW w \in Workers, WorkerStep(w) \/ FaultStep(w), NEW v \in Workers \ {w}
  PROVE  pc'[v] = pc[v] /\ task'[v] = task[v]
<1>0. pc \in [Workers -> PC] /\ task \in [Workers -> Task]
  BY DEF TypeOK
<1>1. CASE WorkerStep(w)
  BY <1>0, <1>1 DEF WorkerStep, RecoverStale, Claim, NothingDue, Load, SkipFreshTile,
     MissTile, AcquireTileLease, TileLeaseUnavailable, CollectTile, CollectTileFails,
     ReleaseTileLease, SaveCoverage, SaveCoverageConflicts, CompleteJob, FailOrRetryJob,
     Return, Goto
<1>2. CASE FaultStep(w)
  BY <1>0, <1>2 DEF FaultStep, Crash, QueryErrorInLoop, QueryErrorInJob, UpsertError,
     ReplyLost, Return, Goto
<1>3. QED BY <1>1, <1>2

\* w starts to collect only with a lease of its own.
LEMMA CollectStart ==
  ASSUME TypeOK, NEW w \in Workers, WorkerStep(w) \/ FaultStep(w), pc'[w] = "collect"
  PROVE  AcquireTileLease(w)
<1>0. pc \in [Workers -> PC]
  BY DEF TypeOK
<1>1. CASE WorkerStep(w)
  BY <1>0, <1>1 DEF WorkerStep, RecoverStale, Claim, NothingDue, Load, SkipFreshTile,
     MissTile, AcquireTileLease, TileLeaseUnavailable, CollectTile, CollectTileFails,
     ReleaseTileLease, SaveCoverage, SaveCoverageConflicts, CompleteJob, FailOrRetryJob,
     Return, Goto, LoopAt
<1>2. CASE FaultStep(w)
  BY <1>0, <1>2 DEF FaultStep, Crash, QueryErrorInLoop, QueryErrorInJob, UpsertError,
     ReplyLost, Return, Goto
<1>3. QED BY <1>1, <1>2

LEMMA LeasedKept ==
  ASSUME LeaseInv, NEW v \in Workers, pc'[v] = pc[v], task'[v] = task[v],
         \A s \in Scope : leaseOwner[s] = v /\ leaseLeft[s] > 0
                            => leaseOwner'[s] = v /\ leaseLeft'[s] > 0
  PROVE  Leased(v)'
<1>1. ScopeOf(v)' = ScopeOf(v)
  BY DEF ScopeOf, JobOf, TourOf
<1>2. pc[v] = "collect" => ScopeOf(v) \in Scope
  BY ScopeOfType DEF LeaseInv, Consistent, AtTile
<1>3. QED BY <1>1, <1>2 DEF LeaseInv, Leased

LEMMA LeaseInvStep ==
  ASSUME Prompt
  PROVE  LeaseInv /\ [Next]_vars => LeaseInv'
<1> SUFFICES ASSUME LeaseInv, [Next]_vars PROVE LeaseInv'
  OBVIOUS
<1>0. TypeOK /\ Consistent /\ Consistent'
  BY ConsistentStep DEF LeaseInv, Consistent
<1>1. ASSUME NEW w \in Workers, WorkerStep(w) \/ FaultStep(w), NEW v \in Workers
      PROVE  Leased(v)'
  <2>1. CASE v # w
    <3>1. ASSUME NEW s \in Scope, leaseOwner[s] = v, leaseLeft[s] > 0
          PROVE  leaseOwner'[s] = v /\ leaseLeft'[s] > 0
      BY <1>0, <1>1, <2>1, <3>1, LeaseStep, NullAssumption DEF LeaseFree
    <3>2. pc'[v] = pc[v] /\ task'[v] = task[v]
      BY <1>0, <1>1, <2>1, OthersStay
    <3>3. QED BY <3>1, <3>2, LeasedKept
  <2>2. CASE v = w /\ pc'[w] = "collect"
    <3>1. AcquireTileLease(w)
      BY <1>0, <1>1, <2>2, CollectStart
    <3>2. ScopeOf(w) \in Scope
      BY <1>0, <3>1, ScopeOfType DEF AcquireTileLease, AtTile, Consistent
    <3>3. ScopeOf(w)' = ScopeOf(w)
      BY <3>1 DEF AcquireTileLease, ScopeOf, JobOf, TourOf
    <3>4. leaseOwner'[ScopeOf(w)] = w /\ leaseLeft'[ScopeOf(w)] = LeaseTtl
      BY <1>0, <3>1, <3>2 DEF AcquireTileLease, GrantLease, TypeOK
    <3>5. QED BY <2>2, <3>3, <3>4, Bounds DEF Leased
  <2>3. CASE v = w /\ pc'[w] # "collect"
    BY <2>3 DEF Leased
  <2>4. QED BY <2>1, <2>2, <2>3
<1>2. ASSUME Tick, NEW v \in Workers PROVE Leased(v)'
  <2>1. pc' = pc /\ task' = task /\ leaseOwner' = leaseOwner /\ InTime(v)
    BY <1>2 DEF Tick
  <2>2. ScopeOf(v)' = ScopeOf(v)
    BY <2>1 DEF ScopeOf, JobOf, TourOf
  <2>3. ASSUME pc[v] = "collect"
        PROVE  leaseOwner[ScopeOf(v)] = v /\ leaseLeft'[ScopeOf(v)] > 0
    <3>1. ScopeOf(v) \in Scope
      BY <1>0, <2>3, ScopeOfType DEF AtTile, Consistent
    <3>2. leaseOwner[ScopeOf(v)] = v /\ leaseLeft[ScopeOf(v)] > 1
      BY <2>1, <2>3 DEF InTime, LeaseInv, Leased
    <3>3. leaseLeft[ScopeOf(v)] \in Nat
      BY <1>0, <3>1, Bounds DEF TypeOK
    <3>4. leaseLeft'[ScopeOf(v)] = leaseLeft[ScopeOf(v)] - 1
      BY <1>2, <3>1, <3>2, <3>3 DEF Tick
    <3>5. QED BY <3>2, <3>3, <3>4
  <2>4. QED BY <2>1, <2>2, <2>3 DEF Leased
<1>3. ASSUME UNCHANGED <<leaseOwner, leaseLeft, pc, task>>, NEW v \in Workers
      PROVE  Leased(v)'
  BY <1>3, LeasedKept
<1>4. ASSUME NEW m \in Meetings, MeetingStep(m)
      PROVE  UNCHANGED <<leaseOwner, leaseLeft, pc, task>>
  BY <1>4, MeetingQuiet DEF leaseVars
<1>5. UNCHANGED vars => UNCHANGED <<leaseOwner, leaseLeft, pc, task>>
  BY DEF vars, leaseVars
<1>6. \A v \in Workers : Leased(v)'
  BY <1>1, <1>2, <1>3, <1>4, <1>5 DEF Next
<1>7. QED BY <1>0, <1>6 DEF LeaseInv, Consistent

\* While workers outrun their leases, two of them never call the provider for
\* the same tile and category at the same time, whatever else happens.
THEOREM CollectorsAlone ==
  ASSUME Prompt
  PROVE  Spec => []CollectorsExclusive
<1>1. Init => LeaseInv
  BY ConsistentInit DEF Init, LeaseInv, Leased
<1>2. LeaseInv => CollectorsExclusive
  BY DEF LeaseInv, Leased, CollectorsExclusive
<1>3. LeaseInv /\ [Next]_vars => LeaseInv'
  BY LeaseInvStep
<1>4. QED BY <1>1, <1>2, <1>3, PTL DEF Spec

\* An unexpired lease stays with its holder until the holder moves on, however
\* slow the workers are and whatever faults happen.
THEOREM LeaseHeld == Spec => LeaseHeldUntilExpiry
<1>1. ASSUME TypeOK, [Next]_vars, NEW s \in Scope, NEW v \in Workers,
             leaseOwner[s] = v, leaseLeft[s] > 0, pc'[v] = pc[v]
      PROVE  leaseOwner'[s] = v
  <2>1. ASSUME NEW w \in Workers, WorkerStep(w) \/ FaultStep(w) PROVE leaseOwner'[s] = v
    BY <1>1, <2>1, LeaseStep, NullAssumption DEF LeaseFree
  <2>2. ASSUME NEW m \in Meetings, MeetingStep(m)
        PROVE  leaseOwner'[s] = v
    BY <1>1, <2>2, MeetingQuiet DEF leaseVars
  <2>3. Tick => leaseOwner'[s] = v
    BY <1>1 DEF Tick
  <2>4. UNCHANGED vars => leaseOwner'[s] = v
    BY <1>1 DEF vars, leaseVars
  <2>5. QED BY <1>1, <2>1, <2>2, <2>3, <2>4 DEF Next
<1>2. TypeOK /\ [Next]_vars =>
        [\A s \in Scope : \A w \in Workers :
           leaseOwner[s] = w /\ leaseLeft[s] > 0 /\ pc'[w] = pc[w] => leaseOwner'[s] = w]_vars
  BY <1>1
<1>3. QED BY <1>2, TypeCorrect, PTL DEF Spec, LeaseHeldUntilExpiry

-----------------------------------------------------------------------------
(***************************************************************************)
(* The queue implements JobLifecycle.  Every write of a job row is traced  *)
(* to the one worker that holds the job: it holds a running job, or one    *)
(* that was failed because the location changed, and it knows how often    *)
(* the job was taken up.  Two assumptions: workers are prompt, and (only   *)
(* for the refinement) no commit loses its reply.                          *)
(***************************************************************************)

\* The attempt_count a worker read is still the one in the row.
Known(v) == Busy(v) /\ pc[v] # "load" => task[v].attempt = attempts[JobOf(v)]

\* The job in a worker's hands runs, or was failed by a change of location.
Owned(v) ==
  Busy(v) => status[JobOf(v)] = "RUNNING" \/ (status[JobOf(v)] = "FAILED" /\ Superseded(JobOf(v)))

KnownInv == Claimed /\ \A v \in Workers : Known(v)
OwnedInv == KnownInv /\ \A v \in Workers : Owned(v)

\* What one step of worker w does to the job rows.  Nothing:
Untouched == UNCHANGED <<status, attempts>>

\* a claim;
Taken(w) ==
  \E j \in Job : /\ status[j] = "PENDING" /\ ~Busy(w) /\ JobOf(w)' = j /\ pc'[w] = "load"
                 /\ status' = [status EXCEPT ![j] = "RUNNING"]
                 /\ attempts' = [attempts EXCEPT ![j] = @ + 1]

\* the stale jobs put back;
Recovered ==
  /\ status' = [j \in Job |-> IF Stale(j) THEN "PENDING" ELSE status[j]]
  /\ attempts' = attempts

\* or the end of the run of the job that w holds.
Ended(w) ==
  /\ Busy(w) /\ ~Busy(w)' /\ attempts' = attempts
  /\ \/ pc[w] = "complete" /\ status' = [status EXCEPT ![JobOf(w)] = "COMPLETED"]
     \/ pc[w] = "fail" /\ MayRetry(w) /\ status' = [status EXCEPT ![JobOf(w)] = "PENDING"]
     \/ pc[w] = "fail" /\ ~MayRetry(w) /\ status' = [status EXCEPT ![JobOf(w)] = "FAILED"]

\* processJob goes on with the job it has, and with the attempt it has read.
GoesOn(w) ==
  /\ Busy(w) /\ Busy(w)' /\ JobOf(w)' = JobOf(w) /\ pc'[w] # "load"
  /\ pc[w] = "load" => task'[w].attempt = attempts[JobOf(w)]
  /\ pc[w] # "load" => task'[w].attempt = task[w].attempt

LEMMA WorkerWrites ==
  ASSUME TypeOK, NEW w \in Workers, WorkerStep(w)
  PROVE  /\ version' = version /\ faultCount' = faultCount
         /\ \/ Untouched /\ (GoesOn(w) \/ ~Busy(w))  /\ (~Busy(w) => ~Busy(w)')
            \/ Taken(w)
            \/ Recovered /\ ~Busy(w) /\ ~Busy(w)'
            \/ Ended(w)
<1> USE DEF meetingVars, jobVars, leaseVars, dataVars
<1>0. pc \in [Workers -> PC] /\ task \in [Workers -> Task] /\ (Busy(w) => JobOf(w) \in Job)
  BY DEF TypeOK
<1>1. CASE RecoverStale(w)
  BY <1>0, <1>1 DEF RecoverStale, Recovered, Goto, Busy
<1>2. ASSUME NEW j \in Job, Claim(w, j)
      PROVE  Taken(w) /\ version' = version /\ faultCount' = faultCount
  <2>1. JobOf(w)' = j /\ pc'[w] = "load" /\ ~Busy(w)
    BY <1>0, <1>2 DEF Claim, Goto, JobOf, Task, Busy
  <2>2. QED BY <1>2, <2>1 DEF Claim, Due, SetStatus, Taken
<1>3. CASE NothingDue(w)
  BY <1>0, <1>3 DEF NothingDue, Untouched, Return, Goto, Busy
<1>4. CASE Load(w)
  <2>1. task' = [task EXCEPT ![w].attempt = attempts[JobOf(w)], ![w].at = 1]
        /\ pc[w] = "load" /\ UNCHANGED <<version, status, attempts, faultCount>>
    BY <1>4 DEF Load
  <2>2. pc'[w] \in {"scan", "complete"}
    BY <1>0, <1>4 DEF Load, Goto, LoopAt
  <2>3. task'[w].job = task[w].job /\ task'[w].attempt = attempts[JobOf(w)]
    BY <1>0, <2>1 DEF Task
  <2>4. QED BY <2>1, <2>2, <2>3 DEF GoesOn, Untouched, Busy, JobOf
<1>5. CASE CompleteJob(w) \/ FailOrRetryJob(w)
  <2>1. Busy(w) /\ ~Busy(w)' /\ UNCHANGED <<version, attempts, faultCount>>
    BY <1>0, <1>5 DEF CompleteJob, FailOrRetryJob, Return, Goto, Busy
  <2>2. QED BY <1>5, <2>1 DEF CompleteJob, FailOrRetryJob, SetStatus, Ended
<1>6. CASE \/ SkipFreshTile(w) \/ MissTile(w) \/ AcquireTileLease(w) \/ TileLeaseUnavailable(w)
           \/ CollectTile(w) \/ CollectTileFails(w) \/ ReleaseTileLease(w)
           \/ SaveCoverage(w) \/ SaveCoverageConflicts(w)
  <2>1. UNCHANGED <<version, status, attempts, faultCount>>
    BY <1>6 DEF SkipFreshTile, MissTile, AcquireTileLease, TileLeaseUnavailable, CollectTile,
       CollectTileFails, ReleaseTileLease, SaveCoverage, SaveCoverageConflicts
  <2>2. pc[w] \in AtTile /\ pc'[w] \in AtTile \cup {"complete", "fail"}
    BY <1>0, <1>6 DEF SkipFreshTile, MissTile, AcquireTileLease, TileLeaseUnavailable, CollectTile,
       CollectTileFails, ReleaseTileLease, SaveCoverage, SaveCoverageConflicts, Goto, LoopAt, AtTile
  <2>3. task'[w].job = task[w].job /\ task'[w].attempt = task[w].attempt
    BY <1>0, <1>6 DEF SkipFreshTile, MissTile, AcquireTileLease, TileLeaseUnavailable, CollectTile,
       CollectTileFails, ReleaseTileLease, SaveCoverage, SaveCoverageConflicts, Task
  <2>4. QED BY <2>1, <2>2, <2>3 DEF GoesOn, Untouched, Busy, JobOf, AtTile
<1>7. QED BY <1>1, <1>2, <1>3, <1>4, <1>5, <1>6 DEF WorkerStep

LEMMA FaultWrites ==
  ASSUME TypeOK, NEW w \in Workers, FaultStep(w)
  PROVE  /\ version' = version /\ attempts' = attempts /\ faultCount' = faultCount + 1
         /\ (GoesOn(w) /\ pc[w] # "load") \/ ~Busy(w)'
         /\ \/ Untouched
            \/ /\ "lostReply" \in Faults /\ pc[w] = "complete" /\ GoesOn(w)
               /\ status' = [status EXCEPT ![JobOf(w)] = "COMPLETED"]
<1> USE DEF meetingVars, jobVars, leaseVars, dataVars
<1>0. pc \in [Workers -> PC] /\ task \in [Workers -> Task]
  BY DEF TypeOK
<1>1. CASE Crash(w) \/ QueryErrorInLoop(w)
  BY <1>0, <1>1 DEF Crash, QueryErrorInLoop, Fault, Return, Goto, Busy, Untouched
<1>2. CASE QueryErrorInJob(w) \/ UpsertError(w)
  <2>1. UNCHANGED <<version, status, attempts>> /\ faultCount' = faultCount + 1
    BY <1>2 DEF QueryErrorInJob, UpsertError, Fault
  <2>2. pc[w] \in AtTile \cup {"complete"} /\ pc'[w] \in {"fail", "release"}
    BY <1>0, <1>2 DEF QueryErrorInJob, UpsertError, Goto, AtTile
  <2>3. task'[w].job = task[w].job /\ task'[w].attempt = task[w].attempt
    BY <1>0, <1>2 DEF QueryErrorInJob, UpsertError, Task
  <2>4. QED BY <2>1, <2>2, <2>3 DEF GoesOn, Untouched, Busy, JobOf, AtTile
<1>3. CASE ReplyLost(w)
  <2>1. UNCHANGED <<version, attempts, task>> /\ faultCount' = faultCount + 1 /\ "lostReply" \in Faults
    BY <1>3 DEF ReplyLost, Fault
  <2>2. pc[w] \in AtTile \cup {"complete"} /\ pc'[w] = "fail"
    BY <1>0, <1>3 DEF ReplyLost, Goto, AtTile
  <2>3. GoesOn(w) /\ pc[w] # "load"
    BY <2>1, <2>2 DEF GoesOn, Busy, JobOf, AtTile
  <2>4. status' = status \/ (pc[w] = "complete" /\ status' = [status EXCEPT ![JobOf(w)] = "COMPLETED"])
    BY <1>3 DEF ReplyLost, SetStatus
  <2>5. QED BY <2>1, <2>3, <2>4 DEF Untouched
<1>4. QED BY <1>1, <1>2, <1>3 DEF FaultStep

-----------------------------------------------------------------------------
(* Preservation.                                                           *)

\* The transactions of the API: the plan changes alone, or the next location is
\* set, its jobs wait and the unfinished older ones fail.
LEMMA LocationWrites ==
  ASSUME TypeOK, JobsFollowLocation, NEW m \in Meetings, MeetingStep(m)
  PROVE  /\ UNCHANGED <<attempts, pc, task, faultCount>>
         /\ \/ UNCHANGED <<version, status>>
            \/ /\ version[m] < MaxVersion /\ version' = [version EXCEPT ![m] = @ + 1]
               /\ \E cats \in SUBSET Categories :
                    status' = [j \in Job |->
                      IF j.meeting = m /\ j.version = version[m] + 1 /\ j.category \in cats
                      THEN "PENDING"
                      ELSE IF j.meeting = m /\ status[j] \in {"PENDING", "RUNNING"} THEN "FAILED"
                      ELSE status[j]]
<1>0. /\ version \in [Meetings -> 0..MaxVersion] /\ version[m] \in Nat
      /\ plan[m] \in SUBSET Categories
  BY Bounds DEF TypeOK
<1>1. \A j \in Job : j.meeting = m /\ status[j] # "absent" => j.version <= version[m]
  BY RowVersion
<1>2. \A j \in Job : j.meeting \in Meetings /\ j.version \in Nat \ {0}
  BY Bounds, JobData
<1>3. ASSUME NEW cats \in SUBSET Categories, CreateMeeting(m, cats)
      PROVE  /\ version[m] < MaxVersion /\ version' = [version EXCEPT ![m] = @ + 1]
             /\ status' = [j \in Job |->
                  IF j.meeting = m /\ j.version = version[m] + 1 /\ j.category \in cats
                  THEN "PENDING"
                  ELSE IF j.meeting = m /\ status[j] \in {"PENDING", "RUNNING"} THEN "FAILED"
                  ELSE status[j]]
  <2>1. \A j \in Job : j.meeting = m => status[j] = "absent"
    BY <1>0, <1>1, <1>2, <1>3 DEF CreateMeeting
  <2>2. status' = [j \in Job |->
          IF j.meeting = m /\ j.version = 1 /\ j.category \in cats THEN "PENDING" ELSE status[j]]
    BY <1>3 DEF CreateMeeting, JobsCreated
  <2>3. QED BY <1>0, <1>3, <2>1, <2>2, Bounds DEF CreateMeeting, LocationSet
<1>4. ASSUME UpdateLocation(m)
      PROVE  /\ version[m] < MaxVersion /\ version' = [version EXCEPT ![m] = @ + 1]
             /\ status' = [j \in Job |->
                  IF j.meeting = m /\ j.version = version[m] + 1 /\ j.category \in plan[m]
                  THEN "PENDING"
                  ELSE IF j.meeting = m /\ status[j] \in {"PENDING", "RUNNING"} THEN "FAILED"
                  ELSE status[j]]
  <2>1. status' = [j \in Job |->
          IF j.meeting = m /\ j.version < version[m] + 1 /\ status[j] \in {"PENDING", "RUNNING"}
          THEN "FAILED"
          ELSE IF j.meeting = m /\ j.version = version[m] + 1 /\ j.category \in plan[m]
               THEN "PENDING" ELSE status[j]]
    BY <1>4 DEF UpdateLocation, JobsCreated
  <2>2. \A j \in Job : j.meeting = m /\ status[j] \in {"PENDING", "RUNNING"}
                          => j.version < version[m] + 1
    BY <1>0, <1>1, <1>2
  <2>3. QED BY <1>0, <1>2, <1>4, <2>1, <2>2 DEF UpdateLocation, LocationSet
<1>5. ASSUME NEW cats \in SUBSET Categories, UpdateCoursePlan(m, cats)
      PROVE  UNCHANGED <<version, status>>
  BY <1>5 DEF UpdateCoursePlan, jobVars
<1>6. QED BY <1>0, <1>3, <1>4, <1>5, MeetingQuiet DEF MeetingStep

\* A job in a worker's hands is not stale and not pending: no claim and no
\* recovery writes its row.
LEMMA HeldRow ==
  ASSUME Claimed, NEW v \in Workers, Busy(v)
  PROVE  JobOf(v) \in Job /\ status[JobOf(v)] \notin {"PENDING", "absent"} /\ ~Stale(JobOf(v))
<1>1. JobOf(v) \in Job /\ status[JobOf(v)] \in {"RUNNING", "COMPLETED", "FAILED"}
  BY DEF Claimed, TypeOK
<1>2. status[JobOf(v)] = "RUNNING" => age[JobOf(v)] <= StaleAfter
  BY DEF Claimed
<1>3. age[JobOf(v)] \in Nat
  BY <1>1, Bounds DEF Claimed, TypeOK
<1>4. QED BY <1>1, <1>2, <1>3, Bounds DEF Stale

\* A step of w writes no row of a job in another worker's hands.
LEMMA OthersRows ==
  ASSUME Claimed, NEW w \in Workers, NEW v \in Workers \ {w}, Busy(v),
         WorkerStep(w) \/ FaultStep(w)
  PROVE  /\ Busy(v)' /\ JobOf(v)' = JobOf(v) /\ pc'[v] = pc[v] /\ task'[v] = task[v]
         /\ status'[JobOf(v)] = status[JobOf(v)] /\ attempts'[JobOf(v)] = attempts[JobOf(v)]
<1>0. TypeOK /\ JobOf(v) \in Job /\ status \in [Job -> JobStatus] /\ attempts \in [Job -> Nat]
  BY HeldRow DEF Claimed, TypeOK
<1>1. pc'[v] = pc[v] /\ task'[v] = task[v]
  BY <1>0, OthersStay
<1>2. Busy(v)' /\ JobOf(v)' = JobOf(v)
  BY <1>1 DEF Busy, JobOf
<1>3. Busy(w) => JobOf(w) # JobOf(v)
  BY DEF Claimed, OneWorkerPerJob
<1>4. CASE Untouched
  BY <1>4, <1>1, <1>2 DEF Untouched
<1>5. CASE Taken(w)
  <2>1. PICK j \in Job : /\ status[j] = "PENDING"
                         /\ status' = [status EXCEPT ![j] = "RUNNING"]
                         /\ attempts' = [attempts EXCEPT ![j] = @ + 1]
    BY <1>5 DEF Taken
  <2>2. JobOf(v) # j
    BY <2>1, HeldRow
  <2>3. QED BY <1>0, <1>1, <1>2, <2>1, <2>2
<1>6. CASE Recovered
  BY <1>0, <1>1, <1>2, <1>6, HeldRow DEF Recovered
<1>7. CASE Ended(w)
  BY <1>0, <1>1, <1>2, <1>3, <1>7 DEF Ended
<1>8. CASE Busy(w) /\ attempts' = attempts /\ \E x : status' = [status EXCEPT ![JobOf(w)] = x]
  BY <1>0, <1>1, <1>2, <1>3, <1>8
<1>9. QED BY <1>0, <1>4, <1>5, <1>6, <1>7, <1>8, WorkerWrites, FaultWrites DEF GoesOn

LEMMA KnownStep ==
  ASSUME Prompt
  PROVE  KnownInv /\ [Next]_vars => KnownInv'
<1> SUFFICES ASSUME KnownInv, [Next]_vars PROVE KnownInv'
  OBVIOUS
<1>c. Claimed'
  BY ClaimedStep DEF KnownInv
<1> SUFFICES ASSUME NEW v \in Workers PROVE Known(v)'
  BY <1>c DEF KnownInv
<1>0. Claimed /\ TypeOK /\ JobsFollowLocation /\ Known(v)
  BY DEF KnownInv, Claimed
<1>1. ASSUME NEW w \in Workers, WorkerStep(w) \/ FaultStep(w) PROVE Known(v)'
  <2>1. CASE v # w
    <3>1. Busy(v)' => Busy(v)
      BY <1>0, <1>1, <2>1, OthersStay DEF Busy
    <3>2. QED BY <1>0, <1>1, <2>1, <3>1, OthersRows DEF Known
  <2>2. CASE v = w /\ WorkerStep(w)
    <3>1. CASE GoesOn(w) /\ Untouched
      BY <1>0, <2>2, <3>1 DEF GoesOn, Untouched, Known
    <3>2. CASE Taken(w)
      BY <2>2, <3>2 DEF Taken, Known
    <3>3. CASE ~Busy(w)'
      BY <2>2, <3>3 DEF Known
    <3>4. QED BY <1>0, <2>2, <3>1, <3>2, <3>3, WorkerWrites DEF Ended
  <2>3. CASE v = w /\ FaultStep(w)
    <3>1. CASE GoesOn(w) /\ pc[w] # "load" /\ attempts' = attempts
      BY <1>0, <2>3, <3>1 DEF GoesOn, Known
    <3>2. CASE ~Busy(w)'
      BY <2>3, <3>2 DEF Known
    <3>3. QED BY <1>0, <2>3, <3>1, <3>2, FaultWrites
  <2>4. QED BY <1>1, <2>1, <2>2, <2>3
<1>2. ASSUME UNCHANGED <<attempts, pc, task>> PROVE Known(v)'
  BY <1>0, <1>2 DEF Known, Busy, JobOf
<1>3. Tick \/ UNCHANGED vars => UNCHANGED <<attempts, pc, task>>
  BY DEF Tick, vars, jobVars
<1>4. ASSUME NEW m \in Meetings, MeetingStep(m)
      PROVE  UNCHANGED <<attempts, pc, task>>
  BY <1>0, <1>4, LocationWrites
<1>5. QED BY <1>0, <1>1, <1>2, <1>3, <1>4 DEF Next

LEMMA OwnedStep ==
  ASSUME Prompt, "lostReply" \notin Faults
  PROVE  OwnedInv /\ [Next]_vars => OwnedInv'
<1> SUFFICES ASSUME OwnedInv, [Next]_vars PROVE OwnedInv'
  OBVIOUS
<1>k. KnownInv'
  BY KnownStep DEF OwnedInv
<1> SUFFICES ASSUME NEW v \in Workers PROVE Owned(v)'
  BY <1>k DEF OwnedInv
<1>0. Claimed /\ TypeOK /\ JobsFollowLocation /\ Owned(v)
  BY DEF OwnedInv, KnownInv, Claimed
<1>t. status \in [Job -> JobStatus] /\ version \in [Meetings -> 0..MaxVersion]
  BY <1>0 DEF TypeOK
\* A step that leaves the job of v, its row and the locations alone.
<1>s. ASSUME Busy(v)' => /\ Busy(v) /\ JobOf(v)' = JobOf(v)
                         /\ status'[JobOf(v)] = status[JobOf(v)],
             version' = version
      PROVE  Owned(v)'
  BY <1>0, <1>s DEF Owned, Superseded
<1>1. ASSUME NEW w \in Workers, WorkerStep(w) \/ FaultStep(w) PROVE Owned(v)'
  <2>0. version' = version
    BY <1>0, <1>1, WorkerWrites, FaultWrites
  <2>1. CASE v # w
    <3>1. Busy(v)' => Busy(v)
      BY <1>0, <1>1, <2>1, OthersStay DEF Busy
    <3>2. QED BY <1>0, <1>1, <1>s, <2>0, <2>1, <3>1, OthersRows
  <2>2. CASE v = w
    <3>1. CASE GoesOn(w) /\ Untouched
      BY <1>s, <2>0, <2>2, <3>1 DEF GoesOn, Untouched
    <3>2. CASE Taken(w)
      <4>1. PICK j \in Job : JobOf(w)' = j /\ status' = [status EXCEPT ![j] = "RUNNING"]
        BY <3>2 DEF Taken
      <4>2. QED BY <1>t, <2>2, <4>1 DEF Owned
    <3>3. CASE ~Busy(w)'
      BY <2>2, <3>3 DEF Owned
    <3>4. QED BY <1>0, <1>1, <3>1, <3>2, <3>3, WorkerWrites, FaultWrites DEF Ended
  <2>3. QED BY <2>1, <2>2
<1>2. ASSUME Tick \/ UNCHANGED vars PROVE Owned(v)'
  BY <1>s, <1>2 DEF Tick, vars, meetingVars, jobVars, Busy, JobOf
<1>3. ASSUME NEW m \in Meetings, MeetingStep(m), Busy(v)'
      PROVE  Owned(v)'
  <2>1. Busy(v) /\ JobOf(v)' = JobOf(v)
    BY <1>0, <1>3, LocationWrites DEF Busy, JobOf
  <2>2. PICK j \in Job : j = JobOf(v)
    BY <1>0, <2>1 DEF TypeOK
  <2>3. j.meeting \in Meetings /\ j.version \in Nat /\ version[j.meeting] \in Nat /\ version[m] \in Nat
    BY <1>t, <2>2, Bounds, JobData
  <2>4. status[j] # "absent" /\ j.version <= version[j.meeting]
    BY <1>0, <2>1, <2>2, RowVersion DEF JobsFollowLocation
  <2>5. status[j] = "RUNNING" \/ (status[j] = "FAILED" /\ j.version < version[j.meeting])
    BY <1>0, <2>1, <2>2 DEF Owned, Superseded
  <2>6. status'[j] = "RUNNING" \/ (status'[j] = "FAILED" /\ j.version < version'[j.meeting])
    <3>1. CASE UNCHANGED <<version, status>>
      BY <2>5, <3>1
    <3>2. CASE version' = [version EXCEPT ![m] = @ + 1]
      <4>1. version'[j.meeting] = IF j.meeting = m THEN version[m] + 1 ELSE version[j.meeting]
        BY <1>t, <2>3, <3>2
      <4>2. UNCHANGED <<version, status>> \/ status'[j] =
              IF j.meeting = m /\ status[j] \in {"PENDING", "RUNNING"} THEN "FAILED" ELSE status[j]
        BY <1>0, <1>3, <2>3, <2>4, LocationWrites
      <4>3. QED BY <2>3, <2>4, <2>5, <4>1, <4>2
    <3>3. QED BY <1>0, <1>3, <3>1, <3>2, LocationWrites
  <2>7. QED BY <2>1, <2>2, <2>6 DEF Owned, Superseded
<1>4. QED BY <1>1, <1>2, <1>3 DEF Next, Owned

-----------------------------------------------------------------------------
(* The refinement.                                                         *)

LEMMA LifecycleWorker ==
  ASSUME OwnedInv, NEW w \in Workers, WorkerStep(w)
  PROVE  [Lifecycle!Next]_<<version, status, attempts>>
<1>0. Claimed /\ TypeOK /\ Known(w) /\ Owned(w) /\ version' = version
  BY WorkerWrites DEF OwnedInv, KnownInv, Claimed
<1>j. Lifecycle!Job = Job
  BY DEF Lifecycle!Job, Job
<1>1. CASE Untouched
  BY <1>0, <1>1 DEF Untouched
<1>2. CASE Taken(w)
  <2>1. PICK j \in Job : /\ status[j] = "PENDING"
                         /\ status' = [status EXCEPT ![j] = "RUNNING"]
                         /\ attempts' = [attempts EXCEPT ![j] = @ + 1]
    BY <1>2 DEF Taken
  <2>2. Lifecycle!Take(j)
    BY <1>0, <2>1 DEF Lifecycle!Take
  <2>3. QED BY <1>j, <2>2 DEF Lifecycle!Next
<1>3. CASE Recovered
  <2> DEFINE stale == {j \in Job : Stale(j)}
  <2>1. \A j \in stale : status[j] = "RUNNING"
    BY DEF Stale
  <2>2. status' = [j \in Job |-> IF j \in stale THEN "PENDING" ELSE status[j]]
    BY <1>3 DEF Recovered
  <2>3. Lifecycle!Recover(stale)
    BY <1>0, <1>3, <1>j, <2>1, <2>2 DEF Lifecycle!Recover, Recovered
  <2>4. stale \in SUBSET Lifecycle!Job
    BY <1>j
  <2>5. QED BY <2>3, <2>4 DEF Lifecycle!Next
<1>4. CASE Ended(w)
  <2>1. PICK j \in Job : j = JobOf(w)
    BY <1>0, <1>4 DEF Ended, TypeOK
  <2>2. Lifecycle!Underway(j) /\ attempts' = attempts
    BY <1>0, <1>4, <2>1 DEF Ended, Owned, Superseded, Lifecycle!Underway, Lifecycle!Superseded
  <2>3. pc[w] = "fail" => task[w].attempt = attempts[j]
    BY <1>0, <1>4, <2>1 DEF Ended, Known
  <2>4. attempts[j] \in Nat
    BY <1>0, <2>1 DEF TypeOK
  <2>5. CASE status' = [status EXCEPT ![j] = "COMPLETED"]
    BY <1>0, <1>j, <2>1, <2>2, <2>5 DEF Lifecycle!Next, Lifecycle!Finish
  <2>6. CASE pc[w] = "fail" /\ MayRetry(w) /\ status' = [status EXCEPT ![j] = "PENDING"]
    <3>1. attempts[j] < MaxAttempts
      BY <2>3, <2>6 DEF MayRetry
    <3>2. Lifecycle!Retry(j)
      BY <1>0, <2>2, <2>6, <3>1 DEF Lifecycle!Retry
    <3>3. QED BY <1>j, <2>1, <3>2 DEF Lifecycle!Next
  <2>7. CASE pc[w] = "fail" /\ ~MayRetry(w) /\ status' = [status EXCEPT ![j] = "FAILED"]
    <3>1. attempts[j] >= MaxAttempts
      BY <2>3, <2>4, <2>7, Bounds DEF MayRetry
    <3>2. Lifecycle!GiveUp(j)
      BY <1>0, <2>2, <2>7, <3>1 DEF Lifecycle!GiveUp
    <3>3. QED BY <1>j, <2>1, <3>2 DEF Lifecycle!Next
  <2>8. QED BY <1>4, <2>1, <2>5, <2>6, <2>7 DEF Ended
<1>5. QED BY <1>0, <1>1, <1>2, <1>3, <1>4, WorkerWrites

LEMMA LifecycleStep ==
  ASSUME "lostReply" \notin Faults
  PROVE  OwnedInv /\ [Next]_vars => [Lifecycle!Next]_<<version, status, attempts>>
<1> SUFFICES ASSUME OwnedInv, [Next]_vars
             PROVE  [Lifecycle!Next]_<<version, status, attempts>>
  OBVIOUS
<1>0. TypeOK /\ JobsFollowLocation
  BY DEF OwnedInv, KnownInv, Claimed
<1>1. ASSUME NEW w \in Workers, FaultStep(w) PROVE UNCHANGED <<version, status, attempts>>
  BY <1>0, <1>1, FaultWrites DEF Untouched
<1>2. ASSUME NEW m \in Meetings, MeetingStep(m)
      PROVE  Lifecycle!Next \/ UNCHANGED <<version, status, attempts>>
  <2>1. Lifecycle!Job = Job
    BY DEF Lifecycle!Job, Job
  <2>2. \/ UNCHANGED <<version, status, attempts>>
        \/ \E cats \in SUBSET Categories : Lifecycle!SetLocation(m, cats)
    BY <1>0, <1>2, <2>1, LocationWrites DEF Lifecycle!SetLocation
  <2>3. QED BY <2>2 DEF Lifecycle!Next
<1>3. Tick \/ UNCHANGED vars => UNCHANGED <<version, status, attempts>>
  BY DEF Tick, vars, meetingVars, jobVars
<1>4. QED BY <1>1, <1>2, <1>3, LifecycleWorker DEF Next

LEMMA OwnedInit == Init => OwnedInv
<1>1. Init => Claimed
  BY ClaimedInit
<1>2. QED BY <1>1 DEF Init, OwnedInv, KnownInv, Known, Owned, Busy

\* With prompt workers and no lost reply, whatever workers, leases, retries,
\* recoveries, crashes and location changes do to the rows of the queue is a
\* step of the job lifecycle.
THEOREM LifecycleImplemented ==
  ASSUME Prompt, "lostReply" \notin Faults
  PROVE  Spec => ImplementsLifecycle
<1>1. Init => Lifecycle!Init
  BY DEF Init, Lifecycle!Init, Lifecycle!Job, Job
<1>2. OwnedInv /\ [Next]_vars => [Lifecycle!Next]_(Lifecycle!lifecycleVars)
  BY LifecycleStep DEF Lifecycle!lifecycleVars
<1>3. OwnedInv /\ [Next]_vars => OwnedInv'
  BY OwnedStep
<1>4. QED BY <1>1, <1>2, <1>3, OwnedInit, PTL DEF Spec, ImplementsLifecycle, Lifecycle!Spec

\* A completed job stays completed: no action of the lifecycle takes it up.
LEMMA CompletedStays ==
  ASSUME "lostReply" \notin Faults, OwnedInv, [Next]_vars,
         NEW j \in Job, status[j] = "COMPLETED"
  PROVE  status'[j] = "COMPLETED"
<1>0. Lifecycle!Job = Job /\ status \in [Job -> JobStatus]
  BY DEF Lifecycle!Job, Job, OwnedInv, KnownInv, Claimed, TypeOK
<1>1. [Lifecycle!Next]_<<version, status, attempts>>
  BY LifecycleStep
<1>2. ASSUME NEW m \in Meetings, NEW cats, Lifecycle!SetLocation(m, cats), ~(j.meeting = m /\ j.version = version[m] + 1)
      PROVE  status'[j] = "COMPLETED"
  BY <1>0, <1>2 DEF Lifecycle!SetLocation
<1>3. ASSUME NEW m \in Meetings, j.meeting = m PROVE j.version # version[m] + 1
  <2>1. j.version <= version[j.meeting]
    BY RowVersion DEF OwnedInv, KnownInv, Claimed
  <2>2. j.version \in Nat /\ version[m] \in Nat
    BY Bounds, JobData DEF OwnedInv, KnownInv, Claimed, TypeOK
  <2>3. QED BY <1>3, <2>1, <2>2
<1>4. ASSUME NEW k \in Job, Lifecycle!Take(k) \/ Lifecycle!Finish(k)
                            \/ Lifecycle!Retry(k) \/ Lifecycle!GiveUp(k)
      PROVE  status'[j] = "COMPLETED"
  BY <1>0, <1>4 DEF Lifecycle!Take, Lifecycle!Finish, Lifecycle!Retry,
     Lifecycle!GiveUp, Lifecycle!Underway
<1>5. ASSUME NEW jobs \in SUBSET Job, Lifecycle!Recover(jobs) PROVE status'[j] = "COMPLETED"
  BY <1>0, <1>5 DEF Lifecycle!Recover
<1>6. QED BY <1>0, <1>1, <1>2, <1>3, <1>4, <1>5 DEF Lifecycle!Next

\* A job that reads COMPLETED reads COMPLETED for ever, under the same
\* assumptions: it is a consequence of the lifecycle alone.
THEOREM CompletedFinal ==
  ASSUME Prompt, "lostReply" \notin Faults
  PROVE  Spec => CompletedIsFinal
<1>1. OwnedInv /\ [Next]_vars =>
        [\A j \in Job : status[j] = "COMPLETED" => status'[j] = "COMPLETED"]_vars
  BY CompletedStays
<1>2. OwnedInv /\ [Next]_vars => OwnedInv'
  BY OwnedStep
<1>3. QED BY <1>1, <1>2, OwnedInit, PTL DEF Spec, CompletedIsFinal

\* A superseded job that failed and that nobody holds is not taken up again.
THEOREM SupersededStays == Spec => SupersededStaysFailed
<1>1. ASSUME TypeOK, JobsFollowLocation, [Next]_vars, NEW j \in Job, Superseded(j), status[j] = "FAILED",
             \A w \in Workers : JobOf(w) # j
      PROVE  status'[j] = "FAILED"
  <2>0. status \in [Job -> JobStatus]
    BY <1>1 DEF TypeOK
  <2>1. ASSUME NEW w \in Workers, WorkerStep(w) \/ FaultStep(w) PROVE status'[j] = "FAILED"
    <3>1. CASE Untouched
      BY <1>1, <3>1 DEF Untouched
    <3>2. CASE Taken(w)
      BY <1>1, <2>0, <3>2 DEF Taken
    <3>3. CASE Recovered
      BY <1>1, <3>3 DEF Recovered, Stale
    <3>4. CASE \E x : status' = [status EXCEPT ![JobOf(w)] = x]
      BY <1>1, <2>0, <3>4
    <3>5. QED BY <1>1, <2>1, <3>1, <3>2, <3>3, <3>4, WorkerWrites, FaultWrites DEF Ended
  <2>2. ASSUME NEW m \in Meetings, MeetingStep(m)
        PROVE  status'[j] = "FAILED"
    <3>1. j.version < version[j.meeting] /\ j.version \in Nat /\ version[j.meeting] \in Nat
      BY <1>1, Bounds, JobData DEF Superseded, TypeOK
    <3>2. QED BY <1>1, <2>2, <3>1, LocationWrites
  <2>3. Tick \/ UNCHANGED vars => status' = status
    BY DEF Tick, vars, jobVars
  <2>4. QED BY <1>1, <2>1, <2>2, <2>3 DEF Next
<1>2. Consistent /\ [Next]_vars =>
        [\A j \in Job :
           (Superseded(j) /\ status[j] = "FAILED" /\ \A w \in Workers : JobOf(w) # j)
             => status'[j] = "FAILED"]_vars
  BY <1>1 DEF Consistent
<1>3. QED BY <1>2, ConsistentInit, ConsistentStep, PTL DEF Spec, SupersededStaysFailed

-----------------------------------------------------------------------------
(* Attempts.  A job that waits, or that runs in nobody's hands, has an      *)
(* attempt to spare for each fault that may have abandoned it.             *)

Waiting(j) ==
  \/ status[j] \in {"absent", "PENDING"}
  \/ status[j] = "RUNNING" /\ \A w \in Workers : Busy(w) => JobOf(w) # j

InBudget(j) ==
  /\ attempts[j] <= MaxAttempts + faultCount
  /\ Waiting(j) => attempts[j] < MaxAttempts + faultCount

BudgetInv == KnownInv /\ \A j \in Job : InBudget(j)

LEMMA BudgetStep ==
  ASSUME Prompt
  PROVE  BudgetInv /\ [Next]_vars => BudgetInv'
<1> SUFFICES ASSUME BudgetInv, [Next]_vars PROVE BudgetInv'
  OBVIOUS
<1>k. KnownInv'
  BY KnownStep DEF BudgetInv
<1> SUFFICES ASSUME NEW j \in Job PROVE InBudget(j)'
  BY <1>k DEF BudgetInv
<1>0. /\ Claimed /\ TypeOK /\ JobsFollowLocation /\ InBudget(j)
      /\ \A w \in Workers : Known(w) /\ (Busy(w) => JobOf(w) \in Job)
  BY DEF BudgetInv, KnownInv, Claimed, TypeOK
<1>t. /\ status \in [Job -> JobStatus] /\ attempts \in [Job -> Nat]
      /\ attempts[j] \in Nat /\ faultCount \in Nat /\ MaxAttempts \in Nat
  BY <1>0, Bounds DEF TypeOK
\* A step that leaves the row alone and takes the job from nobody.
<1>s. ASSUME status'[j] = status[j] \/ status'[j] \in {"COMPLETED", "FAILED"},
             attempts'[j] = attempts[j], faultCount' = faultCount,
             \A v \in Workers : Busy(v) /\ JobOf(v) = j => Busy(v)' /\ JobOf(v)' = j
      PROVE  InBudget(j)'
  BY <1>0, <1>s DEF InBudget, Waiting
<1>1. ASSUME NEW w \in Workers, WorkerStep(w) PROVE InBudget(j)'
  <2>0. /\ faultCount' = faultCount
        /\ \A v \in Workers \ {w} : Busy(v) => Busy(v)' /\ JobOf(v)' = JobOf(v)
    BY <1>0, <1>1, WorkerWrites, OthersRows
  <2>1. CASE Untouched /\ (GoesOn(w) \/ ~Busy(w))
    <3>1. \A v \in Workers : Busy(v) /\ JobOf(v) = j => Busy(v)' /\ JobOf(v)' = j
      BY <2>0, <2>1 DEF GoesOn
    <3>2. status' = status /\ attempts' = attempts
      BY <2>1 DEF Untouched
    <3>3. QED BY <1>s, <2>0, <3>1, <3>2
  <2>2. CASE Taken(w)
    <3>1. PICK k \in Job : /\ status[k] = "PENDING" /\ ~Busy(w) /\ JobOf(w)' = k /\ pc'[w] = "load"
                           /\ status' = [status EXCEPT ![k] = "RUNNING"]
                           /\ attempts' = [attempts EXCEPT ![k] = @ + 1]
      BY <2>2 DEF Taken
    <3>2. CASE j = k
      <4>1. attempts[j] < MaxAttempts + faultCount
        BY <1>0, <3>1, <3>2 DEF InBudget, Waiting
      <4>2. attempts'[j] = attempts[j] + 1 /\ status'[j] = "RUNNING"
        BY <1>t, <3>1, <3>2
      <4>3. Busy(w)' /\ JobOf(w)' = j
        BY <3>1, <3>2 DEF Busy
      <4>4. ~Waiting(j)'
        BY <4>2, <4>3 DEF Waiting
      <4>5. QED BY <1>t, <2>0, <4>1, <4>2, <4>4 DEF InBudget
    <3>3. CASE j # k
      <4>1. status'[j] = status[j] /\ attempts'[j] = attempts[j]
        BY <1>t, <3>1, <3>3
      <4>2. \A v \in Workers : Busy(v) /\ JobOf(v) = j => Busy(v)' /\ JobOf(v)' = j
        BY <2>0, <3>1
      <4>3. QED BY <1>s, <2>0, <4>1, <4>2
    <3>4. QED BY <3>2, <3>3
  <2>3. CASE Recovered /\ ~Busy(w)
    <3>1. \A v \in Workers : Busy(v) /\ JobOf(v) = j => Busy(v)' /\ JobOf(v)' = j
      BY <2>0, <2>3
    <3>2. CASE Stale(j)
      <4>1. \A v \in Workers : Busy(v) => JobOf(v) # j
        BY <1>0, <3>2, HeldRow
      <4>2. Waiting(j)
        BY <3>2, <4>1 DEF Waiting, Stale
      <4>3. QED BY <1>0, <2>0, <2>3, <4>2 DEF Recovered, InBudget
    <3>3. CASE ~Stale(j)
      <4>1. status'[j] = status[j] /\ attempts'[j] = attempts[j]
        BY <2>3, <3>3 DEF Recovered
      <4>2. QED BY <1>s, <2>0, <3>1, <4>1
    <3>4. QED BY <3>2, <3>3
  <2>4. CASE Ended(w)
    <3>1. attempts' = attempts /\ Busy(w) /\ JobOf(w) \in Job
      BY <1>0, <2>4 DEF Ended
    <3>2. CASE JobOf(w) # j
      <4>1. status'[j] = status[j]
        BY <1>t, <2>4, <3>2 DEF Ended
      <4>2. \A v \in Workers : Busy(v) /\ JobOf(v) = j => Busy(v)' /\ JobOf(v)' = j
        BY <2>0, <3>2
      <4>3. QED BY <1>s, <2>0, <3>1, <4>1, <4>2
    <3>3. CASE JobOf(w) = j /\ status'[j] \in {"COMPLETED", "FAILED"}
      BY <1>0, <2>0, <3>1, <3>3 DEF InBudget, Waiting
    <3>4. CASE JobOf(w) = j /\ pc[w] = "fail" /\ MayRetry(w)
      <4>1. attempts[j] < MaxAttempts
        BY <1>0, <3>1, <3>4 DEF Known, MayRetry
      <4>2. attempts'[j] < MaxAttempts + faultCount'
        BY <1>t, <2>0, <3>1, <4>1
      <4>3. attempts'[j] <= MaxAttempts + faultCount'
        BY <1>t, <2>0, <3>1, <4>1
      <4>4. QED BY <4>2, <4>3 DEF InBudget
    <3>5. QED BY <1>t, <2>4, <3>2, <3>3, <3>4 DEF Ended
  <2>5. QED BY <1>0, <1>1, <2>1, <2>2, <2>3, <2>4, WorkerWrites
<1>2. ASSUME NEW w \in Workers, FaultStep(w) PROVE InBudget(j)'
  <2>1. attempts' = attempts /\ faultCount' = faultCount + 1
    BY <1>0, <1>2, FaultWrites
  <2>2. attempts[j] <= MaxAttempts + faultCount
    BY <1>0 DEF InBudget
  <2>3. attempts'[j] < MaxAttempts + faultCount' /\ attempts'[j] <= MaxAttempts + faultCount'
    BY <1>t, <2>1, <2>2
  <2>4. QED BY <2>3 DEF InBudget
<1>3. ASSUME NEW m \in Meetings, MeetingStep(m) PROVE InBudget(j)'
  <2>1. UNCHANGED <<attempts, pc, task, faultCount>>
    BY <1>0, <1>3, LocationWrites
  <2>2. CASE j.meeting = m /\ j.version = version[m] + 1
    <3>1. version[m] \in Nat
      BY <1>0, Bounds DEF TypeOK
    <3>2. Waiting(j)
      BY <1>0, <2>2, <3>1, RowVersion DEF Waiting
    <3>3. QED BY <1>0, <2>1, <3>2 DEF InBudget
  <2>3. CASE ~(j.meeting = m /\ j.version = version[m] + 1)
    <3>1. status'[j] = status[j] \/ status'[j] = "FAILED"
      BY <1>0, <1>3, <2>3, LocationWrites
    <3>2. QED BY <1>s, <2>1, <3>1 DEF Busy, JobOf
  <2>4. QED BY <2>2, <2>3
<1>4. ASSUME Tick \/ UNCHANGED vars PROVE InBudget(j)'
  BY <1>s, <1>4 DEF Tick, vars, jobVars, Busy, JobOf
<1>5. QED BY <1>1, <1>2, <1>3, <1>4 DEF Next

\* A job is taken up at most MAX_ATTEMPTS times, and once more for every fault
\* that made a worker abandon it: the retry decision, which reads the attempt
\* count at the start of the run, adds none.
THEOREM Budget ==
  ASSUME Prompt
  PROVE  Spec => []AttemptBudget
<1>1. Init => BudgetInv
  <2> SUFFICES ASSUME Init PROVE BudgetInv
    OBVIOUS
  <2>1. KnownInv
    BY OwnedInit DEF OwnedInv
  <2>2. \A j \in Job : InBudget(j)
    BY Bounds DEF Init, InBudget
  <2>3. QED BY <2>1, <2>2 DEF BudgetInv
<1>2. BudgetInv => AttemptBudget
  BY DEF BudgetInv, InBudget, AttemptBudget
<1>3. BudgetInv /\ [Next]_vars => BudgetInv'
  BY BudgetStep
<1>4. QED BY <1>1, <1>2, <1>3, PTL DEF Spec
=============================================================================
