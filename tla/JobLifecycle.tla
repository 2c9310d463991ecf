---------------------------- MODULE JobLifecycle ----------------------------
(***************************************************************************)
(* What the place_sync_job queue promises to those who only see its rows:  *)
(* no worker, lease, clock or tile appears here.  A job belongs to one     *)
(* version of a meeting's location.  A change of location fails the older  *)
(* jobs that are not over; apart from that only a job somebody runs is     *)
(* finished, retried or given up, it is taken up again while it has        *)
(* attempts left, and a finished one stays as it is.                       *)
(***************************************************************************)
EXTENDS Naturals

CONSTANTS
  Meetings, MaxVersion, Categories,
  MaxAttempts     \* how often a job that keeps failing is taken up

Job == [meeting : Meetings, version : 1..MaxVersion, category : Categories]

VARIABLES
  current,        \* the version of each meeting's location, 0 before there is one
  state,          \* of each job
  taken           \* how often each job was taken up

lifecycleVars == <<current, state, taken>>

Init ==
  /\ current = [m \in Meetings |-> 0]
  /\ state = [j \in Job |-> "absent"]
  /\ taken = [j \in Job |-> 0]

Superseded(j) == j.version < current[j.meeting]

\* A job that a worker may be running: one that runs, or one that was failed
\* under its worker's hands because its location changed.
Underway(j) == state[j] = "RUNNING" \/ (state[j] = "FAILED" /\ Superseded(j))

\* A first or a new location: a job waits for each category of the plan, the
\* unfinished older ones fail.
SetLocation(m, plan) ==
  /\ current[m] < MaxVersion
  /\ current' = [current EXCEPT ![m] = @ + 1]
  /\ state' = [j \in Job |->
       IF j.meeting = m /\ j.version = current[m] + 1 /\ j.category \in plan
         THEN "PENDING"
       ELSE IF j.meeting = m /\ state[j] \in {"PENDING", "RUNNING"} THEN "FAILED"
       ELSE state[j]]
  /\ UNCHANGED taken

Take(j) ==
  /\ state[j] = "PENDING"
  /\ state' = [state EXCEPT ![j] = "RUNNING"]
  /\ taken' = [taken EXCEPT ![j] = @ + 1]
  /\ UNCHANGED current

Finish(j) ==
  /\ Underway(j)
  /\ state' = [state EXCEPT ![j] = "COMPLETED"]
  /\ UNCHANGED <<current, taken>>

Retry(j) ==
  /\ Underway(j) /\ taken[j] < MaxAttempts
  /\ state' = [state EXCEPT ![j] = "PENDING"]
  /\ UNCHANGED <<current, taken>>

GiveUp(j) ==
  /\ Underway(j) /\ taken[j] >= MaxAttempts
  /\ state' = [state EXCEPT ![j] = "FAILED"]
  /\ UNCHANGED <<current, taken>>

\* Running jobs whose workers are taken for dead wait again.
Recover(jobs) ==
  /\ \A j \in jobs : state[j] = "RUNNING"
  /\ state' = [j \in Job |-> IF j \in jobs THEN "PENDING" ELSE state[j]]
  /\ UNCHANGED <<current, taken>>

Next ==
  \/ \E m \in Meetings, plan \in SUBSET Categories : SetLocation(m, plan)
  \/ \E j \in Job : Take(j) \/ Finish(j) \/ Retry(j) \/ GiveUp(j)
  \/ \E jobs \in SUBSET Job : Recover(jobs)

Spec == Init /\ [][Next]_lifecycleVars
=============================================================================
