---------------------------- MODULE CourseImage ----------------------------
(***************************************************************************)
(* The course image of one meeting: concurrent requests that store it      *)
(* (MeetingService.storeCourseImage over MediaService), and the worker     *)
(* that removes what failed requests left behind (MediaCleanupWorker).     *)
(*                                                                         *)
(* An image is an object of the bucket, a media_asset row, and a reference *)
(* from the meeting; no transaction spans the three, so each is an action  *)
(* of its own and may fail by itself.  Every request makes a fresh object  *)
(* key, so a key is named after its request.                               *)
(***************************************************************************)
EXTENDS Naturals, FiniteSets

CONSTANTS
  Requests,       \* POST course-image requests, and the object keys they make
  BatchSize,      \* CLEANUP_BATCH_SIZE
  MaxFaults,      \* bound: how many statements fail
  LostPublish,    \* the meeting's UPDATE may commit without its reply
  None            \* no key

ASSUME ImageAssumption ==
  /\ BatchSize \in Nat \ {0}
  /\ MaxFaults \in Nat
  /\ LostPublish \in BOOLEAN
  /\ None \notin Requests

VARIABLES
  confirmed,      \* meeting.status = COURSE_CONFIRMED
  imageKey,       \* meeting.course_image_key
  object,         \* the bucket's objects: absent, or younger or older than the grace period
  row,            \* the media_asset rows, likewise
  pc,             \* where each request is
  answer,         \* the key each request was answered with
  cleaner,        \* where the cleanup worker is
  batch,          \* the keys it has selected and not yet dealt with
  target,         \* the key whose object it deleted and whose row it deletes next
  faultCount      \* faults so far

vars == <<confirmed, imageKey, object, row, pc, answer, cleaner, batch, target,
          faultCount>>
meetingVars == <<confirmed, imageKey>>
cleanerVars == <<cleaner, batch, target>>

Age == {"none", "young", "old"}
Over == {"answered", "rejected", "failed"}
PC == {"new", "upload", "save", "compensate", "publish", "undo", "undoRow",
       "yield", "yieldRow", "winner"} \cup Over

Init ==
  /\ confirmed = FALSE
  /\ imageKey = None
  /\ object = [r \in Requests |-> "none"]
  /\ row = [r \in Requests |-> "none"]
  /\ pc = [r \in Requests |-> "new"]
  /\ answer = [r \in Requests |-> None]
  /\ cleaner = "sleep" /\ batch = {} /\ target = None
  /\ faultCount = 0

Goto(r, from, to) == pc[r] = from /\ pc' = [pc EXCEPT ![r] = to]

Fault ==
  /\ faultCount < MaxFaults
  /\ faultCount' = faultCount + 1

-----------------------------------------------------------------------------
(* storeCourseImage                                                        *)

\* The meeting is read once, before the upload.
ReadMeeting(r) ==
  /\ pc[r] = "new"
  /\ IF ~confirmed THEN Goto(r, "new", "rejected") /\ UNCHANGED answer
     ELSE IF imageKey # None
     THEN Goto(r, "new", "answered") /\ answer' = [answer EXCEPT ![r] = imageKey]
     ELSE Goto(r, "new", "upload") /\ UNCHANGED answer
  /\ UNCHANGED <<meetingVars, object, row, cleanerVars, faultCount>>

\* storePublicImage: the object, then its row; a failed save takes the object back.
Upload(r) ==
  /\ Goto(r, "upload", "save")
  /\ object' = [object EXCEPT ![r] = "young"]
  /\ UNCHANGED <<meetingVars, row, answer, cleanerVars, faultCount>>

UploadFails(r) ==
  /\ Goto(r, "upload", "failed")
  /\ \E a \in {"none", "young"} : object' = [object EXCEPT ![r] = a]
  /\ Fault
  /\ UNCHANGED <<meetingVars, row, answer, cleanerVars>>

SaveAsset(r) ==
  /\ Goto(r, "save", "publish")
  /\ row' = [row EXCEPT ![r] = "young"]
  /\ UNCHANGED <<meetingVars, object, answer, cleanerVars, faultCount>>

\* The INSERT is rejected, or commits without its reply.
SaveAssetFails(r) ==
  /\ Goto(r, "save", "compensate")
  /\ \E a \in {"none", "young"} : row' = [row EXCEPT ![r] = a]
  /\ Fault
  /\ UNCHANGED <<meetingVars, object, answer, cleanerVars>>

CompensateUpload(r) ==
  /\ Goto(r, "compensate", "failed")
  /\ object' = [object EXCEPT ![r] = "none"]
  /\ UNCHANGED <<meetingVars, row, answer, cleanerVars, faultCount>>

\* The deletion of the object fails, which is only logged.
CompensateUploadFails(r) ==
  /\ Goto(r, "compensate", "failed")
  /\ Fault
  /\ UNCHANGED <<meetingVars, object, row, answer, cleanerVars>>

\* Faulty: the last request to arrive wins.
PublishableAgain == confirmed

\* The WHERE clause of the UPDATE that publishes the image.
Publishable == confirmed /\ imageKey = None

Publish(r) ==
  /\ pc[r] = "publish"
  /\ IF Publishable
     THEN /\ imageKey' = r
          /\ answer' = [answer EXCEPT ![r] = r]
          /\ Goto(r, "publish", "answered")
     ELSE /\ Goto(r, "publish", "yield")
          /\ UNCHANGED <<imageKey, answer>>
  /\ UNCHANGED <<confirmed, object, row, cleanerVars, faultCount>>

\* The UPDATE is rejected, or commits without its reply.
PublishFails(r) ==
  /\ Goto(r, "publish", "undo")
  /\ \/ UNCHANGED imageKey
     \/ LostPublish /\ Publishable /\ imageKey' = r
  /\ Fault
  /\ UNCHANGED <<confirmed, object, row, answer, cleanerVars>>

\* discardStoredImage: the object, then its row; the row stays if the object does.
DiscardObject(r) ==
  /\ Goto(r, "undo", "undoRow") \/ Goto(r, "yield", "yieldRow")
  /\ object' = [object EXCEPT ![r] = "none"]
  /\ UNCHANGED <<meetingVars, row, answer, cleanerVars, faultCount>>

DiscardRow(r) ==
  /\ Goto(r, "undoRow", "failed") \/ Goto(r, "yieldRow", "winner")
  /\ row' = [row EXCEPT ![r] = "none"]
  /\ UNCHANGED <<meetingVars, object, answer, cleanerVars, faultCount>>

\* Either deletion fails, which is only logged.
DiscardFails(r) ==
  /\ \/ Goto(r, "undo", "failed") \/ Goto(r, "undoRow", "failed")
     \/ Goto(r, "yield", "winner") \/ Goto(r, "yieldRow", "winner")
  /\ Fault
  /\ UNCHANGED <<meetingVars, object, row, answer, cleanerVars>>

\* The loser is answered with the image that was published instead of its own.
ReadWinner(r) ==
  /\ pc[r] = "winner"
  /\ IF confirmed /\ imageKey # None
     THEN Goto(r, "winner", "answered") /\ answer' = [answer EXCEPT ![r] = imageKey]
     ELSE Goto(r, "winner", "rejected") /\ UNCHANGED answer
  /\ UNCHANGED <<meetingVars, object, row, cleanerVars, faultCount>>

\* The API process dies, or a read fails: the request stops where it is.
Abort(r) ==
  /\ pc[r] \notin Over \cup {"new"}
  /\ pc' = [pc EXCEPT ![r] = "failed"]
  /\ Fault
  /\ UNCHANGED <<meetingVars, object, row, answer, cleanerVars>>

-----------------------------------------------------------------------------
(* MediaCleanupWorker and reconcileOrphanedMedia.                          *)

\* Faulty: the reference from the meeting is not looked for.
UnreferencedByPlace == {r \in Requests : row[r] = "old"}

\* Old rows that no meeting refers to.
Unreferenced == {r \in Requests : row[r] = "old" /\ imageKey # r}

\* Old objects without a row: they were listed first, and the rows found after.
Untracked == {r \in Requests : object[r] = "old" /\ row[r] = "none"}

\* At most BatchSize of the keys; which ones come first is left open.
Batches(keys) ==
  {b \in SUBSET keys : Cardinality(b) = BatchSize \/ (b = keys /\ Cardinality(b) < BatchSize)}

SelectAssets ==
  /\ cleaner = "sleep" /\ cleaner' = "assets"
  /\ batch' \in Batches(Unreferenced)
  /\ UNCHANGED <<meetingVars, object, row, pc, answer, target, faultCount>>

\* discardStoredImage again, one selected asset after the other.
CleanAssetObject(k) ==
  /\ cleaner = "assets" /\ k \in batch /\ target = None
  /\ object' = [object EXCEPT ![k] = "none"]
  /\ batch' = batch \ {k} /\ target' = k
  /\ UNCHANGED <<meetingVars, row, pc, answer, cleaner, faultCount>>

\* Faulty: the row is left behind.
ForgetAssetRow ==
  /\ cleaner = "assets" /\ target # None
  /\ target' = None
  /\ UNCHANGED <<meetingVars, object, row, pc, answer, cleaner, batch, faultCount>>

CleanAssetRow ==
  /\ cleaner = "assets" /\ target # None
  /\ row' = [row EXCEPT ![target] = "none"]
  /\ target' = None
  /\ UNCHANGED <<meetingVars, object, pc, answer, cleaner, batch, faultCount>>

SelectObjects ==
  /\ cleaner = "assets" /\ batch = {} /\ target = None
  /\ cleaner' = "objects"
  /\ batch' \in Batches(Untracked)
  /\ UNCHANGED <<meetingVars, object, row, pc, answer, target, faultCount>>

CleanUntrackedObject(k) ==
  /\ cleaner = "objects" /\ k \in batch
  /\ object' = [object EXCEPT ![k] = "none"]
  /\ batch' = batch \ {k}
  /\ UNCHANGED <<meetingVars, row, pc, answer, cleaner, target, faultCount>>

EndPass ==
  /\ cleaner = "objects" /\ batch = {}
  /\ cleaner' = "sleep"
  /\ UNCHANGED <<meetingVars, object, row, pc, answer, batch, target, faultCount>>

\* A deletion fails: it is logged, and the pass goes on with the next key.
CleanFails ==
  /\ Fault
  /\ \/ target # None /\ target' = None /\ UNCHANGED batch
     \/ target = None /\ (\E k \in batch : batch' = batch \ {k}) /\ UNCHANGED target
  /\ UNCHANGED <<meetingVars, object, row, pc, answer, cleaner>>

\* A query that selects fails, which is logged: the pass goes on without a selection.
SelectionFails ==
  /\ \/ cleaner = "sleep" /\ cleaner' = "assets"
     \/ cleaner = "assets" /\ batch = {} /\ target = None /\ cleaner' = "objects"
  /\ Fault
  /\ UNCHANGED <<meetingVars, object, row, pc, answer, batch, target>>

\* The worker dies, or the listing of a later page fails.
CleanerRestarts ==
  /\ cleaner # "sleep" /\ cleaner' = "sleep"
  /\ batch' = {} /\ target' = None
  /\ Fault
  /\ UNCHANGED <<meetingVars, object, row, pc, answer>>

-----------------------------------------------------------------------------
(* Outside this component: the course is confirmed, and time passes.  A    *)
(* request is over long before its image is older than the grace period.   *)

ConfirmCourse ==
  /\ ~confirmed /\ confirmed' = TRUE
  /\ UNCHANGED <<imageKey, object, row, pc, answer, cleanerVars, faultCount>>

ObjectAges(r) ==
  /\ pc[r] \in Over /\ object[r] = "young"
  /\ object' = [object EXCEPT ![r] = "old"]
  /\ UNCHANGED <<meetingVars, row, pc, answer, cleanerVars, faultCount>>

RowAges(r) ==
  /\ pc[r] \in Over /\ row[r] = "young"
  /\ row' = [row EXCEPT ![r] = "old"]
  /\ UNCHANGED <<meetingVars, object, pc, answer, cleanerVars, faultCount>>

-----------------------------------------------------------------------------
Request(r) ==
  \/ Upload(r) \/ UploadFails(r) \/ SaveAsset(r) \/ SaveAssetFails(r)
  \/ CompensateUpload(r) \/ CompensateUploadFails(r)
  \/ Publish(r) \/ PublishFails(r)
  \/ DiscardObject(r) \/ DiscardRow(r) \/ DiscardFails(r)
  \/ ReadWinner(r) \/ Abort(r)

Cleanup ==
  \/ SelectAssets \/ (\E k \in Requests : CleanAssetObject(k)) \/ CleanAssetRow
  \/ SelectObjects \/ (\E k \in Requests : CleanUntrackedObject(k)) \/ EndPass
  \/ CleanFails \/ SelectionFails \/ CleanerRestarts

Ageing(r) == ObjectAges(r) \/ RowAges(r)

Next ==
  \/ \E r \in Requests : ReadMeeting(r) \/ Request(r) \/ Ageing(r)
  \/ Cleanup \/ ConfirmCourse

Spec == Init /\ [][Next]_vars

\* A request that has begun goes on, the worker loop runs, and time passes; nobody
\* has to send a request or to confirm the course.
FairSpec ==
  /\ Spec
  /\ WF_vars(Cleanup)
  /\ \A r \in Requests : WF_vars(Request(r)) /\ WF_vars(Ageing(r))

-----------------------------------------------------------------------------
(* Properties.                                                             *)

\* Type correctness of the stores, the requests and the cleanup worker.
TypeOK ==
  /\ confirmed \in BOOLEAN
  /\ imageKey \in Requests \cup {None}
  /\ object \in [Requests -> Age] /\ row \in [Requests -> Age]
  /\ pc \in [Requests -> PC]
  /\ answer \in [Requests -> Requests \cup {None}]
  /\ cleaner \in {"sleep", "assets", "objects"}
  /\ batch \subseteq Requests /\ target \in Requests \cup {None}
  /\ faultCount \in 0..MaxFaults

\* What the meeting shows can be downloaded: its object and its row exist, and no
\* compensation or cleanup pass removes them.
PublishedStored ==
  imageKey # None => object[imageKey] # "none" /\ row[imageKey] # "none"

\* Why: what anybody is about to delete is not, and will not be, published.
DeletesUnpublished ==
  /\ TypeOK
  /\ \A r \in Requests :
       /\ imageKey = r => pc[r] = "answered"
       /\ pc[r] \in {"save", "publish"} => object[r] = "young"
       /\ pc[r] = "publish" => row[r] = "young"
       /\ object[r] = "old" \/ row[r] = "old" => pc[r] \in Over
  /\ \A k \in batch \cup {target} : k # None => k # imageKey /\ pc[k] \in Over
  /\ PublishedStored

\* Every request that was answered was answered with the one published image,
\* whichever request stored it.
AnsweredPublished ==
  \A r \in Requests : pc[r] = "answered" => answer[r] = imageKey /\ imageKey # None

\* Whatever failed, in the end nothing is stored but the image that is shown.
OrphansRemoved ==
  <>[](\A r \in Requests : object[r] # "none" \/ row[r] # "none" => imageKey = r)
=============================================================================
