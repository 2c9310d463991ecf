------------------------- MODULE CourseImageProofs -------------------------
(***************************************************************************)
(* That the compensation of failed requests and the cleanup worker remove  *)
(* only unpublished images, for any number of requests, any batch size and *)
(* any faults but a lost reply to the publishing UPDATE.                   *)
(***************************************************************************)
EXTENDS CourseImage, TLAPS

LEMMA BatchesAreParts ==
  ASSUME NEW keys, NEW b \in Batches(keys)
  PROVE  b \subseteq keys
  BY DEF Batches

LEMMA TypeInit == Init => TypeOK
  <1> SUFFICES ASSUME Init PROVE TypeOK
    OBVIOUS
  <1>1. "none" \in Age /\ "new" \in PC
    BY DEF Age, PC
  <1>2. object \in [Requests -> Age] /\ row \in [Requests -> Age] /\ pc \in [Requests -> PC]
    <2>1. /\ object = [r \in Requests |-> "none"] /\ row = [r \in Requests |-> "none"]
          /\ pc = [r \in Requests |-> "new"]
      BY DEF Init
    <2>2. object \in [Requests -> Age] /\ row \in [Requests -> Age]
      BY <1>1, <2>1, Zenon
    <2>3. pc \in [Requests -> PC]
      BY <1>1, <2>1, Zenon
    <2> QED BY <2>2, <2>3
  <1>3. answer \in [Requests -> Requests \cup {None}]
    BY DEF Init
  <1>4. confirmed \in BOOLEAN /\ imageKey \in Requests \cup {None} /\ faultCount \in 0..MaxFaults
    <2>1. confirmed = FALSE /\ imageKey = None /\ faultCount = 0
      BY DEF Init
    <2>2. 0 \in 0..MaxFaults
      BY ImageAssumption
    <2> QED BY <2>1, <2>2, Zenon
  <1>5. cleaner \in {"sleep", "assets", "objects"} /\ batch \subseteq Requests
        /\ target \in Requests \cup {None}
    BY DEF Init
  <1> QED BY <1>2, <1>3, <1>4, <1>5 DEF TypeOK

LEMMA DeletesInit == Init => DeletesUnpublished
  <1> SUFFICES ASSUME Init PROVE DeletesUnpublished
    OBVIOUS
  <1>1. TypeOK
    BY TypeInit
  <1>2. PublishedStored
    BY DEF Init, PublishedStored
  <1> QED BY <1>1, <1>2, ImageAssumption DEF Init, DeletesUnpublished

LEMMA DeletesStep ==
  ASSUME ~LostPublish, DeletesUnpublished, [Next]_vars
  PROVE  DeletesUnpublished'
  <1> USE ImageAssumption DEF meetingVars, cleanerVars, Goto, Fault, Over, Age, PC
  <1>0. CASE UNCHANGED vars
    BY <1>0 DEF vars, DeletesUnpublished, TypeOK, PublishedStored
  <1>1. CASE Next
  <2>1. ASSUME NEW r \in Requests, ReadMeeting(r) PROVE DeletesUnpublished'
    BY <2>1 DEF ReadMeeting, DeletesUnpublished, TypeOK, PublishedStored
  <2>2. ASSUME NEW r \in Requests, Upload(r) PROVE DeletesUnpublished'
    BY <2>2 DEF Upload, DeletesUnpublished, TypeOK, PublishedStored
  <2>3. ASSUME NEW r \in Requests, UploadFails(r) PROVE DeletesUnpublished'
    BY <2>3 DEF UploadFails, DeletesUnpublished, TypeOK, PublishedStored
  <2>4. ASSUME NEW r \in Requests, SaveAsset(r) PROVE DeletesUnpublished'
    BY <2>4 DEF SaveAsset, DeletesUnpublished, TypeOK, PublishedStored
  <2>5. ASSUME NEW r \in Requests, SaveAssetFails(r) PROVE DeletesUnpublished'
    BY <2>5 DEF SaveAssetFails, DeletesUnpublished, TypeOK, PublishedStored
  <2>6. ASSUME NEW r \in Requests, CompensateUpload(r) PROVE DeletesUnpublished'
    BY <2>6 DEF CompensateUpload, DeletesUnpublished, TypeOK, PublishedStored
  <2>7. ASSUME NEW r \in Requests, CompensateUploadFails(r) PROVE DeletesUnpublished'
    BY <2>7 DEF CompensateUploadFails, DeletesUnpublished, TypeOK, PublishedStored
  <2>8. ASSUME NEW r \in Requests, Publish(r) PROVE DeletesUnpublished'
    BY <2>8 DEF Publish, Publishable, DeletesUnpublished, TypeOK, PublishedStored
  <2>9. ASSUME NEW r \in Requests, PublishFails(r) PROVE DeletesUnpublished'
    BY <2>9 DEF PublishFails, Publishable, DeletesUnpublished, TypeOK, PublishedStored
  <2>10. ASSUME NEW r \in Requests, DiscardObject(r) PROVE DeletesUnpublished'
    BY <2>10 DEF DiscardObject, DeletesUnpublished, TypeOK, PublishedStored
  <2>11. ASSUME NEW r \in Requests, DiscardRow(r) PROVE DeletesUnpublished'
    BY <2>11 DEF DiscardRow, DeletesUnpublished, TypeOK, PublishedStored
  <2>12. ASSUME NEW r \in Requests, DiscardFails(r) PROVE DeletesUnpublished'
    BY <2>12 DEF DiscardFails, DeletesUnpublished, TypeOK, PublishedStored
  <2>13. ASSUME NEW r \in Requests, ReadWinner(r) PROVE DeletesUnpublished'
    BY <2>13 DEF ReadWinner, DeletesUnpublished, TypeOK, PublishedStored
  <2>14. ASSUME NEW r \in Requests, Abort(r) PROVE DeletesUnpublished'
    BY <2>14 DEF Abort, DeletesUnpublished, TypeOK, PublishedStored
  <2>15. ASSUME NEW r \in Requests, ObjectAges(r) PROVE DeletesUnpublished'
    BY <2>15 DEF ObjectAges, DeletesUnpublished, TypeOK, PublishedStored
  <2>16. ASSUME NEW r \in Requests, RowAges(r) PROVE DeletesUnpublished'
    BY <2>16 DEF RowAges, DeletesUnpublished, TypeOK, PublishedStored
  <2>17. ASSUME SelectAssets PROVE DeletesUnpublished'
    BY <2>17, BatchesAreParts DEF SelectAssets, Unreferenced, DeletesUnpublished, TypeOK, PublishedStored
  <2>18. ASSUME NEW k \in Requests, CleanAssetObject(k) PROVE DeletesUnpublished'
    BY <2>18 DEF CleanAssetObject, DeletesUnpublished, TypeOK, PublishedStored
  <2>19. ASSUME CleanAssetRow PROVE DeletesUnpublished'
    BY <2>19 DEF CleanAssetRow, DeletesUnpublished, TypeOK, PublishedStored
  <2>20. ASSUME SelectObjects PROVE DeletesUnpublished'
    BY <2>20, BatchesAreParts DEF SelectObjects, Untracked, DeletesUnpublished, TypeOK, PublishedStored
  <2>21. ASSUME NEW k \in Requests, CleanUntrackedObject(k) PROVE DeletesUnpublished'
    BY <2>21 DEF CleanUntrackedObject, DeletesUnpublished, TypeOK, PublishedStored
  <2>22. ASSUME EndPass PROVE DeletesUnpublished'
    BY <2>22 DEF EndPass, DeletesUnpublished, TypeOK, PublishedStored
  <2>23. ASSUME CleanFails PROVE DeletesUnpublished'
    BY <2>23 DEF CleanFails, DeletesUnpublished, TypeOK, PublishedStored
  <2>24. ASSUME CleanerRestarts PROVE DeletesUnpublished'
    BY <2>24 DEF CleanerRestarts, DeletesUnpublished, TypeOK, PublishedStored
  <2>25. ASSUME ConfirmCourse PROVE DeletesUnpublished'
    BY <2>25 DEF ConfirmCourse, DeletesUnpublished, TypeOK, PublishedStored
  <2>26. ASSUME SelectionFails PROVE DeletesUnpublished'
    BY <2>26 DEF SelectionFails, DeletesUnpublished, TypeOK, PublishedStored
    <2> QED BY <1>1, <2>1, <2>2, <2>3, <2>4, <2>5, <2>6, <2>7, <2>8, <2>9, <2>10, <2>11, <2>12, <2>13, <2>14, <2>15, <2>16, <2>17, <2>18, <2>19, <2>20, <2>21, <2>22, <2>23, <2>24, <2>25, <2>26
         DEF Next, Request, Cleanup, Ageing
  <1> QED BY <1>0, <1>1

\* What a meeting shows is stored, and nothing on its way to deletion is or will be
\* shown, unless the publishing UPDATE may commit without its reply.
THEOREM OnlyUnpublishedDeleted == ASSUME ~LostPublish PROVE Spec => []DeletesUnpublished
  <1>1. DeletesUnpublished /\ [Next]_vars => DeletesUnpublished'
    BY DeletesStep
  <1> QED BY <1>1, DeletesInit, PTL DEF Spec

\* A published course image can be downloaded.
THEOREM PublishedIsStored == ASSUME ~LostPublish PROVE Spec => []PublishedStored
  <1>1. DeletesUnpublished => PublishedStored
    BY DEF DeletesUnpublished
  <1> QED BY <1>1, OnlyUnpublishedDeleted, PTL

-----------------------------------------------------------------------------
\* What is answered does not depend on lost replies.
LEMMA AnswersStep ==
  ASSUME TypeOK, AnsweredPublished, [Next]_vars
  PROVE  TypeOK' /\ AnsweredPublished'
  <1> USE ImageAssumption DEF meetingVars, cleanerVars, Goto, Fault, Over, Age, PC
  <1> DEFINE Kept == TypeOK' /\ AnsweredPublished'
  <1>0. CASE UNCHANGED vars
    BY <1>0 DEF vars, TypeOK, AnsweredPublished
  <1>1. CASE Next
    <2>1. ASSUME NEW r \in Requests, ReadMeeting(r) PROVE Kept
      BY <2>1 DEF ReadMeeting, TypeOK, AnsweredPublished
    <2>2. ASSUME NEW r \in Requests, Upload(r) PROVE Kept
      BY <2>2 DEF Upload, TypeOK, AnsweredPublished
    <2>3. ASSUME NEW r \in Requests, UploadFails(r) PROVE Kept
      BY <2>3 DEF UploadFails, TypeOK, AnsweredPublished
    <2>4. ASSUME NEW r \in Requests, SaveAsset(r) PROVE Kept
      BY <2>4 DEF SaveAsset, TypeOK, AnsweredPublished
    <2>5. ASSUME NEW r \in Requests, SaveAssetFails(r) PROVE Kept
      BY <2>5 DEF SaveAssetFails, TypeOK, AnsweredPublished
    <2>6. ASSUME NEW r \in Requests, CompensateUpload(r) PROVE Kept
      BY <2>6 DEF CompensateUpload, TypeOK, AnsweredPublished
    <2>7. ASSUME NEW r \in Requests, CompensateUploadFails(r) PROVE Kept
      BY <2>7 DEF CompensateUploadFails, TypeOK, AnsweredPublished
    <2>8. ASSUME NEW r \in Requests, Publish(r) PROVE Kept
      BY <2>8 DEF Publish, Publishable, TypeOK, AnsweredPublished
    <2>9. ASSUME NEW r \in Requests, PublishFails(r) PROVE Kept
      BY <2>9 DEF PublishFails, Publishable, TypeOK, AnsweredPublished
    <2>10. ASSUME NEW r \in Requests, DiscardObject(r) PROVE Kept
      BY <2>10 DEF DiscardObject, TypeOK, AnsweredPublished
    <2>11. ASSUME NEW r \in Requests, DiscardRow(r) PROVE Kept
      BY <2>11 DEF DiscardRow, TypeOK, AnsweredPublished
    <2>12. ASSUME NEW r \in Requests, DiscardFails(r) PROVE Kept
      BY <2>12 DEF DiscardFails, TypeOK, AnsweredPublished
    <2>13. ASSUME NEW r \in Requests, ReadWinner(r) PROVE Kept
      BY <2>13 DEF ReadWinner, TypeOK, AnsweredPublished
    <2>14. ASSUME NEW r \in Requests, Abort(r) PROVE Kept
      BY <2>14 DEF Abort, TypeOK, AnsweredPublished
    <2>15. ASSUME NEW r \in Requests, ObjectAges(r) PROVE Kept
      BY <2>15 DEF ObjectAges, TypeOK, AnsweredPublished
    <2>16. ASSUME NEW r \in Requests, RowAges(r) PROVE Kept
      BY <2>16 DEF RowAges, TypeOK, AnsweredPublished
    <2>17. ASSUME SelectAssets PROVE Kept
      BY <2>17, BatchesAreParts DEF SelectAssets, Unreferenced, TypeOK, AnsweredPublished
    <2>18. ASSUME NEW k \in Requests, CleanAssetObject(k) PROVE Kept
      BY <2>18 DEF CleanAssetObject, TypeOK, AnsweredPublished
    <2>19. ASSUME CleanAssetRow PROVE Kept
      BY <2>19 DEF CleanAssetRow, TypeOK, AnsweredPublished
    <2>20. ASSUME SelectObjects PROVE Kept
      BY <2>20, BatchesAreParts DEF SelectObjects, Untracked, TypeOK, AnsweredPublished
    <2>21. ASSUME NEW k \in Requests, CleanUntrackedObject(k) PROVE Kept
      BY <2>21 DEF CleanUntrackedObject, TypeOK, AnsweredPublished
    <2>22. ASSUME EndPass PROVE Kept
      BY <2>22 DEF EndPass, TypeOK, AnsweredPublished
    <2>23. ASSUME CleanFails PROVE Kept
      BY <2>23 DEF CleanFails, TypeOK, AnsweredPublished
    <2>24. ASSUME CleanerRestarts PROVE Kept
      BY <2>24 DEF CleanerRestarts, TypeOK, AnsweredPublished
    <2>25. ASSUME ConfirmCourse PROVE Kept
      BY <2>25 DEF ConfirmCourse, TypeOK, AnsweredPublished
    <2>26. ASSUME SelectionFails PROVE Kept
      BY <2>26 DEF SelectionFails, TypeOK, AnsweredPublished
    <2> QED BY <1>1, <2>1, <2>2, <2>3, <2>4, <2>5, <2>6, <2>7, <2>8, <2>9, <2>10, <2>11, <2>12, <2>13, <2>14, <2>15, <2>16, <2>17, <2>18, <2>19, <2>20, <2>21, <2>22, <2>23, <2>24, <2>25, <2>26
         DEF Next, Request, Cleanup, Ageing
  <1> QED BY <1>0, <1>1

LEMMA AnswersInit == Init => TypeOK /\ AnsweredPublished
  BY TypeInit DEF Init, AnsweredPublished

\* All answered requests were answered with the one published image.
THEOREM OneAnswer == Spec => []AnsweredPublished
  <1>1. TypeOK /\ AnsweredPublished /\ [Next]_vars => TypeOK' /\ AnsweredPublished'
    BY AnswersStep
  <1> QED BY <1>1, AnswersInit, PTL DEF Spec
=============================================================================
