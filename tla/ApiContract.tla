---------------------------- MODULE ApiContract ----------------------------
(***************************************************************************)
(* What each HTTP endpoint answers: its pipes and schema, the checks of    *)
(* the service in their order, and the status that GlobalExceptionFilter   *)
(* makes of the first one that fails, next to the statuses the controller  *)
(* documents.  A meeting is followed from its creation, with one guest;    *)
(* requests are executed one after the other (their interleavings are the  *)
(* subject of MeetingPlan, Membership, CourseImage and PlaceSync).         *)
(***************************************************************************)
EXTENDS Integers, Sequences, FiniteSets

CONSTANTS
  Courses,    \* the category lists a request may carry
  Types,      \* the meeting types a request may carry
  Nicknames,  \* nicknames
  Spots,      \* base locations
  Places,     \* stored places
  SlugOf,     \* [Places -> category]
  Near,       \* [Spots -> SUBSET Places]: within 2 km
  MaxVersion, \* bound: the course versions a request may carry
  None

VARIABLES
  slugs,      \* category.slug
  typeCodes,  \* meeting_type.code
  meeting     \* the meeting, or None before its creation

vars == <<slugs, typeCodes, meeting>>

RangeOf(s) == {s[i] : i \in DOMAIN s}
Repeats(s) == Cardinality(RangeOf(s)) < Len(s)

CategorySlugsAhead ==  \* Faulty: a category that no migration seeds.
  {"restaurant", "cafe", "bar", "walk", "shopping", "activity", "culture", "other", "stay"}

CategorySlugs ==
  {"restaurant", "cafe", "bar", "walk", "shopping", "activity", "culture", "other"}

MeetingTypeCodes ==
  {"SOCIAL", "DATING_HOBBY", "COMPANY_DINNER", "FAMILY", "TRAVEL", "STUDY",
   "BUSINESS", "ANNIVERSARY_EXERCISE", "OTHER"}

-----------------------------------------------------------------------------
(* Exceptions and the filter.                                              *)

CommonErrorCode ==
  [VALIDATION_ERROR |-> 400, AUTHENTICATION_FAILED |-> 401, ACCESS_DENIED |-> 403,
   RESOURCE_NOT_FOUND |-> 404, CONFLICT |-> 409, REQUEST_FAILED |-> 400,
   NOT_IMPLEMENTED |-> 501, EXTERNAL_SERVICE_ERROR |-> 502,
   SERVICE_UNAVAILABLE |-> 503, INTERNAL_SERVER_ERROR |-> 500]

MeetingErrorCode ==
  [MEETING_NOT_FOUND |-> 404, MEETING_INVITATION_CODE_ISSUANCE_FAILED |-> 503,
   MEETING_TYPE_NOT_FOUND |-> 404, MEETING_INVALID_COURSE_CATEGORY |-> 400,
   MEETING_INVITATION_NOT_FOUND |-> 404, MEETING_NICKNAME_ALREADY_IN_USE |-> 409,
   MEETING_HOST_ONLY |-> 403, MEETING_STALE_COURSE_PLAN |-> 409,
   MEETING_PLACE_NOT_FOUND |-> 404, MEETING_PLACE_CATEGORY_MISMATCH |-> 400,
   MEETING_PLACE_OUTSIDE_RANGE |-> 400, MEETING_RECOMMENDATION_ALREADY_EXISTS |-> 409,
   MEETING_COURSE_IMAGE_STATE_INVALID |-> 409, MEETING_COURSE_IMAGE_NOT_FOUND |-> 404]

Thrown(code) == [kind |-> "BaseException", code |-> code]
Http(status) == [kind |-> "HttpException", status |-> status]
Unhandled == [kind |-> "Error"]

\* httpErrorCodeByStatus
HttpCode(status) ==
  CASE status = 400 -> "VALIDATION_ERROR" [] status = 401 -> "AUTHENTICATION_FAILED"
    [] status = 403 -> "ACCESS_DENIED" [] status = 404 -> "RESOURCE_NOT_FOUND"
    [] status = 409 -> "CONFLICT" [] status = 501 -> "NOT_IMPLEMENTED"
    [] status = 502 -> "EXTERNAL_SERVICE_ERROR" [] status = 503 -> "SERVICE_UNAVAILABLE"
    [] status \in 400..499 -> "REQUEST_FAILED"
    [] OTHER -> "INTERNAL_SERVER_ERROR"

StatusOf(code) == IF code \in DOMAIN CommonErrorCode THEN CommonErrorCode[code]
                  ELSE MeetingErrorCode[code]

ResolveOwnOnly(x) ==  \* Faulty: the exceptions of the framework are not recognised.
  IF x.kind = "BaseException" THEN [status |-> StatusOf(x.code), code |-> x.code]
  ELSE [status |-> 500, code |-> "INTERNAL_SERVER_ERROR"]

\* The framework's exceptions keep their status.
Resolve(x) ==
  CASE x.kind = "BaseException" -> [status |-> StatusOf(x.code), code |-> x.code]
    [] x.kind = "HttpException" -> [status |-> x.status, code |-> HttpCode(x.status)]
    [] x.kind = "Error" -> [status |-> 500, code |-> "INTERNAL_SERVER_ERROR"]

\* A check is a pair: when it fails, and what is thrown then.
Outcome(success, documented, checks) ==
  LET failed == {i \in DOMAIN checks : checks[i][1]}
  IN [documented |-> documented \cup {success},
      answer |-> IF failed = {} THEN [status |-> success, code |-> "OK"]
                 ELSE Resolve(checks[CHOOSE i \in failed : \A j \in failed : i <= j][2])]

-----------------------------------------------------------------------------
(* Ids and tokens.                                                         *)

\* The meeting's id, an id of no meeting, the meeting's id with a leading zero,
\* letters, and digits beyond bigint.
Ids == {"meeting", "unknown", "padded", "malformed", "huge"}

\* Whose token accessToken is; it may be missing, or stand twice in the query.
Tokens == {"host", "guest", "stranger", "blank", "twice"}

\* BIGINT_STRING_PATTERN
PipeRejects(id) == id \in {"padded", "malformed"}

\* What PostgreSQL does not take for a bigint.
DatabaseRejects(id) == id \in {"malformed", "huge"}

Nobody == [u \in {"host", "guest"} |-> None]
Joined == IF meeting = None THEN {} ELSE {u \in DOMAIN Nobody : meeting.nickname[u] # None}
Participant(q) == q.id \in {"meeting", "padded"} /\ q.token \in Joined

Invalid(q) == <<q.body = None, Thrown("VALIDATION_ERROR")>>
MalformedId(q) == <<PipeRejects(q.id), Thrown("VALIDATION_ERROR")>>
Failure(condition, code) == <<condition, Thrown(code)>>

\* assertAccessToken, then the query for the participant row.
Authentication(q) ==
  << <<q.token = "twice", Unhandled>>,
     Failure(q.token = "blank", "AUTHENTICATION_FAILED"),
     <<DatabaseRejects(q.id), Unhandled>>,
     Failure(~Participant(q), "AUTHENTICATION_FAILED") >>

HostOnly(q) == Failure(q.token # "host", "MEETING_HOST_ONLY")

-----------------------------------------------------------------------------
(* The endpoints.  A body that its schema rejects is written None.         *)

UnknownCategory(s) == Failure(~(RangeOf(s) \subseteq slugs), "MEETING_INVALID_COURSE_CATEGORY")

CreateMeeting(q) ==
  Outcome(201, {400, 404, 503},
    <<Invalid(q)>> \o
    IF q.body = None THEN <<>> ELSE
    <<Failure(q.body.type \notin typeCodes, "MEETING_TYPE_NOT_FOUND"),
      UnknownCategory(q.body.slugs),
      Failure(~q.drawn, "MEETING_INVITATION_CODE_ISSUANCE_FAILED")>>)

InvitationChecks(q, code) ==
  <<Invalid(q), Failure(meeting = None \/ code # "issued", "MEETING_INVITATION_NOT_FOUND")>>

\* @Post without @HttpCode answers 201; the controller documents 200.
PreviewInvitation(q) ==
  [Outcome(201, {400, 404}, InvitationChecks(q, q.body)) EXCEPT !.documented = {200, 400, 404}]

\* The screen names the host, so there has to be one.
MeetingScreen == <<Failure(meeting # None /\ "host" \notin Joined, "INTERNAL_SERVER_ERROR")>>

JoinMeeting(q) ==
  Outcome(201, {400, 404, 409},
    InvitationChecks(q, IF q.body = None THEN None ELSE q.body.code) \o
    IF q.body = None \/ meeting = None THEN <<>> ELSE
    <<Failure(\E u \in Joined \ {q.body.user} : meeting.nickname[u] = q.body.nickname,
              "MEETING_NICKNAME_ALREADY_IN_USE")>> \o MeetingScreen)

GetMeetingDetail(q) == Outcome(200, {401, 404}, Authentication(q) \o MeetingScreen)

GetRecommendations(q) == Outcome(200, {401}, Authentication(q))

GetCoursePlan(q) == Outcome(200, {401, 404}, Authentication(q))

UpdateCoursePlan(q) ==
  Outcome(200, {400, 401, 403, 404, 409},
    <<Invalid(q)>> \o Authentication(q) \o <<HostOnly(q)>> \o
    IF q.body = None \/ meeting = None THEN <<>> ELSE
    <<UnknownCategory(q.body.slugs),
      Failure(q.body.version # meeting.version, "MEETING_STALE_COURSE_PLAN")>>)

\* One job per step of the plan: a repeated category violates UQ_place_sync_job_scope.
RepeatedJob == <<meeting # None /\ Repeats(meeting.plan), Unhandled>>

\* PostgreSQL may refuse FOR UPDATE on the nullable side of the LEFT JOIN.
LockRefused(q) == <<~q.locked, Unhandled>>

UpdateLocationLookedUpFirst(q) ==  \* Faulty: the location is looked up before the participant.
  Outcome(200, {400, 401, 403, 404},
    <<Invalid(q), Failure(q.id \notin {"meeting", "padded"}, "MEETING_NOT_FOUND")>>
    \o Authentication(q) \o <<HostOnly(q), LockRefused(q), RepeatedJob>>)

UpdateLocation(q) ==
  Outcome(200, {400, 401, 403, 404},
    <<Invalid(q)>> \o Authentication(q) \o <<HostOnly(q), LockRefused(q), RepeatedJob>>)

\* The schemas want placeId and categoryId to be positive numbers: beyond bigint, too.
HugeNumber(q) == <<q.body = "huge", Unhandled>>

AddRecommendation(q) ==
  Outcome(201, {400, 401, 404, 409},
    <<Invalid(q)>> \o Authentication(q) \o
    <<HugeNumber(q), Failure(q.body \notin Places, "MEETING_PLACE_NOT_FOUND")>> \o
    IF q.body \notin Places \/ meeting = None THEN <<>> ELSE
    <<Failure(SlugOf[q.body] \notin RangeOf(meeting.plan), "MEETING_PLACE_CATEGORY_MISMATCH"),
      Failure(q.body \notin Near[meeting.spot], "MEETING_PLACE_OUTSIDE_RANGE"),
      Failure(q.body \in meeting.recommended, "MEETING_RECOMMENDATION_ALREADY_EXISTS")>>)

\* Nothing confirms a course yet: every meeting collects recommendations.
StoreCourseImage(q) ==
  Outcome(200, {400, 401, 403, 404, 409},
    << <<q.body = "oversized", Http(413)>>,
       <<q.body = None, Http(400)>>, MalformedId(q) >> \o Authentication(q) \o
    <<HostOnly(q), Failure(TRUE, "MEETING_COURSE_IMAGE_STATE_INVALID")>>)

DownloadCourseImage(q) ==
  Outcome(200, {401, 404},
    <<MalformedId(q)>> \o Authentication(q) \o
    <<Failure(TRUE, "MEETING_COURSE_IMAGE_NOT_FOUND")>>)

\* The schema trims the token and wants it to be one.
SearchPlaces(q) ==
  Outcome(200, {400, 401, 404},
    <<Invalid(q), MalformedId(q),
      Failure(q.token \in {"blank", "twice"}, "VALIDATION_ERROR")>> \o Authentication(q) \o
    <<HugeNumber(q)>>)

\* searchAddress: the key, the call, its status, its JSON and its shape.
KakaoFailures == {"timeout", "refused", "no JSON", "other shape"}
SearchAddress(q) ==
  <<Failure(q.body = "no key", "SERVICE_UNAVAILABLE"),
    Failure(q.body \in KakaoFailures, "EXTERNAL_SERVICE_ERROR")>>

SearchFirstMeetingPlaces(q) ==
  Outcome(200, {400, 502, 503}, <<Invalid(q)>> \o SearchAddress(q))

GetMeetingTypes(q) == Outcome(200, {}, <<>>)
GetCategories(q) == Outcome(200, {}, <<>>)
GetProfileAvatars(q) == Outcome(200, {}, <<>>)

-----------------------------------------------------------------------------
(* The endpoints that are declared and documented but not implemented: the *)
(* pipes of their parameters run, then NOT_IMPLEMENTED is thrown.          *)

AfterPipes(q, query) ==
  <<MalformedId(q), <<q.body = None, query>>, Failure(TRUE, "NOT_IMPLEMENTED")>>

NotImplemented(q, success, documented, query) ==
  Outcome(success, documented \cup {400, 401, 404, 501}, AfterPipes(q, query))

\* A query parameter: BigIntStringPipe and its kin throw one, ParseEnumPipe the other.
Piped == Thrown("VALIDATION_ERROR")
Enumerated == Http(400)

GetMeetingStatus(q) == NotImplemented(q, 200, {}, Piped)
GetMapPins(q) == NotImplemented(q, 200, {409}, Piped)
UpdatePlacePreference(q) == NotImplemented(q, 200, {409}, Piped)

\* excludeIds given twice is an array, which its pipe cannot split; the pipes of
\* the last parameters run first.
GetSimilarPlaces(q) ==
  Outcome(200, {400, 401, 404, 409, 501},
    << <<q.body = "twice", Unhandled>> >> \o AfterPipes(q, Piped))

GetPlaceDetail(q) == NotImplemented(q, 200, {}, Piped)
GenerateCourse(q) == NotImplemented(q, 202, {403, 409, 422}, Piped)
GetCourseCandidates(q) == NotImplemented(q, 200, {409}, Piped)
GetCourseDetail(q) == NotImplemented(q, 200, {409}, Piped)
GetCourseComments(q) == NotImplemented(q, 200, {409}, Piped)
CreateCourseComment(q) == NotImplemented(q, 201, {409}, Piped)
GetExcludedPlaces(q) == NotImplemented(q, 200, {409}, Enumerated)
AddCoursePlace(q) == NotImplemented(q, 201, {403, 409}, Piped)
UpdateCoursePlaces(q) == NotImplemented(q, 200, {403, 409}, Piped)
ConfirmCourse(q) == NotImplemented(q, 200, {403, 409}, Piped)

-----------------------------------------------------------------------------
(* Requests, answers and effects.                                          *)

\* For these, a body of None stands for a second path id or a query parameter
\* that its pipe rejects.
Unimplemented == {"getMeetingStatus", "getMapPins", "updatePlacePreference", "getSimilarPlaces",
           "getPlaceDetail", "generateCourse", "getCourseCandidates", "getCourseDetail",
           "getCourseComments", "createCourseComment", "getExcludedPlaces",
           "addCoursePlace", "updateCoursePlaces", "confirmCourse"}
Reading == {"getMeetingDetail", "getRecommendations", "getCoursePlan",
            "downloadCourseImage"}

To(ops, bodies) == [op : ops, id : Ids, token : Tokens, body : bodies \cup {None}]

Creations == [op : {"createMeeting"}, drawn : BOOLEAN,
              body : [type : Types, slugs : Courses \ {<<>>}] \cup {None}]
Joins == [op : {"joinMeeting"},
          body : [code : {"issued", "other"}, user : DOMAIN Nobody, nickname : Nicknames] \cup {None}]
Moves == [op : {"updateLocation"}, id : Ids, token : Tokens, body : Spots \cup {None},
          locked : BOOLEAN]
Plans == To({"updateCoursePlan"}, [slugs : Courses, version : 1..MaxVersion])
Additions == To({"addRecommendation"}, Places \cup {"huge", "unknown"})
Queries ==
  To(Reading, {}) \cup To(Unimplemented, {"valid"})
    \cup To({"getSimilarPlaces"}, {"twice"}) \cup To({"searchPlaces"}, {"valid", "huge"})
    \cup To({"storeCourseImage"}, {"image", "oversized"})
    \cup [op : {"previewInvitation"}, body : {"issued", "other", None}]
    \cup [op : {"searchFirstMeetingPlaces"}, body : KakaoFailures \cup {"no key", "found", None}]
    \cup [op : {"getMeetingTypes", "getCategories", "getProfileAvatars"}]

Endpoint(q) ==
  CASE q.op = "createMeeting" -> CreateMeeting(q)
    [] q.op = "previewInvitation" -> PreviewInvitation(q)
    [] q.op = "joinMeeting" -> JoinMeeting(q)
    [] q.op = "getMeetingDetail" -> GetMeetingDetail(q)
    [] q.op = "getRecommendations" -> GetRecommendations(q)
    [] q.op = "addRecommendation" -> AddRecommendation(q)
    [] q.op = "getCoursePlan" -> GetCoursePlan(q)
    [] q.op = "updateCoursePlan" -> UpdateCoursePlan(q)
    [] q.op = "updateLocation" -> UpdateLocation(q)
    [] q.op = "storeCourseImage" -> StoreCourseImage(q)
    [] q.op = "downloadCourseImage" -> DownloadCourseImage(q)
    [] q.op = "searchPlaces" -> SearchPlaces(q)
    [] q.op = "searchFirstMeetingPlaces" -> SearchFirstMeetingPlaces(q)
    [] q.op = "getMeetingTypes" -> GetMeetingTypes(q)
    [] q.op = "getCategories" -> GetCategories(q)
    [] q.op = "getProfileAvatars" -> GetProfileAvatars(q)
    [] q.op = "getMeetingStatus" -> GetMeetingStatus(q)
    [] q.op = "getMapPins" -> GetMapPins(q)
    [] q.op = "updatePlacePreference" -> UpdatePlacePreference(q)
    [] q.op = "getSimilarPlaces" -> GetSimilarPlaces(q)
    [] q.op = "getPlaceDetail" -> GetPlaceDetail(q)
    [] q.op = "generateCourse" -> GenerateCourse(q)
    [] q.op = "getCourseCandidates" -> GetCourseCandidates(q)
    [] q.op = "getCourseDetail" -> GetCourseDetail(q)
    [] q.op = "getCourseComments" -> GetCourseComments(q)
    [] q.op = "createCourseComment" -> CreateCourseComment(q)
    [] q.op = "getExcludedPlaces" -> GetExcludedPlaces(q)
    [] q.op = "addCoursePlace" -> AddCoursePlace(q)
    [] q.op = "updateCoursePlaces" -> UpdateCoursePlaces(q)
    [] q.op = "confirmCourse" -> ConfirmCourse(q)

Answer(q) == Endpoint(q).answer
Accepted(q) == Answer(q).code = "OK"

Init ==
  /\ slugs \subseteq CategorySlugs
  /\ typeCodes \subseteq MeetingTypeCodes
  /\ meeting = None

MovedWithoutJobs(q, m) ==  \* Faulty: the new location keeps the jobs of the old one.
  [m EXCEPT !.spot = q.body, !.edited = FALSE]

\* The steps are committed; the jobs of the new location are those of the plan.
Moved(q, m) == [m EXCEPT !.spot = q.body, !.jobs = RangeOf(m.plan), !.edited = FALSE]

Create(q) ==
  /\ meeting = None /\ Accepted(q)
  /\ \E n \in Nicknames, s \in Spots :
       meeting' = [plan |-> q.body.slugs, version |-> 1, jobs |-> RangeOf(q.body.slugs),
                   edited |-> FALSE, spot |-> s, recommended |-> {},
                   nickname |-> [Nobody EXCEPT !["host"] = n]]

Join(q) ==
  /\ Accepted(q)
  /\ meeting' = [meeting EXCEPT !.nickname[q.body.user] = q.body.nickname]

Move(q) == Accepted(q) /\ meeting' = Moved(q, meeting)

\* A saved plan creates no jobs and cancels none.
Plan(q) ==
  /\ Accepted(q)
  /\ meeting' = [meeting EXCEPT !.plan = q.body.slugs, !.version = @ + 1, !.edited = TRUE]

Recommend(q) ==
  /\ Accepted(q)
  /\ meeting' = [meeting EXCEPT !.recommended = @ \cup {q.body}]

Handle ==
  \/ \E q \in Creations : Create(q)
  \/ \E q \in Joins : Join(q)
  \/ \E q \in Moves : Move(q)
  \/ \E q \in Plans : Plan(q)
  \/ \E q \in Additions : Recommend(q)

Next == Handle /\ UNCHANGED <<slugs, typeCodes>>
Spec == Init /\ [][Next]_vars

-----------------------------------------------------------------------------
(* Properties.                                                             *)

\* What the controllers do not document, and the code answers.
KnownGap(q, status) ==
  \/ status = 500 /\ "id" \in DOMAIN q /\ DatabaseRejects(q.id)
  \/ status = 500 /\ q.op \in {"addRecommendation", "searchPlaces"} /\ q.body = "huge"
  \/ status = 500 /\ q.op = "getSimilarPlaces" /\ q.body = "twice"
  \/ status = 500 /\ "token" \in DOMAIN q /\ q.token = "twice"
  \/ status = 500 /\ q.op = "updateLocation" /\ (~q.locked \/ Repeats(meeting.plan))
  \/ status = 413 /\ q.op = "storeCourseImage"
  \/ status = 400 /\ q.op = "downloadCourseImage" /\ PipeRejects(q.id)
  \/ status = 201 /\ q.op = "previewInvitation"

\* In every state, each endpoint answers each request of the kinds above with a
\* status that its controller documents, but for the gaps listed.  Texts with a
\* NUL and bodies beyond the limit of the JSON parser are not among the requests.
DocumentedOrKnown(requests) ==
  \A q \in requests :
    LET e == Endpoint(q)
    IN e.answer.status \in e.documented \/ KnownGap(q, e.answer.status)
Documented ==
  /\ DocumentedOrKnown(Creations) /\ DocumentedOrKnown(Joins)
  /\ DocumentedOrKnown(Moves) /\ DocumentedOrKnown(Plans)
  /\ DocumentedOrKnown(Additions) /\ DocumentedOrKnown(Queries)

\* Whatever categories and meeting types the releases before left, no request
\* that the schemas let through meets a category or type the tables lack: the
\* enumerations of the code and the seeds of the migrations agree.
SeedsCover ==
  /\ \A slug \in CategorySlugs, code \in MeetingTypeCodes :
       Answer([op |-> "createMeeting", drawn |-> TRUE,
               body |-> [type |-> code, slugs |-> <<slug>>]]).code = "OK"
  /\ meeting # None => \A slug \in CategorySlugs :
       Answer([op |-> "updateCoursePlan", id |-> "meeting", token |-> "host",
               body |-> [slugs |-> <<slug>>, version |-> meeting.version]]).code = "OK"

\* Who holds no token of a meeting cannot tell from an answer whether the
\* meeting exists.
AsForNoMeeting(requests) ==
  \A q \in requests :
    "id" \in DOMAIN q /\ q.id = "meeting" /\ q.token \notin Joined =>
      Answer(q) = Answer([q EXCEPT !.id = "unknown"])
NothingLearnt ==
  /\ AsForNoMeeting(Moves) /\ AsForNoMeeting(Plans)
  /\ AsForNoMeeting(Additions) /\ AsForNoMeeting(Queries)

\* The categories collected around the base location are those of the plan,
\* unless the plan was saved after the location was last set.
JobsFollow ==
  meeting # None => meeting.jobs = RangeOf(meeting.plan) \/ meeting.edited
=============================================================================
