--------------------------- MODULE ReviewSubmission ---------------------------
(***************************************************************************)
(* One POST /reviews from its arrival to its answer, file by file.         *)
(*                                                                         *)
(* The uploads of a call run side by side under one Promise.all: the first *)
(* that rejects ends the call with a 500, while the others go on writing   *)
(* to S3 and to media_uploads behind the answer.  Nothing is undone, and a *)
(* client that got no 201 may send the same review again.                  *)
(***************************************************************************)
EXTENDS Integers

CONSTANTS
    Calls,       \* identities of the calls, and of the review rows they create
    Submissions, \* what clients want to submit, each again until it is answered
    Files,       \* identities of the files
    Attached,    \* Attached[i]: the files of a submission
    Faults,      \* the kinds of fault this environment produces
    NULL         \* no submission

ASSUME SubmissionAssumption ==
    /\ Attached \in [Submissions -> SUBSET Files]
    /\ Faults \subseteq {"crash", "requestError"}
    /\ NULL \notin Submissions

VARIABLES
    up,         \* whether the process runs
    request,    \* where the createReview call stands
    submission, \* what the call carries
    upload,     \* upload[c][f]: where the upload of a file stands
    reviews,    \* the calls that have a row in reviews
    media,      \* the rows of media_uploads
    objects,    \* the objects in S3
    tracking,   \* the columns of the moderation_jobs row that are set
    jobs        \* the calls whose job is in the queue

stored == <<reviews, media, objects, tracking, jobs>>
vars == <<up, request, submission, upload, stored>>

Waiting == {"creating", "tracking", "enqueueing", "recording"}
InFlight == Waiting \cup {"uploading"}
Running == {"putting", "linking"}

files(c) == IF submission[c] = NULL THEN {} ELSE Attached[submission[c]]

TypeOK ==
    /\ up \in BOOLEAN
    /\ request \in [Calls -> InFlight \cup {"none", "answered", "failed"}]
    /\ submission \in [Calls -> Submissions \cup {NULL}]
    /\ upload \in [Calls -> [Files -> Running \cup {"none", "linked", "failed"}]]
    /\ reviews \subseteq Calls
    /\ media \subseteq Calls \X Files
    /\ objects \subseteq Calls \X Files
    /\ tracking \in [Calls -> SUBSET {"created", "jobId"}]
    /\ jobs \subseteq Calls

Init ==
    /\ up = TRUE
    /\ request = [c \in Calls |-> "none"]
    /\ submission = [c \in Calls |-> NULL]
    /\ upload = [c \in Calls |-> [f \in Files |-> "none"]]
    /\ reviews = {} /\ media = {} /\ objects = {} /\ jobs = {}
    /\ tracking = [c \in Calls |-> {}]

Moves(c, from, to) ==
    /\ request[c] = from
    /\ request' = [request EXCEPT ![c] = to]

------------------------------------------------------------------------------
(* The call *)

\* A client sends a submission, again if an earlier call for it has failed.
Receive(c, i) ==
    /\ up
    /\ \A d \in Calls : submission[d] = i => request[d] = "failed"
    /\ Moves(c, "none", "creating")
    /\ submission' = [submission EXCEPT ![c] = i]
    /\ UNCHANGED <<up, upload, stored>>

\* review.create; every file's upload starts in the same turn.
CreateReview(c) ==
    /\ Moves(c, "creating", IF files(c) = {} THEN "tracking" ELSE "uploading")
    /\ reviews' = reviews \cup {c}
    /\ upload' = [upload EXCEPT ![c] =
                     [f \in Files |-> IF f \in files(c) THEN "putting" ELSE "none"]]
    /\ UNCHANGED <<up, submission, media, objects, tracking, jobs>>

CreateModerationJob(c) ==
    /\ Moves(c, "tracking", "enqueueing")
    /\ tracking' = [tracking EXCEPT ![c] = {"created"}]
    /\ UNCHANGED <<up, submission, upload, reviews, media, objects, jobs>>

\* queue.add puts the job into Redis; if its reply is lost, the call fails all the same.
EnqueueModerationJob(c) ==
    /\ \/ Moves(c, "enqueueing", "recording")
       \/ "requestError" \in Faults /\ Moves(c, "enqueueing", "failed")
    /\ jobs' = jobs \cup {c}
    /\ UNCHANGED <<up, submission, upload, reviews, media, objects, tracking>>

\* The client gets its 201.
UpdateModerationJobBullId(c) ==
    /\ Moves(c, "recording", "answered")
    /\ tracking' = [tracking EXCEPT ![c] = @ \cup {"jobId"}]
    /\ UNCHANGED <<up, submission, upload, reviews, media, objects, jobs>>

\* Variation: the error path removes the review.
CallFailsDeleting(c) ==
    /\ "requestError" \in Faults
    /\ \E step \in Waiting : Moves(c, step, "failed")
    /\ reviews' = reviews \ {c}
    /\ UNCHANGED <<up, submission, upload, media, objects, tracking, jobs>>

\* An awaited call outside the uploads rejects; what is written stays written.
CallFails(c) ==
    /\ "requestError" \in Faults
    /\ \E step \in Waiting : Moves(c, step, "failed")
    /\ UNCHANGED <<up, submission, upload, stored>>

------------------------------------------------------------------------------
(* The uploads, which outlive a call that failed *)

\* Variation: the put is not awaited.
PutObjectUnawaited(c, f) ==
    /\ upload[c][f] = "putting"
    /\ upload' = [upload EXCEPT ![c][f] = "linking"]
    /\ UNCHANGED <<up, request, submission, stored>>

\* uploadFileToS3
PutObject(c, f) ==
    /\ upload[c][f] = "putting"
    /\ upload' = [upload EXCEPT ![c][f] = "linking"]
    /\ objects' = objects \cup {<<c, f>>}
    /\ UNCHANGED <<up, request, submission, reviews, media, tracking, jobs>>

\* Variation: the first upload that is linked ends the wait.
JoinedByFirst(c, f) == TRUE

\* Promise.all resolves with the last upload.
Joined(c, f) == \A g \in files(c) \ {f} : upload[c][g] = "linked"

\* Variation: the two keys are swapped.
MediaRowSwapped(c, f) == <<f, c>>

\* The row's reviewId and s3Key.
MediaRow(c, f) == <<c, f>>

\* createMediaUpload
LinkMedia(c, f) ==
    /\ upload[c][f] = "linking"
    /\ upload' = [upload EXCEPT ![c][f] = "linked"]
    /\ media' = media \cup {MediaRow(c, f)}
    /\ request' = [request EXCEPT ![c] =
                      IF @ = "uploading" /\ Joined(c, f) THEN "tracking" ELSE @]
    /\ UNCHANGED <<up, submission, reviews, objects, tracking, jobs>>

\* Variation: the rejection is lost.
UploadFailsUnseen(c, f) ==
    /\ "requestError" \in Faults
    /\ upload[c][f] \in Running
    /\ upload' = [upload EXCEPT ![c][f] = "failed"]
    /\ UNCHANGED <<up, request, submission, stored>>

\* Variation: a failed upload is logged and the call goes on without it.
UploadFailsSkipped(c, f) ==
    /\ "requestError" \in Faults
    /\ upload[c][f] \in Running
    /\ upload' = [upload EXCEPT ![c][f] = "failed"]
    /\ request' = [request EXCEPT ![c] = IF @ = "uploading" THEN "tracking" ELSE @]
    /\ UNCHANGED <<up, submission, stored>>

\* S3, the signing or the insert rejects, the insert perhaps after its commit: the
\* call, if it still waits, fails at once.
UploadFails(c, f) ==
    /\ "requestError" \in Faults
    /\ upload[c][f] \in Running
    /\ upload' = [upload EXCEPT ![c][f] = "failed"]
    /\ media' \in {media} \cup (IF upload[c][f] = "linking" THEN {media \cup {MediaRow(c, f)}} ELSE {})
    /\ request' = [request EXCEPT ![c] = IF @ = "uploading" THEN "failed" ELSE @]
    /\ UNCHANGED <<up, submission, reviews, objects, tracking, jobs>>

------------------------------------------------------------------------------
(* The process *)

Crash ==
    /\ "crash" \in Faults
    /\ up
    /\ up' = FALSE
    /\ request' = [c \in Calls |-> IF request[c] \in InFlight THEN "failed" ELSE request[c]]
    /\ upload' = [c \in Calls |-> [f \in Files |->
                     IF upload[c][f] \in Running THEN "failed" ELSE upload[c][f]]]
    /\ UNCHANGED <<submission, stored>>

Restart ==
    /\ ~up
    /\ up' = TRUE
    /\ UNCHANGED <<request, submission, upload, stored>>

CallStep(c) ==
    \/ CreateReview(c)
    \/ CreateModerationJob(c)
    \/ EnqueueModerationJob(c)
    \/ UpdateModerationJobBullId(c)
    \/ CallFails(c)

UploadStep(c, f) ==
    \/ PutObject(c, f)
    \/ LinkMedia(c, f)
    \/ UploadFails(c, f)

Next ==
    \/ \E c \in Calls, i \in Submissions : Receive(c, i)
    \/ \E c \in Calls : CallStep(c)
    \/ \E c \in Calls, f \in Files : UploadStep(c, f)
    \/ Crash
    \/ Restart

Spec == Init /\ [][Next]_vars

\* Awaited promises settle; nobody owes a submission or a fault, and nothing here
\* waits for the restart.
Fairness == \A c \in Calls : /\ WF_vars(CallStep(c))
                             /\ \A f \in Files : WF_vars(UploadStep(c, f))

FairSpec == Spec /\ Fairness

------------------------------------------------------------------------------
(* Properties *)

\* What is queued for moderation is complete, all the more what was answered with a
\* 201: the review's row, a row and an object for each of its files, the tracking row,
\* and, once answered, the job and its id (reviews.service.ts:60-107).
AcceptedIsComplete ==
    \A c \in Calls : c \in jobs \/ request[c] = "answered" =>
        /\ c \in reviews
        /\ \A f \in files(c) : <<c, f>> \in media /\ <<c, f>> \in objects
        /\ "created" \in tracking[c]
        /\ request[c] = "answered" => c \in jobs /\ "jobId" \in tracking[c]

\* Every row of media_uploads has its object in S3 and its review, although uploads go
\* on behind a failed call.
MediaIsBacked == \A m \in media : m \in objects /\ m[1] \in reviews

\* Objects without a row, which a lifecycle rule of the bucket is to remove
\* (s3Upload.ts:68), are left by failed calls only.
OrphansComeFromFailures ==
    \A c \in Calls, f \in Files : <<c, f>> \in objects \ media =>
        upload[c][f] = "linking" \/ request[c] = "failed"

\* Every call ends, and so do the uploads it leaves behind.
CallsEnd ==
    \A c \in Calls : request[c] # "none" ~>
        /\ request[c] \in {"answered", "failed"}
        /\ \A f \in Files : upload[c][f] \notin Running

\* The rows and the queue as the moderation pipeline sees them, with the worker and
\* the administrators standing still.
Pipeline == INSTANCE ModerationPipeline WITH
    Reviews <- Calls, Moderators <- {}, Slots <- {}, AiVerdicts <- {"safe"},
    QueueAttempts <- 1, EnvAttempts <- 1, MaxStalledCount <- 0, GONE <- "gone",
    status <- [c \in Calls |-> IF c \in reviews THEN "PENDING" ELSE "ABSENT"],
    text <- [c \in Calls |-> IF c \in reviews THEN "safe" ELSE NULL],
    aiLabel <- [c \in Calls |-> NULL],
    moderatedBy <- [c \in Calls |-> NULL],
    tagsLinked <- [c \in Calls |-> FALSE],
    jobState <- [c \in Calls |-> IF c \in jobs THEN "waiting" ELSE "none"],
    attemptsMade <- [c \in Calls |-> 0],
    stalls <- [c \in Calls |-> 0],
    owner <- [c \in Calls |-> NULL],
    request <- [c \in Calls |-> IF c \in reviews THEN request[c] ELSE "none"],
    slotJob <- [s \in {} |-> NULL],
    slotStep <- [s \in {} |-> "idle"],
    handlers <- {},
    desk <- [m \in {} |-> NULL],
    flagLost <- {}

\* What ModerationPipeline makes of a call, with all uploads in one step and failures
\* at any await, is what calls with parallel uploads, stragglers and retries do.
ImplementsPipeline == Pipeline!Spec
==============================================================================
