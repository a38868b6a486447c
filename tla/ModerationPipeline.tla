------------------------- MODULE ModerationPipeline -------------------------
(***************************************************************************)
(* From POST /reviews to a decided review: the createReview call once its  *)
(* place is resolved, the BullMQ queue, the worker's processor and its     *)
(* "failed" event handler, and the administrators' approve and reject.     *)
(*                                                                         *)
(* Everything that runs between two awaits of the code is one action.      *)
(* PostgreSQL rows and the queue in Redis survive a crash of the process;  *)
(* the API calls, the processor invocations and the event handlers do not. *)
(***************************************************************************)
EXTENDS Integers, FiniteSets

CONSTANTS
    Reviews,          \* identities of the reviews
    Moderators,       \* identities of the administrators
    Slots,            \* processor invocations that can run at once (BULL_CONCURRENCY)
    AiVerdicts,       \* the labels the submitted texts get, a subset of AiLabels
    QueueAttempts,    \* defaultJobOptions.attempts of the queue
    EnvAttempts,      \* BULL_JOB_ATTEMPTS, what the "failed" handler compares with
    MaxStalledCount,  \* how often the queue puts a stalled job back (BullMQ's default is 1)
    Faults,           \* the kinds of fault this environment produces
    NULL,             \* no owner, no moderator, no job, no label
    GONE              \* as the owner of a lock: a process that has stopped

AiLabels == {"safe", "spam", "toxic", "self_promo", "medical_risk", "needs_human_review"}
FaultKinds == {"crash", "lockLoss", "jobLoss", "requestError", "handlerError"}

ASSUME AttemptsAssumption ==
    /\ QueueAttempts \in Nat \ {0}
    /\ EnvAttempts \in Nat \ {0}
    /\ MaxStalledCount \in Nat

ASSUME DomainAssumption ==
    /\ AiVerdicts \subseteq AiLabels
    /\ Faults \subseteq FaultKinds
    /\ NULL \notin Reviews
    /\ NULL \notin Slots
    /\ GONE \notin Slots \cup {NULL}
    /\ NULL \notin Moderators
    /\ NULL \notin AiLabels

VARIABLES
    \* rows of PostgreSQL
    status,       \* reviews.status, "ABSENT" before the row exists
    text,         \* reviews.text: the label the AI provider gives this text
    aiLabel,      \* reviews.ai_label
    moderatedBy,  \* reviews.moderated_by
    tagsLinked,   \* whether every tag of the verdict is linked to the review
    tracking,     \* the columns of the moderation_jobs row that are set
    \* the job of each review in Redis
    jobState,     \* where the queue holds the job
    attemptsMade, \* failed attempts the queue has counted
    stalls,       \* how often the job was put back because its lock had expired
    owner,        \* the slot whose lock the job carries, or GONE, or NULL
    \* memory of the process
    up,           \* whether the process runs
    request,      \* where the createReview call of the review stands
    slotJob,      \* the review whose job the slot processes, or NULL
    slotStep,     \* where the slot's processor invocation stands
    handlers,     \* invocations of the "failed" handler that still have to write
    desk,         \* the administrator's approve or reject call in flight, or NULL
    \* history
    flagLost      \* reviews whose handler never got to its first write, or had it rejected

reviewRows == <<status, text, aiLabel, moderatedBy, tagsLinked, tracking>>
queueVars == <<jobState, attemptsMade, stalls, owner>>
slotVars == <<slotJob, slotStep>>
vars == <<reviewRows, queueVars, up, request, slotVars, handlers, desk, flagLost>>

InFlight == {"uploading", "tracking", "enqueueing", "recording"}
Live == {"waiting", "active", "delayed"}
Settled == {"completed", "failed"}
Over == Settled \cup {"lost"}
Columns == {"created", "jobId", "completedAt", "failedAt"}
HandlerCall == [review : Reviews, attempts : Nat, step : {"flag", "stamp"}]
AdminCall == [review : Reviews, decision : {"APPROVED", "REJECTED"}]

TypeOK ==
    /\ status \in [Reviews -> {"ABSENT", "PENDING", "APPROVED", "REJECTED", "FLAGGED"}]
    /\ text \in [Reviews -> AiLabels \cup {NULL}]
    /\ aiLabel \in [Reviews -> AiLabels \cup {NULL}]
    /\ moderatedBy \in [Reviews -> Moderators \cup {NULL}]
    /\ tagsLinked \in [Reviews -> BOOLEAN]
    /\ tracking \in [Reviews -> SUBSET Columns]
    /\ jobState \in [Reviews -> {"none"} \cup Live \cup Over]
    /\ attemptsMade \in [Reviews -> Nat]
    /\ stalls \in [Reviews -> Nat]
    /\ owner \in [Reviews -> Slots \cup {NULL, GONE}]
    /\ up \in BOOLEAN
    /\ request \in [Reviews -> {"none", "answered", "failed"} \cup InFlight]
    /\ slotJob \in [Slots -> Reviews \cup {NULL}]
    /\ slotStep \in [Slots -> {"idle", "calling", "committing", "tagging",
                               "returning", "throwing"}]
    /\ handlers \subseteq HandlerCall
    /\ desk \in [Moderators -> AdminCall \cup {NULL}]
    /\ flagLost \subseteq Reviews

Init ==
    /\ status = [r \in Reviews |-> "ABSENT"]
    /\ text = [r \in Reviews |-> NULL]
    /\ aiLabel = [r \in Reviews |-> NULL]
    /\ moderatedBy = [r \in Reviews |-> NULL]
    /\ tagsLinked = [r \in Reviews |-> FALSE]
    /\ tracking = [r \in Reviews |-> {}]
    /\ jobState = [r \in Reviews |-> "none"]
    /\ attemptsMade = [r \in Reviews |-> 0]
    /\ stalls = [r \in Reviews |-> 0]
    /\ owner = [r \in Reviews |-> NULL]
    /\ up = TRUE
    /\ request = [r \in Reviews |-> "none"]
    /\ slotJob = [s \in Slots |-> NULL]
    /\ slotStep = [s \in Slots |-> "idle"]
    /\ handlers = {}
    /\ desk = [m \in Moderators |-> NULL]
    /\ flagLost = {}

------------------------------------------------------------------------------
(* createReview, from the review's row to the answer *)

\* review.create: the row exists and is PENDING; uploads follow if there are files.
Submit(r) ==
    /\ up
    /\ status[r] = "ABSENT"
    /\ status' = [status EXCEPT ![r] = "PENDING"]
    /\ \E label \in AiVerdicts : text' = [text EXCEPT ![r] = label]
    /\ \E next \in {"uploading", "tracking"} : request' = [request EXCEPT ![r] = next]
    /\ UNCHANGED <<aiLabel, moderatedBy, tagsLinked, tracking, queueVars, up, slotVars,
                   handlers, desk, flagLost>>

\* Every file is in S3 and has its media_uploads row.
UploadMedia(r) ==
    /\ request[r] = "uploading"
    /\ request' = [request EXCEPT ![r] = "tracking"]
    /\ UNCHANGED <<reviewRows, queueVars, up, slotVars, handlers, desk, flagLost>>

CreateModerationJob(r) ==
    /\ request[r] = "tracking"
    /\ request' = [request EXCEPT ![r] = "enqueueing"]
    /\ tracking' = [tracking EXCEPT ![r] = {"created"}]
    /\ UNCHANGED <<status, text, aiLabel, moderatedBy, tagsLinked, queueVars, up, slotVars,
                   handlers, desk, flagLost>>

\* Variation: a call whose reply was lost adds the job again, without the id that
\* makes the second add do nothing.
EnqueueAgain(r) ==
    /\ request[r] = "enqueueing"
    /\ jobState' = [jobState EXCEPT ![r] = "waiting"]
    /\ \E next \in {"recording"} \cup (IF "requestError" \in Faults THEN {"enqueueing"} ELSE {}) :
          request' = [request EXCEPT ![r] = next]
    /\ UNCHANGED <<reviewRows, attemptsMade, stalls, owner, up, slotVars, handlers, desk, flagLost>>

\* Variation: an error of queue.add is caught and logged.
EnqueueCaught(r) ==
    /\ request[r] = "enqueueing"
    /\ \/ jobState' = [jobState EXCEPT ![r] = "waiting"]
       \/ "requestError" \in Faults /\ jobState' = jobState
    /\ request' = [request EXCEPT ![r] = "recording"]
    /\ UNCHANGED <<reviewRows, attemptsMade, stalls, owner, up, slotVars, handlers, desk,
                   flagLost>>

\* queue.add puts the job into Redis; the call goes on, unless the reply is lost
\* and the call rejects although the job is there.
EnqueueModerationJob(r) ==
    /\ request[r] = "enqueueing"
    /\ jobState' = [jobState EXCEPT ![r] = "waiting"]
    /\ \E next \in {"recording"} \cup (IF "requestError" \in Faults THEN {"failed"} ELSE {}) :
          request' = [request EXCEPT ![r] = next]
    /\ UNCHANGED <<reviewRows, attemptsMade, stalls, owner, up, slotVars, handlers, desk, flagLost>>

\* Variation: the whole row is written, as the call knows it.
UpdateModerationJobWhole(r) ==
    /\ request[r] = "recording"
    /\ request' = [request EXCEPT ![r] = "answered"]
    /\ tracking' = [tracking EXCEPT ![r] = {"created", "jobId"}]
    /\ UNCHANGED <<status, text, aiLabel, moderatedBy, tagsLinked, queueVars, up, slotVars,
                   handlers, desk, flagLost>>

\* The queue's job id goes into the tracking row, and the client gets its 201.
UpdateModerationJobBullId(r) ==
    /\ request[r] = "recording"
    /\ request' = [request EXCEPT ![r] = "answered"]
    /\ tracking' = [tracking EXCEPT ![r] = @ \cup {"jobId"}]
    /\ UNCHANGED <<status, text, aiLabel, moderatedBy, tagsLinked, queueVars, up, slotVars,
                   handlers, desk, flagLost>>

\* Any awaited step may reject: the error handler answers 500, nothing is undone.
RequestFails(r) ==
    /\ "requestError" \in Faults
    /\ request[r] \in InFlight
    /\ request' = [request EXCEPT ![r] = "failed"]
    /\ UNCHANGED <<reviewRows, queueVars, up, slotVars, handlers, desk, flagLost>>

------------------------------------------------------------------------------
(* The worker's processor *)

StartJob(s, r) ==
    /\ owner' = [owner EXCEPT ![r] = s]
    /\ jobState' = [jobState EXCEPT ![r] = "active"]
    /\ slotJob' = [slotJob EXCEPT ![s] = r]
    /\ slotStep' = [slotStep EXCEPT ![s] = "calling"]

FreeSlot(s) ==
    /\ slotJob' = [slotJob EXCEPT ![s] = NULL]
    /\ slotStep' = [slotStep EXCEPT ![s] = "idle"]

\* An idle slot takes a waiting job and its lock.
TakeJob(s, r) ==
    /\ up
    /\ slotJob[s] = NULL
    /\ jobState[r] = "waiting"
    /\ StartJob(s, r)
    /\ UNCHANGED <<reviewRows, attemptsMade, stalls, up, request, handlers, desk, flagLost>>

\* aiProvider.moderate resolves: the label is the one of the text, on every attempt.
AiAnswers(s) ==
    /\ slotStep[s] = "calling"
    /\ slotStep' = [slotStep EXCEPT ![s] = "committing"]
    /\ UNCHANGED <<reviewRows, queueVars, up, request, slotJob, handlers, desk, flagLost>>

\* Variation: a label is missing from the map.
ReviewStatusOfIncomplete(label) ==
    CASE label = "safe" -> "APPROVED"
      [] label = "medical_risk" -> NULL
      [] OTHER -> "REJECTED"

\* AI_LABEL_TO_REVIEW_STATUS
ReviewStatusOf(label) ==
    CASE label = "safe" -> "APPROVED"
      [] label \in {"spam", "toxic", "self_promo"} -> "REJECTED"
      [] OTHER -> "FLAGGED"

\* The transaction over the review's row and the tracking row.
CommitVerdict(s) ==
    /\ slotStep[s] = "committing"
    /\ LET r == slotJob[s] IN
          /\ status' = [status EXCEPT ![r] = ReviewStatusOf(text[r])]
          /\ aiLabel' = [aiLabel EXCEPT ![r] = text[r]]
          /\ tracking' = [tracking EXCEPT ![r] = @ \cup {"completedAt"}]
    /\ slotStep' = [slotStep EXCEPT ![s] = "tagging"]
    /\ UNCHANGED <<text, moderatedBy, tagsLinked, queueVars, up, request, slotJob, handlers,
                   desk, flagLost>>

\* Variation: errors of the tag upserts are caught and logged.
LinkTagsBestEffort(s) ==
    /\ slotStep[s] = "tagging"
    /\ \E all \in BOOLEAN : tagsLinked' = [tagsLinked EXCEPT ![slotJob[s]] = all]
    /\ slotStep' = [slotStep EXCEPT ![s] = "returning"]
    /\ UNCHANGED <<status, text, aiLabel, moderatedBy, tracking, queueVars, up, request,
                   slotJob, handlers, desk, flagLost>>

\* The tags are upserted after the transaction and outside it.
LinkTags(s) ==
    /\ slotStep[s] = "tagging"
    /\ tagsLinked' = [tagsLinked EXCEPT ![slotJob[s]] = TRUE]
    /\ slotStep' = [slotStep EXCEPT ![s] = "returning"]
    /\ UNCHANGED <<status, text, aiLabel, moderatedBy, tracking, queueVars, up, request,
                   slotJob, handlers, desk, flagLost>>

\* Variation: a failing attempt puts the review back to PENDING.
ProcessorThrowsResetting(s) ==
    /\ slotStep[s] \in {"calling", "committing", "tagging"}
    /\ slotStep' = [slotStep EXCEPT ![s] = "throwing"]
    /\ status' = [status EXCEPT ![slotJob[s]] = "PENDING"]
    /\ UNCHANGED <<text, aiLabel, moderatedBy, tagsLinked, tracking, queueVars, up, request,
                   slotJob, handlers, desk, flagLost>>

\* The provider, the transaction or a tag upsert throws: the rest is skipped.
ProcessorThrows(s) ==
    /\ slotStep[s] \in {"calling", "committing", "tagging"}
    /\ slotStep' = [slotStep EXCEPT ![s] = "throwing"]
    /\ UNCHANGED <<reviewRows, queueVars, up, request, slotJob, handlers, desk, flagLost>>

------------------------------------------------------------------------------
(* How the queue settles, retries and recovers jobs, and the "failed" handler *)

\* Variations: the comparison is off by one, either way.
FailedEventEarly(r, attempts) ==
    IF attempts + 1 >= EnvAttempts
    THEN {[review |-> r, attempts |-> attempts, step |-> "flag"]}
    ELSE {}

FailedEventLate(r, attempts) ==
    IF attempts > EnvAttempts
    THEN {[review |-> r, attempts |-> attempts, step |-> "flag"]}
    ELSE {}

\* What the "failed" listener does up to its first await: for an exhausted job it
\* goes on to write, for any other it is over.
FailedEvent(r, attempts) ==
    IF attempts >= EnvAttempts
    THEN {[review |-> r, attempts |-> attempts, step |-> "flag"]}
    ELSE {}

\* Only the owner of the lock may move the job.
JobCompletes(s) ==
    LET r == slotJob[s] IN
    /\ slotStep[s] = "returning"
    /\ owner[r] = s
    /\ jobState' = [jobState EXCEPT ![r] = "completed"]
    /\ owner' = [owner EXCEPT ![r] = NULL]
    /\ FreeSlot(s)
    /\ UNCHANGED <<reviewRows, attemptsMade, stalls, up, request, handlers, desk, flagLost>>

\* Variation: the processor reports a failing attempt as one to be repeated later, which
\* the queue does without counting it.
JobPutBack(s) ==
    LET r == slotJob[s] IN
    /\ slotStep[s] = "throwing"
    /\ owner[r] = s
    /\ jobState' = [jobState EXCEPT ![r] = "delayed"]
    /\ owner' = [owner EXCEPT ![r] = NULL]
    /\ FreeSlot(s)
    /\ UNCHANGED <<reviewRows, attemptsMade, stalls, up, request, handlers, desk, flagLost>>

\* The attempt is counted, the job waits for its backoff or is failed for good,
\* and the worker emits "failed".
JobFails(s) ==
    LET r == slotJob[s]
        n == attemptsMade[r] + 1 IN
    /\ slotStep[s] = "throwing"
    /\ owner[r] = s
    /\ attemptsMade' = [attemptsMade EXCEPT ![r] = n]
    /\ jobState' = [jobState EXCEPT ![r] = IF n < QueueAttempts THEN "delayed" ELSE "failed"]
    /\ owner' = [owner EXCEPT ![r] = NULL]
    /\ handlers' = handlers \cup FailedEvent(r, n)
    /\ FreeSlot(s)
    /\ UNCHANGED <<reviewRows, stalls, up, request, desk, flagLost>>

\* An invocation whose lock has gone to nobody or to another ends without a trace.
LateInvocationEnds(s) ==
    /\ slotStep[s] \in {"returning", "throwing"}
    /\ owner[slotJob[s]] # s
    /\ FreeSlot(s)
    /\ UNCHANGED <<reviewRows, queueVars, up, request, handlers, desk, flagLost>>

PromoteDelayed(r) ==
    /\ up
    /\ jobState[r] = "delayed"
    /\ jobState' = [jobState EXCEPT ![r] = "waiting"]
    /\ UNCHANGED <<reviewRows, attemptsMade, stalls, owner, up, request, slotVars, handlers,
                   desk, flagLost>>

\* The lock of a process that has stopped runs out: nobody has renewed it.
LockExpires(r) ==
    /\ owner[r] = GONE
    /\ owner' = [owner EXCEPT ![r] = NULL]
    /\ UNCHANGED <<reviewRows, jobState, attemptsMade, stalls, up, request, slotVars, handlers,
                   desk, flagLost>>

\* The lock expires under a processor that still runs.
LoseLock(r) ==
    /\ up
    /\ "lockLoss" \in Faults
    /\ owner[r] \in Slots
    /\ owner' = [owner EXCEPT ![r] = NULL]
    /\ UNCHANGED <<reviewRows, jobState, attemptsMade, stalls, up, request, slotVars, handlers,
                   desk, flagLost>>

\* Redis evicts the job's keys, or starts anew from a snapshot that lacks them: whoever
\* processes it has no lock any more, and no event tells of it.
LoseJob(r) ==
    /\ up
    /\ "jobLoss" \in Faults
    /\ jobState[r] \in Live
    /\ jobState' = [jobState EXCEPT ![r] = "lost"]
    /\ owner' = [owner EXCEPT ![r] = NULL]
    /\ UNCHANGED <<reviewRows, attemptsMade, stalls, up, request, slotVars, handlers,
                   desk, flagLost>>

\* The stalled check finds an active job without a lock and puts it back.
RecoverStalled(r) ==
    /\ up
    /\ jobState[r] = "active" /\ owner[r] = NULL
    /\ stalls[r] < MaxStalledCount
    /\ jobState' = [jobState EXCEPT ![r] = "waiting"]
    /\ stalls' = [stalls EXCEPT ![r] = @ + 1]
    /\ UNCHANGED <<reviewRows, attemptsMade, owner, up, request, slotVars, handlers,
                   desk, flagLost>>

\* ... or gives it up, whatever attempts it has left; whether this counts as one
\* more attempt is the library's choice.
GiveUpStalled(r) ==
    /\ up
    /\ jobState[r] = "active" /\ owner[r] = NULL
    /\ stalls[r] = MaxStalledCount
    /\ jobState' = [jobState EXCEPT ![r] = "failed"]
    /\ \E n \in {attemptsMade[r], attemptsMade[r] + 1} :
          /\ attemptsMade' = [attemptsMade EXCEPT ![r] = n]
          /\ handlers' = handlers \cup FailedEvent(r, n)
    /\ UNCHANGED <<reviewRows, stalls, owner, up, request, slotVars, desk, flagLost>>

\* Variation: the handler only records the failure.
SkipFlag(h) ==
    /\ h.step = "flag"
    /\ handlers' = (handlers \ {h}) \cup {[h EXCEPT !.step = "stamp"]}
    /\ UNCHANGED <<reviewRows, queueVars, up, request, slotVars, desk, flagLost>>

\* The handler's first write: the review goes to the moderators.
FlagExhausted(h) ==
    /\ h.step = "flag"
    /\ status' = [status EXCEPT ![h.review] = "FLAGGED"]
    /\ handlers' = (handlers \ {h}) \cup {[h EXCEPT !.step = "stamp"]}
    /\ UNCHANGED <<text, aiLabel, moderatedBy, tagsLinked, tracking, queueVars, up, request,
                   slotVars, desk, flagLost>>

\* Whether the first write of a handler is still to come for the review.
FlagPending(r) == \E h \in handlers : h.review = r /\ h.step = "flag"

\* The handler's second write, to the tracking row.
StampFailure(h) ==
    /\ h.step = "stamp"
    /\ tracking' = [tracking EXCEPT ![h.review] = @ \cup {"failedAt"}]
    /\ handlers' = handlers \ {h}
    /\ UNCHANGED <<status, text, aiLabel, moderatedBy, tagsLinked, queueVars, up, request,
                   slotVars, desk, flagLost>>

\* Both writes swallow their errors: the handler goes on as if they had succeeded.
HandlerWriteFails(h) ==
    /\ "handlerError" \in Faults
    /\ handlers' = (handlers \ {h}) \cup
                   (IF h.step = "flag" THEN {[h EXCEPT !.step = "stamp"]} ELSE {})
    /\ flagLost' = flagLost \cup (IF h.step = "flag" THEN {h.review} ELSE {})
    /\ UNCHANGED <<reviewRows, queueVars, up, request, slotVars, desk>>

------------------------------------------------------------------------------
(* The administrators *)

\* findReviewById: a review that exists, whatever its status.
OpenCase(m, r, d) ==
    /\ up
    /\ desk[m] = NULL
    /\ status[r] # "ABSENT"
    /\ desk' = [desk EXCEPT ![m] = [review |-> r, decision |-> d]]
    /\ UNCHANGED <<reviewRows, queueVars, up, request, slotVars, handlers, flagLost>>

\* The update, in a later turn and without a second look.
DecideCase(m) ==
    /\ desk[m] # NULL
    /\ status' = [status EXCEPT ![desk[m].review] = desk[m].decision]
    /\ moderatedBy' = [moderatedBy EXCEPT ![desk[m].review] = m]
    /\ desk' = [desk EXCEPT ![m] = NULL]
    /\ UNCHANGED <<text, aiLabel, tagsLinked, tracking, queueVars, up, request, slotVars,
                   handlers, flagLost>>

CaseFails(m) ==
    /\ "requestError" \in Faults
    /\ desk[m] # NULL
    /\ desk' = [desk EXCEPT ![m] = NULL]
    /\ UNCHANGED <<reviewRows, queueVars, up, request, slotVars, handlers, flagLost>>

------------------------------------------------------------------------------
(* The process, which holds the API and the worker *)

\* What a slot holds in Redis stays locked: nobody tells it that the process is gone.
Orphaned(o) == IF o \in Slots THEN GONE ELSE o

\* Everything in memory is gone.
Crash ==
    /\ "crash" \in Faults
    /\ up
    /\ up' = FALSE
    /\ request' = [r \in Reviews |-> IF request[r] \in InFlight THEN "failed" ELSE request[r]]
    /\ owner' = [r \in Reviews |-> Orphaned(owner[r])]
    /\ slotJob' = [s \in Slots |-> NULL]
    /\ slotStep' = [s \in Slots |-> "idle"]
    /\ handlers' = {}
    /\ desk' = [m \in Moderators |-> NULL]
    /\ flagLost' = flagLost \cup {r \in Reviews : FlagPending(r)}
    /\ UNCHANGED <<reviewRows, jobState, attemptsMade, stalls>>

Restart ==
    /\ ~up
    /\ up' = TRUE
    /\ UNCHANGED <<reviewRows, queueVars, request, slotVars, handlers, desk, flagLost>>

------------------------------------------------------------------------------

RequestStep(r) ==
    \/ UploadMedia(r)
    \/ CreateModerationJob(r)
    \/ EnqueueModerationJob(r)
    \/ UpdateModerationJobBullId(r)
    \/ RequestFails(r)

SlotStep(s) ==
    \/ AiAnswers(s)
    \/ CommitVerdict(s)
    \/ LinkTags(s)
    \/ ProcessorThrows(s)
    \/ JobCompletes(s)
    \/ JobFails(s)
    \/ LateInvocationEnds(s)

QueueStep(r) ==
    \/ PromoteDelayed(r)
    \/ LockExpires(r)
    \/ RecoverStalled(r)
    \/ GiveUpStalled(r)

HandlerStep(h) ==
    \/ FlagExhausted(h)
    \/ StampFailure(h)
    \/ HandlerWriteFails(h)

AdminStep(m) ==
    \/ \E r \in Reviews, d \in {"APPROVED", "REJECTED"} : OpenCase(m, r, d)
    \/ DecideCase(m)
    \/ CaseFails(m)

Next ==
    \/ \E r \in Reviews : Submit(r)
    \/ \E r \in Reviews : RequestStep(r)
    \/ \E s \in Slots, r \in Reviews : TakeJob(s, r)
    \/ \E s \in Slots : SlotStep(s)
    \/ \E r \in Reviews : QueueStep(r)
    \/ \E r \in Reviews : LoseLock(r) \/ LoseJob(r)
    \/ \E h \in handlers : HandlerStep(h)
    \/ \E m \in Moderators : AdminStep(m)
    \/ Crash
    \/ Restart

Spec == Init /\ [][Next]_vars

\* What runs on once started: the calls in flight, the processor, the queue's
\* timers, the handlers, and the supervisor that restarts the container.  Nobody
\* owes a submission, an administrator's call or a fault.
Fairness ==
    /\ \A r \in Reviews : WF_vars(RequestStep(r)) /\ WF_vars(QueueStep(r))
    /\ \A r \in Reviews : WF_vars(\E s \in Slots : TakeJob(s, r))
    /\ \A s \in Slots : WF_vars(SlotStep(s))
    /\ WF_vars(\E h \in handlers : HandlerStep(h))
    /\ WF_vars(Restart)

FairSpec == Spec /\ Fairness

------------------------------------------------------------------------------
(* Properties *)

\* A job the queue reports as completed left nothing half done, however many
\* invocations, retries and crashes it took: the verdict and its label are in the
\* review, the tracking row says completed, and all tags are linked, although the
\* tags are written outside the transaction (moderation.worker.ts:84-124).
CompletedJobIsFullyRecorded ==
    \A r \in Reviews : jobState[r] = "completed" =>
        /\ status[r] # "PENDING"
        /\ aiLabel[r] = text[r]
        /\ "completedAt" \in tracking[r]
        /\ tagsLinked[r]

\* Every decided status has a reason that can be read off the rows: the AI's label of
\* this very text maps to it, or the attempts were used up, or a moderator signed the
\* review.  Nothing gets published without a safe text or a signature, whatever late
\* invocation or failure handler wrote last.
StatusExplained ==
    \A r \in Reviews : status[r] \in {"APPROVED", "REJECTED", "FLAGGED"} =>
        \/ aiLabel[r] = text[r] /\ status[r] = ReviewStatusOf(text[r])
        \/ status[r] = "FLAGGED" /\ attemptsMade[r] >= EnvAttempts
        \/ status[r] # "FLAGGED" /\ moderatedBy[r] # NULL

\* Whether anything but a moderator may still write the review.
ProcessorOn(r) == \E s \in Slots : slotJob[s] = r
HandlerOn(r) == \E h \in handlers : h.review = r

AutomationOf(r) ==
    IF jobState[r] = "none" THEN "none"
    ELSE IF jobState[r] \in Over /\ ~ProcessorOn(r) /\ ~HandlerOn(r) THEN "closed"
    ELSE "open"

Automation == [r \in Reviews |-> AutomationOf(r)]

Lifecycle == INSTANCE ReviewLifecycle WITH automation <- Automation

\* The pipeline implements the review's lifecycle: no review returns to PENDING, and
\* once its job has settled and the last invocation and handler are gone, only a
\* moderator changes its status, although jobs are retried, taken twice and recovered.
ImplementsLifecycle == Lifecycle!LifecycleSpec

\* A review can stay PENDING for these reasons only, under every fault: its call is still
\* running, its call failed before the job was queued, its job is live or was lost by
\* Redis, or its job failed and one of four things holds: it stalled too often or used up
\* the queue's attempts short of the handler's count (moderation.worker.ts:155), its
\* handler still has to flag it, or the handler's write was rejected or went down with the
\* process, and nothing repeats it (moderation.worker.ts:156-163).
PendingIsExplained ==
    \A r \in Reviews : status[r] = "PENDING" =>
        \/ request[r] \in {"uploading", "tracking", "enqueueing"}
        \/ request[r] = "failed" /\ jobState[r] = "none"
        \/ jobState[r] \in Live \cup {"lost"}
        \/ /\ jobState[r] = "failed"
           /\ \/ /\ attemptsMade[r] < EnvAttempts
                 /\ stalls[r] = MaxStalledCount \/ attemptsMade[r] = QueueAttempts
              \/ FlagPending(r)
              \/ r \in flagLost

\* As long as locks do not expire under a running processor, no two slots process
\* the same review, across retries, crashes and stalled-job recovery.
NoDoubleProcessing ==
    \A s, t \in Slots : s # t /\ slotJob[s] # NULL => slotJob[s] # slotJob[t]

\* If locks do expire, a slot may take a job that others still process, but only after the
\* queue has put it back as stalled: the invocations of a review that run at once are
\* never more than its recoveries and one, under every fault.
OverlapIsBounded ==
    \A r \in Reviews : Cardinality({s \in Slots : slotJob[s] = r}) <= stalls[r] + 1

\* What a job has left to do: an attempt or a recovery is worth more than the way from
\* the backoff to the next one.
WayToGo(state) ==
    CASE state = "delayed" -> 3
      [] state = "waiting" -> 2
      [] state = "active" -> 1
      [] OTHER -> 0

Budget(r) ==
    3 * ((QueueAttempts - attemptsMade[r]) + (MaxStalledCount - stalls[r])) + WayToGo(jobState[r])

Advances(r) ==
    jobState[r] # "none" /\ <<jobState[r], attemptsMade[r], stalls[r]>>'
                                # <<jobState[r], attemptsMade[r], stalls[r]>> =>
        Budget(r)' >= 0 /\ Budget(r)' < Budget(r)

\* Whatever happens to a queued job uses up an attempt, a recovery or a part of the way
\* to the next, and nothing gives any of it back: no sequence of retries, stalls and
\* crashes keeps a job busy for ever.
JobsOnlyAdvance == [][\A r \in Reviews : Advances(r)]_vars

Grows(r) ==
    /\ tracking[r] \subseteq tracking'[r]
    /\ aiLabel[r] # NULL => aiLabel'[r] = aiLabel[r]
    /\ tagsLinked[r] => tagsLinked'[r]
    /\ moderatedBy[r] # NULL => moderatedBy'[r] # NULL

\* No write takes back what another actor has recorded, although the call still records
\* the job's id when the worker may have completed the job (reviews.service.ts:107): the
\* columns of the tracking row stay set, and so do the label, the tags and the signature.
RecordsOnlyGrow == [][\A r \in Reviews : Grows(r)]_vars

\* Every queued job is completed or failed in the end, provided the process stops
\* crashing; a crash with the job active only costs the job one recovery.
JobsSettle ==
    <>[]up => \A r \in Reviews : jobState[r] # "none" ~> jobState[r] \in Settled

\* Every review whose job was queued stops being PENDING, unless Redis lost the job or
\* the queue gave it up as stalled with attempts left.
QueuedReviewIsDecided ==
    \A r \in Reviews :
        jobState[r] # "none" ~>
            \/ status[r] # "PENDING"
            \/ jobState[r] = "failed" /\ attemptsMade[r] < EnvAttempts
            \/ jobState[r] = "lost"

\* "After all retries fail: review status -> FLAGGED (human takes over)",
\* README.md:196, once the handler had its turn and no moderator has decided.
RetriesExhaustedMeansFlagged ==
    \A r \in Reviews :
        /\ jobState[r] = "failed"
        /\ attemptsMade[r] >= QueueAttempts
        /\ ~HandlerOn(r)
        /\ moderatedBy[r] = NULL
        => status[r] = "FLAGGED"

\* "Done outside the main transaction so a single bad tag doesn't roll back the status
\* update", moderation.worker.ts:106-107: a committed verdict stands until a moderator
\* decides, whatever becomes of the tags.
VerdictStands ==
    \A r \in Reviews :
        "completedAt" \in tracking[r] /\ moderatedBy[r] = NULL =>
            status[r] = ReviewStatusOf(aiLabel[r])
==============================================================================
