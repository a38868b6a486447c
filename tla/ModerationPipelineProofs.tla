----------------------- MODULE ModerationPipelineProofs -----------------------
(***************************************************************************)
(* Machine-checked proofs about ModerationPipeline, for any number of      *)
(* reviews, slots and moderators and any limits of the queue.              *)
(***************************************************************************)
EXTENDS ModerationPipeline, FiniteSetTheorems, TLAPS

USE DEF Live, Settled, Over, InFlight, Columns, AiLabels, FaultKinds

------------------------------------------------------------------------------
(* Type correctness *)

\* A slot in the middle of an invocation has a review: what makes the slot's reads
\* of its job's data well typed.
BusySlots == \A s \in Slots : slotStep[s] # "idle" => slotJob[s] \in Reviews

LEMMA InitTypeOK == Init => TypeOK /\ BusySlots
BY DomainAssumption DEF Init, TypeOK, BusySlots

\* The review status a label maps to is always a decided one.
LEMMA ReviewStatusRange ==
    ASSUME NEW label
    PROVE  ReviewStatusOf(label) \in {"APPROVED", "REJECTED", "FLAGGED"}
BY DEF ReviewStatusOf

\* What the "failed" listener leaves to do is a well-formed invocation of the review.
LEMMA FailedEventType ==
    ASSUME NEW r \in Reviews, NEW n \in Nat
    PROVE  FailedEvent(r, n) \subseteq HandlerCall
BY DEF FailedEvent, HandlerCall

LEMMA RequestPreservesType ==
    ASSUME TypeOK, BusySlots, NEW r \in Reviews, Submit(r) \/ RequestStep(r)
    PROVE  TypeOK' /\ BusySlots'
<1> USE DEF TypeOK, BusySlots, reviewRows, queueVars, slotVars
<1>1. CASE Submit(r)
  BY <1>1, DomainAssumption DEF Submit
<1>2. CASE UploadMedia(r)
  BY <1>2 DEF UploadMedia
<1>3. CASE CreateModerationJob(r)
  BY <1>3 DEF CreateModerationJob
<1>4. CASE EnqueueModerationJob(r)
  BY <1>4 DEF EnqueueModerationJob
<1>5. CASE UpdateModerationJobBullId(r)
  BY <1>5 DEF UpdateModerationJobBullId
<1>6. CASE RequestFails(r)
  BY <1>6 DEF RequestFails
<1> QED
  BY <1>1, <1>2, <1>3, <1>4, <1>5, <1>6 DEF RequestStep

LEMMA WorkerPreservesType ==
    ASSUME TypeOK, BusySlots, NEW s \in Slots,
           (\E r \in Reviews : TakeJob(s, r)) \/ SlotStep(s)
    PROVE  TypeOK' /\ BusySlots'
<1> USE DEF BusySlots, reviewRows, queueVars, slotVars
<1>1. ASSUME NEW r \in Reviews, TakeJob(s, r) PROVE TypeOK' /\ BusySlots'
  BY <1>1 DEF TypeOK, TakeJob, StartJob
<1>2. CASE AiAnswers(s)
  BY <1>2 DEF TypeOK, AiAnswers
<1>3. CASE CommitVerdict(s)
  <2>1. ReviewStatusOf(text[slotJob[s]]) \in {"APPROVED", "REJECTED", "FLAGGED"}
    BY ReviewStatusRange
  <2> QED
    BY <1>3, <2>1 DEF TypeOK, CommitVerdict
<1>4. CASE LinkTags(s)
  BY <1>4 DEF TypeOK, LinkTags
<1>5. CASE ProcessorThrows(s)
  BY <1>5 DEF TypeOK, ProcessorThrows
<1>6. CASE JobCompletes(s)
  BY <1>6 DEF TypeOK, JobCompletes, FreeSlot
<1>7. CASE JobFails(s)
  <2>1. /\ slotJob[s] \in Reviews
        /\ attemptsMade[slotJob[s]] + 1 \in Nat
    BY <1>7 DEF TypeOK, JobFails
  <2>2. FailedEvent(slotJob[s], attemptsMade[slotJob[s]] + 1) \subseteq HandlerCall
    BY <2>1, FailedEventType
  <2> QED
    BY <1>7, <2>1, <2>2 DEF TypeOK, JobFails, FreeSlot
<1>8. CASE LateInvocationEnds(s)
  BY <1>8 DEF TypeOK, LateInvocationEnds, FreeSlot
<1> QED
  BY <1>1, <1>2, <1>3, <1>4, <1>5, <1>6, <1>7, <1>8 DEF SlotStep

LEMMA QueuePreservesType ==
    ASSUME TypeOK, BusySlots, NEW r \in Reviews, QueueStep(r) \/ LoseLock(r) \/ LoseJob(r)
    PROVE  TypeOK' /\ BusySlots'
<1> USE DEF TypeOK, BusySlots, reviewRows, queueVars, slotVars
<1>1. CASE PromoteDelayed(r)
  BY <1>1 DEF PromoteDelayed
<1>2. CASE RecoverStalled(r)
  BY <1>2 DEF RecoverStalled
<1>3. CASE GiveUpStalled(r)
  BY <1>3, FailedEventType DEF GiveUpStalled
<1>4. CASE LoseLock(r)
  BY <1>4 DEF LoseLock
<1>5. CASE LoseJob(r)
  BY <1>5 DEF LoseJob
<1>6. CASE LockExpires(r)
  BY <1>6 DEF LockExpires
<1> QED
  BY <1>1, <1>2, <1>3, <1>4, <1>5, <1>6 DEF QueueStep

LEMMA HandlerPreservesType ==
    ASSUME TypeOK, BusySlots, NEW h \in handlers, HandlerStep(h)
    PROVE  TypeOK' /\ BusySlots'
<1> USE DEF TypeOK, BusySlots, reviewRows, queueVars, slotVars
<1>1. /\ h \in HandlerCall
      /\ h.review \in Reviews
      /\ [h EXCEPT !.step = "stamp"] \in HandlerCall
  BY DEF HandlerCall
<1>2. CASE FlagExhausted(h)
  BY <1>1, <1>2 DEF FlagExhausted
<1>3. CASE StampFailure(h)
  BY <1>1, <1>3 DEF StampFailure
<1>4. CASE HandlerWriteFails(h)
  BY <1>1, <1>4 DEF HandlerWriteFails
<1> QED
  BY <1>2, <1>3, <1>4 DEF HandlerStep

LEMMA AdminPreservesType ==
    ASSUME TypeOK, BusySlots, NEW m \in Moderators, AdminStep(m)
    PROVE  TypeOK' /\ BusySlots'
<1> USE DEF TypeOK, BusySlots, reviewRows, queueVars, slotVars
<1>1. ASSUME NEW r \in Reviews, NEW d \in {"APPROVED", "REJECTED"}, OpenCase(m, r, d)
      PROVE  TypeOK' /\ BusySlots'
  BY <1>1 DEF OpenCase, AdminCall
<1>2. CASE DecideCase(m)
  <2>1. desk[m] \in AdminCall
    BY <1>2 DEF DecideCase
  <2> QED
    BY <1>2, <2>1 DEF DecideCase, AdminCall
<1>3. CASE CaseFails(m)
  BY <1>3 DEF CaseFails
<1> QED
  BY <1>1, <1>2, <1>3 DEF AdminStep

LEMMA ProcessPreservesType ==
    ASSUME TypeOK, BusySlots, Crash \/ Restart
    PROVE  TypeOK' /\ BusySlots'
<1>1. CASE Crash
  BY <1>1 DEF TypeOK, BusySlots, Crash, Orphaned, reviewRows, queueVars
<1>2. CASE Restart
  BY <1>2 DEF TypeOK, BusySlots, Restart, reviewRows, queueVars, slotVars
<1> QED
  BY <1>1, <1>2

LEMMA TypeStep == TypeOK /\ BusySlots /\ [Next]_vars => TypeOK' /\ BusySlots'
<1> SUFFICES ASSUME TypeOK, BusySlots, [Next]_vars PROVE TypeOK' /\ BusySlots'
  OBVIOUS
<1>1. CASE Next
  BY <1>1, RequestPreservesType, WorkerPreservesType, QueuePreservesType,
     HandlerPreservesType, AdminPreservesType, ProcessPreservesType DEF Next
<1>2. CASE UNCHANGED vars
  BY <1>2 DEF TypeOK, BusySlots, vars, reviewRows, queueVars, slotVars
<1> QED
  BY <1>1, <1>2

\* Every reachable state is well typed: no step of a request, the worker, the queue,
\* a handler or an administrator leaves the values the code's columns and the job
\* states can have, with any number of reviews, slots and attempts.
THEOREM TypeCorrect == Spec => []TypeOK
BY InitTypeOK, TypeStep, PTL DEF Spec

------------------------------------------------------------------------------
(* What a job leaves behind *)

\* How the rows, the jobs, the slots and the calls belong together: a job exists only
\* for a stored review whose call got as far as queueing it, and whoever works on
\* behalf of a job works for one that exists.
Belonging ==
    /\ \A r \in Reviews : status[r] = "ABSENT" => request[r] = "none"
    /\ \A r \in Reviews : status[r] # "ABSENT" => text[r] # NULL
    /\ \A r \in Reviews : request[r] \in {"none", "uploading", "tracking", "enqueueing"}
                              => jobState[r] = "none"
    /\ \A s \in Slots : slotStep[s] # "idle" => jobState[slotJob[s]] # "none"
    /\ \A h \in handlers : jobState[h.review] # "none"
    /\ \A m \in Moderators : desk[m] # NULL => status[desk[m].review] # "ABSENT"

Recorded(r) ==
    /\ status[r] \notin {"ABSENT", "PENDING"}
    /\ aiLabel[r] = text[r]
    /\ "completedAt" \in tracking[r]

\* What an invocation has written by the step it stands at stays written, and is
\* complete when the job completes.
Recording ==
    /\ \A s \in Slots : slotStep[s] \in {"tagging", "returning"} => Recorded(slotJob[s])
    /\ \A s \in Slots : slotStep[s] = "returning" => tagsLinked[slotJob[s]]
    /\ \A r \in Reviews : jobState[r] = "completed" => Recorded(r) /\ tagsLinked[r]

RecordingInv == TypeOK /\ BusySlots /\ Belonging /\ Recording

LEMMA RequestPreservesRecording ==
    ASSUME RecordingInv, NEW r \in Reviews, Submit(r) \/ RequestStep(r)
    PROVE  Belonging' /\ Recording'
<1> USE DEF RecordingInv, TypeOK, BusySlots, Belonging, Recording, Recorded,
            reviewRows, queueVars, slotVars
<1>1. CASE Submit(r)
  BY <1>1, DomainAssumption DEF Submit, AdminCall, HandlerCall
<1>2. CASE UploadMedia(r)
  BY <1>2 DEF UploadMedia
<1>3. CASE CreateModerationJob(r)
  BY <1>3 DEF CreateModerationJob
<1>4. CASE EnqueueModerationJob(r)
  BY <1>4 DEF EnqueueModerationJob, HandlerCall
<1>5. CASE UpdateModerationJobBullId(r)
  BY <1>5 DEF UpdateModerationJobBullId
<1>6. CASE RequestFails(r)
  BY <1>6 DEF RequestFails
<1> QED
  BY <1>1, <1>2, <1>3, <1>4, <1>5, <1>6 DEF RequestStep

LEMMA WorkerPreservesRecording ==
    ASSUME RecordingInv, NEW s \in Slots,
           (\E r \in Reviews : TakeJob(s, r)) \/ SlotStep(s)
    PROVE  Belonging' /\ Recording'
<1> USE DEF RecordingInv, TypeOK, BusySlots, Belonging, Recording, Recorded,
            reviewRows, queueVars, slotVars
<1>1. ASSUME NEW r \in Reviews, TakeJob(s, r) PROVE Belonging' /\ Recording'
  BY <1>1 DEF TakeJob, StartJob, HandlerCall
<1>2. CASE AiAnswers(s)
  BY <1>2 DEF AiAnswers
<1>3. CASE CommitVerdict(s)
  <2>1. ReviewStatusOf(text[slotJob[s]]) \in {"APPROVED", "REJECTED", "FLAGGED"}
    BY ReviewStatusRange
  <2> QED
    BY <1>3, <2>1 DEF CommitVerdict, AdminCall
<1>4. CASE LinkTags(s)
  BY <1>4 DEF LinkTags
<1>5. CASE ProcessorThrows(s)
  BY <1>5 DEF ProcessorThrows
<1>6. CASE JobCompletes(s)
  BY <1>6 DEF JobCompletes, FreeSlot, HandlerCall
<1>7. CASE JobFails(s)
  <2> DEFINE r == slotJob[s]
             n == attemptsMade[r] + 1
  <2>1. r \in Reviews
    BY <1>7 DEF JobFails
  <2>2. \A h \in FailedEvent(r, n) : h.review = r
    BY DEF FailedEvent
  <2> QED
    BY <1>7, <2>1, <2>2 DEF JobFails, FreeSlot, HandlerCall
<1>8. CASE LateInvocationEnds(s)
  BY <1>8 DEF LateInvocationEnds, FreeSlot
<1> QED
  BY <1>1, <1>2, <1>3, <1>4, <1>5, <1>6, <1>7, <1>8 DEF SlotStep

LEMMA QueuePreservesRecording ==
    ASSUME RecordingInv, NEW r \in Reviews, QueueStep(r) \/ LoseLock(r) \/ LoseJob(r)
    PROVE  Belonging' /\ Recording'
<1> USE DEF RecordingInv, TypeOK, BusySlots, Belonging, Recording, Recorded,
            reviewRows, queueVars, slotVars
<1>1. CASE PromoteDelayed(r)
  BY <1>1 DEF PromoteDelayed, HandlerCall
<1>2. CASE RecoverStalled(r)
  BY <1>2 DEF RecoverStalled, HandlerCall
<1>3. CASE GiveUpStalled(r)
  <2>1. \A n \in Nat : \A h \in FailedEvent(r, n) : h.review = r
    BY DEF FailedEvent
  <2> QED
    BY <1>3, <2>1 DEF GiveUpStalled, HandlerCall
<1>4. CASE LoseLock(r)
  BY <1>4 DEF LoseLock
<1>5. CASE LoseJob(r)
  BY <1>5 DEF LoseJob, HandlerCall
<1>6. CASE LockExpires(r)
  BY <1>6 DEF LockExpires
<1> QED
  BY <1>1, <1>2, <1>3, <1>4, <1>5, <1>6 DEF QueueStep

LEMMA HandlerPreservesRecording ==
    ASSUME RecordingInv, NEW h \in handlers, HandlerStep(h)
    PROVE  Belonging' /\ Recording'
<1> USE DEF RecordingInv, TypeOK, BusySlots, Belonging, Recording, Recorded,
            reviewRows, queueVars, slotVars
<1> DEFINE k == [h EXCEPT !.step = "stamp"]
<1>1. /\ h.review \in Reviews
      /\ jobState[h.review] # "none"
      /\ k.review = h.review
  BY DEF HandlerCall
<1>2. CASE FlagExhausted(h)
  <2>1. handlers' = (handlers \ {h}) \cup {k}
    BY <1>2 DEF FlagExhausted
  <2> HIDE DEF k
  <2> QED
    BY <1>1, <1>2, <2>1 DEF FlagExhausted, AdminCall
<1>3. CASE StampFailure(h)
  BY <1>1, <1>3 DEF StampFailure
<1>4. CASE HandlerWriteFails(h)
  <2>1. handlers' \subseteq (handlers \ {h}) \cup {k}
    BY <1>4 DEF HandlerWriteFails
  <2> HIDE DEF k
  <2> QED
    BY <1>1, <1>4, <2>1 DEF HandlerWriteFails
<1> QED
  BY <1>2, <1>3, <1>4 DEF HandlerStep

LEMMA AdminPreservesRecording ==
    ASSUME RecordingInv, NEW m \in Moderators, AdminStep(m)
    PROVE  Belonging' /\ Recording'
<1> USE DEF RecordingInv, TypeOK, BusySlots, Belonging, Recording, Recorded,
            reviewRows, queueVars, slotVars
<1>1. ASSUME NEW r \in Reviews, NEW d \in {"APPROVED", "REJECTED"}, OpenCase(m, r, d)
      PROVE  Belonging' /\ Recording'
  BY <1>1 DEF OpenCase, AdminCall
<1>2. CASE DecideCase(m)
  <2>1. /\ desk[m].review \in Reviews
        /\ desk[m].decision \in {"APPROVED", "REJECTED"}
        /\ status[desk[m].review] # "ABSENT"
    BY <1>2 DEF DecideCase, AdminCall
  <2> QED
    BY <1>2, <2>1 DEF DecideCase, AdminCall
<1>3. CASE CaseFails(m)
  BY <1>3 DEF CaseFails
<1> QED
  BY <1>1, <1>2, <1>3 DEF AdminStep

LEMMA ProcessPreservesRecording ==
    ASSUME RecordingInv, Crash \/ Restart
    PROVE  Belonging' /\ Recording'
<1> USE DEF RecordingInv, TypeOK, Belonging, Recording, Recorded,
            reviewRows, queueVars, slotVars
<1>1. CASE Crash
  BY <1>1, DomainAssumption DEF Crash
<1>2. CASE Restart
  BY <1>2 DEF Restart
<1> QED
  BY <1>1, <1>2

LEMMA RecordingStep == RecordingInv /\ [Next]_vars => RecordingInv'
<1> SUFFICES ASSUME RecordingInv, [Next]_vars PROVE Belonging' /\ Recording'
  BY TypeStep DEF RecordingInv
<1>1. CASE Next
  BY <1>1, RequestPreservesRecording, WorkerPreservesRecording, QueuePreservesRecording,
     HandlerPreservesRecording, AdminPreservesRecording, ProcessPreservesRecording DEF Next
<1>2. CASE UNCHANGED vars
  BY <1>2 DEF RecordingInv, Belonging, Recording, Recorded, vars, reviewRows, queueVars,
              slotVars
<1> QED
  BY <1>1, <1>2

LEMMA RecordingInvariantInit == Init => RecordingInv
BY InitTypeOK, DomainAssumption DEF Init, RecordingInv, Belonging, Recording

LEMMA RecordingInvariant == Spec => []RecordingInv
BY RecordingInvariantInit, RecordingStep, PTL DEF Spec

\* A completed job left nothing half done, for any number of slots and attempts and
\* under every fault: its verdict, label, completion stamp and tags are all recorded.
THEOREM CompletedJobs == Spec => []CompletedJobIsFullyRecorded
<1>1. RecordingInv => CompletedJobIsFullyRecorded
  BY DEF RecordingInv, Recording, Recorded, CompletedJobIsFullyRecorded
<1> QED
  BY <1>1, RecordingInvariant, PTL

------------------------------------------------------------------------------
(* Why a review has the status it has *)

\* A pending handler belongs to a job that has really used up its attempts, and
\* attempts are never taken back.
HandlersEarned ==
    \A h \in handlers : EnvAttempts <= h.attempts /\ h.attempts <= attemptsMade[h.review]

Explained(r) ==
    status[r] \in {"APPROVED", "REJECTED", "FLAGGED"} =>
        \/ aiLabel[r] = text[r] /\ status[r] = ReviewStatusOf(text[r])
        \/ status[r] = "FLAGGED" /\ attemptsMade[r] >= EnvAttempts
        \/ status[r] # "FLAGGED" /\ moderatedBy[r] # NULL

ExplainedInv == RecordingInv /\ HandlersEarned /\ \A r \in Reviews : Explained(r)

\* The steps that leave the review's text, status, label and signature alone.
StatusUntouched == UNCHANGED <<text, status, aiLabel, moderatedBy>>

LEMMA QuietStepsPreserveExplained ==
    ASSUME ExplainedInv, StatusUntouched,
           \A r \in Reviews : attemptsMade'[r] \in Nat /\ attemptsMade[r] <= attemptsMade'[r]
    PROVE  \A r \in Reviews : Explained(r)'
BY AttemptsAssumption DEF ExplainedInv, RecordingInv, TypeOK, StatusUntouched, Explained

\* What the "failed" listener adds has the attempts it was called with.
LEMMA FailedEventEarned ==
    ASSUME NEW r \in Reviews, NEW n \in Nat, NEW h \in FailedEvent(r, n)
    PROVE  h.review = r /\ h.attempts = n /\ EnvAttempts <= n /\ h.step = "flag"
BY AttemptsAssumption DEF FailedEvent

LEMMA RequestPreservesExplained ==
    ASSUME ExplainedInv, NEW r \in Reviews, Submit(r) \/ RequestStep(r)
    PROVE  HandlersEarned' /\ \A q \in Reviews : Explained(q)'
<1> USE DEF ExplainedInv, RecordingInv, TypeOK, HandlersEarned, reviewRows, queueVars
<1>1. CASE Submit(r)
  BY <1>1 DEF Submit, Explained
<1>2. CASE RequestStep(r)
  <2>1. StatusUntouched /\ UNCHANGED <<attemptsMade, handlers>>
    BY <1>2 DEF RequestStep, UploadMedia, CreateModerationJob, EnqueueModerationJob,
                UpdateModerationJobBullId, RequestFails, StatusUntouched
  <2> QED
    BY <2>1, QuietStepsPreserveExplained
<1> QED
  BY <1>1, <1>2

LEMMA WorkerPreservesExplained ==
    ASSUME ExplainedInv, NEW s \in Slots,
           (\E r \in Reviews : TakeJob(s, r)) \/ SlotStep(s)
    PROVE  HandlersEarned' /\ \A q \in Reviews : Explained(q)'
<1> USE DEF ExplainedInv, RecordingInv, TypeOK, BusySlots, HandlersEarned, HandlerCall,
            reviewRows, queueVars
<1>1. CASE CommitVerdict(s)
  <2>1. slotJob[s] \in Reviews
    BY <1>1 DEF CommitVerdict
  <2> QED
    BY <1>1, <2>1 DEF CommitVerdict, Explained
<1>2. CASE JobFails(s)
  <2> DEFINE r == slotJob[s]
             n == attemptsMade[r] + 1
  <2>1. r \in Reviews /\ n \in Nat
    BY <1>2 DEF JobFails
  <2>2. \A h \in FailedEvent(r, n) : h.review = r /\ h.attempts = n /\ EnvAttempts <= n
    BY <2>1, FailedEventEarned
  <2>3. /\ StatusUntouched
        /\ handlers' = handlers \cup FailedEvent(r, n)
        /\ attemptsMade' = [attemptsMade EXCEPT ![r] = n]
    BY <1>2 DEF JobFails, StatusUntouched
  <2>4. \A q \in Reviews : attemptsMade'[q] \in Nat /\ attemptsMade[q] <= attemptsMade'[q]
    BY <2>1, <2>3
  <2>5. HandlersEarned'
    BY <2>1, <2>2, <2>3, <2>4, AttemptsAssumption
  <2> QED
    BY <2>3, <2>4, <2>5, QuietStepsPreserveExplained
<1>3. ASSUME StatusUntouched, UNCHANGED <<attemptsMade, handlers>>
      PROVE  HandlersEarned' /\ \A q \in Reviews : Explained(q)'
  BY <1>3, QuietStepsPreserveExplained
<1> QED
  BY <1>1, <1>2, <1>3 DEF SlotStep, TakeJob, AiAnswers, LinkTags, ProcessorThrows,
     JobCompletes, LateInvocationEnds, StatusUntouched

LEMMA QueuePreservesExplained ==
    ASSUME ExplainedInv, NEW r \in Reviews, QueueStep(r) \/ LoseLock(r) \/ LoseJob(r)
    PROVE  HandlersEarned' /\ \A q \in Reviews : Explained(q)'
<1> USE DEF ExplainedInv, RecordingInv, TypeOK, HandlersEarned, HandlerCall,
            reviewRows, queueVars
<1>1. CASE GiveUpStalled(r)
  <2>1. PICK n \in {attemptsMade[r], attemptsMade[r] + 1} :
              /\ attemptsMade' = [attemptsMade EXCEPT ![r] = n]
              /\ handlers' = handlers \cup FailedEvent(r, n)
    BY <1>1 DEF GiveUpStalled
  <2>2. n \in Nat /\ attemptsMade[r] <= n
    OBVIOUS
  <2>3. \A h \in FailedEvent(r, n) : h.review = r /\ h.attempts = n /\ EnvAttempts <= n
    BY <2>2, FailedEventEarned
  <2>4. StatusUntouched
    BY <1>1 DEF GiveUpStalled, StatusUntouched
  <2>5. \A q \in Reviews : attemptsMade'[q] \in Nat /\ attemptsMade[q] <= attemptsMade'[q]
    BY <2>1, <2>2
  <2>6. HandlersEarned'
    BY <2>1, <2>2, <2>3, <2>5, AttemptsAssumption
  <2> QED
    BY <2>4, <2>5, <2>6, QuietStepsPreserveExplained
<1>2. ASSUME StatusUntouched, UNCHANGED <<attemptsMade, handlers>>
      PROVE  HandlersEarned' /\ \A q \in Reviews : Explained(q)'
  BY <1>2, QuietStepsPreserveExplained
<1> QED
  BY <1>1, <1>2 DEF QueueStep, PromoteDelayed, LockExpires, RecoverStalled, LoseLock, LoseJob,
     StatusUntouched

LEMMA HandlerPreservesExplained ==
    ASSUME ExplainedInv, NEW h \in handlers, HandlerStep(h)
    PROVE  HandlersEarned' /\ \A q \in Reviews : Explained(q)'
<1> USE DEF ExplainedInv, RecordingInv, TypeOK, reviewRows, queueVars
<1> DEFINE k == [h EXCEPT !.step = "stamp"]
<1>1. /\ h.review \in Reviews
      /\ h.attempts \in Nat
      /\ k.review = h.review /\ k.attempts = h.attempts
      /\ EnvAttempts <= h.attempts /\ h.attempts <= attemptsMade[h.review]
  BY DEF HandlerCall, HandlersEarned
<1>2. handlers' \subseteq handlers \cup {k} /\ UNCHANGED attemptsMade
  BY DEF HandlerStep, FlagExhausted, StampFailure, HandlerWriteFails
<1> HIDE DEF k
<1>3. HandlersEarned'
  BY <1>1, <1>2 DEF HandlersEarned
<1>4. \A q \in Reviews : Explained(q)'
  <2>1. CASE FlagExhausted(h)
    BY <1>1, <2>1, AttemptsAssumption DEF FlagExhausted, Explained
  <2>2. CASE StatusUntouched
    BY <1>2, <2>2, QuietStepsPreserveExplained
  <2> QED
    BY <2>1, <2>2 DEF HandlerStep, StampFailure, HandlerWriteFails, StatusUntouched
<1> QED
  BY <1>3, <1>4

LEMMA AdminPreservesExplained ==
    ASSUME ExplainedInv, NEW m \in Moderators, AdminStep(m)
    PROVE  HandlersEarned' /\ \A q \in Reviews : Explained(q)'
<1> USE DEF ExplainedInv, RecordingInv, TypeOK, HandlersEarned, reviewRows, queueVars
<1>1. CASE DecideCase(m)
  <2>1. /\ desk[m].review \in Reviews
        /\ desk[m].decision \in {"APPROVED", "REJECTED"}
    BY <1>1 DEF DecideCase, AdminCall
  <2>2. m # NULL
    BY DomainAssumption
  <2> QED
    BY <1>1, <2>1, <2>2 DEF DecideCase, Explained
<1>2. CASE StatusUntouched /\ UNCHANGED <<attemptsMade, handlers>>
  BY <1>2, QuietStepsPreserveExplained
<1> QED
  BY <1>1, <1>2 DEF AdminStep, OpenCase, CaseFails, StatusUntouched

LEMMA ExplainedStep == ExplainedInv /\ [Next]_vars => ExplainedInv'
<1> SUFFICES ASSUME ExplainedInv, [Next]_vars
             PROVE  HandlersEarned' /\ \A q \in Reviews : Explained(q)'
  BY RecordingStep DEF ExplainedInv
<1>1. ASSUME StatusUntouched, attemptsMade' = attemptsMade, handlers' \subseteq handlers
      PROVE  HandlersEarned' /\ \A q \in Reviews : Explained(q)'
  <2>1. HandlersEarned'
    BY <1>1 DEF ExplainedInv, HandlersEarned
  <2> QED
    BY <1>1, <2>1, QuietStepsPreserveExplained DEF ExplainedInv, RecordingInv, TypeOK
<1>2. CASE Next
  <2>1. CASE Crash \/ Restart
    BY <1>1, <2>1 DEF Crash, Restart, StatusUntouched, reviewRows, queueVars
  <2> QED
    BY <1>2, <2>1, RequestPreservesExplained, WorkerPreservesExplained,
       QueuePreservesExplained, HandlerPreservesExplained, AdminPreservesExplained DEF Next
<1>3. CASE UNCHANGED vars
  BY <1>1, <1>3 DEF vars, reviewRows, queueVars, StatusUntouched
<1> QED
  BY <1>2, <1>3

\* Every decided status can be explained from the rows, under every fault: the AI's
\* label of this text maps to it, the attempts ran out, or a moderator signed.
THEOREM StatusIsExplained == Spec => []StatusExplained
<1>1. Init => ExplainedInv
  BY RecordingInvariantInit DEF ExplainedInv, HandlersEarned, Explained, Init
<1>2. ExplainedInv => StatusExplained
  BY DEF ExplainedInv, Explained, StatusExplained
<1> QED
  BY <1>1, <1>2, ExplainedStep, PTL DEF Spec

------------------------------------------------------------------------------
(* Locks that do not expire under a running processor *)

\* A busy slot holds the lock of its active job, unless Redis lost the job, which then
\* nobody can take again; and no other slot has that job.
LockHeld ==
    /\ \A s \in Slots : slotJob[s] # NULL =>
          \/ jobState[slotJob[s]] = "active" /\ owner[slotJob[s]] = s
          \/ jobState[slotJob[s]] = "lost"
    /\ NoDoubleProcessing

LEMMA LockStep ==
    ASSUME "lockLoss" \notin Faults
    PROVE  RecordingInv /\ LockHeld /\ [Next]_vars => LockHeld'
<1> SUFFICES ASSUME RecordingInv, LockHeld, [Next]_vars PROVE LockHeld'
  OBVIOUS
<1> USE DEF RecordingInv, TypeOK, BusySlots, Belonging, LockHeld, NoDoubleProcessing,
            reviewRows, queueVars, slotVars
<1>1. ASSUME NEW r \in Reviews, Submit(r) \/ RequestStep(r) PROVE LockHeld'
  BY <1>1 DEF Submit, RequestStep, UploadMedia, CreateModerationJob, EnqueueModerationJob,
              UpdateModerationJobBullId, RequestFails
<1>2. ASSUME NEW s \in Slots, NEW r \in Reviews, TakeJob(s, r) PROVE LockHeld'
  BY <1>2, DomainAssumption DEF TakeJob, StartJob
<1>3. ASSUME NEW s \in Slots, SlotStep(s) PROVE LockHeld'
  <2>1. CASE JobCompletes(s)
    BY <2>1 DEF JobCompletes, FreeSlot
  <2>2. CASE JobFails(s)
    BY <2>2 DEF JobFails, FreeSlot
  <2>3. CASE LateInvocationEnds(s)
    BY <2>3 DEF LateInvocationEnds, FreeSlot
  <2> QED
    BY <1>3, <2>1, <2>2, <2>3 DEF SlotStep, AiAnswers, CommitVerdict, LinkTags, ProcessorThrows
<1>4. ASSUME NEW r \in Reviews, QueueStep(r) \/ LoseJob(r) PROVE LockHeld'
  BY <1>4, DomainAssumption DEF QueueStep, PromoteDelayed, LockExpires, RecoverStalled,
     GiveUpStalled, LoseJob
<1>5. ASSUME NEW h \in handlers, HandlerStep(h) PROVE LockHeld'
  BY <1>5 DEF HandlerStep, FlagExhausted, StampFailure, HandlerWriteFails
<1>6. ASSUME NEW m \in Moderators, AdminStep(m) PROVE LockHeld'
  BY <1>6 DEF AdminStep, OpenCase, DecideCase, CaseFails
<1>7. CASE Crash \/ Restart
  BY <1>7 DEF Crash, Restart
<1>8. CASE UNCHANGED vars
  BY <1>8 DEF vars
<1> QED
  BY <1>1, <1>2, <1>3, <1>4, <1>5, <1>6, <1>7, <1>8 DEF Next, LoseLock

\* Without lock loss no two slots process the same review, for any number of slots,
\* whatever crashes, fails, stalls or goes missing.
THEOREM ExclusiveProcessing ==
    ASSUME "lockLoss" \notin Faults
    PROVE  Spec => []NoDoubleProcessing
<1>1. Init => LockHeld
  BY DEF Init, LockHeld, NoDoubleProcessing
<1>2. RecordingInv /\ LockHeld => NoDoubleProcessing
  BY DEF LockHeld
<1>3. RecordingInv /\ LockHeld /\ [Next]_vars => LockHeld'
  BY LockStep
<1> QED
  BY <1>1, <1>2, <1>3, RecordingInvariant, PTL DEF Spec

------------------------------------------------------------------------------
(* Locks and jobs *)

\* Only an active job carries a lock, be it one of a process that has stopped.
LocksOnActive == \A r \in Reviews : owner[r] # NULL => jobState[r] = "active"

LEMMA LocksStep == RecordingInv /\ LocksOnActive /\ [Next]_vars => LocksOnActive'
<1> SUFFICES ASSUME RecordingInv, LocksOnActive, [Next]_vars PROVE LocksOnActive'
  OBVIOUS
<1> USE DEF RecordingInv, TypeOK, BusySlots, Belonging, LocksOnActive, reviewRows, queueVars, slotVars
<1>1. ASSUME NEW r \in Reviews, Submit(r) \/ RequestStep(r) PROVE LocksOnActive'
  BY <1>1 DEF Submit, RequestStep, UploadMedia, CreateModerationJob, EnqueueModerationJob,
              UpdateModerationJobBullId, RequestFails
<1>2. ASSUME NEW s \in Slots, NEW r \in Reviews, TakeJob(s, r) PROVE LocksOnActive'
  BY <1>2, DomainAssumption DEF TakeJob, StartJob
<1>3. ASSUME NEW s \in Slots, SlotStep(s) PROVE LocksOnActive'
  <2>1. CASE JobCompletes(s)
    BY <2>1 DEF JobCompletes, FreeSlot
  <2>2. CASE JobFails(s)
    BY <2>2 DEF JobFails, FreeSlot
  <2>3. CASE LateInvocationEnds(s)
    BY <2>3 DEF LateInvocationEnds, FreeSlot
  <2> QED
    BY <1>3, <2>1, <2>2, <2>3 DEF SlotStep, AiAnswers, CommitVerdict, LinkTags, ProcessorThrows
<1>4. ASSUME NEW r \in Reviews, QueueStep(r) \/ LoseLock(r) \/ LoseJob(r) PROVE LocksOnActive'
  BY <1>4 DEF QueueStep, PromoteDelayed, LockExpires, RecoverStalled, GiveUpStalled, LoseLock, LoseJob
<1>5. ASSUME NEW h \in handlers, HandlerStep(h) PROVE LocksOnActive'
  BY <1>5 DEF HandlerStep, FlagExhausted, StampFailure, HandlerWriteFails
<1>6. ASSUME NEW m \in Moderators, AdminStep(m) PROVE LocksOnActive'
  BY <1>6 DEF AdminStep, OpenCase, DecideCase, CaseFails
<1>7. CASE Crash \/ Restart
  BY <1>7, DomainAssumption DEF Crash, Restart, Orphaned
<1>8. CASE UNCHANGED vars
  BY <1>8 DEF vars
<1> QED
  BY <1>1, <1>2, <1>3, <1>4, <1>5, <1>6, <1>7, <1>8 DEF Next

------------------------------------------------------------------------------
(* What a job has left *)

\* A job that is not over has an attempt left, and its counters stay within their limits.
WithinLimits ==
    \A r \in Reviews :
        /\ jobState[r] \in {"none"} \cup Live => attemptsMade[r] < QueueAttempts
        /\ attemptsMade[r] <= QueueAttempts
        /\ stalls[r] <= MaxStalledCount

JobInv == RecordingInv /\ LocksOnActive /\ WithinLimits

QueueUntouched == UNCHANGED <<jobState, attemptsMade, stalls>>

\* What the steps of the queue and the worker do to the one job they are about.
JobMoves(r) ==
    /\ \A q \in Reviews \ {r} : /\ jobState'[q] = jobState[q]
                                /\ attemptsMade'[q] = attemptsMade[q]
                                /\ stalls'[q] = stalls[q]
    /\ \/ /\ jobState[r] = "none" /\ jobState'[r] = "waiting"
          /\ attemptsMade'[r] = attemptsMade[r] /\ stalls'[r] = stalls[r]
       \/ /\ jobState[r] = "waiting" /\ jobState'[r] = "active"
          /\ attemptsMade'[r] = attemptsMade[r] /\ stalls'[r] = stalls[r]
       \/ /\ jobState[r] = "active" /\ jobState'[r] = "completed"
          /\ attemptsMade'[r] = attemptsMade[r] /\ stalls'[r] = stalls[r]
       \/ /\ jobState[r] = "active" /\ attemptsMade'[r] = attemptsMade[r] + 1
          /\ jobState'[r] = IF attemptsMade'[r] < QueueAttempts THEN "delayed" ELSE "failed"
          /\ stalls'[r] = stalls[r]
       \/ /\ jobState[r] = "delayed" /\ jobState'[r] = "waiting"
          /\ attemptsMade'[r] = attemptsMade[r] /\ stalls'[r] = stalls[r]
       \/ /\ jobState[r] \in Live /\ jobState'[r] = "lost"
          /\ attemptsMade'[r] = attemptsMade[r] /\ stalls'[r] = stalls[r]
       \/ /\ jobState[r] = "active" /\ jobState'[r] = "waiting"
          /\ stalls[r] < MaxStalledCount /\ stalls'[r] = stalls[r] + 1
          /\ attemptsMade'[r] = attemptsMade[r]
       \/ /\ jobState[r] = "active" /\ jobState'[r] = "failed"
          /\ stalls[r] = MaxStalledCount /\ stalls'[r] = stalls[r]
          /\ attemptsMade'[r] \in {attemptsMade[r], attemptsMade[r] + 1}

LEMMA EveryStepMovesOneJob ==
    ASSUME RecordingInv, LocksOnActive, [Next]_vars
    PROVE  QueueUntouched \/ \E r \in Reviews : JobMoves(r)
<1> USE DEF RecordingInv, TypeOK, BusySlots, QueueUntouched, reviewRows, queueVars
<1>1. ASSUME NEW r \in Reviews, Submit(r) \/ RequestStep(r) PROVE QueueUntouched \/ JobMoves(r)
  BY <1>1 DEF Submit, RequestStep, UploadMedia, CreateModerationJob, EnqueueModerationJob,
              UpdateModerationJobBullId, RequestFails, Belonging, JobMoves
<1>2. ASSUME NEW s \in Slots, NEW r \in Reviews, TakeJob(s, r) PROVE JobMoves(r)
  BY <1>2 DEF TakeJob, StartJob, JobMoves
<1>3. ASSUME NEW s \in Slots, SlotStep(s)
      PROVE  QueueUntouched \/ \E r \in Reviews : JobMoves(r)
  <2>1. CASE JobCompletes(s)
    <3>1. slotJob[s] \in Reviews /\ jobState[slotJob[s]] = "active"
      BY <2>1, DomainAssumption DEF JobCompletes, LocksOnActive
    <3> QED
      BY <2>1, <3>1 DEF JobCompletes, JobMoves
  <2>2. CASE JobFails(s)
    <3>1. slotJob[s] \in Reviews /\ jobState[slotJob[s]] = "active"
      BY <2>2, DomainAssumption DEF JobFails, LocksOnActive
    <3> QED
      BY <2>2, <3>1 DEF JobFails, JobMoves
  <2> QED
    BY <1>3, <2>1, <2>2 DEF SlotStep, AiAnswers, CommitVerdict, LinkTags, ProcessorThrows,
       LateInvocationEnds
<1>4. ASSUME NEW r \in Reviews, QueueStep(r) \/ LoseLock(r) \/ LoseJob(r)
      PROVE  QueueUntouched \/ JobMoves(r)
  BY <1>4 DEF QueueStep, PromoteDelayed, LockExpires, RecoverStalled, GiveUpStalled,
     LoseLock, LoseJob, JobMoves
<1>5. ASSUME NEW h \in handlers, HandlerStep(h) PROVE QueueUntouched
  BY <1>5 DEF HandlerStep, FlagExhausted, StampFailure, HandlerWriteFails
<1>6. ASSUME NEW m \in Moderators, AdminStep(m) PROVE QueueUntouched
  BY <1>6 DEF AdminStep, OpenCase, DecideCase, CaseFails
<1>7. CASE Crash \/ Restart
  BY <1>7 DEF Crash, Restart
<1>8. CASE UNCHANGED vars
  BY <1>8 DEF vars
<1> QED
  BY <1>1, <1>2, <1>3, <1>4, <1>5, <1>6, <1>7, <1>8 DEF Next

LEMMA LimitsStep == JobInv /\ [Next]_vars => WithinLimits'
<1> SUFFICES ASSUME JobInv, [Next]_vars PROVE WithinLimits'
  OBVIOUS
<1> USE DEF JobInv, RecordingInv, TypeOK, WithinLimits
<1>1. CASE QueueUntouched
  BY <1>1 DEF QueueUntouched
<1>2. ASSUME NEW r \in Reviews, JobMoves(r) PROVE WithinLimits'
  BY <1>2, AttemptsAssumption DEF JobMoves
<1> QED
  BY <1>1, <1>2, EveryStepMovesOneJob

LEMMA JobInvariant == Spec => []JobInv
<1>1. Init => JobInv
  BY RecordingInvariantInit, AttemptsAssumption DEF Init, JobInv, LocksOnActive, WithinLimits
<1>2. JobInv /\ [Next]_vars => JobInv'
  BY LimitsStep, RecordingStep, LocksStep DEF JobInv
<1> QED
  BY <1>1, <1>2, PTL DEF Spec

\* A move of a queued job costs some of its budget, and the budget is never overdrawn.
LEMMA MovesCost ==
    ASSUME JobInv, JobInv', NEW r \in Reviews, JobMoves(r), jobState[r] # "none"
    PROVE  Budget(r)' >= 0 /\ Budget(r)' < Budget(r)
<1> DEFINE left  == (QueueAttempts - attemptsMade[r]) + (MaxStalledCount - stalls[r])
           left2 == (QueueAttempts - attemptsMade'[r]) + (MaxStalledCount - stalls'[r])
<1>1. left \in Nat /\ left2 \in Nat
  BY AttemptsAssumption DEF JobInv, RecordingInv, TypeOK, WithinLimits
<1>2. \/ left2 = left /\ WayToGo(jobState'[r]) < WayToGo(jobState[r])
      \/ left2 < left /\ WayToGo(jobState'[r]) < WayToGo(jobState[r]) + 3
  BY AttemptsAssumption DEF JobInv, RecordingInv, TypeOK, WithinLimits, JobMoves, WayToGo
<1>3. WayToGo(jobState[r]) \in Nat /\ WayToGo(jobState'[r]) \in Nat
  BY DEF WayToGo
<1>4. Budget(r) = 3 * left + WayToGo(jobState[r]) /\ Budget(r)' = 3 * left2 + WayToGo(jobState'[r])
  BY DEF Budget
<1> HIDE DEF left, left2
<1> QED
  BY <1>1, <1>2, <1>3, <1>4

\* Under every fault, each step of a queued job uses up a part of a budget that is fixed
\* when the job is queued: the safety half of the liveness property JobsSettle.
THEOREM JobsAdvance == Spec => JobsOnlyAdvance
<1>1. JobInv /\ JobInv' /\ [Next]_vars => [\A r \in Reviews : Advances(r)]_vars
  <2> SUFFICES ASSUME JobInv, JobInv', [Next]_vars, NEW r \in Reviews PROVE Advances(r)
    OBVIOUS
  <2>1. CASE QueueUntouched
    BY <2>1 DEF QueueUntouched, Advances
  <2>2. ASSUME NEW q \in Reviews, JobMoves(q) PROVE Advances(r)
    <3>1. CASE r = q
      BY <2>2, <3>1, MovesCost DEF Advances
    <3>2. CASE r # q
      BY <2>2, <3>2 DEF JobMoves, Advances
    <3> QED
      BY <3>1, <3>2
  <2> QED
    BY <2>1, <2>2, EveryStepMovesOneJob DEF JobInv
<1> QED
  BY <1>1, JobInvariant, PTL DEF Spec, JobsOnlyAdvance

------------------------------------------------------------------------------
(* Why a review is still PENDING *)

PendingReason(r) ==
    status[r] = "PENDING" =>
        \/ request[r] \in {"uploading", "tracking", "enqueueing"}
        \/ request[r] = "failed" /\ jobState[r] = "none"
        \/ jobState[r] \in Live \cup {"lost"}
        \/ /\ jobState[r] = "failed"
           /\ \/ /\ attemptsMade[r] < EnvAttempts
                 /\ stalls[r] = MaxStalledCount \/ attemptsMade[r] = QueueAttempts
              \/ FlagPending(r)
              \/ r \in flagLost

PendingInv == \A r \in Reviews : PendingReason(r)

\* For an exhausted job the "failed" listener does leave its first write to do.
LEMMA FailedEventPending ==
    ASSUME NEW r \in Reviews, NEW n \in Nat, EnvAttempts <= n
    PROVE  \E h \in FailedEvent(r, n) : h.review = r /\ h.step = "flag"
<1>1. [review |-> r, attempts |-> n, step |-> "flag"] \in FailedEvent(r, n)
  BY AttemptsAssumption DEF FailedEvent
<1> QED
  BY <1>1

LEMMA PendingStep ==
    JobInv /\ PendingInv /\ [Next]_vars => PendingInv'
<1> SUFFICES ASSUME JobInv, PendingInv, [Next]_vars, NEW q \in Reviews
             PROVE  PendingReason(q)'
  BY DEF PendingInv
<1> USE DEF JobInv, FlagPending, RecordingInv, TypeOK, BusySlots, reviewRows, queueVars, slotVars
<1>0. PendingReason(q)
  BY DEF PendingInv
<1>1. ASSUME NEW r \in Reviews, Submit(r) \/ RequestStep(r) PROVE PendingReason(q)'
  BY <1>0, <1>1 DEF Submit, RequestStep, UploadMedia, CreateModerationJob, EnqueueModerationJob,
                    UpdateModerationJobBullId, RequestFails, PendingReason, Belonging
<1>2. ASSUME NEW s \in Slots, NEW r \in Reviews, TakeJob(s, r) PROVE PendingReason(q)'
  BY <1>0, <1>2 DEF TakeJob, StartJob, PendingReason
<1>3. ASSUME NEW s \in Slots, SlotStep(s) PROVE PendingReason(q)'
  <2>1. CASE CommitVerdict(s)
    BY <1>0, <2>1, ReviewStatusRange DEF CommitVerdict, PendingReason
  <2>2. CASE JobCompletes(s)
    BY <1>0, <2>2 DEF JobCompletes, FreeSlot, PendingReason, Recording, Recorded
  <2>3. CASE JobFails(s)
    <3> DEFINE r == slotJob[s]
               n == attemptsMade[r] + 1
    <3>1. r \in Reviews /\ n \in Nat
      BY <2>3 DEF JobFails
    <3>2. /\ handlers' = handlers \cup FailedEvent(r, n)
          /\ jobState' = [jobState EXCEPT ![r] = IF n < QueueAttempts THEN "delayed" ELSE "failed"]
          /\ attemptsMade' = [attemptsMade EXCEPT ![r] = n]
          /\ UNCHANGED <<status, request, stalls, flagLost>>
      BY <2>3 DEF JobFails
    <3>5. n <= QueueAttempts
      BY <2>3, <3>1, DomainAssumption, AttemptsAssumption DEF JobFails, LocksOnActive, WithinLimits
    <3>3. \/ n < QueueAttempts
          \/ n = QueueAttempts /\ n < EnvAttempts
          \/ \E h \in FailedEvent(r, n) : h.review = r /\ h.step = "flag"
      <4>1. CASE EnvAttempts <= n
        BY <3>1, <4>1, FailedEventPending
      <4>2. CASE ~(EnvAttempts <= n)
        BY <3>1, <3>5, <4>2, AttemptsAssumption
      <4> QED
        BY <4>1, <4>2
    <3> HIDE DEF r, n
    <3>4. CASE q = r
      BY <3>1, <3>2, <3>3, <3>4 DEF PendingReason
    <3>6. CASE q # r
      BY <1>0, <3>1, <3>2, <3>6 DEF PendingReason
    <3> QED
      BY <3>4, <3>6
  <2> QED
    BY <1>0, <1>3, <2>1, <2>2, <2>3 DEF SlotStep, AiAnswers, LinkTags, ProcessorThrows,
       LateInvocationEnds, PendingReason
<1>4. ASSUME NEW r \in Reviews, QueueStep(r) \/ LoseLock(r) \/ LoseJob(r) PROVE PendingReason(q)'
  <2>1. CASE GiveUpStalled(r)
    <3>1. PICK n \in {attemptsMade[r], attemptsMade[r] + 1} :
                /\ attemptsMade' = [attemptsMade EXCEPT ![r] = n]
                /\ handlers' = handlers \cup FailedEvent(r, n)
      BY <2>1 DEF GiveUpStalled
    <3>2. n < EnvAttempts \/ \E h \in FailedEvent(r, n) : h.review = r /\ h.step = "flag"
      BY AttemptsAssumption, FailedEventPending
    <3>3. CASE q = r
      BY <2>1, <3>1, <3>2, <3>3 DEF GiveUpStalled, PendingReason
    <3>4. CASE q # r
      BY <1>0, <2>1, <3>1, <3>4 DEF GiveUpStalled, PendingReason
    <3> QED
      BY <3>3, <3>4
  <2> QED
    BY <1>0, <1>4, <2>1 DEF QueueStep, PromoteDelayed, LockExpires, RecoverStalled, LoseLock, LoseJob,
       PendingReason
<1>5. ASSUME NEW h \in handlers, HandlerStep(h) PROVE PendingReason(q)'
  <2>1. h.review \in Reviews
    BY DEF HandlerCall
  <2>2. CASE FlagExhausted(h)
    BY <1>0, <2>1, <2>2 DEF FlagExhausted, PendingReason
  <2>3. CASE StampFailure(h)
    BY <1>0, <2>1, <2>3 DEF StampFailure, PendingReason
  <2>4. CASE HandlerWriteFails(h)
    BY <1>0, <2>1, <2>4 DEF HandlerWriteFails, PendingReason
  <2> QED
    BY <1>5, <2>2, <2>3, <2>4 DEF HandlerStep
<1>6. ASSUME NEW m \in Moderators, AdminStep(m) PROVE PendingReason(q)'
  <2>1. CASE DecideCase(m)
    <3>1. desk[m].review \in Reviews /\ desk[m].decision \in {"APPROVED", "REJECTED"}
      BY <2>1 DEF DecideCase, AdminCall
    <3> QED
      BY <1>0, <2>1, <3>1 DEF DecideCase, PendingReason
  <2> QED
    BY <1>0, <1>6, <2>1 DEF AdminStep, OpenCase, CaseFails, PendingReason
<1>7. CASE Restart
  BY <1>0, <1>7 DEF Restart, PendingReason
<1>8. CASE UNCHANGED vars
  BY <1>0, <1>8 DEF vars, PendingReason
<1>9. CASE Crash
  <2>1. UNCHANGED <<status, jobState, attemptsMade, stalls>> /\ flagLost \subseteq flagLost'
    BY <1>9 DEF Crash
  <2>2. FlagPending(q) => q \in flagLost'
    BY <1>9 DEF Crash
  <2>3. request'[q] = IF request[q] \in InFlight THEN "failed" ELSE request[q]
    BY <1>9 DEF Crash
  <2>4. request[q] \in {"uploading", "tracking", "enqueueing"} => jobState[q] = "none"
    BY DEF Belonging
  <2> HIDE DEF FlagPending
  <2> QED
    BY <1>0, <2>1, <2>2, <2>3, <2>4 DEF PendingReason
<1> QED
  BY <1>1, <1>2, <1>3, <1>4, <1>5, <1>6, <1>7, <1>8, <1>9 DEF Next

\* No review is forgotten without a trace, under every fault and whatever the two limits of
\* attempts are: a PENDING one has its call running or failed before queueing, its job live
\* or lost, or its job failed in one of the ways after which nothing is written.
THEOREM NoReviewIsForgotten == Spec => []PendingIsExplained
<1>1. Init => PendingInv
  BY DEF Init, PendingInv, PendingReason
<1>2. PendingInv => PendingIsExplained
  BY DEF PendingInv, PendingReason, PendingIsExplained
<1> QED
  BY <1>1, <1>2, PendingStep, JobInvariant, PTL DEF Spec

\* No first write of a handler is lost.
NoFlagLost == flagLost = {}

\* What remains when no handler's write is lost and the handler counts to no more than the
\* queue: a PENDING review whose job failed for good stalled too often with attempts left,
\* or is about to be flagged.
FailedIsHandled ==
    \A r \in Reviews : status[r] = "PENDING" /\ jobState[r] = "failed" =>
        \/ stalls[r] = MaxStalledCount /\ attemptsMade[r] < EnvAttempts
        \/ FlagPending(r)

\* As long as the process stays up, the handler's writes succeed and BULL_JOB_ATTEMPTS is at
\* most the queue's own attempts, a failed job leaves its review PENDING only if it stalled
\* out, or until its handler has had its turn.
THEOREM FailedJobsAreHandled ==
    ASSUME "crash" \notin Faults, "handlerError" \notin Faults, EnvAttempts <= QueueAttempts
    PROVE  Spec => []FailedIsHandled
<1>1. Init => NoFlagLost
  BY DEF Init, NoFlagLost
<1>2. NoFlagLost /\ [Next]_vars => NoFlagLost'
  BY DEF NoFlagLost, Next, vars, Submit, RequestStep, UploadMedia, CreateModerationJob,
     EnqueueModerationJob, UpdateModerationJobBullId, RequestFails, TakeJob, SlotStep,
     AiAnswers, CommitVerdict, LinkTags, ProcessorThrows, JobCompletes, JobFails,
     LateInvocationEnds, QueueStep, PromoteDelayed, LockExpires, RecoverStalled, GiveUpStalled,
     LoseLock, LoseJob, HandlerStep, FlagExhausted, StampFailure, HandlerWriteFails, AdminStep,
     OpenCase, DecideCase, CaseFails, Crash, Restart
<1>3. JobInv /\ PendingIsExplained /\ NoFlagLost => FailedIsHandled
  BY AttemptsAssumption DEF PendingIsExplained, FailedIsHandled, NoFlagLost, JobInv,
     RecordingInv, TypeOK, Belonging
<1> QED
  BY <1>1, <1>2, <1>3, NoReviewIsForgotten, JobInvariant, PTL DEF Spec

------------------------------------------------------------------------------
(* Overlapping invocations *)

On(r) == {s \in Slots : slotJob[s] = r}

\* The invocations a job may have: one for each recovery, and one for the time the job is
\* not waiting for a slot.
Allowed(r) == stalls[r] + (IF jobState[r] \in {"none", "waiting", "delayed"} THEN 0 ELSE 1)

OverlapInv == \A r \in Reviews : IsFiniteSet(On(r)) /\ Cardinality(On(r)) <= Allowed(r)

LEMMA AllowedType ==
    ASSUME TypeOK, NEW r \in Reviews
    PROVE  Allowed(r) \in Nat
BY DEF TypeOK, Allowed

\* A step that starts no invocation keeps within what is allowed, if it allows no less.
LEMMA NoStartKeepsOverlap ==
    ASSUME TypeOK, TypeOK', OverlapInv, NEW r \in Reviews,
           On(r)' \subseteq On(r), Allowed(r) <= Allowed(r)'
    PROVE  IsFiniteSet(On(r)') /\ Cardinality(On(r)') <= Allowed(r)'
<1>1. IsFiniteSet(On(r)) /\ Cardinality(On(r)) <= Allowed(r)
  BY DEF OverlapInv
<1>2. /\ IsFiniteSet(On(r)')
      /\ Cardinality(On(r)') <= Cardinality(On(r))
      /\ Cardinality(On(r)) \in Nat /\ Cardinality(On(r)') \in Nat
  BY <1>1, FS_Subset, FS_CardinalityType
<1>3. Allowed(r) \in Nat /\ Allowed(r)' \in Nat
  BY AllowedType DEF TypeOK, Allowed
<1> QED
  BY <1>1, <1>2, <1>3

LEMMA WorkerKeepsOverlap ==
    ASSUME RecordingInv, RecordingInv', OverlapInv, NEW s \in Slots, NEW q \in Reviews,
           (\E r \in Reviews : TakeJob(s, r)) \/ SlotStep(s)
    PROVE  IsFiniteSet(On(q)') /\ Cardinality(On(q)') <= Allowed(q)'
<1>1. ASSUME On(q)' \subseteq On(q), Allowed(q) <= Allowed(q)'
      PROVE  IsFiniteSet(On(q)') /\ Cardinality(On(q)') <= Allowed(q)'
  BY <1>1, NoStartKeepsOverlap DEF RecordingInv
<1> USE DEF RecordingInv, TypeOK, BusySlots, queueVars
<1>0. /\ IsFiniteSet(On(q)) /\ Cardinality(On(q)) <= Allowed(q)
      /\ Cardinality(On(q)) \in Nat /\ Allowed(q) \in Nat /\ Allowed(q)' \in Nat
  BY FS_CardinalityType, AllowedType DEF OverlapInv, Allowed
<1>2. ASSUME NEW r \in Reviews, TakeJob(s, r)
      PROVE  IsFiniteSet(On(q)') /\ Cardinality(On(q)') <= Allowed(q)'
  <2>1. CASE q = r
    <3>1. s \notin On(q) /\ On(q)' = On(q) \cup {s}
      BY <1>2, <2>1, DomainAssumption DEF TakeJob, StartJob, On
    <3>2. IsFiniteSet(On(q)') /\ Cardinality(On(q)') = Cardinality(On(q)) + 1
      BY <1>0, <3>1, FS_AddElement
    <3>3. Allowed(q)' = Allowed(q) + 1
      BY <1>2, <2>1 DEF TakeJob, StartJob, Allowed
    <3> QED
      BY <1>0, <3>2, <3>3
  <2>2. CASE q # r
    <3>1. On(q)' \subseteq On(q) /\ Allowed(q)' = Allowed(q)
      BY <1>2, <2>2 DEF TakeJob, StartJob, On, Allowed
    <3> QED
      BY <1>0, <1>1, <3>1
  <2> QED
    BY <2>1, <2>2
<1>3. CASE JobCompletes(s)
  <2>1. On(q)' \subseteq On(q) /\ Allowed(q) <= Allowed(q)'
    BY <1>3, DomainAssumption DEF JobCompletes, FreeSlot, On, Allowed
  <2> QED
    BY <1>1, <2>1
<1>4. CASE JobFails(s)
  <2>1. slotJob[s] \in Reviews
    BY <1>4 DEF JobFails
  <2>2. CASE q = slotJob[s]
    <3>1. s \in On(q) /\ On(q)' = On(q) \ {s}
      BY <1>4, <2>2, DomainAssumption DEF JobFails, FreeSlot, On
    <3>2. IsFiniteSet(On(q)') /\ Cardinality(On(q)') = Cardinality(On(q)) - 1
      BY <1>0, <3>1, FS_RemoveElement
    <3>3. Allowed(q) <= Allowed(q)' + 1
      BY <1>4, <2>2 DEF JobFails, Allowed
    <3> QED
      BY <1>0, <3>2, <3>3
  <2>3. CASE q # slotJob[s]
    <3>1. On(q)' \subseteq On(q) /\ Allowed(q)' = Allowed(q)
      BY <1>4, <2>1, <2>3, DomainAssumption DEF JobFails, FreeSlot, On, Allowed
    <3> QED
      BY <1>0, <1>1, <3>1
  <2> QED
    BY <2>2, <2>3
<1>5. CASE LateInvocationEnds(s)
  <2>1. On(q)' \subseteq On(q) /\ Allowed(q)' = Allowed(q)
    BY <1>5, DomainAssumption DEF LateInvocationEnds, FreeSlot, On, Allowed
  <2> QED
    BY <1>0, <1>1, <2>1
<1>6. CASE UNCHANGED <<slotJob, jobState, stalls>>
  BY <1>0, <1>6 DEF On, Allowed
<1> QED
  BY <1>2, <1>3, <1>4, <1>5, <1>6 DEF SlotStep, AiAnswers, CommitVerdict, LinkTags, ProcessorThrows

LEMMA OverlapStep == RecordingInv /\ RecordingInv' /\ OverlapInv /\ [Next]_vars => OverlapInv'
<1> SUFFICES ASSUME RecordingInv, RecordingInv', OverlapInv, [Next]_vars, NEW q \in Reviews
             PROVE  IsFiniteSet(On(q)') /\ Cardinality(On(q)') <= Allowed(q)'
  BY DEF OverlapInv
<1>1. ASSUME On(q)' \subseteq On(q), Allowed(q) <= Allowed(q)'
      PROVE  IsFiniteSet(On(q)') /\ Cardinality(On(q)') <= Allowed(q)'
  BY <1>1, NoStartKeepsOverlap DEF RecordingInv
<1>2. CASE \E s \in Slots : (\E r \in Reviews : TakeJob(s, r)) \/ SlotStep(s)
  BY <1>2, WorkerKeepsOverlap
<1> USE DEF RecordingInv, TypeOK, Belonging, On, Allowed, reviewRows, queueVars, slotVars
<1>3. ASSUME NEW r \in Reviews, Submit(r) \/ RequestStep(r)
      PROVE  On(q)' \subseteq On(q) /\ Allowed(q) <= Allowed(q)'
  BY <1>3 DEF Submit, RequestStep, UploadMedia, CreateModerationJob, EnqueueModerationJob,
              UpdateModerationJobBullId, RequestFails
<1>4. ASSUME NEW r \in Reviews, QueueStep(r) \/ LoseLock(r) \/ LoseJob(r)
      PROVE  On(q)' \subseteq On(q) /\ Allowed(q) <= Allowed(q)'
  BY <1>4 DEF QueueStep, PromoteDelayed, LockExpires, RecoverStalled, GiveUpStalled, LoseLock, LoseJob
<1>5. ASSUME NEW h \in handlers, HandlerStep(h)
      PROVE  On(q)' \subseteq On(q) /\ Allowed(q) <= Allowed(q)'
  BY <1>5 DEF HandlerStep, FlagExhausted, StampFailure, HandlerWriteFails
<1>6. ASSUME NEW m \in Moderators, AdminStep(m)
      PROVE  On(q)' \subseteq On(q) /\ Allowed(q) <= Allowed(q)'
  BY <1>6 DEF AdminStep, OpenCase, DecideCase, CaseFails
<1>7. ASSUME Crash \/ Restart \/ UNCHANGED vars
      PROVE  On(q)' \subseteq On(q) /\ Allowed(q) <= Allowed(q)'
  BY <1>7, DomainAssumption DEF Crash, Restart, vars
<1> QED
  BY <1>1, <1>2, <1>3, <1>4, <1>5, <1>6, <1>7 DEF Next

\* Under every fault and with any number of slots, a review is processed by at most one
\* invocation more than its job was recovered.
THEOREM OverlapBounded == Spec => []OverlapIsBounded
<1>1. Init => OverlapInv
  <2> SUFFICES ASSUME Init, NEW r \in Reviews
               PROVE  IsFiniteSet(On(r)) /\ Cardinality(On(r)) <= Allowed(r)
    BY DEF OverlapInv
  <2>1. On(r) = {}
    BY DomainAssumption DEF Init, On
  <2>2. Allowed(r) = 0
    BY DEF Init, Allowed
  <2> QED
    BY <2>1, <2>2, FS_EmptySet
<1>2. RecordingInv /\ OverlapInv => OverlapIsBounded
  <2> SUFFICES ASSUME RecordingInv, OverlapInv, NEW r \in Reviews
               PROVE  Cardinality(On(r)) <= stalls[r] + 1
    BY DEF OverlapIsBounded, On
  <2>1. IsFiniteSet(On(r)) /\ Cardinality(On(r)) <= Allowed(r) /\ stalls[r] \in Nat
    BY DEF OverlapInv, RecordingInv, TypeOK
  <2>2. Cardinality(On(r)) \in Nat
    BY <2>1, FS_CardinalityType
  <2> QED
    BY <2>1, <2>2 DEF Allowed
<1> QED
  BY <1>1, <1>2, OverlapStep, RecordingInvariant, PTL DEF Spec

------------------------------------------------------------------------------
(* What the actors record *)

\* Before its call creates it, a review has no tracking row to lose; and the only label a
\* review ever gets is the one of its text.
Fresh(r) ==
    /\ request[r] \in {"none", "uploading", "tracking"} => tracking[r] = {}
    /\ status[r] = "ABSENT" => aiLabel[r] = NULL
    /\ aiLabel[r] \in {NULL, text[r]}

RecordsStart == \A r \in Reviews : Fresh(r)

LEMMA RecordsStep ==
    RecordingInv /\ RecordsStart /\ [Next]_vars => RecordsStart' /\ \A r \in Reviews : Grows(r)
<1> SUFFICES ASSUME RecordingInv, RecordsStart, [Next]_vars, NEW q \in Reviews
             PROVE  Fresh(q)' /\ Grows(q)
  BY DEF RecordsStart
<1> USE DEF RecordingInv, TypeOK, BusySlots, Belonging, RecordsStart, Fresh, Grows, reviewRows,
            queueVars, slotVars
<1>1. ASSUME NEW r \in Reviews, Submit(r)
      PROVE  Fresh(q)' /\ Grows(q)
  BY <1>1 DEF Submit
<1> DEFINE RowsKept == UNCHANGED <<status, text, aiLabel, tagsLinked, tracking>>
           CallsKept == \A r \in Reviews : request'[r] = request[r] \/ request'[r] \in {"failed"}
<1>2. ASSUME NEW r \in Reviews, RequestStep(r)
      PROVE  Fresh(q)' /\ Grows(q)
  BY <1>2 DEF RequestStep, UploadMedia, CreateModerationJob, EnqueueModerationJob,
              UpdateModerationJobBullId, RequestFails
<1>3. CASE RowsKept /\ CallsKept /\ UNCHANGED moderatedBy
  BY <1>3
<1>4. ASSUME NEW s \in Slots, SlotStep(s), ~(RowsKept /\ UNCHANGED <<moderatedBy, request>>)
      PROVE  Fresh(q)' /\ Grows(q)
  <2>1. CASE CommitVerdict(s)
    <3>1. slotJob[s] \in Reviews /\ jobState[slotJob[s]] # "none"
      BY <2>1 DEF CommitVerdict
    <3>2. ReviewStatusOf(text[slotJob[s]]) # "ABSENT"
      BY ReviewStatusRange
    <3> QED
      BY <2>1, <3>1, <3>2 DEF CommitVerdict
  <2>2. CASE LinkTags(s)
    <3>1. slotJob[s] \in Reviews
      BY <2>2 DEF LinkTags
    <3> QED
      BY <2>2, <3>1 DEF LinkTags
  <2> QED
    BY <1>4, <2>1, <2>2 DEF SlotStep, AiAnswers, ProcessorThrows, JobCompletes, JobFails,
       LateInvocationEnds
<1>5. ASSUME NEW h \in handlers, HandlerStep(h)
      PROVE  Fresh(q)' /\ Grows(q)
  <2>1. h.review \in Reviews /\ jobState[h.review] # "none"
    BY DEF HandlerCall
  <2> QED
    BY <1>5, <2>1 DEF HandlerStep, FlagExhausted, StampFailure, HandlerWriteFails
<1>6. ASSUME NEW m \in Moderators, DecideCase(m)
      PROVE  Fresh(q)' /\ Grows(q)
  <2>1. desk[m].review \in Reviews /\ desk[m].decision \in {"APPROVED", "REJECTED"} /\ m # NULL
    BY <1>6, DomainAssumption DEF DecideCase, AdminCall
  <2> QED
    BY <1>6, <2>1 DEF DecideCase
<1>7. ASSUME \/ \E s \in Slots, r \in Reviews : TakeJob(s, r)
             \/ \E r \in Reviews : QueueStep(r) \/ LoseLock(r) \/ LoseJob(r)
             \/ \E m \in Moderators : CaseFails(m)
             \/ \E m \in Moderators, r \in Reviews, d \in {"APPROVED", "REJECTED"} : OpenCase(m, r, d)
             \/ Crash \/ Restart \/ UNCHANGED vars
      PROVE  RowsKept /\ CallsKept /\ UNCHANGED moderatedBy
  BY <1>7 DEF TakeJob, QueueStep, PromoteDelayed, LockExpires, RecoverStalled, GiveUpStalled, LoseLock,
              LoseJob, CaseFails, OpenCase, Crash, Restart, vars
<1> HIDE DEF RecordingInv, TypeOK, BusySlots, Belonging, RecordsStart, Fresh, Grows
<1>8. ASSUME RowsKept /\ UNCHANGED <<moderatedBy, request>>
      PROVE  RowsKept /\ CallsKept /\ UNCHANGED moderatedBy
  BY <1>8
<1> QED
  BY <1>1, <1>2, <1>3, <1>4, <1>5, <1>6, <1>7, <1>8 DEF Next, AdminStep

\* No actor's write takes back what another has recorded, under every fault: neither a late
\* invocation, nor the failure handler, nor the call that comes last to its own tracking row.
THEOREM RecordsGrow == Spec => RecordsOnlyGrow
<1>1. Init => RecordsStart
  BY DEF Init, RecordsStart, Fresh
<1>2. RecordingInv /\ RecordsStart /\ [Next]_vars => [\A r \in Reviews : Grows(r)]_vars
  BY RecordsStep
<1>3. RecordingInv /\ RecordsStart /\ [Next]_vars => RecordsStart'
  BY RecordsStep
<1> QED
  BY <1>1, <1>2, <1>3, RecordingInvariant, PTL DEF Spec, RecordsOnlyGrow

------------------------------------------------------------------------------
(* When the documented flagging of exhausted jobs can be relied on *)

\* Without a crash or lock loss no active job is ever without its lock.
NeverStalled ==
    \A r \in Reviews : owner[r] # GONE /\ (jobState[r] = "active" => owner[r] # NULL)

FlaggedOrAboutTo(r) ==
    jobState[r] = "failed" /\ attemptsMade[r] >= QueueAttempts /\ moderatedBy[r] = NULL =>
        status[r] = "FLAGGED" \/ \E h \in handlers : h.review = r /\ h.step = "flag"

ExhaustedInv == NeverStalled /\ \A r \in Reviews : FlaggedOrAboutTo(r)

LEMMA ExhaustedStep ==
    ASSUME "crash" \notin Faults, "lockLoss" \notin Faults, "handlerError" \notin Faults,
           EnvAttempts <= QueueAttempts
    PROVE  RecordingInv /\ LockHeld /\ ExhaustedInv /\ [Next]_vars => ExhaustedInv'
<1> SUFFICES ASSUME RecordingInv, LockHeld, ExhaustedInv, [Next]_vars, NEW q \in Reviews
             PROVE  /\ owner'[q] # GONE /\ (jobState'[q] = "active" => owner'[q] # NULL)
                    /\ FlaggedOrAboutTo(q)'
  BY DEF ExhaustedInv, NeverStalled
<1> USE DEF RecordingInv, TypeOK, BusySlots, Belonging, reviewRows, queueVars, slotVars
<1>0. /\ owner[q] # GONE /\ (jobState[q] = "active" => owner[q] # NULL)
      /\ FlaggedOrAboutTo(q)
  BY DEF ExhaustedInv, NeverStalled
<1> DEFINE Goal == /\ owner'[q] # GONE /\ (jobState'[q] = "active" => owner'[q] # NULL)
                   /\ FlaggedOrAboutTo(q)'
<1>1. ASSUME NEW r \in Reviews, Submit(r) \/ RequestStep(r) PROVE Goal
  BY <1>0, <1>1 DEF Submit, RequestStep, UploadMedia, CreateModerationJob, EnqueueModerationJob,
                    UpdateModerationJobBullId, RequestFails, FlaggedOrAboutTo
<1>2. ASSUME NEW s \in Slots, NEW r \in Reviews, TakeJob(s, r) PROVE Goal
  BY <1>0, <1>2, DomainAssumption DEF TakeJob, StartJob, FlaggedOrAboutTo
<1>3. ASSUME NEW s \in Slots, SlotStep(s) PROVE Goal
  <2>1. CASE CommitVerdict(s)
    <3>1. slotJob[s] \in Reviews /\ jobState[slotJob[s]] # "failed"
      BY <2>1, DomainAssumption DEF CommitVerdict, LockHeld
    <3> QED
      BY <1>0, <2>1, <3>1 DEF CommitVerdict, FlaggedOrAboutTo
  <2>2. CASE JobCompletes(s)
    BY <1>0, <2>2, DomainAssumption DEF JobCompletes, FreeSlot, FlaggedOrAboutTo
  <2>3. CASE JobFails(s)
    <3> DEFINE r == slotJob[s]
               n == attemptsMade[r] + 1
    <3>1. r \in Reviews /\ n \in Nat
      BY <2>3 DEF JobFails
    <3>2. /\ handlers' = handlers \cup FailedEvent(r, n)
          /\ jobState' = [jobState EXCEPT ![r] = IF n < QueueAttempts THEN "delayed" ELSE "failed"]
          /\ owner' = [owner EXCEPT ![r] = NULL]
          /\ attemptsMade' = [attemptsMade EXCEPT ![r] = n]
          /\ UNCHANGED <<status, moderatedBy>>
      BY <2>3 DEF JobFails
    <3>3. n < QueueAttempts \/ \E h \in FailedEvent(r, n) : h.review = r /\ h.step = "flag"
      BY <3>1, AttemptsAssumption, FailedEventPending
    <3> HIDE DEF r, n
    <3>4. CASE q = r
      BY <3>1, <3>2, <3>3, <3>4, DomainAssumption DEF FlaggedOrAboutTo
    <3>5. CASE q # r
      BY <1>0, <3>1, <3>2, <3>5 DEF FlaggedOrAboutTo
    <3> QED
      BY <3>4, <3>5
  <2> QED
    BY <1>0, <1>3, <2>1, <2>2, <2>3 DEF SlotStep, AiAnswers, LinkTags, ProcessorThrows,
       LateInvocationEnds, FlaggedOrAboutTo
<1>4. ASSUME NEW r \in Reviews, QueueStep(r) \/ LoseJob(r) PROVE Goal
  BY <1>0, <1>4, DomainAssumption DEF QueueStep, PromoteDelayed, LockExpires, RecoverStalled,
     GiveUpStalled, LoseJob, ExhaustedInv, NeverStalled, FlaggedOrAboutTo
<1>5. ASSUME NEW h \in handlers, HandlerStep(h) PROVE Goal
  <2>1. h.review \in Reviews
    BY DEF HandlerCall
  <2>2. CASE FlagExhausted(h)
    BY <1>0, <2>1, <2>2 DEF FlagExhausted, FlaggedOrAboutTo
  <2>3. CASE StampFailure(h)
    BY <1>0, <2>1, <2>3 DEF StampFailure, FlaggedOrAboutTo
  <2> QED
    BY <1>5, <2>2, <2>3 DEF HandlerStep, HandlerWriteFails
<1>6. ASSUME NEW m \in Moderators, AdminStep(m) PROVE Goal
  <2>1. CASE DecideCase(m)
    <3>1. desk[m].review \in Reviews /\ m # NULL
      BY <2>1, DomainAssumption DEF DecideCase, AdminCall
    <3> QED
      BY <1>0, <2>1, <3>1 DEF DecideCase, FlaggedOrAboutTo
  <2> QED
    BY <1>0, <1>6, <2>1 DEF AdminStep, OpenCase, CaseFails, FlaggedOrAboutTo
<1>7. CASE Restart
  BY <1>0, <1>7 DEF Restart, FlaggedOrAboutTo
<1>8. CASE UNCHANGED vars
  BY <1>0, <1>8 DEF vars, FlaggedOrAboutTo
<1> QED
  BY <1>1, <1>2, <1>3, <1>4, <1>5, <1>6, <1>7, <1>8 DEF Next, Crash, LoseLock

\* README.md:196 can be relied on exactly where its run does not look: as long as the process
\* stays up, locks outlast their processors, the handler's writes succeed and the handler
\* counts to no more than the queue does, a job that used up its retries has its review
\* flagged once the handler had its turn, whatever requests fail and whatever Redis loses.
THEOREM ExhaustedMeansFlagged ==
    ASSUME "crash" \notin Faults, "lockLoss" \notin Faults, "handlerError" \notin Faults,
           EnvAttempts <= QueueAttempts
    PROVE  Spec => []RetriesExhaustedMeansFlagged
<1>1. Init => LockHeld /\ ExhaustedInv
  BY DomainAssumption DEF Init, LockHeld, NoDoubleProcessing, ExhaustedInv, NeverStalled, FlaggedOrAboutTo
<1>2. ExhaustedInv => RetriesExhaustedMeansFlagged
  BY DEF ExhaustedInv, FlaggedOrAboutTo, RetriesExhaustedMeansFlagged, HandlerOn
<1>3. RecordingInv /\ LockHeld /\ [Next]_vars => LockHeld'
  BY LockStep
<1>4. RecordingInv /\ LockHeld /\ ExhaustedInv /\ [Next]_vars => ExhaustedInv'
  BY ExhaustedStep
<1> QED
  BY <1>1, <1>2, <1>3, <1>4, RecordingInvariant, PTL DEF Spec

------------------------------------------------------------------------------
(* What follows for a committed verdict and a published review *)

CompletedIsDecided ==
    \A r \in Reviews : "completedAt" \in tracking[r] => status[r] \notin {"ABSENT", "PENDING"}

LEMMA CompletedStep ==
    RecordingInv /\ RecordsStart /\ CompletedIsDecided /\ [Next]_vars => CompletedIsDecided'
<1> SUFFICES ASSUME RecordingInv, RecordsStart, CompletedIsDecided, [Next]_vars
             PROVE  CompletedIsDecided'
  OBVIOUS
<1> USE DEF RecordingInv, TypeOK, BusySlots, CompletedIsDecided, reviewRows
<1>1. ASSUME NEW r \in Reviews, Submit(r) \/ RequestStep(r) PROVE CompletedIsDecided'
  BY <1>1 DEF Submit, RequestStep, UploadMedia, CreateModerationJob, EnqueueModerationJob,
              UpdateModerationJobBullId, RequestFails, Belonging, RecordsStart, Fresh
<1>2. ASSUME NEW s \in Slots, NEW r \in Reviews, TakeJob(s, r) PROVE CompletedIsDecided'
  BY <1>2 DEF TakeJob
<1>3. ASSUME NEW s \in Slots, SlotStep(s) PROVE CompletedIsDecided'
  <2>1. CASE CommitVerdict(s)
    <3>1. slotJob[s] \in Reviews
      BY <2>1 DEF CommitVerdict
    <3>2. ReviewStatusOf(text[slotJob[s]]) \notin {"ABSENT", "PENDING"}
      BY ReviewStatusRange
    <3> QED
      BY <2>1, <3>1, <3>2 DEF CommitVerdict
  <2> QED
    BY <1>3, <2>1 DEF SlotStep, AiAnswers, LinkTags, ProcessorThrows, JobCompletes, JobFails,
       LateInvocationEnds
<1>4. ASSUME NEW r \in Reviews, QueueStep(r) \/ LoseLock(r) \/ LoseJob(r)
      PROVE  CompletedIsDecided'
  BY <1>4 DEF QueueStep, PromoteDelayed, LockExpires, RecoverStalled, GiveUpStalled, LoseLock, LoseJob
<1>5. ASSUME NEW h \in handlers, HandlerStep(h) PROVE CompletedIsDecided'
  <2>1. h.review \in Reviews
    BY DEF HandlerCall
  <2> QED
    BY <1>5, <2>1 DEF HandlerStep, FlagExhausted, StampFailure, HandlerWriteFails
<1>6. ASSUME NEW m \in Moderators, AdminStep(m) PROVE CompletedIsDecided'
  <2>1. CASE DecideCase(m)
    <3>1. desk[m].review \in Reviews /\ desk[m].decision \in {"APPROVED", "REJECTED"}
      BY <2>1 DEF DecideCase, AdminCall
    <3> QED
      BY <2>1, <3>1 DEF DecideCase
  <2> QED
    BY <1>6, <2>1 DEF AdminStep, OpenCase, CaseFails
<1>7. CASE Crash \/ Restart \/ UNCHANGED vars
  BY <1>7 DEF Crash, Restart, vars
<1> QED
  BY <1>1, <1>2, <1>3, <1>4, <1>5, <1>6, <1>7 DEF Next

\* A committed verdict stands while the job has attempts left and no moderator has signed:
\* the comment at moderation.worker.ts:106-107 is wrong for the last attempt only.
VerdictStandsWhileAttemptsLast ==
    \A r \in Reviews :
        "completedAt" \in tracking[r] /\ moderatedBy[r] = NULL /\ attemptsMade[r] < EnvAttempts =>
            status[r] = ReviewStatusOf(aiLabel[r])

\* Under every fault the retries of a job do not disturb a verdict it has committed: only
\* the handler of the last attempt and a moderator overwrite it.
THEOREM RetriesKeepTheVerdict == Spec => []VerdictStandsWhileAttemptsLast
<1>1. Init => CompletedIsDecided /\ RecordsStart /\ ExplainedInv
  BY RecordingInvariantInit
     DEF Init, CompletedIsDecided, RecordsStart, Fresh, ExplainedInv, HandlersEarned, Explained
<1>2. RecordingInv /\ RecordsStart /\ [Next]_vars => RecordsStart'
  BY RecordsStep
<1>3. ExplainedInv /\ CompletedIsDecided => VerdictStandsWhileAttemptsLast
  BY AttemptsAssumption DEF ExplainedInv, RecordingInv, TypeOK, Explained, CompletedIsDecided,
     VerdictStandsWhileAttemptsLast
<1> QED
  BY <1>1, <1>2, <1>3, CompletedStep, ExplainedStep, RecordingInvariant, PTL DEF Spec

\* Nothing is published without a text the provider calls safe or a moderator's signature.
PublishedIsSafeOrSigned ==
    \A r \in Reviews : status[r] = "APPROVED" => text[r] = "safe" \/ moderatedBy[r] # NULL

\* What readers get to see, for every schedule of retries, late invocations, failure handlers
\* and moderators, and under every fault.
THEOREM PublishingIsEarned == Spec => []PublishedIsSafeOrSigned
<1>1. StatusExplained => PublishedIsSafeOrSigned
  BY DEF StatusExplained, PublishedIsSafeOrSigned, ReviewStatusOf
<1> QED
  BY <1>1, StatusIsExplained, PTL
==============================================================================
