------------------------- MODULE LifecycleRefinement -------------------------
(***************************************************************************)
(* ModerationPipeline implements ReviewLifecycle, step by step: a proof    *)
(* for every number of reviews, slots and moderators, under every fault.   *)
(***************************************************************************)
EXTENDS ModerationPipelineProofs

USE DEF Live, Over, Settled, InFlight

\* Nothing but a moderator can still write the review.
Closed(r) == jobState[r] \in Over /\ ~ProcessorOn(r) /\ ~HandlerOn(r)

LEMMA AutomationValue ==
    ASSUME NEW r \in Reviews
    PROVE  /\ Automation[r] = AutomationOf(r)
           /\ (AutomationOf(r) = "none") <=> (jobState[r] = "none")
           /\ (AutomationOf(r) = "closed") <=> Closed(r)
           /\ AutomationOf(r) \in {"none", "open", "closed"}
<1>1. Automation[r] = AutomationOf(r)
  BY DEF Automation
<1> QED
  BY <1>1 DEF AutomationOf, Closed, ProcessorOn, HandlerOn

LEMMA AutomationValueNext ==
    ASSUME NEW r \in Reviews
    PROVE  /\ Automation'[r] = AutomationOf(r)'
           /\ (AutomationOf(r)' = "none") <=> (jobState'[r] = "none")
           /\ (AutomationOf(r)' = "closed") <=> Closed(r)'
           /\ AutomationOf(r)' \in {"none", "open", "closed"}
<1>1. Automation'[r] = AutomationOf(r)'
  BY DEF Automation
<1> QED
  BY <1>1 DEF AutomationOf, Closed, ProcessorOn, HandlerOn

\* The steps that write neither a status nor a signature can only close reviews.
QuietStep ==
    /\ UNCHANGED <<status, moderatedBy>>
    /\ \A r \in Reviews : (jobState'[r] = "none") <=> (jobState[r] = "none")
    /\ \A r \in Reviews : Closed(r) => Closed(r)'

LEMMA QuietStepCloses ==
    ASSUME QuietStep
    PROVE  Lifecycle!LifecycleNext
<1> DEFINE S == {r \in Reviews : Automation'[r] # Automation[r]}
<1>1. ASSUME NEW r \in Reviews
      PROVE  \/ AutomationOf(r)' = AutomationOf(r)
             \/ AutomationOf(r) = "open" /\ AutomationOf(r)' = "closed"
  <2>1. /\ (jobState'[r] = "none") <=> (jobState[r] = "none")
        /\ Closed(r) => Closed(r)'
    BY DEF QuietStep
  <2> QED
    BY <2>1 DEF AutomationOf, Closed
<1>2. \A r \in S : Automation[r] = "open" /\ Automation'[r] = "closed"
  BY <1>1, AutomationValue, AutomationValueNext
<1>3. Automation' = [r \in Reviews |-> IF r \in S THEN "closed" ELSE Automation[r]]
  <2>1. Automation' = [r \in Reviews |-> Automation'[r]]
    BY DEF Automation
  <2> QED
    BY <1>2, <2>1
<1>4. Lifecycle!CloseAutomation(S)
  BY <1>2, <1>3 DEF QuietStep, Lifecycle!CloseAutomation
<1>5. S \in SUBSET Reviews
  OBVIOUS
<1> QED
  BY <1>4, <1>5 DEF Lifecycle!LifecycleNext

\* When jobs, slots and handlers stay as they are, so does the automation.
LEMMA AutomationKept ==
    ASSUME UNCHANGED jobState,
           \A r \in Reviews : ProcessorOn(r)' <=> ProcessorOn(r),
           \A r \in Reviews : HandlerOn(r)' <=> HandlerOn(r)
    PROVE  Automation' = Automation
<1>1. \A r \in Reviews : AutomationOf(r)' = AutomationOf(r)
  BY DEF AutomationOf, ProcessorOn, HandlerOn
<1> QED
  BY <1>1 DEF Automation

LEMMA RequestRefines ==
    ASSUME RecordingInv, NEW r \in Reviews, Submit(r) \/ RequestStep(r)
    PROVE  Lifecycle!LifecycleNext
<1> USE DEF reviewRows, queueVars, slotVars
<1>1. CASE Submit(r)
  <2>1. Automation' = Automation
    BY <1>1, AutomationKept DEF Submit, ProcessorOn, HandlerOn
  <2>2. Lifecycle!Appear(r)
    BY <1>1, <2>1 DEF Submit, Lifecycle!Appear
  <2> QED
    BY <2>2 DEF Lifecycle!LifecycleNext
<1>2. CASE EnqueueModerationJob(r)
  <2>1. jobState[r] = "none" /\ status[r] # "ABSENT"
    BY <1>2 DEF EnqueueModerationJob, RecordingInv, Belonging
  <2>2. \A q \in Reviews : (ProcessorOn(q)' <=> ProcessorOn(q)) /\ (HandlerOn(q)' <=> HandlerOn(q))
    BY <1>2 DEF EnqueueModerationJob, ProcessorOn, HandlerOn
  <2>3. jobState' = [jobState EXCEPT ![r] = "waiting"] /\ jobState \in [Reviews -> {"none"} \cup Live \cup Over]
    BY <1>2 DEF EnqueueModerationJob, RecordingInv, TypeOK
  <2>4. \A q \in Reviews : AutomationOf(q)' = IF q = r THEN "open" ELSE AutomationOf(q)
    BY <2>1, <2>2, <2>3 DEF AutomationOf, ProcessorOn, HandlerOn
  <2>5. /\ Automation[r] = "none"
        /\ Automation' = [Automation EXCEPT ![r] = "open"]
    BY <2>1, <2>4, AutomationValue DEF Automation
  <2>6. Lifecycle!OpenAutomation(r)
    BY <1>2, <2>1, <2>5 DEF EnqueueModerationJob, Lifecycle!OpenAutomation
  <2> QED
    BY <2>6 DEF Lifecycle!LifecycleNext
<1>3. CASE UNCHANGED <<status, moderatedBy, jobState, slotJob, handlers>>
  BY <1>3, QuietStepCloses DEF QuietStep, Closed, ProcessorOn, HandlerOn
<1> QED
  BY <1>1, <1>2, <1>3 DEF RequestStep, UploadMedia, CreateModerationJob,
     UpdateModerationJobBullId, RequestFails

LEMMA WorkerRefines ==
    ASSUME RecordingInv, NEW s \in Slots,
           (\E r \in Reviews : TakeJob(s, r)) \/ SlotStep(s)
    PROVE  Lifecycle!LifecycleNext
<1> USE DEF reviewRows, queueVars, slotVars
<1>1. ASSUME NEW r \in Reviews, TakeJob(s, r) PROVE Lifecycle!LifecycleNext
  <2>1. QuietStep
    BY <1>1 DEF TakeJob, StartJob, QuietStep, Closed, ProcessorOn, HandlerOn,
                RecordingInv, TypeOK
  <2> QED
    BY <2>1, QuietStepCloses
<1>2. CASE CommitVerdict(s)
  <2> DEFINE r == slotJob[s]
             v == ReviewStatusOf(text[r])
  <2>1. r \in Reviews /\ jobState[r] # "none" /\ ProcessorOn(r)
    BY <1>2 DEF CommitVerdict, RecordingInv, BusySlots, Belonging, ProcessorOn
  <2>2. Automation[r] = "open"
    BY <2>1, AutomationValue DEF Closed
  <2>3. Automation' = Automation
    BY <1>2, AutomationKept DEF CommitVerdict, ProcessorOn, HandlerOn
  <2>4. v \in Lifecycle!Decided
    BY ReviewStatusRange DEF Lifecycle!Decided
  <2>5. Lifecycle!AutomationDecides(r, v)
    BY <1>2, <2>2, <2>3 DEF CommitVerdict, Lifecycle!AutomationDecides
  <2> HIDE DEF r, v
  <2> QED
    BY <2>1, <2>4, <2>5 DEF Lifecycle!LifecycleNext
<1>3. CASE UNCHANGED <<status, moderatedBy, jobState, slotJob, handlers>>
  BY <1>3, QuietStepCloses DEF QuietStep, Closed, ProcessorOn, HandlerOn
<1>4. ASSUME FreeSlot(s), UNCHANGED <<status, moderatedBy>>,
             slotJob[s] \in Reviews,
             jobState[slotJob[s]] # "none",
             \A q \in Reviews \ {slotJob[s]} : jobState'[q] = jobState[q],
             jobState'[slotJob[s]] # "none",
             \A h \in handlers' : h \in handlers \/ h.review = slotJob[s]
      PROVE  Lifecycle!LifecycleNext
  <2>1. ~Closed(slotJob[s])
    BY <1>4 DEF Closed, ProcessorOn
  <2>2. \A q \in Reviews \ {slotJob[s]} : Closed(q) => Closed(q)'
    BY <1>4, DomainAssumption DEF Closed, ProcessorOn, HandlerOn, FreeSlot, RecordingInv, TypeOK
  <2>3. QuietStep
    BY <1>4, <2>1, <2>2 DEF QuietStep
  <2> QED
    BY <2>3, QuietStepCloses
<1>5. CASE slotStep[s] # "idle"
  <2>1. slotJob[s] \in Reviews /\ jobState[slotJob[s]] # "none"
    BY <1>5 DEF RecordingInv, BusySlots, Belonging
  <2>2. CASE JobCompletes(s)
    BY <1>4, <2>1, <2>2 DEF JobCompletes, RecordingInv, TypeOK
  <2>3. CASE JobFails(s)
    <3>1. \A h \in handlers' : h \in handlers \/ h.review = slotJob[s]
      BY <2>3 DEF JobFails, FailedEvent
    <3> QED
      BY <1>4, <2>1, <2>3, <3>1 DEF JobFails, RecordingInv, TypeOK
  <2>4. CASE LateInvocationEnds(s)
    BY <1>4, <2>1, <2>4 DEF LateInvocationEnds
  <2> QED
    BY <1>1, <1>2, <1>3, <2>2, <2>3, <2>4 DEF SlotStep, AiAnswers, LinkTags, ProcessorThrows
<1> QED
  BY <1>1, <1>5 DEF SlotStep, AiAnswers, CommitVerdict, LinkTags, ProcessorThrows, JobCompletes,
     JobFails, LateInvocationEnds

LEMMA QueueRefines ==
    ASSUME RecordingInv, NEW r \in Reviews, QueueStep(r) \/ LoseLock(r) \/ LoseJob(r)
    PROVE  Lifecycle!LifecycleNext
<1>1. ~Closed(r) \/ UNCHANGED <<jobState, handlers>>
  BY DEF QueueStep, PromoteDelayed, LockExpires, RecoverStalled, GiveUpStalled,
         LoseLock, LoseJob, Closed
<1>2. \A h \in handlers' : h \in handlers \/ h.review = r
  BY DEF QueueStep, PromoteDelayed, LockExpires, RecoverStalled, GiveUpStalled,
         LoseLock, LoseJob, FailedEvent
<1>3. /\ UNCHANGED <<status, moderatedBy, slotJob>>
      /\ \A q \in Reviews \ {r} : jobState'[q] = jobState[q]
      /\ (jobState'[r] = "none") <=> (jobState[r] = "none")
  BY DEF QueueStep, PromoteDelayed, LockExpires, RecoverStalled, GiveUpStalled,
         LoseLock, LoseJob, RecordingInv, TypeOK, reviewRows, slotVars
<1>4. QuietStep
  BY <1>1, <1>2, <1>3 DEF QuietStep, Closed, ProcessorOn, HandlerOn
<1> QED
  BY <1>4, QuietStepCloses

LEMMA HandlerRefines ==
    ASSUME RecordingInv, NEW h \in handlers, HandlerStep(h)
    PROVE  Lifecycle!LifecycleNext
<1> DEFINE k == [h EXCEPT !.step = "stamp"]
<1>1. /\ h.review \in Reviews
      /\ k.review = h.review
      /\ jobState[h.review] # "none"
  BY DEF RecordingInv, TypeOK, Belonging, HandlerCall
<1>2. CASE FlagExhausted(h)
  <2>1. handlers' = (handlers \ {h}) \cup {k}
    BY <1>2 DEF FlagExhausted
  <2> HIDE DEF k
  <2>2. \A q \in Reviews : HandlerOn(q)' <=> HandlerOn(q)
    BY <1>1, <2>1 DEF HandlerOn
  <2>3. Automation' = Automation
    BY <1>2, <2>2, AutomationKept DEF FlagExhausted, ProcessorOn, queueVars, slotVars
  <2>4. Automation[h.review] = "open"
    BY <1>1, AutomationValue DEF Closed, HandlerOn
  <2>5. Lifecycle!AutomationDecides(h.review, "FLAGGED")
    BY <1>2, <2>3, <2>4 DEF FlagExhausted, Lifecycle!AutomationDecides
  <2> QED
    BY <1>1, <2>5 DEF Lifecycle!LifecycleNext, Lifecycle!Decided
<1>3. CASE StampFailure(h) \/ HandlerWriteFails(h)
  <2>1. handlers' \subseteq (handlers \ {h}) \cup {k}
    BY <1>3 DEF StampFailure, HandlerWriteFails
  <2>2. UNCHANGED <<status, moderatedBy, jobState, slotJob>>
    BY <1>3 DEF StampFailure, HandlerWriteFails, reviewRows, queueVars, slotVars
  <2> HIDE DEF k
  <2>3. \A q \in Reviews : HandlerOn(q)' => HandlerOn(q)
    BY <1>1, <2>1 DEF HandlerOn
  <2>4. QuietStep
    BY <2>2, <2>3 DEF QuietStep, Closed, ProcessorOn
  <2> QED
    BY <2>4, QuietStepCloses
<1> QED
  BY <1>2, <1>3 DEF HandlerStep

LEMMA AdminRefines ==
    ASSUME RecordingInv, NEW m \in Moderators, AdminStep(m)
    PROVE  Lifecycle!LifecycleNext
<1> USE DEF reviewRows, queueVars, slotVars
<1>1. CASE DecideCase(m)
  <2> DEFINE r == desk[m].review
             d == desk[m].decision
  <2>1. /\ r \in Reviews
        /\ d \in {"APPROVED", "REJECTED"}
        /\ status[r] # "ABSENT"
    BY <1>1 DEF DecideCase, RecordingInv, TypeOK, Belonging, AdminCall
  <2>2. Automation' = Automation
    BY <1>1, AutomationKept DEF DecideCase, ProcessorOn, HandlerOn
  <2>3. Lifecycle!ModeratorDecides(m, r, d)
    BY <1>1, <2>1, <2>2 DEF DecideCase, Lifecycle!ModeratorDecides
  <2> HIDE DEF r, d
  <2> QED
    BY <2>1, <2>3 DEF Lifecycle!LifecycleNext
<1>2. CASE UNCHANGED <<status, moderatedBy, jobState, slotJob, handlers>>
  BY <1>2, QuietStepCloses DEF QuietStep, Closed, ProcessorOn, HandlerOn
<1> QED
  BY <1>1, <1>2 DEF AdminStep, OpenCase, CaseFails

LEMMA ProcessRefines ==
    ASSUME RecordingInv, Crash \/ Restart
    PROVE  Lifecycle!LifecycleNext
<1>1. /\ UNCHANGED <<status, moderatedBy, jobState>>
      /\ \A r \in Reviews : ProcessorOn(r)' => ProcessorOn(r)
      /\ \A r \in Reviews : HandlerOn(r)' => HandlerOn(r)
  BY DomainAssumption DEF Crash, Restart, reviewRows, queueVars, slotVars, ProcessorOn, HandlerOn
<1>2. QuietStep
  BY <1>1 DEF QuietStep, Closed
<1> QED
  BY <1>2, QuietStepCloses

\* Every step of the pipeline is a step of the lifecycle or leaves it as it is.
LEMMA StepSimulation ==
    RecordingInv /\ [Next]_vars => [Lifecycle!LifecycleNext]_Lifecycle!lifecycleVars
<1> SUFFICES ASSUME RecordingInv, [Next]_vars
             PROVE  [Lifecycle!LifecycleNext]_Lifecycle!lifecycleVars
  OBVIOUS
<1>1. CASE Next
  BY <1>1, RequestRefines, WorkerRefines, QueueRefines, HandlerRefines, AdminRefines,
     ProcessRefines DEF Next
<1>2. CASE UNCHANGED vars
  <2>1. Automation' = Automation
    BY <1>2, AutomationKept DEF vars, queueVars, slotVars, ProcessorOn, HandlerOn
  <2> QED
    BY <1>2, <2>1 DEF vars, reviewRows, Lifecycle!lifecycleVars
<1> QED
  BY <1>1, <1>2

\* The pipeline keeps the lifecycle's promise: no review returns to PENDING, nothing
\* but a moderator writes a status once the job has settled and its last invocation
\* and handler are gone; retries, recoveries, late invocations and crashes included.
THEOREM PipelineImplementsLifecycle == Spec => ImplementsLifecycle
<1>1. Init => Lifecycle!LifecycleInit
  <2>1. ASSUME Init PROVE Automation = [r \in Reviews |-> "none"]
    BY <2>1 DEF Init, Automation, AutomationOf
  <2> QED
    BY <2>1 DEF Init, Lifecycle!LifecycleInit
<1> QED
  BY <1>1, RecordingInvariant, StepSimulation, PTL
     DEF Spec, ImplementsLifecycle, Lifecycle!LifecycleSpec
==============================================================================
