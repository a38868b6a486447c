------------------------ MODULE ReviewSubmissionProofs ------------------------
(***************************************************************************)
(* Machine-checked proofs about ReviewSubmission, for any number of calls, *)
(* submissions and files, with and without faults.                         *)
(***************************************************************************)
EXTENDS ReviewSubmission, TLAPS

LEMMA FilesAreFiles ==
    ASSUME TypeOK, NEW c \in Calls
    PROVE  files(c) \subseteq Files
BY SubmissionAssumption DEF TypeOK, files

LEMMA InitType == Init => TypeOK
BY DEF Init, TypeOK, InFlight, Waiting, Running

LEMMA CallPreservesType ==
    ASSUME TypeOK, NEW c \in Calls, CallStep(c)
    PROVE  TypeOK'
<1> USE DEF TypeOK, Moves, InFlight, Waiting, Running, stored
<1>1. CASE CreateReview(c)
  BY <1>1 DEF CreateReview
<1>2. CASE CreateModerationJob(c)
  BY <1>2 DEF CreateModerationJob
<1>3. CASE EnqueueModerationJob(c)
  BY <1>3 DEF EnqueueModerationJob
<1>4. CASE UpdateModerationJobBullId(c)
  BY <1>4 DEF UpdateModerationJobBullId
<1>5. CASE CallFails(c)
  BY <1>5 DEF CallFails
<1> QED
  BY <1>1, <1>2, <1>3, <1>4, <1>5 DEF CallStep

LEMMA UploadPreservesType ==
    ASSUME TypeOK, NEW c \in Calls, NEW f \in Files, UploadStep(c, f)
    PROVE  TypeOK'
<1> USE DEF TypeOK, InFlight, Waiting, Running
<1>1. CASE PutObject(c, f)
  BY <1>1 DEF PutObject
<1>2. CASE LinkMedia(c, f)
  BY <1>2 DEF LinkMedia, MediaRow
<1>3. CASE UploadFails(c, f)
  BY <1>3 DEF UploadFails, MediaRow
<1> QED
  BY <1>1, <1>2, <1>3 DEF UploadStep

LEMMA NextType == TypeOK /\ [Next]_vars => TypeOK'
<1> SUFFICES ASSUME TypeOK, [Next]_vars PROVE TypeOK'
  OBVIOUS
<1>1. ASSUME NEW c \in Calls, NEW i \in Submissions, Receive(c, i) PROVE TypeOK'
  BY <1>1 DEF Receive, Moves, TypeOK, InFlight, Waiting, stored
<1>2. CASE Crash
  BY <1>2 DEF Crash, TypeOK, InFlight, Waiting, Running, stored
<1>3. CASE Restart
  BY <1>3 DEF Restart, TypeOK, stored
<1>4. CASE UNCHANGED vars
  BY <1>4 DEF vars, TypeOK, stored
<1> QED
  BY <1>1, <1>2, <1>3, <1>4, CallPreservesType, UploadPreservesType DEF Next

\* In every reachable state the variables have their types.
THEOREM SubmissionTypeCorrect == Spec => []TypeOK
BY InitType, NextType, PTL DEF Spec

------------------------------------------------------------------------------
(* What a call and its uploads have behind them at each step *)

PastUploads == {"tracking", "enqueueing", "recording", "answered"}

AllLinked(c) == \A f \in files(c) : upload[c][f] = "linked"

CallInv(c) ==
    /\ request[c] \in {"none", "creating"} =>
          /\ c \notin reviews /\ c \notin jobs
          /\ \A f \in Files : upload[c][f] = "none"
    /\ request[c] \in PastUploads \cup {"uploading"} => c \in reviews
    /\ request[c] \in PastUploads => AllLinked(c)
    /\ request[c] \in {"enqueueing", "recording", "answered"} => "created" \in tracking[c]
    /\ request[c] \in {"recording", "answered"} => c \in jobs
    /\ request[c] = "answered" => "jobId" \in tracking[c]
    /\ c \in jobs => c \in reviews /\ AllLinked(c) /\ "created" \in tracking[c]

FileInv(c, f) ==
    /\ upload[c][f] # "none" => c \in reviews /\ f \in files(c)
    /\ upload[c][f] \in Running => request[c] \in {"uploading", "failed"}
    /\ upload[c][f] = "failed" => request[c] = "failed"
    /\ upload[c][f] \in {"linking", "linked"} => <<c, f>> \in objects
    /\ upload[c][f] = "linked" => <<c, f>> \in media
    /\ <<c, f>> \in media => <<c, f>> \in objects /\ upload[c][f] \in {"linked", "failed"}
    /\ <<c, f>> \in objects => upload[c][f] \in {"linking", "linked", "failed"}

\* Nothing of a call lives outside the process.
DownInv == ~up => \A c \in Calls : /\ request[c] \notin InFlight
                                   /\ \A f \in Files : upload[c][f] \notin Running

SubmissionInv ==
    /\ TypeOK
    /\ DownInv
    /\ \A c \in Calls : CallInv(c)
    /\ \A c \in Calls, f \in Files : FileInv(c, f)

LEMMA InitInv == Init => SubmissionInv
BY InitType DEF Init, SubmissionInv, DownInv, CallInv, FileInv, PastUploads, AllLinked,
    files, Running, InFlight, Waiting

\* A step of one call leaves the other calls alone.
Elsewhere(c) == \A d \in Calls \ {c} :
    /\ request'[d] = request[d] /\ upload'[d] = upload[d] /\ tracking'[d] = tracking[d]
    /\ submission'[d] = submission[d]
    /\ d \in reviews' <=> d \in reviews
    /\ d \in jobs' <=> d \in jobs
    /\ \A f \in Files : /\ <<d, f>> \in media' <=> <<d, f>> \in media
                        /\ <<d, f>> \in objects' <=> <<d, f>> \in objects

LEMMA OneCallSuffices ==
    ASSUME SubmissionInv, TypeOK', up, up' = up, NEW c \in Calls, Elsewhere(c),
           CallInv(c)', \A f \in Files : FileInv(c, f)'
    PROVE  SubmissionInv'
<1>1. ASSUME NEW d \in Calls \ {c} PROVE CallInv(d)' /\ \A f \in Files : FileInv(d, f)'
  <2>1. files(d)' = files(d)
    BY DEF files, Elsewhere
  <2>2. files(d) \subseteq Files
    BY FilesAreFiles DEF SubmissionInv
  <2>3. CallInv(d)'
    BY <2>1, <2>2 DEF SubmissionInv, CallInv, Elsewhere, AllLinked
  <2>4. ASSUME NEW f \in Files PROVE FileInv(d, f)'
    BY <2>1 DEF SubmissionInv, FileInv, Elsewhere
  <2> QED
    BY <2>3, <2>4
<1> QED
  BY <1>1 DEF SubmissionInv, DownInv

LEMMA CallInvariant ==
    ASSUME SubmissionInv, NEW c \in Calls, CallStep(c)
    PROVE  SubmissionInv'
<1>1. TypeOK /\ TypeOK' /\ CallInv(c) /\ \A f \in Files : FileInv(c, f)
  BY CallPreservesType DEF SubmissionInv
<1>2. up /\ up' = up
  <2>1. request[c] \in InFlight
    BY DEF CallStep, CreateReview, CreateModerationJob, EnqueueModerationJob,
           UpdateModerationJobBullId, CallFails, Moves, InFlight, Waiting
  <2> QED
    BY <2>1 DEF SubmissionInv, DownInv, CallStep, CreateReview, CreateModerationJob,
           EnqueueModerationJob, UpdateModerationJobBullId, CallFails
<1>3. files(c) \subseteq Files
  BY <1>1, FilesAreFiles
<1> USE DEF Moves, stored
<1>4. CASE CreateReview(c)
  <2>1. Elsewhere(c) /\ files(c)' = files(c)
    BY <1>1, <1>4 DEF CreateReview, Elsewhere, TypeOK, files
  <2>2. upload'[c] = [f \in Files |-> IF f \in files(c) THEN "putting" ELSE "none"]
    BY <1>1, <1>4 DEF CreateReview, TypeOK
  <2>3. request[c] = "creating" /\ request'[c] = (IF files(c) = {} THEN "tracking" ELSE "uploading")
    BY <1>1, <1>4 DEF CreateReview, TypeOK
  <2>4. CallInv(c)'
    BY <1>1, <1>3, <1>4, <2>1, <2>2, <2>3 DEF CreateReview, CallInv, AllLinked, PastUploads
  <2>5. ASSUME NEW f \in Files PROVE FileInv(c, f)'
    BY <1>1, <1>4, <2>1, <2>2, <2>3 DEF CreateReview, CallInv, FileInv, Running
  <2> QED
    BY <1>1, <1>2, <2>1, <2>4, <2>5, OneCallSuffices
<1>5. CASE CreateModerationJob(c) \/ EnqueueModerationJob(c) \/ UpdateModerationJobBullId(c)
           \/ CallFails(c)
  <2>1. /\ Elsewhere(c) /\ files(c)' = files(c)
        /\ UNCHANGED <<upload, media, objects, reviews>>
    BY <1>1, <1>5 DEF CreateModerationJob, EnqueueModerationJob, UpdateModerationJobBullId,
           CallFails, Elsewhere, TypeOK, files
  <2>2. CallInv(c)'
    BY <1>1, <1>5, <2>1 DEF CreateModerationJob, EnqueueModerationJob, CallFails,
           UpdateModerationJobBullId, CallInv, AllLinked, PastUploads, TypeOK, Waiting
  <2>3. request[c] # "uploading" /\ request'[c] # "none"
    BY <1>1, <1>5 DEF CreateModerationJob, EnqueueModerationJob, UpdateModerationJobBullId,
           CallFails, TypeOK, Waiting
  <2>4. ASSUME NEW f \in Files PROVE FileInv(c, f)'
    <3>1. request[c] # "failed" /\ request[c] \in Waiting
      BY <1>5 DEF CreateModerationJob, EnqueueModerationJob, UpdateModerationJobBullId,
             CallFails, Waiting
    <3>2. upload[c][f] \notin Running /\ upload[c][f] # "failed"
      BY <1>1, <2>3, <3>1 DEF FileInv
    <3> QED
      BY <1>1, <2>1, <3>2 DEF FileInv
  <2> QED
    BY <1>1, <1>2, <2>1, <2>2, <2>4, OneCallSuffices
<1> QED
  BY <1>4, <1>5 DEF CallStep

LEMMA UploadInvariant ==
    ASSUME SubmissionInv, NEW c \in Calls, NEW f \in Files, UploadStep(c, f)
    PROVE  SubmissionInv'
<1>1. /\ TypeOK /\ TypeOK' /\ CallInv(c) /\ FileInv(c, f)
      /\ \A g \in Files : FileInv(c, g)
  BY UploadPreservesType DEF SubmissionInv
<1>2. upload[c][f] \in Running
  BY DEF UploadStep, PutObject, LinkMedia, UploadFails, Running
<1>3. up /\ up' = up
  BY <1>2 DEF SubmissionInv, DownInv, UploadStep, PutObject, LinkMedia, UploadFails
<1>4. request[c] \in {"uploading", "failed"} /\ c \in reviews /\ f \in files(c)
  BY <1>1, <1>2 DEF FileInv, Running
<1>5. c \notin jobs
  BY <1>1, <1>2, <1>4 DEF CallInv, AllLinked, Running
<1>6. files(c) \subseteq Files
  BY <1>1, FilesAreFiles
<1>7. CASE PutObject(c, f)
  <2>1. Elsewhere(c) /\ files(c)' = files(c)
    BY <1>1, <1>7 DEF PutObject, Elsewhere, TypeOK, files
  <2>2. upload'[c] = [upload[c] EXCEPT ![f] = "linking"]
    BY <1>1, <1>7 DEF PutObject, TypeOK
  <2>3. CallInv(c)'
    BY <1>1, <1>4, <1>5, <1>7, <2>1 DEF PutObject, CallInv, PastUploads
  <2>4. ASSUME NEW g \in Files PROVE FileInv(c, g)'
    BY <1>1, <1>4, <1>7, <2>1, <2>2 DEF PutObject, FileInv, TypeOK, Running
  <2> QED
    BY <1>1, <1>3, <2>1, <2>3, <2>4, OneCallSuffices
<1>8. CASE LinkMedia(c, f)
  <2>1. Elsewhere(c) /\ files(c)' = files(c)
    BY <1>1, <1>8 DEF LinkMedia, Elsewhere, TypeOK, files, MediaRow
  <2>2. upload'[c] = [upload[c] EXCEPT ![f] = "linked"]
    BY <1>1, <1>8 DEF LinkMedia, TypeOK
  <2>3. request'[c] = IF request[c] = "uploading" /\ Joined(c, f) THEN "tracking" ELSE request[c]
    BY <1>1, <1>8 DEF LinkMedia, TypeOK
  <2>4. upload[c] \in [Files -> Running \cup {"none", "linked", "failed"}]
    BY <1>1 DEF TypeOK
  <2>5. request'[c] \in PastUploads => AllLinked(c)'
    BY <1>4, <1>6, <2>1, <2>2, <2>3, <2>4 DEF AllLinked, Joined, PastUploads
  <2>6. CallInv(c)'
    BY <1>1, <1>4, <1>5, <1>8, <2>1, <2>3, <2>5 DEF LinkMedia, CallInv, PastUploads
  <2>7. ASSUME NEW g \in Files PROVE FileInv(c, g)'
    <3>1. upload'[c][g] = IF g = f THEN "linked" ELSE upload[c][g]
      BY <2>2, <2>4
    <3>2. /\ <<c, g>> \in media' <=> <<c, g>> \in media \/ g = f
          /\ UNCHANGED <<reviews, objects>>
      BY <1>8 DEF LinkMedia, MediaRow
    <3>3. g # f /\ upload[c][g] \in Running => request'[c] \in {"uploading", "failed"}
      BY <1>1, <1>4, <2>3 DEF FileInv, Joined, Running
    <3>4. g # f /\ upload[c][g] = "failed" => request'[c] = "failed"
      BY <1>1, <2>3 DEF FileInv
    <3> QED
      BY <1>1, <1>4, <1>8, <2>1, <3>1, <3>2, <3>3, <3>4 DEF LinkMedia, FileInv, Running
  <2> QED
    BY <1>1, <1>3, <2>1, <2>6, <2>7, OneCallSuffices
<1>9. CASE UploadFails(c, f)
  <2>1. Elsewhere(c) /\ files(c)' = files(c)
    BY <1>1, <1>9 DEF UploadFails, Elsewhere, TypeOK, files, MediaRow
  <2>2. upload'[c] = [upload[c] EXCEPT ![f] = "failed"]
    BY <1>1, <1>9 DEF UploadFails, TypeOK
  <2>3. request'[c] = "failed"
    BY <1>1, <1>4, <1>9 DEF UploadFails, TypeOK
  <2>4. CallInv(c)'
    BY <1>1, <1>5, <1>9, <2>3 DEF UploadFails, CallInv, PastUploads
  <2>5. ASSUME NEW g \in Files PROVE FileInv(c, g)'
    <3>1. upload'[c][g] = IF g = f THEN "failed" ELSE upload[c][g]
      BY <1>1, <2>2 DEF TypeOK
    <3>2. /\ <<c, g>> \in media' => <<c, g>> \in media \/ (g = f /\ upload[c][f] = "linking")
          /\ <<c, g>> \in media => <<c, g>> \in media'
          /\ UNCHANGED <<reviews, objects>>
      BY <1>9 DEF UploadFails, MediaRow
    <3> QED
      BY <1>1, <1>2, <1>4, <2>1, <2>3, <3>1, <3>2 DEF FileInv, Running
  <2> QED
    BY <1>1, <1>3, <2>1, <2>4, <2>5, OneCallSuffices
<1> QED
  BY <1>7, <1>8, <1>9 DEF UploadStep

LEMMA ReceiveInvariant ==
    ASSUME SubmissionInv, NEW c \in Calls, NEW i \in Submissions, Receive(c, i)
    PROVE  SubmissionInv'
<1>1. TypeOK /\ TypeOK' /\ CallInv(c) /\ \A f \in Files : FileInv(c, f)
  <2>1. [Next]_vars
    BY DEF Next
  <2> QED
    BY <2>1, NextType DEF SubmissionInv
<1>2. /\ Elsewhere(c)
      /\ request[c] = "none" /\ request'[c] = "creating"
      /\ up /\ up' = up /\ UNCHANGED <<upload, reviews, jobs, media, objects>>
  BY <1>1 DEF Receive, Moves, Elsewhere, TypeOK, stored
<1>3. CallInv(c)'
  BY <1>1, <1>2 DEF CallInv, PastUploads
<1>4. ASSUME NEW f \in Files PROVE FileInv(c, f)'
  BY <1>1, <1>2 DEF CallInv, FileInv, Running
<1> QED
  BY <1>1, <1>2, <1>3, <1>4, OneCallSuffices

LEMMA CrashInvariant ==
    ASSUME SubmissionInv, Crash
    PROVE  SubmissionInv'
<1>1. TypeOK /\ TypeOK'
  <2>1. [Next]_vars
    BY DEF Next
  <2> QED
    BY <2>1, NextType DEF SubmissionInv
<1>2. UNCHANGED <<submission, reviews, media, objects, tracking, jobs>>
  BY DEF Crash, stored
<1>3. ASSUME NEW c \in Calls
      PROVE  /\ request'[c] = IF request[c] \in InFlight THEN "failed" ELSE request[c]
             /\ \A f \in Files : upload'[c][f] =
                    IF upload[c][f] \in Running THEN "failed" ELSE upload[c][f]
  BY DEF Crash
<1>4. ASSUME NEW c \in Calls PROVE CallInv(c)'
  <2>1. files(c)' = files(c) /\ files(c) \subseteq Files
    BY <1>1, <1>2, FilesAreFiles DEF files
  <2>2. CallInv(c)
    BY DEF SubmissionInv
  <2>3. AllLinked(c) => AllLinked(c)'
    BY <1>3, <2>1 DEF AllLinked, Running
  <2> QED
    BY <1>2, <1>3, <2>2, <2>3 DEF CallInv, PastUploads, InFlight, Waiting, Running
<1>5. ASSUME NEW c \in Calls, NEW f \in Files PROVE FileInv(c, f)'
  <2>1. files(c)' = files(c)
    BY <1>2 DEF files
  <2>2. FileInv(c, f)
    BY DEF SubmissionInv
  <2> QED
    BY <1>2, <1>3, <2>1, <2>2 DEF FileInv, InFlight, Waiting, Running
<1>6. DownInv'
  BY <1>3 DEF DownInv, InFlight, Waiting, Running
<1> QED
  BY <1>1, <1>4, <1>5, <1>6 DEF SubmissionInv

LEMMA UnchangedInvariant ==
    ASSUME SubmissionInv, UNCHANGED <<request, submission, upload, stored>>, up' = up \/ up'
    PROVE  SubmissionInv'
<1>1. TypeOK'
  BY DEF SubmissionInv, TypeOK, stored
<1>2. ASSUME NEW c \in Calls PROVE CallInv(c)' /\ \A f \in Files : FileInv(c, f)'
  <2>1. files(c)' = files(c)
    BY DEF files
  <2> QED
    BY <2>1 DEF SubmissionInv, CallInv, FileInv, AllLinked, stored
<1> QED
  BY <1>1, <1>2 DEF SubmissionInv, DownInv

LEMMA NextInvariant == SubmissionInv /\ [Next]_vars => SubmissionInv'
<1> SUFFICES ASSUME SubmissionInv, [Next]_vars PROVE SubmissionInv'
  OBVIOUS
<1>1. CASE Restart
  BY <1>1, UnchangedInvariant DEF Restart
<1>2. CASE UNCHANGED vars
  BY <1>2, UnchangedInvariant DEF vars
<1> QED
  BY <1>1, <1>2, ReceiveInvariant, CallInvariant, UploadInvariant, CrashInvariant DEF Next

\* A queued review is complete, and an answered one is tracked and queued as well.
THEOREM AcceptedReviewsAreComplete == Spec => []AcceptedIsComplete
<1>1. SubmissionInv => AcceptedIsComplete
  <2> SUFFICES ASSUME SubmissionInv, NEW c \in Calls, c \in jobs \/ request[c] = "answered"
               PROVE  /\ c \in reviews
                      /\ \A f \in files(c) : <<c, f>> \in media /\ <<c, f>> \in objects
                      /\ "created" \in tracking[c]
                      /\ request[c] = "answered" => c \in jobs /\ "jobId" \in tracking[c]
    BY DEF AcceptedIsComplete
  <2>1. CallInv(c) /\ files(c) \subseteq Files
    BY FilesAreFiles DEF SubmissionInv
  <2>2. AllLinked(c)
    BY <2>1 DEF CallInv, PastUploads
  <2>3. ASSUME NEW f \in files(c) PROVE <<c, f>> \in media /\ <<c, f>> \in objects
    BY <2>1, <2>2 DEF AllLinked, SubmissionInv, FileInv
  <2> QED
    BY <2>1, <2>3 DEF CallInv
<1> QED
  BY <1>1, InitInv, NextInvariant, PTL DEF Spec

\* No row of media_uploads is without its object and its review.
THEOREM MediaRowsAreBacked == Spec => []MediaIsBacked
<1>1. SubmissionInv => MediaIsBacked
  <2> SUFFICES ASSUME SubmissionInv, NEW m \in media PROVE m \in objects /\ m[1] \in reviews
    BY DEF MediaIsBacked
  <2>1. PICK c \in Calls, f \in Files : m = <<c, f>>
    BY DEF SubmissionInv, TypeOK
  <2> QED
    BY <2>1 DEF SubmissionInv, FileInv
<1> QED
  BY <1>1, InitInv, NextInvariant, PTL DEF Spec

\* Only failed calls leave objects without a row.
THEOREM OrphansAreExplained == Spec => []OrphansComeFromFailures
<1>1. SubmissionInv => OrphansComeFromFailures
  BY DEF SubmissionInv, FileInv, OrphansComeFromFailures
<1> QED
  BY <1>1, InitInv, NextInvariant, PTL DEF Spec

------------------------------------------------------------------------------
(* The pipeline's view of a call *)

View == [c \in Calls |-> IF c \in reviews THEN request[c] ELSE "none"]

LEMMA InitRefines == Init => Pipeline!Init
BY DEF Init, Pipeline!Init

\* One call moves, and the pipeline sees only where it stands.
LEMMA MoveIsSeen ==
    ASSUME SubmissionInv, NEW c \in Calls, NEW to, c \in reviews, reviews' = reviews,
           request' = [request EXCEPT ![c] = to]
    PROVE  View' = [View EXCEPT ![c] = to]
BY DEF View, SubmissionInv, TypeOK

LEMMA CreateReviewRefines ==
    ASSUME SubmissionInv, NEW c \in Calls, CreateReview(c)
    PROVE  Pipeline!Submit(c)
<1>1. TypeOK /\ CallInv(c) /\ request[c] = "creating"
  BY DEF SubmissionInv, CreateReview, Moves
<1>2. up /\ c \notin reviews
  BY <1>1 DEF SubmissionInv, DownInv, CallInv, InFlight, Waiting
<1>3. PICK next \in {"uploading", "tracking"} : request' = [request EXCEPT ![c] = next]
  BY DEF CreateReview, Moves
<1>4. View' = [View EXCEPT ![c] = next]
  BY <1>1, <1>2, <1>3 DEF View, CreateReview, TypeOK
<1>5. /\ [d \in Calls |-> IF d \in reviews' THEN "PENDING" ELSE "ABSENT"]
            = [[d \in Calls |-> IF d \in reviews THEN "PENDING" ELSE "ABSENT"] EXCEPT ![c] = "PENDING"]
      /\ [d \in Calls |-> IF d \in reviews' THEN "safe" ELSE NULL]
            = [[d \in Calls |-> IF d \in reviews THEN "safe" ELSE NULL] EXCEPT ![c] = "safe"]
  BY DEF CreateReview
<1> QED
  BY <1>2, <1>4, <1>5 DEF View, CreateReview, Pipeline!Submit, Pipeline!queueVars, Pipeline!slotVars

LEMMA CallRefines ==
    ASSUME SubmissionInv, NEW c \in Calls, CallStep(c)
    PROVE  Pipeline!Next \/ UNCHANGED Pipeline!vars
<1> USE DEF Moves, Pipeline!queueVars, Pipeline!slotVars, Pipeline!reviewRows
<1>1. TypeOK /\ CallInv(c)
  BY DEF SubmissionInv
<1>2. CASE CreateReview(c)
  BY <1>2, CreateReviewRefines DEF Pipeline!Next
<1>3. CASE CreateModerationJob(c)
  <2>1. c \in reviews
    BY <1>1, <1>3 DEF CreateModerationJob, CallInv, PastUploads
  <2>2. View' = [View EXCEPT ![c] = "enqueueing"] /\ View[c] = "tracking"
    BY <1>3, <2>1, MoveIsSeen DEF CreateModerationJob, View
  <2>3. Pipeline!CreateModerationJob(c)
    BY <1>3, <2>2 DEF View, CreateModerationJob, Pipeline!CreateModerationJob
  <2> QED
    BY <2>3 DEF Pipeline!Next, Pipeline!RequestStep
<1>4. CASE EnqueueModerationJob(c)
  <2>1. c \in reviews
    BY <1>1, <1>4 DEF EnqueueModerationJob, CallInv, PastUploads
  <2>2. PICK next \in {"recording"} \cup (IF "requestError" \in Faults THEN {"failed"} ELSE {}) :
            request' = [request EXCEPT ![c] = next]
    BY <1>4 DEF EnqueueModerationJob
  <2>5. View' = [View EXCEPT ![c] = next] /\ View[c] = "enqueueing"
    BY <1>4, <2>1, <2>2, MoveIsSeen DEF EnqueueModerationJob, View
  <2>3. [d \in Calls |-> IF d \in jobs' THEN "waiting" ELSE "none"]
          = [[d \in Calls |-> IF d \in jobs THEN "waiting" ELSE "none"] EXCEPT ![c] = "waiting"]
    BY <1>4 DEF EnqueueModerationJob
  <2>4. Pipeline!EnqueueModerationJob(c)
    BY <1>4, <2>2, <2>3, <2>5 DEF View, EnqueueModerationJob, Pipeline!EnqueueModerationJob
  <2> QED
    BY <2>4 DEF Pipeline!Next, Pipeline!RequestStep
<1>5. CASE UpdateModerationJobBullId(c)
  <2>1. c \in reviews
    BY <1>1, <1>5 DEF UpdateModerationJobBullId, CallInv, PastUploads
  <2>2. View' = [View EXCEPT ![c] = "answered"] /\ View[c] = "recording"
    BY <1>5, <2>1, MoveIsSeen DEF UpdateModerationJobBullId, View
  <2>3. Pipeline!UpdateModerationJobBullId(c)
    BY <1>5, <2>2 DEF View, UpdateModerationJobBullId, Pipeline!UpdateModerationJobBullId
  <2> QED
    BY <2>3 DEF Pipeline!Next, Pipeline!RequestStep
<1>6. CASE CallFails(c)
  <2>1. CASE c \in reviews
    <3>1. request[c] \in Pipeline!InFlight
      BY <1>1, <1>6, <2>1 DEF CallFails, CallInv, Waiting, Pipeline!InFlight
    <3>2. View' = [View EXCEPT ![c] = "failed"] /\ View[c] \in Pipeline!InFlight
      BY <1>6, <2>1, <3>1, MoveIsSeen DEF CallFails, View, stored
    <3>3. Pipeline!RequestFails(c)
      BY <1>6, <3>2 DEF View, CallFails, stored, Pipeline!RequestFails
    <3> QED
      BY <3>3 DEF Pipeline!Next, Pipeline!RequestStep
  <2>2. CASE c \notin reviews
    <3>1. View' = View
      BY <1>1, <1>6, <2>2 DEF CallFails, View, TypeOK, stored
    <3> QED
      BY <1>6, <3>1 DEF View, CallFails, stored, Pipeline!vars
  <2> QED
    BY <2>1, <2>2
<1> QED
  BY <1>2, <1>3, <1>4, <1>5, <1>6 DEF CallStep

LEMMA UploadRefines ==
    ASSUME SubmissionInv, NEW c \in Calls, NEW f \in Files, UploadStep(c, f)
    PROVE  Pipeline!Next \/ UNCHANGED Pipeline!vars
<1> USE DEF Pipeline!queueVars, Pipeline!slotVars, Pipeline!reviewRows
<1>1. TypeOK
  BY DEF SubmissionInv
<1>2. c \in reviews
  BY DEF SubmissionInv, FileInv, UploadStep, PutObject, LinkMedia, UploadFails, Running
<1>3. UNCHANGED <<up, reviews, tracking, jobs>>
  BY DEF UploadStep, PutObject, LinkMedia, UploadFails
<1>4. CASE request' = request
  BY <1>3, <1>4 DEF Pipeline!vars
<1>5. CASE request[c] = "uploading" /\ request' = [request EXCEPT ![c] = "tracking"]
  <2>1. View' = [View EXCEPT ![c] = "tracking"] /\ View[c] = "uploading"
    BY <1>2, <1>3, <1>5, MoveIsSeen DEF View
  <2>2. Pipeline!UploadMedia(c)
    BY <1>3, <2>1 DEF View, Pipeline!UploadMedia
  <2> QED
    BY <2>2 DEF Pipeline!Next, Pipeline!RequestStep
<1>6. CASE /\ request[c] = "uploading" /\ request' = [request EXCEPT ![c] = "failed"]
           /\ "requestError" \in Faults
  <2>1. View' = [View EXCEPT ![c] = "failed"] /\ View[c] = "uploading"
    BY <1>2, <1>3, <1>6, MoveIsSeen DEF View
  <2>2. Pipeline!RequestFails(c)
    BY <1>3, <1>6, <2>1 DEF View, Pipeline!RequestFails, Pipeline!InFlight
  <2> QED
    BY <2>2 DEF Pipeline!Next, Pipeline!RequestStep
<1>7. [request EXCEPT ![c] = request[c]] = request
  BY <1>1 DEF TypeOK
<1> QED
  BY <1>4, <1>5, <1>6, <1>7 DEF UploadStep, PutObject, LinkMedia, UploadFails

LEMMA CrashRefines ==
    ASSUME SubmissionInv, Crash
    PROVE  Pipeline!Crash
<1>1. View' = [c \in Calls |-> IF View[c] \in Pipeline!InFlight THEN "failed" ELSE View[c]]
  <2> SUFFICES ASSUME NEW c \in Calls
               PROVE  View'[c] = IF View[c] \in Pipeline!InFlight THEN "failed" ELSE View[c]
    BY DEF View
  <2>1. CallInv(c)
    BY DEF SubmissionInv
  <2> QED
    BY <2>1 DEF View, Crash, stored, CallInv, InFlight, Waiting, Pipeline!InFlight
<1> QED
  BY <1>1 DEF View, Crash, stored, Pipeline!Crash, Pipeline!Orphaned, Pipeline!FlagPending,
     Pipeline!reviewRows

\* Calls with parallel uploads, stragglers and retries do nothing that the pipeline's
\* account of a call does not allow.
THEOREM SubmissionImplementsPipeline == Spec => ImplementsPipeline
<1>1. SubmissionInv /\ [Next]_vars => [Pipeline!Next]_(Pipeline!vars)
  <2> SUFFICES ASSUME SubmissionInv, [Next]_vars
               PROVE  Pipeline!Next \/ UNCHANGED Pipeline!vars
    OBVIOUS
  <2>1. ASSUME NEW c \in Calls, NEW i \in Submissions, Receive(c, i)
        PROVE  UNCHANGED Pipeline!vars
    <3>1. c \notin reviews /\ TypeOK
      BY <2>1 DEF SubmissionInv, CallInv, Receive, Moves
    <3>2. View' = View
      BY <2>1, <3>1 DEF Receive, Moves, View, TypeOK, stored
    <3> QED
      BY <2>1, <3>2 DEF View, Receive, stored, Pipeline!vars, Pipeline!queueVars,
             Pipeline!slotVars, Pipeline!reviewRows
  <2>2. CASE Crash
    BY <2>2, CrashRefines DEF Pipeline!Next
  <2>3. CASE Restart
    BY <2>3 DEF Restart, stored, Pipeline!Next, Pipeline!Restart, Pipeline!queueVars,
           Pipeline!slotVars, Pipeline!reviewRows
  <2>4. CASE UNCHANGED vars
    BY <2>4 DEF vars, stored, Pipeline!vars, Pipeline!queueVars, Pipeline!slotVars,
           Pipeline!reviewRows
  <2> QED
    BY <2>1, <2>2, <2>3, <2>4, CallRefines, UploadRefines DEF Next
<1> QED
  BY <1>1, InitRefines, InitInv, NextInvariant, PTL DEF Spec, ImplementsPipeline, Pipeline!Spec

------------------------------------------------------------------------------
(* Why calls end: the safety half of CallsEnd *)

\* A call that waits for its uploads waits for one that is under way: Promise.all never
\* waits for uploads that are all over.
NoCallIsStuck ==
    \A c \in Calls : request[c] = "uploading" => \E f \in files(c) : upload[c][f] \in Running

UploadsStarted ==
    \A c \in Calls : request[c] = "uploading" => \A f \in files(c) : upload[c][f] # "none"

LEMMA StuckStep ==
    SubmissionInv /\ SubmissionInv' /\ UploadsStarted /\ NoCallIsStuck /\ [Next]_vars
        => UploadsStarted' /\ NoCallIsStuck'
<1> SUFFICES ASSUME SubmissionInv, SubmissionInv', UploadsStarted, NoCallIsStuck, [Next]_vars,
                    NEW c \in Calls, request'[c] = "uploading"
             PROVE  /\ \A f \in files(c)' : upload'[c][f] # "none"
                    /\ \E f \in files(c)' : upload'[c][f] \in Running
  BY DEF UploadsStarted, NoCallIsStuck
<1> DEFINE Goal == /\ \A f \in files(c)' : upload'[c][f] # "none"
                   /\ \E f \in files(c)' : upload'[c][f] \in Running
<1>1. TypeOK /\ TypeOK' /\ files(c) \subseteq Files
  BY FilesAreFiles DEF SubmissionInv
<1>2. ASSUME request[c] = "uploading", files(c)' = files(c), upload'[c] = upload[c] PROVE Goal
  BY <1>2 DEF UploadsStarted, NoCallIsStuck
<1>3. ASSUME NEW d \in Calls, NEW i \in Submissions, Receive(d, i) PROVE Goal
  <2>1. c # d /\ request[c] = "uploading" /\ upload' = upload /\ files(c)' = files(c)
    BY <1>1, <1>3 DEF Receive, Moves, TypeOK, files, stored
  <2> QED
    BY <1>2, <2>1
<1>4. ASSUME NEW d \in Calls, CallStep(d) PROVE Goal
  <2>1. CASE c = d
    <3>1. CreateReview(c) /\ files(c) # {} /\ files(c)' = files(c)
      BY <1>1, <1>4, <2>1 DEF CallStep, CreateReview, CreateModerationJob, EnqueueModerationJob,
             UpdateModerationJobBullId, CallFails, Moves, TypeOK, Waiting, files
    <3>2. \A f \in files(c) : upload'[c][f] = "putting"
      BY <1>1, <3>1 DEF CreateReview, TypeOK
    <3> QED
      BY <3>1, <3>2 DEF Running
  <2>2. CASE c # d
    <3>1. request'[c] = request[c] /\ upload'[c] = upload[c] /\ files(c)' = files(c)
      BY <1>1, <1>4, <2>2 DEF CallStep, CreateReview, CreateModerationJob, EnqueueModerationJob,
             UpdateModerationJobBullId, CallFails, Moves, TypeOK, files, stored
    <3> QED
      BY <1>2, <3>1
  <2> QED
    BY <2>1, <2>2
<1>5. ASSUME NEW d \in Calls, NEW f \in Files, UploadStep(d, f) PROVE Goal
  <2>1. files(c)' = files(c) /\ request[c] = "uploading"
    BY <1>1, <1>5 DEF UploadStep, PutObject, LinkMedia, UploadFails, TypeOK, files
  <2>2. CASE c # d
    <3>1. upload'[c] = upload[c]
      BY <1>1, <1>5, <2>2 DEF UploadStep, PutObject, LinkMedia, UploadFails, TypeOK
    <3> QED
      BY <1>2, <2>1, <3>1
  <2>3. CASE c = d /\ PutObject(c, f)
    <3>1. \A k \in Files : upload'[c][k] = IF k = f THEN "linking" ELSE upload[c][k]
      BY <1>1, <2>3 DEF PutObject, TypeOK
    <3>2. PICK g \in files(c) : upload[c][g] \in Running
      BY <2>1 DEF NoCallIsStuck
    <3>3. upload'[c][g] \in Running
      BY <1>1, <3>1, <3>2 DEF Running
    <3>4. \A k \in files(c) : upload'[c][k] # "none"
      BY <1>1, <2>1, <3>1 DEF UploadsStarted
    <3> QED
      BY <2>1, <3>3, <3>4
  <2>4. CASE c = d /\ LinkMedia(c, f)
    <3>1. /\ upload'[c] = [upload[c] EXCEPT ![f] = "linked"]
          /\ upload[c] \in [Files -> Running \cup {"none", "linked", "failed"}]
          /\ ~Joined(c, f)
      BY <1>1, <2>1, <2>4 DEF LinkMedia, TypeOK
    <3>2. PICK g \in files(c) \ {f} : upload[c][g] # "linked"
      BY <3>1 DEF Joined
    <3>3. upload[c][g] # "none" /\ (upload[c][g] = "failed" => request[c] = "failed")
      <4>1. g \in Files /\ FileInv(c, g)
        BY <1>1, <3>2 DEF SubmissionInv
      <4> QED
        BY <2>1, <3>2, <4>1 DEF UploadsStarted, FileInv
    <3>4. upload'[c][g] \in Running
      BY <1>1, <2>1, <3>1, <3>2, <3>3
    <3>5. \A k \in files(c) : upload'[c][k] # "none"
      BY <1>1, <2>1, <3>1 DEF UploadsStarted
    <3> QED
      BY <2>1, <3>4, <3>5
  <2>5. ~(c = d /\ UploadFails(c, f))
    BY <1>1, <2>1 DEF UploadFails, TypeOK
  <2> QED
    BY <1>5, <2>2, <2>3, <2>4, <2>5 DEF UploadStep
<1>6. ~Crash
  BY DEF Crash, InFlight
<1>7. CASE Restart \/ UNCHANGED vars
  BY <1>2, <1>7 DEF Restart, vars, files
<1> QED
  BY <1>3, <1>4, <1>5, <1>6, <1>7 DEF Next

\* No call waits for ever for uploads of which none is left, whatever fails beside it.
THEOREM CallsAreNotStuck == Spec => []NoCallIsStuck
<1>1. Init => UploadsStarted /\ NoCallIsStuck
  BY DEF Init, UploadsStarted, NoCallIsStuck
<1> QED
  BY <1>1, StuckStep, InitInv, NextInvariant, PTL DEF Spec

\* How far a call and an upload have come.
CallRank(step) ==
    CASE step = "none" -> 0
      [] step = "creating" -> 1
      [] step = "uploading" -> 2
      [] step = "tracking" -> 3
      [] step = "enqueueing" -> 4
      [] step = "recording" -> 5
      [] OTHER -> 6

UploadRank(step) ==
    CASE step = "none" -> 0
      [] step = "putting" -> 1
      [] step = "linking" -> 2
      [] OTHER -> 3

Onward(c) ==
    /\ request'[c] # request[c] => CallRank(request[c]) < CallRank(request'[c])
    /\ \A f \in Files : upload'[c][f] # upload[c][f] =>
                            UploadRank(upload[c][f]) < UploadRank(upload'[c][f])

\* Every step of a call or of one of its uploads is a step towards its end.
CallsOnlyAdvance == [][\A c \in Calls : Onward(c)]_vars

\* Calls and uploads have finitely many steps each, with stragglers, failures and crashes:
\* nothing starts an upload again or sends a call back.
THEOREM CallsAdvance == Spec => CallsOnlyAdvance
<1>1. SubmissionInv /\ [Next]_vars => [\A c \in Calls : Onward(c)]_vars
  <2> SUFFICES ASSUME SubmissionInv, [Next]_vars, NEW c \in Calls PROVE Onward(c)
    OBVIOUS
  <2>1. TypeOK /\ CallInv(c)
    BY DEF SubmissionInv
  <2>2. ASSUME UNCHANGED <<request, upload>> PROVE Onward(c)
    BY <2>2 DEF Onward
  <2>3. ASSUME NEW d \in Calls, NEW i \in Submissions, Receive(d, i) PROVE Onward(c)
    BY <2>1, <2>3 DEF Receive, Moves, TypeOK, Onward, CallRank
  <2>4. ASSUME NEW d \in Calls, CreateReview(d) PROVE Onward(c)
    BY <2>1, <2>4 DEF CreateReview, Moves, TypeOK, CallInv, Onward, CallRank, UploadRank
  <2>5. ASSUME NEW d \in Calls, CallStep(d), ~CreateReview(d) PROVE Onward(c)
    BY <2>1, <2>5 DEF CallStep, CreateModerationJob, EnqueueModerationJob, CallFails,
           UpdateModerationJobBullId, Moves, TypeOK, Waiting, Onward, CallRank
  <2>6. ASSUME NEW d \in Calls, NEW f \in Files, UploadStep(d, f) PROVE Onward(c)
    BY <2>1, <2>6 DEF UploadStep, PutObject, LinkMedia, UploadFails, TypeOK, Running, Onward,
           CallRank, UploadRank
  <2>7. CASE Crash
    BY <2>1, <2>7 DEF Crash, TypeOK, InFlight, Waiting, Running, Onward, CallRank, UploadRank
  <2> QED
    BY <2>2, <2>3, <2>4, <2>5, <2>6, <2>7 DEF Next, Restart, vars
<1> QED
  BY <1>1, InitInv, NextInvariant, PTL DEF Spec, CallsOnlyAdvance
==============================================================================
