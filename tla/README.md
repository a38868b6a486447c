# Verification of the Local Listings & Reviews Engine

TLA+ modules that model the service under `src/`, TLC runs that check them on
small instances, and TLAPS proofs of what holds for every instance. Paths below
are relative to the repository (`src/` there is the service's own source
directory, so the worker is `src/src/workers/moderation.worker.ts`); in this
text the leading `src/src/` is dropped.

    tlc -workers 2 -config PipelineFaults.cfg MCModerationPipeline.tla
    tlapm ModerationPipelineProofs.tla

`PROJECT.json` lists the components, the runs, the hazards, the theorems, and for
every definition the lines of code it stands for.

## 1. Inventory

The service is one Node process that holds an Express API and a BullMQ worker,
next to PostgreSQL (through Prisma), Redis (the queue) and S3. JavaScript runs
one turn at a time; everything between two `await`s is atomic with respect to
the other requests and jobs, and nothing else is, except a write to one row inside
the database. A Prisma transaction of several statements is seen by others at its commit
only, but at PostgreSQL's READ COMMITTED, which nothing in the repository changes, each of
its statements sees what others committed before it. Where a transaction's rows are named
by their ids (verdict, registration) one action stands for it; where a `where` clause
chooses them (the merge) its statements are actions of their own.

| Component | State | Operations | Talks to | Hard behaviour |
|---|---|---|---|---|
| Review submission (`modules/reviews`) | rows of `reviews`, `media_uploads`, `moderation_jobs` | `createReview` | places, S3, queue | six awaited steps and no transaction: any of them can fail and leave the earlier ones done; the job may be processed before the call ends |
| Moderation queue (`jobs/moderation.queue.ts`) | jobs in Redis: state, attempts, lock | add, take, complete, fail, backoff, stalled-job check | worker | at-least-once delivery, locks that expire, jobs that Redis evicts or loses |
| Moderation worker (`workers/moderation.worker.ts`) | running processor invocations, running `failed` handlers | AI call, transaction, tag upserts; flagging of exhausted reviews | queue, database, AI provider | retries of half-done work, two invocations of one job, a handler that lives in memory and swallows errors |
| AI providers (`workers/ai-providers`) | none | `moderate` | worker | no timeout |
| Review decisions (`modules/admin`) | `reviews.status`, `moderated_by` | `approveReview`, `rejectReview` | reviews | read, then an unconditional write a turn later |
| Administrators' queues (`modules/admin`) | none of their own | moderation queue, merge queue | reviews, places | offset paging over a set that shrinks; items and count in two queries |
| Places (`modules/places`, merge in `modules/admin`) | `places`, `reviews.place_id` | `findOrCreate`, create, merge | submissions | search–decide–insert in three turns; merges between any two of them; a merge's two statements, each with a snapshot of its own |
| Feed (`modules/feed`) | none | `getFeed`, `computeRankingScore` | reviews, places | every page is fetched and ranked afresh |
| Pagination (`utils/pagination.ts`) | none | parse, offset, pages | feed, queues, lists of reviews and places | boundaries |
| Name normalisation (`utils/normalize.ts`) | none | `normalizeName`, … | places | string rewriting |
| Accounts and tokens (`modules/auth`, `middleware/auth.ts`) | `users`, `user_roles`; the tokens are the clients' | register, login, refresh, authenticate, authorize | all | check-then-insert; roles frozen in a token, read turns before it is signed |
| Users, categories | `users`, `categories` | reads, one update | – | none |
| Media uploads (`utils/s3Upload.ts`) | objects in S3 | upload | submission | objects without a row |
| Process (`server.ts`, `db`, `config/redis.ts`) | connections, the worker, timers | start, orderly and forced shutdown | all | a forced exit at any step; connections kept alive, jobs that go on, further signals; work that neither a connection nor a slot stands for |
| HTTP shell, configuration, logging | none | routing, validation, limits | all | none |

What makes each of them correct:

* **Pipeline (submission, queue, worker, decisions).** Nothing is published
  without a safe verdict or a moderator's signature. A job reported as completed
  left nothing half done. A decided review never becomes PENDING again, and once
  its job has settled only moderators change its status. No review is forgotten:
  it is PENDING only while something still works on it or for a reason that can
  be named, and a queued review is decided in the end.
* **Places.** Merged places, and only they, point to another place; a merge takes along
  the reviews that were there when it was asked for; reviews move only by merges, and are
  left at a merged place only by a race that can be named; similar places are created only
  by submissions that raced.
* **Feed.** The score respects its scale, its weights and its penalty; paging is
  exact while nothing changes, and what happens when something does is known.
* **Listings.** Paging in the database over rows that enter and leave: a reader
  misses or sees twice no more than what changed, and the meta of a page is no
  further from its items.
* **Accounts.** One account per address, with a role, whoever races; what a client is
  told of its registration is true; a role taken away or a deactivated account loses
  its authority within one lifetime of an access token.
* **Process.** A signal ends it, in time; the database goes after the last client and the
  last job in a slot. Work that goes on behind them may be cut off.

## 2. Modules

    ReviewLifecycle          what the status of a review promises (abstract)
      ^ implemented by (LifecycleRefinement)
    ModerationPipeline       submission in outline, queue, worker, decisions, crashes
      ^ implemented by ReviewSubmission (ReviewSubmissionProofs)
      ^ ModerationPipelineProofs   MCModerationPipeline
    ReviewSubmission         one POST /reviews, file by file
      ^ ReviewSubmissionProofs     MCReviewSubmission
    PlaceRegistry            places, findOrCreate, merges
      ^ PlaceRegistryProofs        MCPlaceRegistry
    FeedScore                the ranking score
    Pagination               parsePagination and buildPaginatedResult
    FeedScore + Pagination
      = FeedWalk               a reader paging through the feed
      ^ FeedProofs                 MCFeedWalk
    Pagination
      + Listing                a reader paging in the database
      ^ ListingProofs              MCListing
    AccountDirectory         what registration promises (abstract)
      ^ implemented by Accounts (AccountsProofs)
    Accounts                 registration, login, refresh, what a token allows
      ^ AccountsProofs             MCAccounts
    ServerLifecycle          one process from bootstrap to exit
      ^ ServerLifecycleProofs      MCServerLifecycle

### ModerationPipeline

One action per turn of the code between two awaits.

| Code | State and actions |
|---|---|
| `ReviewsService.createReview` after the place is resolved | `request[r]`, `Submit`, `UploadMedia`, `CreateModerationJob`, `EnqueueModerationJob`, `UpdateModerationJobBullId`, `RequestFails` |
| rows of `reviews`, `review_tags`, `moderation_jobs` | `status`, `text`, `aiLabel`, `moderatedBy`, `tagsLinked`, `tracking` |
| the queue and its `defaultJobOptions` (the library is external) | `jobState`, `attemptsMade`, `stalls`, `owner`; `TakeJob`, `JobCompletes`, `JobFails`, `PromoteDelayed`, `LockExpires`, `LoseLock`, `LoseJob`, `RecoverStalled`, `GiveUpStalled`, `LateInvocationEnds` |
| the processor | `slotJob`, `slotStep`; `AiAnswers`, `CommitVerdict` (the transaction), `LinkTags` (after it), `ProcessorThrows` |
| the worker's `failed` listener | `handlers`; `FailedEvent`, `FlagExhausted`, `StampFailure`, `HandlerWriteFails` |
| `approveReview`, `rejectReview` | `desk`; `OpenCase`, `DecideCase`, `CaseFails` |
| the process | `up`; `Crash`, `Restart` |

Abstractions. A review's text is the label the provider gives it: `classifyLabel`
is deterministic, so the label is the same on every attempt. The tags are one
bit, all linked or not; a failing upsert is `ProcessorThrows` from the tagging
step, and what it linked before is not told apart from nothing. Columns that only
carry times are the set `tracking`. BullMQ is not part of the repository: its
actions are marked external in the map and say what the queue's and the worker's
options ask of it (attempts, backoff, concurrency, locks, the stalled check with
its default of one recovery). Whether giving up a stalled job counts as an attempt
differs between releases of the library, so the model allows both. In the code
`attempts` is 3 in the queue and `BULL_JOB_ATTEMPTS` in the handler, so the model
has two constants. `LoseJob` is what `docker-compose.yml:47` asks of Redis: keys are
evicted under memory pressure and a restart goes back to the last snapshot. A lost job
is gone for good (the tracking row is never read back), and a processor that was at
work on it goes on without a lock. That a snapshot can also bring a finished job back
is not modelled.

A lock is a key in Redis with an expiry, so `Crash` leaves it where it is, with `GONE`
as its owner: until `LockExpires` the job stays active with nobody at work on it, and the
stalled check passes it by. `LoseLock` is the other expiry, under a processor that still
runs. `flagLost` is a history variable: the reviews whose flag a handler tried to write in
vain, because the write was rejected or the process stopped.

`ReviewLifecycle` is the abstract specification: a review is decided by the
automation, which is `none`, `open` or `closed`, and by moderators. The refinement
mapping computes `automation` from the queue, the slots and the handlers
(`AutomationOf`): it is `closed` when the job is settled or lost *and* no invocation or
handler of it is left. `CloseAutomation` closes a set of reviews at once because a
crash ends the last invocations of several.

### ReviewSubmission

The same calls with their uploads one by one: `CreateReview` starts all of them in the
turn that follows the insert, `PutObject` is `uploadFileToS3`, `LinkMedia` is
`createMediaUpload` and, with the last file, the resolution of `Promise.all`;
`UploadFails` is its rejection, which ends the call while the other uploads go on.
A client that got no 201 may send the same submission again (`Receive`), which makes
a second review: the service has no key to tell. `Crash` ends calls and uploads. `EnqueueModerationJob` may
add the job and lose the reply: the call fails and the job is there all the same.
The module's `Pipeline` instance maps its state to that of `ModerationPipeline` with no
worker and no moderators: it shows that the pipeline may treat all uploads as one step
that fails or succeeds.

### PlaceRegistry

`Search` is `findOrCreate` with `findSimilar`, up to the decision; `ReloadMatch` the
`findById` that follows a match; `CreatePlace` the insert; `AttachReview`
`createReview`'s insert with the place id it resolved turns ago; `UseGivenPlace` a
submission with a `placeId`; `ReadForMerge` the checks of `mergePlaces` in the
service. The repository's transaction runs at READ COMMITTED and is three actions:
`UpdateStarts`, the snapshot of `updateMany`; `UpdateEnds`, its end, with `rows` locked and
written; and `MergePlaces`, the update of the place with the commit, which is when others
see any of it. `UpdateEnds` waits (`RowsFree`) while another merge has one of its rows
locked, and then leaves out what is no longer at the source, as PostgreSQL evaluates the
where clause again for a row it had to wait for. A review that is inserted at or moved to
the source after the snapshot is not in `rows` and stays. `CallEnds` and `MergeEnds`
are a rejected await or the end of the process; a transaction has then written nothing.
`here` is a history field of a merge: the reviews that have been at its source since its
reads. Names are model values with a
symmetric similarity table (pg_trgm's similarity is symmetric). Of two equally
good matches the database may return either. `seen[p]` is a history variable: which
unmerged places the creator's search looked at.

### FeedScore, Pagination, FeedWalk

`FeedScore` is `computeRankingScore` in ten-thousandths. The exponential is a
parameter, any table that starts at 1 (or below) and never increases. `FeedWalk` is a
reader who opens `GET /feed` and follows `meta.hasNextPage`; between two pages
reviews are published and withdrawn and time passes. `Fetched`, `Before`, `Slice` and
`getFeed` are the steps of `FeedService.getFeed`: the newest `OverFetch * limit`
reviews, sorted (the sort is stable, hence newest first among equals), sliced by
offset, with the total taken from the window. `helpful_count` is constant because no
operation of the server writes it. Creation times are distinct. The record `walk`
is the reader's memory and exists only to state properties. `Pagination` has the arithmetic of
`parsePagination` and `buildPaginatedResult`; `FeedWalk` and `Listing` use the same.

### Listing

The moderation queue, the merge queue, and the lists of reviews and of places all are
a `Promise.all` of a `findMany` with `skip` and `take` and a `count`, and differ in
the where clause and the direction of the order. `OpenListing` and `NextPage` are the
reader's requests, `FindMany` and `Count` the two queries in either order, `Answer`
the page and its meta, `RequestFails` a rejection. `Enter` and `Leave` are all that
makes a row match or stop matching: verdicts, decisions, failed jobs, new places,
merges. Rows with equal `SortKey` have no order of their own: each query may put them
as it likes (`Firsts`). The history fields of `walk` and `request` count what changed.

### Accounts

`Register`, `FindByEmail`, `CreateUser` and `GenerateTokenPair` are `register`; `Login`
or `Refresh`, `ReadUser`, `ReadRoles` or `ReadRefused`, and `GenerateTokenPair` are the
other two: Prisma's `findUnique` with `include` is a SELECT of the user and another of its
roles, and an operator may come between them.
The insert of a second account with the address meets the unique index, which the
error handler answers with 409 (`middleware/errorHandler.ts:66`). `pairs` holds all
tokens ever issued until they expire: the server keeps none, and any client may present
any of its own. `Admitted` is `authenticate`, `Authorized` the same with
`authorize('ADMIN')`. `ChangeRole` and
`SetActive` are an operator's work in the database, as the server has no operation for
either. `activeSince` and `adminSince` are history variables, which count the time since
an account was last active and last had the role. Checking the password and signing are
steps without content.

`AccountDirectory` is the abstract specification of registration: an account is created in
one step if the address is free, 201 goes to the client whose request created it, 409 to
one whose address is taken, 500 to either. `Outcome` maps the calls in their four turns to
it: a lookup that finds nothing and the hash are stutters, and the insert is the step that
counts, whether the unique index lets it through or not.

### ServerLifecycle

`Bootstrap` to `Exit` are `server.ts`, one action per turn; `shutdown[n]` is how far the
callback of the n-th signal is, `timer[n]` its `setTimeout`. The HTTP server's connections
and the worker's jobs are there as far as they delay `server.close()` and
`worker.close()`: a connection kept alive may bring further requests, requests may add
jobs, and the worker takes them until `close()` is called. The other modules know the
whole of it as `Crash`.

`server.close()` counts sockets and `worker.close()` counts processors, and not all work has
one. `adrift` counts what has neither: the handler of a request whose client has gone
(`Abort`), the uploads that go on behind a 500 (`Respond`,
`modules/reviews/services/reviews.service.ts:74`), the unawaited `failed` handler of a job
(`Leave`). Work adrift ends by itself (`AdriftEnds`), may still add a job (`Enqueue`), and
when it queries the database after `$disconnect` Prisma connects again
(`AdriftReconnects`). The shutdown does not wait for it: an exit with 0 may cut it off, and
what that leaves behind is a `Crash` of the pipeline or of the submission at that point.
`DatabaseOutlivesWork` therefore speaks of clients that wait and jobs in slots only.

## 3. Runs

| Run | Instance | Shows |
|---|---|---|
| `pipeline_faults` | 1 review, 2 slots, 1 moderator, 2 attempts of which the handler counts 1, all faults, one label per outcome | `TypeOK`, `CompletedJobIsFullyRecorded`, `StatusExplained`, `OverlapIsBounded`, `PendingIsExplained`, `RecordsOnlyGrow`, `ImplementsLifecycle` |
| `pipeline_progress` | 2 reviews, 1 slot, 2 attempts, no crashes; locks may expire, jobs may be lost, calls may fail | under fairness `QueuedReviewIsDecided` |
| `pipeline_recovery` | 1 review, 2 slots, 2 attempts where the handler waits for 3, crashes, failing calls and handler writes, no lock expiry under a running processor, no lost jobs | `NoDoubleProcessing`, `PendingIsExplained`; under fairness `JobsSettle` |
| `places` | 3 places, 2 names, 2 calls, 2 administrators, 1 review | `TypeOK`, `MergeBookkeeping`, `DuplicatesComeFromRaces`, `ReviewsMoveWithMerges`, `StrandedByRaces` |
| `feed` | 4 reviews a fortnight apart, window 3 × limit, limit at most 2 | `TypeOK`, `UndisturbedWalkIsExact`, `PublicationsHideNothing`, `WithdrawalsRepeatNothing` |
| `submission` | 3 calls, 2 submissions (no file, two files), crashes and failing calls | `TypeOK`, `AcceptedIsComplete`, `MediaIsBacked`, `OrphansComeFromFailures`, `ImplementsPipeline`; under fairness `CallsEnd` |
| `listing` | 5 rows, two of them tied, limit at most 2, 3 changes | `TypeOK`, `MissedOnlyForDepartures`, `RepeatedOnlyForArrivals`, `MetaMatchesItems` |
| `accounts` | 2 clients with one address, asking for different roles; access tokens live 1 unit, refresh tokens 2 | `TypeOK`, `OneWholeAccount`, `AnswersAreTrue`, `AuthorityIsRecent`, `ImplementsDirectory`; under fairness `AuthorityEnds` |
| `shutdown` | 2 connections, 3 jobs, 2 slots, 2 pieces of work adrift, 3 signals, a limit of 3 units | `TypeOK`, `DatabaseOutlivesWork`, `ExitsInTime`; under fairness `SignalEndsProcess` |
| `exhausted_then_crash`, `bad_tag`, `merged_place_reviews` | | one violated promise each, see section 5 |

Why the bounds are enough:

* *One review in `pipeline_faults` and `pipeline_recovery`.* Reviews share nothing but
  the slots; two slots are what one review needs to be processed twice. Competition
  for a slot is in `pipeline_progress`, with two reviews and one slot.
* *Two attempts instead of three.* One is retried and one is the last; a third
  repeats the first. The violated runs use the code's own 3.
* *The handler's setting at 1, 2 and 3, the queue's at 2.* `jobs/moderation.queue.ts:36` and
  `workers/moderation.worker.ts:155` take the number from two places, so the runs have it
  below, at and above the queue's.
* *One recovery of a stalled job*, the library's default.
* *Three calls, two files.* Two files are what one failing and one straggling upload
  need; three calls let one submission fail twice, or fail next to another.
* *One review in `places`.* Each of its properties is about one review, and reviews
  do not act on each other. Two merges that wait for each other meet at this one row.
* *Three places.* Chains and cycles of merges, a second merge of one source, and a
  choice between two similar places need no more. The two names score exactly the
  threshold (6), so that a comparison that excludes it is noticed.
* *`OverFetch` 3 for 10, `MaxLimit` 2 for 50.* With four reviews the window must be
  smaller than the feed in some walks (limit 1) and larger in others (limit 2), and
  a walk must have several pages. A requested limit of 3 is capped.
* *The unit of time is a fortnight*, after which recency has halved, so that rankings
  do change as time passes; `MaxAge` 4 lets the youngest review age.
* *Five rows, `MaxLimit` 2 for 50 or 100, three changes.* Up to three pages, or five of one
  row; one change between the pages, one within a request and one more.
* *Two clients, lifetimes 1 and 2 for 7 and 30 days.* A race needs two. A refresh token
  that outlives its access token is what lets authority be renewed; a third unit
  repeats the second.
* *Three signals, three jobs.* A second signal can come while the first shutdown waits for
  the connections, for the jobs or for the database, and a third next to both; two jobs
  fill the slots and one waits.
* *Two pieces of work adrift.* One may end, reconnect or add a job while another goes on.
  `MaxAdrift` also bounds the model: with two adrift, no further client goes away and no
  request or job that would leave a third ends that way.

The next-state relations have no other bounds: `attemptsMade` and `stalls` are
bounded by the queue's own guards, `now` by `MaxAge`, the changes of a listing by
`MaxChanges`, the signals by `MaxSignals`, the work adrift by `MaxAdrift`; `activeSince`, `adminSince` and `elapsed` stop counting once they
are beyond what the properties tell apart.

Fairness (`ModerationPipeline!Fairness`) is weak and given only to what goes on by
itself: a call that has been started (the promise chain continues), the queue's
timers and its stalled check, a free slot meeting a waiting job (per review, since
the queue is first in first out), the processor (the mock provider always answers; see the
hazard about a provider without timeout), the handlers, and the restart, which is
the supervisor's (`docker-compose.yml:69`, `restart: unless-stopped`, around the
image's `node dist/server.js`; the compose file's development command respawns only when
a file changes, so that there a crash lasts until somebody saves one). Submissions,
administrators and faults owe nothing. In `ReviewSubmission` fairness is given to the
awaited calls and uploads only, each of which resolves or rejects. `JobsSettle` is conditional on the crashes
coming to an end. In `Accounts` the calls go on and time passes. In `ServerLifecycle`
only time passes and timers fire: requests, jobs and connections may go on for ever. Its
timers are punctual: no unit of time ends while one is due. That is an assumption, on an
event loop that no turn of the code holds up for long; a timer that is late makes the exit
late by as much, and `ExitsInTime` is to be read with this tolerance.

`PipelineProgress.cfg` switches deadlock checking off: it has no moderators, and once
its two reviews are settled nothing is left to do. So does `Shutdown.cfg`: the process
ends. All other runs check it.

Each property of a passing run has a mutant: a plausible bug (a definition marked
"Variation" in the module, never used by it) put in place of the real definition,
under which the run fails.

## 4. Proofs

All theorems hold for any sets of reviews, slots, moderators and places, any number
of attempts and any choice of faults, under the modules' named assumptions only.

| Theorem | Argument |
|---|---|
| `TypeCorrect`, `RegistryTypeCorrect`, `WalkTypeCorrect`, `ListingTypeCorrect`, `AccountsTypeCorrect`, `ServerTypeCorrect` | inductive as they stand or with a few facts on what a step in progress holds; the first needs `DomainAssumption` (labels are labels, NULL is nothing else), those of the walks that cardinalities of subsets of a finite set are naturals |
| `CompletedJobs` | `CompletedJobIsFullyRecorded` says nothing of a job still running. `RecordingInv` adds what each step of an invocation has behind it: past the commit the label and `completedAt` are there, past the tags all of them, whichever invocation wrote them, and none of it is ever taken back |
| `StatusIsExplained`, `PublishingIsEarned`, `RetriesKeepTheVerdict` | `StatusExplained` says of every decided status which row it can be read off; `ExplainedInv` adds that the handlers in flight are for jobs with `EnvAttempts` attempts counted, and that attempts are never forgotten |
| `ExclusiveProcessing` | assumes `"lockLoss" \notin Faults`; `LockHeld`: whoever processes a review owns its lock, or Redis has lost the job, which then nobody else can take |
| `OverlapBounded` | a step that puts a slot on a review takes a waiting job, which no slot owns, and each way back to waiting past a running invocation is a recovery that `stalls` counts; the slots on a review are a finite set, for any number of slots |
| `JobsAdvance` | attempts and stalls stay within the queue's limits, and every step of a job lowers `Budget`, a natural number |
| `RecordsGrow` | `RecordsStart`: what a call still has to write (the row, the job's id) starts from an empty row, so that it can add and never replace |
| `ExhaustedMeansFlagged` | assumes no `crash`, `lockLoss` or `handlerError`, and `EnvAttempts <= QueueAttempts`; the invariant follows an exhausted job from its failure to the handler's write. This is the README's promise that `exhausted_then_crash` refutes, with what it needs to hold |
| `NoReviewIsForgotten`, `FailedJobsAreHandled` | the first assumes nothing: `PendingInv` adds where the decision of a failed job is: in the row, in a handler that still has to flag it, or in a write that is recorded as lost. The second assumes no `crash`, no `handlerError`, and `EnvAttempts <= QueueAttempts`, so that no write is lost and no exhausted job falls short of the handler's count |
| `PipelineImplementsLifecycle` | step simulation, one lemma per action; the invariant needed is `TypeOK` with the facts that a running invocation or handler has a job, that a job has a row, and that a live job is not settled |
| `SubmissionTypeCorrect`, `AcceptedReviewsAreComplete`, `MediaRowsAreBacked`, `OrphansAreExplained` | `SubmissionInv`, one part per call (what each of its steps has behind it), one per file (object before row, a running upload belongs to a call that waits or has failed), and that a stopped process holds nothing |
| `CallsAreNotStuck`, `CallsAdvance` | all uploads of a call that waits were started, and one that is over has either ended the wait or left another running; calls and uploads move up a rank with every step |
| `SubmissionImplementsPipeline` | step simulation from `SubmissionInv`: the last upload of a call is `UploadMedia`, the first that fails is `RequestFails`, all others are stutters |
| `MergesKeepTheBooks` | `BookInv`: `MergeBookkeeping`, types, and that what calls and merges in flight hold are existing, different places |
| `MovesAreMerges`, `OnlyRacesStrandReviews` | from `BookInv` and what a merge knows at each of its steps: the rows it has locked are at its source and in nobody else's, since who waits for them looks again; and what has been at the source since the reads is among what the snapshot found. So a commit moves nothing that is elsewhere and leaves behind only what came after the merge was asked for |
| `DuplicatesNeedARace` | `RaceInv` adds that what a creator has seen is not similar to the name it is about to insert; merged places never return |
| `UndisturbedWalks`, `PublicationsAreHarmless`, `WithdrawalsAreHarmless` | `WalkInv`, over the rank of a review (how many sort before it) and the edge of the last page (page × limit): undisturbed, the pages have shown exactly the ranks before the edge; a publication only raises ranks, so what stayed and ranks before the edge was shown; a withdrawal only lowers them, so what was shown and is still there ranks before the edge |
| `FeedPagesAreShort`, `FeedWalksStop` | ranks and creation times tell reviews apart, so that an injection into an interval bounds how many have a rank of a page or a place in the window; no further page is announced beyond `OverFetch` of them, so that a reader who follows `hasNextPage` never gets past the window of ten pages |
| `PagesPartition` | arithmetic of division: the page of position i is i div limit, counted from 1 |
| `PagesAreShort`, `WalksStop` | a page is the difference of two initial pieces of the order, whatever the ties; a further page is announced only when the count, which never exceeds the rows there are, is beyond the edge |
| `MetaIsNear`, `MissesAreBounded`, `RepetitionsAreBounded` | counting positions. `MissesAreBounded` is over the rows before a given one: an untied row that stayed and was not shown by page p has at least p × limit rows before it but for one per row that left; `RepetitionsAreBounded` counts the same from the other side |
| `AddressHasOneAccount`, `RegistrationAnswersAreTrue` | accounts are never taken back; what a call in progress has behind it (a welcome belongs to an inserted account) |
| `RegistrationIsAtomic` | step simulation from the same invariant: one lemma for the turns of a registration, one for the pair of tokens that ends it, one for logins and refreshes, which the directory does not see |
| `AuthorityIsBounded` | the age of a token, and the lag of a call about to sign one, bound how long ago the account was active; those of one that names ADMIN how long ago it had the role |
| `ExitZeroLeavesNobodyWaiting`, `DeadlineIsNotPutOff` | only a shutdown past the disconnect exits with 0, and by then nobody waits, whether or not work adrift has connected again; the first timer goes down exactly as `elapsed` goes up |
| `DatabaseIsLast`, `ExitIsInTime` | past the HTTP server there is no connection and none comes, past the worker no active job and none is taken; the timer of the first signal and `elapsed` always add up to the limit |
| `ScoreIsBounded`, `ScoreIsMonotonic`, `PenaltyOutweighsVotes` | arithmetic on the weighted sum, for every recency table; they are facts about a function, not about behaviours |

Assumptions used: `AttemptsAssumption`, `DomainAssumption` (pipeline),
`SubmissionAssumption` (submission), `ScoreAssumption` (places), `RecencyAssumption`, `FeedAssumption` (feed),
`ListingAssumption`, `AccountsAssumption`, `ServerAssumption`. TLC
evaluates each of them in the runs.

Only model-checked: the liveness properties `JobsSettle`, `QueuedReviewIsDecided`,
`CallsEnd`, `AuthorityEnds` and `SignalEndsProcess`, and that the fair steps are enabled
when they are needed: fairness and ENABLED are out of the prover's reach. What is proved
is their safety half, that there is a bounded number of steps to go and somebody to take
the next one:

| Liveness (TLC) | Safety half (TLAPS) |
|---|---|
| `JobsSettle` | `JobsAdvance`: every step of a queued job lowers a budget |
| `QueuedReviewIsDecided` | `NoReviewIsForgotten`: while it is PENDING something still has to write it, or the reason why nothing does is known; `JobsAdvance` |
| `CallsEnd` | `CallsAdvance`: calls and uploads only move on; `CallsAreNotStuck`: who waits, waits for something that runs |
| `AuthorityEnds` | `AuthorityIsBounded`: no token outlasts an account's activity or its role by more than a lifetime |
| `SignalEndsProcess` | `DeadlineIsNotPutOff`: the time left only shrinks; `ExitIsInTime` |

The walks of a reader have no fairness, as a reader may stop at any page; that they
cannot go on for ever is `WalksStop` and `FeedWalksStop`.

Theorems whose property no run lists (`ExhaustedMeansFlagged`, `RetriesKeepTheVerdict`,
`PublishingIsEarned`, `FailedJobsAreHandled`, `CallsAreNotStuck`, `CallsAdvance`,
`ExitZeroLeavesNobodyWaiting`, `DeadlineIsNotPutOff`, and those on pages and scores) state
it in the module of their proof; `JobsAdvance` states `JobsOnlyAdvance` of the pipeline.

## 5. What the checks found

Three runs expect a violation; each counterexample is what the code does against
what the repository says.

* `exhausted_then_crash`: the flag is written by an event handler that nothing
  repeats; a stop in between leaves the review PENDING for good.
* `bad_tag`: an error in the tag upserts fails a job whose verdict is committed; after
  the last attempt the handler overwrites the verdict with FLAGGED. `RetriesKeepTheVerdict`
  shows that only the last attempt does so.
* `merged_place_reviews`: a submission that resolved its place before a merge attaches
  its review to the merged place afterwards, where the feed does not show it.
  A second way is a review that comes to the source between the two statements of the
  merge's transaction (`modules/places/repositories/places.repository.ts:153-164`).
  `OnlyRacesStrandReviews` shows that there are no others: the review is put at a place
  merged before, or came to the source after the merge was asked for.

Divergences that need no run: the worker's header (`workers/moderation.worker.ts:11`)
says medical_risk is REJECTED, the map at line 48 says FLAGGED (modelled as the map
says); `project_client_meeting.md:118` says that FLAGGED reviews still appear in the
feed, which filters on APPROVED. The queue's 3 attempts are hard-coded
(`jobs/moderation.queue.ts:36`) while the handler compares with `BULL_JOB_ATTEMPTS`
(`workers/moderation.worker.ts:155`): above 3 no exhausted review is flagged, against
`README.md:196` (it is why `FailedJobsAreHandled` assumes `EnvAttempts <= QueueAttempts`).
New places are flagged for merge review with the status ACTIVE
(`modules/places/repositories/places.repository.ts:108`), the merge queue asks for
NEEDS_MERGE_REVIEW (`modules/admin/repositories/admin.repository.ts:67`) and counts
without it (line 73): it is always empty, its count is not, against `README.md:685`. The
penalty is read off the label NEEDS_HUMAN_REVIEW (`modules/feed/services/feed.service.ts:145`)
although line 26 promises it for any review ever flagged or rejected.

What holds is the larger part: under every fault and interleaving modelled, a
completed job is complete, nothing is published and nothing stays PENDING without a
reason, decided reviews stay decided, merges keep the books, and the paging of an undisturbed feed is exact.

## 6. Not modelled, and the plan

Not modelled:

* routing, validation, rate limits, response formatting, logging, parsing of settings,
  single-row reads and updates of users and categories: they keep no state that interacts;
* the rewriting of names (`utils/normalize.ts`) and the order of the provider's keyword
  lists: functions of one string, which the models abstract to a table of scores and to
  the label of a text;
* BullMQ, Redis, Prisma, jsonwebtoken and Node beyond what the service asks of them; a
  snapshot that brings finished jobs back; connections that are re-established;
* the expiry of the signed URLs stored with the media;
* the check of custom job ids in BullMQ, pinned at 5.70.1 (`package-lock.json:4359`), whose
  code is not in the repository: the model accepts the id `jobs/moderation.queue.ts:63` makes.

What would come next:

1. `ReviewSubmission` with `PlaceRegistry` in front of it, so that the place is resolved
   within the call.
2. A rollback of Redis to an earlier snapshot, with jobs that run a second time.
3. `FeedWalk` with reviews created at the same time.
4. The classifier and the normalisation as functions against reference definitions.
