# LegacyVault: a TLA+ verification project

LegacyVault keeps a household's records: encrypted documents, confirmed facts,
reports, exports, emergency access and a privacy workflow.  This directory holds
TLA+ models of the parts in which several stores and several processes have to
agree, TLC configurations that check them on small instances, and TLAPS proofs
of their safety properties for every instance.

Source references are to the repository's files; `PROJECT.json` maps every
definition to the lines it stands for.

## 1. Inventory

| Part | State | Operations | Interaction | What is hard |
|---|---|---|---|---|
| Document pipeline (`documents`, `worker`, `api/runtime.ts`, `repository.ts`) | `documents`, `document_derivatives`, `workflow_runs` rows; original and derivative in the object store | start, presigned PUT, complete, scan, OCR, delete original, manual extraction, download | the API commits rows and adds a job; worker runs read rows, work outside a transaction and write back under versions | overlapping runs, lost answers, crashes between stores, late and repeated PUTs |
| Workflow queue (`worker/src/index.ts`, BullMQ) | one job per workflow id | add, take, finish, retry, stall, remove, forget | between API and workers | lock expiry of live runs, attempts used up, ended jobs that are removed |
| Privacy deletion (`repository.ts`, `worker`, `runtime.ts`) | `privacy_requests`, `deletion_executions`, `workflow_runs`, `legal_holds`, the person's rows | request, confirm, cancel, block, delete | delayed job; purge of the AI cache; holds | cancel against worker, opposite lock orders, clocks, holds that start late |
| AI cache (`ai-gateway/src/cache.ts`) | Redis entries with a TTL, an index per household | get, set, purgeScope | API turns fill it, deletion purges it | two-command purge, turns in flight |
| AI gateway (`gateway.ts`, `dlp.ts`, `provider.ts`) | none but metrics; consent and, in the API process, a map of answers by idempotency key | execute a turn | consent, DLP before and after, provider failure | turns that outlive a purge, a deletion or a consent |
| Audit chain (`packages/audit`) | `audit_events`, a hash chain per household | append, verify, read a verified page | every authorisation decision appends before the handler acts | concurrent appends, lost commit answers |
| Billing (`domain/src/billing.ts`, `stripe.ts`, `repository.ts`) | `subscriptions`, `billing_refunds`, `billing_events` | webhook events, access decision | Stripe delivers repeatedly and out of order | ties, stale events, grace period |
| Facts and idempotent writes (`repository.ts`, `vault.ts`, `domain`) | `facts`, `idempotency_records` | create, confirm, reject, dispute; reserve a key, store its answer | three transactions per write | requests that end in between, repetitions, stale versions |
| Emergency access | `emergency_access_requests` | request, deny or delay, release | owner and recipient, time | early release, decisions repeated or out of order |
| Exports, reports, notifications (`worker`, `reports`, `notifications`) | `exports`, `reports`, `notification_deliveries`, `workflow_runs`; archives; e-mails at the provider | start, queue, build, complete, announce, send | queue, workers, object store, e-mail provider | duplicate sends, archives overwritten, originals deleted in between |
| Memberships and invitations (`households.ts`, `repository.ts`) | `households`, `memberships`, `membership_invitations` | create, invite, accept, revoke, change role | several accounts | opposite lock orders, acceptance against revocation, the owner |
| Consents | `consents` | grant, withdraw | read by AI turns and notifications | stale versions |
| Household keys (`packages/crypto`) | one active wrapped key per household | created with the household, read | all encryption | |
| Authorization (`auth`, `domain/permissions.ts`) | none (decisions over grants) | decide | every route | |
| Authentication, web pages, contracts, observability, migrations | library configuration, presentation, parsing, logging | | | not modelled |

What makes each modelled part correct is stated as properties (section 4); what
can go wrong in each part, at its line, is the `hazards` list of `PROJECT.json`.

## 2. Modules

| Module | Models |
|---|---|
| `WorkflowQueue` | the queue's job as a record and what adding, taking, finishing, rejecting, stalling and removal by age do to it (BullMQ, from how the worker uses it) |
| `DocumentPipeline` | the life of one document across PostgreSQL, object store, queue, API requests and worker runs |
| `DocumentLifecycle` | the abstract life of a document that the pipeline implements |
| `PrivacyDeletion` | one person's deletion request, with cancellation, worker runs, legal holds and both keeps of AI answers |
| `DeletionLifecycle` | the stages of a deletion, its account and its recovery period, which the workflow implements |
| `AuditChain` | concurrent appends to the households' hash chains, and an auditor reading them by pages |
| `AuditLog` | an append-only log of decisions that actions and refusals follow, which the chain implements |
| `Billing` | the provider's events, their deliveries, the rows they leave and the access these give |
| `BillingLedger` | events recorded once, one at a time, which the deliveries implement |
| `VaultWrites` | the idempotent writes of facts, emergency access and consents, in three transactions each |
| `RecordLifecycle` | the changes of those records that the domain package allows, which the writes implement |
| `VaultJobs` | exports, reports and the e-mail of an annual review, on `WorkflowQueue` |
| `VaultOutcome` | what is promised of an export or a report: completed once, announced once, which the jobs implement |
| `Households` | a household's members and invitations, lock by lock |
| `MembershipRegister` | a register that takes whole requests one at a time, which the household implements |
| `MCDocumentPipeline`, `MCPrivacyDeletion`, `MCAuditChain` | symmetry sets, orders of runs or requests that lose no behaviour and, for the audit chain, a digest for TLC |
| `WorkflowQueueProofs`, `DocumentPipelineProofs`, `PrivacyDeletionProofs`, `AuditChainProofs`, `BillingProofs`, `VaultWritesProofs`, `VaultJobsProofs`, `HouseholdsProofs` | TLAPS proofs |

Every component with transactions or runs that overlap has an abstract
specification, in which there are no locks, runs, retries or failures.  The
refinement mappings are short.  `BillingLedger`, `RecordLifecycle` and
`MembershipRegister` talk about the tables themselves, so the mapping is the
identity on them and every other step is a stutter.  `DeletionLifecycle` sees one
`stage`, which exists only while the three rows agree (`Stage` is "torn"
otherwise).  `AuditLog` sees each row as an entry with a household and a
position.  `VaultOutcome` sees which work is queued (`Queued`), and of a delivery
the key of the e-mail it records (`SentAs`).

### Document pipeline

`doc` and `wf` are the `documents` and `workflow_runs` rows; `obj` the original
with its tag, `derivObj` the derivative (by the run that wrote it), `derivRow`
the `document_derivatives` row (by the run whose digest it holds), `job` the
queue's job.  `upc[u]` is where upload attempt `u` is, `urls` which of them have a
presigned URL; `pc[r]` and `snap[r]` are a worker run's place
in the handler and the row versions it has read.

A presigned URL admits one checksum, for 300 seconds, as often as it is used, and
says nothing of the row: `urls` are the attempts that have one, and `PutLands` is a PUT
to such a URL at any time, of a client that has given up, too, or after the document
is clean or its original deleted.  It replaces the object and its tag.  There is no
action for the end of a URL: a URL that ended is one that is not used again, and
nothing waits for a PUT.  An attempt names its ciphertext, and those in `Foreign` send
other bytes than the declared file's, which neither URL nor completion can tell from
it; a run that fetches them finds that the digests differ (`Unusable`).  `late`
remembers that a PUT landed after the completion; no action reads it.

A database transaction is one action, because each is one `withTenant` call
whose effects appear at its commit.  Every other `await` that changes a store is
an action of its own: the upload request is read, checksum, commit, enqueue; a
worker run is read, fetch and scan, tag, commit, read, fetch and OCR, put
derivative, commit, delete object, commit.  Each call of a run can fail without
an effect (`CallFails`), succeed with its answer lost (`Continue`), or be the
last thing the process does (`Crash`); the catch block that records the failure
is `RecordDocumentScanFailure`.  A lock can expire under a live run
(`StallLive`): the run goes on and a second one starts.

Data is abstracted to what the properties tell apart: a file is clean, infected
or fails validation; an upload's ciphertext is named after the upload; versions
are kept because every conditional update depends on them.

### Privacy deletion

`request`, `execution` and `wf` are the three rows.  Confirmation is one
transaction.  Cancellation locks the request row first (`LockRequest`) and
finishes when the execution row is free (`CancelPrivacyDeletion`); completion
locks the execution row (`LockExecution`) and finishes when the request row is
free (`BlockForHold`, `DeleteActiveSystem`).  When each holds one row,
`DeadlockDetected` aborts either.  `clock` is whether the recovery period is
over by the worker's clock; with `ClockSkew` the job may be promoted earlier.
`hold` is whether a legal hold is active, `unseen` the runs whose sampled `now`
lies before its start.

`cache` and `index` are the Redis entries of the household's AI answers, and `kept`
the answers in the API process's map of idempotency keys.  A turn (`turn`) looks for
its answer in the map, which ends it without a step, then in the cache, and else asks
the provider (`BeginTurn`); the answer goes to the cache (`CacheAnswer`) and then to
the map (`KeepAnswer`), or the turn ends, whatever the reason, without one
(`TurnFails`).  Entries of the cache expire and are purged; those of the map go only
when it is full or its process ends (`DropAnswer`), which nothing makes happen.

### Audit chain

`rows` is the `audit_events` table, `lock[h]` the holder of a household's
advisory lock, `pc[q]` the place of request `q`.  An append is connect, lock,
read the last event, insert and commit: statements at READ COMMITTED interleave
with those of other requests, and each may fail.  A commit whose answer is lost
leaves its event and fails the request.  A page is read in one repeatable-read
snapshot, hence in one action.  A request for a page carries the position it was
sent with (`after`); the auditor's own position is `cursor`, and `seen` and
`finished` are what it has been given and told.  Whether a granted request is an
ordinary one (`Act`) or the auditor's (`ReadVerified`) is decided when it is
granted, which covers both kinds of route.

The digest is a constant operator.  In the runs it is the content itself; the
proofs hold for any.  Tampering is not modelled, so what the digest detects is
not a subject here.  Two households whose lock keys collide would only wait for
each other more.  Each of an auditor's requests adds an event of its own, and others
add more, so it need not catch up; `PagesComplete` says what is true once it is told
that nothing follows.

### Billing

`events` lists the provider's events in the order of publication, each with its
second; `row` holds the rows of both tables by their keys, household or refund.
A delivery inserts the event's identifier (which waits for an open transaction
with the same one, and ends it as a duplicate when that is committed), upserts
the row (which waits for the row's lock and then sees what is committed), and
commits.  Deliveries overlap, repeat and come in any order.  `CreateCheckout` is
where a household gets a subscription, under the version check of the route.
Signature checking, the portal, prices and the text of entitlements are left out;
of `deriveBillingAccess` the three levels are kept.

### Idempotent writes

`row` holds facts, emergency-access cases and consents by identifier, with status,
version and what a decision depends on (evidence, time of release); `record` holds
the idempotency records.  A request is `ReserveIdempotency`, one write (an action
per route), `CompleteIdempotency`; `req[q].at` is the time the route took before
its write.  A request that finds its key taken changes nothing, so it is no action:
it is told the stored answer, "processing" or a conflict, and what it is told is
what `AnswersAreWritten` is about.  `commits` remembers every write with its key;
no action reads it.  The three decisions on a fact hash the same body, so a key
used for a confirmation is replayed for a rejection (`Hashed`).  Memberships are
outside this module: the lookup of the emergency recipient's may find it or not
(`Refused`).

`RecordLifecycle` is the domain package (`facts.ts`, `workflows.ts`): atomic
changes, each to the next version.  It allows more than the routes do, such as
rejecting a disputed fact or revoking a release.

### Exports, reports and notifications

Each export and report has a row, a workflow and a job; an annual review has a
second job for its e-mail.  `row[w].by` is the run whose content was recorded,
`archive[e]` the run whose archive the object store holds: archives are encrypted
afresh, so two runs never make the same one.  `emails` is what the provider has
sent, by report and idempotency key.  A report is reserved, started, queued and
answered in four steps, once per key; an export is started in one transaction and
queued by every repetition of the request.  Runs fail, crash, lose answers and
overlap as in the document pipeline; `expired` are the jobs whose lock expired
under a live run.  The world changes around them: documents become clean, their
originals are deleted, a manual fact without evidence is confirmed, and the
requester's consent to e-mail comes and goes.

### Households

`version` is that of the `households` row, `member` and `invitation` the tables,
`record` the responses, which are committed with the change they answer.  A
transaction is reserve, lock the own row, lock the household, commit; an
invitation locks the household first and then needs its address in the unique
index.  Locks are read off the step a request is at (`HouseholdLocked`,
`RowLocked`, `AddressLocked`), and `DeadlockDetected` aborts either side of a
cycle.  `intime` is what an acceptance knows of the expiry from before its locks.
An invitation's e-mail follows the commit; the token it carries is what `AcceptRoute`
needs.

`member` is the role column.  A membership also ends (`active=0`) by its person's
privacy deletion, the owner's included, in a transaction of the worker that takes none
of these locks; that is `DeleteActiveSystem` of `PrivacyDeletion`, and `FounderIsOwner`
says nothing of it.

## 3. Bounds

`Runs` bounds the executions of a job's handler.  A job that is attempted
`MaxAttempts` times and forgiven `MaxStalled` stalls needs
`MaxAttempts + MaxStalled` runs; liveness runs provide that many, so that a run
is always available.  Safety runs use three: two overlapping runs and a third
that finds what they left.  `MaxAttempts` is 3 in the code; most runs scale it to
2 with the failures.  `document_progress` keeps it, because an expired lock alone
can cost two attempts: its own run's and that of the run it overlaps.
`MaxFaults` bounds the failures of a behaviour (2 for safety: a lock expiry
combined with a lost answer, a crash or a failed call).  Versions and counters
are bounded by the finite number of runs, without a bound of their own.
`document_safety` has an attempt that sends the declared file and one that sends
other bytes, each as often as it likes.  `document_progress` has only the first: a
foreign ciphertext that is stored when the scan fetches it makes every attempt fail,
as it should.

Symmetry is unsound for liveness.  Where a run checks liveness and its worker runs or
requests are interchangeable, they are numbers instead, and an `ACTION_CONSTRAINT` has
them begin in their order (`TakenInOrder`, `ComeInOrder`).  Nothing is lost: whoever
begins first in a behaviour can be renamed the first, the properties name no run or
request, and the fairness conditions are the same for all of them.

The audit chain has two households, two connections and pages of two events.  Three
requests may be about any household: two appends to one chain can meet while a third
waits for a connection or goes to another chain.  A fourth comes when all are about
the first household, so that an auditor reads a second page: a page of two events,
whose answer names a position that another request's event has followed, and the page
from there, which tells it that nothing follows.
Billing has two events, of a subscription, a refund or neither, two deliveries at a
time, and two clock ticks with a grace period of one: enough for an old event after
a new one, two in the same second, a redelivery during the first delivery and a
grace period that ends.  Both have one fault.

`writes` has one record of each kind, three keys and two requests at a time, so a
record can be created and decided upon twice, by requests that both saw the same
version; delays are one hour, on a clock of two readings, before and after it.
`jobs` has one export or one report (`MaxStarted`), one document, two attempts and
one fault; two executions of each job are all that one fault can cause before the
work is done.  `jobs_export` has the three attempts of the code and no fault.
`households` has a founder and one other account, three requests (an invitation,
and two that act upon it or on what came of it), two of them at a time and each
repeated or ended at will.

Deadlock checking is off where a finished workflow rightly stops; in `households`,
whose clients may always repeat a request, it is on.

## 4. Runs

| Run | Checks | Result |
|---|---|---|
| `document_safety` | `RowsInStep`, `VerdictIsTrue`, `OriginalOutlivesProcessing`, `DeletionNeverConflicts`, `RecordedBytesDownloadable`; `ImplementsLifecycle` | hold |
| `document_progress` | `QueuedFileReachesReview` after any single failure; `JobEnds` also after two, which can use up the attempts | hold |
| `document_queueing` | `CompletedUploadIsQueued` | violated |
| `deletion_safety` | `RowsAgree`, `CancelledNeverDeleted`, `CancelFindsItsRows`; `ImplementsDeletion` | hold |
| `deletion_liveness` | `ConfirmedDeletionEnds`, `SharedCacheForgets` | hold |
| `deletion_hold` | `HoldStopsDeletion` | violated |
| `audit` | `ChainVerifies`, `PagesComplete`; `ImplementsLog`; `RequestEnds` with appends holding every connection | hold |
| `billing` | `LatestWins`, `AccessIsEarned`; `ImplementsLedger`; `EventReflected` | hold |
| `writes` | `WrittenOnce`, `AnswersAreWritten`, `NoUpdateLost`, `ReleasedAfterDelay`; `ImplementsDomain`; `CommittedIsAnswered` | hold |
| `households` | `ChangesAreSerial`, `OneOpenInvitation`, `AdmittedByInvitation`, `FounderIsOwner`; `ImplementsRegister`; `RequestEnds` under deadlocks | hold |
| `jobs` | `ArchiveHasDigest`, `EmailSentOnce`, `AnsweredIsQueued`; `ImplementsPromise`; `QueuedWorkEnds`, `QueuedReviewIsAnnounced` after any single failure | hold |
| `jobs_export` | `ExportIsResumable` | violated |

The type invariants, and the properties that the others imply or that an inductive
argument needs as they stand (`NeverGoesBack`, `ExtractedOnce`, `LastAnswers`,
`DeletionIsDue`, `TailIsCurrent`, `AuditedOnce`, `ActionsAreAudited`,
`AcknowledgedIsDurable`, `ChangesOnceRecorded`, `ClosedIsFinal`,
`CompletedIsFinal`), are not in the runs: they are proved for every instance
(section 5).

The violated properties state what a document, summary or test of the
repository says; `findings` in `PROJECT.json` quotes each line.  In short:

* an upload completion whose enqueue fails after its commit cannot be repeated,
  so the document stays quarantined with no job;
* holds are looked up as of a time sampled before the cache purge, so one that
  starts in between does not stop the deletion;
* an export includes documents whose original was deleted, as their owner chose:
  every attempt fails to fetch them, and so does every later export.

Other consequences of the code show in the models without a run of their own:

* a run that lost its lock overwrites a derivative, or an export's archive, after
  another run has recorded its digest (`ArchiveHasDigest` excepts such jobs);
* a PUT that is repeated after the scan resets the object's tag to quarantined, and
  nothing tags it again: the clean document can no longer be downloaded
  (`RecordedBytesDownloadable` is about documents without such a PUT);
* other bytes that land between the scan's fetch and its tag are tagged clean, and
  other bytes whose checksum the completion recorded, while the scan found the declared
  file in the store, would be downloadable as clean; the row's verdict is still the
  declared file's (`VerdictIsTrue`);
* a PUT after the deletion of the original stores an object again that nothing
  removes (`OriginalOutlivesProcessing` only speaks of a missing one);
* an AI turn in flight caches its answer after the purge, for up to 15 minutes
  (`LastAnswers` says which turns, `SharedCacheForgets` that the answers go in the end);
* the answers of a deleted person in the API process's map stay there until 1000 others
  have come or the process ends: no purge reaches them and they have no time to live,
  so no property promises anything of `kept`;
* two billing events of the same second are applied in the order of arrival, so
  the earlier one can have the last word (`LatestWins` orders by second);
* a deletion whose job has failed is not resumed by anything while the queue keeps the
  job, seven days or 5000 failures (`ConfirmedDeletionEnds` is therefore about a single
  failure); once the job is forgotten, a client that repeats its confirmation adds it
  again, and the deletion is carried out;
* every further past-due event starts the 72-hour grace period anew
  (`AccessIsEarned` counts from the newest event);
* a household has one subscription row, so the end of one subscription takes away
  the access that another, still active, would give;
* a request that ends between its transactions leaves its idempotency key at
  "processing" for ever (`CommittedIsAnswered` excepts such requests);
* a confirmed manual fact without evidence, which `confirmFact` allows, makes every
  report fail its provenance check (`QueuedWorkEnds` excepts it);
* an expired invitation still takes its address until it is revoked.

### Fairness

`FairSpec` assumes that worker runs go on (`WF` of `RunStep`: a live process
executes its handler, an idle worker takes a waiting job), that BullMQ's stalled
check returns the job of a dead run (`StallDead`), and, for deletion, that delayed
jobs become due, time passes, cache entries expire, PostgreSQL detects deadlocks,
and a cancellation that can finish does.  Strong fairness is assumed for the
completion that waits for the request row: PostgreSQL queues waiters for a row lock,
so a waiting run is not overtaken for ever by new cancellations. In the audit chain
a request in progress goes on (`WF`).  Each asks for a connection and a lock once,
so those that wait are not overtaken for ever, in whatever order PostgreSQL and the
pool serve them.  In billing the waiters of `InsertEvent` and `Upsert` are served in
turn (`SF`), as PostgreSQL queues them, and the provider delivers an event until it
is acknowledged (`SF`); the provider's retry period, finite in fact, is assumed to
be longer than any outage. The API goes on with a request it has begun (`WF` of
`RequestStep` in `VaultWrites`, of `Answering` in `VaultJobs`).  In `Households` a
request waits for rows that others take again and again; PostgreSQL queues the
waiters, hence `SF` of its steps, and `WF` of the deadlock detection. Clients, legal
holds and failures are never assumed to act.  `RetryingSpec` adds a client that
repeats its request: the violation it finds does not depend on the client giving up.

## 5. Proofs

All proofs are for any sets of uploads, runs, turns, requests, households and
deliveries and any bounds, from the named assumptions on the constants only (`None`
is not a run, an upload or a request; `MaxAttempts`, pool and page size positive;
other bounds natural; `ClockSkew` Boolean; households and refunds are different
keys; facts, cases and consents are disjoint, and so are exports and reports,
accounts and idempotency keys).  The proofs about the audit chain assume nothing of
the digest.

*Document pipeline.*  The safety properties are not inductive: that an original
outlives its processing depends on what a run knows when it deletes, and that in
turn on what the workflow's steps say of the other stores.  `IInv` adds
`NothingBeforeCompletion` (no job, run or derivative before the completion commits,
and no PUT is late), `RunKnows` (what holds while a run is at each label: a run at
`acceptScan` has seen a clean file, a run at `deleteObject` has the OCR step behind
it), `StepsAreBacked` (each completed step has its derivative, row and predecessors)
and `StoreIsScanned` (while no PUT is late, what a run has fetched is still stored
when it tags it, and stays stored with its tag). What the row says
(`RowVerdictIsTrue`) needs no such condition: it is carried by the digest check
alone, whatever is stored and whenever.  `InductiveInvariant` proves `Spec =>
[]IInv`, one lemma per group of actions; `RowsStayInStep`, `VerdictTrue`,
`OriginalSafe`, `BytesDownloadable`, `FactsExtractedOnce` and `DeletionAccepted`
follow from it, and so do the action property `NothingGoesBack` and `Refinement`,
which maps every step to a step of `DocumentLifecycle` or a stutter.

*Privacy deletion.*  `IInv` adds `ClientKnows` (what a cancellation in progress
has locked and seen), `RunKnows` (a run past the time check knows the period is
over; the holder of the execution row is unique and finds it in its recovery
period).  From it: `RowsAlwaysAgree`, `CancellationHolds`,
`CancellationNeverConflicts` and `DeletionOnlyWhenDue`.  `OnlyLastAnswers` follows from
the steps alone: a turn begins only while the person exists, so the turns that were
with the provider when the account went are the last to add to the Redis cache.
`Refinement` maps the rows to their common stage; a step that touches one of them
without the others would tear it, so the proof is that `RowsAgree` survives
together with the order of the stages (`NeverTorn`, `RowSteps`).

*Audit chain.*  That the chain verifies is inductive only with the lock: `IInv`
adds `LockHeld` (a request past the lock holds it, so there is one per
household), `TailIsCurrent` (what it has read is still the last event),
`HasLast`, `NotYetAudited` and `AuditorKnows` (up to every position the auditor
has been given, or has sent with a request, it has seen everything).  From it:
`ChainAlwaysVerifies`, `AppendsNeverConflict`, `EveryActionAudited`,
`OneEventPerRequest` and `PagesAreComplete`.  The last rests on a lemma about
pages: the first `PageLimit` of a finite set of events are a prefix of it by
sequence, because an earlier event has fewer events before it.  `Refinement`
shows that the store writes `AuditLog`: one decision after the other, nothing taken
back, and no action, refusal or page that the log does not bear out.

*Billing.*  `IInv` adds `InOneTransaction` (an event in an open transaction is in
no other, and not recorded), `WrittenUnderLock` (a row about to be committed was
computed from what is still committed) and `HasRow`.  From it:
`LatestAlwaysWins`, `NothingAcknowledgedIsLost`, `AccessAlwaysEarned` and the
action property `RedeliveryChangesNothing`.  `Refinement` follows: a commit is
`BillingLedger`'s `Record`, because what it writes was computed from what is still
committed, and an acknowledgement is one of an event that is recorded or needs no
record.

*Idempotent writes.*  `IInv` adds `KeyIsHeld` (a request under way has reserved its
key, alone, and it has no answer yet), `WriteIsLogged` (a request has written iff it
is about to store its answer, and nothing was written under a key without a record)
and `DecisionStands` (the time of release on a case is the one its only decision
set).  `WrittenInv` proves once that a write of the next version keeps all of it; the
actions only show that they are such writes.  From it: `KeysWriteOnce`,
`StoredAnswersAreWritten`, `UpdatesAreKept`, `ReleaseWaits`, and `Refinement`, which
maps every write to a step of `RecordLifecycle` and the other steps to stutters or
the clock.  Two action properties say what a key's record can still do:
`AnswersAreFinal` (hash and answer never change) and `AbandonedForGood` (a key whose
request ended early stays at "processing" for ever), from one lemma about who
writes a record (`RecordSteps`).

*Exports, reports and notifications.*  `IInv` adds `RequestOrder` (a report's request
takes its steps once and in order), `DeliveryKey` (every e-mail and every run that
sends one has the id of the delivery's row) `OneBuilder` (a live run of a job
whose lock never expired is its only one, and the export it builds is not complete) and
`JobsAreTaken` (an active or ended job has been taken by a run, so that a job is still
known to have been queued once the queue has forgotten it).
From it: `DigestsMatch`, `OneEmail`, `AcceptedIsQueued` and the action property
`CompletionIsFinal`.  `Refinement` needs a second invariant, `Stages`: rows and
workflows move together, nothing is queued or run before its row exists, and only a
completed annual review has an e-mail under way.  `StepStages` proves it inductive
on top of `IInv`; a completion then finds its work queued and pending, and an e-mail
its review complete and not announced under another key.

*Households.*  `IInv` adds `Recorded` (keys, responses and the invitations made under
them agree), `AtStep` (what a request has found of the row it has locked still holds
when it gets the household) and `Locks` (a key, a row and the household are locked by
one transaction at a time).  The argument is that everything a commit relies on is
under a lock that is visible in `pc`: the row between `LockRow` and the commit, the
address because whoever closes an open invitation is at that step.  `CommitInv` states
what a commit has to keep, and each transaction discharges it.  From it:
`ChangedOnce`, `OneInvitation`, `Admission`, `OneOwner` and the action property
`ClosedInvitations`.  `Refinement` maps a commit to the whole request of
`MembershipRegister`, on the version it was made for, and all steps before it to
stutters.

*Waiting.*  That requests end is liveness, and stays with TLC.  Its safety part is
proved for any number of requests: a request that waits does so, in the end, for one
that can go on.  `AppendsNeverStuck` shows it for the audit chain, whose requests hold
connections while they wait for a chain (the holder of a chain always has its
connection, `HolderIsLive`); `NoOtherDeadlock` of `Households` and of
`PrivacyDeletion` show it but for the one cycle of two transactions that PostgreSQL
breaks, and that a cancellation which was given a row by an abort can always commit;
`DeliveriesNeverStuck` shows it for Stripe's deliveries, which need no such exception.

*The queue.*  `WorkflowQueueProofs` states once what the queue's operators preserve:
types, the bounds on attempts and stalls, and that an ended job is left as it is until
it is forgotten (`Counted`, `Ended`, `MovesAreCounted`).  Each workflow module then shows
that its steps are such moves (`JobSteps`), whence `JobIsBounded` and `JobEndsForGood` of
documents and of deletions, and `JobsAreBounded` and `JobsEndForGood` of exports, reports
and notifications.  That a failed job stays failed while it is kept is also a weakness, as
nothing else resumes its workflow; `OnlyConfirmationsAdd` shows what can once it is
forgotten: a confirmation of the deletion, first or repeated, whose transaction is
committed, and nothing else.

Only model-checked: the liveness properties (the prover does not handle
fairness or `ENABLED`) and, being false, the violated ones.

## 6. Plan

1. Done: document pipeline, queue, privacy deletion, their proofs.
2. Done: audit chain and billing, their proofs.
3. Done: idempotent writes with facts, emergency access and consents, and their
   refinement of the domain package; exports, reports and notifications;
   memberships and invitations; their proofs.
4. Done: an abstract specification and its refinement for every component; waiting,
   attempts, finality of jobs and of stored answers.
5. Left to prove: how many runs of one job can be alive at a time (one, and one more for
   every lock that expired under a live run), for each of the modules on the queue; and
   that a report's or an export's archive is whole whenever only one run was.
6. Left to model: the AI turn in detail (a consent read once per turn, the
   provider's circuit breaker, an entry of the cache that cannot be decrypted), and
   the permission matrix as an operator checked against a reference definition.

## 7. Not modelled

Cryptography, encodings and digests beyond "equal bytes, equal digest"; HTTP
parsing, problem details and headers; authentication, a library's; web pages;
logging and metrics; migrations.  Routes that only read, the retention schedule (a
table that nothing applies), support access (`auth/src/access.ts`, which no route
calls), the permission matrix beyond who may approve, and the provider's retries and
circuit breaker inside an AI turn.  Backoff delays, the age and the number at which
ended jobs are removed, and worker concurrency limits are left out of the queue:
jobs never become due earlier than in the code, may become due at any later time,
and may be forgotten at any time after they ended (`ForgetJob`).  An invitation
whose address belongs to one that an acceptance has locked and not yet updated is
refused by the unique index at once; in `Households` it waits, and the refusal is
one of the ways `RequestFails` ends it.  A workflow waiting at `legal-hold-review`
or `shared-data-review` has no further operation in the repository.
