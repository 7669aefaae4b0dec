-------------------------- MODULE PrivacyDeletion --------------------------
(***************************************************************************)
(* A person's deletion request: request, confirmation, recovery period,    *)
(* cancellation, and the worker that removes the account once the period   *)
(* has elapsed, unless a legal hold stops it.                              *)
(*                                                                         *)
(* Three rows (request, execution, wf) are written in one transaction by   *)
(* confirmation, cancellation and completion.  Cancellation locks the      *)
(* request row first and the execution row second, completion the other    *)
(* way round; each is therefore two actions, and PostgreSQL's deadlock     *)
(* detection a third.  The queue's delayed job, the AI answers kept in     *)
(* Redis and in the API process, and the legal holds change outside those  *)
(* transactions.                                                           *)
(***************************************************************************)
EXTENDS WorkflowQueue

CONSTANTS
    Turns,       \* AI interview turns of the person; also name their answers
    ClockSkew,   \* whether the worker's clock may lag behind the API's
    MaxFaults    \* bound on infrastructure failures in a behaviour

ASSUME DeletionAssumption ==
    /\ ClockSkew \in BOOLEAN
    /\ MaxFaults \in Nat

VARIABLES
    request,    \* the privacy_requests row
    execution,  \* the deletion_executions row
    wf,         \* the workflow_runs row
    person,     \* the people row with memberships, grants and sessions
    hold,       \* whether a legal hold on the person is active
    unseen,     \* runs whose "now" lies before the start of that hold
    clock,      \* whether the recovery period is over, by the worker's clock
    job,        \* the queue's job
    pc, snap,   \* per worker run: its step and the execution version it read
    found,      \* per worker run: the cache keys its purge has listed
    confirm,    \* the client's confirmation request
    cancel,     \* the client's cancellation request
    turn,       \* per AI turn: its step
    cache,      \* the AI answers in the Redis cache
    index,      \* that cache's index of the household's entries
    kept,       \* the AI answers in the API process's map of idempotency keys
    faults      \* infrastructure failures so far

rowVars == <<request, execution, wf>>
holdVars == <<hold, unseen>>
runVars == <<pc, snap, found>>
clientVars == <<confirm, cancel>>
cacheVars == <<turn, cache, index, kept>>
vars == <<request, execution, wf, person, hold, unseen, clock, job, pc, snap,
          found, confirm, cancel, turn, cache, index, kept, faults>>

Fates == {"cancelled", "blocked-legal-hold", "awaiting-review"}
RequestStatuses == {"absent", "identity-verification", "recovery-period"} \cup Fates
ExecutionStatuses == {"absent", "recovery-period"} \cup Fates
WfStatuses == {"absent", "pending", "running", "completed"}
NextSteps == {"null", "identity-verification", "active-system",
              "legal-hold-review", "shared-data-review"}
Steps == {"identity-verification", "active-system", "cancelled"}

RequestRow == [status: RequestStatuses, version: Nat]
ExecutionRow == [status: ExecutionStatuses, version: Nat]
WorkflowRow == [status: WfStatuses, next: NextSteps, steps: SUBSET Steps,
                version: Nat]
\* Where a run of the "privacy-delete" job can be.
WorkLabels == {"read", "purgeList", "purge", "lock", "blocking", "deleting"}
RunLabels == WorkLabels \cup {"idle", "return", "throw", "end"}

TypeOK ==
    /\ request \in RequestRow
    /\ execution \in ExecutionRow
    /\ wf \in WorkflowRow
    /\ person \in {"present", "deleted"}
    /\ hold \in {"none", "active"}
    /\ unseen \in SUBSET Runs
    /\ clock \in {"recovery", "elapsed"}
    /\ job \in Job
    /\ pc \in [Runs -> RunLabels]
    /\ snap \in [Runs -> Nat]
    /\ found \in [Runs -> SUBSET Turns]
    /\ confirm \in {"idle", "committed", "done", "failed"}
    /\ cancel \in {"idle", "locked", "granted", "committed", "done", "failed"}
    /\ turn \in [Turns -> {"idle", "asking", "cached", "answered", "failed"}]
    /\ cache \in SUBSET Turns
    /\ index \in SUBSET Turns
    /\ kept \in SUBSET Turns
    /\ faults \in Nat

Init ==
    /\ request = [status |-> "absent", version |-> 0]
    /\ execution = [status |-> "absent", version |-> 0]
    /\ wf = [status |-> "absent", next |-> "null", steps |-> {}, version |-> 0]
    /\ person = "present"
    /\ hold = "none"
    /\ unseen = {}
    /\ clock = "recovery"
    /\ job = NoJob
    /\ pc = [r \in Runs |-> "idle"]
    /\ snap = [r \in Runs |-> 0]
    /\ found = [r \in Runs |-> {}]
    /\ confirm = "idle"
    /\ cancel = "idle"
    /\ turn = [t \in Turns |-> "idle"]
    /\ cache = {}
    /\ index = {}
    /\ kept = {}
    /\ faults = 0

Fault == faults < MaxFaults /\ faults' = faults + 1

\* A run holds the execution row's lock between its SELECT FOR UPDATE and the
\* end of its transaction.
Holding(r) == pc[r] \in {"blocking", "deleting"}
ExecutionLocked == \E r \in Runs : Holding(r)

\* A cancellation in progress holds the request row's lock; "granted" says that
\* it has the execution row's too.
Cancelling == cancel \in {"locked", "granted"}

-----------------------------------------------------------------------------
(* The API: requesting and confirming                                      *)

\* startPrivacyRequest.
StartPrivacyRequest ==
    /\ request.status = "absent"
    /\ request' = [status |-> "identity-verification", version |-> 1]
    /\ wf' = [status |-> "pending", next |-> "identity-verification",
              steps |-> {}, version |-> 1]
    /\ UNCHANGED <<execution, person, holdVars, clock, job, runVars, clientVars,
                   cacheVars, faults>>

\* confirmPrivacyDeletion's transaction.
ConfirmPrivacyDeletion ==
    /\ confirm = "idle"
    /\ request.status = "identity-verification"
    /\ request' = [status |-> "recovery-period", version |-> request.version + 1]
    /\ wf' = [status |-> "pending", next |-> "active-system",
              steps |-> {"identity-verification"}, version |-> wf.version + 1]
    /\ execution' = [status |-> "recovery-period", version |-> 1]
    /\ confirm' = "committed"
    /\ UNCHANGED <<person, holdVars, clock, job, runVars, cancel, cacheVars, faults>>

\* The job is added with the rest of the recovery period as its delay.
EnqueueWorkflow ==
    /\ confirm = "committed"
    /\ job' = Added(job, "delayed")
    /\ confirm' = "done"
    /\ UNCHANGED <<rowVars, person, holdVars, clock, runVars, cancel, cacheVars,
                   faults>>

\* The request dies after its transaction, before or after the job is added.
ConfirmFails ==
    /\ confirm \in {"committed", "done"}
    /\ Fault
    /\ confirm' = "failed"
    /\ UNCHANGED <<rowVars, person, holdVars, clock, job, runVars, cancel, cacheVars>>

\* The client repeats the request with its idempotency key: the stored response
\* is replayed and the job is added again.
RetryConfirm ==
    /\ confirm = "failed"
    /\ confirm' = "committed"
    /\ UNCHANGED <<rowVars, person, holdVars, clock, job, runVars, cancel, cacheVars,
                   faults>>

-----------------------------------------------------------------------------
(* The API: cancelling                                                     *)

\* Mutant: a request can be cancelled whatever has become of it.
CancellableAlways == request.status # "absent"

\* The WHERE clause of cancelPrivacyDeletion's first update.
Cancellable == request.status = "recovery-period"

\* The first update takes the request row's lock.
LockRequest ==
    /\ cancel = "idle"
    /\ Cancellable
    /\ cancel' = "locked"
    /\ UNCHANGED <<rowVars, person, holdVars, clock, job, runVars, confirm, cacheVars,
                   faults>>

\* The other updates and the commit, once the execution row is free.
CancelPrivacyDeletion ==
    /\ Cancelling
    /\ ~ExecutionLocked
    /\ execution.status = "recovery-period"
    /\ wf.status # "completed"
    /\ request' = [status |-> "cancelled", version |-> request.version + 1]
    /\ execution' = [status |-> "cancelled", version |-> execution.version + 1]
    /\ wf' = [status |-> "completed", next |-> "null",
              steps |-> wf.steps \cup {"cancelled"}, version |-> wf.version + 1]
    /\ cancel' = "committed"
    /\ UNCHANGED <<person, holdVars, clock, job, runVars, confirm, cacheVars, faults>>

\* The connection breaks: the transaction is rolled back.
CancelRollsBack ==
    /\ Cancelling
    /\ Fault
    /\ cancel' = "idle"
    /\ UNCHANGED <<rowVars, person, holdVars, clock, job, runVars, confirm, cacheVars>>

\* getJob and remove, which refuses a job that a worker has locked.
RemoveJob ==
    /\ cancel = "committed"
    /\ job.state # "active"
    /\ job' = NoJob
    /\ cancel' = "done"
    /\ UNCHANGED <<rowVars, person, holdVars, clock, runVars, confirm, cacheVars,
                   faults>>

\* The removal is refused, or the request dies before or after it.
CancelFails ==
    /\ \/ cancel = "committed" /\ job.state = "active" /\ UNCHANGED faults
       \/ cancel \in {"committed", "done"} /\ Fault
    /\ cancel' = "failed"
    /\ UNCHANGED <<rowVars, person, holdVars, clock, job, runVars, confirm, cacheVars>>

\* The client repeats the request; the stored response is replayed.
RetryCancel ==
    /\ cancel = "failed"
    /\ cancel' = "committed"
    /\ UNCHANGED <<rowVars, person, holdVars, clock, job, runVars, confirm, cacheVars,
                   faults>>

\* Each transaction waits for the other's row: PostgreSQL aborts one of them,
\* and an aborted run's row goes to the cancellation that waits for it.
DeadlockDetected(r) ==
    /\ cancel = "locked"
    /\ Holding(r)
    /\ \/ cancel' = "idle" /\ UNCHANGED pc
       \/ cancel' = "granted" /\ pc' = [pc EXCEPT ![r] = "throw"]
    /\ UNCHANGED <<rowVars, person, holdVars, clock, job, snap, found, confirm,
                   cacheVars, faults>>

-----------------------------------------------------------------------------
(* Time, legal holds and AI turns                                          *)

\* The worker's clock passes recovery_until.
RecoveryElapses ==
    /\ execution.status # "absent"
    /\ clock = "recovery"
    /\ clock' = "elapsed"
    /\ UNCHANGED <<rowVars, person, holdVars, job, runVars, clientVars, cacheVars,
                   faults>>

\* A hold is recorded.  It starts now, after the "now" of runs at work, or at
\* an earlier time.
PlaceHold ==
    /\ hold = "none"
    /\ hold' = "active"
    /\ unseen' \in {{}, {r \in Runs : pc[r] \in {"purgeList", "purge", "lock"}}}
    /\ UNCHANGED <<rowVars, person, clock, job, runVars, clientVars, cacheVars, faults>>

ReleaseHold ==
    /\ hold = "active"
    /\ hold' = "none"
    /\ unseen' = {}
    /\ UNCHANGED <<rowVars, person, clock, job, runVars, clientVars, cacheVars, faults>>

\* The interview route's checks need a session, a grant and an entitlement: a
\* deleted person has none of them; for the others they may pass.
MayAsk == person = "present"

\* runAiInterview looks for the turn's key in the process's map, whose answer
\* changes nothing more; then in the Redis cache; then it calls the provider.
BeginTurn(t) ==
    /\ turn[t] \notin {"asking", "cached"}
    /\ MayAsk
    /\ t \notin kept
    /\ turn' = [turn EXCEPT ![t] = IF t \in cache THEN "cached" ELSE "asking"]
    /\ UNCHANGED <<rowVars, person, holdVars, clock, job, runVars, clientVars, cache,
                   index, kept, faults>>

\* The answer is cached and indexed under the household's scope.
CacheAnswer(t) ==
    /\ turn[t] = "asking"
    /\ turn' = [turn EXCEPT ![t] = "cached"]
    /\ cache' = cache \cup {t}
    /\ index' = index \cup {t}
    /\ UNCHANGED <<rowVars, person, holdVars, clock, job, runVars, clientVars, kept, faults>>

\* The process keeps the answer, too, and gives it.
KeepAnswer(t) ==
    /\ turn[t] = "cached"
    /\ turn' = [turn EXCEPT ![t] = "answered"]
    /\ kept' = kept \cup {t}
    /\ UNCHANGED <<rowVars, person, holdVars, clock, job, runVars, clientVars, cache,
                   index, faults>>

\* The gateway refuses the content, the provider fails, or its answer does not
\* pass the schema: execute throws, and nothing is cached.  Or the process dies.
TurnFails(t) ==
    /\ turn[t] \in {"asking", "cached"}
    /\ turn' = [turn EXCEPT ![t] = "failed"]
    /\ UNCHANGED <<rowVars, person, holdVars, clock, job, runVars, clientVars, cache,
                   index, kept, faults>>

\* The map drops its oldest answer past 1000, or ends with its process.  It has
\* no time to live, and no purge reaches it.
DropAnswer(t) ==
    /\ t \in kept
    /\ kept' = kept \ {t}
    /\ UNCHANGED <<rowVars, person, holdVars, clock, job, runVars, clientVars, turn, cache,
                   index, faults>>

\* Mutant: entries are set without a time to live.
CacheKeeps(t) == FALSE /\ UNCHANGED vars

\* The entry's time to live ends; that of the index is renewed with every entry
\* and ends with the last one.
CacheExpires(t) ==
    /\ t \in cache
    /\ cache' = cache \ {t}
    /\ index' = IF index \cap cache' = {} THEN {} ELSE index
    /\ UNCHANGED <<rowVars, person, holdVars, clock, job, runVars, clientVars, turn,
                   kept, faults>>

-----------------------------------------------------------------------------
(* The queue                                                               *)

\* The delay ends: not before the recovery period by the API's clock, which
\* the worker's may lag behind.
Promote ==
    /\ job.state = "delayed"
    /\ clock = "elapsed" \/ ClockSkew
    /\ job' = [job EXCEPT !.state = "waiting"]
    /\ UNCHANGED <<rowVars, person, holdVars, clock, runVars, clientVars, cacheVars,
                   faults>>

TakeJob(r) ==
    /\ job.state = "waiting"
    /\ pc[r] = "idle"
    /\ job' = Taken(job, r)
    /\ pc' = [pc EXCEPT ![r] = "read"]
    /\ UNCHANGED <<rowVars, person, holdVars, clock, snap, found, clientVars,
                   cacheVars, faults>>

\* The lock of a dead run expires, or that of a live one, which goes on.
StallDead ==
    /\ job.state = "active"
    /\ pc[job.owner] = "end"
    /\ job' = Stalled(job)
    /\ UNCHANGED <<rowVars, person, holdVars, clock, runVars, clientVars, cacheVars,
                   faults>>

StallLive ==
    /\ job.state = "active"
    /\ pc[job.owner] # "end"
    /\ Fault
    /\ job' = Stalled(job)
    /\ UNCHANGED <<rowVars, person, holdVars, clock, runVars, clientVars, cacheVars>>

\* removeOnComplete and removeOnFail: an ended job is forgotten in the end, and a
\* repeated confirmation can then add it again.
ForgetJob ==
    /\ Forgotten(job, job')
    /\ UNCHANGED <<rowVars, person, holdVars, clock, runVars, clientVars, cacheVars,
                   faults>>

RunReturns(r) ==
    /\ pc[r] = "return"
    /\ pc' = [pc EXCEPT ![r] = "end"]
    /\ job' = Resolved(job, r)
    /\ UNCHANGED <<rowVars, person, holdVars, clock, snap, found, clientVars,
                   cacheVars, faults>>

RunThrows(r) ==
    /\ pc[r] = "throw"
    /\ pc' = [pc EXCEPT ![r] = "end"]
    /\ job' = Rejected(job, r)
    /\ UNCHANGED <<rowVars, person, holdVars, clock, snap, found, clientVars,
                   cacheVars, faults>>

\* The worker process dies; PostgreSQL rolls its transaction back.
Crash(r) ==
    /\ pc[r] \notin {"idle", "end"}
    /\ Fault
    /\ pc' = [pc EXCEPT ![r] = "end"]
    /\ UNCHANGED <<rowVars, person, holdVars, clock, job, snap, found, clientVars,
                   cacheVars>>

-----------------------------------------------------------------------------
(* The worker                                                              *)

\* Where a run goes when a call fails: there is no catch block.
AfterFailure(l) == "throw"

\* A call fails without an effect, or its transaction is rolled back.
CallFails(r) ==
    /\ pc[r] \in WorkLabels
    /\ Fault
    /\ pc' = [pc EXCEPT ![r] = AfterFailure(@)]
    /\ UNCHANGED <<rowVars, person, holdVars, clock, job, snap, found, clientVars,
                   cacheVars>>

\* Mutant: the worker does not look at the recovery period.
DeletionBranchIgnoresTime ==
    IF execution.status = "recovery-period" THEN "purgeList" ELSE "return"

\* The handler's early return and its check of the recovery period.
DeletionBranch ==
    CASE execution.status # "recovery-period" -> "return"
      [] execution.status = "recovery-period" /\ clock = "recovery" -> "throw"
      [] OTHER -> "purgeList"

\* getPrivacyDeletionInput, and the "now" the run will use from here on.
GetPrivacyDeletionInput(r) ==
    /\ pc[r] = "read"
    /\ snap' = [snap EXCEPT ![r] = execution.version]
    /\ pc' = [pc EXCEPT ![r] = DeletionBranch]
    /\ UNCHANGED <<rowVars, person, holdVars, clock, job, found, clientVars,
                   cacheVars, faults>>

\* purgeScope lists the index and then deletes what it has listed, and the
\* index with it.
PurgeList(r) ==
    /\ pc[r] = "purgeList"
    /\ found' = [found EXCEPT ![r] = index]
    /\ pc' = [pc EXCEPT ![r] = "purge"]
    /\ UNCHANGED <<rowVars, person, holdVars, clock, job, snap, clientVars,
                   cacheVars, faults>>

PurgeScope(r) ==
    /\ pc[r] = "purge"
    /\ cache' = cache \ found[r]
    /\ index' = {}
    /\ pc' = [pc EXCEPT ![r] = "lock"]
    /\ UNCHANGED <<rowVars, person, holdVars, clock, job, snap, found, clientVars,
                   turn, kept, faults>>

\* Mutant: the completion trusts what the handler has read.
CurrentAlways(r) == TRUE

\* The execution is as the handler has read it.
ExecutionCurrent(r) ==
    execution.version = snap[r] /\ execution.status = "recovery-period"

\* completePrivacyDeletionActiveSystem locks the execution row, checks it, and
\* looks for holds that had started by the handler's "now".
LockExecution(r) ==
    /\ pc[r] = "lock"
    /\ ~ExecutionLocked
    /\ cancel # "granted"
    /\ pc' = [pc EXCEPT ![r] =
                CASE ~ExecutionCurrent(r) -> "throw"
                  [] ExecutionCurrent(r) /\ hold = "active" /\ r \notin unseen -> "blocking"
                  [] OTHER -> "deleting"]
    /\ UNCHANGED <<rowVars, person, holdVars, clock, job, snap, found, clientVars,
                   cacheVars, faults>>

\* The commit succeeded, or it did and its answer was lost.
Committed(r) ==
    \/ pc' = [pc EXCEPT ![r] = "return"] /\ UNCHANGED faults
    \/ pc' = [pc EXCEPT ![r] = "throw"] /\ Fault

\* A hold applies: all three rows say so, once the request row is free.
BlockForHold(r) ==
    /\ pc[r] = "blocking"
    /\ ~Cancelling
    /\ execution' = [status |-> "blocked-legal-hold", version |-> execution.version + 1]
    /\ request' = [status |-> "blocked-legal-hold", version |-> request.version + 1]
    /\ wf' = [status |-> "running", next |-> "legal-hold-review",
              steps |-> wf.steps, version |-> wf.version + 1]
    /\ Committed(r)
    /\ UNCHANGED <<person, holdVars, clock, job, snap, found, clientVars, cacheVars>>

\* The account goes: grants, memberships, sessions and the people row.
DeleteActiveSystem(r) ==
    /\ pc[r] = "deleting"
    /\ ~Cancelling
    /\ person' = "deleted"
    /\ execution' = [status |-> "awaiting-review", version |-> execution.version + 1]
    /\ request' = [status |-> "awaiting-review", version |-> request.version + 1]
    /\ wf' = [status |-> "running", next |-> "shared-data-review",
              steps |-> wf.steps \cup {"active-system"}, version |-> wf.version + 1]
    /\ Committed(r)
    /\ UNCHANGED <<holdVars, clock, job, snap, found, clientVars, cacheVars>>

-----------------------------------------------------------------------------
ConfirmStep ==
    \/ StartPrivacyRequest \/ ConfirmPrivacyDeletion \/ EnqueueWorkflow
    \/ ConfirmFails \/ RetryConfirm

CancelStep ==
    \/ LockRequest \/ CancelPrivacyDeletion \/ CancelRollsBack \/ RemoveJob
    \/ CancelFails \/ RetryCancel

\* The steps a worker run takes on its own when nothing fails.
RunStep(r) ==
    \/ TakeJob(r) \/ GetPrivacyDeletionInput(r) \/ PurgeList(r) \/ PurgeScope(r)
    \/ LockExecution(r) \/ BlockForHold(r) \/ DeleteActiveSystem(r)
    \/ RunReturns(r) \/ RunThrows(r)

TurnStep(t) ==
    \/ BeginTurn(t) \/ CacheAnswer(t) \/ KeepAnswer(t) \/ TurnFails(t)
    \/ CacheExpires(t) \/ DropAnswer(t)

Next ==
    \/ ConfirmStep \/ CancelStep
    \/ RecoveryElapses \/ PlaceHold \/ ReleaseHold
    \/ \E t \in Turns : TurnStep(t)
    \/ Promote \/ StallDead \/ StallLive \/ ForgetJob
    \/ \E r \in Runs : RunStep(r) \/ CallFails(r) \/ Crash(r) \/ DeadlockDetected(r)

Spec == Init /\ [][Next]_vars

-----------------------------------------------------------------------------
(* Safety                                                                  *)

\* What the workflow row says of a request in each status.
WorkflowOf(status) ==
    CASE status = "absent" -> [status |-> "absent", next |-> "null"]
      [] status = "identity-verification" ->
            [status |-> "pending", next |-> "identity-verification"]
      [] status = "recovery-period" -> [status |-> "pending", next |-> "active-system"]
      [] status = "cancelled" -> [status |-> "completed", next |-> "null"]
      [] status = "blocked-legal-hold" ->
            [status |-> "running", next |-> "legal-hold-review"]
      [] OTHER -> [status |-> "running", next |-> "shared-data-review"]

\* The rows of request, execution and workflow tell one story, although
\* cancellation and completion write them in opposite orders and the updates
\* of the completion carry no condition of their own; and the account is gone
\* exactly when they say so.
RowsAgree ==
    /\ IF request.status \in {"absent", "identity-verification"}
       THEN execution.status = "absent" ELSE execution.status = request.status
    /\ wf.status = WorkflowOf(request.status).status
    /\ wf.next = WorkflowOf(request.status).next
    /\ person = "deleted" <=> request.status = "awaiting-review"

\* A client that was told its deletion is cancelled keeps the account,
\* whatever the job that could not be removed, a repeated confirmation or a
\* run that had already started do.
CancelledNeverDeleted ==
    cancel \in {"committed", "done", "failed"} =>
        request.status = "cancelled" /\ person = "present"

\* A cancellation that has locked the request finds the execution and the
\* workflow as it needs them when the execution row is free: it never gets as
\* far as "execution cancellation conflict" or "workflow cancellation conflict".
CancelFindsItsRows ==
    Cancelling /\ ~ExecutionLocked =>
        execution.status = "recovery-period" /\ wf.status # "completed"

\* Once the account is gone no answer about the person comes to the shared cache
\* but those of turns that were with the provider at the time, and no turn joins
\* them: their session, grant and consent checks are behind them.
Asking == {t \in Turns : turn[t] = "asking"}
LastAnswers ==
    [][person = "deleted" =>
         /\ person' = "deleted"
         /\ Asking' \subseteq Asking
         /\ cache' \subseteq cache \cup Asking]_vars

\* No account is removed before its recovery period has elapsed by the
\* worker's clock, from any state but a confirmed, uncancelled request, or
\* under a cancellation in progress.
DeletionIsDue ==
    [][person' # person =>
         /\ clock = "elapsed"
         /\ request.status = "recovery-period"
         /\ "identity-verification" \in wf.steps
         /\ cancel = "idle"]_vars

-----------------------------------------------------------------------------
(* The abstract life of the request                                        *)

\* The stage that the rows tell together, if they do.
Stage ==
    IF /\ RowsAgree
       /\ request.status \in {"absent", "identity-verification"}
            \/ "identity-verification" \in wf.steps
    THEN request.status ELSE "torn"

Lifecycle == INSTANCE DeletionLifecycle
                WITH stage <- Stage, elapsed <- clock = "elapsed", account <- person

\* Whatever clients, overlapping runs, deadlocks, clocks, holds and failures do,
\* the request goes through the stages of DeletionLifecycle: each row of the three
\* moves with the others, the account goes in the one step that says so, after the
\* verification and the whole recovery period, and never once a cancellation has
\* been committed.
ImplementsDeletion == Lifecycle!Spec

-----------------------------------------------------------------------------
(* The inductive invariant behind the safety properties                    *)

\* What clients and runs know at each of their steps.
ClientKnows ==
    /\ Cancelling => request.status = "recovery-period"
    /\ cancel = "granted" => ~ExecutionLocked
    /\ request.status \notin {"absent", "identity-verification"}
         => "identity-verification" \in wf.steps
    /\ request.status = "cancelled" => cancel \in {"committed", "done", "failed"}

RunKnows ==
    /\ \A r \in Runs :
         /\ pc[r] \in {"purgeList", "purge", "lock", "blocking", "deleting"}
              => clock = "elapsed"
         /\ Holding(r) => execution.status = "recovery-period"
    /\ \A q, r \in Runs : Holding(q) /\ Holding(r) => q = r

IInv ==
    /\ TypeOK /\ RowsAgree /\ CancelledNeverDeleted
    /\ ClientKnows /\ RunKnows

-----------------------------------------------------------------------------
(* Liveness                                                                *)

\* Workers, the queue, the database and time go on, and entries of the cache
\* expire.  PostgreSQL gives a freed row to whoever waits for it, so a run that
\* waits for the request row is not overtaken for ever.  Clients, holds and
\* failures are not fair.
FairSpec ==
    /\ Spec
    /\ \A r \in Runs : /\ WF_vars(RunStep(r)) /\ WF_vars(DeadlockDetected(r))
                       /\ SF_vars(BlockForHold(r) \/ DeleteActiveSystem(r))
    /\ WF_vars(StallDead) /\ WF_vars(Promote) /\ WF_vars(RecoveryElapses)
    /\ WF_vars(CancelPrivacyDeletion)
    /\ \A t \in Turns : WF_vars(CacheExpires(t))

\* A confirmed deletion whose job was queued is carried out, stopped by a hold
\* or cancelled after any single failure; the deadlock of a cancellation with
\* the worker is resolved and does not use up the job.
ConfirmedDeletionEnds ==
    (job.state # "absent" /\ request.status = "recovery-period")
        ~> (request.status \in Fates)

\* Answers about a deleted person that slipped past the purge of the Redis cache,
\* or were with the provider when it ran, are gone from it for good in the end.
\* (The process's map promises nothing of the kind: see DropAnswer.)
SharedCacheForgets == (person = "deleted") ~> [](cache = {})

-----------------------------------------------------------------------------
(* What the repository expects and the code does not guarantee             *)

\* "fail-closed legal holds": no account is removed while a hold is active.
HoldStopsDeletion == [][person' # person => hold = "none"]_vars
=============================================================================
