----------------------------- MODULE VaultJobs ------------------------------
(***************************************************************************)
(* The vault's other background work: portable exports, reports, and the   *)
(* e-mail that announces an annual review.  The API starts an export in    *)
(* one transaction and queues it on every repetition of the request; it    *)
(* starts a report in three steps, once.  Each job may be executed more    *)
(* than once, also by two runs at a time; the archive of an export is kept *)
(* under one name, and the e-mail under one key at the provider.           *)
(***************************************************************************)
EXTENDS WorkflowQueue, FiniteSets

CONSTANTS
    Exports, Reports,
    Documents,   \* the household's documents
    MaxStarted,  \* bound on the exports and reports that are started
    MaxFaults    \* bound on failed calls, crashes and lost locks

ASSUME JobsAssumption ==
    /\ Exports \cap Reports = {}
    /\ None \notin Exports \cup Reports \cup Documents
    /\ MaxStarted \in Nat /\ MaxFaults \in Nat

VARIABLES
    row,        \* exports and reports: status and, once complete, the run that built it
    wf,         \* workflow_runs: the status of each one's workflow
    kind,       \* of a report
    archive,    \* per export: the run whose archive the object store holds
    delivery,   \* per report: the notification_deliveries row
    emails,     \* what the provider has sent: the report and the key of each e-mail
    file,       \* per document: whether it is clean, and whether its original is stored
    unbacked,   \* whether a confirmed fact has no evidence
    consent,    \* whether the requester's consent to e-mail is active
    key,        \* per report: its idempotency record
    api,        \* per export and report: the step of the request that starts it
    told,       \* exports and reports whose request was answered 202
    job,        \* per job of the queue
    pc,         \* per execution of a job: its step
    held,       \* per execution: the documents it has to fetch, or its delivery's id
    expired,    \* jobs whose lock expired under a live run
    faults

recordVars == <<row, wf, kind, delivery>>
storeVars == <<archive, emails>>
worldVars == <<file, unbacked, consent>>
requestVars == <<key, api, told>>
runVars == <<pc, held>>
vars == <<row, wf, kind, archive, delivery, emails, file, unbacked, consent, key, api, told,
          job, pc, held, expired, faults>>

Work == Exports \cup Reports
JobNames == {"privacy-export", "report-generate", "notification-send"}

\* A job is known by its workflow, and the notification's has a suffix.
NameOf(w) == IF w \in Exports THEN "privacy-export" ELSE "report-generate"
JobOf(w) == <<w, NameOf(w)>>
NoteOf(r) == <<r, "notification-send">>
Jobs == {JobOf(w) : w \in Work} \cup {NoteOf(r) : r \in Reports}
Executions == Jobs \X Runs

Builders == Runs \cup {None}
Row == [status : {"absent", "pending", "completed"}, by : Builders]
Delivery == [id : Builders, status : {"absent", "pending", "failed", "sent"}, message : Builders]
Held == [fetch : SUBSET Documents, id : Builders]
WorkLabels == {"read", "fetch", "complete", "announce", "send", "settle", "recordFailure"}
Labels == WorkLabels \cup {"idle", "return", "throw", "end"}

TypeOK ==
    /\ row \in [Work -> Row]
    /\ wf \in [Work -> {"absent", "pending", "completed"}]
    /\ kind \in [Reports -> {"annual-review", "report"}]
    /\ archive \in [Exports -> Builders]
    /\ delivery \in [Reports -> Delivery]
    /\ emails \in SUBSET (Reports \X Runs)
    /\ file \in [Documents -> {"absent", "stored", "deleted"}]
    /\ unbacked \in BOOLEAN /\ consent \in BOOLEAN
    /\ key \in [Reports -> {"free", "reserved", "answered"}]
    /\ api \in [Work -> {"idle", "start", "enqueue", "store"}]
    /\ told \in SUBSET Work
    /\ job \in [Jobs -> Job]
    /\ pc \in [Executions -> Labels]
    /\ held \in [Executions -> Held]
    /\ expired \in SUBSET Jobs
    /\ faults \in Nat

NoRow == [status |-> "absent", by |-> None]
NoDelivery == [id |-> None, status |-> "absent", message |-> None]

Init ==
    /\ row = [w \in Work |-> NoRow]
    /\ wf = [w \in Work |-> "absent"]
    /\ kind \in [Reports -> {"annual-review", "report"}]
    /\ archive = [e \in Exports |-> None]
    /\ delivery = [r \in Reports |-> NoDelivery]
    /\ emails = {}
    /\ file = [d \in Documents |-> "absent"]
    /\ unbacked = FALSE
    /\ consent = TRUE
    /\ key = [r \in Reports |-> "free"]
    /\ api = [w \in Work |-> "idle"]
    /\ told = {}
    /\ job = [j \in Jobs |-> NoJob]
    /\ pc = [x \in Executions |-> "idle"]
    /\ held = [x \in Executions |-> [fetch |-> {}, id |-> None]]
    /\ expired = {}
    /\ faults = 0

Fault == faults < MaxFaults /\ faults' = faults + 1

-----------------------------------------------------------------------------
(* The household                                                           *)

\* A document has passed its scan and is clean.
AddDocument(d) ==
    /\ file[d] = "absent"
    /\ file' = [file EXCEPT ![d] = "stored"]
    /\ UNCHANGED <<recordVars, storeVars, unbacked, consent, requestVars, job, runVars, expired,
                   faults>>

\* The original is deleted after processing, as its owner chose; the row is clean.
DeleteOriginal(d) ==
    /\ file[d] = "stored"
    /\ file' = [file EXCEPT ![d] = "deleted"]
    /\ UNCHANGED <<recordVars, storeVars, unbacked, consent, requestVars, job, runVars, expired,
                   faults>>

\* A manual fact without evidence is confirmed, or is disputed again.
DecideManualFact ==
    /\ unbacked' = ~unbacked
    /\ UNCHANGED <<recordVars, storeVars, file, consent, requestVars, job, runVars, expired,
                   faults>>

\* The requester withdraws the consent to e-mail, or gives it again.
DecideConsent ==
    /\ consent' = ~consent
    /\ UNCHANGED <<recordVars, storeVars, file, unbacked, requestVars, job, runVars, expired,
                   faults>>

-----------------------------------------------------------------------------
(* The API                                                                 *)

Started == {e \in Exports : row[e].status # "absent"} \cup {r \in Reports : key[r] # "free"}
Room(w) == Cardinality(Started \cup {w}) <= MaxStarted

Pending(w) ==
    /\ row' = [row EXCEPT ![w].status = "pending"]
    /\ wf' = [wf EXCEPT ![w] = "pending"]

\* Mutant: a report is answered before it is queued.
AnsweredFirst(w) == IF w \in Reports THEN "store" ELSE "enqueue"

\* What follows the transaction, also when it found the key's response.
AfterStart(w) == "enqueue"

\* The key, the rows and the response are stored in one transaction; a repetition
\* finds them.
StartPortableExport(e) ==
    /\ api[e] = "idle"
    /\ Room(e)
    /\ api' = [api EXCEPT ![e] = AfterStart(e)]
    /\ IF row[e].status = "absent" THEN Pending(e) ELSE UNCHANGED <<row, wf>>
    /\ UNCHANGED <<kind, delivery, storeVars, worldVars, key, told, job, runVars, expired, faults>>

\* A repetition of a report's request is answered from its record, which says
\* "processing" until it has an answer; it changes nothing.
ReserveReport(r) ==
    /\ api[r] = "idle"
    /\ key[r] = "free"
    /\ Room(r)
    /\ key' = [key EXCEPT ![r] = "reserved"]
    /\ api' = [api EXCEPT ![r] = "start"]
    /\ UNCHANGED <<recordVars, storeVars, worldVars, told, job, runVars, expired, faults>>

StartReport(r) ==
    /\ api[r] = "start"
    /\ Pending(r)
    /\ api' = [api EXCEPT ![r] = AfterStart(r)]
    /\ UNCHANGED <<kind, delivery, storeVars, worldVars, key, told, job, runVars, expired, faults>>

\* enqueueWorkflow; an export's request is then answered.
Enqueue(w) ==
    /\ api[w] = "enqueue"
    /\ job' = [job EXCEPT ![JobOf(w)] = Added(@, "waiting")]
    /\ api' = [api EXCEPT ![w] = IF w \in Exports THEN "idle" ELSE "store"]
    /\ told' = IF w \in Exports THEN told \cup {w} ELSE told
    /\ UNCHANGED <<recordVars, storeVars, worldVars, key, runVars, expired, faults>>

\* completeIdempotency of a report's request, and its answer.
StoreAnswer(r) ==
    /\ api[r] = "store"
    /\ key' = [key EXCEPT ![r] = "answered"]
    /\ told' = told \cup {r}
    /\ api' = [api EXCEPT ![r] = "idle"]
    /\ UNCHANGED <<recordVars, storeVars, worldVars, job, runVars, expired, faults>>

\* A call fails or the process dies: the client has no answer.
RequestFails(w) ==
    /\ api[w] # "idle"
    /\ Fault
    /\ api' = [api EXCEPT ![w] = "idle"]
    /\ UNCHANGED <<recordVars, storeVars, worldVars, key, told, job, runVars, expired>>

-----------------------------------------------------------------------------
(* The queue and its runs                                                  *)

Subject(x) == x[1][1]
Run(x) == x[2]
At(x, name, label) == x[1][2] = name /\ pc[x] = label
Goes(x, label) == pc' = [pc EXCEPT ![x] = label]

\* createWorkflowWorker runs the handler of the job's name.
TakeJob(x) ==
    /\ job[x[1]].state = "waiting"
    /\ pc[x] = "idle"
    /\ job' = [job EXCEPT ![x[1]] = Taken(@, Run(x))]
    /\ Goes(x, "read")
    /\ UNCHANGED <<recordVars, storeVars, worldVars, requestVars, held, expired, faults>>

\* The lock of a dead run expires, or that of a live one, which goes on.
StallDead(j) ==
    /\ job[j].state = "active"
    /\ pc[<<j, job[j].owner>>] = "end"
    /\ job' = [job EXCEPT ![j] = Stalled(@)]
    /\ UNCHANGED <<recordVars, storeVars, worldVars, requestVars, runVars, expired, faults>>

StallLive(j) ==
    /\ job[j].state = "active"
    /\ pc[<<j, job[j].owner>>] # "end"
    /\ Fault
    /\ job' = [job EXCEPT ![j] = Stalled(@)]
    /\ expired' = expired \cup {j}
    /\ UNCHANGED <<recordVars, storeVars, worldVars, requestVars, runVars>>

\* removeOnComplete and removeOnFail: an ended job is forgotten in the end, and a
\* repeated request can then add it again.
ForgetJob(j) ==
    /\ Forgotten(job[j], NoJob)
    /\ job' = [job EXCEPT ![j] = NoJob]
    /\ UNCHANGED <<recordVars, storeVars, worldVars, requestVars, runVars, expired, faults>>

RunReturns(x) ==
    /\ pc[x] = "return"
    /\ job' = [job EXCEPT ![x[1]] = Resolved(@, Run(x))]
    /\ Goes(x, "end")
    /\ UNCHANGED <<recordVars, storeVars, worldVars, requestVars, held, expired, faults>>

RunThrows(x) ==
    /\ pc[x] = "throw"
    /\ job' = [job EXCEPT ![x[1]] = Rejected(@, Run(x))]
    /\ Goes(x, "end")
    /\ UNCHANGED <<recordVars, storeVars, worldVars, requestVars, held, expired, faults>>

Crash(x) ==
    /\ pc[x] \notin {"idle", "end"}
    /\ Fault
    /\ Goes(x, "end")
    /\ UNCHANGED <<recordVars, storeVars, worldVars, requestVars, job, held, expired>>

\* A call of the handler fails; only the notification's has a catch.
CallFails(x) ==
    /\ pc[x] \in WorkLabels
    /\ Fault
    /\ Goes(x, IF pc[x] \in {"send", "settle"} THEN "recordFailure" ELSE "throw")
    /\ UNCHANGED <<recordVars, storeVars, worldVars, requestVars, job, held, expired>>

Completed(w) == row[w].status = "completed"

\* A row and its workflow are completed in one transaction.
Completes(w, run) ==
    /\ row' = [row EXCEPT ![w] = [status |-> "completed", by |-> run]]
    /\ wf' = [wf EXCEPT ![w] = "completed"]

-----------------------------------------------------------------------------
(* createPortableExportWorkflowHandler                                     *)

\* Mutant: a completed export is built again.
BuildsAgain(e) == "fetch"

\* "if (build.status === 'completed') return".
ExportBranch(e) == IF Completed(e) THEN "return" ELSE "fetch"

\* getPortableExportBuildInput: the export and every clean document, whether or
\* not its original is still stored.
GetPortableExportBuildInput(x) ==
    /\ At(x, "privacy-export", "read")
    /\ held' = [held EXCEPT ![x].fetch = {d \in Documents : file[d] # "absent"}]
    /\ Goes(x, ExportBranch(Subject(x)))
    /\ UNCHANGED <<recordVars, storeVars, worldVars, requestVars, job, expired, faults>>

\* getCiphertext of one document: the store has no object under a deleted key.
GetCiphertext(x, d) ==
    /\ At(x, "privacy-export", "fetch")
    /\ d \in held[x].fetch
    /\ held' = [held EXCEPT ![x].fetch = @ \ {d}]
    /\ Goes(x, IF file[d] = "stored" THEN "fetch" ELSE "throw")
    /\ UNCHANGED <<recordVars, storeVars, worldVars, requestVars, job, expired, faults>>

\* The archive of this run, which no other run can make again, replaces whatever
\* is stored under the export's name.
PutGeneratedExport(x) ==
    /\ At(x, "privacy-export", "fetch")
    /\ held[x].fetch = {}
    /\ archive' = [archive EXCEPT ![Subject(x)] = Run(x)]
    /\ Goes(x, "complete")
    /\ UNCHANGED <<recordVars, emails, worldVars, requestVars, job, held, expired, faults>>

\* "status<>'completed'".
ExportCurrent(e) == ~Completed(e)

\* completePortableExport; a second completion with another digest is a conflict.
CompletePortableExport(x) ==
    LET e == Subject(x)
    IN  /\ At(x, "privacy-export", "complete")
        /\ IF ExportCurrent(e) THEN Completes(e, Run(x)) ELSE UNCHANGED <<row, wf>>
        /\ Goes(x, IF ExportCurrent(e) THEN "return" ELSE "throw")
        /\ UNCHANGED <<kind, delivery, storeVars, worldVars, requestVars, job, held, expired,
                       faults>>

-----------------------------------------------------------------------------
(* createReportGenerationWorkflowHandler                                   *)

Announced(r) == IF kind[r] = "annual-review" THEN "announce" ELSE "return"

\* Mutant: a report found complete is not announced again.
AnnouncedOnce(r) == IF Completed(r) THEN "return" ELSE IF unbacked THEN "throw" ELSE "complete"

\* What follows the read: a completed review is announced once more, and a
\* confirmed fact without evidence fails assertReportProvenance.
ReportBranch(r) ==
    IF Completed(r) THEN Announced(r) ELSE IF unbacked THEN "throw" ELSE "complete"

\* getReportBuildInput and generateReport.
GetReportBuildInput(x) ==
    /\ At(x, "report-generate", "read")
    /\ Goes(x, ReportBranch(Subject(x)))
    /\ UNCHANGED <<recordVars, storeVars, worldVars, requestVars, job, held, expired, faults>>

\* Mutant: the payload of a completed report is replaced.
ReportAlwaysCurrent(r) == TRUE

\* "status='pending'".
ReportCurrent(r) == row[r].status = "pending"

\* completeReport; a report another run completed is left as it is.
CompleteReport(x) ==
    LET r == Subject(x)
    IN  /\ At(x, "report-generate", "complete")
        /\ IF ReportCurrent(r) THEN Completes(r, Run(x)) ELSE UNCHANGED <<row, wf>>
        /\ Goes(x, Announced(r))
        /\ UNCHANGED <<kind, delivery, storeVars, worldVars, requestVars, job, held, expired,
                       faults>>

EnqueueNotification(x) ==
    /\ At(x, "report-generate", "announce")
    /\ job' = [job EXCEPT ![NoteOf(Subject(x))] = Added(@, "waiting")]
    /\ Goes(x, "return")
    /\ UNCHANGED <<recordVars, storeVars, worldVars, requestVars, held, expired, faults>>

-----------------------------------------------------------------------------
(* createNotificationWorkflowHandler                                       *)

Eligible(r) == Completed(r) /\ kind[r] = "annual-review" /\ consent

\* Mutant: every reservation makes a new delivery.
ReservedAnew(d, run) == [d EXCEPT !.id = run, !.status = IF @ = "absent" THEN "pending" ELSE @]

\* The delivery's row, inserted or found: "on conflict ... do update set
\* workflow_id=excluded.workflow_id" keeps its id.
Reserved(d, run) ==
    IF d.status = "absent" THEN [d EXCEPT !.id = run, !.status = "pending"] ELSE d

GetNotificationDeliveryInput(x) ==
    LET r == Subject(x)
        d == Reserved(delivery[r], Run(x))
    IN  /\ At(x, "notification-send", "read")
        /\ IF Eligible(r)
           THEN /\ delivery' = [delivery EXCEPT ![r] = d]
                /\ held' = [held EXCEPT ![x].id = d.id]
                /\ Goes(x, IF d.status = "sent" THEN "return" ELSE "send")
           ELSE /\ Goes(x, "return")
                /\ UNCHANGED <<delivery, held>>
        /\ UNCHANGED <<row, wf, kind, storeVars, worldVars, requestVars, job, expired, faults>>

\* The provider sends one e-mail for an idempotency key, and gives a repetition
\* the message of the first.
Accept(x) == emails' = emails \cup {<<Subject(x), held[x].id>>}

SendEmail(x) ==
    /\ At(x, "notification-send", "send")
    /\ Accept(x)
    /\ Goes(x, "settle")
    /\ UNCHANGED <<recordVars, archive, worldVars, requestVars, job, held, expired, faults>>

\* The e-mail is accepted and every answer to the adapter's attempts is lost.
AnswerLost(x) ==
    /\ At(x, "notification-send", "send")
    /\ Fault
    /\ Accept(x)
    /\ Goes(x, "recordFailure")
    /\ UNCHANGED <<recordVars, archive, worldVars, requestVars, job, held, expired>>

\* completeNotificationDelivery; the message's identifier is its key's.
CompleteNotificationDelivery(x) ==
    LET d == delivery[Subject(x)]
    IN  /\ At(x, "notification-send", "settle")
        /\ delivery' = [delivery EXCEPT ![Subject(x)] =
                IF d.status = "sent" THEN d
                ELSE [d EXCEPT !.status = "sent", !.message = held[x].id]]
        /\ Goes(x, IF d.status # "sent" \/ d.message = held[x].id THEN "return"
                   ELSE "recordFailure")
        /\ UNCHANGED <<row, wf, kind, storeVars, worldVars, requestVars, job, held, expired, faults>>

\* "status<>'sent'".
Failed(d) == IF d.status = "sent" THEN d ELSE [d EXCEPT !.status = "failed"]

RecordNotificationDeliveryFailure(x) ==
    /\ At(x, "notification-send", "recordFailure")
    /\ delivery' = [delivery EXCEPT ![Subject(x)] = Failed(@)]
    /\ Goes(x, "throw")
    /\ UNCHANGED <<row, wf, kind, storeVars, worldVars, requestVars, job, held, expired, faults>>

-----------------------------------------------------------------------------
Handler(x) ==
    \/ GetPortableExportBuildInput(x)
    \/ \E d \in Documents : GetCiphertext(x, d)
    \/ PutGeneratedExport(x) \/ CompletePortableExport(x)
    \/ GetReportBuildInput(x) \/ CompleteReport(x) \/ EnqueueNotification(x)
    \/ GetNotificationDeliveryInput(x) \/ SendEmail(x) \/ CompleteNotificationDelivery(x)
    \/ RecordNotificationDeliveryFailure(x)

RunStep(x) == TakeJob(x) \/ Handler(x) \/ RunReturns(x) \/ RunThrows(x)

\* What the API does about a request it has taken.
Answering(w) ==
    \/ w \in Reports /\ (StartReport(w) \/ StoreAnswer(w))
    \/ Enqueue(w)

Next ==
    \/ \E d \in Documents : AddDocument(d) \/ DeleteOriginal(d)
    \/ DecideManualFact \/ DecideConsent
    \/ \E e \in Exports : StartPortableExport(e)
    \/ \E r \in Reports : ReserveReport(r)
    \/ \E w \in Work : Answering(w) \/ RequestFails(w)
    \/ \E j \in Jobs : StallDead(j) \/ StallLive(j) \/ ForgetJob(j)
    \/ \E x \in Executions : RunStep(x) \/ AnswerLost(x) \/ CallFails(x) \/ Crash(x)

Spec == Init /\ [][Next]_vars

-----------------------------------------------------------------------------
(* Safety                                                                  *)

\* What getPortableExport hands out: the digest of the row and, at the address it
\* signs, whatever archive the object store holds.
Download(e) == [digest |-> row[e].by, archive |-> archive[e]]

\* Wherever runs crash, fail or are repeated, the archive of a completed export has
\* the digest that is served with it.  A run that outlives its lock may overwrite
\* the archive, so its job is excepted.
ArchiveHasDigest ==
    \A e \in Exports : (Completed(e) /\ JobOf(e) \notin expired) =>
        Download(e).archive = Download(e).digest

\* An annual review is announced by one e-mail at most, even if its delivery is
\* repeated after a lost answer, by a run that crashed or by two at once; a delivery
\* that is recorded as sent was sent.
EmailSentOnce ==
    /\ \A m, n \in emails : m[1] = n[1] => m = n
    /\ \A r \in Reports : delivery[r].status = "sent" => <<r, delivery[r].message>> \in emails

\* The queue holds the job, or a worker has taken it before it was forgotten.
Known(j) == job[j].state # "absent" \/ \E run \in Runs : pc[<<j, run>>] # "idle"
Queued == {w \in Work : Known(JobOf(w))}

\* A client that is told its export or report was accepted has a job in the queue,
\* or had one that a worker took.
AnsweredIsQueued == told \subseteq Queued

\* A completed export or report keeps its content, and a sent delivery stays sent.
CompletedIsFinal ==
    [][/\ \A w \in Work : Completed(w) => row'[w] = row[w]
       /\ \A r \in Reports : delivery[r].status = "sent" => delivery'[r] = delivery[r]]_vars

\* An export or a report whose row and workflow agree, and the e-mail each delivery is
\* recorded to have sent.
Outcome(w) == IF wf[w] = row[w].status THEN row[w] ELSE None
SentAs(r) == IF delivery[r].status = "sent" THEN delivery[r].message ELSE None

Promise == INSTANCE VaultOutcome WITH
    outcome <- [w \in Work |-> Outcome(w)],
    queued <- Queued,
    sent <- [r \in Reports |-> SentAs(r)]

\* However jobs are repeated, overlap, lose their locks, fail and are retried, every
\* export and report is completed once, after it was queued, and only a completed
\* review is announced, by one e-mail.
ImplementsPromise == Promise!Spec

-----------------------------------------------------------------------------
(* Liveness                                                                *)

\* The API and the workers go on with what they have begun; no client has to repeat
\* a request.
FairSpec ==
    /\ Spec
    /\ \A w \in Work : WF_vars(Answering(w))
    /\ \A j \in Jobs : WF_vars(StallDead(j))
    /\ \A x \in Executions : WF_vars(RunStep(x))

JustQueued(w) == job[JobOf(w)] = Added(NoJob, "waiting")

\* A queued export or report is completed after any single failure; an export as long
\* as no original was deleted, a report as long as every confirmed fact has evidence.
QueuedWorkEnds ==
    /\ \A e \in Exports : JustQueued(e) ~>
            (Completed(e) \/ \E d \in Documents : file[d] = "deleted")
    /\ \A r \in Reports : JustQueued(r) ~> (Completed(r) \/ unbacked)

\* The e-mail on a queued annual review is sent after any single failure, also one
\* between the report's completion and the queueing of its announcement, as long
\* as the facts have evidence and the requester's consent stands.
QueuedReviewIsAnnounced ==
    \A r \in Reports : (JustQueued(r) /\ kind[r] = "annual-review")
        ~> (delivery[r].status = "sent" \/ unbacked \/ ~consent)

-----------------------------------------------------------------------------
(* What the documents say and the code does not keep                       *)

\* "INV-006: deletion and export are idempotent, resumable workflows": without any
\* failure, an export whose job is queued is completed.
ExportIsResumable ==
    \A e \in Exports : (job[JobOf(e)].state # "absent") ~> Completed(e)
=============================================================================
