-------------------------- MODULE VaultJobsProofs ---------------------------
(* Proofs for exports, reports and their announcements, for any sets of      *)
(* records, documents and worker runs and any bounds.                        *)
EXTENDS VaultJobs, WorkflowQueueProofs

-----------------------------------------------------------------------------
(* The inductive invariant, in three parts.                                  *)

\* A report's request takes its steps once and in order, and nobody is answered
\* before the job is in the queue.
RequestOrder ==
    /\ \A r \in Reports : key[r] = "free" => row[r].status = "absent" /\ api[r] = "idle"
    /\ \A r \in Reports : api[r] = "start" => row[r].status = "absent"
    /\ \A w \in Work : api[w] = "store" => w \in Queued
    /\ AnsweredIsQueued

\* A worker has taken a job that is active or has ended.
JobsAreTaken ==
    \A j \in Jobs : job[j].state = "active" \/ Ended(job[j]) =>
        \E run \in Runs : pc[<<j, run>>] # "idle"

Sending(x) == x[1][2] = "notification-send" /\ pc[x] \in {"send", "settle", "recordFailure"}

\* Every e-mail has its delivery's id for a key, and every run that sends one has it.
DeliveryKey ==
    /\ \A m \in emails : delivery[m[1]].status # "absent" /\ delivery[m[1]].id = m[2]
    /\ \A r \in Reports : delivery[r].status = "sent" => <<r, delivery[r].message>> \in emails
    /\ \A r \in Reports : delivery[r].status # "absent" => delivery[r].id \in Runs
    /\ \A x \in Executions : Sending(x) =>
          delivery[Subject(x)].status # "absent" /\ delivery[Subject(x)].id = held[x].id
    /\ \A x \in Executions : At(x, "notification-send", "settle") =>
          <<Subject(x), held[x].id>> \in emails

Live(x) == pc[x] \notin {"idle", "end"} /\ x[1] \notin expired

\* A live run whose job's lock never expired under it holds that lock, and an export
\* it is building is not complete.
OneBuilder ==
    /\ \A x \in Executions : Live(x) => job[x[1]].state = "active" /\ job[x[1]].owner = x[2]
    /\ \A x \in Executions : (Live(x) /\ x[1][2] = "privacy-export") =>
          /\ pc[x] \in {"fetch", "complete"} => ~Completed(Subject(x))
          /\ pc[x] = "complete" => archive[Subject(x)] = Run(x)
    /\ ArchiveHasDigest

IInv ==
    /\ TypeOK
    /\ JobsAreTaken
    /\ RequestOrder
    /\ DeliveryKey
    /\ OneBuilder

-----------------------------------------------------------------------------
\* An execution is a run of an export's, a report's or a notification's job.
LEMMA Shapes ==
    /\ \A w \in Work : JobOf(w) \in Jobs
    /\ \A r \in Reports : NoteOf(r) \in Jobs /\ JobOf(r)[2] = "report-generate"
    /\ \A e \in Exports : JobOf(e)[2] = "privacy-export"
    /\ Exports \subseteq Work /\ Reports \subseteq Work
    /\ \A x \in Executions :
          /\ x[1] \in Jobs /\ x[2] \in Runs /\ x = <<x[1], x[2]>>
          /\ x[1][2] = "privacy-export" => Subject(x) \in Exports /\ x[1] = JobOf(Subject(x))
          /\ x[1][2] = "report-generate" => Subject(x) \in Reports /\ x[1] = JobOf(Subject(x))
          /\ x[1][2] = "notification-send" => Subject(x) \in Reports /\ x[1] = NoteOf(Subject(x))
  <1>1. /\ \A w \in Work : JobOf(w) \in Jobs
        /\ \A r \in Reports : NoteOf(r) \in Jobs
        /\ Exports \subseteq Work /\ Reports \subseteq Work
    BY DEF Jobs, Work
  <1>2. \A r \in Reports : JobOf(r)[2] = "report-generate"
    BY JobsAssumption DEF JobOf, NameOf
  <1>3. \A e \in Exports : JobOf(e)[2] = "privacy-export"
    BY DEF JobOf, NameOf
  <1>4. ASSUME NEW x \in Executions
        PROVE  /\ x[1] \in Jobs /\ x[2] \in Runs /\ x = <<x[1], x[2]>>
               /\ x[1][2] = "privacy-export" => Subject(x) \in Exports /\ x[1] = JobOf(Subject(x))
               /\ x[1][2] = "report-generate" => Subject(x) \in Reports /\ x[1] = JobOf(Subject(x))
               /\ x[1][2] = "notification-send" => Subject(x) \in Reports /\ x[1] = NoteOf(Subject(x))
    <2>1. x[1] \in Jobs /\ x[2] \in Runs /\ x = <<x[1], x[2]>>
      BY DEF Executions
    <2>2. CASE \E w \in Work : x[1] = JobOf(w)
      BY <2>1, <2>2 DEF JobOf, NameOf, Work, Subject
    <2>3. CASE \E r \in Reports : x[1] = NoteOf(r)
      BY <2>1, <2>3 DEF NoteOf, Subject
    <2> QED
      BY <2>1, <2>2, <2>3 DEF Jobs
  <1> QED
    BY <1>1, <1>2, <1>3, <1>4

\* The initial states satisfy the inductive invariant.
LEMMA InitInv == Init => IInv
  <1> SUFFICES ASSUME Init PROVE IInv
    OBVIOUS
  <1> USE DEF Init
  <1>1. /\ NoRow \in Row /\ NoDelivery \in Delivery /\ NoJob \in Job
        /\ [fetch |-> {}, id |-> None] \in Held
    BY DEF NoRow, Row, NoDelivery, Delivery, NoJob, Job, Held, Builders
  <1>2. TypeOK
    BY <1>1 DEF TypeOK, Builders, Labels
  <1>3. RequestOrder
    BY DEF RequestOrder, AnsweredIsQueued, NoRow, Work
  <1>6. JobsAreTaken
    BY DEF JobsAreTaken, Ended, NoJob
  <1>4. DeliveryKey
    BY DEF DeliveryKey, NoDelivery, Sending, At
  <1>5. OneBuilder
    BY DEF OneBuilder, Live, ArchiveHasDigest, Completed, NoRow, Work
  <1> QED
    BY <1>2, <1>3, <1>4, <1>5, <1>6 DEF IInv

-----------------------------------------------------------------------------
(* Types                                                                     *)

\* What the household and the API do.
LEMMA RequestTypes ==
    ASSUME TypeOK,
           \/ \E d \in Documents : AddDocument(d) \/ DeleteOriginal(d)
           \/ DecideManualFact \/ DecideConsent
           \/ \E e \in Exports : StartPortableExport(e)
           \/ \E r \in Reports : ReserveReport(r)
           \/ \E w \in Work : Answering(w) \/ RequestFails(w)
    PROVE  TypeOK'
  <1> USE DEF TypeOK, recordVars, storeVars, worldVars, requestVars, runVars
  <1>0. /\ \A w \in Work : [row[w] EXCEPT !.status = "pending"] \in Row
        /\ \A w \in Work : Added(job[JobOf(w)], "waiting") \in Job
    <2>1. \A w \in Work : row[w] \in Row /\ job[JobOf(w)] \in Job
      BY Shapes
    <2>2. \A a \in Row : [a EXCEPT !.status = "pending"] \in Row
      BY DEF Row
    <2> QED
      BY <2>1, <2>2, JobOperations
  <1>1. ASSUME NEW d \in Documents, AddDocument(d) \/ DeleteOriginal(d)
        PROVE  TypeOK'
    BY <1>1 DEF AddDocument, DeleteOriginal
  <1>2. CASE DecideManualFact \/ DecideConsent
    BY <1>2 DEF DecideManualFact, DecideConsent
  <1>3. ASSUME NEW e \in Exports, StartPortableExport(e)
        PROVE  TypeOK'
    BY <1>0, <1>3, Shapes DEF StartPortableExport, Pending, AfterStart
  <1>4. ASSUME NEW r \in Reports, ReserveReport(r)
        PROVE  TypeOK'
    BY <1>4, Shapes DEF ReserveReport
  <1>5. ASSUME NEW r \in Reports, StartReport(r)
        PROVE  TypeOK'
    BY <1>0, <1>5, Shapes DEF StartReport, Pending, AfterStart
  <1>6. ASSUME NEW r \in Reports, StoreAnswer(r)
        PROVE  TypeOK'
    BY <1>6, Shapes DEF StoreAnswer
  <1>7. ASSUME NEW w \in Work, Enqueue(w)
        PROVE  TypeOK'
    <2>1. job' \in [Jobs -> Job]
      BY <1>0, <1>7, Shapes DEF Enqueue
    <2>2. api' \in [Work -> {"idle", "start", "enqueue", "store"}] /\ told' \in SUBSET Work
      BY <1>7 DEF Enqueue
    <2> QED
      BY <1>7, <2>1, <2>2 DEF Enqueue
  <1>8. ASSUME NEW w \in Work, RequestFails(w)
        PROVE  TypeOK'
    BY <1>8 DEF RequestFails, Fault
  <1> QED
    BY <1>1, <1>2, <1>3, <1>4, <1>5, <1>6, <1>7, <1>8 DEF Answering

\* What a run does with its job.
LEMMA QueueTypes ==
    ASSUME TypeOK, NEW x \in Executions,
           TakeJob(x) \/ RunReturns(x) \/ RunThrows(x) \/ Crash(x) \/ CallFails(x)
    PROVE  TypeOK'
  <1> USE DEF TypeOK, recordVars, storeVars, worldVars, requestVars, runVars
  <1>1. job[x[1]] \in Job /\ x[1] \in Jobs /\ Run(x) \in Runs
    BY Shapes DEF Run
  <1>2. /\ Taken(job[x[1]], Run(x)) \in Job /\ Resolved(job[x[1]], Run(x)) \in Job
        /\ Rejected(job[x[1]], Run(x)) \in Job
    BY <1>1, RunOperations
  <1>3. \A label \in Labels : Goes(x, label) => pc' \in [Executions -> Labels]
    BY DEF Goes
  <1>4. {"read", "throw", "end", "recordFailure"} \subseteq Labels
    BY DEF Labels, WorkLabels
  <1>5. CASE TakeJob(x)
    BY <1>2, <1>3, <1>4, <1>5 DEF TakeJob
  <1>6. CASE RunReturns(x)
    BY <1>2, <1>3, <1>4, <1>6 DEF RunReturns
  <1>7. CASE RunThrows(x)
    BY <1>2, <1>3, <1>4, <1>7 DEF RunThrows
  <1>8. CASE Crash(x)
    BY <1>3, <1>4, <1>8 DEF Crash, Fault
  <1>9. CASE CallFails(x)
    BY <1>3, <1>4, <1>9 DEF CallFails, Fault
  <1> QED
    BY <1>5, <1>6, <1>7, <1>8, <1>9

\* What a handler does.
LEMMA HandlerTypes ==
    ASSUME TypeOK, DeliveryKey, NEW x \in Executions, Handler(x) \/ AnswerLost(x)
    PROVE  TypeOK'
  <1> USE DEF TypeOK, recordVars, storeVars, worldVars, requestVars, runVars
  <1>1. /\ Run(x) \in Runs /\ Run(x) \in Builders /\ held[x] \in Held
        /\ \A w \in Work : job[JobOf(w)] \in Job
    BY Shapes DEF Run, Builders
  <1>2. \A label \in Labels : Goes(x, label) => pc' \in [Executions -> Labels]
    BY DEF Goes
  <1>3. {"read", "fetch", "complete", "announce", "send", "settle", "recordFailure", "return",
         "throw"} \subseteq Labels
    BY DEF Labels, WorkLabels
  <1>4. CASE GetPortableExportBuildInput(x)
    <2>1. \A D \in SUBSET Documents : [held[x] EXCEPT !.fetch = D] \in Held
      BY <1>1 DEF Held
    <2>2. held' \in [Executions -> Held]
      BY <1>4, <2>1 DEF GetPortableExportBuildInput
    <2>3. pc' \in [Executions -> Labels]
      BY <1>2, <1>3, <1>4 DEF GetPortableExportBuildInput, ExportBranch
    <2> QED
      BY <1>4, <2>2, <2>3 DEF GetPortableExportBuildInput
  <1>5. ASSUME NEW d \in Documents, GetCiphertext(x, d)
        PROVE  TypeOK'
    <2>1. [held[x] EXCEPT !.fetch = @ \ {d}] \in Held
      BY <1>1 DEF Held
    <2>2. held' \in [Executions -> Held]
      BY <1>5, <2>1 DEF GetCiphertext
    <2>3. pc' \in [Executions -> Labels]
      BY <1>2, <1>3, <1>5 DEF GetCiphertext
    <2> QED
      BY <1>5, <2>2, <2>3 DEF GetCiphertext
  <1>6. CASE PutGeneratedExport(x)
    BY <1>1, <1>2, <1>3, <1>6 DEF PutGeneratedExport
  <1>7. \A w \in Work : Completes(w, Run(x)) =>
            row' \in [Work -> Row] /\ wf' \in [Work -> {"absent", "pending", "completed"}]
    <2>1. [status |-> "completed", by |-> Run(x)] \in Row
      BY <1>1 DEF Row
    <2> QED
      BY <2>1 DEF Completes
  <1>8. CASE CompletePortableExport(x)
    BY <1>2, <1>3, <1>7, <1>8, Shapes DEF CompletePortableExport, At
  <1>9. CASE GetReportBuildInput(x)
    BY <1>2, <1>3, <1>9 DEF GetReportBuildInput, ReportBranch, Announced
  <1>10. CASE CompleteReport(x)
    BY <1>2, <1>3, <1>7, <1>10, Shapes DEF CompleteReport, At, Announced
  <1>11. CASE EnqueueNotification(x)
    <2>1. NoteOf(Subject(x)) \in Jobs
      BY <1>11, Shapes DEF EnqueueNotification, At
    <2>2. Added(job[NoteOf(Subject(x))], "waiting") \in Job
      BY <2>1, JobOperations
    <2> QED
      BY <1>2, <1>3, <1>11, <2>2 DEF EnqueueNotification
  <1>12. CASE GetNotificationDeliveryInput(x)
    <2> DEFINE d == Reserved(delivery[Subject(x)], Run(x))
    <2>1. delivery[Subject(x)] \in Delivery
      BY <1>12, Shapes DEF GetNotificationDeliveryInput, At
    <2>2. d \in Delivery /\ d.id \in Builders
      BY <1>1, <2>1 DEF Reserved, Delivery
    <2>3. [held[x] EXCEPT !.id = d.id] \in Held
      BY <1>1, <2>2 DEF Held
    <2> HIDE DEF d
    <2>4. pc' \in [Executions -> Labels]
      BY <1>2, <1>3, <1>12 DEF GetNotificationDeliveryInput
    <2>5. delivery' \in [Reports -> Delivery] /\ held' \in [Executions -> Held]
      BY <1>12, <2>2, <2>3 DEF GetNotificationDeliveryInput, d
    <2> QED
      BY <1>12, <2>4, <2>5 DEF GetNotificationDeliveryInput
  <1>13. CASE SendEmail(x) \/ AnswerLost(x)
    <2>1. Subject(x) \in Reports /\ held[x].id \in Runs
      BY <1>13, Shapes DEF SendEmail, AnswerLost, At, DeliveryKey, Sending
    <2>2. emails' \in SUBSET (Reports \X Runs)
      BY <1>13, <2>1 DEF SendEmail, AnswerLost, Accept
    <2>3. pc' \in [Executions -> Labels] /\ faults' \in Nat
      BY <1>2, <1>3, <1>13 DEF SendEmail, AnswerLost, Fault
    <2> QED
      BY <1>13, <2>2, <2>3 DEF SendEmail, AnswerLost
  <1>14. CASE CompleteNotificationDelivery(x)
    <2>1. delivery[Subject(x)] \in Delivery /\ held[x].id \in Builders
      BY <1>1, <1>14, Shapes DEF CompleteNotificationDelivery, At, Held
    <2>2. [delivery[Subject(x)] EXCEPT !.status = "sent", !.message = held[x].id] \in Delivery
      BY <2>1 DEF Delivery
    <2>3. delivery' \in [Reports -> Delivery]
      BY <1>14, <2>1, <2>2 DEF CompleteNotificationDelivery
    <2>4. pc' \in [Executions -> Labels]
      BY <1>2, <1>3, <1>14 DEF CompleteNotificationDelivery
    <2> QED
      BY <1>14, <2>3, <2>4 DEF CompleteNotificationDelivery
  <1>15. CASE RecordNotificationDeliveryFailure(x)
    <2>1. delivery[Subject(x)] \in Delivery
      BY <1>15, Shapes DEF RecordNotificationDeliveryFailure, At
    <2>2. Failed(delivery[Subject(x)]) \in Delivery
      BY <2>1 DEF Failed, Delivery
    <2> QED
      BY <1>2, <1>3, <1>15, <2>2 DEF RecordNotificationDeliveryFailure
  <1> QED
    BY <1>4, <1>5, <1>6, <1>8, <1>9, <1>10, <1>11, <1>12, <1>13, <1>14, <1>15 DEF Handler

\* Every step keeps the types.
LEMMA StepTypes == ASSUME TypeOK, DeliveryKey, [Next]_vars PROVE TypeOK'
  <1>1. CASE UNCHANGED vars
    BY <1>1 DEF vars, TypeOK
  <1>2. CASE \E j \in Jobs : StallDead(j) \/ StallLive(j) \/ ForgetJob(j)
    <2> USE DEF TypeOK, recordVars, storeVars, worldVars, requestVars, runVars
    <2>1. ASSUME NEW j \in Jobs, StallDead(j) \/ StallLive(j) \/ ForgetJob(j)
          PROVE  TypeOK'
      <3>1. Stalled(job[j]) \in Job /\ NoJob \in Job
        BY JobOperations
      <3> QED
        BY <2>1, <3>1 DEF StallDead, StallLive, ForgetJob, Fault
    <2> QED
      BY <1>2, <2>1
  <1> QED
    BY <1>1, <1>2, RequestTypes, QueueTypes, HandlerTypes DEF Next, RunStep

-----------------------------------------------------------------------------
(* Requests                                                                  *)

\* The steps that touch jobs.
LEMMA JobWriters ==
    ASSUME [Next]_vars
    PROVE  \/ UNCHANGED job
           \/ \E w \in Work : Enqueue(w)
           \/ \E i \in Jobs : StallDead(i) \/ StallLive(i) \/ ForgetJob(i)
           \/ \E x \in Executions : TakeJob(x) \/ RunReturns(x) \/ RunThrows(x) \/ EnqueueNotification(x)
  BY DEF Next, Answering, RunStep, Handler, vars, AddDocument, DeleteOriginal, DecideManualFact,
         DecideConsent, StartPortableExport, ReserveReport, StartReport, StoreAnswer, RequestFails,
         AnswerLost, CallFails, Crash, GetPortableExportBuildInput, GetCiphertext,
         PutGeneratedExport, CompletePortableExport, GetReportBuildInput, CompleteReport,
         GetNotificationDeliveryInput, SendEmail, CompleteNotificationDelivery,
         RecordNotificationDeliveryFailure

\* A run that has begun is never as if it had not.
LEMMA RunsGoOn ==
    ASSUME TypeOK, [Next]_vars, NEW x \in Executions, pc[x] # "idle"
    PROVE  pc'[x] # "idle"
  <1> USE DEF TypeOK, runVars
  <1>1. CASE UNCHANGED pc
    BY <1>1
  <1>2. ASSUME NEW y \in Executions, NEW label, Goes(y, label), label # "idle"
        PROVE  pc'[x] # "idle"
    BY <1>2 DEF Goes
  <1>3. ASSUME NEW y \in Executions,
               RunStep(y) \/ AnswerLost(y) \/ CallFails(y) \/ Crash(y)
        PROVE  \E label : Goes(y, label) /\ label # "idle"
    BY <1>3 DEF RunStep, Handler, TakeJob, RunReturns, RunThrows, AnswerLost, CallFails, Crash,
         GetPortableExportBuildInput, ExportBranch, GetCiphertext, PutGeneratedExport,
         CompletePortableExport, GetReportBuildInput, ReportBranch, CompleteReport, Announced,
         EnqueueNotification, GetNotificationDeliveryInput, SendEmail,
         CompleteNotificationDelivery, RecordNotificationDeliveryFailure
  <1>4. UNCHANGED pc \/ \E y \in Executions : RunStep(y) \/ AnswerLost(y) \/ CallFails(y) \/ Crash(y)
    BY DEF Next, Answering, vars, AddDocument, DeleteOriginal, DecideManualFact, DecideConsent,
         StartPortableExport, ReserveReport, StartReport, StoreAnswer, Enqueue, RequestFails,
         StallDead, StallLive, ForgetJob
  <1> QED
    BY <1>1, <1>2, <1>3, <1>4

\* Every step keeps active and ended jobs taken.
LEMMA StepJobsAreTaken == ASSUME TypeOK, JobsAreTaken, [Next]_vars PROVE JobsAreTaken'
  <1> USE DEF TypeOK
  <1> DEFINE Begun(j) == \E run \in Runs : pc[<<j, run>>] # "idle"
  <1>1. \A j \in Jobs : Begun(j) => Begun(j)'
    BY RunsGoOn DEF Executions
  <1>2. \A j \in Jobs : (job'[j].state = "active" \/ Ended(job'[j])) =>
                           Begun(j)' \/ job[j].state = "active" \/ Ended(job[j])
    <2>1. CASE UNCHANGED job
      BY <2>1
    <2>2. ASSUME NEW w \in Work, Enqueue(w), NEW j \in Jobs
          PROVE  job'[j] = job[j] \/ job'[j].state = "waiting"
      BY <2>2, Shapes DEF Enqueue, Added, NoJob
    <2>3. ASSUME NEW i \in Jobs, StallDead(i) \/ StallLive(i) \/ ForgetJob(i), NEW j \in Jobs
          PROVE  job'[j] = job[j] \/ job[j].state = "active" \/ Ended(job[j])
      BY <2>3 DEF StallDead, StallLive, ForgetJob, Forgotten
    <2>4. ASSUME NEW x \in Executions, TakeJob(x) \/ RunReturns(x) \/ RunThrows(x), NEW j \in Jobs
          PROVE  job'[j] = job[j] \/ Begun(j)'
      <3>1. x[1] \in Jobs /\ x[2] \in Runs /\ x = <<x[1], x[2]>>
        BY Shapes
      <3>2. pc'[x] # "idle"
        BY <2>4 DEF TakeJob, RunReturns, RunThrows, Goes
      <3>3. j # x[1] => job'[j] = job[j]
        BY <2>4 DEF TakeJob, RunReturns, RunThrows
      <3> QED
        BY <3>1, <3>2, <3>3
    <2>5. ASSUME NEW x \in Executions, EnqueueNotification(x), NEW j \in Jobs
          PROVE  job'[j] = job[j] \/ job'[j].state = "waiting"
      BY <2>5, Shapes DEF EnqueueNotification, Added, NoJob, At
    <2> HIDE DEF Begun
    <2> QED
      BY <2>1, <2>2, <2>3, <2>4, <2>5, JobWriters DEF Ended
  <1> QED
    BY <1>1, <1>2 DEF JobsAreTaken

\* What the queue has been given stays known to it, or to the worker that took it.
LEMMA QueuedStays ==
    ASSUME TypeOK, JobsAreTaken, [Next]_vars
    PROVE  Queued \subseteq Queued'
  <1> SUFFICES ASSUME NEW w \in Work, Known(JobOf(w)) PROVE Known(JobOf(w))'
    BY DEF Queued
  <1> DEFINE j == JobOf(w)
  <1>0. j \in Jobs /\ job[j] \in Job
    BY Shapes DEF TypeOK
  <1>1. CASE \E run \in Runs : pc[<<j, run>>] # "idle"
    BY <1>0, <1>1, RunsGoOn DEF Known, Executions
  <1>2. CASE job[j].state \in {"delayed", "waiting"}
    <2>1. job'[j].state # "absent"
      <3> USE DEF TypeOK
      <3>1. ASSUME NEW v \in Work, Enqueue(v) PROVE job'[j].state # "absent"
        BY <1>0, <1>2, <3>1, Shapes DEF Enqueue, Added
      <3>2. ASSUME NEW i \in Jobs, StallDead(i) \/ StallLive(i) \/ ForgetJob(i)
            PROVE  job'[j].state # "absent"
        BY <1>0, <1>2, <3>2 DEF StallDead, StallLive, ForgetJob, Forgotten, Ended
      <3>3. ASSUME NEW x \in Executions, TakeJob(x) \/ RunReturns(x) \/ RunThrows(x)
            PROVE  job'[j].state # "absent"
        <4>1. \A k \in Job, r \in Runs : k.state \in {"delayed", "waiting"} =>
                 /\ Taken(k, r).state # "absent" /\ Resolved(k, r).state # "absent"
                 /\ Rejected(k, r).state # "absent"
          BY DEF Taken, Resolved, Rejected, Job
        <4>2. Run(x) \in Runs /\ x[1] \in Jobs
          BY Shapes DEF Run
        <4>3. \/ job'[j] = job[j]
              \/ job'[j] \in {Taken(job[j], Run(x)), Resolved(job[j], Run(x)), Rejected(job[j], Run(x))}
          BY <1>0, <3>3, <4>2 DEF TakeJob, RunReturns, RunThrows
        <4> QED
          BY <1>0, <1>2, <4>1, <4>2, <4>3
      <3>4. ASSUME NEW x \in Executions, EnqueueNotification(x) PROVE job'[j].state # "absent"
        BY <1>0, <1>2, <3>4, Shapes DEF EnqueueNotification, Added, At
      <3> HIDE DEF j
      <3> QED
        BY <1>2, <3>1, <3>2, <3>3, <3>4, JobWriters
    <2> QED
      BY <2>1 DEF Known
  <1>3. CASE job[j].state = "active" \/ Ended(job[j])
    BY <1>0, <1>1, <1>3 DEF JobsAreTaken
  <1> QED
    BY <1>0, <1>1, <1>2, <1>3 DEF Known, Job, Ended

\* enqueueWorkflow brings the export or report it is called for into the queue.
LEMMA EnqueueQueues ==
    ASSUME TypeOK, NEW w \in Work, Enqueue(w)
    PROVE  Queued' = Queued \cup {w}
  <1>1. job[JobOf(w)] \in Job /\ job'[JobOf(w)] = Added(job[JobOf(w)], "waiting")
    BY Shapes DEF Enqueue, TypeOK
  <1>2. Known(JobOf(w))'
    BY <1>1 DEF Added, NoJob, Known
  <1>3. ASSUME NEW v \in Work \ {w} PROVE Known(JobOf(v))' <=> Known(JobOf(v))
    <2>1. JobOf(v) # JobOf(w)
      BY DEF JobOf
    <2> QED
      BY <2>1, Shapes DEF Enqueue, runVars, Known, TypeOK
  <1> QED
    BY <1>2, <1>3 DEF Queued

\* A step that leaves the requests alone and starts no report keeps their order.
LEMMA QuietRequests ==
    ASSUME TypeOK, RequestOrder, UNCHANGED requestVars,
           \A r \in Reports : row[r].status = "absent" => row'[r].status = "absent",
           Queued \subseteq Queued'
    PROVE  RequestOrder'
  BY Shapes DEF TypeOK, RequestOrder, AnsweredIsQueued, requestVars

\* A completion is of an export, or of a report that was pending.
LEMMA CompletionIsOfStarted ==
    ASSUME TypeOK, NEW x \in Executions, CompletePortableExport(x) \/ CompleteReport(x)
    PROVE  \A r \in Reports : row[r].status = "absent" => row'[r].status = "absent"
  <1>1. CASE CompletePortableExport(x)
    BY <1>1, Shapes, JobsAssumption DEF CompletePortableExport, Completes, At, TypeOK
  <1>2. CASE CompleteReport(x)
    BY <1>2, Shapes DEF CompleteReport, ReportCurrent, Completes, At, TypeOK
  <1> QED
    BY <1>1, <1>2

\* Every step keeps the order of requests.
LEMMA StepRequestOrder ==
    ASSUME TypeOK, JobsAreTaken, RequestOrder, [Next]_vars PROVE RequestOrder'
  <1>0. Queued \subseteq Queued'
    BY QueuedStays
  <1>1. ASSUME NEW e \in Exports, StartPortableExport(e)
        PROVE  RequestOrder'
    <2>1. \A r \in Reports : api'[r] = api[r] /\ row'[r] = row[r]
      BY <1>1, Shapes, JobsAssumption DEF StartPortableExport, Pending, TypeOK
    <2>2. \A w \in Work : api'[w] = "store" => api[w] = "store"
      BY <1>1, Shapes DEF StartPortableExport, AfterStart, TypeOK
    <2>3. UNCHANGED <<key, told>>
      BY <1>1 DEF StartPortableExport
    <2> QED
      BY <1>0, <2>1, <2>2, <2>3 DEF RequestOrder, AnsweredIsQueued
  <1>2. ASSUME NEW r \in Reports, ReserveReport(r)
        PROVE  RequestOrder'
    BY <1>0, <1>2, Shapes DEF ReserveReport, TypeOK, RequestOrder, AnsweredIsQueued, recordVars
  <1>3. ASSUME NEW r \in Reports, StartReport(r)
        PROVE  RequestOrder'
    BY <1>0, <1>3, Shapes DEF StartReport, AfterStart, Pending, TypeOK, RequestOrder, AnsweredIsQueued
  <1>4. ASSUME NEW r \in Reports, StoreAnswer(r)
        PROVE  RequestOrder'
    BY <1>0, <1>4, Shapes DEF StoreAnswer, TypeOK, RequestOrder, AnsweredIsQueued, recordVars
  <1>5. ASSUME NEW w \in Work, Enqueue(w)
        PROVE  RequestOrder'
    <2>1. w \in Queued' /\ Queued \subseteq Queued'
      BY <1>5, EnqueueQueues
    <2>3. /\ \A v \in Work : api'[v] = api[v] \/ (v = w /\ api[v] = "enqueue" /\ api'[v] \in {"idle", "store"})
          /\ \A v \in told' : v \in told \/ v = w
          /\ UNCHANGED <<row, key>>
      BY <1>5 DEF Enqueue, TypeOK, recordVars
    <2>4. told \subseteq Work
      BY DEF TypeOK
    <2> QED
      BY <2>1, <2>3, <2>4, Shapes DEF RequestOrder, AnsweredIsQueued
  <1>6. ASSUME NEW w \in Work, RequestFails(w)
        PROVE  RequestOrder'
    BY <1>0, <1>6, Shapes DEF RequestFails, TypeOK, RequestOrder, AnsweredIsQueued, recordVars
  <1>7. ASSUME NEW x \in Executions, CompletePortableExport(x) \/ CompleteReport(x)
        PROVE  RequestOrder'
    BY <1>0, <1>7, CompletionIsOfStarted, QuietRequests DEF CompletePortableExport, CompleteReport
  <1>8. CASE UNCHANGED <<row, requestVars>>
    BY <1>0, <1>8, QuietRequests
  <1>9. \/ UNCHANGED <<row, requestVars>>
        \/ \E e \in Exports : StartPortableExport(e)
        \/ \E r \in Reports : ReserveReport(r) \/ StartReport(r) \/ StoreAnswer(r)
        \/ \E w \in Work : Enqueue(w) \/ RequestFails(w)
        \/ \E x \in Executions : CompletePortableExport(x) \/ CompleteReport(x)
    <2>1. \A d \in Documents : AddDocument(d) \/ DeleteOriginal(d) => UNCHANGED <<row, requestVars>>
      BY DEF AddDocument, DeleteOriginal, recordVars
    <2>2. DecideManualFact \/ DecideConsent => UNCHANGED <<row, requestVars>>
      BY DEF DecideManualFact, DecideConsent, recordVars
    <2>3. \A j \in Jobs : StallDead(j) \/ StallLive(j) \/ ForgetJob(j) => UNCHANGED <<row, requestVars>>
      BY DEF StallDead, StallLive, ForgetJob, recordVars
    <2>4. \A x \in Executions :
             TakeJob(x) \/ RunReturns(x) \/ RunThrows(x) \/ AnswerLost(x) \/ CallFails(x) \/ Crash(x)
             => UNCHANGED <<row, requestVars>>
      BY DEF TakeJob, RunReturns, RunThrows, AnswerLost, CallFails, Crash, recordVars
    <2>5. \A x \in Executions :
             (/\ Handler(x)
              /\ ~CompletePortableExport(x) /\ ~CompleteReport(x)) => UNCHANGED <<row, requestVars>>
      BY DEF Handler, GetPortableExportBuildInput, GetCiphertext, PutGeneratedExport,
             GetReportBuildInput, EnqueueNotification, GetNotificationDeliveryInput, SendEmail,
             CompleteNotificationDelivery, RecordNotificationDeliveryFailure, recordVars
    <2>6. UNCHANGED vars => UNCHANGED <<row, requestVars>>
      BY DEF vars, requestVars
    <2> QED
      BY <2>1, <2>2, <2>3, <2>4, <2>5, <2>6 DEF Next, Answering, RunStep
  <1> QED
    BY <1>1, <1>2, <1>3, <1>4, <1>5, <1>6, <1>7, <1>8, <1>9

-----------------------------------------------------------------------------
(* Deliveries                                                                *)

\* A step that leaves deliveries, e-mails and the runs that send them alone.
LEMMA QuietDeliveries ==
    ASSUME DeliveryKey, UNCHANGED <<delivery, emails>>,
           \A y \in Executions : held'[y].id = held[y].id,
           \A y \in Executions : pc'[y] \in {"send", "settle"} => pc'[y] = pc[y],
           \A y \in Executions : pc'[y] = "recordFailure" => pc[y] \in {"send", "settle", "recordFailure"}
    PROVE  DeliveryKey'
  BY DEF DeliveryKey, Sending, At

\* A run that goes on to a step of no delivery.
LEMMA QuietRun ==
    ASSUME TypeOK, DeliveryKey, NEW x \in Executions, NEW label, Goes(x, label),
           label \notin {"send", "settle"},
           label = "recordFailure" => pc[x] \in {"send", "settle"},
           UNCHANGED <<delivery, emails>>,
           \A y \in Executions : held'[y].id = held[y].id
    PROVE  DeliveryKey'
  BY QuietDeliveries DEF Goes, TypeOK

\* Every step of a run of an export or a report, and the end of every run.
LEMMA OtherRuns ==
    ASSUME TypeOK, DeliveryKey, NEW x \in Executions,
           \/ TakeJob(x) \/ RunReturns(x) \/ RunThrows(x) \/ CallFails(x) \/ Crash(x)
           \/ GetPortableExportBuildInput(x) \/ \E d \in Documents : GetCiphertext(x, d)
           \/ PutGeneratedExport(x) \/ CompletePortableExport(x)
           \/ GetReportBuildInput(x) \/ CompleteReport(x) \/ EnqueueNotification(x)
    PROVE  DeliveryKey'
  <1> USE DEF recordVars, storeVars
  <1>1. CASE TakeJob(x)
    BY <1>1, QuietRun DEF TakeJob
  <1>2. CASE RunReturns(x)
    BY <1>2, QuietRun DEF RunReturns
  <1>3. CASE RunThrows(x)
    BY <1>3, QuietRun DEF RunThrows
  <1>4. CASE CallFails(x)
    BY <1>4, QuietRun DEF CallFails
  <1>5. CASE Crash(x)
    BY <1>5, QuietRun DEF Crash
  <1>6. CASE GetPortableExportBuildInput(x)
    <2>1. \A y \in Executions : held'[y].id = held[y].id
      BY <1>6 DEF GetPortableExportBuildInput, TypeOK, Held
    <2> QED
      BY <1>6, <2>1, QuietRun DEF GetPortableExportBuildInput, ExportBranch
  <1>7. ASSUME NEW d \in Documents, GetCiphertext(x, d)
        PROVE  DeliveryKey'
    <2>1. \A y \in Executions : held'[y].id = held[y].id
      BY <1>7 DEF GetCiphertext, TypeOK, Held
    <2> QED
      BY <1>7, <2>1, QuietRun DEF GetCiphertext
  <1>8. CASE PutGeneratedExport(x)
    BY <1>8, QuietRun DEF PutGeneratedExport
  <1>9. CASE CompletePortableExport(x)
    BY <1>9, QuietRun DEF CompletePortableExport
  <1>10. CASE GetReportBuildInput(x)
    BY <1>10, QuietRun DEF GetReportBuildInput, ReportBranch, Announced
  <1>11. CASE CompleteReport(x)
    BY <1>11, QuietRun DEF CompleteReport, Announced
  <1>12. CASE EnqueueNotification(x)
    BY <1>12, QuietRun DEF EnqueueNotification
  <1> QED
    BY <1>1, <1>2, <1>3, <1>4, <1>5, <1>6, <1>7, <1>8, <1>9, <1>10, <1>11, <1>12

\* A delivery that changes keeps its id, and one that is sent has its e-mail.
LEMMA DeliveryChanges ==
    ASSUME TypeOK, DeliveryKey, NEW x \in Executions, Subject(x) \in Reports,
           NEW d \in Delivery, delivery' = [delivery EXCEPT ![Subject(x)] = d],
           delivery[Subject(x)].status # "absent" =>
               d.status # "absent" /\ d.id = delivery[Subject(x)].id,
           d.status = "sent" => <<Subject(x), d.message>> \in emails,
           UNCHANGED emails,
           \A y \in Executions \ {x} : pc'[y] = pc[y] /\ held'[y] = held[y],
           d.status # "absent" /\ d.id \in Runs,
           Sending(x)' => d.id = held'[x].id,
           pc'[x] # "settle"
    PROVE  DeliveryKey'
  <1>1. \A r \in Reports : /\ r # Subject(x) => delivery'[r] = delivery[r]
                           /\ r = Subject(x) => delivery'[r] = d
    BY DEF TypeOK
  <1>2. \A r \in Reports : delivery[r].status # "absent" =>
                             delivery'[r].status # "absent" /\ delivery'[r].id = delivery[r].id
    BY <1>1
  <1>3. \A m \in emails' : delivery'[m[1]].status # "absent" /\ delivery'[m[1]].id = m[2]
    BY <1>2 DEF DeliveryKey, TypeOK
  <1>4. \A r \in Reports : delivery'[r].status = "sent" => <<r, delivery'[r].message>> \in emails'
    BY <1>1 DEF DeliveryKey
  <1>5. ASSUME NEW y \in Executions, Sending(y)'
        PROVE  delivery'[Subject(y)].status # "absent" /\ delivery'[Subject(y)].id = held'[y].id
    <2>1. CASE y = x
      BY <1>1, <1>5, <2>1
    <2>2. CASE y # x
      <3>1. Sending(y) /\ held'[y] = held[y]
        BY <1>5, <2>2 DEF Sending, At
      <3>2. Subject(y) \in Reports
        BY <3>1, Shapes DEF Sending, At
      <3> QED
        BY <1>2, <3>1, <3>2 DEF DeliveryKey
    <2> QED
      BY <2>1, <2>2
  <1>6. \A y \in Executions : At(y, "notification-send", "settle")' =>
            <<Subject(y), held'[y].id>> \in emails'
    BY DEF DeliveryKey, At
  <1>7. \A r \in Reports : delivery'[r].status # "absent" => delivery'[r].id \in Runs
    BY <1>1 DEF DeliveryKey
  <1> QED
    BY <1>3, <1>4, <1>5, <1>6, <1>7 DEF DeliveryKey

\* Every step of a notification's run.
LEMMA NotificationRuns ==
    ASSUME TypeOK, DeliveryKey, NEW x \in Executions,
           \/ GetNotificationDeliveryInput(x) \/ SendEmail(x) \/ AnswerLost(x)
           \/ CompleteNotificationDelivery(x) \/ RecordNotificationDeliveryFailure(x)
    PROVE  DeliveryKey'
  <1> USE DEF recordVars, storeVars
  <1>0. Subject(x) \in Reports /\ x[1][2] = "notification-send" /\ delivery[Subject(x)] \in Delivery
        /\ Run(x) \in Runs
    BY Shapes DEF GetNotificationDeliveryInput, SendEmail, AnswerLost, CompleteNotificationDelivery,
                  RecordNotificationDeliveryFailure, At, TypeOK, Run
  <1>1. CASE GetNotificationDeliveryInput(x)
    <2>1. CASE ~Eligible(Subject(x))
      BY <1>1, <2>1, QuietRun DEF GetNotificationDeliveryInput
    <2>2. CASE Eligible(Subject(x))
      <3> DEFINE d == Reserved(delivery[Subject(x)], Run(x))
      <3>1. /\ delivery' = [delivery EXCEPT ![Subject(x)] = d]
            /\ held' = [held EXCEPT ![x].id = d.id]
            /\ Goes(x, IF d.status = "sent" THEN "return" ELSE "send")
            /\ UNCHANGED emails
        BY <1>1, <2>2 DEF GetNotificationDeliveryInput
      <3>2. /\ d \in Delivery /\ d.status # "absent"
            /\ delivery[Subject(x)].status # "absent" => d = delivery[Subject(x)]
            /\ delivery[Subject(x)].status = "absent" => d.id = Run(x) /\ d.status = "pending"
        BY <1>0 DEF Reserved, Delivery, Builders
      <3> HIDE DEF d
      <3>3. d.id \in Runs
        BY <1>0, <3>2 DEF DeliveryKey
      <3>4. d.status = "sent" => <<Subject(x), d.message>> \in emails
        BY <1>0, <3>2 DEF DeliveryKey
      <3>5. /\ \A y \in Executions \ {x} : pc'[y] = pc[y] /\ held'[y] = held[y]
            /\ held'[x].id = d.id /\ pc'[x] # "settle"
        BY <3>1 DEF Goes, TypeOK, Held
      <3> QED
        BY <1>0, <3>1, <3>2, <3>3, <3>4, <3>5, DeliveryChanges
    <2> QED
      BY <2>1, <2>2
  <1>2. CASE SendEmail(x) \/ AnswerLost(x)
    <2>1. /\ UNCHANGED <<delivery, held>> /\ emails' = emails \cup {<<Subject(x), held[x].id>>}
          /\ \A y \in Executions \ {x} : pc'[y] = pc[y]
          /\ pc'[x] \in {"settle", "recordFailure"}
      BY <1>2 DEF SendEmail, AnswerLost, Accept, Goes, TypeOK
    <2>2. /\ delivery[Subject(x)].status # "absent" /\ delivery[Subject(x)].id = held[x].id
          /\ held[x].id \in Runs
      BY <1>0, <1>2 DEF DeliveryKey, Sending, SendEmail, AnswerLost, At
    <2> QED
      BY <2>1, <2>2 DEF DeliveryKey, Sending, At
  <1>3. CASE CompleteNotificationDelivery(x)
    <2> DEFINE o == delivery[Subject(x)]
               d == IF o.status = "sent" THEN o ELSE [o EXCEPT !.status = "sent", !.message = held[x].id]
    <2>1. /\ delivery' = [delivery EXCEPT ![Subject(x)] = d] /\ UNCHANGED <<emails, held>>
          /\ Goes(x, IF o.status # "sent" \/ o.message = held[x].id THEN "return" ELSE "recordFailure")
      BY <1>3 DEF CompleteNotificationDelivery
    <2>2. held[x].id \in Runs /\ <<Subject(x), held[x].id>> \in emails
      BY <1>0, <1>3 DEF DeliveryKey, Sending, CompleteNotificationDelivery, At
    <2>3. d \in Delivery /\ d.id = o.id /\ d.status = "sent"
      BY <1>0, <2>2 DEF Delivery, Builders
    <2>s. o.status # "absent" /\ o.id \in Runs /\ o.id = held[x].id
      BY <1>0, <1>3 DEF DeliveryKey, Sending, CompleteNotificationDelivery, At
    <2>4. <<Subject(x), d.message>> \in emails
      BY <1>0, <2>2 DEF Delivery, DeliveryKey
    <2> HIDE DEF d
    <2>5. /\ \A y \in Executions \ {x} : pc'[y] = pc[y] /\ held'[y] = held[y]
          /\ pc'[x] # "settle" /\ held'[x] = held[x]
      BY <2>1 DEF Goes, TypeOK
    <2> QED
      BY <1>0, <2>1, <2>3, <2>s, <2>4, <2>5, DeliveryChanges
  <1>4. CASE RecordNotificationDeliveryFailure(x)
    <2> DEFINE d == Failed(delivery[Subject(x)])
    <2>1. /\ delivery' = [delivery EXCEPT ![Subject(x)] = d] /\ UNCHANGED <<emails, held>>
          /\ Goes(x, "throw")
      BY <1>0, <1>4 DEF RecordNotificationDeliveryFailure, TypeOK
    <2>2. /\ d \in Delivery /\ d.id = delivery[Subject(x)].id /\ d.status # "absent"
          /\ d.status = "sent" => d = delivery[Subject(x)]
      BY <1>0 DEF Failed, Delivery
    <2> HIDE DEF d
    <2>3. /\ \A y \in Executions \ {x} : pc'[y] = pc[y] /\ held'[y] = held[y]
          /\ pc'[x] # "settle" /\ held'[x] = held[x]
      BY <2>1 DEF Goes, TypeOK
    <2>4. d.status = "sent" => <<Subject(x), d.message>> \in emails
      BY <1>0, <2>2 DEF DeliveryKey
    <2>s. delivery[Subject(x)].id \in Runs /\ delivery[Subject(x)].id = held[x].id
      BY <1>0, <1>4 DEF DeliveryKey, Sending, RecordNotificationDeliveryFailure, At
    <2> QED
      BY <1>0, <2>1, <2>2, <2>s, <2>3, <2>4, DeliveryChanges
  <1> QED
    BY <1>1, <1>2, <1>3, <1>4

\* Every step keeps the delivery's key.
LEMMA StepDeliveryKey == ASSUME TypeOK, DeliveryKey, [Next]_vars PROVE DeliveryKey'
  <1>1. CASE UNCHANGED <<delivery, emails, pc, held>>
    BY <1>1, QuietDeliveries
  <1>2. \/ UNCHANGED <<delivery, emails, pc, held>>
        \/ \E x \in Executions : RunStep(x) \/ AnswerLost(x) \/ CallFails(x) \/ Crash(x)
    <2> USE DEF recordVars, storeVars, runVars
    <2>1. \A d \in Documents : AddDocument(d) \/ DeleteOriginal(d) =>
             UNCHANGED <<delivery, emails, pc, held>>
      BY DEF AddDocument, DeleteOriginal
    <2>2. DecideManualFact \/ DecideConsent => UNCHANGED <<delivery, emails, pc, held>>
      BY DEF DecideManualFact, DecideConsent
    <2>3. /\ \A e \in Exports : StartPortableExport(e) => UNCHANGED <<delivery, emails, pc, held>>
          /\ \A r \in Reports : ReserveReport(r) => UNCHANGED <<delivery, emails, pc, held>>
      BY DEF StartPortableExport, ReserveReport
    <2>4. \A w \in Work : Answering(w) \/ RequestFails(w) => UNCHANGED <<delivery, emails, pc, held>>
      BY DEF Answering, StartReport, StoreAnswer, Enqueue, RequestFails
    <2>5. \A j \in Jobs : StallDead(j) \/ StallLive(j) \/ ForgetJob(j) => UNCHANGED <<delivery, emails, pc, held>>
      BY DEF StallDead, StallLive, ForgetJob
    <2>6. UNCHANGED vars => UNCHANGED <<delivery, emails, pc, held>>
      BY DEF vars
    <2> QED
      BY <2>1, <2>2, <2>3, <2>4, <2>5, <2>6 DEF Next
  <1> QED
    BY <1>1, <1>2, OtherRuns, NotificationRuns DEF RunStep, Handler

-----------------------------------------------------------------------------
(* Builders                                                                  *)

\* A step that stores no archive, completes no export and hands no lock over.
LEMMA QuietBuilders ==
    ASSUME OneBuilder, UNCHANGED archive, expired \subseteq expired',
           \A e \in Exports : Completed(e)' = Completed(e) /\ row'[e].by = row[e].by,
           \A y \in Executions : Live(y)' => job'[y[1]].state = "active" /\ job'[y[1]].owner = y[2],
           \A y \in Executions : (y[1][2] = "privacy-export" /\ pc'[y] \in {"fetch", "complete"}) =>
               pc'[y] = pc[y] \/ (pc'[y] = "fetch" /\ ~Completed(Subject(y)))
    PROVE  OneBuilder'
  <1>1. ASSUME NEW x \in Executions, Live(x)', x[1][2] = "privacy-export"
        PROVE  /\ pc'[x] \in {"fetch", "complete"} => ~Completed(Subject(x))'
               /\ pc'[x] = "complete" => archive'[Subject(x)] = Run(x)
    BY <1>1, Shapes DEF OneBuilder, Live
  <1>2. ArchiveHasDigest'
    BY DEF OneBuilder, ArchiveHasDigest, Download
  <1> QED
    BY <1>1, <1>2 DEF OneBuilder

\* The household and the API.
LEMMA RequestBuilders ==
    ASSUME TypeOK, OneBuilder,
           \/ \E d \in Documents : AddDocument(d) \/ DeleteOriginal(d)
           \/ DecideManualFact \/ DecideConsent
           \/ \E e \in Exports : StartPortableExport(e)
           \/ \E r \in Reports : ReserveReport(r)
           \/ \E w \in Work : Answering(w) \/ RequestFails(w)
           \/ UNCHANGED vars
    PROVE  OneBuilder'
  <1> USE DEF recordVars, storeVars, runVars
  <1>1. UNCHANGED <<archive, pc, expired>>
    BY DEF AddDocument, DeleteOriginal, DecideManualFact, DecideConsent, StartPortableExport,
           ReserveReport, Answering, StartReport, StoreAnswer, Enqueue, RequestFails, vars
  <1>2. \A e \in Exports : Completed(e)' = Completed(e) /\ row'[e].by = row[e].by
    <2>1. CASE UNCHANGED row
      BY <2>1 DEF Completed
    <2>2. ASSUME NEW w \in Work, row[w].status = "absent" \/ w \in Reports, Pending(w)
          PROVE  \A e \in Exports : Completed(e)' = Completed(e) /\ row'[e].by = row[e].by
      BY <2>2, Shapes, JobsAssumption DEF Pending, Completed, TypeOK, Row
    <2>3. \/ UNCHANGED row
          \/ \E w \in Work : (row[w].status = "absent" \/ w \in Reports) /\ Pending(w)
      BY Shapes DEF AddDocument, DeleteOriginal, DecideManualFact, DecideConsent,
             StartPortableExport, ReserveReport, Answering, StartReport, StoreAnswer, Enqueue,
             RequestFails, vars
    <2> QED
      BY <2>1, <2>2, <2>3
  <1>3. \A j \in Jobs : job[j].state = "active" => job'[j] = job[j]
    <2>1. CASE UNCHANGED job
      BY <2>1
    <2>2. ASSUME NEW w \in Work, Enqueue(w)
          PROVE  \A j \in Jobs : job[j].state = "active" => job'[j] = job[j]
      BY <2>2, Shapes DEF Enqueue, Added, TypeOK
    <2>3. UNCHANGED job \/ \E w \in Work : Enqueue(w)
      BY DEF AddDocument, DeleteOriginal, DecideManualFact, DecideConsent, StartPortableExport,
             ReserveReport, Answering, StartReport, StoreAnswer, RequestFails, vars
    <2> QED
      BY <2>1, <2>2, <2>3
  <1>4. \A y \in Executions : Live(y)' => job'[y[1]].state = "active" /\ job'[y[1]].owner = y[2]
    BY <1>1, <1>3, Shapes DEF Live, OneBuilder
  <1> QED
    BY <1>1, <1>2, <1>4, QuietBuilders

\* The queue hands a job over only when no live run has its lock.
LEMMA QueueBuilders ==
    ASSUME TypeOK, OneBuilder,
           \/ \E j \in Jobs : StallDead(j) \/ StallLive(j) \/ ForgetJob(j)
           \/ \E x \in Executions : TakeJob(x) \/ RunReturns(x) \/ RunThrows(x)
    PROVE  OneBuilder'
  <1> USE DEF recordVars, storeVars, runVars
  <1>1. UNCHANGED <<archive, row>> /\ expired \subseteq expired'
    BY DEF StallDead, StallLive, ForgetJob, TakeJob, RunReturns, RunThrows
  <1>2. \A e \in Exports : Completed(e)' = Completed(e) /\ row'[e].by = row[e].by
    BY <1>1 DEF Completed
  <1>3. ASSUME NEW j \in Jobs, StallDead(j) \/ StallLive(j) \/ ForgetJob(j), NEW y \in Executions
        PROVE  /\ Live(y)' => job'[y[1]].state = "active" /\ job'[y[1]].owner = y[2]
               /\ pc'[y] = pc[y]
    <2>1. pc' = pc /\ \A i \in Jobs \ {j} : job'[i] = job[i]
      BY <1>3 DEF StallDead, StallLive, ForgetJob, TypeOK
    <2>2. Live(y)' => Live(y)
      BY <1>1, <2>1 DEF Live
    <2>3. Live(y)' => y[1] # j
      <3>1. CASE StallLive(j)
        BY <3>1 DEF StallLive, Live
      <3>3. CASE ForgetJob(j)
        <4> SUFFICES ASSUME Live(y), y[1] = j PROVE FALSE
          BY <2>2
        <4>1. job[j].state = "active"
          BY DEF OneBuilder
        <4> QED
          BY <3>3, <4>1 DEF ForgetJob, Forgotten, Ended
      <3>2. CASE StallDead(j)
        <4> SUFFICES ASSUME Live(y), y[1] = j PROVE FALSE
          BY <2>2
        <4>1. y = <<j, job[j].owner>>
          BY Shapes DEF OneBuilder
        <4> QED
          BY <3>2, <4>1 DEF StallDead, Live
      <3> QED
        BY <1>3, <3>1, <3>2, <3>3
    <2> QED
      BY <2>1, <2>2, <2>3, Shapes DEF OneBuilder
  <1>4. ASSUME NEW x \in Executions, TakeJob(x), NEW y \in Executions
        PROVE  /\ Live(y)' => job'[y[1]].state = "active" /\ job'[y[1]].owner = y[2]
               /\ pc'[y] \in {"fetch", "complete"} => pc'[y] = pc[y]
    <2>1. /\ x[1] \in Jobs /\ job[x[1]] \in Job /\ job[x[1]].state = "waiting"
          /\ job' = [job EXCEPT ![x[1]] = Taken(job[x[1]], x[2])] /\ UNCHANGED expired
          /\ pc' = [pc EXCEPT ![x] = "read"]
      BY <1>4, Shapes DEF TakeJob, TypeOK, Run, Goes
    <2>2. CASE y[1] # x[1]
      BY <2>1, <2>2, Shapes DEF OneBuilder, Live, TypeOK
    <2>3. CASE y[1] = x[1] /\ y # x
      BY <2>1, <2>3, Shapes DEF OneBuilder, Live, TypeOK
    <2>4. CASE y = x
      BY <2>1, <2>4, Shapes DEF Taken, Job, TypeOK
    <2> QED
      BY <2>2, <2>3, <2>4
  <1>5. ASSUME NEW x \in Executions, RunReturns(x) \/ RunThrows(x), NEW y \in Executions
        PROVE  /\ Live(y)' => job'[y[1]].state = "active" /\ job'[y[1]].owner = y[2]
               /\ pc'[y] \in {"fetch", "complete"} => pc'[y] = pc[y]
    <2>1. /\ x[1] \in Jobs /\ job[x[1]] \in Job
          /\ \A i \in Jobs \ {x[1]} : job'[i] = job[i]
          /\ job[x[1]].owner # x[2] => job'[x[1]] = job[x[1]]
          /\ UNCHANGED expired /\ pc' = [pc EXCEPT ![x] = "end"]
      <3>1. x[1] \in Jobs /\ job[x[1]] \in Job
        BY Shapes DEF TypeOK
      <3>2. CASE RunReturns(x)
        BY <3>1, <3>2 DEF RunReturns, Resolved, TypeOK, Run, Goes
      <3>3. CASE RunThrows(x)
        <4>1. job[x[1]].owner # x[2] => Rejected(job[x[1]], x[2]) = job[x[1]]
          BY DEF Rejected
        <4> QED
          BY <3>1, <3>3, <4>1 DEF RunThrows, TypeOK, Run, Goes
      <3> QED
        BY <1>5, <3>1, <3>2, <3>3
    <2>2. CASE y[1] # x[1]
      BY <2>1, <2>2, Shapes DEF OneBuilder, Live, TypeOK
    <2>3. CASE y[1] = x[1] /\ y # x
      <3>1. y[2] # x[2]
        BY <2>3, Shapes
      <3> QED
        BY <2>1, <2>3, <3>1 DEF OneBuilder, Live, TypeOK
    <2>4. CASE y = x
      BY <2>1, <2>4 DEF Live, TypeOK
    <2> QED
      BY <2>2, <2>3, <2>4
  <1>6. /\ \A y \in Executions : Live(y)' => job'[y[1]].state = "active" /\ job'[y[1]].owner = y[2]
        /\ \A y \in Executions : pc'[y] \in {"fetch", "complete"} => pc'[y] = pc[y]
    BY <1>3, <1>4, <1>5
  <1> QED
    BY <1>1, <1>2, <1>6, QuietBuilders

\* A run that goes on, without its lock or its job changing.
LEMMA RunGoesOn ==
    ASSUME TypeOK, OneBuilder, NEW x \in Executions, pc[x] \notin {"idle", "end"},
           NEW label, Goes(x, label), UNCHANGED expired,
           \A j \in Jobs : job[j].state = "active" => job'[j] = job[j]
    PROVE  /\ \A y \in Executions : Live(y)' => job'[y[1]].state = "active" /\ job'[y[1]].owner = y[2]
           /\ \A y \in Executions : y # x => pc'[y] = pc[y]
           /\ pc'[x] = label
  <1>1. \A y \in Executions : (y # x => pc'[y] = pc[y]) /\ pc'[x] = label
    BY DEF Goes, TypeOK
  <1>2. \A y \in Executions : Live(y)' => Live(y)
    BY <1>1 DEF Live
  <1> QED
    BY <1>1, <1>2, Shapes DEF OneBuilder

\* The steps of a run that neither store an archive nor complete anything.
LEMMA PlainRuns ==
    ASSUME TypeOK, OneBuilder, NEW x \in Executions, UNCHANGED <<archive, expired, row>>,
           \/ CallFails(x) \/ Crash(x)
           \/ GetPortableExportBuildInput(x) \/ \E d \in Documents : GetCiphertext(x, d)
           \/ GetReportBuildInput(x) \/ EnqueueNotification(x)
           \/ GetNotificationDeliveryInput(x) \/ SendEmail(x) \/ AnswerLost(x)
           \/ CompleteNotificationDelivery(x) \/ RecordNotificationDeliveryFailure(x)
    PROVE  OneBuilder'
  <1>1. pc[x] \notin {"idle", "end"}
    BY DEF CallFails, Crash, GetPortableExportBuildInput, GetCiphertext, GetReportBuildInput,
           EnqueueNotification, GetNotificationDeliveryInput, SendEmail, AnswerLost,
           CompleteNotificationDelivery, RecordNotificationDeliveryFailure, At, WorkLabels
  <1>2. \A j \in Jobs : job[j].state = "active" => job'[j] = job[j]
    <2>1. CASE UNCHANGED job
      BY <2>1
    <2>2. CASE EnqueueNotification(x)
      BY <2>2, Shapes DEF EnqueueNotification, Added, TypeOK, At
    <2>3. UNCHANGED job \/ EnqueueNotification(x)
      BY DEF CallFails, Crash, GetPortableExportBuildInput, GetCiphertext, GetReportBuildInput,
             GetNotificationDeliveryInput, SendEmail, AnswerLost, CompleteNotificationDelivery,
             RecordNotificationDeliveryFailure
    <2> QED
      BY <2>1, <2>2, <2>3
  <1>3. PICK label : /\ Goes(x, label)
                     /\ (x[1][2] = "privacy-export" /\ label \in {"fetch", "complete"}) =>
                           label = pc[x] \/ (label = "fetch" /\ ~Completed(Subject(x)))
    <2>1. CASE CallFails(x) \/ Crash(x)
      BY <2>1 DEF CallFails, Crash
    <2>2. CASE GetPortableExportBuildInput(x)
      BY <2>2 DEF GetPortableExportBuildInput, ExportBranch
    <2>3. CASE \E d \in Documents : GetCiphertext(x, d)
      BY <2>3 DEF GetCiphertext, At
    <2>4. CASE GetReportBuildInput(x) \/ EnqueueNotification(x)
      BY <2>4 DEF GetReportBuildInput, EnqueueNotification, At
    <2>5. CASE GetNotificationDeliveryInput(x)
      BY <2>5 DEF GetNotificationDeliveryInput, At
    <2>6. CASE SendEmail(x) \/ AnswerLost(x)
      BY <2>6 DEF SendEmail, AnswerLost, At
    <2>7. CASE CompleteNotificationDelivery(x) \/ RecordNotificationDeliveryFailure(x)
      BY <2>7 DEF CompleteNotificationDelivery, RecordNotificationDeliveryFailure, At
    <2> QED
      BY <2>1, <2>2, <2>3, <2>4, <2>5, <2>6, <2>7
  <1>4. /\ \A y \in Executions : Live(y)' => job'[y[1]].state = "active" /\ job'[y[1]].owner = y[2]
        /\ \A y \in Executions : y # x => pc'[y] = pc[y]
        /\ pc'[x] = label
    BY <1>1, <1>2, <1>3, RunGoesOn
  <1>5. \A e \in Exports : Completed(e)' = Completed(e) /\ row'[e].by = row[e].by
    BY DEF Completed
  <1> QED
    BY <1>3, <1>4, <1>5, QuietBuilders

\* A report that is completed is no export.
LEMMA ReportBuilders ==
    ASSUME TypeOK, OneBuilder, NEW x \in Executions, CompleteReport(x)
    PROVE  OneBuilder'
  <1>1. /\ pc[x] = "complete" /\ x[1][2] = "report-generate" /\ Goes(x, Announced(Subject(x)))
        /\ UNCHANGED <<job, expired, archive>>
    BY DEF CompleteReport, At, storeVars
  <1>2. \A e \in Exports : row'[e] = row[e]
    BY Shapes, JobsAssumption DEF CompleteReport, Completes, At, TypeOK
  <1>3. /\ \A y \in Executions : Live(y)' => job'[y[1]].state = "active" /\ job'[y[1]].owner = y[2]
        /\ \A y \in Executions : y # x => pc'[y] = pc[y]
    BY <1>1, RunGoesOn
  <1>4. \A e \in Exports : Completed(e)' = Completed(e) /\ row'[e].by = row[e].by
    BY <1>2 DEF Completed
  <1> QED
    BY <1>1, <1>3, <1>4, QuietBuilders

\* The archive is replaced, and the export completed, by the only live run.
LEMMA ExportBuilders ==
    ASSUME TypeOK, OneBuilder, NEW x \in Executions,
           PutGeneratedExport(x) \/ CompletePortableExport(x)
    PROVE  OneBuilder'
  <1> DEFINE e == Subject(x)
  <1>1. /\ pc[x] \in {"fetch", "complete"} /\ x[1][2] = "privacy-export" /\ e \in Exports
        /\ e \in Work /\ x[1] = JobOf(e) /\ UNCHANGED <<job, expired>>
    BY Shapes DEF PutGeneratedExport, CompletePortableExport, At
  <1>2. \A y \in Executions : (Live(y) /\ y[1] = x[1] /\ y # x) => x[1] \in expired
    <2> SUFFICES ASSUME NEW y \in Executions, Live(y), y[1] = x[1], y # x, x[1] \notin expired
                 PROVE  FALSE
      OBVIOUS
    <2>1. Live(x)
      BY <1>1 DEF Live
    <2> QED
      BY <2>1, Shapes DEF OneBuilder
  <1>3. \A y \in Executions : (y[1][2] = "privacy-export" /\ Subject(y) = e) => y[1] = x[1]
    BY <1>1, Shapes
  <1>4. \A f \in Exports : JobOf(f) = x[1] => f = e
    BY <1>1 DEF JobOf
  <1>5. CASE PutGeneratedExport(x)
    <2>1. /\ Goes(x, "complete") /\ UNCHANGED row /\ archive' = [archive EXCEPT ![e] = Run(x)]
          /\ pc[x] = "fetch"
      BY <1>5 DEF PutGeneratedExport, At, recordVars
    <2>2. /\ \A y \in Executions : Live(y)' => job'[y[1]].state = "active" /\ job'[y[1]].owner = y[2]
          /\ \A y \in Executions : y # x => pc'[y] = pc[y]
          /\ pc'[x] = "complete"
      BY <1>1, <2>1, RunGoesOn
    <2>3. archive'[e] = Run(x) /\ \A f \in Exports : f # e => archive'[f] = archive[f]
      BY <1>1, <2>1 DEF TypeOK
    <2>4. x[1] \notin expired => ~Completed(e)
      BY <1>1 DEF OneBuilder, Live
    <2>5. ASSUME NEW y \in Executions, Live(y)', y[1][2] = "privacy-export"
          PROVE  /\ pc'[y] \in {"fetch", "complete"} => ~Completed(Subject(y))'
                 /\ pc'[y] = "complete" => archive'[Subject(y)] = Run(y)
      <3>1. CASE y = x
        BY <1>1, <2>1, <2>2, <2>3, <2>4, <2>5, <3>1 DEF Live, Completed
      <3>2. CASE y # x
        <4>1. Live(y) /\ pc'[y] = pc[y] /\ y[1] \notin expired
          BY <1>1, <2>2, <2>5, <3>2 DEF Live
        <4>2. Subject(y) # e /\ Subject(y) \in Exports
          BY <1>2, <1>3, <2>5, <3>2, <4>1, Shapes
        <4> QED
          BY <2>1, <2>3, <2>5, <4>1, <4>2 DEF OneBuilder, Completed
      <3> QED
        BY <3>1, <3>2
    <2>6. ArchiveHasDigest'
      BY <1>1, <2>1, <2>3, <2>4 DEF OneBuilder, ArchiveHasDigest, Download, Completed
    <2> QED
      BY <2>2, <2>5, <2>6 DEF OneBuilder
  <1>6. CASE CompletePortableExport(x)
    <2>1. /\ Goes(x, IF ExportCurrent(e) THEN "return" ELSE "throw") /\ UNCHANGED archive
          /\ pc[x] = "complete"
          /\ IF ExportCurrent(e) THEN Completes(e, Run(x)) ELSE UNCHANGED <<row, wf>>
      BY <1>6 DEF CompletePortableExport, At, storeVars
    <2>2. /\ \A y \in Executions : Live(y)' => job'[y[1]].state = "active" /\ job'[y[1]].owner = y[2]
          /\ \A y \in Executions : y # x => pc'[y] = pc[y]
          /\ pc'[x] \in {"return", "throw"}
      BY <1>1, <2>1, RunGoesOn
    <2>3. /\ \A f \in Exports : f # e => row'[f] = row[f]
          /\ ~Completed(e) => row'[e].by = Run(x)
          /\ Completed(e) => row'[e] = row[e]
      <3>1. CASE ExportCurrent(e)
        BY <1>1, <2>1, <3>1, Shapes DEF Completes, ExportCurrent, Completed, TypeOK
      <3>2. CASE ~ExportCurrent(e)
        BY <2>1, <3>2 DEF ExportCurrent
      <3> QED
        BY <3>1, <3>2
    <2>4. x[1] \notin expired => ~Completed(e) /\ archive[e] = Run(x)
      BY <1>1, <2>1 DEF OneBuilder, Live
    <2>5. ASSUME NEW y \in Executions, Live(y)', y[1][2] = "privacy-export"
          PROVE  /\ pc'[y] \in {"fetch", "complete"} => ~Completed(Subject(y))'
                 /\ pc'[y] = "complete" => archive'[Subject(y)] = Run(y)
      <3>1. CASE y = x
        BY <2>2, <3>1
      <3>2. CASE y # x
        <4>1. Live(y) /\ pc'[y] = pc[y] /\ y[1] \notin expired
          BY <1>1, <2>2, <2>5, <3>2 DEF Live
        <4>2. Subject(y) # e /\ Subject(y) \in Exports
          BY <1>2, <1>3, <2>5, <3>2, <4>1, Shapes
        <4> QED
          BY <2>1, <2>3, <2>5, <4>1, <4>2 DEF OneBuilder, Completed
      <3> QED
        BY <3>1, <3>2
    <2>6. ArchiveHasDigest'
      BY <1>1, <2>1, <2>3, <2>4 DEF OneBuilder, ArchiveHasDigest, Download, Completed
    <2> QED
      BY <2>2, <2>5, <2>6 DEF OneBuilder
  <1> QED
    BY <1>5, <1>6

\* Every step keeps the builders apart.
LEMMA StepOneBuilder == ASSUME TypeOK, OneBuilder, [Next]_vars PROVE OneBuilder'
  <1>1. ASSUME NEW x \in Executions,
               \/ CallFails(x) \/ Crash(x)
               \/ GetPortableExportBuildInput(x) \/ \E d \in Documents : GetCiphertext(x, d)
               \/ GetReportBuildInput(x) \/ EnqueueNotification(x)
               \/ GetNotificationDeliveryInput(x) \/ SendEmail(x) \/ AnswerLost(x)
               \/ CompleteNotificationDelivery(x) \/ RecordNotificationDeliveryFailure(x)
        PROVE  OneBuilder'
    <2>1. UNCHANGED <<archive, expired, row>>
      BY <1>1 DEF CallFails, Crash, GetPortableExportBuildInput, GetCiphertext, GetReportBuildInput,
                  EnqueueNotification, GetNotificationDeliveryInput, SendEmail, AnswerLost,
                  CompleteNotificationDelivery, RecordNotificationDeliveryFailure, recordVars,
                  storeVars
    <2> QED
      BY <1>1, <2>1, PlainRuns
  <1>2. ASSUME NEW x \in Executions, Handler(x) \/ AnswerLost(x) \/ CallFails(x) \/ Crash(x)
        PROVE  OneBuilder'
    BY <1>1, <1>2, ReportBuilders, ExportBuilders DEF Handler
  <1> QED
    BY <1>2, RequestBuilders, QueueBuilders DEF Next, RunStep

-----------------------------------------------------------------------------
\* Of exports, reports and deliveries: the inductive invariant holds of every
\* reachable state.
THEOREM Invariance == Spec => []IInv
  <1>1. IInv /\ [Next]_vars => IInv'
    BY StepTypes, StepJobsAreTaken, StepRequestOrder, StepDeliveryKey, StepOneBuilder DEF IInv
  <1> QED
    BY <1>1, InitInv, PTL DEF Spec

\* The tables, the queue and the runs always have their types.
THEOREM Typed == Spec => []TypeOK
  <1>1. IInv => TypeOK
    BY DEF IInv
  <1> QED
    BY <1>1, Invariance, PTL

\* The archive that putGeneratedExport stored last is the one whose digest
\* completePortableExport recorded, unless a run outlived its lock.
THEOREM DigestsMatch == Spec => []ArchiveHasDigest
  <1>1. IInv => ArchiveHasDigest
    BY DEF IInv, OneBuilder
  <1> QED
    BY <1>1, Invariance, PTL

\* The delivery's id, kept by getNotificationDeliveryInput, makes the provider send
\* one e-mail for a review.
THEOREM OneEmail == Spec => []EmailSentOnce
  <1>1. IInv => EmailSentOnce
    <2> SUFFICES ASSUME IInv PROVE EmailSentOnce
      OBVIOUS
    <2>1. ASSUME NEW m \in emails, NEW n \in emails, m[1] = n[1]
          PROVE  m = n
      <3>1. m[2] = n[2]
        BY <2>1 DEF IInv, DeliveryKey
      <3>2. m = <<m[1], m[2]>> /\ n = <<n[1], n[2]>>
        BY DEF IInv, TypeOK
      <3> QED
        BY <2>1, <3>1, <3>2
    <2>2. \A r \in Reports : delivery[r].status = "sent" => <<r, delivery[r].message>> \in emails
      BY DEF IInv, DeliveryKey
    <2> QED
      BY <2>1, <2>2 DEF EmailSentOnce
  <1> QED
    BY <1>1, Invariance, PTL

\* The API answers 202 only for what it has queued.
THEOREM AcceptedIsQueued == Spec => []AnsweredIsQueued
  <1>1. IInv => AnsweredIsQueued
    BY DEF IInv, RequestOrder
  <1> QED
    BY <1>1, Invariance, PTL

\* What a step does to rows and deliveries that are final.
LEMMA FinalStays ==
    ASSUME IInv, [Next]_vars
    PROVE  /\ \A w \in Work : Completed(w) => row'[w] = row[w]
           /\ \A r \in Reports : delivery[r].status = "sent" => delivery'[r] = delivery[r]
  <1> USE DEF IInv, TypeOK, recordVars
  <1> DEFINE Final == /\ \A w \in Work : Completed(w) => row'[w] = row[w]
                      /\ \A r \in Reports : delivery[r].status = "sent" => delivery'[r] = delivery[r]
  <1>1. CASE UNCHANGED <<row, delivery>>
    BY <1>1
  <1>2. ASSUME NEW e \in Exports, StartPortableExport(e)
        PROVE  Final
    BY <1>2, Shapes DEF StartPortableExport, Pending, Completed
  <1>3. ASSUME NEW r \in Reports, StartReport(r)
        PROVE  Final
    BY <1>3, Shapes DEF StartReport, Pending, Completed, RequestOrder
  <1>4. ASSUME NEW x \in Executions, CompletePortableExport(x) \/ CompleteReport(x)
        PROVE  Final
    BY <1>4, Shapes DEF CompletePortableExport, CompleteReport, ExportCurrent, ReportCurrent,
                        Completes, Completed, At
  <1>5. ASSUME NEW x \in Executions, GetNotificationDeliveryInput(x)
        PROVE  Final
    BY <1>5, Shapes DEF GetNotificationDeliveryInput, Reserved, At
  <1>6. ASSUME NEW x \in Executions, CompleteNotificationDelivery(x)
        PROVE  Final
    BY <1>6, Shapes DEF CompleteNotificationDelivery, At
  <1>7. ASSUME NEW x \in Executions, RecordNotificationDeliveryFailure(x)
        PROVE  Final
    BY <1>7, Shapes DEF RecordNotificationDeliveryFailure, Failed, At
  <1>8. ASSUME NEW x \in Executions,
               \/ TakeJob(x) \/ RunReturns(x) \/ RunThrows(x) \/ CallFails(x) \/ Crash(x)
               \/ GetPortableExportBuildInput(x) \/ \E d \in Documents : GetCiphertext(x, d)
               \/ PutGeneratedExport(x) \/ GetReportBuildInput(x) \/ EnqueueNotification(x)
               \/ SendEmail(x) \/ AnswerLost(x)
        PROVE  Final
    BY <1>8, <1>1 DEF TakeJob, RunReturns, RunThrows, CallFails, Crash, GetPortableExportBuildInput,
                 GetCiphertext, PutGeneratedExport, GetReportBuildInput, EnqueueNotification,
                 SendEmail, AnswerLost
  <1>9. ASSUME NEW j \in Jobs, StallDead(j) \/ StallLive(j) \/ ForgetJob(j)
        PROVE  Final
    BY <1>1, <1>9 DEF StallDead, StallLive, ForgetJob
  <1>10. ASSUME NEW w \in Work, Enqueue(w) \/ RequestFails(w) \/ StoreAnswer(w) \/ ReserveReport(w)
         PROVE  Final
    BY <1>1, <1>10 DEF Enqueue, RequestFails, StoreAnswer, ReserveReport
  <1>11. ASSUME \/ \E d \in Documents : AddDocument(d) \/ DeleteOriginal(d)
                \/ DecideManualFact \/ DecideConsent \/ UNCHANGED vars
         PROVE  Final
    BY <1>1, <1>11 DEF AddDocument, DeleteOriginal, DecideManualFact, DecideConsent, vars
  <1>12. ASSUME NEW x \in Executions, RunStep(x) \/ AnswerLost(x) \/ CallFails(x) \/ Crash(x)
         PROVE  Final
    BY <1>4, <1>5, <1>6, <1>7, <1>8, <1>12 DEF RunStep, Handler
  <1>13. ASSUME NEW w \in Work, Answering(w)
         PROVE  Final
    BY <1>3, <1>10, <1>13 DEF Answering
  <1> HIDE DEF Final, IInv, TypeOK
  <1>14. Final
    BY <1>2, <1>9, <1>10, <1>11, <1>12, <1>13, Shapes DEF Next
  <1> QED
    BY <1>14 DEF Final

\* completePortableExport, completeReport and completeNotificationDelivery write once.
THEOREM CompletionIsFinal == Spec => CompletedIsFinal
  <1>1. IInv /\ [Next]_vars =>
          [/\ \A w \in Work : Completed(w) => row'[w] = row[w]
           /\ \A r \in Reports : delivery[r].status = "sent" => delivery'[r] = delivery[r]]_vars
    BY FinalStays
  <1> QED
    BY <1>1, Invariance, PTL DEF Spec, CompletedIsFinal

-----------------------------------------------------------------------------
(* Refinement                                                                *)

Announces(r) == Completed(r) /\ kind[r] = "annual-review"

\* Rows and workflows move together, nothing is queued or run before its row exists,
\* and only a completed review has an e-mail under way.
Stages ==
    /\ \A w \in Work : wf[w] = row[w].status
    /\ \A w \in Work : api[w] \in {"enqueue", "store"} => row[w].status # "absent"
    /\ \A w \in Queued : row[w].status # "absent"
    /\ \A x \in Executions : Sending(x) => Announces(Subject(x))

\* Which steps write a row: the start of an export or a report, and its completion.
LEMMA RowWriters ==
    ASSUME [Next]_vars
    PROVE  /\ kind' = kind
           /\ \/ UNCHANGED <<row, wf>>
              \/ \E e \in Exports : StartPortableExport(e)
              \/ \E r \in Reports : StartReport(r)
              \/ \E x \in Executions : CompletePortableExport(x) \/ CompleteReport(x)
  <1> USE DEF recordVars
  <1>1. /\ \A d \in Documents : AddDocument(d) \/ DeleteOriginal(d) => UNCHANGED <<row, wf, kind>>
        /\ DecideManualFact \/ DecideConsent => UNCHANGED <<row, wf, kind>>
        /\ UNCHANGED vars => UNCHANGED <<row, wf, kind>>
    BY DEF AddDocument, DeleteOriginal, DecideManualFact, DecideConsent, vars
  <1>2. /\ \A e \in Exports : StartPortableExport(e) => kind' = kind
        /\ \A r \in Reports : ReserveReport(r) => UNCHANGED <<row, wf, kind>>
        /\ \A w \in Work : RequestFails(w) \/ Enqueue(w) \/ StoreAnswer(w) =>
              UNCHANGED <<row, wf, kind>>
        /\ \A w \in Work : StartReport(w) => kind' = kind
    BY DEF StartPortableExport, ReserveReport, RequestFails, Enqueue, StoreAnswer, StartReport
  <1>3. \A j \in Jobs : StallDead(j) \/ StallLive(j) \/ ForgetJob(j) => UNCHANGED <<row, wf, kind>>
    BY DEF StallDead, StallLive, ForgetJob
  <1>4. \A x \in Executions :
           TakeJob(x) \/ RunReturns(x) \/ RunThrows(x) \/ AnswerLost(x) \/ CallFails(x) \/ Crash(x)
           => UNCHANGED <<row, wf, kind>>
    BY DEF TakeJob, RunReturns, RunThrows, AnswerLost, CallFails, Crash
  <1>5. \A x \in Executions :
           /\ CompletePortableExport(x) \/ CompleteReport(x) => kind' = kind
           /\ (Handler(x) /\ ~CompletePortableExport(x) /\ ~CompleteReport(x)) =>
                 UNCHANGED <<row, wf, kind>>
    BY DEF Handler, CompletePortableExport, CompleteReport, GetPortableExportBuildInput,
           GetCiphertext, PutGeneratedExport, GetReportBuildInput, EnqueueNotification,
           GetNotificationDeliveryInput, SendEmail, CompleteNotificationDelivery,
           RecordNotificationDeliveryFailure
  <1> QED
    BY <1>1, <1>2, <1>3, <1>4, <1>5 DEF Next, Answering, RunStep

\* A row and its workflow are written together, and forward.
LEMMA RowStages ==
    ASSUME IInv, Stages, [Next]_vars
    PROVE  /\ \A w \in Work : wf'[w] = row'[w].status
           /\ \A w \in Work : row[w].status # "absent" => row'[w].status # "absent"
           /\ kind' = kind
  <1> USE DEF IInv, TypeOK, Stages
  <1> DEFINE Forward == /\ \A w \in Work : wf'[w] = row'[w].status
                        /\ \A w \in Work : row[w].status # "absent" => row'[w].status # "absent"
  <1>1. \A w \in Work : row[w] \in Row
    OBVIOUS
  <1>2. ASSUME UNCHANGED <<row, wf>> PROVE Forward
    BY <1>2
  <1>3. ASSUME NEW w \in Work, Pending(w) PROVE Forward
    BY <1>1, <1>3 DEF Pending, Row
  <1>4. ASSUME NEW w \in Work, NEW run, Completes(w, run) PROVE Forward
    BY <1>4 DEF Completes
  <1> HIDE DEF Forward
  <1>5. ASSUME NEW e \in Exports, StartPortableExport(e) PROVE Forward
    BY <1>2, <1>3, <1>5, Shapes DEF StartPortableExport, Forward
  <1>6. ASSUME NEW r \in Reports, StartReport(r) PROVE Forward
    BY <1>3, <1>6, Shapes DEF StartReport
  <1>7. ASSUME NEW x \in Executions, CompletePortableExport(x) \/ CompleteReport(x) PROVE Forward
    <2>1. Subject(x) \in Work
      BY <1>7, Shapes DEF CompletePortableExport, CompleteReport, At
    <2>2. UNCHANGED <<row, wf>> \/ Completes(Subject(x), Run(x))
      BY <1>7 DEF CompletePortableExport, CompleteReport
    <2> QED
      BY <1>2, <1>4, <2>1, <2>2 DEF Forward
  <1>8. Forward
    BY <1>2, <1>5, <1>6, <1>7, RowWriters DEF Forward
  <1> QED
    BY <1>8, RowWriters DEF Forward

\* A request goes to the queue, or on from it, after its row was written.
LEMMA RequestStages ==
    ASSUME IInv, Stages, [Next]_vars
    PROVE  \A w \in Work : api'[w] \in {"enqueue", "store"} => row'[w].status # "absent"
  <1> USE DEF IInv, TypeOK, recordVars, requestVars
  <1> DEFINE Old == \A w \in Work : api'[w] \in {"enqueue", "store"} => api[w] \in {"enqueue", "store"}
             Goal == \A w \in Work : api'[w] \in {"enqueue", "store"} => row'[w].status # "absent"
  <1>0. \A w \in Work : row[w].status # "absent" => row'[w].status # "absent"
    BY RowStages
  <1>1. ASSUME Old PROVE Goal
    BY <1>0, <1>1 DEF Stages
  <1>2. ASSUME NEW w \in Work, Pending(w) \/ row[w].status # "absent",
               \A v \in Work \ {w} : api'[v] = api[v]
        PROVE  Goal
    <2>1. row'[w].status # "absent"
      BY <1>0, <1>2 DEF Pending, Row
    <2> QED
      BY <1>0, <1>2, <2>1 DEF Stages
  <1>3. ASSUME NEW e \in Exports, StartPortableExport(e) PROVE Goal
    BY <1>2, <1>3, Shapes DEF StartPortableExport
  <1>4. ASSUME NEW r \in Reports, StartReport(r) PROVE Goal
    BY <1>2, <1>4, Shapes DEF StartReport
  <1>5. /\ \A w \in Work : Enqueue(w) \/ RequestFails(w) => Old
        /\ \A r \in Reports : StoreAnswer(r) \/ ReserveReport(r) => Old
    BY Shapes DEF Enqueue, RequestFails, StoreAnswer, ReserveReport
  <1> HIDE DEF Goal, Old
  <1>6. UNCHANGED api => Old
    BY DEF Old
  <1>7. /\ \A d \in Documents : AddDocument(d) \/ DeleteOriginal(d) => UNCHANGED api
        /\ DecideManualFact \/ DecideConsent \/ UNCHANGED vars => UNCHANGED api
        /\ \A j \in Jobs : StallDead(j) \/ StallLive(j) \/ ForgetJob(j) => UNCHANGED api
        /\ \A x \in Executions : RunStep(x) \/ AnswerLost(x) \/ CallFails(x) \/ Crash(x) => UNCHANGED api
    BY DEF AddDocument, DeleteOriginal, DecideManualFact, DecideConsent, vars, StallDead, StallLive, ForgetJob,
           RunStep, Handler, TakeJob, RunReturns, RunThrows, AnswerLost, CallFails, Crash,
           GetPortableExportBuildInput, GetCiphertext, PutGeneratedExport, CompletePortableExport,
           GetReportBuildInput, CompleteReport, EnqueueNotification, GetNotificationDeliveryInput,
           SendEmail, CompleteNotificationDelivery, RecordNotificationDeliveryFailure
  <1>8. \A w \in Work : Answering(w) \/ RequestFails(w) => Old \/ Goal
    BY <1>4, <1>5 DEF Answering
  <1>9. \A r \in Reports : ReserveReport(r) => Old
    BY <1>5, Shapes
  <1>10. Old \/ Goal
    BY <1>3, <1>6, <1>7, <1>8, <1>9 DEF Next
  <1> QED
    BY <1>1, <1>10 DEF Goal

\* Only takeJob begins a run, and only getNotificationDeliveryInput finds an eligible
\* delivery to send.
LEMMA RunSteps ==
    ASSUME IInv, [Next]_vars, NEW x \in Executions
    PROVE  /\ pc'[x] # "idle" => pc[x] # "idle" \/ job[x[1]].state # "absent"
           /\ Sending(x)' => Sending(x) \/ Announces(Subject(x))
  <1> USE DEF IInv, TypeOK
  <1> DEFINE Fine == /\ pc'[x] # "idle" => pc[x] # "idle" \/ job[x[1]].state # "absent"
                     /\ Sending(x)' => Sending(x) \/ Announces(Subject(x))
  <1>1. UNCHANGED pc => Fine
    BY DEF Sending
  <1>2. ASSUME NEW y \in Executions, NEW label, Goes(y, label), 
               pc[y] # "idle" \/ job[y[1]].state # "absent",
               \/ label \notin {"send", "settle", "recordFailure"}
               \/ pc[y] \in {"send", "settle", "recordFailure"}
               \/ Announces(Subject(y))
        PROVE  Fine
    BY <1>2 DEF Goes, Sending
  <1> HIDE DEF Fine
  <1>3. ASSUME NEW y \in Executions, TakeJob(y) \/ RunReturns(y) \/ RunThrows(y) \/ Crash(y)
        PROVE  Fine
    BY <1>2, <1>3 DEF TakeJob, RunReturns, RunThrows, Crash
  <1>4. ASSUME NEW y \in Executions, CallFails(y) PROVE Fine
    BY <1>2, <1>4 DEF CallFails, WorkLabels
  <1>5. ASSUME NEW y \in Executions,
               \/ GetPortableExportBuildInput(y) \/ \E d \in Documents : GetCiphertext(y, d)
               \/ PutGeneratedExport(y) \/ CompletePortableExport(y)
               \/ GetReportBuildInput(y) \/ CompleteReport(y) \/ EnqueueNotification(y)
        PROVE  Fine
    <2>1. PICK label \in Labels \ {"send", "settle", "recordFailure"} : Goes(y, label) /\ pc[y] # "idle"
      BY <1>5 DEF GetPortableExportBuildInput, ExportBranch, GetCiphertext, PutGeneratedExport,
         CompletePortableExport, GetReportBuildInput, ReportBranch, CompleteReport,
         EnqueueNotification, Announced, At, Labels, WorkLabels
    <2> QED
      BY <1>2, <2>1
  <1>6. ASSUME NEW y \in Executions,
               \/ SendEmail(y) \/ AnswerLost(y) \/ CompleteNotificationDelivery(y)
               \/ RecordNotificationDeliveryFailure(y)
        PROVE  Fine
    <2>1. PICK label \in Labels : Goes(y, label) /\ pc[y] \in {"send", "settle", "recordFailure"}
      BY <1>6 DEF SendEmail, AnswerLost, CompleteNotificationDelivery,
         RecordNotificationDeliveryFailure, At, Labels, WorkLabels
    <2> QED
      BY <1>2, <2>1
  <1>7. ASSUME NEW y \in Executions, GetNotificationDeliveryInput(y) PROVE Fine
    <2>1. /\ pc[y] # "idle"
          /\ \E label \in {"return", "send"} :
                Goes(y, label) /\ (label = "send" => Announces(Subject(y)))
      BY <1>7 DEF GetNotificationDeliveryInput, At, Eligible, Announces
    <2> QED
      BY <1>2, <1>7, <2>1
  <1>8. \A y \in Executions : RunStep(y) \/ AnswerLost(y) \/ CallFails(y) \/ Crash(y) => Fine
    BY <1>3, <1>4, <1>5, <1>6, <1>7 DEF RunStep, Handler
  <1>9. /\ \A d \in Documents : AddDocument(d) \/ DeleteOriginal(d) => UNCHANGED pc
        /\ DecideManualFact \/ DecideConsent \/ UNCHANGED vars => UNCHANGED pc
        /\ \A e \in Exports : StartPortableExport(e) => UNCHANGED pc
        /\ \A r \in Reports : ReserveReport(r) => UNCHANGED pc
        /\ \A w \in Work : Answering(w) \/ RequestFails(w) => UNCHANGED pc
        /\ \A j \in Jobs : StallDead(j) \/ StallLive(j) \/ ForgetJob(j) => UNCHANGED pc
    BY DEF AddDocument, DeleteOriginal, DecideManualFact, DecideConsent, vars, StartPortableExport,
       ReserveReport, Answering, StartReport, StoreAnswer, Enqueue, RequestFails, StallDead, StallLive, ForgetJob,
       runVars
  <1>10. Fine
    BY <1>1, <1>8, <1>9 DEF Next
  <1> QED
    BY <1>10 DEF Fine

\* A step that adds no export's or report's job brings none into the queue.
LEMMA QueuedKept ==
    ASSUME IInv, [Next]_vars,
           \A w \in Work : job[JobOf(w)].state = "absent" => job'[JobOf(w)].state = "absent"
    PROVE  Queued' = Queued
  <1>1. Queued \subseteq Queued'
    BY QueuedStays DEF IInv
  <1>2. ASSUME NEW w \in Work, Known(JobOf(w))', ~Known(JobOf(w))
        PROVE  FALSE
    <2>1. job[JobOf(w)].state = "absent" /\ job'[JobOf(w)].state = "absent"
      BY <1>2 DEF Known
    <2>2. PICK run \in Runs : pc'[<<JobOf(w), run>>] # "idle"
      BY <1>2, <2>1 DEF Known
    <2>3. pc[<<JobOf(w), run>>] # "idle" \/ job[JobOf(w)].state # "absent"
      BY <2>2, Shapes, RunSteps DEF Executions
    <2> QED
      BY <1>2, <2>1, <2>3 DEF Known
  <1> QED
    BY <1>1, <1>2 DEF Queued

\* Only enqueueWorkflow brings an export or a report into the queue.
LEMMA QueuedSteps ==
    ASSUME IInv, [Next]_vars
    PROVE  Queued' = Queued \/ \E w \in Work : Enqueue(w)
  <1> USE DEF IInv, TypeOK
  <1> DEFINE Same == \A w \in Work : job[JobOf(w)].state = "absent" => job'[JobOf(w)].state = "absent"
  <1>1. UNCHANGED job => Same
    OBVIOUS
  <1>2. ASSUME NEW i \in Jobs, StallDead(i) \/ StallLive(i) \/ ForgetJob(i) PROVE Same
    <2>1. job[i].state # "absent" /\ \A j \in Jobs \ {i} : job'[j] = job[j]
      BY <1>2 DEF StallDead, StallLive, ForgetJob, Forgotten, Ended
    <2> QED
      BY <2>1, Shapes
  <1>3. ASSUME NEW x \in Executions, TakeJob(x) PROVE Same
    <2>1. job[x[1]].state # "absent" /\ \A i \in Jobs \ {x[1]} : job'[i] = job[i]
      BY <1>3 DEF TakeJob
    <2> QED
      BY <2>1, Shapes
  <1>4. ASSUME NEW x \in Executions, RunReturns(x) \/ RunThrows(x) PROVE Queued' = Queued
    <2>1. x[1] \in Jobs /\ x = <<x[1], x[2]>> /\ x[2] \in Runs /\ pc[x] # "idle" /\ pc'[x] # "idle"
      BY <1>4, Shapes DEF RunReturns, RunThrows, Goes
    <2>2. \A i \in Jobs \ {x[1]} : job'[i] = job[i]
      BY <1>4 DEF RunReturns, RunThrows
    <2>3. \A y \in Executions \ {x} : pc'[y] = pc[y]
      BY <1>4 DEF RunReturns, RunThrows, Goes
    <2>4. ASSUME NEW w \in Work PROVE Known(JobOf(w))' <=> Known(JobOf(w))
      <3>1. CASE JobOf(w) = x[1]
        BY <2>1, <3>1 DEF Known
      <3>2. CASE JobOf(w) # x[1]
        <4>1. \A run \in Runs : <<JobOf(w), run>> \in Executions \ {x}
          BY <2>1, <3>2, Shapes DEF Executions
        <4> QED
          BY <2>2, <2>3, <3>2, <4>1, Shapes DEF Known
      <3> QED
        BY <3>1, <3>2
    <2> QED
      BY <2>4 DEF Queued
  <1>5. ASSUME NEW x \in Executions, EnqueueNotification(x) PROVE Same
    <2>1. \A w \in Work : JobOf(w) # NoteOf(Subject(x))
      BY DEF JobOf, NoteOf, NameOf
    <2> QED
      BY <1>5, <2>1, Shapes DEF EnqueueNotification
  <1>6. ASSUME Same PROVE Queued' = Queued
    BY <1>6, QueuedKept
  <1> HIDE DEF Same
  <1> QED
    BY <1>1, <1>2, <1>3, <1>4, <1>5, <1>6, JobWriters

\* Every step keeps rows, queue, requests and runs at stages that go together.
LEMMA StepStages == ASSUME IInv, Stages, [Next]_vars PROVE Stages'
  <1> USE DEF IInv, TypeOK
  <1>1. /\ \A w \in Work : wf'[w] = row'[w].status
        /\ \A w \in Work : row[w].status # "absent" => row'[w].status # "absent"
        /\ kind' = kind
    BY RowStages
  <1>2. \A w \in Work : api'[w] \in {"enqueue", "store"} => row'[w].status # "absent"
    BY RequestStages
  <1>3. \A w \in Queued' : row'[w].status # "absent"
    <2>1. ASSUME NEW v \in Work, Enqueue(v) PROVE \A w \in Queued' : row[w].status # "absent"
      <3>1. row[v].status # "absent"
        BY <2>1 DEF Enqueue, Stages
      <3> QED
        BY <2>1, <3>1, EnqueueQueues DEF Stages
    <2>2. \A w \in Queued' : row[w].status # "absent"
      BY <2>1, QueuedSteps DEF Stages
    <2> QED
      BY <1>1, <2>2 DEF Queued
  <1>4. \A x \in Executions : Sending(x)' => Announces(Subject(x))'
    <2>1. ASSUME NEW x \in Executions, Sending(x)'
          PROVE  Announces(Subject(x)) /\ Subject(x) \in Work
      <3>1. Subject(x) \in Work
        BY <2>1, Shapes DEF Sending
      <3> QED
        BY <2>1, <3>1, RunSteps DEF Stages
    <2> QED
      BY <1>1, <2>1, FinalStays DEF Completed, Announces
  <1> QED
    BY <1>1, <1>2, <1>3, <1>4 DEF Stages

\* The stages hold of every reachable state.
LEMMA StagesAlways == Spec => []Stages
  <1>1. Init => Stages
    <2> SUFFICES ASSUME Init PROVE Stages
      OBVIOUS
    <2>1. Queued = {}
      BY Shapes DEF Init, Queued, Known, NoJob, Executions
    <2> QED
      BY <2>1, Shapes DEF Init, Stages, NoRow, Sending
  <1>2. IInv /\ Stages /\ [Next]_vars => Stages'
    BY StepStages
  <1> QED
    BY <1>1, <1>2, Invariance, PTL DEF Spec

\* What the promise shows of rows and workflows that agree is the rows.
LEMMA OutcomeIsRow ==
    ASSUME IInv, Stages PROVE [w \in Work |-> Outcome(w)] = row
  BY DEF IInv, TypeOK, Stages, Outcome

\* The same after a step, whose invariants are those of its end.
LEMMA OutcomesAreRows ==
    ASSUME IInv, Stages, [Next]_vars
    PROVE  /\ [w \in Work |-> Outcome(w)] = row
           /\ [w \in Work |-> Outcome(w)]' = row'
           /\ row \in [Work -> Row] /\ row' \in [Work -> Row]
  <1>1. Stages' /\ TypeOK'
    BY StepStages, StepTypes DEF IInv
  <1>2. [w \in Work |-> Outcome(w)]' = row'
    BY <1>1 DEF TypeOK, Stages, Outcome
  <1> QED
    BY <1>1, <1>2, OutcomeIsRow DEF IInv, TypeOK

\* A step that neither starts, queues, completes, answers, announces nor records.
LEMMA Unseen ==
    ASSUME IInv, Stages, [Next]_vars, UNCHANGED <<row, told, emails>>, Queued' = Queued,
           \A r \in Reports : SentAs(r)' = SentAs(r)
    PROVE  UNCHANGED Promise!vars
  <1>1. /\ [w \in Work |-> Outcome(w)]' = [w \in Work |-> Outcome(w)]
        /\ [r \in Reports |-> SentAs(r)]' = [r \in Reports |-> SentAs(r)]
        /\ kind' = kind
    BY OutcomesAreRows, RowStages
  <1> QED
    BY <1>1 DEF Promise!vars

\* The transactions that write a row start or complete it, or find it done.
LEMMA RowPromise ==
    ASSUME IInv, Stages, [Next]_vars,
           \/ \E e \in Exports : StartPortableExport(e)
           \/ \E r \in Reports : StartReport(r)
           \/ \E x \in Executions : CompletePortableExport(x) \/ CompleteReport(x)
    PROVE  [Promise!Next]_(Promise!vars)
  <1> DEFINE out == [w \in Work |-> Outcome(w)]
  <1>1. out = row /\ out' = row' /\ kind' = kind
    BY OutcomesAreRows, RowStages
  <1>2. UNCHANGED <<told, emails, delivery, job>>
    BY DEF StartPortableExport, StartReport, CompletePortableExport, CompleteReport, storeVars,
       requestVars
  <1>3. /\ Queued' = Queued
        /\ \A r \in Reports : SentAs(r)' = SentAs(r)
        /\ [r \in Reports |-> SentAs(r)]' = [r \in Reports |-> SentAs(r)]
    BY <1>2, QueuedKept DEF SentAs
  <1> HIDE DEF out
  <1>4. ASSUME NEW w \in Work, row[w].status = "absent", Pending(w) PROVE Promise!Next
    <2>1. Promise!Start(w)
      BY <1>1, <1>2, <1>3, <1>4 DEF Pending, Promise!Start, out
    <2> QED
      BY <2>1 DEF Promise!Next
  <1>5. ASSUME NEW x \in Executions, Subject(x) \in Work, x[1] = JobOf(Subject(x)), pc[x] # "idle",
               ~Completed(Subject(x)), Completes(Subject(x), Run(x))
        PROVE  Promise!Next
    <2>1. Subject(x) \in Queued
      BY <1>5, Shapes DEF Queued, Known
    <2>2. row[Subject(x)].status = "pending"
      BY <1>5, <2>1 DEF Stages, Completed, IInv, TypeOK, Row
    <2>3. Promise!Complete(Subject(x), Run(x))
      BY <1>1, <1>2, <1>3, <1>5, <2>1, <2>2 DEF Completes, Promise!Complete, out
    <2>4. Run(x) \in Runs
      BY Shapes DEF Run
    <2> QED
      BY <1>5, <2>3, <2>4 DEF Promise!Next
  <1>6. ASSUME UNCHANGED row PROVE UNCHANGED Promise!vars
    BY <1>2, <1>3, <1>6, Unseen
  <1>7. ASSUME NEW e \in Exports, StartPortableExport(e) PROVE [Promise!Next]_(Promise!vars)
    BY <1>4, <1>6, <1>7, Shapes DEF StartPortableExport
  <1>8. ASSUME NEW r \in Reports, StartReport(r) PROVE Promise!Next
    BY <1>4, <1>8, Shapes DEF StartReport, IInv, RequestOrder
  <1>9. ASSUME NEW x \in Executions, CompletePortableExport(x) \/ CompleteReport(x)
        PROVE  [Promise!Next]_(Promise!vars)
    <2>1. Subject(x) \in Work /\ x[1] = JobOf(Subject(x)) /\ pc[x] # "idle"
      BY <1>9, Shapes DEF CompletePortableExport, CompleteReport, At
    <2>2. \/ UNCHANGED row
          \/ ~Completed(Subject(x)) /\ Completes(Subject(x), Run(x))
      BY <1>9 DEF CompletePortableExport, CompleteReport, ExportCurrent, ReportCurrent, Completed
    <2> QED
      BY <1>5, <1>6, <2>1, <2>2
  <1> QED
    BY <1>7, <1>8, <1>9

\* enqueueWorkflow, and the answer to a report's request, accept what was started.
LEMMA QueuePromise ==
    ASSUME IInv, Stages, [Next]_vars,
           \/ \E w \in Work : Enqueue(w)
           \/ \E r \in Reports : StoreAnswer(r)
    PROVE  Promise!Next
  <1> DEFINE out == [w \in Work |-> Outcome(w)]
  <1>1. out = row /\ out' = row' /\ kind' = kind
    BY OutcomesAreRows, RowStages
  <1>2. UNCHANGED <<row, emails, delivery>>
    BY DEF Enqueue, StoreAnswer, recordVars, storeVars
  <1>3. [r \in Reports |-> SentAs(r)]' = [r \in Reports |-> SentAs(r)]
    BY <1>2 DEF SentAs
  <1> HIDE DEF out
  <1>4. ASSUME NEW w \in Work, row[w].status # "absent", Queued' = Queued \cup {w},
               told' \in {told, told \cup {w}}
        PROVE  Promise!Next
    <2>1. Promise!Accept(w)
      BY <1>1, <1>2, <1>3, <1>4 DEF Promise!Accept, out
    <2> QED
      BY <2>1 DEF Promise!Next
  <1>5. ASSUME NEW w \in Work, Enqueue(w) PROVE Promise!Next
    <2>1. Queued' = Queued \cup {w}
      BY <1>5, EnqueueQueues DEF IInv
    <2> QED
      BY <1>4, <1>5, <2>1 DEF Enqueue, Stages
  <1>6. ASSUME NEW r \in Reports, StoreAnswer(r) PROVE Promise!Next
    <2>1. r \in Work /\ r \in Queued /\ row[r].status # "absent"
      BY <1>6, Shapes DEF StoreAnswer, IInv, RequestOrder, Stages
    <2>2. Queued' = Queued
      BY <1>6, QueuedKept DEF StoreAnswer
    <2> QED
      BY <1>4, <1>6, <2>1, <2>2 DEF StoreAnswer
  <1> QED
    BY <1>5, <1>6

\* The provider's first e-mail for a delivery is its announcement, and the first record
\* of it is of that e-mail.
LEMMA EmailPromise ==
    ASSUME IInv, Stages, [Next]_vars, NEW x \in Executions,
           SendEmail(x) \/ AnswerLost(x) \/ CompleteNotificationDelivery(x)
    PROVE  [Promise!Next]_(Promise!vars)
  <1> DEFINE out == [w \in Work |-> Outcome(w)]
             r == Subject(x)
             k == held[x].id
  <1>1. out = row /\ out' = row' /\ kind' = kind
    BY OutcomesAreRows, RowStages
  <1>2. UNCHANGED <<row, told, job>>
    BY DEF SendEmail, AnswerLost, CompleteNotificationDelivery, recordVars, requestVars
  <1>3. Queued' = Queued
    BY <1>2, QueuedKept
  <1>4. Sending(x) /\ r \in Reports
    BY Shapes DEF SendEmail, AnswerLost, CompleteNotificationDelivery, At, Sending
  <1>5. delivery[r].id = k /\ k \in Runs /\ Announces(r)
    BY <1>4 DEF IInv, DeliveryKey, Stages
  <1> HIDE DEF out, k, r
  <1>6. CASE SendEmail(x) \/ AnswerLost(x)
    <2>1. emails' = emails \cup {<<r, k>>} /\ UNCHANGED delivery
      BY <1>6 DEF SendEmail, AnswerLost, Accept, recordVars, r, k
    <2>2. /\ \A s \in Reports : SentAs(s)' = SentAs(s)
          /\ [s \in Reports |-> SentAs(s)]' = [s \in Reports |-> SentAs(s)]
      BY <2>1 DEF SentAs
    <2>3. CASE <<r, k>> \in emails
      BY <1>2, <1>3, <2>1, <2>2, <2>3, Unseen
    <2>4. CASE <<r, k>> \notin emails
      <3>1. \A m \in emails : m[1] # r
        BY <1>5, <2>4 DEF IInv, TypeOK, DeliveryKey
      <3>2. Promise!Announce(r, k)
        BY <1>1, <1>2, <1>3, <1>5, <2>1, <2>2, <3>1
           DEF Announces, Completed, Promise!Announce, out
      <3> QED
        BY <1>4, <1>5, <3>2 DEF Promise!Next
    <2> QED
      BY <2>3, <2>4
  <1>7. CASE CompleteNotificationDelivery(x)
    <2> DEFINE d == IF delivery[r].status = "sent" THEN delivery[r]
                    ELSE [delivery[r] EXCEPT !.status = "sent", !.message = k]
    <2>1. /\ delivery' = [delivery EXCEPT ![r] = d] /\ UNCHANGED emails
          /\ <<r, k>> \in emails
      BY <1>7 DEF CompleteNotificationDelivery, storeVars, IInv, DeliveryKey, r, k
    <2>2. delivery[r] \in Delivery /\ delivery \in [Reports -> Delivery]
      BY <1>4 DEF IInv, TypeOK
    <2>3. \A s \in Reports \ {r} : SentAs(s)' = SentAs(s)
      BY <2>1, <2>2 DEF SentAs
    <2>4. CASE delivery[r].status = "sent"
      <3>1. SentAs(r)' = SentAs(r)
        BY <1>4, <2>1, <2>2, <2>4 DEF SentAs
      <3> QED
        BY <1>2, <1>3, <2>1, <2>3, <3>1, Unseen
    <2>5. CASE delivery[r].status # "sent"
      <3>1. d.status = "sent" /\ d.message = k
        BY <2>2, <2>5 DEF Delivery
      <3> HIDE DEF d
      <3>2. SentAs(r) = None /\ SentAs(r)' = k
        BY <1>4, <2>1, <2>2, <2>5, <3>1 DEF SentAs
      <3>3. [s \in Reports |-> SentAs(s)]' = [[s \in Reports |-> SentAs(s)] EXCEPT ![r] = k]
        BY <1>4, <2>3, <3>2
      <3>4. Promise!Settle(r, k)
        BY <1>1, <1>2, <1>3, <1>4, <2>1, <3>2, <3>3 DEF Promise!Settle, out
      <3> QED
        BY <1>4, <1>5, <3>4 DEF Promise!Next
    <2> QED
      BY <2>4, <2>5
  <1> QED
    BY <1>6, <1>7

\* Runs that reserve a delivery or fail leave what is recorded as sent.
LEMMA DeliveryKeeps ==
    ASSUME IInv, NEW x \in Executions,
           GetNotificationDeliveryInput(x) \/ RecordNotificationDeliveryFailure(x)
    PROVE  \A r \in Reports : SentAs(r)' = SentAs(r)
  <1>1. Subject(x) \in Reports /\ delivery \in [Reports -> Delivery]
    BY Shapes DEF GetNotificationDeliveryInput, RecordNotificationDeliveryFailure, At, IInv, TypeOK
  <1>2. PICK d \in {Reserved(delivery[Subject(x)], Run(x)), Failed(delivery[Subject(x)])} :
           UNCHANGED delivery \/ delivery' = [delivery EXCEPT ![Subject(x)] = d]
    BY DEF GetNotificationDeliveryInput, RecordNotificationDeliveryFailure
  <1>3. /\ delivery[Subject(x)].status = "sent" => d = delivery[Subject(x)]
        /\ delivery[Subject(x)].status # "sent" => d.status # "sent"
    BY <1>1, <1>2 DEF Reserved, Failed, Delivery
  <1> QED
    BY <1>1, <1>2, <1>3 DEF SentAs

\* Every step keeps the promise.
LEMMA PromiseSteps ==
    ASSUME IInv, Stages, [Next]_vars PROVE [Promise!Next]_(Promise!vars)
  <1> USE DEF recordVars, storeVars, requestVars
  <1>1. ASSUME UNCHANGED <<row, told, emails, delivery>>, Queued' = Queued
        PROVE  UNCHANGED Promise!vars
    <2>1. \A r \in Reports : SentAs(r)' = SentAs(r)
      BY <1>1 DEF SentAs
    <2> QED
      BY <1>1, <2>1, Unseen
  <1>2. CASE \/ \E e \in Exports : StartPortableExport(e)
             \/ \E r \in Reports : StartReport(r)
             \/ \E x \in Executions : CompletePortableExport(x) \/ CompleteReport(x)
    BY <1>2, RowPromise
  <1>3. CASE \/ \E w \in Work : Enqueue(w)
             \/ \E r \in Reports : StoreAnswer(r)
    BY <1>3, QueuePromise
  <1>4. CASE \E x \in Executions :
                SendEmail(x) \/ AnswerLost(x) \/ CompleteNotificationDelivery(x)
    BY <1>4, EmailPromise
  <1>5. CASE Queued' = Queued /\ \E x \in Executions :
                GetNotificationDeliveryInput(x) \/ RecordNotificationDeliveryFailure(x)
    <2>1. UNCHANGED <<row, told, emails>> /\ \A r \in Reports : SentAs(r)' = SentAs(r)
      BY <1>5, DeliveryKeeps DEF GetNotificationDeliveryInput, RecordNotificationDeliveryFailure
    <2> QED
      BY <1>5, <2>1, Unseen
  <1> DEFINE Quiet == UNCHANGED <<row, told, emails, delivery>>
             Open == \/ \E e \in Exports : StartPortableExport(e)
                     \/ \E r \in Reports : StartReport(r) \/ StoreAnswer(r)
                     \/ \E w \in Work : Enqueue(w)
                     \/ \E x \in Executions :
                           \/ CompletePortableExport(x) \/ CompleteReport(x)
                           \/ SendEmail(x) \/ AnswerLost(x) \/ CompleteNotificationDelivery(x)
                           \/ GetNotificationDeliveryInput(x)
                           \/ RecordNotificationDeliveryFailure(x)
  <1>6. /\ \A d \in Documents : AddDocument(d) \/ DeleteOriginal(d) => Quiet
        /\ DecideManualFact \/ DecideConsent \/ UNCHANGED vars => Quiet
        /\ \A r \in Reports : ReserveReport(r) => Quiet
        /\ \A w \in Work : RequestFails(w) => Quiet
        /\ \A j \in Jobs : StallDead(j) \/ StallLive(j) \/ ForgetJob(j) => Quiet
    BY DEF AddDocument, DeleteOriginal, DecideManualFact, DecideConsent, vars, ReserveReport,
       RequestFails, StallDead, StallLive, ForgetJob
  <1>7. ASSUME NEW x \in Executions,
               \/ TakeJob(x) \/ RunReturns(x) \/ RunThrows(x) \/ CallFails(x) \/ Crash(x)
               \/ GetPortableExportBuildInput(x) \/ \E d \in Documents : GetCiphertext(x, d)
               \/ PutGeneratedExport(x) \/ GetReportBuildInput(x) \/ EnqueueNotification(x)
        PROVE  Quiet
    BY <1>7 DEF TakeJob, RunReturns, RunThrows, CallFails, Crash, GetPortableExportBuildInput,
       GetCiphertext, PutGeneratedExport, GetReportBuildInput, EnqueueNotification
  <1> HIDE DEF Quiet
  <1>8. \A w \in Work : Answering(w) => Open
    BY DEF Answering
  <1>9. \A x \in Executions :
           RunStep(x) \/ AnswerLost(x) \/ CallFails(x) \/ Crash(x) => Quiet \/ Open
    BY <1>7 DEF RunStep, Handler
  <1>10. \A e \in Exports : StartPortableExport(e) => Open
    OBVIOUS
  <1> HIDE DEF Open
  <1>11. Quiet \/ Open
    BY <1>6, <1>8, <1>9, <1>10 DEF Next
  <1>12. Queued' = Queued \/ \E w \in Work : Enqueue(w)
    BY QueuedSteps
  <1> QED
    BY <1>1, <1>2, <1>3, <1>4, <1>5, <1>11, <1>12 DEF Quiet, Open

\* The export, report and notification handlers, run at least once each by a queue that
\* retries, overlaps and loses them, and the routes that start them, keep the promise.
THEOREM Refinement == Spec => ImplementsPromise
  <1>1. Init => Promise!Init
    <2> SUFFICES ASSUME Init PROVE Promise!Init
      OBVIOUS
    <2>1. [w \in Work |-> Outcome(w)] = [w \in Work |-> [status |-> "absent", by |-> None]]
      BY DEF Init, Outcome, NoRow
    <2>2. Queued = {}
      BY Shapes DEF Init, Queued, Known, NoJob, Executions
    <2>3. [r \in Reports |-> SentAs(r)] = [r \in Reports |-> None]
      BY DEF Init, SentAs, NoDelivery
    <2> QED
      BY <2>1, <2>2, <2>3 DEF Init, Promise!Init
  <1>2. IInv /\ Stages /\ [Next]_vars => [Promise!Next]_(Promise!vars)
    BY PromiseSteps
  <1> QED
    BY <1>1, <1>2, Invariance, StagesAlways, PTL DEF Spec, Promise!Spec, ImplementsPromise

-----------------------------------------------------------------------------
(* Attempts                                                                  *)

\* What each step does to the jobs of exports, reports and notifications.
LEMMA JobSteps ==
    ASSUME TypeOK, [Next]_vars, NEW j \in Jobs PROVE Moves(job[j], job'[j])
  <1> USE DEF TypeOK
  <1>1. UNCHANGED job => Moves(job[j], job'[j])
    BY DEF Moves
  <1>2. ASSUME NEW w \in Work, Enqueue(w) PROVE Moves(job[j], job'[j])
    BY <1>2, Shapes DEF Enqueue, Moves
  <1>3. ASSUME NEW i \in Jobs, StallDead(i) \/ StallLive(i) \/ ForgetJob(i) PROVE Moves(job[j], job'[j])
    BY <1>3 DEF StallDead, StallLive, ForgetJob, Moves
  <1>4. ASSUME NEW x \in Executions, TakeJob(x) \/ RunReturns(x) \/ RunThrows(x)
        PROVE  Moves(job[j], job'[j])
    <2>1. Run(x) \in Runs
      BY Shapes DEF Run
    <2> QED
      BY <1>4, <2>1 DEF TakeJob, RunReturns, RunThrows, Moves
  <1>5. ASSUME NEW x \in Executions, EnqueueNotification(x) PROVE Moves(job[j], job'[j])
    BY <1>5 DEF EnqueueNotification, Moves
  <1> QED
    BY <1>1, <1>2, <1>3, <1>4, <1>5, JobWriters

\* The jobs of exports, reports and notifications are retried and forgiven expired locks
\* no more often than the queue's options say.
THEOREM JobsAreBounded == Spec => [](\A j \in Jobs : Counted(job[j]))
  <1> DEFINE AllCounted == \A j \in Jobs : Counted(job[j])
  <1>1. Init => AllCounted
    BY QueueAssumption DEF Init, Counted, NoJob
  <1>2. TypeOK /\ AllCounted /\ [Next]_vars => AllCounted'
    <2> SUFFICES ASSUME TypeOK, AllCounted, [Next]_vars, NEW j \in Jobs PROVE Counted(job'[j])
      BY DEF Counted
    <2>1. Moves(job[j], job'[j]) /\ job[j] \in Job /\ Counted(job[j])
      BY JobSteps DEF TypeOK
    <2> QED
      BY <2>1, MovesAreCounted
  <1>3. Spec => []AllCounted
    BY <1>1, <1>2, Typed, PTL DEF Spec
  <1> QED
    BY <1>3

\* A job that has completed or failed is not run again, whatever requests and reports
\* add it again, until the queue forgets it: a failed export stays failed so long.
THEOREM JobsEndForGood ==
    Spec => [][\A j \in Jobs : Ended(job[j]) => job'[j] \in {job[j], NoJob}]_vars
  <1> DEFINE AllCounted == \A j \in Jobs : Counted(job[j])
             Kept == \A j \in Jobs : Ended(job[j]) => job'[j] \in {job[j], NoJob}
  <1>1. TypeOK /\ AllCounted /\ [Next]_vars => [Kept]_vars
    BY JobSteps, MovesAreCounted DEF TypeOK
  <1>2. Spec => []AllCounted
    BY JobsAreBounded
  <1>3. Spec => [][Kept]_vars
    BY <1>1, <1>2, Typed, PTL DEF Spec
  <1> QED
    BY <1>3
=============================================================================
