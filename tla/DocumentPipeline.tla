-------------------------- MODULE DocumentPipeline --------------------------
(***************************************************************************)
(* The life of one document: direct upload, quarantine, malware scan, OCR, *)
(* deletion of the original, and the reviewed manual extraction.           *)
(*                                                                         *)
(* Four stores that share no transaction are kept in step by hand:         *)
(* PostgreSQL (the rows doc and wf, changed by one transaction per action),*)
(* the object store (original and derivative), the BullMQ queue (job), and *)
(* the memory of the API requests and worker runs in progress.  A worker   *)
(* run reads the rows once, works outside any transaction, and writes back *)
(* under the versions it saw; a run whose lock expired is not stopped, so  *)
(* two runs of one job can overlap.                                        *)
(*                                                                         *)
(* Documents do not interact, so the module describes one.  An upload      *)
(* attempt stands for the ciphertext it sends: that of the file whose      *)
(* digest was declared (what the first-party upload route sends), or, for  *)
(* the attempts in Foreign, other bytes, which neither the presigned URL   *)
(* nor the completion can tell from it.                                    *)
(***************************************************************************)
EXTENDS WorkflowQueue

CONSTANTS
    Uploads,       \* upload attempts; also name the ciphertext each produces
    Foreign,       \* the attempts whose ciphertext does not hold the declared file
    MaxFaults      \* bound on infrastructure failures in a behaviour

ASSUME PipelineAssumption ==
    /\ None \notin Uploads
    /\ Foreign \subseteq Uploads
    /\ MaxFaults \in Nat

VARIABLES
    file,      \* what the declared plaintext really is
    doc,       \* the documents row
    wf,        \* the workflow_runs row
    obj,       \* the original in the object store
    derivObj,  \* the derivative in the object store: the run that wrote it
    derivRow,  \* the document_derivatives row: the run whose digest it holds
    extracted, \* how often candidate facts were inserted for the document
    job,       \* the queue's job
    pc, snap,  \* per worker run: its step and the versions it has read
    upc,       \* per upload attempt: its step
    urls,      \* attempts that have a presigned URL
    late,      \* auxiliary: a PUT has landed after the completion was committed
    faults     \* infrastructure failures so far

docVars == <<doc, wf>>
storeVars == <<obj, derivObj>>
runVars == <<pc, snap>>
apiVars == <<upc, urls, late>>
vars == <<file, doc, wf, obj, derivObj, derivRow, extracted, job, pc, snap,
          upc, urls, late, faults>>

Files == {"clean", "infected", "invalid"}
DocStatuses == {"absent", "pending", "quarantined", "clean", "rejected"}
WfStatuses == {"absent", "pending", "running", "failed", "completed"}
NextSteps == {"scan", "ocr", "delete-original", "classification", "null"}
Steps == {"scan", "ocr", "delete-original", "classification",
          "manual-extraction"}

\* Where a run of the "document-process" job can be.
WorkLabels == {"scanRead", "scanFetch", "markClean", "acceptScan",
               "rejectScan", "ocrRead", "ocrFetch", "putDerivative",
               "completeOcr", "deleteObject", "completeDeletion", "record"}
RunLabels == WorkLabels \cup {"idle", "return", "throw", "end"}
UploadLabels == {"idle", "started", "putting", "stored", "checking",
                 "asserted", "committed", "done", "stopped"}

\* The row's two columns for the original: delete_original_after_processing
\* ("delete" or "keep") and, once set, original_deleted_at ("deleted").
OriginalStates == {"keep", "delete", "deleted"}
DeleteAfterProcessing == doc.original # "keep"

NoObject == [cipher |-> None, tag |-> "none"]

DocumentRow == [status: DocStatuses, version: Nat, cipher: Uploads \cup {None},
                original: OriginalStates]
WorkflowRow == [status: WfStatuses, next: NextSteps, steps: SUBSET Steps,
                version: Nat]
StoredObject == [cipher: Uploads \cup {None}, tag: {"none", "quarantined", "clean"}]

TypeOK ==
    /\ file \in Files
    /\ doc \in DocumentRow
    /\ wf \in WorkflowRow
    /\ obj \in StoredObject
    /\ derivObj \in Runs \cup {None}
    /\ derivRow \in Runs \cup {None}
    /\ extracted \in Nat
    /\ job \in Job
    /\ pc \in [Runs -> RunLabels]
    /\ snap \in [Runs -> [doc: Nat, wf: Nat]]
    /\ upc \in [Uploads -> UploadLabels]
    /\ urls \in SUBSET Uploads
    /\ late \in BOOLEAN
    /\ faults \in Nat

Init ==
    /\ file = "clean"
    /\ doc = [status |-> "absent", version |-> 0, cipher |-> None,
              original |-> "keep"]
    /\ wf = [status |-> "absent", next |-> "null", steps |-> {}, version |-> 0]
    /\ obj = NoObject
    /\ derivObj = None
    /\ derivRow = None
    /\ extracted = 0
    /\ job = NoJob
    /\ pc = [r \in Runs |-> "idle"]
    /\ snap = [r \in Runs |-> [doc |-> 0, wf |-> 0]]
    /\ upc = [u \in Uploads |-> "idle"]
    /\ urls = {}
    /\ late = FALSE
    /\ faults = 0

-----------------------------------------------------------------------------
(* The API: upload requests                                                *)

\* getPendingDocumentUpload and the if-match check of both upload handlers:
\* the row is still pending at the version the start request returned.
PendingUpload == doc.status = "pending" /\ doc.version = 1

\* startDocumentUpload.  The first request inserts the row; a repeated one
\* (same idempotency key and hash) is answered while the row is pending.
StartDocumentUpload(u) ==
    /\ upc[u] = "idle"
    /\ \/ /\ doc.status = "absent"
          /\ \E f \in Files, choice \in {"keep", "delete"} :
                /\ file' = f
                /\ doc' = [status |-> "pending", version |-> 1, cipher |-> None,
                           original |-> choice]
       \/ /\ doc.status = "pending"
          /\ UNCHANGED <<file, doc>>
    /\ upc' = [upc EXCEPT ![u] = "started"]
    /\ UNCHANGED <<wf, storeVars, derivRow, extracted, job, runVars, urls, late, faults>>

\* createDocumentUploadUrl: a URL for the checksum the attempt names, whatever
\* has been stored.  A URL asked for again is as good as the first one.
CreateDocumentUploadUrl(u) ==
    /\ upc[u] = "started"
    /\ PendingUpload
    /\ upc' = [upc EXCEPT ![u] = "putting"]
    /\ urls' = urls \cup {u}
    /\ UNCHANGED <<file, docVars, storeVars, derivRow, extracted, job, runVars, late, faults>>

\* A PUT to a presigned URL.  The URL admits the attempt's checksum only, but
\* as often as it is used, from clients that have given up too, and whatever
\* the row says; the object and its tag are replaced.  A URL that expires, after
\* 300 seconds, is one that is not used again: nothing waits for a PUT.
PutLands(u) ==
    /\ u \in urls
    /\ obj' = [cipher |-> u, tag |-> "quarantined"]
    /\ late' = (late \/ doc.status # "pending")
    /\ upc' = [upc EXCEPT ![u] = IF @ = "putting" THEN "stored" ELSE @]
    /\ UNCHANGED <<file, docVars, derivObj, derivRow, extracted, job, runVars, urls, faults>>

\* completeDocumentUpload, first await: the pending row is read.
BeginComplete(u) ==
    /\ upc[u] = "stored"
    /\ PendingUpload
    /\ upc' = [upc EXCEPT ![u] = "checking"]
    /\ UNCHANGED <<file, docVars, storeVars, derivRow, extracted, job, runVars,
                   urls, late, faults>>

\* Second await: assertStoredChecksum compares the stored object.
AssertStoredChecksum(u) ==
    /\ upc[u] = "checking"
    /\ obj.cipher = u
    /\ upc' = [upc EXCEPT ![u] = "asserted"]
    /\ UNCHANGED <<file, docVars, storeVars, derivRow, extracted, job, runVars,
                   urls, late, faults>>

\* Third await: the transaction that quarantines the row and creates the
\* workflow.
CompleteDocumentUpload(u) ==
    /\ upc[u] = "asserted"
    /\ PendingUpload
    /\ doc' = [status |-> "quarantined", version |-> doc.version + 1, cipher |-> u,
               original |-> doc.original]
    /\ wf' = [status |-> "pending", next |-> "scan", steps |-> {}, version |-> 1]
    /\ upc' = [upc EXCEPT ![u] = "committed"]
    /\ UNCHANGED <<file, storeVars, derivRow, extracted, job, runVars, urls, late, faults>>

\* The same transaction for a second request of the attempt, which had passed
\* both checks before the first one committed: it finds the stored response.
ReplayDocumentUpload(u) ==
    /\ upc[u] = "asserted"
    /\ doc.cipher = u
    /\ upc' = [upc EXCEPT ![u] = "committed"]
    /\ UNCHANGED <<file, docVars, storeVars, derivRow, extracted, job, runVars, urls, late, faults>>

\* Last await: the job is added under the workflow's id.
EnqueueWorkflow(u) ==
    /\ upc[u] = "committed"
    /\ job' = Added(job, "waiting")
    /\ upc' = [upc EXCEPT ![u] = "done"]
    /\ UNCHANGED <<file, docVars, storeVars, derivRow, extracted, runVars,
                   urls, late, faults>>

\* The queue rejects the job: the request fails after its transaction has
\* committed, and the client sends the completion again, or has sent it when
\* the row was still pending.
EnqueueFails(u) ==
    /\ upc[u] = "committed"
    /\ faults < MaxFaults
    /\ faults' = faults + 1
    /\ \E l \in {"stored", "asserted"} : upc' = [upc EXCEPT ![u] = l]
    /\ UNCHANGED <<file, docVars, storeVars, derivRow, extracted, job, runVars,
                   urls, late>>

\* A client gives up, gets an error it does not retry, or the API process
\* dies under the request.
StopUpload(u) ==
    /\ upc[u] \notin {"idle", "done", "stopped"}
    /\ upc' = [upc EXCEPT ![u] = "stopped"]
    /\ UNCHANGED <<file, docVars, storeVars, derivRow, extracted, job, runVars,
                   urls, late, faults>>

-----------------------------------------------------------------------------
(* The queue                                                               *)

\* A worker takes the job and starts the handler.
TakeJob(r) ==
    /\ job.state = "waiting"
    /\ pc[r] = "idle"
    /\ job' = Taken(job, r)
    /\ pc' = [pc EXCEPT ![r] = "scanRead"]
    /\ UNCHANGED <<file, docVars, storeVars, derivRow, extracted, snap, apiVars, faults>>

\* The lock of a run that no longer exists expires.
StallDead ==
    /\ job.state = "active"
    /\ pc[job.owner] = "end"
    /\ job' = Stalled(job)
    /\ UNCHANGED <<file, docVars, storeVars, derivRow, extracted, runVars,
                   apiVars, faults>>

\* The lock of a live run expires: the run goes on, unknown to the queue.
StallLive ==
    /\ job.state = "active"
    /\ pc[job.owner] # "end"
    /\ faults < MaxFaults
    /\ faults' = faults + 1
    /\ job' = Stalled(job)
    /\ UNCHANGED <<file, docVars, storeVars, derivRow, extracted, runVars,
                   apiVars>>

\* removeOnComplete and removeOnFail: an ended job is forgotten in the end.
ForgetJob ==
    /\ Forgotten(job, job')
    /\ UNCHANGED <<file, docVars, storeVars, derivRow, extracted, runVars,
                   apiVars, faults>>

\* The handler resolves.
RunReturns(r) ==
    /\ pc[r] = "return"
    /\ pc' = [pc EXCEPT ![r] = "end"]
    /\ job' = Resolved(job, r)
    /\ UNCHANGED <<file, docVars, storeVars, derivRow, extracted, snap, apiVars, faults>>

\* The handler rejects.
RunThrows(r) ==
    /\ pc[r] = "throw"
    /\ pc' = [pc EXCEPT ![r] = "end"]
    /\ job' = Rejected(job, r)
    /\ UNCHANGED <<file, docVars, storeVars, derivRow, extracted, snap, apiVars, faults>>

\* The worker process dies: the run is gone and nobody tells the queue.
Crash(r) ==
    /\ pc[r] \notin {"idle", "end"}
    /\ faults < MaxFaults
    /\ faults' = faults + 1
    /\ pc' = [pc EXCEPT ![r] = "end"]
    /\ UNCHANGED <<file, docVars, storeVars, derivRow, extracted, job, snap,
                   apiVars>>

-----------------------------------------------------------------------------
(* The worker: scan handler                                                *)

\* The call succeeded and the run goes to l, or its answer is lost and the
\* handler's catch block runs although the effect is there.
Continue(r, l) ==
    \/ /\ pc' = [pc EXCEPT ![r] = l]
       /\ UNCHANGED faults
    \/ /\ faults < MaxFaults
       /\ faults' = faults + 1
       /\ pc' = [pc EXCEPT ![r] = "record"]

\* A call fails without an effect.  The catch block records the failure only
\* when the handler had read its input.
CallFails(r) ==
    /\ pc[r] \in WorkLabels
    /\ faults < MaxFaults
    /\ faults' = faults + 1
    /\ pc' = [pc EXCEPT ![r] = IF @ \in {"scanRead", "ocrRead", "record"}
                               THEN "throw" ELSE "record"]
    /\ UNCHANGED <<file, docVars, storeVars, derivRow, extracted, job, snap,
                   apiVars>>

Snapshot(r) == snap' = [snap EXCEPT ![r] = [doc |-> doc.version, wf |-> wf.version]]

\* getDocumentProcessingInput and the early returns of the scan handler.
ScanRead(r) ==
    /\ pc[r] = "scanRead"
    /\ Snapshot(r)
    /\ pc' = [pc EXCEPT ![r] =
                CASE doc.status \in {"clean", "rejected"} \/ wf.next # "scan" -> "ocrRead"
                  [] doc.status = "quarantined" /\ wf.next = "scan" -> "scanFetch"
                  [] OTHER -> "record"]
    /\ UNCHANGED <<file, docVars, storeVars, derivRow, extracted, job, apiVars, faults>>

\* What the store holds is not what the row declares: the handlers fetch it,
\* decrypt it and compare the plaintext's digest with the declared one.
Unusable == obj.cipher = None \/ obj.cipher \in Foreign

\* Mutants: bytes of another digest are judged as they are; a clean file is not tagged.
VerdictOfStored ==
    CASE obj.cipher = None \/ (obj.cipher \notin Foreign /\ file = "invalid") -> "record"
      [] obj.cipher \in Uploads \ Foreign /\ file = "infected" -> "rejectScan"
      [] OTHER -> "markClean"
VerdictSkipsTag ==
    CASE Unusable \/ file = "invalid" -> "record"
      [] ~Unusable /\ file = "infected" -> "rejectScan"
      [] OTHER -> "acceptScan"

\* quarantine.scan up to the scanner's verdict: fetch, decrypt, compare the
\* plaintext digest, validate the bytes, ClamAV.
ScanVerdict ==
    CASE Unusable \/ file = "invalid" -> "record"
      [] ~Unusable /\ file = "infected" -> "rejectScan"
      [] OTHER -> "markClean"

ScanFetch(r) ==
    /\ pc[r] = "scanFetch"
    /\ pc' = [pc EXCEPT ![r] = ScanVerdict]
    /\ UNCHANGED <<file, docVars, storeVars, derivRow, extracted, job, snap,
                   apiVars, faults>>

\* quarantine.scan tags whatever object is stored now, which need not be the
\* one it fetched; tagging an object that another run has deleted fails.
MarkClean(r) ==
    /\ pc[r] = "markClean"
    /\ IF obj.cipher = None
       THEN /\ pc' = [pc EXCEPT ![r] = "record"]
            /\ UNCHANGED <<obj, faults>>
       ELSE /\ obj' = [obj EXCEPT !.tag = "clean"]
            /\ Continue(r, "acceptScan")
    /\ UNCHANGED <<file, docVars, derivObj, derivRow, extracted, job, snap,
                   apiVars>>

\* The WHERE clauses of completeDocumentScan.
ScanCurrent(r) ==
    /\ doc.status = "quarantined"
    /\ doc.version = snap[r].doc
    /\ wf.version = snap[r].wf
    /\ wf.next = "scan"

\* completeDocumentScan commits both rows.
CompleteDocumentScan(r) ==
    LET rejected == pc[r] = "rejectScan" IN
    /\ pc[r] \in {"acceptScan", "rejectScan"}
    /\ ScanCurrent(r)
    /\ doc' = [doc EXCEPT !.status = IF rejected THEN "rejected" ELSE "clean",
                          !.version = @ + 1]
    /\ wf' = [status |-> IF rejected THEN "completed" ELSE "running",
              next |-> IF rejected THEN "null" ELSE "ocr",
              steps |-> wf.steps \cup {"scan"},
              version |-> wf.version + 1]
    /\ Continue(r, "ocrRead")
    /\ UNCHANGED <<file, storeVars, derivRow, extracted, job, snap, apiVars>>

\* completeDocumentScan rolls back: another run was here first.
DocumentScanConflict(r) ==
    /\ pc[r] \in {"acceptScan", "rejectScan"}
    /\ ~ScanCurrent(r)
    /\ pc' = [pc EXCEPT ![r] = "record"]
    /\ UNCHANGED <<file, docVars, storeVars, derivRow, extracted, job, snap,
                   apiVars, faults>>

\* Mutant: a failure is recorded on an ended workflow too.
FailureReopens == [wf EXCEPT !.status = "failed", !.version = @ + 1]

\* The workflow row after a recorded failure.
FailedWorkflow ==
    IF wf.status # "completed"
    THEN [wf EXCEPT !.status = "failed", !.version = @ + 1] ELSE wf

\* recordDocumentScanFailure, called by the catch block of both handlers.
RecordDocumentScanFailure(r) ==
    /\ pc[r] = "record"
    /\ doc' = IF doc.status = "quarantined"
              THEN [doc EXCEPT !.version = @ + 1] ELSE doc
    /\ wf' = FailedWorkflow
    /\ pc' = [pc EXCEPT ![r] = "throw"]
    /\ UNCHANGED <<file, storeVars, derivRow, extracted, job, snap, apiVars, faults>>

-----------------------------------------------------------------------------
(* The worker: OCR handler                                                 *)

\* Mutant: an original that is to go is deleted before it is recognised.
OcrDeletesFirst ==
    CASE wf.next = "delete-original" \/ (wf.next = "ocr" /\ DeleteAfterProcessing)
           -> "deleteObject"
      [] wf.next \notin {"delete-original", "ocr"} -> "return"
      [] OTHER -> "ocrFetch"

\* The branches of the OCR handler on what it has read.
OcrBranch ==
    CASE wf.next = "delete-original" -> "deleteObject"
      [] wf.next \notin {"delete-original", "ocr"} -> "return"
      [] wf.next = "ocr" /\ doc.status # "clean" -> "record"
      [] OTHER -> "ocrFetch"

\* getDocumentProcessingInput of the OCR handler.
OcrRead(r) ==
    /\ pc[r] = "ocrRead"
    /\ Snapshot(r)
    /\ pc' = [pc EXCEPT ![r] = OcrBranch]
    /\ UNCHANGED <<file, docVars, storeVars, derivRow, extracted, job, apiVars, faults>>

\* Fetch, decrypt, compare the digest, extract the searchable PDF.
OcrFetch(r) ==
    /\ pc[r] = "ocrFetch"
    /\ pc' = [pc EXCEPT ![r] = IF Unusable THEN "record" ELSE "putDerivative"]
    /\ UNCHANGED <<file, docVars, storeVars, derivRow, extracted, job, snap,
                   apiVars, faults>>

\* putDocumentDerivative overwrites the derivative's fixed key; a fresh IV
\* makes every run's bytes, and so their digest, its own.
PutDocumentDerivative(r) ==
    /\ pc[r] = "putDerivative"
    /\ derivObj' = r
    /\ Continue(r, "completeOcr")
    /\ UNCHANGED <<file, docVars, obj, derivRow, extracted, job, snap, apiVars>>

\* The derivative row is ours or free, and the workflow is where we read it.
OcrCurrent(r) ==
    /\ derivRow \in {None, r}
    /\ wf.version = snap[r].wf
    /\ wf.next = "ocr"

\* Mutant: the owner's choice to delete the original is ignored.
AfterOcrKeeps == "classification"

\* The step that follows OCR.
AfterOcr == IF DeleteAfterProcessing THEN "delete-original" ELSE "classification"

\* completeDocumentOcr commits the derivative row and the workflow step.
CompleteDocumentOcr(r) ==
    /\ pc[r] = "completeOcr"
    /\ OcrCurrent(r)
    /\ derivRow' = r
    /\ wf' = [status |-> "running",
              next |-> AfterOcr,
              steps |-> wf.steps \cup {"ocr"},
              version |-> wf.version + 1]
    /\ Continue(r, IF DeleteAfterProcessing THEN "deleteObject" ELSE "return")
    /\ UNCHANGED <<file, doc, storeVars, extracted, job, snap, apiVars>>

\* completeDocumentOcr rolls back, its derivative row included.
DocumentOcrConflict(r) ==
    /\ pc[r] = "completeOcr"
    /\ ~OcrCurrent(r)
    /\ pc' = [pc EXCEPT ![r] = "record"]
    /\ UNCHANGED <<file, docVars, storeVars, derivRow, extracted, job, snap,
                   apiVars, faults>>

\* deleteObject removes the original; deleting an absent key succeeds.
DeleteObject(r) ==
    /\ pc[r] = "deleteObject"
    /\ obj' = NoObject
    /\ Continue(r, "completeDeletion")
    /\ UNCHANGED <<file, docVars, derivObj, derivRow, extracted, job, snap,
                   apiVars>>

\* Mutant: a deletion another run has completed is a conflict.
DeletionDue == wf.next = "delete-original"

\* The step is due, or another run has already completed it.
DeletionCurrent ==
    wf.next = "delete-original" \/ "delete-original" \in wf.steps

\* completeDocumentOriginalDeletion.
CompleteDocumentOriginalDeletion(r) ==
    /\ pc[r] = "completeDeletion"
    /\ doc' = IF DeletionCurrent /\ doc.original = "delete"
              THEN [doc EXCEPT !.original = "deleted", !.version = @ + 1]
              ELSE doc
    /\ wf' = IF wf.next = "delete-original"
             THEN [status |-> "running", next |-> "classification",
                   steps |-> wf.steps \cup {"delete-original"},
                   version |-> wf.version + 1]
             ELSE wf
    /\ Continue(r, IF DeletionCurrent THEN "return" ELSE "record")
    /\ UNCHANGED <<file, storeVars, derivRow, extracted, job, snap, apiVars>>

-----------------------------------------------------------------------------
(* The API: review                                                         *)

ReviewDue == doc.status = "clean" /\ wf.next = "classification"

\* completeManualDocumentExtraction.  The client has to name the workflow's
\* current version; a request with another one is refused, a repeat of an
\* accepted one replays the stored response, and neither changes a row.
CompleteManualDocumentExtraction ==
    /\ ReviewDue
    /\ extracted' = extracted + 1
    /\ wf' = [status |-> "completed", next |-> "null",
              steps |-> wf.steps \cup {"classification", "manual-extraction"},
              version |-> wf.version + 1]
    /\ UNCHANGED <<file, doc, storeVars, derivRow, job, runVars, apiVars, faults>>

\* getDocumentDownloadMaterial and the checks of getDocumentContent: what a
\* download request has to find for the original's bytes to be returned.
Downloadable ==
    /\ doc.status = "clean"
    /\ doc.original # "deleted"
    /\ obj.tag = "clean"
    /\ obj.cipher = doc.cipher

-----------------------------------------------------------------------------
UploadStep(u) ==
    \/ StartDocumentUpload(u) \/ CreateDocumentUploadUrl(u)
    \/ PutLands(u) \/ BeginComplete(u) \/ AssertStoredChecksum(u) \/ CompleteDocumentUpload(u)
    \/ ReplayDocumentUpload(u) \/ EnqueueWorkflow(u) \/ EnqueueFails(u) \/ StopUpload(u)

\* The steps a worker run takes on its own when nothing fails.
RunStep(r) ==
    \/ TakeJob(r) \/ ScanRead(r) \/ ScanFetch(r) \/ MarkClean(r)
    \/ CompleteDocumentScan(r) \/ DocumentScanConflict(r)
    \/ RecordDocumentScanFailure(r) \/ OcrRead(r) \/ OcrFetch(r)
    \/ PutDocumentDerivative(r) \/ CompleteDocumentOcr(r)
    \/ DocumentOcrConflict(r) \/ DeleteObject(r)
    \/ CompleteDocumentOriginalDeletion(r) \/ RunReturns(r) \/ RunThrows(r)

Next ==
    \/ \E u \in Uploads : UploadStep(u)
    \/ \E r \in Runs : RunStep(r) \/ CallFails(r) \/ Crash(r)
    \/ StallDead \/ StallLive \/ ForgetJob
    \/ CompleteManualDocumentExtraction

Spec == Init /\ [][Next]_vars

-----------------------------------------------------------------------------
(* Safety                                                                  *)

\* The documents row and the workflow_runs row stay in step although scan,
\* OCR, deletion and failure records of overlapping runs write them under
\* separate conditions: the document is quarantined exactly while the scan is
\* due, clean while later steps are due, and nothing is due exactly when the
\* workflow has ended.
RowsInStep ==
    /\ wf.status = "absent" <=> doc.status \in {"absent", "pending"}
    /\ wf.next = "scan" <=> doc.status = "quarantined"
    /\ wf.next \in {"ocr", "delete-original", "classification"} => doc.status = "clean"
    /\ wf.next = "null" <=> wf.status \in {"absent", "completed"}
    /\ doc.status = "rejected" => wf.status = "completed"

\* The row calls a file clean or rejected only where the declared file deserves
\* it, whatever bytes were stored when it was scanned.
RowVerdictIsTrue ==
    /\ doc.status = "clean" => file = "clean"
    /\ doc.status = "rejected" => file = "infected"

\* Quarantine first, fail closed: the row's verdict is the declared file's,
\* whatever runs overlap, fail or lose their answers; and a download returns
\* bytes other than the declared ones only if a PUT landed after the completion
\* had recorded their checksum.  (Such a PUT can come between fetch and tag.)
VerdictIsTrue ==
    /\ RowVerdictIsTrue
    /\ Downloadable /\ obj.cipher \in Foreign => late

\* The original is never lost before its derivative is durable: once an
\* upload is complete the object store is without an object only if its deletion
\* was asked for, the derivative is stored, and its row and step are committed.
OriginalOutlivesProcessing ==
    doc.status \notin {"absent", "pending"} /\ obj.cipher = None =>
        /\ DeleteAfterProcessing
        /\ derivObj # None
        /\ derivRow # None
        /\ "ocr" \in wf.steps

\* A run that has removed the original always finds its completion accepted:
\* completeDocumentOriginalDeletion never meets a workflow that is neither at
\* the delete-original step nor past it.
DeletionNeverConflicts ==
    \A r \in Runs : pc[r] = "completeDeletion" => DeletionCurrent

\* As long as the store holds the bytes whose checksum the completed upload
\* recorded, and no PUT has landed since, a clean document can be downloaded:
\* the tag is set before the row turns clean, and no overlapping run takes it
\* back.  (A PUT that lands later does take it back: the URL outlives the
\* completion, and nothing tags the object again.)
RecordedBytesDownloadable ==
    ~late /\ doc.status = "clean" /\ doc.original # "deleted" /\ obj.cipher = doc.cipher
        => Downloadable

\* Candidate facts are inserted at most once per document, and only together
\* with the step that ends the workflow of a document that passed OCR.
ExtractedOnce ==
    /\ extracted = IF "manual-extraction" \in wf.steps THEN 1 ELSE 0
    /\ "manual-extraction" \in wf.steps => {"scan", "ocr"} \subseteq wf.steps

-----------------------------------------------------------------------------
(* Action properties                                                       *)

Rank == [n \in NextSteps |->
            CASE n = "scan" -> 1 [] n = "ocr" -> 2 [] n = "delete-original" -> 3
              [] n = "classification" -> 4 [] n = "null" -> 5]

NoStepBack ==
    wf.status # "absent" =>
        /\ wf.steps \subseteq wf'.steps
        /\ Rank[wf.next] <= Rank[wf'.next]
        /\ wf.status = "completed" => wf' = wf
        /\ doc.status \in {"clean", "rejected"} => doc'.status = doc.status

\* No late write of a stale run takes a document back: completed steps are
\* never lost, the next step never moves backwards, an ended workflow is never
\* reopened or marked failed, and a verdict is final.
NeverGoesBack == [][NoStepBack]_vars

-----------------------------------------------------------------------------
(* The abstract life of the document                                       *)

\* The stage the two rows stand for.
Stage ==
    CASE doc.status = "absent" -> "none"
      [] doc.status = "pending" -> "upload"
      [] doc.status = "rejected" -> "rejected"
      [] doc.status = "quarantined" -> "scan"
      [] doc.status = "clean" /\ wf.next = "ocr" -> "ocr"
      [] doc.status = "clean" /\ wf.next = "delete-original" -> "delete"
      [] doc.status = "clean" /\ wf.next = "classification" -> "review"
      [] OTHER -> "done"

Lifecycle == INSTANCE DocumentLifecycle
                WITH stage <- Stage, content <- file, keep <- doc.original = "keep"

\* Every interleaving of requests, overlapping runs, retries and failures
\* shows the user the simple life of DocumentLifecycle: one stage after the
\* other, no stage skipped or repeated, the verdict the file deserves, and
\* deletion of the original only where it was chosen.
ImplementsLifecycle == Lifecycle!Spec

-----------------------------------------------------------------------------
(* The inductive invariant behind the safety properties                    *)

\* Before the completion is committed there is no workflow, job or run.
NothingBeforeCompletion ==
    /\ doc.status \in {"absent", "pending"} =>
         ~late /\ job.state = "absent" /\ \A r \in Runs : pc[r] = "idle"
    /\ doc.status \in {"absent", "pending"} =>
         /\ derivRow = None
         /\ \A u \in Uploads : upc[u] \notin {"committed", "done"}
    /\ doc.status = "absent" =>
         urls = {} /\ obj.cipher = None /\ \A u \in Uploads : upc[u] = "idle"
    /\ doc.status \in {"absent", "pending"} =>
         \A u \in Uploads : upc[u] = "asserted" => obj.cipher # None

\* What a run knows at each of its steps.
RunKnows ==
    \A r \in Runs :
        /\ pc[r] \in {"markClean", "acceptScan"} => file = "clean"
        /\ pc[r] = "rejectScan" => file = "infected"
        /\ pc[r] = "completeOcr" => derivObj # None
        /\ pc[r] \in {"deleteObject", "completeDeletion"} =>
             DeleteAfterProcessing /\ "ocr" \in wf.steps /\ DeletionCurrent

\* What the workflow's steps say about the other stores.
StepsAreBacked ==
    /\ derivRow # None => derivObj # None
    /\ "ocr" \in wf.steps => derivRow # None /\ "scan" \in wf.steps
    /\ wf.next \in {"ocr", "delete-original", "classification"} => "scan" \in wf.steps
    /\ wf.next \in {"delete-original", "classification"} => "ocr" \in wf.steps
    /\ wf.next = "delete-original" => DeleteAfterProcessing
    /\ "manual-extraction" \in wf.steps => wf.status = "completed"
    /\ "delete-original" \in wf.steps => wf.next \in {"classification", "null"}
    /\ wf.status = "absent" => wf.steps = {}

\* What the row records, and what stays in the store while no PUT is late: the
\* declared file from the scan's fetch to the verdict, tagged before the verdict.
StoreIsScanned ==
    /\ doc.status \in {"absent", "pending"} <=> doc.cipher = None
    /\ obj.cipher = None => obj.tag = "none"
    /\ ~late => \A r \in Runs :
         /\ pc[r] \in {"markClean", "acceptScan"} => obj.cipher \notin Foreign
         /\ pc[r] = "acceptScan" /\ obj.cipher # None => obj.tag = "clean"
    /\ ~late /\ doc.status = "clean" =>
         obj.cipher \notin Foreign /\ (obj.cipher # None => obj.tag = "clean")

IInv ==
    /\ TypeOK /\ RowsInStep /\ RowVerdictIsTrue /\ NothingBeforeCompletion
    /\ RunKnows /\ StepsAreBacked /\ StoreIsScanned
    /\ OriginalOutlivesProcessing /\ ExtractedOnce

-----------------------------------------------------------------------------
(* Liveness                                                                *)

\* A live worker keeps going, idle workers take waiting jobs, and BullMQ's
\* stalled check returns the job of a worker that died.  Clients and failures
\* are not fair.
FairSpec ==
    /\ Spec
    /\ \A r \in Runs : WF_vars(RunStep(r))
    /\ WF_vars(StallDead)

\* Retries are enough: a clean file whose job was queued is scanned and
\* recognised, and reaches the reviewer, after any single failure: a failed
\* call, a lost answer, a dead worker, or a live one that lost its lock.
QueuedFileReachesReview ==
    (job.state # "absent" /\ file = "clean") ~>
    (wf.next \in {"classification", "null"} \/ faults > 1)

\* A queued job never stays open: it completes or fails for good, with the
\* runs that overlap it, whatever the file and the failures.
JobEnds ==
    (job.state # "absent") ~> (job.state \in {"completed", "failed"})

-----------------------------------------------------------------------------
(* What the repository expects and the code does not guarantee             *)

\* Clients that retry a failed completion request, and a queue that takes the
\* job whenever it is offered, on top of the fairness of the workers.
RetryingSpec ==
    /\ FairSpec
    /\ \A u \in Uploads :
         WF_vars(BeginComplete(u) \/ AssertStoredChecksum(u)
                 \/ CompleteDocumentUpload(u) \/ EnqueueWorkflow(u))

\* "Complete encrypted upload and queue processing": once the completion is
\* committed and its client keeps asking, processing is queued.
CompletedUploadIsQueued ==
    (doc.status = "quarantined" /\ \A u \in Uploads : upc[u] # "stopped")
        ~> (job.state # "absent" \/ \E u \in Uploads : upc[u] = "stopped")

=============================================================================
