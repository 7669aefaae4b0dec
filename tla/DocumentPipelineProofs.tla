----------------------- MODULE DocumentPipelineProofs -----------------------
(***************************************************************************)
(* Proofs about DocumentPipeline for every set of uploads and runs and     *)
(* every bound: type correctness, the inductive invariant, and from it the *)
(* safety properties the runs check.                                       *)
(***************************************************************************)
EXTENDS DocumentPipeline, WorkflowQueueProofs

LEMMA InitTypeOK == Init => TypeOK
  <1> SUFFICES ASSUME Init PROVE TypeOK
    OBVIOUS
  <1>1. late \in BOOLEAN
    BY Zenon DEF Init
  <1>2. QED
    BY <1>1, PipelineAssumption, QueueAssumption
    DEF Init, NoJob, TypeOK, DocumentRow, WorkflowRow, StoredObject, Job, NoObject, Files,
        DocStatuses, OriginalStates, WfStatuses, NextSteps, Steps,
        RunLabels, WorkLabels, UploadLabels

\* The updates of two or more columns at once that the actions make keep a
\* row and a job of its type.
LEMMA RowUpdates ==
  ASSUME TypeOK
  PROVE  /\ \A s \in DocStatuses :
              [doc EXCEPT !.status = s, !.version = @ + 1] \in DocumentRow
         /\ [doc EXCEPT !.version = @ + 1] \in DocumentRow
         /\ [doc EXCEPT !.original = "deleted", !.version = @ + 1] \in DocumentRow
         /\ FailedWorkflow \in WorkflowRow
  <1>1. doc.version + 1 \in Nat /\ wf.version + 1 \in Nat
    BY DEF TypeOK, DocumentRow, WorkflowRow
  <1>2. QED
    BY <1>1, Zenon
    DEF TypeOK, DocumentRow, WorkflowRow, OriginalStates, WfStatuses,
        FailedWorkflow

LEMMA UploadTypeOK ==
  ASSUME TypeOK, NEW u \in Uploads, UploadStep(u)
  PROVE  TypeOK'
  <1> USE DEF TypeOK, docVars, storeVars, runVars, apiVars, PendingUpload, Files,
              UploadLabels
  <1>1. CASE StartDocumentUpload(u)
    <2>1. doc' \in DocumentRow
      BY <1>1 DEF StartDocumentUpload, DocumentRow, DocStatuses, OriginalStates
    <2>2. QED
      BY <1>1, <2>1 DEF StartDocumentUpload
  <1>2. CASE CreateDocumentUploadUrl(u)
    BY <1>2 DEF CreateDocumentUploadUrl
  <1>3. CASE PutLands(u)
    <2>1. obj' \in StoredObject
      BY <1>3 DEF PutLands, StoredObject
    <2>2. QED
      BY <1>3, <2>1 DEF PutLands
  <1>4. CASE BeginComplete(u)
    BY <1>4 DEF BeginComplete
  <1>5. CASE AssertStoredChecksum(u)
    BY <1>5 DEF AssertStoredChecksum
  <1>6. CASE CompleteDocumentUpload(u)
    <2>1. doc' \in DocumentRow
      BY <1>6
      DEF CompleteDocumentUpload, DocumentRow, DocStatuses, OriginalStates
    <2>2. wf' \in WorkflowRow
      BY <1>6
      DEF CompleteDocumentUpload, WorkflowRow, WfStatuses, NextSteps, Steps
    <2>3. QED
      BY <1>6, <2>1, <2>2 DEF CompleteDocumentUpload
  <1>7. CASE EnqueueWorkflow(u)
    <2>1. job' \in Job
      BY <1>7, JobOperations DEF EnqueueWorkflow
    <2>2. QED
      BY <1>7, <2>1 DEF EnqueueWorkflow
  <1>8. CASE EnqueueFails(u)
    BY <1>8 DEF EnqueueFails
  <1>9. CASE StopUpload(u)
    BY <1>9 DEF StopUpload
  <1>10. CASE ReplayDocumentUpload(u)
    BY <1>10 DEF ReplayDocumentUpload
  <1>11. QED
    BY <1>1, <1>2, <1>3, <1>4, <1>5, <1>6, <1>7, <1>8, <1>9, <1>10 DEF UploadStep

LEMMA RunTypeOK ==
  ASSUME TypeOK, NEW r \in Runs, RunStep(r) \/ CallFails(r) \/ Crash(r)
  PROVE  TypeOK'
  <1> USE PipelineAssumption, QueueAssumption
      DEF TypeOK, docVars, storeVars, runVars, apiVars, Snapshot, Continue,
          RunLabels, WorkLabels
  <1>1. CASE TakeJob(r)
    <2>1. job' \in Job
      BY <1>1, RunOperations DEF TakeJob
    <2>2. QED
      BY <1>1, <2>1 DEF TakeJob
  <1>2. CASE ScanRead(r)
    BY <1>2 DEF ScanRead, DocumentRow, WorkflowRow
  <1>3. CASE ScanFetch(r)
    BY <1>3 DEF ScanFetch, ScanVerdict, Unusable
  <1>4. CASE MarkClean(r)
    <2>1. obj' \in StoredObject
      BY <1>4 DEF MarkClean, StoredObject
    <2>2. QED
      BY <1>4, <2>1 DEF MarkClean
  <1>5. CASE CompleteDocumentScan(r)
    <2>1. doc' \in DocumentRow
      BY <1>5, RowUpdates DEF CompleteDocumentScan, DocStatuses
    <2>2. wf' \in WorkflowRow
      BY <1>5
      DEF CompleteDocumentScan, WorkflowRow, WfStatuses, NextSteps, Steps
    <2>3. QED
      BY <1>5, <2>1, <2>2 DEF CompleteDocumentScan
  <1>6. CASE DocumentScanConflict(r)
    BY <1>6 DEF DocumentScanConflict
  <1>7. CASE RecordDocumentScanFailure(r)
    <2>1. doc' \in DocumentRow
      BY <1>7, RowUpdates DEF RecordDocumentScanFailure
    <2>2. wf' \in WorkflowRow
      BY <1>7, RowUpdates DEF RecordDocumentScanFailure
    <2>3. QED
      BY <1>7, <2>1, <2>2 DEF RecordDocumentScanFailure, FailedWorkflow
  <1>8. CASE OcrRead(r)
    BY <1>8 DEF OcrRead, OcrBranch, DocumentRow, WorkflowRow
  <1>9. CASE OcrFetch(r)
    BY <1>9 DEF OcrFetch, Unusable
  <1>10. CASE PutDocumentDerivative(r)
    BY <1>10 DEF PutDocumentDerivative
  <1>11. CASE CompleteDocumentOcr(r)
    <2>1. wf' \in WorkflowRow
      BY <1>11
      DEF CompleteDocumentOcr, AfterOcr, WorkflowRow, WfStatuses, NextSteps, Steps
    <2>2. QED
      BY <1>11, <2>1 DEF CompleteDocumentOcr, AfterOcr
  <1>12. CASE DocumentOcrConflict(r)
    BY <1>12 DEF DocumentOcrConflict
  <1>13. CASE DeleteObject(r)
    <2>1. obj' \in StoredObject
      BY <1>13 DEF DeleteObject, StoredObject, NoObject
    <2>2. QED
      BY <1>13, <2>1 DEF DeleteObject
  <1>14. CASE CompleteDocumentOriginalDeletion(r)
    <2>1. doc' \in DocumentRow
      BY <1>14, RowUpdates DEF CompleteDocumentOriginalDeletion
    <2>2. wf' \in WorkflowRow
      BY <1>14
      DEF CompleteDocumentOriginalDeletion, WorkflowRow, WfStatuses,
          NextSteps, Steps
    <2>3. QED
      BY <1>14, <2>1, <2>2 DEF CompleteDocumentOriginalDeletion
  <1>15. CASE RunReturns(r)
    <2>1. job' \in Job
      BY <1>15, RunOperations DEF RunReturns
    <2>2. QED
      BY <1>15, <2>1 DEF RunReturns
  <1>16. CASE RunThrows(r)
    <2>1. job' \in Job
      BY <1>16, RunOperations DEF RunThrows
    <2>2. QED
      BY <1>16, <2>1 DEF RunThrows
  <1>17. CASE CallFails(r)
    BY <1>17 DEF CallFails
  <1>18. CASE Crash(r)
    BY <1>18 DEF Crash
  <1>19. QED
    BY <1>1, <1>2, <1>3, <1>4, <1>5, <1>6, <1>7, <1>8, <1>9, <1>10, <1>11,
       <1>12, <1>13, <1>14, <1>15, <1>16, <1>17, <1>18 DEF RunStep

LEMMA QueueTypeOK ==
  ASSUME TypeOK, StallDead \/ StallLive \/ ForgetJob \/ CompleteManualDocumentExtraction
  PROVE  TypeOK'
  <1> USE PipelineAssumption, QueueAssumption
      DEF TypeOK, docVars, storeVars, runVars, apiVars
  <1>1. CASE StallDead
    <2>1. job' \in Job
      BY <1>1, JobOperations DEF StallDead
    <2>2. QED
      BY <1>1, <2>1 DEF StallDead
  <1>2. CASE StallLive
    <2>1. job' \in Job
      BY <1>2, JobOperations DEF StallLive
    <2>2. QED
      BY <1>2, <2>1 DEF StallLive
  <1>3. CASE CompleteManualDocumentExtraction
    <2>1. wf' \in WorkflowRow
      BY <1>3
      DEF CompleteManualDocumentExtraction, ReviewDue, WorkflowRow, WfStatuses,
          NextSteps, Steps
    <2>2. QED
      BY <1>3, <2>1 DEF CompleteManualDocumentExtraction, ReviewDue
  <1>4. CASE ForgetJob
    BY <1>4, JobOperations DEF ForgetJob, Forgotten
  <1>5. QED
    BY <1>1, <1>2, <1>3, <1>4

\* Every row, object, job, worker run and upload request keeps its type,
\* whatever requests, runs and failures interleave.
THEOREM TypeCorrect == Spec => []TypeOK
  <1>1. Init => TypeOK
    BY InitTypeOK
  <1>2. TypeOK /\ [Next]_vars => TypeOK'
    <2> SUFFICES ASSUME TypeOK, [Next]_vars PROVE TypeOK'
      OBVIOUS
    <2>1. CASE Next
      BY <2>1, UploadTypeOK, RunTypeOK, QueueTypeOK DEF Next
    <2>2. CASE UNCHANGED vars
      BY <2>2 DEF TypeOK, vars
    <2>3. QED
      BY <2>1, <2>2
  <1>3. QED
    BY <1>1, <1>2, PTL DEF Spec

-----------------------------------------------------------------------------
(* The inductive invariant                                                 *)

\* What each part of the invariant depends on.
LEMMA Frame ==
  ASSUME IInv
  PROVE  /\ UNCHANGED <<doc, wf>> => RowsInStep'
         /\ UNCHANGED <<file, doc>> => RowVerdictIsTrue'
         /\ UNCHANGED <<doc, obj, derivRow, job, pc, upc, urls, late>>
            => NothingBeforeCompletion'
         /\ UNCHANGED <<file, doc, wf, derivObj, pc>> => RunKnows'
         /\ UNCHANGED <<doc, wf, derivObj, derivRow>> => StepsAreBacked'
         /\ UNCHANGED <<doc, obj, late, pc>> => StoreIsScanned'
         /\ UNCHANGED <<doc, wf, obj, derivObj, derivRow>>
            => OriginalOutlivesProcessing'
         /\ UNCHANGED <<wf, extracted>> => ExtractedOnce'
  <1>1. UNCHANGED <<doc, wf>> => RowsInStep'
    BY DEF IInv, RowsInStep
  <1>2. UNCHANGED <<file, doc>> => RowVerdictIsTrue'
    BY DEF IInv, RowVerdictIsTrue
  <1>3. UNCHANGED <<doc, obj, derivRow, job, pc, upc, urls, late>>
         => NothingBeforeCompletion'
    BY DEF IInv, NothingBeforeCompletion
  <1>4. UNCHANGED <<file, doc, wf, derivObj, pc>> => RunKnows'
    BY DEF IInv, RunKnows, DeleteAfterProcessing, DeletionCurrent
  <1>5. UNCHANGED <<doc, wf, derivObj, derivRow>> => StepsAreBacked'
    BY DEF IInv, StepsAreBacked, DeleteAfterProcessing
  <1>6. UNCHANGED <<doc, obj, late, pc>> => StoreIsScanned'
    BY DEF IInv, StoreIsScanned
  <1>7. UNCHANGED <<doc, wf, obj, derivObj, derivRow>>
         => OriginalOutlivesProcessing'
    BY DEF IInv, OriginalOutlivesProcessing, DeleteAfterProcessing
  <1>8. UNCHANGED <<wf, extracted>> => ExtractedOnce'
    BY DEF IInv, ExtractedOnce
  <1>9. QED
    BY <1>1, <1>2, <1>3, <1>4, <1>5, <1>6, <1>7, <1>8

\* A run that goes anywhere but to the tag or the verdict changes nothing in what
\* is known of the store.
LEMMA RunElsewhere ==
  ASSUME IInv, UNCHANGED <<doc, obj, late>>, NEW r \in Runs,
         NEW l, l \notin {"markClean", "acceptScan"}, pc' = [pc EXCEPT ![r] = l]
  PROVE  StoreIsScanned'
  BY DEF IInv, TypeOK, StoreIsScanned

LEMMA InitIInv == Init => IInv
  <1> SUFFICES ASSUME Init PROVE IInv
    OBVIOUS
  <1>1. TypeOK
    BY InitTypeOK
  <1>2. QED
    BY <1>1, PipelineAssumption, QueueAssumption
    DEF Init, NoJob, IInv, RowsInStep, RowVerdictIsTrue, NothingBeforeCompletion,
        RunKnows, StepsAreBacked, StoreIsScanned, OriginalOutlivesProcessing,
        ExtractedOnce, NoObject, DeletionCurrent,
        DeleteAfterProcessing

LEMMA UploadKeepsIInv ==
  ASSUME IInv, NEW u \in Uploads, UploadStep(u)
  PROVE  IInv'
  <1>1. TypeOK'
    BY UploadTypeOK DEF IInv
  <1> USE PipelineAssumption, QueueAssumption
      DEF IInv, TypeOK, DocumentRow, WorkflowRow, StoredObject, Job, docVars,
          storeVars, runVars, apiVars
  <1>2. CASE StartDocumentUpload(u)
    <2>1. RowsInStep'
      BY <1>2 DEF StartDocumentUpload, RowsInStep
    <2>2. RowVerdictIsTrue'
      BY <1>2
      DEF StartDocumentUpload, RowVerdictIsTrue, NothingBeforeCompletion,
          StoreIsScanned
    <2>3. NothingBeforeCompletion'
      BY <1>2 DEF StartDocumentUpload, NothingBeforeCompletion
    <2>4. RunKnows'
      BY <1>2 DEF StartDocumentUpload, RunKnows, NothingBeforeCompletion
    <2>5. StepsAreBacked'
      BY <1>2 DEF StartDocumentUpload, StepsAreBacked, RowsInStep
    <2>6. StoreIsScanned'
      BY <1>2 DEF StartDocumentUpload, StoreIsScanned
    <2>7. OriginalOutlivesProcessing'
      BY <1>2
      DEF StartDocumentUpload, OriginalOutlivesProcessing,
          DeleteAfterProcessing
    <2>8. QED
      BY <1>1, <1>2, <2>1, <2>2, <2>3, <2>4, <2>5, <2>6, <2>7, Frame
      DEF StartDocumentUpload
  <1>3. CASE CreateDocumentUploadUrl(u)
    <2>1. NothingBeforeCompletion'
      BY <1>3
      DEF CreateDocumentUploadUrl, PendingUpload, NothingBeforeCompletion
    <2>2. QED
      BY <1>1, <1>3, <2>1, Frame
      DEF CreateDocumentUploadUrl
  <1>4. CASE PutLands(u)
    <2>1. NothingBeforeCompletion'
      BY <1>4 DEF PutLands, NothingBeforeCompletion
    <2>2. StoreIsScanned'
      BY <1>4 DEF PutLands, StoreIsScanned, NothingBeforeCompletion
    <2>3. OriginalOutlivesProcessing'
      BY <1>4 DEF PutLands, OriginalOutlivesProcessing, DeleteAfterProcessing
    <2>4. QED
      BY <1>1, <1>4, <2>1, <2>2, <2>3, Frame
      DEF PutLands
  <1>5. CASE BeginComplete(u)
    <2>1. NothingBeforeCompletion'
      BY <1>5 DEF BeginComplete, PendingUpload, NothingBeforeCompletion
    <2>2. QED
      BY <1>1, <1>5, <2>1, Frame
      DEF BeginComplete
  <1>6. CASE AssertStoredChecksum(u)
    <2>1. NothingBeforeCompletion'
      BY <1>6 DEF AssertStoredChecksum, NothingBeforeCompletion
    <2>2. QED
      BY <1>1, <1>6, <2>1, Frame
      DEF AssertStoredChecksum
  <1>7. CASE CompleteDocumentUpload(u)
    <2>1. RowsInStep'
      BY <1>7 DEF CompleteDocumentUpload, PendingUpload, RowsInStep
    <2>2. RowVerdictIsTrue'
      BY <1>7 DEF CompleteDocumentUpload, PendingUpload, RowVerdictIsTrue
    <2>3. NothingBeforeCompletion'
      BY <1>7
      DEF CompleteDocumentUpload, PendingUpload, NothingBeforeCompletion
    <2>4. RunKnows'
      BY <1>7
      DEF CompleteDocumentUpload, PendingUpload, RunKnows,
          NothingBeforeCompletion
    <2>5. StepsAreBacked'
      BY <1>7
      DEF CompleteDocumentUpload, PendingUpload, StepsAreBacked,
          DeleteAfterProcessing
    <2>6. StoreIsScanned'
      BY <1>7
      DEF CompleteDocumentUpload, PendingUpload, StoreIsScanned, NothingBeforeCompletion
    <2>7. OriginalOutlivesProcessing'
      BY <1>7
      DEF CompleteDocumentUpload, PendingUpload, OriginalOutlivesProcessing,
          NothingBeforeCompletion
    <2>8. ExtractedOnce'
      BY <1>7
      DEF CompleteDocumentUpload, PendingUpload, ExtractedOnce, RowsInStep,
          StepsAreBacked
    <2>9. QED
      BY <1>1, <1>7, <2>1, <2>2, <2>3, <2>4, <2>5, <2>6, <2>7, <2>8, Frame
      DEF CompleteDocumentUpload
  <1>8. CASE EnqueueWorkflow(u)
    <2>1. NothingBeforeCompletion'
      BY <1>8 DEF EnqueueWorkflow, Added, NoJob, NothingBeforeCompletion
    <2>2. QED
      BY <1>1, <1>8, <2>1, Frame
      DEF EnqueueWorkflow
  <1>9. CASE EnqueueFails(u)
    <2>1. NothingBeforeCompletion'
      BY <1>9 DEF EnqueueFails, NothingBeforeCompletion
    <2>2. QED
      BY <1>1, <1>9, <2>1, Frame
      DEF EnqueueFails
  <1>10. CASE StopUpload(u)
    <2>1. NothingBeforeCompletion'
      BY <1>10 DEF StopUpload, NothingBeforeCompletion
    <2>2. QED
      BY <1>1, <1>10, <2>1, Frame
      DEF StopUpload
  <1>11. CASE ReplayDocumentUpload(u)
    <2>1. NothingBeforeCompletion'
      BY <1>11 DEF ReplayDocumentUpload, NothingBeforeCompletion, StoreIsScanned
    <2>2. QED
      BY <1>1, <1>11, <2>1, Frame
      DEF ReplayDocumentUpload
  <1>12. QED
    BY <1>2, <1>3, <1>4, <1>5, <1>6, <1>7, <1>8, <1>9, <1>10, <1>11 DEF UploadStep

LEMMA RunKeepsIInv ==
  ASSUME IInv, NEW r \in Runs, RunStep(r) \/ CallFails(r) \/ Crash(r)
  PROVE  IInv'
  <1>1. TypeOK'
    BY RunTypeOK DEF IInv
  <1> USE PipelineAssumption, QueueAssumption
      DEF IInv, TypeOK, DocumentRow, WorkflowRow, StoredObject, Job, docVars,
          storeVars, runVars, apiVars
  <1>2. CASE TakeJob(r)
    <2>1. NothingBeforeCompletion'
      BY <1>2 DEF TakeJob, Taken, NothingBeforeCompletion
    <2>2. RunKnows'
      BY <1>2 DEF TakeJob, RunKnows, DeleteAfterProcessing, DeletionCurrent
    <2>3. StoreIsScanned'
      BY <1>2, RunElsewhere DEF TakeJob
    <2>4. QED
      BY <1>1, <1>2, <2>1, <2>2, <2>3, Frame
      DEF TakeJob
  <1>3. CASE ScanRead(r)
    <2>1. NothingBeforeCompletion'
      BY <1>3 DEF ScanRead, Snapshot, NothingBeforeCompletion
    <2>2. RunKnows'
      BY <1>3
      DEF ScanRead, Snapshot, RunKnows, DeleteAfterProcessing, DeletionCurrent
    <2>3. StoreIsScanned'
      BY <1>3, RunElsewhere DEF ScanRead
    <2>4. QED
      BY <1>1, <1>3, <2>1, <2>2, <2>3, Frame
      DEF ScanRead, Snapshot
  <1>4. CASE ScanFetch(r)
    <2>1. NothingBeforeCompletion'
      BY <1>4 DEF ScanFetch, ScanVerdict, NothingBeforeCompletion
    <2>2. RunKnows'
      BY <1>4
      DEF ScanFetch, ScanVerdict, RunKnows, DeleteAfterProcessing, DeletionCurrent, Files
    <2>3. StoreIsScanned'
      BY <1>4 DEF ScanFetch, ScanVerdict, Unusable, StoreIsScanned
    <2>4. QED
      BY <1>1, <1>4, <2>1, <2>2, <2>3, Frame
      DEF ScanFetch, ScanVerdict, Unusable
  <1>5. CASE MarkClean(r)
    <2>1. NothingBeforeCompletion'
      BY <1>5 DEF MarkClean, Continue, NothingBeforeCompletion
    <2>2. RunKnows'
      BY <1>5
      DEF MarkClean, Continue, RunKnows, DeleteAfterProcessing,
          DeletionCurrent
    <2>3. StoreIsScanned'
      BY <1>5 DEF MarkClean, Continue, StoreIsScanned
    <2>4. OriginalOutlivesProcessing'
      BY <1>5
      DEF MarkClean, Continue, OriginalOutlivesProcessing,
          DeleteAfterProcessing
    <2>5. QED
      BY <1>1, <1>5, <2>1, <2>2, <2>3, <2>4, Frame
      DEF MarkClean, Continue
  <1>6. CASE CompleteDocumentScan(r)
    <2>1. RowsInStep'
      BY <1>6 DEF CompleteDocumentScan, ScanCurrent, Continue, RowsInStep
    <2>2. RowVerdictIsTrue'
      BY <1>6 DEF CompleteDocumentScan, RowVerdictIsTrue, RunKnows
    <2>3. NothingBeforeCompletion'
      BY <1>6
      DEF CompleteDocumentScan, ScanCurrent, Continue, NothingBeforeCompletion
    <2>4. RunKnows'
      BY <1>6
      DEF CompleteDocumentScan, ScanCurrent, Continue, RunKnows,
          DeleteAfterProcessing, DeletionCurrent
    <2>5. StepsAreBacked'
      BY <1>6 DEF CompleteDocumentScan, ScanCurrent, StepsAreBacked, RowsInStep
    <2>6. StoreIsScanned'
      BY <1>6 DEF CompleteDocumentScan, ScanCurrent, Continue, StoreIsScanned
    <2>7. OriginalOutlivesProcessing'
      BY <1>6
      DEF CompleteDocumentScan, ScanCurrent, Continue,
          OriginalOutlivesProcessing, DeleteAfterProcessing
    <2>8. ExtractedOnce'
      BY <1>6 DEF CompleteDocumentScan, ScanCurrent, Continue, ExtractedOnce
    <2>9. QED
      BY <1>1, <1>6, <2>1, <2>2, <2>3, <2>4, <2>5, <2>6, <2>7, <2>8, Frame
      DEF CompleteDocumentScan, Continue
  <1>7. CASE DocumentScanConflict(r)
    <2>1. NothingBeforeCompletion'
      BY <1>7 DEF DocumentScanConflict, ScanCurrent, NothingBeforeCompletion
    <2>2. RunKnows'
      BY <1>7
      DEF DocumentScanConflict, ScanCurrent, RunKnows, DeleteAfterProcessing,
          DeletionCurrent
    <2>3. StoreIsScanned'
      BY <1>7, RunElsewhere DEF DocumentScanConflict
    <2>4. QED
      BY <1>1, <1>7, <2>1, <2>2, <2>3, Frame
      DEF DocumentScanConflict
  <1>8. CASE RecordDocumentScanFailure(r)
    <2>1. RowsInStep'
      BY <1>8
      DEF RecordDocumentScanFailure, FailedWorkflow, RowsInStep, NothingBeforeCompletion
    <2>2. RowVerdictIsTrue'
      BY <1>8 DEF RecordDocumentScanFailure, FailedWorkflow, RowVerdictIsTrue
    <2>3. NothingBeforeCompletion'
      BY <1>8 DEF RecordDocumentScanFailure, FailedWorkflow, NothingBeforeCompletion
    <2>4. RunKnows'
      BY <1>8
      DEF RecordDocumentScanFailure, FailedWorkflow, RunKnows, DeleteAfterProcessing,
          DeletionCurrent
    <2>5. StepsAreBacked'
      BY <1>8
      DEF RecordDocumentScanFailure, FailedWorkflow, StepsAreBacked, DeleteAfterProcessing
    <2>6. StoreIsScanned'
      BY <1>8 DEF RecordDocumentScanFailure, FailedWorkflow, StoreIsScanned
    <2>7. OriginalOutlivesProcessing'
      BY <1>8
      DEF RecordDocumentScanFailure, FailedWorkflow, OriginalOutlivesProcessing,
          DeleteAfterProcessing
    <2>8. ExtractedOnce'
      BY <1>8 DEF RecordDocumentScanFailure, FailedWorkflow, ExtractedOnce
    <2>9. QED
      BY <1>1, <1>8, <2>1, <2>2, <2>3, <2>4, <2>5, <2>6, <2>7, <2>8, Frame
      DEF RecordDocumentScanFailure, FailedWorkflow
  <1>9. CASE OcrRead(r)
    <2>1. NothingBeforeCompletion'
      BY <1>9 DEF OcrRead, OcrBranch, Snapshot, NothingBeforeCompletion
    <2>2. RunKnows'
      BY <1>9
      DEF OcrRead, OcrBranch, RunKnows, DeleteAfterProcessing, DeletionCurrent,
          StepsAreBacked
    <2>3. StoreIsScanned'
      BY <1>9, RunElsewhere DEF OcrRead, OcrBranch
    <2>4. QED
      BY <1>1, <1>9, <2>1, <2>2, <2>3, Frame
      DEF OcrRead, OcrBranch, Snapshot
  <1>10. CASE OcrFetch(r)
    <2>1. NothingBeforeCompletion'
      BY <1>10 DEF OcrFetch, NothingBeforeCompletion
    <2>2. RunKnows'
      BY <1>10 DEF OcrFetch, RunKnows, DeleteAfterProcessing, DeletionCurrent
    <2>3. StoreIsScanned'
      BY <1>10, RunElsewhere DEF OcrFetch
    <2>4. QED
      BY <1>1, <1>10, <2>1, <2>2, <2>3, Frame
      DEF OcrFetch
  <1>11. CASE PutDocumentDerivative(r)
    <2>1. NothingBeforeCompletion'
      BY <1>11 DEF PutDocumentDerivative, Continue, NothingBeforeCompletion
    <2>2. RunKnows'
      BY <1>11
      DEF PutDocumentDerivative, Continue, RunKnows, DeleteAfterProcessing,
          DeletionCurrent
    <2>3. StepsAreBacked'
      BY <1>11
      DEF PutDocumentDerivative, Continue, StepsAreBacked,
          DeleteAfterProcessing
    <2>4. StoreIsScanned'
      BY <1>11, RunElsewhere DEF PutDocumentDerivative, Continue
    <2>5. OriginalOutlivesProcessing'
      BY <1>11
      DEF PutDocumentDerivative, Continue, OriginalOutlivesProcessing,
          DeleteAfterProcessing
    <2>6. QED
      BY <1>1, <1>11, <2>1, <2>2, <2>3, <2>4, <2>5, Frame
      DEF PutDocumentDerivative, Continue
  <1>12. CASE CompleteDocumentOcr(r)
    <2>1. RowsInStep'
      BY <1>12
      DEF CompleteDocumentOcr, AfterOcr, OcrCurrent, Continue, DeleteAfterProcessing,
          RowsInStep
    <2>2. NothingBeforeCompletion'
      BY <1>12
      DEF CompleteDocumentOcr, AfterOcr, OcrCurrent, Continue, DeleteAfterProcessing,
          NothingBeforeCompletion
    <2>3. RunKnows'
      BY <1>12
      DEF CompleteDocumentOcr, AfterOcr, OcrCurrent, Continue, DeleteAfterProcessing,
          RunKnows, DeletionCurrent
    <2>4. StepsAreBacked'
      BY <1>12
      DEF CompleteDocumentOcr, AfterOcr, OcrCurrent, DeleteAfterProcessing,
          StepsAreBacked, RowsInStep, RunKnows
    <2>5. StoreIsScanned'
      BY <1>12, RunElsewhere DEF CompleteDocumentOcr, Continue
    <2>6. OriginalOutlivesProcessing'
      BY <1>12
      DEF CompleteDocumentOcr, AfterOcr, OcrCurrent, Continue, DeleteAfterProcessing,
          OriginalOutlivesProcessing
    <2>7. ExtractedOnce'
      BY <1>12
      DEF CompleteDocumentOcr, AfterOcr, OcrCurrent, Continue, DeleteAfterProcessing,
          ExtractedOnce
    <2>8. QED
      BY <1>1, <1>12, <2>1, <2>2, <2>3, <2>4, <2>5, <2>6, <2>7, Frame
      DEF CompleteDocumentOcr, AfterOcr, Continue
  <1>13. CASE DocumentOcrConflict(r)
    <2>1. NothingBeforeCompletion'
      BY <1>13 DEF DocumentOcrConflict, OcrCurrent, NothingBeforeCompletion
    <2>2. RunKnows'
      BY <1>13
      DEF DocumentOcrConflict, OcrCurrent, RunKnows, DeleteAfterProcessing,
          DeletionCurrent
    <2>3. StoreIsScanned'
      BY <1>13, RunElsewhere DEF DocumentOcrConflict
    <2>4. QED
      BY <1>1, <1>13, <2>1, <2>2, <2>3, Frame
      DEF DocumentOcrConflict
  <1>14. CASE DeleteObject(r)
    <2>1. NothingBeforeCompletion'
      BY <1>14 DEF DeleteObject, Continue, NoObject, NothingBeforeCompletion
    <2>2. RunKnows'
      BY <1>14
      DEF DeleteObject, Continue, NoObject, RunKnows, DeleteAfterProcessing,
          DeletionCurrent, NothingBeforeCompletion, StoreIsScanned
    <2>3. StoreIsScanned'
      BY <1>14 DEF DeleteObject, Continue, NoObject, StoreIsScanned
    <2>4. OriginalOutlivesProcessing'
      BY <1>14
      DEF DeleteObject, OriginalOutlivesProcessing, DeleteAfterProcessing,
          RunKnows, StepsAreBacked
    <2>5. QED
      BY <1>1, <1>14, <2>1, <2>2, <2>3, <2>4, Frame
      DEF DeleteObject, Continue
  <1>15. CASE CompleteDocumentOriginalDeletion(r)
    <2>1. RowsInStep'
      BY <1>15
      DEF CompleteDocumentOriginalDeletion, Continue, DeletionCurrent,
          RowsInStep
    <2>2. RowVerdictIsTrue'
      BY <1>15
      DEF CompleteDocumentOriginalDeletion, Continue, DeletionCurrent,
          RowVerdictIsTrue
    <2>3. NothingBeforeCompletion'
      BY <1>15
      DEF CompleteDocumentOriginalDeletion, Continue, DeletionCurrent,
          NothingBeforeCompletion
    <2>4. RunKnows'
      BY <1>15
      DEF CompleteDocumentOriginalDeletion, Continue, DeletionCurrent,
          RunKnows, DeleteAfterProcessing
    <2>5. StepsAreBacked'
      BY <1>15 DEF CompleteDocumentOriginalDeletion, StepsAreBacked, RowsInStep
    <2>6. StoreIsScanned'
      BY <1>15
      DEF CompleteDocumentOriginalDeletion, Continue, DeletionCurrent,
          StoreIsScanned
    <2>7. OriginalOutlivesProcessing'
      BY <1>15
      DEF CompleteDocumentOriginalDeletion, Continue, DeletionCurrent,
          OriginalOutlivesProcessing, DeleteAfterProcessing
    <2>8. ExtractedOnce'
      BY <1>15
      DEF CompleteDocumentOriginalDeletion, Continue, DeletionCurrent,
          ExtractedOnce
    <2>9. QED
      BY <1>1, <1>15, <2>1, <2>2, <2>3, <2>4, <2>5, <2>6, <2>7, <2>8, Frame
      DEF CompleteDocumentOriginalDeletion, Continue
  <1>16. CASE RunReturns(r)
    <2>1. NothingBeforeCompletion'
      BY <1>16 DEF RunReturns, Resolved, NothingBeforeCompletion
    <2>2. RunKnows'
      BY <1>16 DEF RunReturns, RunKnows, DeleteAfterProcessing, DeletionCurrent
    <2>3. StoreIsScanned'
      BY <1>16, RunElsewhere DEF RunReturns
    <2>4. QED
      BY <1>1, <1>16, <2>1, <2>2, <2>3, Frame
      DEF RunReturns
  <1>17. CASE RunThrows(r)
    <2>1. NothingBeforeCompletion'
      BY <1>17 DEF RunThrows, Rejected, NothingBeforeCompletion
    <2>2. RunKnows'
      BY <1>17 DEF RunThrows, Rejected, RunKnows, DeleteAfterProcessing, DeletionCurrent
    <2>3. StoreIsScanned'
      BY <1>17, RunElsewhere DEF RunThrows
    <2>4. QED
      BY <1>1, <1>17, <2>1, <2>2, <2>3, Frame
      DEF RunThrows
  <1>18. CASE CallFails(r)
    <2>1. NothingBeforeCompletion'
      BY <1>18 DEF CallFails, NothingBeforeCompletion, WorkLabels
    <2>2. RunKnows'
      BY <1>18 DEF CallFails, RunKnows, DeleteAfterProcessing, DeletionCurrent
    <2>3. StoreIsScanned'
      BY <1>18, RunElsewhere DEF CallFails
    <2>4. QED
      BY <1>1, <1>18, <2>1, <2>2, <2>3, Frame
      DEF CallFails
  <1>19. CASE Crash(r)
    <2>1. NothingBeforeCompletion'
      BY <1>19 DEF Crash, NothingBeforeCompletion
    <2>2. RunKnows'
      BY <1>19 DEF Crash, RunKnows, DeleteAfterProcessing, DeletionCurrent
    <2>3. StoreIsScanned'
      BY <1>19, RunElsewhere DEF Crash
    <2>4. QED
      BY <1>1, <1>19, <2>1, <2>2, <2>3, Frame
      DEF Crash
  <1>20. QED
    BY <1>2, <1>3, <1>4, <1>5, <1>6, <1>7, <1>8, <1>9, <1>10, <1>11, <1>12,
       <1>13, <1>14, <1>15, <1>16, <1>17, <1>18, <1>19 DEF RunStep

LEMMA QueueKeepsIInv ==
  ASSUME IInv, StallDead \/ StallLive \/ ForgetJob \/ CompleteManualDocumentExtraction
  PROVE  IInv'
  <1>1. TypeOK'
    BY QueueTypeOK DEF IInv
  <1> USE PipelineAssumption, QueueAssumption
      DEF IInv, TypeOK, DocumentRow, WorkflowRow, StoredObject, Job, docVars,
          storeVars, runVars, apiVars
  <1>2. CASE StallDead
    <2>1. NothingBeforeCompletion'
      BY <1>2 DEF StallDead, Stalled, NothingBeforeCompletion
    <2>2. QED
      BY <1>1, <1>2, <2>1, Frame DEF StallDead
  <1>3. CASE StallLive
    <2>1. NothingBeforeCompletion'
      BY <1>3 DEF StallLive, Stalled, NothingBeforeCompletion
    <2>2. QED
      BY <1>1, <1>3, <2>1, Frame DEF StallLive
  <1>4. CASE CompleteManualDocumentExtraction
    <2>1. RowsInStep'
      BY <1>4 DEF CompleteManualDocumentExtraction, ReviewDue, RowsInStep
    <2>2. RunKnows'
      BY <1>4
      DEF CompleteManualDocumentExtraction, ReviewDue, RunKnows, DeleteAfterProcessing,
          DeletionCurrent
    <2>3. StepsAreBacked'
      BY <1>4
      DEF CompleteManualDocumentExtraction, ReviewDue, StepsAreBacked,
          DeleteAfterProcessing
    <2>4. OriginalOutlivesProcessing'
      BY <1>4
      DEF CompleteManualDocumentExtraction, ReviewDue, OriginalOutlivesProcessing,
          DeleteAfterProcessing
    <2>5. ExtractedOnce'
      BY <1>4
      DEF CompleteManualDocumentExtraction, ReviewDue, ExtractedOnce, RowsInStep,
          StepsAreBacked
    <2>6. QED
      BY <1>1, <1>4, <2>1, <2>2, <2>3, <2>4, <2>5, Frame
      DEF CompleteManualDocumentExtraction, ReviewDue
  <1>5. CASE ForgetJob
    <2>1. NothingBeforeCompletion'
      BY <1>5 DEF ForgetJob, Forgotten, NoJob, NothingBeforeCompletion
    <2>2. QED
      BY <1>1, <1>5, <2>1, Frame DEF ForgetJob
  <1>6. QED
    BY <1>2, <1>3, <1>4, <1>5

\* The inductive invariant: what rows, objects, job, runs and requests say of
\* each other in every reachable state.
THEOREM InductiveInvariant == Spec => []IInv
  <1>1. Init => IInv
    BY InitIInv
  <1>2. IInv /\ [Next]_vars => IInv'
    <2> SUFFICES ASSUME IInv, [Next]_vars PROVE IInv'
      OBVIOUS
    <2>1. CASE Next
      BY <2>1, UploadKeepsIInv, RunKeepsIInv, QueueKeepsIInv DEF Next
    <2>2. CASE UNCHANGED vars
      <3>1. TypeOK'
        BY <2>2 DEF IInv, TypeOK, vars
      <3>2. QED
        BY <2>2, <3>1, Frame DEF IInv, vars
    <2>3. QED
      BY <2>1, <2>2
  <1>3. QED
    BY <1>1, <1>2, PTL DEF Spec

\* The documents row and the workflow_runs row never disagree, for any number
\* of overlapping runs, retries and failures.
THEOREM RowsStayInStep == Spec => []RowsInStep
  <1>1. IInv => RowsInStep
    BY DEF IInv
  <1>2. QED
    BY <1>1, InductiveInvariant, PTL

\* The row's verdict is the declared file's, whatever bytes were stored when runs
\* scanned them, and a download returns other bytes only after a late PUT.
THEOREM VerdictTrue == Spec => []VerdictIsTrue
  <1>1. IInv => VerdictIsTrue
    BY DEF IInv, VerdictIsTrue, StoreIsScanned, Downloadable
  <1>2. QED
    BY <1>1, InductiveInvariant, PTL

\* A completed upload's original is only gone where its deletion was chosen
\* and the derivative and its row are durable.
THEOREM OriginalSafe == Spec => []OriginalOutlivesProcessing
  <1>1. IInv => OriginalOutlivesProcessing
    BY DEF IInv
  <1>2. QED
    BY <1>1, InductiveInvariant, PTL

\* While no PUT has landed after the completion, a clean document whose recorded
\* bytes are stored can be downloaded: no run leaves the tag behind the row.
THEOREM BytesDownloadable == Spec => []RecordedBytesDownloadable
  <1>1. IInv => RecordedBytesDownloadable
    BY PipelineAssumption
    DEF IInv, TypeOK, RecordedBytesDownloadable, StoreIsScanned, Downloadable
  <1>2. QED
    BY <1>1, InductiveInvariant, PTL

\* Candidate facts are inserted at most once, after scan and OCR.
THEOREM FactsExtractedOnce == Spec => []ExtractedOnce
  <1>1. IInv => ExtractedOnce
    BY DEF IInv
  <1>2. QED
    BY <1>1, InductiveInvariant, PTL

\* completeDocumentOriginalDeletion never finds the workflow anywhere but at
\* or past the delete-original step.
THEOREM DeletionAccepted == Spec => []DeletionNeverConflicts
  <1>1. IInv => DeletionNeverConflicts
    BY DEF IInv, RunKnows, DeletionNeverConflicts
  <1>2. QED
    BY <1>1, InductiveInvariant, PTL

-----------------------------------------------------------------------------
(* Steps of the rows: nothing goes back, and the abstract life is kept     *)

\* The steps that leave the two rows and the file as they are.
LEMMA RowSteps ==
  ASSUME Next
  PROVE  \/ UNCHANGED <<file, doc, wf>>
         \/ \E u \in Uploads : StartDocumentUpload(u) \/ CompleteDocumentUpload(u)
         \/ \E r \in Runs : \/ CompleteDocumentScan(r)
                            \/ RecordDocumentScanFailure(r)
                            \/ CompleteDocumentOcr(r)
                            \/ CompleteDocumentOriginalDeletion(r)
         \/ CompleteManualDocumentExtraction
  <1> USE DEF docVars
  <1>1. CASE \E u \in Uploads : UploadStep(u)
    BY <1>1 DEF UploadStep, CreateDocumentUploadUrl, PutLands, BeginComplete,
                AssertStoredChecksum, ReplayDocumentUpload, EnqueueWorkflow, EnqueueFails,
                StopUpload
  <1>2. CASE \E r \in Runs : RunStep(r) \/ CallFails(r) \/ Crash(r)
    <2>1. PICK r \in Runs : RunStep(r) \/ CallFails(r) \/ Crash(r)
      BY <1>2
    <2>2. QED
      BY <2>1 DEF RunStep, CallFails, Crash, TakeJob, ScanRead, ScanFetch, ScanVerdict,
                  MarkClean, DocumentScanConflict, OcrRead, OcrBranch, OcrFetch,
                  PutDocumentDerivative, DocumentOcrConflict, DeleteObject,
                  RunReturns, RunThrows
  <1>3. CASE StallDead \/ StallLive \/ ForgetJob
    BY <1>3 DEF StallDead, StallLive, ForgetJob
  <1>4. QED
    BY <1>1, <1>2, <1>3 DEF Next

LEMMA RankValues ==
  /\ Rank["scan"] = 1
  /\ Rank["ocr"] = 2
  /\ Rank["delete-original"] = 3
  /\ Rank["classification"] = 4
  /\ Rank["null"] = 5
  BY DEF Rank, NextSteps

\* No step of any run or request loses a completed step, moves the next step
\* back, touches an ended workflow or changes a verdict.
THEOREM NothingGoesBack == Spec => NeverGoesBack
  <1>1. IInv /\ [Next]_vars => [NoStepBack]_vars
    <2> SUFFICES ASSUME IInv, Next PROVE NoStepBack
      BY DEF NoStepBack
    <2> USE RankValues
        DEF IInv, TypeOK, DocumentRow, WorkflowRow, NextSteps, RowsInStep, NoStepBack
    <2>1. CASE UNCHANGED <<file, doc, wf>>
      BY <2>1
    <2>2. ASSUME NEW u \in Uploads,
                 StartDocumentUpload(u) \/ CompleteDocumentUpload(u)
          PROVE  NoStepBack
      BY <2>2 DEF StartDocumentUpload, CompleteDocumentUpload, PendingUpload
    <2>3. ASSUME NEW r \in Runs, CompleteDocumentScan(r) PROVE NoStepBack
      BY <2>3 DEF CompleteDocumentScan, ScanCurrent
    <2>4. ASSUME NEW r \in Runs, RecordDocumentScanFailure(r) PROVE NoStepBack
      BY <2>4 DEF RecordDocumentScanFailure, FailedWorkflow
    <2>5. ASSUME NEW r \in Runs, CompleteDocumentOcr(r) PROVE NoStepBack
      BY <2>5 DEF CompleteDocumentOcr, AfterOcr, OcrCurrent
    <2>6. ASSUME NEW r \in Runs, CompleteDocumentOriginalDeletion(r) PROVE NoStepBack
      BY <2>6 DEF CompleteDocumentOriginalDeletion
    <2>7. CASE CompleteManualDocumentExtraction
      BY <2>7 DEF CompleteManualDocumentExtraction, ReviewDue
    <2>8. QED
      BY <2>1, <2>2, <2>3, <2>4, <2>5, <2>6, <2>7, RowSteps
  <1>2. QED
    BY <1>1, InductiveInvariant, PTL DEF Spec, NeverGoesBack

\* The pipeline implements DocumentLifecycle: every step of a request, run,
\* retry or failure is one step of the abstract life or leaves it unchanged.
THEOREM Refinement == Spec => ImplementsLifecycle
  <1> USE DEF Stage
  <1>1. Init => Lifecycle!Init
    BY DEF Init, Lifecycle!Init
  <1>2. IInv /\ [Next]_vars => [Lifecycle!Next]_(Lifecycle!lifecycleVars)
    <2> SUFFICES ASSUME IInv, [Next]_vars
                 PROVE  Lifecycle!Next \/ UNCHANGED Lifecycle!lifecycleVars
      OBVIOUS
    <2> USE DEF IInv, TypeOK, DocumentRow, WorkflowRow, OriginalStates, RowsInStep,
                Lifecycle!lifecycleVars, Lifecycle!Advance
    <2>1. CASE UNCHANGED <<file, doc, wf>>
      BY <2>1
    <2>2. ASSUME NEW u \in Uploads, StartDocumentUpload(u)
          PROVE  Lifecycle!Begin \/ UNCHANGED Lifecycle!lifecycleVars
      BY <2>2 DEF StartDocumentUpload, Lifecycle!Begin, Files
    <2>3. ASSUME NEW u \in Uploads, CompleteDocumentUpload(u)
          PROVE  Lifecycle!Quarantine
      BY <2>3 DEF CompleteDocumentUpload, PendingUpload, Lifecycle!Quarantine
    <2>4. ASSUME NEW r \in Runs, CompleteDocumentScan(r)
          PROVE  Lifecycle!Accept \/ Lifecycle!Reject
      BY <2>4 DEF CompleteDocumentScan, ScanCurrent, RunKnows,
                  Lifecycle!Accept, Lifecycle!Reject
    <2>5. ASSUME NEW r \in Runs, RecordDocumentScanFailure(r)
          PROVE  UNCHANGED Lifecycle!lifecycleVars
      BY <2>5 DEF RecordDocumentScanFailure, FailedWorkflow
    <2>6. ASSUME NEW r \in Runs, CompleteDocumentOcr(r)
          PROVE  Lifecycle!Recognise
      BY <2>6 DEF CompleteDocumentOcr, AfterOcr, OcrCurrent, DeleteAfterProcessing,
                  Lifecycle!Recognise
    <2>7. ASSUME NEW r \in Runs, CompleteDocumentOriginalDeletion(r)
          PROVE  Lifecycle!DeleteOriginal \/ UNCHANGED Lifecycle!lifecycleVars
      BY <2>7 DEF CompleteDocumentOriginalDeletion, Lifecycle!DeleteOriginal
    <2>8. ASSUME CompleteManualDocumentExtraction
          PROVE  Lifecycle!Extract
      BY <2>8 DEF CompleteManualDocumentExtraction, ReviewDue, Lifecycle!Extract
    <2>9. CASE UNCHANGED vars
      BY <2>9 DEF vars
    <2>10. QED
      BY <2>1, <2>2, <2>3, <2>4, <2>5, <2>6, <2>7, <2>8, <2>9, RowSteps
      DEF Lifecycle!Next
  <1>3. QED
    BY <1>1, <1>2, InductiveInvariant, PTL
    DEF Spec, ImplementsLifecycle, Lifecycle!Spec

-----------------------------------------------------------------------------
(* Attempts                                                                  *)

\* What each step does to the "document-process" job.
LEMMA JobSteps == [Next]_vars => Moves(job, job')
  <1> SUFFICES ASSUME [Next]_vars PROVE Moves(job, job')
    OBVIOUS
  <1>1. CASE UNCHANGED job
    BY <1>1 DEF Moves
  <1>2. ASSUME NEW u \in Uploads, EnqueueWorkflow(u) PROVE Moves(job, job')
    BY <1>2 DEF EnqueueWorkflow, Moves
  <1>3. ASSUME NEW r \in Runs, TakeJob(r) \/ RunReturns(r) \/ RunThrows(r)
        PROVE  Moves(job, job')
    BY <1>3 DEF TakeJob, RunReturns, RunThrows, Moves
  <1>4. CASE StallDead \/ StallLive \/ ForgetJob
    BY <1>4 DEF StallDead, StallLive, ForgetJob, Moves
  <1>5. \A u \in Uploads : UploadStep(u) => EnqueueWorkflow(u) \/ UNCHANGED job
    BY DEF UploadStep, StartDocumentUpload, CreateDocumentUploadUrl, PutLands, BeginComplete,
       AssertStoredChecksum, CompleteDocumentUpload, ReplayDocumentUpload, EnqueueFails, StopUpload
  <1>6. \A r \in Runs :
           RunStep(r) => TakeJob(r) \/ RunReturns(r) \/ RunThrows(r) \/ UNCHANGED job
    BY DEF RunStep, ScanRead, ScanFetch, MarkClean, CompleteDocumentScan, DocumentScanConflict,
       RecordDocumentScanFailure, OcrRead, OcrFetch, PutDocumentDerivative, CompleteDocumentOcr,
       DocumentOcrConflict, DeleteObject, CompleteDocumentOriginalDeletion
  <1>7. /\ \A r \in Runs : CallFails(r) \/ Crash(r) => UNCHANGED job
        /\ CompleteManualDocumentExtraction \/ UNCHANGED vars => UNCHANGED job
    BY DEF CallFails, Crash, CompleteManualDocumentExtraction, vars
  <1> QED
    BY <1>1, <1>2, <1>3, <1>4, <1>5, <1>6, <1>7 DEF Next

\* The "document-process" job is retried and forgiven expired locks no more often than
\* the queue's options say.
THEOREM JobIsBounded == Spec => []Counted(job)
  <1>1. Init => Counted(job)
    BY QueueAssumption DEF Init, Counted, NoJob
  <1>2. TypeOK /\ Counted(job) /\ [Next]_vars => Counted(job)'
    BY JobSteps, MovesAreCounted DEF TypeOK, Counted
  <1> QED
    BY <1>1, <1>2, TypeCorrect, PTL DEF Spec

\* A "document-process" job that has completed or failed is not resumed: repeated
\* completions of the upload and runs that outlived their locks leave it as it is, until
\* the queue forgets it.
THEOREM JobEndsForGood == Spec => [][Ended(job) => job' \in {job, NoJob}]_vars
  <1>1. TypeOK /\ Counted(job) /\ [Next]_vars => [Ended(job) => job' \in {job, NoJob}]_vars
    BY JobSteps, MovesAreCounted DEF TypeOK
  <1> QED
    BY <1>1, TypeCorrect, JobIsBounded, PTL DEF Spec
=============================================================================
