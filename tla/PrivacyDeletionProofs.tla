----------------------- MODULE PrivacyDeletionProofs -----------------------
(***************************************************************************)
(* Proofs about PrivacyDeletion for every set of runs and AI turns and     *)
(* every bound: type correctness, the inductive invariant, and from it the *)
(* safety properties the runs check.                                       *)
(***************************************************************************)
EXTENDS PrivacyDeletion, WorkflowQueueProofs

LEMMA InitTypeOK == Init => TypeOK
  BY QueueAssumption
  DEF Init, TypeOK, NoJob, Job, RequestRow, ExecutionRow, WorkflowRow, RunLabels,
      RequestStatuses, ExecutionStatuses, WfStatuses, NextSteps

LEMMA ConfirmTypeOK ==
  ASSUME TypeOK, ConfirmStep
  PROVE  TypeOK'
  <1> USE DEF TypeOK, rowVars, holdVars, runVars, clientVars, cacheVars, Fault
  <1>1. CASE StartPrivacyRequest
    BY <1>1
    DEF StartPrivacyRequest, RequestRow, RequestStatuses, Fates, WorkflowRow,
        WfStatuses, NextSteps, Steps
  <1>2. CASE ConfirmPrivacyDeletion
    BY <1>2
    DEF ConfirmPrivacyDeletion, RequestRow, RequestStatuses, ExecutionRow,
        ExecutionStatuses, Fates, WorkflowRow, WfStatuses, NextSteps, Steps
  <1>3. CASE EnqueueWorkflow
    BY <1>3, JobOperations DEF EnqueueWorkflow
  <1>4. CASE ConfirmFails
    BY <1>4 DEF ConfirmFails
  <1>5. CASE RetryConfirm
    BY <1>5 DEF RetryConfirm
  <1>6. QED
    BY <1>1, <1>2, <1>3, <1>4, <1>5 DEF ConfirmStep

LEMMA CancelTypeOK ==
  ASSUME TypeOK, CancelStep
  PROVE  TypeOK'
  <1> USE DEF TypeOK, rowVars, holdVars, runVars, clientVars, cacheVars, Fault
  <1>1. CASE LockRequest
    BY <1>1 DEF LockRequest
  <1>2. CASE CancelPrivacyDeletion
    BY <1>2
    DEF CancelPrivacyDeletion, RequestRow, RequestStatuses, ExecutionRow,
        ExecutionStatuses, Fates, WorkflowRow, WfStatuses, NextSteps, Steps
  <1>3. CASE CancelRollsBack
    BY <1>3 DEF CancelRollsBack
  <1>4. CASE RemoveJob
    BY <1>4, JobOperations DEF RemoveJob
  <1>5. CASE CancelFails
    BY <1>5 DEF CancelFails
  <1>6. CASE RetryCancel
    BY <1>6 DEF RetryCancel
  <1>7. QED
    BY <1>1, <1>2, <1>3, <1>4, <1>5, <1>6 DEF CancelStep

LEMMA WorldTypeOK ==
  ASSUME TypeOK, RecoveryElapses \/ PlaceHold \/ ReleaseHold \/ Promote \/
         StallDead \/ StallLive \/ ForgetJob
  PROVE  TypeOK'
  <1> USE DEF TypeOK, rowVars, holdVars, runVars, clientVars, cacheVars, Fault
  <1>1. CASE RecoveryElapses
    BY <1>1 DEF RecoveryElapses
  <1>2. CASE PlaceHold
    BY <1>2 DEF PlaceHold
  <1>3. CASE ReleaseHold
    BY <1>3 DEF ReleaseHold
  <1>4. CASE Promote
    BY <1>4 DEF Promote, Job
  <1>5. CASE StallDead
    BY <1>5, JobOperations DEF StallDead
  <1>6. CASE StallLive
    BY <1>6, JobOperations DEF StallLive
  <1>7. CASE ForgetJob
    BY <1>7, JobOperations DEF ForgetJob, Forgotten
  <1>8. QED
    BY <1>1, <1>2, <1>3, <1>4, <1>5, <1>6, <1>7

LEMMA TurnTypeOK ==
  ASSUME TypeOK, NEW t \in Turns, TurnStep(t)
  PROVE  TypeOK'
  <1> USE DEF TypeOK, rowVars, holdVars, runVars, clientVars, cacheVars, Fault
  <1>1. CASE BeginTurn(t)
    BY <1>1 DEF BeginTurn
  <1>2. CASE CacheAnswer(t)
    BY <1>2 DEF CacheAnswer
  <1>3. CASE CacheExpires(t)
    BY <1>3 DEF CacheExpires
  <1>4. CASE TurnFails(t)
    BY <1>4 DEF TurnFails
  <1>5. CASE KeepAnswer(t)
    BY <1>5 DEF KeepAnswer
  <1>6. CASE DropAnswer(t)
    BY <1>6 DEF DropAnswer
  <1>7. QED
    BY <1>1, <1>2, <1>3, <1>4, <1>5, <1>6 DEF TurnStep

LEMMA RunTypeOK ==
  ASSUME TypeOK, NEW r \in Runs, RunStep(r) \/ CallFails(r) \/ Crash(r) \/
         DeadlockDetected(r)
  PROVE  TypeOK'
  <1> USE DEF TypeOK, rowVars, holdVars, runVars, clientVars, cacheVars, Fault
  <1>1. CASE TakeJob(r)
    BY <1>1, RunOperations DEF TakeJob, RunLabels, WorkLabels
  <1>2. CASE GetPrivacyDeletionInput(r)
    BY <1>2
    DEF GetPrivacyDeletionInput, RunLabels, WorkLabels, DeletionBranch,
        ExecutionRow
  <1>3. CASE PurgeList(r)
    BY <1>3 DEF PurgeList, RunLabels, WorkLabels
  <1>4. CASE PurgeScope(r)
    BY <1>4 DEF PurgeScope, RunLabels, WorkLabels
  <1>5. CASE LockExecution(r)
    BY <1>5 DEF LockExecution, RunLabels, WorkLabels
  <1>6. CASE BlockForHold(r)
    BY <1>6
    DEF BlockForHold, RequestRow, RequestStatuses, ExecutionRow,
        ExecutionStatuses, Fates, WorkflowRow, WfStatuses, NextSteps, Steps,
        RunLabels, WorkLabels, Committed
  <1>7. CASE DeleteActiveSystem(r)
    BY <1>7
    DEF DeleteActiveSystem, RequestRow, RequestStatuses, ExecutionRow,
        ExecutionStatuses, Fates, WorkflowRow, WfStatuses, NextSteps, Steps,
        RunLabels, WorkLabels, Committed
  <1>8. CASE RunReturns(r)
    BY <1>8, RunOperations DEF RunReturns, RunLabels, WorkLabels
  <1>9. CASE RunThrows(r)
    BY <1>9, RunOperations DEF RunThrows, RunLabels, WorkLabels
  <1>10. CASE CallFails(r)
    BY <1>10 DEF CallFails, RunLabels, WorkLabels, AfterFailure
  <1>11. CASE Crash(r)
    BY <1>11 DEF Crash, RunLabels, WorkLabels
  <1>12. CASE DeadlockDetected(r)
    BY <1>12 DEF DeadlockDetected, RunLabels, WorkLabels
  <1>13. QED
    BY <1>1, <1>2, <1>3, <1>4, <1>5, <1>6, <1>7, <1>8, <1>9, <1>10, <1>11,
       <1>12 DEF RunStep

\* Rows, clients, holds, job, runs and cache keep their types.
THEOREM TypeCorrect == Spec => []TypeOK
  <1>1. TypeOK /\ [Next]_vars => TypeOK'
    <2> SUFFICES ASSUME TypeOK, [Next]_vars PROVE TypeOK'
      OBVIOUS
    <2>1. CASE Next
      BY <2>1, ConfirmTypeOK, CancelTypeOK, WorldTypeOK, TurnTypeOK, RunTypeOK
      DEF Next
    <2>2. CASE UNCHANGED vars
      BY <2>2 DEF TypeOK, vars
    <2>3. QED
      BY <2>1, <2>2
  <1>2. QED
    BY <1>1, InitTypeOK, PTL DEF Spec

-----------------------------------------------------------------------------
(* The inductive invariant                                                 *)

\* What each part of the invariant depends on.
LEMMA Frame ==
  ASSUME IInv
  PROVE  /\ UNCHANGED <<request, execution, wf, person>> => RowsAgree'
         /\ UNCHANGED <<request, person, cancel>> => CancelledNeverDeleted'
         /\ UNCHANGED <<request, wf, pc, cancel>> => ClientKnows'
         /\ UNCHANGED <<execution, clock, pc>> => RunKnows'
  <1>1. UNCHANGED <<request, execution, wf, person>> => RowsAgree'
    BY DEF IInv, RowsAgree, WorkflowOf
  <1>2. UNCHANGED <<request, person, cancel>> => CancelledNeverDeleted'
    BY DEF IInv, CancelledNeverDeleted
  <1>3. UNCHANGED <<request, wf, pc, cancel>> => ClientKnows'
    BY DEF IInv, ClientKnows, Cancelling, ExecutionLocked, Holding
  <1>4. UNCHANGED <<execution, clock, pc>> => RunKnows'
    BY DEF IInv, RunKnows, Holding
  <1>5. QED
    BY <1>1, <1>2, <1>3, <1>4

LEMMA InitIInv == Init => IInv
  <1> SUFFICES ASSUME Init PROVE IInv
    OBVIOUS
  <1>1. TypeOK
    BY InitTypeOK
  <1>2. QED
    BY <1>1
    DEF Init, IInv, RowsAgree, CancelledNeverDeleted, ClientKnows, RunKnows,
        WorkflowOf, Cancelling, ExecutionLocked, Holding

LEMMA ConfirmKeepsIInv ==
  ASSUME IInv, ConfirmStep
  PROVE  IInv'
  <1>1. TypeOK'
    BY ConfirmTypeOK DEF IInv
  <1> USE QueueAssumption, DeletionAssumption
      DEF IInv, TypeOK, RequestRow, ExecutionRow, WorkflowRow, rowVars, holdVars,
          runVars, clientVars, cacheVars
  <1>2. CASE StartPrivacyRequest
    <2>1. RowsAgree'
      BY <1>2 DEF StartPrivacyRequest, RowsAgree, WorkflowOf
    <2>2. CancelledNeverDeleted'
      BY <1>2 DEF StartPrivacyRequest, CancelledNeverDeleted
    <2>3. ClientKnows'
      BY <1>2
      DEF StartPrivacyRequest, ClientKnows, Cancelling, ExecutionLocked,
          Holding
    <2>4. QED
      BY <1>1, <1>2, <2>1, <2>2, <2>3, Frame DEF StartPrivacyRequest
  <1>3. CASE ConfirmPrivacyDeletion
    <2>1. RowsAgree'
      BY <1>3 DEF ConfirmPrivacyDeletion, RowsAgree, WorkflowOf
    <2>2. CancelledNeverDeleted'
      BY <1>3 DEF ConfirmPrivacyDeletion, CancelledNeverDeleted
    <2>3. ClientKnows'
      BY <1>3
      DEF ConfirmPrivacyDeletion, ClientKnows, Cancelling, ExecutionLocked,
          Holding
    <2>4. RunKnows'
      BY <1>3 DEF ConfirmPrivacyDeletion, RunKnows, Holding
    <2>5. QED
      BY <1>1, <1>3, <2>1, <2>2, <2>3, <2>4, Frame DEF ConfirmPrivacyDeletion
  <1>4. CASE EnqueueWorkflow
    BY <1>1, <1>4, Frame DEF EnqueueWorkflow
  <1>5. CASE ConfirmFails
    BY <1>1, <1>5, Frame DEF ConfirmFails
  <1>6. CASE RetryConfirm
    BY <1>1, <1>6, Frame DEF RetryConfirm
  <1>7. QED
    BY <1>2, <1>3, <1>4, <1>5, <1>6 DEF ConfirmStep

LEMMA CancelKeepsIInv ==
  ASSUME IInv, CancelStep
  PROVE  IInv'
  <1>1. TypeOK'
    BY CancelTypeOK DEF IInv
  <1> USE QueueAssumption, DeletionAssumption
      DEF IInv, TypeOK, RequestRow, ExecutionRow, WorkflowRow, rowVars, holdVars,
          runVars, clientVars, cacheVars
  <1>2. CASE LockRequest
    <2>1. CancelledNeverDeleted'
      BY <1>2 DEF LockRequest, Cancellable, CancelledNeverDeleted
    <2>2. ClientKnows'
      BY <1>2
      DEF LockRequest, Cancellable, ClientKnows, Cancelling, ExecutionLocked,
          Holding
    <2>3. QED
      BY <1>1, <1>2, <2>1, <2>2, Frame DEF LockRequest
  <1>3. CASE CancelPrivacyDeletion
    <2>1. RowsAgree'
      BY <1>3
      DEF CancelPrivacyDeletion, Cancelling, ExecutionLocked, Holding,
          RowsAgree, WorkflowOf
    <2>2. CancelledNeverDeleted'
      BY <1>3 DEF CancelPrivacyDeletion, CancelledNeverDeleted, RowsAgree
    <2>3. ClientKnows'
      BY <1>3
      DEF CancelPrivacyDeletion, Cancelling, ExecutionLocked, Holding,
          ClientKnows
    <2>4. RunKnows'
      BY <1>3
      DEF CancelPrivacyDeletion, Cancelling, ExecutionLocked, Holding,
          RunKnows
    <2>5. QED
      BY <1>1, <1>3, <2>1, <2>2, <2>3, <2>4, Frame DEF CancelPrivacyDeletion
  <1>4. CASE CancelRollsBack
    <2>1. CancelledNeverDeleted'
      BY <1>4 DEF CancelRollsBack, Fault, Cancelling, CancelledNeverDeleted
    <2>2. ClientKnows'
      BY <1>4
      DEF CancelRollsBack, Fault, Cancelling, ClientKnows, ExecutionLocked,
          Holding
    <2>3. QED
      BY <1>1, <1>4, <2>1, <2>2, Frame DEF CancelRollsBack
  <1>5. CASE RemoveJob
    <2>1. CancelledNeverDeleted'
      BY <1>5 DEF RemoveJob, NoJob, CancelledNeverDeleted
    <2>2. ClientKnows'
      BY <1>5
      DEF RemoveJob, NoJob, ClientKnows, Cancelling, ExecutionLocked, Holding
    <2>3. QED
      BY <1>1, <1>5, <2>1, <2>2, Frame DEF RemoveJob
  <1>6. CASE CancelFails
    <2>1. CancelledNeverDeleted'
      BY <1>6 DEF CancelFails, Fault, CancelledNeverDeleted
    <2>2. ClientKnows'
      BY <1>6
      DEF CancelFails, Fault, ClientKnows, Cancelling, ExecutionLocked,
          Holding
    <2>3. QED
      BY <1>1, <1>6, <2>1, <2>2, Frame DEF CancelFails
  <1>7. CASE RetryCancel
    <2>1. CancelledNeverDeleted'
      BY <1>7 DEF RetryCancel, CancelledNeverDeleted
    <2>2. ClientKnows'
      BY <1>7
      DEF RetryCancel, ClientKnows, Cancelling, ExecutionLocked, Holding
    <2>3. QED
      BY <1>1, <1>7, <2>1, <2>2, Frame DEF RetryCancel
  <1>8. QED
    BY <1>2, <1>3, <1>4, <1>5, <1>6, <1>7 DEF CancelStep

LEMMA WorldKeepsIInv ==
  ASSUME IInv, RecoveryElapses \/ PlaceHold \/ ReleaseHold \/ Promote \/
         StallDead \/ StallLive \/ ForgetJob
  PROVE  IInv'
  <1>1. TypeOK'
    BY WorldTypeOK DEF IInv
  <1> USE QueueAssumption, DeletionAssumption
      DEF IInv, TypeOK, RequestRow, ExecutionRow, WorkflowRow, rowVars, holdVars,
          runVars, clientVars, cacheVars
  <1>2. CASE RecoveryElapses
    <2>1. RunKnows'
      BY <1>2 DEF RecoveryElapses, RunKnows, Holding
    <2>2. QED
      BY <1>1, <1>2, <2>1, Frame DEF RecoveryElapses
  <1>3. CASE PlaceHold
    BY <1>1, <1>3, Frame DEF PlaceHold
  <1>4. CASE ReleaseHold
    BY <1>1, <1>4, Frame DEF ReleaseHold
  <1>5. CASE Promote
    BY <1>1, <1>5, Frame DEF Promote
  <1>6. CASE StallDead
    BY <1>1, <1>6, Frame DEF StallDead
  <1>7. CASE StallLive
    BY <1>1, <1>7, Frame DEF StallLive
  <1>8. CASE ForgetJob
    BY <1>1, <1>8, Frame DEF ForgetJob
  <1>9. QED
    BY <1>2, <1>3, <1>4, <1>5, <1>6, <1>7, <1>8

LEMMA TurnKeepsIInv ==
  ASSUME IInv, NEW t \in Turns, TurnStep(t)
  PROVE  IInv'
  <1>1. TypeOK'
    BY TurnTypeOK DEF IInv
  <1> USE QueueAssumption, DeletionAssumption
      DEF IInv, TypeOK, RequestRow, ExecutionRow, WorkflowRow, rowVars, holdVars,
          runVars, clientVars, cacheVars
  <1>2. UNCHANGED <<rowVars, person, holdVars, clock, job, runVars, clientVars>>
    BY DEF TurnStep, BeginTurn, CacheAnswer, KeepAnswer, TurnFails, CacheExpires,
           DropAnswer
  <1>3. QED
    BY <1>1, <1>2, Frame

LEMMA RunKeepsIInv ==
  ASSUME IInv, NEW r \in Runs, RunStep(r) \/ CallFails(r) \/ Crash(r) \/
         DeadlockDetected(r)
  PROVE  IInv'
  <1>1. TypeOK'
    BY RunTypeOK DEF IInv
  <1> USE QueueAssumption, DeletionAssumption
      DEF IInv, TypeOK, RequestRow, ExecutionRow, WorkflowRow, rowVars, holdVars,
          runVars, clientVars, cacheVars
  <1>2. CASE TakeJob(r)
    <2>1. ClientKnows'
      BY <1>2 DEF TakeJob, ClientKnows, Cancelling, ExecutionLocked, Holding
    <2>2. RunKnows'
      BY <1>2 DEF TakeJob, RunKnows, Holding
    <2>3. QED
      BY <1>1, <1>2, <2>1, <2>2, Frame DEF TakeJob
  <1>3. CASE GetPrivacyDeletionInput(r)
    <2>1. ClientKnows'
      BY <1>3
      DEF GetPrivacyDeletionInput, DeletionBranch, ClientKnows, Cancelling,
          ExecutionLocked, Holding
    <2>2. RunKnows'
      BY <1>3 DEF GetPrivacyDeletionInput, DeletionBranch, RunKnows, Holding
    <2>3. QED
      BY <1>1, <1>3, <2>1, <2>2, Frame DEF GetPrivacyDeletionInput
  <1>4. CASE PurgeList(r)
    <2>1. ClientKnows'
      BY <1>4 DEF PurgeList, ClientKnows, Cancelling, ExecutionLocked, Holding
    <2>2. RunKnows'
      BY <1>4 DEF PurgeList, RunKnows, Holding
    <2>3. QED
      BY <1>1, <1>4, <2>1, <2>2, Frame DEF PurgeList
  <1>5. CASE PurgeScope(r)
    <2>1. ClientKnows'
      BY <1>5 DEF PurgeScope, ClientKnows, Cancelling, ExecutionLocked, Holding
    <2>2. RunKnows'
      BY <1>5 DEF PurgeScope, RunKnows, Holding
    <2>3. QED
      BY <1>1, <1>5, <2>1, <2>2, Frame DEF PurgeScope
  <1>6. CASE LockExecution(r)
    <2>1. ClientKnows'
      BY <1>6
      DEF LockExecution, ExecutionLocked, ExecutionCurrent, Holding,
          ClientKnows, Cancelling
    <2>2. RunKnows'
      BY <1>6
      DEF LockExecution, ExecutionLocked, ExecutionCurrent, Holding, RunKnows
    <2>3. QED
      BY <1>1, <1>6, <2>1, <2>2, Frame DEF LockExecution
  <1>7. CASE BlockForHold(r)
    <2>1. RowsAgree'
      BY <1>7 DEF BlockForHold, RowsAgree, WorkflowOf, Holding, RunKnows
    <2>2. CancelledNeverDeleted'
      BY <1>7
      DEF BlockForHold, CancelledNeverDeleted, RowsAgree, Holding, RunKnows
    <2>3. ClientKnows'
      BY <1>7
      DEF BlockForHold, Cancelling, ClientKnows, Holding, RowsAgree, RunKnows
    <2>4. RunKnows'
      BY <1>7 DEF BlockForHold, Cancelling, Committed, Fault, RunKnows, Holding
    <2>5. QED
      BY <1>1, <1>7, <2>1, <2>2, <2>3, <2>4, Frame DEF BlockForHold
  <1>8. CASE DeleteActiveSystem(r)
    <2>1. RowsAgree'
      BY <1>8
      DEF DeleteActiveSystem, Cancelling, Committed, Fault, RowsAgree,
          WorkflowOf
    <2>2. CancelledNeverDeleted'
      BY <1>8
      DEF DeleteActiveSystem, CancelledNeverDeleted, RowsAgree, Holding,
          RunKnows
    <2>3. ClientKnows'
      BY <1>8
      DEF DeleteActiveSystem, Cancelling, ClientKnows, Holding, RowsAgree,
          RunKnows
    <2>4. RunKnows'
      BY <1>8
      DEF DeleteActiveSystem, Cancelling, Committed, Fault, RunKnows, Holding
    <2>5. QED
      BY <1>1, <1>8, <2>1, <2>2, <2>3, <2>4, Frame DEF DeleteActiveSystem
  <1>9. CASE RunReturns(r)
    <2>1. ClientKnows'
      BY <1>9 DEF RunReturns, ClientKnows, Cancelling, ExecutionLocked, Holding
    <2>2. RunKnows'
      BY <1>9 DEF RunReturns, RunKnows, Holding
    <2>3. QED
      BY <1>1, <1>9, <2>1, <2>2, Frame DEF RunReturns
  <1>10. CASE RunThrows(r)
    <2>1. ClientKnows'
      BY <1>10 DEF RunThrows, ClientKnows, Cancelling, ExecutionLocked, Holding
    <2>2. RunKnows'
      BY <1>10 DEF RunThrows, RunKnows, Holding
    <2>3. QED
      BY <1>1, <1>10, <2>1, <2>2, Frame DEF RunThrows
  <1>11. CASE CallFails(r)
    <2>1. ClientKnows'
      BY <1>11
      DEF CallFails, Fault, AfterFailure, WorkLabels, ClientKnows, Cancelling,
          ExecutionLocked, Holding
    <2>2. RunKnows'
      BY <1>11
      DEF CallFails, Fault, AfterFailure, WorkLabels, RunKnows, Holding
    <2>3. QED
      BY <1>1, <1>11, <2>1, <2>2, Frame DEF CallFails
  <1>12. CASE Crash(r)
    <2>1. ClientKnows'
      BY <1>12
      DEF Crash, Fault, ClientKnows, Cancelling, ExecutionLocked, Holding
    <2>2. RunKnows'
      BY <1>12 DEF Crash, Fault, RunKnows, Holding
    <2>3. QED
      BY <1>1, <1>12, <2>1, <2>2, Frame DEF Crash
  <1>13. CASE DeadlockDetected(r)
    <2>1. CancelledNeverDeleted'
      BY <1>13 DEF DeadlockDetected, Holding, CancelledNeverDeleted
    <2>2. ClientKnows'
      BY <1>13
      DEF DeadlockDetected, Holding, ClientKnows, Cancelling, ExecutionLocked,
          RunKnows
    <2>3. RunKnows'
      BY <1>13 DEF DeadlockDetected, Holding, RunKnows
    <2>4. QED
      BY <1>1, <1>13, <2>1, <2>2, <2>3, Frame DEF DeadlockDetected
  <1>14. QED
    BY <1>2, <1>3, <1>4, <1>5, <1>6, <1>7, <1>8, <1>9, <1>10, <1>11, <1>12,
       <1>13 DEF RunStep

\* The inductive invariant: what rows, clients, runs and cache say of each other
\* in every reachable state.
THEOREM InductiveInvariant == Spec => []IInv
  <1>1. IInv /\ [Next]_vars => IInv'
    <2> SUFFICES ASSUME IInv, [Next]_vars PROVE IInv'
      OBVIOUS
    <2>1. CASE Next
      BY <2>1, ConfirmKeepsIInv, CancelKeepsIInv, WorldKeepsIInv, TurnKeepsIInv,
         RunKeepsIInv
      DEF Next
    <2>2. CASE UNCHANGED vars
      <3>1. TypeOK'
        BY <2>2 DEF IInv, TypeOK, vars
      <3>2. QED
        BY <2>2, <3>1, Frame DEF IInv, vars
    <2>3. QED
      BY <2>1, <2>2
  <1>2. QED
    BY <1>1, InitIInv, PTL DEF Spec

\* Request, execution and workflow rows tell one story, and the account is gone
\* exactly when they say so, for any number of overlapping runs.
THEOREM RowsAlwaysAgree == Spec => []RowsAgree
  <1>1. IInv => RowsAgree
    BY DEF IInv
  <1>2. QED
    BY <1>1, InductiveInvariant, PTL

\* An acknowledged cancellation is never followed by the account's removal.
THEOREM CancellationHolds == Spec => []CancelledNeverDeleted
  <1>1. IInv => CancelledNeverDeleted
    BY DEF IInv
  <1>2. QED
    BY <1>1, InductiveInvariant, PTL

\* A cancellation that holds the request row finds its other rows as needed.
THEOREM CancellationNeverConflicts == Spec => []CancelFindsItsRows
  <1>1. IInv => CancelFindsItsRows
    BY DEF IInv, CancelFindsItsRows, RowsAgree, WorkflowOf, ClientKnows
  <1>2. QED
    BY <1>1, InductiveInvariant, PTL

\* The account is only removed by a run that has seen the recovery period
\* elapse, for a confirmed request nobody is cancelling.
THEOREM DeletionOnlyWhenDue == Spec => DeletionIsDue
  <1> DEFINE Due == person' # person => /\ clock = "elapsed"
                                        /\ request.status = "recovery-period"
                                        /\ "identity-verification" \in wf.steps
                                        /\ cancel = "idle"
  <1>1. ASSUME NEW r \in Runs, DeleteActiveSystem(r), IInv
        PROVE  Due
    BY <1>1 DEF DeleteActiveSystem, IInv, TypeOK, RequestRow, RowsAgree, RunKnows,
                Holding, ClientKnows, CancelledNeverDeleted, Cancelling
  <1>2. ASSUME Next, \A r \in Runs : ~DeleteActiveSystem(r)
        PROVE  person' = person
    BY <1>2 DEF Next, ConfirmStep, CancelStep, RunStep, TurnStep,
                StartPrivacyRequest, ConfirmPrivacyDeletion, EnqueueWorkflow,
                ConfirmFails, RetryConfirm, LockRequest, CancelPrivacyDeletion,
                CancelRollsBack, RemoveJob, CancelFails, RetryCancel,
                RecoveryElapses, PlaceHold, ReleaseHold, BeginTurn, CacheAnswer, KeepAnswer,
                TurnFails, CacheExpires, DropAnswer, Promote, StallDead, StallLive,
                ForgetJob, TakeJob, GetPrivacyDeletionInput, PurgeList, PurgeScope, LockExecution,
                BlockForHold, RunReturns, RunThrows, CallFails, Crash,
                DeadlockDetected
  <1>3. IInv /\ [Next]_vars => [Due]_vars
    BY <1>1, <1>2 DEF vars
  <1>4. QED
    BY <1>3, InductiveInvariant, PTL DEF Spec, DeletionIsDue

\* Of a deleted person no turn is begun any more, and the shared cache receives only
\* answers the provider was asked for before the deletion.
THEOREM OnlyLastAnswers == Spec => LastAnswers
  <1> DEFINE Last == person = "deleted" => /\ person' = "deleted"
                                           /\ Asking' \subseteq Asking
                                           /\ cache' \subseteq cache \cup Asking
  <1>1. ASSUME TypeOK, NEW t \in Turns, TurnStep(t)
        PROVE  Last
    <2> SUFFICES ASSUME person = "deleted" PROVE Last
      OBVIOUS
    <2> USE DEF TypeOK, Asking
    <2>1. CASE BeginTurn(t)
      BY <2>1 DEF BeginTurn, MayAsk
    <2>2. CASE CacheAnswer(t)
      BY <1>1, <2>2 DEF CacheAnswer
    <2>3. CASE KeepAnswer(t)
      BY <1>1, <2>3 DEF KeepAnswer
    <2>4. CASE TurnFails(t)
      BY <1>1, <2>4 DEF TurnFails
    <2>5. CASE CacheExpires(t)
      BY <1>1, <2>5 DEF CacheExpires
    <2>6. CASE DropAnswer(t)
      BY <1>1, <2>6 DEF DropAnswer
    <2> QED
      BY <1>1, <2>1, <2>2, <2>3, <2>4, <2>5, <2>6 DEF TurnStep
  <1>2. ASSUME NEW r \in Runs, PurgeScope(r)
        PROVE  Last
    BY <1>2 DEF PurgeScope, Asking
  <1>3. ASSUME NEW r \in Runs, DeleteActiveSystem(r)
        PROVE  Last
    BY <1>3 DEF DeleteActiveSystem, cacheVars, Asking
  <1>4. ASSUME Next, ~\E t \in Turns : TurnStep(t),
               ~\E r \in Runs : PurgeScope(r) \/ DeleteActiveSystem(r)
        PROVE  UNCHANGED <<person, turn, cache>>
    BY <1>4 DEF Next, cacheVars, ConfirmStep, CancelStep, RunStep,
                StartPrivacyRequest, ConfirmPrivacyDeletion, EnqueueWorkflow,
                ConfirmFails, RetryConfirm, LockRequest, CancelPrivacyDeletion,
                CancelRollsBack, RemoveJob, CancelFails, RetryCancel,
                RecoveryElapses, PlaceHold, ReleaseHold, Promote, StallDead, StallLive,
                ForgetJob, TakeJob, GetPrivacyDeletionInput, PurgeList, LockExecution,
                BlockForHold, RunReturns, RunThrows, CallFails, Crash,
                DeadlockDetected
  <1>5. UNCHANGED <<person, turn, cache>> => Last
    BY DEF Asking
  <1>6. TypeOK /\ [Next]_vars => [Last]_vars
    BY <1>1, <1>2, <1>3, <1>4, <1>5
  <1> QED
    BY <1>6, TypeCorrect, PTL DEF Spec, LastAnswers

-----------------------------------------------------------------------------
(* Refinement of the abstract life                                         *)

\* The steps that touch rows, account or clock; all others are about clients,
\* runs, queue, holds and cache.
LEMMA RowSteps ==
  ASSUME Next
  PROVE  \/ StartPrivacyRequest \/ ConfirmPrivacyDeletion \/ CancelPrivacyDeletion
         \/ RecoveryElapses
         \/ \E r \in Runs : BlockForHold(r) \/ DeleteActiveSystem(r)
         \/ UNCHANGED <<request, execution, wf, person, clock>>
  <1> USE DEF rowVars
  <1>1. CASE EnqueueWorkflow \/ ConfirmFails \/ RetryConfirm
    BY <1>1 DEF EnqueueWorkflow, ConfirmFails, RetryConfirm
  <1>2. CASE LockRequest \/ CancelRollsBack \/ RemoveJob \/ CancelFails \/ RetryCancel
    BY <1>2 DEF LockRequest, CancelRollsBack, RemoveJob, CancelFails, RetryCancel
  <1>3. CASE PlaceHold \/ ReleaseHold \/ Promote \/ StallDead \/ StallLive \/ ForgetJob
    BY <1>3 DEF PlaceHold, ReleaseHold, Promote, StallDead, StallLive, ForgetJob
  <1>4. ASSUME NEW t \in Turns, TurnStep(t)
        PROVE  UNCHANGED <<request, execution, wf, person, clock>>
    BY <1>4 DEF TurnStep, BeginTurn, CacheAnswer, KeepAnswer, TurnFails, CacheExpires,
                DropAnswer
  <1>5. ASSUME NEW r \in Runs,
               \/ TakeJob(r) \/ GetPrivacyDeletionInput(r) \/ PurgeList(r)
               \/ PurgeScope(r) \/ LockExecution(r) \/ RunReturns(r) \/ RunThrows(r)
               \/ CallFails(r) \/ Crash(r) \/ DeadlockDetected(r)
        PROVE  UNCHANGED <<request, execution, wf, person, clock>>
    BY <1>5 DEF TakeJob, GetPrivacyDeletionInput, PurgeList, PurgeScope, LockExecution,
                RunReturns, RunThrows, CallFails, Crash, DeadlockDetected
  <1> QED
    BY <1>1, <1>2, <1>3, <1>4, <1>5 DEF Next, ConfirmStep, CancelStep, RunStep

\* In a reachable state the rows always tell one stage, the request's.
LEMMA NeverTorn ==
  ASSUME IInv
  PROVE  Stage = request.status
  BY DEF IInv, TypeOK, RequestRow, RequestStatuses, ClientKnows, Stage

\* The deletion workflow implements DeletionLifecycle: every step of a client, run,
\* deadlock, clock, hold or failure is one step of the abstract life or leaves it
\* unchanged.
THEOREM Refinement == Spec => ImplementsDeletion
  <1>1. Init => Lifecycle!Init
    <2> SUFFICES ASSUME Init PROVE Lifecycle!Init
      OBVIOUS
    <2>1. Stage = "absent"
      BY InitIInv, NeverTorn DEF Init
    <2> QED
      BY <2>1 DEF Init, Lifecycle!Init
  <1>2. IInv /\ IInv' /\ [Next]_vars => [Lifecycle!Next]_(Lifecycle!lifecycleVars)
    <2> SUFFICES ASSUME IInv, IInv', [Next]_vars
                 PROVE  Lifecycle!Next \/ UNCHANGED Lifecycle!lifecycleVars
      OBVIOUS
    <2>0. Stage = request.status
      BY NeverTorn
    <2>1. Stage = request.status /\ Stage' = request'.status
      BY <2>0 DEF IInv, TypeOK, RequestRow, RequestStatuses, ClientKnows, Stage
    <2> USE <2>1 DEF IInv, TypeOK, RequestRow, RowsAgree, Lifecycle!Advance,
                     Lifecycle!lifecycleVars
    <2>2. CASE UNCHANGED <<request, execution, wf, person, clock>>
      BY <2>2
    <2>3. CASE StartPrivacyRequest
      BY <2>3 DEF StartPrivacyRequest, Lifecycle!Request, Lifecycle!Next
    <2>4. CASE ConfirmPrivacyDeletion
      BY <2>4 DEF ConfirmPrivacyDeletion, Lifecycle!Verify, Lifecycle!Next
    <2>5. CASE CancelPrivacyDeletion
      BY <2>5 DEF CancelPrivacyDeletion, ClientKnows, Lifecycle!Cancel, Lifecycle!Next
    <2>6. CASE RecoveryElapses
      BY <2>6 DEF RecoveryElapses, rowVars, Lifecycle!Elapse, Lifecycle!Next
    <2>7. ASSUME NEW r \in Runs, BlockForHold(r) \/ DeleteActiveSystem(r)
          PROVE  clock = "elapsed" /\ request.status = "recovery-period"
      BY <2>7 DEF BlockForHold, DeleteActiveSystem, RunKnows, Holding
    <2>8. ASSUME NEW r \in Runs, BlockForHold(r)
          PROVE  Lifecycle!Hold
      BY <2>7, <2>8 DEF BlockForHold, Lifecycle!Hold
    <2>9. ASSUME NEW r \in Runs, DeleteActiveSystem(r)
          PROVE  Lifecycle!Delete
      BY <2>7, <2>9 DEF DeleteActiveSystem, Lifecycle!Delete
    <2> QED
      BY <2>2, <2>3, <2>4, <2>5, <2>6, <2>8, <2>9, RowSteps DEF Lifecycle!Next, vars
  <1> QED
    BY <1>1, <1>2, InductiveInvariant, PTL DEF Spec, ImplementsDeletion, Lifecycle!Spec

-----------------------------------------------------------------------------
(* Waiting                                                                   *)

\* As long as the execution row or the request row is locked, a transaction that has a
\* lock can commit, or the two that wait for each other are a cycle PostgreSQL sees.
LocksAreGivenBack ==
    (Cancelling \/ ExecutionLocked) =>
        \/ \E r \in Runs : Holding(r) /\ ~Cancelling
        \/ /\ Cancelling /\ ~ExecutionLocked
           /\ execution.status = "recovery-period" /\ wf.status # "completed"
        \/ \E r \in Runs : Holding(r) /\ cancel = "locked"

\* cancelPrivacyDeletion and completePrivacyDeletionActiveSystem lock the two rows in
\* opposite orders: a cancellation that was given the execution row by an abort never
\* finds it locked again, nor its rows changed.
THEOREM NoOtherDeadlock == Spec => []LocksAreGivenBack
  <1>1. IInv => LocksAreGivenBack
    <2> SUFFICES ASSUME IInv, Cancelling \/ ExecutionLocked PROVE LocksAreGivenBack
      BY DEF LocksAreGivenBack
    <2>1. CASE ~Cancelling
      BY <2>1 DEF ExecutionLocked, LocksAreGivenBack
    <2>2. CASE Cancelling /\ ~ExecutionLocked
      BY <2>2 DEF IInv, RowsAgree, WorkflowOf, ClientKnows, LocksAreGivenBack
    <2>3. CASE Cancelling /\ ExecutionLocked
      BY <2>3 DEF IInv, ClientKnows, Cancelling, ExecutionLocked, LocksAreGivenBack
    <2> QED
      BY <2>1, <2>2, <2>3
  <1> QED
    BY <1>1, InductiveInvariant, PTL

-----------------------------------------------------------------------------
(* The job                                                                   *)

\* The steps that touch the "privacy-delete" job.
LEMMA JobActions ==
  ASSUME [Next]_vars
  PROVE  \/ EnqueueWorkflow \/ RemoveJob \/ Promote \/ StallDead \/ StallLive \/ ForgetJob
         \/ \E r \in Runs : TakeJob(r) \/ RunReturns(r) \/ RunThrows(r)
         \/ UNCHANGED job
  <1>1. ConfirmStep \/ CancelStep => EnqueueWorkflow \/ RemoveJob \/ UNCHANGED job
    BY DEF ConfirmStep, StartPrivacyRequest, ConfirmPrivacyDeletion, ConfirmFails, RetryConfirm,
       CancelStep, LockRequest, CancelPrivacyDeletion, CancelRollsBack, CancelFails, RetryCancel
  <1>2. \A r \in Runs :
           RunStep(r) => TakeJob(r) \/ RunReturns(r) \/ RunThrows(r) \/ UNCHANGED job
    BY DEF RunStep, GetPrivacyDeletionInput, PurgeList, PurgeScope, LockExecution, BlockForHold,
       DeleteActiveSystem
  <1>3. /\ \A r \in Runs : CallFails(r) \/ Crash(r) \/ DeadlockDetected(r) => UNCHANGED job
        /\ \A u \in Turns : TurnStep(u) => UNCHANGED job
        /\ RecoveryElapses \/ PlaceHold \/ ReleaseHold \/ UNCHANGED vars => UNCHANGED job
    BY DEF CallFails, Crash, DeadlockDetected, TurnStep, BeginTurn, CacheAnswer, KeepAnswer,
       TurnFails, CacheExpires, DropAnswer, RecoveryElapses, PlaceHold, ReleaseHold, vars
  <1> QED
    BY <1>1, <1>2, <1>3 DEF Next

\* The worker, the queue and the API do to it what they do to any; in addition its delay
\* ends, and a committed cancellation removes it.
LEMMA JobSteps ==
  ASSUME [Next]_vars
  PROVE  \/ Moves(job, job')
         \/ Promote
         \/ cancel = "committed" /\ job' = NoJob
  <1>1. CASE EnqueueWorkflow \/ UNCHANGED job
    BY <1>1 DEF EnqueueWorkflow, Moves
  <1>2. ASSUME NEW r \in Runs, TakeJob(r) \/ RunReturns(r) \/ RunThrows(r)
        PROVE  Moves(job, job')
    BY <1>2 DEF TakeJob, RunReturns, RunThrows, Moves
  <1>3. CASE StallDead \/ StallLive \/ ForgetJob
    BY <1>3 DEF StallDead, StallLive, ForgetJob, Moves
  <1>4. CASE RemoveJob
    BY <1>4 DEF RemoveJob
  <1> QED
    BY <1>1, <1>2, <1>3, <1>4, JobActions

\* The end of its delay and its removal keep a job within the queue's options.
LEMMA DelayAndRemoval ==
  ASSUME TypeOK, Counted(job)
  PROVE  /\ Promote => Counted(job') /\ ~Ended(job)
         /\ Counted(NoJob)
  BY QueueAssumption DEF TypeOK, Job, Counted, Ended, Promote, NoJob

\* The "privacy-delete" job is retried and forgiven expired locks no more often than the
\* queue's options say.
THEOREM JobIsBounded == Spec => []Counted(job)
  <1>1. Init => Counted(job)
    BY QueueAssumption DEF Init, Counted, NoJob
  <1>2. TypeOK /\ Counted(job) /\ [Next]_vars => Counted(job)'
    BY JobSteps, DelayAndRemoval, MovesAreCounted DEF TypeOK, Counted
  <1> QED
    BY <1>1, <1>2, TypeCorrect, PTL DEF Spec

\* A deletion whose job has completed or failed is not resumed while the queue keeps
\* the job: repeated confirmations, and runs that had outlived their locks, leave it as
\* it is, and it only goes as a whole, by its age or after a committed cancellation.
THEOREM JobEndsForGood == Spec => [][Ended(job) => job' \in {job, NoJob}]_vars
  <1> DEFINE Left == Ended(job) => job' \in {job, NoJob}
  <1>1. TypeOK /\ Counted(job) /\ [Next]_vars => [Left]_vars
    BY JobSteps, DelayAndRemoval, MovesAreCounted DEF TypeOK
  <1>2. Spec => [][Left]_vars
    BY <1>1, TypeCorrect, JobIsBounded, PTL DEF Spec
  <1> QED
    BY <1>2

\* A confirmation that has been begun has left its request confirmed, or further.
Confirmed == confirm # "idle" => request.status \notin {"absent", "identity-verification"}

\* Only the steps of the confirmation itself change it.
LEMMA ConfirmSteps ==
  ASSUME Next
  PROVE  \/ ConfirmPrivacyDeletion
         \/ confirm = "committed" /\ EnqueueWorkflow
         \/ confirm # "idle" /\ (ConfirmFails \/ RetryConfirm)
         \/ UNCHANGED confirm
  <1> USE DEF clientVars
  <1>1. ConfirmStep => \/ StartPrivacyRequest \/ ConfirmPrivacyDeletion
                       \/ confirm = "committed" /\ EnqueueWorkflow
                       \/ confirm # "idle" /\ (ConfirmFails \/ RetryConfirm)
    BY DEF ConfirmStep, EnqueueWorkflow, ConfirmFails, RetryConfirm
  <1>2. StartPrivacyRequest \/ CancelStep => UNCHANGED confirm
    BY DEF StartPrivacyRequest, CancelStep, LockRequest, CancelPrivacyDeletion,
           CancelRollsBack, RemoveJob, CancelFails, RetryCancel
  <1>3. RecoveryElapses \/ PlaceHold \/ ReleaseHold \/ Promote \/ StallDead \/ StallLive
          \/ ForgetJob => UNCHANGED confirm
    BY DEF RecoveryElapses, PlaceHold, ReleaseHold, Promote, StallDead, StallLive, ForgetJob
  <1>4. ASSUME NEW t \in Turns, TurnStep(t)
        PROVE  UNCHANGED confirm
    BY <1>4 DEF TurnStep, BeginTurn, CacheAnswer, KeepAnswer, TurnFails, CacheExpires,
                DropAnswer
  <1>5. ASSUME NEW r \in Runs, RunStep(r) \/ CallFails(r) \/ Crash(r) \/ DeadlockDetected(r)
        PROVE  UNCHANGED confirm
    BY <1>5 DEF RunStep, TakeJob, GetPrivacyDeletionInput, PurgeList, PurgeScope,
                LockExecution, BlockForHold, DeleteActiveSystem, RunReturns, RunThrows,
                CallFails, Crash, DeadlockDetected
  <1> QED
    BY <1>1, <1>2, <1>3, <1>4, <1>5 DEF Next

\* confirmPrivacyDeletion's transaction takes the request past its verification, and
\* nothing takes it back.
LEMMA ConfirmationStays == Spec => []Confirmed
  <1>1. Init => Confirmed
    BY DEF Init, Confirmed
  <1>2. TypeOK /\ Confirmed /\ [Next]_vars => Confirmed'
    <2> SUFFICES ASSUME TypeOK, Confirmed, [Next]_vars PROVE Confirmed'
      OBVIOUS
    <2> USE DEF Confirmed, TypeOK, RequestRow
    <2>1. CASE StartPrivacyRequest
      BY <2>1 DEF StartPrivacyRequest, clientVars
    <2>2. CASE ConfirmPrivacyDeletion
      BY <2>2 DEF ConfirmPrivacyDeletion
    <2>3. CASE CancelPrivacyDeletion
      BY <2>3 DEF CancelPrivacyDeletion
    <2>4. ASSUME NEW r \in Runs, BlockForHold(r) \/ DeleteActiveSystem(r)
          PROVE  Confirmed'
      BY <2>4 DEF BlockForHold, DeleteActiveSystem
    <2>5. CASE Next /\ UNCHANGED request
      BY <2>2, <2>5, ConfirmSteps
    <2>6. CASE UNCHANGED vars
      BY <2>6 DEF vars
    <2> QED
      BY <2>1, <2>2, <2>3, <2>4, <2>5, <2>6, RowSteps DEF RecoveryElapses, rowVars
  <1> QED
    BY <1>1, <1>2, TypeCorrect, PTL DEF Spec

\* Nothing is left of a job the queue does not keep.
Absent == job.state = "absent" => job = NoJob

LEMMA AbsentIsNoJob == Spec => []Absent
  <1>1. Init => Absent
    BY DEF Init, Absent
  <1>2. TypeOK /\ Absent /\ [Next]_vars => Absent'
    <2> SUFFICES ASSUME TypeOK, Absent, [Next]_vars PROVE Absent'
      OBVIOUS
    <2> USE DEF TypeOK, Job, Absent
    <2>1. CASE EnqueueWorkflow
      BY <2>1 DEF EnqueueWorkflow, Added, NoJob
    <2>2. CASE RemoveJob \/ ForgetJob
      BY <2>2 DEF RemoveJob, ForgetJob, Forgotten
    <2>3. CASE Promote
      BY <2>3 DEF Promote
    <2>4. CASE StallDead \/ StallLive
      BY <2>4 DEF StallDead, StallLive, Stalled
    <2>5. ASSUME NEW r \in Runs, TakeJob(r)
          PROVE  Absent'
      BY <2>5 DEF TakeJob, Taken
    <2>6. ASSUME NEW r \in Runs, RunReturns(r)
          PROVE  Absent'
      BY <2>6 DEF RunReturns, Resolved
    <2>7. ASSUME NEW r \in Runs, RunThrows(r)
          PROVE  Absent'
      BY <2>7 DEF RunThrows, Rejected
    <2> QED
      BY <2>1, <2>2, <2>3, <2>4, <2>5, <2>6, <2>7, JobActions
  <1> QED
    BY <1>1, <1>2, TypeCorrect, PTL DEF Spec

\* A job the queue no longer keeps comes back only as a new delayed job of a confirmation,
\* first or repeated, whose transaction is committed.  (Such a repetition can run a
\* deletion again whose job had failed and was removed by its age.)
THEOREM OnlyConfirmationsAdd ==
    Spec => [][job.state = "absent" /\ job' # job =>
                 /\ confirm = "committed"
                 /\ job' = [NoJob EXCEPT !.state = "delayed"]
                 /\ request.status \notin {"absent", "identity-verification"}]_vars
  <1> DEFINE FromConfirm == job.state = "absent" /\ job' # job =>
                 /\ confirm = "committed"
                 /\ job' = [NoJob EXCEPT !.state = "delayed"]
                 /\ request.status \notin {"absent", "identity-verification"}
  <1>1. ASSUME Absent, Confirmed, [Next]_vars, job.state = "absent", job' # job
        PROVE  FromConfirm
    <2>1. CASE EnqueueWorkflow
      BY <1>1, <2>1 DEF EnqueueWorkflow, Added, Confirmed
    <2>2. job = NoJob
      BY <1>1 DEF Absent
    <2>3. ASSUME NEW r \in Runs
          PROVE  ~TakeJob(r) /\ ~RunReturns(r) /\ ~RunThrows(r)
      BY <1>1, <2>2, QueueAssumption
      DEF TakeJob, RunReturns, RunThrows, Resolved, Rejected, NoJob
    <2>4. ~(RemoveJob \/ StallDead \/ StallLive \/ ForgetJob \/ Promote)
      BY <1>1, <2>2
      DEF RemoveJob, StallDead, StallLive, ForgetJob, Forgotten, Ended, Promote
    <2> QED
      BY <1>1, <2>1, <2>3, <2>4, JobActions
  <1>2. Spec => [][FromConfirm]_vars
    BY <1>1, AbsentIsNoJob, ConfirmationStays, PTL DEF Spec
  <1> QED
    BY <1>2
=============================================================================
