------------------------- MODULE MCDocumentPipeline -------------------------
(***************************************************************************)
(* Instances of DocumentPipeline for TLC.  MaxAttempts and MaxStalled are  *)
(* the queue's own values (3, and BullMQ's default 1) where a run asks     *)
(* about retries; Runs then has MaxAttempts + MaxStalled members so that a *)
(* job never waits for want of a model worker.                             *)
(***************************************************************************)
EXTENDS DocumentPipeline, TLC

\* Runs are interchangeable in the safety run; of the uploads, one is foreign.
Interchangeable == Permutations(Runs)

\* Where a run asks about liveness, the numbered runs take the job in order: any
\* behavior is one of these with its runs renamed, and so is its fairness.
TakenInOrder ==
    \A r \in Runs : pc[r] = "idle" /\ pc'[r] # "idle" =>
        \A q \in Runs : q < r => pc[q] # "idle"
=============================================================================
