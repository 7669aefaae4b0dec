------------------------ MODULE WorkflowQueueProofs ------------------------
(***************************************************************************)
(* Facts about the queue's operators that the proofs about the workflows   *)
(* cite.                                                                   *)
(***************************************************************************)
EXTENDS WorkflowQueue, TLAPS

\* Adding a job and losing its lock make a job of a job.
LEMMA JobOperations ==
  ASSUME NEW j \in Job
  PROVE  /\ NoJob \in Job
         /\ Added(j, "waiting") \in Job
         /\ Added(j, "delayed") \in Job
         /\ Stalled(j) \in Job
  <1>1. NoJob \in Job
    BY DEF NoJob, Job
  <1>2. Added(j, "waiting") \in Job /\ Added(j, "delayed") \in Job
    BY <1>1 DEF Added, Job
  <1>3. Stalled(j) \in Job
    <2>1. j.stalled + 1 \in Nat
      BY DEF Job
    <2>2. [j EXCEPT !.state = "waiting", !.owner = None, !.stalled = @ + 1] \in Job
      BY <2>1, Zenon DEF Job
    <2>3. [j EXCEPT !.state = "failed", !.owner = None] \in Job
      BY DEF Job
    <2>4. QED
      BY <2>2, <2>3, Zenon DEF Stalled
  <1>4. QED
    BY <1>1, <1>2, <1>3

\* So do taking it and the end of its handler.
LEMMA RunOperations ==
  ASSUME NEW j \in Job, NEW r \in Runs
  PROVE  Taken(j, r) \in Job /\ Resolved(j, r) \in Job /\ Rejected(j, r) \in Job
  <1>1. Taken(j, r) \in Job /\ Resolved(j, r) \in Job
    BY DEF Taken, Resolved, Job
  <1>2. Rejected(j, r) \in Job
    <2>1. j.attempts + 1 \in Nat
      BY DEF Job
    <2>2. \A s \in {"waiting", "failed"} :
            [j EXCEPT !.attempts = @ + 1, !.owner = None, !.state = s] \in Job
      BY <2>1, Zenon DEF Job
    <2>3. QED
      BY <2>2 DEF Rejected
  <1>3. QED
    BY <1>1, <1>2

-----------------------------------------------------------------------------
(* Attempts                                                                  *)

\* What a job counts stays within the queue's options, a job that can still be taken has
\* an attempt left, and exactly an active job has an owner.
Counted(j) ==
    /\ j.attempts <= MaxAttempts /\ j.stalled <= MaxStalled
    /\ j.state \in {"absent", "delayed", "waiting", "active"} => j.attempts < MaxAttempts
    /\ j.owner # None <=> j.state = "active"

\* What the workers, the API and BullMQ's stalled check do to a job.
Moves(j, k) ==
    \/ k \in {j, Added(j, "waiting"), Added(j, "delayed")}
    \/ j.state = "waiting" /\ \E r \in Runs : k = Taken(j, r)
    \/ j.state = "active" /\ k = Stalled(j)
    \/ Forgotten(j, k)
    \/ \E r \in Runs : k \in {Resolved(j, r), Rejected(j, r)}

\* Whatever is done to a job, and by whichever run, its counts stay within bounds; one
\* that has ended is left as it is, also by runs that had outlived their locks, until
\* it is forgotten.
LEMMA MovesAreCounted ==
  ASSUME NEW j \in Job, Counted(j), NEW k, Moves(j, k)
  PROVE  Counted(k) /\ (Ended(j) => k \in {j, NoJob})
  <1> USE QueueAssumption DEF Counted, Ended
  <1>1. CASE k \in {j, Added(j, "waiting"), Added(j, "delayed")}
    BY <1>1 DEF Added, NoJob, Job
  <1>2. ASSUME j.state = "waiting", NEW r \in Runs, k = Taken(j, r)
        PROVE  Counted(k) /\ (Ended(j) => k \in {j, NoJob})
    BY <1>2 DEF Taken, Job
  <1>3. CASE j.state = "active" /\ k = Stalled(j)
    BY <1>3 DEF Stalled, Job
  <1>4. ASSUME NEW r \in Runs, k = Resolved(j, r)
        PROVE  Counted(k) /\ (Ended(j) => k \in {j, NoJob})
    BY <1>4 DEF Resolved, Job
  <1>5. ASSUME NEW r \in Runs, k = Rejected(j, r)
        PROVE  Counted(k) /\ (Ended(j) => k \in {j, NoJob})
    BY <1>5 DEF Rejected, Job
  <1>6. CASE Forgotten(j, k)
    BY <1>6 DEF Forgotten, NoJob
  <1> QED
    BY <1>1, <1>2, <1>3, <1>4, <1>5, <1>6 DEF Moves
=============================================================================
