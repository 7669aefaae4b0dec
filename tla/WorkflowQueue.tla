--------------------------- MODULE WorkflowQueue ---------------------------
(***************************************************************************)
(* The BullMQ queue as the workers and the API use it: what adding a job,  *)
(* taking it, finishing it and losing its lock do to the job.  A workflow  *)
(* has one job, named after the workflow's id.                             *)
(***************************************************************************)
EXTENDS Naturals

CONSTANTS
    Runs,          \* worker runs: one execution of a job's handler each
    None,          \* absence of a run (or upload, or object)
    MaxAttempts,   \* the queue's "attempts" option
    MaxStalled     \* lock expiries BullMQ forgives before it fails a job

ASSUME QueueAssumption ==
    /\ None \notin Runs
    /\ MaxAttempts \in Nat \ {0}
    /\ MaxStalled \in Nat

Job == [state: {"absent", "delayed", "waiting", "active", "completed", "failed"},
        owner: Runs \cup {None}, attempts: Nat, stalled: Nat]

NoJob == [state |-> "absent", owner |-> None, attempts |-> 0, stalled |-> 0]

\* enqueueWorkflow: an id the queue still holds is left alone, whatever state
\* its job is in.
Added(j, s) == IF j.state = "absent" THEN [NoJob EXCEPT !.state = s] ELSE j

\* A worker takes the job and holds its lock.
Taken(j, r) == [j EXCEPT !.state = "active", !.owner = r]

\* The handler resolved; the queue hears it from the lock's owner only.
Resolved(j, r) ==
    IF j.owner = r THEN [j EXCEPT !.state = "completed", !.owner = None] ELSE j

\* Mutants: a rejected job is not retried; attempts are not counted.
RejectedForGood(j, r) ==
    IF j.owner = r THEN [j EXCEPT !.owner = None, !.state = "failed"] ELSE j
RejectedUncounted(j, r) ==
    IF j.owner = r THEN [j EXCEPT !.owner = None, !.state = "waiting"] ELSE j

\* The handler rejected: the owner's job is retried until attempts run out.
Rejected(j, r) ==
    IF j.owner # r THEN j
    ELSE [j EXCEPT !.attempts = @ + 1, !.owner = None,
                   !.state = IF j.attempts + 1 < MaxAttempts
                             THEN "waiting" ELSE "failed"]

\* The lock expired: the job waits again, or fails once too often.
Stalled(j) ==
    IF j.stalled < MaxStalled
    THEN [j EXCEPT !.state = "waiting", !.owner = None, !.stalled = @ + 1]
    ELSE [j EXCEPT !.state = "failed", !.owner = None]

Ended(j) == j.state \in {"completed", "failed"}

\* removeOnComplete and removeOnFail: k is what is left of a job that ended long
\* enough ago, or before enough others.
Forgotten(j, k) == Ended(j) /\ k = NoJob
=============================================================================
