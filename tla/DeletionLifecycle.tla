------------------------- MODULE DeletionLifecycle --------------------------
(***************************************************************************)
(* What a deletion request promises its author, without rows, locks, queue *)
(* or runs: a verified request waits out its recovery period, and then     *)
(* either the account goes or a legal hold stops it, unless the author has *)
(* cancelled, which is for good.                                           *)
(***************************************************************************)
VARIABLES
    stage,    \* how far the request is
    elapsed,  \* whether the recovery period is over
    account   \* the person's account

lifecycleVars == <<stage, elapsed, account>>

Init ==
    /\ stage = "absent"
    /\ elapsed = FALSE
    /\ account = "present"

Advance(from, to) ==
    /\ stage = from
    /\ stage' = to
    /\ UNCHANGED elapsed

Request == Advance("absent", "identity-verification") /\ UNCHANGED account
Verify == Advance("identity-verification", "recovery-period") /\ UNCHANGED account
Cancel == Advance("recovery-period", "cancelled") /\ UNCHANGED account
Hold == elapsed /\ Advance("recovery-period", "blocked-legal-hold") /\ UNCHANGED account

Delete ==
    /\ elapsed
    /\ Advance("recovery-period", "awaiting-review")
    /\ account' = "deleted"

\* The recovery period runs from the verification.
Elapse ==
    /\ stage \notin {"absent", "identity-verification"}
    /\ ~elapsed
    /\ elapsed' = TRUE
    /\ UNCHANGED <<stage, account>>

Next == Request \/ Verify \/ Cancel \/ Hold \/ Delete \/ Elapse

Spec == Init /\ [][Next]_lifecycleVars
=============================================================================
