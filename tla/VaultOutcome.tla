---------------------------- MODULE VaultOutcome ----------------------------
(***************************************************************************)
(* What the vault promises of an export or a report: it is started, queued *)
(* and then completed once, by one run; a completed annual review is       *)
(* announced by one e-mail, and the announcement is recorded after it was  *)
(* made.  There are no jobs, locks, retries or failures here.              *)
(***************************************************************************)
CONSTANTS Work, Reports, Runs, None

VARIABLES
    outcome,  \* per export and report: its status and the run that completed it
    kind,     \* of a report
    queued,   \* exports and reports that workers know of
    told,     \* exports and reports a client was told are accepted
    emails,   \* the e-mails of annual reviews, each with the key it was sent under
    sent      \* per report: the key of the e-mail recorded as its announcement

vars == <<outcome, kind, queued, told, emails, sent>>

Init ==
    /\ outcome = [w \in Work |-> [status |-> "absent", by |-> None]]
    /\ kind \in [Reports -> {"annual-review", "report"}]
    /\ queued = {} /\ told = {} /\ emails = {}
    /\ sent = [r \in Reports |-> None]

Start(w) ==
    /\ outcome[w].status = "absent"
    /\ outcome' = [outcome EXCEPT ![w].status = "pending"]
    /\ UNCHANGED <<kind, queued, told, emails, sent>>

\* Whatever was started may be queued, and a client is told of nothing else.
Accept(w) ==
    /\ outcome[w].status # "absent"
    /\ queued' = queued \cup {w}
    /\ told' \in {told, told \cup {w}}
    /\ UNCHANGED <<outcome, kind, emails, sent>>

Complete(w, run) ==
    /\ w \in queued
    /\ outcome[w].status = "pending"
    /\ outcome' = [outcome EXCEPT ![w] = [status |-> "completed", by |-> run]]
    /\ UNCHANGED <<kind, queued, told, emails, sent>>

\* Only a completed annual review is announced, and by one e-mail.
Announce(r, k) ==
    /\ outcome[r].status = "completed" /\ kind[r] = "annual-review"
    /\ \A m \in emails : m[1] # r
    /\ emails' = emails \cup {<<r, k>>}
    /\ UNCHANGED <<outcome, kind, queued, told, sent>>

\* The announcement that is recorded was made, and the record stays.
Settle(r, k) ==
    /\ sent[r] = None
    /\ <<r, k>> \in emails
    /\ sent' = [sent EXCEPT ![r] = k]
    /\ UNCHANGED <<outcome, kind, queued, told, emails>>

Next ==
    \/ \E w \in Work : Start(w) \/ Accept(w) \/ \E run \in Runs : Complete(w, run)
    \/ \E r \in Reports, k \in Runs : Announce(r, k) \/ Settle(r, k)

Spec == Init /\ [][Next]_vars
=============================================================================
