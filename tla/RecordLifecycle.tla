-------------------------- MODULE RecordLifecycle ---------------------------
(***************************************************************************)
(* What the domain package allows to happen to a household's records: to   *)
(* its facts, its emergency-access requests and its consents.  Each change *)
(* is atomic and gives the record its next version.                        *)
(***************************************************************************)
EXTENDS Naturals

CONSTANTS Facts, Cases, Consents

VARIABLES now, row

Absent == [status |-> "absent", version |-> 0, backed |-> FALSE, releaseAfter |-> 0]

\* A record that is created.
New(status, backed) ==
    [status |-> status, version |-> 1, backed |-> backed, releaseAfter |-> 0]

\* A record that changes its status.
Moved(r, status) == [r EXCEPT !.status = status, !.version = @ + 1]

Create(x) ==
    /\ row[x] = Absent
    /\ \E backed \in BOOLEAN :
         row' = [row EXCEPT ![x] =
             IF x \in Facts THEN New("candidate", backed)
             ELSE IF x \in Cases THEN New("requested", FALSE) ELSE New("granted", FALSE)]

\* confirmFact: a fact that is neither manual nor backed by evidence stays open.
ConfirmFact(f) ==
    /\ row[f].status \in {"candidate", "disputed"}
    /\ row[f].backed
    /\ row' = [row EXCEPT ![f] = Moved(@, "confirmed")]

\* rejectFact: "confirmed facts require a dispute workflow".
RejectFact(f) ==
    /\ row[f].status \notin {"absent", "confirmed"}
    /\ row' = [row EXCEPT ![f] = Moved(@, "rejected")]

\* ADR-051: only a confirmed fact is disputed.
DisputeFact(f) ==
    /\ row[f].status = "confirmed"
    /\ row' = [row EXCEPT ![f] = Moved(@, "disputed")]

EmergencyTransitions(status) ==
    CASE status = "requested" -> {"approved", "denied", "delayed", "revoked"}
      [] status = "approved"  -> {"delayed", "released", "revoked"}
      [] status = "delayed"   -> {"approved", "denied", "released", "revoked"}
      [] status = "released"  -> {"revoked"}
      [] OTHER -> {}

\* transitionEmergencyAccess; a decision may also set the time of release.
TransitionEmergencyAccess(c) ==
    \E next \in EmergencyTransitions(row[c].status) :
        /\ next = "released" => row[c].releaseAfter <= now
        /\ next # "delayed" => row'[c].releaseAfter = row[c].releaseAfter
        /\ row' = [row EXCEPT ![c] =
                    [Moved(@, next) EXCEPT !.releaseAfter = row'[c].releaseAfter]]

\* A withdrawal is final: hasActiveConsent never counts the record again.
WithdrawConsent(c) ==
    /\ row[c].status = "granted"
    /\ row' = [row EXCEPT ![c] = Moved(@, "withdrawn")]

Change ==
    \/ \E x \in Facts \cup Cases \cup Consents : Create(x)
    \/ \E f \in Facts : ConfirmFact(f) \/ RejectFact(f) \/ DisputeFact(f)
    \/ \E c \in Cases : TransitionEmergencyAccess(c)
    \/ \E c \in Consents : WithdrawConsent(c)

Init ==
    /\ now = 0
    /\ row = [x \in Facts \cup Cases \cup Consents |-> Absent]

Next ==
    \/ Change /\ UNCHANGED now
    \/ now' = now + 1 /\ UNCHANGED row

Spec == Init /\ [][Next]_<<now, row>>
=============================================================================
