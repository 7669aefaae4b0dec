--------------------------- MODULE BillingLedger ----------------------------
(***************************************************************************)
(* What billing promises, without deliveries, locks or transactions: the   *)
(* events are recorded one at a time and once each, in whatever order, and *)
(* each is weighed at once against the row of its household or refund.     *)
(***************************************************************************)
EXTENDS Naturals, Sequences

CONSTANTS Keys, None, NoRow

VARIABLES
    events,   \* what the provider has published
    recorded, \* the events that have been recorded
    acked,    \* the events the provider need not send again
    row       \* per household or refund: its row

ledgerVars == <<events, recorded, acked, row>>

Init ==
    /\ events = <<>>
    /\ recorded = {}
    /\ acked = {}
    /\ row = [k \in Keys |-> NoRow]

\* The provider publishes another event; what is published stays.
Publish ==
    /\ Len(events') = Len(events) + 1
    /\ SubSeq(events', 1, Len(events)) = events
    /\ UNCHANGED <<recorded, acked, row>>

\* The row after an event: the event's, unless the row is of a later one.
Weighed(old, e) ==
    IF old.version > 0 /\ e.created < old.updatedAt THEN old
    ELSE [subject |-> e.subject, status |-> e.status, updatedAt |-> e.created,
          version |-> old.version + 1]

\* An event about a household or a refund is recorded, for the first time, and
\* perhaps acknowledged.
Record(i) ==
    /\ i \notin recorded
    /\ events[i].key \in Keys
    /\ recorded' = recorded \cup {i}
    /\ row' = [row EXCEPT ![events[i].key] = Weighed(@, events[i])]
    /\ acked' \in {acked, acked \cup {i}}
    /\ UNCHANGED events

\* An event is acknowledged when it was recorded, or is none to record.
Acknowledge(i) ==
    /\ i \in recorded \/ events[i].key = None
    /\ acked' = acked \cup {i}
    /\ UNCHANGED <<events, recorded, row>>

Next ==
    \/ Publish
    \/ \E i \in 1 .. Len(events) : Record(i) \/ Acknowledge(i)

Spec == Init /\ [][Next]_ledgerVars
=============================================================================
