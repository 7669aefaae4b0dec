------------------------------ MODULE Billing -------------------------------
(***************************************************************************)
(* Subscription and refund state, kept from the payment provider's         *)
(* webhooks.  The provider numbers its events with seconds, delivers each  *)
(* until it is acknowledged, in any order and several at a time; every     *)
(* delivery is one transaction that records the event and, unless it is    *)
(* older, lets it replace the row of its household or its refund.          *)
(***************************************************************************)
EXTENDS Naturals, Sequences

CONSTANTS
    Households, Subscriptions, Refunds,
    None,
    SubscriptionStatuses, \* the statuses the provider sends, of those accepted
    RefundStatuses,
    Deliveries,           \* webhook requests handled at a time
    Grace,                \* BILLING_TECHNICAL_GRACE_MS, in seconds of the clock
    MaxEvents,            \* bound on the provider's events
    MaxTime,              \* bound on the clock
    MaxFaults             \* bound on infrastructure failures

ASSUME BillingAssumption ==
    /\ Households \cap Refunds = {}
    /\ None \notin Households \cup Refunds
    /\ SubscriptionStatuses \subseteq {"incomplete", "incomplete_expired", "trialing",
         "active", "past_due", "canceled", "unpaid", "paused"}
    /\ RefundStatuses \subseteq {"pending", "requires_action", "succeeded", "failed", "canceled"}
    /\ Grace \in Nat \ {0}
    /\ MaxEvents \in Nat /\ MaxTime \in Nat /\ MaxFaults \in Nat

VARIABLES
    now,      \* the clock, in seconds
    owner,    \* per subscription: the household that checked it out
    ended,    \* subscriptions the provider has deleted
    events,   \* what the provider has published, in its order
    acked,    \* events it was answered 200 for
    recorded, \* billing_events: the events committed
    row,      \* subscriptions by household, and billing_refunds by refund
    pc,       \* per delivery: its step
    ev,       \* per delivery: its event
    pending,  \* per delivery: the row its transaction has written
    faults    \* infrastructure failures so far

provider == <<now, owner, ended, events>>
tables == <<recorded, row>>
vars == <<now, owner, ended, events, acked, recorded, row, pc, ev, pending, faults>>

Keys == Households \cup Refunds
Subjects == Subscriptions \cup Refunds \cup {None}
Statuses == SubscriptionStatuses \cup RefundStatuses \cup {"inactive", "other"}
Labels == {"idle", "insert", "upsert", "commit"}

\* A normalized event, and the row of a household's subscription or of a refund.
Event == [key : Keys \cup {None}, subject : Subjects, status : Statuses,
          created : Nat, valid : BOOLEAN]
Row == [subject : Subjects, status : Statuses, updatedAt : Nat, version : Nat]

\* No row yet; getSubscription then answers "inactive" with version 0.
NoRow == [subject |-> None, status |-> "inactive", updatedAt |-> 0, version |-> 0]

\* A row, as one of its events leaves it.
RowOf(e, version) ==
    [subject |-> e.subject, status |-> e.status, updatedAt |-> e.created, version |-> version]

TypeOK ==
    /\ now \in Nat
    /\ owner \in [Subscriptions -> Households \cup {None}]
    /\ ended \in SUBSET Subscriptions
    /\ events \in Seq(Event)
    /\ acked \in SUBSET (1 .. Len(events))
    /\ recorded \in SUBSET (1 .. Len(events))
    /\ row \in [Keys -> Row]
    /\ pc \in [Deliveries -> Labels]
    /\ ev \in [Deliveries -> Nat]
    /\ \A d \in Deliveries : pc[d] # "idle" => ev[d] \in 1 .. Len(events)
    /\ pending \in [Deliveries -> Row]
    /\ faults \in Nat

Init ==
    /\ now = 0
    /\ owner = [s \in Subscriptions |-> None]
    /\ ended = {}
    /\ events = <<>>
    /\ acked = {}
    /\ recorded = {}
    /\ row = [k \in Keys |-> NoRow]
    /\ pc = [d \in Deliveries |-> "idle"]
    /\ ev = [d \in Deliveries |-> 0]
    /\ pending = [d \in Deliveries |-> NoRow]
    /\ faults = 0

-----------------------------------------------------------------------------
(* The provider                                                            *)

Tick ==
    /\ now < MaxTime
    /\ now' = now + 1
    /\ UNCHANGED <<owner, ended, events, acked, tables, pc, ev, pending, faults>>

\* The checkout route: the caller's expected version has to be the row's, and the
\* provider opens a session whose subscription carries the household's identity.
CreateCheckout(h, s, expectedVersion) ==
    /\ row[h].version = expectedVersion
    /\ owner[s] = None
    /\ owner' = [owner EXCEPT ![s] = h]
    /\ UNCHANGED <<now, ended, events, acked, tables, pc, ev, pending, faults>>

Publish(e) ==
    /\ Len(events) < MaxEvents
    /\ events' = Append(events, e)
    /\ UNCHANGED <<now, owner, acked, tables, pc, ev, pending, faults>>

\* normalizeSubscriptionEvent: "deleted" is normalized to "canceled", the last
\* event of its subscription; the time is the event's own second.
PublishSubscription(s, status) ==
    /\ owner[s] # None
    /\ s \notin ended
    /\ Publish([key |-> owner[s], subject |-> s, status |-> status, created |-> now,
                valid |-> TRUE])
    /\ ended' = IF status = "canceled" THEN ended \cup {s} ELSE ended

\* normalizeRefundEvent.
PublishRefund(r, status) ==
    /\ Publish([key |-> r, subject |-> r, status |-> status, created |-> now, valid |-> TRUE])
    /\ UNCHANGED ended

\* An event of another type, or one whose metadata names no household.
PublishOther(valid) ==
    /\ Publish([key |-> None, subject |-> None, status |-> "other", created |-> now,
                valid |-> valid])
    /\ UNCHANGED ended

-----------------------------------------------------------------------------
(* The webhook                                                             *)

\* The event's external identifier in an uncommitted transaction other than d's.
InsertBlocked(d) ==
    \E c \in Deliveries \ {d} : pc[c] \in {"upsert", "commit"} /\ ev[c] = ev[d]

\* Mutant: the upsert does not wait for the row's lock.
RowNeverLocked(d) == FALSE

\* The event's row in an uncommitted transaction other than d's.
RowLocked(d) ==
    \E c \in Deliveries \ {d} : pc[c] = "commit" /\ events[ev[c]].key = events[ev[d]].key

\* The request is answered and forgotten.
Answered(d) ==
    /\ pc' = [pc EXCEPT ![d] = "idle"]
    /\ ev' = [ev EXCEPT ![d] = 0]
    /\ pending' = [pending EXCEPT ![d] = NoRow]

\* An event arrives, for the first time or again.
Deliver(d, i) ==
    /\ pc[d] = "idle"
    /\ pc' = [pc EXCEPT ![d] = "insert"]
    /\ ev' = [ev EXCEPT ![d] = i]
    /\ UNCHANGED <<provider, acked, tables, pending, faults>>

\* The route answers without touching the tables: 200 for an event it ignores,
\* 400 for one it cannot normalize.
AnswerAtOnce(d) ==
    /\ pc[d] = "insert"
    /\ events[ev[d]].key = None
    /\ acked' = IF events[ev[d]].valid THEN acked \cup {ev[d]} ELSE acked
    /\ Answered(d)
    /\ UNCHANGED <<provider, tables, faults>>

\* Mutant: an event that was recorded is processed again.
NeverDuplicate(d) == FALSE

\* The insert into billing_events met its committed external identifier.
Duplicate(d) == ev[d] \in recorded

InsertEvent(d) ==
    /\ pc[d] = "insert"
    /\ events[ev[d]].key # None
    /\ ~InsertBlocked(d)
    /\ \/ Duplicate(d) /\ acked' = acked \cup {ev[d]} /\ Answered(d)
       \/ ~Duplicate(d) /\ pc' = [pc EXCEPT ![d] = "upsert"] /\ UNCHANGED <<acked, ev, pending>>
    /\ UNCHANGED <<provider, tables, faults>>

\* "where provider_updated_at is null or provider_updated_at <= excluded".
Current(old, e) == old.version = 0 \/ old.updatedAt <= e.created

\* The row after the upsert of e.
Upserted(old, e) == IF Current(old, e) THEN RowOf(e, old.version + 1) ELSE old

\* insert ... on conflict do update: sees the row as last committed, and keeps it
\* locked until the commit, whether or not it is updated.
Upsert(d) ==
    /\ pc[d] = "upsert"
    /\ ~RowLocked(d)
    /\ pending' = [pending EXCEPT ![d] = Upserted(row[events[ev[d]].key], events[ev[d]])]
    /\ pc' = [pc EXCEPT ![d] = "commit"]
    /\ UNCHANGED <<provider, acked, tables, ev, faults>>

Fault == faults < MaxFaults /\ faults' = faults + 1

\* The commit; the answer may be lost, and the provider delivers again.
Commit(d) ==
    /\ pc[d] = "commit"
    /\ recorded' = recorded \cup {ev[d]}
    /\ row' = [row EXCEPT ![events[ev[d]].key] = pending[d]]
    /\ \/ acked' = acked \cup {ev[d]} /\ UNCHANGED faults
       \/ UNCHANGED acked /\ Fault
    /\ Answered(d)
    /\ UNCHANGED provider

\* Mutant: a failure is answered like a success.
AckedAnyway(d) == acked \cup {ev[d]}

\* A failed transaction is answered 503.
AfterFailure(d) == acked

\* A statement fails or the process dies: the transaction is rolled back.
ProcessingFails(d) ==
    /\ pc[d] # "idle"
    /\ Fault
    /\ acked' = AfterFailure(d)
    /\ Answered(d)
    /\ UNCHANGED <<provider, tables>>

-----------------------------------------------------------------------------
(* deriveBillingAccess                                                     *)

\* Mutant: the grace period does not end.
GraceForEver(r) == r.status = "past_due"

InGrace(r) == r.status = "past_due" /\ now < r.updatedAt + Grace

\* What the household may do: everything, everything but AI interviews, or read.
Access(h) ==
    IF row[h].status \in {"active", "trialing"} THEN "full"
    ELSE IF InGrace(row[h]) THEN "grace" ELSE "read-only"

-----------------------------------------------------------------------------
DeliveryStep(d) ==
    AnswerAtOnce(d) \/ InsertEvent(d) \/ Upsert(d) \/ Commit(d)

Next ==
    \/ Tick
    \/ \E h \in Households, s \in Subscriptions : CreateCheckout(h, s, row[h].version)
    \/ \E s \in Subscriptions, status \in SubscriptionStatuses : PublishSubscription(s, status)
    \/ \E r \in Refunds, status \in RefundStatuses : PublishRefund(r, status)
    \/ \E valid \in BOOLEAN : PublishOther(valid)
    \/ \E d \in Deliveries : \/ \E i \in 1 .. Len(events) : Deliver(d, i)
                             \/ DeliveryStep(d)
                             \/ ProcessingFails(d)

Spec == Init /\ [][Next]_vars

-----------------------------------------------------------------------------
(* Safety                                                                  *)

\* The recorded events of a key.
RecordedFor(k) == {i \in recorded : events[i].key = k}

\* "Order updates by provider creation time": a row is as the newest of its
\* recorded events left it, whatever the order in which they came in and however
\* their transactions overlapped.
LatestWins ==
    \A k \in Keys :
        IF RecordedFor(k) = {} THEN row[k] = NoRow
        ELSE \E i \in RecordedFor(k) :
               /\ row[k] = RowOf(events[i], row[k].version)
               /\ \A j \in RecordedFor(k) : events[j].created <= events[i].created

\* "Idempotent ordered subscription and refund persistence": a row changes only
\* together with the first recording of one of its events; delivering an event
\* again, also at the same time, changes nothing.
ChangesOnceRecorded ==
    [][\A k \in Keys : row'[k] # row[k] =>
         \E i \in recorded' \ recorded : events[i].key = k]_vars

\* "Idempotent ordered persistence", in full: however often and in whatever order
\* events are delivered, however their transactions overlap and whichever fail, the
\* tables change as if every event were recorded once, by itself and at once.
Ledger == INSTANCE BillingLedger
ImplementsLedger == Ledger!Spec

\* An event that was acknowledged, and so is not delivered again, is recorded or
\* was none to record.
AcknowledgedIsDurable ==
    \A i \in acked : i \in recorded \/ events[i].key = None

\* Access is never fabricated: full access rests on a recorded event that says so
\* and grace on one that is recent, and no recorded event is newer.
AccessIsEarned ==
    \A h \in Households : Access(h) # "read-only" =>
        \E i \in RecordedFor(h) :
            /\ \A j \in RecordedFor(h) : events[j].created <= events[i].created
            /\ \/ events[i].status \in {"active", "trialing"}
               \/ events[i].status = "past_due" /\ now < events[i].created + Grace

-----------------------------------------------------------------------------
(* The inductive invariant                                                 *)

\* An event in an open transaction is in no other, and not recorded.
InOneTransaction ==
    \A d \in Deliveries : pc[d] \in {"upsert", "commit"} =>
        /\ ev[d] \notin recorded
        /\ events[ev[d]].key # None
        /\ ~InsertBlocked(d)

\* A written row is locked, and written from what is still committed.
WrittenUnderLock ==
    \A d \in Deliveries : pc[d] = "commit" =>
        /\ pending[d] = Upserted(row[events[ev[d]].key], events[ev[d]])
        /\ ~RowLocked(d)

\* A key with recorded events has a row.
HasRow == \A k \in Keys : RecordedFor(k) # {} => row[k].version > 0

IInv ==
    /\ TypeOK /\ LatestWins /\ AcknowledgedIsDurable
    /\ InOneTransaction /\ WrittenUnderLock /\ HasRow

-----------------------------------------------------------------------------
(* Liveness                                                                *)

\* A request that is handled goes on, and the provider delivers an event until
\* it is acknowledged.
FairSpec ==
    /\ Spec
    /\ \A d \in Deliveries : /\ WF_vars(AnswerAtOnce(d)) /\ SF_vars(InsertEvent(d))
                             /\ SF_vars(Upsert(d)) /\ WF_vars(Commit(d))
    /\ \A i \in 1 .. MaxEvents :
         SF_vars(\E d \in Deliveries : i <= Len(events) /\ i \notin acked /\ Deliver(d, i))

\* Every event about a subscription or a refund is reflected in the end: by
\* itself, or by one that is not older.
EventReflected ==
    \A i \in 1 .. MaxEvents, k \in Keys :
        (i <= Len(events) /\ events[i].key = k) ~>
        (i <= Len(events) /\ row[k].version > 0 /\ row[k].updatedAt >= events[i].created)
=============================================================================
