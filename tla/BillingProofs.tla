--------------------------- MODULE BillingProofs ----------------------------
(* Proofs for billing, for any numbers of households, events and deliveries. *)
EXTENDS Billing, TLAPS

\* The initial states satisfy the inductive invariant.
LEMMA InitInv == Init => IInv
  <1> SUFFICES ASSUME Init PROVE IInv
    OBVIOUS
  <1> USE DEF Init
  <1>1. NoRow \in Row
    BY DEF NoRow, Row, Subjects, Statuses
  <1>2. TypeOK
    BY <1>1 DEF TypeOK, Labels
  <1>3. LatestWins /\ HasRow
    BY DEF LatestWins, HasRow, RecordedFor
  <1>4. AcknowledgedIsDurable /\ InOneTransaction /\ WrittenUnderLock
    BY DEF AcknowledgedIsDurable, InOneTransaction, WrittenUnderLock
  <1> QED
    BY <1>2, <1>3, <1>4 DEF IInv

\* A step that leaves the tables and the deliveries alone and does not rewrite
\* the provider's events keeps the invariant.
LEMMA ProviderStep ==
    ASSUME IInv, UNCHANGED <<acked, recorded, row, pc, ev, pending, faults>>,
           now' \in Nat, owner' \in [Subscriptions -> Households \cup {None}],
           ended' \in SUBSET Subscriptions,
           events' \in Seq(Event),
           Len(events) <= Len(events'),
           \A i \in 1 .. Len(events) : events'[i] = events[i]
    PROVE IInv'
  <1>1. Len(events) \in Nat /\ Len(events') \in Nat /\ 1 .. Len(events) \subseteq 1 .. Len(events')
    BY DEF IInv, TypeOK
  <1>2. TypeOK'
    BY <1>1 DEF IInv, TypeOK
  <1>3. \A k : RecordedFor(k)' = RecordedFor(k)
    BY DEF IInv, TypeOK, RecordedFor
  <1>4. \A k : \A i \in RecordedFor(k) : events'[i] = events[i]
    BY DEF IInv, TypeOK, RecordedFor
  <1>5. LatestWins' /\ HasRow'
    BY <1>3, <1>4 DEF IInv, LatestWins, HasRow
  <1>6. AcknowledgedIsDurable'
    BY DEF IInv, TypeOK, AcknowledgedIsDurable
  <1>7. \A d \in Deliveries : pc[d] # "idle" => events'[ev[d]] = events[ev[d]]
    BY DEF IInv, TypeOK
  <1>8. InOneTransaction'
    BY <1>7 DEF IInv, InOneTransaction, InsertBlocked
  <1>9. WrittenUnderLock'
    <2> SUFFICES ASSUME NEW d \in Deliveries, pc[d] = "commit"
                 PROVE  /\ pending[d] = Upserted(row[events'[ev[d]].key], events'[ev[d]])
                        /\ ~RowLocked(d)'
      BY DEF WrittenUnderLock, Upserted, Current, RowOf
    <2>1. events'[ev[d]] = events[ev[d]]
      BY <1>7
    <2>2. ~RowLocked(d)
      BY DEF IInv, WrittenUnderLock
    <2>3. ~RowLocked(d)'
      BY <1>7, <2>1, <2>2 DEF RowLocked
    <2> QED
      BY <2>1, <2>3 DEF IInv, WrittenUnderLock
  <1> QED
    BY <1>2, <1>5, <1>6, <1>8, <1>9 DEF IInv

\* The clock, the checkout and the provider's publications.
LEMMA Publication ==
    ASSUME IInv,
           \/ Tick
           \/ \E h \in Households, s \in Subscriptions : CreateCheckout(h, s, row[h].version)
           \/ \E s \in Subscriptions, status \in SubscriptionStatuses : PublishSubscription(s, status)
           \/ \E r \in Refunds, status \in RefundStatuses : PublishRefund(r, status)
           \/ \E valid \in BOOLEAN : PublishOther(valid)
    PROVE IInv'
  <1>t. events \in Seq(Event) /\ now \in Nat
    BY DEF IInv, TypeOK
  <1>1. CASE Tick
    BY <1>1, <1>t, ProviderStep DEF Tick, tables, IInv, TypeOK
  <1>2. ASSUME NEW h \in Households, NEW s \in Subscriptions, CreateCheckout(h, s, row[h].version)
        PROVE  IInv'
    BY <1>2, <1>t, ProviderStep DEF CreateCheckout, tables, IInv, TypeOK
  <1>3. ASSUME NEW e \in Event, Publish(e), ended' \in SUBSET Subscriptions
        PROVE  IInv'
    <2>1. /\ events' \in Seq(Event) /\ Len(events) <= Len(events')
          /\ \A i \in 1 .. Len(events) : events'[i] = events[i]
      BY <1>3, <1>t DEF Publish
    <2>2. /\ UNCHANGED <<acked, recorded, row, pc, ev, pending, faults>>
          /\ now' \in Nat /\ owner' \in [Subscriptions -> Households \cup {None}]
      BY <1>3 DEF Publish, tables, IInv, TypeOK
    <2> QED
      BY <1>3, <2>1, <2>2, ProviderStep
  <1>4. ASSUME NEW s \in Subscriptions, NEW status \in SubscriptionStatuses,
               PublishSubscription(s, status)
        PROVE  IInv'
    <2>1. [key |-> owner[s], subject |-> s, status |-> status, created |-> now,
           valid |-> TRUE] \in Event
      BY <1>t DEF IInv, TypeOK, Event, Keys, Subjects, Statuses
    <2> QED
      BY <1>3, <1>4, <2>1 DEF PublishSubscription, IInv, TypeOK
  <1>5. ASSUME NEW r \in Refunds, NEW status \in RefundStatuses, PublishRefund(r, status)
        PROVE  IInv'
    <2>1. [key |-> r, subject |-> r, status |-> status, created |-> now, valid |-> TRUE] \in Event
      BY <1>t DEF Event, Keys, Subjects, Statuses
    <2> QED
      BY <1>3, <1>5, <2>1 DEF PublishRefund, IInv, TypeOK
  <1>6. ASSUME NEW valid \in BOOLEAN, PublishOther(valid)
        PROVE  IInv'
    <2>1. [key |-> None, subject |-> None, status |-> "other", created |-> now,
           valid |-> valid] \in Event
      BY <1>t DEF Event, Keys, Subjects, Statuses
    <2> QED
      BY <1>3, <1>6, <2>1 DEF PublishOther, IInv, TypeOK
  <1> QED
    BY <1>1, <1>2, <1>4, <1>5, <1>6

\* A step of one delivery that leaves the tables alone: it comes in, is answered,
\* opens its transaction, or rolls it back.
LEMMA WaitingStep ==
    ASSUME IInv, NEW d \in Deliveries,
           \/ \E i \in 1 .. Len(events) : Deliver(d, i)
           \/ AnswerAtOnce(d) \/ InsertEvent(d) \/ ProcessingFails(d)
    PROVE IInv'
  <1>1. /\ UNCHANGED <<now, owner, ended, events, recorded, row>>
        /\ faults' \in Nat
        /\ pc[d] \in {"idle", "insert"} \/ pc'[d] = "idle"
        /\ \A c \in Deliveries \ {d} : pc'[c] = pc[c] /\ ev'[c] = ev[c] /\ pending'[c] = pending[c]
    BY DEF Deliver, AnswerAtOnce, InsertEvent, ProcessingFails, Answered, Fault, provider,
           tables, IInv, TypeOK
  <1>2. /\ pc'[d] \in {"idle", "insert", "upsert"}
        /\ pc'[d] # "idle" => ev'[d] \in 1 .. Len(events)
        /\ pc'[d] = "upsert" => /\ ev'[d] = ev[d] /\ ev[d] \notin recorded
                                /\ events[ev[d]].key # None /\ ~InsertBlocked(d)
    BY DEF Deliver, AnswerAtOnce, InsertEvent, ProcessingFails, Answered, Duplicate,
           IInv, TypeOK
  <1>3. /\ pc' \in [Deliveries -> Labels] /\ ev' \in [Deliveries -> Nat]
        /\ pending' \in [Deliveries -> Row]
    <2>1. NoRow \in Row
      BY DEF NoRow, Row, Subjects, Statuses
    <2>2. /\ pc \in [Deliveries -> Labels] /\ ev \in [Deliveries -> Nat]
          /\ pending \in [Deliveries -> Row]
      BY DEF IInv, TypeOK
    <2>3. CASE Answered(d)
      BY <2>1, <2>2, <2>3 DEF Answered, Labels
    <2>4. CASE \E i \in 1 .. Len(events) : Deliver(d, i)
      BY <2>2, <2>4 DEF Deliver, Labels
    <2>5. CASE pc' = [pc EXCEPT ![d] = "upsert"] /\ UNCHANGED <<ev, pending>>
      BY <2>2, <2>5 DEF Labels
    <2> QED
      BY <2>3, <2>4, <2>5 DEF AnswerAtOnce, InsertEvent, ProcessingFails
  <1>4. \A i \in acked' \ acked : i \in recorded \/ events[i].key = None
    BY DEF Deliver, AnswerAtOnce, InsertEvent, ProcessingFails, Duplicate, AfterFailure
  <1>5. acked' \in SUBSET (1 .. Len(events))
    BY DEF Deliver, AnswerAtOnce, InsertEvent, ProcessingFails, AfterFailure, IInv, TypeOK
  <1>6. TypeOK'
    BY <1>1, <1>2, <1>3, <1>5 DEF IInv, TypeOK
  <1>7. LatestWins' /\ HasRow'
    BY <1>1 DEF IInv, LatestWins, HasRow, RecordedFor
  <1>8. AcknowledgedIsDurable'
    BY <1>1, <1>4 DEF IInv, AcknowledgedIsDurable
  <1>9. InOneTransaction'
    BY <1>1, <1>2 DEF IInv, InOneTransaction, InsertBlocked
  <1>10. WrittenUnderLock'
    <2> SUFFICES ASSUME NEW c \in Deliveries, pc'[c] = "commit"
                 PROVE  /\ pending'[c] = Upserted(row[events[ev'[c]].key], events[ev'[c]])
                        /\ ~RowLocked(c)'
      BY <1>1 DEF WrittenUnderLock, Upserted, Current, RowOf
    <2>1. c # d /\ pc[c] = "commit" /\ ev'[c] = ev[c] /\ pending'[c] = pending[c]
      BY <1>1, <1>2
    <2>2. ~RowLocked(c)'
      BY <1>1, <1>2, <2>1 DEF IInv, WrittenUnderLock, RowLocked
    <2> QED
      BY <2>1, <2>2 DEF IInv, WrittenUnderLock
  <1> QED
    BY <1>6, <1>7, <1>8, <1>9, <1>10 DEF IInv

\* Writing the row under its lock.
LEMMA UpsertStep ==
    ASSUME IInv, NEW d \in Deliveries, Upsert(d)
    PROVE IInv'
  <1> DEFINE e == events[ev[d]]
  <1>1. /\ UNCHANGED <<now, owner, ended, events, acked, recorded, row, ev, faults>>
        /\ pc[d] = "upsert" /\ ~RowLocked(d)
        /\ pc' = [pc EXCEPT ![d] = "commit"]
        /\ pending' = [pending EXCEPT ![d] = Upserted(row[e.key], e)]
    BY DEF Upsert, provider, tables
  <1>2. e \in Event /\ e.key \in Keys
    <2>1. ev[d] \in 1 .. Len(events)
      BY <1>1 DEF IInv, TypeOK
    <2>2. e.key # None
      BY <1>1 DEF IInv, InOneTransaction
    <2>3. e \in Event
      BY <2>1 DEF IInv, TypeOK
    <2> QED
      BY <2>2, <2>3 DEF Event
  <1>3. row[e.key] \in Row
    BY <1>2 DEF IInv, TypeOK
  <1>4. Upserted(row[e.key], e) \in Row
    BY <1>2, <1>3 DEF Upserted, RowOf, Event, Row
  <1> HIDE DEF e
  <1>5. TypeOK'
    BY <1>1, <1>4 DEF IInv, TypeOK, Labels
  <1>6. LatestWins' /\ HasRow' /\ AcknowledgedIsDurable'
    BY <1>1 DEF IInv, LatestWins, HasRow, RecordedFor, AcknowledgedIsDurable
  <1>7. InOneTransaction'
    BY <1>1 DEF IInv, TypeOK, InOneTransaction, InsertBlocked
  <1>8. WrittenUnderLock'
    <2> SUFFICES ASSUME NEW c \in Deliveries, pc'[c] = "commit"
                 PROVE  /\ pending'[c] = Upserted(row[events[ev[c]].key], events[ev[c]])
                        /\ ~RowLocked(c)'
      BY <1>1 DEF WrittenUnderLock, Upserted, Current, RowOf
    <2>1. \A b \in Deliveries : pc'[b] = "commit" <=> pc[b] = "commit" \/ b = d
      BY <1>1 DEF IInv, TypeOK
    <2>2. ~RowLocked(c)'
      BY <1>1, <2>1 DEF IInv, WrittenUnderLock, RowLocked
    <2>3. CASE c = d
      BY <1>1, <2>2, <2>3 DEF IInv, TypeOK, e
    <2>4. CASE c # d
      BY <1>1, <2>1, <2>2, <2>4 DEF IInv, TypeOK, WrittenUnderLock
    <2> QED
      BY <2>3, <2>4
  <1> QED
    BY <1>5, <1>6, <1>7, <1>8 DEF IInv

\* What a commit makes of the tables: the event's row is upserted from the
\* committed one, no other row changes, and the event is recorded for the first
\* time.
LEMMA Committed ==
    ASSUME IInv, NEW d \in Deliveries, Commit(d),
           NEW i, i = ev[d], NEW k, k = events[i].key
    PROVE /\ i \in 1 .. Len(events) /\ events[i] \in Event /\ k \in Keys /\ i \notin recorded
          /\ recorded' = recorded \cup {i}
          /\ row' = [row EXCEPT ![k] = Upserted(row[k], events[i])]
          /\ UNCHANGED events
  <1>1. /\ pc[d] = "commit" /\ recorded' = recorded \cup {i}
        /\ row' = [row EXCEPT ![k] = pending[d]] /\ UNCHANGED events
    BY DEF Commit, provider
  <1>2. i \in 1 .. Len(events) /\ events[i] \in Event
    BY <1>1 DEF IInv, TypeOK
  <1>3. i \notin recorded /\ k # None
    BY <1>1 DEF IInv, InOneTransaction
  <1>4. k \in Keys
    BY <1>2, <1>3 DEF Event
  <1>5. pending[d] = Upserted(row[k], events[i])
    BY <1>1 DEF IInv, WrittenUnderLock
  <1> QED
    BY <1>1, <1>2, <1>3, <1>4, <1>5

\* The commit of a delivery's transaction.
LEMMA CommitStep ==
    ASSUME IInv, NEW d \in Deliveries, Commit(d)
    PROVE IInv'
  <1>i. PICK i, k : i = ev[d] /\ k = events[i].key
    OBVIOUS
  <1>1. /\ i \in 1 .. Len(events) /\ events[i] \in Event /\ k \in Keys /\ i \notin recorded
        /\ recorded' = recorded \cup {i}
        /\ row' = [row EXCEPT ![k] = Upserted(row[k], events[i])]
        /\ UNCHANGED events
    BY <1>i, Committed
  <1>2. /\ pc[d] = "commit" /\ pc' = [pc EXCEPT ![d] = "idle"]
        /\ ev' = [ev EXCEPT ![d] = 0] /\ pending' = [pending EXCEPT ![d] = NoRow]
        /\ acked' \in {acked, acked \cup {i}} /\ faults' \in Nat
        /\ UNCHANGED <<now, owner, ended>>
    BY <1>i DEF Commit, Answered, Fault, provider, IInv, TypeOK
  <1>3. row[k] \in Row /\ row[k].updatedAt \in Nat /\ row[k].version \in Nat
    BY <1>1 DEF IInv, TypeOK, Row
  <1>4. events[i].created \in Nat /\ Upserted(row[k], events[i]) \in Row
    BY <1>1, <1>3 DEF Upserted, RowOf, Event, Row
  <1>5. row' \in [Keys -> Row] /\ row'[k] = Upserted(row[k], events[i])
        /\ \A g \in Keys \ {k} : row'[g] = row[g]
    BY <1>1, <1>4 DEF IInv, TypeOK
  <1>6. TypeOK'
    <2>1. NoRow \in Row
      BY DEF NoRow, Row, Subjects, Statuses
    <2>2. pending' \in [Deliveries -> Row] /\ pc' \in [Deliveries -> Labels]
          /\ ev' \in [Deliveries -> Nat]
      BY <1>2, <2>1 DEF IInv, TypeOK, Labels
    <2>3. \A c \in Deliveries : pc'[c] # "idle" => ev'[c] \in 1 .. Len(events)
      BY <1>2 DEF IInv, TypeOK
    <2> QED
      BY <1>1, <1>2, <1>5, <2>2, <2>3 DEF IInv, TypeOK
  <1>7. RecordedFor(k)' = RecordedFor(k) \cup {i} /\ \A g \in Keys \ {k} : RecordedFor(g)' = RecordedFor(g)
    BY <1>i, <1>1 DEF RecordedFor
  <1>8. \A j \in RecordedFor(k) : events[j].created \in Nat
    <2>1. \A j \in recorded : events[j] \in Event
      BY DEF IInv, TypeOK
    <2> QED
      BY <2>1 DEF RecordedFor, Event
  <1>9. /\ row'[k].version > 0
        /\ \E j \in RecordedFor(k)' :
             /\ row'[k] = RowOf(events[j], row'[k].version)
             /\ \A l \in RecordedFor(k)' : events[l].created <= events[j].created
    <2>1. CASE RecordedFor(k) = {}
      <3>1. row[k] = NoRow
        BY <1>1, <2>1 DEF IInv, LatestWins
      <3>2. row'[k] = RowOf(events[i], 1)
        BY <1>5, <3>1 DEF Upserted, Current, NoRow
      <3> QED
        BY <1>4, <1>7, <2>1, <3>2 DEF RowOf
    <2>2. CASE RecordedFor(k) # {}
      <3>1. PICK j \in RecordedFor(k) :
              /\ row[k] = RowOf(events[j], row[k].version)
              /\ \A l \in RecordedFor(k) : events[l].created <= events[j].created
        BY <1>1, <2>2 DEF IInv, LatestWins
      <3>2. row[k].version > 0 /\ row[k].updatedAt = events[j].created
        BY <1>1, <2>2, <3>1 DEF IInv, HasRow, RowOf
      <3>3. CASE row[k].updatedAt <= events[i].created
        <4>1. row'[k] = RowOf(events[i], row[k].version + 1)
          BY <1>5, <3>3 DEF Upserted, Current
        <4>2. row'[k].version = row[k].version + 1
          BY <4>1 DEF RowOf
        <4>3. \A l \in RecordedFor(k)' : events[l].created <= events[i].created
          BY <1>4, <1>7, <1>8, <3>1, <3>2, <3>3
        <4> QED
          BY <1>3, <1>7, <3>2, <4>1, <4>2, <4>3
      <3>4. CASE ~(row[k].updatedAt <= events[i].created)
        <4>1. row'[k] = row[k]
          BY <1>3, <1>5, <3>2, <3>4 DEF Upserted, Current
        <4>2. \A l \in RecordedFor(k)' : events[l].created <= events[j].created
          BY <1>4, <1>7, <1>8, <3>1, <3>2, <3>4
        <4> QED
          BY <1>7, <3>1, <3>2, <4>1, <4>2
      <3> QED
        BY <3>3, <3>4
    <2> QED
      BY <2>1, <2>2
  <1>10. LatestWins' /\ HasRow'
    <2>1. ASSUME NEW g \in Keys \ {k}
          PROVE  /\ RecordedFor(g)' # {} => row'[g].version > 0
                 /\ IF RecordedFor(g)' = {} THEN row'[g] = NoRow
                    ELSE \E j \in RecordedFor(g)' :
                           /\ row'[g] = RowOf(events[j], row'[g].version)
                           /\ \A l \in RecordedFor(g)' : events[l].created <= events[j].created
      BY <1>5, <1>7 DEF IInv, LatestWins, HasRow
    <2>2. RecordedFor(k)' # {}
      BY <1>7
    <2>3. UNCHANGED events
      BY <1>1
    <2> QED
      BY <1>1, <1>9, <2>1, <2>2, <2>3 DEF LatestWins, HasRow, RowOf
  <1>11. AcknowledgedIsDurable'
    BY <1>1, <1>2 DEF IInv, AcknowledgedIsDurable
  <1>12. \A c \in Deliveries : pc'[c] # "idle" =>
             c # d /\ pc'[c] = pc[c] /\ ev'[c] = ev[c] /\ pending'[c] = pending[c]
    BY <1>2 DEF IInv, TypeOK
  <1>13. InOneTransaction'
    BY <1>i, <1>1, <1>2, <1>12 DEF IInv, InOneTransaction, InsertBlocked
  <1>14. WrittenUnderLock'
    <2> SUFFICES ASSUME NEW c \in Deliveries, pc'[c] = "commit"
                 PROVE  /\ pending'[c] = Upserted(row'[events[ev'[c]].key], events[ev'[c]])
                        /\ ~RowLocked(c)'
      BY <1>1 DEF WrittenUnderLock, Upserted, Current, RowOf
    <2>1. c # d /\ pc[c] = "commit" /\ ev'[c] = ev[c] /\ pending'[c] = pending[c]
      BY <1>12
    <2>2. ~RowLocked(c) /\ pending[c] = Upserted(row[events[ev[c]].key], events[ev[c]])
      BY <2>1 DEF IInv, WrittenUnderLock
    <2>3. events[ev[c]].key # k
      BY <1>i, <1>2, <2>1, <2>2 DEF RowLocked
    <2>4. events[ev[c]].key \in Keys
      <3>1. ev[c] \in 1 .. Len(events) /\ events[ev[c]].key # None
        BY <2>1 DEF IInv, TypeOK, InOneTransaction
      <3>2. events[ev[c]] \in Event
        BY <3>1 DEF IInv, TypeOK
      <3> QED
        BY <3>1, <3>2 DEF Event
    <2>5. ~RowLocked(c)'
      BY <1>1, <1>12, <2>1, <2>2 DEF RowLocked
    <2> QED
      BY <1>5, <2>1, <2>2, <2>3, <2>4, <2>5
  <1> QED
    BY <1>6, <1>10, <1>11, <1>13, <1>14 DEF IInv

\* Every step keeps the inductive invariant.
LEMMA NextInv == IInv /\ [Next]_vars => IInv'
  <1> SUFFICES ASSUME IInv, [Next]_vars PROVE IInv'
    OBVIOUS
  <1>1. CASE UNCHANGED vars
    BY <1>1, ProviderStep DEF vars, IInv, TypeOK
  <1>2. CASE Next
    BY <1>2, Publication, WaitingStep, UpsertStep, CommitStep DEF Next, DeliveryStep
  <1> QED
    BY <1>1, <1>2

\* The inductive invariant holds in every reachable state.
THEOREM InductiveInvariant == Spec => []IInv
  BY InitInv, NextInv, PTL DEF Spec

\* Events, rows and requests keep their types.
THEOREM TypeCorrect == Spec => []TypeOK
  <1>1. IInv => TypeOK
    BY DEF IInv
  <1> QED
    BY <1>1, InductiveInvariant, PTL

\* ADR-020: a subscription or refund row is as the newest of its recorded events
\* left it, for any deliveries in any order and at the same time.
THEOREM LatestAlwaysWins == Spec => []LatestWins
  <1>1. IInv => LatestWins
    BY DEF IInv
  <1> QED
    BY <1>1, InductiveInvariant, PTL

\* Nothing the provider was told it need not deliver again is lost.
THEOREM NothingAcknowledgedIsLost == Spec => []AcknowledgedIsDurable
  <1>1. IInv => AcknowledgedIsDurable
    BY DEF IInv
  <1> QED
    BY <1>1, InductiveInvariant, PTL

\* Access follows from a recorded event than which none is newer.
THEOREM AccessAlwaysEarned == Spec => []AccessIsEarned
  <1>1. IInv => AccessIsEarned
    <2> SUFFICES ASSUME IInv, NEW h \in Households, Access(h) # "read-only"
                 PROVE  \E i \in RecordedFor(h) :
                          /\ \A j \in RecordedFor(h) : events[j].created <= events[i].created
                          /\ \/ events[i].status \in {"active", "trialing"}
                             \/ events[i].status = "past_due" /\ now < events[i].created + Grace
      BY DEF AccessIsEarned
    <2>1. h \in Keys
      BY DEF Keys
    <2>2. row[h].status \in {"active", "trialing"} \/ InGrace(row[h])
      BY DEF Access
    <2>3. row[h] # NoRow
      BY <2>2 DEF NoRow, InGrace
    <2>4. PICK i \in RecordedFor(h) :
            /\ row[h] = RowOf(events[i], row[h].version)
            /\ \A j \in RecordedFor(h) : events[j].created <= events[i].created
      BY <2>1, <2>3 DEF IInv, LatestWins
    <2>5. row[h].status = events[i].status /\ row[h].updatedAt = events[i].created
      BY <2>4 DEF RowOf
    <2> QED
      BY <2>2, <2>4, <2>5 DEF InGrace
  <1> QED
    BY <1>1, InductiveInvariant, PTL

\* A row changes only with the first recording of one of its events: deliveries
\* of what was recorded before, or is being recorded, change nothing.
THEOREM RedeliveryChangesNothing == Spec => ChangesOnceRecorded
  <1>1. ASSUME IInv, Next
        PROVE  \A k \in Keys : row'[k] # row[k] => \E i \in recorded' \ recorded : events[i].key = k
    <2> SUFFICES ASSUME NEW k \in Keys, row'[k] # row[k]
                 PROVE  \E i \in recorded' \ recorded : events[i].key = k
      OBVIOUS
    <2>1. ASSUME NEW d \in Deliveries,
                 \/ \E i \in 1 .. Len(events) : Deliver(d, i)
                 \/ AnswerAtOnce(d) \/ InsertEvent(d) \/ Upsert(d) \/ ProcessingFails(d)
          PROVE  UNCHANGED row
      BY <2>1 DEF Deliver, AnswerAtOnce, InsertEvent, Upsert, ProcessingFails, tables
    <2>2. ASSUME \/ Tick
                 \/ \E h \in Households, s \in Subscriptions : CreateCheckout(h, s, row[h].version)
                 \/ \E s \in Subscriptions, status \in SubscriptionStatuses :
                      PublishSubscription(s, status)
                 \/ \E r \in Refunds, status \in RefundStatuses : PublishRefund(r, status)
                 \/ \E valid \in BOOLEAN : PublishOther(valid)
          PROVE  UNCHANGED row
      BY <2>2 DEF Tick, CreateCheckout, PublishSubscription, PublishRefund, PublishOther,
                  Publish, tables
    <2>3. PICK d \in Deliveries : Commit(d)
      BY <1>1, <2>1, <2>2 DEF Next, DeliveryStep
    <2>4. PICK i, g : i = ev[d] /\ g = events[i].key
      OBVIOUS
    <2>5. /\ g \in Keys /\ i \notin recorded /\ recorded' = recorded \cup {i}
          /\ row' = [row EXCEPT ![g] = Upserted(row[g], events[i])]
      BY <1>1, <2>3, <2>4, Committed
    <2>6. g = k
      BY <1>1, <2>5 DEF IInv, TypeOK
    <2> QED
      BY <2>4, <2>5, <2>6
  <1>2. IInv /\ [Next]_vars =>
        [\A k \in Keys : row'[k] # row[k] => \E i \in recorded' \ recorded : events[i].key = k]_vars
    BY <1>1
  <1> QED
    BY <1>2, InductiveInvariant, PTL DEF Spec, ChangesOnceRecorded

\* An upsert is what the ledger makes of a row and an event.
LEMMA UpsertedWeighs ==
    ASSUME NEW old \in Row, NEW e \in Event
    PROVE  Upserted(old, e) = Ledger!Weighed(old, e)
  <1>1. old.updatedAt \in Nat /\ old.version \in Nat /\ e.created \in Nat
    BY DEF Row, Event
  <1>2. Current(old, e) <=> ~(old.version > 0 /\ e.created < old.updatedAt)
    BY <1>1 DEF Current
  <1> QED
    BY <1>2 DEF Upserted, RowOf, Ledger!Weighed

\* Billing implements its ledger: what overlapping, repeated, reordered and failing
\* deliveries do to events, rows and acknowledgements, one-at-a-time processing of
\* every event could have done.
THEOREM Refinement == Spec => ImplementsLedger
  <1>1. Init => Ledger!Init
    BY DEF Init, Ledger!Init
  <1>2. IInv /\ [Next]_vars => [Ledger!Next]_(Ledger!ledgerVars)
    <2> SUFFICES ASSUME IInv, [Next]_vars
                 PROVE  Ledger!Next \/ UNCHANGED Ledger!ledgerVars
      OBVIOUS
    <2>t. events \in Seq(Event)
      BY DEF IInv, TypeOK
    <2>1. CASE UNCHANGED vars
      BY <2>1 DEF vars, Ledger!ledgerVars
    <2>2. CASE Tick
      BY <2>2 DEF Tick, tables, Ledger!ledgerVars
    <2>3. ASSUME NEW h \in Households, NEW s \in Subscriptions, CreateCheckout(h, s, row[h].version)
          PROVE  UNCHANGED Ledger!ledgerVars
      BY <2>3 DEF CreateCheckout, tables, Ledger!ledgerVars
    <2>4. ASSUME NEW e, Publish(e)
          PROVE  Ledger!Publish
      BY <2>4, <2>t DEF Publish, tables, Ledger!Publish
    <2>5. ASSUME NEW d \in Deliveries, \E i \in 1 .. Len(events) : Deliver(d, i)
          PROVE  UNCHANGED Ledger!ledgerVars
      BY <2>5 DEF Deliver, provider, tables, Ledger!ledgerVars
    <2>6. ASSUME NEW d \in Deliveries, AnswerAtOnce(d)
          PROVE  Ledger!Next \/ UNCHANGED Ledger!ledgerVars
      <3>1. ev[d] \in 1 .. Len(events) /\ events[ev[d]].key = None
        BY <2>6 DEF AnswerAtOnce, IInv, TypeOK
      <3>2. UNCHANGED <<events, recorded, row>> /\ acked' \in {acked, acked \cup {ev[d]}}
        BY <2>6 DEF AnswerAtOnce, provider, tables
      <3> QED
        BY <3>1, <3>2 DEF Ledger!Next, Ledger!Acknowledge, Ledger!ledgerVars
    <2>7. ASSUME NEW d \in Deliveries, InsertEvent(d)
          PROVE  Ledger!Next \/ UNCHANGED Ledger!ledgerVars
      <3>1. ev[d] \in 1 .. Len(events)
        BY <2>7 DEF InsertEvent, IInv, TypeOK
      <3>2. /\ UNCHANGED <<events, recorded, row>>
            /\ \/ ev[d] \in recorded /\ acked' = acked \cup {ev[d]}
               \/ UNCHANGED acked
        BY <2>7 DEF InsertEvent, Duplicate, provider, tables
      <3> QED
        BY <3>1, <3>2 DEF Ledger!Next, Ledger!Acknowledge, Ledger!ledgerVars
    <2>8. ASSUME NEW d \in Deliveries, Upsert(d) \/ ProcessingFails(d)
          PROVE  UNCHANGED Ledger!ledgerVars
      BY <2>8 DEF Upsert, ProcessingFails, AfterFailure, provider, tables, Ledger!ledgerVars
    <2>9. ASSUME NEW d \in Deliveries, Commit(d)
          PROVE  Ledger!Next
      <3>i. PICK i, k : i = ev[d] /\ k = events[i].key
        OBVIOUS
      <3>1. /\ i \in 1 .. Len(events) /\ events[i] \in Event /\ k \in Keys /\ i \notin recorded
            /\ recorded' = recorded \cup {i}
            /\ row' = [row EXCEPT ![k] = Upserted(row[k], events[i])]
            /\ UNCHANGED events
        BY <2>9, <3>i, Committed
      <3>2. Upserted(row[k], events[i]) = Ledger!Weighed(row[k], events[i])
        BY <3>1, UpsertedWeighs DEF IInv, TypeOK
      <3>3. acked' \in {acked, acked \cup {i}}
        BY <2>9, <3>i DEF Commit
      <3>4. Ledger!Record(i)
        BY <3>i, <3>1, <3>2, <3>3 DEF Ledger!Record
      <3> QED
        BY <3>1, <3>4 DEF Ledger!Next
    <2> QED
      BY <2>1, <2>2, <2>3, <2>4, <2>5, <2>6, <2>7, <2>8, <2>9
      DEF Next, DeliveryStep, PublishSubscription, PublishRefund, PublishOther, Ledger!Next
  <1> QED
    BY <1>1, <1>2, InductiveInvariant, PTL DEF Spec, ImplementsLedger, Ledger!Spec

-----------------------------------------------------------------------------
(* Waiting                                                                   *)

\* A delivery whose next statement waits for no other transaction.
WaitsForNobody(d) ==
    \/ pc[d] = "insert" /\ (events[ev[d]].key = None \/ ~InsertBlocked(d))
    \/ pc[d] = "upsert" /\ ~RowLocked(d)
    \/ pc[d] = "commit"

\* Deliveries of one event wait for each other, and so do those about one row.
NeverStuck ==
    (\E d \in Deliveries : pc[d] # "idle") => \E d \in Deliveries : WaitsForNobody(d)

\* processBillingEvent inserts the event before it locks the row, whatever the event:
\* no set of deliveries wait for each other in a cycle.
THEOREM DeliveriesNeverStuck == Spec => []NeverStuck
  <1> DEFINE Some == \E d \in Deliveries : WaitsForNobody(d)
  <1>1. ASSUME NEW d \in Deliveries, pc[d] = "commit" PROVE Some
    BY <1>1 DEF WaitsForNobody
  <1>2. ASSUME NEW d \in Deliveries, pc[d] = "upsert" PROVE Some
    BY <1>1, <1>2 DEF RowLocked, WaitsForNobody
  <1>3. ASSUME NEW d \in Deliveries, pc[d] = "insert" PROVE Some
    BY <1>1, <1>2, <1>3 DEF InsertBlocked, WaitsForNobody
  <1>4. TypeOK => NeverStuck
    BY <1>1, <1>2, <1>3 DEF TypeOK, Labels, NeverStuck
  <1> QED
    BY <1>4, TypeCorrect, PTL
=============================================================================
