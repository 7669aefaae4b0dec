----------------------------- MODULE AuditChain -----------------------------
(***************************************************************************)
(* The tamper-evident audit chain.  Every authorization decision appends   *)
(* an event to its household's hash chain before the handler acts or the   *)
(* request is refused; an auditor reads the chain page by page, and every  *)
(* page it asks for is itself authorized and so adds an event.             *)
(*                                                                         *)
(* One append is one transaction: take a connection of the pool, take the  *)
(* household's advisory lock, read the last event, insert its successor,   *)
(* commit.  The statements run at READ COMMITTED, so the read sees what was*)
(* committed when the lock was granted.                                    *)
(***************************************************************************)
EXTENDS Naturals, FiniteSets

CONSTANTS
    Households, Requests,
    None,               \* no request holds the lock
    Digest(_, _, _, _), \* HMAC of household, sequence, content, previous hash
    Genesis,            \* what the first event names as its predecessor's hash
    PoolSize,           \* connections of the audit store
    PageLimit,          \* the auditor's page size
    MaxFaults           \* bound on infrastructure failures in a behaviour

ASSUME AuditAssumption ==
    /\ None \notin Requests
    /\ PoolSize \in Nat \ {0}
    /\ PageLimit \in 1 .. 100
    /\ MaxFaults \in Nat

VARIABLES
    rows,     \* the audit_events table
    lock,     \* per household: the request that holds its advisory lock
    pc,       \* per request: its step
    home,     \* per request: the household it is about
    outcome,  \* per request: the decision
    tail,     \* per request: sequence and hash of the last event it has read
    after,    \* per request: afterSequence, should it be one for a page
    acted,    \* requests whose handler has done its work
    cursor,   \* per household: afterSequence of the auditor's next page
    seen,     \* per household: the events the auditor has been given
    finished, \* households whose auditor was told that nothing follows
    faults    \* infrastructure failures so far

chainVars == <<rows, lock>>
requestVars == <<home, outcome, tail, after>>
auditorVars == <<cursor, seen, finished>>
vars == <<rows, lock, pc, home, outcome, tail, after, acted, cursor, seen, finished, faults>>

Outcomes == {"allowed", "denied"}
Appending == {"lock", "tail", "insert"}
Labels == {"idle", "connect", "granted", "done", "refused", "failed"} \cup Appending

\* What the first append finds.
NoEvent == [sequence |-> 0, hash |-> Genesis]

TypeOK ==
    /\ \A e \in rows : /\ e.household \in Households
                       /\ e.sequence \in Nat \ {0}
                       /\ e.request \in Requests
                       /\ e.outcome \in Outcomes
    /\ lock \in [Households -> Requests \cup {None}]
    /\ pc \in [Requests -> Labels]
    /\ home \in [Requests -> Households]
    /\ outcome \in [Requests -> Outcomes]
    /\ DOMAIN tail = Requests
    /\ \A q \in Requests : tail[q].sequence \in Nat
    /\ after \in [Requests -> Nat]
    /\ acted \in SUBSET Requests
    /\ cursor \in [Households -> Nat]
    /\ seen \in [Households -> SUBSET rows]
    /\ finished \in SUBSET Households
    /\ faults \in Nat

Init ==
    /\ rows = {}
    /\ lock = [h \in Households |-> None]
    /\ pc = [q \in Requests |-> "idle"]
    /\ home \in [Requests -> Households]
    /\ outcome \in [Requests -> Outcomes]
    /\ tail = [q \in Requests |-> NoEvent]
    /\ after = [q \in Requests |-> 0]
    /\ acted = {}
    /\ cursor = [h \in Households |-> 0]
    /\ seen = [h \in Households |-> {}]
    /\ finished = {}
    /\ faults = 0

\* Row-level security: a transaction sees its household's events.
EventsOf(h) == {e \in rows : e.household = h}

PoolHasRoom == Cardinality({q \in Requests : pc[q] \in Appending}) < PoolSize

Fault == faults < MaxFaults /\ faults' = faults + 1

-----------------------------------------------------------------------------
(* authorizeIdentity and PostgresAuditStore.append                         *)

\* The request comes in, the auditor's with the position it has got to; the
\* decision is made and its event is to be appended.
RequireIdentityAuthorization(q) ==
    /\ pc[q] = "idle"
    /\ pc' = [pc EXCEPT ![q] = "connect"]
    /\ after' = [after EXCEPT ![q] = cursor[home[q]]]
    /\ UNCHANGED <<chainVars, home, outcome, tail, acted, auditorVars, faults>>

Connect(q) ==
    /\ pc[q] = "connect"
    /\ PoolHasRoom
    /\ pc' = [pc EXCEPT ![q] = "lock"]
    /\ UNCHANGED <<chainVars, requestVars, acted, auditorVars, faults>>

\* Every connection is busy for connectionTimeoutMillis, when the event is to be
\* appended or when a page is to be read.
ConnectTimesOut(q) ==
    /\ pc[q] \in {"connect", "granted"}
    /\ ~PoolHasRoom
    /\ pc' = [pc EXCEPT ![q] = "failed"]
    /\ UNCHANGED <<chainVars, requestVars, acted, auditorVars, faults>>

ChainFree(h) == lock[h] = None

\* pg_advisory_xact_lock on the household.
LockChain(q) ==
    /\ pc[q] = "lock"
    /\ ChainFree(home[q])
    /\ lock' = [lock EXCEPT ![home[q]] = q]
    /\ pc' = [pc EXCEPT ![q] = "tail"]
    /\ UNCHANGED <<rows, requestVars, acted, auditorVars, faults>>

\* "order by sequence desc limit 1": t stands for the last event, or for none.
IsTail(h, t) ==
    IF EventsOf(h) = {} THEN t = NoEvent
    ELSE \E e \in EventsOf(h) :
           /\ \A f \in EventsOf(h) : f.sequence <= e.sequence
           /\ t = [sequence |-> e.sequence, hash |-> e.eventHash]

ReadTail(q) ==
    /\ pc[q] = "tail"
    /\ \E t \in {NoEvent} \cup {[sequence |-> e.sequence, hash |-> e.eventHash] : e \in rows} :
         /\ IsTail(home[q], t)
         /\ tail' = [tail EXCEPT ![q] = t]
    /\ pc' = [pc EXCEPT ![q] = "insert"]
    /\ UNCHANGED <<chainVars, home, outcome, after, acted, auditorVars, faults>>

\* createAuditEvent.
CreateAuditEvent(q, previousHash) ==
    LET n == tail[q].sequence + 1 IN
    [household |-> home[q], sequence |-> n, request |-> q, outcome |-> outcome[q],
     previousHash |-> previousHash,
     eventHash |-> Digest(home[q], n, <<q, outcome[q]>>, previousHash)]

\* Mutant: every event names the genesis hash.
Unlinked(q) == CreateAuditEvent(q, Genesis)

\* The event that append inserts.
NextEvent(q) == CreateAuditEvent(q, tail[q].hash)

\* The table's UNIQUE (household_id, sequence).
SequenceFree(q) ==
    \A e \in EventsOf(home[q]) : e.sequence # tail[q].sequence + 1

\* Mutant: the connection is returned with its transaction still open.
StillLocked(q) == lock

\* The lock goes with its transaction.
Unlocked(q) == [lock EXCEPT ![home[q]] = IF @ = q THEN None ELSE @]

\* Mutant: a decision that could not be recorded is acted on all the same.
FailsOpen(q) == IF outcome[q] = "allowed" THEN "granted" ELSE "refused"

\* A failed append rejects the request, whatever the decision was.
AfterFailure(q) == "failed"

\* The insert and the commit; the answer to the commit may be lost.
Append(q) ==
    /\ pc[q] = "insert"
    /\ rows' = IF SequenceFree(q) THEN rows \cup {NextEvent(q)} ELSE rows
    /\ lock' = Unlocked(q)
    /\ \/ /\ pc' = [pc EXCEPT ![q] =
                      CASE ~SequenceFree(q) -> AfterFailure(q)
                        [] SequenceFree(q) /\ outcome[q] = "allowed" -> "granted"
                        [] OTHER -> "refused"]
          /\ UNCHANGED faults
       \/ /\ pc' = [pc EXCEPT ![q] = AfterFailure(q)]
          /\ Fault
    /\ UNCHANGED <<requestVars, acted, auditorVars>>

\* A statement fails or the process dies: the transaction is rolled back.
AppendFails(q) ==
    /\ pc[q] \in Appending
    /\ Fault
    /\ lock' = Unlocked(q)
    /\ pc' = [pc EXCEPT ![q] = AfterFailure(q)]
    /\ UNCHANGED <<rows, requestVars, acted, auditorVars>>

-----------------------------------------------------------------------------
(* What a granted request does                                             *)

\* The handler of the route.
Act(q) ==
    /\ pc[q] = "granted"
    /\ acted' = acted \cup {q}
    /\ pc' = [pc EXCEPT ![q] = "done"]
    /\ UNCHANGED <<chainVars, requestVars, auditorVars, faults>>

\* verifyAuditChain: in the order of their sequence numbers the events are
\* numbered from one without a gap, and each names its predecessor's hash and
\* carries its own.
VerifyAuditChain(h) ==
    /\ \A e, f \in EventsOf(h) : e.sequence = f.sequence => e = f
    /\ \A e \in EventsOf(h) :
         /\ e.eventHash = Digest(h, e.sequence, <<e.request, e.outcome>>, e.previousHash)
         /\ IF e.sequence = 1 THEN e.previousHash = Genesis
            ELSE \E f \in EventsOf(h) : /\ e.sequence = f.sequence + 1
                                        /\ e.previousHash = f.eventHash

\* The events after the position the request names, and the first of them.
Available(q) == {e \in EventsOf(home[q]) : e.sequence > after[q]}
Page(q) == {e \in Available(q) :
              Cardinality({f \in Available(q) : f.sequence < e.sequence}) < PageLimit}

\* Mutant: the next page starts one event too late.
SkipsOne(e) == e.sequence + 1

\* nextSequence, from the page's last event.
NextSequence(e) == e.sequence

\* readVerified: in one snapshot the whole chain is verified and one page taken.
\* nextSequence is null when nothing follows the page.  A chain that does not
\* verify is an error, which ChainVerifies says never occurs.
ReadVerified(q) ==
    LET h == home[q] IN
    /\ pc[q] = "granted"
    /\ PoolHasRoom
    /\ VerifyAuditChain(h)
    /\ \/ /\ Page(q) = Available(q)
          /\ finished' = finished \cup {h}
          /\ UNCHANGED cursor
       \/ /\ Page(q) # Available(q)
          /\ \E last \in Page(q) :
               /\ \A e \in Page(q) : e.sequence <= last.sequence
               /\ cursor' = [cursor EXCEPT ![h] = NextSequence(last)]
          /\ UNCHANGED finished
    /\ seen' = [seen EXCEPT ![h] = @ \cup Page(q)]
    /\ pc' = [pc EXCEPT ![q] = "done"]
    /\ UNCHANGED <<chainVars, requestVars, acted, faults>>

-----------------------------------------------------------------------------
RequestStep(q) ==
    \/ Connect(q) \/ LockChain(q) \/ ReadTail(q) \/ Append(q)
    \/ Act(q) \/ ReadVerified(q)

Next == \E q \in Requests :
    \/ RequireIdentityAuthorization(q) \/ RequestStep(q)
    \/ ConnectTimesOut(q) \/ AppendFails(q)

Spec == Init /\ [][Next]_vars

-----------------------------------------------------------------------------
(* Safety                                                                  *)

\* The chain of every household verifies in every committed state, whatever
\* appends run concurrently, fail or lose their answers: an auditor is never
\* told that verification failed.
ChainVerifies == \A h \in Households : VerifyAuditChain(h)

\* An append never finds its sequence number taken: what it has read under the
\* lock is still the chain's end when it inserts.
TailIsCurrent ==
    \A q \in Requests : pc[q] = "insert" => IsTail(home[q], tail[q])

\* "every consequential action creates a tamper-evident audit event": no handler
\* acts and no request is refused before its decision is in the chain, and a
\* denied request never acts.
ActionsAreAudited ==
    \A q \in Requests :
        /\ q \in acted \/ pc[q] \in {"granted", "done"} =>
             \E e \in EventsOf(home[q]) : e.request = q /\ e.outcome = "allowed"
        /\ pc[q] = "refused" =>
             \E e \in EventsOf(home[q]) : e.request = q /\ e.outcome = "denied"

\* A request leaves at most one event, also when its answer was lost.
AuditedOnce ==
    \A e, f \in rows : e.request = f.request => e = f

\* An auditor who follows nextSequence until it is null has been given every
\* event of the household there was at that moment, although each of its own
\* requests, and others in between, added to the chain, and although requests
\* sent from an earlier position are answered late.
PagesComplete ==
    [][\A h \in finished' \ finished : seen'[h] = EventsOf(h)]_vars

-----------------------------------------------------------------------------
(* The abstract log                                                        *)

\* What is left of an event without its hashes.
Entry(e) == [household |-> e.household, position |-> e.sequence, request |-> e.request,
             outcome |-> e.outcome]
EntriesIn(S) == {Entry(e) : e \in S}

\* What the authorization of a request has come to.
Answer(q) ==
    CASE pc[q] \in {"granted", "done"} -> "allowed"
      [] pc[q] = "refused" -> "denied"
      [] pc[q] = "failed" -> "error"
      [] OTHER -> "none"

Log == INSTANCE AuditLog
         WITH log <- EntriesIn(rows), answer <- [q \in Requests |-> Answer(q)],
              given <- [h \in Households |-> EntriesIn(seen[h])], complete <- finished

\* Appends that overlap, wait, fail or lose their answers write the log of AuditLog:
\* one decision after the other, at the end, nothing twice and nothing taken back,
\* and no request acts, is refused or is told that it has read everything before
\* the log bears it out.
ImplementsLog == Log!Spec

-----------------------------------------------------------------------------
(* The inductive invariant                                                 *)

\* The lock's holder is the one request of the household past the lock.
LockHeld ==
    \A q \in Requests : pc[q] \in {"tail", "insert"} => lock[home[q]] = q

\* Every nonempty chain has a last event.
HasLast ==
    \A h \in Households : EventsOf(h) # {} =>
        \E e \in EventsOf(h) : \A f \in EventsOf(h) : f.sequence <= e.sequence

\* A request that has not appended has no event.
NotYetAudited ==
    \A q \in Requests : pc[q] \in {"idle", "connect"} \cup Appending =>
        \A e \in rows : e.request # q

\* n is a position of the chain up to which the auditor has been given everything.
Given(h, n) ==
    /\ \A e \in EventsOf(h) : e.sequence <= n => e \in seen[h]
    /\ n = 0 \/ \E e \in EventsOf(h) : e.sequence = n

\* The auditor's position is such, and that of each of its requests.
AuditorKnows ==
    /\ IsFiniteSet(rows)
    /\ \A h \in Households : seen[h] \subseteq EventsOf(h) /\ Given(h, cursor[h])
    /\ \A q \in Requests : Given(home[q], after[q])

IInv ==
    /\ TypeOK /\ ChainVerifies /\ TailIsCurrent /\ ActionsAreAudited
    /\ AuditedOnce /\ LockHeld /\ HasLast /\ NotYetAudited /\ AuditorKnows

-----------------------------------------------------------------------------
(* Liveness                                                                *)

\* A request in progress goes on.  A lock or a connection is asked for once by each
\* request, so that those who wait are not overtaken for ever even if PostgreSQL and
\* the pool did not serve them in turn.
FairSpec ==
    /\ Spec
    /\ \A q \in Requests :
         WF_vars(Connect(q) \/ LockChain(q) \/ ReadTail(q) \/ Append(q) \/ Act(q))

\* No request hangs, although waiting appends keep their connections and the
\* pool is smaller than their number.
RequestEnds ==
    \A q \in Requests :
        pc[q] = "connect" ~> pc[q] \in {"done", "refused", "failed"}
=============================================================================
