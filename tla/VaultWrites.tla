---------------------------- MODULE VaultWrites -----------------------------
(***************************************************************************)
(* The vault's idempotent writes: facts, emergency access and consents.    *)
(* A route reserves the request's idempotency key in one transaction,      *)
(* writes in a second and stores the answer in a third; a request that     *)
(* finds the key taken is answered from the key's record and writes        *)
(* nothing.  Requests of one household run at the same time, are repeated  *)
(* by their clients, and may end after any of the three.                   *)
(***************************************************************************)
EXTENDS Naturals, FiniteSets

CONSTANTS
    Requests,   \* requests that own a key at a time
    Keys,       \* idempotency keys of one household
    Facts, Cases, Consents,
    None,
    MaxDelay,   \* the longest delay of a decision; 168 hours in the code
    MaxTime,    \* bound on the clock, in hours
    MaxFaults   \* bound on requests that end early

ASSUME WritesAssumption ==
    /\ Facts \cap Cases = {} /\ Facts \cap Consents = {} /\ Cases \cap Consents = {}
    /\ None \notin Requests \cup Keys \cup Facts \cup Cases \cup Consents
    /\ MaxDelay \in Nat \ {0} /\ MaxTime \in Nat /\ MaxFaults \in Nat

VARIABLES
    now,     \* the clock
    row,     \* facts, emergency_access_requests and consents, by identifier
    record,  \* idempotency_records: what is hashed of the request, and the answer
    pc,      \* per request: its step
    req,     \* per request: its key, its body and the time it took for its write
    commits, \* the writes committed so far, each under its key
    faults

vars == <<now, row, record, pc, req, commits, faults>>

Domain == INSTANCE RecordLifecycle

Rows == Facts \cup Cases \cup Consents
Kinds == {"createFact", "confirm", "reject", "dispute", "requestAccess", "decide",
          "release", "grant", "withdraw"}
Labels == {"idle", "write", "complete"}
Statuses == {"absent", "candidate", "confirmed", "rejected", "disputed", "requested", "denied",
             "delayed", "released", "granted", "withdrawn"}
Row == [status : Statuses, version : Nat, backed : BOOLEAN, releaseAfter : Nat]

\* A body: what is asked of which version of which record.
Body == [kind : Kinds, target : Rows \cup {None}, version : Nat, arg : Nat]
Asks(kind, target, version, arg) ==
    [kind |-> kind, target |-> target, version |-> version, arg |-> arg]
NoBody == Asks("createFact", None, 0, 0)

\* The row a write returned, which is the answer its client gets.
Answer == [id : Rows, status : Statuses, version : Nat]
Of(x, r) == [id |-> x, status |-> r.status, version |-> r.version]

\* A row of idempotency_records.
Record == [hash : Body, answer : Answer \cup {None}]

ASSUME NoneAssumption == None \notin Answer \cup Record

-----------------------------------------------------------------------------
(* The routes: the bodies each accepts.                                    *)

\* Versions of a record that a client can have seen.
Seen(x) == 1 .. row[x].version

\* An identifier is left for one more record: the bound on records, no rule.
Room(kind, ids) ==
    Cardinality({q \in Requests : pc[q] = "write" /\ req[q].body.kind = kind})
      < Cardinality({x \in ids : row[x].version = 0})

\* POST /v1/facts; arg is 1 for a manual source or one with evidence.
CreateRoute == {Asks("createFact", None, 0, backed) : backed \in {0, 1}}

ConfirmRoute(f) == {Asks("confirm", f, v, 0) : v \in Seen(f)}
RejectRoute(f) == {Asks("reject", f, v, 0) : v \in Seen(f)}
DisputeRoute(f) == {Asks("dispute", f, v, 0) : v \in Seen(f)}

RequestRoute == {Asks("requestAccess", None, 0, 0)}

\* Deny with no delay, or delay by a positive number of hours.
DecideRoute(c) == {Asks("decide", c, v, hours) : v \in Seen(c), hours \in 0 .. MaxDelay}

ReleaseRoute(c) == {Asks("release", c, v, 0) : v \in Seen(c)}

ConsentRoute == {Asks("grant", None, 0, 0)}
WithdrawRoute(c) == {Asks("withdraw", c, v, 0) : v \in Seen(c)}

\* A record is read before its category is authorized: one that is absent has no
\* version, and the request fails before it reserves a key.
Accepted ==
    {b \in CreateRoute : Room(b.kind, Facts)}
    \cup {b \in RequestRoute : Room(b.kind, Cases)}
    \cup {b \in ConsentRoute : Room(b.kind, Consents)}
    \cup (UNION {ConfirmRoute(f) \cup RejectRoute(f) \cup DisputeRoute(f) : f \in Facts})
    \cup (UNION {DecideRoute(c) \cup ReleaseRoute(c) : c \in Cases})
    \cup (UNION {WithdrawRoute(c) : c \in Consents})

\* What a route hashes: its body, but the three decisions on a fact hash the fact
\* and its version only, and so look alike.
Hashed(b) ==
    IF b.kind \in {"confirm", "reject", "dispute"} THEN [b EXCEPT !.kind = "confirm"] ELSE b

-----------------------------------------------------------------------------
TypeOK ==
    /\ now \in Nat
    /\ row \in [Rows -> Row]
    /\ record \in [Keys -> Record \cup {None}]
    /\ pc \in [Requests -> Labels]
    /\ req \in [Requests -> [key : Keys \cup {None}, body : Body, at : Nat,
                             answer : Answer \cup {None}]]
    /\ \A q \in Requests : pc[q] # "idle" => req[q].key \in Keys
    /\ \A q \in Requests : pc[q] = "complete" => req[q].answer \in Answer
    /\ commits \in SUBSET [key : Keys, body : Body, at : Nat, answer : Answer]
    /\ faults \in Nat

NoRequest == [key |-> None, body |-> NoBody, at |-> 0, answer |-> None]

Init ==
    /\ now = 0
    /\ row = [x \in Rows |-> Domain!Absent]
    /\ record = [k \in Keys |-> None]
    /\ pc = [q \in Requests |-> "idle"]
    /\ req = [q \in Requests |-> NoRequest]
    /\ commits = {}
    /\ faults = 0

Tick ==
    /\ now < MaxTime
    /\ now' = now + 1
    /\ UNCHANGED <<row, record, pc, req, commits, faults>>

-----------------------------------------------------------------------------
(* The three transactions                                                  *)

Ended(q) ==
    /\ pc' = [pc EXCEPT ![q] = "idle"]
    /\ req' = [req EXCEPT ![q] = NoRequest]

\* Mutant: a key whose request has no answer yet is taken over.
Unanswered(k) == record[k] # None => record[k].answer = None

\* "on conflict do nothing": the insert succeeds for the first request of a key,
\* for ever, as no operation removes a record.
Reservable(k) == record[k] = None

\* reserveIdempotency; the route then takes the time for its write.  A request
\* whose key is taken is answered: with the stored answer, with "processing" while
\* there is none, or with a conflict when its hash is another; it changes nothing.
ReserveIdempotency(q, k, b) ==
    /\ pc[q] = "idle"
    /\ Reservable(k)
    /\ record' = [record EXCEPT ![k] = [hash |-> Hashed(b), answer |-> None]]
    /\ pc' = [pc EXCEPT ![q] = "write"]
    /\ req' = [req EXCEPT ![q] = [key |-> k, body |-> b, at |-> now, answer |-> None]]
    /\ UNCHANGED <<now, row, commits, faults>>

\* A request writes row r as record x and has its answer.
Written(q, x, r) ==
    /\ row' = [row EXCEPT ![x] = r]
    /\ req' = [req EXCEPT ![q].answer = Of(x, r)]
    /\ commits' = commits \cup {[key |-> req[q].key, body |-> req[q].body,
                                at |-> req[q].at, answer |-> Of(x, r)]}
    /\ pc' = [pc EXCEPT ![q] = "complete"]
    /\ UNCHANGED <<now, record, faults>>

Writes(q, kind) == pc[q] = "write" /\ req[q].body.kind = kind

\* Mutant: the update does not compare versions.
InStatus(b, statuses) == row[b.target].status \in statuses

\* "where id=$ and version=$ and status in ...".
Current(b, statuses) == row[b.target].version = b.version /\ row[b.target].status \in statuses

CreateCandidateFact(q, f) ==
    /\ Writes(q, "createFact")
    /\ row[f] = Domain!Absent
    /\ Written(q, f, Domain!New("candidate", req[q].body.arg = 1))

\* Mutant: evidence is not asked for.
NoEvidenceNeeded(b) == Current(b, {"candidate", "disputed"})

Confirmable(b) == Current(b, {"candidate", "disputed"}) /\ row[b.target].backed

ConfirmFact(q) ==
    /\ Writes(q, "confirm")
    /\ Confirmable(req[q].body)
    /\ Written(q, req[q].body.target, Domain!Moved(row[req[q].body.target], "confirmed"))

RejectFact(q) ==
    /\ Writes(q, "reject")
    /\ Current(req[q].body, {"candidate"})
    /\ Written(q, req[q].body.target, Domain!Moved(row[req[q].body.target], "rejected"))

DisputeFact(q) ==
    /\ Writes(q, "dispute")
    /\ Current(req[q].body, {"confirmed"})
    /\ Written(q, req[q].body.target, Domain!Moved(row[req[q].body.target], "disputed"))

CreateEmergencyAccessRequest(q, c) ==
    /\ Writes(q, "requestAccess")
    /\ row[c] = Domain!Absent
    /\ Written(q, c, Domain!New("requested", FALSE))

DecideEmergencyAccess(q) ==
    LET b == req[q].body
        status == IF b.arg = 0 THEN "denied" ELSE "delayed"
    IN  /\ Writes(q, "decide")
        /\ Current(b, {"requested"})
        /\ Written(q, b.target,
                   [Domain!Moved(row[b.target], status) EXCEPT
                       !.releaseAfter = IF b.arg = 0 THEN @ ELSE req[q].at + b.arg])

\* Mutant: the delay is not looked at.
DelayedOnly(q) == Current(req[q].body, {"delayed"})

Releasable(q) ==
    Current(req[q].body, {"delayed"}) /\ row[req[q].body.target].releaseAfter <= req[q].at

ReleaseEmergencyAccess(q) ==
    /\ Writes(q, "release")
    /\ Releasable(q)
    /\ Written(q, req[q].body.target, Domain!Moved(row[req[q].body.target], "released"))

RecordConsent(q, c) ==
    /\ Writes(q, "grant")
    /\ row[c] = Domain!Absent
    /\ Written(q, c, Domain!New("granted", FALSE))

WithdrawConsent(q) ==
    /\ Writes(q, "withdraw")
    /\ Current(req[q].body, {"granted"})
    /\ Written(q, req[q].body.target, Domain!Moved(row[req[q].body.target], "withdrawn"))

\* The where clause of an update that finds no row; for emergency access, the lookup
\* of the requester's EmergencyRecipient membership, which may find none: memberships
\* are outside this module, so it finds either.
Refused(q) ==
    LET b == req[q].body
    IN  CASE b.kind = "confirm"  -> ~Confirmable(b)
          [] b.kind = "reject"   -> ~Current(b, {"candidate"})
          [] b.kind = "dispute"  -> ~Current(b, {"confirmed"})
          [] b.kind = "decide"   -> ~Current(b, {"requested"})
          [] b.kind = "release"  -> ~Releasable(q)
          [] b.kind = "withdraw" -> ~Current(b, {"granted"})
          [] b.kind = "requestAccess" -> TRUE
          [] OTHER -> FALSE

\* The request is answered with a conflict, or an error; its key stays reserved.
WriteConflict(q) ==
    /\ pc[q] = "write"
    /\ Refused(q)
    /\ Ended(q)
    /\ UNCHANGED <<now, row, record, commits, faults>>

\* Mutant: the answer stored is that of the record as it is now.
StoredLate(q) == Of(req[q].answer.id, row[req[q].answer.id])

\* Mutant: the routes on consents and emergency access forget to store theirs.
StoredForFacts(q) == IF req[q].answer.id \in Facts THEN req[q].answer ELSE None

\* The answer completeIdempotency stores.
Stored(q) == req[q].answer

\* completeIdempotency, "where status_code is null", and the answer.
CompleteIdempotency(q) ==
    /\ pc[q] = "complete"
    /\ record' = [record EXCEPT ![req[q].key].answer = IF @ = None THEN Stored(q) ELSE @]
    /\ Ended(q)
    /\ UNCHANGED <<now, row, commits, faults>>

\* The process dies or a call fails: nothing undoes what is committed.
RequestFails(q) ==
    /\ pc[q] # "idle"
    /\ faults < MaxFaults
    /\ faults' = faults + 1
    /\ Ended(q)
    /\ UNCHANGED <<now, row, record, commits>>

-----------------------------------------------------------------------------
RequestStep(q) ==
    \/ \E f \in Facts : CreateCandidateFact(q, f)
    \/ ConfirmFact(q) \/ RejectFact(q) \/ DisputeFact(q)
    \/ \E c \in Cases : CreateEmergencyAccessRequest(q, c)
    \/ DecideEmergencyAccess(q) \/ ReleaseEmergencyAccess(q)
    \/ \E c \in Consents : RecordConsent(q, c)
    \/ WithdrawConsent(q)
    \/ WriteConflict(q)
    \/ CompleteIdempotency(q)

Next ==
    \/ Tick
    \/ \E q \in Requests : \/ \E k \in Keys, b \in Accepted : ReserveIdempotency(q, k, b)
                           \/ RequestStep(q)
                           \/ RequestFails(q)

Spec == Init /\ [][Next]_vars

-----------------------------------------------------------------------------
(* Safety                                                                  *)

\* However often a client repeats a request and wherever its first attempt ended,
\* a key writes at most once.
WrittenOnce == \A c, d \in commits : c.key = d.key => c = d

\* A stored answer, which every repetition of the request is given, is what a
\* write under that key returned to a request with the same hash.
AnswersAreWritten ==
    \A k \in Keys : (record[k] # None /\ record[k].answer # None) =>
            \E c \in commits : /\ c.key = k
                               /\ c.answer = record[k].answer
                               /\ Hashed(c.body) = record[k].hash

\* No update is lost: every version of a record is one write's, a decision follows
\* the version its client had seen, and the record is as the last of them left it.
NoUpdateLost ==
    /\ \A c, d \in commits : (c.answer.id = d.answer.id /\ c.answer.version = d.answer.version)
                              => c = d
    /\ \A c \in commits : c.body.target # None => c.answer.version = c.body.version + 1
    /\ \A x \in Rows : row[x].version > 0 => \E c \in commits : c.answer = Of(x, row[x])

\* "Fail-closed early release": emergency access that is released was delayed by an
\* owner, for hours that are over, and never denied.
ReleasedAfterDelay ==
    \A c \in Cases : row[c].status = "released" =>
        /\ \E d \in commits : /\ d.body.kind = "decide" /\ d.answer.id = c /\ d.body.arg > 0
                               /\ d.at + d.body.arg <= now
        /\ \A d \in commits : d.body.kind = "decide" /\ d.answer.id = c => d.body.arg > 0

\* The rows only ever change as the domain package allows.
ImplementsDomain == Domain!Spec

-----------------------------------------------------------------------------
(* Liveness                                                                *)

\* The API goes on with a request it has begun.
FairSpec == Spec /\ \A q \in Requests : WF_vars(RequestStep(q))

\* A write that is committed is answered for good, unless its request ended early.
CommittedIsAnswered ==
    \A k \in Keys : (\E c \in commits : c.key = k) ~>
        (faults > 0 \/ (record[k] # None /\ record[k].answer # None))

=============================================================================
