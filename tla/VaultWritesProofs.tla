------------------------- MODULE VaultWritesProofs --------------------------
(* Proofs for the idempotent writes, for any sets of requests, keys and      *)
(* records and any bounds.                                                   *)
EXTENDS VaultWrites, TLAPS

-----------------------------------------------------------------------------
(* The inductive invariant.  A key's record is its request's until that ends,*)
(* and what is written under a key is its request's or was.                  *)

Entry(q) == [key |-> req[q].key, body |-> req[q].body, at |-> req[q].at, answer |-> req[q].answer]

\* A request under way has reserved its key, which has no answer yet, alone.
KeyIsHeld ==
    /\ \A q \in Requests : pc[q] # "idle" =>
          /\ record[req[q].key] = [hash |-> Hashed(req[q].body), answer |-> None]
          /\ req[q].at <= now
    /\ \A p, q \in Requests : (pc[p] # "idle" /\ pc[q] # "idle" /\ req[p].key = req[q].key)
                              => p = q

\* A body asks for a record of the kind it is about.
BodyFits(b) ==
    /\ b.kind \in {"createFact", "requestAccess", "grant"} => b.target = None
    /\ b.kind \in {"confirm", "reject", "dispute"} => b.target \in Facts
    /\ b.kind \in {"decide", "release"} => b.target \in Cases
    /\ b.kind = "withdraw" => b.target \in Consents

\* A request has written iff it is about to store its answer.
WriteIsLogged ==
    /\ \A q \in Requests : pc[q] = "write" =>
          /\ BodyFits(req[q].body)
          /\ \A c \in commits : c.key # req[q].key
    /\ \A q \in Requests : pc[q] = "complete" => Entry(q) \in commits
    /\ \A c \in commits : record[c.key] # None
    /\ \A c \in commits : 1 <= c.answer.version /\ c.answer.version <= row[c.answer.id].version

Decisions(c) == {d \in commits : d.body.kind = "decide" /\ d.answer.id = c}

\* The decision on emergency access is the one that set its time of release.
DecisionStands ==
    \A c \in Cases :
        /\ row[c].status \in {"absent", "requested"} => Decisions(c) = {}
        /\ row[c].status \in {"delayed", "released"} =>
              /\ \E d \in Decisions(c) : d.body.arg > 0 /\ d.at + d.body.arg = row[c].releaseAfter
              /\ \A d \in Decisions(c) : d.body.arg > 0
        /\ row[c].status = "released" => row[c].releaseAfter <= now

IInv ==
    /\ TypeOK
    /\ KeyIsHeld
    /\ WriteIsLogged
    /\ DecisionStands
    /\ WrittenOnce
    /\ AnswersAreWritten
    /\ NoUpdateLost

-----------------------------------------------------------------------------
\* What is hashed of a body is a body.
LEMMA HashIsBody == \A b \in Body : Hashed(b) \in Body
  BY DEF Hashed, Body, Kinds

\* The bodies the routes accept name a record of their kind.
LEMMA AcceptedFits ==
    ASSUME TypeOK, NEW b \in Accepted
    PROVE  b \in Body /\ BodyFits(b)
  <1>1. \A x \in Rows : Seen(x) \subseteq Nat
    BY DEF TypeOK, Row, Seen
  <1>2. 0 .. MaxDelay \subseteq Nat
    BY WritesAssumption
  <1>3. b \in CreateRoute => b \in Body /\ BodyFits(b)
    BY DEF CreateRoute, Asks, Body, Kinds, BodyFits
  <1>4. b \in RequestRoute => b \in Body /\ BodyFits(b)
    BY DEF RequestRoute, Asks, Body, Kinds, BodyFits
  <1>5. b \in ConsentRoute => b \in Body /\ BodyFits(b)
    BY DEF ConsentRoute, Asks, Body, Kinds, BodyFits
  <1>6. ASSUME NEW f \in Facts, b \in ConfirmRoute(f) \cup RejectRoute(f) \cup DisputeRoute(f)
        PROVE  b \in Body /\ BodyFits(b)
    <2>1. f \in Rows
      BY DEF Rows
    <2>2. PICK v \in Seen(f) : b \in {Asks("confirm", f, v, 0), Asks("reject", f, v, 0), Asks("dispute", f, v, 0)}
      BY <1>6 DEF ConfirmRoute, RejectRoute, DisputeRoute
    <2>3. v \in Nat
      BY <1>1, <2>1
    <2> QED
      BY <2>1, <2>2, <2>3 DEF Asks, Body, Kinds, BodyFits
  <1>7. ASSUME NEW c \in Cases, b \in DecideRoute(c) \cup ReleaseRoute(c)
        PROVE  b \in Body /\ BodyFits(b)
    <2>1. c \in Rows
      BY DEF Rows
    <2>2. PICK v \in Seen(c), h \in 0 .. MaxDelay :
            b \in {Asks("decide", c, v, h), Asks("release", c, v, 0)}
      <3>1. 0 \in 0 .. MaxDelay
        BY WritesAssumption
      <3> QED
        BY <1>7, <3>1 DEF DecideRoute, ReleaseRoute
    <2>3. v \in Nat /\ h \in Nat
      BY <1>1, <1>2, <2>1
    <2> QED
      BY <2>1, <2>2, <2>3 DEF Asks, Body, Kinds, BodyFits
  <1>8. ASSUME NEW c \in Consents, b \in WithdrawRoute(c)
        PROVE  b \in Body /\ BodyFits(b)
    <2>1. c \in Rows
      BY DEF Rows
    <2>2. PICK v \in Seen(c) : b = Asks("withdraw", c, v, 0)
      BY <1>8 DEF WithdrawRoute
    <2> QED
      BY <1>1, <2>1, <2>2 DEF Asks, Body, Kinds, BodyFits
  <1> QED
    BY <1>3, <1>4, <1>5, <1>6, <1>7, <1>8 DEF Accepted

\* The initial states satisfy the inductive invariant.
LEMMA InitInv == Init => IInv
  <1> SUFFICES ASSUME Init PROVE IInv
    OBVIOUS
  <1> USE DEF Init
  <1>1. Domain!Absent \in Row
    BY DEF Domain!Absent, Row, Statuses
  <1>2. NoRequest \in [key : Keys \cup {None}, body : Body, at : Nat, answer : Answer \cup {None}]
    BY DEF NoRequest, NoBody, Asks, Body, Kinds
  <1>3. TypeOK
    BY <1>1, <1>2 DEF TypeOK, Labels
  <1>4. KeyIsHeld /\ WriteIsLogged
    BY DEF KeyIsHeld, WriteIsLogged
  <1>5. DecisionStands
    BY DEF DecisionStands, Decisions, Domain!Absent, Rows
  <1>6. WrittenOnce /\ AnswersAreWritten /\ NoUpdateLost
    BY DEF WrittenOnce, AnswersAreWritten, NoUpdateLost, Domain!Absent
  <1> QED
    BY <1>3, <1>4, <1>5, <1>6 DEF IInv

\* The clock.
LEMMA TickInv == ASSUME IInv, Tick PROVE IInv'
  <1> USE DEF IInv, Tick
  <1>1. TypeOK'
    BY DEF TypeOK
  <1>2. /\ now \in Nat /\ now' \in Nat /\ now <= now'
        /\ \A q \in Requests : req[q].at \in Nat
    BY DEF TypeOK
  <1>3. KeyIsHeld'
    BY <1>2 DEF KeyIsHeld
  <1>4. WriteIsLogged'
    BY DEF WriteIsLogged, Entry
  <1>5. \A c \in Cases : row[c].releaseAfter \in Nat
    BY DEF TypeOK, Row, Rows
  <1>6. DecisionStands'
    BY <1>2, <1>5 DEF DecisionStands, Decisions
  <1>7. WrittenOnce' /\ AnswersAreWritten' /\ NoUpdateLost'
    BY DEF WrittenOnce, AnswersAreWritten, NoUpdateLost
  <1> QED
    BY <1>1, <1>3, <1>4, <1>6, <1>7

\* The key of a request under way has a record.
LEMMA HeldIsRecorded ==
    ASSUME IInv, NEW q \in Requests, pc[q] # "idle"
    PROVE  record[req[q].key] \in Record /\ record[req[q].key] # None
  <1>1. req[q].body \in Body
    BY DEF IInv, TypeOK
  <1>2. Hashed(req[q].body) \in Body
    BY <1>1, HashIsBody
  <1>3. record[req[q].key] = [hash |-> Hashed(req[q].body), answer |-> None]
    BY DEF IInv, KeyIsHeld
  <1> QED
    BY <1>2, <1>3, NoneAssumption DEF Record

\* A key is reserved: no request and no write had it.
LEMMA ReserveInv ==
    ASSUME IInv, NEW q \in Requests, NEW k \in Keys, NEW b \in Accepted,
           ReserveIdempotency(q, k, b)
    PROVE  IInv'
  <1> USE DEF IInv, ReserveIdempotency
  <1>1. b \in Body /\ BodyFits(b) /\ Hashed(b) \in Body
    BY AcceptedFits, HashIsBody
  <1> DEFINE rec == [hash |-> Hashed(b), answer |-> None]
             new == [key |-> k, body |-> b, at |-> now, answer |-> None]
  <1>2. rec \in Record /\ rec # None
    BY <1>1, NoneAssumption DEF Record
  <1>3. new \in [key : Keys \cup {None}, body : Body, at : Nat, answer : Answer \cup {None}]
    BY <1>1 DEF TypeOK
  <1>4. /\ record[k] = None /\ record'[k] = rec
        /\ \A l \in Keys \ {k} : record'[l] = record[l]
        /\ req'[q] = new
        /\ \A p \in Requests \ {q} : req'[p] = req[p] /\ pc'[p] = pc[p]
        /\ pc[q] = "idle" /\ pc'[q] = "write"
    BY DEF TypeOK, Reservable
  <1> HIDE DEF rec, new
  <1>5. TypeOK'
    BY <1>2, <1>3, <1>4 DEF TypeOK, Labels, rec, new
  <1>6. \A p \in Requests : pc[p] # "idle" => req[p].key # k
    BY <1>4, HeldIsRecorded
  <1>7. KeyIsHeld'
    BY <1>4, <1>6 DEF KeyIsHeld, TypeOK, rec, new
  <1>8. \A c \in commits : c.key # k
    BY <1>4 DEF WriteIsLogged
  <1>9. WriteIsLogged'
    BY <1>1, <1>2, <1>4, <1>8 DEF WriteIsLogged, Entry, TypeOK, new
  <1>10. DecisionStands'
    BY DEF DecisionStands, Decisions
  <1>11. WrittenOnce' /\ NoUpdateLost'
    BY DEF WrittenOnce, NoUpdateLost
  <1>12. AnswersAreWritten'
    BY <1>4 DEF AnswersAreWritten, rec
  <1> QED
    BY <1>5, <1>7, <1>9, <1>10, <1>11, <1>12

\* A request ends without storing an answer: its key stays reserved.
LEMMA EndInv ==
    ASSUME IInv, NEW q \in Requests, Ended(q), UNCHANGED <<now, row, record, commits>>,
           faults' \in Nat
    PROVE  IInv'
  <1> USE DEF IInv, Ended
  <1>1. NoRequest \in [key : Keys \cup {None}, body : Body, at : Nat, answer : Answer \cup {None}]
    BY DEF NoRequest, NoBody, Asks, Body, Kinds
  <1>2. /\ pc'[q] = "idle"
        /\ \A p \in Requests \ {q} : req'[p] = req[p] /\ pc'[p] = pc[p]
    BY DEF TypeOK
  <1>3. TypeOK'
    BY <1>1, <1>2 DEF TypeOK, Labels
  <1>4. KeyIsHeld'
    BY <1>2 DEF KeyIsHeld
  <1>5. WriteIsLogged'
    BY <1>2 DEF WriteIsLogged, Entry
  <1>6. DecisionStands'
    BY DEF DecisionStands, Decisions
  <1>7. WrittenOnce' /\ NoUpdateLost' /\ AnswersAreWritten'
    BY DEF WrittenOnce, NoUpdateLost, AnswersAreWritten
  <1> QED
    BY <1>3, <1>4, <1>5, <1>6, <1>7

\* The answer is stored: nobody else has the key, and its write is the request's.
LEMMA CompleteInv ==
    ASSUME IInv, NEW q \in Requests, CompleteIdempotency(q)
    PROVE  IInv'
  <1> USE DEF IInv, CompleteIdempotency, Ended, Stored
  <1>1. NoRequest \in [key : Keys \cup {None}, body : Body, at : Nat, answer : Answer \cup {None}]
    BY DEF NoRequest, NoBody, Asks, Body, Kinds
  <1> DEFINE k == req[q].key
  <1>2. /\ pc'[q] = "idle" /\ pc[q] = "complete"
        /\ \A p \in Requests \ {q} : req'[p] = req[p] /\ pc'[p] = pc[p]
        /\ k \in Keys /\ req[q].answer \in Answer /\ req[q].answer # None
        /\ Entry(q) \in commits
    BY NoneAssumption DEF TypeOK, WriteIsLogged
  <1>3. record[k] = [hash |-> Hashed(req[q].body), answer |-> None]
    BY <1>2 DEF KeyIsHeld
  <1>4. /\ record' = [record EXCEPT ![k] = [hash |-> Hashed(req[q].body), answer |-> req[q].answer]]
        /\ [hash |-> Hashed(req[q].body), answer |-> req[q].answer] \in Record
    <2>1. Hashed(req[q].body) \in Body
      BY HashIsBody DEF TypeOK
    <2>2. [hash |-> Hashed(req[q].body), answer |-> req[q].answer] \in Record
      BY <1>2, <2>1 DEF Record
    <2>3. record' = [record EXCEPT ![k].answer = req[q].answer]
      BY <1>2, <1>3 DEF TypeOK
    <2>4. [record[k] EXCEPT !.answer = req[q].answer]
             = [hash |-> Hashed(req[q].body), answer |-> req[q].answer]
      BY <1>3
    <2> QED
      BY <1>2, <2>2, <2>3, <2>4 DEF TypeOK
  <1>5. TypeOK'
    BY <1>1, <1>2, <1>4 DEF TypeOK, Labels
  <1>6. \A p \in Requests \ {q} : pc[p] # "idle" => req[p].key # k
    BY <1>2 DEF KeyIsHeld
  <1>7. KeyIsHeld'
    BY <1>2, <1>4, <1>6 DEF KeyIsHeld, TypeOK
  <1>8. \A l \in Keys : record[l] # None => record'[l] # None
    BY <1>2, <1>4, NoneAssumption DEF TypeOK
  <1>9. WriteIsLogged'
    BY <1>2, <1>8 DEF WriteIsLogged, Entry, TypeOK
  <1>10. DecisionStands'
    BY DEF DecisionStands, Decisions
  <1>11. WrittenOnce' /\ NoUpdateLost'
    BY DEF WrittenOnce, NoUpdateLost
  <1>12. AnswersAreWritten'
    <2> SUFFICES ASSUME NEW l \in Keys, record'[l] # None, record'[l].answer # None
                 PROVE  \E c \in commits : c.key = l /\ c.answer = record'[l].answer
                                           /\ Hashed(c.body) = record'[l].hash
      BY DEF AnswersAreWritten
    <2>1. CASE l = k
      BY <1>2, <1>4, <2>1 DEF Entry, TypeOK
    <2>2. CASE l # k
      BY <1>4, <2>2 DEF AnswersAreWritten, TypeOK
    <2> QED
      BY <2>1, <2>2
  <1> QED
    BY <1>5, <1>7, <1>9, <1>10, <1>11, <1>12

\* What a write does to a case: it creates it, decides on it, or releases it after
\* the time its decision has set.
CaseMoves(q, x, r) ==
    \/ row[x] = Domain!Absent /\ r.status = "requested" /\ req[q].body.kind # "decide"
    \/ /\ row[x].status = "requested" /\ req[q].body.kind = "decide"
       /\ \/ r.status = "denied"
          \/ /\ r.status = "delayed" /\ req[q].body.arg > 0
             /\ r.releaseAfter = req[q].at + req[q].body.arg
    \/ /\ row[x].status = "delayed" /\ req[q].body.kind # "decide"
       /\ r.status = "released" /\ r.releaseAfter = row[x].releaseAfter
       /\ r.releaseAfter <= req[q].at

\* A write that gives a record its next version keeps the invariant.
LEMMA WrittenInv ==
    ASSUME IInv, NEW q \in Requests, NEW x \in Rows, NEW r \in Row,
           pc[q] = "write", Written(q, x, r),
           r.version = row[x].version + 1,
           req[q].body.target # None => r.version = req[q].body.version + 1,
           x \in Cases => CaseMoves(q, x, r)
    PROVE  IInv'
  <1> USE DEF IInv, Written
  <1> DEFINE a == Of(x, r)
             e == [key |-> req[q].key, body |-> req[q].body, at |-> req[q].at, answer |-> a]
             k == req[q].key
  <1>1. a \in Answer /\ a.id = x /\ a.version = r.version /\ a.status = r.status
    BY DEF Of, Answer, Row
  <1>2. /\ row'[x] = r /\ \A y \in Rows \ {x} : row'[y] = row[y]
        /\ commits' = commits \cup {e}
        /\ pc'[q] = "complete" /\ \A p \in Requests \ {q} : pc'[p] = pc[p] /\ req'[p] = req[p]
        /\ req'[q] = [req[q] EXCEPT !.answer = a]
        /\ UNCHANGED <<now, record, faults>>
    BY DEF TypeOK
  <1>3. /\ k \in Keys /\ req[q].body \in Body /\ req[q].at \in Nat
        /\ e \in [key : Keys, body : Body, at : Nat, answer : Answer]
        /\ req'[q].key = k /\ req'[q].body = req[q].body /\ req'[q].at = req[q].at
        /\ req'[q].answer = a
        /\ e.key = k /\ e.body = req[q].body /\ e.at = req[q].at /\ e.answer = a
    BY <1>1, <1>2 DEF TypeOK
  <1>4. row[x].version \in Nat /\ r.version \in Nat
    BY DEF TypeOK, Row
  <1>5. \A c \in commits : c.key # k
    BY DEF WriteIsLogged
  <1>6. \A c \in commits : /\ c.answer.id \in Rows /\ c.answer.version \in Nat
                           /\ c.answer.id = x => c.answer.version < r.version
    BY <1>4 DEF TypeOK, Answer, WriteIsLogged
  <1>7. TypeOK'
    BY <1>1, <1>2, <1>3 DEF TypeOK, Labels
  <1> HIDE DEF a, e, Written
  <1>8. KeyIsHeld'
    <2>1. \A p \in Requests : /\ pc'[p] # "idle" => pc[p] # "idle"
                              /\ req'[p].key = req[p].key /\ req'[p].body = req[p].body
                              /\ req'[p].at = req[p].at
      BY <1>2, <1>3
    <2> QED
      BY <1>2, <2>1 DEF KeyIsHeld
  <1>9. WriteIsLogged'
    <2>1. \A p \in Requests : pc'[p] = "write" =>
             BodyFits(req'[p].body) /\ \A c \in commits' : c.key # req'[p].key
      BY <1>2, <1>3 DEF WriteIsLogged, KeyIsHeld
    <2>2. \A p \in Requests : pc'[p] = "complete" => Entry(p)' \in commits'
      <3>1. Entry(q)' = e
        BY <1>3 DEF Entry, e
      <3> QED
        BY <1>2, <3>1 DEF WriteIsLogged, Entry
    <2>3. record[k] # None
      BY HeldIsRecorded
    <2>4. \A c \in commits' : record'[c.key] # None
      BY <1>2, <1>3, <2>3 DEF WriteIsLogged
    <2>5. \A c \in commits' : 1 <= c.answer.version /\ c.answer.version <= row'[c.answer.id].version
      BY <1>1, <1>2, <1>3, <1>4, <1>6 DEF WriteIsLogged
    <2> QED
      BY <2>1, <2>2, <2>4, <2>5 DEF WriteIsLogged
  <1>10. WrittenOnce'
    BY <1>2, <1>3, <1>5 DEF WrittenOnce
  <1>11. AnswersAreWritten'
    BY <1>2 DEF AnswersAreWritten
  <1>12. NoUpdateLost'
    <2>1. \A c, d \in commits' :
             (c.answer.id = d.answer.id /\ c.answer.version = d.answer.version) => c = d
      BY <1>1, <1>2, <1>3, <1>4, <1>6 DEF NoUpdateLost
    <2>2. \A c \in commits' : c.body.target # None => c.answer.version = c.body.version + 1
      BY <1>1, <1>2, <1>3 DEF NoUpdateLost
    <2>3. \A y \in Rows : row'[y].version > 0 => \E c \in commits' : c.answer = Of(y, row'[y])
      BY <1>1, <1>2, <1>3 DEF NoUpdateLost, a
    <2> QED
      BY <2>1, <2>2, <2>3 DEF NoUpdateLost
  <1>13. DecisionStands'
    <2> SUFFICES ASSUME NEW c \in Cases
                 PROVE  /\ row'[c].status \in {"absent", "requested"} => Decisions(c)' = {}
                        /\ row'[c].status \in {"delayed", "released"} =>
                              /\ \E d \in Decisions(c)' :
                                    d.body.arg > 0 /\ d.at + d.body.arg = row'[c].releaseAfter
                              /\ \A d \in Decisions(c)' : d.body.arg > 0
                        /\ row'[c].status = "released" => row'[c].releaseAfter <= now'
      BY DEF DecisionStands
    <2>1. CASE c # x
      <3>1. Decisions(c)' = Decisions(c)
        BY <1>1, <1>2, <1>3, <2>1 DEF Decisions
      <3>2. row'[c] = row[c] /\ now' = now
        BY <1>2, <2>1 DEF Rows
      <3> QED
        BY <3>1, <3>2 DEF DecisionStands
    <2>2. CASE c = x
      <3>1. CASE req[q].body.kind # "decide"
        <4>1. Decisions(c)' = Decisions(c)
          BY <1>2, <1>3, <3>1 DEF Decisions
        <4>2. CASE row[x] = Domain!Absent /\ r.status = "requested"
          BY <1>2, <2>2, <4>1, <4>2 DEF DecisionStands, Domain!Absent
        <4>3. CASE /\ row[x].status = "delayed" /\ r.status = "released"
                   /\ r.releaseAfter = row[x].releaseAfter /\ r.releaseAfter <= req[q].at
          <5>1. r.releaseAfter \in Nat /\ now \in Nat /\ req[q].at <= now
            BY DEF Row, TypeOK, KeyIsHeld
          <5>2. r.releaseAfter <= now'
            BY <1>2, <1>3, <4>3, <5>1
          <5> QED
            BY <1>2, <2>2, <4>1, <4>3, <5>2 DEF DecisionStands
        <4> QED
          BY <2>2, <3>1, <4>2, <4>3 DEF CaseMoves
      <3>2. CASE req[q].body.kind = "decide"
        <4>1. Decisions(c)' = {e}
          BY <1>1, <1>2, <1>3, <2>2, <3>2 DEF Decisions, DecisionStands, CaseMoves
        <4>2. CASE r.status = "denied"
          BY <1>2, <2>2, <4>2
        <4>3. CASE /\ r.status = "delayed" /\ req[q].body.arg > 0
                   /\ r.releaseAfter = req[q].at + req[q].body.arg
          BY <1>2, <1>3, <2>2, <4>1, <4>3
        <4> QED
          BY <2>2, <3>2, <4>2, <4>3 DEF CaseMoves
      <3> QED
        BY <3>1, <3>2
    <2> QED
      BY <2>1, <2>2
  <1> QED
    BY <1>7, <1>8, <1>9, <1>10, <1>11, <1>12, <1>13

\* Where the records of each kind are.
LEMMA Kept == Facts \subseteq Rows /\ Cases \subseteq Rows /\ Consents \subseteq Rows
  BY DEF Rows

\* A record that moves on is a record of the next version.
LEMMA MovedIsRow ==
    ASSUME NEW r \in Row, NEW status \in Statuses
    PROVE  /\ Domain!Moved(r, status) \in Row
           /\ Domain!Moved(r, status).version = r.version + 1
           /\ Domain!Moved(r, status).status = status
           /\ Domain!Moved(r, status).backed = r.backed
           /\ Domain!Moved(r, status).releaseAfter = r.releaseAfter
  <1>1. r.version + 1 \in Nat
    BY DEF Row
  <1>2. \A n \in Nat : [r EXCEPT !.status = status, !.version = n] \in Row
    BY Zenon DEF Row
  <1>3. Domain!Moved(r, status) \in Row
    BY <1>1, <1>2, Zenon DEF Domain!Moved
  <1> QED
    BY <1>3 DEF Domain!Moved, Row

\* Every step keeps the inductive invariant.
LEMMA StepInv == IInv /\ [Next]_vars => IInv'
  <1> SUFFICES ASSUME IInv, [Next]_vars PROVE IInv'
    OBVIOUS
  <1> USE Kept
  <1>1. CASE Tick
    BY <1>1, TickInv
  <1>2. ASSUME NEW q \in Requests, NEW k \in Keys, NEW b \in Accepted, ReserveIdempotency(q, k, b)
        PROVE  IInv'
    BY <1>2, ReserveInv
  <1> DEFINE Creates(q, x, status, backed) ==
                 /\ pc[q] = "write"
                 /\ req[q].body.kind \in {"createFact", "requestAccess", "grant"}
                 /\ row[x] = Domain!Absent
                 /\ Written(q, x, Domain!New(status, backed))
             Moves(q, status) ==
                 /\ pc[q] = "write" /\ row[req[q].body.target].version = req[q].body.version
                 /\ Written(q, req[q].body.target, Domain!Moved(row[req[q].body.target], status))
  <1>3. ASSUME NEW q \in Requests, NEW x \in Rows, NEW status \in Statuses, NEW backed \in BOOLEAN,
               Creates(q, x, status, backed), x \in Cases => status = "requested"
        PROVE  IInv'
    <2>1. Domain!New(status, backed) \in Row
      BY DEF Domain!New, Row
    <2>2. /\ Domain!New(status, backed).version = row[x].version + 1
          /\ Domain!New(status, backed).status = status
      BY <1>3 DEF Domain!New, Domain!Absent
    <2>3. req[q].body.target = None
      BY <1>3 DEF IInv, WriteIsLogged, BodyFits
    <2>4. x \in Cases => CaseMoves(q, x, Domain!New(status, backed))
      BY <1>3, <2>2 DEF CaseMoves
    <2> QED
      BY <1>3, <2>1, <2>2, <2>3, <2>4, WrittenInv
  <1>4. ASSUME NEW q \in Requests, NEW status \in Statuses, Moves(q, status),
               req[q].body.target \in Rows,
               req[q].body.target \in Cases =>
                   CaseMoves(q, req[q].body.target, Domain!Moved(row[req[q].body.target], status))
        PROVE  IInv'
    <2> DEFINE x == req[q].body.target
               r == Domain!Moved(row[x], status)
    <2>1. row[x] \in Row
      BY <1>4 DEF IInv, TypeOK
    <2>2. r \in Row /\ r.version = row[x].version + 1
      BY <2>1, MovedIsRow
    <2> QED
      BY <1>4, <2>2, WrittenInv
  <1>5. ASSUME NEW q \in Requests, RequestStep(q)
        PROVE  IInv'
    <2>0. pc[q] = "write" => BodyFits(req[q].body)
      BY DEF IInv, WriteIsLogged
    <2>1. ASSUME NEW f \in Facts, CreateCandidateFact(q, f)
          PROVE  IInv'
      BY <2>1, <1>3, WritesAssumption DEF CreateCandidateFact, Writes, Statuses
    <2>2. CASE ConfirmFact(q)
      BY <2>2, <2>0, <1>4, WritesAssumption DEF ConfirmFact, Confirmable, Writes, Current, BodyFits, Statuses
    <2>3. CASE RejectFact(q)
      BY <2>3, <2>0, <1>4, WritesAssumption DEF RejectFact, Writes, Current, BodyFits, Statuses
    <2>4. CASE DisputeFact(q)
      BY <2>4, <2>0, <1>4, WritesAssumption DEF DisputeFact, Writes, Current, BodyFits, Statuses
    <2>5. ASSUME NEW c \in Cases, CreateEmergencyAccessRequest(q, c)
          PROVE  IInv'
      BY <2>5, <1>3 DEF CreateEmergencyAccessRequest, Writes, Statuses
    <2>6. CASE DecideEmergencyAccess(q)
      <3> DEFINE b == req[q].body
                 c == b.target
                 status == IF b.arg = 0 THEN "denied" ELSE "delayed"
                 r == [Domain!Moved(row[c], status) EXCEPT
                          !.releaseAfter = IF b.arg = 0 THEN @ ELSE req[q].at + b.arg]
      <3>1. /\ pc[q] = "write" /\ b.kind = "decide" /\ row[c].version = b.version
            /\ row[c].status = "requested" /\ Written(q, c, r)
        BY <2>6 DEF DecideEmergencyAccess, Writes, Current
      <3>2. c \in Cases /\ c \in Rows
        BY <3>1, <2>0 DEF BodyFits
      <3>3. row[c] \in Row /\ b.arg \in Nat /\ req[q].at \in Nat
        BY <3>2 DEF IInv, TypeOK, Body
      <3>4. /\ r \in Row /\ r.version = row[c].version + 1 /\ r.status = status
            /\ b.arg # 0 => r.releaseAfter = req[q].at + b.arg
        <4>1. status \in Statuses
          BY DEF Statuses
        <4>2. Domain!Moved(row[c], status) \in Row
          BY <3>3, <4>1, MovedIsRow
        <4>3. req[q].at + b.arg \in Nat
          BY <3>3
        <4>4. /\ r \in Row /\ r.version = Domain!Moved(row[c], status).version
              /\ r.status = Domain!Moved(row[c], status).status
              /\ b.arg # 0 => r.releaseAfter = req[q].at + b.arg
          BY <4>2, <4>3 DEF Row
        <4> QED
          BY <3>3, <4>1, <4>4, MovedIsRow
      <3>5. CaseMoves(q, c, r)
        BY <3>1, <3>3, <3>4 DEF CaseMoves
      <3> QED
        BY <3>1, <3>2, <3>4, <3>5, WrittenInv
    <2>7. CASE ReleaseEmergencyAccess(q)
      <3> DEFINE c == req[q].body.target
                 r == Domain!Moved(row[c], "released")
      <3>1. /\ Moves(q, "released") /\ req[q].body.kind = "release"
            /\ row[c].status = "delayed" /\ row[c].releaseAfter <= req[q].at
        BY <2>7 DEF ReleaseEmergencyAccess, Releasable, Writes, Current
      <3>2. c \in Cases
        BY <3>1, <2>0 DEF BodyFits
      <3>3. row[c] \in Row
        BY <3>2 DEF IInv, TypeOK
      <3>4. r.status = "released" /\ r.releaseAfter = row[c].releaseAfter
        BY <3>3, MovedIsRow DEF Statuses
      <3>5. CaseMoves(q, c, r)
        BY <3>1, <3>4 DEF CaseMoves
      <3> QED
        BY <3>1, <3>2, <3>5, <1>4 DEF Statuses
    <2>8. ASSUME NEW c \in Consents, RecordConsent(q, c)
          PROVE  IInv'
      BY <2>8, <1>3, WritesAssumption DEF RecordConsent, Writes, Statuses
    <2>9. CASE WithdrawConsent(q)
      BY <2>9, <2>0, <1>4, WritesAssumption DEF WithdrawConsent, Writes, Current, BodyFits, Statuses
    <2>10. CASE WriteConflict(q)
      BY <2>10, EndInv DEF WriteConflict, IInv, TypeOK
    <2>11. CASE CompleteIdempotency(q)
      BY <2>11, CompleteInv
    <2> QED
      BY <1>5, <2>1, <2>2, <2>3, <2>4, <2>5, <2>6, <2>7, <2>8, <2>9, <2>10, <2>11 DEF RequestStep
  <1>6. ASSUME NEW q \in Requests, RequestFails(q)
        PROVE  IInv'
    BY <1>6, EndInv DEF RequestFails, IInv, TypeOK
  <1>7. CASE UNCHANGED vars
    BY <1>7 DEF vars, IInv, TypeOK, KeyIsHeld, WriteIsLogged, DecisionStands, Decisions, Entry,
                WrittenOnce, AnswersAreWritten, NoUpdateLost
  <1> QED
    BY <1>1, <1>2, <1>5, <1>6, <1>7 DEF Next

\* Of the repository's idempotency records, rows and writes: the inductive invariant
\* holds of every reachable state.
THEOREM Invariance == Spec => []IInv
  BY InitInv, StepInv, PTL DEF Spec

\* The tables and the requests always have their types.
THEOREM Typed == Spec => []TypeOK
  <1>1. IInv => TypeOK
    BY DEF IInv
  <1> QED
    BY <1>1, Invariance, PTL

\* reserveIdempotency lets a key write at most once, however often its request is
\* repeated and wherever an attempt ended.
THEOREM KeysWriteOnce == Spec => []WrittenOnce
  <1>1. IInv => WrittenOnce
    BY DEF IInv
  <1> QED
    BY <1>1, Invariance, PTL

\* completeIdempotency stores the answer of a write made under the key by a request
\* with the same hash.
THEOREM StoredAnswersAreWritten == Spec => []AnswersAreWritten
  <1>1. IInv => AnswersAreWritten
    BY DEF IInv
  <1> QED
    BY <1>1, Invariance, PTL

\* The version checks of facts, emergency access and consents lose no update.
THEOREM UpdatesAreKept == Spec => []NoUpdateLost
  <1>1. IInv => NoUpdateLost
    BY DEF IInv
  <1> QED
    BY <1>1, Invariance, PTL

\* releaseEmergencyAccess never releases before the decided delay is over, nor what
\* was denied.
THEOREM ReleaseWaits == Spec => []ReleasedAfterDelay
  <1>1. IInv => ReleasedAfterDelay
    <2> SUFFICES ASSUME IInv, NEW c \in Cases, row[c].status = "released"
                 PROVE  /\ \E d \in commits : /\ d.body.kind = "decide" /\ d.answer.id = c
                                              /\ d.body.arg > 0 /\ d.at + d.body.arg <= now
                        /\ \A d \in commits :
                              d.body.kind = "decide" /\ d.answer.id = c => d.body.arg > 0
      BY DEF ReleasedAfterDelay
    <2> QED
      BY DEF IInv, DecisionStands, Decisions
  <1> QED
    BY <1>1, Invariance, PTL

\* What a write does to the rows.
LEMMA RowsChange ==
    ASSUME IInv, NEW q \in Requests, RequestStep(q)
    PROVE  UNCHANGED now /\ (Domain!Change \/ UNCHANGED row)
  <1> USE Kept
  <1>0. pc[q] = "write" => BodyFits(req[q].body) /\ req[q].at <= now /\ req[q].at \in Nat
    BY DEF IInv, WriteIsLogged, KeyIsHeld, TypeOK
  <1> DEFINE b == req[q].body
             x == b.target
  <1>1. ASSUME NEW f \in Facts, CreateCandidateFact(q, f)
        PROVE  UNCHANGED now /\ Domain!Change
    <2>1. (b.arg = 1) \in BOOLEAN
      OBVIOUS
    <2>2. Domain!Create(f) /\ UNCHANGED now
      BY <1>1, <2>1, Zenon DEF CreateCandidateFact, Written, Domain!Create
    <2> QED
      BY <2>2 DEF Domain!Change
  <1>2. CASE ConfirmFact(q)
    BY <1>0, <1>2 DEF ConfirmFact, Confirmable, Current, Writes, Written, BodyFits, Domain!Change,
                      Domain!ConfirmFact
  <1>3. CASE RejectFact(q)
    BY <1>0, <1>3 DEF RejectFact, Current, Writes, Written, BodyFits, Domain!Change, Domain!RejectFact
  <1>4. CASE DisputeFact(q)
    BY <1>0, <1>4 DEF DisputeFact, Current, Writes, Written, BodyFits, Domain!Change,
                      Domain!DisputeFact
  <1>5. ASSUME NEW c \in Cases, CreateEmergencyAccessRequest(q, c)
        PROVE  UNCHANGED now /\ Domain!Change
    <2>1. c \notin Facts
      BY WritesAssumption
    <2>2. Domain!Create(c) /\ UNCHANGED now
      BY <1>5, <2>1, Zenon DEF CreateEmergencyAccessRequest, Written, Domain!Create
    <2> QED
      BY <2>2 DEF Domain!Change
  <1>6. CASE DecideEmergencyAccess(q)
    <2> DEFINE status == IF b.arg = 0 THEN "denied" ELSE "delayed"
               m == Domain!Moved(row[x], status)
               r == [m EXCEPT !.releaseAfter = IF b.arg = 0 THEN @ ELSE req[q].at + b.arg]
    <2>1. /\ pc[q] = "write" /\ x \in Cases /\ row[x].status = "requested" /\ now' = now
          /\ row' = [row EXCEPT ![x] = r]
      BY <1>0, <1>6 DEF DecideEmergencyAccess, Writes, Written, Current, BodyFits
    <2>2. m \in Row /\ m.releaseAfter = row[x].releaseAfter
      BY <2>1, MovedIsRow DEF IInv, TypeOK, Statuses
    <2>3. row'[x] = r
      BY <2>1 DEF IInv, TypeOK
    <2>4. r = [m EXCEPT !.releaseAfter = row'[x].releaseAfter]
      BY <2>2, <2>3 DEF Row
    <2>5. status # "delayed" => row'[x].releaseAfter = row[x].releaseAfter
      BY <2>2, <2>3 DEF Row
    <2>6. status \in Domain!EmergencyTransitions(row[x].status) /\ status # "released"
      BY <2>1 DEF Domain!EmergencyTransitions
    <2>7. Domain!TransitionEmergencyAccess(x)
      BY <2>1, <2>4, <2>5, <2>6, Zenon DEF Domain!TransitionEmergencyAccess
    <2> QED
      BY <2>1, <2>7 DEF Domain!Change
  <1>7. CASE ReleaseEmergencyAccess(q)
    <2> DEFINE m == Domain!Moved(row[x], "released")
    <2>1. /\ pc[q] = "write" /\ x \in Cases /\ row[x].status = "delayed" /\ now' = now
          /\ row[x].releaseAfter <= req[q].at /\ row' = [row EXCEPT ![x] = m]
      BY <1>0, <1>7 DEF ReleaseEmergencyAccess, Releasable, Writes, Written, Current, BodyFits
    <2>2. m \in Row /\ m.releaseAfter = row[x].releaseAfter /\ row[x].releaseAfter \in Nat
      BY <2>1, MovedIsRow DEF IInv, TypeOK, Statuses, Row
    <2>3. row'[x] = m
      BY <2>1 DEF IInv, TypeOK
    <2>4. m = [m EXCEPT !.releaseAfter = row'[x].releaseAfter]
      BY <2>2, <2>3 DEF Row
    <2>5. row[x].releaseAfter <= now
      BY <1>0, <2>1, <2>2 DEF IInv, TypeOK
    <2>6. "released" \in Domain!EmergencyTransitions(row[x].status)
      BY <2>1 DEF Domain!EmergencyTransitions
    <2>7. Domain!TransitionEmergencyAccess(x)
      BY <2>1, <2>2, <2>3, <2>4, <2>5, <2>6, Zenon DEF Domain!TransitionEmergencyAccess
    <2> QED
      BY <2>1, <2>7 DEF Domain!Change
  <1>8. ASSUME NEW c \in Consents, RecordConsent(q, c)
        PROVE  UNCHANGED now /\ Domain!Change
    <2>1. c \notin Facts /\ c \notin Cases
      BY WritesAssumption
    <2>2. Domain!Create(c) /\ UNCHANGED now
      BY <1>8, <2>1, Zenon DEF RecordConsent, Written, Domain!Create
    <2> QED
      BY <2>2 DEF Domain!Change
  <1>9. CASE WithdrawConsent(q)
    BY <1>0, <1>9 DEF WithdrawConsent, Current, Writes, Written, BodyFits, Domain!Change,
                      Domain!WithdrawConsent
  <1>10. CASE WriteConflict(q) \/ CompleteIdempotency(q)
    BY <1>10 DEF WriteConflict, CompleteIdempotency
  <1> QED
    BY <1>1, <1>2, <1>3, <1>4, <1>5, <1>6, <1>7, <1>8, <1>9, <1>10 DEF RequestStep

\* The repository's facts, emergency access and consents only change as the domain
\* package allows.
THEOREM Refinement == Spec => ImplementsDomain
  <1>1. Init => Domain!Init
    BY DEF Init, Domain!Init, Rows
  <1>2. IInv /\ [Next]_vars => [Domain!Next]_<<now, row>>
    <2> SUFFICES ASSUME IInv, [Next]_vars
                 PROVE  Domain!Next \/ UNCHANGED <<now, row>>
      OBVIOUS
    <2>1. CASE Tick
      BY <2>1 DEF Tick, Domain!Next
    <2>2. ASSUME NEW q \in Requests, NEW k \in Keys, NEW b \in Accepted, ReserveIdempotency(q, k, b)
          PROVE  UNCHANGED <<now, row>>
      BY <2>2 DEF ReserveIdempotency
    <2>3. ASSUME NEW q \in Requests, RequestStep(q)
          PROVE  Domain!Next \/ UNCHANGED <<now, row>>
      BY <2>3, RowsChange DEF Domain!Next
    <2>4. ASSUME NEW q \in Requests, RequestFails(q)
          PROVE  UNCHANGED <<now, row>>
      BY <2>4 DEF RequestFails
    <2>5. CASE UNCHANGED vars
      BY <2>5 DEF vars
    <2> QED
      BY <2>1, <2>2, <2>3, <2>4, <2>5 DEF Next
  <1> QED
    BY <1>1, <1>2, Invariance, PTL DEF Spec, ImplementsDomain, Domain!Spec

-----------------------------------------------------------------------------
(* Idempotency records                                                       *)

\* No request takes over another's key.
KeysKept == \A q \in Requests : pc'[q] # "idle" => pc[q] # "idle" /\ req'[q].key = req[q].key

\* Only the reservation of a key and the storing of an answer write a record.
LEMMA RecordSteps ==
    ASSUME IInv, [Next]_vars
    PROVE  \/ UNCHANGED record /\ KeysKept
           \/ \E q \in Requests, k \in Keys, b \in Accepted : ReserveIdempotency(q, k, b)
           \/ \E q \in Requests : CompleteIdempotency(q)
  <1> DEFINE Quiet == UNCHANGED record /\ KeysKept
  <1> USE DEF IInv, TypeOK
  <1>1. CASE Tick \/ UNCHANGED vars
    BY <1>1 DEF Tick, vars, KeysKept
  <1>2. ASSUME NEW q \in Requests, NEW x, NEW r, pc[q] = "write", Written(q, x, r) PROVE Quiet
    BY <1>2 DEF Written, KeysKept
  <1>3. ASSUME NEW q \in Requests, WriteConflict(q) \/ RequestFails(q) PROVE Quiet
    BY <1>3 DEF WriteConflict, RequestFails, Ended, KeysKept
  <1>4. ASSUME NEW q \in Requests, RequestStep(q), ~CompleteIdempotency(q) PROVE Quiet
    BY <1>2, <1>3, <1>4
    DEF RequestStep, Writes, CreateCandidateFact, ConfirmFact, RejectFact, DisputeFact,
        CreateEmergencyAccessRequest, DecideEmergencyAccess, ReleaseEmergencyAccess,
        RecordConsent, WithdrawConsent
  <1> QED
    BY <1>1, <1>3, <1>4 DEF Next

\* What a key's record says stays: its hash, and its answer once there is one.
AnswersStand ==
    [][\A k \in Keys : record[k] # None =>
            /\ record'[k] # None /\ record'[k].hash = record[k].hash
            /\ record[k].answer # None => record'[k] = record[k]]_vars

\* reserveIdempotency gives every repetition of a request the same answer, for good.
THEOREM AnswersAreFinal == Spec => AnswersStand
  <1> DEFINE Stands == \A k \in Keys : record[k] # None =>
                          /\ record'[k] # None /\ record'[k].hash = record[k].hash
                          /\ record[k].answer # None => record'[k] = record[k]
  <1>1. ASSUME IInv, NEW q \in Requests, NEW k \in Keys, NEW b \in Accepted,
               ReserveIdempotency(q, k, b)
        PROVE  Stands
    BY <1>1 DEF ReserveIdempotency, Reservable, IInv, TypeOK
  <1>2. ASSUME IInv, NEW q \in Requests, CompleteIdempotency(q) PROVE Stands
    <2> DEFINE k == req[q].key
               new == [record[k] EXCEPT !.answer = IF @ = None THEN Stored(q) ELSE @]
    <2>1. k \in Keys /\ record[k] \in Record /\ record' = [record EXCEPT ![k] = new]
      BY <1>2, HeldIsRecorded DEF CompleteIdempotency, IInv, TypeOK
    <2>2. /\ new.hash = record[k].hash /\ (record[k].answer # None => new = record[k])
          /\ Stored(q) \in Answer
      BY <1>2, <2>1 DEF Record, CompleteIdempotency, Stored, IInv, TypeOK
    <2>3. new \in Record
      BY <2>1, <2>2 DEF Record
    <2>4. new # None
      BY <2>3, NoneAssumption
    <2> HIDE DEF k, new
    <2> QED
      BY <2>1, <2>2, <2>4 DEF IInv, TypeOK
  <1>3. IInv /\ [Next]_vars => [Stands]_vars
    BY <1>1, <1>2, RecordSteps
  <1> QED
    BY <1>3, Invariance, PTL DEF Spec, AnswersStand

\* A key that is at "processing" although no request is working on it any more.
Abandoned(k) ==
    /\ record[k] # None /\ record[k].answer = None
    /\ \A q \in Requests : pc[q] # "idle" => req[q].key # k

\* A request that ended before completeIdempotency leaves its key at "processing" for
\* ever: no repetition takes it over and nothing answers it.
THEOREM AbandonedForGood == Spec => [][\A k \in Keys : Abandoned(k) => Abandoned(k)']_vars
  <1> DEFINE Stays == \A k \in Keys : Abandoned(k) => Abandoned(k)'
  <1>1. ASSUME UNCHANGED record, KeysKept PROVE Stays
    BY <1>1 DEF KeysKept, Abandoned
  <1>2. ASSUME IInv, NEW q \in Requests, NEW l \in Keys, NEW b \in Accepted,
               ReserveIdempotency(q, l, b)
        PROVE  Stays
    BY <1>2 DEF ReserveIdempotency, Reservable, Abandoned, IInv, TypeOK
  <1>3. ASSUME IInv, NEW q \in Requests, CompleteIdempotency(q) PROVE Stays
    BY <1>3 DEF CompleteIdempotency, Ended, Abandoned, IInv, TypeOK
  <1>4. IInv /\ [Next]_vars => [Stays]_vars
    BY <1>1, <1>2, <1>3, RecordSteps
  <1> QED
    BY <1>4, Invariance, PTL DEF Spec
=============================================================================
