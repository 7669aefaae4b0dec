----------------------------- MODULE Households -----------------------------
(***************************************************************************)
(* A household's members and invitations.  Every write is one transaction  *)
(* that also holds its idempotency record, so what a request did is known  *)
(* to every repetition of it.  An invitation locks the household's row and *)
(* then needs its e-mail address free; a revocation, an acceptance and a   *)
(* change of role lock their own row and then need the household's.  Locks *)
(* are read off the step a request has reached, and a cycle is broken by   *)
(* PostgreSQL.                                                             *)
(***************************************************************************)
EXTENDS Naturals, FiniteSets

CONSTANTS
    Accounts,    \* verified accounts, each with its own e-mail address
    Founder,     \* the account that creates the household
    MaxAsked,    \* bound on the idempotency keys
    Requests,    \* requests at a time
    None

ASSUME HouseholdsAssumption ==
    /\ Founder \in Accounts
    /\ MaxAsked \in Nat
    /\ None \notin Accounts \cup Requests \cup 1 .. MaxAsked
    /\ Accounts \cap 1 .. MaxAsked = {}

VARIABLES
    version,    \* of the households row; 0 while there is none
    member,     \* memberships, by account: role and version
    invitation, \* membership_invitations, by the key of the request for each
    mailed,     \* invitations whose e-mail was sent
    asked,      \* per key: the request its client makes under it
    record,     \* per key: its response, with the household's version, or None
    pc, key,    \* per request: its step and its key
    intime      \* per request: whether its invitation had not expired when it came in

tableVars == <<version, member, invitation, record>>
vars == <<version, member, invitation, mailed, asked, record, pc, key, intime>>

\* Idempotency keys.  An invitation is known by the key it was asked for under, from
\* which its token is derived.
Keys == 1 .. MaxAsked

\* assignableHouseholdRoles, as far as they differ here: a co-owner approves.
AssignableRoles == {"CoOwner", "Editor"}
Roles == AssignableRoles \cup {"Owner"}

Kinds == {"invite", "revoke", "role", "accept"}
Body == [kind : Kinds, actor : Accounts, target : Accounts \cup Keys, version : Nat,
         role : AssignableRoles \cup {None}]
Asks(kind, actor, target, v, role) ==
    [kind |-> kind, actor |-> actor, target |-> target, version |-> v, role |-> role]

Member == [role : Roles \cup {None}, version : Nat]
Invitation == [status : {"absent", "open", "accepted", "revoked"}, email : Accounts \cup {None},
               role : AssignableRoles \cup {None}, version : Nat, expired : BOOLEAN]
NoInvitation ==
    [status |-> "absent", email |-> None, role |-> None, version |-> 0, expired |-> FALSE]
Response == [version : Nat, made : Keys \cup {None}]
Labels == {"idle", "reserve", "row", "household", "insert", "mail"}

ASSUME NoneAssumption == None \notin Roles \cup Body \cup Response

TypeOK ==
    /\ version \in Nat
    /\ member \in [Accounts -> Member]
    /\ invitation \in [Keys -> Invitation]
    /\ mailed \in SUBSET Keys
    /\ asked \in [Keys -> Body \cup {None}]
    /\ record \in [Keys -> Response \cup {None}]
    /\ pc \in [Requests -> Labels]
    /\ key \in [Requests -> Keys \cup {None}]
    /\ \A q \in Requests : pc[q] # "idle" => key[q] \in Keys /\ asked[key[q]] \in Body
    /\ \A q \in Requests : pc[q] = "mail" => record[key[q]].made \in Keys
    /\ intime \in [Requests -> BOOLEAN]

Init ==
    /\ version = 0
    /\ member = [a \in Accounts |-> [role |-> None, version |-> 0]]
    /\ invitation = [i \in Keys |-> NoInvitation]
    /\ mailed = {}
    /\ asked = [k \in Keys |-> None]
    /\ record = [k \in Keys |-> None]
    /\ pc = [q \in Requests |-> "idle"]
    /\ key = [q \in Requests |-> None]
    /\ intime = [q \in Requests |-> FALSE]

\* createHouseholdForAccount: the organization, the household, its key, the owner
\* and the response to repetitions in one transaction.
CreateHousehold ==
    /\ version = 0
    /\ version' = 1
    /\ member' = [member EXCEPT ![Founder] = [role |-> "Owner", version |-> 1]]
    /\ UNCHANGED <<invitation, mailed, asked, record, pc, key, intime>>

\* The 72 hours of an invitation are over.
Expire(i) ==
    /\ invitation[i].status = "open"
    /\ ~invitation[i].expired
    /\ invitation' = [invitation EXCEPT ![i].expired = TRUE]
    /\ UNCHANGED <<version, member, mailed, asked, record, pc, key, intime>>

-----------------------------------------------------------------------------
(* Requests                                                                *)

\* resolveIdentity finds the membership, and authorize lets its role approve; an
\* old session or one without a second factor only refuses more.
MayApprove(a) == member[a].role \in {"Owner", "CoOwner"}

\* The bodies of the routes.  A client sends the version it sees; what it has missed
\* happens while the request is on its way.
InviteRoute(a) ==
    {Asks("invite", a, e, version, r) : e \in Accounts, r \in AssignableRoles}
RevokeRoute(a) ==
    {Asks("revoke", a, i, invitation[i].version, None) :
        i \in {j \in Keys : invitation[j].status # "absent"}}
RoleRoute(a) ==
    {Asks("role", a, m, member[m].version, r) :
        m \in {n \in Accounts : member[n].role # None}, r \in AssignableRoles}

\* The token is in the e-mail.
AcceptRoute(a) == {Asks("accept", a, i, 1, None) : i \in {j \in mailed : invitation[j].email = a}}

\* getMembershipInvitationForAcceptance: the invitation is usable, or this account
\* has accepted it.
Acceptance(i) ==
    \/ invitation[i].status = "accepted"
    \/ invitation[i].status = "open" /\ ~invitation[i].expired

Admitted(b) == IF b.kind = "accept" THEN Acceptance(b.target) ELSE MayApprove(b.actor)

\* A request comes in, under a new key or again; a key that is reused for another
\* request is refused and changes nothing.
Begin(q, k, b) ==
    /\ pc[q] = "idle"
    /\ Admitted(b)
    /\ asked' = [asked EXCEPT ![k] = b]
    /\ pc' = [pc EXCEPT ![q] = "reserve"]
    /\ key' = [key EXCEPT ![q] = k]
    /\ intime' = [intime EXCEPT ![q] = b.kind = "accept" /\ ~invitation[b.target].expired]
    /\ UNCHANGED <<tableVars, mailed>>

\* Keys are taken in order: their names do not matter.
Ask(q, k) ==
    /\ asked[k] = None
    /\ \A l \in 1 .. k - 1 : asked[l] # None
    /\ \E a \in Accounts :
         \E b \in InviteRoute(a) \cup RevokeRoute(a) \cup RoleRoute(a) \cup AcceptRoute(a) :
            Begin(q, k, b)

Repeat(q, k) == asked[k] # None /\ Begin(q, k, asked[k])

Asked(q) == asked[key[q]]
InTransaction(q) == pc[q] \in {"row", "household", "insert"}

\* A request goes on to a step, or ends.
Goes(q, label) ==
    /\ pc' = [pc EXCEPT ![q] = label]
    /\ key' = [key EXCEPT ![q] = IF label = "idle" THEN None ELSE @]
    /\ intime' = [intime EXCEPT ![q] = label # "idle" /\ @]

\* The answer of an invitation's request waits for its e-mail.
Answers(q) == Goes(q, IF Asked(q).kind = "invite" THEN "mail" ELSE "idle")

\* The transaction commits its response with a new version of the household.
Commits(q, i) ==
    /\ version' = version + 1
    /\ record' = [record EXCEPT ![key[q]] = [version |-> version', made |-> i]]
    /\ Answers(q)

\* The insert of the record has met a committed one.
Found(q) == record[key[q]] # None

\* "on conflict do nothing", which waits for a transaction that has inserted the
\* same key; a repetition is answered from the record.
Reserve(q) ==
    /\ pc[q] = "reserve"
    /\ \A p \in Requests : ~(InTransaction(p) /\ key[p] = key[q])
    /\ IF Found(q) THEN Answers(q)
       ELSE Goes(q, IF Asked(q).kind = "invite" THEN "household" ELSE "row")
    /\ UNCHANGED <<tableVars, mailed, asked>>

\* Rows that request q has locked, and those it needs next.
HouseholdLocked(q) == \E p \in Requests \ {q} : pc[p] = "insert"
RowLocked(q) ==
    \E p \in Requests \ {q} : /\ pc[p] = "household" /\ Asked(p).kind # "invite"
                              /\ Asked(p).target = Asked(q).target

\* "role<>'Owner'".
Demotable(m) == member[m].role \notin {"Owner", None}

\* An open invitation of the version the request was made for.
Usable(b) == invitation[b.target].status = "open" /\ invitation[b.target].version = b.version

\* Mutants: an acceptance trusts what it read before the lock; a membership that
\* exists is overwritten.
AcceptableAsRead(q) == intime[q] /\ member[Asked(q).actor].role = None
AcceptableAgain(q) == intime[q] /\ Usable(Asked(q))

Acceptable(q) == intime[q] /\ Usable(Asked(q)) /\ member[Asked(q).actor].role = None

\* What the locked row has to be.  An account that is already a member meets the
\* unique index on its membership.
RowCurrent(q) ==
    LET b == Asked(q)
    IN  CASE b.kind = "revoke" -> Usable(b)
          [] b.kind = "role"   -> Demotable(b.target) /\ member[b.target].version = b.version
          [] b.kind = "accept" -> Acceptable(q)

\* The update (or "for update") of a revocation, a change of role or an acceptance.
LockRow(q) ==
    /\ pc[q] = "row"
    /\ ~RowLocked(q)
    /\ Goes(q, IF RowCurrent(q) THEN "household" ELSE "idle")
    /\ UNCHANGED <<tableVars, mailed, asked>>

\* Mutant: an invitation that has expired since it was locked is not updated.
ClosedUnexpired(i, status) ==
    IF invitation[i].expired THEN invitation
    ELSE [invitation EXCEPT ![i].status = status, ![i].version = @ + 1]

\* The table with invitation i revoked or accepted.
Closed(i, status) == [invitation EXCEPT ![i].status = status, ![i].version = @ + 1]

RevokeMembershipInvitation(q) ==
    /\ pc[q] = "household" /\ Asked(q).kind = "revoke"
    /\ ~HouseholdLocked(q)
    /\ invitation' = Closed(Asked(q).target, "revoked")
    /\ Commits(q, None)
    /\ UNCHANGED <<member, mailed, asked>>

UpdateMembershipRole(q) ==
    /\ pc[q] = "household" /\ Asked(q).kind = "role"
    /\ ~HouseholdLocked(q)
    /\ member' = [member EXCEPT ![Asked(q).target] =
                    [role |-> Asked(q).role, version |-> @.version + 1]]
    /\ Commits(q, None)
    /\ UNCHANGED <<invitation, mailed, asked>>

AcceptMembershipInvitation(q) ==
    LET i == Asked(q).target
    IN  /\ pc[q] = "household" /\ Asked(q).kind = "accept"
        /\ ~HouseholdLocked(q)
        /\ member' = [member EXCEPT ![Asked(q).actor] =
                        [role |-> invitation[i].role, version |-> 1]]
        /\ invitation' = Closed(i, "accepted")
        /\ Commits(q, None)
        /\ UNCHANGED <<mailed, asked>>

\* Mutant: the household's version is not compared.
AnyVersion(q) == TRUE

VersionExpected(q) == version = Asked(q).version

\* createMembershipInvitation first updates the household.
LockHousehold(q) ==
    /\ pc[q] = "household" /\ Asked(q).kind = "invite"
    /\ ~HouseholdLocked(q)
    /\ Goes(q, IF VersionExpected(q) THEN "insert" ELSE "idle")
    /\ UNCHANGED <<tableVars, mailed, asked>>

Open(e) == {i \in Keys : invitation[i].status = "open" /\ invitation[i].email = e}

\* The unique index on open addresses waits for a transaction that is closing one.
AddressLocked(q) ==
    \E p \in Requests : /\ pc[p] = "household" /\ Asked(p).kind \in {"revoke", "accept"}
                        /\ Asked(p).target \in Open(Asked(q).target)

\* Mutant: an invitation whose 72 hours are over counts as closed.
TakenUnexpired(e) == \E i \in Open(e) : ~invitation[i].expired

Taken(e) == Open(e) # {}

InsertInvitation(q) ==
    LET b == Asked(q)
        i == key[q]
    IN  /\ pc[q] = "insert"
        /\ ~AddressLocked(q)
        /\ ~Taken(b.target)
        /\ invitation' = [invitation EXCEPT ![i] =
               [status |-> "open", email |-> b.target, role |-> b.role, version |-> 1,
                expired |-> FALSE]]
        /\ Commits(q, i)
        /\ UNCHANGED <<member, mailed, asked>>

\* "membership invitation conflict": the transaction is rolled back.
InvitationConflict(q) ==
    /\ pc[q] = "insert"
    /\ ~AddressLocked(q)
    /\ Taken(Asked(q).target)
    /\ Goes(q, "idle")
    /\ UNCHANGED <<tableVars, mailed, asked>>

\* The e-mail of the invitation in the response, under a key of its own, so that a
\* repetition sends it at most once more.
SendInvitation(q) ==
    /\ pc[q] = "mail"
    /\ mailed' = mailed \cup {record[key[q]].made}
    /\ Goes(q, "idle")
    /\ UNCHANGED <<tableVars, asked>>

\* Mutant: a cycle is not detected.
NoCycle(q) == FALSE

\* An invitation waits for an address that a request frees which waits for the
\* household the invitation has locked.
Deadlocked(q) == pc[q] = "insert" /\ AddressLocked(q)

\* PostgreSQL aborts one of the two.
DeadlockDetected(q, p) ==
    /\ Deadlocked(q)
    /\ p = q \/ (pc[p] = "household" /\ Asked(p).target \in Open(Asked(q).target))
    /\ Goes(p, "idle")
    /\ UNCHANGED <<tableVars, mailed, asked>>

\* A call fails or the process dies: an open transaction is rolled back, and an
\* e-mail is not sent.
RequestFails(q) ==
    /\ pc[q] # "idle"
    /\ Goes(q, "idle")
    /\ UNCHANGED <<tableVars, mailed, asked>>

-----------------------------------------------------------------------------
RequestStep(q) ==
    \/ Reserve(q) \/ LockRow(q)
    \/ RevokeMembershipInvitation(q) \/ UpdateMembershipRole(q) \/ AcceptMembershipInvitation(q)
    \/ LockHousehold(q) \/ InsertInvitation(q)
    \/ InvitationConflict(q) \/ SendInvitation(q)

Next ==
    \/ CreateHousehold
    \/ \E i \in Keys : Expire(i)
    \/ \E q \in Requests : \/ \E k \in Keys : Ask(q, k) \/ Repeat(q, k)
                           \/ RequestStep(q)
                           \/ RequestFails(q)
                           \/ \E p \in Requests : DeadlockDetected(q, p)

Spec == Init /\ [][Next]_vars

-----------------------------------------------------------------------------
(* Safety                                                                  *)

Done == {k \in Keys : record[k] # None}

\* Every change of the household is one request's and has a version of its own,
\* whatever is repeated, and an invitation is made for the household as its inviter
\* had seen it.
ChangesAreSerial ==
    /\ version > 0 => version = 1 + Cardinality(Done)
    /\ \A k, l \in Done : record[k].version = record[l].version => k = l
    /\ \A k \in Done : asked[k].kind = "invite" => record[k].version = asked[k].version + 1

\* An address has one open invitation at most, also while one is being revoked or
\* accepted, and also when its 72 hours are over.
OneOpenInvitation ==
    \A i, j \in Keys : (/\ invitation[i].status = "open" /\ invitation[j].status = "open"
                               /\ invitation[i].email = invitation[j].email) => i = j

\* Members other than the founder were admitted by one invitation to their address,
\* and an accepted invitation admitted its account.
AdmittedByInvitation ==
    \A a \in Accounts \ {Founder} :
        LET accepted == {i \in Keys : invitation[i].status = "accepted"
                                              /\ invitation[i].email = a}
        IN  IF member[a].role = None THEN accepted = {} ELSE \E i \in accepted : accepted = {i}

\* ADR-062: role changes "refuse to update the Owner membership", and so does an
\* invitation to the owner's own address; nobody else becomes an owner.
FounderIsOwner ==
    \A a \in Accounts : member[a].role = "Owner" <=> (a = Founder /\ version > 0)

\* An invitation that was revoked or used never admits anyone again, even if its
\* acceptance had read it before.
ClosedIsFinal ==
    [][\A i \in Keys : invitation[i].status \in {"accepted", "revoked"} =>
            invitation'[i] = invitation[i]]_vars

\* The transactions with their locks, the repetitions, rollbacks and aborted cycles are
\* a register that takes whole requests one at a time, each on the versions and the
\* state of affairs it was made for.
Register == INSTANCE MembershipRegister
ImplementsRegister == Register!Spec

-----------------------------------------------------------------------------
(* Liveness                                                                *)

\* The API goes on with a request.  PostgreSQL queues those that wait for a lock, so
\* a lock that is free again and again is granted, and breaks cycles.
FairSpec ==
    /\ Spec
    /\ \A q \in Requests : SF_vars(RequestStep(q))
    /\ WF_vars(\E p, q \in Requests : DeadlockDetected(q, p))

\* Every request ends: whoever waits for a row, an address or a key gets it or is
\* aborted.
RequestEnds == \A q \in Requests : []<>(pc[q] = "idle")
=============================================================================
