-------------------------- MODULE HouseholdsProofs --------------------------
(* Proofs for households, members and invitations, for any sets of accounts  *)
(* and requests and any number of idempotency keys.                          *)
EXTENDS Households, FiniteSetTheorems, TLAPS

-----------------------------------------------------------------------------
(* The inductive invariant.                                                  *)

\* A body names an account, or an invitation that was made, for its actor if it
\* accepts it.
Fits(b) ==
    /\ b.kind \in {"invite", "role"} => b.target \in Accounts /\ b.role \in AssignableRoles
    /\ b.kind \in {"revoke", "accept"} => b.target \in Keys /\ invitation[b.target].status # "absent"
    /\ b.kind = "accept" => invitation[b.target].email = b.actor

\* Keys, their records and the invitations made under them agree.
Recorded ==
    /\ \A k \in Keys : asked[k] # None => Fits(asked[k])
    /\ \A k \in Keys : record[k] # None => asked[k] # None
    /\ \A k \in Keys : (record[k] # None /\ asked[k].kind = "invite") =>
          record[k].made = k /\ invitation[k].status # "absent"
    /\ \A k \in Keys : record[k] = None => invitation[k].status = "absent"
    /\ \A i \in Keys : invitation[i].status # "absent" => invitation[i].role \in AssignableRoles
    /\ \A i \in mailed : invitation[i].status # "absent"
    /\ version = 0 => /\ \A k \in Keys : asked[k] = None
                      /\ \A a \in Accounts : member[a].role = None

\* What a request has found of the row it has locked still holds.
RowHeld(q) ==
    /\ Asked(q).kind = "revoke" => Usable(Asked(q))
    /\ Asked(q).kind = "role" => /\ Demotable(Asked(q).target)
                                 /\ member[Asked(q).target].version = Asked(q).version
    /\ Asked(q).kind = "accept" => Usable(Asked(q)) /\ member[Asked(q).actor].role = None

AtStep ==
    \A q \in Requests :
        /\ InTransaction(q) => record[key[q]] = None
        /\ pc[q] = "row" => Asked(q).kind # "invite"
        /\ pc[q] = "insert" => Asked(q).kind = "invite" /\ VersionExpected(q)
        /\ pc[q] = "mail" => Asked(q).kind = "invite" /\ record[key[q]] # None
        /\ (pc[q] = "household" /\ Asked(q).kind # "invite") => RowHeld(q)

RowLock(q) == pc[q] = "household" /\ Asked(q).kind # "invite"

\* Keys, rows and the household are locked by one transaction at a time.
Locks ==
    \A p, q \in Requests : p # q =>
        /\ (InTransaction(p) /\ InTransaction(q)) => key[p] # key[q]
        /\ ~(pc[p] = "insert" /\ pc[q] = "insert")
        /\ (RowLock(p) /\ RowLock(q)) => Asked(p).target # Asked(q).target

Bounded == \A k \in Done : record[k].version <= version

IInv ==
    /\ TypeOK
    /\ Recorded
    /\ AtStep
    /\ Locks
    /\ Bounded
    /\ ChangesAreSerial
    /\ OneOpenInvitation
    /\ AdmittedByInvitation
    /\ FounderIsOwner

-----------------------------------------------------------------------------
\* None is no key, no account, no role, no body and no response.
LEMMA NoneIsNothing ==
    None \notin Keys /\ None \notin Accounts /\ None \notin Roles /\ None \notin Body
    /\ None \notin Response /\ AssignableRoles \subseteq Roles
  BY HouseholdsAssumption, NoneAssumption DEF Keys, Roles

\* The keys with a record are finitely many.
LEMMA DoneIsFinite == IsFiniteSet(Done) /\ Cardinality(Done) \in Nat
  <1>1. 1 \in Int /\ MaxAsked \in Int
    BY HouseholdsAssumption
  <1>2. IsFiniteSet(Keys)
    BY <1>1, FS_Interval DEF Keys
  <1>3. Done \in SUBSET Keys
    BY DEF Done
  <1>4. IsFiniteSet(Done)
    BY <1>2, <1>3, FS_Subset
  <1> QED
    BY <1>4, FS_CardinalityType

\* The initial states satisfy the inductive invariant.
LEMMA InitInv == Init => IInv
  <1> SUFFICES ASSUME Init PROVE IInv
    OBVIOUS
  <1> USE DEF Init
  <1>1. NoInvitation \in Invitation /\ [role |-> None, version |-> 0] \in Member
    BY DEF NoInvitation, Invitation, Member
  <1>2. TypeOK
    BY <1>1 DEF TypeOK, Labels
  <1>3. Recorded
    BY DEF Recorded, NoInvitation
  <1>4. AtStep /\ Locks
    BY DEF AtStep, Locks, InTransaction, RowLock
  <1>5. Bounded /\ ChangesAreSerial
    BY DEF Bounded, ChangesAreSerial, Done
  <1>6. OneOpenInvitation /\ AdmittedByInvitation /\ FounderIsOwner
    BY NoneIsNothing DEF OneOpenInvitation, AdmittedByInvitation, FounderIsOwner, NoInvitation, Roles
  <1> QED
    BY <1>2, <1>3, <1>4, <1>5, <1>6 DEF IInv

\* Before there is a household, nobody has asked for anything.
LEMMA CreateInv == ASSUME IInv, CreateHousehold PROVE IInv'
  <1> USE DEF IInv, CreateHousehold
  <1>0. Founder \in Accounts
    BY HouseholdsAssumption
  <1>1. [role |-> "Owner", version |-> 1] \in Member
    BY DEF Member, Roles
  <1>2. TypeOK'
    BY <1>0, <1>1 DEF TypeOK
  <1>3. \A k \in Keys : asked[k] = None /\ record[k] = None /\ invitation[k].status = "absent"
    BY DEF Recorded
  <1>4. \A q \in Requests : pc[q] = "idle"
    BY <1>3, NoneIsNothing DEF TypeOK
  <1>5. Recorded' /\ AtStep' /\ Locks'
    BY <1>3, <1>4 DEF Recorded, AtStep, Locks, InTransaction, RowLock
  <1>6. Done = {} /\ Done' = {}
    BY <1>3 DEF Done
  <1>7. Bounded' /\ ChangesAreSerial'
    BY <1>6, FS_EmptySet DEF Bounded, ChangesAreSerial
  <1>8. OneOpenInvitation' /\ AdmittedByInvitation'
    BY <1>0 DEF OneOpenInvitation, AdmittedByInvitation, TypeOK
  <1>9. FounderIsOwner'
    BY <1>0 DEF FounderIsOwner, TypeOK
  <1> QED
    BY <1>2, <1>5, <1>7, <1>8, <1>9

\* An invitation that expires stays what it is.
LEMMA ExpireInv == ASSUME IInv, NEW i \in Keys, Expire(i) PROVE IInv'
  <1> USE DEF IInv, Expire
  <1>1. /\ invitation' \in [Keys -> Invitation]
        /\ \A j \in Keys : /\ invitation'[j].status = invitation[j].status
                           /\ invitation'[j].email = invitation[j].email
                           /\ invitation'[j].role = invitation[j].role
                           /\ invitation'[j].version = invitation[j].version
    <2>1. [invitation[i] EXCEPT !.expired = TRUE] \in Invitation
      BY DEF TypeOK, Invitation
    <2> QED
      BY <2>1 DEF TypeOK, Invitation
  <1>2. TypeOK'
    BY <1>1 DEF TypeOK
  <1>3. \A b : Fits(b)' = Fits(b)
    BY <1>1 DEF Fits
  <1>4. Recorded'
    BY <1>1, <1>3 DEF Recorded, TypeOK
  <1>5. \A q \in Requests : RowLock(q) => asked[key[q]] # None /\ (RowHeld(q) => RowHeld(q)')
    <2> SUFFICES ASSUME NEW q \in Requests, RowLock(q)
                 PROVE  asked[key[q]] # None /\ (RowHeld(q) => RowHeld(q)')
      OBVIOUS
    <2>1. key[q] \in Keys /\ asked[key[q]] \in Body /\ asked[key[q]] # None
      BY NoneIsNothing DEF TypeOK, RowLock
    <2>2. Fits(Asked(q))
      BY <2>1 DEF Recorded, Asked
    <2> QED
      BY <1>1, <2>1, <2>2 DEF RowHeld, Usable, Demotable, Asked, Fits
  <1>6. AtStep' /\ Locks'
    BY <1>5 DEF AtStep, Locks, InTransaction, RowLock, VersionExpected, Asked
  <1>7. Bounded' /\ ChangesAreSerial'
    BY DEF Bounded, ChangesAreSerial, Done
  <1>8. OneOpenInvitation'
    BY <1>1 DEF OneOpenInvitation
  <1>9. AdmittedByInvitation'
    <2>1. \A a : {j \in Keys : invitation'[j].status = "accepted" /\ invitation'[j].email = a}
                 = {j \in Keys : invitation[j].status = "accepted" /\ invitation[j].email = a}
      BY <1>1
    <2> QED
      BY <2>1 DEF AdmittedByInvitation
  <1>10. FounderIsOwner'
    BY DEF FounderIsOwner
  <1> QED
    BY <1>2, <1>4, <1>6, <1>7, <1>8, <1>9, <1>10

\* A request that comes in has locked nothing.
LEMMA BeginInv ==
    ASSUME IInv, NEW q \in Requests, NEW k \in Keys, NEW b \in Body, Begin(q, k, b),
           asked[k] \in {None, b}, Fits(b), version # 0
    PROVE  IInv'
  <1> USE DEF IInv, Begin
  <1>1. /\ asked'[k] = b /\ \A l \in Keys \ {k} : asked'[l] = asked[l]
        /\ pc'[q] = "reserve" /\ key'[q] = k
        /\ \A p \in Requests \ {q} : pc'[p] = pc[p] /\ key'[p] = key[p]
        /\ UNCHANGED <<version, member, invitation, record, mailed>>
    BY DEF TypeOK, tableVars
  <1>2. \A p \in Requests : pc[p] # "idle" => asked'[key[p]] = asked[key[p]] /\ key[p] \in Keys
    BY <1>1, NoneIsNothing DEF TypeOK
  <1>3. \A l \in Keys : asked[l] # None => asked'[l] = asked[l]
    BY <1>1
  <1>4. TypeOK'
    <2>1. asked' \in [Keys -> Body \cup {None}] /\ pc' \in [Requests -> Labels]
      BY DEF TypeOK, Labels
    <2>2. key' \in [Requests -> Keys \cup {None}] /\ intime' \in [Requests -> BOOLEAN]
      BY DEF TypeOK
    <2>3. \A p \in Requests : pc'[p] # "idle" => key'[p] \in Keys /\ asked'[key'[p]] \in Body
      BY <1>1, <1>2 DEF TypeOK
    <2>4. \A p \in Requests : pc'[p] = "mail" => record'[key'[p]].made \in Keys
      BY <1>1 DEF TypeOK
    <2> QED
      BY <1>1, <2>1, <2>2, <2>3, <2>4 DEF TypeOK
  <1>6. Recorded'
    <2>1. \A l \in Keys : record[l] # None => asked'[l] = asked[l] /\ asked[l] # None
      BY <1>3 DEF Recorded
    <2>3. \A l \in Keys : asked'[l] # None => Fits(asked[l])'
      BY <1>1 DEF Recorded, Fits
    <2> QED
      BY <1>1, <2>1, <2>3 DEF Recorded
  <1>7. \A p \in Requests : pc'[p] # "reserve" =>
           /\ pc'[p] = pc[p] /\ key'[p] = key[p]
           /\ pc[p] # "idle" => /\ Asked(p)' = Asked(p)
                                /\ RowHeld(p)' = RowHeld(p)
                                /\ VersionExpected(p)' = VersionExpected(p)
    BY <1>1, <1>2 DEF Asked, RowHeld, Usable, Demotable, VersionExpected
  <1>8. AtStep' /\ Locks'
    BY <1>1, <1>7 DEF AtStep, Locks, InTransaction, RowLock
  <1>9. Bounded' /\ ChangesAreSerial'
    <2>1. Done' = Done /\ \A l \in Done : asked'[l] = asked[l]
      BY <1>1, <1>3 DEF Done, Recorded
    <2> QED
      BY <1>1, <2>1 DEF Bounded, ChangesAreSerial, Done
  <1>10. OneOpenInvitation' /\ AdmittedByInvitation' /\ FounderIsOwner'
    BY <1>1 DEF OneOpenInvitation, AdmittedByInvitation, FounderIsOwner
  <1> QED
    BY <1>4, <1>6, <1>8, <1>9, <1>10

\* The bodies of the routes fit, and there is a household.
LEMMA RouteFits ==
    ASSUME IInv, NEW a \in Accounts,
           NEW b \in InviteRoute(a) \cup RevokeRoute(a) \cup RoleRoute(a) \cup AcceptRoute(a),
           Admitted(b)
    PROVE  b \in Body /\ Fits(b) /\ version # 0
  <1> USE DEF IInv
  <1>1. \A i \in Keys : invitation[i].version \in Nat
    BY DEF TypeOK, Invitation
  <1>2. \A m \in Accounts : member[m].version \in Nat
    BY DEF TypeOK, Member
  <1>3. \A i \in Keys : invitation[i].status # "absent" => version # 0
    BY DEF Recorded
  <1>4. (b.kind # "accept" /\ b.actor = a) => version # 0
    BY NoneIsNothing DEF Admitted, MayApprove, Recorded, Roles, AssignableRoles
  <1>5. CASE b \in InviteRoute(a)
    <2>1. PICK e \in Accounts, r \in AssignableRoles : b = Asks("invite", a, e, version, r)
      BY <1>5 DEF InviteRoute
    <2> QED
      BY <1>4, <2>1 DEF Asks, Body, Kinds, Fits, TypeOK
  <1>6. CASE b \in RevokeRoute(a)
    <2>1. PICK i \in Keys : /\ invitation[i].status # "absent"
                            /\ b = Asks("revoke", a, i, invitation[i].version, None)
      BY <1>6 DEF RevokeRoute
    <2> QED
      BY <1>1, <1>3, <2>1 DEF Asks, Body, Kinds, Fits
  <1>7. CASE b \in RoleRoute(a)
    <2>1. PICK m \in Accounts, r \in AssignableRoles : b = Asks("role", a, m, member[m].version, r)
      BY <1>7 DEF RoleRoute
    <2> QED
      BY <1>2, <1>4, <2>1 DEF Asks, Body, Kinds, Fits
  <1>8. CASE b \in AcceptRoute(a)
    <2>1. PICK i \in Keys : /\ invitation[i].status # "absent" /\ invitation[i].email = a
                            /\ b = Asks("accept", a, i, 1, None)
      BY <1>8 DEF AcceptRoute, Recorded, TypeOK
    <2> QED
      BY <1>3, <2>1 DEF Asks, Body, Kinds, Fits
  <1> QED
    BY <1>5, <1>6, <1>7, <1>8

\* A request goes on to a step, or ends, and leaves the tables alone.
LEMMA MoveInv ==
    ASSUME IInv, NEW q \in Requests, pc[q] # "idle", NEW label \in Labels, Goes(q, label),
           UNCHANGED <<tableVars, asked>>, mailed' \in SUBSET Keys,
           \A i \in mailed' : invitation[i].status # "absent",
           label \in {"row", "household", "insert"} =>
              /\ record[key[q]] = None
              /\ \A p \in Requests \ {q} : InTransaction(p) => key[p] # key[q],
           label = "row" => Asked(q).kind # "invite",
           label = "insert" => /\ Asked(q).kind = "invite" /\ VersionExpected(q)
                               /\ \A p \in Requests \ {q} : pc[p] # "insert",
           label = "mail" => Asked(q).kind = "invite" /\ record[key[q]] # None,
           (label = "household" /\ Asked(q).kind # "invite") =>
              /\ RowHeld(q)
              /\ \A p \in Requests \ {q} : RowLock(p) => Asked(p).target # Asked(q).target
    PROVE  IInv'
  <1> USE DEF IInv
  <1>1. /\ pc'[q] = label /\ (label # "idle" => key'[q] = key[q])
        /\ \A p \in Requests \ {q} : pc'[p] = pc[p] /\ key'[p] = key[p]
        /\ UNCHANGED <<version, member, invitation, record, asked>>
    BY DEF Goes, TypeOK, tableVars
  <1>2. \A p \in Requests : pc'[p] # "idle" =>
           /\ key'[p] = key[p] /\ Asked(p)' = Asked(p) /\ RowHeld(p)' = RowHeld(p)
           /\ VersionExpected(p)' = VersionExpected(p)
    BY <1>1 DEF Asked, RowHeld, Usable, Demotable, VersionExpected
  <1>3. TypeOK'
    <2>1. pc' \in [Requests -> Labels] /\ intime' \in [Requests -> BOOLEAN]
      BY DEF Goes, TypeOK
    <2>2. key' \in [Requests -> Keys \cup {None}]
      BY DEF Goes, TypeOK
    <2>3. \A p \in Requests : pc'[p] # "idle" => key'[p] \in Keys /\ asked'[key'[p]] \in Body
      BY <1>1 DEF TypeOK
    <2>4. \A p \in Requests : pc'[p] = "mail" => record'[key'[p]].made \in Keys
      <3>1. label = "mail" => record[key[q]].made \in Keys
        BY DEF Recorded, Asked, TypeOK
      <3> QED
        BY <1>1, <3>1 DEF TypeOK
    <2> QED
      BY <1>1, <2>1, <2>2, <2>3, <2>4 DEF TypeOK
  <1>4. Recorded'
    BY <1>1 DEF Recorded, Fits
  <1>5. AtStep'
    BY <1>1, <1>2 DEF AtStep, InTransaction
  <1>6. Locks'
    BY <1>1, <1>2 DEF Locks, InTransaction, RowLock
  <1>7. Bounded' /\ ChangesAreSerial'
    BY <1>1 DEF Bounded, ChangesAreSerial, Done
  <1>8. OneOpenInvitation' /\ AdmittedByInvitation' /\ FounderIsOwner'
    BY <1>1 DEF OneOpenInvitation, AdmittedByInvitation, FounderIsOwner
  <1> QED
    BY <1>3, <1>4, <1>5, <1>6, <1>7, <1>8

\* The steps of a request that commit nothing.
LEMMA WaitingInv ==
    ASSUME IInv, NEW q \in Requests,
           \/ Reserve(q) \/ LockRow(q) \/ LockHousehold(q) \/ InvitationConflict(q)
           \/ SendInvitation(q) \/ RequestFails(q)
    PROVE  IInv'
  <1> USE DEF IInv
  <1>0. /\ mailed \in SUBSET Keys /\ \A i \in mailed : invitation[i].status # "absent"
        /\ {"idle", "row", "household", "insert", "mail"} \subseteq Labels
    BY DEF TypeOK, Recorded, Labels
  <1>1. pc[q] # "idle"
    BY DEF Reserve, LockRow, LockHousehold, InvitationConflict, SendInvitation, RequestFails
  <1>2. key[q] \in Keys /\ Asked(q) \in Body
    BY <1>1 DEF TypeOK, Asked
  <1>3. CASE Reserve(q)
    <2>1. /\ \A p \in Requests : ~(InTransaction(p) /\ key[p] = key[q])
          /\ UNCHANGED <<tableVars, asked, mailed>>
      BY <1>3 DEF Reserve
    <2>2. CASE Found(q)
      BY <1>0, <1>1, <1>3, <2>1, <2>2, MoveInv DEF Reserve, Answers, Found
    <2>3. CASE ~Found(q)
      <3>1. PICK label \in {"household", "row"} :
               Goes(q, label) /\ (label = "household" <=> Asked(q).kind = "invite")
        BY <1>3, <2>3 DEF Reserve
      <3> QED
        BY <1>0, <1>1, <2>1, <2>3, <3>1, MoveInv DEF Found
    <2> QED
      BY <2>2, <2>3
  <1>4. CASE LockRow(q)
    <2>1. /\ pc[q] = "row" /\ ~RowLocked(q) /\ UNCHANGED <<tableVars, asked, mailed>>
      BY <1>4 DEF LockRow
    <2>2. CASE ~RowCurrent(q)
      BY <1>0, <1>1, <1>4, <2>1, <2>2, MoveInv DEF LockRow
    <2>3. CASE RowCurrent(q)
      <3>1. Asked(q).kind \in {"revoke", "role", "accept"}
        BY <1>2, <2>1 DEF AtStep, Body, Kinds
      <3>2. RowHeld(q)
        BY <2>3, <3>1 DEF RowCurrent, RowHeld, Acceptable
      <3>3. \A p \in Requests \ {q} : RowLock(p) => Asked(p).target # Asked(q).target
        BY <2>1 DEF RowLocked, RowLock
      <3>4. /\ record[key[q]] = None
            /\ \A p \in Requests \ {q} : InTransaction(p) => key[p] # key[q]
        BY <2>1 DEF AtStep, Locks, InTransaction
      <3>5. Goes(q, "household")
        BY <1>4, <2>3 DEF LockRow
      <3> QED
        BY <1>0, <1>1, <2>1, <3>2, <3>3, <3>4, <3>5, MoveInv
    <2> QED
      BY <2>2, <2>3
  <1>5. CASE LockHousehold(q)
    <2>1. /\ pc[q] = "household" /\ Asked(q).kind = "invite" /\ ~HouseholdLocked(q)
          /\ UNCHANGED <<tableVars, asked, mailed>>
      BY <1>5 DEF LockHousehold
    <2>2. CASE ~VersionExpected(q)
      BY <1>0, <1>1, <1>5, <2>1, <2>2, MoveInv DEF LockHousehold
    <2>3. CASE VersionExpected(q)
      <3>1. \A p \in Requests \ {q} : pc[p] # "insert"
        BY <2>1 DEF HouseholdLocked
      <3>2. /\ record[key[q]] = None
            /\ \A p \in Requests \ {q} : InTransaction(p) => key[p] # key[q]
        BY <2>1 DEF AtStep, Locks, InTransaction
      <3>3. Goes(q, "insert")
        BY <1>5, <2>3 DEF LockHousehold
      <3> QED
        BY <1>0, <1>1, <2>1, <2>3, <3>1, <3>2, <3>3, MoveInv
    <2> QED
      BY <2>2, <2>3
  <1>6. CASE InvitationConflict(q)
    BY <1>0, <1>1, <1>6, MoveInv DEF InvitationConflict
  <1>7. CASE SendInvitation(q)
    <2>1. record[key[q]].made \in Keys /\ invitation[record[key[q]].made].status # "absent"
      BY <1>2, <1>7 DEF SendInvitation, AtStep, Recorded, Asked
    <2>2. /\ mailed' \in SUBSET Keys /\ \A i \in mailed' : invitation[i].status # "absent"
          /\ Goes(q, "idle") /\ UNCHANGED <<tableVars, asked>>
      BY <1>0, <1>7, <2>1 DEF SendInvitation
    <2> QED
      BY <1>0, <1>1, <2>2, MoveInv
  <1>8. CASE RequestFails(q)
    BY <1>0, <1>1, <1>8, MoveInv DEF RequestFails
  <1> QED
    BY <1>3, <1>4, <1>5, <1>6, <1>7, <1>8

\* Of a deadlock, either request ends.
LEMMA DeadlockInv ==
    ASSUME IInv, NEW q \in Requests, NEW p \in Requests, DeadlockDetected(q, p)
    PROVE  IInv'
  <1>1. pc[p] # "idle" /\ Goes(p, "idle") /\ UNCHANGED <<tableVars, asked, mailed>>
    BY DEF DeadlockDetected, Deadlocked
  <1>2. mailed \in SUBSET Keys /\ \A i \in mailed : invitation[i].status # "absent"
    BY DEF IInv, TypeOK, Recorded
  <1> QED
    BY <1>1, <1>2, MoveInv DEF Labels

-----------------------------------------------------------------------------
(* Commits                                                                   *)

\* A transaction that commits: what its change has to keep of members, invitations
\* and locked rows.
LEMMA CommitInv ==
    ASSUME IInv, NEW q \in Requests, RowLock(q) \/ pc[q] = "insert", ~HouseholdLocked(q),
           NEW i \in Keys \cup {None}, Commits(q, i), UNCHANGED <<asked, mailed>>,
           Asked(q).kind = "invite" <=> pc[q] = "insert",
           pc[q] = "insert" => i = key[q] /\ invitation'[i].status # "absent",
           member' \in [Accounts -> Member],
           invitation' \in [Keys -> Invitation],
           \A j \in Keys : invitation[j].status # "absent" =>
               invitation'[j].status # "absent" /\ invitation'[j].email = invitation[j].email,
           \A j \in Keys : invitation'[j].status # "absent" =>
               invitation'[j].role \in AssignableRoles /\ (invitation[j].status # "absent" \/ j = key[q]),
           \A p \in Requests \ {q} : (RowLock(p) /\ key'[p] = key[p]) => RowHeld(p)',
           OneOpenInvitation', AdmittedByInvitation',
           \A a \in Accounts : member'[a].role = "Owner" <=> member[a].role = "Owner"
    PROVE  IInv'
  <1> USE DEF IInv
  <1> DEFINE k == key[q]
             r == [version |-> version', made |-> i]
             label == IF Asked(q).kind = "invite" THEN "mail" ELSE "idle"
  <1>1. /\ InTransaction(q) /\ k \in Keys /\ asked[k] \in Body /\ record[k] = None
        /\ k # None /\ asked[k] # None
    BY NoneIsNothing DEF RowLock, InTransaction, AtStep, TypeOK
  <1>2. version \in Nat /\ version' = version + 1 /\ version # 0 /\ version' \in Nat
    BY <1>1 DEF Commits, TypeOK, Recorded
  <1>3. r \in Response /\ r # None
    BY <1>2, NoneIsNothing DEF Response
  <1>4. /\ record'[k] = r /\ \A l \in Keys \ {k} : record'[l] = record[l]
        /\ record' \in [Keys -> Response \cup {None}]
    BY <1>1, <1>3 DEF Commits, TypeOK
  <1>5. Goes(q, label)
    BY DEF Commits, Answers
  <1>6. /\ pc'[q] = label /\ (label # "idle" => key'[q] = k)
        /\ \A p \in Requests \ {q} : pc'[p] = pc[p] /\ key'[p] = key[p] /\ Asked(p)' = Asked(p)
    BY <1>5 DEF Goes, TypeOK, Asked
  <1>7. \A p \in Requests \ {q} : pc[p] # "insert"
    BY DEF HouseholdLocked
  <1> HIDE DEF r, label
  <1>8. TypeOK'
    <2>1. pc' \in [Requests -> Labels] /\ intime' \in [Requests -> BOOLEAN]
      BY <1>5 DEF Goes, TypeOK, Labels, label
    <2>2. key' \in [Requests -> Keys \cup {None}]
      BY <1>5 DEF Goes, TypeOK
    <2>3. \A p \in Requests : pc'[p] # "idle" => key'[p] \in Keys /\ asked'[key'[p]] \in Body
      BY <1>1, <1>6 DEF TypeOK, Asked
    <2>4. \A p \in Requests : pc'[p] = "mail" => record'[key'[p]].made \in Keys
      <3>1. pc'[q] = "mail" => record'[key'[q]].made \in Keys
        BY <1>1, <1>4, <1>6 DEF label, r
      <3>2. \A p \in Requests \ {q} : pc'[p] = "mail" => record'[key'[p]].made \in Keys
        BY <1>1, <1>4, <1>6 DEF TypeOK, AtStep
      <3> QED
        BY <3>1, <3>2
    <2> QED
      BY <1>2, <1>4, <2>1, <2>2, <2>3, <2>4 DEF TypeOK
  <1>9. Recorded'
    <2>1. \A l \in Keys : asked'[l] # None => Fits(asked[l])'
      BY DEF Recorded, Fits
    <2>2. \A l \in Keys : (record'[l] # None /\ asked'[l].kind = "invite") =>
             record'[l].made = l /\ invitation'[l].status # "absent"
      BY <1>1, <1>4 DEF Recorded, Asked, r
    <2>3. \A l \in Keys : record'[l] = None => invitation'[l].status = "absent"
      BY <1>1, <1>3, <1>4 DEF Recorded
    <2>4. \A l \in Keys : record'[l] # None => asked'[l] # None
      BY <1>1, <1>4 DEF Recorded
    <2>5. \A j \in mailed' : invitation'[j].status # "absent"
      BY DEF Recorded, TypeOK
    <2> QED
      BY <1>2, <2>1, <2>2, <2>3, <2>4, <2>5 DEF Recorded
  <1>10. \A p \in Requests \ {q} : InTransaction(p) => key[p] # k
    BY <1>1 DEF Locks
  <1>11. AtStep'
    <2> SUFFICES ASSUME NEW p \in Requests
                 PROVE  /\ InTransaction(p)' => record'[key'[p]] = None
                        /\ pc'[p] = "row" => Asked(p)'.kind # "invite"
                        /\ pc'[p] = "insert" => Asked(p)'.kind = "invite" /\ VersionExpected(p)'
                        /\ pc'[p] = "mail" => Asked(p)'.kind = "invite" /\ record'[key'[p]] # None
                        /\ (pc'[p] = "household" /\ Asked(p)'.kind # "invite") => RowHeld(p)'
      BY DEF AtStep
    <2>1. CASE p = q
      BY <1>1, <1>3, <1>4, <1>6, <2>1 DEF InTransaction, label, Asked
    <2>2. CASE p # q
      <3>1. InTransaction(p)' => InTransaction(p) /\ key[p] \in Keys
        BY <1>6, <2>2 DEF InTransaction, TypeOK
      <3>2. InTransaction(p)' => record'[key'[p]] = None
        BY <1>4, <1>6, <1>10, <2>2, <3>1 DEF AtStep
      <3>3. pc'[p] = "mail" => record'[key'[p]] # None
        BY <1>1, <1>4, <1>6, <2>2 DEF AtStep, TypeOK
      <3> QED
        BY <1>6, <1>7, <2>2, <3>2, <3>3 DEF AtStep, RowLock
    <2> QED
      BY <2>1, <2>2
  <1>12. Locks'
    <2>1. ~InTransaction(q)' /\ ~RowLock(q)' /\ pc'[q] # "insert"
      BY <1>6 DEF InTransaction, RowLock, label
    <2>2. \A p \in Requests \ {q} :
             InTransaction(p)' = InTransaction(p) /\ RowLock(p)' = RowLock(p)
      BY <1>6 DEF InTransaction, RowLock
    <2> QED
      BY <1>6, <2>1, <2>2 DEF Locks
  <1>13. Done' = Done \cup {k} /\ k \notin Done
    BY <1>1, <1>3, <1>4 DEF Done
  <1>14. \A l \in Done : record'[l] = record[l] /\ record[l].version <= version /\ record[l].version \in Nat
    BY <1>4, <1>13 DEF Bounded, Done, TypeOK, Response
  <1>15. record'[k].version = version + 1
    BY <1>2, <1>4 DEF r
  <1>16. Bounded'
    BY <1>2, <1>13, <1>14, <1>15 DEF Bounded
  <1>17. ChangesAreSerial'
    <2>1. Cardinality(Done') = Cardinality(Done) + 1 /\ Cardinality(Done) \in Nat
      BY <1>13, DoneIsFinite, FS_AddElement
    <2>2. version' = 1 + Cardinality(Done')
      BY <1>2, <2>1 DEF ChangesAreSerial
    <2>3. \A l, m \in Done' : record'[l].version = record'[m].version => l = m
      BY <1>2, <1>13, <1>14, <1>15 DEF ChangesAreSerial
    <2>4. \A l \in Done' : asked'[l].kind = "invite" => record'[l].version = asked'[l].version + 1
      <3>1. asked[k].kind = "invite" => asked[k].version = version
        BY DEF AtStep, VersionExpected, Asked
      <3> QED
        BY <1>13, <1>14, <1>15, <3>1 DEF ChangesAreSerial
    <2> QED
      BY <2>2, <2>3, <2>4 DEF ChangesAreSerial
  <1>18. FounderIsOwner'
    BY <1>2 DEF FounderIsOwner
  <1> QED
    BY <1>8, <1>9, <1>11, <1>12, <1>16, <1>17, <1>18

\* What a request that has locked its row, and waits for the household's, knows.
LEMMA Held ==
    ASSUME IInv, NEW q \in Requests, RowLock(q)
    PROVE  /\ key[q] \in Keys /\ Asked(q) \in Body /\ Fits(Asked(q)) /\ RowHeld(q)
           /\ Asked(q).kind \in {"revoke", "role", "accept"} /\ version # 0
           /\ pc[q] # "insert"
  <1> USE DEF IInv
  <1>1. key[q] \in Keys /\ Asked(q) \in Body /\ Asked(q) # None
    BY NoneIsNothing DEF RowLock, TypeOK, Asked
  <1>2. Fits(Asked(q)) /\ version # 0
    BY <1>1 DEF Recorded, Asked
  <1>3. RowHeld(q) /\ pc[q] # "insert"
    BY DEF AtStep, RowLock
  <1> QED
    BY <1>1, <1>2, <1>3 DEF RowLock, Body, Kinds

\* An invitation that is closed was open.
LEMMA ClosedType ==
    ASSUME IInv, NEW i \in Keys, invitation[i].status = "open",
           NEW status \in {"accepted", "revoked"}, invitation' = Closed(i, status)
    PROVE  /\ invitation' \in [Keys -> Invitation]
           /\ invitation'[i].status = status /\ invitation'[i].email = invitation[i].email
           /\ invitation'[i].role = invitation[i].role
           /\ \A j \in Keys \ {i} : invitation'[j] = invitation[j]
           /\ OneOpenInvitation'
  <1> USE DEF IInv, TypeOK, Closed
  <1>1. [invitation[i] EXCEPT !.status = status, !.version = @ + 1] \in Invitation
    BY DEF Invitation
  <1>2. /\ invitation' \in [Keys -> Invitation]
        /\ invitation'[i].status = status /\ invitation'[i].email = invitation[i].email
        /\ invitation'[i].role = invitation[i].role
        /\ \A j \in Keys \ {i} : invitation'[j] = invitation[j]
    BY <1>1 DEF Invitation
  <1>3. OneOpenInvitation'
    BY <1>2 DEF OneOpenInvitation
  <1> QED
    BY <1>2, <1>3

\* A revocation closes the invitation whose row it has locked.
LEMMA RevokeInv ==
    ASSUME IInv, NEW q \in Requests, RevokeMembershipInvitation(q)
    PROVE  IInv'
  <1> USE DEF IInv
  <1> DEFINE i == Asked(q).target
  <1>1. /\ RowLock(q) /\ ~HouseholdLocked(q) /\ Asked(q).kind = "revoke"
        /\ invitation' = Closed(i, "revoked") /\ Commits(q, None)
        /\ UNCHANGED <<member, mailed, asked>>
    BY DEF RevokeMembershipInvitation, RowLock
  <1>2. i \in Keys /\ invitation[i].status = "open" /\ pc[q] # "insert"
    BY <1>1, Held DEF Fits, RowHeld, Usable
  <1> HIDE DEF i
  <1>3. /\ invitation' \in [Keys -> Invitation]
        /\ invitation'[i].status = "revoked" /\ invitation'[i].email = invitation[i].email
        /\ invitation'[i].role = invitation[i].role
        /\ \A j \in Keys \ {i} : invitation'[j] = invitation[j]
        /\ OneOpenInvitation'
    BY <1>1, <1>2, ClosedType
  <1>4. AdmittedByInvitation'
    <2>1. \A a : {j \in Keys : invitation'[j].status = "accepted" /\ invitation'[j].email = a}
                 = {j \in Keys : invitation[j].status = "accepted" /\ invitation[j].email = a}
      BY <1>2, <1>3
    <2>2. member' = member
      BY <1>1
    <2> QED
      BY <2>1, <2>2 DEF AdmittedByInvitation
  <1>5. ASSUME NEW p \in Requests \ {q}, RowLock(p), key'[p] = key[p] PROVE RowHeld(p)'
    <2>1. Asked(p)' = Asked(p) /\ Asked(p).target # i
      BY <1>1, <1>5 DEF Asked, Locks, i
    <2>2. Fits(Asked(p)) /\ RowHeld(p) /\ Asked(p).kind \in {"revoke", "role", "accept"}
      BY <1>5, Held
    <2> QED
      BY <1>1, <1>3, <2>1, <2>2 DEF RowHeld, Usable, Demotable, Fits
  <1>6. /\ member' \in [Accounts -> Member]
        /\ \A j \in Keys : invitation[j].status # "absent" =>
              invitation'[j].status # "absent" /\ invitation'[j].email = invitation[j].email
        /\ \A j \in Keys : invitation'[j].status # "absent" =>
              invitation'[j].role \in AssignableRoles /\ invitation[j].status # "absent"
    BY <1>1, <1>2, <1>3 DEF TypeOK, Recorded
  <1> QED
    BY <1>1, <1>2, <1>3, <1>4, <1>5, <1>6, CommitInv

\* A change of role leaves the owner and the invitations alone.
LEMMA RoleInv ==
    ASSUME IInv, NEW q \in Requests, UpdateMembershipRole(q)
    PROVE  IInv'
  <1> USE DEF IInv
  <1> DEFINE m == Asked(q).target
             n == [role |-> Asked(q).role, version |-> member[m].version + 1]
  <1>1. /\ RowLock(q) /\ ~HouseholdLocked(q) /\ Asked(q).kind = "role"
        /\ member' = [member EXCEPT ![m] = n] /\ Commits(q, None)
        /\ UNCHANGED <<invitation, mailed, asked>>
    BY DEF UpdateMembershipRole, RowLock
  <1>2. /\ m \in Accounts /\ Asked(q).role \in AssignableRoles
        /\ member[m].role \notin {"Owner", None} /\ pc[q] # "insert"
    BY <1>1, Held DEF Fits, RowHeld, Demotable
  <1>3. n \in Member
    BY <1>2 DEF TypeOK, Member, Roles
  <1>4. /\ member' \in [Accounts -> Member] /\ member'[m].role \in AssignableRoles
        /\ \A a \in Accounts \ {m} : member'[a] = member[a]
    BY <1>1, <1>2, <1>3 DEF TypeOK
  <1>5. member'[m].role \notin {"Owner", None}
    BY <1>4, NoneIsNothing DEF AssignableRoles, Roles
  <1> HIDE DEF m, n
  <1>6. \A a \in Accounts : /\ member'[a].role = "Owner" <=> member[a].role = "Owner"
                            /\ member'[a].role = None <=> member[a].role = None
    BY <1>2, <1>4, <1>5
  <1>7. OneOpenInvitation' /\ AdmittedByInvitation'
    BY <1>1, <1>6 DEF OneOpenInvitation, AdmittedByInvitation
  <1>8. ASSUME NEW p \in Requests \ {q}, RowLock(p), key'[p] = key[p] PROVE RowHeld(p)'
    <2>1. Asked(p)' = Asked(p) /\ Asked(p).target # m
      BY <1>1, <1>8 DEF Asked, Locks, m
    <2>2. /\ Asked(p) \in Body /\ Fits(Asked(p)) /\ RowHeld(p)
          /\ Asked(p).kind \in {"revoke", "role", "accept"}
      BY <1>8, Held
    <2>3. Asked(p).kind = "accept" => member'[Asked(p).actor].role = None
      BY <1>6, <2>2 DEF RowHeld, Body
    <2>4. Asked(p).kind = "role" => member'[Asked(p).target] = member[Asked(p).target]
      BY <1>4, <2>1, <2>2 DEF Fits
    <2> QED
      BY <1>1, <2>1, <2>2, <2>3, <2>4 DEF RowHeld, Usable, Demotable
  <1>9. /\ invitation' \in [Keys -> Invitation]
        /\ \A j \in Keys : invitation'[j].status # "absent" =>
              invitation'[j].role \in AssignableRoles /\ invitation[j].status # "absent"
    BY <1>1 DEF TypeOK, Recorded
  <1> QED
    BY <1>1, <1>2, <1>4, <1>6, <1>7, <1>8, <1>9, CommitInv

\* The account that accepts is no member, and its one open invitation is used up.
LEMMA AcceptInv ==
    ASSUME IInv, NEW q \in Requests, AcceptMembershipInvitation(q)
    PROVE  IInv'
  <1> USE DEF IInv
  <1> DEFINE i == Asked(q).target
             a == Asked(q).actor
             n == [role |-> invitation[i].role, version |-> 1]
  <1>1. /\ RowLock(q) /\ ~HouseholdLocked(q) /\ Asked(q).kind = "accept"
        /\ member' = [member EXCEPT ![a] = n]
        /\ invitation' = Closed(i, "accepted") /\ Commits(q, None)
        /\ UNCHANGED <<mailed, asked>>
    BY DEF AcceptMembershipInvitation, RowLock
  <1>2. /\ i \in Keys /\ invitation[i].status = "open" /\ invitation[i].email = a
        /\ a \in Accounts /\ member[a].role = None /\ version # 0 /\ pc[q] # "insert"
    BY <1>1, Held DEF Fits, RowHeld, Usable, Body
  <1>3. a # Founder
    BY <1>2, NoneIsNothing DEF FounderIsOwner, TypeOK, Roles
  <1>4. invitation[i].role \in AssignableRoles
    BY <1>2 DEF Recorded
  <1>5. n \in Member
    BY <1>4 DEF Member, Roles
  <1>6. /\ member' \in [Accounts -> Member] /\ member'[a].role \in AssignableRoles
        /\ \A c \in Accounts \ {a} : member'[c] = member[c]
    BY <1>1, <1>2, <1>4, <1>5 DEF TypeOK
  <1>7. member'[a].role \notin {"Owner", None}
    BY <1>6, NoneIsNothing DEF AssignableRoles, Roles
  <1> HIDE DEF i, a, n
  <1>8. /\ invitation' \in [Keys -> Invitation]
        /\ invitation'[i].status = "accepted" /\ invitation'[i].email = invitation[i].email
        /\ invitation'[i].role = invitation[i].role
        /\ \A j \in Keys \ {i} : invitation'[j] = invitation[j]
        /\ OneOpenInvitation'
    BY <1>1, <1>2, ClosedType
  <1>9. \A c \in Accounts : member'[c].role = "Owner" <=> member[c].role = "Owner"
    BY <1>2, <1>6, <1>7, NoneIsNothing DEF Roles
  <1>10. AdmittedByInvitation'
    <2> DEFINE was(c) == {j \in Keys : invitation[j].status = "accepted" /\ invitation[j].email = c}
               is(c) == {j \in Keys : invitation'[j].status = "accepted" /\ invitation'[j].email = c}
    <2>1. is(a) = was(a) \cup {i}
      BY <1>2, <1>8
    <2>2. \A c \in Accounts \ {a} : is(c) = was(c)
      BY <1>2, <1>8
    <2>3. was(a) = {}
      BY <1>2, <1>3 DEF AdmittedByInvitation
    <2>4. \A c \in Accounts \ {Founder, a} :
             IF member'[c].role = None THEN is(c) = {} ELSE \E j \in is(c) : is(c) = {j}
      BY <1>6, <2>2 DEF AdmittedByInvitation
    <2>5. i \in is(a) /\ is(a) = {i}
      BY <2>1, <2>3
    <2> HIDE DEF was, is
    <2>6. \A c \in Accounts \ {Founder} :
             IF member'[c].role = None THEN is(c) = {} ELSE \E j \in is(c) : is(c) = {j}
      BY <1>7, <2>4, <2>5
    <2> QED
      BY <2>6 DEF AdmittedByInvitation, is
  <1>11. ASSUME NEW p \in Requests \ {q}, RowLock(p), key'[p] = key[p] PROVE RowHeld(p)'
    <2>1. Asked(p)' = Asked(p) /\ Asked(p).target # i
      BY <1>1, <1>11 DEF Asked, Locks, i
    <2>2. /\ Asked(p) \in Body /\ Fits(Asked(p)) /\ RowHeld(p)
          /\ Asked(p).kind \in {"revoke", "role", "accept"}
      BY <1>11, Held
    <2>3. CASE Asked(p).kind = "accept"
      <3>1. Asked(p).target \in Keys /\ invitation[Asked(p).target].status = "open"
            /\ invitation[Asked(p).target].email = Asked(p).actor
        BY <2>2, <2>3 DEF RowHeld, Usable, Fits
      <3>2. Asked(p).actor # a
        BY <1>2, <2>1, <3>1 DEF OneOpenInvitation
      <3>3. Asked(p).actor \in Accounts \ {a}
        BY <2>2, <3>2 DEF Body
      <3> QED
        BY <1>6, <1>8, <2>1, <2>2, <2>3, <3>1, <3>3 DEF RowHeld, Usable
    <2>4. CASE Asked(p).kind = "role"
      <3>1. Asked(p).target \in Accounts /\ Asked(p).target # a
        BY <1>2, <2>2, <2>4 DEF RowHeld, Demotable, Fits
      <3> QED
        BY <1>6, <2>1, <2>2, <2>4, <3>1 DEF RowHeld, Demotable
    <2>5. CASE Asked(p).kind = "revoke"
      BY <1>8, <2>1, <2>2, <2>5 DEF RowHeld, Usable, Fits
    <2> QED
      BY <2>2, <2>3, <2>4, <2>5
  <1>12. /\ \A j \in Keys : invitation[j].status # "absent" =>
               invitation'[j].status # "absent" /\ invitation'[j].email = invitation[j].email
         /\ \A j \in Keys : invitation'[j].status # "absent" =>
               invitation'[j].role \in AssignableRoles /\ invitation[j].status # "absent"
    BY <1>2, <1>8 DEF Recorded
  <1> QED
    BY <1>1, <1>2, <1>6, <1>8, <1>9, <1>10, <1>11, <1>12, CommitInv

\* The address of a new invitation is free, and nothing refers to the new row.
LEMMA InsertInv ==
    ASSUME IInv, NEW q \in Requests, InsertInvitation(q)
    PROVE  IInv'
  <1> USE DEF IInv
  <1> DEFINE k == key[q]
             b == Asked(q)
             r == [status |-> "open", email |-> b.target, role |-> b.role, version |-> 1,
                   expired |-> FALSE]
  <1>1. /\ pc[q] = "insert" /\ ~Taken(b.target) /\ invitation' = [invitation EXCEPT ![k] = r]
        /\ Commits(q, k) /\ UNCHANGED <<member, mailed, asked>>
    BY DEF InsertInvitation
  <1>2. k \in Keys /\ b \in Body /\ b.kind = "invite" /\ b # None
    BY <1>1, NoneIsNothing DEF TypeOK, AtStep, Asked
  <1>3. b.target \in Accounts /\ b.role \in AssignableRoles
    BY <1>2 DEF Recorded, Fits, Asked
  <1>4. invitation[k].status = "absent"
    BY <1>1, <1>2 DEF AtStep, InTransaction, Recorded
  <1>5. r \in Invitation
    BY <1>3 DEF Invitation
  <1>6. /\ invitation' \in [Keys -> Invitation] /\ invitation'[k] = r
        /\ \A j \in Keys \ {k} : invitation'[j] = invitation[j]
    BY <1>1, <1>2, <1>5 DEF TypeOK
  <1>7. r.status = "open" /\ r.email = b.target /\ r.role = b.role
    OBVIOUS
  <1>8. \A j \in Keys : invitation[j].status = "open" => invitation[j].email # b.target
    BY <1>1 DEF Taken, Open
  <1> HIDE DEF k, b, r
  <1>9. OneOpenInvitation'
    BY <1>6, <1>7, <1>8 DEF OneOpenInvitation
  <1>10. AdmittedByInvitation'
    <2>1. \A a : {j \in Keys : invitation'[j].status = "accepted" /\ invitation'[j].email = a}
                 = {j \in Keys : invitation[j].status = "accepted" /\ invitation[j].email = a}
      BY <1>4, <1>6, <1>7
    <2> QED
      BY <1>1, <2>1 DEF AdmittedByInvitation
  <1>11. ASSUME NEW p \in Requests \ {q}, RowLock(p), key'[p] = key[p] PROVE RowHeld(p)'
    <2>1. Asked(p)' = Asked(p)
      BY <1>1, <1>11 DEF Asked
    <2>2. Fits(Asked(p)) /\ RowHeld(p) /\ Asked(p).kind \in {"revoke", "role", "accept"}
      BY <1>11, Held
    <2>3. Asked(p).kind \in {"revoke", "accept"} =>
             invitation'[Asked(p).target] = invitation[Asked(p).target]
      BY <1>4, <1>6, <2>2 DEF Fits
    <2> QED
      BY <1>1, <2>1, <2>2, <2>3 DEF RowHeld, Usable, Demotable
  <1>12. /\ \A j \in Keys : invitation[j].status # "absent" =>
               invitation'[j].status # "absent" /\ invitation'[j].email = invitation[j].email
         /\ \A j \in Keys : invitation'[j].status # "absent" =>
               /\ invitation'[j].role \in AssignableRoles
               /\ invitation[j].status # "absent" \/ j = k
         /\ invitation'[k].status # "absent"
    BY <1>2, <1>3, <1>4, <1>6, <1>7 DEF Recorded
  <1>13. ~HouseholdLocked(q)
    BY <1>1 DEF HouseholdLocked, Locks
  <1>14. member' \in [Accounts -> Member]
    BY <1>1 DEF TypeOK
  <1> QED
    BY <1>1, <1>2, <1>6, <1>9, <1>10, <1>11, <1>12, <1>13, <1>14, CommitInv DEF k, b

-----------------------------------------------------------------------------
(* The theorems                                                              *)

\* Every step keeps the inductive invariant.
LEMMA StepInv == IInv /\ [Next]_vars => IInv'
  <1> SUFFICES ASSUME IInv, [Next]_vars PROVE IInv'
    OBVIOUS
  <1>1. CASE UNCHANGED vars
    BY <1>1 DEF vars, IInv, TypeOK, Recorded, Fits, AtStep, InTransaction, Asked, VersionExpected,
       RowHeld, Usable, Demotable, Locks, RowLock, Bounded, Done, ChangesAreSerial,
       OneOpenInvitation, AdmittedByInvitation, FounderIsOwner
  <1>2. CASE CreateHousehold
    BY <1>2, CreateInv
  <1>3. CASE \E i \in Keys : Expire(i)
    BY <1>3, ExpireInv
  <1>4. ASSUME NEW q \in Requests, NEW k \in Keys, Ask(q, k) PROVE IInv'
    <2>1. asked[k] = None
      BY <1>4 DEF Ask
    <2>2. PICK a \in Accounts :
            \E b \in InviteRoute(a) \cup RevokeRoute(a) \cup RoleRoute(a) \cup AcceptRoute(a) :
               Begin(q, k, b)
      BY <1>4 DEF Ask
    <2>3. PICK b \in InviteRoute(a) \cup RevokeRoute(a) \cup RoleRoute(a) \cup AcceptRoute(a) :
            Begin(q, k, b) /\ Admitted(b)
      BY <2>2 DEF Begin
    <2>4. b \in Body /\ Fits(b) /\ version # 0
      BY <2>3, RouteFits
    <2> QED
      BY <2>1, <2>3, <2>4, BeginInv
  <1>5. ASSUME NEW q \in Requests, NEW k \in Keys, Repeat(q, k) PROVE IInv'
    <2>1. asked[k] # None /\ Begin(q, k, asked[k])
      BY <1>5 DEF Repeat
    <2>2. asked[k] \in Body /\ Fits(asked[k]) /\ version # 0
      BY <2>1 DEF IInv, TypeOK, Recorded
    <2> QED
      BY <2>1, <2>2, BeginInv
  <1>6. ASSUME NEW q \in Requests, RequestStep(q) \/ RequestFails(q) PROVE IInv'
    BY <1>6, WaitingInv, RevokeInv, RoleInv, AcceptInv, InsertInv DEF RequestStep
  <1>7. ASSUME NEW q \in Requests, NEW p \in Requests, DeadlockDetected(q, p) PROVE IInv'
    BY <1>7, DeadlockInv
  <1> QED
    BY <1>1, <1>2, <1>3, <1>4, <1>5, <1>6, <1>7 DEF Next

\* The inductive invariant holds of every run of createHouseholdForAccount and the
\* invitation and membership transactions.
THEOREM Invariance == Spec => []IInv
  BY InitInv, StepInv, PTL DEF Spec

\* Rows, records and requests keep their types.
THEOREM Typed == Spec => []TypeOK
  <1>1. IInv => TypeOK
    BY DEF IInv
  <1> QED
    BY <1>1, Invariance, PTL

\* Repetitions of a request under its idempotency key change the household once,
\* and invitations are made for the version their inviter saw.
THEOREM ChangedOnce == Spec => []ChangesAreSerial
  <1>1. IInv => ChangesAreSerial
    BY DEF IInv
  <1> QED
    BY <1>1, Invariance, PTL

\* The unique index and the locks of revocations and acceptances leave one open
\* invitation for an address.
THEOREM OneInvitation == Spec => []OneOpenInvitation
  <1>1. IInv => OneOpenInvitation
    BY DEF IInv
  <1> QED
    BY <1>1, Invariance, PTL

\* acceptMembershipInvitation admits an account once, by an invitation to it.
THEOREM Admission == Spec => []AdmittedByInvitation
  <1>1. IInv => AdmittedByInvitation
    BY DEF IInv
  <1> QED
    BY <1>1, Invariance, PTL

\* No invitation, acceptance or change of role makes or demotes an owner.
THEOREM OneOwner == Spec => []FounderIsOwner
  <1>1. IInv => FounderIsOwner
    BY DEF IInv
  <1> QED
    BY <1>1, Invariance, PTL

\* A closed invitation is never written: whoever commits holds the lock of one that
\* is still open.
THEOREM ClosedInvitations == Spec => ClosedIsFinal
  <1> DEFINE Kept == \A i \in Keys : invitation[i].status \in {"accepted", "revoked"} =>
                        invitation'[i] = invitation[i]
  <1>1. ASSUME IInv, Next PROVE Kept
    <2> USE DEF IInv
    <2>1. CASE CreateHousehold
      BY <2>1 DEF CreateHousehold
    <2>2. CASE \E i \in Keys : Expire(i)
      BY <2>2 DEF Expire, TypeOK
    <2>3. ASSUME NEW q \in Requests, NEW k \in Keys, Ask(q, k) \/ Repeat(q, k) PROVE Kept
      BY <2>3 DEF Ask, Repeat, Begin, tableVars
    <2>4. ASSUME NEW q \in Requests, RevokeMembershipInvitation(q) \/ AcceptMembershipInvitation(q)
          PROVE  Kept
      <3>1. RowLock(q)
        BY <2>4 DEF RevokeMembershipInvitation, AcceptMembershipInvitation, RowLock
      <3>2. Asked(q).target \in Keys /\ invitation[Asked(q).target].status = "open"
        BY <1>1, <2>4, <3>1, Held
           DEF RevokeMembershipInvitation, AcceptMembershipInvitation, Fits, RowHeld, Usable
      <3> QED
        BY <1>1, <2>4, <3>2 DEF RevokeMembershipInvitation, AcceptMembershipInvitation, Closed, TypeOK
    <2>5. ASSUME NEW q \in Requests, InsertInvitation(q) PROVE Kept
      <3>1. key[q] \in Keys /\ invitation[key[q]].status = "absent"
        BY <1>1, <2>5 DEF InsertInvitation, AtStep, InTransaction, Recorded, TypeOK
      <3> QED
        BY <1>1, <2>5, <3>1 DEF InsertInvitation, TypeOK
    <2>6. ASSUME NEW q \in Requests,
                 \/ Reserve(q) \/ LockRow(q) \/ UpdateMembershipRole(q) \/ LockHousehold(q)
                 \/ InvitationConflict(q) \/ SendInvitation(q) \/ RequestFails(q)
                 \/ \E p \in Requests : DeadlockDetected(q, p)
          PROVE  Kept
      BY <2>6 DEF Reserve, LockRow, UpdateMembershipRole, LockHousehold, InvitationConflict,
         SendInvitation, RequestFails, DeadlockDetected, tableVars
    <2> QED
      BY <1>1, <2>1, <2>2, <2>3, <2>4, <2>5, <2>6 DEF Next, RequestStep
  <1>2. ASSUME IInv, [Next]_vars PROVE [Kept]_vars
    BY <1>1, <1>2
  <1>3. Spec => [][Kept]_vars
    BY <1>2, Invariance, PTL DEF Spec
  <1> QED
    BY <1>3 DEF ClosedIsFinal

-----------------------------------------------------------------------------
(* Refinement                                                                *)

\* A repetition changes no key, and what a new request asks for is warranted.
LEMMA AskSteps ==
    ASSUME IInv, NEW q \in Requests, NEW k \in Keys, Ask(q, k) \/ Repeat(q, k)
    PROVE  Register!Ask(k) \/ UNCHANGED Register!vars
  <1> USE DEF IInv
  <1>1. CASE Repeat(q, k)
    BY <1>1 DEF Repeat, Begin, TypeOK, tableVars, Register!vars
  <1>2. CASE Ask(q, k)
    <2>1. asked[k] = None
      BY <1>2 DEF Ask
    <2>2. PICK a \in Accounts :
            \E b \in InviteRoute(a) \cup RevokeRoute(a) \cup RoleRoute(a) \cup AcceptRoute(a) :
               Begin(q, k, b)
      BY <1>2 DEF Ask
    <2>3. PICK b \in InviteRoute(a) \cup RevokeRoute(a) \cup RoleRoute(a) \cup AcceptRoute(a) :
            Begin(q, k, b) /\ Admitted(b)
      BY <2>2 DEF Begin
    <2>4. /\ asked' = [asked EXCEPT ![k] = b] /\ asked'[k] = b /\ b # None
          /\ UNCHANGED <<version, member, invitation, mailed, record>>
      BY <2>3, RouteFits, NoneIsNothing DEF Begin, TypeOK, tableVars
    <2>5. Register!Warranted(b)
      <3>1. CASE b \in InviteRoute(a)
        BY <2>3, <3>1 DEF InviteRoute, Asks, Admitted, MayApprove, Register!Warranted
      <3>2. CASE b \in RevokeRoute(a)
        BY <2>3, <3>2 DEF RevokeRoute, Asks, Admitted, MayApprove, Register!Warranted
      <3>3. CASE b \in RoleRoute(a)
        BY <2>3, <3>3 DEF RoleRoute, Asks, Admitted, MayApprove, Register!Warranted
      <3>4. CASE b \in AcceptRoute(a)
        BY <2>3, <3>4 DEF AcceptRoute, Asks, Admitted, Acceptance, Register!Warranted
      <3> QED
        BY <3>1, <3>2, <3>3, <3>4
    <2> QED
      BY <2>1, <2>4, <2>5 DEF Register!Ask
  <1> QED
    BY <1>1, <1>2

\* A transaction that commits takes its request, for the first time.
LEMMA CommitTakes ==
    ASSUME IInv, NEW q \in Requests, InTransaction(q), NEW i, Commits(q, i),
           UNCHANGED <<mailed, asked>>
    PROVE  Register!Takes(key[q], Asked(q).kind, i)
  <1>1. asked[key[q]] # None /\ record[key[q]] = None
    BY NoneIsNothing DEF IInv, TypeOK, AtStep, InTransaction
  <1> QED
    BY <1>1 DEF Commits, Asked, Register!Takes

\* The address of a new invitation is free, and the household is as its inviter saw it.
LEMMA InsertInvites ==
    ASSUME IInv, NEW q \in Requests, InsertInvitation(q)
    PROVE  Register!Invite(key[q])
  <1>1. pc[q] = "insert" /\ Asked(q).kind = "invite" /\ VersionExpected(q)
    BY DEF InsertInvitation, IInv, AtStep
  <1>2. Register!Takes(key[q], "invite", key[q])
    BY <1>1, CommitTakes DEF InsertInvitation, InTransaction
  <1>3. ~\E i \in Keys : /\ invitation[i].status = "open"
                         /\ invitation[i].email = asked[key[q]].target
    BY DEF InsertInvitation, Taken, Open, Asked
  <1> QED
    BY <1>1, <1>2, <1>3 DEF InsertInvitation, VersionExpected, Asked, Register!Invite

\* The locked row of a revocation, an acceptance or a change of role is what the
\* request was made for until it commits.
LEMMA LockedTakes ==
    ASSUME IInv, NEW q \in Requests,
           \/ RevokeMembershipInvitation(q) \/ AcceptMembershipInvitation(q)
           \/ UpdateMembershipRole(q)
    PROVE  Register!Revoke(key[q]) \/ Register!Accept(key[q]) \/ Register!ChangeRole(key[q])
  <1>1. RowLock(q) /\ InTransaction(q)
    BY DEF RevokeMembershipInvitation, AcceptMembershipInvitation, UpdateMembershipRole,
       RowLock, InTransaction
  <1>2. key[q] \in Keys /\ Fits(Asked(q)) /\ RowHeld(q)
    BY <1>1, Held
  <1>3. CASE RevokeMembershipInvitation(q)
    <2>1. Register!Takes(key[q], "revoke", None)
      BY <1>1, <1>3, CommitTakes DEF RevokeMembershipInvitation
    <2>2. Usable(Asked(q))
      BY <1>2, <1>3 DEF RevokeMembershipInvitation, RowHeld
    <2> QED
      BY <1>3, <2>1, <2>2
         DEF RevokeMembershipInvitation, Closed, Usable, Asked, Register!Close, Register!Revoke
  <1>4. CASE AcceptMembershipInvitation(q)
    <2>1. Register!Takes(key[q], "accept", None)
      BY <1>1, <1>4, CommitTakes DEF AcceptMembershipInvitation
    <2>2. /\ Usable(Asked(q)) /\ member[Asked(q).actor].role = None
          /\ invitation[Asked(q).target].email = Asked(q).actor
      BY <1>2, <1>4 DEF AcceptMembershipInvitation, RowHeld, Fits
    <2> QED
      BY <1>4, <2>1, <2>2
         DEF AcceptMembershipInvitation, Closed, Usable, Asked, Register!Close, Register!Accept
  <1>5. CASE UpdateMembershipRole(q)
    <2>1. Register!Takes(key[q], "role", None)
      BY <1>1, <1>5, CommitTakes DEF UpdateMembershipRole
    <2>2. Demotable(Asked(q).target) /\ member[Asked(q).target].version = Asked(q).version
      BY <1>2, <1>5 DEF UpdateMembershipRole, RowHeld
    <2> QED
      BY <1>5, <2>1, <2>2 DEF UpdateMembershipRole, Demotable, Asked, Register!ChangeRole
  <1> QED
    BY <1>3, <1>4, <1>5

\* An e-mail goes out for an invitation that a committed response names.
LEMMA SendSteps ==
    ASSUME IInv, NEW q \in Requests, SendInvitation(q)
    PROVE  \E i \in Keys : Register!Send(i)
  <1>1. key[q] \in Keys /\ asked[key[q]].kind = "invite" /\ record[key[q]] # None
    BY DEF SendInvitation, IInv, TypeOK, AtStep, Asked
  <1>2. record[key[q]].made = key[q] /\ invitation[key[q]].status # "absent"
    BY <1>1 DEF IInv, Recorded
  <1>3. Register!Send(key[q])
    BY <1>2 DEF SendInvitation, tableVars, Register!Send
  <1> QED
    BY <1>1, <1>3

\* createHouseholdForAccount, createMembershipInvitation, revokeMembershipInvitation,
\* updateMembershipRole and acceptMembershipInvitation, with their locks, repetitions,
\* rollbacks and aborted cycles, implement the register.
THEOREM Refinement == Spec => ImplementsRegister
  <1>1. Init => Register!Init
    BY DEF Init, NoInvitation, Register!Init
  <1>2. ASSUME IInv, [Next]_vars PROVE [Register!Next]_(Register!vars)
    <2>1. CASE UNCHANGED vars
      BY <2>1 DEF vars, Register!vars
    <2>2. CASE CreateHousehold
      BY <2>2 DEF CreateHousehold, Register!Create, Register!Next
    <2>3. ASSUME NEW i \in Keys, Expire(i) PROVE Register!Next
      BY <2>3 DEF Expire, Register!Expire, Register!Next
    <2>4. ASSUME NEW q \in Requests, NEW k \in Keys, Ask(q, k) \/ Repeat(q, k)
          PROVE  [Register!Next]_(Register!vars)
      BY <1>2, <2>4, AskSteps DEF Register!Next
    <2>5. ASSUME NEW q \in Requests, InsertInvitation(q) PROVE Register!Next
      <3>1. key[q] \in Keys
        BY <1>2, <2>5 DEF InsertInvitation, IInv, TypeOK
      <3> QED
        BY <1>2, <2>5, <3>1, InsertInvites DEF Register!Next
    <2>6. ASSUME NEW q \in Requests,
                 \/ RevokeMembershipInvitation(q) \/ AcceptMembershipInvitation(q)
                 \/ UpdateMembershipRole(q)
          PROVE  Register!Next
      <3>1. key[q] \in Keys
        BY <1>2, <2>6 DEF RevokeMembershipInvitation, AcceptMembershipInvitation,
           UpdateMembershipRole, IInv, TypeOK
      <3> QED
        BY <1>2, <2>6, <3>1, LockedTakes DEF Register!Next
    <2>7. ASSUME NEW q \in Requests, SendInvitation(q) PROVE Register!Next
      BY <1>2, <2>7, SendSteps DEF Register!Next
    <2>8. ASSUME NEW q \in Requests,
                 \/ Reserve(q) \/ LockRow(q) \/ LockHousehold(q) \/ InvitationConflict(q)
                 \/ RequestFails(q) \/ \E p \in Requests : DeadlockDetected(q, p)
          PROVE  UNCHANGED Register!vars
      BY <2>8 DEF Reserve, LockRow, LockHousehold, InvitationConflict, RequestFails,
         DeadlockDetected, tableVars, Register!vars
    <2> QED
      BY <1>2, <2>1, <2>2, <2>3, <2>4, <2>5, <2>6, <2>7, <2>8 DEF Next, RequestStep
  <1> QED
    BY <1>1, <1>2, Invariance, PTL DEF Spec, Register!Spec, ImplementsRegister

-----------------------------------------------------------------------------
(* Waiting                                                                   *)

\* A request that waits for nobody: the guards of the steps of RequestStep.
WaitsForNobody(q) ==
    \/ pc[q] = "reserve" /\ \A p \in Requests : ~(InTransaction(p) /\ key[p] = key[q])
    \/ pc[q] = "row" /\ ~RowLocked(q)
    \/ pc[q] = "household" /\ ~HouseholdLocked(q)
    \/ pc[q] = "insert" /\ ~AddressLocked(q)
    \/ pc[q] = "mail"

\* An invitation and the request that is closing the one at its address wait for each
\* other: the first has the household, the second the address.
InCycle(q) ==
    /\ Deadlocked(q)
    /\ \E p \in Requests \ {q} : HouseholdLocked(p) /\ Asked(p).target \in Open(Asked(q).target)

\* Keys, rows, addresses and the household are waited for in any combination; the only
\* cycles are those of an invitation with a revocation or an acceptance.
OnlyKnownCycles ==
    (\E q \in Requests : pc[q] # "idle") => \E q \in Requests : WaitsForNobody(q) \/ InCycle(q)

\* The transactions of createMembershipInvitation, revokeMembershipInvitation,
\* updateMembershipRole and acceptMembershipInvitation never all wait, but for the cycle
\* that PostgreSQL breaks.
THEOREM NoOtherDeadlock == Spec => []OnlyKnownCycles
  <1> DEFINE Some == \E q \in Requests : WaitsForNobody(q) \/ InCycle(q)
  <1>1. ASSUME NEW q \in Requests, pc[q] = "insert" PROVE Some
    <2>1. CASE ~AddressLocked(q)
      BY <1>1, <2>1 DEF WaitsForNobody
    <2>2. CASE AddressLocked(q)
      <3>1. PICK p \in Requests : pc[p] = "household" /\ Asked(p).target \in Open(Asked(q).target)
        BY <2>2 DEF AddressLocked
      <3>2. p # q /\ HouseholdLocked(p)
        BY <1>1, <3>1 DEF HouseholdLocked
      <3> QED
        BY <1>1, <2>2, <3>1, <3>2 DEF InCycle, Deadlocked
    <2> QED
      BY <2>1, <2>2
  <1>2. ASSUME NEW q \in Requests, pc[q] = "household" PROVE Some
    BY <1>1, <1>2 DEF HouseholdLocked, WaitsForNobody
  <1>3. ASSUME NEW q \in Requests, pc[q] = "row" PROVE Some
    BY <1>2, <1>3 DEF RowLocked, WaitsForNobody
  <1>4. ASSUME NEW q \in Requests, pc[q] = "reserve" PROVE Some
    BY <1>1, <1>2, <1>3, <1>4 DEF InTransaction, WaitsForNobody
  <1>5. ASSUME NEW q \in Requests, pc[q] = "mail" PROVE Some
    BY <1>5 DEF WaitsForNobody
  <1>6. TypeOK => OnlyKnownCycles
    <2> SUFFICES ASSUME TypeOK, NEW q \in Requests, pc[q] # "idle" PROVE Some
      BY DEF OnlyKnownCycles
    <2>1. pc[q] \in Labels
      BY DEF TypeOK
    <2> QED
      BY <1>1, <1>2, <1>3, <1>4, <1>5, <2>1 DEF Labels
  <1> QED
    BY <1>6, Typed, PTL
=============================================================================
