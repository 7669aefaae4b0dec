------------------------- MODULE MembershipRegister -------------------------
(***************************************************************************)
(* What the API promises of a household's members and invitations: a       *)
(* register that is changed in one step at a time, each the whole of one   *)
(* request, once, on the state of affairs that the request was made for.   *)
(* There are no repetitions, locks, waits or failures here.                *)
(***************************************************************************)
EXTENDS Naturals

CONSTANTS Accounts, Founder, Keys, None

VARIABLES version, member, invitation, mailed, asked, record

vars == <<version, member, invitation, mailed, asked, record>>

Init ==
    /\ version = 0
    /\ member = [a \in Accounts |-> [role |-> None, version |-> 0]]
    /\ invitation = [i \in Keys |-> [status |-> "absent", email |-> None, role |-> None,
                                     version |-> 0, expired |-> FALSE]]
    /\ mailed = {}
    /\ asked = [k \in Keys |-> None]
    /\ record = [k \in Keys |-> None]

Create ==
    /\ version = 0
    /\ version' = 1
    /\ member' = [member EXCEPT ![Founder] = [role |-> "Owner", version |-> 1]]
    /\ UNCHANGED <<invitation, mailed, asked, record>>

Expire(i) ==
    /\ invitation[i].status = "open"
    /\ invitation' = [invitation EXCEPT ![i].expired = TRUE]
    /\ UNCHANGED <<version, member, mailed, asked, record>>

\* Whoever asks approves, or has the e-mail of an invitation that is not over, and
\* asks for a change of what is there.
Warranted(b) ==
    \/ /\ member[b.actor].role \in {"Owner", "CoOwner"}
       /\ \/ b.kind = "invite" /\ b.version = version
          \/ b.kind = "revoke" /\ b.version = invitation[b.target].version
          \/ b.kind = "role" /\ b.version = member[b.target].version
    \/ /\ b.kind = "accept" /\ b.target \in mailed
       /\ invitation[b.target].email = b.actor
       /\ invitation[b.target].status = "accepted" \/ ~invitation[b.target].expired

\* A key stands for one request for good.
Ask(k) ==
    /\ asked[k] = None /\ asked'[k] # None
    /\ Warranted(asked'[k])
    /\ asked' = [asked EXCEPT ![k] = asked'[k]]
    /\ UNCHANGED <<version, member, invitation, mailed, record>>

\* The request of key k has its one effect and its one response.
Takes(k, kind, made) ==
    /\ asked[k] # None
    /\ asked[k].kind = kind
    /\ record[k] = None
    /\ version' = version + 1
    /\ record' = [record EXCEPT ![k] = [version |-> version + 1, made |-> made]]
    /\ UNCHANGED <<mailed, asked>>

\* Nothing has changed since the inviter looked, and the address has no invitation.
Invite(k) ==
    /\ Takes(k, "invite", k)
    /\ asked[k].version = version
    /\ ~\E i \in Keys : /\ invitation[i].status = "open"
                        /\ invitation[i].email = asked[k].target
    /\ invitation' = [invitation EXCEPT ![k] =
           [status |-> "open", email |-> asked[k].target, role |-> asked[k].role,
            version |-> 1, expired |-> FALSE]]
    /\ UNCHANGED member

\* An open invitation is closed, as the one the request was made for.
Close(i, v, status) ==
    /\ invitation[i].status = "open"
    /\ invitation[i].version = v
    /\ invitation' = [invitation EXCEPT ![i].status = status, ![i].version = @ + 1]

Revoke(k) ==
    /\ Takes(k, "revoke", None)
    /\ Close(asked[k].target, asked[k].version, "revoked")
    /\ UNCHANGED member

Accept(k) ==
    LET a == asked[k].actor
        i == asked[k].target
    IN  /\ Takes(k, "accept", None)
        /\ Close(i, asked[k].version, "accepted")
        /\ invitation[i].email = a
        /\ member[a].role = None
        /\ member' = [member EXCEPT ![a] = [role |-> invitation[i].role, version |-> 1]]

ChangeRole(k) ==
    LET m == asked[k].target
    IN  /\ Takes(k, "role", None)
        /\ member[m].role \notin {"Owner", None}
        /\ member[m].version = asked[k].version
        /\ member' = [member EXCEPT ![m] =
                        [role |-> asked[k].role, version |-> @.version + 1]]
        /\ UNCHANGED invitation

\* Only an invitation that was made is sent.
Send(i) ==
    /\ invitation[i].status # "absent"
    /\ mailed' = mailed \cup {i}
    /\ UNCHANGED <<version, member, invitation, asked, record>>

Next ==
    \/ Create
    \/ \E k \in Keys : \/ Expire(k) \/ Ask(k) \/ Send(k)
                       \/ Invite(k) \/ Revoke(k) \/ Accept(k) \/ ChangeRole(k)

Spec == Init /\ [][Next]_vars
=============================================================================
