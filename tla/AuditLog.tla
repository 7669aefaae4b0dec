------------------------------ MODULE AuditLog ------------------------------
(***************************************************************************)
(* What the audit store promises, without locks, connections, statements   *)
(* or pages: a decision is made and written at the end of its household's  *)
(* log in one step, what is written stays, requests act on what is         *)
(* written, and an auditor is told "that is all" only when it is.          *)
(***************************************************************************)
EXTENDS Naturals

CONSTANTS Households, Requests

VARIABLES
    log,      \* the entries: household, position, request and outcome
    answer,   \* per request: what its authorization came to
    acted,    \* requests whose handler has done its work
    given,    \* per household: the entries an auditor has been given
    complete  \* households whose auditor was told that nothing follows

logVars == <<log, answer, acted, given, complete>>

Init ==
    /\ log = {}
    /\ answer = [q \in Requests |-> "none"]
    /\ acted = {}
    /\ given = [h \in Households |-> {}]
    /\ complete = {}

EntriesOf(h) == {e \in log : e.household = h}

\* The last position of a log, 0 of an empty one.
Ends(h, n) ==
    /\ n = 0 \/ \E e \in EntriesOf(h) : e.position = n
    /\ \A e \in EntriesOf(h) : e.position <= n

\* A request's only decision, at the end of the log; it is told the outcome, or
\* that something went wrong.
Decide(q, h, outcome, n) ==
    /\ answer[q] = "none"
    /\ \A e \in log : e.request # q
    /\ Ends(h, n)
    /\ log' = log \cup {[household |-> h, position |-> n + 1, request |-> q,
                         outcome |-> outcome]}
    /\ \E told \in {outcome, "error"} : answer' = [answer EXCEPT ![q] = told]
    /\ UNCHANGED <<acted, given, complete>>

\* An undecided or an allowed request comes to nothing.
Fail(q) ==
    /\ answer[q] \in {"none", "allowed"}
    /\ answer' = [answer EXCEPT ![q] = "error"]
    /\ UNCHANGED <<log, acted, given, complete>>

Act(q) ==
    /\ answer[q] = "allowed"
    /\ acted' = acted \cup {q}
    /\ UNCHANGED <<log, answer, given, complete>>

\* An auditor's allowed request is given some entries.
Read(q, h, page) ==
    /\ answer[q] = "allowed"
    /\ page \subseteq EntriesOf(h)
    /\ given' = [given EXCEPT ![h] = @ \cup page]
    /\ \/ UNCHANGED complete
       \/ given'[h] = EntriesOf(h) /\ complete' = complete \cup {h}
    /\ UNCHANGED <<log, answer, acted>>

Next ==
    \E q \in Requests :
        \/ \E h \in Households, outcome \in {"allowed", "denied"} :
             \E n \in {0} \cup {e.position : e \in log} : Decide(q, h, outcome, n)
        \/ \E h \in Households : \E page \in SUBSET EntriesOf(h) : Read(q, h, page)
        \/ Fail(q) \/ Act(q)

Spec == Init /\ [][Next]_logVars
=============================================================================
