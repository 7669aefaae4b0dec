---------------------------- MODULE MCAuditChain ----------------------------
(* The audit chain for TLC: the digest of an event is its content, and     *)
(* households and requests are numbers.                                    *)
EXTENDS AuditChain

ContentDigest(h, n, content, previousHash) == <<h, n, content, previousHash>>

\* Requests that may be about any household; with the one more that an auditor needs
\* for a second page, all are about the first.
Anywhere == 3

\* The requests come in in their order: any behavior is one of these with its requests
\* renamed, and so is its fairness.
ComeInOrder ==
    \A q \in Requests : pc[q] = "idle" /\ pc'[q] # "idle" =>
        /\ \A p \in Requests : p < q => pc[p] # "idle"
        /\ q > Anywhere => \A p \in Requests : home[p] = 1
=============================================================================
