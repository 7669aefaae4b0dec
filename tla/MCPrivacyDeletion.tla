------------------------- MODULE MCPrivacyDeletion -------------------------
(***************************************************************************)
(* Instances of PrivacyDeletion for TLC.                                   *)
(***************************************************************************)
EXTENDS PrivacyDeletion, TLC

\* Runs and turns are interchangeable in the safety runs.
Interchangeable == Permutations(Runs) \cup Permutations(Turns)

\* In the liveness run the numbered runs take the job in order: any behavior is
\* one of these with its runs renamed, and so is its fairness.
TakenInOrder ==
    \A r \in Runs : pc[r] = "idle" /\ pc'[r] # "idle" =>
        \A q \in Runs : q < r => pc[q] # "idle"
=============================================================================
