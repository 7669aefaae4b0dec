------------------------- MODULE DocumentLifecycle -------------------------
(***************************************************************************)
(* What the document pipeline promises its users, without queue, workers,  *)
(* versions or stores: a document goes through its stages once, in order,  *)
(* as its content and the retention choice made at upload demand.          *)
(***************************************************************************)
VARIABLES
    stage,     \* how far the document is
    content,   \* what the file really is
    keep       \* the owner's choice to keep the original

lifecycleVars == <<stage, content, keep>>

Stages == {"none", "upload", "scan", "rejected", "ocr", "delete", "review", "done"}

Init ==
    /\ stage = "none"
    /\ content = "clean"
    /\ keep = TRUE

\* One stage follows another; content and retention choice are settled.
Advance(from, to) ==
    /\ stage = from
    /\ stage' = to
    /\ UNCHANGED <<content, keep>>

\* The owner starts an upload and decides whether to keep the original.
Begin ==
    /\ stage = "none"
    /\ stage' = "upload"
    /\ content' \in {"clean", "infected", "invalid"}
    /\ keep' \in BOOLEAN

Quarantine == Advance("upload", "scan")
Accept == content = "clean" /\ Advance("scan", "ocr")
Reject == content = "infected" /\ Advance("scan", "rejected")
Recognise == Advance("ocr", IF keep THEN "review" ELSE "delete")
DeleteOriginal == Advance("delete", "review")
Extract == Advance("review", "done")

Next ==
    \/ Begin \/ Quarantine \/ Accept \/ Reject
    \/ Recognise \/ DeleteOriginal \/ Extract

Spec == Init /\ [][Next]_lifecycleVars
=============================================================================
