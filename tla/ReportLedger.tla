---------------------------- MODULE ReportLedger ----------------------------
(***************************************************************************)
(* What is promised of the reports of one investigation: a draft, a report *)
(* accepted for it and the published one are each saved at once and for    *)
(* good; acceptance and publication keep what the draft concluded; and     *)
(* nothing is saved once the investigation is closed.                      *)
(***************************************************************************)
CONSTANT Reports     \* whole reports

VARIABLES
    saved,     \* the reports that can be read, by kind
    open       \* the investigation may still change

Init == open = TRUE /\ DOMAIN saved = {}

Saves(kind, report) ==
    /\ open = TRUE
    /\ report \in Reports
    /\ kind \notin DOMAIN saved
    /\ saved' = [k \in DOMAIN saved \cup {kind} |-> IF k = kind THEN report ELSE saved[k]]

SaveDraft(report) == Saves("draft", report) /\ UNCHANGED open

Accept(report) ==
    /\ "draft" \in DOMAIN saved
    /\ report.author = saved["draft"].author
    /\ report.outcome = saved["draft"].outcome
    /\ Saves("validated", report)
    /\ UNCHANGED open

Publish ==
    /\ "validated" \in DOMAIN saved
    /\ Saves("run", saved["validated"])
    /\ open' = FALSE

Close == open = TRUE /\ open' = FALSE /\ UNCHANGED saved

Next ==
    \/ "draft" \in DOMAIN saved' /\ SaveDraft(saved'["draft"])
    \/ "validated" \in DOMAIN saved' /\ Accept(saved'["validated"])
    \/ Publish
    \/ Close

Spec == Init /\ [][Next]_<<saved, open>>
=============================================================================
