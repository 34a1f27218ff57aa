-------------------------- MODULE WorkspaceRecords --------------------------
(***************************************************************************)
(* What a workspace promises its requests: the seeded records appear all   *)
(* at once, under an identity of their own; business writes add to them;   *)
(* and they disappear together with the workspace, never one by one.       *)
(***************************************************************************)
CONSTANTS Identities, None, Seeds, Notes

VARIABLES
    identity,    \* of the published records, None while there is no workspace
    visible      \* the records a request of that identity can read

Init == identity = None /\ visible = {}

Publish(id) ==
    /\ identity # id
    /\ identity' = id
    /\ visible' = Seeds

Write(note) ==
    /\ identity # None
    /\ visible' = visible \cup {note}
    /\ UNCHANGED identity

Remove == identity' = None /\ visible' = {}

Next ==
    \/ \E id \in Identities : Publish(id)
    \/ \E note \in Notes : Write(note)
    \/ Remove

Spec == Init /\ [][Next]_<<identity, visible>>
=============================================================================
