--------------------------- MODULE ChangeControl ---------------------------
(***************************************************************************)
(* What endpoint change control promises, with every operation atomic: no  *)
(* requests, no reads, no races.  A change moves an integration from the   *)
(* exact configuration its proposal saw, once, and in production only      *)
(* after somebody other than the proposer approved it; its delivery is     *)
(* judged once, while it is still the current configuration, and judged    *)
(* delivered only when the receiver has the event.                         *)
(***************************************************************************)
EXTENDS Integers, Items

CONSTANTS Changes, Snapshots, People, Integrations, Tickets, InitConfiguration

VARIABLES
    configuration,   \* [endpoint, version] of every integration
    proposed,        \* the snapshot of every proposed change
    approvedBy,      \* who approved
    applied,         \* the version an applied change produced
    received,        \* the changes whose test event reached the receiver
    judged,          \* the recorded outcome
    status           \* of every ticket

vars == <<configuration, proposed, approvedBy, applied, received, judged, status>>

Init ==
    /\ configuration = InitConfiguration
    /\ proposed = NoItems
    /\ approvedBy = NoItems
    /\ applied = NoItems
    /\ received = {}
    /\ judged = NoItems
    /\ status = [t \in Tickets |-> "open"]

(* The snapshot is any of Snapshots, read off the next state so that an    *)
(* unbounded set of them need not be enumerated.                           *)
Propose(c) ==
    /\ c \notin DOMAIN proposed
    /\ c \in DOMAIN proposed'
    /\ proposed'[c] \in Snapshots
    /\ \A d \in DOMAIN proposed : proposed[d] # proposed'[c]
    /\ proposed' = Put(proposed, c, proposed'[c])
    /\ UNCHANGED <<configuration, approvedBy, applied, received, judged, status>>

Approve(c, person) ==
    /\ c \in DOMAIN proposed \ DOMAIN approvedBy
    /\ proposed[c].environment = "production"
    /\ person # proposed[c].proposed_by_employee_id
    /\ approvedBy' = Put(approvedBy, c, person)
    /\ UNCHANGED <<configuration, proposed, applied, received, judged, status>>

Apply(c) ==
    /\ c \in DOMAIN proposed \ DOMAIN applied
    /\ proposed[c].environment = "production" => c \in DOMAIN approvedBy
    /\ LET i == proposed[c].integration_id
           before == [endpoint |-> proposed[c].current_endpoint,
                      version |-> proposed[c].expected_configuration_version]
           after == [endpoint |-> proposed[c].proposed_endpoint,
                     version |-> before.version + 1]
       IN  /\ configuration[i] = before
           /\ configuration' = [configuration EXCEPT ![i] = after]
           /\ applied' = Put(applied, c, after.version)
    /\ UNCHANGED <<proposed, approvedBy, received, judged, status>>

Receive(c) ==
    /\ c \in DOMAIN applied
    /\ received' = received \cup {c}
    /\ UNCHANGED <<configuration, proposed, approvedBy, applied, judged, status>>

Judge(c, outcome) ==
    /\ c \in DOMAIN applied \ DOMAIN judged
    /\ configuration[proposed[c].integration_id].version = applied[c]
    /\ outcome = "delivered" => c \in received
    /\ judged' = Put(judged, c, outcome)
    /\ status' = [status EXCEPT ![proposed[c].ticket_id] =
                     IF outcome = "delivered" THEN "closed" ELSE "needs_attention"]
    /\ UNCHANGED <<configuration, proposed, approvedBy, applied, received>>

Next ==
    \E c \in Changes :
        \/ Propose(c)
        \/ \E person \in People : Approve(c, person)
        \/ Apply(c)
        \/ Receive(c)
        \/ \E outcome \in {"delivered", "failed", "inconclusive"} : Judge(c, outcome)

Spec == Init /\ [][Next]_vars
=============================================================================
