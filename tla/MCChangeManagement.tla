------------------------- MODULE MCChangeManagement -------------------------
(***************************************************************************)
(* Instances of ChangeManagement.  One customer, an engineer who prepares  *)
(* and executes and leads who may approve; the .cfg files choose which of  *)
(* the records below exist and which of them the outside may change.       *)
(***************************************************************************)
EXTENDS ChangeManagement, TLC

CONSTANTS acme, jordan, alex, priya, old, events, later, crm, t1, t2

Window(start, end) == [weekday |-> 0, start |-> start, end |-> end]

Acme(urls, window) ==
    [authorized_contacts |-> {jordan},
     registered_destinations |-> [environment : Environments, url : urls],
     production_change_window |-> window]

Engineer == [active |-> TRUE, role |-> "implementation_engineer", customer_ids |-> {acme}]
Lead == [active |-> TRUE, role |-> "technical_lead", customer_ids |-> {acme}]
Leaver == [active |-> FALSE, role |-> "technical_lead", customer_ids |-> {acme}]

RequestTicket(endpoint) ==
    [customer_id |-> acme, integration_id |-> crm, requester_contact_id |-> jordan,
     requested_endpoint |-> endpoint, status |-> "open"]

SeedCrm(environment) ==
    crm :> [customer_id |-> acme, environment |-> environment, endpoint |-> old,
            version |-> 7]

Staff == (alex :> Engineer) @@ (priya :> Lead)
Engineers == alex :> Engineer
OpenCustomer == acme :> Acme({old, events, later}, Window(0, 2))
WindowedCustomer == acme :> Acme({old, events, later}, Window(0, 1))
Production == SeedCrm("production")
Sandbox == SeedCrm("sandbox")

(* Two requests for the same integration; in the second pair the later     *)
(* request moves the integration back to where it was.                     *)
CompetingTickets == (t1 :> RequestTicket(events)) @@ (t2 :> RequestTicket(later))
ReturningTickets == (t1 :> RequestTicket(events)) @@ (t2 :> RequestTicket(old))
OneTicket == t1 :> RequestTicket(events)

NoRecords == {}
OnlyLeaver == {Leaver}
NarrowedRegistry == {Acme({old}, Window(0, 1))}

Symmetry == Permutations(Requests) \cup Permutations(ProposalIds)
=============================================================================
