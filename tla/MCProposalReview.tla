-------------------------- MODULE MCProposalReview --------------------------
(***************************************************************************)
(* Long sequences of changes, with a reader.  acme's sandbox is moved to   *)
(* another endpoint and back; globex asks once for a change of its         *)
(* production integration, which needs an approval.  Priya does not work   *)
(* for acme.                                                               *)
(***************************************************************************)
EXTENDS MCChangeManagement, ProposalReview

CONSTANTS globex, billing, t3

TwoCustomers == OpenCustomer @@ (globex :> Acme({old, events}, Window(0, 2)))

ReviewStaff ==
    (alex :> [Engineer EXCEPT !.customer_ids = {acme, globex}])
    @@ (priya :> [Lead EXCEPT !.customer_ids = {globex}])

TwoIntegrations ==
    Sandbox @@ (billing :> [customer_id |-> globex, environment |-> "production",
                            endpoint |-> old, version |-> 7])

ThreeTickets ==
    ReturningTickets
    @@ (t3 :> [RequestTicket(events) EXCEPT !.customer_id = globex,
                                            !.integration_id = billing])
=============================================================================
