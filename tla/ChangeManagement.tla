-------------------------- MODULE ChangeManagement --------------------------
(***************************************************************************)
(* Proposals, approvals, executions and delivery verifications of endpoint *)
(* changes, inside one published workspace generation.                     *)
(*                                                                         *)
(* Every request is a process that reads records, leaves them unlocked,    *)
(* and later commits one conditional transaction.  A slot of Requests is   *)
(* one invocation at a time; its local values are the fields of            *)
(* request[r].  A handler that raises, a Lambda that dies and a response   *)
(* that is delivered all leave the stored records as they are and end the  *)
(* invocation: End(r), which is possible at every point, is all three, so  *)
(* the other actions only describe the branch that goes on.                *)
(*                                                                         *)
(* A definition named in the comment of the next one as its mutant is not  *)
(* part of the model: it is the next one with one mistake in it, kept to   *)
(* show that a property notices.                                           *)
(***************************************************************************)
EXTENDS Integers, FiniteSets, Items

CONSTANTS
    Employees, Customers, Contacts, Endpoints, Integrations, Tickets,
    ProposalIds,        \* identities uuid4 may give to proposals
    Requests,           \* concurrent invocations
    EmployeeRecords,    \* employee records an outside system may write
    CustomerRecords,    \* customer records an outside system may write
    InitEmployee, InitCustomer, InitIntegration, InitTicket,   \* seeded records
    MinutesPerDay,      \* length of a day in clock units
    MaxTime,            \* bound: the clock stops here
    MaxEvents           \* bound: test events in flight at once

Roles == {"support_specialist", "implementation_engineer", "technical_lead"}
ConfigRoles == {"implementation_engineer", "technical_lead"}
Environments == {"sandbox", "production"}
Outcomes == {"delivered", "failed", "inconclusive"}
TicketStatuses == {"open", "closed", "needs_attention"}
Times == 0 .. MaxTime

Employee == [active : BOOLEAN, role : Roles, customer_ids : SUBSET Customers]
Destination == [environment : Environments, url : Endpoints]
ChangeWindow == [weekday : Nat, start : Nat, end : Nat]
Customer == [authorized_contacts : SUBSET Contacts,
             registered_destinations : SUBSET Destination,
             production_change_window : ChangeWindow]
Integration == [customer_id : Customers, environment : Environments,
                endpoint : Endpoints, version : Nat]
Ticket == [customer_id : Customers, integration_id : Integrations,
           requester_contact_id : Contacts, requested_endpoint : Endpoints,
           status : TicketStatuses]

(* A proposal without its id and created_at: exactly what the fingerprint  *)
(* of DynamoStore.save_proposal is the digest of.                          *)
Proposal == [proposed_by_employee_id : Employees, ticket_id : Tickets,
             requester_contact_id : Contacts, customer_id : Customers,
             integration_id : Integrations, environment : Environments,
             current_endpoint : Endpoints, proposed_endpoint : Endpoints,
             expected_configuration_version : Nat]

(* The uuid4 of a receipt is the invocation that wrote it.                 *)
Approval == [id : Requests, approved_by_employee_id : Employees, created_at : Times]
Execution == [id : Requests, executed_by_employee_id : Employees,
              approval_id : SUBSET Requests, executed_at : Times,
              resulting_configuration_version : Nat]
Verification == [id : Requests, outcome : Outcomes, destination : Endpoints,
                 verified_at : Times]
Event == [proposal_id : ProposalIds, destination : Endpoints, sender : Requests]

ASSUME RecordsAssumption ==
    /\ EmployeeRecords \subseteq Employee
    /\ CustomerRecords \subseteq Customer
    /\ InitEmployee \in [Employees -> Employee]
    /\ InitCustomer \in [Customers -> Customer]
    /\ InitIntegration \in [Integrations -> Integration]
    /\ InitTicket \in [Tickets -> Ticket]
    /\ \A t \in Tickets : InitTicket[t].status = "open"

ASSUME TimeAssumption == MinutesPerDay \in Nat \ {0} /\ MaxTime \in Nat

VARIABLES
    employee, customer, integration, ticket,       \* business records
    proposal, fingerprint, approval, execution,    \* PROPOSAL#, FINGERPRINT#, APPROVAL#, EXECUTION#
    verification, receiver,                        \* VERIFICATION#, RECEIVER#, one per execution
    wire,                                          \* test events sent and not yet answered
    now,                                           \* the wall clock
    request                                        \* local state of every invocation

records == <<integration, ticket, proposal, fingerprint, approval, execution,
             verification, receiver>>
vars == <<employee, customer, records, wire, now, request>>

-----------------------------------------------------------------------------
(* Employee sessions and the business checks.                              *)

HasCustomerAccess(e, c, allowed) ==
    /\ employee[e].active
    /\ employee[e].role \in allowed
    /\ c \in employee[e].customer_ids

(* get_ticket, get_customer and get_integration, then every check of       *)
(* validate_endpoint_change_request.                                       *)
IsSupportedRequest(e, t, endpoint) ==
    LET c == ticket[t].customer_id
        i == integration[ticket[t].integration_id]
        requested == ticket[t].requested_endpoint
    IN  /\ HasCustomerAccess(e, c, ConfigRoles)
        /\ HasCustomerAccess(e, i.customer_id, ConfigRoles)
        /\ i.customer_id = c
        /\ ticket[t].requester_contact_id \in customer[c].authorized_contacts
        /\ endpoint = requested
        /\ [environment |-> i.environment, url |-> requested]
               \in customer[c].registered_destinations
        /\ requested # i.endpoint

Snapshot(e, t) ==
    LET i == integration[ticket[t].integration_id]
    IN  [proposed_by_employee_id |-> e,
         ticket_id |-> t,
         requester_contact_id |-> ticket[t].requester_contact_id,
         customer_id |-> ticket[t].customer_id,
         integration_id |-> ticket[t].integration_id,
         environment |-> i.environment,
         current_endpoint |-> i.endpoint,
         proposed_endpoint |-> ticket[t].requested_endpoint,
         expected_configuration_version |-> i.version]

MatchesCurrentRecords(snapshot) ==
    LET e == snapshot.proposed_by_employee_id
        t == snapshot.ticket_id
    IN  /\ IsSupportedRequest(e, t, snapshot.proposed_endpoint)
        /\ snapshot = Snapshot(e, t)

RequiresApproval(p) == proposal[p].environment = "production"

(* Mutant: a lead may review a proposal of their own.                      *)
IsReviewer(e, p) ==
    /\ HasCustomerAccess(e, proposal[p].customer_id, {"technical_lead"})
    /\ RequiresApproval(p)

IsIndependentReviewer(e, p) ==
    /\ HasCustomerAccess(e, proposal[p].customer_id, {"technical_lead"})
    /\ e # proposal[p].proposed_by_employee_id
    /\ RequiresApproval(p)

IsOpen(window, time) ==
    /\ window.start < window.end
    /\ (time \div MinutesPerDay) % 7 = window.weekday
    /\ window.start <= time % MinutesPerDay
    /\ time % MinutesPerDay < window.end

(* Mutant: the execution may be dated before its approval.                 *)
HasUndatedApproval(p, executed_at) ==
    /\ p \in DOMAIN approval
    /\ LET by == approval[p].approved_by_employee_id
       IN  /\ by # proposal[p].proposed_by_employee_id
           /\ HasCustomerAccess(by, proposal[p].customer_id, {"technical_lead"})

HasValidApproval(p, executed_at) ==
    /\ p \in DOMAIN approval
    /\ LET by == approval[p].approved_by_employee_id
       IN  /\ by # proposal[p].proposed_by_employee_id
           /\ HasCustomerAccess(by, proposal[p].customer_id, {"technical_lead"})
    /\ approval[p].created_at <= executed_at

(* Mutant: an endpoint that came back counts as the executed one.          *)
HasEndpoint(p, endpoint) == integration[proposal[p].integration_id].endpoint = endpoint

(* The endpoint and version that executing p produced are still configured *)
IsConfigured(p, endpoint) ==
    LET i == integration[proposal[p].integration_id]
    IN  /\ i.endpoint = endpoint
        /\ i.version = execution[p].resulting_configuration_version
-----------------------------------------------------------------------------
(* Invocations.  pc names the step that comes next.                        *)

Idle == [pc |-> "idle"]

Answer(kind, p, receipt) ==
    [pc |-> "answered", kind |-> kind, proposal_id |-> p, receipt |-> receipt]

InvocationsAt(pcs) == {r \in Requests : request[r].pc \in pcs}

Begin(r, local) ==
    /\ request[r] = Idle
    /\ request' = [request EXCEPT ![r] = local]

Continue(r, local) == request' = [request EXCEPT ![r] = local]

Init ==
    /\ employee = InitEmployee
    /\ customer = InitCustomer
    /\ integration = InitIntegration
    /\ ticket = InitTicket
    /\ proposal = NoItems
    /\ fingerprint = NoItems
    /\ approval = NoItems
    /\ execution = NoItems
    /\ verification = NoItems
    /\ receiver = NoItems
    /\ wire = {}
    /\ now = 0
    /\ request = [r \in Requests |-> Idle]

(* The response has been sent, a check failed, or the process is gone.     *)
End(r) ==
    /\ request[r].pc # "idle"
    /\ request' = [request EXCEPT ![r] = Idle]
    /\ UNCHANGED <<employee, customer, records, wire, now>>

-----------------------------------------------------------------------------
(* Saving a proposal: validate_proposal, then save_proposal.               *)

FreshProposalIds ==
    (ProposalIds \ DOMAIN proposal)
        \ {request[r].proposal_id : r \in InvocationsAt({"recheck_save", "commit_proposal"})}

ValidateProposal(r, e, t, id) ==
    /\ id \in FreshProposalIds
    /\ IsSupportedRequest(e, t, ticket[t].requested_endpoint)
    /\ Begin(r, [pc |-> "recheck_save", proposal_id |-> id, snapshot |-> Snapshot(e, t)])
    /\ UNCHANGED <<employee, customer, records, wire, now>>

RecheckProposal(r) ==
    LET snapshot == request[r].snapshot
    IN  /\ request[r].pc = "recheck_save"
        /\ MatchesCurrentRecords(snapshot)
        /\ IF snapshot \in DOMAIN fingerprint
           THEN Continue(r, Answer("proposal", fingerprint[snapshot], snapshot))
           ELSE Continue(r, [request[r] EXCEPT !.pc = "commit_proposal"])
        /\ UNCHANGED <<employee, customer, records, wire, now>>

(* Mutant: the pointer is put without its condition.                       *)
IsNewId(id, snapshot) == id \notin DOMAIN proposal

IsNewProposal(id, snapshot) ==
    /\ id \notin DOMAIN proposal
    /\ snapshot \notin DOMAIN fingerprint

(* One transaction puts the proposal and its canonical pointer; when it    *)
(* is refused the pointer is read again.                                   *)
CommitProposal(r) ==
    LET id == request[r].proposal_id
        snapshot == request[r].snapshot
    IN  /\ request[r].pc = "commit_proposal"
        /\ \/ /\ IsNewProposal(id, snapshot)
              /\ proposal' = Put(proposal, id, snapshot)
              /\ fingerprint' = Put(fingerprint, snapshot, id)
              /\ Continue(r, Answer("proposal", id, snapshot))
           \/ /\ snapshot \in DOMAIN fingerprint
              /\ Continue(r, Answer("proposal", fingerprint[snapshot], snapshot))
              /\ UNCHANGED <<proposal, fingerprint>>
        /\ UNCHANGED <<employee, customer, integration, ticket, approval, execution,
                       verification, receiver, wire, now>>

-----------------------------------------------------------------------------
(* Approving.                                                              *)

(* get_proposal, the reviewer rule, and the first read of save_unique.     *)
CheckReviewer(r, e, p) ==
    /\ p \in DOMAIN proposal
    /\ IsIndependentReviewer(e, p)
    /\ Begin(r, IF p \in DOMAIN approval
                THEN Answer("approval", p, approval[p])
                ELSE [pc |-> "commit_approval", proposal_id |-> p,
                      employee |-> e, at |-> now])
    /\ UNCHANGED <<employee, customer, records, wire, now>>

(* Mutant: the loser of a race answers with its own, unsaved receipt.      *)
OwnReceipt(items, key, mine) == mine

StoredReceipt(items, key, mine) == IF key \in DOMAIN items THEN items[key] ELSE mine

CommitApproval(r) ==
    LET p == request[r].proposal_id
        mine == [id |-> r,
                 approved_by_employee_id |-> request[r].employee,
                 created_at |-> request[r].at]
    IN  /\ request[r].pc = "commit_approval"
        /\ approval' = PutIfAbsent(approval, p, mine)
        /\ Continue(r, Answer("approval", p, StoredReceipt(approval, p, mine)))
        /\ UNCHANGED <<employee, customer, integration, ticket, proposal, fingerprint,
                       execution, verification, receiver, wire, now>>

-----------------------------------------------------------------------------
(* Executing.                                                              *)

(* The route takes the time, execute_proposal checks the executor and      *)
(* returns an existing receipt.                                            *)
CheckExecutor(r, e, p) ==
    /\ p \in DOMAIN proposal
    /\ HasCustomerAccess(e, proposal[p].customer_id, ConfigRoles)
    /\ Begin(r, IF p \in DOMAIN execution
                THEN Answer("execution", p, execution[p])
                ELSE [pc |-> "recheck", proposal_id |-> p, employee |-> e,
                      at |-> now, approval_id |-> {}])
    /\ UNCHANGED <<employee, customer, records, wire, now>>

RecheckRecords(r) ==
    LET p == request[r].proposal_id
    IN  /\ request[r].pc = "recheck"
        /\ MatchesCurrentRecords(proposal[p])
        /\ Continue(r, [request[r] EXCEPT !.pc =
                            IF RequiresApproval(p)
                            THEN "check_approval" ELSE "read_configuration"])
        /\ UNCHANGED <<employee, customer, records, wire, now>>

CheckApproval(r) ==
    LET p == request[r].proposal_id
        c == proposal[p].customer_id
    IN  /\ request[r].pc = "check_approval"
        /\ HasValidApproval(p, request[r].at)
        /\ HasCustomerAccess(request[r].employee, c, ConfigRoles)
        /\ IsOpen(customer[c].production_change_window, request[r].at)
        /\ Continue(r, [request[r] EXCEPT !.pc = "read_configuration",
                                          !.approval_id = {approval[p].id}])
        /\ UNCHANGED <<employee, customer, records, wire, now>>

(* The reads of apply_execution: the receipt again, then the integration.  *)
ReadConfiguration(r) ==
    LET p == request[r].proposal_id
        i == integration[proposal[p].integration_id]
    IN  /\ request[r].pc = "read_configuration"
        /\ \/ /\ p \in DOMAIN execution
              /\ Continue(r, Answer("execution", p, execution[p]))
           \/ /\ p \notin DOMAIN execution
              /\ i.customer_id = proposal[p].customer_id
              /\ i.version = proposal[p].expected_configuration_version
              /\ i.endpoint = proposal[p].current_endpoint
              /\ Continue(r, [pc |-> "commit_execution", proposal_id |-> p,
                              employee |-> request[r].employee, at |-> request[r].at,
                              approval_id |-> request[r].approval_id,
                              integration |-> i])
        /\ UNCHANGED <<employee, customer, records, wire, now>>

(* Mutant: the transaction does not compare the record that was read.      *)
IsReadable(i, read) == TRUE

IsUnchanged(i, read) == integration[i] = read

(* Mutant: the version advances and the endpoint stays.                    *)
NextVersion(read, endpoint) == [read EXCEPT !.version = read.version + 1]

Updated(read, endpoint) ==
    [customer_id |-> read.customer_id, environment |-> read.environment,
     endpoint |-> endpoint, version |-> read.version + 1]

(* One transaction replaces the integration that was read and puts the     *)
(* receipt; when it is refused the receipt is read once more.              *)
CommitExecution(r) ==
    LET p == request[r].proposal_id
        i == proposal[p].integration_id
        read == request[r].integration
        mine == [id |-> r,
                 executed_by_employee_id |-> request[r].employee,
                 approval_id |-> request[r].approval_id,
                 executed_at |-> request[r].at,
                 resulting_configuration_version |->
                     proposal[p].expected_configuration_version + 1]
    IN  /\ request[r].pc = "commit_execution"
        /\ \/ /\ IsUnchanged(i, read)
              /\ p \notin DOMAIN execution
              /\ integration' = [integration EXCEPT ![i] =
                                     Updated(read, proposal[p].proposed_endpoint)]
              /\ execution' = Put(execution, p, mine)
              /\ Continue(r, Answer("execution", p, mine))
           \/ /\ p \in DOMAIN execution
              /\ Continue(r, Answer("execution", p, execution[p]))
              /\ UNCHANGED <<integration, execution>>
        /\ UNCHANGED <<employee, customer, ticket, proposal, fingerprint, approval,
                       verification, receiver, wire, now>>

-----------------------------------------------------------------------------
(* Verifying delivery.                                                     *)

CheckVerifier(r, e, p) ==
    /\ p \in DOMAIN proposal
    /\ HasCustomerAccess(e, proposal[p].customer_id, ConfigRoles)
    /\ p \in DOMAIN execution
    /\ execution[p].executed_at <= now
    /\ Begin(r, IF p \in DOMAIN verification
                THEN Answer("verification", p, verification[p])
                ELSE [pc |-> "send_event", proposal_id |-> p, employee |-> e, at |-> now])
    /\ UNCHANGED <<employee, customer, records, wire, now>>

(* get_integration, the check that the execution is still configured, and  *)
(* the HTTP request, whose event identity is derived from the execution.   *)
SendEvent(r) ==
    LET p == request[r].proposal_id
        i == integration[proposal[p].integration_id]
    IN  /\ request[r].pc = "send_event"
        /\ HasCustomerAccess(request[r].employee, i.customer_id, ConfigRoles)
        /\ IsConfigured(p, proposal[p].proposed_endpoint)
        /\ Cardinality(wire) < MaxEvents
        /\ wire' = wire \cup {[proposal_id |-> p, destination |-> i.endpoint, sender |-> r]}
        /\ Continue(r, [pc |-> "await_receipt", proposal_id |-> p, at |-> request[r].at,
                        destination |-> i.endpoint])
        /\ UNCHANGED <<employee, customer, records, now>>

AwaitsReceipt(r, event) ==
    /\ request[r].pc = "await_receipt"
    /\ request[r].proposal_id = event.proposal_id
    /\ request[r].destination = event.destination

Observe(r, outcome) ==
    Continue(r, [pc |-> "read_requirements", proposal_id |-> request[r].proposal_id,
                 at |-> request[r].at, destination |-> request[r].destination,
                 outcome |-> outcome])

(* accept_event: the first event of an identity is stored, an identical    *)
(* one returns the stored receipt, a different one is refused with 409.    *)
(* The answer reaches the sender when it still waits, or is lost.          *)
ReceiveEvent(event) ==
    LET p == event.proposal_id
        isNew == p \notin DOMAIN receiver
        accepted == isNew \/ receiver[p] = event.destination
    IN  /\ event \in wire
        /\ wire' = wire \ {event}
        /\ receiver' = IF isNew THEN Put(receiver, p, event.destination) ELSE receiver
        /\ \/ /\ AwaitsReceipt(event.sender, event)
              /\ Observe(event.sender, IF accepted THEN "delivered" ELSE "failed")
           \/ UNCHANGED request
        /\ UNCHANGED <<employee, customer, integration, ticket, proposal, fingerprint,
                       approval, execution, verification, now>>

(* Mutant: silence is taken for success.                                   *)
AssumeDelivery(r) ==
    /\ request[r].pc = "await_receipt"
    /\ Observe(r, "delivered")
    /\ UNCHANGED <<employee, customer, records, wire, now>>

(* No response within the timeout: the event may still arrive.             *)
LoseResponse(r) ==
    /\ request[r].pc = "await_receipt"
    /\ Observe(r, "inconclusive")
    /\ UNCHANGED <<employee, customer, records, wire, now>>

(* The endpoint answers without accepting: 4xx, or another status, or a    *)
(* body that is not the receipt of this event.                             *)
RefuseEvent(r) ==
    \E event \in wire :
        /\ event.sender = r
        /\ AwaitsReceipt(r, event)
        /\ wire' = wire \ {event}
        /\ \E outcome \in {"failed", "inconclusive"} : Observe(r, outcome)
        /\ UNCHANGED <<employee, customer, records, now>>

(* The reads of DynamoStore.verify.                                        *)
ReadRequirements(r) ==
    LET p == request[r].proposal_id
    IN  /\ request[r].pc = "read_requirements"
        /\ \/ /\ p \in DOMAIN verification
              /\ Continue(r, Answer("verification", p, verification[p]))
           \/ /\ p \notin DOMAIN verification
              /\ IsConfigured(p, request[r].destination)
              /\ Continue(r, [pc |-> "commit_verification", proposal_id |-> p,
                              at |-> request[r].at, outcome |-> request[r].outcome,
                              destination |-> request[r].destination,
                              integration |-> integration[proposal[p].integration_id],
                              ticket |-> ticket[proposal[p].ticket_id]])
        /\ UNCHANGED <<employee, customer, records, wire, now>>

(* Mutant: the outcome is written where the status belongs.                *)
OutcomeAsStatus(outcome) == outcome

StatusAfter(outcome) == IF outcome = "delivered" THEN "closed" ELSE "needs_attention"

CommitVerification(r) ==
    LET p == request[r].proposal_id
        t == proposal[p].ticket_id
        mine == [id |-> r, outcome |-> request[r].outcome,
                 destination |-> request[r].destination, verified_at |-> request[r].at]
    IN  /\ request[r].pc = "commit_verification"
        /\ \/ /\ IsUnchanged(proposal[p].integration_id, request[r].integration)
              /\ p \notin DOMAIN verification
              /\ ticket[t] = request[r].ticket
              /\ verification' = Put(verification, p, mine)
              /\ ticket' = [ticket EXCEPT ![t] =
                     [request[r].ticket EXCEPT !.status = StatusAfter(mine.outcome)]]
              /\ Continue(r, Answer("verification", p, mine))
           \/ /\ p \in DOMAIN verification
              /\ Continue(r, Answer("verification", p, verification[p]))
              /\ UNCHANGED <<verification, ticket>>
        /\ UNCHANGED <<employee, customer, integration, proposal, fingerprint, approval,
                       execution, receiver, wire, now>>

-----------------------------------------------------------------------------
(* The world outside: the employee directory and the customer registry     *)
(* belong to other systems, and the clock advances.                        *)

ChangeEmployee(e) ==
    /\ \E body \in EmployeeRecords : employee' = [employee EXCEPT ![e] = body]
    /\ UNCHANGED <<customer, records, wire, now, request>>

ChangeCustomer(c) ==
    /\ \E body \in CustomerRecords : customer' = [customer EXCEPT ![c] = body]
    /\ UNCHANGED <<employee, records, wire, now, request>>

Tick ==
    /\ now < MaxTime
    /\ now' = now + 1
    /\ UNCHANGED <<employee, customer, records, wire, request>>

Invocation(r) ==
    \/ \E e \in Employees, t \in Tickets, id \in ProposalIds : ValidateProposal(r, e, t, id)
    \/ \E e \in Employees, p \in ProposalIds :
           CheckReviewer(r, e, p) \/ CheckExecutor(r, e, p) \/ CheckVerifier(r, e, p)
    \/ RecheckProposal(r) \/ CommitProposal(r)
    \/ CommitApproval(r)
    \/ RecheckRecords(r) \/ CheckApproval(r) \/ ReadConfiguration(r) \/ CommitExecution(r)
    \/ SendEvent(r) \/ LoseResponse(r) \/ RefuseEvent(r)
    \/ ReadRequirements(r) \/ CommitVerification(r)
    \/ End(r)

Outside ==
    \/ \E e \in Employees : ChangeEmployee(e)
    \/ \E c \in Customers : ChangeCustomer(c)
    \/ Tick

Next ==
    \/ \E r \in Requests : Invocation(r)
    \/ \E event \in wire : ReceiveEvent(event)
    \/ Outside

Spec == Init /\ [][Next]_vars
-----------------------------------------------------------------------------
(* Types.                                                                  *)

Table(keys, bodies) == UNION {[dom -> bodies] : dom \in SUBSET keys}

SaveRequest == [pc : {"recheck_save", "commit_proposal"}, proposal_id : ProposalIds,
                snapshot : Proposal]
ApproveRequest == [pc : {"commit_approval"}, proposal_id : ProposalIds,
                   employee : Employees, at : Times]
ExecuteRequest == [pc : {"recheck", "check_approval", "read_configuration"},
                   proposal_id : ProposalIds, employee : Employees, at : Times,
                   approval_id : SUBSET Requests]
CommitExecutionRequest == [pc : {"commit_execution"}, proposal_id : ProposalIds,
                           employee : Employees, at : Times,
                           approval_id : SUBSET Requests, integration : Integration]
VerifyRequest == [pc : {"send_event"}, proposal_id : ProposalIds,
                  employee : Employees, at : Times]
AwaitRequest == [pc : {"await_receipt"}, proposal_id : ProposalIds, at : Times,
                 destination : Endpoints]
RecordRequest == [pc : {"read_requirements"}, proposal_id : ProposalIds, at : Times,
                  destination : Endpoints, outcome : Outcomes]
CommitVerificationRequest == [pc : {"commit_verification"}, proposal_id : ProposalIds,
                              at : Times, outcome : Outcomes, destination : Endpoints,
                              integration : Integration, ticket : Ticket]
AnsweredRequest ==
    [pc : {"answered"}, kind : {"proposal", "approval", "execution", "verification"},
     proposal_id : ProposalIds,
     receipt : Proposal \cup Approval \cup Execution \cup Verification]

Request == {Idle} \cup SaveRequest \cup ApproveRequest \cup ExecuteRequest
               \cup CommitExecutionRequest \cup VerifyRequest \cup AwaitRequest
               \cup RecordRequest \cup CommitVerificationRequest \cup AnsweredRequest

(* Every stored record and every local value has the shape the models      *)
(* module gives it; receipts exist only for saved proposals.               *)
TypeOK ==
    /\ employee \in [Employees -> Employee]
    /\ customer \in [Customers -> Customer]
    /\ integration \in [Integrations -> Integration]
    /\ ticket \in [Tickets -> Ticket]
    /\ IsTable(proposal, ProposalIds, Proposal)
    /\ IsTable(fingerprint, Proposal, ProposalIds)
    /\ IsTable(approval, DOMAIN proposal, Approval)
    /\ IsTable(execution, DOMAIN proposal, Execution)
    /\ IsTable(verification, DOMAIN execution, Verification)
    /\ IsTable(receiver, DOMAIN execution, Endpoints)
    /\ wire \subseteq Event
    /\ now \in Times
    /\ request \in [Requests -> Request]

-----------------------------------------------------------------------------
(* Safety.                                                                 *)

ExecutedOn(i) == {p \in DOMAIN execution : proposal[p].integration_id = i}
ResultOf(p) == execution[p].resulting_configuration_version
VerifiedFor(t) == {p \in DOMAIN verification : proposal[p].ticket_id = t}

(* Whatever executors race, retry or die, each configuration version after *)
(* the seeded one was produced by exactly one execution receipt: no change *)
(* without a receipt, no receipt without its change, no version skipped or *)
(* produced twice (apply_execution).                                       *)
OneReceiptPerVersion ==
    \A i \in Integrations :
        LET versions == InitIntegration[i].version + 1 .. integration[i].version
        IN  /\ InitIntegration[i].version <= integration[i].version
            /\ \A p \in ExecutedOn(i) : ResultOf(p) \in versions
            /\ \A v \in versions : \E p \in ExecutedOn(i) : ResultOf(p) = v
            /\ \A p, q \in ExecutedOn(i) : ResultOf(p) = ResultOf(q) => p = q

(* The receipts are a chain of endpoints: each execution started from the  *)
(* endpoint its predecessor configured, and the endpoint configured now is *)
(* the one the latest receipt names (apply_execution's replace of the      *)
(* record that was read).                                                  *)
EndpointsFollowReceipts ==
    \A i \in Integrations :
        /\ \A p \in ExecutedOn(i) :
               /\ ResultOf(p) = integration[i].version
                      => integration[i].endpoint = proposal[p].proposed_endpoint
               /\ ResultOf(p) = InitIntegration[i].version + 1
                      => proposal[p].current_endpoint = InitIntegration[i].endpoint
               /\ \A q \in ExecutedOn(i) :
                      ResultOf(q) = ResultOf(p) + 1
                          => proposal[q].current_endpoint = proposal[p].proposed_endpoint
        /\ integration[i].version = InitIntegration[i].version
               => integration[i].endpoint = InitIntegration[i].endpoint

ApprovalPrecedes(p, at, approval_id) ==
    /\ p \in DOMAIN approval
    /\ approval_id = {approval[p].id}
    /\ approval[p].created_at <= at

(* Nobody approved their own proposal, and every production execution      *)
(* follows the one approval its receipt names, also when approvals and     *)
(* executions race and the employee records change under them              *)
(* (approve_proposal, execute_proposal).                                   *)
ProductionIsIndependentlyApproved ==
    /\ \A p \in DOMAIN approval :
           /\ proposal[p].environment = "production"
           /\ approval[p].approved_by_employee_id # proposal[p].proposed_by_employee_id
    /\ \A p \in DOMAIN execution :
           proposal[p].environment = "production" =>
               ApprovalPrecedes(p, execution[p].executed_at, execution[p].approval_id)

(* A ticket shows the outcome of the verification of its newest execution  *)
(* that has one, and is open when there is none, also when a later request *)
(* has moved the endpoint back to the one an earlier execution configured  *)
(* (verify_execution_delivery's check of the version).                     *)
TicketShowsLatestOutcome ==
    \A t \in Tickets :
        /\ VerifiedFor(t) = {} => ticket[t].status = "open"
        /\ \A p \in VerifiedFor(t) :
               (\A q \in VerifiedFor(t) : ResultOf(q) <= ResultOf(p)) =>
                   ticket[t].status = IF verification[p].outcome = "delivered"
                                      THEN "closed" ELSE "needs_attention"

(* A recorded delivery is backed by the receiver's own receipt of that     *)
(* execution's event at that destination; and the receiver only ever saw   *)
(* events of executed changes, at the endpoint they executed               *)
(* (verify_execution_delivery, accept_event).                              *)
DeliveredWasReceived ==
    /\ \A p \in DOMAIN verification :
           verification[p].outcome = "delivered" =>
               /\ p \in DOMAIN receiver
               /\ receiver[p] = verification[p].destination
    /\ \A p \in DOMAIN receiver :
           /\ p \in DOMAIN execution
           /\ receiver[p] = proposal[p].proposed_endpoint

(* The outcome of a test is recorded only while the execution it tests is  *)
(* the one that runs: an execution that another invocation commits between *)
(* the reads of DynamoStore.verify and its transaction takes the place of  *)
(* the tested configuration, and the test is then not recorded.            *)
OutcomesAreOfWhatRuns ==
    [][\A p \in DOMAIN verification' \ DOMAIN verification :
           LET i == proposal[p].integration_id
           IN  /\ integration[i].version = ResultOf(p)
               /\ integration[i].endpoint = verification'[p].destination]_vars

(* One proposal per business snapshot, and the canonical pointer finds it, *)
(* whichever of two racing saves committed (DynamoStore.save_proposal).    *)
OneProposalPerSnapshot ==
    /\ \A p \in DOMAIN proposal :
           proposal[p] \in DOMAIN fingerprint /\ fingerprint[proposal[p]] = p
    /\ \A s \in DOMAIN fingerprint :
           fingerprint[s] \in DOMAIN proposal /\ proposal[fingerprint[s]] = s

(* An invocation that answers, the winner or the loser of a race, answers  *)
(* with the record that is stored.                                         *)
AnswersAreStored ==
    \A r \in InvocationsAt({"answered"}) :
        LET p == request[r].proposal_id
            table == CASE request[r].kind = "proposal" -> proposal
                       [] request[r].kind = "approval" -> approval
                       [] request[r].kind = "execution" -> execution
                       [] request[r].kind = "verification" -> verification
        IN  p \in DOMAIN table /\ table[p] = request[r].receipt

ExecutorSteps == {"recheck", "check_approval", "read_configuration", "commit_execution"}
VerifierSteps == {"send_event", "await_receipt", "read_requirements", "commit_verification"}

(* What an invocation has established by the time it reaches its pc.       *)
Established(q) ==
    LET p == q.proposal_id
    IN  /\ q.pc \in ExecutorSteps \cup VerifierSteps \cup {"commit_approval"}
               => p \in DOMAIN proposal
        /\ q.pc = "commit_approval" =>
               /\ RequiresApproval(p)
               /\ q.employee # proposal[p].proposed_by_employee_id
        /\ q.pc \in {"read_configuration", "commit_execution"} /\ RequiresApproval(p)
               => ApprovalPrecedes(p, q.at, q.approval_id)
        /\ q.pc = "commit_execution" =>
               /\ q.integration.version = proposal[p].expected_configuration_version
               /\ q.integration.endpoint = proposal[p].current_endpoint
        /\ q.pc \in VerifierSteps => p \in DOMAIN execution
        /\ q.pc \in VerifierSteps \ {"send_event"}
               => q.destination = proposal[p].proposed_endpoint
        /\ q.pc \in {"read_requirements", "commit_verification"} /\ q.outcome = "delivered"
               => p \in DOMAIN receiver
        /\ q.pc = "commit_verification" => q.integration.version = ResultOf(p)

(* The records that an invocation or a test event in flight relies on, as  *)
(* Established lists them for its pc, were so when they were read and stay *)
(* so until they are used, whatever commits in between.  The change        *)
(* window, the registry and the employees are not among them: they may     *)
(* change after the check (execute_proposal).                              *)
ReliedUponStaysTrue ==
    /\ \A r \in Requests : Established(request[r])
    /\ \A event \in wire :
           /\ event.proposal_id \in DOMAIN execution
           /\ event.destination = proposal[event.proposal_id].proposed_endpoint

Keeps(items, next) == \A k \in DOMAIN items : k \in DOMAIN next /\ next[k] = items[k]

(* A stored proposal, approval, execution, verification or receiver        *)
(* receipt is never replaced or removed by a later request.                *)
ReceiptsAreImmutable ==
    [][/\ Keeps(proposal, proposal')
       /\ Keeps(approval, approval')
       /\ Keeps(execution, execution')
       /\ Keeps(verification, verification')
       /\ Keeps(receiver, receiver')]_vars

-----------------------------------------------------------------------------
(* The promise: change control with atomic operations.                     *)

Configuration(integrations) ==
    [i \in Integrations |-> [endpoint |-> integrations[i].endpoint,
                             version |-> integrations[i].version]]

Control == INSTANCE ChangeControl WITH
    Changes <- ProposalIds,
    Snapshots <- Proposal,
    People <- Employees,
    InitConfiguration <- Configuration(InitIntegration),
    configuration <- Configuration(integration),
    proposed <- proposal,
    approvedBy <- [p \in DOMAIN approval |-> approval[p].approved_by_employee_id],
    applied <- [p \in DOMAIN execution |-> ResultOf(p)],
    received <- DOMAIN receiver,
    judged <- [p \in DOMAIN verification |-> verification[p].outcome],
    status <- [t \in Tickets |-> ticket[t].status]

(* The racing invocations implement atomic change control: every step of   *)
(* every handler is one of its operations or changes nothing it records.   *)
ImplementsChangeControl == Control!Spec
=============================================================================
