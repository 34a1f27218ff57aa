----------------------- MODULE ChangeManagementProofs -----------------------
(***************************************************************************)
(* Theorems about ChangeManagement, for every set of employees, tickets,   *)
(* integrations, proposals and concurrent invocations, and every content   *)
(* of the records the outside may write.                                   *)
(***************************************************************************)
EXTENDS ChangeManagement, ItemsProofs

-----------------------------------------------------------------------------
(* Tables.                                                                 *)

(* A put under a new key keeps every other body.                           *)
LEMMA PutKeeps ==
    ASSUME NEW items, NEW key, NEW body, key \notin DOMAIN items
    PROVE  Keeps(items, Put(items, key, body))
BY DEF Put, Keeps

(* A conditional put stores the body unless there is one, which it keeps.  *)
LEMMA PutIfAbsentStores ==
    ASSUME NEW items, NEW key, NEW body
    PROVE  /\ DOMAIN PutIfAbsent(items, key, body) = DOMAIN items \cup {key}
           /\ PutIfAbsent(items, key, body)[key] = StoredReceipt(items, key, body)
           /\ Keeps(items, PutIfAbsent(items, key, body))
BY DEF PutIfAbsent, StoredReceipt, Keeps, Put

-----------------------------------------------------------------------------
(* Invocations.                                                            *)

(* The program counter determines which values an invocation holds.        *)
LEMMA Shapes ==
    ASSUME NEW q \in Request
    PROVE  /\ q.pc \in {"recheck_save", "commit_proposal"} => q \in SaveRequest
           /\ q.pc = "commit_approval" => q \in ApproveRequest
           /\ q.pc \in {"recheck", "check_approval", "read_configuration"} => q \in ExecuteRequest
           /\ q.pc = "commit_execution" => q \in CommitExecutionRequest
           /\ q.pc = "send_event" => q \in VerifyRequest
           /\ q.pc = "await_receipt" => q \in AwaitRequest
           /\ q.pc = "read_requirements" => q \in RecordRequest
           /\ q.pc = "commit_verification" => q \in CommitVerificationRequest
           /\ q.pc = "answered" => q \in AnsweredRequest
BY DEF Request, Idle, SaveRequest, ApproveRequest, ExecuteRequest, CommitExecutionRequest,
       VerifyRequest, AwaitRequest, RecordRequest, CommitVerificationRequest, AnsweredRequest

(* What an invocation has established survives every growth of the tables. *)
LEMMA EstablishedIsStable ==
    ASSUME TypeOK, NEW q \in Request, Established(q),
           Keeps(proposal, proposal'), Keeps(approval, approval'),
           Keeps(execution, execution'), Keeps(receiver, receiver')
    PROVE  Established(q)'
<1> DEFINE p == q.proposal_id
<1>1. p \in DOMAIN proposal => p \in DOMAIN proposal' /\ proposal'[p] = proposal[p]
  BY DEF Keeps
<1>2. p \in DOMAIN approval => p \in DOMAIN approval' /\ approval'[p] = approval[p]
  BY DEF Keeps
<1>3. p \in DOMAIN execution => p \in DOMAIN execution' /\ execution'[p] = execution[p]
  BY DEF Keeps
<1>4. p \in DOMAIN receiver => p \in DOMAIN receiver'
  BY DEF Keeps
<1>5. QED
  BY <1>1, <1>2, <1>3, <1>4
     DEF Established, ApprovalPrecedes, RequiresApproval, ResultOf, ExecutorSteps, VerifierSteps

(* A step that changes nothing but one invocation's local values.          *)
LEMMA LocalStep ==
    ASSUME TypeOK, ReliedUponStaysTrue,
           NEW r \in Requests, NEW local \in Request, Established(local),
           request' = [request EXCEPT ![r] = local],
           UNCHANGED <<employee, customer, records, wire, now>>
    PROVE  TypeOK' /\ ReliedUponStaysTrue'
<1>1. TypeOK'
  BY DEF TypeOK, records, IsTable
<1>2. \A q : Established(q) => Established(q)'
  BY DEF Established, ApprovalPrecedes, RequiresApproval, ResultOf, records
<1>3. \A s \in Requests : request'[s] = IF s = r THEN local ELSE request[s]
  BY DEF TypeOK
<1>4. \A s \in Requests : Established(request[s])'
  BY <1>2, <1>3 DEF ReliedUponStaysTrue
<1>5. QED
  BY <1>1, <1>4 DEF ReliedUponStaysTrue, records

(* A snapshot of current records is a proposal.                            *)
LEMMA SnapshotType ==
    ASSUME TypeOK, NEW e \in Employees, NEW t \in Tickets
    PROVE  Snapshot(e, t) \in Proposal
BY DEF TypeOK, Snapshot, Proposal, Ticket, Integration

(* Steps that only read records: what they put into the invocation is well *)
(* typed and established.                                                  *)

(* An invocation that ends or crashes leaves types and reliance true.      *)
LEMMA EndStep ==
    ASSUME TypeOK, ReliedUponStaysTrue, NEW r \in Requests, End(r)
    PROVE  TypeOK' /\ ReliedUponStaysTrue'
<1>1. Idle \in Request BY DEF Request
<1>2. Established(Idle) BY DEF Established, Idle, ExecutorSteps, VerifierSteps
<1>3. QED BY <1>1, <1>2, LocalStep DEF End

(* validate_proposal hands on a well-typed snapshot of the records it read. *)
LEMMA ValidateProposalStep ==
    ASSUME TypeOK, ReliedUponStaysTrue, NEW r \in Requests, NEW e \in Employees,
           NEW t \in Tickets, NEW id \in ProposalIds, ValidateProposal(r, e, t, id)
    PROVE  TypeOK' /\ ReliedUponStaysTrue'
<1> DEFINE local == [pc |-> "recheck_save", proposal_id |-> id, snapshot |-> Snapshot(e, t)]
<1>1. local \in Request BY SnapshotType DEF Request, SaveRequest
<1>2. Established(local) BY DEF Established, ExecutorSteps, VerifierSteps
<1>3. request' = [request EXCEPT ![r] = local] BY DEF ValidateProposal, Begin
<1>4. QED BY <1>1, <1>2, <1>3, LocalStep DEF ValidateProposal

(* An answer establishes nothing that a later step relies on.              *)
LEMMA AnswerType ==
    ASSUME NEW kind \in {"proposal", "approval", "execution", "verification"},
           NEW p \in ProposalIds,
           NEW receipt \in Proposal \cup Approval \cup Execution \cup Verification
    PROVE  /\ Answer(kind, p, receipt) \in Request
           /\ Answer(kind, p, receipt).pc = "answered"
           /\ Established(Answer(kind, p, receipt))
<1>1. Answer(kind, p, receipt) \in Request
  BY DEF Answer, Request, AnsweredRequest
<1>2. Established(Answer(kind, p, receipt))
  BY DEF Answer, Established, ExecutorSteps, VerifierSteps
<1>3. QED BY <1>1, <1>2 DEF Answer

(* The recheck before save_proposal only moves the invocation on.          *)
LEMMA RecheckProposalStep ==
    ASSUME TypeOK, ReliedUponStaysTrue, NEW r \in Requests, RecheckProposal(r)
    PROVE  TypeOK' /\ ReliedUponStaysTrue'
<1> DEFINE snapshot == request[r].snapshot
<1>1. request[r] \in SaveRequest
  BY Shapes DEF TypeOK, RecheckProposal
<1>2. CASE snapshot \in DOMAIN fingerprint
  <2> DEFINE local == Answer("proposal", fingerprint[snapshot], snapshot)
  <2>1. fingerprint[snapshot] \in ProposalIds /\ snapshot \in Proposal
    BY <1>1, <1>2 DEF TypeOK, IsTable, SaveRequest
  <2>2. local \in Request /\ Established(local) BY <2>1, AnswerType
  <2>3. request' = [request EXCEPT ![r] = local]
    BY <1>2 DEF RecheckProposal, Continue
  <2>4. QED BY <2>2, <2>3, LocalStep DEF RecheckProposal
<1>3. CASE snapshot \notin DOMAIN fingerprint
  <2> DEFINE local == [request[r] EXCEPT !.pc = "commit_proposal"]
  <2>1. local \in SaveRequest /\ local.pc = "commit_proposal" BY <1>1 DEF SaveRequest
  <2>2. local \in Request /\ Established(local)
    BY <2>1 DEF Request, Established, ExecutorSteps, VerifierSteps
  <2>3. request' = [request EXCEPT ![r] = local]
    BY <1>3 DEF RecheckProposal, Continue
  <2>4. QED BY <2>2, <2>3, LocalStep DEF RecheckProposal
<1>4. QED BY <1>2, <1>3

(* The reviewer check establishes that reviewer and proposer differ.       *)
LEMMA CheckReviewerStep ==
    ASSUME TypeOK, ReliedUponStaysTrue, NEW r \in Requests, NEW e \in Employees,
           NEW p \in ProposalIds, CheckReviewer(r, e, p)
    PROVE  TypeOK' /\ ReliedUponStaysTrue'
<1>1. CASE p \in DOMAIN approval
  <2> DEFINE local == Answer("approval", p, approval[p])
  <2>1. approval[p] \in Approval BY <1>1 DEF TypeOK, IsTable
  <2>2. local \in Request /\ Established(local) BY <2>1, AnswerType
  <2>3. request' = [request EXCEPT ![r] = local] BY <1>1 DEF CheckReviewer, Begin
  <2>4. QED BY <2>2, <2>3, LocalStep DEF CheckReviewer
<1>2. CASE p \notin DOMAIN approval
  <2> DEFINE local == [pc |-> "commit_approval", proposal_id |-> p, employee |-> e, at |-> now]
  <2>1. local \in Request BY DEF Request, ApproveRequest, TypeOK
  <2>2. Established(local)
    BY DEF Established, CheckReviewer, IsIndependentReviewer, ExecutorSteps, VerifierSteps
  <2>3. request' = [request EXCEPT ![r] = local] BY <1>2 DEF CheckReviewer, Begin
  <2>4. QED BY <2>1, <2>2, <2>3, LocalStep DEF CheckReviewer
<1>3. QED BY <1>1, <1>2

(* The executor check establishes that the proposal exists.                *)
LEMMA CheckExecutorStep ==
    ASSUME TypeOK, ReliedUponStaysTrue, NEW r \in Requests, NEW e \in Employees,
           NEW p \in ProposalIds, CheckExecutor(r, e, p)
    PROVE  TypeOK' /\ ReliedUponStaysTrue'
<1>1. CASE p \in DOMAIN execution
  <2> DEFINE local == Answer("execution", p, execution[p])
  <2>1. execution[p] \in Execution BY <1>1 DEF TypeOK, IsTable
  <2>2. local \in Request /\ Established(local) BY <2>1, AnswerType
  <2>3. request' = [request EXCEPT ![r] = local] BY <1>1 DEF CheckExecutor, Begin
  <2>4. QED BY <2>2, <2>3, LocalStep DEF CheckExecutor
<1>2. CASE p \notin DOMAIN execution
  <2> DEFINE local == [pc |-> "recheck", proposal_id |-> p, employee |-> e, at |-> now,
                       approval_id |-> {}]
  <2>1. local \in Request BY DEF Request, ExecuteRequest, TypeOK
  <2>2. Established(local)
    BY DEF Established, CheckExecutor, ExecutorSteps, VerifierSteps
  <2>3. request' = [request EXCEPT ![r] = local] BY <1>2 DEF CheckExecutor, Begin
  <2>4. QED BY <2>1, <2>2, <2>3, LocalStep DEF CheckExecutor
<1>3. QED BY <1>1, <1>2

(* The check against current records only moves the invocation on.         *)
LEMMA RecheckRecordsStep ==
    ASSUME TypeOK, ReliedUponStaysTrue, NEW r \in Requests, RecheckRecords(r)
    PROVE  TypeOK' /\ ReliedUponStaysTrue'
<1> DEFINE p == request[r].proposal_id
           next == IF RequiresApproval(p) THEN "check_approval" ELSE "read_configuration"
           local == [request[r] EXCEPT !.pc = next]
<1>1. request[r] \in ExecuteRequest /\ Established(request[r])
  BY Shapes DEF TypeOK, RecheckRecords, ReliedUponStaysTrue
<1>2. local \in ExecuteRequest /\ local.pc = next /\ local.proposal_id = p
  BY <1>1 DEF ExecuteRequest
<1>3. p \in DOMAIN proposal
  BY <1>1 DEF Established, RecheckRecords, ExecutorSteps
<1>4. local \in Request BY <1>2 DEF Request
<1>5. Established(local)
  BY <1>2, <1>3 DEF Established, ExecutorSteps, VerifierSteps
<1>6. request' = [request EXCEPT ![r] = local] BY DEF RecheckRecords, Continue
<1>7. QED BY <1>4, <1>5, <1>6, LocalStep DEF RecheckRecords

(* After the approval check the named approval exists and is early enough. *)
LEMMA CheckApprovalStep ==
    ASSUME TypeOK, ReliedUponStaysTrue, NEW r \in Requests, CheckApproval(r)
    PROVE  TypeOK' /\ ReliedUponStaysTrue'
<1> DEFINE p == request[r].proposal_id
           local == [request[r] EXCEPT !.pc = "read_configuration",
                                       !.approval_id = {approval[p].id}]
<1>1. request[r] \in ExecuteRequest /\ Established(request[r])
  BY Shapes DEF TypeOK, CheckApproval, ReliedUponStaysTrue
<1>2. p \in DOMAIN approval /\ approval[p] \in Approval
      /\ approval[p].created_at <= request[r].at
  BY DEF CheckApproval, HasValidApproval, TypeOK, IsTable
<1>3. /\ local \in ExecuteRequest
      /\ local.pc = "read_configuration" /\ local.proposal_id = p
      /\ local.at = request[r].at /\ local.approval_id = {approval[p].id}
  BY <1>1, <1>2 DEF ExecuteRequest, Approval
<1>4. p \in DOMAIN proposal
  BY <1>1 DEF Established, CheckApproval, ExecutorSteps
<1>5. local \in Request BY <1>3 DEF Request
<1>6. Established(local)
  BY <1>2, <1>3, <1>4 DEF Established, ApprovalPrecedes, ExecutorSteps, VerifierSteps
<1>7. request' = [request EXCEPT ![r] = local] BY DEF CheckApproval, Continue
<1>8. QED BY <1>5, <1>6, <1>7, LocalStep DEF CheckApproval

(* The read of apply_execution holds the version the proposal expects.     *)
LEMMA ReadConfigurationStep ==
    ASSUME TypeOK, ReliedUponStaysTrue, NEW r \in Requests, ReadConfiguration(r)
    PROVE  TypeOK' /\ ReliedUponStaysTrue'
<1> DEFINE p == request[r].proposal_id
           i == integration[proposal[p].integration_id]
<1>1. request[r] \in ExecuteRequest /\ Established(request[r])
  BY Shapes DEF TypeOK, ReadConfiguration, ReliedUponStaysTrue
<1>2. p \in DOMAIN proposal /\ proposal[p] \in Proposal
  BY <1>1 DEF Established, ReadConfiguration, ExecutorSteps, TypeOK, IsTable
<1>3. CASE p \in DOMAIN execution
  <2> DEFINE local == Answer("execution", p, execution[p])
  <2>1. execution[p] \in Execution /\ p \in ProposalIds
    BY <1>1, <1>3 DEF TypeOK, IsTable, ExecuteRequest
  <2>2. local \in Request /\ Established(local) BY <2>1, AnswerType
  <2>3. request' = [request EXCEPT ![r] = local] BY <1>3 DEF ReadConfiguration, Continue
  <2>4. QED BY <2>2, <2>3, LocalStep DEF ReadConfiguration
<1>4. CASE p \notin DOMAIN execution
  <2> DEFINE local == [pc |-> "commit_execution", proposal_id |-> p,
                       employee |-> request[r].employee, at |-> request[r].at,
                       approval_id |-> request[r].approval_id, integration |-> i]
  <2>1. i \in Integration BY <1>2 DEF TypeOK, Proposal
  <2>2. local \in CommitExecutionRequest
    BY <1>1, <2>1 DEF ExecuteRequest, CommitExecutionRequest
  <2>3. local \in Request BY <2>2 DEF Request
  <2>4. /\ i.version = proposal[p].expected_configuration_version
        /\ i.endpoint = proposal[p].current_endpoint
        /\ request' = [request EXCEPT ![r] = local]
    BY <1>4 DEF ReadConfiguration, Continue
  <2>5. RequiresApproval(p) => ApprovalPrecedes(p, local.at, local.approval_id)
    BY <1>1 DEF Established, ReadConfiguration
  <2>6. Established(local)
    BY <1>2, <2>4, <2>5 DEF Established, ExecutorSteps, VerifierSteps
  <2>7. QED BY <2>3, <2>4, <2>6, LocalStep DEF ReadConfiguration
<1>5. QED BY <1>3, <1>4

(* The verifier check establishes that the execution exists.               *)
LEMMA CheckVerifierStep ==
    ASSUME TypeOK, ReliedUponStaysTrue, NEW r \in Requests, NEW e \in Employees,
           NEW p \in ProposalIds, CheckVerifier(r, e, p)
    PROVE  TypeOK' /\ ReliedUponStaysTrue'
<1>1. CASE p \in DOMAIN verification
  <2> DEFINE local == Answer("verification", p, verification[p])
  <2>1. verification[p] \in Verification BY <1>1 DEF TypeOK, IsTable
  <2>2. local \in Request /\ Established(local) BY <2>1, AnswerType
  <2>3. request' = [request EXCEPT ![r] = local] BY <1>1 DEF CheckVerifier, Begin
  <2>4. QED BY <2>2, <2>3, LocalStep DEF CheckVerifier
<1>2. CASE p \notin DOMAIN verification
  <2> DEFINE local == [pc |-> "send_event", proposal_id |-> p, employee |-> e, at |-> now]
  <2>1. local \in Request BY DEF Request, VerifyRequest, TypeOK
  <2>2. Established(local)
    BY DEF Established, CheckVerifier, ExecutorSteps, VerifierSteps
  <2>3. request' = [request EXCEPT ![r] = local] BY <1>2 DEF CheckVerifier, Begin
  <2>4. QED BY <2>1, <2>2, <2>3, LocalStep DEF CheckVerifier
<1>3. QED BY <1>1, <1>2

(* Whatever outcome is observed is recorded for the executed endpoint.     *)
LEMMA ObservedType ==
    ASSUME TypeOK, ReliedUponStaysTrue, NEW r \in Requests, NEW outcome \in Outcomes,
           request[r].pc = "await_receipt", Observe(r, outcome)
    PROVE  \E local \in Request :
              /\ request' = [request EXCEPT ![r] = local]
              /\ local.pc = "read_requirements" /\ local.outcome = outcome
              /\ local.proposal_id = request[r].proposal_id
              /\ local.proposal_id \in DOMAIN execution
              /\ local.proposal_id \in DOMAIN proposal
              /\ local.destination = proposal[local.proposal_id].proposed_endpoint
<1> DEFINE local == [pc |-> "read_requirements", proposal_id |-> request[r].proposal_id,
                     at |-> request[r].at, destination |-> request[r].destination,
                     outcome |-> outcome]
<1>1. request[r] \in AwaitRequest /\ Established(request[r])
  BY Shapes DEF TypeOK, ReliedUponStaysTrue
<1>2. local \in RecordRequest BY <1>1 DEF AwaitRequest, RecordRequest
<1>3. local \in Request BY <1>2 DEF Request
<1>4. /\ local.proposal_id \in DOMAIN execution
      /\ local.proposal_id \in DOMAIN proposal
      /\ local.destination = proposal[local.proposal_id].proposed_endpoint
  BY <1>1 DEF Established, VerifierSteps
<1>5. request' = [request EXCEPT ![r] = local] BY DEF Observe, Continue
<1>6. QED BY <1>3, <1>4, <1>5

(* A timeout is recorded as inconclusive, which relies on no receipt.      *)
LEMMA LoseResponseStep ==
    ASSUME TypeOK, ReliedUponStaysTrue, NEW r \in Requests, LoseResponse(r)
    PROVE  TypeOK' /\ ReliedUponStaysTrue'
<1>1. PICK local \in Request :
              /\ request' = [request EXCEPT ![r] = local]
              /\ local.pc = "read_requirements" /\ local.outcome = "inconclusive"
              /\ local.proposal_id = request[r].proposal_id
              /\ local.proposal_id \in DOMAIN execution
              /\ local.proposal_id \in DOMAIN proposal
              /\ local.destination = proposal[local.proposal_id].proposed_endpoint
  BY ObservedType DEF LoseResponse, Outcomes
<1>2. Established(local) BY <1>1 DEF Established, ExecutorSteps, VerifierSteps
<1>3. QED BY <1>1, <1>2, LocalStep DEF LoseResponse

(* The reads of verify hold the version that the execution produced.       *)
LEMMA ReadRequirementsStep ==
    ASSUME TypeOK, ReliedUponStaysTrue, NEW r \in Requests, ReadRequirements(r)
    PROVE  TypeOK' /\ ReliedUponStaysTrue'
<1> DEFINE p == request[r].proposal_id
<1>1. request[r] \in RecordRequest /\ Established(request[r])
  BY Shapes DEF TypeOK, ReadRequirements, ReliedUponStaysTrue
<1>2. /\ p \in DOMAIN proposal /\ proposal[p] \in Proposal /\ p \in DOMAIN execution
      /\ request[r].destination = proposal[p].proposed_endpoint
      /\ request[r].outcome = "delivered" => p \in DOMAIN receiver
  BY <1>1 DEF Established, ReadRequirements, VerifierSteps, TypeOK, IsTable
<1>3. CASE p \in DOMAIN verification
  <2> DEFINE local == Answer("verification", p, verification[p])
  <2>1. verification[p] \in Verification /\ p \in ProposalIds
    BY <1>1, <1>3 DEF TypeOK, IsTable, RecordRequest
  <2>2. local \in Request /\ Established(local) BY <2>1, AnswerType
  <2>3. request' = [request EXCEPT ![r] = local] BY <1>3 DEF ReadRequirements, Continue
  <2>4. QED BY <2>2, <2>3, LocalStep DEF ReadRequirements
<1>4. CASE p \notin DOMAIN verification
  <2> DEFINE local == [pc |-> "commit_verification", proposal_id |-> p,
                       at |-> request[r].at, outcome |-> request[r].outcome,
                       destination |-> request[r].destination,
                       integration |-> integration[proposal[p].integration_id],
                       ticket |-> ticket[proposal[p].ticket_id]]
  <2>1. integration[proposal[p].integration_id] \in Integration
        /\ ticket[proposal[p].ticket_id] \in Ticket
    BY <1>2 DEF TypeOK, Proposal
  <2>2. local \in CommitVerificationRequest
    BY <1>1, <2>1 DEF RecordRequest, CommitVerificationRequest
  <2>3. local \in Request BY <2>2 DEF Request
  <2>4. /\ integration[proposal[p].integration_id].version = ResultOf(p)
        /\ request' = [request EXCEPT ![r] = local]
    BY <1>4 DEF ReadRequirements, Continue, IsConfigured, ResultOf
  <2>5. Established(local)
    BY <1>2, <2>4 DEF Established, ExecutorSteps, VerifierSteps
  <2>6. QED BY <2>3, <2>4, <2>5, LocalStep DEF ReadRequirements
<1>5. QED BY <1>3, <1>4

-----------------------------------------------------------------------------
(* Steps that commit.                                                      *)

RecordsTyped ==
    /\ employee \in [Employees -> Employee]
    /\ customer \in [Customers -> Customer]
    /\ integration \in [Integrations -> Integration]
    /\ ticket \in [Tickets -> Ticket]
    /\ IsTable(proposal, ProposalIds, Proposal)
    /\ IsTable(fingerprint, Proposal, ProposalIds)
    /\ IsTable(approval, DOMAIN proposal, Approval)
    /\ IsTable(execution, DOMAIN proposal, Execution)
    /\ IsTable(verification, DOMAIN execution, Verification)
    /\ IsTable(receiver, DOMAIN execution, Endpoints)
    /\ wire \subseteq Event
    /\ now \in Times

RecordsGrow ==
    /\ Keeps(proposal, proposal')
    /\ Keeps(approval, approval')
    /\ Keeps(execution, execution')
    /\ Keeps(receiver, receiver')

(* A step that lets the tables grow and moves one invocation on.           *)
LEMMA GrowthStep ==
    ASSUME TypeOK, ReliedUponStaysTrue, RecordsTyped', RecordsGrow,
           \A event \in wire' :
               \/ event \in wire
               \/ /\ event.proposal_id \in DOMAIN execution
                  /\ event.destination = proposal[event.proposal_id].proposed_endpoint,
           NEW r \in Requests, NEW local \in Request, Established(local)',
           request' = [request EXCEPT ![r] = local]
    PROVE  TypeOK' /\ ReliedUponStaysTrue'
<1>1. TypeOK' BY DEF TypeOK, RecordsTyped
<1>2. \A s \in Requests : request'[s] = IF s = r THEN local ELSE request[s]
  BY DEF TypeOK
<1>3. ASSUME NEW s \in Requests
      PROVE  Established(request[s])'
  <2>1. request[s] \in Request /\ Established(request[s])
    BY DEF TypeOK, ReliedUponStaysTrue
  <2>2. CASE s = r
    <3>1. request'[s] = local BY <1>2, <2>2
    <3>2. QED BY <3>1
  <2>3. CASE s # r
    <3>1. request'[s] = request[s] BY <1>2, <2>3
    <3>2. \A q \in Request : Established(q) => Established(q)'
      BY EstablishedIsStable DEF RecordsGrow
    <3>3. QED BY <2>1, <3>1, <3>2
  <2>4. QED BY <2>2, <2>3
<1>4. ASSUME NEW event \in wire'
      PROVE  /\ event.proposal_id \in DOMAIN execution'
             /\ event.destination = proposal'[event.proposal_id].proposed_endpoint
  <2>1. /\ event.proposal_id \in DOMAIN execution
        /\ event.destination = proposal[event.proposal_id].proposed_endpoint
    BY DEF ReliedUponStaysTrue
  <2>2. event.proposal_id \in DOMAIN proposal BY <2>1 DEF TypeOK, IsTable
  <2>3. QED BY <2>1, <2>2 DEF RecordsGrow, Keeps
<1>5. QED BY <1>1, <1>3, <1>4 DEF ReliedUponStaysTrue

(* A table whose receipts are those of saved proposals stays one when the  *)
(* proposals grow.                                                         *)
LEMMA KeptDomain ==
    ASSUME NEW items, NEW next, Keeps(items, next)
    PROVE  DOMAIN items \subseteq DOMAIN next
BY DEF Keeps

(* A saved proposal is well typed and keeps every proposal before it.      *)
LEMMA CommitProposalStep ==
    ASSUME TypeOK, ReliedUponStaysTrue, NEW r \in Requests, CommitProposal(r)
    PROVE  TypeOK' /\ ReliedUponStaysTrue'
<1> DEFINE id == request[r].proposal_id
           snapshot == request[r].snapshot
<1>1. request[r] \in SaveRequest
  BY Shapes DEF TypeOK, CommitProposal
<1>2. id \in ProposalIds /\ snapshot \in Proposal BY <1>1 DEF SaveRequest
<1>3. CASE /\ IsNewProposal(id, snapshot)
           /\ proposal' = Put(proposal, id, snapshot)
           /\ fingerprint' = Put(fingerprint, snapshot, id)
           /\ Continue(r, Answer("proposal", id, snapshot))
  <2>1. PICK local \in Request :
            local = Answer("proposal", id, snapshot) /\ local.pc = "answered"
    BY <1>2, AnswerType
  <2>2. Established(local)'
    BY <2>1 DEF Established, ExecutorSteps, VerifierSteps
  <2>3. Keeps(proposal, proposal') BY <1>3, PutKeeps DEF IsNewProposal
  <2>4. RecordsGrow BY <2>3 DEF RecordsGrow, CommitProposal, Keeps
  <2>5. IsTable(proposal', ProposalIds, Proposal) /\ IsTable(fingerprint', Proposal, ProposalIds)
    BY <1>2, <1>3, PutType DEF TypeOK
  <2>6. DOMAIN proposal \subseteq DOMAIN proposal' BY <2>3, KeptDomain
  <2>7. /\ IsTable(approval', DOMAIN proposal', Approval)
        /\ IsTable(execution', DOMAIN proposal', Execution)
    BY <2>6, WiderKeys DEF TypeOK, CommitProposal
  <2>8. RecordsTyped' BY <2>5, <2>7 DEF RecordsTyped, TypeOK, CommitProposal
  <2>9. request' = [request EXCEPT ![r] = local] BY <1>3, <2>1 DEF Continue
  <2>10. wire' = wire BY DEF CommitProposal
  <2>11. QED BY <2>1, <2>2, <2>4, <2>8, <2>9, <2>10, GrowthStep
<1>4. CASE /\ snapshot \in DOMAIN fingerprint
           /\ Continue(r, Answer("proposal", fingerprint[snapshot], snapshot))
           /\ UNCHANGED <<proposal, fingerprint>>
  <2> DEFINE local == Answer("proposal", fingerprint[snapshot], snapshot)
  <2>1. fingerprint[snapshot] \in ProposalIds BY <1>4 DEF TypeOK, IsTable
  <2>2. local \in Request /\ Established(local) BY <1>2, <2>1, AnswerType
  <2>3. request' = [request EXCEPT ![r] = local] BY <1>4 DEF Continue
  <2>4. QED BY <1>4, <2>2, <2>3, LocalStep DEF CommitProposal, records
<1>5. QED BY <1>3, <1>4 DEF CommitProposal

(* A saved approval is well typed and keeps every approval before it.      *)
LEMMA CommitApprovalStep ==
    ASSUME TypeOK, ReliedUponStaysTrue, NEW r \in Requests, CommitApproval(r)
    PROVE  TypeOK' /\ ReliedUponStaysTrue'
<1> DEFINE p == request[r].proposal_id
           mine == [id |-> r, approved_by_employee_id |-> request[r].employee,
                    created_at |-> request[r].at]
           receipt == StoredReceipt(approval, p, mine)
<1>1. request[r] \in ApproveRequest /\ Established(request[r])
  BY Shapes DEF TypeOK, CommitApproval, ReliedUponStaysTrue
<1>2. p \in DOMAIN proposal /\ p \in ProposalIds
  BY <1>1 DEF Established, CommitApproval, ApproveRequest
<1>3. mine \in Approval BY <1>1 DEF ApproveRequest, Approval
<1>4. receipt \in Approval
  BY <1>3 DEF StoredReceipt, TypeOK, IsTable
<1>5. PICK local \in Request : local = Answer("approval", p, receipt) /\ local.pc = "answered"
  BY <1>2, <1>4, AnswerType
<1>6. Established(local)'
  BY <1>5 DEF Established, ExecutorSteps, VerifierSteps
<1>7. Keeps(approval, approval')
  BY PutIfAbsentStores DEF CommitApproval
<1>8. IsTable(approval', DOMAIN proposal, Approval)
  BY <1>2, <1>3, PutIfAbsentType DEF CommitApproval, TypeOK
<1>9. RecordsTyped' BY <1>8 DEF RecordsTyped, TypeOK, CommitApproval
<1>10. RecordsGrow BY <1>7 DEF RecordsGrow, CommitApproval, Keeps
<1>11. request' = [request EXCEPT ![r] = local] BY <1>5 DEF CommitApproval, Continue
<1>12. wire' = wire BY DEF CommitApproval
<1>13. QED BY <1>5, <1>6, <1>9, <1>10, <1>11, <1>12, GrowthStep

(* The execution receipt of a commit carries the version after the one the *)
(* proposal expected, which is the one the transaction replaces.           *)
LEMMA CommitExecutionStep ==
    ASSUME TypeOK, ReliedUponStaysTrue, NEW r \in Requests, CommitExecution(r)
    PROVE  TypeOK' /\ ReliedUponStaysTrue'
<1> DEFINE p == request[r].proposal_id
           i == proposal[p].integration_id
           read == request[r].integration
           mine == [id |-> r,
                    executed_by_employee_id |-> request[r].employee,
                    approval_id |-> request[r].approval_id,
                    executed_at |-> request[r].at,
                    resulting_configuration_version |->
                        proposal[p].expected_configuration_version + 1]
           after == Updated(read, proposal[p].proposed_endpoint)
<1>1. request[r] \in CommitExecutionRequest /\ Established(request[r])
  BY Shapes DEF TypeOK, CommitExecution, ReliedUponStaysTrue
<1>2. p \in DOMAIN proposal /\ p \in ProposalIds /\ proposal[p] \in Proposal
  BY <1>1 DEF Established, CommitExecution, CommitExecutionRequest, ExecutorSteps,
              TypeOK, IsTable
<1>3. CASE /\ IsUnchanged(i, read)
           /\ p \notin DOMAIN execution
           /\ integration' = [integration EXCEPT ![i] = after]
           /\ execution' = Put(execution, p, mine)
           /\ Continue(r, Answer("execution", p, mine))
  <2>1. mine \in Execution
    BY <1>1, <1>2 DEF CommitExecutionRequest, Execution, Proposal
  <2>2. PICK local \in Request :
            local = Answer("execution", p, mine) /\ local.pc = "answered"
    BY <1>2, <2>1, AnswerType
  <2>3. Established(local)'
    BY <2>2 DEF Established, ExecutorSteps, VerifierSteps
  <2>4. after \in Integration
    <3>1. read \in Integration BY <1>1 DEF CommitExecutionRequest
    <3>2. proposal[p].proposed_endpoint \in Endpoints BY <1>2 DEF Proposal
    <3>3. QED BY <3>1, <3>2 DEF Integration, Updated
  <2>5. integration' \in [Integrations -> Integration]
    BY <1>2, <1>3, <2>4 DEF TypeOK, Proposal
  <2>6. Keeps(execution, execution') BY <1>3, PutKeeps
  <2>7. RecordsGrow BY <2>6 DEF RecordsGrow, CommitExecution, Keeps
  <2>8. IsTable(execution', DOMAIN proposal, Execution)
    BY <1>2, <1>3, <2>1, PutType DEF TypeOK
  <2>9. DOMAIN execution \subseteq DOMAIN execution' BY <2>6, KeptDomain
  <2>10. /\ IsTable(verification', DOMAIN execution', Verification)
         /\ IsTable(receiver', DOMAIN execution', Endpoints)
    BY <2>9, WiderKeys DEF TypeOK, CommitExecution
  <2>11. RecordsTyped'
    BY <2>5, <2>8, <2>10 DEF RecordsTyped, TypeOK, CommitExecution
  <2>12. request' = [request EXCEPT ![r] = local] BY <1>3, <2>2 DEF Continue
  <2>13. wire' = wire BY DEF CommitExecution
  <2>14. QED BY <2>2, <2>3, <2>7, <2>11, <2>12, <2>13, GrowthStep
<1>4. CASE /\ p \in DOMAIN execution
           /\ Continue(r, Answer("execution", p, execution[p]))
           /\ UNCHANGED <<integration, execution>>
  <2> DEFINE local == Answer("execution", p, execution[p])
  <2>1. execution[p] \in Execution BY <1>4 DEF TypeOK, IsTable
  <2>2. local \in Request /\ Established(local) BY <1>2, <2>1, AnswerType
  <2>3. request' = [request EXCEPT ![r] = local] BY <1>4 DEF Continue
  <2>4. QED BY <1>4, <2>2, <2>3, LocalStep DEF CommitExecution, records
<1>5. QED BY <1>3, <1>4 DEF CommitExecution

(* A saved verification is well typed; ticket and integration stay so.     *)
LEMMA CommitVerificationStep ==
    ASSUME TypeOK, ReliedUponStaysTrue, NEW r \in Requests, CommitVerification(r)
    PROVE  TypeOK' /\ ReliedUponStaysTrue'
<1> DEFINE p == request[r].proposal_id
           t == proposal[p].ticket_id
           mine == [id |-> r, outcome |-> request[r].outcome,
                    destination |-> request[r].destination, verified_at |-> request[r].at]
           after == [request[r].ticket EXCEPT !.status = StatusAfter(mine.outcome)]
<1>1. request[r] \in CommitVerificationRequest /\ Established(request[r])
  BY Shapes DEF TypeOK, CommitVerification, ReliedUponStaysTrue
<1>2. /\ p \in DOMAIN execution /\ p \in ProposalIds
      /\ p \in DOMAIN proposal /\ proposal[p] \in Proposal
  BY <1>1 DEF Established, CommitVerification, CommitVerificationRequest, VerifierSteps,
              TypeOK, IsTable
<1>3. CASE /\ p \notin DOMAIN verification
           /\ verification' = Put(verification, p, mine)
           /\ ticket' = [ticket EXCEPT ![t] = after]
           /\ Continue(r, Answer("verification", p, mine))
  <2>1. mine \in Verification
    BY <1>1 DEF CommitVerificationRequest, Verification
  <2>2. PICK local \in Request :
            local = Answer("verification", p, mine) /\ local.pc = "answered"
    BY <1>2, <2>1, AnswerType
  <2>3. Established(local)'
    BY <2>2 DEF Established, ExecutorSteps, VerifierSteps
  <2>4. StatusAfter(mine.outcome) \in TicketStatuses BY DEF StatusAfter, TicketStatuses
  <2>5. after \in Ticket
    BY <1>1, <2>4 DEF CommitVerificationRequest, Ticket
  <2>6. ticket' \in [Tickets -> Ticket]
    BY <1>2, <1>3, <2>5 DEF TypeOK, Proposal
  <2>7. IsTable(verification', DOMAIN execution, Verification)
    BY <1>2, <1>3, <2>1, PutType DEF TypeOK
  <2>8. RecordsGrow BY DEF RecordsGrow, CommitVerification, Keeps
  <2>9. RecordsTyped' BY <2>6, <2>7 DEF RecordsTyped, TypeOK, CommitVerification
  <2>10. request' = [request EXCEPT ![r] = local] BY <1>3, <2>2 DEF Continue
  <2>11. wire' = wire BY DEF CommitVerification
  <2>12. QED BY <2>2, <2>3, <2>8, <2>9, <2>10, <2>11, GrowthStep
<1>4. CASE /\ p \in DOMAIN verification
           /\ Continue(r, Answer("verification", p, verification[p]))
           /\ UNCHANGED <<verification, ticket>>
  <2> DEFINE local == Answer("verification", p, verification[p])
  <2>1. verification[p] \in Verification BY <1>4 DEF TypeOK, IsTable
  <2>2. local \in Request /\ Established(local) BY <1>2, <2>1, AnswerType
  <2>3. request' = [request EXCEPT ![r] = local] BY <1>4 DEF Continue
  <2>4. QED BY <1>4, <2>2, <2>3, LocalStep DEF CommitVerification, records
<1>5. QED BY <1>3, <1>4 DEF CommitVerification

(* A sent event names an executed proposal and the endpoint it executed.   *)
LEMMA SendEventStep ==
    ASSUME TypeOK, ReliedUponStaysTrue, NEW r \in Requests, SendEvent(r)
    PROVE  TypeOK' /\ ReliedUponStaysTrue'
<1> DEFINE p == request[r].proposal_id
           i == integration[proposal[p].integration_id]
           event == [proposal_id |-> p, destination |-> i.endpoint, sender |-> r]
           waiting == [pc |-> "await_receipt", proposal_id |-> p, at |-> request[r].at,
                       destination |-> i.endpoint]
<1>1. request[r] \in VerifyRequest /\ Established(request[r])
  BY Shapes DEF TypeOK, SendEvent, ReliedUponStaysTrue
<1>2. /\ p \in DOMAIN execution /\ p \in ProposalIds
      /\ p \in DOMAIN proposal /\ proposal[p] \in Proposal
  BY <1>1 DEF Established, SendEvent, VerifyRequest, VerifierSteps, TypeOK, IsTable
<1>3. i.endpoint = proposal[p].proposed_endpoint /\ i.endpoint \in Endpoints
  BY <1>2 DEF SendEvent, IsConfigured, Proposal
<1>4. waiting \in AwaitRequest BY <1>1, <1>3 DEF AwaitRequest, VerifyRequest
<1>5. PICK local \in Request : local = waiting
  BY <1>4 DEF Request
<1>6. /\ local.pc = "await_receipt" /\ local.proposal_id = p
      /\ local.destination = proposal[p].proposed_endpoint
  BY <1>3, <1>5
<1>7. UNCHANGED <<employee, customer, records, now>> BY DEF SendEvent
<1>8. Established(local)'
  BY <1>2, <1>6, <1>7 DEF Established, ExecutorSteps, VerifierSteps, records
<1>9. event \in Event BY <1>2, <1>3 DEF Event
<1>10. wire' = wire \cup {event} /\ request' = [request EXCEPT ![r] = local]
  BY <1>5 DEF SendEvent, Continue
<1>11. RecordsTyped'
  BY <1>7, <1>9, <1>10 DEF RecordsTyped, TypeOK, records
<1>12. RecordsGrow BY <1>7 DEF RecordsGrow, Keeps, records
<1>13. ASSUME NEW e \in wire'
       PROVE  \/ e \in wire
              \/ /\ e.proposal_id \in DOMAIN execution
                 /\ e.destination = proposal[e.proposal_id].proposed_endpoint
  BY <1>2, <1>3, <1>10
<1>14. QED BY <1>8, <1>10, <1>11, <1>12, <1>13, GrowthStep

(* A refused event is recorded as an outcome that relies on no receipt.    *)
LEMMA RefuseEventStep ==
    ASSUME TypeOK, ReliedUponStaysTrue, NEW r \in Requests, RefuseEvent(r)
    PROVE  TypeOK' /\ ReliedUponStaysTrue'
<1>1. PICK event \in wire, outcome \in {"failed", "inconclusive"} :
          /\ request[r].pc = "await_receipt"
          /\ wire' = wire \ {event}
          /\ Observe(r, outcome)
          /\ UNCHANGED <<employee, customer, records, now>>
  BY DEF RefuseEvent, AwaitsReceipt
<1>2. PICK local \in Request :
              /\ request' = [request EXCEPT ![r] = local]
              /\ local.pc = "read_requirements" /\ local.outcome = outcome
              /\ local.proposal_id = request[r].proposal_id
              /\ local.proposal_id \in DOMAIN execution
              /\ local.proposal_id \in DOMAIN proposal
              /\ local.destination = proposal[local.proposal_id].proposed_endpoint
  BY <1>1, ObservedType DEF Outcomes
<1>3. Established(local)'
  BY <1>1, <1>2 DEF Established, ExecutorSteps, VerifierSteps, records
<1>4. RecordsTyped' BY <1>1 DEF RecordsTyped, TypeOK, records
<1>5. RecordsGrow BY <1>1 DEF RecordsGrow, Keeps, records
<1>6. \A e \in wire' : e \in wire BY <1>1
<1>7. QED BY <1>2, <1>3, <1>4, <1>5, <1>6, GrowthStep

(* The receiver stores the first event of an execution, always the one for *)
(* the executed endpoint, and answers "delivered" only with that receipt.  *)
LEMMA ReceiveEventStep ==
    ASSUME TypeOK, ReliedUponStaysTrue, NEW event \in wire, ReceiveEvent(event)
    PROVE  TypeOK' /\ ReliedUponStaysTrue'
<1> DEFINE p == event.proposal_id
           r == event.sender
           isNew == p \notin DOMAIN receiver
<1>1. /\ p \in DOMAIN execution /\ p \in ProposalIds /\ r \in Requests
      /\ event.destination \in Endpoints
  BY DEF TypeOK, ReliedUponStaysTrue, Event
<1>2. /\ wire' = wire \ {event}
      /\ receiver' = IF isNew THEN Put(receiver, p, event.destination) ELSE receiver
      /\ UNCHANGED <<employee, customer, integration, ticket, proposal, fingerprint,
                     approval, execution, verification, now>>
  BY DEF ReceiveEvent
<1>3. /\ IsTable(receiver', DOMAIN execution, Endpoints)
      /\ Keeps(receiver, receiver')
      /\ p \in DOMAIN receiver'
  <2>1. CASE isNew
    <3>1. receiver' = Put(receiver, p, event.destination) BY <1>2, <2>1
    <3>2. IsTable(receiver, DOMAIN execution, Endpoints) BY DEF TypeOK
    <3>3. IsTable(receiver', DOMAIN execution, Endpoints) BY <1>1, <3>1, <3>2, PutType
    <3>4. Keeps(receiver, receiver') BY <2>1, <3>1, PutKeeps
    <3>5. p \in DOMAIN receiver' BY <3>1 DEF Put
    <3>6. QED BY <3>3, <3>4, <3>5
  <2>2. CASE ~isNew
    BY <1>2, <2>2 DEF TypeOK, Keeps
  <2>3. QED BY <2>1, <2>2
<1>4. RecordsTyped' BY <1>2, <1>3 DEF RecordsTyped, TypeOK
<1>5. RecordsGrow BY <1>2, <1>3 DEF RecordsGrow, Keeps
<1>6. \A e \in wire' : e \in wire BY <1>2
<1>7. CASE UNCHANGED request
  <2>1. request[r] \in Request /\ Established(request[r])
    BY <1>1 DEF TypeOK, ReliedUponStaysTrue
  <2>2. PICK local \in Request : local = request[r] /\ Established(local)
    BY <2>1
  <2>3. Established(local)'
    BY <1>5, <2>2, EstablishedIsStable DEF RecordsGrow
  <2>4. request' = [request EXCEPT ![r] = local]
    BY <1>7, <2>2 DEF TypeOK
  <2>5. QED BY <1>1, <1>4, <1>5, <1>6, <2>3, <2>4, GrowthStep
<1>8. CASE /\ AwaitsReceipt(r, event)
           /\ \E outcome \in {"delivered", "failed"} : Observe(r, outcome)
  <2>1. PICK outcome \in {"delivered", "failed"} : Observe(r, outcome) BY <1>8
  <2>2. PICK local \in Request :
              /\ request' = [request EXCEPT ![r] = local]
              /\ local.pc = "read_requirements" /\ local.outcome = outcome
              /\ local.proposal_id = request[r].proposal_id
              /\ local.proposal_id \in DOMAIN execution
              /\ local.proposal_id \in DOMAIN proposal
              /\ local.destination = proposal[local.proposal_id].proposed_endpoint
    BY <1>1, <1>8, <2>1, ObservedType DEF Outcomes, AwaitsReceipt
  <2>3. local.proposal_id = p BY <1>8, <2>2 DEF AwaitsReceipt
  <2>4. Established(local)'
    BY <1>2, <1>3, <2>2, <2>3 DEF Established, ExecutorSteps, VerifierSteps
  <2>5. QED BY <1>1, <1>4, <1>5, <1>6, <2>2, <2>4, GrowthStep
<1>9. QED BY <1>7, <1>8 DEF ReceiveEvent

(* The outside changes no receipt and no invocation.                       *)
LEMMA OutsideStep ==
    ASSUME TypeOK, ReliedUponStaysTrue, Outside
    PROVE  TypeOK' /\ ReliedUponStaysTrue'
<1>1. UNCHANGED <<records, wire, request>>
  BY DEF Outside, ChangeEmployee, ChangeCustomer, Tick
<1>2. \A q : Established(q) => Established(q)'
  BY <1>1 DEF Established, ApprovalPrecedes, RequiresApproval, ResultOf, records
<1>3. ReliedUponStaysTrue' BY <1>1, <1>2 DEF ReliedUponStaysTrue, records
<1>4. /\ employee' \in [Employees -> Employee]
      /\ customer' \in [Customers -> Customer]
      /\ now' \in Times
  <2>1. ASSUME NEW e \in Employees, ChangeEmployee(e) PROVE <1>4!:
    BY <2>1, RecordsAssumption DEF ChangeEmployee, TypeOK
  <2>2. ASSUME NEW c \in Customers, ChangeCustomer(c) PROVE <1>4!:
    BY <2>2, RecordsAssumption DEF ChangeCustomer, TypeOK
  <2>3. ASSUME Tick PROVE <1>4!:
    BY <2>3, TimeAssumption DEF Tick, TypeOK, Times
  <2>4. QED BY <2>1, <2>2, <2>3 DEF Outside
<1>5. TypeOK' BY <1>1, <1>4 DEF TypeOK, IsTable, records
<1>6. QED BY <1>3, <1>5

(* The reset workspace is well typed and nothing is relied upon yet.       *)
LEMMA InitialTypes == Init => TypeOK /\ ReliedUponStaysTrue
<1> SUFFICES ASSUME Init PROVE TypeOK /\ ReliedUponStaysTrue OBVIOUS
<1>1. \A keys, bodies : IsTable(NoItems, keys, bodies) BY DEF IsTable, NoItems
<1>2. Idle \in Request /\ Established(Idle)
  BY DEF Request, Established, Idle, ExecutorSteps, VerifierSteps
<1>3. 0 \in Times BY TimeAssumption DEF Times
<1>4. TypeOK
  BY <1>1, <1>2, <1>3, RecordsAssumption DEF Init, TypeOK
<1>5. ReliedUponStaysTrue
  BY <1>2 DEF Init, ReliedUponStaysTrue
<1>6. QED BY <1>4, <1>5

(* Every step keeps types and reliance: one case per action.               *)
LEMMA StepTypes ==
    ASSUME TypeOK, ReliedUponStaysTrue, [Next]_vars
    PROVE  TypeOK' /\ ReliedUponStaysTrue'
<1>1. ASSUME NEW r \in Requests, Invocation(r)
      PROVE  TypeOK' /\ ReliedUponStaysTrue'
  BY <1>1, ValidateProposalStep, RecheckProposalStep, CommitProposalStep,
     CheckReviewerStep, CommitApprovalStep, CheckExecutorStep, RecheckRecordsStep,
     CheckApprovalStep, ReadConfigurationStep, CommitExecutionStep, CheckVerifierStep,
     SendEventStep, LoseResponseStep, RefuseEventStep, ReadRequirementsStep,
     CommitVerificationStep, EndStep
     DEF Invocation
<1>2. CASE UNCHANGED vars
  <2>1. TypeOK' BY <1>2 DEF TypeOK, vars, records, IsTable
  <2>2. ReliedUponStaysTrue'
    BY <1>2 DEF ReliedUponStaysTrue, Established, ApprovalPrecedes, RequiresApproval,
                ResultOf, vars, records
  <2>3. QED BY <2>1, <2>2
<1>3. QED BY <1>1, <1>2, ReceiveEventStep, OutsideStep DEF Next

(* Type correctness, and with it that everything an invocation relies on   *)
(* when it commits is still true: the type invariant alone is not          *)
(* inductive, because a receipt is only well typed when the proposal it    *)
(* was checked against is still there.                                     *)
THEOREM TypesAndReliance == Spec => [](TypeOK /\ ReliedUponStaysTrue)
<1>1. Init => TypeOK /\ ReliedUponStaysTrue BY InitialTypes
<1>2. (TypeOK /\ ReliedUponStaysTrue) /\ [Next]_vars => (TypeOK /\ ReliedUponStaysTrue)'
  BY StepTypes
<1>3. QED BY <1>1, <1>2, PTL DEF Spec

-----------------------------------------------------------------------------
(* What the steps do to the records.  Only three of them change anything   *)
(* the history of an integration or a ticket is made of.                   *)

ProposalSaved(r) ==
    LET id == request[r].proposal_id
        snapshot == request[r].snapshot
    IN  /\ request[r] \in SaveRequest
        /\ IsNewProposal(id, snapshot)
        /\ proposal' = Put(proposal, id, snapshot)
        /\ fingerprint' = Put(fingerprint, snapshot, id)
        /\ UNCHANGED <<integration, ticket, approval, execution, verification>>

ApprovalSaved(r) ==
    LET p == request[r].proposal_id
        mine == [id |-> r, approved_by_employee_id |-> request[r].employee,
                 created_at |-> request[r].at]
    IN  /\ request[r] \in ApproveRequest
        /\ p \in DOMAIN proposal
        /\ RequiresApproval(p)
        /\ request[r].employee # proposal[p].proposed_by_employee_id
        /\ approval' = PutIfAbsent(approval, p, mine)
        /\ UNCHANGED <<integration, ticket, proposal, fingerprint, execution, verification>>

ExecutionApplied(r) ==
    LET p == request[r].proposal_id
        i == proposal[p].integration_id
    IN  /\ p \in DOMAIN proposal \ DOMAIN execution
        /\ integration[i].version = proposal[p].expected_configuration_version
        /\ integration[i].endpoint = proposal[p].current_endpoint
        /\ RequiresApproval(p) =>
               ApprovalPrecedes(p, request[r].at, request[r].approval_id)
        /\ integration' = [integration EXCEPT ![i] =
                               Updated(integration[i], proposal[p].proposed_endpoint)]
        /\ execution' = Put(execution, p,
               [id |-> r,
                executed_by_employee_id |-> request[r].employee,
                approval_id |-> request[r].approval_id,
                executed_at |-> request[r].at,
                resulting_configuration_version |->
                    proposal[p].expected_configuration_version + 1])
        /\ UNCHANGED <<ticket, proposal, fingerprint, approval, verification>>

DeliveryVerified(r) ==
    LET p == request[r].proposal_id
        t == proposal[p].ticket_id
        mine == [id |-> r, outcome |-> request[r].outcome,
                 destination |-> request[r].destination, verified_at |-> request[r].at]
    IN  /\ request[r] \in CommitVerificationRequest
        /\ p \in DOMAIN execution \ DOMAIN verification
        /\ p \in DOMAIN proposal
        /\ integration[proposal[p].integration_id].version = ResultOf(p)
        /\ mine.destination = proposal[p].proposed_endpoint
        /\ mine.outcome = "delivered" => p \in DOMAIN receiver
        /\ verification' = Put(verification, p, mine)
        /\ ticket' = [ticket EXCEPT ![t] =
                         [ticket[t] EXCEPT !.status = StatusAfter(mine.outcome)]]
        /\ UNCHANGED <<integration, proposal, fingerprint, approval, execution>>

NothingSaved ==
    UNCHANGED <<integration, ticket, proposal, fingerprint, approval, execution, verification>>

(* Every step of every handler, of the receiver and of the outside is one  *)
(* of these five, seen by the records.                                     *)
LEMMA StepKinds ==
    ASSUME TypeOK, ReliedUponStaysTrue, [Next]_vars
    PROVE  \/ NothingSaved
           \/ \E r \in Requests : \/ ProposalSaved(r)
                                  \/ ApprovalSaved(r)
                                  \/ ExecutionApplied(r)
                                  \/ DeliveryVerified(r)
<1>1. ASSUME NEW r \in Requests, CommitProposal(r)
      PROVE  NothingSaved \/ ProposalSaved(r)
  BY <1>1, Shapes DEF CommitProposal, NothingSaved, ProposalSaved, TypeOK
<1>2. ASSUME NEW r \in Requests, CommitApproval(r)
      PROVE  ApprovalSaved(r)
  <2>1. request[r] \in ApproveRequest /\ Established(request[r])
    BY <1>2, Shapes DEF TypeOK, CommitApproval, ReliedUponStaysTrue
  <2>2. QED
    BY <1>2, <2>1 DEF CommitApproval, ApprovalSaved, Established
<1>3. ASSUME NEW r \in Requests, CommitExecution(r)
      PROVE  NothingSaved \/ ExecutionApplied(r)
  <2>1. Established(request[r]) /\ request[r].pc = "commit_execution"
    BY <1>3 DEF TypeOK, CommitExecution, ReliedUponStaysTrue
  <2>2. QED
    BY <1>3, <2>1 DEF CommitExecution, NothingSaved, ExecutionApplied, Established,
                      ExecutorSteps, IsUnchanged
<1>4. ASSUME NEW r \in Requests, CommitVerification(r)
      PROVE  NothingSaved \/ DeliveryVerified(r)
  <2>1. /\ Established(request[r]) /\ request[r].pc = "commit_verification"
        /\ request[r] \in CommitVerificationRequest
    BY <1>4, Shapes DEF TypeOK, CommitVerification, ReliedUponStaysTrue
  <2>2. QED
    BY <1>4, <2>1 DEF CommitVerification, NothingSaved, DeliveryVerified, Established,
                      VerifierSteps, IsUnchanged
<1>5. ASSUME NEW r \in Requests, Invocation(r),
             ~CommitProposal(r), ~CommitApproval(r), ~CommitExecution(r), ~CommitVerification(r)
      PROVE  NothingSaved
  BY <1>5 DEF Invocation, NothingSaved, records, ValidateProposal, RecheckProposal,
     CheckReviewer, CheckExecutor, RecheckRecords, CheckApproval, ReadConfiguration,
     CheckVerifier, SendEvent, LoseResponse, RefuseEvent, ReadRequirements, End
<1>6. ASSUME NEW event \in wire, ReceiveEvent(event)
      PROVE  NothingSaved
  BY <1>6 DEF ReceiveEvent, NothingSaved
<1>7. ASSUME Outside
      PROVE  NothingSaved
  BY <1>7 DEF Outside, ChangeEmployee, ChangeCustomer, Tick, records, NothingSaved
<1>8. CASE UNCHANGED vars
  BY <1>8 DEF vars, records, NothingSaved
<1>9. QED
  BY <1>1, <1>2, <1>3, <1>4, <1>5, <1>6, <1>7, <1>8 DEF Next

-----------------------------------------------------------------------------
(* Approval before production execution.                                   *)

(* Every step keeps approvals independent and executions approved.         *)
LEMMA ApprovalStep ==
    ASSUME TypeOK, ReliedUponStaysTrue, ProductionIsIndependentlyApproved, [Next]_vars
    PROVE  ProductionIsIndependentlyApproved'
<1>1. CASE NothingSaved
  BY <1>1 DEF NothingSaved, ProductionIsIndependentlyApproved, ApprovalPrecedes, RequiresApproval
<1>2. ASSUME NEW r \in Requests, ProposalSaved(r)
      PROVE  ProductionIsIndependentlyApproved'
  <2>1. Keeps(proposal, proposal')
    BY <1>2, PutKeeps DEF ProposalSaved, IsNewProposal
  <2>2. \A p \in DOMAIN proposal : proposal'[p] = proposal[p] BY <2>1 DEF Keeps
  <2>3. DOMAIN approval \subseteq DOMAIN proposal /\ DOMAIN execution \subseteq DOMAIN proposal
    BY DEF TypeOK, IsTable
  <2>4. QED
    BY <1>2, <2>2, <2>3 DEF ProposalSaved, ProductionIsIndependentlyApproved,
                            ApprovalPrecedes, RequiresApproval
<1>3. ASSUME NEW r \in Requests, ApprovalSaved(r)
      PROVE  ProductionIsIndependentlyApproved'
  <2> DEFINE p == request[r].proposal_id
             mine == [id |-> r, approved_by_employee_id |-> request[r].employee,
                      created_at |-> request[r].at]
  <2>1. /\ DOMAIN approval' = DOMAIN approval \cup {p}
        /\ approval'[p] = StoredReceipt(approval, p, mine)
        /\ Keeps(approval, approval')
    BY <1>3, PutIfAbsentStores DEF ApprovalSaved
  <2>2. ASSUME NEW q \in DOMAIN approval'
        PROVE  /\ proposal[q].environment = "production"
               /\ approval'[q].approved_by_employee_id # proposal[q].proposed_by_employee_id
    BY <1>3, <2>1 DEF ApprovalSaved, StoredReceipt, Keeps, ProductionIsIndependentlyApproved,
                      RequiresApproval
  <2>3. QED
    BY <1>3, <2>1, <2>2 DEF ApprovalSaved, ProductionIsIndependentlyApproved,
                            ApprovalPrecedes, RequiresApproval, Keeps
<1>4. ASSUME NEW r \in Requests, ExecutionApplied(r)
      PROVE  ProductionIsIndependentlyApproved'
  <2> DEFINE p == request[r].proposal_id
  <2>1. /\ DOMAIN execution' = DOMAIN execution \cup {p}
        /\ execution'[p].executed_at = request[r].at
        /\ execution'[p].approval_id = request[r].approval_id
        /\ Keeps(execution, execution')
    BY <1>4 DEF ExecutionApplied, Put, Keeps
  <2>2. QED
    BY <1>4, <2>1 DEF ExecutionApplied, ProductionIsIndependentlyApproved,
                      ApprovalPrecedes, RequiresApproval, Keeps
<1>5. ASSUME NEW r \in Requests, DeliveryVerified(r)
      PROVE  ProductionIsIndependentlyApproved'
  BY <1>5 DEF DeliveryVerified, ProductionIsIndependentlyApproved, ApprovalPrecedes,
              RequiresApproval
<1>6. QED BY <1>1, <1>2, <1>3, <1>4, <1>5, StepKinds

(* No production change is executed without an earlier approval by         *)
(* somebody other than its proposer, for any number of racing approvers,   *)
(* executors and changes to the employee directory.                        *)
THEOREM ApprovalBeforeExecution == Spec => []ProductionIsIndependentlyApproved
<1> DEFINE IInv == TypeOK /\ ReliedUponStaysTrue /\ ProductionIsIndependentlyApproved
<1>1. Init => IInv
  BY InitialTypes DEF Init, ProductionIsIndependentlyApproved, NoItems
<1>2. IInv /\ [Next]_vars => IInv'
  BY StepTypes, ApprovalStep
<1>3. IInv => ProductionIsIndependentlyApproved OBVIOUS
<1>4. QED BY <1>1, <1>2, <1>3, PTL DEF Spec

-----------------------------------------------------------------------------
(* The history of an integration.                                          *)

History == OneReceiptPerVersion /\ EndpointsFollowReceipts

(* A step that leaves integrations and executions alone, and at most adds  *)
(* proposals, leaves the history alone.                                    *)
LEMMA HistoryUnchanged ==
    ASSUME TypeOK, History, UNCHANGED <<integration, execution>>, Keeps(proposal, proposal')
    PROVE  History'
<1>1. DOMAIN execution \subseteq DOMAIN proposal BY DEF TypeOK, IsTable
<1>2. \A p \in DOMAIN execution : proposal'[p] = proposal[p] BY <1>1 DEF Keeps
<1>3. \A i : ExecutedOn(i)' = ExecutedOn(i) BY <1>2 DEF ExecutedOn
<1>4. \A p : ResultOf(p)' = ResultOf(p) BY DEF ResultOf
<1>5. OneReceiptPerVersion' BY <1>3, <1>4 DEF History, OneReceiptPerVersion
<1>6. \A i \in Integrations : ExecutedOn(i) \subseteq DOMAIN execution BY DEF ExecutedOn
<1>7. EndpointsFollowReceipts'
  BY <1>2, <1>3, <1>4, <1>6 DEF History, EndpointsFollowReceipts
<1>8. QED BY <1>5, <1>7 DEF History

(* An execution extends the history of its integration by one version.     *)
LEMMA HistoryExtended ==
    ASSUME TypeOK, History, NEW r \in Requests, ExecutionApplied(r)
    PROVE  History'
<1>a. PICK p \in DOMAIN proposal : p = request[r].proposal_id
  BY DEF ExecutionApplied
<1>b. proposal[p] \in Proposal BY DEF TypeOK, IsTable
<1>c. PICK i \in Integrations : i = proposal[p].integration_id
  BY <1>b DEF Proposal
<1>d. PICK v \in Nat : v = integration[i].version
  BY DEF TypeOK, Integration
<1>1. /\ p \notin DOMAIN execution /\ proposal' = proposal
      /\ proposal[p].integration_id = i
      /\ proposal[p].expected_configuration_version = v
      /\ proposal[p].current_endpoint = integration[i].endpoint
  BY <1>a, <1>c, <1>d DEF ExecutionApplied
<1>2. /\ \A j \in Integrations : integration[j] \in Integration /\ InitIntegration[j] \in Integration
      /\ \A j \in Integrations : integration[j].version \in Nat /\ InitIntegration[j].version \in Nat
  BY RecordsAssumption DEF TypeOK, Integration
<1>3. /\ \A j \in Integrations : j # i => integration'[j] = integration[j]
      /\ integration'[i].version = v + 1
      /\ integration'[i].endpoint = proposal[p].proposed_endpoint
  BY <1>a, <1>c, <1>d DEF ExecutionApplied, Updated, TypeOK
<1>4. /\ DOMAIN execution' = DOMAIN execution \cup {p}
      /\ \A q \in DOMAIN execution : execution'[q] = execution[q]
      /\ execution'[p].resulting_configuration_version = v + 1
  BY <1>a, <1>1 DEF ExecutionApplied, Put
<1>5. /\ \A q \in DOMAIN execution : ResultOf(q)' = ResultOf(q) /\ q # p
      /\ ResultOf(p)' = v + 1
  BY <1>1, <1>4 DEF ResultOf
<1>6. /\ \A j \in Integrations : j # i => ExecutedOn(j)' = ExecutedOn(j)
      /\ ExecutedOn(i)' = ExecutedOn(i) \cup {p}
      /\ \A j : ExecutedOn(j) \subseteq DOMAIN execution
  BY <1>1, <1>4 DEF ExecutedOn
<1>7. \A q \in ExecutedOn(i) : /\ ResultOf(q) \in InitIntegration[i].version + 1 .. v
                               /\ ResultOf(q) # v + 1
  BY <1>d DEF History, OneReceiptPerVersion
<1>8. ASSUME NEW j \in Integrations
      PROVE  LET versions == InitIntegration[j].version + 1 .. integration'[j].version
             IN  /\ InitIntegration[j].version <= integration'[j].version
                 /\ \A q \in ExecutedOn(j)' : ResultOf(q)' \in versions
                 /\ \A n \in versions : \E q \in ExecutedOn(j)' : ResultOf(q)' = n
                 /\ \A q, s \in ExecutedOn(j)' : ResultOf(q)' = ResultOf(s)' => q = s
  <2>1. CASE j # i
    BY <1>3, <1>5, <1>6, <2>1 DEF History, OneReceiptPerVersion
  <2>2. CASE j = i
    <3>1. InitIntegration[i].version <= v BY <1>d DEF History, OneReceiptPerVersion
    <3>2. \A q \in ExecutedOn(i)' : ResultOf(q)' \in InitIntegration[i].version + 1 .. v + 1
      BY <1>1, <1>2, <1>5, <1>6, <1>7, <3>1
    <3>3. \A n \in InitIntegration[i].version + 1 .. v + 1 :
              \E q \in ExecutedOn(i)' : ResultOf(q)' = n
      <4>1. \A n \in InitIntegration[i].version + 1 .. v : \E q \in ExecutedOn(i) : ResultOf(q) = n
        BY <1>d DEF History, OneReceiptPerVersion
      <4>2. \A n \in InitIntegration[i].version + 1 .. v + 1 :
                n = v + 1 \/ n \in InitIntegration[i].version + 1 .. v
        BY <1>1, <1>2
      <4>3. QED BY <1>5, <1>6, <4>1, <4>2
    <3>4. \A q, s \in ExecutedOn(i)' : ResultOf(q)' = ResultOf(s)' => q = s
      <4>1. \A q, s \in ExecutedOn(i) : ResultOf(q) = ResultOf(s) => q = s
        BY <1>1 DEF History, OneReceiptPerVersion
      <4>2. QED BY <1>5, <1>6, <1>7, <4>1
    <3>5. QED BY <1>1, <1>2, <1>3, <2>2, <3>1, <3>2, <3>3, <3>4
  <2>3. QED BY <2>1, <2>2
<1>9. OneReceiptPerVersion' BY <1>8 DEF OneReceiptPerVersion
<1>10. ASSUME NEW j \in Integrations
       PROVE  /\ \A q \in ExecutedOn(j)' :
                     /\ ResultOf(q)' = integration'[j].version
                            => integration'[j].endpoint = proposal[q].proposed_endpoint
                     /\ ResultOf(q)' = InitIntegration[j].version + 1
                            => proposal[q].current_endpoint = InitIntegration[j].endpoint
                     /\ \A s \in ExecutedOn(j)' :
                            ResultOf(s)' = ResultOf(q)' + 1
                                => proposal[s].current_endpoint = proposal[q].proposed_endpoint
              /\ integration'[j].version = InitIntegration[j].version
                     => integration'[j].endpoint = InitIntegration[j].endpoint
  <2>1. CASE j # i
    BY <1>3, <1>5, <1>6, <2>1 DEF History, EndpointsFollowReceipts
  <2>2. CASE j = i
    <3>1. InitIntegration[i].version \in Nat /\ InitIntegration[i].version <= v
      BY <1>2, <1>d DEF History, OneReceiptPerVersion
    <3>2. \A q \in ExecutedOn(i) : ResultOf(q) \in Int /\ ResultOf(q) <= v BY <1>2, <1>7, <3>1
    <3>3. \A q \in ExecutedOn(i)' :
              ResultOf(q)' = v + 1 => integration'[i].endpoint = proposal[q].proposed_endpoint
      BY <1>3, <1>5, <1>6, <1>7
    <3>4. \A q \in ExecutedOn(i)' :
              ResultOf(q)' = InitIntegration[i].version + 1
                  => proposal[q].current_endpoint = InitIntegration[i].endpoint
      BY <1>1, <1>5, <1>6, <3>1, <1>d DEF History, EndpointsFollowReceipts
    <3>5. \A q, s \in ExecutedOn(i)' :
              ResultOf(s)' = ResultOf(q)' + 1
                  => proposal[s].current_endpoint = proposal[q].proposed_endpoint
      <4>1. \A q, s \in ExecutedOn(i) :
                ResultOf(s) = ResultOf(q) + 1
                    => proposal[s].current_endpoint = proposal[q].proposed_endpoint
        BY <1>1 DEF History, EndpointsFollowReceipts
      <4>2. \A q \in ExecutedOn(i) :
                ResultOf(q) = v => integration[i].endpoint = proposal[q].proposed_endpoint
        BY <1>d DEF History, EndpointsFollowReceipts
      <4>3. \A q \in ExecutedOn(i) : ResultOf(q)' = ResultOf(q) BY <1>5, <1>6
      <4>4. QED BY <1>1, <1>5, <1>6, <3>1, <3>2, <4>1, <4>2, <4>3
    <3>6. integration'[i].version # InitIntegration[i].version BY <1>3, <3>1
    <3>7. QED BY <1>3, <2>2, <3>3, <3>4, <3>5, <3>6
  <2>3. QED BY <2>1, <2>2
<1>11. EndpointsFollowReceipts' BY <1>1, <1>10 DEF EndpointsFollowReceipts
<1>12. QED BY <1>9, <1>11 DEF History

(* Every step keeps the receipts the history of the configuration.         *)
LEMMA HistoryStep ==
    ASSUME TypeOK, ReliedUponStaysTrue, History, [Next]_vars
    PROVE  History'
<1>1. \A items : Keeps(items, items) BY DEF Keeps
<1>2. CASE NothingSaved
  BY <1>1, <1>2, HistoryUnchanged DEF NothingSaved
<1>3. ASSUME NEW r \in Requests, ProposalSaved(r) PROVE History'
  <2>1. Keeps(proposal, proposal')
    BY <1>3, PutKeeps DEF ProposalSaved, IsNewProposal
  <2>2. QED BY <1>3, <2>1, HistoryUnchanged DEF ProposalSaved
<1>4. ASSUME NEW r \in Requests, ApprovalSaved(r) PROVE History'
  BY <1>1, <1>4, HistoryUnchanged DEF ApprovalSaved
<1>5. ASSUME NEW r \in Requests, ExecutionApplied(r) PROVE History'
  BY <1>5, HistoryExtended
<1>6. ASSUME NEW r \in Requests, DeliveryVerified(r) PROVE History'
  BY <1>1, <1>6, HistoryUnchanged DEF DeliveryVerified
<1>7. QED BY <1>2, <1>3, <1>4, <1>5, <1>6, StepKinds

(* In the reset workspace every integration is at its seeded version and   *)
(* has no receipt.                                                         *)
LEMMA InitialHistory == Init => History
<1>1. SUFFICES ASSUME Init PROVE History OBVIOUS
<1>2. \A i \in Integrations : ExecutedOn(i) = {} BY <1>1 DEF Init, ExecutedOn, NoItems
<1>3. \A i \in Integrations : InitIntegration[i].version \in Nat
  BY RecordsAssumption DEF Integration
<1>4. QED
  BY <1>1, <1>2, <1>3 DEF Init, History, OneReceiptPerVersion, EndpointsFollowReceipts

(* The versions of an integration and its execution receipts stay in step, *)
(* and the receipts chain the endpoints, for any number of invocations.    *)
(* Neither half is inductive without what an executor has established      *)
(* before it commits.                                                      *)
THEOREM ReceiptsAreTheHistory == Spec => [](OneReceiptPerVersion /\ EndpointsFollowReceipts)
<1> DEFINE IInv == TypeOK /\ ReliedUponStaysTrue /\ History
<1>1. Init => IInv BY InitialTypes, InitialHistory
<1>2. IInv /\ [Next]_vars => IInv' BY StepTypes, HistoryStep
<1>3. IInv => OneReceiptPerVersion /\ EndpointsFollowReceipts BY DEF History
<1>4. QED BY <1>1, <1>2, <1>3, PTL DEF Spec

(* Every stored record and every value an invocation holds stays well      *)
(* typed, for any number of invocations: the second half of                *)
(* TypesAndReliance is what makes it inductive.                            *)
THEOREM RecordTypes == Spec => []TypeOK
<1>1. TypeOK /\ ReliedUponStaysTrue => TypeOK OBVIOUS
<1>2. QED BY <1>1, TypesAndReliance, PTL

(* Each execution started from the endpoint that its predecessor           *)
(* configured, however executors interleave (apply_execution).             *)
THEOREM ReceiptsFormAChain == Spec => []EndpointsFollowReceipts
<1>1. OneReceiptPerVersion /\ EndpointsFollowReceipts => EndpointsFollowReceipts OBVIOUS
<1>2. QED BY <1>1, ReceiptsAreTheHistory, PTL

-----------------------------------------------------------------------------
(* One proposal per business snapshot.                                     *)

(* Only a saved proposal touches proposals and pointers, and it puts both. *)
LEMMA PointersStep ==
    ASSUME TypeOK, ReliedUponStaysTrue, OneProposalPerSnapshot, [Next]_vars
    PROVE  OneProposalPerSnapshot'
<1>1. CASE UNCHANGED <<proposal, fingerprint>>
  BY <1>1 DEF OneProposalPerSnapshot
<1>2. ASSUME NEW r \in Requests, ProposalSaved(r)
      PROVE  OneProposalPerSnapshot'
  <2>1. PICK id, snapshot : id = request[r].proposal_id /\ snapshot = request[r].snapshot
    OBVIOUS
  <2>2. /\ id \notin DOMAIN proposal /\ snapshot \notin DOMAIN fingerprint
        /\ proposal' = Put(proposal, id, snapshot)
        /\ fingerprint' = Put(fingerprint, snapshot, id)
    BY <1>2, <2>1 DEF ProposalSaved, IsNewProposal
  <2>3. QED BY <2>2 DEF OneProposalPerSnapshot, Put
<1>3. QED
  BY <1>1, <1>2, StepKinds DEF NothingSaved, ApprovalSaved, ExecutionApplied, DeliveryVerified

(* Two proposals never share a snapshot and the canonical pointer finds    *)
(* each, for any number of racing saves (DynamoStore.save_proposal).       *)
THEOREM SavesAreDeduplicated == Spec => []OneProposalPerSnapshot
<1> DEFINE IInv == TypeOK /\ ReliedUponStaysTrue /\ OneProposalPerSnapshot
<1>1. Init => IInv
  BY InitialTypes DEF Init, OneProposalPerSnapshot, NoItems
<1>2. IInv /\ [Next]_vars => IInv'
  BY StepTypes, PointersStep
<1>3. IInv => OneProposalPerSnapshot OBVIOUS
<1>4. QED BY <1>1, <1>2, <1>3, PTL DEF Spec

-----------------------------------------------------------------------------
(* The receiver.                                                           *)

EventReceived ==
    \E p \in DOMAIN execution \ DOMAIN receiver :
        /\ receiver' = Put(receiver, p, proposal[p].proposed_endpoint)
        /\ NothingSaved

(* Only a test event writes a receiver receipt, for an executed change,    *)
(* under a new identity, at the executed endpoint.                         *)
LEMMA ReceiverKinds ==
    ASSUME TypeOK, ReliedUponStaysTrue, [Next]_vars
    PROVE  receiver' = receiver \/ EventReceived
<1>1. ASSUME NEW r \in Requests, Invocation(r)
      PROVE  receiver' = receiver
  BY <1>1 DEF Invocation, records, ValidateProposal, RecheckProposal, CommitProposal,
     CheckReviewer, CommitApproval, CheckExecutor, RecheckRecords, CheckApproval,
     ReadConfiguration, CommitExecution, CheckVerifier, SendEvent, LoseResponse, RefuseEvent,
     ReadRequirements, CommitVerification, End
<1>2. ASSUME NEW event \in wire, ReceiveEvent(event)
      PROVE  receiver' = receiver \/ EventReceived
  <2>1. /\ event.proposal_id \in DOMAIN execution
        /\ event.destination = proposal[event.proposal_id].proposed_endpoint
    BY DEF ReliedUponStaysTrue
  <2>2. NothingSaved BY <1>2 DEF ReceiveEvent, NothingSaved
  <2>3. receiver' = IF event.proposal_id \notin DOMAIN receiver
                    THEN Put(receiver, event.proposal_id, event.destination) ELSE receiver
    BY <1>2 DEF ReceiveEvent
  <2>4. QED BY <2>1, <2>2, <2>3 DEF EventReceived
<1>3. ASSUME Outside
      PROVE  receiver' = receiver
  BY <1>3 DEF Outside, ChangeEmployee, ChangeCustomer, Tick, records
<1>4. CASE UNCHANGED vars
  BY <1>4 DEF vars, records
<1>5. QED BY <1>1, <1>2, <1>3, <1>4 DEF Next

(* No step replaces or removes a receipt: one case per kind of step.       *)
LEMMA ReceiptsStay ==
    ASSUME TypeOK, ReliedUponStaysTrue, [Next]_vars
    PROVE  /\ Keeps(proposal, proposal')
           /\ Keeps(approval, approval')
           /\ Keeps(execution, execution')
           /\ Keeps(verification, verification')
           /\ Keeps(receiver, receiver')
<1>1. \A items : Keeps(items, items) BY DEF Keeps
<1>2. Keeps(receiver, receiver')
  BY <1>1, ReceiverKinds, PutKeeps DEF EventReceived
<1>3. CASE NothingSaved
  BY <1>1, <1>2, <1>3 DEF NothingSaved
<1>4. ASSUME NEW r \in Requests, ProposalSaved(r)
      PROVE  Keeps(proposal, proposal') /\ UNCHANGED <<approval, execution, verification>>
  BY <1>4, PutKeeps DEF ProposalSaved, IsNewProposal
<1>5. ASSUME NEW r \in Requests, ApprovalSaved(r)
      PROVE  Keeps(approval, approval') /\ UNCHANGED <<proposal, execution, verification>>
  BY <1>5, PutIfAbsentStores DEF ApprovalSaved
<1>6. ASSUME NEW r \in Requests, ExecutionApplied(r)
      PROVE  Keeps(execution, execution') /\ UNCHANGED <<proposal, approval, verification>>
  BY <1>6, PutKeeps DEF ExecutionApplied
<1>7. ASSUME NEW r \in Requests, DeliveryVerified(r)
      PROVE  Keeps(verification, verification') /\ UNCHANGED <<proposal, approval, execution>>
  BY <1>7, PutKeeps DEF DeliveryVerified
<1>8. QED BY <1>1, <1>2, <1>3, <1>4, <1>5, <1>6, <1>7, StepKinds

(* A stored receipt is never replaced or removed, whatever is in flight.   *)
THEOREM ReceiptsAreKept == Spec => ReceiptsAreImmutable
<1>1. Init => TypeOK /\ ReliedUponStaysTrue BY InitialTypes
<1>2. (TypeOK /\ ReliedUponStaysTrue) /\ [Next]_vars => (TypeOK /\ ReliedUponStaysTrue)'
  BY StepTypes
<1>3. (TypeOK /\ ReliedUponStaysTrue) /\ [Next]_vars =>
          [/\ Keeps(proposal, proposal')
           /\ Keeps(approval, approval')
           /\ Keeps(execution, execution')
           /\ Keeps(verification, verification')
           /\ Keeps(receiver, receiver')]_vars
  BY ReceiptsStay
<1>4. QED BY <1>1, <1>2, <1>3, PTL DEF Spec, ReceiptsAreImmutable

(* A recorded delivery stays backed by the receiver's receipt.             *)
LEMMA DeliveryStep ==
    ASSUME TypeOK, ReliedUponStaysTrue, DeliveredWasReceived, [Next]_vars
    PROVE  DeliveredWasReceived'
<1>1. /\ Keeps(proposal, proposal') /\ Keeps(execution, execution')
      /\ Keeps(receiver, receiver')
  BY ReceiptsStay
<1>2. ASSUME NEW p \in DOMAIN receiver
      PROVE  /\ p \in DOMAIN execution' /\ p \in DOMAIN receiver'
             /\ receiver'[p] = receiver[p]
             /\ receiver'[p] = proposal'[p].proposed_endpoint
  <2>1. p \in DOMAIN execution /\ receiver[p] = proposal[p].proposed_endpoint
    BY DEF DeliveredWasReceived
  <2>2. p \in DOMAIN proposal BY <2>1 DEF TypeOK, IsTable
  <2>3. QED BY <1>1, <2>1, <2>2 DEF Keeps
<1>3. ASSUME NEW p \in DOMAIN receiver'
      PROVE  /\ p \in DOMAIN execution'
             /\ receiver'[p] = proposal'[p].proposed_endpoint
  <2>1. CASE receiver' = receiver BY <1>2, <2>1
  <2>2. CASE EventReceived
    <3>1. PICK q \in DOMAIN execution \ DOMAIN receiver :
              /\ receiver' = Put(receiver, q, proposal[q].proposed_endpoint)
              /\ NothingSaved
      BY <2>2 DEF EventReceived
    <3>2. p = q => receiver'[p] = proposal[p].proposed_endpoint BY <3>1 DEF Put
    <3>3. p # q => p \in DOMAIN receiver BY <3>1 DEF Put
    <3>4. QED BY <1>2, <3>1, <3>2, <3>3 DEF NothingSaved
  <2>3. QED BY <2>1, <2>2, ReceiverKinds
<1>4. ASSUME NEW p \in DOMAIN verification, verification[p].outcome = "delivered"
      PROVE  p \in DOMAIN receiver' /\ receiver'[p] = verification[p].destination
  BY <1>2, <1>4 DEF DeliveredWasReceived
<1>5. ASSUME NEW p \in DOMAIN verification', verification'[p].outcome = "delivered"
      PROVE  p \in DOMAIN receiver' /\ receiver'[p] = verification'[p].destination
  <2>1. CASE verification' = verification BY <1>4, <1>5, <2>1
  <2>2. ASSUME NEW r \in Requests, DeliveryVerified(r)
        PROVE  p \in DOMAIN receiver' /\ receiver'[p] = verification'[p].destination
    <3>1. PICK q, mine :
              /\ q = request[r].proposal_id
              /\ mine = [id |-> r, outcome |-> request[r].outcome,
                         destination |-> request[r].destination,
                         verified_at |-> request[r].at]
      OBVIOUS
    <3>2. /\ verification' = Put(verification, q, mine)
          /\ mine.destination = proposal[q].proposed_endpoint
          /\ mine.outcome = "delivered" => q \in DOMAIN receiver
      BY <2>2, <3>1 DEF DeliveryVerified
    <3>3. CASE p = q
      <4>1. verification'[p] = mine BY <3>2, <3>3 DEF Put
      <4>2. q \in DOMAIN receiver BY <1>5, <3>2, <4>1
      <4>3. receiver[q] = proposal[q].proposed_endpoint BY <4>2 DEF DeliveredWasReceived
      <4>4. QED BY <1>2, <3>2, <3>3, <4>1, <4>2, <4>3
    <3>4. CASE p # q
      <4>1. p \in DOMAIN verification /\ verification'[p] = verification[p]
        BY <3>2, <3>4 DEF Put
      <4>2. QED BY <1>4, <1>5, <4>1
    <3>5. QED BY <3>3, <3>4
  <2>3. QED
    BY <2>1, <2>2, StepKinds DEF NothingSaved, ProposalSaved, ApprovalSaved, ExecutionApplied
<1>6. QED BY <1>3, <1>5 DEF DeliveredWasReceived

(* A delivery is only ever recorded for an event that the receiver stored  *)
(* at the executed endpoint, for any number of verifiers, lost answers and *)
(* repeated events.                                                        *)
THEOREM DeliveriesAreBacked == Spec => []DeliveredWasReceived
<1> DEFINE IInv == TypeOK /\ ReliedUponStaysTrue /\ DeliveredWasReceived
<1>1. Init => IInv
  BY InitialTypes DEF Init, DeliveredWasReceived, NoItems
<1>2. IInv /\ [Next]_vars => IInv'
  BY StepTypes, DeliveryStep
<1>3. IInv => DeliveredWasReceived OBVIOUS
<1>4. QED BY <1>1, <1>2, <1>3, PTL DEF Spec

-----------------------------------------------------------------------------
(* The status of a ticket.                                                 *)

IntegrationOf(t) == InitTicket[t].integration_id

(* A verification changes the status of a ticket and nothing else, so all  *)
(* proposals for a ticket are, and stay, about the ticket's integration.   *)
TicketsKeepTheirIntegration ==
    /\ \A t \in Tickets : ticket[t].integration_id = IntegrationOf(t)
    /\ \A p \in DOMAIN proposal : proposal[p].integration_id = IntegrationOf(proposal[p].ticket_id)
    /\ \A r \in InvocationsAt({"recheck_save", "commit_proposal"}) :
           request[r].snapshot.integration_id = IntegrationOf(request[r].snapshot.ticket_id)

(* What an invocation that saves a proposal carries was read from a ticket *)
(* or is what it already carried.                                          *)
LEMMA SnapshotKinds ==
    ASSUME TypeOK, ReliedUponStaysTrue, [Next]_vars,
           NEW r \in Requests, request'[r].pc \in {"recheck_save", "commit_proposal"}
    PROVE  \/ /\ request[r].pc \in {"recheck_save", "commit_proposal"}
              /\ request'[r].snapshot = request[r].snapshot
           \/ \E e \in Employees, t \in Tickets : request'[r].snapshot = Snapshot(e, t)
<1>1. \A s \in Requests : request[s] \in Request BY DEF TypeOK
<1>2. ASSUME NEW s \in Requests, Invocation(s), s # r
      PROVE  request'[r] = request[r]
  BY <1>2 DEF Invocation, ValidateProposal, RecheckProposal, CommitProposal,
     CheckReviewer, CommitApproval, CheckExecutor, RecheckRecords, CheckApproval,
     ReadConfiguration, CommitExecution, CheckVerifier, SendEvent, LoseResponse, RefuseEvent,
     ReadRequirements, CommitVerification, End, Begin, Continue, Observe, TypeOK
<1>3. ASSUME NEW e \in Employees, NEW t \in Tickets, NEW id \in ProposalIds,
             ValidateProposal(r, e, t, id)
      PROVE  request'[r].snapshot = Snapshot(e, t)
  BY <1>3 DEF ValidateProposal, Begin, TypeOK
<1>4. ASSUME RecheckProposal(r)
      PROVE  /\ request[r].pc \in {"recheck_save", "commit_proposal"}
             /\ request'[r].snapshot = request[r].snapshot
  <2>1. request[r] \in SaveRequest /\ request[r].pc = "recheck_save"
    BY <1>4, Shapes DEF TypeOK, RecheckProposal
  <2>2. request[r].snapshot \notin DOMAIN fingerprint
    BY <1>4, <2>1 DEF RecheckProposal, Continue, Answer, TypeOK
  <2>3. request'[r] = [request[r] EXCEPT !.pc = "commit_proposal"]
    BY <1>4, <2>2 DEF RecheckProposal, Continue, TypeOK
  <2>4. QED BY <2>1, <2>3 DEF SaveRequest
<1>5. ASSUME NEW e \in Employees, NEW p \in ProposalIds,
             CheckReviewer(r, e, p) \/ CheckExecutor(r, e, p) \/ CheckVerifier(r, e, p)
      PROVE  FALSE
  BY <1>5 DEF CheckReviewer, CheckExecutor, CheckVerifier, Begin, Answer, TypeOK
<1>6. ASSUME RecheckRecords(r) \/ CheckApproval(r)
      PROVE  FALSE
  <2>1. request[r] \in ExecuteRequest
    BY <1>6, Shapes DEF TypeOK, RecheckRecords, CheckApproval
  <2>2. QED
    BY <1>6, <2>1 DEF RecheckRecords, CheckApproval, Continue, ExecuteRequest, TypeOK
<1>7. ~(CommitProposal(r) \/ CommitApproval(r) \/ ReadConfiguration(r) \/ CommitExecution(r))
  BY DEF CommitProposal, CommitApproval, ReadConfiguration, CommitExecution, Continue, Answer,
         TypeOK
<1>8. ~(SendEvent(r) \/ LoseResponse(r) \/ RefuseEvent(r) \/ ReadRequirements(r)
          \/ CommitVerification(r) \/ End(r))
  BY DEF SendEvent, LoseResponse, RefuseEvent, ReadRequirements, CommitVerification, End,
         Observe, Continue, Answer, Idle, TypeOK
<1>9. ASSUME NEW event \in wire, ReceiveEvent(event)
      PROVE  request'[r] = request[r]
  BY <1>9 DEF ReceiveEvent, Observe, Continue, TypeOK, Event
<1>10. ASSUME Outside \/ UNCHANGED vars
       PROVE  request'[r] = request[r]
  BY <1>10 DEF Outside, ChangeEmployee, ChangeCustomer, Tick, vars
<1>11. QED
  BY <1>2, <1>3, <1>4, <1>5, <1>6, <1>7, <1>8, <1>9, <1>10 DEF Next, Invocation

(* Every step keeps proposals about the integration of their ticket.       *)
LEMMA TicketsStep ==
    ASSUME TypeOK, ReliedUponStaysTrue, TicketsKeepTheirIntegration, [Next]_vars
    PROVE  TicketsKeepTheirIntegration'
<1>1. ASSUME NEW t \in Tickets
      PROVE  ticket'[t].integration_id = IntegrationOf(t)
  <2>1. ASSUME NEW r \in Requests, DeliveryVerified(r)
        PROVE  ticket'[t].integration_id = ticket[t].integration_id
    BY <2>1 DEF DeliveryVerified, TypeOK, Ticket
  <2>2. QED
    BY <2>1, StepKinds DEF NothingSaved, ProposalSaved, ApprovalSaved, ExecutionApplied,
                           TicketsKeepTheirIntegration
<1>2. ASSUME NEW p \in DOMAIN proposal'
      PROVE  proposal'[p].integration_id = IntegrationOf(proposal'[p].ticket_id)
  <2>1. ASSUME NEW r \in Requests, ProposalSaved(r)
        PROVE  proposal'[p].integration_id = IntegrationOf(proposal'[p].ticket_id)
    <3>1. PICK id, snapshot : id = request[r].proposal_id /\ snapshot = request[r].snapshot
      OBVIOUS
    <3>2. /\ proposal' = Put(proposal, id, snapshot)
          /\ snapshot.integration_id = IntegrationOf(snapshot.ticket_id)
      BY <2>1, <3>1 DEF ProposalSaved, SaveRequest, TicketsKeepTheirIntegration, InvocationsAt
    <3>3. QED BY <3>2 DEF TicketsKeepTheirIntegration, Put
  <2>2. QED
    BY <2>1, StepKinds DEF NothingSaved, DeliveryVerified, ApprovalSaved, ExecutionApplied,
                           TicketsKeepTheirIntegration
<1>3. ASSUME NEW r \in Requests, request'[r].pc \in {"recheck_save", "commit_proposal"}
      PROVE  request'[r].snapshot.integration_id = IntegrationOf(request'[r].snapshot.ticket_id)
  <2>1. ASSUME NEW e \in Employees, NEW t \in Tickets
        PROVE  Snapshot(e, t).integration_id = IntegrationOf(Snapshot(e, t).ticket_id)
    BY DEF Snapshot, TicketsKeepTheirIntegration
  <2>2. QED
    BY <1>3, <2>1, SnapshotKinds DEF TicketsKeepTheirIntegration, InvocationsAt
<1>4. QED
  BY <1>1, <1>2, <1>3 DEF TicketsKeepTheirIntegration, InvocationsAt

(* A verification is of the newest version of its ticket's integration, so *)
(* of the newest execution among the ticket's.                             *)
LEMMA OutcomeStep ==
    ASSUME TypeOK, ReliedUponStaysTrue, TicketsKeepTheirIntegration, History,
           TicketShowsLatestOutcome, [Next]_vars
    PROVE  TicketShowsLatestOutcome'
<1>1. /\ DOMAIN verification \subseteq DOMAIN execution
      /\ DOMAIN execution \subseteq DOMAIN proposal
  BY DEF TypeOK, IsTable
<1>2. /\ \A p \in DOMAIN execution : ResultOf(p)' = ResultOf(p)
      /\ \A p \in DOMAIN proposal : proposal'[p] = proposal[p]
  BY ReceiptsStay DEF Keeps, ResultOf
<1>3. CASE UNCHANGED <<ticket, verification>>
  <2>1. \A t : VerifiedFor(t)' = VerifiedFor(t)
    BY <1>1, <1>2, <1>3 DEF VerifiedFor
  <2>2. \A t : VerifiedFor(t) \subseteq DOMAIN execution BY <1>1 DEF VerifiedFor
  <2>3. QED BY <1>2, <1>3, <2>1, <2>2 DEF TicketShowsLatestOutcome
<1>4. ASSUME NEW r \in Requests, DeliveryVerified(r)
      PROVE  TicketShowsLatestOutcome'
  <2>1. PICK p, mine :
            /\ p = request[r].proposal_id
            /\ mine = [id |-> r, outcome |-> request[r].outcome,
                       destination |-> request[r].destination,
                       verified_at |-> request[r].at]
    OBVIOUS
  <2>2. PICK t : t = proposal[p].ticket_id OBVIOUS
  <2>3. /\ p \in DOMAIN execution \ DOMAIN verification
        /\ integration[proposal[p].integration_id].version = ResultOf(p)
        /\ verification' = Put(verification, p, mine)
        /\ ticket' = [ticket EXCEPT ![t] =
                         [ticket[t] EXCEPT !.status = StatusAfter(mine.outcome)]]
    BY <1>4, <2>1, <2>2 DEF DeliveryVerified
  <2>4. p \in DOMAIN proposal /\ proposal[p] \in Proposal /\ t \in Tickets
    BY <1>1, <2>2, <2>3 DEF TypeOK, IsTable, Proposal
  <2>5. PICK i \in Integrations : i = proposal[p].integration_id
    BY <2>4 DEF Proposal
  <2>6. /\ \A s \in Tickets : s # t => ticket'[s] = ticket[s]
        /\ ticket'[t].status = StatusAfter(mine.outcome)
    BY <2>3, <2>4 DEF TypeOK, Ticket
  <2>7. /\ DOMAIN verification' = DOMAIN verification \cup {p}
        /\ verification'[p] = mine
        /\ \A q \in DOMAIN verification : verification'[q] = verification[q]
    BY <2>3 DEF Put
  <2>8. /\ \A s \in Tickets : s # t => VerifiedFor(s)' = VerifiedFor(s)
        /\ VerifiedFor(t)' = VerifiedFor(t) \cup {p}
        /\ \A s \in Tickets : VerifiedFor(s) \subseteq DOMAIN verification
    BY <1>1, <1>2, <2>2, <2>3, <2>4, <2>7 DEF VerifiedFor
  <2>9. ASSUME NEW q \in VerifiedFor(t)
        PROVE  q \in ExecutedOn(i)
    <3>1. q \in DOMAIN proposal /\ q \in DOMAIN execution /\ proposal[q].ticket_id = t
      BY <1>1 DEF VerifiedFor
    <3>2. proposal[q].integration_id = i
      BY <2>2, <2>4, <2>5, <3>1 DEF TicketsKeepTheirIntegration
    <3>3. QED BY <3>1, <3>2 DEF ExecutedOn
  <2>10. p \in ExecutedOn(i) BY <2>3, <2>5 DEF ExecutedOn
  <2>11. /\ InitIntegration[i].version \in Nat /\ integration[i].version \in Nat
    BY RecordsAssumption DEF TypeOK, Integration
  <2>12. \A q \in VerifiedFor(t) :
             ResultOf(q) \in InitIntegration[i].version + 1 .. integration[i].version
    BY <2>9 DEF History, OneReceiptPerVersion
  <2>13. \A q \in VerifiedFor(t) : ResultOf(q) <= ResultOf(p) /\ (ResultOf(q) = ResultOf(p) => q = p)
    BY <2>3, <2>5, <2>9, <2>10, <2>11, <2>12 DEF History, OneReceiptPerVersion
  <2>14. /\ ResultOf(p) \in Int
         /\ \A q \in VerifiedFor(t) : ResultOf(q) \in Int
    BY <2>3, <2>5, <2>11, <2>12
  <2>15. ASSUME NEW q \in VerifiedFor(t)', ResultOf(p)' <= ResultOf(q)'
         PROVE  q = p
    <3>1. q = p \/ q \in VerifiedFor(t) BY <2>8
    <3>2. ASSUME q \in VerifiedFor(t) PROVE q = p
      <4>1. q \in DOMAIN execution BY <1>1, <2>4, <2>8, <3>2
      <4>2. ResultOf(q)' = ResultOf(q) /\ ResultOf(p)' = ResultOf(p) BY <1>2, <2>3, <4>1
      <4>3. ResultOf(p) <= ResultOf(q) BY <2>15, <4>2
      <4>4. ResultOf(q) = ResultOf(p) BY <2>13, <2>14, <3>2, <4>3
      <4>5. QED BY <2>13, <3>2, <4>4
    <3>3. QED BY <3>1, <3>2
  <2>16. ASSUME NEW s \in Tickets
         PROVE  /\ VerifiedFor(s)' = {} => ticket'[s].status = "open"
                /\ \A q \in VerifiedFor(s)' :
                       (\A o \in VerifiedFor(s)' : ResultOf(o)' <= ResultOf(q)') =>
                           ticket'[s].status = IF verification'[q].outcome = "delivered"
                                               THEN "closed" ELSE "needs_attention"
    <3>1. CASE s = t
      BY <2>6, <2>7, <2>8, <2>15, <3>1 DEF StatusAfter
    <3>2. CASE s # t
      <4>1. \A q \in VerifiedFor(s) : ResultOf(q)' = ResultOf(q) BY <1>1, <1>2, <2>8
      <4>2. QED BY <2>6, <2>7, <2>8, <3>2, <4>1 DEF TicketShowsLatestOutcome
    <3>3. QED BY <3>1, <3>2
  <2>17. QED BY <2>16 DEF TicketShowsLatestOutcome
<1>5. QED
  BY <1>3, <1>4, StepKinds DEF NothingSaved, ProposalSaved, ApprovalSaved, ExecutionApplied

(* A ticket shows the outcome of its newest verified execution, for any    *)
(* number of racing verifications.  The versions order the executions, and *)
(* a verification commits only while its own is the newest; that the       *)
(* executions of one ticket share one integration is what makes their      *)
(* versions comparable.                                                    *)
THEOREM TicketsAreCurrent == Spec => []TicketShowsLatestOutcome
<1> DEFINE IInv == /\ TypeOK /\ ReliedUponStaysTrue /\ History
                   /\ TicketsKeepTheirIntegration /\ TicketShowsLatestOutcome
<1>1. ASSUME Init PROVE TicketsKeepTheirIntegration /\ TicketShowsLatestOutcome
  <2>1. \A t \in Tickets : VerifiedFor(t) = {} BY <1>1 DEF Init, VerifiedFor, NoItems
  <2>2. TicketShowsLatestOutcome
    BY <1>1, <2>1, RecordsAssumption DEF Init, TicketShowsLatestOutcome
  <2>3. TicketsKeepTheirIntegration
    BY <1>1 DEF Init, TicketsKeepTheirIntegration, IntegrationOf, InvocationsAt, Idle, NoItems
  <2>4. QED BY <2>2, <2>3
<1>2. Init => IInv BY <1>1, InitialTypes, InitialHistory
<1>3. IInv /\ [Next]_vars => IInv'
  BY StepTypes, HistoryStep, TicketsStep, OutcomeStep
<1>4. IInv => TicketShowsLatestOutcome OBVIOUS
<1>5. QED BY <1>2, <1>3, <1>4, PTL DEF Spec

(* An outcome is recorded only of the execution that runs.  The version    *)
(* compared by the transaction is the tested execution's, and by History   *)
(* the endpoint of that version is the one the test was sent to.           *)
THEOREM OutcomesAreCurrent == Spec => OutcomesAreOfWhatRuns
<1> DEFINE Recorded ==
        \A p \in DOMAIN verification' \ DOMAIN verification :
            LET i == proposal[p].integration_id
            IN  /\ integration[i].version = ResultOf(p)
                /\ integration[i].endpoint = verification'[p].destination
           IInv == TypeOK /\ ReliedUponStaysTrue /\ History
<1>1. ASSUME IInv, [Next]_vars PROVE [Recorded]_vars
  <2>1. CASE verification' = verification BY <2>1
  <2>2. ASSUME NEW r \in Requests, DeliveryVerified(r)
        PROVE  Recorded
    <3> DEFINE p == request[r].proposal_id
               i == proposal[p].integration_id
    <3>1. /\ p \in DOMAIN execution /\ integration[i].version = ResultOf(p)
          /\ DOMAIN verification' = DOMAIN verification \cup {p}
          /\ verification'[p].destination = request[r].destination
      BY <2>2 DEF DeliveryVerified, Put
    <3>2. request[r].destination = proposal[p].proposed_endpoint
      BY <2>2 DEF DeliveryVerified
    <3>3. p \in ExecutedOn(i) /\ i \in Integrations
      BY <1>1, <3>1 DEF ExecutedOn, TypeOK, IsTable, Proposal
    <3>4. integration[i].endpoint = proposal[p].proposed_endpoint
      BY <1>1, <3>1, <3>3 DEF History, EndpointsFollowReceipts
    <3>5. QED BY <3>1, <3>2, <3>4
  <2>3. QED
    BY <1>1, <2>1, <2>2, StepKinds DEF NothingSaved, ProposalSaved, ApprovalSaved,
                                       ExecutionApplied
<1>2. Init => IInv BY InitialTypes, InitialHistory
<1>3. IInv /\ [Next]_vars => IInv' BY StepTypes, HistoryStep
<1>4. QED BY <1>1, <1>2, <1>3, PTL DEF Spec, OutcomesAreOfWhatRuns

-----------------------------------------------------------------------------
(* Answers.                                                                *)

(* The receipt of an answer of this kind is the stored one.                *)
IsStored(kind, p, receipt) ==
    /\ kind \in {"proposal", "approval", "execution", "verification"}
    /\ kind = "proposal" => p \in DOMAIN proposal /\ proposal[p] = receipt
    /\ kind = "approval" => p \in DOMAIN approval /\ approval[p] = receipt
    /\ kind = "execution" => p \in DOMAIN execution /\ execution[p] = receipt
    /\ kind = "verification" => p \in DOMAIN verification /\ verification[p] = receipt

Answers(r, kind, p, receipt) ==
    request' = [request EXCEPT ![r] = Answer(kind, p, receipt)]

(* Saving answers with the proposal the pointer names, its own or another's. *)
LEMMA ProposalAnswers ==
    ASSUME TypeOK, OneProposalPerSnapshot, NEW r \in Requests, request'[r].pc = "answered",
           RecheckProposal(r) \/ CommitProposal(r)
    PROVE  \E p, receipt : /\ Answers(r, "proposal", p, receipt)
                           /\ p \in DOMAIN proposal' /\ proposal'[p] = receipt
<1>1. PICK id, snapshot : id = request[r].proposal_id /\ snapshot = request[r].snapshot
  OBVIOUS
<1>2. request[r] \in SaveRequest
  BY Shapes DEF TypeOK, RecheckProposal, CommitProposal
<1>3. CASE /\ snapshot \in DOMAIN fingerprint
           /\ proposal' = proposal
           /\ Answers(r, "proposal", fingerprint[snapshot], snapshot)
  BY <1>3 DEF OneProposalPerSnapshot
<1>4. CASE /\ proposal' = Put(proposal, id, snapshot)
           /\ Answers(r, "proposal", id, snapshot)
  BY <1>4 DEF Put
<1>5. ASSUME RecheckProposal(r)
      PROVE  /\ snapshot \in DOMAIN fingerprint
             /\ proposal' = proposal
             /\ Answers(r, "proposal", fingerprint[snapshot], snapshot)
  BY <1>1, <1>2, <1>5 DEF RecheckProposal, Continue, Answers, records, SaveRequest, TypeOK
<1>6. QED
  BY <1>1, <1>3, <1>4, <1>5 DEF CommitProposal, Continue, Answers

(* Approving answers with the approval found or committed.                 *)
LEMMA ApprovalAnswers ==
    ASSUME TypeOK, NEW r \in Requests, request'[r].pc = "answered",
           \/ \E e \in Employees, q \in ProposalIds : CheckReviewer(r, e, q)
           \/ CommitApproval(r)
    PROVE  \E p, receipt : /\ Answers(r, "approval", p, receipt)
                           /\ p \in DOMAIN approval' /\ approval'[p] = receipt
<1>1. ASSUME NEW e \in Employees, NEW q \in ProposalIds, CheckReviewer(r, e, q)
      PROVE  /\ Answers(r, "approval", q, approval[q])
             /\ q \in DOMAIN approval /\ approval' = approval
  BY <1>1 DEF CheckReviewer, Begin, Answers, records, TypeOK
<1>2. ASSUME CommitApproval(r)
      PROVE  \E p, mine : /\ approval' = PutIfAbsent(approval, p, mine)
                          /\ Answers(r, "approval", p, StoredReceipt(approval, p, mine))
  BY <1>2 DEF CommitApproval, Continue, Answers
<1>3. QED BY <1>1, <1>2 DEF PutIfAbsent, StoredReceipt, Put

(* Executing answers with the execution found or committed.                *)
LEMMA ExecutionAnswers ==
    ASSUME TypeOK, NEW r \in Requests, request'[r].pc = "answered",
           \/ \E e \in Employees, q \in ProposalIds : CheckExecutor(r, e, q)
           \/ ReadConfiguration(r) \/ CommitExecution(r)
    PROVE  \E p, receipt : /\ Answers(r, "execution", p, receipt)
                           /\ p \in DOMAIN execution' /\ execution'[p] = receipt
<1>1. ASSUME NEW e \in Employees, NEW q \in ProposalIds, CheckExecutor(r, e, q)
      PROVE  /\ Answers(r, "execution", q, execution[q])
             /\ q \in DOMAIN execution /\ execution' = execution
  BY <1>1 DEF CheckExecutor, Begin, Answers, records, TypeOK
<1>2. ASSUME ReadConfiguration(r)
      PROVE  \E p : /\ Answers(r, "execution", p, execution[p])
                    /\ p \in DOMAIN execution /\ execution' = execution
  BY <1>2 DEF ReadConfiguration, Continue, Answers, records, TypeOK
<1>3. ASSUME CommitExecution(r)
      PROVE  \/ \E p : /\ Answers(r, "execution", p, execution[p])
                       /\ p \in DOMAIN execution /\ execution' = execution
             \/ \E p, mine : /\ execution' = Put(execution, p, mine)
                             /\ Answers(r, "execution", p, mine)
  BY <1>3 DEF CommitExecution, Continue, Answers
<1>4. QED BY <1>1, <1>2, <1>3 DEF Put

(* Verifying answers with the verification found or committed.             *)
LEMMA VerificationAnswers ==
    ASSUME TypeOK, NEW r \in Requests, request'[r].pc = "answered",
           \/ \E e \in Employees, q \in ProposalIds : CheckVerifier(r, e, q)
           \/ ReadRequirements(r) \/ CommitVerification(r)
    PROVE  \E p, receipt : /\ Answers(r, "verification", p, receipt)
                           /\ p \in DOMAIN verification' /\ verification'[p] = receipt
<1>1. ASSUME NEW e \in Employees, NEW q \in ProposalIds, CheckVerifier(r, e, q)
      PROVE  /\ Answers(r, "verification", q, verification[q])
             /\ q \in DOMAIN verification /\ verification' = verification
  BY <1>1 DEF CheckVerifier, Begin, Answers, records, TypeOK
<1>2. ASSUME ReadRequirements(r)
      PROVE  \E p : /\ Answers(r, "verification", p, verification[p])
                    /\ p \in DOMAIN verification /\ verification' = verification
  BY <1>2 DEF ReadRequirements, Continue, Answers, records, TypeOK
<1>3. ASSUME CommitVerification(r)
      PROVE  \/ \E p : /\ Answers(r, "verification", p, verification[p])
                       /\ p \in DOMAIN verification /\ verification' = verification
             \/ \E p, mine : /\ verification' = Put(verification, p, mine)
                             /\ Answers(r, "verification", p, mine)
  BY <1>3 DEF CommitVerification, Continue, Answers
<1>4. QED BY <1>1, <1>2, <1>3 DEF Put

(* An invocation that has answered is as it was, or has just answered with *)
(* a stored receipt.                                                       *)
LEMMA AnswerKinds ==
    ASSUME TypeOK, ReliedUponStaysTrue, OneProposalPerSnapshot, [Next]_vars,
           NEW r \in Requests, request'[r].pc = "answered"
    PROVE  \/ request'[r] = request[r]
           \/ \E kind, p, receipt :
                  /\ request'[r] = Answer(kind, p, receipt)
                  /\ IsStored(kind, p, receipt)'
<1>1. ASSUME NEW s \in Requests, Invocation(s), s # r
      PROVE  request'[r] = request[r]
  BY <1>1 DEF Invocation, ValidateProposal, RecheckProposal, CommitProposal,
     CheckReviewer, CommitApproval, CheckExecutor, RecheckRecords, CheckApproval,
     ReadConfiguration, CommitExecution, CheckVerifier, SendEvent, LoseResponse, RefuseEvent,
     ReadRequirements, CommitVerification, End, Begin, Continue, Observe, TypeOK
<1>2. ASSUME NEW kind, NEW p, NEW receipt, Answers(r, kind, p, receipt)
      PROVE  request'[r] = Answer(kind, p, receipt)
  BY <1>2 DEF Answers, TypeOK
<1>3. ASSUME RecheckProposal(r) \/ CommitProposal(r)
      PROVE  \E p, receipt : /\ request'[r] = Answer("proposal", p, receipt)
                             /\ IsStored("proposal", p, receipt)'
  BY <1>2, <1>3, ProposalAnswers DEF IsStored
<1>4. ASSUME \/ \E e \in Employees, q \in ProposalIds : CheckReviewer(r, e, q)
             \/ CommitApproval(r)
      PROVE  \E p, receipt : /\ request'[r] = Answer("approval", p, receipt)
                             /\ IsStored("approval", p, receipt)'
  BY <1>2, <1>4, ApprovalAnswers DEF IsStored
<1>5. ASSUME \/ \E e \in Employees, q \in ProposalIds : CheckExecutor(r, e, q)
             \/ ReadConfiguration(r) \/ CommitExecution(r)
      PROVE  \E p, receipt : /\ request'[r] = Answer("execution", p, receipt)
                             /\ IsStored("execution", p, receipt)'
  BY <1>2, <1>5, ExecutionAnswers DEF IsStored
<1>6. ASSUME \/ \E e \in Employees, q \in ProposalIds : CheckVerifier(r, e, q)
             \/ ReadRequirements(r) \/ CommitVerification(r)
      PROVE  \E p, receipt : /\ request'[r] = Answer("verification", p, receipt)
                             /\ IsStored("verification", p, receipt)'
  BY <1>2, <1>6, VerificationAnswers DEF IsStored
<1>7. ASSUME NEW e \in Employees, NEW t \in Tickets, NEW id \in ProposalIds,
             ValidateProposal(r, e, t, id)
      PROVE  FALSE
  BY <1>7 DEF ValidateProposal, Begin, TypeOK
<1>8. ~(RecheckRecords(r) \/ CheckApproval(r))
  <2>1. ASSUME RecheckRecords(r) \/ CheckApproval(r)
        PROVE  FALSE
    <3>1. request[r] \in ExecuteRequest
      BY <2>1, Shapes DEF TypeOK, RecheckRecords, CheckApproval
    <3>2. QED
      BY <2>1, <3>1 DEF RecheckRecords, CheckApproval, Continue, ExecuteRequest, TypeOK
  <2>2. QED BY <2>1
<1>9. ~(SendEvent(r) \/ LoseResponse(r) \/ RefuseEvent(r) \/ End(r))
  BY DEF SendEvent, LoseResponse, RefuseEvent, End, Observe, Continue, Idle, TypeOK
<1>10. ASSUME NEW event \in wire, ReceiveEvent(event)
       PROVE  request'[r] = request[r]
  BY <1>10 DEF ReceiveEvent, Observe, Continue, TypeOK, Event
<1>11. ASSUME Outside \/ UNCHANGED vars
       PROVE  request'[r] = request[r]
  BY <1>11 DEF Outside, ChangeEmployee, ChangeCustomer, Tick, vars
<1>12. ASSUME Invocation(r)
       PROVE  \E kind, p, receipt : /\ request'[r] = Answer(kind, p, receipt)
                                    /\ IsStored(kind, p, receipt)'
  BY <1>3, <1>4, <1>5, <1>6, <1>7, <1>8, <1>9, <1>12 DEF Invocation
<1>13. QED BY <1>1, <1>10, <1>11, <1>12 DEF Next

(* A receipt that is stored stays stored.                                  *)
LEMMA StoredStays ==
    ASSUME TypeOK, ReliedUponStaysTrue, [Next]_vars,
           NEW kind, NEW p, NEW receipt, IsStored(kind, p, receipt)
    PROVE  IsStored(kind, p, receipt)'
BY ReceiptsStay DEF IsStored, Keeps

(* So every answer that was given keeps being the stored record.           *)
LEMMA AnswersStep ==
    ASSUME TypeOK, ReliedUponStaysTrue, OneProposalPerSnapshot, AnswersAreStored, [Next]_vars
    PROVE  AnswersAreStored'
<1>1. ASSUME NEW r \in Requests, request'[r].pc = "answered"
      PROVE  \E kind, p, receipt : /\ request'[r].kind = kind /\ request'[r].proposal_id = p
                                   /\ request'[r].receipt = receipt
                                   /\ IsStored(kind, p, receipt)'
  <2>1. CASE request'[r] = request[r]
    <3>1. PICK kind, p, receipt : /\ request[r].kind = kind /\ request[r].proposal_id = p
                                  /\ request[r].receipt = receipt
      OBVIOUS
    <3>2. request[r] \in AnsweredRequest BY <1>1, <2>1, Shapes DEF TypeOK
    <3>3. kind \in {"proposal", "approval", "execution", "verification"}
      BY <3>1, <3>2 DEF AnsweredRequest
    <3>4. IsStored(kind, p, receipt)
      BY <1>1, <2>1, <3>1, <3>3 DEF AnswersAreStored, InvocationsAt, IsStored
    <3>5. QED BY <2>1, <3>1, <3>4, StoredStays
  <2>2. ASSUME NEW kind, NEW p, NEW receipt,
               request'[r] = Answer(kind, p, receipt), IsStored(kind, p, receipt)'
        PROVE  /\ request'[r].kind = kind /\ request'[r].proposal_id = p
               /\ request'[r].receipt = receipt
    BY <2>2 DEF Answer
  <2>3. QED BY <1>1, <2>1, <2>2, AnswerKinds
<1>2. QED BY <1>1 DEF AnswersAreStored, InvocationsAt, IsStored

(* Whoever wins or loses a race answers with the record that is stored,    *)
(* for any number of invocations.  A save that finds the pointer answers   *)
(* with the proposal it names: that is why the pointers are part of the    *)
(* induction.                                                              *)
THEOREM AnswersAreTrue == Spec => []AnswersAreStored
<1> DEFINE IInv == /\ TypeOK /\ ReliedUponStaysTrue
                   /\ OneProposalPerSnapshot /\ AnswersAreStored
<1>1. Init => IInv
  BY InitialTypes DEF Init, OneProposalPerSnapshot, NoItems, AnswersAreStored, InvocationsAt, Idle
<1>2. IInv /\ [Next]_vars => IInv'
  BY StepTypes, PointersStep, AnswersStep
<1>3. IInv => AnswersAreStored OBVIOUS
<1>4. QED BY <1>1, <1>2, <1>3, PTL DEF Spec

-----------------------------------------------------------------------------
(* The promise of ChangeControl.                                           *)

ApprovedBy == [p \in DOMAIN approval |-> approval[p].approved_by_employee_id]
Applied == [p \in DOMAIN execution |-> ResultOf(p)]
Judged == [p \in DOMAIN verification |-> verification[p].outcome]
Statuses == [t \in Tickets |-> ticket[t].status]

ControlStep ==
    [Control!Next]_<<Configuration(integration), proposal, ApprovedBy, Applied,
                     DOMAIN receiver, Judged, Statuses>>

(* A reset workspace has the seeded configuration and no changes.          *)
LEMMA RefinesInit == Init => Control!Init
<1> SUFFICES ASSUME Init PROVE Control!Init OBVIOUS
<1>1. /\ ApprovedBy = Control!NoItems /\ Applied = Control!NoItems
      /\ Judged = Control!NoItems /\ proposal = Control!NoItems
      /\ DOMAIN receiver = {}
  BY DEF Init, ApprovedBy, Applied, Judged, NoItems, Control!NoItems
<1>2. Statuses = [t \in Tickets |-> "open"]
  BY RecordsAssumption DEF Init, Statuses
<1>3. QED
  BY <1>1, <1>2 DEF Control!Init, Init, ApprovedBy, Applied, Judged, Statuses

(* What the mapping shows of a table depends on that table only.           *)
LEMMA Hidden ==
    /\ UNCHANGED integration => UNCHANGED Configuration(integration)
    /\ UNCHANGED approval => UNCHANGED ApprovedBy
    /\ UNCHANGED execution => UNCHANGED Applied
    /\ UNCHANGED verification => UNCHANGED Judged
    /\ UNCHANGED ticket => UNCHANGED Statuses
BY DEF Configuration, ApprovedBy, Applied, Judged, Statuses, ResultOf

(* Saving a proposal proposes its snapshot, which nobody proposed before.  *)
LEMMA RefinesPropose ==
    ASSUME TypeOK, OneProposalPerSnapshot, NEW r \in Requests, ProposalSaved(r),
           UNCHANGED receiver
    PROVE  ControlStep
<1>1. PICK id, snapshot : id = request[r].proposal_id /\ snapshot = request[r].snapshot
  OBVIOUS
<1>2. /\ id \in ProposalIds \ DOMAIN proposal
      /\ snapshot \in Proposal \ DOMAIN fingerprint
      /\ proposal' = Put(proposal, id, snapshot)
  BY <1>1 DEF ProposalSaved, SaveRequest, IsNewProposal
<1>3. \A d \in DOMAIN proposal : proposal[d] # snapshot
  BY <1>2 DEF OneProposalPerSnapshot
<1>4. proposal'[id] = snapshot /\ id \in DOMAIN proposal'
  BY <1>2 DEF Put
<1>5. proposal' = Control!Put(proposal, id, proposal'[id])
  BY <1>2, <1>4 DEF Put, Control!Put
<1>6. UNCHANGED <<Configuration(integration), ApprovedBy, Applied, DOMAIN receiver, Judged,
                  Statuses>>
  BY Hidden DEF ProposalSaved
<1>7. Control!Propose(id)
  BY <1>2, <1>3, <1>4, <1>5, <1>6
  DEF Control!Propose, ApprovedBy, Applied, Judged, Statuses
<1>8. QED
  BY <1>2, <1>7 DEF ControlStep, Control!Next

(* The first approval of a change approves it; another one leaves it.      *)
LEMMA RefinesApprove ==
    ASSUME TypeOK, NEW r \in Requests, ApprovalSaved(r), UNCHANGED receiver
    PROVE  ControlStep
<1>1. PICK p, person, mine :
          /\ p = request[r].proposal_id
          /\ person = request[r].employee
          /\ mine = [id |-> r, approved_by_employee_id |-> person, created_at |-> request[r].at]
  OBVIOUS
<1>2. /\ p \in DOMAIN proposal /\ p \in ProposalIds /\ person \in Employees
      /\ proposal[p].environment = "production"
      /\ person # proposal[p].proposed_by_employee_id
      /\ approval' = PutIfAbsent(approval, p, mine)
  BY <1>1 DEF ApprovalSaved, ApproveRequest, RequiresApproval
<1>3. UNCHANGED <<Configuration(integration), proposal, Applied, DOMAIN receiver, Judged,
                  Statuses>>
  BY Hidden DEF ApprovalSaved
<1>4. CASE p \in DOMAIN approval
  BY <1>2, <1>3, <1>4, Hidden DEF PutIfAbsent, ControlStep
<1>5. CASE p \notin DOMAIN approval
  <2>1. approval' = Put(approval, p, mine) BY <1>2, <1>5 DEF PutIfAbsent
  <2>2. ApprovedBy' = Control!Put(ApprovedBy, p, person)
    BY <1>1, <1>5, <2>1 DEF ApprovedBy, Put, Control!Put
  <2>3. p \in DOMAIN proposal \ DOMAIN ApprovedBy BY <1>2, <1>5 DEF ApprovedBy
  <2>4. Control!Approve(p, person)
    BY <1>2, <1>3, <2>2, <2>3 DEF Control!Approve, ApprovedBy, Applied, Judged, Statuses
  <2>5. QED
    BY <1>2, <2>4 DEF ControlStep, Control!Next
<1>6. QED BY <1>4, <1>5

(* A committed execution applies the change to the configuration that its  *)
(* proposal saw, with an approval where one is required.                   *)
LEMMA RefinesApply ==
    ASSUME TypeOK, NEW r \in Requests, ExecutionApplied(r), UNCHANGED receiver
    PROVE  ControlStep
<1>1. PICK p : p = request[r].proposal_id OBVIOUS
<1>2. p \in DOMAIN proposal \ DOMAIN execution /\ p \in ProposalIds /\ proposal[p] \in Proposal
  BY <1>1 DEF ExecutionApplied, TypeOK, IsTable
<1>3. PICK i \in Integrations : i = proposal[p].integration_id
  BY <1>2 DEF Proposal
<1>4. PICK v : v = proposal[p].expected_configuration_version OBVIOUS
<1>5. /\ integration[i].version = v
      /\ integration[i].endpoint = proposal[p].current_endpoint
      /\ proposal[p].environment = "production" => p \in DOMAIN approval
      /\ integration' = [integration EXCEPT ![i] =
                             Updated(integration[i], proposal[p].proposed_endpoint)]
  BY <1>1, <1>3, <1>4 DEF ExecutionApplied, RequiresApproval, ApprovalPrecedes
<1>6. /\ DOMAIN execution' = DOMAIN execution \cup {p}
      /\ execution'[p].resulting_configuration_version = v + 1
      /\ \A q \in DOMAIN execution : execution'[q] = execution[q]
  BY <1>1, <1>2, <1>4 DEF ExecutionApplied, Put
<1>7. Applied' = Control!Put(Applied, p, v + 1)
  BY <1>2, <1>6 DEF Applied, ResultOf, Control!Put
<1>8. PICK before, after :
          /\ before = [endpoint |-> proposal[p].current_endpoint, version |-> v]
          /\ after = [endpoint |-> proposal[p].proposed_endpoint, version |-> v + 1]
  OBVIOUS
<1>9. Configuration(integration)[i] = before
  BY <1>5, <1>8 DEF Configuration
<1>10. Configuration(integration)' = [Configuration(integration) EXCEPT ![i] = after]
  <2>1. /\ integration'[i].endpoint = proposal[p].proposed_endpoint
        /\ integration'[i].version = v + 1
        /\ \A j \in Integrations : j # i => integration'[j] = integration[j]
    BY <1>5 DEF Updated, TypeOK
  <2>2. QED BY <1>8, <2>1 DEF Configuration
<1>11. UNCHANGED <<proposal, ApprovedBy, DOMAIN receiver, Judged, Statuses>>
  BY Hidden DEF ExecutionApplied
<1>12. Control!Apply(p)
  <2>1. p \in DOMAIN proposal \ DOMAIN Applied BY <1>2 DEF Applied
  <2>2. proposal[p].environment = "production" => p \in DOMAIN ApprovedBy
    BY <1>5 DEF ApprovedBy
  <2>3. QED
    BY <1>3, <1>4, <1>7, <1>8, <1>9, <1>10, <1>11, <2>1, <2>2
    DEF Control!Apply, ApprovedBy, Applied, Judged, Statuses
<1>13. QED
  BY <1>2, <1>12 DEF ControlStep, Control!Next

(* A stored test event is received.                                        *)
LEMMA RefinesReceive ==
    ASSUME TypeOK, EventReceived
    PROVE  ControlStep
<1>1. PICK p \in DOMAIN execution \ DOMAIN receiver :
          receiver' = Put(receiver, p, proposal[p].proposed_endpoint) /\ NothingSaved
  BY DEF EventReceived
<1>2. p \in ProposalIds BY DEF TypeOK, IsTable
<1>3. UNCHANGED <<Configuration(integration), proposal, ApprovedBy, Applied, Judged, Statuses>>
  BY <1>1, Hidden DEF NothingSaved
<1>4. DOMAIN receiver' = DOMAIN receiver \cup {p} BY <1>1 DEF Put
<1>5. p \in DOMAIN Applied BY DEF Applied
<1>6. Control!Receive(p)
  BY <1>3, <1>4, <1>5 DEF Control!Receive, ApprovedBy, Applied, Judged, Statuses
<1>7. QED
  BY <1>2, <1>6 DEF ControlStep, Control!Next

(* A committed verification judges a change that is still the current one. *)
LEMMA RefinesJudge ==
    ASSUME TypeOK, NEW r \in Requests, DeliveryVerified(r), UNCHANGED receiver
    PROVE  ControlStep
<1>1. PICK p, outcome, mine :
          /\ p = request[r].proposal_id
          /\ outcome = request[r].outcome
          /\ mine = [id |-> r, outcome |-> outcome, destination |-> request[r].destination,
                     verified_at |-> request[r].at]
  OBVIOUS
<1>2. /\ p \in DOMAIN execution \ DOMAIN verification /\ p \in DOMAIN proposal
      /\ p \in ProposalIds /\ proposal[p] \in Proposal
      /\ outcome \in {"delivered", "failed", "inconclusive"}
  BY <1>1 DEF DeliveryVerified, CommitVerificationRequest, Outcomes, TypeOK, IsTable
<1>3. PICK i \in Integrations, t \in Tickets :
          i = proposal[p].integration_id /\ t = proposal[p].ticket_id
  BY <1>2 DEF Proposal
<1>4. /\ integration[i].version = ResultOf(p)
      /\ outcome = "delivered" => p \in DOMAIN receiver
      /\ verification' = Put(verification, p, mine)
      /\ ticket' = [ticket EXCEPT ![t] = [ticket[t] EXCEPT !.status = StatusAfter(outcome)]]
  BY <1>1, <1>3 DEF DeliveryVerified
<1>5. Judged' = Control!Put(Judged, p, outcome)
  BY <1>1, <1>2, <1>4 DEF Judged, Put, Control!Put
<1>6. Statuses' = [Statuses EXCEPT ![t] = IF outcome = "delivered"
                                          THEN "closed" ELSE "needs_attention"]
  <2>1. /\ ticket'[t].status = StatusAfter(outcome)
        /\ \A s \in Tickets : s # t => ticket'[s] = ticket[s]
    BY <1>4 DEF TypeOK, Ticket
  <2>2. QED BY <2>1 DEF Statuses, StatusAfter
<1>7. UNCHANGED <<Configuration(integration), proposal, ApprovedBy, Applied, DOMAIN receiver>>
  BY Hidden DEF DeliveryVerified
<1>8. Control!Judge(p, outcome)
  <2>1. p \in DOMAIN Applied \ DOMAIN Judged /\ Applied[p] = ResultOf(p)
    BY <1>2 DEF Applied, Judged
  <2>2. Configuration(integration)[i].version = ResultOf(p) BY <1>4 DEF Configuration
  <2>3. QED
    BY <1>3, <1>4, <1>5, <1>6, <1>7, <2>1, <2>2
    DEF Control!Judge, ApprovedBy, Applied, Judged, Statuses
<1>9. QED
  BY <1>2, <1>8 DEF ControlStep, Control!Next

(* Every step is one atomic operation of change control or hidden by it.   *)
LEMMA RefinesNext ==
    ASSUME TypeOK, ReliedUponStaysTrue, OneProposalPerSnapshot, [Next]_vars
    PROVE  ControlStep
<1>1. CASE NothingSaved /\ receiver' = receiver
  BY <1>1, Hidden DEF NothingSaved, ControlStep
<1>2. QED
  BY <1>1, StepKinds, ReceiverKinds, RefinesPropose, RefinesApprove, RefinesApply,
     RefinesReceive, RefinesJudge

(* Racing, retried and lost invocations keep the promise of atomic change  *)
(* control, for every set of people, integrations, tickets and changes.    *)
THEOREM RequestsImplementControl == Spec => ImplementsChangeControl
<1> DEFINE IInv == TypeOK /\ ReliedUponStaysTrue /\ OneProposalPerSnapshot
<1>1. Init => IInv
  BY InitialTypes DEF Init, OneProposalPerSnapshot, NoItems
<1>2. IInv /\ [Next]_vars => IInv'
  BY StepTypes, PointersStep
<1>3. IInv /\ [Next]_vars => ControlStep
  BY RefinesNext
<1>4. QED
  BY <1>1, <1>2, <1>3, RefinesInit, PTL
  DEF Spec, ImplementsChangeControl, Control!Spec, ControlStep, Control!vars,
      ApprovedBy, Applied, Judged, Statuses
=============================================================================
