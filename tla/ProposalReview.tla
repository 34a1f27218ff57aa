--------------------------- MODULE ProposalReview ---------------------------
(***************************************************************************)
(* What an employee is told about a proposal: the review page and the      *)
(* request list show a status.  Both read the proposal, its approval, its  *)
(* execution and its verification one after the other, without a           *)
(* transaction, while the invocations of ChangeManagement write them.      *)
(*                                                                         *)
(* There is one reader, inside the isolation of ChangeManagement: readers  *)
(* write nothing, so they do not disturb each other.                       *)
(*                                                                         *)
(* A definition called a mutant is not part of the model: it is the        *)
(* definition after it with one mistake in it.                             *)
(***************************************************************************)
EXTENDS ChangeManagement

VARIABLE review    \* the reader: what it has read so far, or has shown

NoReview == [pc |-> "idle"]

IsReading == review.pc \notin {"idle", "shown"}

ReviewInit == Init /\ review = NoReview

-----------------------------------------------------------------------------
(* Mutant: a recorded approval hides what came after it.                   *)
StatusOfApproval(p, approved, executed, outcome) ==
    IF approved THEN "approved" ELSE IF executed THEN outcome ELSE proposal[p].environment

(* proposal_status: the furthest receipt that was read decides.  The       *)
(* outcome stands for delivery_verified or manual_intervention_required,   *)
(* or for configuration_updated when it is "none"; the environment stands  *)
(* for approval_not_required or awaiting_approval.                         *)
ProposalStatus(p, approved, executed, outcome) ==
    CASE executed -> outcome
      [] ~executed /\ approved -> "approved"
      [] ~executed /\ ~approved -> proposal[p].environment

-----------------------------------------------------------------------------
(* The review page (read_proposal) and the request list                    *)
(* (get_workflow_status) read alike.  A proposal never changes, so it is   *)
(* read with its approval.                                                 *)

(* History: how far the proposal has come, by the receipts it has.         *)
Progress(p) ==
    Cardinality({i \in 1 .. 3 : p \in DOMAIN <<approval, execution, verification>>[i]})

Open(p) ==
    /\ ~IsReading
    /\ p \in DOMAIN proposal
    /\ \E e \in Employees : HasCustomerAccess(e, proposal[p].customer_id, Roles)
    /\ review' = [pc |-> "read_execution", proposal_id |-> p, since |-> Progress(p),
                  approved |-> p \in DOMAIN approval]

Show(status) == review' = [pc |-> "shown", status |-> status]

(* The verification is looked up by the execution that was read.           *)
ReadExecution ==
    LET p == review.proposal_id
    IN  /\ review.pc = "read_execution"
        /\ IF p \in DOMAIN execution
           THEN review' = [review EXCEPT !.pc = "read_verification"]
           ELSE Show(ProposalStatus(p, review.approved, FALSE, "none"))

ReadVerification ==
    LET p == review.proposal_id
        outcome == IF p \in DOMAIN verification THEN verification[p].outcome ELSE "none"
    IN  /\ review.pc = "read_verification"
        /\ Show(ProposalStatus(p, review.approved, TRUE, outcome))

Reader ==
    \/ \E p \in ProposalIds : Open(p)
    \/ ReadExecution \/ ReadVerification

ReviewNext ==
    \/ Next /\ UNCHANGED review
    \/ Reader /\ UNCHANGED vars

ReviewSpec == ReviewInit /\ [][ReviewNext]_<<vars, review>>

-----------------------------------------------------------------------------
(* How far a status says the proposal has come.                            *)
Told(p, status) ==
    LET approvals == IF proposal[p].environment = "production" THEN 1 ELSE 0
    IN  CASE status \in Environments -> 0
          [] status = "approved" -> 1
          [] status = "none" -> approvals + 1
          [] status \in Outcomes -> approvals + 2

(* A status that is shown is not behind what was true when the reading     *)
(* began and not ahead of what is true when it ends, although the receipts *)
(* are read at different moments and approvals, executions and             *)
(* verifications are committed in between (get_proposal_review,            *)
(* proposal_status).                                                       *)
ShownStatusWasHeld ==
    [][IsReading /\ review'.pc = "shown" =>
           LET p == review.proposal_id
           IN  Told(p, review'.status) \in review.since .. Progress(p)]_<<vars, review>>
=============================================================================
