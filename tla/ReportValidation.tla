-------------------------- MODULE ReportValidation --------------------------
(***************************************************************************)
(* What is asked of an investigation report before anything is saved or    *)
(* published under it.  Text is abstract: a report is who drafted it, what *)
(* it concludes and who wrote its findings; an issue is one the review     *)
(* raises, supported by an excerpt of a policy or not.                     *)
(*                                                                         *)
(* A definition called a mutant is not part of the model: it is the        *)
(* definition after it with one mistake in it.                             *)
(***************************************************************************)
EXTENDS Integers, FiniteSets

CONSTANTS
    Policies,        \* the policies of the workspace
    Issues,          \* issues a review may raise
    Verified         \* those whose excerpt is in the policy they name

ASSUME IssuesAssumption == Verified \subseteq Issues

Outcomes == {"proposal_candidate", "blocked"}

(* A result as the model returns it: whose ticket it names, and whether it *)
(* has an endpoint, evidence and blockers.                                 *)
Results ==
    [outcome : Outcomes, ticket : {"none", "selected", "other"},
     endpoint : BOOLEAN, evidence : BOOLEAN, blockers : BOOLEAN]

IsConsistent(result) ==
    IF result.outcome = "proposal_candidate"
    THEN result.ticket # "none" /\ result.endpoint /\ result.evidence /\ ~result.blockers
    ELSE result.blockers

(* A result about no ticket is one about the selected ticket.              *)
IsAboutTicket(result) == result.ticket # "other"

Drafts == {result \in Results : IsConsistent(result) /\ IsAboutTicket(result)}

(* Until it is published, a report is known by the attempt that drafted it *)
(* and the one that wrote its findings.                                    *)
Draft(author, result) ==
    [author |-> author, outcome |-> result.outcome, findings |-> author, revised |-> FALSE]

NoReport == [author |-> 0, outcome |-> "blocked", findings |-> 0, revised |-> FALSE]

-----------------------------------------------------------------------------
(* Answers of the model to a review, and what becomes of the report.       *)

ReviewAnswers == [kind : {"empty", "invalid"}] \cup [kind : {"review"}, issues : SUBSET Issues]

(* Without policies there is no review.  An empty answer is tried again by *)
(* SQS; one that does not parse, or that quotes what no policy says, ends  *)
(* the investigation.                                                      *)
Verdict(answer) ==
    CASE Policies = {} -> "reject"
      [] answer.kind = "empty" -> "retry"
      [] answer.kind = "invalid" -> "reject"
      [] OTHER ->
             IF answer.issues = {} THEN "clean"
             ELSE IF answer.issues \subseteq Verified THEN "issues" ELSE "reject"

(* Mutant: a report that still has issues when it was revised is accepted. *)
AfterLenientReview(verdict, revised) ==
    CASE verdict = "issues" -> IF revised THEN "clean" ELSE "revise"
      [] OTHER -> verdict

(* One revision, and a second review that decides.                         *)
AfterReview(verdict, revised) ==
    CASE verdict = "issues" -> IF revised THEN "reject" ELSE "revise"
      [] OTHER -> verdict

(* The findings are replaced, nothing else.                                *)
Revision(report, author) == [report EXCEPT !.findings = author, !.revised = TRUE]

Receipt(report) ==
    [policies |-> Policies,
     evaluation_count |-> IF report.revised THEN 2 ELSE 1,
     revision_count |-> IF report.revised THEN 1 ELSE 0]
=============================================================================
