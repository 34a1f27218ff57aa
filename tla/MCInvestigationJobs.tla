------------------------ MODULE MCInvestigationJobs ------------------------
(***************************************************************************)
(* Instances of InvestigationJobs.  Everybody starts with access; the .cfg *)
(* files choose who may lose it, and how many submissions, workers and     *)
(* deliveries race.                                                        *)
(***************************************************************************)
EXTENDS InvestigationJobs, TLC

CONSTANTS alex

AssignedToAlex == [t \in Tickets |-> alex]

Symmetry ==
    Permutations(Requests) \cup Permutations(JobIds) \cup Permutations(Keys)
        \cup Permutations(Workers)
=============================================================================
