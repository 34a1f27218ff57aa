------------------------ MODULE MCInvestigationGraph ------------------------
(***************************************************************************)
(* An instance of InvestigationGraph in which a review may raise an issue  *)
(* that quotes a policy, or one that does not.                             *)
(***************************************************************************)
EXTENDS InvestigationGraph, TLC
=============================================================================
