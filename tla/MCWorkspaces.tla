---------------------------- MODULE MCWorkspaces ----------------------------
(***************************************************************************)
(* Instances of Workspaces: two invocations and maintenance.               *)
(***************************************************************************)
EXTENDS Workspaces, TLC

Symmetry ==
    Permutations(Generations) \cup Permutations(Requests) \cup Permutations(Seeds)
=============================================================================
