------------------------ MODULE MCWorkflowCallbacks ------------------------
(***************************************************************************)
(* Small instances of WorkflowCallbacks: one execution and one caller that *)
(* races it; the .cfg files choose the environment and the faults.         *)
(***************************************************************************)
EXTENDS WorkflowCallbacks, TLC

CONSTANTS run1, call1
=============================================================================
