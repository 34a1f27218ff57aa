----------------------------- MODULE MCRelease -----------------------------
(***************************************************************************)
(* Three invocations over two healthy templates and a broken one.          *)
(***************************************************************************)
EXTENDS Release, TLC
=============================================================================
