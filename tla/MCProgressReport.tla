---------------------------- MODULE MCProgressReport ---------------------------
(******************************************************************************)
(* Small instances of ProgressReport for TLC.                                 *)
(******************************************************************************)
EXTENDS ProgressReport, TLC

CONSTANTS f1, f2

MCNameLen == f1 :> 5 @@ f2 :> 9

================================================================================
