------------------------------- MODULE MCServer -------------------------------
(* Instances of Server for TLC: a process of the newest release and one of   *)
(* a release before the remote lineage columns.                              *)
EXTENDS Server, TLC

CONSTANTS newer, older

MCKnows == newer :> 5 @@ older :> 4
=============================================================================
