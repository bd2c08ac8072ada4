------------------------------ MODULE MCOutbox ------------------------------
(* A bounded instance of Outbox for TLC. No symmetry: Delivers is a liveness *)
(* property.                                                                 *)
EXTENDS Outbox

=============================================================================
