---------------------------- MODULE MCPublishJob ----------------------------
(* Bounded instances of PublishJob for TLC. *)
EXTENDS PublishJobInv

=============================================================================
