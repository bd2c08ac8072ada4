----------------------------- MODULE MCSessions -----------------------------
(* Bounded instances of Sessions for TLC.                                  *)
EXTENDS Sessions, TLC

RequestSymmetry == Permutations(Requests)

=============================================================================
