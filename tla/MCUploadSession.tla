-------------------------- MODULE MCUploadSession --------------------------
(* Instances of UploadSession. Sessions are told apart only by the capacity *)
(* they share, requests and cleanup workers not at all.                     *)
EXTENDS UploadSession, TLC

Symmetry == Permutations(Puts) \cup Permutations(Cleaners) \cup Permutations(Completes)
             \cup Permutations(Sessions)
=============================================================================
