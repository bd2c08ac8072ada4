--------------------------- MODULE PublishOutcome ---------------------------
(***************************************************************************)
(* What the publish pipeline promises to the rest of the system about one  *)
(* uploaded image, with no worker, lease, attempt or retry in sight:       *)
(*                                                                         *)
(*   - an image that is being processed is resolved once: it becomes       *)
(*     published, or it is rejected and disappears;                        *)
(*   - it is billed to its owner while, and only while, it is published;   *)
(*   - it becomes published only when its public file is stored, and that  *)
(*     file stays stored for as long as the image is published;            *)
(*   - once the image was rejected or removed its public file can only go  *)
(*     away: nobody puts it back.                                          *)
(***************************************************************************)
CONSTANTS
  Images      \* the images handed to the pipeline by completed uploads

VARIABLES
  outcome,    \* what became of the image
  billed,     \* how many times the owner is charged for it now
  stored      \* is the public file on disk

outcomeVars == <<outcome, billed, stored>>

Init ==
  /\ outcome = [i \in Images |-> "processing"]
  /\ billed  = [i \in Images |-> 0]
  /\ stored  = [i \in Images |-> FALSE]

-----------------------------------------------------------------------------

Store(i) ==
  /\ outcome[i] = "processing"
  /\ ~stored[i]
  /\ stored' = [stored EXCEPT ![i] = TRUE]
  /\ UNCHANGED <<outcome, billed>>

Publish(i) ==
  /\ outcome[i] = "processing"
  /\ stored[i]
  /\ outcome' = [outcome EXCEPT ![i] = "published"]
  /\ billed'  = [billed EXCEPT ![i] = 1]
  /\ UNCHANGED stored

Reject(i) ==
  /\ outcome[i] = "processing"
  /\ outcome' = [outcome EXCEPT ![i] = "rejected"]
  /\ UNCHANGED <<billed, stored>>

Remove(i) ==
  /\ outcome[i] = "published"
  /\ outcome' = [outcome EXCEPT ![i] = "removed"]
  /\ billed'  = [billed EXCEPT ![i] = 0]
  /\ UNCHANGED stored

Reclaim(i) ==
  /\ outcome[i] \in {"rejected", "removed"}
  /\ stored[i]
  /\ stored' = [stored EXCEPT ![i] = FALSE]
  /\ UNCHANGED <<outcome, billed>>

-----------------------------------------------------------------------------

Next == \E i \in Images : Store(i) \/ Publish(i) \/ Reject(i) \/ Remove(i) \/ Reclaim(i)

Spec == Init /\ [][Next]_outcomeVars

=============================================================================
