------------------------- MODULE UploadSessionProofs -------------------------
(***************************************************************************)
(* What holds of UploadSession for any number of sessions, parts, requests *)
(* and cleanup workers, however many of them crash or fail.                *)
(*                                                                         *)
(* The inductive invariant has a part for each actor. A row says which     *)
(* images and parts go with a status (RowSafe); what is pending for a      *)
(* session (an Init request, a cancellation, a cleanup) constrains its      *)
(* status, because a session that has ended never opens again (Forward).    *)
(* Those facts keep the directory removers off the directories of sessions  *)
(* that take parts.                                                        *)
(***************************************************************************)
EXTENDS UploadSession, FiniteSetTheorems, TLAPS

Over == {"completed", "failed", "cancelled"}

Ended(s) == row[s].status \in Over \cup {"cleanup_pending"}

\* What a row says is consistent: an image goes with its stage of processing, a session
\* that is not over has its directory, and the count is the number of its parts.
Counted(s) == {k \in Kinds : part[s][k] \in {"received", "finalized"}}

RowSafe(s) ==
  /\ row[s].status \in {"none", "initiated", "uploading"} => row[s].image = "none"
  /\ row[s].status = "processing" <=> row[s].image = "processing"
  /\ row[s].image = "completed" => row[s].status \in {"completed", "cleanup_pending"}
  /\ Open(s) \/ row[s].status = "processing" => row[s].path
  /\ row[s].status = "none" => \A k \in Kinds : part[s][k] = "pending"
  /\ Open(s) \/ row[s].status = "processing" => row[s].count = Cardinality(Counted(s))

\* The Init request of s is between its directory and its row, the Cancel request between
\* its rows and its directory.
PendingSafe(s) ==
  /\ s \in opening => row[s].status = "none" /\ s \notin aged
  /\ cancelling[s] # "no" => Ended(s)

\* A cleanup worker that holds a session has one that is over, and knows of the image when
\* it is about to write the end of the session; one that removes an orphan has a directory
\* that no row names and none will.
CleanerSafe(c) ==
  LET s == cleaner[c].s
  IN /\ cleaner[c].pc # "idle" => s \in Sessions
     /\ cleaner[c].pc \in {"inspect", "remove", "finish"} => Ended(s) /\ cleaner[c].seen \in Over
     /\ cleaner[c].pc \in {"remove", "finish"} /\ row[s].image = "completed" =>
          cleaner[c].seen = "completed"
     /\ cleaner[c].pc = "orphan" => s \notin opening /\ ~row[s].path

PutSafe(r) == put[r].pc # "idle" => put[r].s \in Sessions

\* Complete holds the capacity gate of its process until it has undone what it has to, so
\* this says that there is one process.
OneProcess == \A p, q \in Completes : p = q

RestoreSafe(q) ==
  LET s == restoring[q].s
  IN /\ restoring[q].pc # "idle" => s \in Sessions /\ row[s].status # "none"
     /\ OneProcess /\ restoring[q].pc = "unstore" /\ Accepts(s) =>
          restoring[q].parts \subseteq ready[s]

Staged(s) ==
  Accepts(s) => \A k \in Kinds : part[s][k] = "received" => k \in ready[s] \cup stored[s]

FilesSafe(s) ==
  /\ OneProcess => Staged(s)
  /\ Referenced(s) => stored[s] = Persistent

Visible == {s \in Sessions : row[s].image = "completed"}

IInv ==
  /\ TypeOK
  /\ \A s \in Sessions : RowSafe(s)
  /\ \A s \in Sessions : PendingSafe(s)
  /\ \A s \in Sessions : FilesSafe(s)
  /\ \A c \in Cleaners : CleanerSafe(c)
  /\ \A r \in Puts : PutSafe(r)
  /\ \A q \in Completes : RestoreSafe(q)
  /\ used = Cardinality(Visible)
  /\ CapacityRespected

-----------------------------------------------------------------------------
(* Types.                                                                  *)

Typed ==
  /\ row \in [Sessions -> Row] /\ part \in [Sessions -> [Kinds -> PartStatus]]
  /\ used \in Nat
  /\ dir \subseteq Sessions /\ aged \subseteq Sessions /\ opening \subseteq Sessions
  /\ published \subseteq Sessions
  /\ ready \in [Sessions -> SUBSET Kinds] /\ stored \in [Sessions -> SUBSET Persistent]
  /\ temps \in [Sessions -> SUBSET (Puts \cup {Leftover})]
  /\ put \in [Puts -> Put] /\ restoring \in [Completes -> Restore]
  /\ cancelling \in [Sessions -> {"no", "remove", "mark"}]
  /\ swept \in [Sessions -> {"no", "clean", "dirty"}]
  /\ cleaner \in [Cleaners -> Cleaner]
  /\ faults \in 0..MaxFaults

\* A session that accepts parts has its directory and no image, says its row.
LEMMA TypeSplit ==
  ASSUME Typed, \A s \in Sessions : RowSafe(s)
  PROVE  TypeOK
BY DEF Typed, TypeOK, RowSafe, Accepts, Open

LEMMA TypeImplies == TypeOK => Typed
BY DEF Typed, TypeOK

\* The images that are billed are finitely many, and one of them is there to be deleted.
LEMMA VisibleFinite == IsFiniteSet(Visible) /\ Cardinality(Visible) \in Nat
<1>1. Visible \subseteq Sessions
  BY DEF Visible
<1> QED
  BY <1>1, UploadAssumption, FS_Subset, FS_CardinalityType DEF UploadAssumption

\* What the transactions write into a row is a row.
RowTyped == row \in [Sessions -> Row]

LEMMA RowUpdates ==
  ASSUME RowTyped, NEW s \in Sessions
  PROVE  /\ \A x \in SessionStatus : [row EXCEPT ![s].status = x] \in [Sessions -> Row]
         /\ \A x \in SessionStatus, y \in ImageStatus :
              [row EXCEPT ![s].status = x, ![s].image = y] \in [Sessions -> Row]
         /\ \A y \in ImageStatus : [row EXCEPT ![s].image = y] \in [Sessions -> Row]
         /\ [row EXCEPT ![s].status = "uploading", ![s].count = @ + 1] \in [Sessions -> Row]
         /\ [row EXCEPT ![s].status = "cleanup_pending", ![s].due = FALSE] \in [Sessions -> Row]
         /\ [row EXCEPT ![s].status = "failed", ![s].failedAt = TRUE, ![s].due = TRUE,
                        ![s].image = "none"] \in [Sessions -> Row]
         /\ [row EXCEPT ![s].expired = TRUE] \in [Sessions -> Row]
         /\ [row EXCEPT ![s].due = TRUE] \in [Sessions -> Row]
         /\ \A r \in Row : [row EXCEPT ![s] = r] \in [Sessions -> Row]
<1> PICK r \in Row : r = row[s]
  BY DEF RowTyped
<1>1. \A n \in Row : [row EXCEPT ![s] = n] \in [Sessions -> Row]
  BY DEF RowTyped
<1>2. \A x \in SessionStatus : [row EXCEPT ![s].status = x] \in [Sessions -> Row]
  BY DEF RowTyped, Row
<1>3. \A y \in ImageStatus : [row EXCEPT ![s].image = y] \in [Sessions -> Row]
  BY DEF RowTyped, Row
<1>4. [row EXCEPT ![s].expired = TRUE] \in [Sessions -> Row]
  BY DEF RowTyped, Row
<1>5. [row EXCEPT ![s].due = TRUE] \in [Sessions -> Row]
  BY DEF RowTyped, Row
<1>6. ASSUME NEW x \in SessionStatus, NEW y \in ImageStatus
      PROVE  [row EXCEPT ![s].status = x, ![s].image = y] \in [Sessions -> Row]
  <2>1. [r EXCEPT !.status = x, !.image = y] \in Row
    BY DEF Row
  <2>2. [row EXCEPT ![s].status = x, ![s].image = y]
          = [row EXCEPT ![s] = [r EXCEPT !.status = x, !.image = y]]
    BY DEF RowTyped
  <2> QED
    BY <2>1, <2>2, <1>1
<1>7. [row EXCEPT ![s].status = "uploading", ![s].count = @ + 1] \in [Sessions -> Row]
  <2>1. [r EXCEPT !.status = "uploading", !.count = @ + 1] \in Row
    <3>1. r.count + 1 \in Nat
      BY DEF Row
    <3>2. \A n \in Nat : [r EXCEPT !.status = "uploading", !.count = n] \in Row
      BY DEF Row, SessionStatus
    <3> QED
      BY <3>1, <3>2
  <2>2. [row EXCEPT ![s].status = "uploading", ![s].count = @ + 1]
          = [row EXCEPT ![s] = [r EXCEPT !.status = "uploading", !.count = @ + 1]]
    BY DEF RowTyped
  <2> QED
    BY <2>1, <2>2, <1>1
<1>8. [row EXCEPT ![s].status = "cleanup_pending", ![s].due = FALSE] \in [Sessions -> Row]
  <2>1. [r EXCEPT !.status = "cleanup_pending", !.due = FALSE] \in Row
    BY DEF Row, SessionStatus
  <2>2. [row EXCEPT ![s].status = "cleanup_pending", ![s].due = FALSE]
          = [row EXCEPT ![s] = [r EXCEPT !.status = "cleanup_pending", !.due = FALSE]]
    BY DEF RowTyped
  <2> QED
    BY <2>1, <2>2, <1>1
<1>9. [row EXCEPT ![s].status = "failed", ![s].failedAt = TRUE, ![s].due = TRUE,
                 ![s].image = "none"] \in [Sessions -> Row]
  <2>1. [r EXCEPT !.status = "failed", !.failedAt = TRUE, !.due = TRUE, !.image = "none"] \in Row
    BY DEF Row, SessionStatus, ImageStatus
  <2>2. [row EXCEPT ![s].status = "failed", ![s].failedAt = TRUE, ![s].due = TRUE,
                    ![s].image = "none"]
          = [row EXCEPT ![s] = [r EXCEPT !.status = "failed", !.failedAt = TRUE, !.due = TRUE,
                                         !.image = "none"]]
    BY DEF RowTyped
  <2> QED
    BY <2>1, <2>2, <1>1
<1> QED
  BY <1>1, <1>2, <1>3, <1>4, <1>5, <1>6, <1>7, <1>8, <1>9

LEMMA Statuses ==
  /\ {"initiated", "uploading", "processing", "cleanup_pending"} \cup Over \subseteq SessionStatus
  /\ {"processing", "completed", "deleted"} \subseteq ImageStatus
BY DEF SessionStatus, ImageStatus, Over

\* What FinishCleanup and the end of a publication write is a row.
LEMMA NewRows ==
  ASSUME RowTyped, NEW s \in Sessions
  PROVE  /\ [NoRow EXCEPT !.status = "initiated", !.path = TRUE] \in Row
         /\ SessionAfterPublish(s) \in Row
         /\ \A x \in SessionStatus : Cleaned(s, x) \in Row
<1>1. [NoRow EXCEPT !.status = "initiated", !.path = TRUE] \in Row
  BY DEF NoRow, Row, SessionStatus, ImageStatus
<1>2. SessionAfterPublish(s) \in Row
  BY DEF RowTyped, SessionAfterPublish, Row, SessionStatus, ImageStatus
<1>3. \A x \in SessionStatus : Cleaned(s, x) \in Row
  BY DEF RowTyped, Cleaned, Row
<1> QED
  BY <1>1, <1>2, <1>3

LEMMA OpenTypes ==
  ASSUME Typed, NEW s \in Sessions, OpenNext(s)
  PROVE  Typed'
<1> USE UploadAssumption DEF Typed, UploadAssumption, database, disk, requests, Touched
<1>1. CASE MakeDirectory(s)
  BY <1>1 DEF MakeDirectory
<1>2. CASE CreateSession(s)
  <2>1. row' \in [Sessions -> Row]
    BY <1>2, RowUpdates, NewRows DEF CreateSession, RowTyped
  <2> QED
    BY <1>2, <2>1 DEF CreateSession
<1>3. CASE CreateUnanswered(s)
  <2>1. row' \in [Sessions -> Row]
    BY <1>3, RowUpdates, NewRows DEF CreateUnanswered, RowTyped
  <2> QED
    BY <1>3, <2>1 DEF CreateUnanswered, RemoveIfEmpty, Fault
<1>4. CASE RefuseSession(s)
  BY <1>4 DEF RefuseSession, RemoveIfEmpty
<1>5. CASE CrashInit(s)
  BY <1>5 DEF CrashInit, Fault
<1> QED
  BY <1>1, <1>2, <1>3, <1>4, <1>5 DEF OpenNext

LEMMA PutTypes ==
  ASSUME Typed, NEW r \in Puts, PutSafe(r), PutNext(r)
  PROVE  Typed'
<1> USE UploadAssumption DEF Typed, UploadAssumption, database, disk, requests, Touched
<1>1. ASSUME NEW s \in Sessions, NEW k \in Kinds, PutRead(r, s, k)  PROVE Typed'
  BY <1>1 DEF PutRead, Put
<1>2. PutEnds(r) => put' \in [Puts -> Put]
  BY DEF PutEnds, IdlePut, Put
<1>3. put[r].k \in Kinds /\ (put[r].pc # "idle" => put[r].s \in Sessions)
  BY DEF PutSafe, Put
<1>4. CASE PutStream(r)
  BY <1>4, <1>3 DEF PutStream, Put
<1>5. CASE PutCommit(r)
  <2>1. row' \in [Sessions -> Row]
    BY <1>5, <1>3, RowUpdates DEF PutCommit, RowTyped
  <2>2. part' \in [Sessions -> [Kinds -> PartStatus]]
    BY <1>5, <1>3 DEF PutCommit, PartStatus
  <2> QED
    BY <2>1, <2>2, <1>5, <1>2, <1>3 DEF PutCommit, Rename
<1>6. CASE PutDuplicate(r)
  BY <1>6, <1>2, <1>3 DEF PutDuplicate
<1>7. CASE PutDiscard(r)
  BY <1>7, <1>2, <1>3 DEF PutDiscard, RemoveIfEmpty
<1>8. CASE PutUnrecorded(r)
  BY <1>8, <1>2, <1>3 DEF PutUnrecorded, Rename, Fault
<1>9. CASE CrashPut(r)
  BY <1>9, <1>2, <1>3 DEF CrashPut, Fault
<1> QED
  BY <1>1, <1>4, <1>5, <1>6, <1>7, <1>8, <1>9 DEF PutNext

LEMMA CompleteTypes ==
  ASSUME Typed, NEW s \in Sessions, Complete(s)
  PROVE  Typed'
<1> USE UploadAssumption DEF Typed, UploadAssumption, database, disk, requests, Touched
<1>1. row' \in [Sessions -> Row]
  BY RowUpdates, Statuses DEF Complete, RowTyped
<1>2. part' \in [Sessions -> [Kinds -> PartStatus]]
  BY DEF Complete, PartStatus
<1> QED
  BY <1>1, <1>2 DEF Complete, Promote, Persistent

LEMMA FinishTypes ==
  ASSUME Typed, NEW q \in Completes, RestoreSafe(q), FinishNext(q)
  PROVE  Typed'
<1> USE UploadAssumption DEF Typed, UploadAssumption, database, disk, requests, Touched
<1>1. ASSUME NEW s \in Sessions, CompleteRolledBack(q, s)  PROVE Typed'
  BY <1>1 DEF CompleteRolledBack, Promote, Persistent, Fault, Restore
<1>2. restoring[q].pc # "idle" => restoring[q].s \in Sessions
  BY DEF RestoreSafe
<1>3. CASE Relink(q)
  <2> PICK s \in Sessions : s = restoring[q].s
    BY <1>3, <1>2 DEF Relink
  <2>1. Persistent \cap (ready[s] \cup stored[s]) \in SUBSET Kinds
    BY DEF Persistent
  <2>2. restoring' \in [Completes -> Restore]
    <3> PICK e \in Restore : e = restoring[q]
      OBVIOUS
    <3>1. \A b \in SUBSET Kinds : [e EXCEPT !.pc = "unstore", !.parts = b] \in Restore
      BY DEF Restore
    <3>2. restoring' = [restoring EXCEPT ![q] =
             [e EXCEPT !.pc = "unstore", !.parts = Persistent \cap (ready[s] \cup stored[s])]]
      BY <1>3 DEF Relink
    <3> QED
      BY <2>1, <3>1, <3>2
  <2> QED
    BY <2>1, <2>2, <1>3 DEF Relink
<1>4. CASE Unstore(q)
  BY <1>4, <1>2 DEF Unstore, Restore, IdleRestore
<1>5. CASE CrashComplete(q)
  BY <1>5 DEF CrashComplete, Restore, IdleRestore
<1> QED
  BY <1>1, <1>3, <1>4, <1>5 DEF FinishNext

LEMMA PublishTypes ==
  ASSUME Typed, used = Cardinality(Visible), NEW s \in Sessions, PublishNext(s)
  PROVE  Typed'
<1> USE UploadAssumption DEF Typed, UploadAssumption, database, disk, requests, Touched
<1>1. CASE SweepStaging(s)
  BY <1>1 DEF SweepStaging, RemoveIfEmpty
<1>2. CASE PublishCommit(s)
  <2>1. row' \in [Sessions -> Row]
    BY <1>2, RowUpdates, NewRows DEF PublishCommit, RowTyped
  <2>2. part' \in [Sessions -> [Kinds -> PartStatus]]
    BY <1>2 DEF PublishCommit, PartStatus
  <2> QED
    BY <1>2, <2>1, <2>2 DEF PublishCommit
<1>3. CASE PublishDies(s)
  <2>1. row' \in [Sessions -> Row]
    BY <1>3, RowUpdates DEF PublishDies, RowTyped
  <2> QED
    BY <1>3, <2>1 DEF PublishDies
<1>4. CASE DeleteImage(s)
  <2>1. used # 0
    <3>1. s \in Visible
      BY <1>4 DEF DeleteImage, Deletable, Visible
    <3> QED
      BY <3>1, VisibleFinite, FS_EmptySet
  <2>2. row' \in [Sessions -> Row]
    BY <1>4, RowUpdates, Statuses DEF DeleteImage, RowTyped
  <2>3. used' \in Nat
    <3>1. \A n \in Nat : n # 0 => n - 1 \in Nat
      OBVIOUS
    <3> QED
      BY <2>1, <3>1, <1>4 DEF DeleteImage
  <2> QED
    BY <2>2, <2>3, <1>4 DEF DeleteImage
<1> QED
  BY <1>1, <1>2, <1>3, <1>4 DEF PublishNext

LEMMA CancelTypes ==
  ASSUME Typed, NEW s \in Sessions, CancelNext(s)
  PROVE  Typed'
<1> USE UploadAssumption DEF Typed, UploadAssumption, database, disk, requests, RemoveAll
<1>1. CASE Cancel(s)
  <2>1. row' \in [Sessions -> Row]
    BY <1>1, RowUpdates, Statuses DEF Cancel, SetRow, RowTyped, Over
  <2> QED
    BY <1>1, <2>1 DEF Cancel, PartStatus
<1>2. CASE CancelRemove(s)
  BY <1>2 DEF CancelRemove
<1>3. CASE CancelRemoveFails(s)
  BY <1>3 DEF CancelRemoveFails, Fault
<1>4. CASE CancelMark(s)
  <2>1. row' \in [Sessions -> Row]
    BY <1>4, RowUpdates, Statuses DEF CancelMark, SetRow, RowTyped
  <2> QED
    BY <1>4, <2>1 DEF CancelMark
<1>5. CASE CrashCancel(s)
  BY <1>5 DEF CrashCancel, Fault
<1> QED
  BY <1>1, <1>2, <1>3, <1>4, <1>5 DEF CancelNext

LEMMA CleanTypes ==
  ASSUME Typed, NEW c \in Cleaners, CleanerSafe(c), CleanNext(c)
  PROVE  Typed'
<1> USE UploadAssumption DEF Typed, UploadAssumption, database, disk, requests, RemoveAll
<1>1. cleaner[c].pc # "idle" => cleaner[c].s \in Sessions
  BY DEF CleanerSafe
<1>2. ASSUME NEW s \in Sessions, CleanClaim(c, s)  PROVE Typed'
  <2>1. Remembered(s) \in SessionStatus
    BY DEF Remembered, SessionStatus
  <2>2. row' \in [Sessions -> Row]
    BY <1>2, RowUpdates DEF CleanClaim, RowTyped
  <2>3. cleaner' \in [Cleaners -> Cleaner]
    BY <1>2, <2>1 DEF CleanClaim, Cleaner
  <2> QED
    BY <1>2, <2>2, <2>3 DEF CleanClaim
<1>3. ASSUME NEW s \in Sessions, OrphanFind(c, s)  PROVE Typed'
  BY <1>3 DEF OrphanFind, Cleaner, SessionStatus
<1>4. CASE CleanInspect(c)
  <2>1. cleaner' \in [Cleaners -> Cleaner]
    <3> PICK e \in Cleaner : e = cleaner[c]
      OBVIOUS
    <3>1. \A x \in SessionStatus : [e EXCEPT !.pc = "remove", !.seen = x] \in Cleaner
      BY DEF Cleaner
    <3>2. PICK x \in SessionStatus :
            cleaner' = [cleaner EXCEPT ![c] = [e EXCEPT !.pc = "remove", !.seen = x]]
      <4>1. "completed" \in SessionStatus /\ e.seen \in SessionStatus
        BY Statuses DEF Cleaner, Over
      <4>2. CASE row[cleaner[c].s].image = "completed"
        BY <1>4, <4>1, <4>2 DEF CleanInspect
      <4>3. CASE row[cleaner[c].s].image # "completed"
        BY <1>4, <4>1, <4>3 DEF CleanInspect
      <4> QED
        BY <4>2, <4>3
    <3> QED
      BY <3>1, <3>2
  <2> QED
    BY <1>4, <2>1 DEF CleanInspect
<1>5. CASE CleanRemove(c)
  BY <1>5, <1>1 DEF CleanRemove, Cleaner
<1>6. IdleCleaner \in Cleaner
  BY DEF IdleCleaner, Cleaner, SessionStatus
<1>7. CASE CleanFinish(c)
  <2> PICK s \in Sessions : s = cleaner[c].s
    BY <1>7, <1>1 DEF CleanFinish
  <2>1. cleaner[c].seen \in SessionStatus
    BY DEF Cleaner
  <2>4. /\ row' = row \/ row' = [row EXCEPT ![s] = Cleaned(s, cleaner[c].seen)]
        /\ part' = part \/ part' = [part EXCEPT ![s] = [k \in Kinds |-> "cleaned"]]
    BY <1>7 DEF CleanFinish
  <2>5. Cleaned(s, cleaner[c].seen) \in Row
    BY <2>1, NewRows DEF RowTyped
  <2>2. row' \in [Sessions -> Row]
    <3>1. [row EXCEPT ![s] = Cleaned(s, cleaner[c].seen)] \in [Sessions -> Row]
      BY <2>5
    <3> QED
      BY <2>4, <3>1
  <2>3. part' \in [Sessions -> [Kinds -> PartStatus]]
    BY <2>4 DEF PartStatus
  <2> QED
    BY <2>2, <2>3, <1>6, <1>7 DEF CleanFinish
<1>8. CASE OrphanRemove(c)
  BY <1>8, <1>1, <1>6 DEF OrphanRemove
<1>9. CASE CleanerStops(c)
  BY <1>9, <1>6 DEF CleanerStops, Fault
<1> QED
  BY <1>2, <1>3, <1>4, <1>5, <1>7, <1>8, <1>9 DEF CleanNext

LEMMA TimeTypes ==
  ASSUME Typed, NEW s \in Sessions, Time(s)
  PROVE  Typed'
<1> USE UploadAssumption DEF Typed, UploadAssumption, database, disk, requests
<1>1. CASE Expire(s)
  BY <1>1, RowUpdates DEF Expire, RowTyped
<1>2. CASE DueElapses(s)
  BY <1>2, RowUpdates DEF DueElapses, RowTyped
<1>3. CASE DirAges(s)
  BY <1>3 DEF DirAges
<1> QED
  BY <1>1, <1>2, <1>3 DEF Time

LEMMA TypeStep ==
  ASSUME IInv, Next
  PROVE  Typed'
<1>1. Typed
  BY TypeImplies DEF IInv
<1> QED
  BY <1>1, OpenTypes, PutTypes, CompleteTypes, FinishTypes, PublishTypes, CancelTypes, CleanTypes,
     TimeTypes DEF IInv, Next

-----------------------------------------------------------------------------
(* Rows. A session only goes forward: once it is over it stays over, its    *)
(* image does not appear after that, and only Init gives it a directory.    *)

EndsForGood(s) ==
  /\ row[s].status \in Over => row'[s].status \in {row[s].status, "cleanup_pending"}
  /\ row[s].status = "cleanup_pending" => row'[s].status \in Over \cup {"cleanup_pending"}

\* The Init request of s inserts its row, before any part.
Opened(s) == s \in opening /\ s \notin opening' /\ part'[s] = part[s]

Forward(s) ==
  /\ row[s].status # "none" => row'[s].status # "none"
  /\ row[s].status = "none" /\ s \in opening' => row'[s].status = "none"
  /\ EndsForGood(s)
  /\ row'[s].path => row[s].path \/ s \in opening
  /\ Ended(s) /\ row'[s].image = "completed" => row[s].image = "completed"
  /\ Accepts(s)' => Accepts(s) \/ Opened(s)
  /\ row'[s].status = "processing" => row[s].status = "processing" \/ Accepts(s)

RowGood(s) == RowSafe(s)' /\ Forward(s)

SameRow(s) == row'[s] = row[s] /\ part'[s] = part[s]

LEMMA SameCount ==
  ASSUME NEW s \in Sessions, part'[s] = part[s]
  PROVE  Counted(s)' = Counted(s)
BY DEF Counted

LEMMA RowFrame ==
  ASSUME NEW s \in Sessions, RowSafe(s), SameRow(s)
  PROVE  RowGood(s)
<1>1. RowSafe(s)'
  BY SameCount DEF RowSafe, SameRow, Open
<1>2. Forward(s)
  BY DEF Forward, EndsForGood, SameRow, Accepts, Open, Ended, Over
<1> QED
  BY <1>1, <1>2 DEF RowGood

LEMMA DatabaseFrame ==
  ASSUME \A s \in Sessions : RowSafe(s), UNCHANGED database
  PROVE  \A s \in Sessions : RowGood(s)
BY RowFrame DEF database, SameRow

LEMMA OneRow ==
  ASSUME \A t \in Sessions : RowSafe(t), NEW s \in Sessions,
         \A t \in Sessions \ {s} : SameRow(t), RowGood(s)
  PROVE  \A t \in Sessions : RowGood(t)
BY RowFrame

\* The row of s after a transaction that changes its status and nothing else of weight.
PartTyped == part \in [Sessions -> [Kinds -> PartStatus]]

LEMMA CreateRows ==
  ASSUME RowTyped, PartTyped, \A t \in Sessions : RowSafe(t), \A t \in Sessions : PendingSafe(t),
         NEW s \in Sessions, CreateSession(s) \/ CreateUnanswered(s)
  PROVE  \A t \in Sessions : RowGood(t)
<1>1. /\ row[s].status = "none" /\ s \in opening
      /\ row' = [row EXCEPT ![s] = [NoRow EXCEPT !.status = "initiated", !.path = TRUE]]
      /\ part' = part /\ s \notin opening'
  BY DEF CreateSession, CreateUnanswered, PendingSafe
<1>2. /\ row'[s].status = "initiated" /\ row'[s].path /\ row'[s].image = "none"
      /\ row'[s].count = 0
  BY <1>1 DEF RowTyped, NoRow
<1>3. Counted(s) = {}
  BY <1>1 DEF RowSafe, Counted
<1>4. RowSafe(s)'
  BY <1>1, <1>2, <1>3, SameCount, FS_EmptySet DEF RowSafe, Open
<1>5. Forward(s)
  BY <1>1, <1>2 DEF Forward, EndsForGood, Ended, Over, Opened
<1>6. \A t \in Sessions \ {s} : SameRow(t)
  BY <1>1 DEF RowTyped, SameRow
<1> QED
  BY <1>4, <1>5, <1>6, OneRow DEF RowGood

LEMMA PutCommitRows ==
  ASSUME RowTyped, PartTyped, \A t \in Sessions : RowSafe(t),
         NEW r \in Puts, PutSafe(r), put[r].k \in Kinds, PutCommit(r)
  PROVE  \A t \in Sessions : RowGood(t)
<1> PICK s \in Sessions : s = put[r].s
  BY DEF PutCommit, PutSafe
<1> PICK k \in Kinds : k = put[r].k
  OBVIOUS
<1>1. /\ Accepts(s) /\ part[s][k] = "pending"
      /\ part' = [part EXCEPT ![s][k] = "received"]
      /\ row' = [row EXCEPT ![s].status = "uploading", ![s].count = @ + 1]
  BY DEF PutCommit
<1>2. /\ row'[s].status = "uploading" /\ row'[s].path = row[s].path
      /\ row'[s].image = row[s].image /\ row'[s].count = row[s].count + 1
      /\ row'[s].expired = row[s].expired
  BY <1>1 DEF RowTyped, Row
<1>3. Cardinality(Counted(s)') = Cardinality(Counted(s)) + 1
  <2>1. IsFiniteSet(Counted(s)) /\ k \notin Counted(s)
    BY <1>1, UploadAssumption, FS_Subset DEF UploadAssumption, Counted
  <2>2. Counted(s)' = Counted(s) \cup {k}
    BY <1>1 DEF PartTyped, Counted
  <2> QED
    BY <2>1, <2>2, FS_AddElement
<1>4. RowSafe(s)'
  BY <1>1, <1>2, <1>3 DEF RowSafe, Accepts, Open
<1>5. Forward(s)
  BY <1>1, <1>2 DEF Forward, EndsForGood, Ended, Over, Accepts, Open
<1>6. \A t \in Sessions \ {s} : SameRow(t)
  BY <1>1 DEF RowTyped, PartTyped, SameRow
<1> QED
  BY <1>4, <1>5, <1>6, OneRow DEF RowGood

LEMMA CompleteRows ==
  ASSUME RowTyped, PartTyped, \A t \in Sessions : RowSafe(t), NEW s \in Sessions, Complete(s)
  PROVE  \A t \in Sessions : RowGood(t)
<1>1. /\ Accepts(s) /\ \A k \in Kinds : part[s][k] = "received"
      /\ part' = [part EXCEPT ![s] = [k \in Kinds |-> IF k = Source THEN part[s][k] ELSE "finalized"]]
      /\ row' = [row EXCEPT ![s].status = "processing", ![s].image = "processing"]
  BY DEF Complete, Completable
<1>2. /\ row'[s].status = "processing" /\ row'[s].path = row[s].path
      /\ row'[s].image = "processing" /\ row'[s].count = row[s].count
  BY <1>1 DEF RowTyped, Row
<1>3. Counted(s)' = Counted(s)
  <2>1. Counted(s) = Kinds
    BY <1>1 DEF Counted
  <2>2. Counted(s)' = Kinds
    BY <1>1 DEF PartTyped, Counted
  <2> QED
    BY <2>1, <2>2
<1>4. RowSafe(s)'
  BY <1>1, <1>2, <1>3 DEF RowSafe, Accepts, Open
<1>5. Forward(s)
  BY <1>1, <1>2 DEF Forward, EndsForGood, Ended, Over, Accepts, Open
<1>6. \A t \in Sessions \ {s} : SameRow(t)
  BY <1>1 DEF RowTyped, PartTyped, SameRow
<1> QED
  BY <1>4, <1>5, <1>6, OneRow DEF RowGood

LEMMA PublishRows ==
  ASSUME RowTyped, PartTyped, \A t \in Sessions : RowSafe(t), NEW s \in Sessions,
         PublishCommit(s) \/ PublishDies(s) \/ DeleteImage(s)
  PROVE  \A t \in Sessions : RowGood(t)
<1>1. ASSUME PublishCommit(s)  PROVE RowGood(s) /\ \A t \in Sessions \ {s} : SameRow(t)
  <2>1. /\ row[s].status = "processing"
        /\ row' = [row EXCEPT ![s] = SessionAfterPublish(s)]
        /\ part' = [part EXCEPT ![s][Source] = "cleaned"]
    BY <1>1 DEF PublishCommit
  <2>2. /\ SessionAfterPublish(s).status \in {"completed", "cleanup_pending"}
        /\ SessionAfterPublish(s).image = "completed"
        /\ SessionAfterPublish(s).path => row[s].path
    BY DEF SessionAfterPublish, RowTyped, Row
  <2>3. row'[s].status \in {"completed", "cleanup_pending"} /\ row'[s].image = "completed"
        /\ (row'[s].path => row[s].path)
    BY <2>1, <2>2 DEF RowTyped
  <2>4. RowGood(s)
    BY <2>1, <2>3 DEF RowGood, RowSafe, Forward, EndsForGood, Ended, Over, Accepts, Open
  <2>5. \A t \in Sessions \ {s} : SameRow(t)
    BY <2>1 DEF RowTyped, PartTyped, SameRow
  <2> QED
    BY <2>4, <2>5
<1>2. ASSUME PublishDies(s)  PROVE RowGood(s) /\ \A t \in Sessions \ {s} : SameRow(t)
  <2>1. /\ row[s].status = "processing"
        /\ row' = [row EXCEPT ![s].status = "failed", ![s].failedAt = TRUE, ![s].due = TRUE,
                              ![s].image = "none"]
        /\ part' = part
    BY <1>2 DEF PublishDies
  <2>3. row'[s].status = "failed" /\ row'[s].image = "none" /\ row'[s].path = row[s].path
    BY <2>1 DEF RowTyped, Row
  <2>4. RowGood(s)
    BY <2>1, <2>3 DEF RowGood, RowSafe, Forward, EndsForGood, Ended, Over, Accepts, Open
  <2>5. \A t \in Sessions \ {s} : SameRow(t)
    BY <2>1 DEF RowTyped, SameRow
  <2> QED
    BY <2>4, <2>5
<1>3. ASSUME DeleteImage(s)  PROVE RowGood(s) /\ \A t \in Sessions \ {s} : SameRow(t)
  <2>1. row[s].image = "completed" /\ row' = [row EXCEPT ![s].image = "deleted"] /\ part' = part
    BY <1>3 DEF DeleteImage, Deletable
  <2>3. row'[s].status = row[s].status /\ row'[s].image = "deleted" /\ row'[s].path = row[s].path
    BY <2>1 DEF RowTyped, Row
  <2>4. RowGood(s)
    BY <2>1, <2>3 DEF RowGood, RowSafe, Forward, EndsForGood, Ended, Over, Accepts, Open
  <2>5. \A t \in Sessions \ {s} : SameRow(t)
    BY <2>1 DEF RowTyped, SameRow
  <2> QED
    BY <2>4, <2>5
<1> QED
  BY <1>1, <1>2, <1>3, OneRow

LEMMA CancelRows ==
  ASSUME RowTyped, PartTyped, \A t \in Sessions : RowSafe(t), \A t \in Sessions : PendingSafe(t),
         NEW s \in Sessions, Cancel(s) \/ CancelMark(s)
  PROVE  \A t \in Sessions : RowGood(t)
<1>1. PICK x \in {"cancelled", "cleanup_pending"} :
        /\ row' = [row EXCEPT ![s].status = x]
        /\ Open(s) \/ (Ended(s) /\ x = "cleanup_pending")
        /\ part' = part \/ part' = [part EXCEPT ![s] = [k \in Kinds |-> "cleaned"]]
  <2>1. CASE Cancel(s)
    BY <2>1 DEF Cancel, Cancellable, SetRow
  <2>2. CASE CancelMark(s)
    <3>1. Ended(s)
      BY <2>2 DEF CancelMark, PendingSafe
    <3> QED
      BY <2>2, <3>1 DEF CancelMark, SetRow
  <2> QED
    BY <2>1, <2>2
<1>2. row'[s].status = x /\ row'[s].image = row[s].image /\ row'[s].path = row[s].path
  BY <1>1 DEF RowTyped, Row
<1>3. RowGood(s)
  BY <1>1, <1>2 DEF RowGood, RowSafe, Forward, EndsForGood, Ended, Over, Accepts, Open
<1>4. \A t \in Sessions \ {s} : SameRow(t)
  BY <1>1 DEF RowTyped, PartTyped, SameRow
<1> QED
  BY <1>3, <1>4, OneRow

LEMMA ClaimRows ==
  ASSUME RowTyped, PartTyped, \A t \in Sessions : RowSafe(t),
         NEW c \in Cleaners, NEW s \in Sessions, CleanClaim(c, s)
  PROVE  \A t \in Sessions : RowGood(t)
<1>1. /\ row' = [row EXCEPT ![s].status = "cleanup_pending", ![s].due = FALSE] /\ part' = part
      /\ Open(s) \/ Ended(s)
  BY DEF CleanClaim, CleanupCandidate, Ended, Over
<1>2. /\ row'[s].status = "cleanup_pending" /\ row'[s].image = row[s].image
      /\ row'[s].path = row[s].path
  BY <1>1 DEF RowTyped, Row
<1>3. RowGood(s)
  BY <1>1, <1>2 DEF RowGood, RowSafe, Forward, EndsForGood, Ended, Over, Accepts, Open
<1>4. \A t \in Sessions \ {s} : SameRow(t)
  BY <1>1 DEF RowTyped, SameRow
<1> QED
  BY <1>3, <1>4, OneRow

LEMMA FinishRows ==
  ASSUME RowTyped, PartTyped, \A t \in Sessions : RowSafe(t),
         NEW c \in Cleaners, CleanerSafe(c), CleanFinish(c)
  PROVE  \A t \in Sessions : RowGood(t)
<1> PICK s \in Sessions : s = cleaner[c].s
  BY DEF CleanFinish, CleanerSafe
<1> PICK seen \in Over : seen = cleaner[c].seen
  BY DEF CleanFinish, CleanerSafe
<1>1. row[s].image = "completed" => seen = "completed"
  BY DEF CleanFinish, CleanerSafe
<1>2. CASE row[s].status = "cleanup_pending"
  <2>1. /\ row' = [row EXCEPT ![s] = Cleaned(s, seen)]
        /\ part' = [part EXCEPT ![s] = [k \in Kinds |-> "cleaned"]]
    BY <1>2 DEF CleanFinish
  <2>2. row'[s].status = seen /\ row'[s].image = row[s].image /\ ~row'[s].path
    BY <2>1 DEF RowTyped, Row, Cleaned
  <2>3. RowGood(s)
    BY <1>1, <1>2, <2>2 DEF RowGood, RowSafe, Forward, EndsForGood, Ended, Over, Accepts, Open
  <2>4. \A t \in Sessions \ {s} : SameRow(t)
    BY <2>1 DEF RowTyped, PartTyped, SameRow
  <2> QED
    BY <2>3, <2>4, OneRow
<1>3. CASE row[s].status # "cleanup_pending"
  BY <1>3, DatabaseFrame DEF CleanFinish, database
<1> QED
  BY <1>2, <1>3

LEMMA TimeRows ==
  ASSUME RowTyped, PartTyped, \A t \in Sessions : RowSafe(t),
         NEW s \in Sessions, Expire(s) \/ DueElapses(s)
  PROVE  \A t \in Sessions : RowGood(t)
<1>1. /\ row' = [row EXCEPT ![s].expired = TRUE] \/ row' = [row EXCEPT ![s].due = TRUE]
      /\ part' = part
  BY DEF Expire, DueElapses
<1>2. /\ row'[s].status = row[s].status /\ row'[s].image = row[s].image
      /\ row'[s].path = row[s].path /\ row'[s].count = row[s].count
      /\ row[s].expired => row'[s].expired
  BY <1>1 DEF RowTyped, Row
<1>3. RowSafe(s)'
  BY <1>1, <1>2, SameCount DEF RowSafe, Open
<1>4. Forward(s)
  BY <1>2 DEF Forward, EndsForGood, Ended, Over, Accepts, Open
<1>5. \A t \in Sessions \ {s} : SameRow(t)
  BY <1>1 DEF RowTyped, SameRow
<1> QED
  BY <1>3, <1>4, <1>5, OneRow DEF RowGood

LEMMA RowStep ==
  ASSUME IInv, Next
  PROVE  \A t \in Sessions : RowGood(t)
<1>1. /\ RowTyped /\ PartTyped
      /\ \A t \in Sessions : RowSafe(t) /\ PendingSafe(t)
      /\ \A r \in Puts : PutSafe(r) /\ put[r].k \in Kinds
      /\ \A c \in Cleaners : CleanerSafe(c)
  BY DEF IInv, TypeOK, RowTyped, PartTyped, Put
<1>2. ASSUME UNCHANGED database  PROVE \A t \in Sessions : RowGood(t)
  BY <1>1, <1>2, DatabaseFrame
<1>3. ASSUME NEW s \in Sessions, OpenNext(s)  PROVE \A t \in Sessions : RowGood(t)
  <2>1. CASE MakeDirectory(s) \/ RefuseSession(s) \/ CrashInit(s)
    BY <2>1, <1>2 DEF MakeDirectory, RefuseSession, CrashInit
  <2> QED
    BY <1>1, <1>3, <2>1, CreateRows DEF OpenNext
<1>4. ASSUME NEW s \in Sessions, Complete(s)  PROVE \A t \in Sessions : RowGood(t)
  BY <1>1, <1>4, CompleteRows
<1>5. ASSUME NEW s \in Sessions, PublishNext(s)  PROVE \A t \in Sessions : RowGood(t)
  <2>1. CASE SweepStaging(s)
    BY <2>1, <1>2 DEF SweepStaging
  <2> QED
    BY <1>1, <1>5, <2>1, PublishRows DEF PublishNext
<1>6. ASSUME NEW s \in Sessions, CancelNext(s)  PROVE \A t \in Sessions : RowGood(t)
  <2>1. CASE CancelRemove(s) \/ CancelRemoveFails(s) \/ CrashCancel(s)
    BY <2>1, <1>2 DEF CancelRemove, CancelRemoveFails, CrashCancel
  <2> QED
    BY <1>1, <1>6, <2>1, CancelRows DEF CancelNext
<1>7. ASSUME NEW s \in Sessions, Time(s)  PROVE \A t \in Sessions : RowGood(t)
  <2>1. CASE DirAges(s)
    BY <2>1, <1>2 DEF DirAges
  <2> QED
    BY <1>1, <1>7, <2>1, TimeRows DEF Time
<1>8. ASSUME NEW r \in Puts, PutNext(r)  PROVE \A t \in Sessions : RowGood(t)
  <2>1. ASSUME NEW s \in Sessions, NEW k \in Kinds, PutRead(r, s, k)
        PROVE  \A t \in Sessions : RowGood(t)
    BY <2>1, <1>2 DEF PutRead
  <2>2. CASE PutStream(r) \/ PutDuplicate(r) \/ PutDiscard(r) \/ PutUnrecorded(r) \/ CrashPut(r)
    BY <2>2, <1>2 DEF PutStream, PutDuplicate, PutDiscard, PutUnrecorded, CrashPut, database
  <2> QED
    BY <1>1, <1>8, <2>1, <2>2, PutCommitRows DEF PutNext
<1>9. ASSUME NEW q \in Completes, FinishNext(q)  PROVE \A t \in Sessions : RowGood(t)
  <2>1. UNCHANGED database
    BY <1>9 DEF FinishNext, CompleteRolledBack, Relink, Unstore, CrashComplete
  <2> QED
    BY <2>1, <1>2
<1>10. ASSUME NEW c \in Cleaners, CleanNext(c)  PROVE \A t \in Sessions : RowGood(t)
  <2>1. ASSUME NEW s \in Sessions, CleanClaim(c, s)  PROVE \A t \in Sessions : RowGood(t)
    BY <2>1, <1>1, ClaimRows
  <2>2. ASSUME NEW s \in Sessions, OrphanFind(c, s)  PROVE \A t \in Sessions : RowGood(t)
    BY <2>2, <1>2 DEF OrphanFind
  <2>3. CASE CleanFinish(c)
    BY <2>3, <1>1, FinishRows
  <2>4. CASE CleanInspect(c) \/ CleanRemove(c) \/ OrphanRemove(c) \/ CleanerStops(c)
    BY <2>4, <1>2 DEF CleanInspect, CleanRemove, OrphanRemove, CleanerStops
  <2> QED
    BY <1>10, <2>1, <2>2, <2>3, <2>4 DEF CleanNext
<1> QED
  BY <1>3, <1>4, <1>5, <1>6, <1>7, <1>8, <1>9, <1>10 DEF Next

-----------------------------------------------------------------------------
(* Requests and workers.                                                   *)

\* Who keeps its hands off opening, cancelling, put, restoring and cleaner.
LEMMA OpeningFrame ==
  ASSUME Next
  PROVE  \/ \E s \in Sessions : OpenNext(s)
         \/ opening' = opening /\ (aged' \subseteq aged \/ \E s \in Sessions : DirAges(s))
<1> USE DEF database, disk, requests, Touched, RemoveAll
<1>1. ASSUME NEW s \in Sessions, Complete(s)  PROVE opening' = opening /\ aged' \subseteq aged
  BY <1>1 DEF Complete, Promote
<1>2. ASSUME NEW s \in Sessions, PublishNext(s)  PROVE opening' = opening /\ aged' \subseteq aged
  BY <1>2 DEF PublishNext, SweepStaging, PublishCommit, PublishDies, DeleteImage
<1>3. ASSUME NEW s \in Sessions, CancelNext(s)  PROVE opening' = opening /\ aged' \subseteq aged
  BY <1>3 DEF CancelNext, Cancel, CancelRemove, CancelRemoveFails, CancelMark, CrashCancel
<1>4. ASSUME NEW s \in Sessions, Time(s)
      PROVE  opening' = opening /\ (aged' \subseteq aged \/ DirAges(s))
  BY <1>4 DEF Time, Expire, DueElapses, DirAges
<1>5. ASSUME NEW r \in Puts, PutNext(r)  PROVE opening' = opening /\ aged' \subseteq aged
  BY <1>5 DEF PutNext, PutRead, PutStream, PutCommit, PutDuplicate, PutDiscard, PutUnrecorded,
              CrashPut, Rename
<1>6. ASSUME NEW q \in Completes, FinishNext(q)  PROVE opening' = opening /\ aged' \subseteq aged
  BY <1>6 DEF FinishNext, CompleteRolledBack, Relink, Unstore, CrashComplete, Promote
<1>7. ASSUME NEW c \in Cleaners, CleanNext(c)  PROVE opening' = opening /\ aged' \subseteq aged
  BY <1>7 DEF CleanNext, CleanClaim, OrphanFind, CleanInspect, CleanRemove, CleanFinish,
              OrphanRemove, CleanerStops
<1> QED
  BY <1>1, <1>2, <1>3, <1>4, <1>5, <1>6, <1>7 DEF Next

LEMMA ActorFrames ==
  ASSUME Next
  PROVE  /\ UNCHANGED cancelling \/ \E s \in Sessions : CancelNext(s)
         /\ UNCHANGED put \/ \E r \in Puts : PutNext(r)
         /\ UNCHANGED restoring \/ \E q \in Completes : FinishNext(q)
         /\ UNCHANGED cleaner \/ \E c \in Cleaners : CleanNext(c)
<1> USE DEF database, disk, requests
<1> DEFINE Mine == <<cancelling, put, restoring, cleaner>>
<1>1. ASSUME NEW s \in Sessions, OpenNext(s)  PROVE UNCHANGED Mine
  BY <1>1 DEF OpenNext, MakeDirectory, CreateSession, CreateUnanswered, RefuseSession, CrashInit
<1>2. ASSUME NEW s \in Sessions, Complete(s) \/ PublishNext(s)  PROVE UNCHANGED Mine
  BY <1>2 DEF Complete, PublishNext, SweepStaging, PublishCommit, PublishDies, DeleteImage
<1>3. ASSUME NEW s \in Sessions, CancelNext(s)  PROVE UNCHANGED <<put, restoring, cleaner>>
  BY <1>3 DEF CancelNext, Cancel, CancelRemove, CancelRemoveFails, CancelMark, CrashCancel
<1>4. ASSUME NEW s \in Sessions, Time(s)  PROVE UNCHANGED Mine
  BY <1>4 DEF Time, Expire, DueElapses, DirAges
<1>5. ASSUME NEW r \in Puts, PutNext(r)  PROVE UNCHANGED <<cancelling, restoring, cleaner>>
  BY <1>5 DEF PutNext, PutRead, PutStream, PutCommit, PutDuplicate, PutDiscard, PutUnrecorded,
              CrashPut
<1>6. ASSUME NEW q \in Completes, FinishNext(q)  PROVE UNCHANGED <<cancelling, put, cleaner>>
  BY <1>6 DEF FinishNext, CompleteRolledBack, Relink, Unstore, CrashComplete
<1>7. ASSUME NEW c \in Cleaners, CleanNext(c)  PROVE UNCHANGED <<cancelling, put, restoring>>
  BY <1>7 DEF CleanNext, CleanClaim, OrphanFind, CleanInspect, CleanRemove, CleanFinish,
              OrphanRemove, CleanerStops
<1> QED
  BY <1>1, <1>2, <1>3, <1>4, <1>5, <1>6, <1>7 DEF Next

\* A session is being opened since before, or from now on by an upload key nobody has seen.
Unseen(s) ==
  /\ s \notin aged' /\ row'[s].status = "none"
  /\ cleaner' = cleaner /\ \A c \in Cleaners : cleaner[c].s # s

LEMMA OpeningStep ==
  ASSUME Next, \A s \in Sessions : PendingSafe(s), NEW t \in Sessions, t \in opening'
  PROVE  \/ t \in opening /\ t \notin aged'
         \/ Unseen(t)
<1>1. ASSUME NEW s \in Sessions, MakeDirectory(s)
      PROVE  (t \in opening /\ t \notin aged') \/ Unseen(t)
  BY <1>1 DEF MakeDirectory, Touched, Unseen, PendingSafe, database
<1>2. ASSUME NEW s \in Sessions,
             CreateSession(s) \/ CreateUnanswered(s) \/ RefuseSession(s) \/ CrashInit(s)
      PROVE  t \in opening /\ t \notin aged'
  BY <1>2 DEF CreateSession, CreateUnanswered, RefuseSession, CrashInit, PendingSafe, disk
<1>3. ASSUME opening' = opening, aged' \subseteq aged \/ \E s \in Sessions : DirAges(s)
      PROVE  t \in opening /\ t \notin aged'
  BY <1>3 DEF DirAges, PendingSafe
<1> QED
  BY <1>1, <1>2, <1>3, OpeningFrame DEF OpenNext

LEMMA PendingStep ==
  ASSUME IInv, Next, NEW t \in Sessions
  PROVE  PendingSafe(t)'
<1>1. PendingSafe(t) /\ RowGood(t) /\ cancelling \in [Sessions -> {"no", "remove", "mark"}]
  BY RowStep DEF IInv, TypeOK
<1>2. t \in opening' => row'[t].status = "none" /\ t \notin aged'
  <2>1. \A s \in Sessions : PendingSafe(s)
    BY DEF IInv
  <2> QED
    BY <1>1, <2>1, OpeningStep DEF Unseen, RowGood, Forward, PendingSafe
<1>3. cancelling'[t] # "no" => Ended(t)'
  <2>1. Ended(t) => Ended(t)'
    BY <1>1 DEF RowGood, Forward, EndsForGood, Ended
  <2>2. CASE cancelling'[t] = cancelling[t]
    BY <1>1, <2>1, <2>2 DEF PendingSafe
  <2>3. ASSUME NEW s \in Sessions, Cancel(s)  PROVE cancelling'[t] = cancelling[t] \/ Ended(t)'
    <3>1. s = t => row'[t].status = "cancelled"
      BY <2>3 DEF Cancel, SetRow, IInv, TypeOK, Row
    <3> QED
      BY <1>1, <2>3, <3>1 DEF Cancel, Ended, Over
  <2>4. ASSUME NEW s \in Sessions, CancelRemove(s) \/ CancelRemoveFails(s) \/ CancelMark(s)
                                     \/ CrashCancel(s)
        PROVE  cancelling'[t] # "no" => Ended(t)
    BY <1>1, <2>4 DEF CancelRemove, CancelRemoveFails, CancelMark, CrashCancel, PendingSafe
  <2> QED
    BY <1>1, <2>1, <2>2, <2>3, <2>4, ActorFrames DEF CancelNext
<1> QED
  BY <1>2, <1>3 DEF PendingSafe

LEMMA CleanerFrame ==
  ASSUME IInv, Next, NEW c \in Cleaners, cleaner'[c] = cleaner[c]
  PROVE  CleanerSafe(c)'
<1>1. CleanerSafe(c) /\ \A s \in Sessions : PendingSafe(s) /\ RowGood(s)
  BY RowStep DEF IInv
<1>2. CASE cleaner[c].pc = "idle"
  <2>1. cleaner'[c].pc = "idle"
    BY <1>2
  <2> QED
    BY <2>1 DEF CleanerSafe
<1>3. CASE cleaner[c].pc # "idle"
  <2>1. PICK s \in Sessions : s = cleaner[c].s
    BY <1>1, <1>3 DEF CleanerSafe
  <2>2. cleaner'[c].s = s /\ cleaner'[c].pc = cleaner[c].pc /\ cleaner'[c].seen = cleaner[c].seen
    BY <2>1
  <2>3. cleaner[c].pc \in {"inspect", "remove", "finish"} => Ended(s)' /\ cleaner[c].seen \in Over
    BY <1>1, <2>1 DEF CleanerSafe, RowGood, Forward, EndsForGood, Ended
  <2>4. cleaner[c].pc \in {"remove", "finish"} /\ row'[s].image = "completed" =>
          cleaner[c].seen = "completed"
    BY <1>1, <2>1 DEF CleanerSafe, RowGood, Forward
  <2>5. cleaner[c].pc = "orphan" => s \notin opening' /\ ~row'[s].path
    <3>1. ASSUME s \in opening'  PROVE s \in opening
      BY <1>1, <2>1, <3>1, OpeningStep DEF Unseen
    <3> QED
      BY <1>1, <2>1, <3>1 DEF CleanerSafe, RowGood, Forward
  <2> QED
    BY <2>2, <2>3, <2>4, <2>5 DEF CleanerSafe, Ended
<1> QED
  BY <1>2, <1>3

LEMMA CleanerStep ==
  ASSUME IInv, Next, NEW c \in Cleaners
  PROVE  CleanerSafe(c)'
<1>1. CleanerSafe(c) /\ cleaner \in [Cleaners -> Cleaner] /\ \A s \in Sessions : PendingSafe(s)
  BY DEF IInv, TypeOK
<1>2. \A s \in Sessions : RowGood(s)
  BY RowStep
<1>3. CASE cleaner'[c] = cleaner[c]
  BY <1>3, CleanerFrame
<1>4. ASSUME cleaner'[c] = IdleCleaner  PROVE CleanerSafe(c)'
  <2>1. cleaner'[c].pc = "idle"
    BY <1>4 DEF IdleCleaner
  <2> QED
    BY <2>1 DEF CleanerSafe
<1>5. ASSUME NEW s \in Sessions, CleanClaim(c, s)  PROVE CleanerSafe(c)'
  <2>1. cleaner'[c].pc \in {"inspect", "remove"} /\ cleaner'[c].s = s
        /\ cleaner'[c].seen = Remembered(s)
        /\ (row[s].status # "cleanup_pending" <=> cleaner'[c].pc = "remove")
    BY <1>1, <1>5 DEF CleanClaim
  <2>2. Remembered(s) \in Over
    BY DEF Remembered, Over
  <2>3. row'[s].status = "cleanup_pending" /\ row'[s].image = row[s].image
    BY <1>5 DEF CleanClaim, IInv, TypeOK, Row
  <2>4. row[s].status # "cleanup_pending" /\ row[s].image = "completed" => row[s].status = "completed"
    BY DEF IInv, RowSafe
  <2>5. row[s].status = "completed" => Remembered(s) = "completed"
    BY DEF Remembered
  <2> QED
    BY <2>1, <2>2, <2>3, <2>4, <2>5 DEF CleanerSafe, Ended
<1>6. ASSUME NEW s \in Sessions, OrphanFind(c, s)  PROVE CleanerSafe(c)'
  <2>1. cleaner'[c].pc = "orphan" /\ cleaner'[c].s = s
    BY <1>1, <1>6 DEF OrphanFind
  <2>2. s \in aged /\ ~row'[s].path /\ opening' = opening
    BY <1>6 DEF OrphanFind, Orphan, database, requests
  <2>3. s \notin opening'
    BY <1>1, <2>2 DEF PendingSafe
  <2> QED
    BY <2>1, <2>2, <2>3 DEF CleanerSafe
<1>7. CASE CleanInspect(c)
  <2> PICK s \in Sessions : s = cleaner[c].s
    BY <1>1, <1>7 DEF CleanInspect, CleanerSafe
  <2>1. cleaner'[c].pc = "remove" /\ cleaner'[c].s = s
        /\ cleaner'[c].seen = (IF row[s].image = "completed" THEN "completed" ELSE cleaner[c].seen)
        /\ row' = row
    BY <1>1, <1>7 DEF CleanInspect, Cleaner, database
  <2>2. Ended(s) /\ cleaner[c].seen \in Over
    BY <1>1, <1>7 DEF CleanInspect, CleanerSafe
  <2> QED
    BY <2>1, <2>2 DEF CleanerSafe, Ended, Over
<1>8. CASE CleanRemove(c)
  <2> PICK s \in Sessions : s = cleaner[c].s
    BY <1>1, <1>8 DEF CleanRemove, CleanerSafe
  <2>1. cleaner'[c].pc = "finish" /\ cleaner'[c].s = s /\ cleaner'[c].seen = cleaner[c].seen
        /\ row' = row
    BY <1>1, <1>8 DEF CleanRemove, Cleaner, database
  <2> QED
    BY <1>1, <1>8, <2>1 DEF CleanRemove, CleanerSafe, Ended
<1>9. CASE CleanFinish(c) \/ OrphanRemove(c) \/ CleanerStops(c)
  BY <1>1, <1>4, <1>9 DEF CleanFinish, OrphanRemove, CleanerStops
<1>10. ASSUME NEW d \in Cleaners, CleanNext(d), d # c  PROVE cleaner'[c] = cleaner[c]
  BY <1>1, <1>10 DEF CleanNext, CleanClaim, OrphanFind, CleanInspect, CleanRemove, CleanFinish,
                     OrphanRemove, CleanerStops
<1>11. ASSUME CleanNext(c)  PROVE CleanerSafe(c)'
  BY <1>5, <1>6, <1>7, <1>8, <1>9, <1>11 DEF CleanNext
<1> QED
  BY <1>3, <1>10, <1>11, ActorFrames

LEMMA PutStep ==
  ASSUME IInv, Next, NEW r \in Puts
  PROVE  PutSafe(r)'
<1>1. PutSafe(r) /\ put \in [Puts -> Put]
  BY DEF IInv, TypeOK
<1>2. CASE put'[r] = put[r]
  BY <1>1, <1>2 DEF PutSafe
<1>3. ASSUME NEW s \in Sessions, NEW k \in Kinds, PutRead(r, s, k)  PROVE PutSafe(r)'
  BY <1>1, <1>3 DEF PutRead, PutSafe
<1>4. CASE PutStream(r)
  <2>1. put'[r].s = put[r].s /\ put[r].pc = "read"
    BY <1>1, <1>4 DEF PutStream, Put
  <2> QED
    BY <1>1, <2>1 DEF PutSafe
<1>5. ASSUME PutEnds(r)  PROVE PutSafe(r)'
  <2>1. put'[r].pc = "idle"
    BY <1>1, <1>5 DEF PutEnds, IdlePut
  <2> QED
    BY <2>1 DEF PutSafe
<1>6. CASE PutCommit(r) \/ PutDuplicate(r) \/ PutDiscard(r) \/ PutUnrecorded(r) \/ CrashPut(r)
  BY <1>5, <1>6 DEF PutCommit, PutDuplicate, PutDiscard, PutUnrecorded, CrashPut
<1>7. ASSUME NEW p \in Puts, PutNext(p), p # r  PROVE put'[r] = put[r]
  BY <1>1, <1>7 DEF PutNext, PutRead, PutStream, PutCommit, PutDuplicate, PutDiscard,
                    PutUnrecorded, CrashPut, PutEnds
<1>8. ASSUME PutNext(r)  PROVE PutSafe(r)'
  BY <1>3, <1>4, <1>6, <1>8 DEF PutNext
<1> QED
  BY <1>2, <1>7, <1>8, ActorFrames

-----------------------------------------------------------------------------
(* Files. Only a promotion and its undoing take files from a session that   *)
(* accepts parts, and only they and the end of an image change the store.   *)

KeepsFiles(t) ==
  /\ stored'[t] = stored[t]
  /\ Accepts(t) => ready[t] \subseteq ready'[t]
  /\ Accepts(t)' => \A k \in Kinds : part'[t][k] = "received" =>
                      part[t][k] = "received" \/ k \in ready'[t]
  /\ Referenced(t)' => Referenced(t)

LEMMA FilesFrame ==
  ASSUME NEW t \in Sessions, KeepsFiles(t), FilesSafe(t), RowSafe(t), PendingSafe(t), Forward(t)
  PROVE  FilesSafe(t)'
<1>1. ASSUME OneProcess, Accepts(t)', NEW k \in Kinds, part'[t][k] = "received"
      PROVE  k \in ready'[t] \cup stored'[t]
  <2>1. CASE Accepts(t)
    BY <1>1, <2>1 DEF KeepsFiles, FilesSafe, Staged
  <2>2. CASE Opened(t)
    BY <1>1, <2>2 DEF Opened, PendingSafe, RowSafe
  <2> QED
    BY <1>1, <2>1, <2>2 DEF Forward
<1>2. OneProcess => Staged(t)'
  BY <1>1 DEF Staged, Accepts, Open
<1>3. Referenced(t)' => stored'[t] = Persistent
  BY DEF KeepsFiles, FilesSafe
<1> QED
  BY <1>2, <1>3 DEF FilesSafe, OneProcess, Referenced

LEMMA RestoreFrame ==
  ASSUME NEW q \in Completes, RestoreSafe(q), restoring'[q] = restoring[q],
         \A s \in Sessions : RowGood(s) /\ PendingSafe(s),
         \A s \in Sessions : OneProcess /\ Accepts(s) /\ Accepts(s)' => ready[s] \subseteq ready'[s]
  PROVE  RestoreSafe(q)'
<1>1. CASE restoring[q].pc = "idle"
  <2>1. restoring'[q].pc = "idle"
    BY <1>1
  <2> QED
    BY <2>1 DEF RestoreSafe
<1>2. CASE restoring[q].pc # "idle"
  <2> PICK s \in Sessions : s = restoring[q].s
    BY <1>2 DEF RestoreSafe
  <2>1. restoring'[q].s = s /\ restoring'[q].pc = restoring[q].pc
        /\ restoring'[q].parts = restoring[q].parts
    OBVIOUS
  <2>2. row[s].status # "none" /\ row'[s].status # "none"
    BY <1>2 DEF RestoreSafe, RowGood, Forward
  <2>3. Accepts(s)' => Accepts(s)
    BY <2>2 DEF RowGood, Forward, Opened, PendingSafe
  <2>4. OneProcess /\ restoring[q].pc = "unstore" /\ Accepts(s)' =>
          restoring[q].parts \subseteq ready'[s]
    BY <2>3 DEF RestoreSafe
  <2> QED
    BY <2>1, <2>2, <2>4 DEF RestoreSafe, Accepts, Open, OneProcess
<1> QED
  BY <1>1, <1>2

\* Directory removers keep off the sessions that accept parts.
LEMMA RemovalKeeps ==
  ASSUME NEW s \in Sessions, ~Accepts(s), RemoveAll(s), UNCHANGED <<row, part>>,
         ready \in [Sessions -> SUBSET Kinds], NEW t \in Sessions
  PROVE  KeepsFiles(t)
BY DEF RemoveAll, KeepsFiles, Referenced, Accepts, Open

LEMMA SameFilesKeep ==
  ASSUME UNCHANGED <<row, part, stored>>, NEW t \in Sessions,
         Accepts(t) => ready[t] \subseteq ready'[t]
  PROVE  KeepsFiles(t)
BY DEF KeepsFiles, Referenced

LEMMA OpenKeeps ==
  ASSUME RowTyped, NEW s \in Sessions, OpenNext(s), NEW t \in Sessions
  PROVE  KeepsFiles(t)
<1> USE DEF database, disk
<1>1. CASE MakeDirectory(s) \/ RefuseSession(s) \/ CrashInit(s)
  BY <1>1, SameFilesKeep DEF MakeDirectory, RefuseSession, CrashInit
<1>2. CASE CreateSession(s) \/ CreateUnanswered(s)
  <2>1. row' = [row EXCEPT ![s] = [NoRow EXCEPT !.status = "initiated", !.path = TRUE]]
        /\ UNCHANGED <<part, ready, stored>>
    BY <1>2 DEF CreateSession, CreateUnanswered
  <2>2. row'[t].image = row[t].image \/ row'[t].image = "none"
    BY <2>1 DEF RowTyped, NoRow
  <2> QED
    BY <2>1, <2>2 DEF KeepsFiles, Referenced
<1> QED
  BY <1>1, <1>2 DEF OpenNext

LEMMA PutKeeps ==
  ASSUME RowTyped, PartTyped, ready \in [Sessions -> SUBSET Kinds],
         NEW r \in Puts, PutSafe(r), put[r].k \in Kinds, PutNext(r), NEW t \in Sessions
  PROVE  KeepsFiles(t)
<1> USE DEF database, disk
<1>1. ASSUME NEW s \in Sessions, NEW k \in Kinds, PutRead(r, s, k)  PROVE KeepsFiles(t)
  BY <1>1, SameFilesKeep DEF PutRead
<1>2. CASE PutStream(r) \/ PutDuplicate(r) \/ PutDiscard(r) \/ CrashPut(r)
  BY <1>2, SameFilesKeep DEF PutStream, PutDuplicate, PutDiscard, CrashPut
<1>3. CASE PutUnrecorded(r)
  <2>1. put[r].s \in Sessions
    BY <1>3 DEF PutUnrecorded, PutSafe
  <2> QED
    BY <1>3, <2>1, SameFilesKeep DEF PutUnrecorded, Rename
<1>4. CASE PutCommit(r)
  <2> PICK s \in Sessions : s = put[r].s
    BY <1>4 DEF PutCommit, PutSafe
  <2> PICK k \in Kinds : k = put[r].k
    OBVIOUS
  <2>1. /\ part' = [part EXCEPT ![s][k] = "received"]
        /\ row' = [row EXCEPT ![s].status = "uploading", ![s].count = @ + 1]
        /\ ready' = [ready EXCEPT ![s] = @ \cup {k}] /\ stored' = stored
    BY <1>4 DEF PutCommit, Rename
  <2>2. row'[t].image = row[t].image
    BY <2>1 DEF RowTyped, Row
  <2>3. \A j \in Kinds : part'[t][j] = part[t][j] \/ (t = s /\ j = k)
    BY <2>1 DEF PartTyped
  <2>4. ready[t] \subseteq ready'[t] /\ k \in ready'[s]
    BY <2>1
  <2> QED
    BY <2>1, <2>2, <2>3, <2>4 DEF KeepsFiles, Referenced
<1> QED
  BY <1>1, <1>2, <1>3, <1>4 DEF PutNext

LEMMA PublishKeeps ==
  ASSUME RowTyped, PartTyped, ready \in [Sessions -> SUBSET Kinds],
         NEW s \in Sessions, RowSafe(s), SweepStaging(s) \/ PublishCommit(s), NEW t \in Sessions
  PROVE  KeepsFiles(t)
<1>1. CASE SweepStaging(s)
  <2>1. UNCHANGED <<row, part, stored>> /\ ~Accepts(s)
        /\ ready' = [ready EXCEPT ![s] = ready[s] \ {Source}]
    BY <1>1 DEF SweepStaging, database, Accepts, Open
  <2>2. Accepts(t) => ready[t] \subseteq ready'[t]
    BY <2>1
  <2> QED
    BY <2>1, <2>2, SameFilesKeep
<1>2. CASE PublishCommit(s)
  <2>1. /\ row[s].status = "processing" /\ row' = [row EXCEPT ![s] = SessionAfterPublish(s)]
        /\ part' = [part EXCEPT ![s][Source] = "cleaned"] /\ UNCHANGED <<ready, stored>>
    BY <1>2 DEF PublishCommit, disk
  <2>2. row'[t].image = row[t].image \/ t = s
    BY <2>1 DEF RowTyped
  <2>3. \A j \in Kinds : part'[t][j] = part[t][j] \/ part'[t][j] = "cleaned"
    BY <2>1 DEF PartTyped
  <2>4. Referenced(s)
    BY <2>1 DEF RowSafe, Referenced
  <2> QED
    BY <2>1, <2>2, <2>3, <2>4 DEF KeepsFiles, Referenced
<1> QED
  BY <1>1, <1>2

LEMMA CancelKeeps ==
  ASSUME RowTyped, PartTyped, ready \in [Sessions -> SUBSET Kinds],
         NEW s \in Sessions, PendingSafe(s), CancelNext(s), NEW t \in Sessions
  PROVE  KeepsFiles(t)
<1> USE DEF database, disk
<1>1. CASE Cancel(s) \/ CancelMark(s)
  <2>1. /\ \E x \in {"cancelled", "cleanup_pending"} : row' = [row EXCEPT ![s].status = x]
        /\ part' = part \/ part' = [part EXCEPT ![s] = [k \in Kinds |-> "cleaned"]]
        /\ UNCHANGED <<ready, stored>>
    BY <1>1 DEF Cancel, CancelMark, SetRow
  <2>2. row'[t].image = row[t].image
    BY <2>1 DEF RowTyped, Row
  <2>3. \A j \in Kinds : part'[t][j] = part[t][j] \/ part'[t][j] = "cleaned"
    BY <2>1 DEF PartTyped
  <2> QED
    BY <2>1, <2>2, <2>3 DEF KeepsFiles, Referenced
<1>2. CASE CancelRemove(s)
  <2>1. ~Accepts(s)
    BY <1>2 DEF CancelRemove, PendingSafe, Ended, Over, Accepts, Open
  <2> QED
    BY <1>2, <2>1, RemovalKeeps DEF CancelRemove
<1>3. CASE CancelRemoveFails(s) \/ CrashCancel(s)
  BY <1>3, SameFilesKeep DEF CancelRemoveFails, CrashCancel
<1> QED
  BY <1>1, <1>2, <1>3 DEF CancelNext

LEMMA CleanKeeps ==
  ASSUME RowTyped, PartTyped, ready \in [Sessions -> SUBSET Kinds], \A s \in Sessions : RowSafe(s),
         NEW c \in Cleaners, CleanerSafe(c), CleanNext(c), NEW t \in Sessions
  PROVE  KeepsFiles(t)
<1> USE DEF database, disk
<1>1. ASSUME NEW s \in Sessions, CleanClaim(c, s)  PROVE KeepsFiles(t)
  <2>1. row' = [row EXCEPT ![s].status = "cleanup_pending", ![s].due = FALSE]
        /\ UNCHANGED <<part, ready, stored>>
    BY <1>1 DEF CleanClaim
  <2>2. row'[t].image = row[t].image
    BY <2>1 DEF RowTyped, Row
  <2> QED
    BY <2>1, <2>2 DEF KeepsFiles, Referenced
<1>2. ASSUME NEW s \in Sessions, OrphanFind(c, s)  PROVE KeepsFiles(t)
  BY <1>2, SameFilesKeep DEF OrphanFind
<1>3. CASE CleanInspect(c) \/ CleanerStops(c)
  BY <1>3, SameFilesKeep DEF CleanInspect, CleanerStops
<1>4. CASE CleanRemove(c) \/ OrphanRemove(c)
  <2> PICK s \in Sessions : s = cleaner[c].s
    BY <1>4 DEF CleanRemove, OrphanRemove, CleanerSafe
  <2>1. ~Accepts(s)
    BY <1>4 DEF CleanRemove, OrphanRemove, CleanerSafe, Ended, Over, Accepts, Open, RowSafe
  <2> QED
    BY <1>4, <2>1, RemovalKeeps DEF CleanRemove, OrphanRemove
<1>5. CASE CleanFinish(c)
  <2> PICK s \in Sessions : s = cleaner[c].s
    BY <1>5 DEF CleanFinish, CleanerSafe
  <2>1. /\ row' = row \/ row' = [row EXCEPT ![s] = Cleaned(s, cleaner[c].seen)]
        /\ part' = part \/ part' = [part EXCEPT ![s] = [k \in Kinds |-> "cleaned"]]
        /\ UNCHANGED <<ready, stored>>
    BY <1>5 DEF CleanFinish
  <2>2. row'[t].image = row[t].image
    <3>1. Cleaned(s, cleaner[c].seen).image = row[s].image
      BY DEF RowTyped, Row, Cleaned
    <3> QED
      BY <2>1, <3>1 DEF RowTyped
  <2>3. \A j \in Kinds : part'[t][j] = part[t][j] \/ part'[t][j] = "cleaned"
    BY <2>1 DEF PartTyped
  <2> QED
    BY <2>1, <2>2, <2>3 DEF KeepsFiles, Referenced
<1> QED
  BY <1>1, <1>2, <1>3, <1>4, <1>5 DEF CleanNext

LEMMA TimeKeeps ==
  ASSUME RowTyped, NEW s \in Sessions, Time(s), NEW t \in Sessions
  PROVE  KeepsFiles(t)
<1>1. /\ row' = row \/ row' = [row EXCEPT ![s].expired = TRUE] \/ row' = [row EXCEPT ![s].due = TRUE]
      /\ UNCHANGED <<part, ready, stored>>
  BY DEF Time, Expire, DueElapses, DirAges, database, disk
<1>2. row'[t].image = row[t].image
  BY <1>1 DEF RowTyped, Row
<1> QED
  BY <1>1, <1>2 DEF KeepsFiles, Referenced

LEMMA KeepsStep ==
  ASSUME IInv, Next, NEW t \in Sessions
  PROVE  \/ KeepsFiles(t)
         \/ \E s \in Sessions : Complete(s) \/ PublishDies(s) \/ DeleteImage(s)
         \/ \E q \in Completes : FinishNext(q)
<1>1. /\ RowTyped /\ PartTyped /\ ready \in [Sessions -> SUBSET Kinds]
      /\ \A s \in Sessions : RowSafe(s) /\ PendingSafe(s)
      /\ \A r \in Puts : PutSafe(r) /\ put[r].k \in Kinds
      /\ \A c \in Cleaners : CleanerSafe(c)
  BY DEF IInv, TypeOK, RowTyped, PartTyped, Put
<1>2. ASSUME NEW s \in Sessions, OpenNext(s) \/ CancelNext(s) \/ Time(s)  PROVE KeepsFiles(t)
  BY <1>1, <1>2, OpenKeeps, CancelKeeps, TimeKeeps
<1>3. ASSUME NEW s \in Sessions, SweepStaging(s) \/ PublishCommit(s)  PROVE KeepsFiles(t)
  BY <1>1, <1>3, PublishKeeps
<1>4. ASSUME NEW r \in Puts, PutNext(r)  PROVE KeepsFiles(t)
  BY <1>1, <1>4, PutKeeps
<1>5. ASSUME NEW c \in Cleaners, CleanNext(c)  PROVE KeepsFiles(t)
  BY <1>1, <1>5, CleanKeeps
<1> QED
  BY <1>2, <1>3, <1>4, <1>5 DEF Next, PublishNext

\* What a session, its parts and its files are on another session's turn.
SameFiles(t) == SameRow(t) /\ ready'[t] = ready[t] /\ stored'[t] = stored[t]

LEMMA SameFilesSafe ==
  ASSUME NEW t \in Sessions, FilesSafe(t), SameFiles(t)
  PROVE  FilesSafe(t)'
BY DEF FilesSafe, SameFiles, SameRow, Staged, Accepts, Open, Referenced, OneProcess

LEMMA CompleteFiles ==
  ASSUME IInv, NEW s \in Sessions, Complete(s), NEW t \in Sessions
  PROVE  FilesSafe(t)' /\ (Accepts(t)' => ready'[t] = ready[t])
<1>1. /\ row' = [row EXCEPT ![s].status = "processing", ![s].image = "processing"]
      /\ part' = [part EXCEPT ![s] = [k \in Kinds |-> IF k = Source THEN part[s][k] ELSE "finalized"]]
      /\ ready' = [ready EXCEPT ![s] = @ \ Persistent]
      /\ stored' = [stored EXCEPT ![s] = Persistent]
  BY DEF Complete, Promote
<1>2. CASE t # s
  <2>1. SameFiles(t)
    BY <1>1, <1>2 DEF SameFiles, SameRow, IInv, TypeOK
  <2> QED
    BY <2>1, SameFilesSafe DEF IInv, SameFiles
<1>3. CASE t = s
  <2>1. row'[s].status = "processing" /\ stored'[s] = Persistent
    BY <1>1 DEF IInv, TypeOK, Row
  <2> QED
    BY <1>3, <2>1 DEF FilesSafe, Staged, Accepts, Open
<1> QED
  BY <1>2, <1>3

LEMMA GoneFiles ==
  ASSUME IInv, NEW s \in Sessions, PublishDies(s) \/ DeleteImage(s), NEW t \in Sessions
  PROVE  FilesSafe(t)' /\ ready' = ready
<1>1. /\ stored' = [stored EXCEPT ![s] = {}] /\ UNCHANGED <<part, ready>>
  BY DEF PublishDies, DeleteImage
<1>2. \A u \in Sessions \ {s} : row'[u] = row[u]
  BY DEF PublishDies, DeleteImage, IInv, TypeOK
<1>3. row'[s].image \in {"none", "deleted"} /\ row'[s].status \notin {"initiated", "uploading"}
  <2>1. CASE PublishDies(s)
    BY <2>1 DEF PublishDies, IInv, TypeOK, Row
  <2>2. CASE DeleteImage(s)
    <3>1. row[s].status \in {"completed", "cleanup_pending"}
      BY <2>2 DEF DeleteImage, Deletable, IInv, RowSafe
    <3> QED
      BY <2>2, <3>1 DEF DeleteImage, IInv, TypeOK, Row
  <2> QED
    BY <2>1, <2>2
<1>4. CASE t # s
  <2>1. SameFiles(t)
    BY <1>1, <1>2, <1>4 DEF SameFiles, SameRow, IInv, TypeOK
  <2> QED
    BY <1>1, <2>1, SameFilesSafe DEF IInv
<1>5. CASE t = s
  BY <1>1, <1>3, <1>5 DEF FilesSafe, Staged, Accepts, Open, Referenced
<1> QED
  BY <1>4, <1>5

LEMMA FinishFiles ==
  ASSUME IInv, NEW q \in Completes, FinishNext(q), NEW t \in Sessions
  PROVE  FilesSafe(t)'
<1>1. /\ ready \in [Sessions -> SUBSET Kinds] /\ stored \in [Sessions -> SUBSET Persistent]
      /\ FilesSafe(t) /\ RestoreSafe(q)
  BY DEF IInv, TypeOK
<1>2. UNCHANGED <<row, part>>
  BY DEF FinishNext, CompleteRolledBack, Relink, Unstore, CrashComplete, database, disk
<1>3. ASSUME ready'[t] = ready[t], stored'[t] = stored[t]  PROVE FilesSafe(t)'
  BY <1>1, <1>2, <1>3, SameFilesSafe DEF SameFiles, SameRow
<1>4. ASSUME NEW s \in Sessions, CompleteRolledBack(q, s)  PROVE FilesSafe(t)'
  <2>1. /\ \A k \in Kinds : part[s][k] = "received"
        /\ ready' = [ready EXCEPT ![s] = @ \ Persistent]
        /\ stored' = [stored EXCEPT ![s] = Persistent]
    BY <1>4 DEF CompleteRolledBack, Completable, Promote
  <2>2. CASE t # s
    BY <1>1, <1>3, <2>1, <2>2
  <2>3. CASE t = s
    <3>1. stored'[t] = Persistent /\ ready'[t] = ready[t] \ Persistent
      BY <1>1, <2>1, <2>3
    <3>2. OneProcess /\ Accepts(t) => Source \in ready[t]
      BY <1>1, <2>1, <2>3, UploadAssumption DEF FilesSafe, Staged, UploadAssumption, Persistent
    <3>3. OneProcess /\ Accepts(t) => \A k \in Kinds : k \in ready'[t] \cup stored'[t]
      BY <3>1, <3>2 DEF Persistent
    <3> QED
      BY <1>2, <3>1, <3>3 DEF FilesSafe, Staged, Accepts, Open, OneProcess
  <2> QED
    BY <2>2, <2>3
<1>5. CASE Relink(q)
  <2> PICK s \in Sessions : s = restoring[q].s
    BY <1>1, <1>5 DEF Relink, RestoreSafe
  <2>1. ready[t] \subseteq ready'[t] /\ stored' = stored
    BY <1>1, <1>5 DEF Relink
  <2> QED
    BY <1>1, <1>2, <2>1 DEF FilesSafe, Staged, Accepts, Open, Referenced, OneProcess
<1>6. CASE Unstore(q)
  <2> PICK s \in Sessions : s = restoring[q].s
    BY <1>1, <1>6 DEF Unstore, RestoreSafe
  <2>1. /\ stored' = [stored EXCEPT ![s] = IF Referenced(s) THEN @ ELSE @ \ restoring[q].parts]
        /\ ready' = ready /\ restoring[q].pc = "unstore"
    BY <1>6 DEF Unstore
  <2>2. CASE t # s \/ Referenced(s)
    BY <1>1, <1>3, <2>1, <2>2
  <2>3. CASE t = s /\ ~Referenced(s)
    <3>1. stored'[t] = stored[t] \ restoring[q].parts
      BY <1>1, <2>1, <2>3
    <3>2. OneProcess /\ Accepts(t) => restoring[q].parts \subseteq ready[t]
      BY <1>1, <2>1, <2>3 DEF RestoreSafe
    <3> QED
      BY <1>1, <1>2, <2>1, <2>3, <3>1, <3>2
      DEF FilesSafe, Staged, Accepts, Open, Referenced, OneProcess
  <2> QED
    BY <2>2, <2>3
<1>7. CASE CrashComplete(q)
  BY <1>3, <1>7 DEF CrashComplete, disk
<1> QED
  BY <1>4, <1>5, <1>6, <1>7 DEF FinishNext

LEMMA FilesStep ==
  ASSUME IInv, Next, NEW t \in Sessions
  PROVE  FilesSafe(t)'
<1>1. ASSUME KeepsFiles(t)  PROVE FilesSafe(t)'
  <2>1. FilesSafe(t) /\ RowSafe(t) /\ PendingSafe(t) /\ Forward(t)
    BY RowStep DEF IInv, RowGood
  <2> QED
    BY <1>1, <2>1, FilesFrame
<1> QED
  BY <1>1, KeepsStep, CompleteFiles, GoneFiles, FinishFiles

LEMMA RestoreStep ==
  ASSUME IInv, Next, NEW q \in Completes
  PROVE  RestoreSafe(q)'
<1>1. /\ RestoreSafe(q) /\ restoring \in [Completes -> Restore]
      /\ \A s \in Sessions : RowSafe(s) /\ RowGood(s) /\ PendingSafe(s)
      /\ ready \in [Sessions -> SUBSET Kinds]
  BY RowStep DEF IInv, TypeOK
<1>2. ASSUME restoring'[q] = restoring[q],
             \A s \in Sessions : OneProcess /\ Accepts(s) /\ Accepts(s)' => ready[s] \subseteq ready'[s]
      PROVE  RestoreSafe(q)'
  BY <1>1, <1>2, RestoreFrame
<1>3. ASSUME UNCHANGED restoring  PROVE RestoreSafe(q)'
  <2>1. ASSUME NEW s \in Sessions, Accepts(s), Accepts(s)', ~(\E p \in Completes : FinishNext(p))
        PROVE  ready[s] \subseteq ready'[s]
    BY <2>1, KeepsStep, CompleteFiles, GoneFiles DEF KeepsFiles
  <2>2. ASSUME NEW s \in Sessions, NEW p \in Completes, FinishNext(p)
        PROVE  ready[s] \subseteq ready'[s]
    BY <1>1, <1>3, <2>2 DEF FinishNext, CompleteRolledBack, Relink, Unstore, CrashComplete,
                       Restore, disk, IdleRestore
  <2> QED
    BY <1>2, <1>3, <2>1, <2>2
<1>4. ASSUME NEW p \in Completes, FinishNext(p), p # q  PROVE RestoreSafe(q)'
  <2>1. restoring'[q] = restoring[q]
    BY <1>1, <1>4 DEF FinishNext, CompleteRolledBack, Relink, Unstore, CrashComplete
  <2>2. ~OneProcess
    BY <1>4 DEF OneProcess
  <2> QED
    BY <1>2, <2>1, <2>2
<1>5. ASSUME restoring'[q].pc = "idle"  PROVE RestoreSafe(q)'
  BY <1>5 DEF RestoreSafe
<1>6. ASSUME NEW s \in Sessions, CompleteRolledBack(q, s)  PROVE RestoreSafe(q)'
  <2>1. restoring'[q].pc = "relink" /\ restoring'[q].s = s
    BY <1>1, <1>6 DEF CompleteRolledBack
  <2>2. row'[s].status # "none"
    BY <1>6 DEF CompleteRolledBack, Completable, Accepts, Open, database
  <2> QED
    BY <2>1, <2>2 DEF RestoreSafe
<1>7. CASE Relink(q)
  <2> PICK s \in Sessions : s = restoring[q].s
    BY <1>1, <1>7 DEF Relink, RestoreSafe
  <2> DEFINE back == Persistent \cap (ready[s] \cup stored[s])
  <2>1. PICK e \in Restore : e = restoring[q]
    BY <1>1
  <2>2. restoring' = [restoring EXCEPT ![q] = [e EXCEPT !.pc = "unstore", !.parts = back]]
        /\ ready' = [ready EXCEPT ![s] = @ \cup back] /\ row' = row
    BY <1>7, <2>1 DEF Relink, database
  <2>3. restoring'[q].parts = back /\ restoring'[q].s = s /\ back \subseteq ready'[s]
    BY <1>1, <2>1, <2>2 DEF Restore
  <2>4. row'[s].status # "none"
    BY <1>1, <1>7, <2>2 DEF RestoreSafe, Relink
  <2> QED
    BY <2>3, <2>4 DEF RestoreSafe
<1>8. CASE Unstore(q) \/ CrashComplete(q)
  <2>1. restoring'[q] = IdleRestore
    BY <1>1, <1>8 DEF Unstore, CrashComplete
  <2> QED
    BY <1>5, <2>1 DEF IdleRestore
<1>9. ASSUME FinishNext(q)  PROVE RestoreSafe(q)'
  BY <1>6, <1>7, <1>8, <1>9 DEF FinishNext
<1> QED
  BY <1>3, <1>4, <1>9, ActorFrames

-----------------------------------------------------------------------------
(* Counting. storage_used is the number of visible images, and a session   *)
(* reserves room from the moment it is opened.                             *)

LEMMA ReservingFinite == IsFiniteSet(Reserving) /\ Cardinality(Reserving) \in Nat
<1>1. Reserving \subseteq Sessions
  BY DEF Reserving
<1> QED
  BY <1>1, UploadAssumption, FS_Subset, FS_CardinalityType DEF UploadAssumption

\* Only a publication and a deletion change what is billed.
LEMMA UsedFrame ==
  ASSUME IInv, Next
  PROVE  \/ \E s \in Sessions : PublishCommit(s) \/ DeleteImage(s)
         \/ used' = used /\ Visible' = Visible
<1>1. RowTyped /\ \A s \in Sessions : RowSafe(s) /\ PendingSafe(s)
  BY DEF IInv, TypeOK, RowTyped
<1>2. ASSUME \A t \in Sessions : row'[t].image = "completed" <=> row[t].image = "completed"
      PROVE  Visible' = Visible
  BY <1>2 DEF Visible
<1>3. ASSUME UNCHANGED row  PROVE Visible' = Visible
  BY <1>3 DEF Visible
<1> USE DEF database, disk
<1>4. ASSUME NEW s \in Sessions, OpenNext(s)  PROVE used' = used /\ Visible' = Visible
  <2>1. CASE MakeDirectory(s) \/ RefuseSession(s) \/ CrashInit(s)
    BY <2>1, <1>3 DEF MakeDirectory, RefuseSession, CrashInit
  <2>2. CASE CreateSession(s) \/ CreateUnanswered(s)
    <3>1. /\ row' = [row EXCEPT ![s] = [NoRow EXCEPT !.status = "initiated", !.path = TRUE]]
          /\ row[s].image = "none" /\ used' = used
      BY <1>1, <2>2 DEF CreateSession, CreateUnanswered, PendingSafe, RowSafe
    <3>2. \A t \in Sessions : row'[t].image = row[t].image
      BY <1>1, <3>1 DEF RowTyped, NoRow
    <3> QED
      BY <1>2, <3>1, <3>2
  <2> QED
    BY <1>4, <2>1, <2>2 DEF OpenNext
<1>5. ASSUME NEW s \in Sessions, Complete(s)  PROVE used' = used /\ Visible' = Visible
  <2>1. /\ row' = [row EXCEPT ![s].status = "processing", ![s].image = "processing"]
        /\ row[s].image = "none" /\ used' = used
    BY <1>1, <1>5 DEF Complete, Completable, Accepts, Open, RowSafe
  <2>2. \A t \in Sessions : row'[t].image = row[t].image \/ (t = s /\ row'[t].image = "processing")
    BY <1>1, <2>1 DEF RowTyped, Row
  <2> QED
    BY <1>2, <2>1, <2>2
<1>6. ASSUME NEW s \in Sessions, SweepStaging(s) \/ PublishDies(s)
      PROVE  used' = used /\ Visible' = Visible
  <2>1. CASE SweepStaging(s)
    BY <2>1, <1>3 DEF SweepStaging
  <2>2. CASE PublishDies(s)
    <3>1. /\ row' = [row EXCEPT ![s].status = "failed", ![s].failedAt = TRUE, ![s].due = TRUE,
                                ![s].image = "none"]
          /\ row[s].image = "processing" /\ used' = used
      BY <1>1, <2>2 DEF PublishDies, RowSafe
    <3>2. \A t \in Sessions : row'[t].image = row[t].image \/ (t = s /\ row'[t].image = "none")
      BY <1>1, <3>1 DEF RowTyped, Row
    <3> QED
      BY <1>2, <3>1, <3>2
  <2> QED
    BY <1>6, <2>1, <2>2
<1>7. ASSUME NEW s \in Sessions, CancelNext(s)  PROVE used' = used /\ Visible' = Visible
  <2>1. used' = used /\ (row' = row \/ \E x \in {"cancelled", "cleanup_pending"} :
                                         row' = [row EXCEPT ![s].status = x])
    BY <1>7 DEF CancelNext, Cancel, CancelRemove, CancelRemoveFails, CancelMark, CrashCancel, SetRow
  <2>2. \A t \in Sessions : row'[t].image = row[t].image
    BY <1>1, <2>1 DEF RowTyped, Row
  <2> QED
    BY <1>2, <2>1, <2>2
<1>8. ASSUME NEW s \in Sessions, Time(s)  PROVE used' = used /\ Visible' = Visible
  <2>1. used' = used /\ (row' = row \/ row' = [row EXCEPT ![s].expired = TRUE]
                                    \/ row' = [row EXCEPT ![s].due = TRUE])
    BY <1>8 DEF Time, Expire, DueElapses, DirAges
  <2>2. \A t \in Sessions : row'[t].image = row[t].image
    BY <1>1, <2>1 DEF RowTyped, Row
  <2> QED
    BY <1>2, <2>1, <2>2
<1>9. ASSUME NEW r \in Puts, PutNext(r)  PROVE used' = used /\ Visible' = Visible
  <2>1. ASSUME NEW s \in Sessions, NEW k \in Kinds, PutRead(r, s, k)
        PROVE  used' = used /\ row' = row
    BY <2>1 DEF PutRead
  <2>2. used' = used /\ (row' = row \/ \E s \in Sessions :
          row' = [row EXCEPT ![s].status = "uploading", ![s].count = @ + 1])
    BY <1>9, <2>1 DEF PutNext, PutStream, PutCommit, PutDuplicate, PutDiscard, PutUnrecorded,
                      CrashPut, PutSafe, IInv
  <2>3. \A t \in Sessions : row'[t].image = row[t].image
    <3>1. ASSUME NEW s \in Sessions,
                 row' = [row EXCEPT ![s].status = "uploading", ![s].count = @ + 1],
                 NEW t \in Sessions
          PROVE  row'[t].image = row[t].image
      BY <1>1, <3>1 DEF RowTyped, Row
    <3> QED
      BY <2>2, <3>1
  <2> QED
    BY <1>2, <2>2, <2>3
<1>10. ASSUME NEW q \in Completes, FinishNext(q)  PROVE used' = used /\ Visible' = Visible
  <2>1. used' = used /\ row' = row
    BY <1>10 DEF FinishNext, CompleteRolledBack, Relink, Unstore, CrashComplete
  <2> QED
    BY <1>3, <2>1
<1>11. ASSUME NEW c \in Cleaners, CleanNext(c)  PROVE used' = used /\ Visible' = Visible
  <2>1. ASSUME NEW s \in Sessions, CleanClaim(c, s)
        PROVE  used' = used /\ \A t \in Sessions : row'[t].image = row[t].image
    BY <1>1, <2>1 DEF CleanClaim, RowTyped, Row
  <2>2. CASE CleanFinish(c)
    <3> PICK s \in Sessions : s = cleaner[c].s
      BY <2>2 DEF CleanFinish, CleanerSafe, IInv
    <3>1. Cleaned(s, cleaner[c].seen).image = row[s].image
      BY <1>1 DEF RowTyped, Row, Cleaned
    <3>2. used' = used /\ (row' = row \/ row' = [row EXCEPT ![s] = Cleaned(s, cleaner[c].seen)])
      BY <2>2 DEF CleanFinish
    <3>3. \A t \in Sessions : row'[t].image = row[t].image
      BY <1>1, <3>1, <3>2 DEF RowTyped
    <3> QED
      BY <1>2, <3>2, <3>3
  <2>3. CASE CleanInspect(c) \/ CleanRemove(c) \/ OrphanRemove(c) \/ CleanerStops(c)
             \/ \E s \in Sessions : OrphanFind(c, s)
    BY <1>3, <2>3 DEF CleanInspect, CleanRemove, OrphanRemove, CleanerStops, OrphanFind
  <2> QED
    BY <1>2, <1>11, <2>1, <2>2, <2>3 DEF CleanNext
<1> QED
  BY <1>4, <1>5, <1>6, <1>7, <1>8, <1>9, <1>10, <1>11 DEF Next, PublishNext

LEMMA UsedStep ==
  ASSUME IInv, Next
  PROVE  used' = Cardinality(Visible')
<1>1. /\ RowTyped /\ used = Cardinality(Visible) /\ \A s \in Sessions : RowSafe(s)
  BY DEF IInv, TypeOK, RowTyped
<1>2. ASSUME NEW s \in Sessions, PublishCommit(s)  PROVE used' = Cardinality(Visible')
  <2>1. s \notin Visible
    BY <1>1, <1>2 DEF PublishCommit, Visible, RowSafe
  <2>2. SessionAfterPublish(s).image = "completed"
    BY DEF SessionAfterPublish, RowTyped, Row, IInv, TypeOK
  <2>3. row' = [row EXCEPT ![s] = SessionAfterPublish(s)] /\ used' = used + 1
    BY <1>2 DEF PublishCommit
  <2>4. \A t \in Sessions : row'[t].image = "completed" <=> row[t].image = "completed" \/ t = s
    BY <1>1, <2>2, <2>3 DEF RowTyped
  <2>5. Visible' = Visible \cup {s}
    BY <2>4 DEF Visible
  <2> QED
    BY <1>1, <2>1, <2>3, <2>5, VisibleFinite, FS_AddElement
<1>3. ASSUME NEW s \in Sessions, DeleteImage(s)  PROVE used' = Cardinality(Visible')
  <2>1. s \in Visible
    BY <1>3 DEF DeleteImage, Deletable, Visible
  <2>2. row' = [row EXCEPT ![s].image = "deleted"] /\ used' = used - 1
    BY <1>3 DEF DeleteImage
  <2>3. \A t \in Sessions : row'[t].image = "completed" <=> row[t].image = "completed" /\ t # s
    BY <1>1, <2>2 DEF RowTyped, Row
  <2>4. Visible' = Visible \ {s}
    BY <2>3 DEF Visible
  <2> QED
    BY <1>1, <2>1, <2>2, <2>4, VisibleFinite, FS_RemoveElement
<1> QED
  BY <1>1, <1>2, <1>3, UsedFrame

LEMMA CapacityStep ==
  ASSUME IInv, Next
  PROVE  CapacityRespected'
<1> DEFINE n == Cardinality(Reserving)
           m == Cardinality(Reserving')
<1>1. /\ used \in Nat /\ n \in Nat /\ n <= MaxActive /\ used + n <= Quota
      /\ MaxActive \in Nat /\ Quota \in Nat
  BY ReservingFinite, UploadAssumption DEF IInv, TypeOK, CapacityRespected, UploadAssumption
<1>2. \A t \in Sessions : RowGood(t)
  BY RowStep
<1>3. ASSUME used' = used \/ used' = used - 1, Reserving' \subseteq Reserving
      PROVE  CapacityRespected'
  <2>1. m \in Nat /\ m <= n
    BY <1>3, ReservingFinite, FS_Subset, FS_CardinalityType
  <2>2. m <= MaxActive /\ used' + m <= Quota
    BY <1>1, <1>3, <2>1
  <2> QED
    BY <2>2 DEF CapacityRespected
<1>4. ASSUME opening' = opening  PROVE Reserving' \subseteq Reserving
  <2>1. ASSUME NEW t \in Sessions, Accepts(t)' \/ row'[t].status = "processing"
        PROVE  Accepts(t) \/ row[t].status = "processing"
    BY <1>2, <1>4, <2>1 DEF RowGood, Forward, Opened
  <2> QED
    BY <2>1 DEF Reserving
<1>5. ASSUME NEW s \in Sessions, PublishCommit(s)  PROVE CapacityRespected'
  <2>1. /\ used + Cardinality(Reserving \ {s}) + 1 <= Quota /\ used' = used + 1
        /\ opening' = opening /\ row[s].status = "processing"
        /\ row' = [row EXCEPT ![s] = SessionAfterPublish(s)]
    BY <1>5 DEF PublishCommit
  <2>2. SessionAfterPublish(s).status \in {"completed", "cleanup_pending"}
    BY DEF SessionAfterPublish, Row, IInv, TypeOK
  <2>3. row'[s].status \in {"completed", "cleanup_pending"}
    BY <2>1, <2>2 DEF IInv, TypeOK
  <2>4. Reserving' \subseteq Reserving \ {s}
    BY <1>4, <2>1, <2>3 DEF Reserving, Accepts, Open
  <2>5. IsFiniteSet(Reserving \ {s}) /\ Cardinality(Reserving \ {s}) \in Nat
        /\ Cardinality(Reserving \ {s}) <= n
    BY ReservingFinite, FS_Subset, FS_CardinalityType
  <2>6. m \in Nat /\ m <= Cardinality(Reserving \ {s})
    BY <2>4, <2>5, FS_Subset, FS_CardinalityType
  <2>7. m <= MaxActive /\ used' + m <= Quota
    BY <1>1, <2>1, <2>5, <2>6
  <2> QED
    BY <2>7 DEF CapacityRespected
<1>6. ASSUME NEW s \in Sessions, DeleteImage(s)  PROVE CapacityRespected'
  BY <1>3, <1>4, <1>6 DEF DeleteImage, requests
<1>7. ASSUME NEW s \in Sessions, CreateSession(s) \/ CreateUnanswered(s)  PROVE CapacityRespected'
  <2>1. /\ n < MaxActive /\ used + n + 1 <= Quota /\ used' = used
        /\ row' = [row EXCEPT ![s] = [NoRow EXCEPT !.status = "initiated", !.path = TRUE]]
    BY <1>7 DEF CreateSession, CreateUnanswered, HasRoom
  <2>2. \A t \in Sessions \ {s} : row'[t] = row[t]
    BY <2>1 DEF IInv, TypeOK
  <2>3. Reserving' \subseteq Reserving \cup {s}
    BY <2>2 DEF Reserving, Accepts, Open
  <2>4. IsFiniteSet(Reserving \cup {s}) /\ Cardinality(Reserving \cup {s}) \in Nat
        /\ Cardinality(Reserving \cup {s}) <= n + 1
    <3>1. /\ IsFiniteSet(Reserving \cup {s})
          /\ Cardinality(Reserving \cup {s}) = (IF s \in Reserving THEN n ELSE n + 1)
      BY ReservingFinite, FS_AddElement
    <3> QED
      BY <1>1, <3>1
  <2>5. m \in Nat /\ m <= Cardinality(Reserving \cup {s})
    BY <2>3, <2>4, FS_Subset, FS_CardinalityType
  <2>6. m <= MaxActive /\ used' + m <= Quota
    BY <1>1, <2>1, <2>4, <2>5
  <2> QED
    BY <2>6 DEF CapacityRespected
<1>8. ASSUME NEW s \in Sessions, MakeDirectory(s) \/ RefuseSession(s) \/ CrashInit(s)
      PROVE  CapacityRespected'
  <2>1. used' = used /\ row' = row
    BY <1>8 DEF MakeDirectory, RefuseSession, CrashInit, database
  <2>2. Reserving' \subseteq Reserving
    BY <2>1 DEF Reserving, Accepts, Open
  <2> QED
    BY <1>3, <2>1, <2>2
<1>9. ASSUME opening' = opening, used' = used  PROVE CapacityRespected'
  BY <1>3, <1>4, <1>9
<1> QED
  BY <1>5, <1>6, <1>7, <1>8, <1>9, OpeningFrame, UsedFrame DEF OpenNext

-----------------------------------------------------------------------------
(* The theorems.                                                           *)

LEMMA Start == Init => IInv
<1> SUFFICES ASSUME Init  PROVE IInv
  OBVIOUS
<1> USE UploadAssumption DEF Init, UploadAssumption
<1>1. Typed
  <2>1. NoRow \in Row
    BY DEF NoRow, Row, SessionStatus, ImageStatus
  <2>2. IdlePut \in Put
    BY DEF IdlePut, Put
  <2>3. IdleRestore \in Restore
    BY DEF IdleRestore, Restore
  <2>4. IdleCleaner \in Cleaner
    BY DEF IdleCleaner, Cleaner, SessionStatus
  <2> QED
    BY <2>1, <2>2, <2>3, <2>4 DEF Typed, PartStatus
<1>2. \A s \in Sessions : RowSafe(s)
  BY DEF RowSafe, NoRow, Open
<1>3. \A s \in Sessions : PendingSafe(s) /\ FilesSafe(s)
  BY DEF PendingSafe, FilesSafe, Staged, Accepts, Open, NoRow, Referenced
<1>4. \A c \in Cleaners : CleanerSafe(c)
  BY DEF CleanerSafe, IdleCleaner
<1>5. \A r \in Puts : PutSafe(r)
  BY DEF PutSafe, IdlePut
<1>6. \A q \in Completes : RestoreSafe(q)
  BY DEF RestoreSafe, IdleRestore
<1>7. Visible = {} /\ Reserving = {}
  BY DEF Visible, Reserving, Accepts, Open, NoRow
<1>8. used = Cardinality(Visible) /\ CapacityRespected
  BY <1>7, FS_EmptySet DEF CapacityRespected
<1> QED
  BY <1>1, <1>2, <1>3, <1>4, <1>5, <1>6, <1>8, TypeSplit DEF IInv

LEMMA Step == IInv /\ [Next]_vars => IInv'
<1>1. ASSUME IInv, Next  PROVE IInv'
  <2>1. Typed' /\ \A s \in Sessions : RowSafe(s)'
    BY <1>1, TypeStep, RowStep DEF RowGood
  <2>2. TypeOK'
    BY <2>1 DEF Typed, TypeOK, RowSafe, Accepts, Open
  <2>3. \A s \in Sessions : PendingSafe(s)' /\ FilesSafe(s)'
    BY <1>1, PendingStep, FilesStep
  <2>4. \A c \in Cleaners : CleanerSafe(c)'
    BY <1>1, CleanerStep
  <2>5. \A r \in Puts : PutSafe(r)'
    BY <1>1, PutStep
  <2>6. \A q \in Completes : RestoreSafe(q)'
    BY <1>1, RestoreStep
  <2>7. (used = Cardinality(Visible))' /\ CapacityRespected'
    BY <1>1, UsedStep, CapacityStep
  <2> QED
    BY <2>1, <2>2, <2>3, <2>4, <2>5, <2>6, <2>7 DEF IInv
<1>2. ASSUME IInv, UNCHANGED vars  PROVE IInv'
  <2> USE <1>2 DEF vars, database, disk, requests
  <2>1. TypeOK'
    BY DEF IInv, TypeOK, Accepts, Open
  <2>2. \A s \in Sessions : RowSafe(s)' /\ PendingSafe(s)' /\ FilesSafe(s)'
    BY DEF IInv, RowSafe, PendingSafe, FilesSafe, Staged, Accepts, Open, Ended, Counted, Referenced,
           OneProcess
  <2>3. \A c \in Cleaners : CleanerSafe(c)'
    BY DEF IInv, CleanerSafe, Ended
  <2>4. (\A r \in Puts : PutSafe(r)') /\ \A q \in Completes : RestoreSafe(q)'
    BY DEF IInv, PutSafe, RestoreSafe, Accepts, Open, OneProcess
  <2>5. (used = Cardinality(Visible))' /\ CapacityRespected'
    BY DEF IInv, Visible, CapacityRespected, Reserving, Accepts, Open
  <2> QED
    BY <2>1, <2>2, <2>3, <2>4, <2>5 DEF IInv
<1> QED
  BY <1>1, <1>2

\* The inductive invariant holds in every reachable state.
THEOREM InductiveInvariant == Spec => []IInv
BY Start, Step, PTL DEF Spec

\* The bytes of every part that a client was told is received are in the staging directory
\* or in the store while the session can be completed, and received_parts is their number:
\* PutPart, Complete, Cancel and the cleanup worker never lose one, whatever fails, as long
\* as one process completes uploads. Two that undo a Complete of the same session at once
\* can lose one: the second drops the staged copy that the first has linked back, and the
\* first removes the stored one.
THEOREM ReceivedPartsAreStaged ==
  ASSUME OneProcess
  PROVE  Spec => []ReceivedIsStaged
<1>1. IInv => ReceivedIsStaged
  BY DEF IInv, FilesSafe, Staged, RowSafe, Counted, ReceivedIsStaged
<1> QED
  BY <1>1, InductiveInvariant, PTL

\* received_parts, which clients resume from, is the number of parts that are there
\* (PutPart), with any number of processes.
CountIsRight ==
  \A s \in Sessions : Open(s) \/ row[s].status = "processing" =>
    row[s].count = Cardinality({k \in Kinds : part[s][k] \in {"received", "finalized"}})

THEOREM CountsAreRight == Spec => []CountIsRight
<1>1. IInv => CountIsRight
  BY DEF IInv, RowSafe, Counted, CountIsRight
<1> QED
  BY <1>1, InductiveInvariant, PTL

\* An image has its persistent files from Complete to its deletion: undoing an earlier
\* Complete (cleanupUnreferencedV2Files) never takes them.
THEOREM ImagesHaveFiles == Spec => []ImageHasFiles
<1>1. IInv => ImageHasFiles
  BY DEF IInv, FilesSafe, ImageHasFiles
<1> QED
  BY <1>1, InductiveInvariant, PTL

\* No late request and no cleanup worker (cleanupV2FinalStatus) gives the session of a
\* visible image another end than completed.
THEOREM PublishedSessionsStay == Spec => []PublishedStays
<1>1. IInv => PublishedStays
  BY DEF IInv, RowSafe, PublishedStays
<1> QED
  BY <1>1, InductiveInvariant, PTL

\* Sessions and images of a user never exceed the session limit and the quota
\* (v2ActiveReservationCondition), however many requests compete.
THEOREM CapacityIsRespected == Spec => []CapacityRespected
<1>1. IInv => CapacityRespected
  BY DEF IInv
<1> QED
  BY <1>1, InductiveInvariant, PTL

\* A session that was completed, failed or cancelled stays so, but for its cleanup: no
\* PutPart, Complete, Cancel or cleanup that was under way opens it again.
THEOREM SessionsEndForGood == Spec => EndedForGood
<1> DEFINE A == \A s \in Sessions :
                  LET old == row[s].status
                      new == row[s].status'
                  IN /\ old \in {"completed", "failed", "cancelled"} =>
                          new \in {old, "cleanup_pending"}
                     /\ old = "cleanup_pending" =>
                          new \in {old, "completed", "failed", "cancelled"}
<1>1. IInv /\ [Next]_vars => [A]_vars
  BY RowStep DEF RowGood, Forward, EndsForGood, Over
<1> QED
  BY <1>1, InductiveInvariant, PTL DEF Spec, EndedForGood

===============================================================================
