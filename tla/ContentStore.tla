----------------------------- MODULE ContentStore -----------------------------
(***************************************************************************)
(* Files shared between images. A V2 part is stored under the hash of its   *)
(* bytes, so uploads of the same bytes share a file; images of the same     *)
(* original, V1 or V2, share an image_files row, found by its file_hash.    *)
(* Rows are MySQL state; stored and staged are the file system. Whoever     *)
(* removes a file checks first, under the storage lock, that no row names   *)
(* it: the rollback of Complete, the storage deletion events of the outbox  *)
(* and, through them, the search for orphans.                               *)
(*                                                                         *)
(* Each action is one transaction under that lock, or one statement of the  *)
(* V1 upload, which does not take it. The other states of an upload session *)
(* are module UploadSession's, of a publish job module PublishJob's, of an  *)
(* event module Outbox's.                                                   *)
(***************************************************************************)
EXTENDS Integers, FiniteSets

CONSTANTS
  V2,         \* uploads in parts, each one session
  V1,         \* uploads in one request, to the local store
  Hash,       \* Hash[u]: the file_hash of the image_files row of u
  Paths,      \* paths in the persistent store
  PathsOf,    \* PathsOf[u]: those of the parts of u, or of the files of a V1 upload
  RowPaths,   \* RowPaths[u]: those an image_files row that u creates names
  MaxFaults,  \* bound: crashes, failing transactions and file operations
  NoUpload,   \* no row
  Search      \* the search for orphans, as the source of an event

Uploads == V1 \cup V2

ASSUME ContentAssumption ==
  /\ V1 \cap V2 = {} /\ IsFiniteSet(Uploads)
  /\ NoUpload \notin Uploads /\ Search \notin Uploads
  /\ PathsOf \in [Uploads -> SUBSET Paths]
  /\ RowPaths \in [Uploads -> SUBSET Paths]
  /\ \A u \in Uploads : RowPaths[u] \subseteq PathsOf[u]
  /\ \A v \in V1 : \A u \in Uploads \ {v} : PathsOf[v] \cap PathsOf[u] = {}
  /\ DOMAIN Hash = Uploads
  /\ MaxFaults \in Nat

VARIABLES
  stage,   \* stage[u]: how far the upload got
  image,   \* image[u]: the images row of u
  file,    \* file[u]: the image_files row the image of u refers to, named after its creator
  rows,    \* the image_files rows
  count,   \* count[c]: reference_count of the row created by c
  stored,  \* files in the persistent store
  staged,  \* staged[u]: parts of u in its staging directory, by the path they will get
  aged,    \* stored files older than the minimum age of an orphan
  undo,    \* what requests that were rolled back, and dead jobs, have left to do
  events,  \* storage deletion events not delivered yet
  page,    \* orphans found and not queued yet
  faults   \* faults so far

database == <<image, file, rows, count>>
disk     == <<stored, staged, aged>>
vars     == <<stage, database, disk, undo, events, page, faults>>

V2Stage     == {"none", "open", "processing", "ended"}
V1Stage     == {"none", "found", "bumped", "written", "rowed", "failed", "ended", "crashed"}
ImageStatus == {"none", "processing", "completed", "stripped", "deleted"}
Undo        == [of: V2, pc: {"relink", "unstore"}, paths: SUBSET Paths]
Event       == [from: Uploads \cup {Search}, paths: SUBSET Paths]

Init ==
  /\ stage  = [u \in Uploads |-> "none"]
  /\ image  = [u \in Uploads |-> "none"]
  /\ file   = [u \in Uploads |-> NoUpload]
  /\ rows   = {}
  /\ count  = [u \in Uploads |-> 0]
  /\ stored = {} /\ aged = {}
  /\ staged = [u \in Uploads |-> {}]
  /\ undo   = {} /\ events = {}
  /\ page   = {}
  /\ faults = 0

-----------------------------------------------------------------------------

Fault == faults < MaxFaults /\ faults' = faults + 1

Live(u) == image[u] \in {"processing", "completed", "stripped"}

\* The image of a V2 upload has its image_variants until it is deleted; a user's deletion
\* takes them before it takes the image.
HasVariants(u) == u \in V2 /\ image[u] \in {"processing", "completed"}

VariantPaths(u) == IF HasVariants(u) THEN PathsOf[u] ELSE {}

ImagesOf(c) == {u \in Uploads : Live(u) /\ file[u] = c}

\* The row with the file_hash of u, which is unique.
RowsOf(u) == {c \in rows : Hash[c] = Hash[u]}

\* Mutation: only the variants count.
ReferencedByVariant(p) == \E u \in Uploads : p \in VariantPaths(u)

Referenced(p) ==
  \/ \E u \in Uploads : p \in VariantPaths(u)
  \/ \E c \in rows : p \in RowPaths[c]

Unreferenced(paths) == {p \in paths : ~Referenced(p)}

Remove(paths) ==
  /\ stored' = stored \ paths
  /\ aged' = aged \ paths

\* EnqueueStorageDelete: nothing is queued for no path.
Enqueue(source, paths) ==
  events' = IF paths = {} THEN events ELSE events \cup {[from |-> source, paths |-> paths]}

-----------------------------------------------------------------------------
(* V2 uploads.                                                              *)

\* The session was created and every part received.
Receive(u) ==
  /\ stage[u] = "none"
  /\ stage' = [stage EXCEPT ![u] = "open"]
  /\ staged' = [staged EXCEPT ![u] = PathsOf[u]]
  /\ UNCHANGED <<database, stored, aged, undo, events, page, faults>>

\* A part whose target is there already only loses its staged copy.
Promote(u, paths) ==
  /\ stored' = stored \cup paths
  /\ staged' = [staged EXCEPT ![u] = @ \ paths]
  /\ UNCHANGED aged

Completable(u) ==
  /\ u \in V2 /\ stage[u] = "open"
  /\ PathsOf[u] \subseteq staged[u] \cup stored

\* The image refers to the row of its hash, which it creates if there is none.
Refer(u) ==
  LET c == IF RowsOf(u) = {} THEN u ELSE CHOOSE r \in RowsOf(u) : TRUE
  IN /\ image' = [image EXCEPT ![u] = "processing"]
     /\ file' = [file EXCEPT ![u] = c]
     /\ rows' = rows \cup {c}
     /\ count' = [count EXCEPT ![c] = IF c \in rows THEN count[c] + 1 ELSE 1]

Complete(u) ==
  /\ Completable(u)
  /\ Promote(u, PathsOf[u])
  /\ Refer(u)
  /\ stage' = [stage EXCEPT ![u] = "processing"]
  /\ UNCHANGED <<undo, events, page, faults>>

\* Some parts were promoted when the transaction failed.
CompleteRolledBack(u) ==
  /\ Completable(u)
  /\ Fault
  /\ \E paths \in SUBSET PathsOf[u] \ {{}} :
       /\ Promote(u, paths)
       /\ undo' = undo \cup {[of |-> u, pc |-> "relink", paths |-> paths]}
  /\ UNCHANGED <<stage, database, events, page>>

\* restorePromotedV2Parts: a second transaction links the parts back.
Relink(d) ==
  LET back == d.paths \cap (staged[d.of] \cup stored)
  IN /\ d.pc = "relink"
     /\ staged' = [staged EXCEPT ![d.of] = @ \cup back]
     /\ undo' = (undo \ {d}) \cup {[of |-> d.of, pc |-> "unstore", paths |-> back]}
     /\ UNCHANGED <<stage, database, stored, aged, events, page, faults>>

\* cleanupUnreferencedV2Files: a third one removes the stored copies no row names.
Unstore(d) ==
  /\ d.pc = "unstore"
  /\ Remove(Unreferenced(d.paths))
  /\ undo' = undo \ {d}
  /\ UNCHANGED <<stage, database, staged, events, page, faults>>

\* The process dies first. The fault that rolled a Complete back counts for both.
CrashUndo(d) ==
  /\ undo' = undo \ {d}
  /\ UNCHANGED <<stage, database, disk, events, page, faults>>

\* The session is cancelled, or expires, and its directory is removed.
Abandon(u) ==
  /\ stage[u] = "open"
  /\ stage' = [stage EXCEPT ![u] = "ended"]
  /\ staged' = [staged EXCEPT ![u] = {}]
  /\ UNCHANGED <<database, stored, aged, undo, events, page, faults>>

Publish(u) ==
  /\ stage[u] = "processing"
  /\ stage' = [stage EXCEPT ![u] = "ended"]
  /\ image' = [image EXCEPT ![u] = "completed"]
  /\ UNCHANGED <<file, rows, count, disk, undo, events, page, faults>>

-----------------------------------------------------------------------------
(* Deletion: the rows and the event in one transaction, the files later.    *)

\* Mutation: reference_count decides.
IsLastCounted(u) == count[file[u]] <= 1

IsLast(u) == ImagesOf(file[u]) = {u}

\* What the deletion of the image of u frees, if no other row names it.
Freed(u) == VariantPaths(u) \cup IF IsLast(u) THEN RowPaths[file[u]] ELSE {}

\* The image goes, and its image_files row with the last image that refers to it. The
\* images are counted, whatever reference_count says.
RemoveImage(u) ==
  /\ image' = [image EXCEPT ![u] = "deleted"]
  /\ rows' = IF IsLast(u) THEN rows \ {file[u]} ELSE rows
  /\ count' = [count EXCEPT ![file[u]] = Cardinality(ImagesOf(file[u])) - 1]
  /\ Enqueue(u, Freed(u))
  /\ file' = [file EXCEPT ![u] = NoUpload]

DeleteImage(u) ==
  /\ image[u] \in {"completed", "stripped"}
  /\ RemoveImage(u)
  /\ UNCHANGED <<stage, disk, undo, page, faults>>

\* failPublishJob at the last attempt: the same, and what cleanupUnreferencedV2Files then
\* removes at once, unless the worker dies first.
JobDies(u) ==
  /\ stage[u] = "processing"
  /\ RemoveImage(u)
  /\ stage' = [stage EXCEPT ![u] = "ended"]
  /\ undo' = undo \cup {[of |-> u, pc |-> "unstore", paths |-> Freed(u)]}
  /\ UNCHANGED <<disk, page, faults>>

\* Deletion of the user: first the variants of the images, then the images.
DeleteUserVariants(u) ==
  /\ u \in V2 /\ image[u] = "completed"
  /\ image' = [image EXCEPT ![u] = "stripped"]
  /\ Enqueue(u, PathsOf[u])
  /\ UNCHANGED <<stage, file, rows, count, disk, undo, page, faults>>

DeleteUserImage(u) ==
  /\ image[u] = IF u \in V2 THEN "stripped" ELSE "completed"
  /\ RemoveImage(u)
  /\ UNCHANGED <<stage, disk, undo, page, faults>>

-----------------------------------------------------------------------------
(* V1 uploads, statement by statement and without the lock.                 *)

SetStage(v, s) == stage' = [stage EXCEPT ![v] = s]

FindFile(v) ==
  /\ stage[v] = "none"
  /\ \E c \in RowsOf(v) : file' = [file EXCEPT ![v] = c]
  /\ SetStage(v, "found")
  /\ UNCHANGED <<image, rows, count, disk, undo, events, page, faults>>

\* The update touches no row if that one is gone.
CountReference(v) ==
  /\ stage[v] = "found"
  /\ SetStage(v, "bumped")
  /\ count' = [count EXCEPT ![file[v]] = IF file[v] \in rows THEN @ + 1 ELSE @]
  /\ UNCHANGED <<image, file, rows, disk, undo, events, page, faults>>

\* No row had the hash: the files get names of their own.
WriteFiles(v) ==
  /\ stage[v] = "none" /\ RowsOf(v) = {}
  /\ SetStage(v, "written")
  /\ stored' = stored \cup PathsOf[v]
  /\ UNCHANGED <<database, staged, aged, undo, events, page, faults>>

CreateRow(v) ==
  /\ stage[v] = "written" /\ RowsOf(v) = {}
  /\ SetStage(v, "rowed")
  /\ rows' = rows \cup {v}
  /\ count' = [count EXCEPT ![v] = 1]
  /\ file' = [file EXCEPT ![v] = v]
  /\ UNCHANGED <<image, disk, undo, events, page, faults>>

\* Another upload of the same bytes was faster, or the database fails.
CreateRowFails(v) ==
  /\ stage[v] = "written"
  /\ IF RowsOf(v) = {} THEN Fault ELSE UNCHANGED faults
  /\ SetStage(v, "ended")
  /\ Remove(PathsOf[v])
  /\ UNCHANGED <<database, staged, undo, events, page>>

CreateImage(v) ==
  /\ stage[v] \in {"bumped", "rowed"} /\ file[v] \in rows
  /\ SetStage(v, "ended")
  /\ image' = [image EXCEPT ![v] = "completed"]
  /\ UNCHANGED <<file, rows, count, disk, undo, events, page, faults>>

\* The foreign key refuses an image whose file row is gone, or the database fails.
CreateImageFails(v) ==
  /\ stage[v] \in {"bumped", "rowed"}
  /\ IF file[v] \in rows THEN Fault ELSE UNCHANGED faults
  /\ SetStage(v, IF stage[v] = "rowed" THEN "failed" ELSE "ended")
  /\ UNCHANGED <<database, disk, undo, events, page>>

\* compensateFailedImageCreate, for the row this upload created.
Compensate(v) ==
  /\ stage[v] = "failed"
  /\ SetStage(v, "ended")
  /\ IF v \in rows /\ ImagesOf(v) = {}
     THEN rows' = rows \ {v} /\ Enqueue(v, RowPaths[v])
     ELSE UNCHANGED <<rows, events>>
  /\ count' = [count EXCEPT ![v] = Cardinality(ImagesOf(v))]
  /\ UNCHANGED <<image, file, disk, undo, page, faults>>

\* Also a compensation that fails: it is only logged.
CrashV1(v) ==
  /\ stage[v] \in {"found", "bumped", "written", "rowed", "failed"}
  /\ Fault
  /\ SetStage(v, "crashed")
  /\ UNCHANGED <<database, disk, undo, events, page>>

-----------------------------------------------------------------------------
(* The outbox worker: what a deletion event names goes, unless a row does.  *)

Deliver(e) ==
  /\ Remove(Unreferenced(e.paths))
  /\ events' = events \ {e}
  /\ UNCHANGED <<stage, database, staged, undo, page, faults>>

\* The worker fails or dies among the files, or before the event is marked published.
DeliverFails(e) ==
  /\ Fault
  /\ \E paths \in SUBSET Unreferenced(e.paths) : Remove(paths)
  /\ UNCHANGED <<stage, database, staged, undo, events, page>>

-----------------------------------------------------------------------------
(* The search for orphans under v2/, left by a crash during Complete.       *)

Searched == UNION {PathsOf[u] : u \in V2}

\* Promoted by a Complete that was rolled back, of a session that is still open.
Recent(p) == \E u \in V2 : stage[u] = "open" /\ p \in PathsOf[u] \ staged[u]

\* The minimum age is two session lifetimes: what an open session has promoted is younger.
TimePasses ==
  /\ aged' = aged \cup {p \in stored : ~Recent(p)}
  /\ aged' # aged
  /\ UNCHANGED <<stage, database, stored, staged, undo, events, page, faults>>

\* Mutation: the cutoff the other way round.
OldYoung == stored \ aged

Old == aged

\* Neither this nor the next step holds the lock.
FindOrphans ==
  /\ page = {}
  /\ page' = Unreferenced(Old \cap Searched)
  /\ page' # {}
  /\ UNCHANGED <<stage, database, disk, undo, events, faults>>

QueueOrphans ==
  /\ page # {}
  /\ Enqueue(Search, page)
  /\ page' = {}
  /\ UNCHANGED <<stage, database, disk, undo, faults>>

\* The same batch was queued today, and its dedupe key holds the date; or the worker dies.
PassOver ==
  /\ page # {}
  /\ page' = {}
  /\ UNCHANGED <<stage, database, disk, undo, events, faults>>

-----------------------------------------------------------------------------

V2Step(u) ==
  \/ Receive(u) \/ Complete(u) \/ CompleteRolledBack(u) \/ Abandon(u)
  \/ Publish(u) \/ JobDies(u) \/ DeleteUserVariants(u)

V1Step(v) ==
  \/ FindFile(v) \/ CountReference(v) \/ WriteFiles(v) \/ CreateRow(v) \/ CreateRowFails(v)
  \/ CreateImage(v) \/ CreateImageFails(v) \/ Compensate(v) \/ CrashV1(v)

SearchStep == TimePasses \/ FindOrphans \/ QueueOrphans \/ PassOver

Next ==
  \/ \E u \in V2 : V2Step(u)
  \/ \E v \in V1 : V1Step(v)
  \/ \E u \in Uploads : DeleteImage(u) \/ DeleteUserImage(u)
  \/ \E d \in undo : Relink(d) \/ Unstore(d) \/ CrashUndo(d)
  \/ \E e \in events : Deliver(e) \/ DeliverFails(e)
  \/ SearchStep

Spec == Init /\ [][Next]_vars

\* Requests run to their end or die, sessions expire, files get old, the outbox worker
\* retries its events (module Outbox) and the page, which starts every ten minutes,
\* goes on: a batch passed over today is queued tomorrow.
Fairness ==
  /\ WF_vars(\E d \in undo : Relink(d) \/ Unstore(d))
  /\ WF_vars(\E e \in events : Deliver(e))
  /\ \A u \in V2 : WF_vars(Abandon(u))
  /\ WF_vars(TimePasses) /\ WF_vars(FindOrphans) /\ SF_vars(QueueOrphans)

FairSpec == Spec /\ Fairness

-----------------------------------------------------------------------------

\* Type invariant: the stages of an upload are those of its kind, and an undo or an event
\* is one the code can have recorded.
TypeOK ==
  /\ stage \in [Uploads -> V1Stage \cup V2Stage]
  /\ \A u \in V2 : stage[u] \in V2Stage
  /\ \A v \in V1 : stage[v] \in V1Stage
  /\ image \in [Uploads -> ImageStatus]
  /\ file \in [Uploads -> Uploads \cup {NoUpload}]
  /\ rows \subseteq Uploads
  /\ count \in [Uploads -> Nat]
  /\ stored \subseteq Paths /\ aged \subseteq stored
  /\ staged \in [Uploads -> SUBSET Paths]
  /\ undo \subseteq Undo
  /\ events \subseteq Event
  /\ page \subseteq Paths
  /\ faults \in 0 .. MaxFaults

\* Whatever was rolled back, deleted, retried or found to be an orphan, every file that an
\* image_variants or image_files row names is in the store.
NoDangling ==
  /\ \A u \in Uploads : VariantPaths(u) \subseteq stored
  /\ \A c \in rows : RowPaths[c] \subseteq stored

\* An image refers to an image_files row that exists, and a row has an image, unless the
\* V1 upload that created it has not got, or never got, to its own.
RowsAreUsed ==
  /\ \A u \in Uploads : Live(u) => file[u] \in rows
  /\ \A c \in rows :
       ImagesOf(c) # {} \/ (c \in V1 /\ stage[c] \in {"rowed", "failed", "crashed"})

\* A V2 file that no row names does not stay: a row names it again or it is removed, with
\* the event that names it or by the search for orphans.
OrphansReclaimed == \A p \in Searched :
  (p \in stored /\ ~Referenced(p)) ~> (p \notin stored \/ Referenced(p))

\* As restorePromotedV2Parts says, the rollback of a Complete preserves a copy to retry
\* with: while the session is open, every part it received is staged or stored.
RetryKeepsParts ==
  \A u \in V2 : stage[u] = "open" => PathsOf[u] \subseteq staged[u] \cup stored
===============================================================================
