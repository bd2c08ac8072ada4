---------------------------- MODULE UploadSession ----------------------------
(***************************************************************************)
(* V2 upload sessions of one user: creating one, staging its parts,         *)
(* completing or cancelling it, publishing its image, and the cleanup       *)
(* worker that reclaims what is left.                                       *)
(*                                                                         *)
(* row, part and used are MySQL state and change in transactions; dir,      *)
(* ready, temps and stored are the file system, which no transaction        *)
(* protects. Requests run concurrently, in one process or in many: opening, *)
(* put, restoring and cancelling say how far each got, cleaner is a cleanup *)
(* worker. What the publish worker does to its job is module PublishJob;    *)
(* here it only empties the staging directory and ends the session.         *)
(***************************************************************************)
EXTENDS Integers, FiniteSets

CONSTANTS
  Sessions,   \* upload sessions, named after their upload key, one per idempotency key
  Kinds,      \* the parts of the recipe
  Source,     \* publish_source, the one that is not stored
  Puts,       \* PutPart requests
  Completes,  \* Complete requests, one per process: it holds the capacity gate to its end
  Cleaners,   \* cleanup workers, one per process
  MaxActive,  \* V2_MAX_ACTIVE_SESSIONS_PER_USER
  Quota,      \* the user's storage_quota, in images
  MaxFaults,  \* bound: crashes, failing transactions and file operations
  NoSession   \* no request in progress

ASSUME UploadAssumption ==
  /\ Source \in Kinds
  /\ IsFiniteSet(Sessions) /\ IsFiniteSet(Kinds)
  /\ MaxActive \in Nat /\ Quota \in Nat /\ MaxFaults \in Nat
  /\ NoSession \notin Sessions

VARIABLES
  row,         \* row[s]: the upload_sessions row and its image
  part,        \* part[s][k]: upload_parts.status
  used,        \* users.storage_used, in images
  dir,         \* staging directories that exist
  aged,        \* those last modified more than a session TTL ago
  ready,       \* ready[s]: canonical files, <staging>/<key>/<kind>.ready
  temps,       \* temps[s]: requests whose temporary file is there, or Leftover
  stored,      \* stored[s]: parts in the persistent store
  opening,     \* sessions an Init request is about to insert
  put,         \* put[r]: a PutPart request
  restoring,   \* restoring[q]: a Complete request that was rolled back
  cancelling,  \* cancelling[s]: what a Cancel request has left to do
  swept,       \* swept[s]: the publish worker emptied the directory, or tried to
  cleaner,     \* cleaner[c]: a cleanup worker
  published,   \* sessions whose image was once published (history)
  faults       \* faults so far

database == <<row, part, used>>
disk     == <<dir, aged, ready, temps, stored>>
requests == <<opening, put, restoring, cancelling, swept>>
vars     == <<database, disk, requests, cleaner, published, faults>>

Leftover == "leftover"

SessionStatus == {"none", "initiated", "uploading", "processing", "completed", "failed",
                  "cancelled", "cleanup_pending"}
PartStatus    == {"pending", "received", "finalized", "cleaned"}
ImageStatus   == {"none", "processing", "completed", "deleted"}

\* expired: expires_at has passed; path: staging_path is not empty; due: cleanup_after
\* is NULL or has passed.
Row     == [status: SessionStatus, expired: BOOLEAN, path: BOOLEAN, due: BOOLEAN,
            image: ImageStatus, count: Nat, completedAt: BOOLEAN, failedAt: BOOLEAN]
Put     == [pc: {"idle", "read", "stream"}, s: Sessions \cup {NoSession}, k: Kinds]
Restore == [pc: {"idle", "relink", "unstore"}, s: Sessions \cup {NoSession},
            parts: SUBSET Kinds]
Cleaner == [pc: {"idle", "inspect", "remove", "finish", "orphan"},
            s: Sessions \cup {NoSession}, seen: SessionStatus]

NoRow == [status |-> "none", expired |-> FALSE, path |-> FALSE, due |-> TRUE,
          image |-> "none", count |-> 0, completedAt |-> FALSE, failedAt |-> FALSE]

IdlePut     == [pc |-> "idle", s |-> NoSession, k |-> Source]
IdleRestore == [pc |-> "idle", s |-> NoSession, parts |-> {}]
IdleCleaner == [pc |-> "idle", s |-> NoSession, seen |-> "none"]

Init ==
  /\ row        = [s \in Sessions |-> NoRow]
  /\ part       = [s \in Sessions |-> [k \in Kinds |-> "pending"]]
  /\ used       = 0
  /\ dir = {} /\ aged = {}
  /\ ready      = [s \in Sessions |-> {}]
  /\ temps      = [s \in Sessions |-> {}]
  /\ stored     = [s \in Sessions |-> {}]
  /\ opening    = {}
  /\ put        = [r \in Puts |-> IdlePut]
  /\ restoring  = [q \in Completes |-> IdleRestore]
  /\ cancelling = [s \in Sessions |-> "no"]
  /\ swept      = [s \in Sessions |-> "no"]
  /\ cleaner    = [c \in Cleaners |-> IdleCleaner]
  /\ published  = {}
  /\ faults     = 0

-----------------------------------------------------------------------------

Persistent == Kinds \ {Source}

Open(s) == row[s].status \in {"initiated", "uploading"}

Accepts(s) == Open(s) /\ ~row[s].expired

\* v2ActiveReservationCondition: the sessions whose reservation counts.
Reserving == {s \in Sessions : Accepts(s) \/ row[s].status = "processing"}

HasRoom == Cardinality(Reserving) < MaxActive /\ used + Cardinality(Reserving) + 1 <= Quota

Fault == faults < MaxFaults /\ faults' = faults + 1

SetRow(s, status) == row' = [row EXCEPT ![s].status = status]

\* Entries of a directory are created or removed: it is recent again.
Touched(s) == aged' = aged \ {s}

\* os.Remove of the directory: it goes only when it is empty.
RemoveIfEmpty(s, files, temporaries) ==
  IF files = {} /\ temporaries = {} THEN dir \ {s} ELSE dir

\* os.RemoveAll.
RemoveAll(s) ==
  /\ dir' = dir \ {s}
  /\ aged' = aged \ {s}
  /\ ready' = [ready EXCEPT ![s] = {}]
  /\ temps' = [temps EXCEPT ![s] = {}]
  /\ UNCHANGED stored

-----------------------------------------------------------------------------
(* Init: the directory first, then the row under the storage lock.          *)

\* Upload keys are random: nobody has seen this one.
MakeDirectory(s) ==
  /\ row[s].status = "none" /\ s \notin opening /\ s \notin dir
  /\ \A c \in Cleaners : cleaner[c].s # s
  /\ opening' = opening \cup {s}
  /\ dir' = dir \cup {s}
  /\ Touched(s)
  /\ UNCHANGED <<database, ready, temps, stored, put, restoring, cancelling, swept,
                 cleaner, published, faults>>

CreateSession(s) ==
  /\ s \in opening
  /\ HasRoom
  /\ row' = [row EXCEPT ![s] = [NoRow EXCEPT !.status = "initiated", !.path = TRUE]]
  /\ opening' = opening \ {s}
  /\ UNCHANGED <<part, used, disk, put, restoring, cancelling, swept, cleaner, published,
                 faults>>

\* The transaction commits and its answer is lost: the row is found again, but the
\* directory is taken for that of a refused request.
CreateUnanswered(s) ==
  /\ s \in opening
  /\ HasRoom
  /\ Fault
  /\ row' = [row EXCEPT ![s] = [NoRow EXCEPT !.status = "initiated", !.path = TRUE]]
  /\ opening' = opening \ {s}
  /\ dir' = RemoveIfEmpty(s, ready[s], temps[s])
  /\ UNCHANGED <<part, used, aged, ready, temps, stored, put, restoring, cancelling, swept,
                 cleaner, published>>

\* There is no room, another session has the idempotency key, or the transaction fails.
RefuseSession(s) ==
  /\ s \in opening
  /\ opening' = opening \ {s}
  /\ dir' = RemoveIfEmpty(s, ready[s], temps[s])
  /\ UNCHANGED <<database, aged, ready, temps, stored, put, restoring, cancelling, swept,
                 cleaner, published, faults>>

CrashInit(s) ==
  /\ s \in opening
  /\ Fault
  /\ opening' = opening \ {s}
  /\ UNCHANGED <<database, disk, put, restoring, cancelling, swept, cleaner, published>>

-----------------------------------------------------------------------------
(* PutPart: an unlocked check, the stream into a temporary file, and a      *)
(* transaction that locks the session and checks again.                     *)

PutRead(r, s, k) ==
  /\ put[r].pc = "idle"
  /\ Accepts(s)
  /\ part[s][k] = "pending"
  /\ put' = [put EXCEPT ![r] = [pc |-> "read", s |-> s, k |-> k]]
  /\ UNCHANGED <<database, disk, opening, restoring, cancelling, swept, cleaner, published,
                 faults>>

\* MkdirAll: whatever happened since, the directory is there again.
PutStream(r) ==
  LET s == put[r].s
  IN /\ put[r].pc = "read"
     /\ dir' = dir \cup {s}
     /\ temps' = [temps EXCEPT ![s] = @ \cup {r}]
     /\ Touched(s)
     /\ put' = [put EXCEPT ![r].pc = "stream"]
     /\ UNCHANGED <<database, ready, stored, opening, restoring, cancelling, swept, cleaner,
                    published, faults>>

PutEnds(r) == put' = [put EXCEPT ![r] = IdlePut]

\* Renames the temporary file of r onto the canonical one.
Rename(r, s, k) ==
  /\ r \in temps[s]
  /\ ready' = [ready EXCEPT ![s] = @ \cup {k}]
  /\ temps' = [temps EXCEPT ![s] = @ \ {r}]
  /\ Touched(s)
  /\ UNCHANGED <<dir, stored>>

\* Mutation: the status read before the stream is good enough.
PutCommitUnlocked(r) ==
  LET s == put[r].s
      k == put[r].k
  IN /\ put[r].pc = "stream"
     /\ part[s][k] = "pending"
     /\ Rename(r, s, k)
     /\ part' = [part EXCEPT ![s][k] = "received"]
     /\ row' = [row EXCEPT ![s].status = "uploading", ![s].count = @ + 1]
     /\ PutEnds(r)
     /\ UNCHANGED <<used, opening, restoring, cancelling, swept, cleaner, published, faults>>

PutCommit(r) ==
  LET s == put[r].s
      k == put[r].k
  IN /\ put[r].pc = "stream"
     /\ Accepts(s)
     /\ part[s][k] = "pending"
     /\ Rename(r, s, k)
     /\ part' = [part EXCEPT ![s][k] = "received"]
     /\ row' = [row EXCEPT ![s].status = "uploading", ![s].count = @ + 1]
     /\ PutEnds(r)
     /\ UNCHANGED <<used, opening, restoring, cancelling, swept, cleaner, published, faults>>

\* Another request staged the part meanwhile: this one succeeds as well.
PutDuplicate(r) ==
  LET s == put[r].s
  IN /\ put[r].pc = "stream"
     /\ Accepts(s)
     /\ part[s][put[r].k] = "received"
     /\ temps' = [temps EXCEPT ![s] = @ \ {r}]
     /\ Touched(s)
     /\ PutEnds(r)
     /\ UNCHANGED <<database, dir, ready, stored, opening, restoring, cancelling, swept,
                    cleaner, published, faults>>

\* Mutation: the clean-up of a failed request removes the directory with its files.
PutDiscardAll(r) ==
  /\ put[r].pc = "stream"
  /\ RemoveAll(put[r].s)
  /\ PutEnds(r)
  /\ UNCHANGED <<database, opening, restoring, cancelling, swept, cleaner, published, faults>>

\* The stream breaks, a check of the bytes fails, or the transaction finds the session
\* or the temporary file gone.
PutDiscard(r) ==
  LET s == put[r].s
      left == temps[s] \ {r}
  IN /\ put[r].pc = "stream"
     /\ temps' = [temps EXCEPT ![s] = left]
     /\ dir' = RemoveIfEmpty(s, ready[s], left)
     /\ Touched(s)
     /\ PutEnds(r)
     /\ UNCHANGED <<database, ready, stored, opening, restoring, cancelling, swept, cleaner,
                    published, faults>>

\* The transaction fails after the rename, which nothing undoes.
PutUnrecorded(r) ==
  LET s == put[r].s
  IN /\ put[r].pc = "stream"
     /\ Accepts(s)
     /\ part[s][put[r].k] = "pending"
     /\ Rename(r, s, put[r].k)
     /\ Fault
     /\ PutEnds(r)
     /\ UNCHANGED <<database, opening, restoring, cancelling, swept, cleaner, published>>

CrashPut(r) ==
  LET s == put[r].s
  IN /\ put[r].pc = "stream"
     /\ Fault
     /\ temps' = [temps EXCEPT ![s] = IF r \in @ THEN (@ \ {r}) \cup {Leftover} ELSE @]
     /\ PutEnds(r)
     /\ UNCHANGED <<database, dir, aged, ready, stored, opening, restoring, cancelling, swept,
                    cleaner, published>>

-----------------------------------------------------------------------------
(* Complete: promotion and the rows in one transaction under the storage    *)
(* lock. A promotion that was rolled back is undone by two more             *)
(* transactions, each under that lock, with others in between.              *)

\* Mutation: an expired session can still be completed.
CompletableLate(s) ==
  /\ Open(s)
  /\ \A k \in Kinds : part[s][k] = "received"
  /\ Persistent \subseteq ready[s] \cup stored[s]

\* Promotion accepts a target that is there already in place of the staged file.
Completable(s) ==
  /\ Accepts(s)
  /\ \A k \in Kinds : part[s][k] = "received"
  /\ Persistent \subseteq ready[s] \cup stored[s]

Promote(s) ==
  /\ ready' = [ready EXCEPT ![s] = @ \ Persistent]
  /\ stored' = [stored EXCEPT ![s] = Persistent]
  /\ Touched(s)
  /\ UNCHANGED <<dir, temps>>

Complete(s) ==
  /\ Completable(s)
  /\ Promote(s)
  /\ part' = [part EXCEPT ![s] = [k \in Kinds |-> IF k = Source THEN part[s][k] ELSE "finalized"]]
  /\ row' = [row EXCEPT ![s].status = "processing", ![s].image = "processing"]
  /\ UNCHANGED <<used, requests, cleaner, published, faults>>

CompleteRolledBack(q, s) ==
  /\ restoring[q].pc = "idle"
  /\ Completable(s)
  /\ Fault
  /\ Promote(s)
  /\ restoring' = [restoring EXCEPT ![q] = [pc |-> "relink", s |-> s, parts |-> {}]]
  /\ UNCHANGED <<database, opening, put, cancelling, swept, cleaner, published>>

\* restorePromotedV2Parts: links the parts back into the staging directory, whatever
\* became of the session.
Relink(q) ==
  LET s == restoring[q].s
      back == Persistent \cap (ready[s] \cup stored[s])
  IN /\ restoring[q].pc = "relink"
     /\ restoring' = [restoring EXCEPT ![q].pc = "unstore", ![q].parts = back]
     /\ ready' = [ready EXCEPT ![s] = @ \cup back]
     /\ dir' = IF back \subseteq ready[s] THEN dir ELSE dir \cup {s}
     /\ Touched(s)
     /\ UNCHANGED <<database, temps, stored, opening, put, cancelling, swept, cleaner,
                    published, faults>>

\* Mutation: only published images count.
ReferencedVisible(s) == row[s].image = "completed"

\* The image of s refers to the persistent files.
Referenced(s) == row[s].image \in {"processing", "completed"}

\* cleanupUnreferencedV2Files: the persistent copies go unless an image refers to them.
Unstore(q) ==
  LET s == restoring[q].s
  IN /\ restoring[q].pc = "unstore"
     /\ restoring' = [restoring EXCEPT ![q] = IdleRestore]
     /\ stored' = [stored EXCEPT ![s] = IF Referenced(s) THEN @ ELSE @ \ restoring[q].parts]
     /\ UNCHANGED <<database, dir, aged, ready, temps, opening, put, cancelling, swept,
                    cleaner, published, faults>>

\* The process that was rolled back dies, or its database does not come back: the fault
\* that rolled it back counts for both.
CrashComplete(q) ==
  /\ restoring[q].pc # "idle"
  /\ restoring' = [restoring EXCEPT ![q] = IdleRestore]
  /\ UNCHANGED <<database, disk, opening, put, cancelling, swept, cleaner, published,
                 faults>>

-----------------------------------------------------------------------------
(* The end of processing.                                                  *)

\* The publish worker removes the source, and the directory if that leaves it empty.
SweepStaging(s) ==
  LET files == ready[s] \ {Source}
  IN /\ row[s].status = "processing"
     /\ ready' = [ready EXCEPT ![s] = files]
     /\ dir' = RemoveIfEmpty(s, files, temps[s])
     /\ Touched(s)
     /\ swept' = [swept EXCEPT ![s] = IF s \in dir' THEN "dirty" ELSE "clean"]
     /\ UNCHANGED <<database, temps, stored, opening, put, restoring, cancelling, cleaner,
                    published, faults>>

\* A session whose directory could not be removed is left to the cleanup worker.
SessionAfterPublish(s) ==
  IF swept[s] = "clean"
  THEN [row[s] EXCEPT !.image = "completed", !.status = "completed", !.completedAt = TRUE,
                      !.path = FALSE]
  ELSE [row[s] EXCEPT !.image = "completed", !.status = "cleanup_pending",
                      !.completedAt = FALSE, !.due = FALSE]

PublishCommit(s) ==
  /\ row[s].status = "processing"
  /\ swept[s] # "no"
  /\ used + Cardinality(Reserving \ {s}) + 1 <= Quota
  /\ row' = [row EXCEPT ![s] = SessionAfterPublish(s)]
  /\ part' = [part EXCEPT ![s][Source] = "cleaned"]
  /\ used' = used + 1
  /\ published' = published \cup {s}
  /\ swept' = [swept EXCEPT ![s] = "no"]
  /\ UNCHANGED <<disk, opening, put, restoring, cancelling, cleaner, faults>>

\* The job is dead: the image is gone, its files are left to the storage deletion.
PublishDies(s) ==
  /\ row[s].status = "processing"
  /\ row' = [row EXCEPT ![s].status = "failed", ![s].failedAt = TRUE, ![s].due = TRUE,
                        ![s].image = "none"]
  /\ stored' = [stored EXCEPT ![s] = {}]
  /\ swept' = [swept EXCEPT ![s] = "no"]
  /\ UNCHANGED <<part, used, dir, aged, ready, temps, opening, put, restoring, cancelling,
                 cleaner, published, faults>>

Deletable(s) == row[s].image = "completed"

DeleteImage(s) ==
  /\ Deletable(s)
  /\ row' = [row EXCEPT ![s].image = "deleted"]
  /\ used' = used - 1
  /\ stored' = [stored EXCEPT ![s] = {}]
  /\ UNCHANGED <<part, dir, aged, ready, temps, requests, cleaner, published, faults>>

-----------------------------------------------------------------------------
(* Cancel: the rows first, then the directory.                              *)

Cancellable(s) == Open(s)

Cancel(s) ==
  /\ Cancellable(s)
  /\ cancelling[s] = "no"
  /\ SetRow(s, "cancelled")
  /\ part' = [part EXCEPT ![s] = [k \in Kinds |-> "cleaned"]]
  /\ cancelling' = [cancelling EXCEPT ![s] = "remove"]
  /\ UNCHANGED <<used, disk, opening, put, restoring, swept, cleaner, published, faults>>

CancelRemove(s) ==
  /\ cancelling[s] = "remove"
  /\ RemoveAll(s)
  /\ cancelling' = [cancelling EXCEPT ![s] = "no"]
  /\ UNCHANGED <<database, opening, put, restoring, swept, cleaner, published, faults>>

\* E.g. a request creates its temporary file while the directory is removed.
CancelRemoveFails(s) ==
  /\ cancelling[s] = "remove"
  /\ Fault
  /\ cancelling' = [cancelling EXCEPT ![s] = "mark"]
  /\ UNCHANGED <<database, disk, opening, put, restoring, swept, cleaner, published>>

\* Whatever the session has become meanwhile.
CancelMark(s) ==
  /\ cancelling[s] = "mark"
  /\ SetRow(s, "cleanup_pending")
  /\ cancelling' = [cancelling EXCEPT ![s] = "no"]
  /\ UNCHANGED <<part, used, disk, opening, put, restoring, swept, cleaner, published, faults>>

CrashCancel(s) ==
  /\ cancelling[s] # "no"
  /\ Fault
  /\ cancelling' = [cancelling EXCEPT ![s] = "no"]
  /\ UNCHANGED <<database, disk, opening, put, restoring, swept, cleaner, published>>

-----------------------------------------------------------------------------
(* The cleanup worker. A claim is a status and a retry time, not a lease:   *)
(* nothing says whose it is.                                                *)

\* ListCleanupSessions and ClaimCleanup: an open session that expired, or one that has
\* ended and still has a staging path.
CleanupCandidate(s) ==
  /\ row[s].path
  /\ \/ Open(s) /\ row[s].expired
     \/ row[s].status \in {"completed", "failed", "cancelled", "cleanup_pending"} /\ row[s].due

\* cleanupV2FinalStatus, without its look at the image: the claim overwrites the status,
\* and a session that is cleaned again is known by its timestamps alone.
Remembered(s) ==
  CASE row[s].status \in {"failed", "completed", "cancelled"}          -> row[s].status
    [] row[s].status = "cleanup_pending" /\ row[s].completedAt         -> "completed"
    [] row[s].status = "cleanup_pending" /\ ~row[s].completedAt /\ row[s].failedAt -> "failed"
    [] OTHER                                                           -> "cancelled"

CleanClaim(c, s) ==
  /\ cleaner[c].pc = "idle"
  /\ CleanupCandidate(s)
  /\ cleaner' = [cleaner EXCEPT ![c] =
                   [pc |-> IF row[s].status = "cleanup_pending" THEN "inspect" ELSE "remove",
                    s |-> s, seen |-> Remembered(s)]]
  /\ row' = [row EXCEPT ![s].status = "cleanup_pending", ![s].due = FALSE]
  /\ UNCHANGED <<part, used, disk, requests, published, faults>>

\* Mutation: the timestamps are all the cleanup looks at.
CleanInspectNot(c) ==
  /\ cleaner[c].pc = "inspect"
  /\ cleaner' = [cleaner EXCEPT ![c].pc = "remove"]
  /\ UNCHANGED <<database, disk, requests, published, faults>>

CleanInspect(c) ==
  LET s == cleaner[c].s
  IN /\ cleaner[c].pc = "inspect"
     /\ cleaner' = [cleaner EXCEPT ![c].pc = "remove",
                                   ![c].seen = IF row[s].image = "completed" THEN "completed" ELSE @]
     /\ UNCHANGED <<database, disk, requests, published, faults>>

CleanRemove(c) ==
  /\ cleaner[c].pc = "remove"
  /\ RemoveAll(cleaner[c].s)
  /\ cleaner' = [cleaner EXCEPT ![c].pc = "finish"]
  /\ UNCHANGED <<database, requests, published, faults>>

Cleaned(s, status) ==
  [row[s] EXCEPT !.status = status, !.due = TRUE, !.path = FALSE,
                 !.completedAt = @ \/ status = "completed",
                 !.failedAt = @ \/ status = "failed"]

\* FinishCleanup: nothing is written when another worker was faster.
CleanFinish(c) ==
  LET s == cleaner[c].s
  IN /\ cleaner[c].pc = "finish"
     /\ IF row[s].status = "cleanup_pending"
        THEN /\ row' = [row EXCEPT ![s] = Cleaned(s, cleaner[c].seen)]
             /\ part' = [part EXCEPT ![s] = [k \in Kinds |-> "cleaned"]]
        ELSE UNCHANGED <<row, part>>
     /\ cleaner' = [cleaner EXCEPT ![c] = IdleCleaner]
     /\ UNCHANGED <<used, disk, requests, published, faults>>

\* Mutation: any row protects its directory, cleaned or not.
OrphanWithoutRow(s) == s \in dir /\ s \in aged /\ row[s].status = "none"

\* ExistingUploadKeys: a row protects the directory as long as it has the path.
Orphan(s) == s \in dir /\ s \in aged /\ ~row[s].path

OrphanFind(c, s) ==
  /\ cleaner[c].pc = "idle"
  /\ Orphan(s)
  /\ cleaner' = [cleaner EXCEPT ![c] = [pc |-> "orphan", s |-> s, seen |-> "none"]]
  /\ UNCHANGED <<database, disk, requests, published, faults>>

OrphanRemove(c) ==
  /\ cleaner[c].pc = "orphan"
  /\ RemoveAll(cleaner[c].s)
  /\ cleaner' = [cleaner EXCEPT ![c] = IdleCleaner]
  /\ UNCHANGED <<database, requests, published, faults>>

\* A crash, a directory that cannot be removed, a transaction that fails.
CleanerStops(c) ==
  /\ cleaner[c].pc # "idle"
  /\ Fault
  /\ cleaner' = [cleaner EXCEPT ![c] = IdleCleaner]
  /\ UNCHANGED <<database, disk, requests, published>>

-----------------------------------------------------------------------------
(* Time.                                                                   *)

Expire(s) ==
  /\ Accepts(s)
  /\ row' = [row EXCEPT ![s].expired = TRUE]
  /\ UNCHANGED <<part, used, disk, requests, cleaner, published, faults>>

DueElapses(s) ==
  /\ ~row[s].due
  /\ row' = [row EXCEPT ![s].due = TRUE]
  /\ UNCHANGED <<part, used, disk, requests, cleaner, published, faults>>

\* An Init request does not take a session TTL between its directory and its row.
DirAges(s) ==
  /\ s \in dir \ aged
  /\ s \notin opening
  /\ aged' = aged \cup {s}
  /\ UNCHANGED <<database, dir, ready, temps, stored, requests, cleaner, published, faults>>

-----------------------------------------------------------------------------

OpenNext(s)   == MakeDirectory(s) \/ CreateSession(s) \/ CreateUnanswered(s) \/ RefuseSession(s)
                   \/ CrashInit(s)
PutNext(r)    == \/ \E s \in Sessions, k \in Kinds : PutRead(r, s, k)
                 \/ PutStream(r) \/ PutCommit(r) \/ PutDuplicate(r) \/ PutDiscard(r)
                 \/ PutUnrecorded(r) \/ CrashPut(r)
FinishNext(q) == (\E s \in Sessions : CompleteRolledBack(q, s)) \/ Relink(q) \/ Unstore(q)
                   \/ CrashComplete(q)
PublishNext(s) == SweepStaging(s) \/ PublishCommit(s) \/ PublishDies(s) \/ DeleteImage(s)
CancelNext(s) == Cancel(s) \/ CancelRemove(s) \/ CancelRemoveFails(s) \/ CancelMark(s)
                   \/ CrashCancel(s)
CleanNext(c)  == \/ \E s \in Sessions : CleanClaim(c, s) \/ OrphanFind(c, s)
                 \/ CleanInspect(c) \/ CleanRemove(c) \/ CleanFinish(c) \/ OrphanRemove(c)
                 \/ CleanerStops(c)
Time(s)       == Expire(s) \/ DueElapses(s) \/ DirAges(s)

Next ==
  \/ \E s \in Sessions : OpenNext(s) \/ Complete(s) \/ PublishNext(s) \/ CancelNext(s) \/ Time(s)
  \/ \E r \in Puts : PutNext(r)
  \/ \E q \in Completes : FinishNext(q)
  \/ \E c \in Cleaners : CleanNext(c)

Spec == Init /\ [][Next]_vars

\* Requests and workers that run go on, time passes, and the cleanup worker, which runs
\* every few minutes and takes the oldest sessions first, comes to every one of them.
\* No client has to call again, and nothing has to fail.
Fairness ==
  /\ \A s \in Sessions :
       /\ WF_vars(CreateSession(s) \/ RefuseSession(s))
       /\ WF_vars(CancelRemove(s) \/ CancelMark(s))
       /\ WF_vars(PublishCommit(s) \/ PublishDies(s))
       /\ WF_vars(Expire(s)) /\ WF_vars(DueElapses(s)) /\ WF_vars(DirAges(s))
       /\ SF_vars(\E c \in Cleaners : CleanClaim(c, s))
       /\ SF_vars(\E c \in Cleaners : OrphanFind(c, s))
  /\ \A r \in Puts : WF_vars(PutStream(r) \/ PutCommit(r) \/ PutDuplicate(r) \/ PutDiscard(r))
  /\ \A q \in Completes : WF_vars(Relink(q) \/ Unstore(q))
  /\ \A c \in Cleaners : WF_vars(CleanInspect(c) \/ CleanRemove(c) \/ CleanFinish(c) \/ OrphanRemove(c))

FairSpec == Spec /\ Fairness

-----------------------------------------------------------------------------

\* The variables keep their shape, no image is refunded that was not billed, and a session
\* that accepts parts knows its directory and has no image.
TypeOK ==
  /\ row \in [Sessions -> Row] /\ part \in [Sessions -> [Kinds -> PartStatus]]
  /\ used \in Nat
  /\ dir \subseteq Sessions /\ aged \subseteq Sessions /\ opening \subseteq Sessions
  /\ published \subseteq Sessions
  /\ ready \in [Sessions -> SUBSET Kinds] /\ stored \in [Sessions -> SUBSET Persistent]
  /\ temps \in [Sessions -> SUBSET (Puts \cup {Leftover})]
  /\ put \in [Puts -> Put] /\ restoring \in [Completes -> Restore]
  /\ cancelling \in [Sessions -> {"no", "remove", "mark"}]
  /\ swept \in [Sessions -> {"no", "clean", "dirty"}]
  /\ cleaner \in [Cleaners -> Cleaner]
  /\ faults \in 0..MaxFaults
  /\ \A s \in Sessions : Accepts(s) => row[s].path /\ row[s].image = "none"

\* The client is told that a part was received and does not send it again: as long as the
\* session can be completed, its bytes are in the staging directory or in the store,
\* whichever requests failed, were discarded, or are being undone. And the number of
\* received parts that clients resume from is the number of parts that are there, however
\* many requests sent the same part at once.
ReceivedIsStaged ==
  /\ \A s \in Sessions : Accepts(s) =>
       \A k \in Kinds : part[s][k] = "received" => k \in ready[s] \cup stored[s]
  /\ \A s \in Sessions : Open(s) \/ row[s].status = "processing" =>
       row[s].count = Cardinality({k \in Kinds : part[s][k] \in {"received", "finalized"}})

\* Reservations and images never exceed the user's quota, nor sessions the limit, although
\* a session is counted by its expiry while parts and completions are under way.
CapacityRespected ==
  /\ Cardinality(Reserving) <= MaxActive
  /\ used + Cardinality(Reserving) <= Quota

\* An image has its persistent files from its completion to its deletion, also when an
\* earlier completion of the session is still being undone.
ImageHasFiles == \A s \in Sessions : Referenced(s) => stored[s] = Persistent

\* The session of a visible image is completed, or on its way through the cleanup: no late
\* request and no cleanup worker gives it another end.
PublishedStays ==
  \A s \in Sessions : row[s].image = "completed" =>
    row[s].status \in {"completed", "cleanup_pending"}

\* A session that was completed, failed or cancelled takes no parts and is not processed
\* again, and leaves its status only to be cleaned.
EndedForGood ==
  [][\A s \in Sessions :
       LET old == row[s].status
           new == row[s].status'
       IN /\ old \in {"completed", "failed", "cancelled"} => new \in {old, "cleanup_pending"}
          /\ old = "cleanup_pending" => new \in {old, "completed", "failed", "cancelled"}]_vars

\* Every staging directory is reclaimed, whoever made it and whatever failed.
Tidied == \A s \in Sessions : s \in dir ~> s \notin dir

\* The account deletion waits for sessions to reach an end, so each has to reach one.
Ends ==
  \A s \in Sessions :
    row[s].status = "cleanup_pending" ~> row[s].status \in {"completed", "failed", "cancelled"}

=============================================================================
