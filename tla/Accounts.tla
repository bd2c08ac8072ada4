------------------------------ MODULE Accounts ------------------------------
(***************************************************************************)
(* The life of one account: an administrator suspends it, requests its     *)
(* deletion or cancels the request within the lock period; the deletion    *)
(* workers of several processes then remove everything it owns, batch by   *)
(* batch and phase by phase, while uploads that were under way end, and    *)
(* requests that passed authentication in time still add rows.             *)
(*                                                                         *)
(* Rows are pairs <<kind, number>>. Foreign keys delete an image's children *)
(* with it and everything with the user, refuse to delete an identity that *)
(* a session refers to, and only forget the job of a deleted image or      *)
(* upload session. What images share, and what a storage-delete event does *)
(* to the files, is ContentStore's and Outbox's subject.                   *)
(***************************************************************************)
EXTENDS Integers, FiniteSets, Sequences

CONSTANTS
  Uploads,        \* V2 upload sessions, and the images they turn into
  Workers,        \* deletion workers, one per process
  Batch,          \* userDeletionRowBatchSize, userDeletionImageBatchSize
  MaxBatches,     \* userDeletionMaxBatchesPerPass
  Allowance,      \* MaxBatchDownloads (10 in the code)
  Downloads,      \* requests for an archive
  MaxRequests,    \* bound: deletion requests of administrators
  MaxInserts,     \* bound: rows added by requests to the account
  MaxFaults       \* bound: failing batches, dying workers and downloads

ASSUME AccountsAssumption ==
  /\ Uploads \subseteq Nat /\ 0 \notin Uploads
  /\ Batch \in Nat \ {0} /\ MaxBatches \in Nat \ {0} /\ Allowance \in Nat \ {0}
  /\ MaxRequests \in Nat /\ MaxInserts \in Nat /\ MaxFaults \in Nat

VARIABLES
  status,     \* users.status, or gone when there is no such row
  due,        \* deletion_scheduled_at has passed
  rows,       \* the rows that belong to the account
  busy,       \* upload sessions that are under way or have a staging directory
  running,    \* jobs that are queued, running or waiting for a retry
  files,      \* files of the account in the store, named as the row that refers to them
  owed,       \* those that a storage-delete event names
  inflight,   \* kinds of rows that authenticated requests are about to insert
  killing,    \* a deletion request is about to delete the sessions
  pass,       \* pass[w]: batches left in the pass of w over the user it listed
  count,      \* users.batch_download_count
  archive,    \* archive[d]: how far the download d is
  lost,       \* rows the worker has deleted (history)
  requests, inserts, faults   \* bounds

account  == <<status, due, requests>>
content  == <<rows, busy, running, files, owed>>
archives == <<count, archive>>
traffic  == <<inflight, killing, inserts>>
vars     == <<account, content, traffic, pass, archives, lost, faults>>

\* Mutation: the jobs, to which nothing refers, come last.
PhasesJobsLast == <<"token", "variant", "image", "csrf", "part", "upload",
                    "session", "identity", "log", "job">>

\* The order in which deleteUserRecords looks for rows.
Phases == <<"job", "token", "variant", "image", "csrf", "part", "upload",
            "session", "identity", "log">>

Kinds == {Phases[i] : i \in DOMAIN Phases}

Init ==
  /\ status = "active" /\ due = FALSE
  /\ rows = {} /\ busy = {} /\ running = {} /\ files = {} /\ owed = {}
  /\ inflight = {} /\ killing = FALSE
  /\ pass = [w \in Workers |-> 0]
  /\ count = 0 /\ archive = [d \in Downloads |-> "idle"]
  /\ lost = {}
  /\ requests = 0 /\ inserts = 0 /\ faults = 0

\* UserStatusAllowsAuthentication
Authenticates == status \in {"active", "pending"}

Of(kind) == {r \in rows : r[1] = kind}

\* Rows that go with r by ON DELETE CASCADE.
Children(r) ==
  {c \in rows : \/ r[1] = "image"   /\ c \in {<<"token", r[2]>>, <<"variant", r[2]>>}
                \/ r[1] = "session" /\ c = <<"csrf", r[2]>>
                \/ r[1] = "upload"  /\ c = <<"part", r[2]>>}

\* identity_token_id: session 2 was derived from identity 1, session 0 is a browser's.
\* The rows of one statement are deleted and checked in the order of their ids.
Restricted(S) == <<"identity", 1>> \in S /\ <<"session", 2>> \in rows

Delete(S) == rows' = rows \ (S \cup UNION {Children(r) : r \in S})

Fault == faults < MaxFaults /\ faults' = faults + 1

-----------------------------------------------------------------------------
(* The administrator.                                                      *)

\* SetUserStatus: active and suspended, each from the other only.
SetUserStatus ==
  /\ \/ status = "active" /\ status' = "suspended"
     \/ status = "suspended" /\ status' = "active"
  /\ UNCHANGED <<due, requests, content, traffic, pass, archives, lost, faults>>

\* The status is compared and set in one statement; the sessions follow in another.
RequestUserDeletion ==
  /\ status = "active" /\ ~killing
  /\ requests < MaxRequests
  /\ status' = "pending" /\ due' = FALSE
  /\ requests' = requests + 1
  /\ killing' = TRUE
  /\ UNCHANGED <<content, inflight, inserts, pass, archives, lost, faults>>

\* One DELETE over all sessions and identities; its error is not looked at.
KillSessions ==
  LET S == Of("session") \cup Of("identity")
  IN /\ killing
     /\ killing' = FALSE
     /\ IF Restricted(S) THEN UNCHANGED rows ELSE Delete(S)
     /\ UNCHANGED <<account, busy, running, files, owed, inflight, inserts, pass,
                    archives, lost, faults>>

\* Mutation: a deletion that has begun can be cancelled.
CancellableAlways == status \in {"pending", "deleting"}

Cancellable == status = "pending"

CancelUserDeletion ==
  /\ Cancellable
  /\ status' = "active" /\ due' = FALSE
  /\ count' = 0
  /\ UNCHANGED <<requests, content, traffic, pass, archive, lost, faults>>

\* 24 hours later; no request lasts that long.
LockPeriodEnds ==
  /\ status = "pending" /\ ~due /\ ~killing
  /\ due' = TRUE
  /\ UNCHANGED <<status, requests, content, traffic, pass, archives, lost, faults>>

-----------------------------------------------------------------------------
(* The user's own requests, and the V2 pipeline. Handlers refuse uploads in *)
(* the lock period, so only those that began before it go on.              *)

Insertable(r) ==
  \/ r[1] \in {"log", "identity"}
  \/ r[1] = "session" /\ (r[2] = 2 => <<"identity", 1>> \in rows)
  \/ r[1] = "csrf" /\ <<"session", r[2]>> \in rows
  \/ r[1] = "token" /\ <<"image", r[2]>> \in rows

Numbered(kind) ==
  CASE kind = "token" -> Uploads [] kind = "session" -> {0, 2}
    [] kind = "csrf" -> {0} [] OTHER -> {1}

\* A login, bootstrap, refresh, access token or audit record: authentication ...
Arrive(kind) ==
  /\ kind \in {"token", "session", "csrf", "identity", "log"}
  /\ Authenticates /\ kind \notin inflight
  /\ inserts < MaxInserts
  /\ inflight' = inflight \cup {kind}
  /\ inserts' = inserts + 1
  /\ UNCHANGED <<account, content, killing, pass, archives, lost, faults>>

\* ... and the insertion some time later, refused when a parent has gone.
Insert(kind) ==
  /\ kind \in inflight
  /\ inflight' = inflight \ {kind}
  /\ \/ /\ status # "gone"
        /\ \E n \in Numbered(kind) : Insertable(<<kind, n>>) /\ rows' = rows \cup {<<kind, n>>}
     \/ /\ \/ status = "gone"
           \/ \E n \in Numbered(kind) : ~Insertable(<<kind, n>>)
        /\ UNCHANGED rows
  /\ UNCHANGED <<account, busy, running, files, owed, killing, inserts, pass, archives,
                 lost, faults>>

\* A request authenticated while the account was active, which is not looked at again,
\* may still be under way: the lock period outlasts it.
Admitted == status \in {"active", "suspended", "pending"} /\ ~due

\* Init of an upload session and its parts.
InitUpload(n) ==
  /\ Admitted
  /\ <<"upload", n>> \notin rows /\ <<"image", n>> \notin rows /\ <<"job", n>> \notin rows
  /\ rows' = rows \cup {<<"upload", n>>, <<"part", n>>}
  /\ busy' = busy \cup {n}
  /\ UNCHANGED <<account, running, files, owed, traffic, pass, archives, lost, faults>>

\* Complete: the image, its variant and its job.
Complete(n) ==
  /\ n \in busy /\ <<"image", n>> \notin rows
  /\ Admitted
  /\ rows' = rows \cup {<<"image", n>>, <<"variant", n>>, <<"job", n>>}
  /\ running' = running \cup {n}
  /\ files' = files \cup {<<"variant", n>>}
  /\ UNCHANGED <<account, busy, owed, traffic, pass, archives, lost, faults>>

\* The job publishes the original and is settled. An event that named the file earlier
\* may have been delivered by now.
Publish(n) ==
  /\ n \in running
  /\ running' = running \ {n}
  /\ files' = files \cup {<<"image", n>>}
  /\ owed' = owed \ {<<"image", n>>}
  /\ UNCHANGED <<account, rows, busy, traffic, pass, archives, lost, faults>>

\* The session is completed, cancelled or expired, and its directory removed.
EndUpload(n) ==
  /\ n \in busy /\ n \notin running
  /\ busy' = busy \ {n}
  /\ UNCHANGED <<account, rows, running, files, owed, traffic, pass, archives, lost, faults>>

-----------------------------------------------------------------------------
(* The archive of the lock period.                                         *)

\* Mutation: only the count that was read before is compared.
MayReserveStale == TRUE

MayReserve == count < Allowance

\* The handler and the first read.
AskArchive(d) ==
  /\ archive[d] = "idle"
  /\ status = "pending" /\ count < Allowance
  /\ Of("image") # {}
  /\ archive' = [archive EXCEPT ![d] = "asked"]
  /\ UNCHANGED <<account, content, traffic, pass, count, lost, faults>>

\* The conditional increment.
ReserveArchive(d) ==
  /\ archive[d] = "asked"
  /\ IF MayReserve /\ status # "gone"
     THEN count' = count + 1 /\ archive' = [archive EXCEPT ![d] = "writing"]
     ELSE UNCHANGED count /\ archive' = [archive EXCEPT ![d] = "refused"]
  /\ UNCHANGED <<account, content, traffic, pass, lost, faults>>

ArchiveWritten(d) ==
  /\ archive[d] = "writing"
  /\ archive' = [archive EXCEPT ![d] = "delivered"]
  /\ UNCHANGED <<account, content, traffic, pass, count, lost, faults>>

\* An error, or a client that hangs up: the reservation is given back, if the count
\* was not reset meanwhile.
ArchiveFails(d) ==
  /\ archive[d] = "writing"
  /\ Fault
  /\ archive' = [archive EXCEPT ![d] = "idle"]
  /\ count' = IF count > 0 THEN count - 1 ELSE 0
  /\ UNCHANGED <<account, content, traffic, pass, lost>>

-----------------------------------------------------------------------------
(* The deletion worker.                                                    *)

\* listPendingDeletionUsers: a query without a lock.
ListUser(w) ==
  /\ pass[w] = 0
  /\ (status = "pending" /\ due) \/ status = "deleting"
  /\ pass' = [pass EXCEPT ![w] = MaxBatches]
  /\ UNCHANGED <<account, content, traffic, archives, lost, faults>>

\* Mutation: the recheck does not look at the date again.
DoomedByStatus == status \in {"pending", "deleting"}

\* The recheck under the row lock.
Doomed == status = "deleting" \/ (status = "pending" /\ due)

\* Jobs are found through the image or the upload session they refer to.
Found(kind) ==
  {r \in Of(kind) : kind = "job" => {<<"image", r[2]>>, <<"upload", r[2]>>} \cap rows # {}}

\* Mutation: jobs under way are left to their worker.
BlockedByUploads == \E n \in busy \ running : <<"upload", n>> \in rows

\* userDeletionHasBlockingUpload, userDeletionHasBlockingJob
Blocked ==
  \/ \E n \in busy : <<"upload", n>> \in rows
  \/ \E n \in running : <<"job", n>> \in Found("job")

StopPass(w) == pass' = [pass EXCEPT ![w] = 0]

\* Cancelled, gone, or busy: the pass ends without a change.
SkipUser(w) ==
  /\ pass[w] > 0
  /\ ~Doomed \/ Blocked
  /\ StopPass(w)
  /\ UNCHANGED <<account, content, traffic, archives, lost, faults>>

\* The first Batch rows by number.
FirstOf(S) == {r \in S : Cardinality({q \in S : q[2] < r[2]}) < Batch}

\* Mutation: the identities are part of the session phase.
BatchOfAll(kind) ==
  FirstOf(IF kind = "session" THEN Found("identity") \cup Found(kind) ELSE Found(kind))

BatchOf(kind) == FirstOf(Found(kind))

\* beginUserDeletion, in the transaction of every batch.
Begin == status \in {"pending", "deleting"} /\ status' = "deleting"

\* The rows whose file paths go into the batch's storage-delete event.
Released(S) == {r \in S : r[1] \in {"variant", "image"}}

\* The first phase that has rows; the user's row is locked, so nothing is inserted.
DeleteBatch(w) ==
  /\ pass[w] > 0 /\ Doomed /\ ~Blocked
  /\ \E i \in DOMAIN Phases :
       /\ Found(Phases[i]) # {}
       /\ \A j \in 1..(i - 1) : Found(Phases[j]) = {}
       /\ LET S == BatchOf(Phases[i])
          IN /\ ~Restricted(S)
             /\ Delete(S)
             /\ owed' = owed \cup Released(S)
             /\ lost' = lost \cup S
  /\ Begin
  /\ pass' = [pass EXCEPT ![w] = @ - 1]
  /\ UNCHANGED <<due, requests, busy, running, files, traffic, archives, faults>>

\* Nothing is left: the user's row goes, and by cascade what no phase has seen.
DeleteUser(w) ==
  /\ pass[w] > 0 /\ Doomed /\ ~Blocked
  /\ \A kind \in Kinds : Found(kind) = {}
  /\ status' = "gone"
  /\ rows' = Of("job")
  /\ StopPass(w)
  /\ UNCHANGED <<due, requests, busy, running, files, owed, traffic, archives, lost, faults>>

\* A failing transaction, a storage target that cannot be resolved, a dying process.
PassFails(w) ==
  /\ pass[w] > 0
  /\ Fault
  /\ StopPass(w)
  /\ UNCHANGED <<account, content, traffic, archives, lost>>

-----------------------------------------------------------------------------

DeletionPass(w) == ListUser(w) \/ SkipUser(w) \/ DeleteBatch(w) \/ DeleteUser(w)

Next ==
  \/ SetUserStatus \/ RequestUserDeletion \/ KillSessions \/ CancelUserDeletion
  \/ LockPeriodEnds
  \/ \E kind \in Kinds : Arrive(kind) \/ Insert(kind)
  \/ \E n \in Uploads : InitUpload(n) \/ Complete(n) \/ Publish(n) \/ EndUpload(n)
  \/ \E d \in Downloads : \/ AskArchive(d) \/ ReserveArchive(d)
                          \/ ArchiveWritten(d) \/ ArchiveFails(d)
  \/ \E w \in Workers : DeletionPass(w) \/ PassFails(w)

Spec == Init /\ [][Next]_vars

\* The workers keep polling; jobs settle (PublishJob) and sessions end (UploadSession).
Fairness ==
  /\ \A w \in Workers : WF_vars(DeletionPass(w))
  /\ \A n \in Uploads : WF_vars(Publish(n)) /\ WF_vars(EndUpload(n))

FairSpec == Spec /\ Fairness

-----------------------------------------------------------------------------
(* Properties.                                                             *)

Stages == {"idle", "asked", "writing", "delivered", "refused"}

\* The shape of the state.
TypeOK ==
  /\ status \in {"active", "suspended", "pending", "deleting", "gone"}
  /\ due \in BOOLEAN /\ killing \in BOOLEAN
  /\ rows \subseteq Kinds \X (Uploads \cup 0..2)
  /\ busy \subseteq Uploads /\ running \subseteq Uploads
  /\ files \subseteq Kinds \X Uploads /\ owed \subseteq Kinds \X Uploads
  /\ inflight \subseteq Kinds
  /\ pass \in [Workers -> 0..MaxBatches]
  /\ count \in Nat /\ archive \in [Downloads -> Stages]
  /\ requests \in Nat /\ inserts \in Nat /\ faults \in Nat

\* A deleted account leaves nothing behind: no row that refers to it, directly or
\* through an image or upload session that is gone, and no file that no storage-delete
\* event names, whatever was inserted between two batches (deleteUserRecords).
GoneLeavesNothing == status = "gone" => rows = {} /\ files \subseteq owed

\* Nothing is lost without notice: as long as an account can be active again the worker
\* has deleted none of its rows (beginUserDeletion in every batch), and a deletion
\* begins only when the lock period of the latest request is over, also when the worker
\* listed the account for an earlier one.
CancelledLosesNothing ==
  [][/\ lost # {} => status \in {"deleting", "gone"} /\ status' \in {"deleting", "gone"}
     /\ status = "pending" /\ status' \in {"deleting", "gone"} => due]_vars

\* Deletion requests that were cancelled: each of them renewed the allowance.
Cancelled == IF status \in {"active", "suspended"} THEN requests ELSE requests - 1

\* Concurrent requests share the allowance: however reservations, failing downloads and
\* cancellations interleave, no more archives are delivered or under way than one
\* allowance for every lock period grants (BatchDownloadOriginals).
ArchivesRationed ==
  Cardinality({d \in Downloads : archive[d] \in {"writing", "delivered"}})
    <= Allowance * (Cancelled + 1)

\* A deletion that has begun is carried through: batches make progress and no order of
\* rows and foreign keys stops them for good (userDeletionSessionIDs).
DeletionEnds == status = "deleting" ~> status = "gone"

=============================================================================
