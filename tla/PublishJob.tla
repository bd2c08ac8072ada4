----------------------------- MODULE PublishJob -----------------------------
(***************************************************************************)
(* The V2 publish worker: several workers, in one process or in many, take *)
(* durable rows of processing_jobs under a lease, build the public file of *)
(* an image from its staged publish_source part and commit the image.      *)
(*                                                                         *)
(* The rows (row, image, variants, session, billed, doomed, announced) are *)
(* MySQL state and change in transactions; files is the file system, which *)
(* no transaction protects; worker is the memory of the workers, lost in a *)
(* crash. A worker that stalls past its lease keeps running: the only      *)
(* thing that stops it is the fencing token it must present.               *)
(***************************************************************************)
EXTENDS Integers

CONSTANTS
  Jobs,          \* publish jobs; each has one image and one upload session
  Workers,       \* worker goroutines of all processes
  MaxAttempts,   \* processing_jobs.max_attempts (5 in the code)
  MaxFaults,     \* bound: crashes, step errors, panics and stalls
  MaxShutdowns,  \* bound: hard shutdowns that interrupt a worker
  LostReleases,  \* bound: panics whose lease release fails as well
  NoJob          \* the job of an idle worker

ASSUME PublishAssumption ==
  /\ MaxAttempts \in Nat \ {0}
  /\ MaxFaults \in Nat
  /\ MaxShutdowns \in Nat
  /\ LostReleases \in Nat
  /\ NoJob \notin Jobs

VARIABLES
  row,           \* row[j]: the processing_jobs row
  image,         \* image[j]: images.processing_status, "deleted" = no row
  variants,      \* variants[j]: kinds of the image_variants rows
  session,       \* session[j]: upload_sessions.status
  billed,        \* billed[j]: times the owner's storage_used counts j now
  doomed,        \* doomed[j]: paths in j's undelivered storage-delete event
  announced,     \* announced[j]: image.processing.completed is in the outbox
  files,         \* files[j]: which of j's paths exist on disk
  worker,        \* worker[w]: what the worker is doing, in memory
  ghosts,        \* <<job, token>> of heartbeats that outlived their worker
  nextToken,     \* the next fencing token (random and unused in the code)
  faults,        \* faults so far
  shutdowns,     \* hard shutdowns so far
  lost           \* panics so far whose release failed

domainVars == <<image, variants, session, billed, doomed, announced>>
boundVars  == <<faults, shutdowns, lost>>
vars == <<row, domainVars, files, worker, ghosts, nextToken, boundVars>>

JobStatus     == {"queued", "running", "retry", "completed", "dead"}
ImageStatus   == {"processing", "completed", "deleted"}
SessionStatus == {"processing", "completed", "cleanup_pending", "failed"}
Kinds         == {"fixed", "publish_source", "publish"}
\* source: <staging>/<key>/publish_source.ready; staging: the session directory;
\* target: v2/publish/<image>/v1.webp.
Paths         == {"source", "staging", "target"}
Leases        == {"none", "live", "expired"}
Causes        == {"none", "error", "quota", "exhausted"}

\* The program points of a worker that executes a job: these are the points at
\* which its lease heartbeat runs.
ExecPoints    == {"start", "render", "promote", "inspect", "clean", "commit"}
Points        == ExecPoints \cup {"idle", "fail", "sweep"}

JobRow   == [status: JobStatus, attempts: 0..MaxAttempts, token: Nat,
             lease: Leases, due: BOOLEAN, watermark: BOOLEAN]
Activity == [pc: Points, job: Jobs \cup {NoJob}, token: Nat,
             attempts: 0..MaxAttempts, cause: Causes, clean: BOOLEAN]

Idle == [pc |-> "idle", job |-> NoJob, token |-> 0, attempts |-> 0,
         cause |-> "none", clean |-> FALSE]

FreshRows == {[status |-> "queued", attempts |-> 0, token |-> 0, lease |-> "none",
               due |-> TRUE, watermark |-> b] : b \in BOOLEAN}

\* The state Complete commits: the job queued, the source staged. The payload of the
\* job has a snapshot of the watermark configuration.
Init ==
  /\ row       \in [Jobs -> FreshRows]
  /\ image     = [j \in Jobs |-> "processing"]
  /\ variants  = [j \in Jobs |-> {"fixed", "publish_source"}]
  /\ session   = [j \in Jobs |-> "processing"]
  /\ billed    = [j \in Jobs |-> 0]
  /\ doomed    = [j \in Jobs |-> {}]
  /\ announced = [j \in Jobs |-> FALSE]
  /\ files     = [j \in Jobs |-> {"source", "staging"}]
  /\ worker    = [w \in Workers |-> Idle]
  /\ ghosts    = {}
  /\ nextToken = 1
  /\ faults    = 0
  /\ shutdowns = 0
  /\ lost      = 0

-----------------------------------------------------------------------------
(* The row under its lease.                                                *)

\* Mutation: only rows without a lease are abandoned, an expired lease is not.
AbandonedUnleased(r) == r.status = "running" /\ r.lease = "none"

Abandoned(r) == r.status = "running" /\ r.lease # "live"

HasAttempts(r) == r.attempts < MaxAttempts

Waiting(r) == r.status \in {"queued", "retry"} /\ r.due

Unleased(r, status, due) ==
  [r EXCEPT !.status = status, !.due = due, !.token = 0, !.lease = "none"]

Leased(r, attempts, token) ==
  [r EXCEPT !.status = "running", !.attempts = attempts, !.token = token, !.lease = "live"]

Refunded(r) == [r EXCEPT !.attempts = IF r.attempts > 0 THEN r.attempts - 1 ELSE 0]

\* Mutation: the fence looks at the status of the row and not at its token.
HoldsByStatus(w) ==
  /\ worker[w].pc # "idle"
  /\ row[worker[w].job].status = "running"

\* The fence of every write a worker makes on behalf of its job.
Holds(w) ==
  /\ worker[w].pc # "idle"
  /\ row[worker[w].job].status = "running"
  /\ row[worker[w].job].token = worker[w].token

\* A worker, or a heartbeat left behind by one, still owns the lease of j.
Held(j) ==
  \/ \E w \in Workers : worker[w].job = j /\ Holds(w)
  \/ row[j].status = "running" /\ <<j, row[j].token>> \in ghosts

Goto(w, point) == worker' = [worker EXCEPT ![w].pc = point]

Abort(w, cause) == worker' = [worker EXCEPT ![w].pc = "fail", ![w].cause = cause]

Stop(w) == worker' = [worker EXCEPT ![w] = Idle]

Fault == faults < MaxFaults /\ faults' = faults + 1 /\ UNCHANGED <<shutdowns, lost>>

-----------------------------------------------------------------------------
(* Claiming.                                                               *)

Assign(w, j, point, cause, attempts) ==
  /\ worker' = [worker EXCEPT ![w] =
       [pc |-> point, job |-> j, token |-> nextToken, attempts |-> attempts,
        cause |-> cause, clean |-> FALSE]]
  /\ nextToken' = nextToken + 1

\* A job at its attempt limit that nobody executes is taken only to be killed.
ClaimExhausted(w, j) ==
  /\ worker[w].pc = "idle"
  /\ ~HasAttempts(row[j])
  /\ Abandoned(row[j]) \/ Waiting(row[j])
  /\ row' = [row EXCEPT ![j] = Leased(row[j], row[j].attempts, nextToken)]
  /\ Assign(w, j, "fail", "exhausted", row[j].attempts)
  /\ UNCHANGED <<domainVars, files, ghosts, boundVars>>

\* One transaction: every abandoned row with attempts left goes back to retry,
\* then one waiting row is taken. Another worker may hold the row lock of the
\* best row (SKIP LOCKED), so any waiting row can be the one taken.
Claim(w, j) ==
  LET rows == [k \in Jobs |->
                 IF Abandoned(row[k]) /\ HasAttempts(row[k])
                 THEN Unleased(row[k], "retry", TRUE) ELSE row[k]]
  IN /\ worker[w].pc = "idle"
     /\ Waiting(rows[j])
     /\ HasAttempts(rows[j])
     /\ row' = [rows EXCEPT ![j] = Leased(rows[j], rows[j].attempts + 1, nextToken)]
     /\ Assign(w, j, "start", "none", rows[j].attempts + 1)
     /\ UNCHANGED <<domainVars, files, ghosts, boundVars>>

-----------------------------------------------------------------------------
(* Executing: file system steps without a lock, except for promotion.      *)

\* Is the source re-rendered, or is it the public file itself.
Watermarked(j) == row[j].watermark

\* Mutation: a second attempt takes it for granted that the first one promoted.
StatTrusting(w) ==
  /\ worker[w].pc = "start"
  /\ Goto(w, IF worker[w].attempts > 1 \/ "target" \in files[worker[w].job]
             THEN "clean" ELSE IF Watermarked(worker[w].job) THEN "render" ELSE "promote")
  /\ UNCHANGED <<row, domainVars, files, ghosts, nextToken, boundVars>>

Stat(w) ==
  /\ worker[w].pc = "start"
  /\ Goto(w, IF "target" \in files[worker[w].job] THEN "inspect"
             ELSE IF Watermarked(worker[w].job) THEN "render" ELSE "promote")
  /\ UNCHANGED <<row, domainVars, files, ghosts, nextToken, boundVars>>

\* Mutation: rendering consumes the source.
RenderConsuming(w) ==
  /\ worker[w].pc = "render"
  /\ IF "source" \in files[worker[w].job] THEN Goto(w, "promote") ELSE Abort(w, "error")
  /\ files' = [files EXCEPT ![worker[w].job] = @ \ {"source"}]
  /\ UNCHANGED <<row, domainVars, ghosts, nextToken, boundVars>>

\* imgproxy reads the source and streams the result to a private file named
\* after the lease token.
Render(w) ==
  /\ worker[w].pc = "render"
  /\ IF "source" \in files[worker[w].job] THEN Goto(w, "promote") ELSE Abort(w, "error")
  /\ UNCHANGED <<row, domainVars, files, ghosts, nextToken, boundVars>>

\* Mutation: no fence around the rename.
PromoteUnfenced(w) ==
  LET j == worker[w].job
  IN /\ worker[w].pc = "promote"
     /\ Watermarked(j) \/ files[j] \cap {"source", "target"} # {}
     /\ files' = [files EXCEPT ![j] = (IF Watermarked(j) THEN @ ELSE @ \ {"source"}) \cup {"target"}]
     /\ Goto(w, "inspect")
     /\ UNCHANGED <<row, domainVars, ghosts, nextToken, boundVars>>

\* Under the storage lock and the fence: the private file, or the source itself,
\* is renamed to the target unless the target is there already.
Promote(w) ==
  LET j == worker[w].job
  IN /\ worker[w].pc = "promote"
     /\ Holds(w)
     /\ \/ /\ "target" \in files[j]
           /\ Goto(w, "inspect")
           /\ UNCHANGED files
        \/ /\ "target" \notin files[j]
           /\ Watermarked(j) \/ "source" \in files[j]
           /\ files' = [files EXCEPT ![j] =
                          (IF Watermarked(j) THEN @ ELSE @ \ {"source"}) \cup {"target"}]
           /\ Goto(w, "inspect")
     /\ UNCHANGED <<row, domainVars, ghosts, nextToken, boundVars>>

Inspect(w) ==
  /\ worker[w].pc = "inspect"
  /\ IF "target" \in files[worker[w].job] THEN Goto(w, "clean") ELSE Abort(w, "error")
  /\ UNCHANGED <<row, domainVars, files, ghosts, nextToken, boundVars>>

\* The source is removed without the fence. The session directory goes too,
\* unless a late upload request left something in it.
Clean(w) ==
  LET j == worker[w].job
  IN /\ worker[w].pc = "clean"
     /\ \E clean \in BOOLEAN :
          /\ "staging" \notin files[j] => clean
          /\ files' = [files EXCEPT ![j] =
                         @ \ (IF clean THEN {"source", "staging"} ELSE {"source"})]
          /\ worker' = [worker EXCEPT ![w].pc = "commit", ![w].clean = clean]
     /\ UNCHANGED <<row, domainVars, ghosts, nextToken, boundVars>>

\* The final transaction. Everything the rest of the system sees of the image
\* changes here, together with the row.
Commit(w) ==
  LET j == worker[w].job
      first == image[j] # "completed"
  IN /\ worker[w].pc = "commit"
     /\ Holds(w)
     /\ image[j] # "deleted"
     /\ row'       = [row EXCEPT ![j] = Unleased(row[j], "completed", row[j].due)]
     /\ image'     = [image EXCEPT ![j] = "completed"]
     /\ variants'  = [variants EXCEPT ![j] = (@ \ {"publish_source"}) \cup {"publish"}]
     /\ session'   = [session EXCEPT ![j] =
                        IF worker[w].clean THEN "completed" ELSE "cleanup_pending"]
     /\ billed'    = [billed EXCEPT ![j] = IF first THEN @ + 1 ELSE @]
     /\ announced' = [announced EXCEPT ![j] = TRUE]
     /\ Stop(w)
     /\ UNCHANGED <<doomed, files, ghosts, nextToken, boundVars>>

\* The same transaction when the owner's quota does not admit the image any more
\* (other uploads and the administrator change it meanwhile): rolled back.
CommitOverQuota(w) ==
  /\ worker[w].pc = "commit"
  /\ Holds(w)
  /\ image[worker[w].job] = "processing"
  /\ Abort(w, "quota")
  /\ UNCHANGED <<row, domainVars, files, ghosts, nextToken, boundVars>>

\* A fenced transaction of a worker that lost its lease finds no row.
FencedOut(w) ==
  /\ worker[w].pc \in {"promote", "commit"}
  /\ ~Holds(w)
  /\ Abort(w, "error")
  /\ UNCHANGED <<row, domainVars, files, ghosts, nextToken, boundVars>>

\* imgproxy, the disk or the database refuses a step.
StepError(w) ==
  /\ worker[w].pc \in ExecPoints
  /\ Fault
  /\ Abort(w, "error")
  /\ UNCHANGED <<row, domainVars, files, ghosts, nextToken>>

-----------------------------------------------------------------------------
(* The lease heartbeat of an executing worker.                             *)

Extend(w) ==
  /\ worker[w].pc \in ExecPoints
  /\ Holds(w)
  /\ row[worker[w].job].lease = "expired"
  /\ row' = [row EXCEPT ![worker[w].job].lease = "live"]
  /\ UNCHANGED <<domainVars, files, worker, ghosts, nextToken, boundVars>>

\* The heartbeat finds the lease gone and cancels the execution; when the job was
\* completed by its new holder there is nothing left to report.
LeaseLost(w) ==
  /\ worker[w].pc \in ExecPoints
  /\ ~Holds(w)
  /\ IF row[worker[w].job].status = "completed" THEN Stop(w) ELSE Abort(w, "error")
  /\ UNCHANGED <<row, domainVars, files, ghosts, nextToken, boundVars>>

-----------------------------------------------------------------------------
(* Failing an attempt.                                                     *)

FailFencedOut(w) ==
  /\ worker[w].pc = "fail"
  /\ ~Holds(w)
  /\ Stop(w)
  /\ UNCHANGED <<row, domainVars, files, ghosts, nextToken, boundVars>>

\* Mutation: the last attempt is never granted.
MustDieEarly(w) == worker[w].attempts + 1 >= MaxAttempts \/ worker[w].cause = "quota"

MustDie(w) == worker[w].attempts >= MaxAttempts \/ worker[w].cause = "quota"

FailRetry(w) ==
  /\ worker[w].pc = "fail"
  /\ Holds(w)
  /\ ~MustDie(w)
  /\ row' = [row EXCEPT ![worker[w].job] = Unleased(row[worker[w].job], "retry", FALSE)]
  /\ Stop(w)
  /\ UNCHANGED <<domainVars, files, ghosts, nextToken, boundVars>>

\* Mutation: only the paths image_variants rows name, not the job's own target.
DeadPathsOfRows(j) == IF image[j] = "processing" THEN {"source"} ELSE {}

\* What a dead job leaves on disk: its target, which no row may name yet, and the
\* files of the rows it deletes.
DeadPaths(j) == {"target"} \cup (IF image[j] = "processing" THEN {"source"} ELSE {})

\* Dead: the half-built image is compensated in the same transaction, its files
\* are queued for deletion and, after the commit, swept right away.
FailDead(w) ==
  LET j == worker[w].job
      half == image[j] = "processing"
  IN /\ worker[w].pc = "fail"
     /\ Holds(w)
     /\ MustDie(w)
     /\ row'      = [row EXCEPT ![j] = Unleased(row[j], "dead", FALSE)]
     /\ image'    = [image EXCEPT ![j] = IF half THEN "deleted" ELSE @]
     /\ variants' = [variants EXCEPT ![j] = IF half THEN {} ELSE @]
     /\ session'  = [session EXCEPT ![j] = "failed"]
     /\ doomed'   = [doomed EXCEPT ![j] = @ \cup DeadPaths(j)]
     /\ Goto(w, "sweep")
     /\ UNCHANGED <<billed, announced, files, ghosts, nextToken, boundVars>>

\* Paths of j that image_variants rows still name.
Referenced(j) ==
  {p \in {"source", "target"} :
     (IF p = "target" THEN "publish" ELSE "publish_source") \in variants[j]}

Sweep(w) ==
  LET j == worker[w].job
  IN /\ worker[w].pc = "sweep"
     /\ files' = [files EXCEPT ![j] = @ \ ({"source", "target"} \ Referenced(j))]
     /\ Stop(w)
     /\ UNCHANGED <<row, domainVars, ghosts, nextToken, boundVars>>

-----------------------------------------------------------------------------
(* Interruptions.                                                          *)

\* Mutation: an interrupted attempt is not refunded.
ReleasedCharged(j, w, refund) ==
  IF Holds(w) THEN [row EXCEPT ![j] = Unleased(row[j], "retry", TRUE)] ELSE row

\* Owner and token fence the release, so it is a no-op on a row that moved on.
Released(j, w, refund) ==
  IF Holds(w)
  THEN [row EXCEPT ![j] = Unleased(IF refund THEN Refunded(row[j]) ELSE row[j], "retry", TRUE)]
  ELSE row

\* The worker context is cancelled by a hard shutdown; the attempt is refunded
\* unless the claim was only made to kill the job.
Shutdown(w) ==
  /\ worker[w].pc # "idle"
  /\ shutdowns < MaxShutdowns
  /\ shutdowns' = shutdowns + 1
  /\ row' = Released(worker[w].job, w, worker[w].cause # "exhausted")
  /\ Stop(w)
  /\ UNCHANGED <<domainVars, files, ghosts, nextToken, faults, lost>>

\* A panic costs the attempt. The supervisor restarts the worker.
Panic(w) ==
  /\ worker[w].pc # "idle"
  /\ Fault
  /\ row' = Released(worker[w].job, w, FALSE)
  /\ Stop(w)
  /\ UNCHANGED <<domainVars, files, ghosts, nextToken>>

\* The panic unwinds past the heartbeat without cancelling it; when the release
\* fails too, the heartbeat goes on extending a lease that nobody works under.
PanicUnreleased(w) ==
  /\ worker[w].pc \in ExecPoints
  /\ lost < LostReleases
  /\ lost' = lost + 1
  /\ ghosts' = ghosts \cup {<<worker[w].job, worker[w].token>>}
  /\ Stop(w)
  /\ UNCHANGED <<row, domainVars, files, nextToken, faults, shutdowns>>

\* The process dies, or the transaction of failPublishJob or the sweep fails:
\* what the worker knew is gone and the row is left as it is.
Crash(w) ==
  /\ worker[w].pc # "idle"
  /\ Fault
  /\ Stop(w)
  /\ UNCHANGED <<row, domainVars, files, ghosts, nextToken>>

GhostExtend(j, token) ==
  /\ <<j, token>> \in ghosts
  /\ row[j].status = "running" /\ row[j].token = token
  /\ row[j].lease = "expired"
  /\ row' = [row EXCEPT ![j].lease = "live"]
  /\ UNCHANGED <<domainVars, files, worker, ghosts, nextToken, boundVars>>

GhostStop(j, token) ==
  /\ <<j, token>> \in ghosts
  /\ ~(row[j].status = "running" /\ row[j].token = token)
  /\ ghosts' = ghosts \ {<<j, token>>}
  /\ UNCHANGED <<row, domainVars, files, worker, nextToken, boundVars>>

\* The process that runs it ends, or its update fails once.
GhostDies(j, token) ==
  /\ <<j, token>> \in ghosts
  /\ Fault
  /\ ghosts' = ghosts \ {<<j, token>>}
  /\ UNCHANGED <<row, domainVars, files, worker, nextToken>>

-----------------------------------------------------------------------------
(* Time and the other actors that touch the same rows and files.           *)

\* The lease of a job nobody works on runs out.
LeaseExpires(j) ==
  /\ row[j].status = "running"
  /\ row[j].lease = "live"
  /\ ~Held(j)
  /\ row' = [row EXCEPT ![j].lease = "expired"]
  /\ UNCHANGED <<domainVars, files, worker, ghosts, nextToken, boundVars>>

\* A holder that is paused for longer than its lease loses it and goes on unaware.
Stall(j) ==
  /\ row[j].status = "running"
  /\ row[j].lease = "live"
  /\ Held(j)
  /\ Fault
  /\ row' = [row EXCEPT ![j].lease = "expired"]
  /\ UNCHANGED <<domainVars, files, worker, ghosts, nextToken>>

BackoffElapses(j) ==
  /\ row[j].status = "retry"
  /\ ~row[j].due
  /\ row' = [row EXCEPT ![j].due = TRUE]
  /\ UNCHANGED <<domainVars, files, worker, ghosts, nextToken, boundVars>>

\* Mutation: the owner's storage_used is not lowered.
DeleteImageUnbilled(j) ==
  /\ image[j] = "completed"
  /\ image'    = [image EXCEPT ![j] = "deleted"]
  /\ variants' = [variants EXCEPT ![j] = {}]
  /\ doomed'   = [doomed EXCEPT ![j] = @ \cup {"target"}]
  /\ UNCHANGED <<row, session, billed, announced, files, worker, ghosts, nextToken, boundVars>>

\* The owner deletes a published image: one transaction, no file system step.
DeleteImage(j) ==
  /\ image[j] = "completed"
  /\ image'    = [image EXCEPT ![j] = "deleted"]
  /\ variants' = [variants EXCEPT ![j] = {}]
  /\ billed'   = [billed EXCEPT ![j] = @ - 1]
  /\ doomed'   = [doomed EXCEPT ![j] = @ \cup {"target"}]
  /\ UNCHANGED <<row, session, announced, files, worker, ghosts, nextToken, boundVars>>

\* The outbox delivers the storage-delete event under the storage lock, checking
\* again that nothing refers to the path. It retries for ever.
StorageDelete(j) ==
  /\ doomed[j] # {}
  /\ files'  = [files EXCEPT ![j] = @ \ (doomed[j] \ Referenced(j))]
  /\ doomed' = [doomed EXCEPT ![j] = {}]
  /\ UNCHANGED <<row, image, variants, session, billed, announced,
                 worker, ghosts, nextToken, boundVars>>

-----------------------------------------------------------------------------

\* Steps a running worker takes by itself.
Progress(w) ==
  \/ \E j \in Jobs : Claim(w, j) \/ ClaimExhausted(w, j)
  \/ Stat(w) \/ Render(w) \/ Promote(w) \/ Inspect(w) \/ Clean(w)
  \/ Commit(w) \/ FencedOut(w)
  \/ FailFencedOut(w) \/ FailRetry(w) \/ FailDead(w) \/ Sweep(w)

Interruption(w) ==
  StepError(w) \/ Shutdown(w) \/ Panic(w) \/ PanicUnreleased(w) \/ Crash(w)

WorkerStep(w) ==
  \/ Progress(w) \/ CommitOverQuota(w)
  \/ Extend(w) \/ LeaseLost(w)
  \/ Interruption(w)

Ghost == \E g \in ghosts : GhostExtend(g[1], g[2]) \/ GhostStop(g[1], g[2])

JobStep(j) ==
  \/ LeaseExpires(j) \/ Stall(j) \/ BackoffElapses(j)
  \/ DeleteImage(j) \/ StorageDelete(j)

Next ==
  \/ \E w \in Workers : WorkerStep(w)
  \/ \E j \in Jobs : JobStep(j)
  \/ Ghost
  \/ \E g \in ghosts : GhostDies(g[1], g[2])

Spec == Init /\ [][Next]_vars

\* Workers poll and supervisors restart them, heartbeats tick, time passes and
\* the outbox keeps retrying. Nothing obliges an owner to delete an image, a
\* fault to happen or a quota to overflow.
Fairness ==
  /\ \A w \in Workers : WF_vars(Progress(w)) /\ WF_vars(Extend(w))
  /\ \A j \in Jobs : WF_vars(LeaseExpires(j)) /\ WF_vars(BackoffElapses(j))
                     /\ WF_vars(StorageDelete(j))
  /\ WF_vars(Ghost)

FairSpec == Spec /\ Fairness

-----------------------------------------------------------------------------
(* Properties.                                                             *)

\* The shape of the state: attempts never exceed max_attempts, tokens are
\* numbers, and each program point, cause and path is one of the known ones.
TypeOK ==
  /\ row \in [Jobs -> JobRow]
  /\ image \in [Jobs -> ImageStatus]
  /\ variants \in [Jobs -> SUBSET Kinds]
  /\ session \in [Jobs -> SessionStatus]
  /\ billed \in [Jobs -> Int]
  /\ doomed \in [Jobs -> SUBSET Paths]
  /\ announced \in [Jobs -> BOOLEAN]
  /\ files \in [Jobs -> SUBSET Paths]
  /\ worker \in [Workers -> Activity]
  /\ ghosts \subseteq Jobs \X Nat
  /\ nextToken \in Nat \ {0}
  /\ faults \in Nat /\ shutdowns \in Nat /\ lost \in Nat

Terminal(j) == row[j].status \in {"completed", "dead"}

\* However many workers ran the job, the owner's storage_used counts the image
\* exactly once while it is published and not at all before or after, and the
\* completion event exists exactly when the image was published
\* (executePublishJob's final transaction, deleteImage).
AccountedOnce ==
  \A j \in Jobs :
    /\ billed[j] = IF image[j] = "completed" THEN 1 ELSE 0
    /\ announced[j] <=> row[j].status = "completed"

\* The bytes of an image survive every interleaving of workers and crashes: until
\* the job is settled the staged source or the finished target is on disk, so a
\* retry can always go on, and a published image has its target. The source is
\* removed without the fence (v2_publish_worker.go:398).
ContentSurvives ==
  \A j \in Jobs :
    /\ ~Terminal(j) => files[j] \cap {"source", "target"} # {}
    /\ "publish" \in variants[j] => "target" \in files[j]

\* No file is forgotten: what is left on disk of an image that is gone is named by
\* an undelivered storage-delete event, also when the target was promoted before
\* any image_variants row named it (failPublishJob, deleteImage).
NoLeak ==
  \A j \in Jobs :
    image[j] = "deleted" => files[j] \ {"staging"} \subseteq doomed[j]

\* A job half compensated is never seen: the image, its variants, the session and
\* the job row agree on the outcome.
OutcomesAgree ==
  \A j \in Jobs :
    /\ row[j].status = "dead" => image[j] = "deleted" /\ session[j] = "failed"
    /\ row[j].status = "completed" => session[j] \in {"completed", "cleanup_pending"}
    /\ image[j] = "processing" <=> "publish_source" \in variants[j]
    /\ image[j] = "completed" => row[j].status = "completed"

\* Hard shutdowns alone never consume the retry budget: every attempt on a row but
\* the current one was paid for by a fault (releasePublishJobLease's refund).
ShutdownsAreFree ==
  \A j \in Jobs : row[j].attempts <= faults + lost + 1

\* A worker that lost its lease cannot recreate a result: once the job is settled
\* it stays settled and its files only disappear (promotePublishTarget).
NoResurrection ==
  [][\A j \in Jobs : Terminal(j) =>
       /\ row'[j].status = row[j].status
       /\ files'[j] \subseteq files[j]
       /\ image[j] = "deleted" => image'[j] = "deleted"]_vars

\* A live lease is ended only by a step of the worker that holds its token: not by
\* another claim, a late failure, or the release of an older execution.
LeaseRespected ==
  [][\A j \in Jobs :
       row[j].status = "running" /\ row[j].lease = "live" /\ row'[j].token # row[j].token
         => \E w \in Workers : /\ worker[w].job = j
                               /\ worker[w].token = row[j].token
                               /\ worker'[w] # worker[w]]_vars

\* A job is killed only when its attempts are used up or its owner's quota is:
\* no crash, shutdown or stale worker shortens its retry budget (failPublishJob).
KilledForCause ==
  [][\A j \in Jobs :
       row[j].status # "dead" /\ row'[j].status = "dead"
         => \/ row[j].attempts = MaxAttempts
            \/ \E w \in Workers : worker[w].job = j /\ worker[w].cause = "quota"]_vars

OutcomeOf(j) ==
  CASE image[j] = "processing" -> "processing"
    [] image[j] = "completed"  -> "published"
    [] image[j] = "deleted"    -> IF row[j].status = "dead" THEN "rejected" ELSE "removed"

Outcome == INSTANCE PublishOutcome WITH
  Images  <- Jobs,
  outcome <- [j \in Jobs |-> OutcomeOf(j)],
  stored  <- [j \in Jobs |-> "target" \in files[j]]

\* The workers keep the promise of PublishOutcome, whoever crashes or stalls where.
ImplementsOutcome == Outcome!Spec

\* Every job is settled in the end: expired workers are recovered, and rows at
\* their attempt limit are killed rather than left half-published.
Settles == \A j \in Jobs : <>Terminal(j)

\* The only thing that can keep a job from being settled is a heartbeat that a panic left
\* behind together with a release that failed: without one, whatever crashed, stalled or
\* panicked before, the job ends.
SettlesUnlessLeaked ==
  \A j \in Jobs : <>(Terminal(j) \/ <<j, row[j].token>> \in ghosts)

\* The public file and the staged source of an image that is gone are deleted in
\* the end, whichever worker crashed before the sweep.
Reclaimed == \A j \in Jobs : image[j] = "deleted" ~> files[j] \subseteq {"staging"}

=============================================================================
