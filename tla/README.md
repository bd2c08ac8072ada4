# summeRain in TLA+

summeRain is an image hosting service: a Go backend over MySQL, Redis, a local file
system and optionally an R2 bucket, and a React frontend that processes images in the
browser. Its hard part is that one image lives in several places at once: rows that
change in transactions, files that do not, queues with leases, counters in Redis and
objects in a bucket. Requests and workers of several processes work on all of them, and
any of them may stall, crash or come back late. These modules model that part, translated
from the Go source; `src/...` paths below are relative to the repository.

## 1. The system

| Component (source under `backend/internal/`) | State it keeps | Operations | What makes it hard, and what makes it correct | Modules |
|---|---|---|---|---|
| **V2 upload service** `service/v2_upload_service.go` | `upload_sessions`, `upload_parts`, staging directories, files promoted into `v2/` | Init, PutPart, Complete, Cancel, status | files are created and renamed outside the transaction that records them; a status read before a stream is used after it. Received bytes stay; reservations fit the quota; ended sessions stay ended; every directory is reclaimed | `UploadSession` |
| **V2 publish worker** `service/v2_publish_worker.go`, `worker/v2_publish.go` | `processing_jobs` with lease and fencing token, image, variants, publish files | claim, heartbeat, execute, promote, commit, fail, release | stalls past the lease, panics, shutdowns, crashes between a file and its row. An image is billed and announced exactly when it is published; files neither vanish nor leak; attempts are charged for cause | `PublishJob`, `PublishOutcome` |
| **Outbox worker** `worker/outbox.go` | `outbox_events` with lease and token | claim a batch, deliver, mark, defer, fail, release, clean up a panic | one lease for a whole batch; delivery and mark are two steps. At least once, no claim orphaned, refunds only of what was charged | `Outbox` |
| **V2 cleanup worker** `worker/v2_cleanup.go` | sessions' `cleanup_after`, `staging_path` | claim, inspect, remove, finish; orphan scan | claims without an owner, statuses overwritten by the claim | `UploadSession` |
| **Content store and reconciler** `service/storage_gc.go`, `worker/storage_reconcile.go` | `image_files`, `image_variants`, `v2/**` | promote, reference, release, storage deletion, reconciliation | one file per hash, shared by images; each deletion must see every reference | `ContentStore` |
| **Image service, V1 upload** `service/image_service.go` | `image_files`, R2 objects, cleanup intents | upload, dedupe, persist, compensate | V1 statements take no storage lock; a remote write between two transactions; settings that change meanwhile. Every object has an owner, no row loses its objects | local store in `ContentStore`; `RemoteIntent` |
| **Image service, the rest** | images, access tokens, archive allowance | delete, visibility, issue / revoke / validate token, archive | token issued against a change of visibility or a deletion; archives started at the same time | deletion in `PublishJob`, `UploadSession`, `ContentStore` and `RemoteIntent`; archives in `Accounts`; planned: `AccessTokens` |
| **User deletion, administration** `worker/user_deletion.go`, `service/admin_service.go` | `users.status`, everything a user owns | suspend, request, cancel, phases of bounded batches | waits for sessions and jobs; races with cancellation, late insertions and shared files. Nothing is deleted before its time, nothing is left | `Accounts`; shared files in `ContentStore` |
| **Quota** (several services) | `users.storage_used`, `storage_quota`, reservations | reserve, bill, refund, change | V1 uploads do not look at V2 reservations | billing in `PublishJob`, reservations in `UploadSession`; planned: `QuotaLedger` |
| **Auth and sessions** `service/auth_service.go`, `repository/session_repo.go`, `middleware/`, `worker/heartbeat.go`, `worker/cleanup.go` | `sessions`, `csrf_tokens`, the bootstrap counter in Redis, cookies | login, refresh, logout, device login, bootstrap, revoke, heartbeat, cleanup | concurrent logins and revocations; CSRF answers out of order; INCR without EXPIRE; a foreign key inside one table | `Sessions` |
| **Lifecycle** `cmd/server/lifecycle.go`, `worker/worker.go`, `worker/view_flusher.go` | readiness gate, drain channel, worker contexts, `views:*` | drain, stop, restart, count, flush | order of the shutdown against work still running; a counter that is in nobody's store for a moment | `Server` |
| **Browser upload queue** `frontend/src/features/images/` | IndexedDB tasks with leases | persist, claim, renew, run, retry, recover | several tabs; a tab that sleeps past its lease | planned: `BrowserQueue` |
| **Migrations** `repository/schema_migrations.go`, `repository/migrate.go` | tables, ledger, seeds | check, migrate, record, seed | statements of DDL commit one by one; processes of several releases start and die | `Migrations`, composed by `Server` |
| **Watermark files** | active SVG, recovery file | swap, restore, recover | crash between two files of one process | not modelled |
| **Pure parts** `config/`, `v2_upload_types.go`, `webp_info.go` | none | geometry, manifest and batch-size rules | boundaries | planned: `Geometry` |
| **Edges** handlers, captcha, imgproxy, notifications, statistics, pages | single rows | parsing, formatting, HTTP | one request at a time | not modelled |

How they interact. `Complete` promotes the staged parts and, in one transaction under the
storage lock, creates image, variants and publish job: the session is `processing` from
then on and belongs to the publish worker. Its commit bills the user, ends the session
(as `cleanup_pending` when the staging directory could not be removed) and writes an event
to the outbox; a job that dies removes the image and leaves its files to a storage-delete
event. The outbox worker removes the files of such events, the cleanup worker removes
staging directories, the reconciler queues unreferenced files. Account deletion waits for
all of them, and then removes their rows while the last requests of the account still
insert. A V1 upload to R2 leaves a storage-delete event of its own until its row exists.
Every process migrates the schema before it serves, restarts workers that panic and drains
requests before workers at a shutdown.

## 2. Modules

### PublishOutcome and PublishJob

`PublishOutcome` is what the pipeline promises about an image: processed, then published
or rejected, once; billed while and only while it is published; its public file stored
from before its publication to after its removal, and never put back.

`PublishJob` is the worker. `row`, `image`, `variants`, `session`, `billed`, `doomed` and
`announced` are the rows, `files` the file system, `worker[w]` the local variables of a
goroutine with its program point. Actions follow `ProcessNextPublishJob`: `Claim` and
`ClaimExhausted`, then `Stat`, `Render`, `Promote`, `Inspect`, `Clean`, `Commit` of
`executePublishJob`, each of which may fail (`StepError`), be fenced out, lose its lease
(`LeaseLost`) or be interrupted (`Shutdown`, `Panic`, `PanicUnreleased`, `Crash`); then
`FailRetry` or `FailDead` with `Sweep`. `Extend` is the heartbeat, `GhostExtend` the
heartbeat that a panic leaves behind. `Stall` lets a lease expire under a running worker,
which then goes on with what it has in memory. `DeleteImage` and `StorageDelete` are what
the image service and the outbox do to the same rows and files. A job row remembers
whether a watermark snapshot was stored for it; the rendering of the image itself is one
step that fails or yields a file. Tokens are random in the code and numbers here, never reused.

The refinement maps `outcome` to the image and job status, `billed` to `billed` and
`stored` to the presence of the target: leases, attempts and retries are stuttering.

### Outbox

`row[e]` is an event, `worker[w]` the batch in memory: the claimed set, what is left of
it, the event being delivered and the result. `Claim` recovers expired rows and claims up
to `Batch` due ones under one token; `DeliverOk`/`DeliverFails` and `Mark`/`MarkLost`/
`MarkFails` are the two steps of each event; `Shutdown`, `Panic`, `PanicUnmarked`, `Crash`
and `Stall` interrupt between any two. The delivery itself (an HTTP call, file removals)
is a set `delivered` it takes effect in; a failed one is put off or charged, whatever the
event, since a storage deletion that is malformed is charged as well. `paid` counts, as history, the deliveries that
failed for good reason.

### UploadSession

The life of sessions of one user from `Init` to the last byte removed. `row[s]` is the
session with the status of its image, `part[s][k]` the parts, `dir`, `ready`, `temps`,
`stored` the file system, `aged` the directories whose modification time is more than a
session TTL ago. Requests in progress are state of their own: `opening` (Init between
directory and row), `put` (PutPart after its unlocked check, and while it streams),
`restoring` (a Complete that was rolled back and compensates in two more transactions),
`cancelling`, and `cleaner` (a cleanup worker). One action is one transaction or one file
operation; `UNCHANGED` is the rest.

Abstractions: one idempotency key per session (a second request for it is refused, as the
unique index does); a part is a name, its hash and size checks are among the reasons of
`PutDiscard`; every image costs one unit of quota; the parts promoted by `Complete` move
together; the publish worker is reduced to what it does to the session (`SweepStaging`,
`PublishCommit`, `PublishDies`), in any order `PublishJob` allows; files in the persistent
store belong to one session (`ContentStore` shares them). `MaxFaults` bounds crashes, failing transactions and failing
removals together. A failed removal leaves the whole directory.

`Completes` is the set of processes that complete uploads: a Complete holds the capacity gate
of its process (`v2_upload_service.go:595-599`) until it has undone what it has to, so that
each process undoes one at a time. `upload_session` has one process; section 4 says what a
second one changes.

### ContentStore

The files that images share. A V2 part is stored under the hash of its bytes; images of one
original, V1 or V2, share an `image_files` row. Constants say which paths an upload has
(`PathsOf`) and which of them the row names (`RowPaths`). `image`, `file`, `rows` and
`count` are rows; `stored` and `staged` the file system; `aged` the files old enough to be
orphans; `undo` what the request behind a rolled-back `Complete`, or a worker whose job
died, still has to do; `events` the storage deletions in the outbox; `page` the orphans
found and not queued yet; `stage` the progress of an upload. A row is identified with the
upload that created it.

Everything that removes a file takes the storage lock and looks at both tables first, so
one action is one transaction under that lock: `Complete`, `CompleteRolledBack` and the two
that follow it (`Relink`, `Unstore`), the three deletions (`DeleteImage`, `JobDies`, and the
two batches of a user's deletion), `Deliver`. A V1 upload does not take it: its statements
(`FindFile`, `CountReference`, `WriteFiles`, `CreateRow`, `CreateImage`, `Compensate`) are
actions that anything may come between, and the foreign key of `images` to `image_files` is
the guard of `CreateImage`. `FindOrphans` and `QueueOrphans` do not take it either.

Abstractions: a search is one page and one batch; a batch whose dedupe key was used today
is passed over (`PassOver`). `TimePasses` ages all files at once, except those that a
rolled-back `Complete` of a session still open has promoted: the minimum age is at least two
session lifetimes. The publish files of an image belong to it alone and are
in `PublishJob`, remote objects in `RemoteIntent`; the files of a V1 upload that crashes
stay, since the search visits `v2/` only.

### RemoteIntent

Objects in a bucket cannot change with a row, so a V1 upload to R2 goes through an intent.
`up[u]` is the request: `Begin` takes the client of its process, `Stage` commits a
storage-delete event leased to the request itself, `Put` stores the objects while the lease
is live, `Finalize` creates the `image_files` row and publishes the intent in one
transaction, `CreateImage` adds the image. Failures hand the intent over to the outbox
(`Activate`) or write a new event (`CreateImageFails`). `job[u]` is that event with its
lease, `row` and `lineage` the row with the target it records, `objects` the buckets.
`Claim`, `Check`, `Erase` and `Mark` are a delivery with the client that the delivering
process happens to have; `UpdateConfigs` and `Reload` are the administrator's two steps, the
second in one process only. `DeleteImage` removes V1 images, also those of before
`remote_backend`, whose target is `Unclassified` and stands in the way of a change of target (`History`).

A reload reads the settings one by one, without a transaction: `UpdateConfigs` may overtake
the reloads of any processes, which then make a client of some settings from before and some
from after it (`reading`, `Clients`), and a failing read leaves no client or a disabled one.
A reload that nothing overtakes is one step.

Abstractions: the objects of an image are one; a target is endpoint and bucket, whose mixture
may be any target, and public URLs are left out. A put that got no answer by its deadline, ten seconds before the end of
the lease, is taken not to happen after that end.

### Accounts

One account between its first suspension and the end of its row. `status` and `due` are the
user row, `rows` everything with a foreign key to it, as pairs of a kind and a number,
`busy` and `running` the upload sessions and jobs that are not in a final state, `files` and
`owed` the files and the storage-delete events that name them. `SetUserStatus`,
`RequestUserDeletion` with `KillSessions` as its second statement, and
`CancelUserDeletion` are the administrator's; `Arrive` and `Insert` a request that
authenticated before and inserts after; `ListUser`, `SkipUser`, `DeleteBatch`, `DeleteUser`
and `PassFails` the pass of a worker, whose batch decides afresh on the status and on what
is `Blocked`. `Delete` follows the foreign keys: cascades, restrictions and columns set to
null. `AskArchive`, `ReserveArchive`, `ArchiveWritten` and `ArchiveFails` are the archive
allowance, which a cancellation renews while downloads may be under way.

Abstractions: billing is left to `PublishJob`; how an upload goes on is one step each
(`Complete`, `Publish`, `EndUpload`), and a request that was authenticated (`Admitted`) may
go on with it until the lock period is over; files of one account (`ContentStore` shares them).

### Sessions

`sessions` and `tokens` are the tables in the order of their ids, which matters to the
statements that delete in that order. `req[r]` is a request at its next statement:
`LoginSession`, `LoginToken`, `LoginAnswer`; `LogoutTokens`, `LogoutSession`; `AskRefresh`,
`Refresh`, `RefreshAnswer`; `DeviceLogin`, `DeviceIdentity`, `DeriveSession`; `Bootstrap`
with `BootstrapCount` and `BootstrapWindow` (INCR and EXPIRE, once in the middleware and once
in the handler, on one key) around `BootstrapAuth`, then `BootstrapIdentity` and
`BootstrapExpire`; `Bearer`, `BearerExtend`; `RevokeDerived`, `RevokeIdentity`. `Lost` ends a
request between any two of them or loses its answer, `CountUnanswered` loses the answer of an
INCR, which the client of Redis may send again; `torn` remembers that a counter was left
without its EXPIRE in one of these ways. `jar` is what the browser has kept. `PluckStale` and `ExpireStale`
are the two steps of the heartbeat monitor, `CleanSessions` and `CleanTokens` the hourly
cleanup. Refusal by a foreign key (`Restricted`, `Referable`) is a guard.

Abstractions: one user, one browser, one platform, one address; tokens and nonces are
unique values; passwords and CAPTCHAs are right.

### Migrations and Server

`Migrations` is the bootstrap under the advisory lock: `Boot`, `GetLock` or `LockTimesOut`,
`InspectLedger`, `InspectTokens`, `PurgeTokens`, `DropColumns`, `CreateTable` for each
baseline table, `ApplyOperation` for each statement of the plan and `Record` for each
migration, `CopyLegacyTTL`, `SeedDefaults`, `ReleaseLock`. `Plan` is the plan of the code,
each operation with the tables and columns its statement needs, so that a wrong order is not
executable. `Knows[p]` says how many of the migrations the release of a process carries; a
release carries a prefix of the plan of a newer one, so that checksums agree. The database is
new or one of the time before the ledger, with access tokens in their legacy form. A check and the
statement that depends on it are one step, since the lock is held; the lock belongs to a
connection and is free when the process dies.

`Server` runs processes on that database: bootstrap, service, shutdown (`Stop`, `Drained` or
`DrainTimesOut`, `WorkersStop` or `SoftTimesOut` and `HardTimesOut`, `CloseSQL`), then again
from the start. `handling` is a request that counts a view, `worker` the view flusher
between GETDEL, UPDATE and the restore, under its supervisor (`Panic`, `Again`, `Return`).
Each command may be made and its answer lost: `TakeLost` for the GETDEL, `UpdateFails`,
`RestoreUnanswered`, and `ViewRepeated` for the INCR of a request. The client of Redis
(go-redis, three retries unless configured otherwise) sends a command again when its answer
does not come, so an increment can be made twice and a second GETDEL finds nothing; `spoiled`
remembers what the sum of the views cannot account for after that.
`failed` is that the shutdown will report an error.

Abstractions: the views of one image; a request counts and answers in one step; `Write` is
two requests in one, because no step of a bootstrap can tell them apart; a listener that
fails takes the path of a signal; the length of the restart backoff is left out; closing the
pools takes no time of its own, but Redis is closed before MySQL.

## 3. Runs

| Run | Instance | What it shows |
|---|---|---|
| `publish_core` | 1 job, 2 workers, 2 attempts, 3 faults, 1 shutdown, 1 failed release, fair | one image with its leases, attempts, files and bill; the refinement of `PublishOutcome`; every job is settled unless a panic leaked its heartbeat, and files of dead or deleted images are reclaimed |
| `outbox` | 2 events, whose deliveries succeed, are put off or are charged, 2 workers, batch of 2, 2 attempts, 1 fault, 2 failures, 1 shutdown, fair | the delivery guarantees, and that every event is settled |
| `upload_session` | 1 session, 2 parts, 2 part requests, 1 completion that rolls back, 2 cleanup workers, 1 fault, fair | received bytes, ended sessions, image files, reclaimed directories |
| `upload_capacity` | 2 sessions, room for one, 1 fault | reservations and images never exceed limit and quota |
| `upload_stuck_cleanup` | 1 session, 1 fault, fair | violated: finding 2 |
| `content_store` | 2 V2 uploads and 1 V1 upload of one original, 1 fault, fair | no row names a missing file; rows go with their last image; unreferenced V2 files are reclaimed |
| `content_lost_part` | the same, 1 fault | violated: finding 1 |
| `accounts` | 1 upload, 1 deletion worker, batches of 1, 2 batches a pass, 2 archives with an allowance of 1, 2 deletion requests, 2 insertions, 1 fault, fair | nothing is deleted before its time, everything in the end; the allowance holds |
| `sessions` | 3 concurrent requests, 3 rows, 3 tokens, 1 device, 2 retained tokens, a limit of 3, 1 fault | what was ended stays ended, a usable CSRF token, a rate limit that ends unless its EXPIRE was lost |
| `sessions_expired_rows` | 1 request at a time, 2 rows, fair | violated: finding 3 |
| `remote` | 2 processes, an upload and a legacy image, 2 targets, 1 change of settings, 1 fault, fair | every object has an owner, no row loses its objects, settings keep what is needed, deletions are delivered |
| `server` | a process of the newest release and one of the release before, 1 fault, 2 views, 1 signal, fair | the schema a process serves on, what a start may not take, views conserved but for the named losses and repeats, clean shutdowns, and that the newest release starts |

Why the bounds are enough. Two workers (requests, cleanup workers, processes) are what every
race here takes: one that is late and one that took over; a third only repeats the second,
and symmetric identities change nothing. Two attempts give a first, a last and an exhausted
one. Faults are bounded so that one can hit at each step and, in `publish_core`, a second
and a third the recovery from the first. A claim of a publish job also resets rows of other
jobs; that the leases and attempts of those are respected is proved for any number of jobs
(`LeasesAreRespected`, `NoEarlyDeath`) and no longer run with two. A batch of two has an event
before and an event after the interruption. One persistent part and the source are the two
fates a part has. With one place and one image of quota a second session is over the limit
as soon as it is admitted wrongly. Of two V2 uploads of the same bytes one needs the file
that the other releases, the V1 upload adds the steps that take no lock, and one shared path
is enough because every check is made path by path; a third image would refer to the same
row as the second.

In `accounts` a batch of one row is the finest interleaving of batches with requests; the
second deletion request is the one that a worker with an outdated list can confuse with the
first; batches of several deletion workers take the row of the user first, so that a second
worker is a second list, which `SkipUser` and the outdated list of the one worker already
give. In `sessions` three requests are a refresh that overtakes two others, or a revocation
between the two halves of a bootstrap; three rows are an identity, a session derived from it
and one of a browser. In `remote` one change of settings makes one process outdated, which is
all a client can be. In `server` one of five migrations is unknown to the older release, so
that it refuses a database that the newer one has migrated; two views are one that is taken
and one that is counted meanwhile.

Deadlock is not checked: once all jobs, events and sessions have ended, or requests and
signals are used up, the systems modelled have nothing left to do.

Fairness. The publish and outbox workers poll for ever and their supervisor restarts them
after a panic, so their steps are weakly fair, and so are heartbeats (a ticker), expiring leases
and elapsing delays (time passes). In `UploadSession` a request that runs goes on (weak
fairness of its next step), a client owes nothing, and no fault ever has to happen.
`CleanClaim` and `OrphanFind` of a given session are strongly fair: a worker is busy with
other sessions now and then, but it runs every five minutes, takes the sessions with the
oldest `updated_at` first, and its directory scanner goes round. In `ContentStore` requests
finish or die, sessions expire (`Abandon`), files age and the outbox delivers: weak
fairness. `QueueOrphans` is strongly fair because the dedupe key that lets a batch be
passed over holds the date.

In `Accounts` the deletion worker keeps polling, jobs settle and uploads end, which the
liveness properties of `PublishJob` and `UploadSession` say; nobody else owes a step. In
`Sessions`, which is checked for safety without fairness, the violated run lets sessions run
out and the cleanup run every hour. In `RemoteIntent` leases run out and a delivery that was
claimed goes on; the claim of an event by a given process is strongly fair, since every
process polls and backs off alike; a reload that was overtaken ends (weak fairness), as the
reads of a start or of an administrator's request do. Requests, other reloads and restarts owe
nothing, and `Reclaimed`
assumes that some process keeps a client for the target. In `Server` a process that ended is
started again, and takes its own steps and those of its shutdown by the time limits; the lock
is granted to a process that waits for it if it is free again and again, because waiters of
`GET_LOCK` are served; no request, flush or signal has to happen.

Each property was tried against a plausible mistake in the code it is about (the
definitions marked `Mutation:` beside the ones they replace, such as a fence that compares
the status and not the token) and fails under it.

## 4. Findings

1. `content_lost_part`: `Complete` promotes a part that is stored already by dropping the
   staged copy. When it is rolled back, the storage lock is released before
   `restorePromotedV2Parts` links the part back in a second transaction; a storage deletion
   of another image with the same bytes in between removes the only copy. The comment at
   `v2_upload_service.go:879-880` says that the retryable copy is preserved. Alone, with
   one completion that rolls back and no other image, a session keeps its parts
   (`ReceivedIsStaged` in `upload_session`).
2. `upload_stuck_cleanup`: a `Cancel` whose `RemoveAll` fails writes `cleanup_pending` without a
   condition. When the cleanup worker has finished the session in between, its
   `staging_path` is empty, nobody lists it again, and account deletion, which
   `docs/releases/v2.0.0.md:249-250` says waits for terminal states, waits for ever.
3. `sessions_expired_rows`: the hourly cleanup deletes expired sessions in the order of their
   ids (`worker/cleanup.go:106`). An identity comes before the sessions derived from it, and
   their foreign key refuses its deletion: the statement fails as a whole, every hour, and no
   expired session in or after that batch is removed, which `docs/USAGE.md:297` says they
   are. `ChangePassword` (`user_service.go:88`) deletes by user and meets the same key.

Not stated as runs, but visible in the models:

- The capacity gate keeps two Completes apart in one process only, and
  `docs/releases/v2.0.4.md:129` supports a rolling upgrade. One Complete is rolled back and
  links the part back; a second one, in the other process, finds the target stored, drops the
  staged copy and is rolled back too; the first goes on to `cleanupUnreferencedV2Files`
  (`v2_upload_service.go:856`) and removes the target: the part is `received` and its bytes are
  gone, against the same comment as in finding 1, and without another image. The attempt to prove
  `ReceivedIsStaged` for any number of processes brought this up: it is proved for one, and with
  `Completes = {q1, q2}` and `MaxFaults = 2` TLC finds it violated.
- A panic unwinds past the `cancel()` of the lease heartbeat
  (`v2_publish_worker.go:259-277`). If the release after the panic fails too, the heartbeat
  extends the lease of a job nobody works on for as long as the process lives, although the
  comment at lines 71-72 and `docs/releases/v2.0.4.md:73-74` promise that such a job reaches
  its attempt limit. `SettlesUnlessLeaked` holds with exactly this exception.
- A V1 upload that reuses a file adds to `reference_count` before its image exists, and a
  deletion in between sets the count to the images it sees. `image_service.go:311-314` says
  the count is kept in sync and `docs/USAGE.md:386-387` that it controls the life of the
  file. Deletions count images, which is why `NoDangling` and `RowsAreUsed` hold.
- A published session left in `cleanup_pending` ends `cancelled` when its image is deleted
  before the cleanup looks (`v2_cleanup.go:236-252`), because its publication left no
  timestamp.
- The rate limit of bootstraps is counted twice on one key, by the middleware
  (`ratelimit.go:68`) and by `CheckBootstrapRateLimit` (`auth_service.go:580`): of the 10 a
  minute that `docs/USAGE.md:447` grants, 5 succeed.
- The intent of a remote upload checks that the target is still the configured one, but not
  that its keys are: an upload that began before the keys were cleared can leave an object
  that nobody has the keys for, against the message at `admin_service.go:271`.
  `SettingsServe` names this exception.
- View counts are not exact, and `ViewsConserved` names the exceptions. Lost are the views
  that a flusher holds when its process dies or it panics; those of a GETDEL that was made
  without its answer arriving (a timeout, the cancelled context of the worker, or a retry that
  finds nothing), which the flusher logs and leaves (`view_flusher.go:49-53`); and those it
  cannot restore, as when it outlives the shutdown, which closes Redis before MySQL. Counted
  twice are an UPDATE that was made but reported as failed, and an INCR or INCRBY that was
  made and sent again because its answer did not come.
- A rate limit may never end: if the request that made the counter is lost before its EXPIRE,
  if that EXPIRE fails (its error is not looked at, `session_repo.go:227`, `ratelimit.go:54` and
  `:77`), or if the INCR was sent again and answers 2, so that nobody sets a time to live. The
  counter stays, and once it has passed the limit the address is refused for good.
  `WindowCloses` says that there is no other way.

## 5. Proofs

Every invariant and every action property of the passing runs is a theorem: it holds for
every number of jobs, events, sessions, workers, requests and processes, every number of
faults and every limit, under the assumption of its module and no other, with one exception
that is named (`ReceivedPartsAreStaged`). The assumptions say that limits are numbers (some of them
positive), that the values standing for *nobody* or *nothing* are not members of the sets they
are used beside, and that the sets that are counted or summed over (sessions and parts in
`UploadSession`, processes in `Server`) are finite.

None of the properties is inductive alone. Each proof module defines an inductive invariant
(`IInv`, unless said otherwise), proves that Init implies it and that every step preserves it,
with one step or lemma per action, and derives the properties from it. Updates of records and
of tables are lemmas of their own, since most actions share them.

| Module | Theorems, and the property each states |
|---|---|
| `PublishJobProofs` | `BilledExactlyOnce` (`AccountedOnce`), `ContentIsSafe` (`ContentSurvives`), `NothingLeaks` (`NoLeak`), `ShutdownsCostNothing` (`ShutdownsAreFree`), `StaleWorkersAreHarmless` (`NoResurrection`), `NoEarlyDeath` (`KilledForCause`), `LeasesAreRespected` (`LeaseRespected`), `PublishRefinesOutcome` (`ImplementsOutcome`: `PublishJob` implements `PublishOutcome`); `TypeCorrect`, `Agreement`, `InductiveInvariant`, `FencedInvariant`, `BudgetInvariant` |
| `OutboxProofs` | `NothingPublishedUndelivered` (`PublishedWasDelivered`), `AttemptsAccounted` (`AttemptsArePaid`), `NoClaimOrphaned` (`NoOrphanedClaims`), `SettledIsFinal` (`SettledForGood`), `LiveClaimsRespected` (`ClaimRespected`); `InductiveInvariant` |
| `UploadSessionProofs` | `ReceivedPartsAreStaged` (`ReceivedIsStaged`, with one process), `CountsAreRight` (its second half, with any number), `ImagesHaveFiles` (`ImageHasFiles`), `PublishedSessionsStay` (`PublishedStays`), `CapacityIsRespected` (`CapacityRespected`), `SessionsEndForGood` (`EndedForGood`); `InductiveInvariant` |
| `ContentStoreProofs` | `ReferencesAreSafe` (`NoDangling`), `RowsAgree` (`RowsAreUsed`), `ContentTypeCorrect` (`TypeOK`) |
| `RemoteIntentProofs` | `NoObjectForgotten` (`NothingForgotten`), `ObjectsOutliveRows` (`RowsKeepTheirObjects`), `SettingsAlwaysServe` (`SettingsServe`); `InductiveInvariant` |
| `AccountsProofs` | `NothingIsLeft` (`GoneLeavesNothing`), `ArchivesAreRationed` (`ArchivesRationed`), `CancelledKeepsAll` (`CancelledLosesNothing`), `TypeCorrect` (`TypeOK`); `InductiveInvariant` |
| `SessionsProofs` | `EndedStaysOut` (`EndedIsOut`), `CookiesWork` (`CookieWorks`), `WindowsClose` (`WindowCloses`), `TypeCorrect` (`TypeOK`); `InductiveInvariant` |
| `ServerProofs` | `ViewsAreConserved` (`ViewsConserved`), `ShutdownsAreClean` (`CleanShutdown`), `UpgradesStaySafe` (`UpgradesAreSafe`); `BootInvariant`, `ServerInvariant` |

**PublishJob.** `IInv` (in `PublishJobInv`) adds, per job, what the image row implies about
variants, bill, files and job row, and, per worker, what it has established on disk before
it goes on *even if it has lost its lease*: a worker about to commit has seen the target, and
the target can only have gone if the job is settled. That last clause is what makes the
unfenced removal of the source harmless. Leases and attempts need more: tokens are unique
and fresh (`TokensFresh`), and the holder of a row remembers its attempts (`HolderCounts`);
together they form `FencedInv`. `BudgetInv` says what pays for an attempt: a fault, a lost release, or
the worker that holds the row under a live lease and executes it; a job that is settled may have used one more. Under the refinement every action is a step of `PublishOutcome` or a stutter.

**Outbox.** Tokens are fresh, the rows of one claim have one lease, and a worker holds all that is
left of its batch or nothing at all (`BatchStands` in `Fenced`). A claim that nobody can end in
good order any more, or that failed, is paid for already (`ClaimsArePaid`), so that the others
can hand back their attempt. An event settled under one token cannot be touched under another.

**UploadSession.** A session only goes forward (lemma `RowStep`), so whatever is pending for it
constrains its status for good: a directory remover works for a session that accepts no parts,
a cleaner knows of the image when it is about to write the end of the session, and a Complete
that is about to remove files of the store has linked them back to staging. `used` is the number of visible images, and only Init adds a
reservation, so capacity is respected although sessions expire without a row changing. That
received bytes are there while a Complete is undone needs `OneProcess`: no two Completes in
different processes undo at once. The code's capacity gate gives that in one process; with two,
section 4 has the counterexample.

**ContentStore.** A removal checks the references when it removes, so a file that a row names is
safe by itself. What needs an argument is a file that a row is *about to* name. V2 completions
promote and refer in one transaction under the lock. A V1 upload writes its files first and
creates the row later: they survive because their names are new, which `NamedAfterRow`
states as an invariant of everything queued, undone or found (no path of a V1 upload is in
it before that upload has had a row), and `WrittenIsStored` uses. `StagesAgree` ties image and
row to the progress of the upload, so that an image being deleted has a row to count the
images of. `ContentAssumption` says that the files of a V1 upload are named as no other's,
which the code gets from a name of its own for each upload.

**RemoteIntent.** The row and the event of an upload exclude each other (`Safe`): while the request
holds its intent no worker has seen it, and while there is a row there is no event to deliver
and nobody delivering one. A delivery that comes late finds what it has to delete gone already,
since nothing is put for an upload once its intent has been claimed. The target cannot change
while a row or an event names it (`Served`), so every one in use is the configured one. As long
as there is an unclassified image no process has another target than the first, nor will the
reload it is in the middle of give it one (`Settled`).

**Accounts.** A file is named by its row or by an event. Rows go in batches of one phase, and what
a foreign key deletes with them belongs to a phase that came before (lemma `BatchStep`), so a
batch never deletes a row whose file nobody has queued. Jobs are found through the image or the upload they
belong to, also after either has gone. The counter of archives covers what was granted since
the latest reset (`CountCovers`); that what was granted is finite is part of the invariant and not assumed.

**Sessions.** Ids of rows and tokens are never used again and a row that has gone stays gone
(`SessionsGrow`, `TokensGrow`), so that what a request has read stays true whatever happens
before its next statement (`RequestSafe`). At most one request owes the rate limit its time to
live, and it is the one that made the counter (`WindowKept`); a counter that has none and
that nobody owes one was `torn`, and stays so. A token that was replaced has as many newer ones as a
session keeps (`TokenSafe`), whichever refresh comes next, so the order of answers is no matter.

**Migrations and Server.** `BootInv`: the advisory lock has one holder, and where a process is in its
bootstrap says what tables, tokens and ledger entries there are; it rests on facts about the
real `Plan` (versions differ, no operation needs what is not there yet). `ServerInv` adds, per process,
what a phase of the shutdown has waited for, and the sum of views: those in MySQL, in Redis and
in the hands of all flushers are those counted, unless `spoiled`, which every step that loses
or repeats some sets. Sums over any finite set
of processes need the value of `FoldSet` on a set with one changed element, which lemma `SumRule`
gets by taking a smallest number of processes for which it could fail (`LeastNumber`, from the
well-foundedness of the naturals) instead of by induction, whose rules take an operator.

Only model-checked: liveness, that is `SettlesUnlessLeaked` and `Reclaimed` of `PublishJob`,
`Delivers`, `Tidied`, `OrphansReclaimed`, `DeletionEnds`, `Reclaimed` of `RemoteIntent` and
`StartupRecovers`, since the proof system does not handle fairness and ENABLED here. The
properties of the violated runs (`Ends`, `RetryKeepsParts`, `ExpiredAreRemoved`) are false
of the code.

## 6. Plan

Theorems that would say more, all about modules as they stand:

1. A statement of what `UploadSession` promises a client (received, then processed or ended,
   once) as an abstract module, and the refinement as a theorem, as for `PublishJob`.
2. The same for a queue with leases that `Outbox` and the jobs of `PublishJob` both implement.

Modules that would extend the model:

1. `AccessTokens`: tokens against visibility and deletion.
2. `BrowserQueue`: two tabs and a server session; refines the client's view of
   `UploadSession`.
3. `QuotaLedger`: changes of a quota and V1 uploads against reservations.
4. `Geometry`: `fitWithin`, `validateV2PartGeometry`, `effectiveOutboxBatchSize` against
   reference definitions over small inputs.

## 7. Not modelled

The recovery of watermark files is a sequence of file operations of one process under a file
lock; what the publish worker reads of it is a choice of `PublishJob`. Handlers, imgproxy,
captcha, notifications, statistics and client errors handle one request at a time and keep
at most single rows. The pages and the image processing of the browser have no shared state.
The configuration and the inspection of WebP files are functions of their input.

Outside the models: image encoding and decoding, HTTP, SQL isolation (a transaction is
one step; the code takes row locks where that matters), the contents of messages, and the
security of tokens and hashes, which are unique values here.
