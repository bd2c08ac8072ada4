------------------------------ MODULE Migrations ------------------------------
(***************************************************************************)
(* The bootstrap of the database at the start of a server process: under a *)
(* lock of MySQL that belongs to one connection, it checks the ledger of   *)
(* applied migrations, removes access tokens of the legacy form, creates   *)
(* the baseline tables, applies the migrations the ledger lacks and seeds  *)
(* the settings. Statements of DDL commit one by one, so that a process    *)
(* that dies leaves a migration half applied. Any error ends the process,  *)
(* and with it the connection and the lock.                                *)
(*                                                                         *)
(* Processes may run different releases: one release knows a prefix of the *)
(* plan of a newer one.                                                    *)
(***************************************************************************)
EXTENDS Integers, Sequences, SequencesExt

CONSTANTS
  Processes,
  Knows,        \* Knows[p]: how many migrations of the plan the release of p carries
  None,         \* nobody holds the lock
  MaxFaults     \* bound: processes that die, statements and locks that time out

VARIABLES
  objects,    \* tables, columns, indexes and seed rows of the plan that exist
  ledger,     \* versions recorded in schema_migrations
  tokens,     \* forms of the rows in image_access_tokens: "legacy", "current"
  settings,   \* settings.old: the legacy TTL setting exists; settings.ttl: whose value
              \* the TTL setting holds
  lock,       \* the process whose connection holds the advisory lock
  pc,         \* pc[p]: the next step of p
  at,         \* at[p]: the migration and the operation p is about to apply
  has,        \* has[p]: the legacy columns p has found
  faults      \* bound

schema == <<objects, ledger, tokens, settings>>

-----------------------------------------------------------------------------
(* The plan. An operation needs the tables and columns its statement names.*)

Operation(kind, name, needs) == [kind |-> kind, name |-> name, needs |-> needs]

Column(name, needs) == Operation("column", name, needs)
Index(name, needs)  == Operation("index", name, needs)
Table(name, needs)  == Operation("sql", name, needs)

ImageVariants  == Table("image_variants", {"images"})
UploadSessions == Table("upload_sessions", {"users", "images"})
UploadParts    == Table("upload_parts", {"upload_sessions"})
ProcessingJobs == Table("processing_jobs", {"images", "upload_sessions"})
OutboxEvents   == Table("outbox_events", {})

PipelineColumns ==
  [version |-> 2026071501, operations |->
    << Column("pipeline_version", {"images"}),
       Column("processing_status", {"images", "pipeline_version"}),
       Column("origin_alias", {"images", "processing_status"}),
       Index("idx_images_processing_status", {"images", "processing_status"}),
       Index("idx_images_origin_alias", {"images", "origin_alias"}) >>]

PipelineTables ==
  [version |-> 2026071502, operations |->
    << ImageVariants, UploadSessions, UploadParts, ProcessingJobs, OutboxEvents >>]

CapacityLock ==
  [version |-> 2026071601, operations |->
    << Table("v2_capacity_locks", {}),
       Table("v2_capacity_lock_seed", {"v2_capacity_locks"}) >>]

RetentionIndexes ==
  [version |-> 2026071602, operations |->
    << Index("idx_image_variants_storage_path", {"image_variants"}),
       Index("idx_image_files_original_path", {"image_files"}),
       Index("idx_image_files_thumbnail_path", {"image_files"}),
       Index("idx_image_files_processed_path", {"image_files"}),
       Index("idx_upload_sessions_user_status", {"upload_sessions"}),
       Index("idx_upload_sessions_retention", {"upload_sessions"}),
       Index("idx_processing_jobs_retention", {"processing_jobs"}),
       Index("idx_outbox_events_retention", {"outbox_events"}) >>]

RemoteLineage ==
  [version |-> 2026071603, operations |->
    << Column("remote_backend", {"image_files"}),
       Column("remote_endpoint", {"image_files", "remote_backend"}),
       Column("remote_bucket", {"image_files", "remote_endpoint"}),
       Index("idx_image_files_remote_backend", {"image_files", "remote_backend"}) >>]

Plan == << PipelineColumns, PipelineTables, CapacityLock, RetentionIndexes, RemoteLineage >>

ASSUME MigrationsAssumption ==
  /\ Knows \in [Processes -> 1..Len(Plan)]
  /\ None \notin Processes
  /\ MaxFaults \in Nat

\* The tables created from the models, in the order of their creation.
Baseline == << "users", "image_files", "images", "image_access_tokens", "system_config" >>

LegacyColumns == {"token_hash", "token_prefix"}

\* What each migration creates.
Creates == [i \in DOMAIN Plan |->
              {Plan[i].operations[o].name : o \in DOMAIN Plan[i].operations}]

\* The migrations of p's release, by their places in the plan.
Carried(p) == 1..Knows[p]

Versions(p) == {Plan[i].version : i \in Carried(p)}

\* validateSchemaMigrationPlan: versions increase, and nothing is defined twice.
ValidPlan ==
  \A i, j \in DOMAIN Plan : i < j =>
    Plan[i].version < Plan[j].version /\ Creates[i] \cap Creates[j] = {}

-----------------------------------------------------------------------------
(* A new database, and one a release before the ledger has left.           *)

MigrationsInit ==
  /\ \/ objects = {} /\ tokens = {} /\ settings = [old |-> FALSE, ttl |-> "none"]
     \/ /\ objects = ToSet(Baseline) \cup LegacyColumns
        /\ tokens = {"legacy"}
        /\ settings = [old |-> TRUE, ttl |-> "none"]
  /\ ledger = {}
  /\ lock = None
  /\ pc = [p \in Processes |-> "down"]
  /\ at = [p \in Processes |-> <<1, 1>>]
  /\ has = [p \in Processes |-> {}]
  /\ faults = 0

Goto(p, step) == pc' = [pc EXCEPT ![p] = step]

\* The end of a process closes its connections, and gives up the lock it holds.
Unlock(p) == lock' = IF lock = p THEN None ELSE lock

Dies(p) ==
  /\ Goto(p, "down")
  /\ Unlock(p)
  /\ at' = [at EXCEPT ![p] = <<1, 1>>]
  /\ has' = [has EXCEPT ![p] = {}]
  /\ UNCHANGED schema

Booting(p) == pc[p] \notin {"down", "up", "http", "soft", "hard", "closing"}

Boot(p) ==
  /\ pc[p] = "down"
  /\ ValidPlan
  /\ Goto(p, "lock")
  /\ UNCHANGED <<schema, lock, at, has, faults>>

\* Mutation: the lock is asked for, and the answer ignored.
FreeAlways == TRUE

Free == lock = None

GetLock(p) ==
  /\ pc[p] = "lock"
  /\ Free
  /\ lock' = p
  /\ Goto(p, "ledger")
  /\ UNCHANGED <<schema, at, has, faults>>

\* GET_LOCK has waited its 60 seconds.
LockTimesOut(p) ==
  /\ pc[p] = "lock" /\ lock # None
  /\ faults < MaxFaults /\ faults' = faults + 1
  /\ Dies(p)

\* validateAppliedSchemaMigrations and validateAppliedSchemaObjects. Releases carry
\* prefixes of one plan, so that a recorded checksum is that of its version.
LedgerAccepted(p) ==
  /\ ledger \subseteq Versions(p)
  /\ \A i, j \in Carried(p) :
       i < j /\ Plan[j].version \in ledger => Plan[i].version \in ledger
  /\ \A i \in Carried(p) : Plan[i].version \in ledger => Creates[i] \subseteq objects

InspectLedger(p) ==
  /\ pc[p] = "ledger"
  /\ LedgerAccepted(p)
  /\ Goto(p, "tokens")
  /\ UNCHANGED <<schema, lock, at, has, faults>>

\* migrateLegacyTokens: read the columns, delete the rows, drop the columns.
InspectTokens(p) ==
  /\ pc[p] = "tokens"
  /\ has' = [has EXCEPT ![p] = objects \cap LegacyColumns]
  /\ Goto(p, "purge")
  /\ UNCHANGED <<schema, lock, at, faults>>

Incompatible(p) == "token_hash" \in has[p]

PurgeTokens(p) ==
  /\ pc[p] = "purge"
  /\ tokens' = IF Incompatible(p) THEN {} ELSE tokens
  /\ Goto(p, "drop")
  /\ UNCHANGED <<objects, ledger, settings, lock, at, has, faults>>

DropColumns(p) ==
  /\ pc[p] = "drop"
  /\ objects' = objects \ has[p]
  /\ Goto(p, "baseline")
  /\ UNCHANGED <<ledger, tokens, settings, lock, at, has, faults>>

\* AutoMigrate creates the tables that are missing, one by one.
CreateTable(p) ==
  /\ pc[p] = "baseline"
  /\ \E i \in DOMAIN Baseline :
       /\ Baseline[i] \notin objects
       /\ \A j \in 1..(i - 1) : Baseline[j] \in objects
       /\ objects' = objects \cup {Baseline[i]}
  /\ UNCHANGED <<ledger, tokens, settings, lock, pc, at, has, faults>>

-----------------------------------------------------------------------------
(* applyPendingSchemaMigrations.                                           *)

Migration(p) == Plan[at[p][1]]
Current(p)   == Migration(p).operations[at[p][2]]

Pending(p)   == pc[p] = "apply" /\ at[p][1] <= Knows[p]
Unapplied(p) == Pending(p) /\ at[p][2] <= Len(Migration(p).operations)

NextOperation(p) == at' = [at EXCEPT ![p][2] = @ + 1]

\* The first migration the ledger lacks; one more than there are when it lacks none.
FirstPending(p, recorded) ==
  CHOOSE i \in 1..(Knows[p] + 1) :
    /\ i <= Knows[p] => Plan[i].version \notin recorded
    /\ \A j \in 1..(i - 1) : Plan[j].version \in recorded

NextMigration(p, recorded) == at' = [at EXCEPT ![p] = <<FirstPending(p, recorded), 1>>]

BaselineDone(p) ==
  /\ pc[p] = "baseline"
  /\ ToSet(Baseline) \subseteq objects
  /\ Goto(p, "apply")
  /\ NextMigration(p, ledger)
  /\ UNCHANGED <<schema, lock, has, faults>>

\* Mutation: whether the object is there is not asked first.
ExistsNever(operation) == FALSE

\* schemaMigrationOperationExists.
Exists(operation) == operation.kind # "sql" /\ operation.name \in objects

\* MySQL refuses a column or index that exists, and a statement that names what does not.
Executable(operation) ==
  /\ operation.needs \subseteq objects
  /\ operation.kind # "sql" => operation.name \notin objects

\* The statement, unless the object is there; CREATE TABLE IF NOT EXISTS and
\* INSERT IGNORE are repeated.
ApplyOperation(p) ==
  /\ Unapplied(p)
  /\ \/ Exists(Current(p)) /\ UNCHANGED objects
     \/ /\ ~ Exists(Current(p)) /\ Executable(Current(p))
        /\ objects' = objects \cup {Current(p).name}
  /\ NextOperation(p)
  /\ UNCHANGED <<ledger, tokens, settings, lock, pc, has, faults>>

Record(p) ==
  /\ Pending(p) /\ ~ Unapplied(p)
  /\ ledger' = ledger \cup {Migration(p).version}
  /\ NextMigration(p, ledger \cup {Migration(p).version})
  /\ UNCHANGED <<objects, tokens, settings, lock, pc, has, faults>>

PlanDone(p) ==
  /\ pc[p] = "apply" /\ at[p][1] > Knows[p]
  /\ Goto(p, "copy")
  /\ UNCHANGED <<schema, lock, at, has, faults>>

-----------------------------------------------------------------------------
(* seedDefaultConfigs. An insert that meets a row does nothing.            *)

Seeded(value) == IF settings.ttl = "none" THEN [settings EXCEPT !.ttl = value] ELSE settings

CopyLegacyTTL(p) ==
  /\ pc[p] = "copy"
  /\ settings' = IF settings.old THEN Seeded("legacy") ELSE settings
  /\ Goto(p, "seed")
  /\ UNCHANGED <<objects, ledger, tokens, lock, at, has, faults>>

SeedDefaults(p) ==
  /\ pc[p] = "seed"
  /\ settings' = Seeded("default")
  /\ Goto(p, "release")
  /\ UNCHANGED <<objects, ledger, tokens, lock, at, has, faults>>

\* RELEASE_LOCK, and the process goes on to serve.
ReleaseLock(p) ==
  /\ pc[p] = "release"
  /\ Unlock(p)
  /\ Goto(p, "up")
  /\ UNCHANGED <<schema, at, has, faults>>

\* The ledger is not this release's, or a statement fails.
Rejected(p) ==
  \/ pc[p] = "ledger" /\ ~ LedgerAccepted(p)
  \/ Unapplied(p) /\ ~ Exists(Current(p)) /\ ~ Executable(Current(p))

BootRefused(p) ==
  /\ Rejected(p)
  /\ Dies(p)
  /\ UNCHANGED faults

\* A step fails, the connection or the process is lost.
BootFails(p) ==
  /\ Booting(p)
  /\ faults < MaxFaults /\ faults' = faults + 1
  /\ Dies(p)

BootSteps(p) ==
  \/ InspectLedger(p) \/ BootRefused(p)
  \/ InspectTokens(p) \/ PurgeTokens(p) \/ DropColumns(p)
  \/ CreateTable(p) \/ BaselineDone(p)
  \/ ApplyOperation(p) \/ Record(p) \/ PlanDone(p)
  \/ CopyLegacyTTL(p) \/ SeedDefaults(p)
=============================================================================
