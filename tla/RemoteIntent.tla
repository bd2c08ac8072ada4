---------------------------- MODULE RemoteIntent ----------------------------
(***************************************************************************)
(* V1 uploads to a remote store (R2), and the settings that say where it   *)
(* is. Objects and rows cannot change together, so an upload first commits *)
(* an intent, a storage deletion event leased to itself; then it puts its  *)
(* objects; then one transaction creates the image_files row and publishes *)
(* the intent. Whatever happens in between, the outbox deletes the objects *)
(* of an intent that was given up or whose lease ran out.                  *)
(*                                                                         *)
(* The settings are rows; each process keeps a client made from them, and  *)
(* only the one that changes them makes a new one. It reads row by row     *)
(* while another process may change them; who needs its client waits. An   *)
(* upload keeps the client it began with. Transactions that matter to the  *)
(* target take the storage lock: each is one action.                       *)
(*                                                                         *)
(* The claims and attempts of the outbox are module Outbox's, the files    *)
(* that images share module ContentStore's. A put that is not answered     *)
(* before its deadline is assumed not to take effect after its lease.      *)
(***************************************************************************)
EXTENDS Integers, FiniteSets

CONSTANTS
  Processes,    \* server processes, each with an outbox worker
  Uploads,      \* uploads that found R2 enabled, and legacy images
  Legacy,       \* images whose row has no remote_backend and no local original
  Targets,      \* endpoint and bucket, as one value
  First,        \* the target at the beginning
  MaxUpdates,   \* bound: changes of the settings
  MaxFaults     \* bound: crashes, stalls and failing transactions or calls

ASSUME RemoteAssumption ==
  /\ Legacy \subseteq Uploads /\ "none" \notin Uploads
  /\ Processes \cap {"none", "request"} = {}
  /\ First \in Targets /\ Targets \cap {"none", "unclassified"} = {}
  /\ MaxUpdates \in Nat /\ MaxFaults \in Nat

VARIABLES
  config,    \* r2_enabled, r2_endpoint and r2_bucket, and whether both keys are set
  client,    \* client[p]: the R2Service of p
  reading,   \* reading[p]: the settings there were since p began a reload that they overtook
  up,        \* up[u]: the request
  row,       \* row[u]: the image_files row, and whether an image refers to it
  lineage,   \* lineage[u]: remote_endpoint and remote_bucket of the row
  job,       \* job[u]: the storage deletion event of u that is not published, if any
  objects,   \* what is in the remote stores
  work,      \* work[p]: the delivery in progress
  overtaken, \* uploads staged when the keys of their client were cleared already (history)
  updates, faults   \* bounds

bounds == <<updates, faults>>
vars   == <<config, client, reading, up, row, lineage, job, objects, work, overtaken, bounds>>

Config == [enabled : BOOLEAN, at : Targets, keys : BOOLEAN]

Unclassified == "unclassified"
NoTarget     == "none"

\* The original and the derived images of an upload, which share its fate.
Object(u, t) == [of |-> u, at |-> t]

\* Lease holders are processes, or the request itself.
Published           == [status |-> "published", holder |-> "none", lease |-> "none", at |-> NoTarget]
Pending(t)          == [status |-> "pending", holder |-> "none", lease |-> "none", at |-> t]
Publishing(t, h)    == [status |-> "publishing", holder |-> h, lease |-> "live", at |-> t]

Off == [configured |-> FALSE, enabled |-> FALSE, at |-> NoTarget]

\* Endpoint and bucket are read one after the other: of two targets they may make a third.
TargetsOf(S) == IF \A c, d \in S : c.at = d.at THEN {c.at : c \in S} ELSE Targets

\* The clients R2Service.reload can make of settings it has read while they were those
\* of S: none without keys.
Clients(S) ==
  {Off : c \in {d \in S : ~d.keys}} \cup
  {x \in [configured : {TRUE}, enabled : {c.enabled : c \in S}, at : TargetsOf(S)] :
     \E c \in S : c.keys}

Done    == [pc |-> "done", by |-> "none", at |-> NoTarget]
Resting == [pc |-> "idle", of |-> "none", at |-> NoTarget]

Init ==
  /\ config  = [enabled |-> TRUE, at |-> First, keys |-> TRUE]
  /\ client  = [p \in Processes |-> [configured |-> TRUE, enabled |-> TRUE, at |-> First]]
  /\ reading = [p \in Processes |-> {}]
  /\ up      = [u \in Uploads |-> IF u \in Legacy THEN Done ELSE [Done EXCEPT !.pc = "idle"]]
  /\ row     = [u \in Uploads |-> IF u \in Legacy THEN "image" ELSE "none"]
  /\ lineage = [u \in Uploads |-> IF u \in Legacy THEN Unclassified ELSE NoTarget]
  /\ job     = [u \in Uploads |-> Published]
  /\ objects = {Object(u, First) : u \in Legacy}
  /\ work    = [p \in Processes |-> Resting]
  /\ overtaken = {}
  /\ updates = 0 /\ faults = 0

-----------------------------------------------------------------------------

Fault == faults < MaxFaults /\ faults' = faults + 1 /\ UNCHANGED updates

Unpublished(u) == job[u].status # "published"

Goto(u, pc) == up' = [up EXCEPT ![u].pc = pc]

Finish(u) == up' = [up EXCEPT ![u] = Done]

At(u, pc) == up[u].pc = pc

-----------------------------------------------------------------------------
(* Uploads.                                                                *)

\* No row has the hash of its bytes, and the client of the process is enabled: it is kept.
Begin(p, u) ==
  /\ At(u, "idle")
  /\ client[p].enabled
  /\ up' = [up EXCEPT ![u] = [pc |-> "stage", by |-> p, at |-> client[p].at]]
  /\ UNCHANGED <<config, overtaken, client, reading, row, lineage, job, objects, work, bounds>>

\* r2UploadTargetMatchesTx
Matches(t) == config.enabled /\ config.at = t

\* stageR2UploadCleanupIntent
Stage(u) ==
  /\ At(u, "stage")
  /\ IF Matches(up[u].at)
     THEN job' = [job EXCEPT ![u] = Publishing(up[u].at, "request")] /\ Goto(u, "put")
     ELSE Finish(u) /\ UNCHANGED job
  /\ overtaken' = IF config.keys THEN overtaken ELSE overtaken \cup {u}
  /\ UNCHANGED <<config, client, reading, row, lineage, objects, work, bounds>>

\* Mutation: the fence compares the status only.
HoldsByStatus(u) == job[u].status = "publishing"

\* The fence of the request: its lease token.
Holds(u) == job[u].status = "publishing" /\ job[u].holder = "request"

\* Mutation: puts go on after the lease.
TimelyNever(u) == TRUE

\* The deadline of the puts lies before the end of the lease.
Timely(u) == Holds(u) /\ job[u].lease = "live"

Put(u) ==
  /\ At(u, "put") /\ Timely(u)
  /\ objects' = objects \cup {Object(u, up[u].at)}
  /\ Goto(u, "finalize")
  /\ UNCHANGED <<config, overtaken, client, reading, row, lineage, job, work, bounds>>

\* An error or the deadline. What was sent may have arrived.
PutFails(u) ==
  /\ At(u, "put")
  /\ IF Timely(u) THEN Fault /\ objects' \in {objects, objects \cup {Object(u, up[u].at)}}
     ELSE UNCHANGED <<objects, bounds>>
  /\ Goto(u, "activate")
  /\ UNCHANGED <<config, overtaken, client, reading, row, lineage, job, work>>

Handed(u) == job' = [job EXCEPT ![u] = Pending(job[u].at)]

Owns(u) ==
  /\ row' = [row EXCEPT ![u] = "row"]
  /\ lineage' = [lineage EXCEPT ![u] = up[u].at]
  /\ job' = [job EXCEPT ![u] = Published]

Accepted(u) == Holds(u) /\ Matches(up[u].at) /\ job[u].lease = "live"

\* finalizeR2UploadedImageFile: the row and the end of the intent, or the intent is handed
\* to the outbox in the same transaction; so it is when the row cannot be created, because
\* another upload of the same bytes was faster.
Finalize(u) ==
  /\ At(u, "finalize")
  /\ \/ Accepted(u) /\ Owns(u) /\ Goto(u, "image") /\ UNCHANGED bounds
     \/ /\ IF Accepted(u) THEN Fault ELSE UNCHANGED bounds
        /\ IF Holds(u) THEN Handed(u) ELSE UNCHANGED job
        /\ Goto(u, "activate") /\ UNCHANGED <<row, lineage>>
  /\ UNCHANGED <<config, overtaken, client, reading, objects, work>>

\* The transaction is rolled back, or only its answer is lost.
FinalizeFails(u) ==
  /\ At(u, "finalize")
  /\ Fault
  /\ \/ Accepted(u) /\ Owns(u)
     \/ UNCHANGED <<row, lineage, job>>
  /\ Goto(u, "activate")
  /\ UNCHANGED <<config, overtaken, client, reading, objects, work>>

\* activateR2UploadCleanupIntent: an intent that is somebody else's by now is left alone.
Activate(u) ==
  /\ At(u, "activate")
  /\ \/ /\ IF Holds(u) THEN Handed(u) ELSE UNCHANGED job
        /\ UNCHANGED bounds
     \/ Fault /\ UNCHANGED job
  /\ Finish(u)
  /\ UNCHANGED <<config, overtaken, client, reading, row, lineage, objects, work>>

CreateImage(u) ==
  /\ At(u, "image")
  /\ row' = [row EXCEPT ![u] = "image"]
  /\ Finish(u)
  /\ UNCHANGED <<config, overtaken, client, reading, lineage, job, objects, work, bounds>>

\* The row goes with an event that names its objects.
Disown(u, t) ==
  /\ row' = [row EXCEPT ![u] = "none"]
  /\ lineage' = [lineage EXCEPT ![u] = NoTarget]
  /\ job' = [job EXCEPT ![u] = Pending(t)]

\* compensateFailedImageCreate
CreateImageFails(u) ==
  /\ At(u, "image")
  /\ Fault
  /\ Disown(u, lineage[u]) \/ UNCHANGED <<row, lineage, job>>
  /\ Finish(u)
  /\ UNCHANGED <<config, overtaken, client, reading, objects, work>>

\* ResolveV1StorageTarget: an unclassified image without a local original is where the
\* client of this process points to.
Resolved(p, u) == IF lineage[u] = Unclassified THEN client[p].at ELSE lineage[u]

\* deleteImage; it fails if the target is not known.
DeleteImage(p, u) ==
  /\ row[u] = "image"
  /\ Resolved(p, u) # NoTarget
  /\ Disown(u, Resolved(p, u))
  /\ UNCHANGED <<config, overtaken, client, reading, up, objects, work, bounds>>

-----------------------------------------------------------------------------
(* Settings.                                                               *)

Lineages == {lineage[u] : u \in {v \in Uploads : row[v] # "none"}} \ {Unclassified}

History == {u \in Uploads : row[u] = "image" /\ lineage[u] = Unclassified}

\* Mutation: an intent under way is not a pending deletion.
DeletionsQueued == {u \in Uploads : job[u].status = "pending"}

PendingDeletes == {u \in Uploads : Unpublished(u)}

\* validateR2ConfigUpdate
Allowed(c) ==
  /\ Lineages # {} \/ History # {} \/ PendingDeletes # {} => ~(config.keys /\ ~c.keys)
  /\ c.at # config.at => PendingDeletes = {} /\ History = {} /\ Lineages \subseteq {c.at}

Reading(p) == reading[p] # {}

\* Processes that reload now, R, have read some of the settings before the change and will
\* read the others after it: their clients are dropped, and who needs one waits.
UpdateConfigs(p) ==
  /\ updates < MaxUpdates /\ updates' = updates + 1
  /\ \E c \in Config : c # config /\ Allowed(c) /\ config' = c
  /\ \E R \in SUBSET Processes :
       LET late == {q \in Processes : q \in R \/ Reading(q)}
       IN /\ client' = [q \in Processes |-> IF q \in late THEN Off ELSE client[q]]
          /\ reading' = [q \in Processes |->
               IF q \in late THEN reading[q] \cup {config, config'} ELSE {}]
  /\ UNCHANGED <<overtaken, up, row, lineage, job, objects, work, faults>>

\* After an update, or when an administrator asks for it. A reload that no change
\* overtakes reads what there is, and is one step. A failing read means no client, or a
\* disabled one.
Reload(p) ==
  LET seen == IF Reading(p) THEN reading[p] ELSE {config}
  IN /\ \/ /\ \E c \in Clients(seen) : client' = [client EXCEPT ![p] = c]
           /\ UNCHANGED bounds
        \/ /\ \E c \in Clients(seen) \cup {Off} : client' = [client EXCEPT ![p] = [c EXCEPT !.enabled = FALSE]]
           /\ Fault
     /\ reading' = [reading EXCEPT ![p] = {}]
     /\ UNCHANGED <<config, overtaken, up, row, lineage, job, objects, work>>

-----------------------------------------------------------------------------
(* The outbox.                                                             *)

\* A worker that is at it is expected to be done in time; a request may take longer.
Attended(u) == \E p \in Processes : job[u].holder = p /\ work[p].of = u

LeaseExpires(u) ==
  /\ job[u].status = "publishing" /\ job[u].lease = "live"
  /\ IF Attended(u) THEN Fault ELSE UNCHANGED bounds
  /\ job' = [job EXCEPT ![u].lease = "expired"]
  /\ UNCHANGED <<config, overtaken, client, reading, up, row, lineage, objects, work>>

\* Mutation: an expired lease is not noticed.
RecoveredNever(j) == j

Recovered(j) == IF j.status = "publishing" /\ j.lease = "expired" THEN Pending(j.at) ELSE j

Claim(p, u) ==
  /\ work[p] = Resting
  /\ Recovered(job[u]).status = "pending"
  /\ job' = [v \in Uploads |-> IF v = u THEN Publishing(job[u].at, p) ELSE Recovered(job[v])]
  /\ work' = [work EXCEPT ![p] = [pc |-> "check", of |-> u, at |-> job[u].at]]
  /\ UNCHANGED <<config, overtaken, client, reading, up, row, lineage, objects, bounds>>

Working(p, pc) == work[p].pc = pc

\* Under the storage lock: what a row names is not deleted.
Check(p) ==
  /\ Working(p, "check")
  /\ work' = [work EXCEPT ![p].pc = IF row[work[p].of] = "none" THEN "erase" ELSE "mark"]
  /\ UNCHANGED <<config, overtaken, client, reading, up, row, lineage, job, objects, bounds>>

CanDelete(p, t) == client[p].configured /\ client[p].at = t

\* The calls are made without the lock, with the client of this process.
Erase(p) ==
  LET there == Object(work[p].of, work[p].at)
  IN /\ Working(p, "erase") /\ ~Reading(p)
     /\ \/ /\ CanDelete(p, work[p].at)
           /\ objects' = objects \ {there}
           /\ work' = [work EXCEPT ![p].pc = "mark"]
           /\ UNCHANGED bounds
        \/ /\ CanDelete(p, work[p].at)
           /\ Fault
           /\ objects' \in {objects, objects \ {there}}
           /\ work' = [work EXCEPT ![p].pc = "defer"]
        \/ /\ ~CanDelete(p, work[p].at)
           /\ work' = [work EXCEPT ![p].pc = "defer"]
           /\ UNCHANGED <<objects, bounds>>
     /\ UNCHANGED <<config, overtaken, client, reading, up, row, lineage, job>>

\* MarkPublished and DeferUnconfigured, fenced by the token of the claim.
Mark(p) ==
  LET u == work[p].of
      mine == job[u].status = "publishing" /\ job[u].holder = p
  IN /\ work[p].pc \in {"mark", "defer"}
     /\ job' = IF ~mine THEN job
               ELSE [job EXCEPT ![u] = IF Working(p, "mark") THEN Published ELSE Pending(job[u].at)]
     /\ work' = [work EXCEPT ![p] = Resting]
     /\ UNCHANGED <<config, overtaken, client, reading, up, row, lineage, objects, bounds>>

\* The process dies and comes back, and makes a client.
Restart(p) ==
  /\ Fault
  /\ up' = [u \in Uploads |-> IF up[u].by = p THEN Done ELSE up[u]]
  /\ work' = [work EXCEPT ![p] = Resting]
  /\ \E c \in Clients({config}) : client' = [client EXCEPT ![p] = c]
  /\ reading' = [reading EXCEPT ![p] = {}]
  /\ UNCHANGED <<config, overtaken, row, lineage, job, objects>>

-----------------------------------------------------------------------------

Request(u) ==
  \/ \E p \in Processes : Begin(p, u) \/ DeleteImage(p, u)
  \/ Stage(u) \/ Put(u) \/ PutFails(u)
  \/ Finalize(u) \/ FinalizeFails(u) \/ Activate(u)
  \/ CreateImage(u) \/ CreateImageFails(u)

Process(p) ==
  \/ UpdateConfigs(p) \/ Reload(p) \/ Restart(p)
  \/ \E u \in Uploads : Claim(p, u)
  \/ Check(p) \/ Erase(p) \/ Mark(p)

Next ==
  \/ \E u \in Uploads : Request(u) \/ LeaseExpires(u)
  \/ \E p \in Processes : Process(p)

Spec == Init /\ [][Next]_vars

\* Time passes, a process that has claimed or reads the settings goes on, and no process
\* is kept from an event for ever by the others: they all poll, and back off alike.
Fairness ==
  /\ \A u \in Uploads : WF_vars(LeaseExpires(u) /\ ~Attended(u))
  /\ \A p \in Processes :
       /\ \A u \in Uploads : SF_vars(Claim(p, u))
       /\ WF_vars(Reading(p) /\ Reload(p)) /\ WF_vars(Check(p)) /\ WF_vars(Erase(p)) /\ WF_vars(Mark(p))

FairSpec == Spec /\ Fairness

-----------------------------------------------------------------------------
(* Properties.                                                             *)

\* The shape of the state.
Somewhere == Targets \cup {NoTarget}

Client   == [configured : BOOLEAN, enabled : BOOLEAN, at : Somewhere]
Upload   == [pc : {"idle", "stage", "put", "finalize", "activate", "image", "done"},
             by : Processes \cup {"none"}, at : Somewhere]
Event    == [status : {"pending", "publishing", "published"}, lease : {"none", "live", "expired"},
             holder : Processes \cup {"none", "request"}, at : Somewhere]
Delivery == [pc : {"idle", "check", "erase", "mark", "defer"},
             of : Uploads \cup {"none"}, at : Somewhere]

TypeOK ==
  /\ config \in Config
  /\ client \in [Processes -> Client] /\ reading \in [Processes -> SUBSET Config]
  /\ row \in [Uploads -> {"none", "row", "image"}]
  /\ lineage \in [Uploads -> Targets \cup {NoTarget, Unclassified}]
  /\ up \in [Uploads -> Upload] /\ job \in [Uploads -> Event] /\ work \in [Processes -> Delivery]
  /\ objects \subseteq [of : Uploads, at : Somewhere] /\ overtaken \subseteq Uploads

\* No object is forgotten: at any moment, whatever crashed or failed, an object in a remote
\* store is named by a row or by a deletion event that is still to be delivered
\* (persistR2UploadedImageFile, whose three steps cannot be one transaction).
NothingForgotten ==
  \A o \in objects :
    \/ row[o.of] # "none" /\ lineage[o.of] \in {o.at, Unclassified}
    \/ Unpublished(o.of) /\ job[o.of].at = o.at

\* ... and none is deleted too early: the original that a row names is there, although
\* events are delivered late, twice, and by processes that have lost their claim.
RowsKeepTheirObjects ==
  \A u \in Uploads : row[u] # "none" =>
    \E o \in objects : o.of = u /\ lineage[u] \in {o.at, Unclassified}

\* The settings keep what rows and pending deletions need. The target they name stays in
\* force, although uploads and workers use clients made before; and the keys stay while
\* there is anything to serve or to delete with them (validateR2ConfigUpdate), except for
\* uploads that had begun with a client that had them and were not staged yet: the intent
\* checks the target but not the keys.
SettingsServe ==
  /\ \A u \in Uploads : row[u] # "none" => lineage[u] \in {config.at, Unclassified}
  /\ \A u \in Uploads : Unpublished(u) => job[u].at = config.at
  /\ config.keys \/ {u \in Uploads : row[u] # "none" \/ Unpublished(u)} \subseteq overtaken

\* An event is delivered in the end if some process keeps a client for its target; the
\* others may have an old one and put the event off each time they get it.
Reclaimed ==
  \A u \in Uploads :
    <>[](\E p \in Processes : CanDelete(p, job[u].at) \/ ~Unpublished(u))
      => (Unpublished(u) ~> ~Unpublished(u))

=============================================================================
