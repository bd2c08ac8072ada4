-------------------------- MODULE RemoteIntentProofs --------------------------
(***************************************************************************)
(* Why RemoteIntent neither loses an object nor deletes one too early, for  *)
(* any number of processes, uploads, targets and faults.                    *)
(*                                                                         *)
(* The rows and the events of an upload exclude each other: as long as the  *)
(* request holds its intent no worker has seen it, and as long as there is  *)
(* a row there is no event to deliver and nobody delivering one. A worker   *)
(* that comes late finds what it has to delete gone already, since nothing  *)
(* is put for an upload once its intent has been claimed.                   *)
(***************************************************************************)
EXTENDS RemoteIntent, TLAPS

Unattended(u) == \A p \in Processes : work[p].of # u

Empty(u) == \A o \in objects : o.of # u

\* An upload that is not staged has left no trace.
Untouched(u) ==
  At(u, "idle") \/ At(u, "stage") =>
    /\ u \notin Legacy
    /\ row[u] = "none" /\ ~Unpublished(u) /\ Unattended(u) /\ Empty(u)

\* While the request holds its intent it is alone with it.
Requested(u) ==
  Holds(u) =>
    /\ row[u] = "none" /\ Unattended(u)
    /\ up[u].pc \in {"put", "finalize", "activate"} => job[u].at = up[u].at
    /\ At(u, "finalize") => Object(u, up[u].at) \in objects

\* A row has no event and no worker.
Rowed(u) == row[u] # "none" => ~Unpublished(u) /\ Unattended(u)

Created(u) == At(u, "image") => row[u] = "row" /\ u \notin Legacy

\* A process has no other target than the first, neither now nor after its reload.
Settled(p) == client[p].at \in {First, NoTarget} /\ \A c \in reading[p] : c.at = First

\* Where a legacy image is can be told from the client of any process.
Inherited(u) ==
  /\ u \in Legacy => up[u] = Done
  /\ lineage[u] = Unclassified =>
       /\ u \in Legacy /\ row[u] = "image"
       /\ config.at = First /\ \A p \in Processes : Settled(p)
       /\ \A o \in objects : o.of = u => o.at = First

\* A worker knows where the objects of its event are, and marks it when they are gone.
Delivering(p, u) ==
  work[p].of = u =>
    /\ Unpublished(u) => work[p].at = job[u].at
    /\ Working(p, "mark") => Empty(u)

\* The three properties, for one upload.
Named(u) ==
  \A o \in objects : o.of = u =>
    \/ row[u] # "none" /\ lineage[u] \in {o.at, Unclassified}
    \/ Unpublished(u) /\ job[u].at = o.at

Kept(u) ==
  row[u] # "none" => \E o \in objects : o.of = u /\ lineage[u] \in {o.at, Unclassified}

Served(u) ==
  /\ row[u] # "none" => lineage[u] \in {config.at, Unclassified}
  /\ Unpublished(u) => job[u].at = config.at
  /\ row[u] # "none" \/ Unpublished(u) => config.keys \/ u \in overtaken

Safe(u) ==
  /\ Untouched(u) /\ Requested(u) /\ Rowed(u) /\ Created(u) /\ Inherited(u)
  /\ \A p \in Processes : Delivering(p, u)
  /\ Named(u) /\ Kept(u) /\ Served(u)

Busy(p) == work[p].pc # "idle" => work[p].of # "none"

\* The inductive invariant.
IInv == /\ TypeOK
        /\ \A p \in Processes : Busy(p)
        /\ \A u \in Uploads : Safe(u)

-----------------------------------------------------------------------------
(* Type correctness.                                                       *)

LEMMA Records ==
  /\ Done \in Upload /\ Resting \in Delivery /\ Off \in Client /\ Published \in Event
  /\ \A t \in Somewhere : Pending(t) \in Event
  /\ \A t \in Somewhere, h \in Processes \cup {"request"} : Publishing(t, h) \in Event
  BY DEF Done, Resting, Off, Published, Pending, Publishing, Upload, Delivery, Client, Event, Somewhere,
         NoTarget

LEMMA Loaded ==
  ASSUME NEW S \in SUBSET Config, NEW c \in Clients(S)
  PROVE  /\ c \in Client /\ [c EXCEPT !.enabled = FALSE] \in Client
         /\ (\A d \in S : d.at = First) => c.at \in {First, NoTarget}
  <1>1. TargetsOf(S) \subseteq Targets
    BY DEF TargetsOf, Config
  <1>2. CASE c = Off
    BY <1>2 DEF Off, Client, Somewhere
  <1>3. CASE c \in [configured : {TRUE}, enabled : {d.enabled : d \in S}, at : TargetsOf(S)]
    <2>1. {d.enabled : d \in S} \subseteq BOOLEAN
      BY DEF Config
    <2>2. (\A d \in S : d.at = First) => TargetsOf(S) \subseteq {First}
      BY DEF TargetsOf
    <2> QED
      BY <1>1, <1>3, <2>1, <2>2 DEF Client, Somewhere
  <1> QED
    BY <1>2, <1>3 DEF Clients

\* What a reload leaves behind, of a running process or of a new one.
LEMMA Reloaded ==
  ASSUME TypeOK, NEW p \in Processes, Reload(p) \/ Restart(p)
  PROVE  /\ client' \in [Processes -> Client] /\ reading' \in [Processes -> SUBSET Config]
         /\ config.at = First => \A q \in Processes : Settled(q) => Settled(q)'
  <1>1. PICK S \in {reading[p], {config}} :
          \E c \in Clients(S) \cup {Off} :
            \/ client' = [client EXCEPT ![p] = c]
            \/ client' = [client EXCEPT ![p] = [c EXCEPT !.enabled = FALSE]]
    BY DEF Reload, Restart
  <1>2. PICK c \in Clients(S) \cup {Off} :
          \/ client' = [client EXCEPT ![p] = c]
          \/ client' = [client EXCEPT ![p] = [c EXCEPT !.enabled = FALSE]]
    BY <1>1
  <1>3. S \in SUBSET Config
    BY <1>1 DEF TypeOK
  <1>4. /\ c \in Client /\ [c EXCEPT !.enabled = FALSE] \in Client
        /\ (\A d \in S : d.at = First) => c.at \in {First, NoTarget}
    <2>1. CASE c = Off
      BY <2>1 DEF Off, Client, Somewhere
    <2>2. CASE c \in Clients(S)
      BY <1>3, <2>2, Loaded
    <2> QED
      BY <2>1, <2>2
  <1>5. reading' = [reading EXCEPT ![p] = {}]
    BY DEF Reload, Restart
  <1>6. client \in [Processes -> Client] /\ reading \in [Processes -> SUBSET Config]
    BY DEF TypeOK
  <1>7. client' \in [Processes -> Client] /\ reading' \in [Processes -> SUBSET Config]
    BY <1>2, <1>4, <1>5, <1>6
  <1>8. ASSUME config.at = First, NEW q \in Processes, Settled(q)
        PROVE  Settled(q)'
    <2>1. CASE q = p
      <3>1. \A d \in S : d.at = First
        BY <1>1, <1>8, <2>1 DEF Settled
      <3>2. client'[q].at = c.at
        BY <1>2, <1>4, <1>6, <2>1 DEF Client
      <3>3. reading'[q] = {}
        BY <1>5, <1>6, <2>1
      <3> QED
        BY <1>4, <3>1, <3>2, <3>3 DEF Settled
    <2>2. CASE q # p
      <3>1. client'[q] = client[q] /\ reading'[q] = reading[q]
        BY <1>2, <1>5, <1>6, <2>2
      <3> QED
        BY <1>8, <3>1 DEF Settled
    <2> QED
      BY <2>1, <2>2
  <1> QED
    BY <1>7, <1>8

LEMMA Recovers ==
  ASSUME NEW j \in Event
  PROVE  /\ Recovered(j) \in Event /\ Recovered(j).at = j.at
         /\ (Recovered(j).status = "published") <=> (j.status = "published")
         /\ Recovered(j).status = "publishing" => Recovered(j) = j
  BY DEF Recovered, Pending, Event

PCs == {"idle", "stage", "put", "finalize", "activate", "image", "done"}

LEMMA GoesTo ==
  ASSUME TypeOK, NEW u \in Uploads, NEW pc \in PCs, Goto(u, pc)
  PROVE  /\ up' \in [Uploads -> Upload]
         /\ up'[u].pc = pc /\ up'[u].at = up[u].at /\ up'[u].by = up[u].by
         /\ \A v \in Uploads \ {u} : up'[v] = up[v]
  <1>1. up[u] \in Upload /\ up' = [up EXCEPT ![u] = [up[u] EXCEPT !.pc = pc]]
    BY DEF Goto, TypeOK
  <1>2. [up[u] EXCEPT !.pc = pc] \in Upload
    BY <1>1 DEF Upload, PCs
  <1> QED
    BY <1>1, <1>2 DEF TypeOK, Upload

LEMMA Finishes ==
  ASSUME TypeOK, NEW u \in Uploads, Finish(u)
  PROVE  /\ up' \in [Uploads -> Upload] /\ up'[u] = Done
         /\ \A v \in Uploads \ {u} : up'[v] = up[v]
  BY Records DEF Finish, TypeOK

\* The events of one upload.
LEMMA HandedOver ==
  ASSUME TypeOK, NEW u \in Uploads, Handed(u)
  PROVE  /\ job' \in [Uploads -> Event] /\ job'[u] = Pending(job[u].at)
         /\ \A v \in Uploads \ {u} : job'[v] = job[v]
  <1>1. Pending(job[u].at) \in Event
    BY Records DEF TypeOK, Event
  <1> QED
    BY <1>1 DEF Handed, TypeOK

LEMMA Owned ==
  ASSUME TypeOK, NEW u \in Uploads, Owns(u)
  PROVE  /\ row' \in [Uploads -> {"none", "row", "image"}]
         /\ lineage' \in [Uploads -> Targets \cup {NoTarget, Unclassified}]
         /\ job' \in [Uploads -> Event]
         /\ row'[u] = "row" /\ lineage'[u] = up[u].at /\ job'[u] = Published
         /\ \A v \in Uploads \ {u} :
              row'[v] = row[v] /\ lineage'[v] = lineage[v] /\ job'[v] = job[v]
  BY Records DEF Owns, TypeOK, Upload, Somewhere

LEMMA Disowned ==
  ASSUME TypeOK, NEW u \in Uploads, NEW t \in Somewhere, Disown(u, t)
  PROVE  /\ row' \in [Uploads -> {"none", "row", "image"}]
         /\ lineage' \in [Uploads -> Targets \cup {NoTarget, Unclassified}]
         /\ job' \in [Uploads -> Event]
         /\ row'[u] = "none" /\ lineage'[u] = NoTarget /\ job'[u] = Pending(t)
         /\ \A v \in Uploads \ {u} :
              row'[v] = row[v] /\ lineage'[v] = lineage[v] /\ job'[v] = job[v]
  BY Records DEF Disown, TypeOK

LEMMA TypeStep ==
  ASSUME TypeOK, [Next]_vars, \A p \in Processes : Busy(p),
         \A u \in Uploads : Created(u) /\ Inherited(u)
  PROVE  TypeOK'
  <1> USE DEF TypeOK
  <1>1. ASSUME NEW p \in Processes, NEW u \in Uploads, Begin(p, u)
        PROVE  TypeOK'
    BY <1>1 DEF Begin, bounds, Upload, Client
  <1>2. ASSUME NEW p \in Processes, NEW u \in Uploads, DeleteImage(p, u)
        PROVE  TypeOK'
    <2>1. Resolved(p, u) \in Somewhere
      BY <1>2 DEF DeleteImage, Resolved, Client, Somewhere
    <2>2. Pending(Resolved(p, u)) \in Event
      BY <2>1, Records
    <2> QED
      BY <1>2, <2>2 DEF DeleteImage, Disown, bounds, Somewhere
  <1>3. ASSUME NEW u \in Uploads, Stage(u)
        PROVE  TypeOK'
    <2>1. Publishing(up[u].at, "request") \in Event
      BY Records DEF Upload
    <2>2. job' \in [Uploads -> Event]
      BY <1>3, <2>1 DEF Stage
    <2>3. up' \in [Uploads -> Upload]
      BY <1>3, Records DEF Stage, Goto, Finish, Upload
    <2> QED
      BY <1>3, <2>2, <2>3 DEF Stage, bounds
  <1>4. ASSUME NEW u \in Uploads, Put(u) \/ PutFails(u)
        PROVE  TypeOK'
    <2>1. up' \in [Uploads -> Upload]
      BY <1>4, GoesTo DEF Put, PutFails, PCs
    <2>2. Object(u, up[u].at) \in [of : Uploads, at : Somewhere]
      BY DEF Object, Upload
    <2>3. objects' \subseteq objects \cup {Object(u, up[u].at)}
      BY <1>4 DEF Put, PutFails
    <2> QED
      BY <1>4, <2>1, <2>2, <2>3 DEF Put, PutFails, bounds
  <1>5. ASSUME NEW u \in Uploads, Finalize(u) \/ FinalizeFails(u)
        PROVE  TypeOK'
    <2>1. UNCHANGED <<config, overtaken, client, reading, objects, work>>
      BY <1>5 DEF Finalize, FinalizeFails
    <2>2. up' \in [Uploads -> Upload]
      <3>1. Goto(u, "image") \/ Goto(u, "activate")
        BY <1>5 DEF Finalize, FinalizeFails
      <3> QED
        BY <3>1, GoesTo DEF PCs
    <2>3. /\ row' \in [Uploads -> {"none", "row", "image"}]
          /\ lineage' \in [Uploads -> Targets \cup {NoTarget, Unclassified}]
          /\ job' \in [Uploads -> Event]
      <3>1. \/ Owns(u)
            \/ UNCHANGED <<row, lineage>> /\ (Handed(u) \/ UNCHANGED job)
        BY <1>5 DEF Finalize, FinalizeFails
      <3> QED
        BY <3>1, Owned, HandedOver
    <2> QED
      BY <2>1, <2>2, <2>3
  <1>6. ASSUME NEW u \in Uploads, Activate(u)
        PROVE  TypeOK'
    <2>1. job' \in [Uploads -> Event]
      <3>1. Handed(u) \/ UNCHANGED job
        BY <1>6 DEF Activate
      <3> QED
        BY <3>1, HandedOver
    <2>2. up' \in [Uploads -> Upload]
      BY <1>6, Finishes DEF Activate
    <2> QED
      BY <1>6, <2>1, <2>2 DEF Activate
  <1>7. ASSUME NEW u \in Uploads, CreateImage(u)
        PROVE  TypeOK'
    <2>1. up' \in [Uploads -> Upload]
      BY <1>7, Finishes DEF CreateImage
    <2> QED
      BY <1>7, <2>1 DEF CreateImage
  <1>8. ASSUME NEW u \in Uploads, CreateImageFails(u), lineage[u] # Unclassified
        PROVE  TypeOK'
    <2>1. up' \in [Uploads -> Upload]
      BY <1>8, Finishes DEF CreateImageFails
    <2>2. lineage[u] \in Somewhere
      BY <1>8 DEF Somewhere
    <2>3. Disown(u, lineage[u]) \/ UNCHANGED <<row, lineage, job>>
      BY <1>8 DEF CreateImageFails
    <2> QED
      BY <1>8, <2>1, <2>2, <2>3, Disowned DEF CreateImageFails
  <1>9. ASSUME NEW u \in Uploads, LeaseExpires(u)
        PROVE  TypeOK'
    <2>1. [job[u] EXCEPT !.lease = "expired"] \in Event
      BY DEF Event
    <2>2. job' \in [Uploads -> Event]
      BY <1>9, <2>1 DEF LeaseExpires
    <2> QED
      BY <1>9, <2>2 DEF LeaseExpires
  <1>10. ASSUME NEW p \in Processes, UpdateConfigs(p)
         PROVE  TypeOK'
    <2>1. config' \in Config /\ Off \in Client
      BY <1>10 DEF UpdateConfigs, Off, Client, Somewhere
    <2>2. client' \in [Processes -> Client] /\ reading' \in [Processes -> SUBSET Config]
      BY <1>10, <2>1 DEF UpdateConfigs
    <2> QED
      BY <1>10, <2>1, <2>2 DEF UpdateConfigs
  <1>11. ASSUME NEW p \in Processes, Reload(p)
         PROVE  TypeOK'
    BY <1>11, Reloaded DEF Reload
  <1>12. ASSUME NEW p \in Processes, Restart(p)
         PROVE  TypeOK'
    <2>1. client' \in [Processes -> Client] /\ reading' \in [Processes -> SUBSET Config]
      BY <1>12, Reloaded
    <2>2. up' \in [Uploads -> Upload] /\ work' \in [Processes -> Delivery]
      BY <1>12, Records DEF Restart
    <2> QED
      BY <1>12, <2>1, <2>2 DEF Restart
  <1>13. ASSUME NEW p \in Processes, NEW u \in Uploads, Claim(p, u)
         PROVE  TypeOK'
    <2>1. Publishing(job[u].at, p) \in Event /\ \A v \in Uploads : Recovered(job[v]) \in Event
      BY Records, Recovers DEF Event
    <2>2. job' \in [Uploads -> Event]
      BY <1>13, <2>1 DEF Claim
    <2>3. [pc |-> "check", of |-> u, at |-> job[u].at] \in Delivery
      BY DEF Delivery, Event
    <2>4. work' \in [Processes -> Delivery]
      BY <1>13, <2>3 DEF Claim
    <2> QED
      BY <1>13, <2>2, <2>4 DEF Claim
  <1>14. ASSUME NEW p \in Processes, Check(p)
         PROVE  TypeOK'
    <2>1. work' \in [Processes -> Delivery]
      BY <1>14 DEF Check, Delivery
    <2> QED
      BY <1>14, <2>1 DEF Check
  <1>15. ASSUME NEW p \in Processes, Erase(p)
         PROVE  TypeOK'
    <2>1. work' \in [Processes -> Delivery]
      BY <1>15 DEF Erase, Delivery
    <2>2. objects' \subseteq objects
      BY <1>15 DEF Erase
    <2> QED
      BY <1>15, <2>1, <2>2 DEF Erase
  <1>16. ASSUME NEW p \in Processes, Mark(p)
         PROVE  TypeOK'
    <2>1. work' \in [Processes -> Delivery]
      BY <1>16, Records DEF Mark
    <2>2. job' \in [Uploads -> Event]
      <3> DEFINE u == work[p].of
      <3>1. u \in Uploads
        BY <1>16 DEF Busy, Mark, Delivery
      <3>2. Pending(job[u].at) \in Event /\ Published \in Event
        BY <3>1, Records DEF Event
      <3>3. job' = job \/ job' = [job EXCEPT ![u] = Published] \/ job' = [job EXCEPT ![u] = Pending(job[u].at)]
        BY <1>16 DEF Mark
      <3> QED
        BY <3>1, <3>2, <3>3
    <2> QED
      BY <1>16, <2>1, <2>2 DEF Mark
  <1>20. ASSUME UNCHANGED vars
         PROVE  TypeOK'
    BY <1>20 DEF vars, bounds
  <1>21. \A u \in Uploads : CreateImageFails(u) => lineage[u] # Unclassified
    BY DEF CreateImageFails, Created, Inherited
  <1> QED
    BY <1>1, <1>2, <1>3, <1>4, <1>5, <1>6, <1>7, <1>8, <1>9, <1>10, <1>11, <1>12, <1>13, <1>14,
       <1>15, <1>16, <1>20, <1>21 DEF Next, Request, Process

-----------------------------------------------------------------------------
(* Steps that leave an upload alone, or that only take something from it.  *)

\* The request goes on to where it holds nothing, or has not begun.
Yields(u) ==
  \/ up'[u] = up[u] \/ up'[u] = Done
  \/ up[u].pc = "idle" /\ u \notin Legacy /\ up'[u].pc = "stage"
  \/ up[u].pc \in {"put", "finalize"} /\ up'[u].pc = "activate" /\ up'[u].at = up[u].at
     /\ u \notin Legacy

\* Its event is handed on, recovered or claimed by another worker.
SameEvent(u) ==
  /\ job'[u].at = job[u].at /\ (Unpublished(u)' <=> Unpublished(u))
  /\ Holds(u)' => Holds(u)

\* A worker goes on with it, or lets go of it.
SameWork(u) ==
  \A p \in Processes : work'[p].of = u =>
    /\ work[p].of = u /\ work'[p].at = work[p].at
    /\ work'[p].pc = "mark" => work[p].pc = "mark"

SameObjects(u) == \A o : o.of = u => (o \in objects' <=> o \in objects)

SameSettings ==
  /\ config' = config /\ overtaken \subseteq overtaken'
  /\ config.at = First => \A p \in Processes : Settled(p) => Settled(p)'

LEMMA Frame ==
  ASSUME TypeOK, NEW u \in Uploads, Safe(u), SameSettings, SameObjects(u),
         row'[u] = row[u], lineage'[u] = lineage[u], Yields(u), SameEvent(u), SameWork(u)
  PROVE  Safe(u)'
  <1>1. Unattended(u) => Unattended(u)'
    BY DEF Unattended, SameWork
  <1>2. Empty(u) => Empty(u)'
    BY DEF Empty, SameObjects
  <1>3. Untouched(u)'
    BY <1>1, <1>2 DEF Safe, Untouched, At, Yields, Done, SameEvent
  <1>4. Requested(u)'
    <2>1. Object(u, up[u].at).of = u
      BY DEF Object
    <2> QED
      BY <1>1, <2>1 DEF Safe, Requested, At, Yields, Done, SameEvent, SameObjects
  <1>5. Rowed(u)'
    BY <1>1 DEF Safe, Rowed, SameEvent
  <1>6. Created(u)'
    BY DEF Safe, Created, At, Yields, Done
  <1>7. Inherited(u)'
    <2>1. u \in Legacy => up'[u] = Done
      BY DEF Safe, Inherited, Yields, Done
    <2>2. ASSUME lineage'[u] = Unclassified
          PROVE  /\ u \in Legacy /\ row'[u] = "image"
                 /\ config'.at = First /\ \A p \in Processes : Settled(p)'
                 /\ \A o \in objects' : o.of = u => o.at = First
      BY <2>2 DEF Safe, Inherited, SameSettings, SameObjects
    <2> QED
      BY <2>1, <2>2 DEF Inherited
  <1>8. ASSUME NEW p \in Processes
        PROVE  Delivering(p, u)'
    BY <1>2 DEF Safe, Delivering, Working, SameWork, SameEvent
  <1>9. Named(u)'
    BY DEF Safe, Named, SameEvent, SameObjects
  <1>10. Kept(u)'
    BY DEF Safe, Kept, SameObjects
  <1>11. Served(u)'
    BY DEF Safe, Served, SameSettings, SameEvent
  <1> QED
    BY <1>3, <1>4, <1>5, <1>6, <1>7, <1>8, <1>9, <1>10, <1>11 DEF Safe

\* The steps of the request of u, for the other uploads.
LEMMA Others ==
  ASSUME TypeOK, NEW u \in Uploads, NEW v \in Uploads \ {u}, Safe(v),
         UNCHANGED <<config, client, reading, work>>, overtaken \subseteq overtaken', SameObjects(v),
         row'[v] = row[v], lineage'[v] = lineage[v], job'[v] = job[v], up'[v] = up[v]
  PROVE  Safe(v)'
  <1>1. SameSettings
    BY DEF SameSettings, Settled
  <1>2. Yields(v) /\ SameEvent(v) /\ SameWork(v)
    BY DEF Yields, SameEvent, SameWork, Unpublished, Holds
  <1> QED
    BY <1>1, <1>2, Frame

-----------------------------------------------------------------------------
(* The steps of a request.                                                 *)

LEMMA BeginSafe ==
  ASSUME IInv, NEW p \in Processes, NEW u \in Uploads, Begin(p, u)
  PROVE  \A v \in Uploads : Safe(v)'
  <1>1. /\ UNCHANGED <<config, overtaken, client, reading, row, lineage, job, objects, work>>
        /\ up[u].pc = "idle" /\ up'[u].pc = "stage"
        /\ \A v \in Uploads \ {u} : up'[v] = up[v]
    BY DEF Begin, At, IInv, TypeOK
  <1>2. u \notin Legacy
    BY <1>1 DEF IInv, Safe, Untouched, At
  <1>3. ASSUME NEW v \in Uploads
        PROVE  Safe(v)'
    BY <1>1, <1>2, Frame
       DEF IInv, SameSettings, Settled, SameObjects, Yields, SameEvent, SameWork, Holds, Unpublished
  <1> QED
    BY <1>3

\* The request gives up, and hands its intent over if it still has it.
LEMMA YieldSafe ==
  ASSUME IInv, NEW u \in Uploads, UNCHANGED <<config, client, reading, row, lineage, objects, work>>,
         overtaken \subseteq overtaken', (Handed(u) /\ Holds(u)) \/ UNCHANGED job,
         \/ Finish(u)
         \/ up[u].pc \in {"put", "finalize"} /\ Goto(u, "activate")
  PROVE  \A v \in Uploads : Safe(v)'
  <1>1. \/ up'[u] = Done
        \/ /\ up[u].pc \in {"put", "finalize"} /\ up'[u].pc = "activate" /\ up'[u].at = up[u].at
           /\ u \notin Legacy
    <2>1. CASE Finish(u)
      BY <2>1, Finishes DEF IInv
    <2>2. CASE up[u].pc \in {"put", "finalize"} /\ Goto(u, "activate")
      <3>1. u \notin Legacy
        BY <2>2 DEF IInv, Safe, Inherited, Done
      <3> QED
        BY <2>2, <3>1, GoesTo DEF IInv, PCs
    <2> QED
      BY <2>1, <2>2
  <1>2. \A v \in Uploads \ {u} : up'[v] = up[v]
    BY Finishes, GoesTo DEF IInv, PCs
  <1>3. SameEvent(u) /\ \A v \in Uploads \ {u} : job'[v] = job[v]
    <2>1. CASE Handed(u) /\ Holds(u)
      <3>1. job'[u] = Pending(job[u].at) /\ \A v \in Uploads \ {u} : job'[v] = job[v]
        BY <2>1, HandedOver DEF IInv
      <3> QED
        BY <2>1, <3>1 DEF SameEvent, Unpublished, Holds, Pending
    <2>2. CASE UNCHANGED job
      BY <2>2 DEF SameEvent, Unpublished, Holds
    <2> QED
      BY <2>1, <2>2
  <1>4. ASSUME NEW v \in Uploads
        PROVE  Safe(v)'
    <2>1. SameSettings /\ SameObjects(v) /\ SameWork(v)
      BY DEF SameSettings, Settled, SameObjects, SameWork
    <2>2. Yields(v) /\ SameEvent(v)
      BY <1>1, <1>2, <1>3 DEF Yields, SameEvent, Unpublished, Holds
    <2> QED
      BY <2>1, <2>2, Frame DEF IInv
  <1> QED
    BY <1>4

LEMMA StageSafe ==
  ASSUME IInv, NEW u \in Uploads, Stage(u)
  PROVE  \A v \in Uploads : Safe(v)'
  <1>1. CASE ~Matches(up[u].at)
    <2>1. /\ Finish(u) /\ UNCHANGED <<config, client, reading, row, lineage, objects, work, job>>
          /\ overtaken \subseteq overtaken'
      BY <1>1 DEF Stage
    <2> QED
      BY <2>1, YieldSafe
  <1>2. CASE Matches(up[u].at)
    <2>1. /\ UNCHANGED <<config, client, reading, row, lineage, objects, work>>
          /\ overtaken \subseteq overtaken'
          /\ config.keys \/ u \in overtaken'
          /\ up[u].pc = "stage" /\ up[u].at = config.at
          /\ job' = [job EXCEPT ![u] = Publishing(up[u].at, "request")] /\ Goto(u, "put")
      BY <1>2 DEF Stage, Matches, At
    <2>2. /\ up'[u].pc = "put" /\ up'[u].at = up[u].at
          /\ \A v \in Uploads \ {u} : up'[v] = up[v]
      BY <2>1, GoesTo DEF IInv, PCs
    <2>3. /\ job'[u] = Publishing(up[u].at, "request")
          /\ \A v \in Uploads \ {u} : job'[v] = job[v]
      BY <2>1 DEF IInv, TypeOK
    <2>4. /\ job'[u].status = "publishing" /\ job'[u].at = up[u].at
      BY <2>3 DEF Publishing
    <2>5. u \notin Legacy /\ row[u] = "none" /\ Unattended(u) /\ Empty(u)
      BY <2>1 DEF IInv, Safe, Untouched, At
    <2>6. lineage[u] # Unclassified
      BY <2>5 DEF IInv, Safe, Inherited
    <2>7. Unattended(u)' /\ Empty(u)'
      BY <2>1, <2>5 DEF Unattended, Empty
    <2>8. Safe(u)'
      <3>1. Untouched(u)' /\ Created(u)' /\ Rowed(u)' /\ Kept(u)'
        BY <2>1, <2>2, <2>5 DEF Untouched, Created, Rowed, Kept, At
      <3>2. Requested(u)'
        BY <2>1, <2>2, <2>4, <2>5, <2>7 DEF Requested, At
      <3>3. Inherited(u)' /\ Served(u)'
        BY <2>1, <2>4, <2>5, <2>6 DEF Inherited, Served
      <3>4. (\A p \in Processes : Delivering(p, u)') /\ Named(u)'
        BY <2>7 DEF Delivering, Unattended, Named, Empty
      <3> QED
        BY <3>1, <3>2, <3>3, <3>4 DEF Safe
    <2>9. ASSUME NEW v \in Uploads \ {u}
          PROVE  Safe(v)'
      <3>1. /\ SameObjects(v) /\ row'[v] = row[v] /\ lineage'[v] = lineage[v]
            /\ job'[v] = job[v] /\ up'[v] = up[v]
        BY <2>1, <2>2, <2>3 DEF SameObjects
      <3>2. UNCHANGED <<config, client, reading, work>> /\ overtaken \subseteq overtaken'
        BY <2>1
      <3>3. TypeOK /\ Safe(v)
        BY DEF IInv
      <3> QED
        BY <3>1, <3>2, <3>3, Others
    <2> QED
      BY <2>8, <2>9
  <1> QED
    BY <1>1, <1>2

\* A put that arrives, whether its answer does or not.
LEMMA PutSafe ==
  ASSUME IInv, NEW u \in Uploads, At(u, "put"), Timely(u),
         UNCHANGED <<config, overtaken, client, reading, row, lineage, job, work>>,
         objects' = objects \cup {Object(u, up[u].at)},
         NEW pc \in {"finalize", "activate"}, Goto(u, pc)
  PROVE  \A v \in Uploads : Safe(v)'
  <1>1. /\ up'[u].pc = pc /\ up'[u].at = up[u].at
        /\ \A v \in Uploads \ {u} : up'[v] = up[v]
    BY GoesTo DEF IInv, PCs
  <1>2. Holds(u) /\ row[u] = "none" /\ Unattended(u) /\ job[u].at = up[u].at /\ Unpublished(u)
    BY DEF IInv, Safe, Requested, Timely, At, Holds, Unpublished
  <1>3. Holds(u)' /\ Unattended(u)' /\ Unpublished(u)'
    BY <1>2 DEF Holds, Unattended, Unpublished
  <1>4. u \notin Legacy /\ lineage[u] # Unclassified
    BY <1>2 DEF IInv, Safe, Inherited, At, Done
  <1>5. Safe(u)'
    <2>1. Untouched(u)' /\ Created(u)' /\ Rowed(u)' /\ Kept(u)'
      BY <1>1, <1>2 DEF Untouched, Created, Rowed, Kept, At
    <2>2. Requested(u)'
      BY <1>1, <1>2, <1>3 DEF Requested, At
    <2>3. Inherited(u)'
      BY <1>4 DEF Inherited
    <2>4. Served(u)'
      BY <1>3 DEF IInv, Safe, Served, Unpublished
    <2>5. \A p \in Processes : Delivering(p, u)'
      BY <1>3 DEF Delivering, Unattended
    <2>6. Named(u)'
      <3>1. Object(u, up[u].at).at = up[u].at
        BY DEF Object
      <3> QED
        BY <1>2, <1>3, <3>1 DEF IInv, Safe, Named
    <2> QED
      BY <2>1, <2>2, <2>3, <2>4, <2>5, <2>6 DEF Safe
  <1>6. ASSUME NEW v \in Uploads \ {u}
        PROVE  Safe(v)'
    <2>1. SameObjects(v)
      BY DEF SameObjects, Object
    <2> QED
      BY <1>1, <2>1, Others DEF IInv
  <1> QED
    BY <1>5, <1>6

\* The transaction that ends an upload.
LEMMA OwnsSafe ==
  ASSUME IInv, NEW u \in Uploads, At(u, "finalize"), Accepted(u), Owns(u),
         UNCHANGED <<config, overtaken, client, reading, objects, work>>,
         NEW pc \in {"image", "activate"}, Goto(u, pc)
  PROVE  \A v \in Uploads : Safe(v)'
  <1>1. /\ up'[u].pc = pc /\ up'[u].at = up[u].at
        /\ \A v \in Uploads \ {u} : up'[v] = up[v]
    BY GoesTo DEF IInv, PCs
  <1>2. /\ row'[u] = "row" /\ lineage'[u] = up[u].at /\ job'[u] = Published
        /\ \A v \in Uploads \ {u} :
             row'[v] = row[v] /\ lineage'[v] = lineage[v] /\ job'[v] = job[v]
    BY Owned DEF IInv
  <1>3. /\ row[u] = "none" /\ Unattended(u) /\ job[u].at = up[u].at /\ Unpublished(u)
        /\ Object(u, up[u].at) \in objects /\ up[u].at = config.at
    BY DEF IInv, Safe, Requested, Accepted, At, Holds, Unpublished, Matches
  <1>4. u \notin Legacy /\ up[u].at # Unclassified
    BY <1>3, RemoteAssumption DEF IInv, Safe, Inherited, At, Done, TypeOK, Config, Unclassified
  <1>5. Unattended(u)' /\ ~Unpublished(u)' /\ ~Holds(u)'
    BY <1>2, <1>3 DEF Unattended, Unpublished, Holds, Published
  <1>6. Safe(u)'
    <2>1. Untouched(u)' /\ Created(u)' /\ Rowed(u)' /\ Requested(u)'
      BY <1>1, <1>2, <1>4, <1>5 DEF Untouched, Created, Rowed, Requested, At
    <2>2. Inherited(u)'
      BY <1>2, <1>4 DEF Inherited
    <2>3. Served(u)'
      BY <1>2, <1>3, <1>5 DEF IInv, Safe, Served
    <2>4. \A p \in Processes : Delivering(p, u)'
      BY <1>5 DEF Delivering, Unattended
    <2>5. Named(u)'
      BY <1>2, <1>3 DEF IInv, Safe, Named
    <2>6. Kept(u)'
      <3>1. Object(u, up[u].at).at = up[u].at /\ Object(u, up[u].at).of = u
        BY DEF Object
      <3> QED
        BY <1>2, <1>3, <3>1 DEF Kept
    <2> QED
      BY <2>1, <2>2, <2>3, <2>4, <2>5, <2>6 DEF Safe
  <1>7. \A v \in Uploads \ {u} : Safe(v)'
    BY <1>1, <1>2, Others DEF IInv, SameObjects
  <1> QED
    BY <1>6, <1>7

\* A row goes with the event that deletes its objects.
LEMMA DisownSafe ==
  ASSUME IInv, NEW u \in Uploads, row[u] # "none", NEW t \in Somewhere, Disown(u, t),
         \/ lineage[u] # Unclassified /\ t = lineage[u]
         \/ lineage[u] = Unclassified /\ t = First,
         UNCHANGED <<config, overtaken, client, reading, objects, work>>,
         (row[u] = "image" /\ UNCHANGED up) \/ Finish(u)
  PROVE  \A v \in Uploads : Safe(v)'
  <1>1. /\ row'[u] = "none" /\ lineage'[u] = NoTarget /\ job'[u] = Pending(t)
        /\ \A v \in Uploads \ {u} :
             row'[v] = row[v] /\ lineage'[v] = lineage[v] /\ job'[v] = job[v]
    BY Disowned DEF IInv
  <1>2. /\ up'[u].pc \notin {"idle", "stage", "image"} /\ (up[u] = Done => up'[u] = Done)
        /\ \A v \in Uploads \ {u} : up'[v] = up[v]
    <2>1. CASE row[u] = "image" /\ UNCHANGED up
      BY <2>1 DEF IInv, Safe, Untouched, Created, At
    <2>2. CASE Finish(u)
      BY <2>2, Finishes DEF IInv, Done
    <2> QED
      BY <2>1, <2>2
  <1>3. ~Unpublished(u) /\ Unattended(u) /\ t = config.at
        /\ (config.keys \/ u \in overtaken) /\ \A o \in objects : o.of = u => o.at = t
    BY DEF IInv, Safe, Rowed, Inherited, Served, Named
  <1>4. Unattended(u)' /\ Unpublished(u)' /\ ~Holds(u)' /\ job'[u].at = t
    BY <1>1, <1>3 DEF Unattended, Unpublished, Holds, Pending
  <1>5. Safe(u)'
    <2>1. Untouched(u)' /\ Created(u)' /\ Rowed(u)' /\ Requested(u)' /\ Kept(u)'
      BY <1>1, <1>2, <1>4 DEF Untouched, Created, Rowed, Requested, Kept, At
    <2>2. Inherited(u)'
      BY <1>1, <1>2 DEF IInv, Safe, Inherited, NoTarget, Unclassified
    <2>3. Served(u)'
      BY <1>1, <1>3, <1>4 DEF Served
    <2>4. \A p \in Processes : Delivering(p, u)'
      BY <1>4 DEF Delivering, Unattended
    <2>5. Named(u)'
      BY <1>1, <1>3, <1>4 DEF Named
    <2> QED
      BY <2>1, <2>2, <2>3, <2>4, <2>5 DEF Safe
  <1>6. \A v \in Uploads \ {u} : Safe(v)'
    BY <1>1, <1>2, Others DEF IInv, SameObjects
  <1> QED
    BY <1>5, <1>6

LEMMA CreateImageSafe ==
  ASSUME IInv, NEW u \in Uploads, CreateImage(u)
  PROVE  \A v \in Uploads : Safe(v)'
  <1>1. /\ UNCHANGED <<config, overtaken, client, reading, lineage, job, objects, work>>
        /\ up[u].pc = "image" /\ row' = [row EXCEPT ![u] = "image"] /\ Finish(u)
    BY DEF CreateImage, At
  <1>2. up'[u] = Done /\ \A v \in Uploads \ {u} : up'[v] = up[v]
    BY <1>1, Finishes DEF IInv
  <1>3. row'[u] = "image" /\ \A v \in Uploads \ {u} : row'[v] = row[v]
    BY <1>1 DEF IInv, TypeOK
  <1>4. row[u] = "row" /\ u \notin Legacy /\ lineage[u] # Unclassified /\ ~Unpublished(u) /\ Unattended(u)
    BY <1>1 DEF IInv, Safe, Created, Inherited, Rowed, At
  <1>5. ~Unpublished(u)' /\ Unattended(u)' /\ ~Holds(u)'
    BY <1>1, <1>4 DEF Unpublished, Unattended, Holds
  <1>6. Safe(u)'
    <2>1. Untouched(u)' /\ Created(u)' /\ Rowed(u)' /\ Requested(u)'
      BY <1>2, <1>5 DEF Untouched, Created, Rowed, Requested, At, Done
    <2>2. Inherited(u)'
      BY <1>1, <1>4 DEF Inherited
    <2>3. Served(u)' /\ Named(u)' /\ Kept(u)'
      BY <1>1, <1>3, <1>4, <1>5 DEF IInv, Safe, Served, Named, Kept
    <2>4. \A p \in Processes : Delivering(p, u)'
      BY <1>5 DEF Delivering, Unattended
    <2> QED
      BY <2>1, <2>2, <2>3, <2>4 DEF Safe
  <1>7. \A v \in Uploads \ {u} : Safe(v)'
    BY <1>1, <1>2, <1>3, Others DEF IInv, SameObjects
  <1> QED
    BY <1>6, <1>7

LEMMA RequestSafe ==
  ASSUME IInv, NEW u \in Uploads, Request(u)
  PROVE  \A v \in Uploads : Safe(v)'
  <1>1. ASSUME NEW p \in Processes, DeleteImage(p, u)
        PROVE  \A v \in Uploads : Safe(v)'
    <2>1. /\ row[u] = "image" /\ Resolved(p, u) # NoTarget /\ Disown(u, Resolved(p, u))
          /\ UNCHANGED <<config, overtaken, client, reading, up, objects, work>>
      BY <1>1 DEF DeleteImage
    <2>2. \/ lineage[u] # Unclassified /\ Resolved(p, u) = lineage[u]
          \/ lineage[u] = Unclassified /\ Resolved(p, u) = First
      BY <2>1 DEF Resolved, IInv, Safe, Inherited, Settled
    <2>3. Resolved(p, u) \in Somewhere
      BY <2>2, RemoteAssumption DEF Somewhere, IInv, TypeOK
    <2> HIDE DEF Resolved
    <2> QED
      BY <2>1, <2>2, <2>3, DisownSafe
  <1>2. CASE PutFails(u)
    <2>1. CASE Timely(u) /\ objects' # objects
      BY <1>2, <2>1, PutSafe DEF PutFails, Fault
    <2>2. CASE objects' = objects
      BY <1>2, <2>2, YieldSafe DEF PutFails, At
    <2> QED
      BY <1>2, <2>1, <2>2 DEF PutFails
  <1>3. CASE Put(u)
    BY <1>3, PutSafe DEF Put
  <1>4. CASE Finalize(u)
    <2>1. UNCHANGED <<config, overtaken, client, reading, objects, work>> /\ At(u, "finalize")
      BY <1>4 DEF Finalize
    <2>2. \/ Accepted(u) /\ Owns(u) /\ Goto(u, "image")
          \/ /\ UNCHANGED <<row, lineage>> /\ Goto(u, "activate")
             /\ (Handed(u) /\ Holds(u)) \/ UNCHANGED job
      BY <1>4 DEF Finalize
    <2>3. CASE Accepted(u) /\ Owns(u) /\ Goto(u, "image")
      BY <2>1, <2>3, OwnsSafe
    <2> QED
      BY <2>1, <2>2, <2>3, YieldSafe DEF At
  <1>5. CASE FinalizeFails(u)
    <2>1. UNCHANGED <<config, overtaken, client, reading, objects, work>> /\ At(u, "finalize") /\ Goto(u, "activate")
      BY <1>5 DEF FinalizeFails
    <2>2. (Accepted(u) /\ Owns(u)) \/ UNCHANGED <<row, lineage, job>>
      BY <1>5 DEF FinalizeFails
    <2>3. CASE Accepted(u) /\ Owns(u)
      BY <2>1, <2>3, OwnsSafe
    <2> QED
      BY <2>1, <2>2, <2>3, YieldSafe DEF At
  <1>6. CASE Activate(u)
    <2>1. UNCHANGED <<config, overtaken, client, reading, row, lineage, objects, work>> /\ Finish(u)
      BY <1>6 DEF Activate
    <2>2. (Handed(u) /\ Holds(u)) \/ UNCHANGED job
      BY <1>6 DEF Activate
    <2> QED
      BY <2>1, <2>2, YieldSafe
  <1>7. CASE CreateImageFails(u)
    <2>1. UNCHANGED <<config, overtaken, client, reading, objects, work>> /\ Finish(u) /\ At(u, "image")
      BY <1>7 DEF CreateImageFails
    <2>2. Disown(u, lineage[u]) \/ UNCHANGED <<row, lineage, job>>
      BY <1>7 DEF CreateImageFails
    <2>3. CASE Disown(u, lineage[u])
      <3>1. row[u] # "none" /\ lineage[u] # Unclassified
        BY <2>1 DEF IInv, Safe, Created, Inherited
      <3>2. lineage[u] \in Somewhere
        BY <3>1 DEF IInv, TypeOK, Somewhere
      <3> QED
        BY <2>1, <2>3, <3>1, <3>2, DisownSafe
    <2> QED
      BY <2>1, <2>2, <2>3, YieldSafe
  <1> QED
    BY <1>1, <1>2, <1>3, <1>4, <1>5, <1>6, <1>7, BeginSafe, StageSafe, CreateImageSafe DEF Request

-----------------------------------------------------------------------------
(* The steps of a process, and of time.                                    *)

LEMMA LeaseExpiresSafe ==
  ASSUME IInv, NEW u \in Uploads, LeaseExpires(u)
  PROVE  \A v \in Uploads : Safe(v)'
  <1>1. UNCHANGED <<config, overtaken, client, reading, up, row, lineage, objects, work>>
    BY DEF LeaseExpires
  <1>2. /\ job'[u].status = job[u].status /\ job'[u].at = job[u].at /\ job'[u].holder = job[u].holder
        /\ \A v \in Uploads \ {u} : job'[v] = job[v]
    BY DEF LeaseExpires, IInv, TypeOK, Event
  <1>3. ASSUME NEW v \in Uploads
        PROVE  Safe(v)'
    <2>1. SameSettings /\ SameObjects(v) /\ SameWork(v) /\ Yields(v)
      BY <1>1 DEF SameSettings, Settled, SameObjects, SameWork, Yields
    <2>2. SameEvent(v)
      BY <1>2 DEF SameEvent, Unpublished, Holds
    <2>3. TypeOK /\ Safe(v)
      BY DEF IInv
    <2> QED
      BY <1>1, <2>1, <2>2, <2>3, Frame
  <1> QED
    BY <1>3

LEMMA ReloadSafe ==
  ASSUME IInv, NEW p \in Processes, Reload(p) \/ Restart(p)
  PROVE  \A v \in Uploads : Safe(v)'
  <1>1. UNCHANGED <<config, overtaken, row, lineage, job, objects>>
    BY DEF Reload, Restart
  <1>2. SameSettings
    BY <1>1, Reloaded DEF SameSettings, IInv
  <1>3. ASSUME NEW v \in Uploads
        PROVE  Safe(v)'
    <2>1. SameObjects(v) /\ SameEvent(v)
      BY <1>1 DEF SameObjects, SameEvent, Unpublished, Holds
    <2>2. Yields(v)
      BY DEF Reload, Restart, Yields, IInv, TypeOK
    <2>3. SameWork(v)
      <3>1. Resting.of # v
        BY RemoteAssumption DEF Resting
      <3>2. work' = work \/ work' = [work EXCEPT ![p] = Resting]
        BY DEF Reload, Restart
      <3> QED
        BY <3>1, <3>2 DEF SameWork, IInv, TypeOK
    <2>4. TypeOK /\ Safe(v)
      BY DEF IInv
    <2> QED
      BY <1>1, <1>2, <2>1, <2>2, <2>3, <2>4, Frame
  <1> QED
    BY <1>3

LEMMA UpdateConfigsSafe ==
  ASSUME IInv, NEW p \in Processes, UpdateConfigs(p)
  PROVE  \A v \in Uploads : Safe(v)'
  <1>1. UNCHANGED <<overtaken, up, row, lineage, job, objects, work>>
    BY DEF UpdateConfigs
  <1>2. PICK c : c = config' /\ Allowed(c)
    BY DEF UpdateConfigs
  <1>3. ASSUME NEW v \in Uploads, row[v] # "none" \/ Unpublished(v)
        PROVE  config.keys => config'.keys
    <2>1. CASE Unpublished(v)
      BY <1>2, <2>1 DEF Allowed, PendingDeletes
    <2>2. CASE row[v] # "none" /\ lineage[v] = Unclassified
      <3>1. v \in History
        BY <2>2 DEF IInv, Safe, Inherited, History
      <3> QED
        BY <1>2, <3>1 DEF Allowed
    <2>3. CASE row[v] # "none" /\ lineage[v] # Unclassified
      <3>1. lineage[v] \in Lineages
        BY <2>3 DEF Lineages
      <3> QED
        BY <1>2, <3>1 DEF Allowed
    <2> QED
      BY <1>3, <2>1, <2>2, <2>3
  <1>4. ASSUME NEW v \in Uploads, config'.at # config.at
        PROVE  /\ ~Unpublished(v)
               /\ lineage[v] # Unclassified
               /\ row[v] # "none" => lineage[v] = config'.at
    <2>1. PendingDeletes = {} /\ History = {} /\ Lineages \subseteq {config'.at}
      BY <1>2, <1>4 DEF Allowed
    <2>2. lineage[v] # Unclassified
      BY <2>1 DEF IInv, Safe, Inherited, History
    <2>3. row[v] # "none" => lineage[v] \in Lineages
      BY <2>2 DEF Lineages
    <2> QED
      BY <2>1, <2>2, <2>3 DEF PendingDeletes
  <1>5. ASSUME NEW v \in Uploads
        PROVE  Safe(v)'
    <2>1. /\ Untouched(v)' /\ Requested(v)' /\ Rowed(v)' /\ Created(v)'
          /\ (\A q \in Processes : Delivering(q, v)') /\ Named(v)' /\ Kept(v)'
      BY <1>1 DEF IInv, Safe, Untouched, Requested, Rowed, Created, Delivering, Named, Kept, At,
                  Unattended, Empty, Unpublished, Holds, Working
    <2>2. Inherited(v)'
      <3>1. Inherited(v) /\ (lineage[v] = Unclassified => config'.at = config.at)
        BY <1>4 DEF IInv, Safe
      <3>2. ASSUME config.at = First, config'.at = First, NEW q \in Processes, Settled(q)
            PROVE  Settled(q)'
        <4>1. /\ client'[q] = Off \/ client'[q] = client[q]
              /\ reading'[q] = {} \/ reading'[q] = reading[q] \cup {config, config'}
          BY DEF UpdateConfigs, IInv, TypeOK
        <4> QED
          BY <3>2, <4>1 DEF Settled, Off
      <3> QED
        BY <1>1, <3>1, <3>2 DEF Inherited
    <2>3. Served(v)'
      <3>1. Served(v)
        BY DEF IInv, Safe
      <3>2. row'[v] # "none" \/ Unpublished(v)' => config'.keys \/ v \in overtaken'
        BY <1>1, <1>3, <3>1 DEF Served, Unpublished
      <3> QED
        BY <1>1, <1>4, <3>1, <3>2 DEF Served, Unpublished
    <2> QED
      BY <2>1, <2>2, <2>3 DEF Safe
  <1> QED
    BY <1>5

\* An event that can be claimed is not the request's, and its row is gone.
LEMMA ClaimSafe ==
  ASSUME IInv, NEW p \in Processes, NEW u \in Uploads, Claim(p, u)
  PROVE  \A v \in Uploads : Safe(v)'
  <1>1. UNCHANGED <<config, overtaken, client, reading, up, row, lineage, objects>>
    BY DEF Claim
  <1>2. /\ job'[u] = Publishing(job[u].at, p)
        /\ \A v \in Uploads \ {u} : job'[v] = Recovered(job[v])
        /\ Recovered(job[u]).status = "pending"
    BY DEF Claim
  <1>3. /\ work'[p] = [pc |-> "check", of |-> u, at |-> job[u].at] /\ work[p] = Resting
        /\ \A q \in Processes \ {p} : work'[q] = work[q]
    BY DEF Claim, IInv, TypeOK
  <1>4. \A v \in Uploads : job[v] \in Event
    BY DEF IInv, TypeOK
  <1>5. ASSUME NEW v \in Uploads \ {u}
        PROVE  Safe(v)'
    <2>1. SameSettings /\ SameObjects(v) /\ Yields(v)
      BY <1>1 DEF SameSettings, Settled, SameObjects, Yields
    <2>2. SameEvent(v)
      BY <1>2, <1>4, Recovers DEF SameEvent, Unpublished, Holds
    <2>3. SameWork(v)
      BY <1>3 DEF SameWork
    <2>4. TypeOK /\ Safe(v)
      BY DEF IInv
    <2> QED
      BY <1>1, <2>1, <2>2, <2>3, <2>4, Frame
  <1>6. Unpublished(u) /\ row[u] = "none" /\ lineage[u] # Unclassified /\ Safe(u)
    <2>1. Unpublished(u)
      BY <1>2, <1>4, Recovers DEF Unpublished
    <2> QED
      BY <2>1 DEF IInv, Safe, Rowed, Inherited
  <1>7. job'[u].at = job[u].at /\ job'[u].status = "publishing" /\ job'[u].holder = p
    BY <1>2 DEF Publishing
  <1>8. Safe(u)'
    <2>1. Untouched(u)' /\ Created(u)' /\ Rowed(u)' /\ Kept(u)'
      BY <1>1, <1>6 DEF Safe, Untouched, Created, Rowed, Kept, At
    <2>2. Requested(u)'
      BY <1>7, RemoteAssumption DEF Requested, Holds
    <2>3. Inherited(u)' /\ Served(u)' /\ Named(u)'
      BY <1>1, <1>6, <1>7 DEF Safe, Inherited, Served, Named, Unpublished
    <2>4. ASSUME NEW q \in Processes
          PROVE  Delivering(q, u)'
      BY <1>1, <1>3, <1>6, <1>7 DEF Safe, Delivering, Working, Empty, Unpublished
    <2> QED
      BY <2>1, <2>2, <2>3, <2>4 DEF Safe
  <1> QED
    BY <1>5, <1>8

\* What a worker delivers has no row: the check under the lock never finds one.
LEMMA CheckSafe ==
  ASSUME IInv, NEW p \in Processes, Check(p)
  PROVE  \A v \in Uploads : Safe(v)'
  <1>1. UNCHANGED <<config, overtaken, client, reading, up, row, lineage, job, objects>>
    BY DEF Check
  <1>2. PICK u \in Uploads : u = work[p].of
    BY DEF Check, Working, IInv, Busy, TypeOK, Delivery
  <1>3. row[u] = "none"
    BY <1>2 DEF IInv, Safe, Rowed, Unattended
  <1>4. /\ work'[p].pc = "erase" /\ work'[p].of = work[p].of /\ work'[p].at = work[p].at
        /\ \A q \in Processes \ {p} : work'[q] = work[q]
    BY <1>2, <1>3 DEF Check, IInv, TypeOK, Delivery
  <1>5. ASSUME NEW v \in Uploads
        PROVE  Safe(v)'
    <2>1. SameSettings /\ SameObjects(v) /\ Yields(v) /\ SameEvent(v)
      BY <1>1 DEF SameSettings, Settled, SameObjects, Yields, SameEvent, Unpublished, Holds
    <2>2. SameWork(v)
      BY <1>4 DEF SameWork
    <2>3. TypeOK /\ Safe(v)
      BY DEF IInv
    <2> QED
      BY <1>1, <2>1, <2>2, <2>3, Frame
  <1> QED
    BY <1>5

\* Calls of a late worker find nothing any more, or what is to be deleted anyway.
LEMMA EraseSafe ==
  ASSUME IInv, NEW p \in Processes, Erase(p)
  PROVE  \A v \in Uploads : Safe(v)'
  <1>1. UNCHANGED <<config, overtaken, client, reading, up, row, lineage, job>>
    BY DEF Erase
  <1>2. PICK u \in Uploads : u = work[p].of
    BY DEF Erase, Working, IInv, Busy, TypeOK, Delivery
  <1>3. /\ objects' \in {objects, objects \ {Object(u, work[p].at)}}
        /\ work'[p].of = u /\ work'[p].at = work[p].at
        /\ work'[p].pc = "defer" \/ (work'[p].pc = "mark" /\ objects' = objects \ {Object(u, work[p].at)})
        /\ \A q \in Processes \ {p} : work'[q] = work[q]
    BY <1>2 DEF Erase, IInv, TypeOK, Delivery
  <1>4. /\ Safe(u) /\ ~Unattended(u) /\ row[u] = "none" /\ ~Holds(u) /\ lineage[u] # Unclassified
        /\ ~At(u, "idle") /\ ~At(u, "stage") /\ ~At(u, "image")
    BY <1>2 DEF IInv, Safe, Rowed, Requested, Inherited, Untouched, Created, Unattended
  <1>5. ASSUME NEW v \in Uploads \ {u}
        PROVE  Safe(v)'
    <2>1. SameSettings /\ Yields(v) /\ SameEvent(v)
      BY <1>1 DEF SameSettings, Settled, Yields, SameEvent, Unpublished, Holds
    <2>2. SameObjects(v)
      BY <1>3 DEF SameObjects, Object
    <2>3. SameWork(v)
      BY <1>3 DEF SameWork
    <2>4. TypeOK /\ Safe(v)
      BY DEF IInv
    <2> QED
      BY <1>1, <2>1, <2>2, <2>3, <2>4, Frame
  <1>6. ASSUME work'[p].pc = "mark"
        PROVE  Empty(u)'
    <2>1. SUFFICES ASSUME NEW o \in objects, o.of = u
                   PROVE  o = Object(u, work[p].at)
      BY <1>3, <1>6 DEF Empty
    <2>2. Unpublished(u) /\ job[u].at = o.at
      BY <1>4, <2>1 DEF Safe, Named
    <2>3. o.at = work[p].at
      BY <1>2, <1>4, <2>2 DEF Safe, Delivering
    <2>4. o \in [of : Uploads, at : Somewhere]
      BY DEF IInv, TypeOK
    <2> QED
      BY <2>1, <2>3, <2>4 DEF Object
  <1>7. Safe(u)'
    <2>1. /\ Untouched(u)' /\ Created(u)' /\ Rowed(u)' /\ Requested(u)' /\ Inherited(u)'
          /\ Kept(u)' /\ Served(u)'
      BY <1>1, <1>4 DEF Safe, Untouched, Created, Rowed, Requested, Inherited, Kept, Served, At, Holds,
                        Unpublished
    <2>2. Named(u)'
      BY <1>1, <1>3, <1>4 DEF Safe, Named, Unpublished
    <2>3. ASSUME NEW q \in Processes
          PROVE  Delivering(q, u)'
      <3>1. Delivering(q, u) /\ (Empty(u) => Empty(u)')
        BY <1>3, <1>4 DEF Safe, Empty
      <3>2. CASE q = p
        BY <1>1, <1>2, <1>3, <1>6, <3>1, <3>2 DEF Delivering, Working, Unpublished
      <3>3. CASE q # p
        BY <1>1, <1>3, <3>1, <3>3 DEF Delivering, Working, Unpublished
      <3> QED
        BY <3>2, <3>3
    <2> QED
      BY <2>1, <2>2, <2>3 DEF Safe
  <1> QED
    BY <1>5, <1>7

LEMMA MarkSafe ==
  ASSUME IInv, NEW p \in Processes, Mark(p)
  PROVE  \A v \in Uploads : Safe(v)'
  <1>1. UNCHANGED <<config, overtaken, client, reading, up, row, lineage, objects>>
    BY DEF Mark
  <1>2. PICK u \in Uploads : u = work[p].of
    BY DEF Mark, IInv, Busy, TypeOK, Delivery
  <1>3. work'[p] = Resting /\ \A q \in Processes \ {p} : work'[q] = work[q]
    BY DEF Mark, IInv, TypeOK
  <1>4. \A v \in Uploads : SameWork(v)
    <2>1. \A v \in Uploads : Resting.of # v
      BY RemoteAssumption DEF Resting
    <2> QED
      BY <1>3, <2>1 DEF SameWork
  <1>5. \/ job' = job
        \/ /\ job[u].status = "publishing"
           /\ \/ Working(p, "mark") /\ job' = [job EXCEPT ![u] = Published]
              \/ job' = [job EXCEPT ![u] = Pending(job[u].at)]
    BY <1>2 DEF Mark
  <1>6. \A v \in Uploads \ {u} : job'[v] = job[v]
    BY <1>5 DEF IInv, TypeOK
  <1>7. /\ Safe(u) /\ ~Unattended(u) /\ row[u] = "none" /\ ~Holds(u) /\ lineage[u] # Unclassified
        /\ ~At(u, "idle") /\ ~At(u, "stage") /\ ~At(u, "image")
    BY <1>2 DEF IInv, Safe, Rowed, Requested, Inherited, Untouched, Created, Unattended
  <1>8. ASSUME NEW v \in Uploads, SameEvent(v)
        PROVE  Safe(v)'
    <2>1. SameSettings /\ Yields(v) /\ SameObjects(v)
      BY <1>1 DEF SameSettings, Settled, Yields, SameObjects
    <2>2. TypeOK /\ Safe(v)
      BY DEF IInv
    <2> QED
      BY <1>1, <1>4, <1>8, <2>1, <2>2, Frame
  <1>9. \A v \in Uploads \ {u} : Safe(v)'
    BY <1>6, <1>8 DEF SameEvent, Unpublished, Holds
  <1>10. Safe(u)'
    <2>1. CASE job' = job
      BY <1>8, <2>1 DEF SameEvent, Unpublished, Holds
    <2>2. CASE job[u].status = "publishing" /\ job' = [job EXCEPT ![u] = Pending(job[u].at)]
      <3>1. job'[u] = Pending(job[u].at)
        BY <2>2 DEF IInv, TypeOK
      <3>2. SameEvent(u)
        BY <2>2, <3>1 DEF SameEvent, Unpublished, Holds, Pending
      <3> QED
        BY <1>8, <3>2
    <2>3. CASE Working(p, "mark") /\ job' = [job EXCEPT ![u] = Published]
      <3>1. job'[u] = Published
        BY <2>3 DEF IInv, TypeOK
      <3>2. ~Unpublished(u)' /\ ~Holds(u)'
        BY <3>1 DEF Unpublished, Holds, Published
      <3>3. Empty(u)'
        BY <1>1, <1>2, <1>7, <2>3 DEF Safe, Delivering, Empty
      <3>4. /\ Untouched(u)' /\ Created(u)' /\ Rowed(u)' /\ Requested(u)' /\ Inherited(u)'
            /\ Kept(u)' /\ Served(u)'
        BY <1>1, <1>7, <3>2 DEF Safe, Untouched, Created, Rowed, Requested, Inherited, Kept, Served, At
      <3>5. Named(u)' /\ \A q \in Processes : Delivering(q, u)'
        BY <3>2, <3>3 DEF Named, Empty, Delivering
      <3> QED
        BY <3>4, <3>5 DEF Safe
    <2> QED
      BY <1>5, <2>1, <2>2, <2>3
  <1> QED
    BY <1>9, <1>10

LEMMA BusyStep ==
  ASSUME IInv, [Next]_vars
  PROVE  \A p \in Processes : Busy(p)'
  <1>1. ASSUME NEW p \in Processes
        PROVE  Busy(p)'
    <2>1. CASE work' = work
      BY <2>1 DEF IInv, Busy
    <2>2. ASSUME NEW q \in Processes, NEW u \in Uploads, Claim(q, u)
          PROVE  Busy(p)'
      BY <2>2, RemoteAssumption DEF Claim, IInv, TypeOK, Busy
    <2>3. ASSUME NEW q \in Processes, Check(q) \/ Erase(q)
          PROVE  Busy(p)'
      <3>1. work'[q].of = work[q].of /\ work[q].pc # "idle" /\ \A r \in Processes \ {q} : work'[r] = work[r]
        BY <2>3 DEF Check, Erase, Working, IInv, TypeOK, Delivery
      <3> QED
        BY <3>1 DEF IInv, Busy
    <2>4. ASSUME NEW q \in Processes, Mark(q) \/ Restart(q)
          PROVE  Busy(p)'
      <3>1. Resting.pc = "idle" /\ work' = [work EXCEPT ![q] = Resting]
        BY <2>4 DEF Mark, Restart, Resting
      <3> QED
        BY <3>1 DEF IInv, TypeOK, Busy
    <2> QED
      BY <2>1, <2>2, <2>3, <2>4
         DEF Next, Request, Process, vars, Begin, DeleteImage, Stage, Put, PutFails, Finalize,
             FinalizeFails, Activate, CreateImage, CreateImageFails, LeaseExpires, UpdateConfigs, Reload
  <1> QED
    BY <1>1

-----------------------------------------------------------------------------
(* The theorems.                                                           *)

LEMMA Start == Init => IInv
  <1> SUFFICES ASSUME Init PROVE IInv
    OBVIOUS
  <1>1. config \in [enabled : BOOLEAN, at : Targets, keys : BOOLEAN] /\ config.at = First /\ config.keys
    BY RemoteAssumption DEF Init
  <1>2. /\ [configured |-> TRUE, enabled |-> TRUE, at |-> First] \in Client
        /\ \A p \in Processes : Settled(p)
    BY RemoteAssumption DEF Init, Client, Somewhere, Settled
  <1>3. [Done EXCEPT !.pc = "idle"] \in Upload /\ [Done EXCEPT !.pc = "idle"].pc = "idle"
    BY DEF Done, Upload, Somewhere
  <1>4. \A u \in Uploads : Object(u, First) \in [of : Uploads, at : Somewhere]
    BY RemoteAssumption DEF Object, Somewhere
  <1>5. TypeOK
    BY <1>1, <1>2, <1>3, <1>4, Records, RemoteAssumption DEF Init, TypeOK, Config
  <1>6. \A p \in Processes : Busy(p)
    BY DEF Init, Busy, Resting
  <1>7. ASSUME NEW u \in Uploads
        PROVE  Safe(u)
    <2>1. ~Unpublished(u) /\ Unattended(u) /\ ~Holds(u)
      BY RemoteAssumption DEF Init, Unpublished, Unattended, Holds, Published, Resting
    <2>2. /\ u \in Legacy => row[u] = "image" /\ lineage[u] = Unclassified /\ up[u] = Done
          /\ u \notin Legacy => row[u] = "none" /\ lineage[u] = NoTarget /\ up[u].pc = "idle"
      BY <1>3 DEF Init
    <2>3. \A o \in objects : o.of \in Legacy /\ o.at = First
      BY DEF Init, Object
    <2>4. Untouched(u) /\ Created(u) /\ Rowed(u) /\ Requested(u)
      BY <2>1, <2>2, <2>3 DEF Untouched, Created, Rowed, Requested, At, Done, Empty
    <2>5. Inherited(u)
      BY <1>1, <1>2, <2>2, <2>3 DEF Init, Inherited, NoTarget, Unclassified
    <2>6. \A p \in Processes : Delivering(p, u)
      BY <2>1 DEF Delivering, Unattended
    <2>7. Named(u) /\ Served(u)
      BY <1>1, <2>1, <2>2, <2>3 DEF Named, Served
    <2>8. Kept(u)
      <3>1. u \in Legacy => Object(u, First) \in objects /\ Object(u, First).of = u
        BY DEF Init, Object
      <3> QED
        BY <2>2, <3>1 DEF Kept
    <2> QED
      BY <2>1, <2>4, <2>5, <2>6, <2>7, <2>8 DEF Safe
  <1> QED
    BY <1>5, <1>6, <1>7 DEF IInv

LEMMA Step == IInv /\ [Next]_vars => IInv'
  <1> SUFFICES ASSUME IInv, [Next]_vars PROVE IInv'
    OBVIOUS
  <1>1. TypeOK'
    BY TypeStep DEF IInv, Safe
  <1>2. \A p \in Processes : Busy(p)'
    BY BusyStep
  <1>3. \A u \in Uploads : Safe(u)'
    <2>1. CASE UNCHANGED vars
      <3>1. UNCHANGED <<config, client, reading, overtaken, up, row, lineage, job, objects, work>>
        BY <2>1 DEF vars
      <3>2. ASSUME NEW v \in Uploads
            PROVE  Safe(v)'
        <4>1. SameSettings /\ SameObjects(v) /\ SameWork(v) /\ Yields(v) /\ SameEvent(v)
          BY <3>1 DEF SameSettings, Settled, SameObjects, SameWork, Yields, SameEvent, Unpublished, Holds
        <4>2. TypeOK /\ Safe(v)
          BY DEF IInv
        <4> QED
          BY <3>1, <4>1, <4>2, Frame
      <3> QED
        BY <3>2
    <2>2. ASSUME NEW p \in Processes, Process(p)
          PROVE  \A u \in Uploads : Safe(u)'
      BY <2>2, UpdateConfigsSafe, ReloadSafe, ClaimSafe, CheckSafe, EraseSafe, MarkSafe DEF Process
    <2> QED
      BY <2>1, <2>2, RequestSafe, LeaseExpiresSafe DEF Next
  <1> QED
    BY <1>1, <1>2, <1>3 DEF IInv

\* The inductive invariant holds in every reachable state.
THEOREM InductiveInvariant == Spec => []IInv
  BY Start, Step, PTL DEF Spec

\* No object is forgotten, whatever crashes or fails between the intent, the puts and the
\* row: a row or an event still to be delivered names it (persistR2UploadedImageFile).
THEOREM NoObjectForgotten == Spec => []NothingForgotten
  <1>1. IInv => NothingForgotten
    <2> SUFFICES ASSUME IInv, NEW o \in objects
                 PROVE  \/ row[o.of] # "none" /\ lineage[o.of] \in {o.at, Unclassified}
                        \/ Unpublished(o.of) /\ job[o.of].at = o.at
      BY DEF NothingForgotten
    <2>1. o.of \in Uploads
      BY DEF IInv, TypeOK
    <2> QED
      BY <2>1 DEF IInv, Safe, Named
  <1> QED
    BY <1>1, InductiveInvariant, PTL

\* A row's object is never deleted, however late, often and stale the deletions of the
\* outbox are (deleteStorageFiles under the storage lock).
THEOREM ObjectsOutliveRows == Spec => []RowsKeepTheirObjects
  <1>1. IInv => RowsKeepTheirObjects
    BY DEF IInv, Safe, Kept, RowsKeepTheirObjects
  <1> QED
    BY <1>1, InductiveInvariant, PTL

\* The settings in force serve every row and every deletion that is pending, although
\* clients lag behind (validateR2ConfigUpdate).
THEOREM SettingsAlwaysServe == Spec => []SettingsServe
  <1>1. IInv => SettingsServe
    BY DEF IInv, Safe, Served, SettingsServe
  <1> QED
    BY <1>1, InductiveInvariant, PTL

===============================================================================
