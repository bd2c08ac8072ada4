---------------------------- MODULE AccountsProofs ----------------------------
(***************************************************************************)
(* What holds of Accounts for any number of uploads, workers, downloads,   *)
(* requests and faults, and for every size of a batch and of an allowance. *)
(*                                                                         *)
(* A file is named by the row that refers to it or by a storage-delete     *)
(* event. Rows go in batches of one phase, and what a foreign key deletes  *)
(* with them has had a phase before (BatchStep).                           *)
(***************************************************************************)
EXTENDS Accounts, FiniteSetTheorems, TLAPS

\* Every job is found: its image or its upload session is there.
JobsFound == Of("job") \subseteq Found("job")

\* A job under way has its row and its image.
RunningKept == \A n \in running : <<"job", n>> \in rows /\ <<"image", n>> \in rows

\* A file has a row or an event.
FilesNamed ==
  /\ files \subseteq {"variant", "image"} \X Uploads
  /\ files \subseteq rows \cup owed

\* Only what a phase deletes with files matters: its rows are numbered by uploads.
Numbers == \A r \in rows : r[1] \in {"variant", "image"} => r[2] \in Uploads

LostSafe == lost # {} => status \in {"deleting", "gone"}

Granted == {d \in Downloads : archive[d] \in {"writing", "delivered"}}

\* The count is what was granted since the latest reset, at least.
CountCovers ==
  /\ IsFiniteSet(Granted)
  /\ Cardinality(Granted) <= Allowance * Cancelled + count
  /\ count <= Allowance

IInv ==
  /\ TypeOK
  /\ Numbers
  /\ JobsFound
  /\ RunningKept
  /\ FilesNamed
  /\ GoneLeavesNothing
  /\ LostSafe
  /\ CountCovers

-----------------------------------------------------------------------------
(* The phases.                                                             *)

\* The ten phases in their order: variants before images, jobs before both.
LEMMA PhaseOrder ==
  /\ DOMAIN Phases = 1..10
  /\ Phases[1] = "job" /\ Phases[2] = "token" /\ Phases[3] = "variant"
  /\ Phases[4] = "image" /\ Phases[5] = "csrf" /\ Phases[6] = "part"
  /\ Phases[7] = "upload" /\ Phases[8] = "session" /\ Phases[9] = "identity"
  /\ Phases[10] = "log"
BY DEF Phases

\* The kinds are the phases.
LEMMA KindSet ==
  Kinds = {"job", "token", "variant", "image", "csrf", "part", "upload", "session",
           "identity", "log"}
<1>1. 1..10 = {1, 2, 3, 4, 5, 6, 7, 8, 9, 10}
  OBVIOUS
<1> QED
  BY <1>1, PhaseOrder DEF Kinds

\* A row is a pair of a kind and a number.
LEMMA RowPairs ==
  ASSUME TypeOK, NEW r \in rows
  PROVE  r = <<r[1], r[2]>> /\ r[1] \in Kinds /\ r[2] \in Uploads \cup 0..2
BY DEF TypeOK

\* A batch is a part of what its phase finds, all of one kind.
LEMMA BatchKind ==
  ASSUME NEW kind
  PROVE  BatchOf(kind) \subseteq Of(kind)
BY DEF BatchOf, FirstOf, Found, Of

\* Deletion adds no row.
LEMMA DeleteShrinks ==
  ASSUME NEW S, Delete(S)
  PROVE  rows' \subseteq rows
BY DEF Delete

\* Sessions and identities take no other rows with them than CSRF tokens.
LEMMA DeleteSessions ==
  ASSUME NEW S, S \subseteq Of("session") \cup Of("identity"), Delete(S),
         NEW r \in rows, r[1] \notin {"session", "identity", "csrf"}
  PROVE  r \in rows'
<1>1. r \notin S
  BY DEF Of
<1>2. ASSUME NEW q \in S PROVE r \notin Children(q)
  BY <1>2 DEF Of, Children
<1> QED
  BY <1>1, <1>2 DEF Delete

-----------------------------------------------------------------------------
(* The shape of the state.                                                 *)

LEMMA InitTyped ==
  ASSUME Init
  PROVE  TypeOK
<1>1. pass \in [Workers -> 0..MaxBatches]
  BY AccountsAssumption DEF Init
<1>2. archive \in [Downloads -> Stages]
  BY DEF Init, Stages
<1> QED
  BY <1>1, <1>2 DEF Init, TypeOK

LEMMA NextTyped ==
  ASSUME TypeOK, Numbers, [Next]_vars
  PROVE  TypeOK'
<1> USE DEF account, content, archives, traffic
<1>1. CASE UNCHANGED vars
  BY <1>1 DEF vars, TypeOK
<1>2. CASE SetUserStatus
  BY <1>2 DEF SetUserStatus, TypeOK
<1>3. CASE RequestUserDeletion
  <2>1. requests' \in Nat
    BY <1>3 DEF RequestUserDeletion, TypeOK
  <2> QED
    BY <1>3, <2>1 DEF RequestUserDeletion, TypeOK
<1>4. CASE KillSessions
  <2>1. rows' \subseteq rows
    BY <1>4, DeleteShrinks DEF KillSessions
  <2> QED
    BY <1>4, <2>1 DEF KillSessions, TypeOK
<1>5. CASE CancelUserDeletion
  BY <1>5 DEF CancelUserDeletion, TypeOK
<1>6. CASE LockPeriodEnds
  BY <1>6 DEF LockPeriodEnds, TypeOK
<1>7. ASSUME NEW kind \in Kinds, Arrive(kind)
      PROVE  TypeOK'
  BY <1>7 DEF Arrive, TypeOK
<1>8. ASSUME NEW kind \in Kinds, Insert(kind)
      PROVE  TypeOK'
  <2>1. ASSUME NEW n \in Numbered(kind) PROVE n \in Uploads \cup 0..2
    BY <2>1 DEF Numbered
  <2>2. rows' = rows \/ \E n \in Numbered(kind) : rows' = rows \cup {<<kind, n>>}
    BY <1>8 DEF Insert
  <2>3. rows' \subseteq Kinds \X (Uploads \cup 0..2)
    BY <2>1, <2>2 DEF TypeOK
  <2> QED
    BY <1>8, <2>3 DEF Insert, TypeOK
<1>9. ASSUME NEW n \in Uploads, InitUpload(n)
      PROVE  TypeOK'
  <2>1. rows' \subseteq Kinds \X (Uploads \cup 0..2)
    BY <1>9, KindSet DEF InitUpload, TypeOK
  <2> QED
    BY <1>9, <2>1 DEF InitUpload, TypeOK
<1>10. ASSUME NEW n \in Uploads, Complete(n)
       PROVE  TypeOK'
  <2>1. /\ rows' \subseteq Kinds \X (Uploads \cup 0..2)
        /\ files' \subseteq Kinds \X Uploads
    BY <1>10, KindSet DEF Complete, TypeOK
  <2> QED
    BY <1>10, <2>1 DEF Complete, TypeOK
<1>11. ASSUME NEW n \in Uploads, Publish(n)
       PROVE  TypeOK'
  <2>1. files' \subseteq Kinds \X Uploads
    BY <1>11, KindSet DEF Publish, TypeOK
  <2> QED
    BY <1>11, <2>1 DEF Publish, TypeOK
<1>12. ASSUME NEW n \in Uploads, EndUpload(n)
       PROVE  TypeOK'
  BY <1>12 DEF EndUpload, TypeOK
<1>13. ASSUME NEW d \in Downloads, AskArchive(d)
       PROVE  TypeOK'
  BY <1>13 DEF AskArchive, TypeOK, Stages
<1>14. ASSUME NEW d \in Downloads, ReserveArchive(d)
       PROVE  TypeOK'
  BY <1>14 DEF ReserveArchive, TypeOK, Stages
<1>15. ASSUME NEW d \in Downloads, ArchiveWritten(d)
       PROVE  TypeOK'
  BY <1>15 DEF ArchiveWritten, TypeOK, Stages
<1>16. ASSUME NEW d \in Downloads, ArchiveFails(d)
       PROVE  TypeOK'
  BY <1>16 DEF ArchiveFails, Fault, TypeOK, Stages
<1>17. ASSUME NEW w \in Workers, ListUser(w)
       PROVE  TypeOK'
  BY <1>17, AccountsAssumption DEF ListUser, TypeOK
<1>18. ASSUME NEW w \in Workers, SkipUser(w)
       PROVE  TypeOK'
  BY <1>18, AccountsAssumption DEF SkipUser, StopPass, TypeOK
<1>19. ASSUME NEW w \in Workers, DeleteBatch(w)
       PROVE  TypeOK'
  <2>1. PICK i \in DOMAIN Phases :
          /\ Delete(BatchOf(Phases[i]))
          /\ owed' = owed \cup Released(BatchOf(Phases[i]))
    BY <1>19 DEF DeleteBatch
  <2>2. rows' \subseteq rows
    BY <2>1, DeleteShrinks
  <2>3. pass' \in [Workers -> 0..MaxBatches]
    BY <1>19, AccountsAssumption DEF DeleteBatch, TypeOK
  <2>4. ASSUME NEW r \in Released(BatchOf(Phases[i])) PROVE r \in Kinds \X Uploads
    <3>1. r \in rows /\ r[1] \in {"variant", "image"}
      BY <2>4, BatchKind DEF Released, Of
    <3>2. r[2] \in Uploads
      BY <3>1 DEF Numbers
    <3> QED
      BY <3>1, <3>2, RowPairs
  <2>5. owed' \subseteq Kinds \X Uploads
    BY <2>1, <2>4 DEF TypeOK
  <2> QED
    BY <1>19, <2>2, <2>3, <2>5 DEF DeleteBatch, Begin, TypeOK
<1>20. ASSUME NEW w \in Workers, DeleteUser(w)
       PROVE  TypeOK'
  <2>1. rows' \subseteq rows
    BY <1>20 DEF DeleteUser, Of
  <2> QED
    BY <1>20, <2>1, AccountsAssumption DEF DeleteUser, StopPass, TypeOK
<1>21. ASSUME NEW w \in Workers, PassFails(w)
       PROVE  TypeOK'
  BY <1>21, AccountsAssumption DEF PassFails, Fault, StopPass, TypeOK
<1> QED
  BY <1>1, <1>2, <1>3, <1>4, <1>5, <1>6, <1>7, <1>8, <1>9, <1>10, <1>11, <1>12, <1>13, <1>14,
     <1>15, <1>16, <1>17, <1>18, <1>19, <1>20, <1>21 DEF Next, DeletionPass

-----------------------------------------------------------------------------
(* Rows, jobs and files.                                                   *)

\* A job's image or upload session is there.
LEMMA JobOwner ==
  ASSUME TypeOK, JobsFound, NEW n, <<"job", n>> \in rows
  PROVE  <<"job", n>> \in Found("job") /\ (<<"image", n>> \in rows \/ <<"upload", n>> \in rows)
<1>1. <<"job", n>> \in Found("job")
  BY DEF JobsFound, Of
<1> QED
  BY <1>1 DEF Found

\* If the owners of jobs stay and every new job has one, the jobs are found.
LEMMA JobOwnerNext ==
  ASSUME TypeOK',
         \A n : <<"job", n>> \in rows' => <<"image", n>> \in rows' \/ <<"upload", n>> \in rows'
  PROVE  JobsFound'
<1> SUFFICES ASSUME NEW r \in rows', r[1] = "job"
             PROVE  {<<"image", r[2]>>, <<"upload", r[2]>>} \cap rows' # {}
  BY DEF JobsFound, Found, Of
<1>1. r = <<"job", r[2]>>
  BY DEF TypeOK
<1> QED
  BY <1>1

\* The worker waits for every job under way.
LEMMA BlockedByJobs ==
  ASSUME TypeOK, JobsFound, RunningKept, ~Blocked
  PROVE  running = {}
<1> SUFFICES ASSUME NEW n \in running PROVE FALSE
  OBVIOUS
<1>1. <<"job", n>> \in Found("job")
  BY JobOwner DEF RunningKept
<1> QED
  BY <1>1 DEF Blocked

\* A batch leaves no job without an owner and no file without a row or an event: by the
\* time images go, the jobs and variants that a foreign key would touch have gone.
LEMMA BatchStep ==
  ASSUME TypeOK, JobsFound, RunningKept, FilesNamed, TypeOK',
         NEW w \in Workers, DeleteBatch(w)
  PROVE  /\ running = {} /\ rows' \subseteq rows
         /\ JobsFound'
         /\ files \subseteq rows' \cup owed'
<1>1. PICK i \in DOMAIN Phases :
        /\ \A j \in 1..(i - 1) : Found(Phases[j]) = {}
        /\ Delete(BatchOf(Phases[i]))
        /\ owed' = owed \cup Released(BatchOf(Phases[i]))
  BY DEF DeleteBatch
<1> DEFINE S == BatchOf(Phases[i])
<1>2. running = {}
  BY BlockedByJobs DEF DeleteBatch
<1>3. rows' \subseteq rows
  BY <1>1, DeleteShrinks
<1>4. i \in 1..10
  BY PhaseOrder
<1>5. \A r \in S : r \in rows /\ r[1] = Phases[i]
  BY BatchKind DEF Of
<1>6. ASSUME i # 1 PROVE \A n : <<"job", n>> \notin rows
  <2>1. 1 \in 1..(i - 1)
    BY <1>4, <1>6
  <2>2. Found("job") = {}
    BY <2>1, <1>1, PhaseOrder
  <2> QED
    BY <2>2, JobOwner
<1>7. JobsFound'
  <2>1. ASSUME NEW n, <<"job", n>> \in rows'
        PROVE  <<"image", n>> \in rows' \/ <<"upload", n>> \in rows'
    <3>1. i = 1
      BY <2>1, <1>3, <1>6
    <3>2. \A r \in S : r[1] = "job"
      BY <3>1, <1>5, PhaseOrder
    <3>3. \A r \in S : Children(r) = {}
      BY <3>2 DEF Children
    <3>4. rows' = rows \ S
      BY <1>1, <3>3 DEF Delete
    <3>5. <<"image", n>> \in rows \/ <<"upload", n>> \in rows
      BY <2>1, <1>3, JobOwner
    <3> QED
      BY <3>2, <3>4, <3>5
  <2> QED
    BY <2>1, JobOwnerNext
<1>8. ASSUME NEW f \in files, f \notin rows'
      PROVE  f \in owed'
  <2>1. CASE f \in owed
    BY <2>1, <1>1
  <2>2. CASE f \in rows /\ f \in S
    BY <2>2, <1>1 DEF Released, FilesNamed
  <2>3. CASE f \in rows /\ f \notin S
    <3>1. PICK r \in S : f \in Children(r)
      BY <2>3, <1>1, <1>8 DEF Delete
    <3>2. f = <<"variant", f[2]>> /\ r[1] = "image"
      BY <3>1 DEF Children, FilesNamed
    <3>3. i = 4
      BY <3>2, <1>4, <1>5, PhaseOrder
    <3>4. Found("variant") = {}
      <4>1. 3 \in 1..(i - 1)
        BY <3>3
      <4> QED
        BY <4>1, <1>1, PhaseOrder
    <3>5. f \in Found("variant")
      BY <3>2, <2>3 DEF Found, Of
    <3> QED
      BY <3>4, <3>5
  <2> QED
    BY <2>1, <2>2, <2>3 DEF FilesNamed
<1> QED
  BY <1>2, <1>3, <1>7, <1>8

\* What the deletion must keep of rows, jobs and files.
Structure ==
  /\ Numbers
  /\ JobsFound
  /\ RunningKept
  /\ FilesNamed
  /\ GoneLeavesNothing

\* What only looks at the content stays when nothing of it changes.
LEMMA SameContent ==
  ASSUME Structure, UNCHANGED content, status' = "gone" => status = "gone"
  PROVE  Structure'
BY DEF content, Structure, Numbers, JobsFound, Found, Of, RunningKept, FilesNamed, GoneLeavesNothing

LEMMA KillKeeps ==
  ASSUME TypeOK, Structure, TypeOK', KillSessions
  PROVE  Structure'
<1> USE DEF account
<1>1. rows' \subseteq rows
  BY DeleteShrinks DEF KillSessions
<1>2. ASSUME NEW r \in rows, r[1] \notin {"session", "identity", "csrf"}
      PROVE  r \in rows'
  <2> DEFINE S == Of("session") \cup Of("identity")
  <2>1. CASE UNCHANGED rows
    BY <2>1
  <2>2. CASE Delete(S)
    BY <1>2, <2>2, DeleteSessions
  <2> QED
    BY <2>1, <2>2 DEF KillSessions
<1>3. Numbers'
  BY <1>1 DEF Structure, Numbers
<1>4. JobsFound'
  <2>1. ASSUME NEW n, <<"job", n>> \in rows'
        PROVE  <<"image", n>> \in rows' \/ <<"upload", n>> \in rows'
    BY <2>1, <1>1, <1>2, JobOwner DEF Structure
  <2> QED
    BY <2>1, JobOwnerNext
<1>5. RunningKept'
  BY <1>2 DEF KillSessions, Structure, RunningKept
<1>6. FilesNamed'
  BY <1>2 DEF KillSessions, Structure, FilesNamed
<1>7. GoneLeavesNothing'
  BY <1>1 DEF KillSessions, Structure, GoneLeavesNothing
<1> QED
  BY <1>3, <1>4, <1>5, <1>6, <1>7 DEF Structure

\* Requests that passed authentication add no image, no job and nothing to an account
\* that is gone.
LEMMA InsertKeeps ==
  ASSUME TypeOK, Structure, TypeOK', NEW kind \in Kinds, Insert(kind)
  PROVE  Structure'
<1> USE DEF account
<1>1. CASE UNCHANGED rows
  BY <1>1, SameContent DEF Insert, content
<1>2. CASE status # "gone" /\ \E n \in Numbered(kind) :
             Insertable(<<kind, n>>) /\ rows' = rows \cup {<<kind, n>>}
  <2>1. PICK n : Insertable(<<kind, n>>) /\ rows' = rows \cup {<<kind, n>>}
    BY <1>2
  <2>2. kind \in {"log", "identity", "session", "csrf", "token"}
    BY <2>1 DEF Insertable
  <2>3. Numbers'
    BY <2>1, <2>2 DEF Structure, Numbers
  <2>4. JobsFound'
    <3>1. ASSUME NEW m, <<"job", m>> \in rows'
          PROVE  <<"image", m>> \in rows' \/ <<"upload", m>> \in rows'
      BY <3>1, <2>1, <2>2, JobOwner DEF Structure
    <3> QED
      BY <3>1, JobOwnerNext
  <2>5. RunningKept' /\ FilesNamed' /\ GoneLeavesNothing'
    BY <1>2, <2>1 DEF Insert, Structure, RunningKept, FilesNamed, GoneLeavesNothing
  <2> QED
    BY <2>3, <2>4, <2>5 DEF Structure
<1> QED
  BY <1>1, <1>2 DEF Insert

LEMMA UploadKeeps ==
  ASSUME TypeOK, Structure, TypeOK', NEW n \in Uploads, InitUpload(n) \/ Complete(n)
  PROVE  Structure'
<1> USE DEF account
<1>1. CASE InitUpload(n)
  <2>1. rows' = rows \cup {<<"upload", n>>, <<"part", n>>} /\ UNCHANGED <<running, files, owed, status>>
    BY <1>1 DEF InitUpload, Admitted
  <2>2. Numbers' /\ RunningKept' /\ FilesNamed' /\ GoneLeavesNothing'
    BY <1>1, <2>1 DEF InitUpload, Admitted, Structure, Numbers, RunningKept, FilesNamed, GoneLeavesNothing
  <2>3. ASSUME NEW m, <<"job", m>> \in rows'
        PROVE  <<"image", m>> \in rows' \/ <<"upload", m>> \in rows'
    BY <2>1, <2>3, JobOwner DEF Structure
  <2> QED
    BY <2>2, <2>3, JobOwnerNext DEF Structure
<1>2. CASE Complete(n)
  <2>1. /\ rows' = rows \cup {<<"image", n>>, <<"variant", n>>, <<"job", n>>}
        /\ running' = running \cup {n} /\ files' = files \cup {<<"variant", n>>}
        /\ owed' = owed /\ status' # "gone"
    BY <1>2 DEF Complete, Admitted
  <2>2. Numbers' /\ RunningKept' /\ FilesNamed' /\ GoneLeavesNothing'
    BY <2>1 DEF Structure, Numbers, RunningKept, FilesNamed, GoneLeavesNothing
  <2>3. ASSUME NEW m, <<"job", m>> \in rows'
        PROVE  <<"image", m>> \in rows' \/ <<"upload", m>> \in rows'
    BY <2>1, <2>3, JobOwner DEF Structure
  <2> QED
    BY <2>2, <2>3, JobOwnerNext DEF Structure
<1> QED
  BY <1>1, <1>2

\* The original is published while its image has a row.
LEMMA PublishKeeps ==
  ASSUME TypeOK, Structure, TypeOK', NEW n \in Uploads, Publish(n)
  PROVE  Structure'
<1> USE DEF account
<1>1. /\ rows' = rows /\ running' = running \ {n} /\ files' = files \cup {<<"image", n>>}
      /\ owed' = owed \ {<<"image", n>>} /\ status' = status
  BY DEF Publish
<1>2. <<"image", n>> \in rows
  BY DEF Publish, Structure, RunningKept
<1>3. Numbers' /\ JobsFound' /\ RunningKept'
  BY <1>1 DEF Structure, Numbers, JobsFound, Found, Of, RunningKept
<1>4. FilesNamed'
  BY <1>1, <1>2 DEF Structure, FilesNamed
<1>5. GoneLeavesNothing'
  BY <1>1, <1>2 DEF Structure, GoneLeavesNothing
<1> QED
  BY <1>3, <1>4, <1>5 DEF Structure

LEMMA BatchKeeps ==
  ASSUME TypeOK, Structure, TypeOK', NEW w \in Workers, DeleteBatch(w)
  PROVE  Structure'
<1>1. /\ running = {} /\ rows' \subseteq rows
      /\ JobsFound'
      /\ files \subseteq rows' \cup owed'
  BY BatchStep DEF Structure
<1>2. UNCHANGED <<running, files>> /\ status' = "deleting"
  BY DEF DeleteBatch, Begin
<1>3. Numbers' /\ RunningKept' /\ FilesNamed' /\ GoneLeavesNothing'
  BY <1>1, <1>2 DEF Structure, Numbers, RunningKept, FilesNamed, GoneLeavesNothing
<1> QED
  BY <1>1, <1>3 DEF Structure

\* The user goes when no phase finds a row, and no job is left that none can find.
LEMMA UserGoes ==
  ASSUME TypeOK, Structure, TypeOK', NEW w \in Workers, DeleteUser(w)
  PROVE  Structure'
<1>1. \A kind \in Kinds : Found(kind) = {}
  BY DEF DeleteUser
<1>2. rows = {}
  <2> SUFFICES ASSUME NEW r \in rows PROVE FALSE
    OBVIOUS
  <2>1. r[1] \in Kinds /\ r \in Of(r[1])
    BY RowPairs DEF Of
  <2>2. CASE r[1] = "job"
    BY <2>1, <2>2, <1>1 DEF Structure, JobsFound
  <2>3. CASE r[1] # "job"
    BY <2>1, <2>3, <1>1 DEF Found
  <2> QED
    BY <2>2, <2>3
<1>3. running = {}
  BY <1>2 DEF Structure, RunningKept
<1>4. rows' = {} /\ UNCHANGED <<running, files, owed>>
  BY <1>2 DEF DeleteUser, Of
<1>5. JobsFound'
  BY <1>4 DEF JobsFound, Of
<1> QED
  BY <1>2, <1>3, <1>4, <1>5
  DEF Structure, Numbers, RunningKept, FilesNamed, GoneLeavesNothing

LEMMA NextStructure ==
  ASSUME TypeOK, Structure, TypeOK', [Next]_vars
  PROVE  Structure'
<1>1. ASSUME UNCHANGED content, status' = status \/ status' \in {"active", "suspended", "pending"}
      PROVE  Structure'
  BY <1>1, SameContent
<1>2. CASE UNCHANGED vars
  BY <1>2, <1>1 DEF vars, account
<1>3. CASE SetUserStatus \/ RequestUserDeletion \/ CancelUserDeletion \/ LockPeriodEnds
  BY <1>3, <1>1 DEF SetUserStatus, RequestUserDeletion, CancelUserDeletion, LockPeriodEnds
<1>4. ASSUME NEW kind \in Kinds, Arrive(kind)
      PROVE  Structure'
  BY <1>4, <1>1 DEF Arrive, account
<1>5. ASSUME NEW n \in Uploads, EndUpload(n)
      PROVE  Structure'
  BY <1>5 DEF EndUpload, account, Structure, Numbers, JobsFound, Found, Of, RunningKept,
              FilesNamed, GoneLeavesNothing
<1>6. ASSUME NEW d \in Downloads,
             AskArchive(d) \/ ReserveArchive(d) \/ ArchiveWritten(d) \/ ArchiveFails(d)
      PROVE  Structure'
  BY <1>6, <1>1 DEF AskArchive, ReserveArchive, ArchiveWritten, ArchiveFails, account
<1>7. ASSUME NEW w \in Workers, ListUser(w) \/ SkipUser(w) \/ PassFails(w)
      PROVE  Structure'
  BY <1>7, <1>1 DEF ListUser, SkipUser, PassFails, account
<1> QED
  BY <1>2, <1>3, <1>4, <1>5, <1>6, <1>7, KillKeeps, InsertKeeps, UploadKeeps, PublishKeeps,
     BatchKeeps, UserGoes
  DEF Next, DeletionPass

-----------------------------------------------------------------------------
(* The lock period.                                                        *)

\* A deletion never goes back, only a pending one whose date has passed begins, and
\* nothing is deleted by the worker before.
LEMMA StatusStep ==
  ASSUME [Next]_vars
  PROVE  /\ status \in {"deleting", "gone"} => status' \in {"deleting", "gone"}
         /\ status = "pending" /\ status' \in {"deleting", "gone"} => due
         /\ lost' # lost => status' = "deleting"
<1> USE DEF account, archives
<1>1. CASE UNCHANGED <<status, lost>>
  BY <1>1
<1>2. CASE UNCHANGED vars
  BY <1>1, <1>2 DEF vars
<1>3. CASE SetUserStatus
  BY <1>3 DEF SetUserStatus
<1>4. CASE RequestUserDeletion
  BY <1>4 DEF RequestUserDeletion
<1>5. CASE KillSessions
  BY <1>1, <1>5 DEF KillSessions
<1>6. CASE CancelUserDeletion
  BY <1>6 DEF CancelUserDeletion, Cancellable
<1>7. CASE LockPeriodEnds
  BY <1>1, <1>7 DEF LockPeriodEnds
<1>8. ASSUME NEW kind \in Kinds, Arrive(kind) \/ Insert(kind)
      PROVE  UNCHANGED <<status, lost>>
  BY <1>8 DEF Arrive, Insert
<1>9. ASSUME NEW n \in Uploads, InitUpload(n) \/ Complete(n) \/ Publish(n) \/ EndUpload(n)
      PROVE  UNCHANGED <<status, lost>>
  BY <1>9 DEF InitUpload, Complete, Publish, EndUpload
<1>10. ASSUME NEW d \in Downloads,
              AskArchive(d) \/ ReserveArchive(d) \/ ArchiveWritten(d) \/ ArchiveFails(d)
       PROVE  UNCHANGED <<status, lost>>
  BY <1>10 DEF AskArchive, ReserveArchive, ArchiveWritten, ArchiveFails
<1>11. ASSUME NEW w \in Workers, ListUser(w) \/ SkipUser(w) \/ PassFails(w)
       PROVE  UNCHANGED <<status, lost>>
  BY <1>11 DEF ListUser, SkipUser, PassFails
<1>12. ASSUME NEW w \in Workers, DeleteBatch(w)
       PROVE  (status = "deleting" \/ (status = "pending" /\ due)) /\ status' = "deleting"
  BY <1>12 DEF DeleteBatch, Doomed, Begin
<1>13. ASSUME NEW w \in Workers, DeleteUser(w)
       PROVE  /\ status = "deleting" \/ (status = "pending" /\ due)
              /\ status' = "gone" /\ lost' = lost
  BY <1>13 DEF DeleteUser, Doomed
<1>14. CASE \E w \in Workers : DeleteBatch(w) \/ DeleteUser(w)
  BY <1>12, <1>13, <1>14
<1> QED
  BY <1>1, <1>2, <1>3, <1>4, <1>5, <1>6, <1>7, <1>8, <1>9, <1>10, <1>11, <1>14
  DEF Next, DeletionPass

LEMMA NextLost ==
  ASSUME LostSafe, [Next]_vars
  PROVE  LostSafe'
BY StatusStep DEF LostSafe

\* What a step does to the count and the archives that it pays for: the lock period of
\* the account ends by a cancellation only, which resets the count.
LEMMA NextCount ==
  ASSUME TypeOK, CountCovers, [Next]_vars
  PROVE  CountCovers'
<1> USE DEF account
<1>1. CASE UNCHANGED <<count, archive>> /\ Cancelled' = Cancelled
  BY <1>1 DEF CountCovers, Granted
<1>2. CASE UNCHANGED <<count, archive>> /\ UNCHANGED requests
           /\ (status \in {"active", "suspended"} <=> status' \in {"active", "suspended"})
  BY <1>1, <1>2 DEF Cancelled
<1>3. CASE UNCHANGED vars
  BY <1>2, <1>3 DEF vars, archives
<1>4. CASE SetUserStatus
  BY <1>2, <1>4 DEF SetUserStatus, archives
<1>5. CASE RequestUserDeletion
  <2>1. Cancelled' = Cancelled
    BY <1>5 DEF RequestUserDeletion, Cancelled, TypeOK
  <2> QED
    BY <1>1, <1>5, <2>1 DEF RequestUserDeletion, archives
<1>6. CASE KillSessions \/ LockPeriodEnds
  BY <1>2, <1>6 DEF KillSessions, LockPeriodEnds, archives
<1>7. CASE CancelUserDeletion
  <2>1. status = "pending" /\ status' = "active" /\ count' = 0
        /\ UNCHANGED <<archive, requests>>
    BY <1>7 DEF CancelUserDeletion, Cancellable
  <2>2. Cancelled' = Cancelled + 1 /\ Cancelled \in Int
    BY <2>1 DEF Cancelled, TypeOK
  <2>3. Granted' = Granted
    BY <2>1 DEF Granted
  <2>4. Cardinality(Granted) \in Nat /\ Allowance \in Nat /\ count \in Nat
    BY FS_CardinalityType, AccountsAssumption DEF CountCovers, TypeOK
  <2>5. Allowance * (Cancelled + 1) = Allowance * Cancelled + Allowance
    BY <2>2, <2>4
  <2>6. Allowance * Cancelled \in Int
    BY <2>2, <2>4
  <2>7. Cardinality(Granted) <= Allowance * (Cancelled + 1)
    BY <2>4, <2>5, <2>6 DEF CountCovers
  <2>8. Allowance * (Cancelled + 1) + 0 = Allowance * (Cancelled + 1)
    BY <2>4, <2>5, <2>6
  <2> QED
    BY <2>1, <2>2, <2>3, <2>4, <2>7, <2>8 DEF CountCovers
<1>8. ASSUME NEW kind \in Kinds, Arrive(kind) \/ Insert(kind)
      PROVE  CountCovers'
  BY <1>2, <1>8 DEF Arrive, Insert, archives
<1>9. ASSUME NEW n \in Uploads, InitUpload(n) \/ Complete(n) \/ Publish(n) \/ EndUpload(n)
      PROVE  CountCovers'
  BY <1>2, <1>9 DEF InitUpload, Complete, Publish, EndUpload, archives
<1>10. ASSUME NEW d \in Downloads, UNCHANGED <<status, requests>>,
              archive[d] \notin {"writing", "delivered"}, count < Allowance, count' = count + 1,
              archive' = [archive EXCEPT ![d] = "writing"]
       PROVE  CountCovers'
  <2>1. Granted' = Granted \cup {d} /\ d \notin Granted
    BY <1>10 DEF Granted, TypeOK
  <2>2. IsFiniteSet(Granted') /\ Cardinality(Granted') = Cardinality(Granted) + 1
    BY <2>1, FS_AddElement DEF CountCovers
  <2>3. Cancelled' = Cancelled /\ Cancelled \in Int
    BY <1>10 DEF Cancelled, TypeOK
  <2>4. Cardinality(Granted) \in Nat /\ Allowance \in Nat /\ count \in Nat
    BY FS_CardinalityType, AccountsAssumption DEF CountCovers, TypeOK
  <2>5. Allowance * Cancelled \in Int
    BY <2>3, <2>4
  <2>6. Cardinality(Granted) + 1 <= Allowance * Cancelled + (count + 1)
    BY <2>4, <2>5 DEF CountCovers
  <2> QED
    BY <1>10, <2>2, <2>3, <2>4, <2>6 DEF CountCovers
<1>11. ASSUME NEW d \in Downloads, UNCHANGED <<status, requests, count>>,
              NEW stage, stage \in {"writing", "delivered"}
                         <=> archive[d] \in {"writing", "delivered"},
              archive' = [archive EXCEPT ![d] = stage]
       PROVE  CountCovers'
  <2>1. Granted' = Granted
    BY <1>11 DEF Granted, TypeOK
  <2>2. Cancelled' = Cancelled
    BY <1>11 DEF Cancelled
  <2> QED
    BY <1>11, <2>1, <2>2 DEF CountCovers
<1>12. ASSUME NEW d \in Downloads, AskArchive(d) \/ ReserveArchive(d) \/ ArchiveWritten(d)
       PROVE  CountCovers'
  <2>1. CASE AskArchive(d)
    BY <2>1, <1>11 DEF AskArchive
  <2>2. CASE ReserveArchive(d) /\ MayReserve /\ status # "gone"
    BY <2>2, <1>10 DEF ReserveArchive, MayReserve
  <2>3. CASE ReserveArchive(d) /\ ~(MayReserve /\ status # "gone")
    BY <2>3, <1>11 DEF ReserveArchive
  <2>4. CASE ArchiveWritten(d)
    BY <2>4, <1>11 DEF ArchiveWritten
  <2> QED
    BY <1>12, <2>1, <2>2, <2>3, <2>4
<1>13. ASSUME NEW d \in Downloads, ArchiveFails(d)
       PROVE  CountCovers'
  <2>1. Granted' = Granted \ {d} /\ d \in Granted
    BY <1>13 DEF ArchiveFails, Granted, TypeOK
  <2>2. IsFiniteSet(Granted') /\ Cardinality(Granted') = Cardinality(Granted) - 1
    BY <2>1, FS_RemoveElement DEF CountCovers
  <2>3. Cancelled' = Cancelled /\ Cancelled \in Int
    BY <1>13 DEF ArchiveFails, Cancelled, TypeOK
  <2>4. Cardinality(Granted) \in Nat /\ Allowance \in Nat /\ count \in Nat
    BY FS_CardinalityType, AccountsAssumption DEF CountCovers, TypeOK
  <2>5. Allowance * Cancelled \in Int
    BY <2>3, <2>4
  <2>6. count' \in Nat /\ count' <= count /\ count' >= count - 1
    BY <1>13, <2>4 DEF ArchiveFails
  <2>7. Cardinality(Granted) - 1 <= Allowance * Cancelled + count'
    BY <2>4, <2>5, <2>6 DEF CountCovers
  <2>8. count' <= Allowance
    BY <2>4, <2>6 DEF CountCovers
  <2> QED
    BY <2>2, <2>3, <2>7, <2>8 DEF CountCovers
<1>14. ASSUME NEW w \in Workers, ListUser(w) \/ SkipUser(w) \/ PassFails(w)
       PROVE  CountCovers'
  BY <1>2, <1>14 DEF ListUser, SkipUser, PassFails, archives
<1>15. ASSUME NEW w \in Workers, DeleteBatch(w) \/ DeleteUser(w)
       PROVE  CountCovers'
  BY <1>2, <1>15 DEF DeleteBatch, DeleteUser, Doomed, Begin, archives
<1> QED
  BY <1>3, <1>4, <1>5, <1>6, <1>7, <1>8, <1>9, <1>12, <1>13, <1>14, <1>15
  DEF Next, DeletionPass

-----------------------------------------------------------------------------
(* The theorems.                                                           *)

LEMMA InitInv ==
  ASSUME Init
  PROVE  IInv
<1>1. TypeOK
  BY InitTyped
<1>2. Numbers /\ JobsFound /\ RunningKept /\ FilesNamed /\ GoneLeavesNothing /\ LostSafe
  BY DEF Init, Numbers, JobsFound, Of, RunningKept, FilesNamed, GoneLeavesNothing, LostSafe
<1>3. CountCovers
  <2>1. Granted = {}
    BY DEF Init, Granted
  <2>2. IsFiniteSet(Granted) /\ Cardinality(Granted) = 0
    BY <2>1, FS_EmptySet
  <2>3. Cancelled = 0 /\ count = 0
    BY DEF Init, Cancelled
  <2>4. Allowance * 0 + 0 = 0 /\ Allowance >= 0
    BY AccountsAssumption
  <2> QED
    BY <2>2, <2>3, <2>4 DEF CountCovers
<1> QED
  BY <1>1, <1>2, <1>3 DEF IInv

LEMMA NextInv ==
  ASSUME IInv, [Next]_vars
  PROVE  IInv'
<1>1. TypeOK'
  BY NextTyped DEF IInv
<1>2. Structure'
  BY <1>1, NextStructure DEF IInv, Structure
<1>3. LostSafe' /\ CountCovers'
  BY NextLost, NextCount DEF IInv
<1> QED
  BY <1>1, <1>2, <1>3 DEF IInv, Structure

\* The inductive invariant.
THEOREM InductiveInvariant == Spec => []IInv
<1>1. Init => IInv
  BY InitInv
<1>2. IInv /\ [Next]_vars => IInv'
  BY NextInv
<1> QED
  BY <1>1, <1>2, PTL DEF Spec

\* The state keeps its shape.
THEOREM TypeCorrect == Spec => []TypeOK
<1>1. IInv => TypeOK
  BY DEF IInv
<1> QED
  BY <1>1, InductiveInvariant, PTL

\* A deleted account leaves no row that refers to it and no file that no event names,
\* however batches of deleteUserRecords, uploads and late insertions interleave.
THEOREM NothingIsLeft == Spec => []GoneLeavesNothing
<1>1. IInv => GoneLeavesNothing
  BY DEF IInv
<1> QED
  BY <1>1, InductiveInvariant, PTL

\* However reservations, failing downloads and cancellations interleave, no more archives
\* are delivered or under way than one allowance for every lock period grants
\* (BatchDownloadOriginals).
THEOREM ArchivesAreRationed == Spec => []ArchivesRationed
<1>1. IInv => ArchivesRationed
  <2> SUFFICES ASSUME IInv PROVE ArchivesRationed
    OBVIOUS
  <2>1. Cancelled \in Int
    BY DEF IInv, TypeOK, Cancelled
  <2>2. Cardinality(Granted) \in Nat /\ Allowance \in Nat /\ count \in Nat
    BY FS_CardinalityType, AccountsAssumption DEF IInv, CountCovers, TypeOK
  <2>3. Allowance * (Cancelled + 1) = Allowance * Cancelled + Allowance
    BY <2>1, <2>2
  <2>4. Allowance * Cancelled \in Int
    BY <2>1, <2>2
  <2>5. Cardinality(Granted) <= Allowance * (Cancelled + 1)
    BY <2>2, <2>3, <2>4 DEF IInv, CountCovers
  <2> QED
    BY <2>5 DEF ArchivesRationed, Granted
<1> QED
  BY <1>1, InductiveInvariant, PTL

\* As long as an account can be active again the worker has deleted nothing of it, and a
\* deletion begins only when the lock period of the latest request is over
\* (beginUserDeletion, the recheck under the row lock).
THEOREM CancelledKeepsAll == Spec => CancelledLosesNothing
<1>1. IInv /\ [Next]_vars
      => [/\ lost # {} => status \in {"deleting", "gone"} /\ status' \in {"deleting", "gone"}
          /\ status = "pending" /\ status' \in {"deleting", "gone"} => due]_vars
  BY StatusStep DEF IInv, LostSafe
<1> QED
  BY <1>1, InductiveInvariant, PTL DEF Spec, CancelledLosesNothing

===============================================================================
