-------------------------- MODULE ContentStoreProofs --------------------------
(***************************************************************************)
(* That no row of ContentStore names a missing file, and no row is kept     *)
(* without use, for any uploads and paths.                                  *)
(*                                                                         *)
(* A removal checks the references when it removes, so what could go wrong  *)
(* is a file that is needed before a row names it: the files of a V1        *)
(* upload between WriteFiles and CreateRow, which takes no lock. They are   *)
(* safe because their names are new: nothing that was queued, or is being   *)
(* undone, names a path of a V1 upload before its row has existed.          *)
(***************************************************************************)
EXTENDS ContentStore, FiniteSetTheorems, TLAPS

\* The stages of a V1 upload that may have a row.
HadRow == {"rowed", "failed", "ended", "crashed"}

\* The stage of an upload says what its image can be, and whether it has a row.
StagesAgree ==
  /\ \A u \in V2 :
       /\ stage[u] \in {"none", "open"} => image[u] = "none"
       /\ stage[u] = "processing" => image[u] = "processing"
  /\ \A v \in V1 :
       /\ Live(v) => stage[v] = "ended"
       /\ v \in rows => stage[v] \in HadRow
       /\ stage[v] = "rowed" => file[v] = v

\* The files of a V1 upload are there for the row it is about to create.
WrittenIsStored == \A v \in V1 : stage[v] = "written" => PathsOf[v] \subseteq stored

\* Nothing names a path of a V1 upload before its row.
NamedAfterRow ==
  /\ page \subseteq Searched
  /\ \A x \in events \cup undo, v \in V1 :
       x.paths \cap PathsOf[v] # {} => stage[v] \in HadRow

IInv == TypeOK /\ NoDangling /\ RowsAreUsed /\ StagesAgree /\ WrittenIsStored /\ NamedAfterRow

\* Every step keeps images and rows in line with the stages.
LEMMA NextStages == ASSUME IInv, Next PROVE StagesAgree'
<1> USE ContentAssumption DEF IInv, TypeOK, StagesAgree, HadRow, Live, Uploads, database,
      disk
<1>1. ASSUME NEW u \in V2, Receive(u) PROVE StagesAgree'
  BY <1>1 DEF Receive
<1>2. ASSUME NEW u \in V2, Complete(u) PROVE StagesAgree'
  BY <1>2 DEF Complete, Completable, Promote, Refer, RowsOf
<1>3. ASSUME NEW u \in V2, CompleteRolledBack(u) PROVE StagesAgree'
  BY <1>3 DEF CompleteRolledBack, Completable, Promote, Fault
<1>4. ASSUME NEW u \in V2, Abandon(u) PROVE StagesAgree'
  BY <1>4 DEF Abandon
<1>5. ASSUME NEW u \in V2, Publish(u) PROVE StagesAgree'
  BY <1>5 DEF Publish
<1>6. ASSUME NEW u \in V2, JobDies(u) PROVE StagesAgree'
  BY <1>6 DEF JobDies, RemoveImage, IsLast
<1>7. ASSUME NEW u \in V2, DeleteUserVariants(u) PROVE StagesAgree'
  BY <1>7 DEF DeleteUserVariants
<1>8. ASSUME NEW v \in V1, FindFile(v) PROVE StagesAgree'
  BY <1>8 DEF FindFile, SetStage, RowsOf
<1>9. ASSUME NEW v \in V1, CountReference(v) PROVE StagesAgree'
  BY <1>9 DEF CountReference, SetStage
<1>10. ASSUME NEW v \in V1, WriteFiles(v) PROVE StagesAgree'
  BY <1>10 DEF WriteFiles, SetStage
<1>11. ASSUME NEW v \in V1, CreateRow(v) PROVE StagesAgree'
  BY <1>11 DEF CreateRow, SetStage, RowsOf
<1>12. ASSUME NEW v \in V1, CreateRowFails(v) PROVE StagesAgree'
  BY <1>12 DEF CreateRowFails, SetStage, Fault, Remove
<1>13. ASSUME NEW v \in V1, CreateImage(v) PROVE StagesAgree'
  BY <1>13 DEF CreateImage, SetStage
<1>14. ASSUME NEW v \in V1, CreateImageFails(v) PROVE StagesAgree'
  BY <1>14 DEF CreateImageFails, SetStage, Fault
<1>15. ASSUME NEW v \in V1, Compensate(v) PROVE StagesAgree'
  BY <1>15 DEF Compensate, SetStage
<1>16. ASSUME NEW v \in V1, CrashV1(v) PROVE StagesAgree'
  BY <1>16 DEF CrashV1, SetStage, Fault
<1>17. ASSUME NEW u \in Uploads, DeleteImage(u) PROVE StagesAgree'
  BY <1>17 DEF DeleteImage, RemoveImage, IsLast
<1>18. ASSUME NEW u \in Uploads, DeleteUserImage(u) PROVE StagesAgree'
  BY <1>18 DEF DeleteUserImage, RemoveImage, IsLast
<1>19. ASSUME NEW d \in undo, Relink(d) PROVE StagesAgree'
  BY <1>19 DEF Relink
<1>20. ASSUME NEW d \in undo, Unstore(d) PROVE StagesAgree'
  BY <1>20 DEF Unstore, Remove
<1>21. ASSUME NEW d \in undo, CrashUndo(d) PROVE StagesAgree'
  BY <1>21 DEF CrashUndo
<1>22. ASSUME NEW e \in events, Deliver(e) PROVE StagesAgree'
  BY <1>22 DEF Deliver, Remove
<1>23. ASSUME NEW e \in events, DeliverFails(e) PROVE StagesAgree'
  BY <1>23 DEF DeliverFails, Remove, Fault
<1>24. CASE TimePasses
  BY <1>24 DEF TimePasses
<1>25. CASE FindOrphans
  BY <1>25 DEF FindOrphans
<1>26. CASE QueueOrphans
  BY <1>26 DEF QueueOrphans
<1>27. CASE PassOver
  BY <1>27 DEF PassOver
<1> QED
  BY <1>1, <1>2, <1>3, <1>4, <1>5, <1>6, <1>7, <1>8, <1>9, <1>10, <1>11, <1>12, <1>13, <1>14,
     <1>15, <1>16, <1>17, <1>18, <1>19, <1>20, <1>21, <1>22, <1>23, <1>24, <1>25, <1>26, <1>27
  DEF Next, V2Step, V1Step, SearchStep

\* Nothing removes what a V1 upload wrote before it has its row.
LEMMA NextWritten == ASSUME IInv, Next PROVE WrittenIsStored'
<1> USE ContentAssumption DEF IInv, TypeOK, WrittenIsStored, NamedAfterRow, HadRow,
      Unreferenced, Event, Undo, Uploads, database, disk
<1>1. ASSUME NEW u \in V2, Receive(u) PROVE WrittenIsStored'
  BY <1>1 DEF Receive
<1>2. ASSUME NEW u \in V2, Complete(u) PROVE WrittenIsStored'
  BY <1>2 DEF Complete, Completable, Promote, Refer, RowsOf
<1>3. ASSUME NEW u \in V2, CompleteRolledBack(u) PROVE WrittenIsStored'
  BY <1>3 DEF CompleteRolledBack, Completable, Promote, Fault
<1>4. ASSUME NEW u \in V2, Abandon(u) PROVE WrittenIsStored'
  BY <1>4 DEF Abandon
<1>5. ASSUME NEW u \in V2, Publish(u) PROVE WrittenIsStored'
  BY <1>5 DEF Publish
<1>6. ASSUME NEW u \in V2, JobDies(u) PROVE WrittenIsStored'
  BY <1>6 DEF JobDies, RemoveImage, IsLast
<1>7. ASSUME NEW u \in V2, DeleteUserVariants(u) PROVE WrittenIsStored'
  BY <1>7 DEF DeleteUserVariants
<1>8. ASSUME NEW v \in V1, FindFile(v) PROVE WrittenIsStored'
  BY <1>8 DEF FindFile, SetStage, RowsOf
<1>9. ASSUME NEW v \in V1, CountReference(v) PROVE WrittenIsStored'
  BY <1>9 DEF CountReference, SetStage
<1>10. ASSUME NEW v \in V1, WriteFiles(v) PROVE WrittenIsStored'
  BY <1>10 DEF WriteFiles, SetStage
<1>11. ASSUME NEW v \in V1, CreateRow(v) PROVE WrittenIsStored'
  BY <1>11 DEF CreateRow, SetStage, RowsOf
<1>12. ASSUME NEW v \in V1, CreateRowFails(v) PROVE WrittenIsStored'
  BY <1>12 DEF CreateRowFails, SetStage, Fault, Remove
<1>13. ASSUME NEW v \in V1, CreateImage(v) PROVE WrittenIsStored'
  BY <1>13 DEF CreateImage, SetStage
<1>14. ASSUME NEW v \in V1, CreateImageFails(v) PROVE WrittenIsStored'
  BY <1>14 DEF CreateImageFails, SetStage, Fault
<1>15. ASSUME NEW v \in V1, Compensate(v) PROVE WrittenIsStored'
  BY <1>15 DEF Compensate, SetStage
<1>16. ASSUME NEW v \in V1, CrashV1(v) PROVE WrittenIsStored'
  BY <1>16 DEF CrashV1, SetStage, Fault
<1>17. ASSUME NEW u \in Uploads, DeleteImage(u) PROVE WrittenIsStored'
  BY <1>17 DEF DeleteImage, RemoveImage, IsLast
<1>18. ASSUME NEW u \in Uploads, DeleteUserImage(u) PROVE WrittenIsStored'
  BY <1>18 DEF DeleteUserImage, RemoveImage, IsLast
<1>19. ASSUME NEW d \in undo, Relink(d) PROVE WrittenIsStored'
  BY <1>19 DEF Relink
<1>20. ASSUME NEW d \in undo, Unstore(d) PROVE WrittenIsStored'
  BY <1>20 DEF Unstore, Remove
<1>21. ASSUME NEW d \in undo, CrashUndo(d) PROVE WrittenIsStored'
  BY <1>21 DEF CrashUndo
<1>22. ASSUME NEW e \in events, Deliver(e) PROVE WrittenIsStored'
  BY <1>22 DEF Deliver, Remove
<1>23. ASSUME NEW e \in events, DeliverFails(e) PROVE WrittenIsStored'
  BY <1>23 DEF DeliverFails, Remove, Fault
<1>24. CASE TimePasses
  BY <1>24 DEF TimePasses
<1>25. CASE FindOrphans
  BY <1>25 DEF FindOrphans
<1>26. CASE QueueOrphans
  BY <1>26 DEF QueueOrphans
<1>27. CASE PassOver
  BY <1>27 DEF PassOver
<1> QED
  BY <1>1, <1>2, <1>3, <1>4, <1>5, <1>6, <1>7, <1>8, <1>9, <1>10, <1>11, <1>12, <1>13, <1>14,
     <1>15, <1>16, <1>17, <1>18, <1>19, <1>20, <1>21, <1>22, <1>23, <1>24, <1>25, <1>26, <1>27
  DEF Next, V2Step, V1Step, SearchStep

\* What a step queues or undoes are paths of a V2 upload, or of a V1 upload whose row existed.
LEMMA NextNamed == ASSUME IInv, Next PROVE NamedAfterRow'
<1> USE ContentAssumption DEF IInv, TypeOK, NamedAfterRow, StagesAgree, RowsAreUsed,
      HadRow, Unreferenced, Enqueue, Freed, VariantPaths, HasVariants, ImagesOf, Live,
      Searched, Event, Undo, Uploads, database, disk
<1>1. ASSUME NEW u \in V2, Receive(u) PROVE NamedAfterRow'
  BY <1>1 DEF Receive
<1>2. ASSUME NEW u \in V2, Complete(u) PROVE NamedAfterRow'
  BY <1>2 DEF Complete, Completable, Promote, Refer, RowsOf
<1>3. ASSUME NEW u \in V2, CompleteRolledBack(u) PROVE NamedAfterRow'
  BY <1>3 DEF CompleteRolledBack, Completable, Promote, Fault
<1>4. ASSUME NEW u \in V2, Abandon(u) PROVE NamedAfterRow'
  BY <1>4 DEF Abandon
<1>5. ASSUME NEW u \in V2, Publish(u) PROVE NamedAfterRow'
  BY <1>5 DEF Publish
<1>6. ASSUME NEW u \in V2, JobDies(u) PROVE NamedAfterRow'
  BY <1>6 DEF JobDies, RemoveImage, IsLast
<1>7. ASSUME NEW u \in V2, DeleteUserVariants(u) PROVE NamedAfterRow'
  BY <1>7 DEF DeleteUserVariants
<1>8. ASSUME NEW v \in V1, FindFile(v) PROVE NamedAfterRow'
  BY <1>8 DEF FindFile, SetStage, RowsOf
<1>9. ASSUME NEW v \in V1, CountReference(v) PROVE NamedAfterRow'
  BY <1>9 DEF CountReference, SetStage
<1>10. ASSUME NEW v \in V1, WriteFiles(v) PROVE NamedAfterRow'
  BY <1>10 DEF WriteFiles, SetStage
<1>11. ASSUME NEW v \in V1, CreateRow(v) PROVE NamedAfterRow'
  BY <1>11 DEF CreateRow, SetStage, RowsOf
<1>12. ASSUME NEW v \in V1, CreateRowFails(v) PROVE NamedAfterRow'
  BY <1>12 DEF CreateRowFails, SetStage, Fault, Remove
<1>13. ASSUME NEW v \in V1, CreateImage(v) PROVE NamedAfterRow'
  BY <1>13 DEF CreateImage, SetStage
<1>14. ASSUME NEW v \in V1, CreateImageFails(v) PROVE NamedAfterRow'
  BY <1>14 DEF CreateImageFails, SetStage, Fault
<1>15. ASSUME NEW v \in V1, Compensate(v) PROVE NamedAfterRow'
  BY <1>15 DEF Compensate, SetStage
<1>16. ASSUME NEW v \in V1, CrashV1(v) PROVE NamedAfterRow'
  BY <1>16 DEF CrashV1, SetStage, Fault
<1>17. ASSUME NEW u \in Uploads, DeleteImage(u) PROVE NamedAfterRow'
  BY <1>17 DEF DeleteImage, RemoveImage, IsLast
<1>18. ASSUME NEW u \in Uploads, DeleteUserImage(u) PROVE NamedAfterRow'
  BY <1>18 DEF DeleteUserImage, RemoveImage, IsLast
<1>19. ASSUME NEW d \in undo, Relink(d) PROVE NamedAfterRow'
  BY <1>19 DEF Relink
<1>20. ASSUME NEW d \in undo, Unstore(d) PROVE NamedAfterRow'
  BY <1>20 DEF Unstore, Remove
<1>21. ASSUME NEW d \in undo, CrashUndo(d) PROVE NamedAfterRow'
  BY <1>21 DEF CrashUndo
<1>22. ASSUME NEW e \in events, Deliver(e) PROVE NamedAfterRow'
  BY <1>22 DEF Deliver, Remove
<1>23. ASSUME NEW e \in events, DeliverFails(e) PROVE NamedAfterRow'
  BY <1>23 DEF DeliverFails, Remove, Fault
<1>24. CASE TimePasses
  BY <1>24 DEF TimePasses
<1>25. CASE FindOrphans
  BY <1>25 DEF FindOrphans
<1>26. CASE QueueOrphans
  BY <1>26 DEF QueueOrphans
<1>27. CASE PassOver
  BY <1>27 DEF PassOver
<1> QED
  BY <1>1, <1>2, <1>3, <1>4, <1>5, <1>6, <1>7, <1>8, <1>9, <1>10, <1>11, <1>12, <1>13, <1>14,
     <1>15, <1>16, <1>17, <1>18, <1>19, <1>20, <1>21, <1>22, <1>23, <1>24, <1>25, <1>26, <1>27
  DEF Next, V2Step, V1Step, SearchStep

\* No step removes a file that a row names, and no row is created for a file that is gone.
LEMMA NextDangling == ASSUME IInv, Next PROVE NoDangling'
<1> USE ContentAssumption DEF IInv, TypeOK, NoDangling, WrittenIsStored, StagesAgree,
      HadRow, Unreferenced, Referenced, VariantPaths, HasVariants, Uploads, database, disk
<1>1. ASSUME NEW u \in V2, Receive(u) PROVE NoDangling'
  BY <1>1 DEF Receive
<1>2. ASSUME NEW u \in V2, Complete(u) PROVE NoDangling'
  BY <1>2 DEF Complete, Completable, Promote, Refer, RowsOf
<1>3. ASSUME NEW u \in V2, CompleteRolledBack(u) PROVE NoDangling'
  BY <1>3 DEF CompleteRolledBack, Completable, Promote, Fault
<1>4. ASSUME NEW u \in V2, Abandon(u) PROVE NoDangling'
  BY <1>4 DEF Abandon
<1>5. ASSUME NEW u \in V2, Publish(u) PROVE NoDangling'
  BY <1>5 DEF Publish
<1>6. ASSUME NEW u \in V2, JobDies(u) PROVE NoDangling'
  BY <1>6 DEF JobDies, RemoveImage, IsLast
<1>7. ASSUME NEW u \in V2, DeleteUserVariants(u) PROVE NoDangling'
  BY <1>7 DEF DeleteUserVariants
<1>8. ASSUME NEW v \in V1, FindFile(v) PROVE NoDangling'
  BY <1>8 DEF FindFile, SetStage, RowsOf
<1>9. ASSUME NEW v \in V1, CountReference(v) PROVE NoDangling'
  BY <1>9 DEF CountReference, SetStage
<1>10. ASSUME NEW v \in V1, WriteFiles(v) PROVE NoDangling'
  BY <1>10 DEF WriteFiles, SetStage
<1>11. ASSUME NEW v \in V1, CreateRow(v) PROVE NoDangling'
  BY <1>11 DEF CreateRow, SetStage, RowsOf
<1>12. ASSUME NEW v \in V1, CreateRowFails(v) PROVE NoDangling'
  BY <1>12 DEF CreateRowFails, SetStage, Fault, Remove
<1>13. ASSUME NEW v \in V1, CreateImage(v) PROVE NoDangling'
  BY <1>13 DEF CreateImage, SetStage
<1>14. ASSUME NEW v \in V1, CreateImageFails(v) PROVE NoDangling'
  BY <1>14 DEF CreateImageFails, SetStage, Fault
<1>15. ASSUME NEW v \in V1, Compensate(v) PROVE NoDangling'
  BY <1>15 DEF Compensate, SetStage
<1>16. ASSUME NEW v \in V1, CrashV1(v) PROVE NoDangling'
  BY <1>16 DEF CrashV1, SetStage, Fault
<1>17. ASSUME NEW u \in Uploads, DeleteImage(u) PROVE NoDangling'
  BY <1>17 DEF DeleteImage, RemoveImage, IsLast
<1>18. ASSUME NEW u \in Uploads, DeleteUserImage(u) PROVE NoDangling'
  BY <1>18 DEF DeleteUserImage, RemoveImage, IsLast
<1>19. ASSUME NEW d \in undo, Relink(d) PROVE NoDangling'
  BY <1>19 DEF Relink
<1>20. ASSUME NEW d \in undo, Unstore(d) PROVE NoDangling'
  BY <1>20 DEF Unstore, Remove
<1>21. ASSUME NEW d \in undo, CrashUndo(d) PROVE NoDangling'
  BY <1>21 DEF CrashUndo
<1>22. ASSUME NEW e \in events, Deliver(e) PROVE NoDangling'
  BY <1>22 DEF Deliver, Remove
<1>23. ASSUME NEW e \in events, DeliverFails(e) PROVE NoDangling'
  BY <1>23 DEF DeliverFails, Remove, Fault
<1>24. CASE TimePasses
  BY <1>24 DEF TimePasses
<1>25. CASE FindOrphans
  BY <1>25 DEF FindOrphans
<1>26. CASE QueueOrphans
  BY <1>26 DEF QueueOrphans
<1>27. CASE PassOver
  BY <1>27 DEF PassOver
<1> QED
  BY <1>1, <1>2, <1>3, <1>4, <1>5, <1>6, <1>7, <1>8, <1>9, <1>10, <1>11, <1>12, <1>13, <1>14,
     <1>15, <1>16, <1>17, <1>18, <1>19, <1>20, <1>21, <1>22, <1>23, <1>24, <1>25, <1>26, <1>27
  DEF Next, V2Step, V1Step, SearchStep

\* A row goes with its last image, and an image comes only to a row that is there.
LEMMA NextRows == ASSUME IInv, Next PROVE RowsAreUsed'
<1> USE ContentAssumption DEF IInv, TypeOK, RowsAreUsed, StagesAgree, HadRow, ImagesOf,
      Live, Uploads, database, disk
<1>1. ASSUME NEW u \in V2, Receive(u) PROVE RowsAreUsed'
  BY <1>1 DEF Receive
<1>2. ASSUME NEW u \in V2, Complete(u) PROVE RowsAreUsed'
  BY <1>2 DEF Complete, Completable, Promote, Refer, RowsOf
<1>3. ASSUME NEW u \in V2, CompleteRolledBack(u) PROVE RowsAreUsed'
  BY <1>3 DEF CompleteRolledBack, Completable, Promote, Fault
<1>4. ASSUME NEW u \in V2, Abandon(u) PROVE RowsAreUsed'
  BY <1>4 DEF Abandon
<1>5. ASSUME NEW u \in V2, Publish(u) PROVE RowsAreUsed'
  BY <1>5 DEF Publish
<1>6. ASSUME NEW u \in V2, JobDies(u) PROVE RowsAreUsed'
  BY <1>6 DEF JobDies, RemoveImage, IsLast
<1>7. ASSUME NEW u \in V2, DeleteUserVariants(u) PROVE RowsAreUsed'
  BY <1>7 DEF DeleteUserVariants
<1>8. ASSUME NEW v \in V1, FindFile(v) PROVE RowsAreUsed'
  BY <1>8 DEF FindFile, SetStage, RowsOf
<1>9. ASSUME NEW v \in V1, CountReference(v) PROVE RowsAreUsed'
  BY <1>9 DEF CountReference, SetStage
<1>10. ASSUME NEW v \in V1, WriteFiles(v) PROVE RowsAreUsed'
  BY <1>10 DEF WriteFiles, SetStage
<1>11. ASSUME NEW v \in V1, CreateRow(v) PROVE RowsAreUsed'
  BY <1>11 DEF CreateRow, SetStage, RowsOf
<1>12. ASSUME NEW v \in V1, CreateRowFails(v) PROVE RowsAreUsed'
  BY <1>12 DEF CreateRowFails, SetStage, Fault, Remove
<1>13. ASSUME NEW v \in V1, CreateImage(v) PROVE RowsAreUsed'
  BY <1>13 DEF CreateImage, SetStage
<1>14. ASSUME NEW v \in V1, CreateImageFails(v) PROVE RowsAreUsed'
  BY <1>14 DEF CreateImageFails, SetStage, Fault
<1>15. ASSUME NEW v \in V1, Compensate(v) PROVE RowsAreUsed'
  BY <1>15 DEF Compensate, SetStage
<1>16. ASSUME NEW v \in V1, CrashV1(v) PROVE RowsAreUsed'
  BY <1>16 DEF CrashV1, SetStage, Fault
<1>17. ASSUME NEW u \in Uploads, DeleteImage(u) PROVE RowsAreUsed'
  BY <1>17 DEF DeleteImage, RemoveImage, IsLast
<1>18. ASSUME NEW u \in Uploads, DeleteUserImage(u) PROVE RowsAreUsed'
  BY <1>18 DEF DeleteUserImage, RemoveImage, IsLast
<1>19. ASSUME NEW d \in undo, Relink(d) PROVE RowsAreUsed'
  BY <1>19 DEF Relink
<1>20. ASSUME NEW d \in undo, Unstore(d) PROVE RowsAreUsed'
  BY <1>20 DEF Unstore, Remove
<1>21. ASSUME NEW d \in undo, CrashUndo(d) PROVE RowsAreUsed'
  BY <1>21 DEF CrashUndo
<1>22. ASSUME NEW e \in events, Deliver(e) PROVE RowsAreUsed'
  BY <1>22 DEF Deliver, Remove
<1>23. ASSUME NEW e \in events, DeliverFails(e) PROVE RowsAreUsed'
  BY <1>23 DEF DeliverFails, Remove, Fault
<1>24. CASE TimePasses
  BY <1>24 DEF TimePasses
<1>25. CASE FindOrphans
  BY <1>25 DEF FindOrphans
<1>26. CASE QueueOrphans
  BY <1>26 DEF QueueOrphans
<1>27. CASE PassOver
  BY <1>27 DEF PassOver
<1> QED
  BY <1>1, <1>2, <1>3, <1>4, <1>5, <1>6, <1>7, <1>8, <1>9, <1>10, <1>11, <1>12, <1>13, <1>14,
     <1>15, <1>16, <1>17, <1>18, <1>19, <1>20, <1>21, <1>22, <1>23, <1>24, <1>25, <1>26, <1>27
  DEF Next, V2Step, V1Step, SearchStep

\* Images are counted in Nat, whatever row they refer to.
LEMMA ImagesCounted ==
  ASSUME IInv, NEW c
  PROVE  /\ Cardinality(ImagesOf(c)) \in Nat
         /\ ImagesOf(c) # {} => Cardinality(ImagesOf(c)) - 1 \in Nat
<1>1. IsFiniteSet(ImagesOf(c))
  BY ContentAssumption, FS_Subset DEF ImagesOf
<1>2. Cardinality(ImagesOf(c)) \in Nat
  BY <1>1, FS_CardinalityType
<1>3. ImagesOf(c) # {} => Cardinality(ImagesOf(c)) # 0
  BY <1>1, FS_EmptySet
<1> QED
  BY <1>2, <1>3

\* The removal of a live image, by whomever, keeps the types of what it changes.
LEMMA RemoveImageTypes ==
  ASSUME IInv, NEW u \in Uploads, Live(u), RemoveImage(u)
  PROVE  /\ image' \in [Uploads -> ImageStatus]
         /\ file' \in [Uploads -> Uploads \cup {NoUpload}]
         /\ rows' \subseteq Uploads
         /\ count' \in [Uploads -> Nat]
         /\ events' \subseteq Event
         /\ Freed(u) \subseteq Paths
<1> USE ContentAssumption DEF IInv, TypeOK
<1>1. file[u] \in Uploads
  BY DEF RowsAreUsed
<1>2. Freed(u) \subseteq Paths
  BY <1>1 DEF Freed, VariantPaths
<1>3. events' \subseteq Event
  BY <1>2 DEF RemoveImage, Enqueue, Event
<1>4. u \in ImagesOf(file[u])
  BY DEF ImagesOf
<1>5. Cardinality(ImagesOf(file[u])) - 1 \in Nat
  BY <1>4, ImagesCounted
<1>6. count' \in [Uploads -> Nat]
  BY <1>5 DEF RemoveImage
<1>7. /\ image' \in [Uploads -> ImageStatus]
      /\ file' \in [Uploads -> Uploads \cup {NoUpload}]
      /\ rows' \subseteq Uploads
  BY DEF RemoveImage, ImageStatus
<1> QED
  BY <1>2, <1>3, <1>6, <1>7

\* Every step keeps the types; only a count takes more than a look at the action.
LEMMA NextType == ASSUME IInv, Next PROVE TypeOK'
<1> USE ContentAssumption DEF IInv, TypeOK, Unreferenced, Enqueue, V1Stage, V2Stage,
      ImageStatus, Event, Undo, Uploads, database, disk
<1>1. ASSUME NEW u \in V2, Receive(u) PROVE TypeOK'
  BY <1>1 DEF Receive
<1>2. ASSUME NEW u \in V2, Complete(u) PROVE TypeOK'
  BY <1>2 DEF Complete, Completable, Promote, Refer, RowsOf
<1>3. ASSUME NEW u \in V2, CompleteRolledBack(u) PROVE TypeOK'
  BY <1>3 DEF CompleteRolledBack, Completable, Promote, Fault
<1>4. ASSUME NEW u \in V2, Abandon(u) PROVE TypeOK'
  BY <1>4 DEF Abandon
<1>5. ASSUME NEW u \in V2, Publish(u) PROVE TypeOK'
  BY <1>5 DEF Publish
<1>6. ASSUME NEW u \in V2, JobDies(u) PROVE TypeOK'
  <2>1. Live(u)
    BY <1>6 DEF Live, JobDies, StagesAgree
  <2> QED
    BY <1>6, <2>1, RemoveImageTypes DEF JobDies, Uploads, disk, V2Stage, V1Stage, Undo
<1>7. ASSUME NEW u \in V2, DeleteUserVariants(u) PROVE TypeOK'
  BY <1>7 DEF DeleteUserVariants, Freed
<1>8. ASSUME NEW v \in V1, FindFile(v) PROVE TypeOK'
  BY <1>8 DEF FindFile, SetStage, RowsOf
<1>9. ASSUME NEW v \in V1, CountReference(v) PROVE TypeOK'
  <2>1. CASE file[v] \in rows
    BY <1>9, <2>1 DEF CountReference, SetStage
  <2>2. CASE file[v] \notin rows
    <3>1. count' = count
      BY <1>9, <2>2 DEF CountReference
    <3> QED
      BY <1>9, <3>1 DEF CountReference, SetStage
  <2> QED
    BY <2>1, <2>2
<1>10. ASSUME NEW v \in V1, WriteFiles(v) PROVE TypeOK'
  BY <1>10 DEF WriteFiles, SetStage
<1>11. ASSUME NEW v \in V1, CreateRow(v) PROVE TypeOK'
  BY <1>11 DEF CreateRow, SetStage, RowsOf
<1>12. ASSUME NEW v \in V1, CreateRowFails(v) PROVE TypeOK'
  BY <1>12 DEF CreateRowFails, SetStage, Fault, Remove
<1>13. ASSUME NEW v \in V1, CreateImage(v) PROVE TypeOK'
  BY <1>13 DEF CreateImage, SetStage
<1>14. ASSUME NEW v \in V1, CreateImageFails(v) PROVE TypeOK'
  BY <1>14 DEF CreateImageFails, SetStage, Fault
<1>15. ASSUME NEW v \in V1, Compensate(v) PROVE TypeOK'
  <2>1. count' \in [Uploads -> Nat]
    BY <1>15, ImagesCounted DEF Compensate
  <2>2. events' \subseteq Event /\ rows' \subseteq Uploads
    BY <1>15 DEF Compensate
  <2> QED
    BY <1>15, <2>1, <2>2 DEF Compensate, SetStage
<1>16. ASSUME NEW v \in V1, CrashV1(v) PROVE TypeOK'
  BY <1>16 DEF CrashV1, SetStage, Fault
<1>17. ASSUME NEW u \in Uploads, DeleteImage(u) PROVE TypeOK'
  <2>1. Live(u)
    BY <1>17 DEF Live, DeleteImage
  <2> QED
    BY <1>17, <2>1, RemoveImageTypes DEF DeleteImage, disk
<1>18. ASSUME NEW u \in Uploads, DeleteUserImage(u) PROVE TypeOK'
  <2>1. Live(u)
    BY <1>18 DEF Live, DeleteUserImage
  <2> QED
    BY <1>18, <2>1, RemoveImageTypes DEF DeleteUserImage, disk
<1>19. ASSUME NEW d \in undo, Relink(d) PROVE TypeOK'
  BY <1>19 DEF Relink
<1>20. ASSUME NEW d \in undo, Unstore(d) PROVE TypeOK'
  BY <1>20 DEF Unstore, Remove
<1>21. ASSUME NEW d \in undo, CrashUndo(d) PROVE TypeOK'
  BY <1>21 DEF CrashUndo
<1>22. ASSUME NEW e \in events, Deliver(e) PROVE TypeOK'
  BY <1>22 DEF Deliver, Remove
<1>23. ASSUME NEW e \in events, DeliverFails(e) PROVE TypeOK'
  BY <1>23 DEF DeliverFails, Remove, Fault
<1>24. CASE TimePasses
  BY <1>24 DEF TimePasses
<1>25. CASE FindOrphans
  BY <1>25 DEF FindOrphans, Old
<1>26. CASE QueueOrphans
  BY <1>26 DEF QueueOrphans
<1>27. CASE PassOver
  BY <1>27 DEF PassOver
<1> QED
  BY <1>1, <1>2, <1>3, <1>4, <1>5, <1>6, <1>7, <1>8, <1>9, <1>10, <1>11, <1>12, <1>13, <1>14,
     <1>15, <1>16, <1>17, <1>18, <1>19, <1>20, <1>21, <1>22, <1>23, <1>24, <1>25, <1>26, <1>27
  DEF Next, V2Step, V1Step, SearchStep

-----------------------------------------------------------------------------

\* Nothing exists at first.
LEMMA InitInv == Init => IInv
  BY ContentAssumption
  DEF Init, IInv, TypeOK, NoDangling, RowsAreUsed, StagesAgree, WrittenIsStored, NamedAfterRow,
      V1Stage, V2Stage, ImageStatus, VariantPaths, HasVariants, Live, Uploads

\* A step that changes nothing.
LEMMA StutterInv == ASSUME IInv, UNCHANGED vars PROVE IInv'
  BY DEF vars, database, disk, IInv, TypeOK, NoDangling, RowsAreUsed, StagesAgree,
         WrittenIsStored, NamedAfterRow, VariantPaths, HasVariants, Live, ImagesOf

\* The invariant is inductive.
LEMMA Inductive == Spec => []IInv
<1>1. ASSUME IInv, [Next]_vars PROVE IInv'
  <2>1. CASE Next
    BY <1>1, <2>1, NextType, NextDangling, NextRows, NextStages, NextWritten, NextNamed DEF IInv
  <2>2. CASE UNCHANGED vars
    BY <1>1, <2>2, StutterInv
  <2> QED
    BY <1>1, <2>1, <2>2
<1> QED
  BY <1>1, InitInv, PTL DEF Spec

\* Type correctness: counts, which the deletions set to one less than the images they found,
\* stay natural numbers, and nothing outside the store is queued or searched for.
THEOREM ContentTypeCorrect == Spec => []TypeOK
<1>1. IInv => TypeOK
  BY DEF IInv
<1> QED
  BY <1>1, Inductive, PTL

\* Reference safety: whatever uploads share files and rows, and wherever they are rolled
\* back, retried, deleted or crash, the files that image_variants and image_files rows name
\* are in the store.
THEOREM ReferencesAreSafe == Spec => []NoDangling
<1>1. IInv => NoDangling
  BY DEF IInv
<1> QED
  BY <1>1, Inductive, PTL

\* Rows agree: every image refers to an image_files row that exists, and a row that no image
\* refers to is that of a V1 upload that is under way or crashed.
THEOREM RowsAgree == Spec => []RowsAreUsed
<1>1. IInv => RowsAreUsed
  BY DEF IInv
<1> QED
  BY <1>1, Inductive, PTL
===============================================================================
