------------------------- MODULE BackupRestoreProofs -------------------------
(***************************************************************************)
(* Proofs about backups, restores and cleanups beside the backend that     *)
(* serves the media, for any number of files, listings, archives, restores *)
(* and cleanups, and for every step at which a command can fail or die.    *)
(*                                                                         *)
(* All but the types hold under the hypothesis OperatorWaits: the services *)
(* stay down while a command works on the live data, as the documentation  *)
(* of the command asks the operator (the code only probes them once).      *)
(***************************************************************************)
EXTENDS BackupRestore, TLAPS

(***************************************************************************)
(* The inductive invariants                                                *)
(***************************************************************************)
RestoreSteps == SnapshotSteps \cup ActivationSteps \cup UndoSteps

\* A command that works on the live data has it for itself; a backend that is
\* down is in the middle of nothing, one that is up has a database.
Alone ==
    /\ pc \in RestoreSteps \cup CleanupSteps => backend = "down"
    /\ backend = "down" => \A f \in Files : upload[f] # "stored" /\ removal[f] # "unlinked"
    /\ backend = "up" => main.state = "whole"

\* The snapshot is what was live when the restore began, from its completion on.
SnapshotIsBefore ==
    /\ pc \notin RestoreSteps \ {"snapshot"} => snapshot = NoData
    /\ pc \in SnapshotSteps => before = Live
    /\ pc = "snapshot_media" => snapshot = [main |-> main, wal |-> wal, media |-> {}]
    /\ RollbackPossible

\* What the steps taken so far have put in place.
InPlace ==
    /\ pc \in ActivationSteps \ {"sidecars"} => wal = NoFile
    /\ pc \in {"move_media", "place_media", "finish"} =>
           main.state = "whole" /\ main.rows = archive.rows
    /\ pc = "place_media" => disk = {}
    /\ pc = "finish" => disk = archive.media
    /\ pc \in {"undo_wal", "undo_media"} => main = snapshot.main
    /\ pc = "undo_media" => wal = snapshot.wal
    /\ pc = "clean_wal" => main = NoFile

RestoreInv == Alone /\ SnapshotIsBefore /\ InPlace

\* What Usable says of the two files of a database.
Opens(m, w) ==
    /\ m.state # "torn" /\ w.state # "torn"
    /\ m.state = "whole" /\ w.state = "whole" => w.id = m.id

\* What an undo puts back can be opened, unless an earlier undo was cut off.
UsableInv ==
    /\ DatabaseUsable
    /\ pc \in RestoreSteps => Opens(before.main, before.wal) \/ "undo" \in damage

RowsIn(m, w) == IF m.state = "whole" /\ w.state = "whole" THEN w.rows ELSE m.rows

\* A row without its file had its deletion begun.
Accounted(rows, media) == \A f \in rows \ media : removal[f] # "none"

\* The same for the live data, for what an undo puts back, and, but for the
\* files that no backup takes, for archives finished and in the making.
RowsAccounted ==
    /\ RowHasFile
    /\ damage = {} /\ pc \in RestoreSteps =>
           Accounted(RowsIn(before.main, before.wal) \ LeftOut, before.media)
    /\ \A a \in archives : a.damage = {} => Accounted(a.rows \ Skipped, a.media)
    /\ pc = "collect" /\ archive.damage = {} => Accounted(archive.rows \ Skipped, disk)
    /\ pc \notin {"collect"} /\ archive.damage = {} => Accounted(archive.rows \ Skipped, archive.media)
    /\ pc \in RestoreSteps => restores # 0

\* A file that was not recorded has no row anywhere, one that is not stored is
\* nowhere.
Unrecorded(f) ==
    /\ f \notin main.rows \cup wal.rows \cup archive.rows
    /\ f \notin snapshot.main.rows \cup snapshot.wal.rows
    /\ \A a \in archives : f \notin a.rows

NotRecorded ==
    /\ \A f \in Files : upload[f] \in {"new", "stored", "rejected"} => Unrecorded(f)
    /\ \A f \in Files : upload[f] \in {"new", "rejected"} => f \notin disk \cup snapshot.media
    /\ \A f \in Files : upload[f] = "stored" => f \in disk

FilesInv == RowsAccounted /\ NotRecorded

(***************************************************************************)
(* Types                                                                   *)
(***************************************************************************)
LEMMA InitTypeOK == Init => TypeOK
<1> SUFFICES ASSUME Init PROVE TypeOK
  OBVIOUS
<1>1. NoFile \in DatabaseFile /\ [state |-> "whole", id |-> 0, rows |-> {}] \in DatabaseFile
  BY DEF NoFile, DatabaseFile
<1>2. MediaTypeOK
  BY <1>1 DEF Init, MediaInit, MediaTypeOK, UploadState, RemovalState
<1>3. NoArchive \in Archive /\ NoData \in LiveData
  BY <1>1 DEF NoArchive, Archive, NoData, LiveData
<1>4. restores \in 0..MaxRestores /\ cleanups \in 0..MaxCleanups
  BY OperatorAssumption DEF Init
<1> QED BY <1>2, <1>3, <1>4 DEF Init, TypeOK

\* The rows a connection sees are rows of one of the two files.
LEMMA RowsTyped == MediaTypeOK => Rows \subseteq Files
BY DEF MediaTypeOK, DatabaseFile, Rows

\* A commit keeps the types of what SQLite has on disk.
LEMMA CommitTyped ==
  ASSUME MediaTypeOK, NEW rows \in SUBSET Files, CommitRows(rows)
  PROVE  main' = main /\ wal' \in DatabaseFile
BY DEF MediaTypeOK, DatabaseFile, CommitRows

\* The backend keeps the types.
LEMMA ServeTyped == MediaTypeOK /\ Serve => MediaTypeOK'
<1> SUFFICES ASSUME MediaTypeOK, Serve PROVE MediaTypeOK'
  OBVIOUS
<1>1. ASSUME NEW f \in Files, StoreUpload(f) PROVE MediaTypeOK'
  BY <1>1 DEF StoreUpload, MediaTypeOK, UploadState
<1>2. ASSUME NEW f \in Files, RecordUpload(f) PROVE MediaTypeOK'
  <2>1. Rows \cup {f} \in SUBSET Files
    BY RowsTyped
  <2>2. upload' \in [Files -> UploadState]
    BY <1>2 DEF RecordUpload, MediaTypeOK, UploadState
  <2>3. main' = main /\ wal' \in DatabaseFile
    BY <1>2, <2>1, CommitTyped DEF RecordUpload, MediaTypeOK
  <2> QED BY <1>2, <2>2, <2>3 DEF RecordUpload, MediaTypeOK
<1>3. ASSUME NEW f \in Files, UnlinkMedia(f) PROVE MediaTypeOK'
  BY <1>3 DEF UnlinkMedia, MediaTypeOK, RemovalState
<1>4. ASSUME NEW f \in Files, DeleteMediaRow(f) PROVE MediaTypeOK'
  <2>1. Rows \ {f} \in SUBSET Files
    BY RowsTyped
  <2>2. removal' \in [Files -> RemovalState]
    BY <1>4 DEF DeleteMediaRow, MediaTypeOK, RemovalState
  <2>3. main' = main /\ wal' \in DatabaseFile
    BY <1>4, <2>1, CommitTyped DEF DeleteMediaRow, MediaTypeOK
  <2> QED BY <1>4, <2>2, <2>3 DEF DeleteMediaRow, MediaTypeOK
<1>5. ASSUME NEW l \in Listings, DeleteListing(l) PROVE MediaTypeOK'
  <2>1. {f \in Rows : ListingOf[f] # l} \in SUBSET Files
    BY RowsTyped
  <2>2. main' = main /\ wal' \in DatabaseFile
    BY <1>5, <2>1, CommitTyped DEF DeleteListing
  <2> QED BY <1>5, <2>2 DEF DeleteListing, MediaTypeOK
<1>6. CASE Checkpoint
  BY <1>6 DEF Checkpoint, MediaTypeOK, DatabaseFile, NoFile
<1>7. CASE StopBackend
  BY <1>7 DEF StopBackend, MediaTypeOK, UploadState, RemovalState
<1> QED BY <1>1, <1>2, <1>3, <1>4, <1>5, <1>6, <1>7 DEF Serve

\* So does a start of the backend.
LEMMA StartTyped == MediaTypeOK /\ StartBackend => MediaTypeOK'
BY DEF StartBackend, MediaTypeOK, DatabaseFile, NoFile

\* What a step of a command cut in the middle leaves has the types.
LEMMA CutTyped ==
  ASSUME TypeOK, CutStep
  PROVE  main' \in DatabaseFile /\ wal' \in DatabaseFile /\ disk' \subseteq Files
<1>1. snapshot.main \in DatabaseFile /\ snapshot.wal \in DatabaseFile
      /\ snapshot.media \subseteq Files
  BY DEF TypeOK, LiveData
<1>2. NoFile \in DatabaseFile
  BY DEF NoFile, DatabaseFile
<1>3. \A d \in DatabaseFile : [d EXCEPT !.state = "torn"] \in DatabaseFile
  BY DEF DatabaseFile
<1> QED BY <1>1, <1>2, <1>3 DEF CutStep, TypeOK, MediaTypeOK

\* The types are kept by every step.
LEMMA NextTypeOK == TypeOK /\ [Next]_vars => TypeOK'
<1> SUFFICES ASSUME TypeOK, [Next]_vars PROVE TypeOK'
  OBVIOUS
<1> USE DEF BackupSteps, SnapshotSteps, ActivationSteps, UndoSteps, CleanupSteps
<1>0. NoArchive \in Archive /\ NoData \in LiveData /\ NoFile \in DatabaseFile
      /\ Live \in LiveData
  BY DEF NoArchive, Archive, NoData, LiveData, NoFile, DatabaseFile, Live, TypeOK, MediaTypeOK
<1>1. CASE BackendServes
  BY <1>1, ServeTyped DEF BackendServes, TypeOK, jobVars, kept, bounds
<1>2. CASE BackendStarts
  BY <1>2, StartTyped DEF BackendStarts, TypeOK, jobVars, kept, bounds
<1>3. CASE CopyDatabase
  <2>1. [rows |-> Rows, media |-> {}, damage |-> damage] \in Archive
    BY RowsTyped DEF TypeOK, Archive
  <2> QED BY <1>3, <2>1 DEF CopyDatabase, TypeOK, MediaTypeOK, mediaVars, kept, bounds
<1>4. CASE CollectMedia
  <2>1. [archive EXCEPT !.media = (archive.rows \cap disk) \ Skipped] \in Archive
    BY DEF TypeOK, Archive, MediaTypeOK
  <2> QED BY <1>4, <2>1 DEF CollectMedia, TypeOK, MediaTypeOK, mediaVars, kept, bounds
<1>5. CASE WriteArchive
  BY <1>5, <1>0 DEF WriteArchive, TypeOK, MediaTypeOK, mediaVars, bounds
<1>6. ASSUME NEW a \in archives, RemoveArchive(a) PROVE TypeOK'
  BY <1>6 DEF RemoveArchive, TypeOK, MediaTypeOK, mediaVars, bounds
<1>7. ASSUME NEW a \in archives, RestoreStart(a) PROVE TypeOK'
  <2>1. restores' \in 0..MaxRestores
    BY <1>7, OperatorAssumption DEF RestoreStart, TypeOK
  <2>2. a \in Archive
    BY DEF TypeOK
  <2> QED BY <1>7, <1>0, <2>1, <2>2 DEF RestoreStart, TypeOK, MediaTypeOK, mediaVars
<1>8. CASE SnapshotDatabase
  <2>1. [main |-> main, wal |-> wal, media |-> {}] \in LiveData
    BY DEF TypeOK, MediaTypeOK, LiveData
  <2> QED BY <1>8, <2>1 DEF SnapshotDatabase, TypeOK, MediaTypeOK, mediaVars, bounds
<1>9. CASE SnapshotMedia
  <2>1. [snapshot EXCEPT !.media = disk] \in LiveData
    BY DEF TypeOK, MediaTypeOK, LiveData
  <2> QED BY <1>9, <2>1 DEF SnapshotMedia, TypeOK, MediaTypeOK, mediaVars, bounds
<1>10. CASE DropSidecars
  BY <1>10, <1>0 DEF DropSidecars, TypeOK, MediaTypeOK, service, kept, bounds
<1>11. CASE ReplaceDatabase
  <2>1. [state |-> "whole", id |-> created + 1, rows |-> archive.rows] \in DatabaseFile
    BY DEF TypeOK, MediaTypeOK, Archive, DatabaseFile
  <2> QED BY <1>11, <2>1 DEF ReplaceDatabase, TypeOK, MediaTypeOK, kept, bounds
<1>12. CASE MoveMedia
  BY <1>12 DEF MoveMedia, TypeOK, MediaTypeOK, service, kept, bounds
<1>13. CASE PlaceMedia
  BY <1>13 DEF PlaceMedia, TypeOK, MediaTypeOK, Archive, service, kept, bounds
<1>14. CASE FinishRestore
  BY <1>14, <1>0 DEF FinishRestore, TypeOK, MediaTypeOK, Archive, mediaVars, bounds
<1>15. CASE ActivationFails
  BY <1>15 DEF ActivationFails, TypeOK, MediaTypeOK, mediaVars, kept, bounds
<1>16. CASE UndoMain
  BY <1>16 DEF UndoMain, TypeOK, MediaTypeOK, LiveData, service, kept, bounds
<1>17. CASE UndoWal
  BY <1>17 DEF UndoWal, TypeOK, MediaTypeOK, LiveData, service, kept, bounds
<1>18. CASE UndoMedia
  BY <1>18, <1>0 DEF UndoMedia, TypeOK, MediaTypeOK, LiveData, service, bounds
<1>19. CASE CleanStart
  <2>1. cleanups' \in 0..MaxCleanups
    BY <1>19, OperatorAssumption DEF CleanStart, TypeOK
  <2> QED BY <1>19, <2>1 DEF CleanStart, TypeOK, MediaTypeOK, mediaVars, kept
<1>20. CASE CleanDatabase
  BY <1>20, <1>0 DEF CleanDatabase, TypeOK, MediaTypeOK, service, kept, bounds
<1>21. CASE CleanWal
  BY <1>21, <1>0 DEF CleanWal, TypeOK, MediaTypeOK, service, kept, bounds
<1>22. CASE CleanMedia
  <2>1. removal' \in [Files -> RemovalState]
    BY <1>22 DEF CleanMedia, TypeOK, MediaTypeOK, RemovalState
  <2> QED BY <1>22, <2>1 DEF CleanMedia, TypeOK, MediaTypeOK, kept, bounds
<1>23. CASE CutOff
  <2>1. main' \in DatabaseFile /\ wal' \in DatabaseFile /\ disk' \subseteq Files
    BY <1>23, CutTyped DEF CutOff
  <2>2. damage' \subseteq Damage
    BY <1>23 DEF CutOff, TypeOK, Damage
  <2> QED BY <1>23, <1>0, <2>1, <2>2 DEF CutOff, TypeOK, MediaTypeOK, service, bounds
<1>24. CASE UNCHANGED vars
  BY <1>24 DEF vars, mediaVars, jobVars, kept, bounds, TypeOK, MediaTypeOK
<1> QED BY <1>1, <1>2, <1>3, <1>4, <1>5, <1>6, <1>7, <1>8, <1>9, <1>10, <1>11, <1>12, <1>13,
           <1>14, <1>15, <1>16, <1>17, <1>18, <1>19, <1>20, <1>21, <1>22, <1>23, <1>24
        DEF Next, Command

\* Every variable keeps its type, whether or not the services stay down.
THEOREM TypeCorrect == Spec => []TypeOK
BY InitTypeOK, NextTypeOK, PTL DEF Spec

(***************************************************************************)
(* Rollback                                                                *)
(***************************************************************************)
LEMMA InitRestoreInv == Init => RestoreInv
BY DEF Init, MediaInit, RestoreInv, Alone, SnapshotIsBefore, InPlace, RollbackPossible,
       RestoreSteps, SnapshotSteps, ActivationSteps, UndoSteps, CleanupSteps, NoFile

\* A backend that serves is up, so no command works on the live data, and it
\* keeps its database.
LEMMA ServeKeepsAlone ==
  ASSUME TypeOK, RestoreInv, Serve
  PROVE  /\ backend = "up"
         /\ pc \notin RestoreSteps \cup CleanupSteps
         /\ main'.state = "whole"
         /\ backend' = "down" => \A f \in Files : upload'[f] # "stored" /\ removal'[f] # "unlinked"
         /\ created' = created
<1>1. backend = "up"
  BY DEF Serve, StoreUpload, RecordUpload, UnlinkMedia, DeleteMediaRow, DeleteListing,
         Checkpoint, StopBackend
<1>2. pc \notin RestoreSteps \cup CleanupSteps
  BY <1>1 DEF RestoreInv, Alone
<1>3. main.state = "whole"
  BY <1>1 DEF RestoreInv, Alone
<1>4. CASE StopBackend
  <2>1. \A f \in Files : upload'[f] # "stored" /\ removal'[f] # "unlinked"
    BY <1>4 DEF StopBackend, TypeOK, MediaTypeOK
  <2> QED BY <1>1, <1>2, <1>3, <1>4, <2>1 DEF StopBackend
<1>5. CASE ~StopBackend
  <2>1. backend' = backend /\ main'.state = main.state /\ created' = created
    BY <1>5 DEF Serve, StoreUpload, RecordUpload, UnlinkMedia, DeleteMediaRow, DeleteListing,
           Checkpoint, CommitRows, TypeOK, MediaTypeOK, DatabaseFile
  <2> QED BY <1>1, <1>2, <1>3, <2>1
<1> QED BY <1>4, <1>5

\* A backend only starts beside a backup or no command at all.
LEMMA StartKeepsAlone ==
  ASSUME TypeOK, OperatorWaits, BackendStarts
  PROVE  /\ pc \notin RestoreSteps \cup CleanupSteps
         /\ backend' = "up" /\ main'.state = "whole"
<1>1. pc \notin RestoreSteps \cup CleanupSteps
  BY DEF BackendStarts, RestoreSteps, BackupSteps, SnapshotSteps, ActivationSteps, UndoSteps,
         CleanupSteps
<1>2. backend' = "up" /\ main'.state = "whole"
  BY DEF BackendStarts, StartBackend, Usable, TypeOK, MediaTypeOK, DatabaseFile
<1> QED BY <1>1, <1>2

\* The steps of a command keep the three.
LEMMA CommandKeepsRestoreInv == TypeOK /\ RestoreInv /\ Command => RestoreInv'
<1> SUFFICES ASSUME TypeOK, RestoreInv, Command PROVE RestoreInv'
  OBVIOUS
<1> USE DEF RestoreInv, Alone, SnapshotIsBefore, InPlace, RollbackPossible, RestoreSteps,
        BackupSteps, SnapshotSteps, ActivationSteps, UndoSteps, CleanupSteps, Live
<1>1. CASE CopyDatabase
  BY <1>1 DEF CopyDatabase, mediaVars, kept, bounds
<1>2. CASE CollectMedia
  BY <1>2 DEF CollectMedia, mediaVars, kept, bounds
<1>3. CASE WriteArchive
  BY <1>3 DEF WriteArchive, mediaVars, bounds
<1>4. ASSUME NEW a \in archives, RemoveArchive(a) PROVE RestoreInv'
  BY <1>4 DEF RemoveArchive, mediaVars, bounds
<1>5. ASSUME NEW a \in archives, RestoreStart(a) PROVE RestoreInv'
  BY <1>5 DEF RestoreStart, mediaVars, ServicesDown
<1>6. CASE SnapshotDatabase
  BY <1>6 DEF SnapshotDatabase, mediaVars, bounds
<1>7. CASE SnapshotMedia
  BY <1>7 DEF SnapshotMedia, mediaVars, bounds
<1>8. CASE DropSidecars
  BY <1>8 DEF DropSidecars, service, kept, bounds
<1>9. CASE ReplaceDatabase
  BY <1>9 DEF ReplaceDatabase, kept, bounds
<1>10. CASE MoveMedia
  BY <1>10 DEF MoveMedia, service, kept, bounds
<1>11. CASE PlaceMedia
  BY <1>11 DEF PlaceMedia, service, kept, bounds
<1>12. CASE FinishRestore
  BY <1>12 DEF FinishRestore, mediaVars, bounds
<1>13. CASE ActivationFails
  BY <1>13 DEF ActivationFails, mediaVars, kept, bounds
<1>14. CASE UndoMain
  BY <1>14 DEF UndoMain, service, kept, bounds
<1>15. CASE UndoWal
  BY <1>15 DEF UndoWal, service, kept, bounds
<1>16. CASE UndoMedia
  BY <1>16 DEF UndoMedia, service, bounds
<1>17. CASE CleanStart
  BY <1>17 DEF CleanStart, mediaVars, kept, ServicesDown
<1>18. CASE CleanDatabase
  BY <1>18 DEF CleanDatabase, service, kept, bounds
<1>19. CASE CleanWal
  BY <1>19 DEF CleanWal, service, kept, bounds
<1>20. CASE CleanMedia
  <2>1. \A f \in Files : removal'[f] # "unlinked"
    BY <1>20 DEF CleanMedia, TypeOK, MediaTypeOK
  <2> QED BY <1>20, <2>1 DEF CleanMedia, kept, bounds
<1>21. CASE CutOff
  <2>1. pc' = "idle" /\ snapshot' = NoData /\ UNCHANGED service
    BY <1>21 DEF CutOff
  <2>2. backend = "up" => pc \in BackupSteps
    BY <1>21 DEF CutOff, TypeOK
  <2>3. pc \in BackupSteps => main' = main
    BY <1>21 DEF CutOff, CutStep
  <2> QED BY <2>1, <2>2, <2>3 DEF service
<1> QED BY <1>1, <1>2, <1>3, <1>4, <1>5, <1>6, <1>7, <1>8, <1>9, <1>10, <1>11, <1>12, <1>13,
           <1>14, <1>15, <1>16, <1>17, <1>18, <1>19, <1>20, <1>21
        DEF Command

\* A restore, and what is set aside for its rollback, across every step.
LEMMA NextRestoreInv ==
  ASSUME OperatorWaits, TypeOK, RestoreInv, [Next]_vars
  PROVE  RestoreInv'
<1> USE DEF RestoreInv, Alone, SnapshotIsBefore, InPlace, RollbackPossible, RestoreSteps,
        BackupSteps, SnapshotSteps, ActivationSteps, UndoSteps, CleanupSteps
<1>1. CASE BackendServes
  <2>1. Serve /\ UNCHANGED <<pc, archive, snapshot, before>>
    BY <1>1 DEF BackendServes, jobVars, kept
  <2>2. backend' \in {"up", "down"}
    BY <1>1, ServeTyped DEF BackendServes, TypeOK, MediaTypeOK
  <2> QED BY <2>1, <2>2, ServeKeepsAlone
<1>2. CASE BackendStarts
  <2>1. UNCHANGED <<pc, archive, snapshot, before>>
    BY <1>2 DEF BackendStarts, jobVars, kept
  <2> QED BY <1>2, <2>1, StartKeepsAlone
<1>3. CASE Command
  BY <1>3, CommandKeepsRestoreInv
<1>4. CASE UNCHANGED vars
  BY <1>4 DEF vars, mediaVars, jobVars, kept, Live
<1> QED BY <1>1, <1>2, <1>3, <1>4 DEF Next

\* While the services stay down, the snapshot holds all of the old data from
\* the first file a restore touches to the last.
THEOREM RollbackIsPossible ==
  ASSUME OperatorWaits PROVE Spec => []RollbackPossible
<1>1. Init => TypeOK /\ RestoreInv
  BY InitTypeOK, InitRestoreInv
<1>2. TypeOK /\ RestoreInv /\ [Next]_vars => (TypeOK /\ RestoreInv)'
  BY NextTypeOK, NextRestoreInv
<1>3. RestoreInv => RollbackPossible
  BY DEF RestoreInv, SnapshotIsBefore
<1> QED BY <1>1, <1>2, <1>3, PTL DEF Spec

\* A restore that returns has put exactly the archive in place, one that
\* reports a failure exactly what was there before.
THEOREM RestoresAllOrNothing ==
  ASSUME OperatorWaits PROVE Spec => RestoreAllOrNothing
<1> DEFINE A == outcome' # outcome =>
        /\ outcome' = "restored" =>
            /\ main'.state = "whole" /\ main'.rows = archive.rows
            /\ wal' = NoFile
            /\ disk' = archive.media
        /\ outcome' = "undone" => Live' = before
<1>1. Init => TypeOK /\ RestoreInv
  BY InitTypeOK, InitRestoreInv
<1>2. TypeOK /\ RestoreInv /\ [Next]_vars => (TypeOK /\ RestoreInv)'
  BY NextTypeOK, NextRestoreInv
<1>3. TypeOK /\ RestoreInv /\ [Next]_vars => [A]_vars
  <2> SUFFICES ASSUME TypeOK, RestoreInv, Next, outcome' # outcome PROVE A
    OBVIOUS
  <2> USE DEF RestoreInv, SnapshotIsBefore, InPlace, RollbackPossible, RestoreSteps,
          SnapshotSteps, ActivationSteps, UndoSteps
  <2>1. \/ FinishRestore \/ UndoMedia
        \/ \E a \in archives : RestoreStart(a)
    BY DEF Next, Command, BackendServes, BackendStarts, jobVars, kept, CopyDatabase, CollectMedia,
           WriteArchive, RemoveArchive, SnapshotDatabase, SnapshotMedia, DropSidecars,
           ReplaceDatabase, MoveMedia, PlaceMedia, ActivationFails, UndoMain, UndoWal,
           CleanStart, CleanDatabase, CleanWal, CleanMedia, CutOff
  <2>2. CASE FinishRestore
    BY <2>2 DEF FinishRestore, mediaVars
  <2>3. CASE UndoMedia
    <3>1. before = [main |-> before.main, wal |-> before.wal, media |-> before.media]
      BY DEF TypeOK, LiveData
    <3> QED BY <2>3, <3>1 DEF UndoMedia, service, Live
  <2>4. ASSUME NEW a \in archives, RestoreStart(a) PROVE A
    BY <2>4 DEF RestoreStart
  <2> QED BY <2>1, <2>2, <2>3, <2>4
<1> QED BY <1>1, <1>2, <1>3, PTL DEF Spec, RestoreAllOrNothing

(***************************************************************************)
(* The database can be opened                                              *)
(***************************************************************************)
LEMMA InitUsableInv == Init => UsableInv
BY DEF Init, MediaInit, UsableInv, DatabaseUsable, Usable, NoFile, RestoreSteps,
       SnapshotSteps, ActivationSteps, UndoSteps

\* The database is usable when SQLite can open its two files ...
LEMMA UsableOpens == Usable <=> Opens(main, wal)
BY DEF Usable, Opens

\* ... and so in the next state.
LEMMA UsableOpensNext == Usable' <=> Opens(main', wal')
BY DEF Usable, Opens

\* The backend's own writes leave a database that can be opened.
LEMMA ServeKeepsUsable ==
  ASSUME TypeOK, RestoreInv, Serve \/ StartBackend, Usable
  PROVE  Usable'
<1>1. ASSUME NEW rows, CommitRows(rows) PROVE Usable'
  BY <1>1 DEF CommitRows, Usable
<1>2. CASE StartBackend
  BY <1>2 DEF StartBackend, Usable, NoFile
<1>3. CASE UNCHANGED <<main, wal>>
  BY <1>3 DEF Usable
<1>4. CASE Checkpoint
  BY <1>4 DEF Checkpoint, Usable, NoFile, TypeOK, MediaTypeOK, DatabaseFile
<1> QED BY <1>1, <1>2, <1>3, <1>4 DEF Serve, StoreUpload, RecordUpload, UnlinkMedia,
           DeleteMediaRow, DeleteListing, StopBackend

\* A command of the operator leaves a database that opens.
LEMMA CommandKeepsUsable == TypeOK /\ RestoreInv /\ UsableInv /\ Command => UsableInv'
<1> SUFFICES ASSUME TypeOK, RestoreInv, UsableInv, Command PROVE UsableInv'
  OBVIOUS
<1> USE DEF UsableInv, DatabaseUsable, RestoreSteps, SnapshotSteps, ActivationSteps, UndoSteps
<1>0. NoFile.state = "none"
  BY DEF NoFile
<1>1. CASE CopyDatabase \/ CollectMedia
  BY <1>1 DEF CopyDatabase, CollectMedia, mediaVars, kept, Usable
<1>2. CASE WriteArchive \/ (\E a \in archives : RemoveArchive(a))
  BY <1>2 DEF WriteArchive, RemoveArchive, mediaVars, Usable
<1>3. ASSUME NEW a \in archives, RestoreStart(a) PROVE UsableInv'
  BY <1>3 DEF RestoreStart, mediaVars, Usable, Opens, Live
<1>4. CASE SnapshotDatabase \/ SnapshotMedia
  BY <1>4 DEF SnapshotDatabase, SnapshotMedia, mediaVars, Usable
<1>5. CASE DropSidecars
  BY <1>5, <1>0 DEF DropSidecars, kept, Usable
<1>6. CASE ReplaceDatabase
  <2>1. wal = NoFile
    BY <1>6 DEF ReplaceDatabase, RestoreInv, InPlace
  <2>2. Usable'
    BY <1>6, <1>0, <2>1 DEF ReplaceDatabase, Usable
  <2> QED BY <1>6, <2>2 DEF ReplaceDatabase, kept
<1>7. CASE MoveMedia \/ PlaceMedia
  BY <1>7 DEF MoveMedia, PlaceMedia, kept, Usable
<1>8. CASE FinishRestore
  <2>1. wal = NoFile /\ main.state = "whole"
    BY <1>8 DEF FinishRestore, RestoreInv, InPlace
  <2>2. Usable'
    BY <1>8, <1>0, <2>1 DEF FinishRestore, mediaVars, Usable
  <2> QED BY <1>8, <2>2 DEF FinishRestore
<1>9. CASE ActivationFails
  BY <1>9 DEF ActivationFails, mediaVars, kept, Usable
<1>10. CASE UndoMain \/ UndoWal
  BY <1>10 DEF UndoMain, UndoWal, kept
<1>11. CASE UndoMedia
  <2>1. main = before.main /\ wal = before.wal
    BY <1>11 DEF UndoMedia, RestoreInv, SnapshotIsBefore, RollbackPossible, InPlace
  <2> QED BY <1>11, <2>1, UsableOpensNext DEF UndoMedia, service
<1>12. CASE CleanStart
  BY <1>12 DEF CleanStart, mediaVars, kept, Usable
<1>13. CASE CleanDatabase
  BY <1>13, <1>0 DEF CleanDatabase, kept, Usable
<1>14. CASE CleanWal
  BY <1>14, <1>0 DEF CleanWal, kept, Usable
<1>15. CASE CleanMedia
  BY <1>15 DEF CleanMedia, kept, Usable
<1>16. CASE CutOff
  <2>1. CASE pc \in UndoSteps
    <3>1. "undo" \in damage'
      BY <1>16, <2>1 DEF CutOff, BackupSteps, CleanupSteps
    <3> QED BY <1>16, <3>1 DEF CutOff
  <2>2. CASE pc \notin UndoSteps
    <3>1. main' = main /\ wal' = wal
      BY <1>16, <2>2 DEF CutOff, CutStep
    <3>2. damage \subseteq damage' /\ pc' = "idle"
      BY <1>16 DEF CutOff
    <3>3. Usable' <=> Usable
      BY <3>1 DEF Usable
    <3> QED BY <2>2, <3>2, <3>3
  <2> QED BY <2>1, <2>2
<1> QED BY <1>1, <1>2, <1>3, <1>4, <1>5, <1>6, <1>7, <1>8, <1>9, <1>10, <1>11, <1>12, <1>13,
           <1>14, <1>15, <1>16
        DEF Command

\* The database opens after every step.
LEMMA NextUsableInv ==
  ASSUME OperatorWaits, TypeOK, RestoreInv, UsableInv, [Next]_vars
  PROVE  UsableInv'
<1>1. ASSUME Serve \/ StartBackend, UNCHANGED jobVars, pc \notin RestoreSteps
      PROVE  UsableInv'
  <2>1. UNCHANGED <<pc, damage>>
    BY <1>1 DEF jobVars, kept
  <2>2. Usable => Usable'
    BY <1>1, ServeKeepsUsable
  <2> QED BY <1>1, <2>1, <2>2 DEF UsableInv, DatabaseUsable
<1>2. CASE BackendServes
  BY <1>1, <1>2, ServeKeepsAlone DEF BackendServes
<1>3. CASE BackendStarts
  BY <1>1, <1>3, StartKeepsAlone DEF BackendStarts
<1>4. CASE Command
  BY <1>4, CommandKeepsUsable
<1>5. CASE UNCHANGED vars
  BY <1>5 DEF vars, mediaVars, jobVars, kept, UsableInv, DatabaseUsable, Usable
<1> QED BY <1>2, <1>3, <1>4, <1>5 DEF Next

\* Wherever a command is killed, SQLite can open what is left: the log beside
\* a database file is that file's own.  Only an undo can be caught with half
\* a file.
THEOREM DatabaseStaysUsable ==
  ASSUME OperatorWaits PROVE Spec => []DatabaseUsable
<1>1. Init => TypeOK /\ RestoreInv /\ UsableInv
  BY InitTypeOK, InitRestoreInv, InitUsableInv
<1>2. TypeOK /\ RestoreInv /\ UsableInv /\ [Next]_vars
          => (TypeOK /\ RestoreInv /\ UsableInv)'
  BY NextTypeOK, NextRestoreInv, NextUsableInv
<1>3. UsableInv => DatabaseUsable
  BY DEF UsableInv
<1> QED BY <1>1, <1>2, <1>3, PTL DEF Spec

(***************************************************************************)
(* Files and rows                                                          *)
(***************************************************************************)
LEMMA InitFilesInv == Init => FilesInv
<1> SUFFICES ASSUME Init PROVE FilesInv
  OBVIOUS
<1>1. /\ main.rows = {} /\ wal.rows = {} /\ Rows = {} /\ archive = NoArchive
      /\ snapshot = NoData /\ disk = {} /\ archives = {} /\ pc = "idle"
      /\ \A f \in Files : upload[f] = "new"
  BY DEF Init, MediaInit, Rows, NoFile
<1>2. RowsAccounted
  BY <1>1 DEF RowsAccounted, RowHasFile, Accounted, NoArchive, RestoreSteps, SnapshotSteps,
              ActivationSteps, UndoSteps
<1>3. NotRecorded
  BY <1>1 DEF NotRecorded, Unrecorded, NoArchive, NoData, NoFile
<1> QED BY <1>2, <1>3 DEF FilesInv

\* The rows after a commit.
LEMMA CommittedRows ==
  ASSUME NEW rows, CommitRows(rows), main.state = "whole"
  PROVE  /\ Rows' = rows
         /\ main'.rows \cup wal'.rows \subseteq main.rows \cup wal.rows \cup rows
BY DEF CommitRows, Rows

\* Rows are only found in the two files.
LEMMA RowsAreInFiles == Rows \subseteq main.rows \cup wal.rows
BY DEF Rows

\* What a step of the backend does to the rows, to the marks of the uploads
\* and to the marks of the deletions.
RowsServed ==
    /\ \A f \in Rows' \ Rows : f \in disk /\ f \in disk' /\ upload[f] = "stored"
    /\ \A f \in (main'.rows \cup wal'.rows) \ (main.rows \cup wal.rows) :
           upload[f] = "stored" /\ upload'[f] = "over"

UploadsServed ==
    \A f \in Files :
        /\ upload'[f] \in {"new", "stored", "rejected"} =>
               upload[f] \in {"new", "stored", "rejected"}
        /\ upload'[f] \in {"new", "rejected"} => f \notin disk'
        /\ upload'[f] = "stored" => f \in disk'

RemovalsServed ==
    \A f \in Files :
        /\ removal[f] # "none" => removal'[f] # "none"
        /\ f \in disk /\ f \notin disk' => removal'[f] # "none" \/ upload[f] = "stored"

Served ==
    /\ UNCHANGED <<archive, snapshot, archives, before, damage, pc, restores>>
    /\ RowsServed /\ UploadsServed /\ RemovalsServed

\* Served keeps rows and files together: backups may be in progress, restores
\* are not.
LEMMA ServedKeepsFiles ==
  ASSUME TypeOK, RestoreInv, FilesInv, Served, pc \notin RestoreSteps
  PROVE  FilesInv'
<1>1. snapshot.main.rows = {} /\ snapshot.wal.rows = {} /\ snapshot.media = {}
  BY DEF RestoreInv, SnapshotIsBefore, NoData, NoFile
<1>2. UNCHANGED <<archive, snapshot, archives, before, damage, pc, restores>>
  BY DEF Served
<1>3. /\ archive.rows \subseteq Files /\ archive.media \subseteq Files
      /\ \A a \in archives : a.rows \subseteq Files
      /\ Rows \subseteq Files
      /\ main.rows \subseteq Files /\ wal.rows \subseteq Files
  BY RowsTyped DEF TypeOK, Archive, MediaTypeOK, DatabaseFile
<1>4. \A f \in Files : removal[f] # "none" => removal'[f] # "none"
  BY DEF Served, RemovalsServed
<1>5. ASSUME NEW rows \in SUBSET Files, NEW media, Accounted(rows, media)
      PROVE  Accounted(rows, media)'
  BY <1>4, <1>5 DEF Accounted
<1>6. \A f \in Files : f \in disk /\ f \notin disk' =>
          removal'[f] # "none" \/ upload[f] = "stored"
  BY DEF Served, RemovalsServed
<1>7. RowHasFile'
  <2>1. ASSUME damage = {}, NEW f \in Rows' \ LeftOut, f \notin disk' PROVE removal'[f] # "none"
    <3>1. f \in Rows /\ f \in Files
      BY <1>3, <2>1 DEF Served, RowsServed
    <3>2. CASE f \in disk
      <4>1. upload[f] # "stored"
        BY <3>1, RowsAreInFiles DEF FilesInv, NotRecorded, Unrecorded
      <4> QED BY <1>6, <2>1, <3>1, <3>2, <4>1
    <3>3. CASE f \notin disk
      <4>1. removal[f] # "none"
        BY <2>1, <3>1, <3>3 DEF FilesInv, RowsAccounted, RowHasFile, RestoreSteps
      <4> QED BY <1>4, <3>1, <4>1
    <3> QED BY <3>2, <3>3
  <2> QED BY <1>2, <2>1 DEF RowHasFile, LeftOut
<1>8. RowsAccounted'
  <2>1. \A a \in archives' : a.damage = {} => Accounted(a.rows \ Skipped, a.media)'
    BY <1>2, <1>3, <1>5 DEF FilesInv, RowsAccounted
  <2>2. ASSUME pc = "collect", archive.damage = {}
        PROVE  Accounted(archive.rows \ Skipped, disk)'
    <3>1. ASSUME NEW f \in archive.rows \ Skipped, f \notin disk' PROVE removal'[f] # "none"
      <4>1. f \in Files /\ upload[f] # "stored"
        BY <1>3 DEF FilesInv, NotRecorded, Unrecorded
      <4>2. CASE f \in disk
        BY <1>6, <3>1, <4>1, <4>2
      <4>3. CASE f \notin disk
        <5>1. removal[f] # "none"
          BY <2>2, <3>1, <4>3 DEF FilesInv, RowsAccounted, Accounted
        <5> QED BY <1>4, <4>1, <5>1
      <4> QED BY <4>2, <4>3
    <3> QED BY <1>2, <3>1 DEF Accounted
  <2>3. ASSUME pc # "collect", archive.damage = {}
        PROVE  Accounted(archive.rows \ Skipped, archive.media)'
    <3>1. Accounted(archive.rows \ Skipped, archive.media)
      BY <2>3 DEF FilesInv, RowsAccounted
    <3>2. \A f \in (archive.rows \ Skipped) \ archive.media : removal'[f] # "none"
      BY <1>3, <1>4, <3>1 DEF Accounted
    <3> QED BY <1>2, <3>2 DEF Accounted
  <2>4. pc' \notin RestoreSteps
    BY <1>2
  <2> QED BY <1>2, <1>7, <2>1, <2>2, <2>3, <2>4 DEF RowsAccounted
<1>9. NotRecorded'
  <2>1. ASSUME NEW f \in Files, upload'[f] \in {"new", "stored", "rejected"}
        PROVE  Unrecorded(f)'
    <3>1. Unrecorded(f)
      BY <2>1 DEF Served, UploadsServed, FilesInv, NotRecorded
    <3>2. f \notin main'.rows \cup wal'.rows
      BY <2>1, <3>1 DEF Served, RowsServed, Unrecorded
    <3> QED BY <1>2, <3>1, <3>2 DEF Unrecorded
  <2>2. \A f \in Files : upload'[f] \in {"new", "rejected"} => f \notin disk' \cup snapshot'.media
    BY <1>1, <1>2 DEF Served, UploadsServed
  <2>3. \A f \in Files : upload'[f] = "stored" => f \in disk'
    BY DEF Served, UploadsServed
  <2> QED BY <2>1, <2>2, <2>3 DEF NotRecorded
<1> QED BY <1>8, <1>9 DEF FilesInv

\* Nothing of the files changes where the two database files do not.
LEMMA NoRowsServed == UNCHANGED <<main, wal>> => RowsServed
BY DEF RowsServed, Rows

\* A commit that takes rows away.
LEMMA FewerRowsServed ==
  ASSUME NEW rows \in SUBSET Rows, CommitRows(rows), main.state = "whole"
  PROVE  RowsServed
<1>1. /\ Rows' = rows
      /\ main'.rows \cup wal'.rows \subseteq main.rows \cup wal.rows \cup rows
  BY CommittedRows
<1> QED BY <1>1, RowsAreInFiles DEF RowsServed

\* Every step of the backend is of that kind.
LEMMA ServeIsServed ==
  ASSUME TypeOK, RestoreInv, FilesInv, BackendServes
  PROVE  Served
<1>1. UNCHANGED <<archive, snapshot, archives, before, damage, pc, restores>>
  BY DEF BackendServes, jobVars, kept, bounds
<1>2. main.state = "whole" /\ Serve
  BY DEF BackendServes, RestoreInv, Alone, Serve, StoreUpload, RecordUpload, UnlinkMedia,
         DeleteMediaRow, DeleteListing, Checkpoint, StopBackend
<1>3. /\ upload \in [Files -> UploadState] /\ removal \in [Files -> RemovalState]
      /\ Rows \subseteq Files
  BY RowsTyped DEF TypeOK, MediaTypeOK
<1>4. \A f \in Files : upload[f] = "stored" => f \in disk /\ f \notin Rows
  BY RowsAreInFiles DEF FilesInv, NotRecorded, Unrecorded
<1>5. \A f \in Files : upload[f] \in {"new", "rejected"} => f \notin disk
  BY DEF FilesInv, NotRecorded
<1>6. UNCHANGED <<disk, upload>> => UploadsServed
  BY <1>4, <1>5 DEF UploadsServed
<1>7. UNCHANGED <<disk, removal>> => RemovalsServed
  BY DEF RemovalsServed
<1>8. ASSUME NEW f \in Files, StoreUpload(f) PROVE Served
  <2>1. upload[f] = "new" /\ removal' = removal /\ UNCHANGED <<main, wal>>
    BY <1>8 DEF StoreUpload
  <2>2. CASE disk' = disk \cup {f} /\ upload' = [upload EXCEPT ![f] = "stored"]
    <3>1. UploadsServed
      BY <1>3, <1>4, <1>5, <2>1, <2>2 DEF UploadsServed
    <3>2. RemovalsServed
      BY <2>1, <2>2 DEF RemovalsServed
    <3> QED BY <1>1, <2>1, <3>1, <3>2, NoRowsServed DEF Served
  <2>3. CASE disk' = disk /\ upload' = [upload EXCEPT ![f] = "rejected"]
    <3>1. UploadsServed
      BY <1>3, <1>4, <1>5, <2>1, <2>3 DEF UploadsServed
    <3> QED BY <1>1, <1>7, <2>1, <2>3, <3>1, NoRowsServed DEF Served
  <2> QED BY <1>8, <2>2, <2>3 DEF StoreUpload
<1>9. ASSUME NEW f \in Files, RecordUpload(f) PROVE Served
  <2>1. upload[f] = "stored" /\ f \in disk /\ removal' = removal
    BY <1>4, <1>9 DEF RecordUpload
  <2>2. CASE CommitRows(Rows \cup {f}) /\ disk' = disk /\ upload' = [upload EXCEPT ![f] = "over"]
    <3>1. /\ Rows' = Rows \cup {f}
          /\ main'.rows \cup wal'.rows \subseteq main.rows \cup wal.rows \cup (Rows \cup {f})
      BY <1>2, <2>2, CommittedRows
    <3>2. upload'[f] = "over"
      BY <1>3, <2>2
    <3>3. RowsServed
      BY <2>1, <2>2, <3>1, <3>2, RowsAreInFiles DEF RowsServed
    <3>4. UploadsServed
      BY <1>3, <1>4, <1>5, <2>2 DEF UploadsServed
    <3> QED BY <1>1, <1>7, <2>1, <2>2, <3>3, <3>4 DEF Served
  <2>3. CASE /\ UNCHANGED <<main, wal>>
             /\ disk' = disk \ {f} /\ upload' = [upload EXCEPT ![f] = "rejected"]
    <3>1. upload'[f] = "rejected" /\ \A g \in Files \ {f} : upload'[g] = upload[g]
      BY <1>3, <2>3
    <3>2. UploadsServed
      BY <1>4, <1>5, <2>1, <2>3, <3>1 DEF UploadsServed
    <3>3. RemovalsServed
      BY <2>1, <2>3 DEF RemovalsServed
    <3> QED BY <1>1, <2>3, <3>2, <3>3, NoRowsServed DEF Served
  <2>4. CASE /\ UNCHANGED <<main, wal>>
             /\ disk' = disk /\ upload' = [upload EXCEPT ![f] = "over"]
    <3>1. UploadsServed
      BY <1>3, <1>4, <1>5, <2>4 DEF UploadsServed
    <3> QED BY <1>1, <1>7, <2>1, <2>4, <3>1, NoRowsServed DEF Served
  <2> QED BY <1>9, <2>2, <2>3, <2>4 DEF RecordUpload
<1>10. ASSUME NEW f \in Files, UnlinkMedia(f) PROVE Served
  <2>1. UNCHANGED <<main, wal, upload>> /\ disk' = disk \ {f}
        /\ removal' = [removal EXCEPT ![f] = "unlinked"]
    BY <1>10 DEF UnlinkMedia
  <2>2. upload[f] # "stored"
    BY <1>4, <1>10 DEF UnlinkMedia
  <2>3. UploadsServed
    BY <1>4, <1>5, <2>1, <2>2 DEF UploadsServed
  <2>4. RemovalsServed
    BY <1>3, <2>1 DEF RemovalsServed
  <2> QED BY <1>1, <2>1, <2>3, <2>4, NoRowsServed DEF Served
<1>11. ASSUME NEW f \in Files, DeleteMediaRow(f) PROVE Served
  <2>1. UNCHANGED <<disk, upload>> /\ removal' = [removal EXCEPT ![f] = "over"]
    BY <1>11 DEF DeleteMediaRow
  <2>2. RemovalsServed
    BY <1>3, <2>1 DEF RemovalsServed
  <2>3. RowsServed
    BY <1>2, <1>11, FewerRowsServed, NoRowsServed DEF DeleteMediaRow
  <2> QED BY <1>1, <1>6, <2>1, <2>2, <2>3 DEF Served
<1>12. ASSUME NEW l \in Listings, DeleteListing(l) PROVE Served
  <2>1. RowsServed
    BY <1>2, <1>12, FewerRowsServed DEF DeleteListing
  <2>2. UNCHANGED <<disk, upload, removal>>
    BY <1>12 DEF DeleteListing
  <2> QED BY <1>1, <1>6, <1>7, <2>1, <2>2 DEF Served
<1>13. CASE Checkpoint
  <2>1. main'.rows = wal.rows /\ wal' = NoFile /\ main'.state = "whole"
    BY <1>2, <1>13 DEF Checkpoint, TypeOK, MediaTypeOK, DatabaseFile
  <2>2. Rows' = Rows
    BY <1>2, <1>13, <2>1 DEF Checkpoint, Rows, NoFile
  <2>3. RowsServed
    BY <2>1, <2>2 DEF RowsServed, NoFile
  <2>4. UNCHANGED <<disk, upload, removal>>
    BY <1>13 DEF Checkpoint
  <2> QED BY <1>1, <1>6, <1>7, <2>3, <2>4 DEF Served
<1>14. CASE StopBackend
  <2>1. /\ UNCHANGED <<main, wal, disk>>
        /\ \A f \in Files :
               /\ upload'[f] = IF upload[f] = "stored" THEN "over" ELSE upload[f]
               /\ removal'[f] = IF removal[f] = "unlinked" THEN "over" ELSE removal[f]
    BY <1>14 DEF StopBackend
  <2>2. UploadsServed
    BY <1>4, <1>5, <2>1 DEF UploadsServed
  <2>3. RemovalsServed
    BY <2>1 DEF RemovalsServed
  <2> QED BY <1>1, <2>1, <2>2, <2>3, NoRowsServed DEF Served
<1> QED BY <1>2, <1>8, <1>9, <1>10, <1>11, <1>12, <1>13, <1>14 DEF Serve

\* So is the start of a backend: it has the rows that were there, or none.
LEMMA StartIsServed ==
  ASSUME TypeOK, FilesInv, BackendStarts
  PROVE  Served
<1>1. UNCHANGED <<archive, snapshot, archives, before, damage, pc, restores, disk, upload, removal>>
  BY DEF BackendStarts, StartBackend, jobVars, kept, bounds
<1>2. Rows' \subseteq Rows /\ main'.rows \cup wal'.rows \subseteq main.rows \cup wal.rows
  BY DEF BackendStarts, StartBackend, Rows, NoFile
<1>3. RowsServed
  BY <1>2 DEF RowsServed
<1>4. UploadsServed
  BY <1>1 DEF UploadsServed, FilesInv, NotRecorded
<1>5. RemovalsServed
  BY <1>1 DEF RemovalsServed
<1> QED BY <1>1, <1>3, <1>4, <1>5 DEF Served

\* Commands make no file and no row that was not in the live data, the archive
\* or the snapshot, and forget no deletion.
LEMMA CommandKeepsNotRecorded ==
  ASSUME TypeOK, RestoreInv, NotRecorded, Command
  PROVE  NotRecorded'
<1> USE DEF NotRecorded, Unrecorded
<1>0. /\ NoFile.rows = {} /\ NoArchive.rows = {}
      /\ NoData.main.rows = {} /\ NoData.wal.rows = {} /\ NoData.media = {}
  BY DEF NoFile, NoArchive, NoData
<1>1. CASE CopyDatabase
  BY <1>1, RowsAreInFiles DEF CopyDatabase, mediaVars, kept, bounds
<1>2. CASE CollectMedia
  <2>1. archive'.rows = archive.rows
    BY <1>2 DEF CollectMedia, TypeOK, Archive
  <2> QED BY <1>2, <2>1 DEF CollectMedia, mediaVars, kept, bounds
<1>3. CASE WriteArchive
  BY <1>3, <1>0 DEF WriteArchive, mediaVars, bounds
<1>4. ASSUME NEW a \in archives, RemoveArchive(a) PROVE NotRecorded'
  BY <1>4 DEF RemoveArchive, mediaVars, bounds
<1>5. ASSUME NEW a \in archives, RestoreStart(a) PROVE NotRecorded'
  BY <1>5 DEF RestoreStart, mediaVars
<1>6. CASE SnapshotDatabase
  BY <1>6 DEF SnapshotDatabase, mediaVars, bounds
<1>7. CASE SnapshotMedia
  <2>1. snapshot'.main = snapshot.main /\ snapshot'.wal = snapshot.wal
        /\ snapshot'.media = disk
    BY <1>7 DEF SnapshotMedia, TypeOK, LiveData
  <2> QED BY <1>7, <2>1 DEF SnapshotMedia, mediaVars, bounds
<1>8. CASE DropSidecars
  BY <1>8, <1>0 DEF DropSidecars, service, kept, bounds
<1>9. CASE ReplaceDatabase
  BY <1>9 DEF ReplaceDatabase, kept, bounds
<1>10. CASE MoveMedia
  <2>1. \A f \in Files : upload[f] # "stored"
    BY <1>10 DEF MoveMedia, RestoreInv, Alone, RestoreSteps, ActivationSteps
  <2> QED BY <1>10, <2>1 DEF MoveMedia, service, kept, bounds
<1>11. CASE PlaceMedia
  <2>1. archive.media \subseteq archive.rows
    BY DEF TypeOK, Archive
  <2> QED BY <1>11, <2>1 DEF PlaceMedia, service, kept, bounds
<1>12. CASE FinishRestore
  BY <1>12, <1>0 DEF FinishRestore, mediaVars, bounds
<1>13. CASE ActivationFails
  BY <1>13 DEF ActivationFails, mediaVars, kept, bounds
<1>14. CASE UndoMain
  BY <1>14 DEF UndoMain, service, kept, bounds
<1>15. CASE UndoWal
  BY <1>15 DEF UndoWal, service, kept, bounds
<1>16. CASE UndoMedia
  <2>1. \A f \in Files : upload[f] # "stored"
    BY <1>16 DEF UndoMedia, RestoreInv, Alone, RestoreSteps, UndoSteps
  <2> QED BY <1>16, <1>0, <2>1 DEF UndoMedia, service, bounds
<1>17. CASE CleanStart
  BY <1>17 DEF CleanStart, mediaVars, kept
<1>18. CASE CleanDatabase
  BY <1>18, <1>0 DEF CleanDatabase, service, kept, bounds
<1>19. CASE CleanWal
  BY <1>19, <1>0 DEF CleanWal, service, kept, bounds
<1>20. CASE CleanMedia
  <2>1. \A f \in Files : upload[f] # "stored"
    BY <1>20 DEF CleanMedia, RestoreInv, Alone, CleanupSteps
  <2> QED BY <1>20, <2>1 DEF CleanMedia, kept, bounds
<1>21. CASE CutOff
  <2>1. /\ snapshot' = NoData /\ archive' = NoArchive /\ UNCHANGED <<archives, upload>>
        /\ CutStep
    BY <1>21 DEF CutOff, service
  <2>2. main'.rows \cup wal'.rows \subseteq
            main.rows \cup wal.rows \cup snapshot.main.rows \cup snapshot.wal.rows
    BY <2>1, <1>0 DEF CutStep, TypeOK, LiveData, DatabaseFile
  <2>3. disk' \subseteq disk \cup snapshot.media
    BY <2>1 DEF CutStep
  <2>4. disk' = disk \/ \A f \in Files : upload[f] # "stored"
    BY <2>1 DEF CutStep, RestoreInv, Alone, RestoreSteps, UndoSteps, CleanupSteps
  <2> QED BY <2>1, <2>2, <2>3, <2>4, <1>0
<1> QED BY <1>1, <1>2, <1>3, <1>4, <1>5, <1>6, <1>7, <1>8, <1>9, <1>10, <1>11, <1>12, <1>13,
           <1>14, <1>15, <1>16, <1>17, <1>18, <1>19, <1>20, <1>21
        DEF Command

\* Commands leave no row without its file, except where a deletion of it was
\* begun, in the live data, the archives and what an undo puts back.
LEMMA CommandKeepsRowsAccounted ==
  ASSUME TypeOK, RestoreInv, RowsAccounted, Command
  PROVE  RowsAccounted'
<1>1. /\ NoArchive.rows = {} /\ NoFile.rows = {} /\ NoFile.state = "none"
      /\ \A rows, media : rows = {} => Accounted(rows \ Skipped, media)'
  BY DEF NoArchive, NoFile, Accounted
<1>2. /\ archive.rows \subseteq Files /\ Rows \subseteq Files
      /\ RowsIn(before.main, before.wal) \subseteq Files
      /\ \A a \in archives : a.rows \subseteq Files
  BY RowsTyped DEF TypeOK, Archive, LiveData, DatabaseFile, RowsIn
<1>3. /\ RowHasFile
      /\ damage = {} /\ pc \in RestoreSteps =>
             Accounted(RowsIn(before.main, before.wal) \ LeftOut, before.media)
      /\ \A a \in archives : a.damage = {} => Accounted(a.rows \ Skipped, a.media)
      /\ pc = "collect" /\ archive.damage = {} => Accounted(archive.rows \ Skipped, disk)
      /\ pc # "collect" /\ archive.damage = {} => Accounted(archive.rows \ Skipped, archive.media)
      /\ pc \in RestoreSteps => restores # 0
  BY DEF RowsAccounted
<1>4. damage = {} /\ pc \notin ActivationSteps \cup UndoSteps => Accounted(Rows \ LeftOut, disk)
  BY <1>3 DEF RowHasFile, Accounted
<1>5. RowHasFile' <=> (damage' = {} /\ pc' \notin ActivationSteps \cup UndoSteps
                           => Accounted(Rows \ LeftOut, disk)')
  BY DEF RowHasFile, Accounted
<1>6. UNCHANGED <<main, wal>> => Rows' = Rows
  BY DEF Rows
<1> USE DEF RestoreSteps, SnapshotSteps, ActivationSteps, UndoSteps
<1>8. CASE CopyDatabase
  <2>1. /\ UNCHANGED <<main, wal, disk, removal, archives, damage, before, restores>>
        /\ pc = "idle" /\ pc' = "collect" /\ archive'.rows = Rows /\ archive'.damage = damage
    BY <1>8 DEF CopyDatabase, mediaVars, kept, bounds
  <2> QED BY <1>3, <1>4, <1>6, <2>1 DEF RowsAccounted, RowHasFile, Accounted, LeftOut
<1>9. CASE CollectMedia
  <2>1. /\ UNCHANGED <<main, wal, disk, removal, archives, damage, before, restores>>
        /\ pc = "collect" /\ pc' = "write"
        /\ archive'.rows = archive.rows /\ archive'.damage = archive.damage
        /\ archive'.media = (archive.rows \cap disk) \ Skipped
    BY <1>9 DEF CollectMedia, mediaVars, kept, TypeOK, Archive, bounds
  <2> QED BY <1>3, <1>6, <2>1 DEF RowsAccounted, RowHasFile, Accounted, LeftOut
<1>10. CASE WriteArchive
  <2>1. /\ UNCHANGED <<main, wal, disk, removal, damage, before, restores>>
        /\ pc = "write" /\ pc' = "idle" /\ archives' = archives \cup {archive}
        /\ archive' = NoArchive
    BY <1>10 DEF WriteArchive, mediaVars, bounds
  <2> QED BY <1>1, <1>3, <1>6, <2>1 DEF RowsAccounted, RowHasFile, Accounted, LeftOut
<1>11. ASSUME NEW a \in archives, RemoveArchive(a) PROVE RowsAccounted'
  <2>1. /\ UNCHANGED <<main, wal, disk, removal, damage, before, pc, archive, restores>>
        /\ archives' \subseteq archives
    BY <1>11 DEF RemoveArchive, mediaVars, bounds
  <2> QED BY <1>3, <1>6, <2>1 DEF RowsAccounted, RowHasFile, Accounted, LeftOut
<1>12. ASSUME NEW a \in archives, RestoreStart(a) PROVE RowsAccounted'
  <2>1. /\ UNCHANGED <<main, wal, disk, removal, damage, archives>>
        /\ pc = "idle" /\ pc' = "snapshot" /\ archive' = a
        /\ before'.main = main /\ before'.wal = wal /\ before'.media = disk
        /\ LeftOut \subseteq LeftOut' /\ restores' # 0
    BY <1>12, OperatorAssumption DEF RestoreStart, mediaVars, Live, LeftOut, TypeOK
  <2>2. RowsIn(before'.main, before'.wal) = Rows
    BY <2>1 DEF RowsIn, Rows
  <2> QED BY <1>3, <1>4, <1>6, <2>1, <2>2 DEF RowsAccounted, RowHasFile, Accounted, LeftOut
<1>13. CASE SnapshotDatabase \/ SnapshotMedia \/ CleanStart
  <2>1. /\ UNCHANGED <<main, wal, disk, removal, damage, before, archives, archive, restores>>
        /\ pc \notin ActivationSteps \cup UndoSteps \cup {"collect"} /\ pc' # "collect"
        /\ pc' \in RestoreSteps => pc \in RestoreSteps
    BY <1>13 DEF SnapshotDatabase, SnapshotMedia, CleanStart, mediaVars, bounds, kept
  <2> QED BY <1>3, <1>6, <2>1 DEF RowsAccounted, RowHasFile, Accounted, LeftOut
<1>14. CASE DropSidecars \/ ReplaceDatabase \/ MoveMedia \/ PlaceMedia \/ ActivationFails
              \/ UndoMain \/ UndoWal
  <2>1. /\ UNCHANGED <<removal, damage, before, archives, archive, restores>>
        /\ pc \in RestoreSteps /\ pc' \in ActivationSteps \cup UndoSteps
    BY <1>14 DEF DropSidecars, ReplaceDatabase, MoveMedia, PlaceMedia, ActivationFails, UndoMain,
                 UndoWal, mediaVars, service, bounds, kept
  <2> QED BY <1>3, <2>1 DEF RowsAccounted, RowHasFile, Accounted, LeftOut
<1>15. CASE FinishRestore
  <2>1. /\ UNCHANGED <<main, wal, disk, removal, archives, restores>>
        /\ pc = "finish" /\ pc' = "idle" /\ damage' = archive.damage /\ archive' = NoArchive
    BY <1>15 DEF FinishRestore, mediaVars, bounds
  <2>2. wal = NoFile /\ main.rows = archive.rows /\ disk = archive.media
    BY <2>1 DEF RestoreInv, InPlace
  <2>3. Rows' = archive.rows
    BY <1>1, <2>1, <2>2 DEF Rows
  <2> QED BY <1>1, <1>3, <2>1, <2>2, <2>3 DEF RowsAccounted, RowHasFile, Accounted, LeftOut
<1>16. CASE UndoMedia
  <2>1. /\ UNCHANGED <<main, wal, removal, archives, damage, restores>>
        /\ pc = "undo_media" /\ pc' = "idle" /\ archive' = NoArchive
        /\ disk' = snapshot.media
    BY <1>16 DEF UndoMedia, service, bounds
  <2>2. main = snapshot.main /\ wal = snapshot.wal /\ snapshot = before
    BY <2>1 DEF RestoreInv, InPlace, SnapshotIsBefore, RollbackPossible
  <2>3. Rows' = RowsIn(before.main, before.wal) /\ disk' = before.media
    BY <2>1, <2>2 DEF Rows, RowsIn
  <2> QED BY <1>1, <1>3, <2>1, <2>3 DEF RowsAccounted, RowHasFile, Accounted, LeftOut
<1>17. CASE CleanDatabase \/ CleanWal
  <2>1. /\ UNCHANGED <<removal, damage, archives, archive, restores>>
        /\ pc # "collect" /\ pc' \notin RestoreSteps \cup {"collect"}
    BY <1>17 DEF CleanDatabase, CleanWal, service, kept, bounds
  <2>2. main' = NoFile
    BY <1>17 DEF CleanDatabase, CleanWal, RestoreInv, InPlace
  <2>3. Rows' = {}
    BY <1>1, <2>2 DEF Rows
  <2> QED BY <1>3, <2>1, <2>3 DEF RowsAccounted, RowHasFile, Accounted, LeftOut
<1>18. CASE CleanMedia
  <2>1. /\ UNCHANGED <<main, wal, damage, archives, archive, restores>>
        /\ pc # "collect" /\ pc' = "idle"
        /\ \A f \in Files : removal'[f] = IF f \in Rows THEN "over" ELSE removal[f]
    BY <1>18 DEF CleanMedia, kept, bounds
  <2>2. Accounted(Rows \ LeftOut, disk)'
    BY <1>2, <1>6, <2>1 DEF Accounted
  <2>3. ASSUME NEW rows \in SUBSET Files, NEW media, Accounted(rows, media)
        PROVE  \A f \in rows \ media : removal'[f] # "none"
    BY <2>1, <2>3 DEF Accounted
  <2>4. \A a \in archives : a.damage = {} => \A f \in (a.rows \ Skipped) \ a.media : removal'[f] # "none"
    BY <1>2, <1>3, <2>3
  <2>5. archive.damage = {} => \A f \in (archive.rows \ Skipped) \ archive.media : removal'[f] # "none"
    BY <1>2, <1>3, <2>1, <2>3
  <2> QED BY <1>5, <2>1, <2>2, <2>4, <2>5 DEF RowsAccounted, Accounted
<1>19. CASE CutOff
  <2>1. /\ UNCHANGED <<removal, archives, restores>>
        /\ pc' = "idle" /\ archive' = NoArchive /\ CutStep
    BY <1>19 DEF CutOff, service, bounds
  <2>2. ASSUME damage' = {} PROVE damage = {} /\ UNCHANGED <<main, wal, disk>>
                                  /\ pc \notin ActivationSteps \cup UndoSteps
    <3>1. pc \in BackupSteps \cup SnapshotSteps
      BY <1>19, <2>2 DEF CutOff, TypeOK, CleanupSteps, BackupSteps
    <3> QED BY <1>19, <2>1, <2>2, <3>1 DEF CutOff, CutStep, BackupSteps
  <2> QED BY <1>1, <1>3, <1>6, <2>1, <2>2 DEF RowsAccounted, RowHasFile, Accounted, LeftOut
<1> QED BY <1>8, <1>9, <1>10, <1>11, <1>12, <1>13, <1>14, <1>15, <1>16, <1>17, <1>18, <1>19
        DEF Command

\* Files and rows agree after every step.
LEMMA NextFilesInv ==
  ASSUME OperatorWaits, TypeOK, RestoreInv, FilesInv, [Next]_vars
  PROVE  FilesInv'
<1>1. CASE BackendServes
  <2>1. pc \notin RestoreSteps
    BY <1>1 DEF RestoreInv, Alone, BackendServes, Serve, StoreUpload, RecordUpload, UnlinkMedia,
                DeleteMediaRow, DeleteListing, Checkpoint, StopBackend
  <2> QED BY <1>1, <2>1, ServeIsServed, ServedKeepsFiles
<1>2. CASE BackendStarts
  <2>1. pc \notin RestoreSteps
    BY <1>2 DEF BackendStarts, RestoreSteps, BackupSteps, SnapshotSteps, ActivationSteps, UndoSteps
  <2> QED BY <1>2, <2>1, StartIsServed, ServedKeepsFiles
<1>3. CASE Command
  BY <1>3, CommandKeepsRowsAccounted, CommandKeepsNotRecorded DEF FilesInv
<1>4. CASE UNCHANGED vars
  <2> USE <1>4 DEF vars, mediaVars, jobVars, kept, bounds
  <2>1. RowsAccounted'
    BY DEF FilesInv, RowsAccounted, RowHasFile, Accounted, Rows, LeftOut
  <2>2. NotRecorded'
    BY DEF FilesInv, NotRecorded, Unrecorded
  <2> QED BY <2>1, <2>2 DEF FilesInv
<1> QED BY <1>1, <1>2, <1>3, <1>4 DEF Next

\* Rows and files of the media agree through uploads, deletions, backups,
\* restores, undos and cleanups, wherever one of them fails: a row without its
\* file had its deletion begun, and a rejected upload leaves neither.
THEOREM FilesKeepRows ==
  ASSUME OperatorWaits
  PROVE  Spec => []FilesMatchRows
<1>1. FilesInv => FilesMatchRows
  BY RowsAreInFiles DEF FilesInv, RowsAccounted, NotRecorded, Unrecorded, FilesMatchRows,
                        RejectedUploadLeavesNothing
<1> QED BY <1>1, InitTypeOK, NextTypeOK, InitRestoreInv, NextRestoreInv, InitFilesInv, NextFilesInv,
           PTL DEF Spec

=============================================================================
