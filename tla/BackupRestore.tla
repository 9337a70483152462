---------------------------- MODULE BackupRestore ----------------------------
(***************************************************************************)
(* The operator's command line over the same files: backup, restore with   *)
(* its rollback snapshot, and the cleanup of data and of archives          *)
(* (backend/app/backup.py), run beside a backend that serves uploads and   *)
(* deletions (PropertyMedia).  One command runs at a time.  Every command  *)
(* may fail or be killed between two steps; a failing activation is undone *)
(* from the snapshot, a killed one is not.                                 *)
(*                                                                         *)
(* Temporary files (.incomplete archives, staged and replaced media, a     *)
(* partial snapshot) are read by nothing and left out.                     *)
(***************************************************************************)
EXTENDS PropertyMedia

CONSTANTS
    Skipped,        \* uploads that the backup's filters refuse: by a part of
                    \* their path ("build", "logs", ...) or by their name
                    \* ("pairing", "api_key", "session.json", ...)
    OperatorWaits,  \* the operator leaves the services down during a command
    MaxArchives,    \* bound: archives kept at a time
    MaxRestores,    \* bound: restores begun
    MaxCleanups     \* bound: cleanups begun

ASSUME OperatorAssumption ==
    /\ Skipped \subseteq Files
    /\ OperatorWaits \in BOOLEAN
    /\ {MaxArchives, MaxRestores, MaxCleanups} \subseteq Nat

VARIABLES
    pc,             \* the step the command is at
    archive,        \* the archive being made or restored; else NoArchive
    snapshot,       \* the rollback snapshot being made or used; else NoData
    archives,       \* runtime/backups
    outcome,        \* how the last restore ended
    before,         \* observer: the live data when the restore began; else NoData
    damage,         \* observer: commands cut off halfway over the live data
    restores, cleanups

bounds == <<restores, cleanups>>
kept == <<snapshot, archives, outcome, before, damage>>
jobVars == <<pc, archive, kept, bounds>>
service == <<backend, created, upload, removal>>
vars == <<mediaVars, jobVars>>

Damage == {"activation", "undo", "cleanup"}

\* An archive has the media its rows name and nothing else.
Archive == {a \in [rows : SUBSET Files, media : SUBSET Files, damage : SUBSET Damage] :
                a.media \subseteq a.rows}
LiveData == [main : DatabaseFile, wal : DatabaseFile, media : SUBSET Files]

NoArchive == [rows |-> {}, media |-> {}, damage |-> {}]
NoData == [main |-> NoFile, wal |-> NoFile, media |-> {}]
Live == [main |-> main, wal |-> wal, media |-> disk]

BackupSteps     == {"collect", "write"}
SnapshotSteps   == {"snapshot", "snapshot_media"}
ActivationSteps == {"sidecars", "replace", "move_media", "place_media", "finish"}
UndoSteps       == {"undo_main", "undo_wal", "undo_media"}
CleanupSteps    == {"clean_main", "clean_wal", "clean_media"}

TypeOK ==
    /\ MediaTypeOK
    /\ pc \in {"idle"} \cup BackupSteps \cup SnapshotSteps \cup ActivationSteps
               \cup UndoSteps \cup CleanupSteps
    /\ archive \in Archive
    /\ archives \subseteq Archive
    /\ {snapshot, before} \subseteq LiveData
    /\ outcome \in {"none", "restored", "undone"}
    /\ damage \subseteq Damage
    /\ restores \in 0..MaxRestores
    /\ cleanups \in 0..MaxCleanups

Init ==
    /\ MediaInit
    /\ pc = "idle"
    /\ archive = NoArchive
    /\ archives = {}
    /\ snapshot = NoData /\ before = NoData
    /\ outcome = "none" /\ damage = {}
    /\ restores = 0 /\ cleanups = 0

-----------------------------------------------------------------------------
(* Backup: a consistent copy of the database first, then its media.        *)

\* _copy_sqlite_snapshot; the backend may be up or down.
CopyDatabase ==
    /\ pc = "idle"
    /\ main.state = "whole" /\ Usable
    /\ Cardinality(archives) < MaxArchives
    /\ pc' = "collect"
    /\ archive' = [rows |-> Rows, media |-> {}, damage |-> damage]
    /\ UNCHANGED <<mediaVars, kept, bounds>>

\* Mutant: everything under the media root is archived.
CollectEverything ==
    /\ pc = "collect"
    /\ pc' = "write"
    /\ archive' = [archive EXCEPT !.media = disk]
    /\ UNCHANGED <<mediaVars, kept, bounds>>

\* _property_media_entries: a row whose file is missing, or is refused for its
\* path or name, is listed as skipped; the backup succeeds without the file.
CollectMedia ==
    /\ pc = "collect"
    /\ pc' = "write"
    /\ archive' = [archive EXCEPT !.media = (archive.rows \cap disk) \ Skipped]
    /\ UNCHANGED <<mediaVars, kept, bounds>>

\* A file gone since it was listed fails the backup; a verified archive
\* appears under its name by a rename.
WriteArchive ==
    /\ pc = "write"
    /\ archive.media \subseteq disk
    /\ archives' = archives \cup {archive}
    /\ pc' = "idle" /\ archive' = NoArchive
    /\ UNCHANGED <<mediaVars, bounds, snapshot, outcome, before, damage>>

\* cleanup_backup_archives
RemoveArchive(a) ==
    /\ pc = "idle"
    /\ archives' = archives \ {a}
    /\ UNCHANGED <<mediaVars, bounds, pc, archive, snapshot, outcome, before, damage>>

-----------------------------------------------------------------------------
(* Restore                                                                 *)

ServicesDown == backend = "down"

\* verify_backup, active_prosper_services and _extract_verified_backup.
RestoreStart(a) ==
    /\ pc = "idle" /\ restores < MaxRestores
    /\ ServicesDown
    /\ restores' = restores + 1
    /\ archive' = a
    /\ before' = Live
    /\ outcome' = "none"
    /\ pc' = "snapshot"
    /\ UNCHANGED <<mediaVars, snapshot, archives, damage, cleanups>>

\* Mutant: only the database file is copied.
SnapshotWithoutLog ==
    /\ pc = "snapshot"
    /\ snapshot' = [main |-> main, wal |-> NoFile, media |-> {}]
    /\ pc' = "snapshot_media"
    /\ UNCHANGED <<mediaVars, bounds, archive, archives, outcome, before, damage>>

\* _create_rollback_snapshot: the database and its log, as files.
SnapshotDatabase ==
    /\ pc = "snapshot"
    /\ snapshot' = [main |-> main, wal |-> wal, media |-> {}]
    /\ pc' = "snapshot_media"
    /\ UNCHANGED <<mediaVars, bounds, archive, archives, outcome, before, damage>>

SnapshotMedia ==
    /\ pc = "snapshot_media"
    /\ snapshot' = [snapshot EXCEPT !.media = disk]
    /\ pc' = "sidecars"
    /\ UNCHANGED <<mediaVars, bounds, archive, archives, outcome, before, damage>>

\* Mutant: the old log is left to the new database.
KeepSidecars ==
    /\ pc = "sidecars"
    /\ pc' = "replace"
    /\ UNCHANGED <<mediaVars, kept, bounds, archive>>

\* _activate_restore: the old log goes before the new database comes.
DropSidecars ==
    /\ pc = "sidecars"
    /\ wal' = NoFile
    /\ pc' = "replace"
    /\ UNCHANGED <<main, disk, service, kept, bounds, archive>>

ReplaceDatabase ==
    /\ pc = "replace"
    /\ main' = [state |-> "whole", id |-> created + 1, rows |-> archive.rows]
    /\ created' = created + 1
    /\ pc' = "move_media"
    /\ UNCHANGED <<wal, disk, backend, upload, removal, kept, bounds, archive>>

\* The managed media is renamed away ...
MoveMedia ==
    /\ pc = "move_media"
    /\ disk' = {}
    /\ pc' = "place_media"
    /\ UNCHANGED <<main, wal, service, kept, bounds, archive>>

\* Mutant: the staged media stays where it was copied to.
PlaceNothing ==
    /\ pc = "place_media"
    /\ pc' = "finish"
    /\ UNCHANGED <<mediaVars, kept, bounds, archive>>

\* ... and the staged copy of the archive's media renamed in.
PlaceMedia ==
    /\ pc = "place_media"
    /\ disk' = disk \cup archive.media
    /\ pc' = "finish"
    /\ UNCHANGED <<main, wal, service, kept, bounds, archive>>

\* The replaced media is deleted and the command returns.
FinishRestore ==
    /\ pc = "finish"
    /\ pc' = "idle"
    /\ outcome' = "restored"
    /\ damage' = archive.damage
    /\ archive' = NoArchive /\ snapshot' = NoData /\ before' = NoData
    /\ UNCHANGED <<mediaVars, bounds, archives>>

-----------------------------------------------------------------------------
(* Undo: _restore_rollback_snapshot, after an exception of the activation. *)

ActivationFails ==
    /\ pc \in ActivationSteps
    /\ pc' = "undo_main"
    /\ UNCHANGED <<mediaVars, kept, bounds, archive>>

\* Mutant: the new database is only replaced if there was one before.
UndoMainOver ==
    /\ pc = "undo_main"
    /\ main' = IF snapshot.main = NoFile THEN main ELSE snapshot.main
    /\ pc' = "undo_wal"
    /\ UNCHANGED <<wal, disk, service, kept, bounds, archive>>

UndoMain ==
    /\ pc = "undo_main"
    /\ main' = snapshot.main
    /\ pc' = "undo_wal"
    /\ UNCHANGED <<wal, disk, service, kept, bounds, archive>>

UndoWal ==
    /\ pc = "undo_wal"
    /\ wal' = snapshot.wal
    /\ pc' = "undo_media"
    /\ UNCHANGED <<main, disk, service, kept, bounds, archive>>

UndoMedia ==
    /\ pc = "undo_media"
    /\ disk' = snapshot.media
    /\ pc' = "idle"
    /\ outcome' = "undone"
    /\ archive' = NoArchive /\ snapshot' = NoData /\ before' = NoData
    /\ UNCHANGED <<main, wal, service, bounds, archives, damage>>

-----------------------------------------------------------------------------
(* cleanup_operational_data: the database with its log, the media, or both *)

CleanStart ==
    /\ pc = "idle" /\ cleanups < MaxCleanups
    /\ ServicesDown
    /\ cleanups' = cleanups + 1
    /\ pc' \in {"clean_main", "clean_media"}
    /\ UNCHANGED <<mediaVars, kept, archive, restores>>

CleanDatabase ==
    /\ pc = "clean_main"
    /\ main' = NoFile
    /\ pc' = "clean_wal"
    /\ UNCHANGED <<wal, disk, service, kept, bounds, archive>>

CleanWal ==
    /\ pc = "clean_wal"
    /\ wal' = NoFile
    /\ pc' \in {"idle", "clean_media"}
    /\ UNCHANGED <<main, disk, service, kept, bounds, archive>>

CleanMedia ==
    /\ pc = "clean_media"
    /\ disk' = {}
    /\ removal' = [f \in Files |-> IF f \in Rows THEN "over" ELSE removal[f]]
    /\ pc' = "idle"
    /\ UNCHANGED <<main, wal, backend, created, upload, kept, bounds, archive>>

-----------------------------------------------------------------------------
(* The command fails where nothing undoes it, or is killed.                *)

\* What a copy or a deletion cut in the middle leaves.
CutStep ==
    \/ UNCHANGED <<main, wal, disk>>
    \/ /\ pc = "undo_main" /\ snapshot.main # NoFile
       /\ main' \in {NoFile, [snapshot.main EXCEPT !.state = "torn"]}
       /\ UNCHANGED <<wal, disk>>
    \/ /\ pc = "undo_wal" /\ snapshot.wal # NoFile
       /\ wal' \in {NoFile, [snapshot.wal EXCEPT !.state = "torn"]}
       /\ UNCHANGED <<main, disk>>
    \/ /\ pc \in {"undo_media", "clean_media"} /\ disk' \in SUBSET disk
       /\ UNCHANGED <<main, wal>>
    \/ /\ pc = "undo_media" /\ disk' \in SUBSET snapshot.media
       /\ UNCHANGED <<main, wal>>

CutOff ==
    /\ pc # "idle"
    /\ CutStep
    /\ pc' = "idle"
    /\ archive' = NoArchive /\ snapshot' = NoData /\ before' = NoData
    /\ damage' = damage \cup
           CASE pc \in BackupSteps \cup SnapshotSteps -> {}
             [] pc \in ActivationSteps -> {"activation"}
             [] pc \in UndoSteps -> {"undo"}
             [] pc \in CleanupSteps -> {"cleanup"}
    /\ UNCHANGED <<service, bounds, archives, outcome>>

-----------------------------------------------------------------------------
BackendStarts ==
    /\ OperatorWaits => pc \in {"idle"} \cup BackupSteps
    /\ StartBackend
    /\ UNCHANGED jobVars

BackendServes == Serve /\ UNCHANGED jobVars

Command ==
    \/ CopyDatabase \/ CollectMedia \/ WriteArchive
    \/ \E a \in archives : RemoveArchive(a) \/ RestoreStart(a)
    \/ SnapshotDatabase \/ SnapshotMedia
    \/ DropSidecars \/ ReplaceDatabase \/ MoveMedia \/ PlaceMedia \/ FinishRestore
    \/ ActivationFails \/ UndoMain \/ UndoWal \/ UndoMedia
    \/ CleanStart \/ CleanDatabase \/ CleanWal \/ CleanMedia
    \/ CutOff

Next == BackendServes \/ BackendStarts \/ Command

Spec == Init /\ [][Next]_vars

-----------------------------------------------------------------------------
\* From the first file a restore touches to the last, a complete rollback
\* snapshot on the disk holds what was there: database file, write-ahead log
\* and media.  So whatever fails or is killed, and whatever an earlier command
\* had left, nothing is lost (restore_backup; nothing deletes a snapshot).
RollbackPossible == pc \in ActivationSteps \cup UndoSteps => snapshot = before

\* A restore that returns has put exactly the archive in place, no row and no
\* file of the old data with it; one that reports its failure has put back
\* exactly what was there, whatever an earlier command had left
\* (_activate_restore, _restore_rollback_snapshot).
RestoreAllOrNothing ==
    [][outcome' # outcome =>
        /\ outcome' = "restored" =>
            /\ main'.state = "whole" /\ main'.rows = archive.rows
            /\ wal' = NoFile
            /\ disk' = archive.media
        /\ outcome' = "undone" => Live' = before]_vars

\* Wherever a backup, a restore or a cleanup is killed, SQLite can open what is
\* left: the log beside a database file is that file's own.  Only the undo,
\* which copies in place, can be caught with half a file.
DatabaseUsable == Usable \/ pc \in UndoSteps \/ "undo" \in damage

\* The uploads that a restore may have left without their file: the archive
\* has their row and, refused by the backup's filters, not their file.
LeftOut == IF restores = 0 THEN {} ELSE Skipped

\* A row of property_media whose file is missing had its deletion begun, by
\* delete_property_media_route or by a cleanup of the media alone, or the file
\* is one that no backup takes and there was a restore (_media_skip_reason):
\* also after a restore of an archive that was made while uploads and
\* deletions went on.
RowHasFile ==
    damage = {} /\ pc \notin ActivationSteps \cup UndoSteps
        => \A f \in (Rows \ disk) \ LeftOut : removal[f] # "none"

\* An upload that was answered with a rejection leaves no file and no row, and
\* no backup, restore or undo brings one back (upload_property_media_route).
RejectedUploadLeavesNothing ==
    \A f \in Files : upload[f] = "rejected" => f \notin disk \cup Rows

\* Rows and files of the media agree, through backups, restores and errors,
\* but for the files that no backup takes.
FilesMatchRows == RowHasFile /\ RejectedUploadLeavesNothing

\* "Restore replaces the local SQLite database and managed property media only
\* ... while local services are stopped" (docs/architecture.md:42).
RestoreWhileStopped ==
    [][pc' # pc /\ pc \in ActivationSteps => backend = "down"]_vars

=============================================================================
