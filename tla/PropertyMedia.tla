---------------------------- MODULE PropertyMedia ----------------------------
(***************************************************************************)
(* Property media of the running backend: a file under the media root and  *)
(* a row of property_media, written one after the other by upload and      *)
(* delete (backend/app/routers/listings.py, media_storage.py), over SQLite *)
(* in WAL mode.  The dashboard's handlers run in threads and interleave at *)
(* every step; flush and commit are one step, since nothing else can write *)
(* in between.  Every upload has a file name of its own (secrets).         *)
(*                                                                         *)
(* A database file has an identity ("id") that its write-ahead log shares: *)
(* the log of another file would be applied to pages it does not belong    *)
(* to.  Of the rows the model keeps which media files they name.           *)
(***************************************************************************)
EXTENDS Naturals, FiniteSets

CONSTANTS
    Files,          \* the file names generated for uploads
    Listings,
    ListingOf       \* [Files -> Listings]

ASSUME MediaAssumption == ListingOf \in [Files -> Listings]

VARIABLES
    main,       \* the SQLite database file
    wal,        \* its write-ahead log
    disk,       \* files under <media root>/properties
    backend,    \* "up" or "down"
    created,    \* database files made so far
    upload,     \* per file: how far its upload is
    removal     \* per file: how far the deletion of its row is

mediaVars == <<main, wal, disk, backend, created, upload, removal>>

DatabaseFile == [state : {"none", "torn", "whole"}, id : Nat, rows : SUBSET Files]

NoFile == [state |-> "none", id |-> 0, rows |-> {}]

\* "over": answered otherwise than by a rejection, or cut off.
UploadState  == {"new", "stored", "rejected", "over"}
RemovalState == {"none", "unlinked", "over"}

MediaTypeOK ==
    /\ main \in DatabaseFile
    /\ wal \in DatabaseFile
    /\ disk \subseteq Files
    /\ backend \in {"up", "down"}
    /\ created \in Nat
    /\ upload \in [Files -> UploadState]
    /\ removal \in [Files -> RemovalState]

MediaInit ==
    /\ main = [state |-> "whole", id |-> 0, rows |-> {}]
    /\ wal = NoFile
    /\ disk = {}
    /\ backend = "up"
    /\ created = 0
    /\ upload = [f \in Files |-> "new"]
    /\ removal = [f \in Files |-> "none"]

\* SQLite can open the database: no half-written file, and no log of another.
Usable ==
    /\ main.state # "torn" /\ wal.state # "torn"
    /\ main.state = "whole" /\ wal.state = "whole" => wal.id = main.id

\* The rows a connection sees.
Rows == IF main.state = "whole" /\ wal.state = "whole" THEN wal.rows ELSE main.rows

CommitRows(rows) ==
    /\ wal' = IF rows = Rows THEN wal
              ELSE [state |-> "whole", id |-> main.id, rows |-> rows]
    /\ UNCHANGED main

-----------------------------------------------------------------------------
\* store_uploaded_file: written under a temporary name and renamed, or nothing
\* is left (unknown listing, file too large, an error of the disk).
StoreUpload(f) ==
    /\ backend = "up" /\ upload[f] = "new"
    /\ \/ disk' = disk \cup {f} /\ upload' = [upload EXCEPT ![f] = "stored"]
       \/ disk' = disk /\ upload' = [upload EXCEPT ![f] = "rejected"]
    /\ UNCHANGED <<main, wal, backend, created, removal>>

\* Mutant: a rejected upload leaves its file.
RecordUploadKeepingFile(f) ==
    /\ backend = "up" /\ upload[f] = "stored"
    /\ \/ CommitRows(Rows \cup {f}) /\ disk' = disk /\ upload' = [upload EXCEPT ![f] = "over"]
       \/ /\ disk' = disk /\ upload' = [upload EXCEPT ![f] = "rejected"]
          /\ UNCHANGED <<main, wal>>
    /\ UNCHANGED <<backend, created, removal>>

\* upsert_property_media and the commit; or the listing is gone by now and the
\* file is deleted; or the database is locked and the file stays.
RecordUpload(f) ==
    /\ backend = "up" /\ upload[f] = "stored"
    /\ \/ CommitRows(Rows \cup {f}) /\ disk' = disk /\ upload' = [upload EXCEPT ![f] = "over"]
       \/ /\ disk' = disk \ {f} /\ upload' = [upload EXCEPT ![f] = "rejected"]
          /\ UNCHANGED <<main, wal>>
       \/ /\ disk' = disk /\ upload' = [upload EXCEPT ![f] = "over"]
          /\ UNCHANGED <<main, wal>>
    /\ UNCHANGED <<backend, created, removal>>

\* delete_property_media_route: the file goes first, a missing file is fine.
UnlinkMedia(f) ==
    /\ backend = "up" /\ f \in Rows /\ removal[f] # "unlinked"
    /\ disk' = disk \ {f}
    /\ removal' = [removal EXCEPT ![f] = "unlinked"]
    /\ UNCHANGED <<main, wal, backend, created, upload>>

\* Then the row, unless the database is locked.
DeleteMediaRow(f) ==
    /\ backend = "up" /\ removal[f] = "unlinked"
    /\ \/ CommitRows(Rows \ {f}) /\ removal' = [removal EXCEPT ![f] = "over"]
       \/ removal' = [removal EXCEPT ![f] = "over"] /\ UNCHANGED <<main, wal>>
    /\ UNCHANGED <<disk, backend, created, upload>>

\* delete_properties takes the rows of a listing and leaves the files.
DeleteListing(l) ==
    /\ backend = "up"
    /\ \E f \in Rows : ListingOf[f] = l
    /\ CommitRows({f \in Rows : ListingOf[f] # l})
    /\ UNCHANGED <<disk, backend, created, upload, removal>>

-----------------------------------------------------------------------------
\* SQLite moves the log into the database file.
Checkpoint ==
    /\ backend = "up" /\ wal.state = "whole"
    /\ main' = [main EXCEPT !.rows = wal.rows]
    /\ wal' = NoFile
    /\ UNCHANGED <<disk, backend, created, upload, removal>>

\* The backend stops or dies: handlers are cut off, the log may be left.
StopBackend ==
    /\ backend = "up"
    /\ backend' = "down"
    /\ upload' = [f \in Files |-> IF upload[f] = "stored" THEN "over" ELSE upload[f]]
    /\ removal' = [f \in Files |-> IF removal[f] = "unlinked" THEN "over" ELSE removal[f]]
    /\ UNCHANGED <<main, wal, disk, created>>

\* init_db makes a missing database; SQLite drops the log of an empty one.
StartBackend ==
    /\ backend = "down" /\ Usable
    /\ backend' = "up"
    /\ IF main.state = "none"
       THEN /\ main' = [state |-> "whole", id |-> created + 1, rows |-> {}]
            /\ wal' = NoFile
            /\ created' = created + 1
       ELSE UNCHANGED <<main, wal, created>>
    /\ UNCHANGED <<disk, upload, removal>>

Serve ==
    \/ \E f \in Files : StoreUpload(f) \/ RecordUpload(f) \/ UnlinkMedia(f) \/ DeleteMediaRow(f)
    \/ \E l \in Listings : DeleteListing(l)
    \/ Checkpoint
    \/ StopBackend

=============================================================================
