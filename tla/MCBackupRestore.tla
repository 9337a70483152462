--------------------------- MODULE MCBackupRestore ---------------------------
(***************************************************************************)
(* Instances of BackupRestore for TLC.  The files belong to one listing.   *)
(***************************************************************************)
EXTENDS BackupRestore

CONSTANTS l1

MCListingOf == [f \in Files |-> l1]

=============================================================================
