SPECIFICATION Spec
CONSTANTS
    l1 = l1
    f1 = f1  f2 = f2
    Files = {f1, f2}
    Listings = {l1}
    ListingOf <- MCListingOf
    Skipped = {f2}
    OperatorWaits = TRUE
    MaxArchives = 1
    MaxRestores = 2
    MaxCleanups = 1
INVARIANTS
    TypeOK
    RollbackPossible
    FilesMatchRows
    DatabaseUsable
PROPERTIES
    RestoreAllOrNothing
CHECK_DEADLOCK FALSE
