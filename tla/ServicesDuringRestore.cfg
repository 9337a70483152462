SPECIFICATION Spec
CONSTANTS
    l1 = l1
    f1 = f1
    Files = {f1}
    Listings = {l1}
    ListingOf <- MCListingOf
    Skipped = {}
    OperatorWaits = FALSE
    MaxArchives = 1
    MaxRestores = 1
    MaxCleanups = 0
PROPERTIES
    RestoreWhileStopped
CHECK_DEADLOCK FALSE
