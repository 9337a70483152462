SPECIFICATION MCSpec
CONSTANTS
    l1 = l1  l2 = l2
    f1 = f1  f2 = f2  f3 = f3
    Listings = {l1, l2}
    Files = {f1, f2, f3}
    ListingOf <- MediaListing
    FileOrder <- Order
    Spelling <- Spellings
    BackendAtRoot = TRUE
    Payloads <- Texts
    Starter <- StarterBlocks
    Demo = {l1}
    MaxId = 4
    MaxReplies = 1
    MaxOperations = 3
INVARIANTS
    TypeOK
    SentInPlaybookOrder
    ReplyIsBacked
PROPERTIES
    SilenceIsForeseen
    OrphansOnlyFromRaces
    StarterNeverReplaces
CHECK_DEADLOCK FALSE
