SPECIFICATION FairSpec
CONSTANTS
    i1 = i1 i2 = i2 d1 = d1 f1 = f1 f2 = f2 c1 = c1
    None = None
    Inserts <- OneInsert
    Deletes <- Nobody
    HttpEdits <- Nobody
    Flushers <- TwoFlushers
    Completers <- OneCompleter
    HasQueue = TRUE
    MaxActions = 0
    MaxCrashes = 0
    MaxReloads = 0
    MaxWrites = 1
    MaxFaults = 0
    MaxMessages = 2
INVARIANTS OwedIsArmed
PROPERTIES FlushCovers EventuallyWritten
CHECK_DEADLOCK FALSE
