SPECIFICATION Spec
CONSTANTS
    i1 = i1 i2 = i2 d1 = d1 f1 = f1 f2 = f2 c1 = c1
    None = None
    Inserts <- TwoInserts
    Deletes <- Nobody
    HttpEdits <- Nobody
    Flushers <- Nobody
    Completers <- OneCompleter
    HasQueue = TRUE
    MaxActions = 0
    MaxCrashes = 1
    MaxReloads = 0
    MaxWrites = 0
    MaxFaults = 0
    MaxMessages = 2
INVARIANTS LoadedOnly
CHECK_DEADLOCK FALSE
