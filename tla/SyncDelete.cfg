SPECIFICATION Spec
CONSTANTS
    i1 = i1 i2 = i2 d1 = d1 f1 = f1 f2 = f2 c1 = c1
    None = None
    Inserts <- OneInsert
    Deletes <- OneDelete
    HttpEdits <- OneDelete
    Flushers <- OneFlusher
    Completers <- Nobody
    HasQueue = TRUE
    MaxActions = 0
    MaxCrashes = 0
    MaxReloads = 0
    MaxWrites = 0
    MaxFaults = 0
    MaxMessages = 2
INVARIANTS CleanIsWritten
CHECK_DEADLOCK FALSE
