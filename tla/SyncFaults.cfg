SPECIFICATION Spec
CONSTANTS
    i1 = i1 i2 = i2 d1 = d1 f1 = f1 f2 = f2 c1 = c1
    None = None
    Inserts <- TwoInserts
    Deletes <- Nobody
    HttpEdits <- SecondInsert
    Flushers <- Nobody
    Completers <- Nobody
    HasQueue = TRUE
    MaxActions = 1
    MaxCrashes = 1
    MaxReloads = 1
    MaxWrites = 0
    MaxFaults = 1
    MaxMessages = 2
INVARIANTS TypeOK OwedIsScheduled LoadedOnly
CHECK_DEADLOCK FALSE
