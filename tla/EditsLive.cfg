SPECIFICATION FairSpec
CONSTANTS
    s1 = s1 s2 = s2 s3 = s3 a1 = a1 a2 = a2 t1 = t1 t2 = t2 t3 = t3 top = top bottom = bottom
    None = None
    Sessions = {s1, s2}
    Agents = {a1}
    Turns = {t1}
    Owner <- OwnerOf
    Regions <- RegionsOf
    Turn <- OneTurn
    Checkpointed = {s2}
    Restorers = {1, 2}
    MaxStopped = 1
    MaxCrashes = 2
INVARIANTS TypeOK OpenSessionSurvives
PROPERTY SessionsEnd
CHECK_DEADLOCK FALSE
