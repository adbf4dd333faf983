SPECIFICATION Spec
CONSTANTS
    s1 = s1 s2 = s2 s3 = s3 a1 = a1 a2 = a2 t1 = t1 t2 = t2 t3 = t3 top = top bottom = bottom
    None = None
    Sessions = {s1, s2}
    Agents = {a1, a2}
    Turns = {t1, t2, t3}
    Owner <- OwnerOf
    Regions <- RegionsOf
    Turn <- TurnOf
    Checkpointed = {s2}
    Restorers = {1}
    MaxStopped = 2
    MaxCrashes = 1
PROPERTIES BarredTurnsDoNotEdit BarredTurnsOpenNothing
CHECK_DEADLOCK FALSE
