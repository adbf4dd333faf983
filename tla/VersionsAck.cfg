SPECIFICATION Spec
CONSTANTS
    title = title body = body old = old new = new
    w1 = w1 w2 = w2 b1 = b1 b2 = b2 p1 = p1 s1 = s1 r1 = r1
    Null = Null
    Fields <- MCFields
    Values <- MCValues
    Savers <- TwoSavers
    Batchers <- None0
    Sessions <- None0
    Publishers <- None0
    Reverters <- None0
    RebaselineInterval = 25
    MaxVersions = 4
PROPERTIES SavedIsStored
CHECK_DEADLOCK FALSE
