SPECIFICATION Spec
CONSTANTS
    s1 = s1 s2 = s2 x = x y = y z = z j1 = j1 j2 = j2
    Absent = Absent Tombstone = Tombstone Unreadable = Unreadable None = None
    Pages <- TwoPages
    Slots <- OneSlot
    Values <- ThreeValues
    Jobs <- TwoJobs
    BatchSize = 1
    RevertThreshold = 3
    Overlapping = FALSE
    MaxVersions = 3
    MaxEvents = 2
PROPERTY DeletedStaysDeleted
CHECK_DEADLOCK FALSE
