SPECIFICATION Spec
CONSTANTS
    None = None
    Docs <- TwoDocs
    Contested <- Second
    Jobs <- TwoJobs
    Asked <- OnlySource
    ChunkSize = 2
    Events = {}
    MaxEvents = 1
    MaxDeaths = 0
INVARIANTS PublishedIsMerged
CHECK_DEADLOCK FALSE
