SPECIFICATION Spec
CONSTANTS
    None = None
    Docs <- TwoDocs
    Contested <- Second
    Jobs <- TwoJobs
    Asked <- OnlySource
    ChunkSize = 2
    Events = {"launchError"}
    MaxEvents = 1
    MaxDeaths = 0
INVARIANTS NoDuplicateMerge
CHECK_DEADLOCK FALSE
