SPECIFICATION Spec
CONSTANTS
    None = None
    Docs <- TwoDocs
    Contested <- Second
    Jobs <- TwoJobs
    Asked <- OnlySource
    ChunkSize = 2
    Events = {"move"}
    MaxEvents = 1
    MaxDeaths = 0
INVARIANTS MergedIsFaithful
CHECK_DEADLOCK FALSE
