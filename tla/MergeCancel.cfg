SPECIFICATION Spec
CONSTANTS
    None = None
    Docs <- TwoDocs
    Contested <- Second
    Jobs <- TwoJobs
    Asked <- OnlySource
    ChunkSize = 2
    Events = {"cancel"}
    MaxEvents = 1
    MaxDeaths = 0
INVARIANTS CancelIsHonoured
CHECK_DEADLOCK FALSE
