SPECIFICATION FairSpec
CONSTANTS
    None = None
    Docs <- TwoDocs
    Contested <- Second
    Jobs <- TwoJobs
    Asked <- Mixed
    ChunkSize = 2
    Events <- AllEvents
    MaxEvents = 1
    MaxDeaths = 1
INVARIANTS TypeOK NoReplayedMerge MergedIsWhole PublishedIsCheckpointed
PROPERTIES LedgerIsFinal ClaimIsReleased

CHECK_DEADLOCK FALSE
