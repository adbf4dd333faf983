SPECIFICATION Spec
CONSTANTS
    title = title body = body old = old new = new
    w1 = w1 w2 = w2 b1 = b1 b2 = b2 p1 = p1 s1 = s1 r1 = r1
    Null = Null
    Fields <- OneField
    Values <- MCValues
    Savers <- TwoSavers
    Batchers <- OneBatcher
    Sessions <- OneSession
    Publishers <- OnePublisher
    Reverters <- None0
    RebaselineInterval = 3
    MaxVersions = 4
SYMMETRY SaverSymmetry
INVARIANTS TypeOK PublishedServable Rebuildable TipMaterialized
CHECK_DEADLOCK FALSE
