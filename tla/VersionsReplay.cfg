SPECIFICATION Spec
CONSTANTS
    title = title body = body old = old new = new
    w1 = w1 w2 = w2 b1 = b1 b2 = b2 p1 = p1 s1 = s1 r1 = r1
    Null = Null
    Fields <- MCFields
    Values <- MCValues
    Savers <- OneSaver
    Batchers <- TwoBatchers
    Sessions <- OneSession
    Publishers <- None0
    Reverters <- OneReverter
    RebaselineInterval = 25
    MaxVersions = 4
INVARIANTS ReplayFaithful
PROPERTIES Refinement
SYMMETRY WriterSymmetry
CHECK_DEADLOCK FALSE
