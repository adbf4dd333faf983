SPECIFICATION FairSpec
CONSTANTS
    alice = alice
    bob = bob
    Users <- MCUsers
    TxTTL = 3
    RetryTTL = 2
    ClaimTTL = 2
    MaxNow = 9
INVARIANTS TypeOK MemoryIsDurable RetryWindow
PROPERTIES FirstApprovalBinds ArmedIsCleaned
CHECK_DEADLOCK FALSE
