SPECIFICATION FairSpec
CONSTANTS
    alice = alice
    bob = bob
    Users <- MCUsers
    TxTTL = 3
    RetryTTL = 2
    ClaimTTL = 2
    MaxNow = 9
INVARIANT FullRetryWindow
CHECK_DEADLOCK FALSE
