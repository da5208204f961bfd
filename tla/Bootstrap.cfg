SPECIFICATION FairSpec
CONSTANTS
    NumCalls = 2
    MaxDeaths = 2
INVARIANTS
    OneHolder
    OneServer
    NoLockLeft
    BootstrapInvariant
PROPERTIES
    NoLiveOwnerEvicted
    NoOwnerErased
    EveryCallEnds
CHECK_DEADLOCK FALSE
