SPECIFICATION Spec
CONSTANTS
    NumCalls = 2
    MaxDeaths = 0
INVARIANT
    OneOwner
CHECK_DEADLOCK FALSE
