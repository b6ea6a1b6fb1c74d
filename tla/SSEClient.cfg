SPECIFICATION FairSpec
CONSTANTS
    Buffer = 2
    MaxWire = 3
    MaxVersion = 4
    MaxFailures = 2
    MaxCuts = 2
INVARIANTS
    OneAtATime
    TargetReached
PROPERTIES
    Follows
    Converges
CHECK_DEADLOCK FALSE
