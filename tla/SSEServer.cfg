SPECIFICATION FairSpec
CONSTANTS
    Stream = {c1, c2}
    Gateway = {g1, g2}
    Buffer = 2
    MaxVersion = 3
    MaxOpens = 3
INVARIANTS
    NoSendOnClosed
    NeverStale
PROPERTIES
    Serves
    CatchesUp
CHECK_DEADLOCK FALSE
