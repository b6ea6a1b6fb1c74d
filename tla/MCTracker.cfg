SPECIFICATION FairSpec
CONSTANTS
    x = x
    y = y
    Provider = {p}
    Identity = {x, y}
    EventBuffer = 1
    Scenarios <- Both
    MaxEdits = 1
    MaxFaults = 1
INVARIANTS
    TypeOK
    Agreement
    CommittedStaysManaged
PROPERTIES
    NeverOlder
    FallbackReplaced
    Released
