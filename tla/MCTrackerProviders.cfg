SPECIFICATION Spec
CONSTANTS
    x = x
    y = y
    Provider = {p, q}
    Identity = {x}
    EventBuffer = 1
    Scenarios <- One
    MaxEdits = 1
    MaxFaults = 1
INVARIANTS
    CommittedStaysManaged
