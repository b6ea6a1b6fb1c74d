SPECIFICATION Spec
CONSTANTS
    Payload = {p1, p2}
    Empty = Empty
    Torn = Torn
    NoFile = NoFile
    NoRequest = NoRequest
    Mode = {m600, m640, m644}
    TempMode = m600
    MaxFaults = 3
    MaxCrashes = 2
    MaxChmods = 1
INVARIANTS
    NeverTorn
    NoLitter
PROPERTIES
    ModeKept
    ReplacesAtomically
