SPECIFICATION FairSpec
CONSTANTS
    s1 = s1
    s2 = s2
    n1 = n1
    n2 = n2
    top = top
    leaf = leaf
    a = a
    b = b
    Source = {s1, s2}
    Namespace = {n1, n2}
    Root <- MCRoot
    Gateway = {top, leaf}
    Hierarchy <- MCHierarchy
    Data = {a, b}
    NoFile = NoFile
    EmptyDoc = EmptyDoc
    Broken = Broken
    Unmergeable <- MCUnmergeable
    Invalid <- MCInvalid
    Deep <- MCDeep
    FileGateway = top
    Hash <- MCHash
    NoConfig = NoConfig
    NoHash = NoHash
    AutoTrigger = TRUE
    MaxEdits = 1
    MaxFaults = 1
    MaxCrashes = 1
INVARIANTS
    TypeOK
    NoLostRequest
    CacheTruth
    SettledIsCurrent
    PublishedValid
    NoIdleReload
PROPERTIES
    PublishDiscipline
    RequestServed
    Converges
