SPECIFICATION FairSpec
CONSTANTS
    c1 = c1
    c2 = c2
    Nobody = Nobody
    Client = {c1, c2}
    Normalized <- MCNormalized
    Compiled <- MCCompiled
    WithDefaults <- MCWithDefaults
    Merged <- MCMerged
    Members <- MCMembers
    RawSchemas <- MCRawSchemas
    Loose = FALSE
    MaxRetries = 1
    Files <- MCFiles
    Contents <- MCContents
    HierarchyOf <- MCHierarchyOf
    Scenarios <- MCScenarios
INVARIANTS
    SourcesNotModified
    IndexNotModified
    ConfigShowsObject
    FetchedOnce
    RefsResolve
    DefaultsOnlyAdd
PROPERTIES
    Answered
