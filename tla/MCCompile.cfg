SPECIFICATION Spec
CONSTANTS
    Roots <- MCRoots
    Files <- MCFiles
    RootOf <- MCRootOf
    DirOf <- MCDirOf
    Contents <- MCContents
    EnvContents <- MCEnvContents
    BaseEnv <- MCBaseEnv
    CertFiles <- MCCertFiles
    Providers <- MCProviders
    DefaultProvider = "letsencrypt"
    Virtualgw <- MCVirtualgw
    GatewayFromDots = TRUE
    EnableLabels = TRUE
    Merged <- MCMerged
    Substituted <- MCSubstituted
    WithDefaults <- MCWithDefaults
    Members <- MCMembers
    MaxEdits = 1
    MaxFaults = 1
INVARIANTS
    MergeReference
    EnvCurrent
    
PROPERTIES
    PublishedFromSources
