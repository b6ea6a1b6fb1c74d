SPECIFICATION Spec
CONSTANTS
    Roots <- MCRoots
    Files <- MCFiles
    RootOf <- MCRootOf
    DirOf <- MCDirOf
    Contents <- MCContentsExample
    EnvContents <- MCEnvContents
    BaseEnv <- MCBaseEnv
    CertFiles <- MCCertFiles
    Providers <- MCProviders
    DefaultProvider = "letsencrypt"
    Virtualgw <- MCVirtualgw
    GatewayFromDots = TRUE
    EnableLabels = TRUE
    Merged <- MCMerged
    Substituted <- MCSubstituted
    WithDefaults <- MCWithDefaults
    Members <- MCMembers
    MaxEdits = 1
    MaxFaults = 1
INVARIANT
    FileReferencesReplaced
