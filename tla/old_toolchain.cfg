\* Compilers of the years before bf16 (GCC 9) and before SME (GCC 11), every override.
SPECIFICATION DispatchSpec
CONSTANTS
    Sites <- OldSites
INVARIANTS
    OlderToolchainBuilds
CHECK_DEADLOCK FALSE
