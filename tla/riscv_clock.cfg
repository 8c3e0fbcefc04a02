SPECIFICATION ClocksSpec
CONSTANTS
    Platforms = {"riscv64"}
    Selected <- MCSelected
    Kinds = {1, 2}
    Clocks <- MCClocks
    Hosts <- MCHosts
    TscClock = 25
    PowerClock = 19
    EmptyClock = 3
    ChainRuns <- MCChainRuns
INVARIANT ReportedClockNotShown
