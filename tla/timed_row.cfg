\* Three workers on three CPUs; two samples stand for the five of the code;
\* elapsed times below the clock's step, short and long; a loop count that the
\* scale would overflow.
SPECIFICATION TimedSpec
CONSTANTS
    Workers = {w1, w2, w3}
    Repeats = 2
    Amounts = {1, 2}
    Times = {0, 1, 2}
    LoopTimes = {2, 5}
    TargetTime = 3
    MaxLoopScale = 2
    MaxLoopTime = 8
    Platforms = {"x64", "arm64", "macos", "riscv64"}
    Selected <- MCSelected
    Kinds = {1, 2}
    Clocks <- MCClocks
    Hosts <- MCHosts
    TscClock = 25
    PowerClock = 19
    EmptyClock = 3
    ChainRuns <- MCChainRuns
    RowFollows <- MCRowFollows
    Beside <- MCBeside
SYMMETRY Symmetric
INVARIANTS
    WholeSampleReported
    BestSampleReported
    ShownClockIsOfItsCore
    CountedWherePermitted
    EstimateIsPerCore
