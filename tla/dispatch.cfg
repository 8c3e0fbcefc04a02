\* Every site of MCKernelDispatch; the probe's readings on three of them.
SPECIFICATION MultiIssueSpec
CONSTANTS
    Sites <- MCSites
    Cores <- MCCores
    Pair <- MCPair
    Tolerance = 10
    Epsilon = 30
INVARIANTS
    OnlyRunnableExecuted
    RowsMatchCore
    WorkIsScaled
    ResultIsConsistent
    MaximumFound
    FrontEndIsWidest
\* the program ends
CHECK_DEADLOCK FALSE
