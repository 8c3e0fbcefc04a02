\* Lines and 1/8 MiB, see MCCacheRows; an index of up to 200 lines, one
\* measurement of the prefetch probe four times too long.
SPECIFICATION TableSpec
CONSTANTS
    Machines <- MCMachines
    Strides <- MCStrides
    Segments <- MCSegments
    Distances <- MCDistances
    MinimumMemory = 64
    PageLines = 4
    MaxNodes = 200
    Spoiled = 4
    Systems <- MCSystems
    Measured <- MCMeasured
    Budgets <- MCBudgets
    Requests <- MCRequests
    Block <- MCBlock
    MaxBlocks = 6000
    MiB = 8
    MaxSize = 16383
    Fallback = 2048
    Floor = 256
    Cores <- MCProbed
    MaxLines = 48
    SlotBytes = 65536
    Placements = 4
    Collision = 3
    MaxNoise = 1
    Loaded <- MCLoaded
    LoadBlocks = {1, 8}
    FallbackL1 = 128
    FallbackL2 = 2048
    MaxLoaded = 40000
    Beside <- MCBeside
    Together <- MCTogether
INVARIANTS
    GeometryOfTheCore
    RingIsOneLap
    AnalysesReadTheCore
    L3RowMeasuresL3
    MemoryRowHonoursRequest
    RowsSurviveFailures
    LoadRowMeasuresItsLevel
\* the table ends
CHECK_DEADLOCK FALSE
