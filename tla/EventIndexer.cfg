\* One range per synchronization, as every stream asks for, by a caller who polls an
\* endpoint that lags and serves shorter ranges than it is asked for.
SPECIFICATION PersistentSpec
CONSTANTS
    Block <- MCBlock
    Height <- MCHeight
    Ancestors <- MCAncestors
    Log <- MCLog
    BlockOf <- MCBlockOf
    StartBlock = 1
    FinalityDepth = 1
    InitialRange = 4
    MaxRange = 4
    MaxRanges = 1
    MaxReorgChecks = 3
    MaxLogs = 2
    MaxLogBlocks = 2
    MaxSyncLogs = 4
    MaxCheckpoints = 2
    ProviderRange = 2
    MaxLag = 1
    DivergentLogs = FALSE
INVARIANTS KeptLogsComplete ResultIsExpected ResultAppliesToCaller
PROPERTIES ImplementsReplica SyncEnds CatchesUp
