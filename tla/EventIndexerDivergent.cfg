\* Several ranges per synchronization, with eth_getLogs answered from branches
\* that are not canonical any more.
SPECIFICATION Spec
CONSTANTS
    Block <- MCBlock
    Height <- MCHeight
    Ancestors <- MCAncestors
    Log <- MCLog
    BlockOf <- MCBlockOf
    StartBlock = 1
    FinalityDepth = 0
    InitialRange = 2
    MaxRange = 2
    MaxRanges = 2
    MaxReorgChecks = 3
    MaxLogs = 2
    MaxLogBlocks = 2
    MaxSyncLogs = 4
    MaxCheckpoints = 3
    ProviderRange = 2
    MaxLag = 0
    DivergentLogs = TRUE
INVARIANT KeptLogsBelong
