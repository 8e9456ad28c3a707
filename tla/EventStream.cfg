\* Every stream, on its own, beside other tabs that use the same scopes.
SPECIFICATION Spec
CONSTANTS
    Block <- MCBlock
    Height <- MCHeight
    Ancestors <- MCAncestors
    Log <- MCLog
    BlockOf <- MCBlockOf
    Stream <- EveryStream
    Deployed <- MCDeployed
    TopicOf <- MCTopicOf
    LogIndex <- MCLogIndex
    MaxCheckpoints = 2
    FinalityDepth = 1
    PageSize = 1
    Withholding = {"groups"}
    MaxRevision <- MCMaxRevision
    MaxGeneration = 0
    MaxLag = 0
INVARIANTS SnapshotIsWhole SnapshotConfirmed AnchorAuthenticated OnlyIncompleteDiscarded
CHECK_DEADLOCK FALSE
