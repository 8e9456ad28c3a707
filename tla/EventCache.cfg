\* Two tabs that synchronize one scope at the same time; or one that synchronizes
\* it, scans it in pages, and resumes derived state, while any one record may be
\* damaged or the database evicted.
SPECIFICATION Spec
CONSTANTS
    first = first
    second = second
    Writer <- TwoTabs
    Reader <- OneTab
    Block <- MCBlock
    Height <- MCHeight
    Ancestors <- MCAncestors
    Log <- MCLog
    BlockOf <- MCBlockOf
    LogIndex <- MCLogIndex
    StartBlock = 1
    MaxCheckpoints = 2
    PageSize = 1
    RecentLimit = 2
    MaxMaintenance = 2
    MaxRevision = 3
    MaxDamage = 1
CONSTRAINT TogetherOrAlone
INVARIANTS StoredLogsMatchCursor TokenNamesContent RecentPageIsNewest BaselineIsWhole
PROPERTY ImplementsReplica
