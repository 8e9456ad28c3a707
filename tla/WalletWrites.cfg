\* Sessions, writes and the feed's wait, within the scenarios of MCWalletWrites.
SPECIFICATION Spec
CONSTANTS
    panel = panel
    feed = feed
    follows = follows
    Block <- MCBlock
    Height <- MCHeight
    Ancestors <- MCAncestors
    Log <- NoLog
    BlockOf <- NoBlockOf
    Provider = {"p", "q"}
    Account = {"a"}
    ChainId = {"home", "other"}
    LocalChain = "home"
    Home = "home"
    Read = {1, 2}
    Console <- MCConsole
    Publisher = panel
    Depth = 1
    Write = {1, 2}
    Scenario <- MCScenario
SYMMETRY ConsoleSymmetry
INVARIANTS ConnectedIsCurrent SentIsTracked ConfirmedIsDeep
PROPERTY DoneIsIncluded
CHECK_DEADLOCK FALSE
