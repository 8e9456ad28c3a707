\* The contract alone, called with names that are not UTF-8.
SPECIFICATION Spec
CONSTANTS
    Account <- MCAccount
    ZeroAddress <- MCZero
    View <- ContractAlone
    Selected <- MCSelected
    TrackedAccounts <- MCTrackedAccounts
    TrackedPosts <- MCTrackedPosts
    DigitCount = 2
    ReadLimit = 2
    Input <- RawNames
INVARIANT EveryEventDecodes
CHECK_DEADLOCK FALSE
