\* Every projection, on its own, of a few events in a few blocks.
SPECIFICATION Spec
CONSTANTS
    Account <- MCAccount
    ZeroAddress <- MCZero
    View <- EveryView
    Selected <- MCSelected
    TrackedAccounts <- MCTrackedAccounts
    TrackedPosts <- MCTrackedPosts
    DigitCount = 2
    ReadLimit = 2
    Input <- MCInput
INVARIANTS ProjectionIsCurrent NeverRefused ReadsInOrder WellEncodedEventsDecode
CHECK_DEADLOCK FALSE
