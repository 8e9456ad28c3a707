\* Two slots and a queue of two beyond them.
SPECIFICATION FairSpec
CONSTANTS
    MaxConcurrent = 2
    MaxOutstanding = 4
    MaxRequests = 4
INVARIANTS Bounded NoIdleSlot FirstComeFirstServed NobodyForgotten
PROPERTY EveryRequestSettles
CHECK_DEADLOCK FALSE
