\* Every read model, beside other tabs, with two calls outstanding.
SPECIFICATION ReaderSpec
CONSTANTS
    Block <- MCBlock
    Height <- MCHeight
    Ancestors <- MCAncestors
    Log <- MCLog
    BlockOf <- MCBlockOf
    Kind <- EveryKind
    Provider = {"p"}
    CallSlot = {1, 2}
    RunSlot = {1, 2, 3}
    TopicOf <- MCTopicOf
    StartBlock = 0
    MaxCheckpoints = 2
    PageSize = 1
    MaxRevision <- MCMaxRevision
    MaxCalls <- MCMaxCalls
    MaxGeneration = 0
INVARIANTS CompleteIsWhole WhatIsShownIsHeld NoRunLeftOpen BusyWhileCalling
CHECK_DEADLOCK FALSE
