SPECIFICATION FairSpec
CONSTANTS
    MaxItems = 3
    MaxWidth = 3
    Calls <- MCCalls
INVARIANTS
    TypeOK
    ReturnsEverything
    Quiescent
    AfterAnException
PROPERTIES
    SettledForGood
    Termination
    IsABatchMap
\* a call that has returned or raised is over
CHECK_DEADLOCK FALSE
