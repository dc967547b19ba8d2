SPECIFICATION FairSpec
CONSTANTS
    c1 = c1
    c2 = c2
    Caller <- MCCaller
    Kinds <- MCKinds
    NoOne = NoOne
    MaxStalls = 1
    MaxEvents = 1
INVARIANTS
    OkMeansServed
    CutOffForCause
PROPERTIES
    EveryCallReturns
    EveryExecutorEnds
CHECK_DEADLOCK FALSE
