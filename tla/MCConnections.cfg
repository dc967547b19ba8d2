CONSTANTS
    c1 = c1
    c2 = c2
    Conn = {c1, c2}
    Ways <- MCWays
    Limit = 1
    MaxDrain = 2
    MaxSent <- MCMaxSent
SPECIFICATION FairSpec
INVARIANTS
    PendingExact
    RevokedServedNoMore
    RefusalTold

    
CHECK_DEADLOCK FALSE
