CONSTANTS
    p1 = p1
    p2 = p2
    Provider = {p1, p2}
    Order <- MCOrder
    Kinds <- MCKinds
    Entry = {e1, e2}
    Caller = {c1}
    NoEntry = NoEntry
    Reaper = Reaper
    TTL = 2
    Waiter = {w1, w2}
    Id = {i1, i2}
    NoId = NoId
SPECIFICATION MCSpec
INVARIANTS
    MaterialExpires
    AutolockRecorded
    LockVaultLocks
    TimedOutGroupGone
    WaiterListed
PROPERTIES
    EveryCallAnswered
    CommandReturns
    ImplementsApproval
    EveryWaiterReturns
CHECK_DEADLOCK FALSE
