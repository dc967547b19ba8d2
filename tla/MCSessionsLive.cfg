SPECIFICATION FairSpec
CONSTANTS
    t1 = t1
    t2 = t2
    t3 = t3
    alice = alice
    bob = bob
    work = work
    home = home
    c1 = c1
    c2 = c2
    Task = {t1, t2}
    Principal = {alice}
    Peer = {}
    Namespace = {work}
    CredId = {c1}
    Key <- OneKey
    Request <- SharedAndService
    Ttl = 1
    MaxLifetime = 2
    LastLaunch = 0
    NoOne = NoOne

PROPERTIES EverySessionEnds EveryRequestAnswered EveryExecutorStops
CHECK_DEADLOCK FALSE
