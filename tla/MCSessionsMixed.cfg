SPECIFICATION Spec
CONSTANTS
    t1 = t1
    t2 = t2
    t3 = t3
    alice = alice
    bob = bob
    work = work
    home = home
    c1 = c1
    c2 = c2
    Task = {t1, t2}
    Principal = {alice, bob}
    Peer = {alice}
    Namespace = {work, home}
    CredId = {c1, c2}
    Key <- TwoKeys
    Request <- MixedRequests
    Ttl = 1
    MaxLifetime = 2
    LastLaunch = 0
    NoOne = NoOne
SYMMETRY TaskSymmetry
INVARIANTS SharedIndexExact EndedOnce PortsMatchLeases NoOrphanExecutor
PROPERTY JoinBeforeDeadline
CHECK_DEADLOCK FALSE
