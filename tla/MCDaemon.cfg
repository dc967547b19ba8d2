SPECIFICATION MCSpec
CONSTANTS
    work = work
    home = home
    c1 = c1
    c2 = c2
    k1 = k1
    k2 = k2
    k3 = k3
    Request = {q1, q2, q3}
    Principal = {alice}
    Cred <- MCCred
    GrantTtl = 2
    MaxTime = 3
    MaxRevokes = 2
    Launcher = {1, 2, 3, 4}
    NoOne = NoOne
    MaxAttempts = 2
    Window = 3
    Delay <- MCDelay
    LastStart = 4
    Pid = {1, 2, 3}
    Candidate = {0, 1}
    LastBorn = 4
    Wsl = {1}
    MaxDepth = 1
    Peer = {"p1", "p2"}
    MaxCrashes = 3
    MaxFaults = 2
    Key <- MCKey
    CredOf <- MCCredOf
    Policies <- MCPolicies
    Task = {t1, t2}
    MaxSaves = 3
    MaxForgets = 1
    MaxStarts = 2
    MaxBytes = 2
    MaxRecords = 8
    Platforms <- MCPlatforms
    Executors <- MCExecutors
    ProviderLists <- MCProviderLists
INVARIANTS
    GrantUnrevoked
    LaunchesLimited
    ChainGenuine
    IssuedLasts
    SavedRevocationFinal
    CookiesForgotten
    SweptClean
    RecordsKept
    ServiceTold
PROPERTY ReuseCovered
CHECK_DEADLOCK FALSE
