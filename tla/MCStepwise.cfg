SPECIFICATION FairSpec
CONSTANTS
    work = work
    alice = alice
    Login = {l1}
    Call = {1, 2, 3}
    Namespace = {work}
    Principal = {alice}
    NamespaceOf <- MCNamespaceOf
    PrincipalOf <- MCPrincipalOf
    MaxSteps = 2
    Idle = 1
    Max = 2
    MaxTime = 2
    LastLaunch = 0
    NoOne = NoOne
INVARIANTS ExecutorOwned StepUndisturbed EndsOnce NoneAfterSweep
 
CHECK_DEADLOCK FALSE
