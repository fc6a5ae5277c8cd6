SPECIFICATION FairSpec
CONSTANTS
    t1 = t1
    w1 = w1
    w2 = w2
    r1 = r1
    r2 = r2
    NoTask = NoTask
    NoOwner = NoOwner
    Tasks <- MCTasks
    Workers <- MCWorkers
    Relays <- MCRelays
    FaultKinds <- AllFaults
    MaxFaults = 2
    MaxCopies = 2
INVARIANTS ClaimsAreSound NoStrandedSuccess
PROPERTIES AtMostOnceFenced OpenTargetsSettle
CHECK_DEADLOCK FALSE
