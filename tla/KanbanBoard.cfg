SPECIFICATION FairSpec
CONSTANTS
    a = a
    b = b
    gw = gw
    Tasks <- TwoTasks
    Dispatchers <- Gateway
    Spawnable = {a, b}
    Limited = {a}
    MaxRetries <- OneRetry
    FailureLimit = 2
    MaxSpawn = 1
    MaxRuns = 2
    MaxOps = 1
    MaxCrashes = 1
CHECK_DEADLOCK FALSE
INVARIANTS TypeOK RunsInvariant NoMutualWait SpawnCap
PROPERTIES BoardContract OwnAttempt AbandonedIsNoticed SettledParentsPromote
