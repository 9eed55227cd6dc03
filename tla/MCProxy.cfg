SPECIFICATION FairSpec
CONSTANTS
    Reqs = {r1, r2}
    NumHosts = 2
    MaxConns = 1
    MaxFails = 1
    FailTimeout = 1
    TryDuration = 1
    HealthCheck = TRUE
    MaxTries = 2
INVARIANTS ConnsCount  WholeBody
PROPERTIES StoppedQuiet 
CHECK_DEADLOCK FALSE
