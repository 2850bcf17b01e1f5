SPECIFICATION FairSpec
CONSTANTS
    j1 = j1
    j2 = j2
    w1 = w1
    w2 = w2
    NoJob = NoJob
    Jobs <- TwoJobs
    Workers <- OneWorker
    FaultKinds <- NoFaults
    MaxDbFaults = 0
    AllowOverlap = FALSE
    MayCancel = FALSE
    PoolSize = 1
    MaxSteps = 1
INVARIANT RunningIsOwned
PROPERTIES EveryJobIsClosed StopCompletes
