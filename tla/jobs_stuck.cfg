SPECIFICATION FairSpec
CONSTANTS
    j1 = j1
    j2 = j2
    w1 = w1
    w2 = w2
    NoJob = NoJob
    Jobs <- TwoJobs
    Workers <- OneWorker
    FaultKinds <- LostCalls
    MaxDbFaults = 1
    AllowOverlap = FALSE
    MayCancel = FALSE
    PoolSize = 1
    MaxSteps = 0
PROPERTY ClaimedJobIsClosed
