SPECIFICATION Spec
CONSTANTS
    j1 = j1
    j2 = j2
    w1 = w1
    w2 = w2
    NoJob = NoJob
    Jobs <- TwoJobs
    Workers <- OneWorker
    FaultKinds <- LostCalls
    MaxDbFaults = 2
    AllowOverlap = FALSE
    MayCancel = TRUE
    PoolSize = 2
    MaxSteps = 2
INVARIANT TypeOK
PROPERTY LifecycleKept
