SPECIFICATION Spec
CONSTANTS
    j1 = j1
    j2 = j2
    w1 = w1
    w2 = w2
    NoJob = NoJob
    Jobs <- TwoJobs
    Workers <- TwoWorkers
    FaultKinds <- AllFaults
    MaxDbFaults = 1
    AllowOverlap = TRUE
    MayCancel = TRUE
    PoolSize = 1
    MaxSteps = 1
INVARIANTS RowsAgree SingleExecutor
PROPERTIES ClosedStaysClosed FailedStaysFailed
SYMMETRY Symmetry
