SPECIFICATION Spec
CONSTANTS
    Configurations <- AllLists
    RetrySettings <- AllRetries
    RecursionLimit = 14
INVARIANTS
    ReportNeedsGate
    ReviewAfterAnalysis
    SuccessIsComplete
    LimitOnlyAfterFailedRetry
    ValidationsWithinBudget
CHECK_DEADLOCK FALSE
