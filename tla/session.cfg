SPECIFICATION FairSessionSpec
CONSTANTS
    j1 = j1
    j2 = j2
    Jobs <- TwoJobs
    Unknown <- SecondJob
    MaxSteps = 1
    LogSize = 2
    MaxFaults = 2
    MaxClicks = 2
    NoJob = NoJob
INVARIANTS ReportIsFinished StandsOnlyAfterLoss OneJobPerClick
PROPERTIES FollowedUntilClosed ClosedJobIsLetGo
