SPECIFICATION FairSpec
CONSTANTS
    Blocking = {"industry_analyst"}
    Threaded = {"risk_event"}
    MaxAttempts = 3
    ModelTries = 3
INVARIANTS
    CallsEndWithAttempt
    LeftoversAreTimedOut
PROPERTY StepsAnswered
