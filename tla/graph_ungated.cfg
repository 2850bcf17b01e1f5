SPECIFICATION Spec
CONSTANTS
    Configurations <- DefaultLists
    RetrySettings <- DefaultRetries
    RecursionLimit = 14
INVARIANT JudgementNeedsGate
CHECK_DEADLOCK FALSE
