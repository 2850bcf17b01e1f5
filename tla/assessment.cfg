SPECIFICATION Spec
CONSTANTS
    Companies <- MCCompanies
    Years = {2, 3}
    MaxFaults = 1
INVARIANTS
    ImpairedIsRejected
    NoFiguresNoLoan
    CapsDecide
    MoreEventsNeverHelp
    ValidationFailureHasCause
    SignalsAgree
