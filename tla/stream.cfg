SPECIFICATION FairStreamSpec
CONSTANTS
    j1 = j1
    Jobs <- OneJob
    MaxSteps = 3
INVARIANT ResultNeverMissing
PROPERTIES EventsAdvance StreamEnds
