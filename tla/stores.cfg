SPECIFICATION StoresSpec
CONSTANTS
    Companies = {"c1"}
    Processes = {1, 2}
    BusinessYears = {2, 3}
    MaxBreaks = 1
    Collections = {1, 2}
    PageSize = 1
    MaxArticles = 2
    MaxNews = 3
    MaxSentences = 3
    ChunkSize = 6
    Overlap = 2
    Widths = {1, 5}
    MaxLines = 4
    Files <- Documents
    Methodology <- MethodologyOfDocuments
    Contents <- TextSequences
    Unreadable = Unreadable
    Ingests = {1, 2}
    Clients <- Manufacturers
    TopK = 2
    MaxEdits = 1
    MaxFailures = 1
    LookbackDays = 90
    ReadLimit = 3
    ShownLimit = 2
    KeyLimit = 1
    Ages = {3, 90, 91}
INVARIANTS
    RegistryKeepsRows
    EveryCompanyAccounted
    ListHasNoGap
    RaisedOnlyByRace
    IngestTellsTheTruth
    OwnMethodology
    TextRules
    PageShowsAll
PROPERTY PipelinesEnd
CHECK_DEADLOCK FALSE
