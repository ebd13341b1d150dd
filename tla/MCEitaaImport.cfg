SPECIFICATION FairSpec
CONSTANTS
    MaxId = 6
    Posted = 5
    MaxDeletes = 1
    Queries = {"q1", "q2"}
    Content <- MCContent
    TotalLimit = 5
    PageSize = 4
    SmallPage = 2
    MaxProducts = 5
    Near = 2
    ChunkSize = 2
    ImageLimit = 2
    MaxFailures = 3
    CommitEvery = 3
    MaxCrashes = 1
INVARIANTS
    TypeOK
    HistoryIsNewest
    PhotosBelong
    ImageBudget
    SearchesAreShared
    SparesTorob
    ReadyIsDecided
    LossIsBounded
PROPERTIES
    ImportEnds
CHECK_DEADLOCK FALSE
