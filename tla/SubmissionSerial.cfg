SPECIFICATION FairSpec
CONSTANTS
    rowA = rowA
    rowB = rowB
    x = x
    y = y
    Rows <- MCRows
    Found <- MCFound
    Prices = {1}
    Operation <- MCReviewed
    LegacyRows = {}
    Searches = {q1}
    Rebuilders = {}
    MaxMatches = 3
    MaxRebuilds = 0
    MaxCrashes = 1
INVARIANTS
    TypeOK
    ReferencesResolve
    BatchedAsSelected
    RowInOneBatch
    NoDuplicateMatch
    RowShowsOutcome
PROPERTIES
    LedgerSpec
    RegisteredRowsFrozen
    RetriedRowSettles
