SPECIFICATION Spec
CONSTANTS
    rowA = rowA
    rowB = rowB
    x = x
    y = y
    Rows <- MCRows
    Found <- MCFound
    Prices = {1}
    Operation <- MCOperation
    LegacyRows <- MCLegacyRows
    Searches = {}
    Rebuilders = {t1, t2}
    MaxMatches = 1
    MaxRebuilds = 2
    MaxCrashes = 0
INVARIANTS
    RowInOneBatch
