SPECIFICATION Spec
CONSTANTS
    rowA = rowA
    rowB = rowB
    x = x
    y = y
    Rows <- MCRows
    Found <- MCFound
    Prices = {1}
    Operation <- MCOperation
    LegacyRows = {}
    Searches = {}
    Rebuilders = {t1}
    MaxMatches = 1
    MaxRebuilds = 1
    MaxCrashes = 0
INVARIANTS
    NoPriceUpdatePosted
