SPECIFICATION Spec
CONSTANTS
    r1 = r1
    r2 = r2
    p1 = p1
    p2 = p2
    Requests = {r1, r2}
    Products = {p1, p2}
    MaxUpdates = 4
    Posts <- MCPosts
    Offers <- MCOffers
    Limit = 3
    MaxChecks = 3
SYMMETRY Symmetry
INVARIANTS
    TypeOK
    CursorCoversPreviews
    PreviewedOnce
