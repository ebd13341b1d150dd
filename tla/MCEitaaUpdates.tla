--------------------------- MODULE MCEitaaUpdates ---------------------------
\* Four updates: a price, one that is no post, a post without prices, two prices.
EXTENDS EitaaUpdates, TLC

CONSTANTS r1, r2, p1, p2

MCPosts == {1, 3, 4}
MCOffers == <<{p1}, {}, {}, {p1, p2}>>

Symmetry == Permutations({r1, r2})
=============================================================================
