SPECIFICATION Spec
CONSTANTS
    s1 = s1
    s2 = s2
    plain = plain
    update = update
    basalam = basalam
    huge = huge
    shopA = shopA
    shopB = shopB
    NoShop = NoShop
    Senders <- MCSenders
    Batches <- MCBatches
    Shops <- MCShops
    Sendable <- MCSendable
    Unsendable <- MCUnsendable
    PriceUpdates <- MCPriceUpdates
    KeyConfigured = TRUE
    MaxItemsPerRequest = 2
    MaxTotalItems = 3
    MaxCrashes = 1
SYMMETRY MCSymmetry
INVARIANTS
    TypeOK
    SentMeansDelivered
    SentCountsAddUp
    PendingIsUntouched
PROPERTIES
    DeliverySpec
