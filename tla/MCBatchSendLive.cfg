SPECIFICATION FairSpec
CONSTANTS
    s1 = s1
    s2 = s2
    plain = plain
    huge = huge
    shopA = shopA
    NoShop = NoShop
    Senders <- MCSenders
    Batches <- MCBatches
    Shops <- MCShops
    Sendable <- MCSendable
    Unsendable <- MCUnsendable
    PriceUpdates = {}
    KeyConfigured = TRUE
    MaxItemsPerRequest = 2
    MaxTotalItems = 3
    MaxCrashes = 1
PROPERTIES
    SendingSettles
