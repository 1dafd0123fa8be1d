\* The script ends, processes may be idle.
CONSTANTS
    Readers = {r1, r2}
    Writers = {w1, w2}
    Strategies = {"ttl", "del"}
    Updates = 3
    NoEntry = NoEntry
    Nodes = {n1, n2}
    Admin = n1
    Replicas = {s1, s2}
    Queries = {"lock", "product", "productCount", "orderCount", "topCustomers"}
    CatalogTtl = 2
    MaxUpdates = 1
    Seeds = 2
    MaxOrders = 3
    Runs = 2
SPECIFICATION LabSpec
INVARIANTS EveryEntryExpires StaleForOneTtl NothingVanishes PromotedIsSnapshot ReusedIdsAreStranded
PROPERTIES EventuallyFresh CachesCatchUp
CHECK_DEADLOCK FALSE
