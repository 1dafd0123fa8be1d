\* A tick is 5 s.
CONSTANTS
    Nodes = {n1, n2}
    Admin = n1
    Replicas = {r1, r2}
    Queries = {"product"}
    CatalogTtl = 2
    MaxUpdates = 1
SPECIFICATION ProxySpec
INVARIANTS FlushEndsStaleness
CHECK_DEADLOCK FALSE
