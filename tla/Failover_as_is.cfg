CONSTANTS
    Primary = primary
    Replica1 = replica1
    Replica2 = replica2
    NoServer = none
    Servers = {primary, replica1, replica2}
    Workers = {w1, w2}
    Inserts = 1
    DirectWrites = 0
    StdinAttached = FALSE
    Rise = 2
    Fall = 3
SPECIFICATION Spec
INVARIANTS ReplicasArePrefixes
PROPERTY ReplicasCatchUp
