CONSTANTS
    Rise = 2
    Fall = 3
    Inter = 2
SPECIFICATION Spec
INVARIANT DetectionBound
INVARIANT RestoreBound
PROPERTY ImplementsRiseFall
PROPERTY VerdictFollowsServer
