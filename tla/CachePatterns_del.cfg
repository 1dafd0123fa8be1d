CONSTANTS
    Readers = {r1}
    Writers = {w1}
    Strategies = {"del"}
    Updates = 2
    NoEntry = NoEntry
SPECIFICATION Spec
INVARIANT NoStaleWindow
CHECK_DEADLOCK FALSE
