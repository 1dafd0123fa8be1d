\* The script ends.
CONSTANTS
    Seeds = 2
    MaxOrders = 0
    Runs = 1
SPECIFICATION PitrSpec
INVARIANTS SafeTransactionsReplayed
CHECK_DEADLOCK FALSE
