CONSTANTS
    Docs = 1
    Wanted = {1}
    Ticks = 0
    Reads = 1
    Stoppers = {}
SPECIFICATION ReaderSpec
PROPERTY StopIsReceived
CHECK_DEADLOCK FALSE
