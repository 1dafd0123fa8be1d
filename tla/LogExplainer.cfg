CONSTANTS
    Short <- MCShort
    Truncated = {"cut"}
    IPStable = TRUE
    DirOf <- MCDirOf
    Horizon = 90
    Inputs <- MCInputs
    LogOf <- MCLogOf
    DayTicks = 10
    NodeOf <- MCNodeOf
SPECIFICATION Spec
INVARIANTS OwnNamesAreOwn RepetitionsAddUp RegexOrderIrrelevant VotesWereCast ChainedWindowsMerge RowsInOrder AnnouncedOnce SearchIsExact
PROPERTIES CommandEnds
CHECK_DEADLOCK FALSE
