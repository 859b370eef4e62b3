SPECIFICATION Spec
CONSTANTS
    MaxInsts = 8
    Resolvable = {1}
    UsageOf <- MCUsageOf
    Programs <- CallPrograms
    AddressSpace = 64
    IntRange = 16
    MaxCallDepth = 2
    Settings <- CallSettings
    Garbage = {0}
    Contents = {0, 17}
    HelperResults = {0, 8}
    Compute <- MCCompute
    Join <- MCJoin
    Taken <- MCTaken
    UserBounds <- MCUserBounds
PROPERTY SubprogramsEnteredByCall
CHECK_DEADLOCK FALSE
