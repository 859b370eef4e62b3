SPECIFICATION MCSpec
CONSTANTS
    MaxInsts = 8
    Resolvable = {1}
    UsageOf <- MCUsageOf
    Programs <- MCPrograms
    AddressSpace = 64
    IntRange = 16
    MaxCallDepth = 2
    Settings <- MCSettings
    Garbage = {0}
    Contents = {0, 17}
    HelperResults = {0, 8}
    Compute <- MCCompute
    Join <- MCJoin
    Taken <- MCTaken
    UserBounds <- MCUserBounds
INVARIANTS TypeOK FramesRestorable FrameUsageCurrent MemoryConfined LimitHonoured
PROPERTIES CallsAreRestored SubprogramsIsolated OpcodesKnown LimitExact Terminates
CHECK_DEADLOCK FALSE
