SPECIFICATION SafeSpec
CONSTANTS
    MaxInsts = 8
    Resolvable = {1, 2, 3, 4, 5, 6}
    UsageOf <- MCUsageOf
    Programs <- ReloadPrograms
    AddressSpace = 96
    IntRange = 16
    MaxCallDepth = 2
    Settings <- SafeSettings
    Garbage = {0}
    Contents = {0, 17}
    HelperResults = {0, 48, 54, 64}
    Compute <- MCCompute
    Join <- MCJoin
    Taken <- MCTaken
    UserBounds <- MCUserBounds
    Regions <- MCRegions
    SafeHelpers <- MCSafeHelpers
    StackSlack = 12
PROPERTY ReloadRestores
CHECK_DEADLOCK FALSE
