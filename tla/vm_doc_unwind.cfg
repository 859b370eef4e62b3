SPECIFICATION Spec
CONSTANTS
    NULL = NULL
    h1 = h1
    d1 = d1
    d2 = d2
    Programs <- MCPrograms
    Pcs <- MCPcs
    Helpers = {h1}
    MaxExtFuncs = 2
    SafeRegions <- MCSafeRegions
    MaxSafeRegions = 2
    AddressSpace = 16
    Dispatchers = {d1, d2}
    Validates <- MCValidates
    Calculators <- MCCalculators
    DefaultUsage = 256
    Secrets = {0}
    BufferSizes = {20}
    DefaultBufferSize = 20
    BodySize <- MCBodySize
    EpilogueSize = 1
    Clients <- AnyClient
INVARIANT
    NativeUnwindCurrent
CHECK_DEADLOCK FALSE
