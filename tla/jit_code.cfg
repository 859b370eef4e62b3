CONSTANTS
    W = 8
    CellAddr = 64
    Unwind = 1
    TableAddr = 160
    NumHelpers = 2
    HostTop = 120
    Junk = 90
    Imm9Limit = 2
    Imm12Limit = 4
    Context = 33
    MaxInterference = 2
    OtherValues = {9, 60}
SPECIFICATION Spec
INVARIANTS CodeAgrees HostPreserved HelperArguments
PROPERTY Completes
