CONSTANTS
    W = 8
    CellAddr = 64
    Unwind = 1
    TableAddr = 224
    NumHelpers = 2
    HostTop = 220
    Junk = 90
    Imm9Limit = 2
    Imm12Limit = 4
    UBPF_MAX_INSTS = 12
    UBPF_EBPF_STACK_SIZE = 8
    Context = 33
SPECIFICATION Spec
INVARIANTS Lockstep TopOfStack HostRestored CallsServed
