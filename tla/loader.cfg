SPECIFICATION Spec
CONSTANTS
    Threads = {elf, raw}
    Loader = elf
    NULL = NULL
    _ubpf_instruction_filter <- MCFilter
    MAX_SECTIONS = 9
    Wrap = 16
    DataAddress <- MCDataAddress
    Environments <- MCEnvironments
    RawPrograms <- MCRawPrograms
INVARIANTS
    SectionsInFile
    
    AllReleased
    LayoutPreserved
    RelocationsHonoured
    VerdictsRight
CHECK_DEADLOCK FALSE
