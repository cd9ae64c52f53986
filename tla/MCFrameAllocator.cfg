SPECIFICATION FramesSpec
CONSTANTS
    MemoryMaps <- MCMemoryMaps
    BootLimit = 8
    LastFrame = 13
    EntriesPerPage = 8
    UINT64_MAX = 1000
    MCPages <- ThreePages
INVARIANTS
    NoFrameTwice
    Accounting
    DeallocNeverPanics
    TablesSound
PROPERTIES
    ImplementsPool
    
CHECK_DEADLOCK FALSE
