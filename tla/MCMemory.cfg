SPECIFICATION MemorySpec
CONSTANTS
    CPU = {c1, c2}
    IDENTITY_END = 3
    KERNEL_START = 6
    KERNEL_END = 13
    EARLY_ALLOCATION_SIZE = 4
    MEMORY_MAP_PADDING = 1
    Sizes = {1, 2}
    Paddings <- MCPaddings
    MaxHandles = 3
    Segment <- MCSegment
    IdentityRange <- MCIdentityRange
SYMMETRY Symmetry
INVARIANTS
    ListSound
    HandlesStayValid
    MappedExactly
    HeapSound
    AllFreedIsOneChunk
    SearchMissesNothing
PROPERTY PanicsOnlyWhenFull
CHECK_DEADLOCK FALSE
