SPECIFICATION Spec
CONSTANTS
    CPU = {c1, c2}
    IDENTITY_END = 4
    KERNEL_START = 6
    KERNEL_END = 18
    EARLY_ALLOCATION_SIZE = 4
    MEMORY_MAP_PADDING = 1
    Sizes = {1, 2}
    Paddings <- MCPaddings
    MaxHandles = 2
    Segment <- MCSegment
    IdentityRange <- MCIdentityRange
INVARIANT LockReleased
CHECK_DEADLOCK FALSE
