SPECIFICATION Spec
CONSTANTS
    PAGE_SIZE = 32
    KERNEL_HEAP_SIZE = 192
    KERNEL_HEAP_GROWTH_STEP = 32
    PADDING = 64
    BUCKETS_COUNT = 8
    FIRST_COUNT = 4
    SECOND_COUNT = 2
    SECOND_STEP = 16
    THIRD_STEP = 32
    Request = {10, 17, 40, 96}
INVARIANTS
    UserDataNotInFreeChunks
