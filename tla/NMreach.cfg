SPECIFICATION Spec
CHECK_DEADLOCK FALSE
CONSTANTS
    PageSize = 8
    NumPages = 10
    alloc_range = 32
    Sizes = {3, 5}
    Layouts <- Libraries
    Positions = {3, 36, 79}
    Permissions = {"rx", "rw"}
    MaxChunks = 2
    Failures = {"mmap"}
INVARIANT TypeOK
INVARIANT ChunksInRange
PROPERTY AllocationReturns
