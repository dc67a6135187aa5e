SPECIFICATION BuilderSpec
SYMMETRY MCSymmetry
CHECK_DEADLOCK FALSE
CONSTANTS
    PageSize = 8
    Frames = {f, g}
    Sizes = {1, 2, 3, 4, 5, 6, 7, 8}
    OtherSizes = {1, 8}
    MaxChunks = 2
    Labels = {a, b}
    Sites = {s}
    BufferBytes = 12
    ArrayCapacity = 1
    CapacityStep = 2
    MaxWords = 6
INVARIANT TypeOK
INVARIANT ChunksDisjoint
INVARIANT ChunksInOnePage
INVARIANT BuilderTypeOK
INVARIANT LoadsReachData
PROPERTY StoresTheText
