SPECIFICATION Spec
CHECK_DEADLOCK FALSE
CONSTANTS
    Images <- MCImages
    Chunk = 1000
INVARIANT TypeOK
INVARIANT WordsAligned
PROPERTY RunsOriginal
