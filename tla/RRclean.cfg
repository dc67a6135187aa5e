SPECIFICATION Spec
CHECK_DEADLOCK FALSE
CONSTANTS
    Images <- MCImages
    CodeWords = 12
    Site = 0
    Trampolines = {"near", "adrp", "far"}
PROPERTIES RunsOriginal KeepsRunning
