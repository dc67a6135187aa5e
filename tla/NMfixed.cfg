SPECIFICATION Spec
CHECK_DEADLOCK FALSE
CONSTANTS
    PageSize = 8
    NumPages = 10
    alloc_range = 32
    Sizes = {3, 5}
    Layouts <- Crowded
    Positions = {43}
    Permissions = {"rx"}
    MaxChunks = 3
    Failures = {}
PROPERTY OnlyBlankPages
