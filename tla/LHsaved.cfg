SPECIFICATION Spec
CHECK_DEADLOCK FALSE
CONSTANTS
    t1 = t1
    t2 = t2
    a = a
    b = b
    c = c
    Threads = {t1}
    Names <- OneName
    Length <- MCLength
    Dumped = {a}
    Mods <- NoMod
    MaxFds = 2
    MaxLoads = 2
    MaxCrashes = 1
    Failures = {}
INVARIANT SavedIsSaved
