SPECIFICATION Spec
CHECK_DEADLOCK FALSE
CONSTANTS
    t1 = t1
    t2 = t2
    a = a
    b = b
    c = c
    Threads = {t1, t2}
    Names <- TwoSpellings
    Length <- MCLength
    Dumped = {a, b}
    Mods <- MCMods
    MaxFds = 2
    MaxLoads = 4
    MaxCrashes = 1
    Failures = {"hook", "dirs", "memory"}
INVARIANT TypeOK
INVARIANT OneScriptPerLoad
INVARIANT QuietDumpsComplete
PROPERTY SavedOnceForAll
