SPECIFICATION ThreadsSpec
CHECK_DEADLOCK FALSE
CONSTANTS
    Image <- MCImage
    CodeWords = 5
    PageWords = 2
    Sites = {0, 1}
    Replacements = {f1, f2}
    Handlers = {h1}
    Far = {}
    MaxHooks = 3
    Threads = {t1}
    MaxCalls = 1
    NearAtStart = TRUE
    Toggle = FALSE
    Failures = {}
    Reuse = FALSE
INVARIANTS EveryCallCompletes CallsRunHooksThenOriginal
