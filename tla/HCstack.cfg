SPECIFICATION Spec
CHECK_DEADLOCK FALSE
CONSTANTS
    Image <- JumpImage
    CodeWords = 13
    PageWords = 11
    Sites = {1, 5, 9}
    Replacements = {f1, f2}
    Handlers = {h1}
    Far = {f2, "closure"}
    MaxHooks = 3
    NearAtStart = FALSE
    Toggle = TRUE
    Failures = {"near", "arena"}
    Reuse = FALSE
INVARIANTS TypeOK NoHookNoPatch NewestHasControl CallsRunHooksThenOriginal OriginCallStaysGood FaultsAtPageEnd
