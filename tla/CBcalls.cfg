SPECIFICATION Spec
CONSTANTS
    Archs = {"arm64", "arm64full", "arm", "x64", "x86"}
    Closures = {1, 2}
    MaxDepth = 2
    StackSlots = 224
    Pads = {0, 1, 2, 3}
INVARIANTS TypeOK ContextShowsProgram ProgramResumes HandlerStackAligned
PROPERTY StackOfProgramKept
