CONSTANTS
    ByteMod = 16
    WordLen = 2
    NoProc = 0
    CodeBase = 8
    Others <- DataAndStack
    StackTop = 128
    PageSize = 8
    Returns <- Answer
    me = 1
    NumProcs = 2
    Programs <- StackSafe
    NumFrames = 12
    Quantum = 3
    Outsiders = 2
SPECIFICATION Spec
CHECK_DEADLOCK FALSE
INVARIANTS
    TypeOK
    FramesHeld
    BothTame
PROPERTIES
    RunsAsWritten
    SecondRunsAsWritten
