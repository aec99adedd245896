CONSTANTS
    p1 = p1
    p2 = p2
    p3 = p3
    NoProc = NoProc
    Proc <- ThreeProcs
    MaxPrio = 2
    Priorities <- TwoPriorities
    NumLocks = 1
    NumEvents = 1
    WordMod = 8
    Args <- LivenessArgs
SPECIFICATION FairSpec
PROPERTIES
    SleepersWake
    UrgentProcessRuns
