CONSTANTS
    p1 = p1
    p2 = p2
    p3 = p3
    NoProc = NoProc
    Proc <- ThreeProcs
    MaxPrio = 2
    Priorities <- AllPriorities
    NumLocks = 2
    NumEvents = 1
    WordMod = 8
    Args <- SafetyArgs
SPECIFICATION Spec
SYMMETRY Symmetric
INVARIANTS
    TypeOK
    QueuedOnce
    NobodyLost
    LocksNeverStranded
    NoMissedSignal
    ReturnsOnlyWhenStuck
PROPERTY MostUrgentRuns
