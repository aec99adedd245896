CONSTANTS
    p1 = p1
    p2 = p2
    a = a
    Zero = Zero
    Absent = Absent
    NoOwner = NoOwner
    Pid <- TwoPids
    Values <- OneValue
    NumFrames = 2
    NumShared = 0
    CodeFirst = 0
    MaxCode = 1
    HeapFirst = 1
    HeapLast = 2
    OtherPages <- NoPages
    SharedVBase = 4
    PageSize = 2
    WordMod = 8
    Requests <- AllRequests
SPECIFICATION Spec
SYMMETRY Symmetric
CHECK_DEADLOCK FALSE
INVARIANTS
    TypeOK
    FramesAccounted
    OneHome
PROPERTIES
    ImplementsMemory
