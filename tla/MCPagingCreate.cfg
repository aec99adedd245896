CONSTANTS
    p1 = p1
    p2 = p2
    a = a
    Zero = Zero
    Absent = Absent
    NoOwner = NoOwner
    Pid <- TwoPids
    Values <- OneValue
    NumFrames = 3
    NumShared = 0
    CodeFirst = 0
    MaxCode = 2
    HeapFirst = 2
    HeapLast = 2
    OtherPages <- NoPages
    SharedVBase = 4
    PageSize = 2
    WordMod = 8
    Requests <- FewRequests
SPECIFICATION Spec
SYMMETRY Symmetric
CHECK_DEADLOCK FALSE
INVARIANTS
    OwnerMapInverse
    FramesAccounted
PROPERTIES
    ImplementsMemory
