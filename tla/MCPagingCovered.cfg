CONSTANTS
    p1 = p1
    p2 = p2
    a = a
    Zero = Zero
    Absent = Absent
    NoOwner = NoOwner
    Pid <- TwoPids
    Values <- OneValue
    NumFrames = 3
    NumShared = 1
    CodeFirst = 0
    MaxCode = 1
    HeapFirst = 1
    HeapLast = 1
    OtherPages <- StackPages
    SharedVBase = 2
    PageSize = 2
    WordMod = 8
    Requests <- NoRequests
SPECIFICATION Spec
SYMMETRY Symmetric
CHECK_DEADLOCK FALSE
PROPERTIES
    CoveredPageKept
