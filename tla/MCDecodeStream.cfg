SPECIFICATION Spec
CONSTANTS
    t1 = t1
    t2 = t2
    split = split
    whole = whole
    c1 = c1
    c2 = c2
    None = None
    Threads <- MCThreads
    Plans <- MCPlans
    Calls <- MCCalls
    Parts <- MCParts
    Batch = 2
    Halves = 2
SYMMETRY Symmetry
CHECK_DEADLOCK FALSE
INVARIANTS
    TypeOK
    SplitRowsAreAllocated
    NoUseAfterFree
    SuccessIsNeverGarbage
    AllDoneWhenIdle
