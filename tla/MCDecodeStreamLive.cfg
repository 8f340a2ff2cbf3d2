SPECIFICATION Spec
CONSTANTS
    t1 = t1
    t2 = t2
    split = split
    whole = whole
    c1 = c1
    c2 = c2
    None = None
    Threads <- MCThreads
    Plans <- MCPlan
    Calls <- MCCalls
    Parts <- MCParts
    Batch = 2
    Halves = 2
CHECK_DEADLOCK FALSE
PROPERTIES
    FailuresAreFreed
    ImplementsService
