CONSTANTS
    main = main
    side = side
    q = q
    kv = kv
    c1 = c1
    c2 = c2
    None = None
    Main = main
    Streams <- MCStreams
    Inputs <- MCInputs
    Calls <- MCCalls
    Reads <- MCReads
    Depth <- MCDepth
    MaxRefills = 1
    MaxReplays = 2
SPECIFICATION Spec
CHECK_DEADLOCK FALSE
INVARIANTS
    TypeOK
    CallsReadWhatTheyWereGiven
    NoUseAfterFree
    StableIsFromLastReplay
    SomeThreadGoesOn
    SomeStreamGoesOn
    AllDoneWhenIdle
PROPERTIES
    CallsReturn
    ImplementsService
