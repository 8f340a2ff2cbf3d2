SPECIFICATION Spec
CONSTANTS
    t1 = t1
    t2 = t2
    good = good
    other = other
    NoDevice = NoDevice
    Threads <- MCThreads
    Devices <- MCDevices
    CudaArch <- MCCudaArch
    Target = "sm100"
    MaxCalls = 3
SYMMETRY Symmetry
CHECK_DEADLOCK FALSE
INVARIANTS
    TypeOK
    LaunchesOnlyOnTarget
    SuccessMeansAllLaunched
    OneReportPerFault
    MessageIsOfThisCall
