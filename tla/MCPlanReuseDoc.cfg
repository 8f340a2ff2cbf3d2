SPECIFICATION Spec
CONSTANTS
    Devices <- MCDevices
    CudaArch <- MCCudaArch
    NumSms <- MCNumSms
    Requests <- MCRequests
    Target = "sm100"
    None = None
    I32Max = 2047
    UsizeMax = 4194304
INVARIANTS
    LaunchMatchesPlan
