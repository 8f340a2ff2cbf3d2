SPECIFICATION Spec
CONSTANTS
    Devices <- MCDevices
    Capability <- MCCapability
    NumSms <- MCNumSms
    Requests <- MCRequests
    RawParams <- MCRawParams
    I32Max = 131071
    NoDevice = NoDevice
    None = None
INVARIANTS
    TypeOK
    KernelFitsLaunch
    LaunchIsOnItsTensorsDevice
    LaunchStaysInTensors
    SupportedIsNeverRejectedByC
