SPECIFICATION Spec
CONSTANTS
    t1 = t1
    t2 = t2
    Targets = {t1}
    Envs <- DetectingEnvs
    Gpus <- MCGpus
    Roots = {"vendor", "checkout", "empty"}
    Complete = {"vendor", "checkout"}
    SourceLists <- MCSourceLists
    Cache = Cache
    None = None
    Torn = Torn
    Stub = Stub
    Unset = Unset
    MaxEdits = 0
    MaxFaults = 0
CHECK_DEADLOCK FALSE
INVARIANTS
    MixedHostIsRejected
