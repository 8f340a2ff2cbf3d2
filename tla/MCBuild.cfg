SPECIFICATION LiveSpec
CONSTANTS
    t1 = t1
    t2 = t2
    Targets = {t1, t2}
    Envs <- MCEnvs
    Gpus <- MCGpus
    Roots = {"vendor", "checkout", "empty"}
    Complete = {"vendor", "checkout"}
    SourceLists <- MCSourceLists
    Cache = Cache
    None = None
    Torn = Torn
    Stub = Stub
    Unset = Unset
    MaxEdits = 1
    MaxFaults = 1
CHECK_DEADLOCK FALSE
INVARIANTS
    TypeOK
    LibraryIsOfOneArch
    LibraryIsCurrent
    DetectedLibraryRunsOnEveryGpu
PROPERTIES
    BuildsFinish
