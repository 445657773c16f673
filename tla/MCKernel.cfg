CONSTANTS
    Parts = {"Memory", "Heap", "Volume", "Futex", "Grants", "Iommu", "Loader"}
    TotalPages = 22
    WordBits = 8
    Space = {1, 2}
    Slot = {1, 2}
    Thread = {1, 2, 3}
    SlotOf <- SecondThread
    CallMixes <- MemoryMixes
    MaxCalls = 4
    MaxPid = 2
    MaxRegionId = 1
    MAX_REGIONS = 1
    MAX_MAPPINGS = 1
    HeapWords = 30
    Layouts <- HeapLayouts
    Path <- VolPaths
    Contents <- VolContents
    DataBlocks = {1, 2, 3}
    BankCapacity = 5
    VolMixes <- VolumeMixes
    MaxSnapshots = 1
    MaxFaults = 1
    None = None
    t1 = t1
    t2 = t2
    t3 = t3
    t4 = t4
    t5 = t5
    a1 = a1
    a2 = a2
    Threads = {t1, t2, t3, t4, t5}
    Process = {a1, a2}
    space_of <- TwoProcesses
    FUTEX_TABLE_CAP = 2
    MaxGPid = 3
    MaxToken = 3
    MaxSid = 2
    MaxNow = 1
    MAX_GRANTS = 2
    MAX_SESSIONS = 1
    MaxGCalls = 5
SPECIFICATION Spec
SYMMETRY ThreadsOfAProcess
INVARIANTS TypeOK FramesExact MemoryIsolated HeapConsistent ViewsAgree
           MutualExclusion SleeperCovered LedgerFollowsSessions
PROPERTY VolumeIsAtomic
CHECK_DEADLOCK FALSE
