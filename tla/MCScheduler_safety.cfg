CONSTANTS
    p1 = p1
    p2 = p2
    p3 = p3
    c1 = c1
    c2 = c2
    Cpu = {c1, c2}
    Pid = {p1, p2, p3}
    None = None
    Boot <- BootOne
    MLFQ_LEVELS = 2
    SLICE_TICKS = 1
    BOOST_EVERY_TICKS = 1
    BoostScan = {p1, p2, p3}
    SLEEP_QUEUE_CAP = 2
    MaxSleep = 1
SPECIFICATION Spec
SYMMETRY Symmetric
INVARIANTS TypeOK RunqueueToken ExclusiveExecution KernelAsserts WakeToken
