CONSTANTS
    None = None
    c1 = c1
    c2 = c2
    p1 = p1
    p2 = p2
    t1 = t1
    t2 = t2
    t3 = t3
    t4 = t4
    a1 = a1
    a2 = a2
    Cpu = {c1, c2}
    Pid = {p1, p2}
    Boot <- BootTwo
    MLFQ_LEVELS = 1
    SLICE_TICKS = 1
    BOOST_EVERY_TICKS = 1
    BoostScan = {p1, p2}
    SLEEP_QUEUE_CAP = 2
    MaxSleep = 1
    Parts = {"Scheduler", "Futex", "Netd"}
SPECIFICATION LiveSpec
PROPERTIES WokenRuns ImplementsContract SleeperWakes NetConnects
CHECK_DEADLOCK FALSE
