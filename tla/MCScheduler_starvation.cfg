CONSTANTS
    p1 = p1
    p2 = p2
    p3 = p3
    c1 = c1
    c2 = c2
    Cpu = {c1}
    Pid = {p1, p2, p3}
    None = None
    Boot <- BootThree
    MLFQ_LEVELS = 2
    SLICE_TICKS = 2
    BOOST_EVERY_TICKS = 2
    BoostScan = {p1, p2, p3}
    SLEEP_QUEUE_CAP = 2
    MaxSleep = 0
SPECIFICATION FairSpec
PROPERTY NoStarvation
