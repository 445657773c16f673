CONSTANTS
    c1 = c1
    c2 = c2
    Cpu = {c1}
    MAX_PROCESSES = 4
    MaxPid = 5
    MaxSpace = 4
SPECIFICATION Spec
INVARIANT GoneCleaned
CHECK_DEADLOCK FALSE
