CONSTANTS
    c1 = c1
    c2 = c2
    Cpu = {c1}
    MAX_PROCESSES = 5
    MaxPid = 6
    MaxSpace = 4
SPECIFICATION Spec
INVARIANT ZombieCollectable
CHECK_DEADLOCK FALSE
