CONSTANTS
    c1 = c1
    c2 = c2
    Cpu = {c1, c2}
    MAX_PROCESSES = 4
    MaxPid = 6
    MaxSpace = 3
SPECIFICATION Spec
SYMMETRY Symmetric
INVARIANTS TypeOK ResultOnce WaiterHasChild SpaceOnce
CHECK_DEADLOCK FALSE
