CONSTANTS
    c1 = c1
    c2 = c2
    Cpu = {c1, c2}
    MAX_PROCESSES = 4
    MaxPid = 7
    MaxSpace = 2
SPECIFICATION Spec
SYMMETRY Symmetric
INVARIANT NoStaleReap
CHECK_DEADLOCK FALSE
