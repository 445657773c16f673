CONSTANTS
    s1 = s1
    s2 = s2
    r1 = r1
    r2 = r2
    r3 = r3
    Proc = {s1, r1, r2, r3}
    Sender = {s1}
    None = None
    MAX_QUEUE = 3
    Capacity = 3
    WAITERS_PER_CHANNEL = 3
    MaxSent = 3
SPECIFICATION Spec
SYMMETRY Symmetric
INVARIANT NoSleepOverMessage
CHECK_DEADLOCK FALSE
