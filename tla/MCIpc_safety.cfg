CONSTANTS
    s1 = s1
    s2 = s2
    r1 = r1
    r2 = r2
    r3 = r3
    Proc = {s1, s2, r1, r2, r3}
    Sender = {s1, s2}
    None = None
    MAX_QUEUE = 3
    Capacity = 4
    WAITERS_PER_CHANNEL = 2
    MaxSent = 4
SPECIFICATION Spec
SYMMETRY Symmetric
INVARIANTS TypeOK PopKeepsOrder OrderedDelivery AddressedWakes BroadcastWakes
CHECK_DEADLOCK FALSE
