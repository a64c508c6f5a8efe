SPECIFICATION Spec
CONSTANTS
    t1 = t1
    t2 = t2
    f1 = f1
    f2 = f2
    Threads = {t1, t2}
    Files = {f1, f2}
    Slots = 3
    Budget = 2
    Careful = TRUE
    None = None
INVARIANTS
    ChargesHeld
PROPERTIES
    IoctlsEnd
CHECK_DEADLOCK FALSE
