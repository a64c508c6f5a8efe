\* Two cores, two threads of two processes, one signal, one failed run.
SPECIFICATION Spec
CONSTANTS
    p1 = p1
    p2 = p2
    t1 = t1
    t2 = t2
    NumCores = 2
    Procs = {p1, p2}
    Threads = {t1, t2}
    ProcOf <- MCProcOf
    Amounts = {1, 2}
    None = None
    MaxSignals = 1
    MaxFaults = 1
INVARIANTS
    HandoverSafe
    SuspendPermit
\* Requests for two cores can hold one each and wait for ever.
CHECK_DEADLOCK FALSE
