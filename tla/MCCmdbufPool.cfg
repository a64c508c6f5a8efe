\* Three free slots, a shared and a private budget, one failed wait or vmalloc.
SPECIFICATION Spec
CONSTANTS
    f1 = f1
    f2 = f2
    t1 = t1
    t2 = t2
    t3 = t3
    N = 5
    Procs = {f1, f2}
    Threads = {t1, t2, t3}
    FilpOf <- MCFilpOf
    Kernel = Kernel
    NoNode = NoNode
    MaxSum = 3
    Costs = {1, 2}
    MaxFailures = 1
INVARIANTS
    ResidualExact
    SlotLifecycle
    AllocatorTerminates
    BudgetCovers
\* Threads of one file that are all at the budget gate wait for a signal.
CHECK_DEADLOCK FALSE
