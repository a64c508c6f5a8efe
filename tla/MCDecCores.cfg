\* Two cores, three threads on two files, one of which asks for the second core;
\* one interrupted reservation.
SPECIFICATION FairSpec
CONSTANTS
    f1 = f1
    f2 = f2
    t1 = t1
    t2 = t2
    t3 = t3
    NumCores = 2
    Files = {f1, f2}
    Threads = {t1, t2, t3}
    FileOf <- MCFileOf
    MasksOf <- OneMask
    None = None
    MaxSignals = 1
INVARIANTS
    OneHolder
    PermitsMatchCores
    NoMissedWake
    CompletionKept
PROPERTIES
    CoreWaitEnds
\* When both files are closed nothing is left to do.
CHECK_DEADLOCK FALSE
