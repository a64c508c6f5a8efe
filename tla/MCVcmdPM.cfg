\* Every id is submitted at most once; two disturbances of any kind.
SPECIFICATION PMSpec
CONSTANTS
    NumIds = 3
    Types = {"HANTRO_DECODER", "HANTRO_ENCODER"}
    Silent = {3}
    Prios = {"normal", "high"}
    Faults = {"BUSERR", "TIMEOUT", "RESET"}
    MaxSubmits = 3
    MaxFaults = 2
    MaxSignals = 1
    MaxCycles = 2
    MaxDisturbances = 2
    Abandons = FALSE
CONSTRAINT BoundedDisturbances
INVARIANTS
    ReportedInOrder
    WorkingIsAlive
    ResumedQueueRuns
PROPERTIES
    DoneNeverRunsAgain
\* Clients stop after MaxSubmits submissions.
CHECK_DEADLOCK FALSE
