\* The encoder's handler can restart the core under the thread that aborts it.
SPECIFICATION CountedSpec
CONSTANTS
    NumIds = 3
    Types = {"HANTRO_ENCODER"}
    Silent = {}
    Prios = {"normal", "high"}
    Faults = {}
    MaxSubmits = 3
    MaxFaults = 0
    MaxSignals = 0
PROPERTIES
    HighPriorityInserted
\* Clients stop after MaxSubmits submissions.
CHECK_DEADLOCK FALSE
