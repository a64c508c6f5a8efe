\* One file is closed while another one's buffers are queued and waited for.
SPECIFICATION WaitsSpec
CONSTANTS
    NumIds = 3
    Types = {"HANTRO_DECODER"}
    Silent = {}
    Prios = {"normal"}
    Faults = {}
    MaxSubmits = 4
    MaxFaults = 0
    MaxSignals = 1
    Carried <- FirstVisit
    MaxTimeouts = 1
    QuickReuse = FALSE
    Ways = {"one", "any"}
INVARIANTS
    NothingOfTheFileLeft
    OthersKeepRunning
    OthersOkMeansRan
    SleepersAreWoken
\* Clients stop after MaxSubmits submissions.
CHECK_DEADLOCK FALSE
