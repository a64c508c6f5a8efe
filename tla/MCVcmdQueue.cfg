\* No signals and no hardware errors: both kinds of device, both priorities,
\* one silent buffer, and four submissions for three slots, so an id is reused.
SPECIFICATION CountedSpec
CONSTANTS
    NumIds = 3
    Types = {"HANTRO_DECODER", "HANTRO_ENCODER"}
    Silent = {3}
    Prios = {"normal", "high"}
    Faults = {}
    MaxSubmits = 4
    MaxFaults = 0
    MaxSignals = 0
INVARIANTS
    ChainIsQueue
    IdleMeansStopped
    OneReleasedNode
PROPERTIES
    JmpReportsAll
    ServiceSpec
    Completes
\* Clients stop after MaxSubmits submissions.
CHECK_DEADLOCK FALSE
