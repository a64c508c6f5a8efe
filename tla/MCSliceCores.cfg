SPECIFICATION Spec
CONSTANTS
    Tables <- MCTables
    MaxSlice = 2
INVARIANTS
    IdsStayTrue
    PermitsCoverCores
    CleanUnload
CHECK_DEADLOCK FALSE
