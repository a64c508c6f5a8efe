SPECIFICATION Spec
CONSTANTS
    f1 = f1
    f2 = f2
    CoresOf <- MCCoresOf
    Blocks = 3
    FewBlocks = 2
    Files = {f1, f2}
SYMMETRY MCSymmetry
INVARIANTS
    HandlerHasItsCore
    UnloadReturnsAll
    LateFilesEntered
CHECK_DEADLOCK FALSE
