CONSTANTS
    PCs = 3
    MTVEC = 0
    INT_TVEC = 1
    Instrs <- MCInstrs
    None = None
SPECIFICATION Spec
INVARIANTS
    AccessNeverSkipped
