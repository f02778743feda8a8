SPECIFICATION StoreSpec
CONSTANTS
    Procs = {p1, p2, p3}
    Ops = {"load_or_create"}
    TpmModes = {"flaky"}
    OldKey = OldKey
    ImportedKeys = {K1}
    None = None
SYMMETRY ProcSymmetry
CHECK_DEADLOCK FALSE
PROPERTIES
    FallbackOnlyOnFirstUse
