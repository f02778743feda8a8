SPECIFICATION AutoSpec
CONSTANTS
    Procs = {p1, p2, p3}
    Ops = {"load_or_create", "load", "import", "import_force"}
    TpmModes = {"up", "down", "flaky"}
    OldKey = OldKey
    ImportedKeys = {K1, K2}
    None = None
SYMMETRY KeySymmetry
CHECK_DEADLOCK FALSE
INVARIANTS
    OneKeyPerMachine
    SealedKeyIsStored
    ForcedImportHolds
PROPERTIES
    ForceIsNeeded
