SPECIFICATION Spec
CONSTANTS
    Procs = {p1, p2}
    Cooldown = 2
    Wait = 1
    WallSteps <- Backward
    TornWrites = TRUE
    None = None
    Garbage = Garbage
    MaxNow = 5
    MaxOffset = 2
PROPERTIES
    CooldownIsKept
