SPECIFICATION FairSpec
CONSTANTS
    Procs = {p1, p2, p3}
    Cooldown = 2
    Wait = 1
    WallSteps <- Backward
    TornWrites = FALSE
    None = None
    Garbage = Garbage
    MaxNow = 4
    MaxOffset = 2
INVARIANTS
    OnePromptPerBurst
    RefusalsEnd
PROPERTIES
    CooldownIsKept
    WaitingEnds
