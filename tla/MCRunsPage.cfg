SPECIFICATION FairSpec
CONSTANTS
    Run = {1}
    StartedAt <- Starts
    Slot = {s1, s2}
    MaxVersion = 3
    None = None
INVARIANTS
    TypeOK
    RevokedSessionGetsNothing
PROPERTIES
    MovesAsShown
    RefreshEnds
    ReselectingCatchesUp
