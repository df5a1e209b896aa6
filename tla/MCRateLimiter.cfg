SPECIFICATION Spec
CONSTANTS
    Request = {r1, r2}
    Client = {c1, c2}
    Capacity = 1
    Window = 2
    PruneAbove = 1
    MaxWait = 1
    MaxTime = 6
    MaxCount = 2
    NoClient = NoClient
SYMMETRY Symmetry
INVARIANTS
    TypeOK
    BurstBound
    RefusalJustified
