SPECIFICATION Spec
CONSTANTS
    north = north
    south = south
    broken = broken
    reversed = reversed
    Slot = {s1, s2}
    RunId = {r1, r2}
    Plan = {p1}
    demo = demo
    Source = {north, south, broken, reversed, demo}
    ParsableSource = {north, south, reversed}
    OrderedSource = {north, south, broken}
    Code = {c1, c2}
    c1 = c1
    c2 = c2
    ImportInput <- Imports
    TransitionInput <- Moves
    SeedPlan = p1
    SeedSource = demo
    SeedCode = c2
    NoRequest = NoRequest
    NoRun = NoRun
SYMMETRY Symmetry
INVARIANTS
    TypeOK
    ImportIdempotent
    AuditLedger
    StageVersion
    InvalidNavigationHeldBack
    AuditSnapshots
    ConflictHonest
PROPERTIES
    ImplementsLifecycle
