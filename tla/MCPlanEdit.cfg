SPECIFICATION Spec
CONSTANTS
    p1 = p1
    area = area
    edge = edge
    drawn = drawn
    redrawn = redrawn
    Slot = {s1, s2}
    PlanId = {p1, p2}
    Area = {area}
    Boundary = {edge}
    Lines = {drawn, redrawn}
    ParsableLines = {drawn, redrawn}
    Spacing = {10}
    Transects <- NoTransects
    NameLength = {150, 154, 157}
    MaxName = 160
    CreateInput <- Creates
    GenerateInput <- Generates
    UpdateInput <- Edits
    LockInput <- Locks
    CopyInput = {p1}
    AreaInput <- AreaRows
    SeedBoundary = edge
    SeedLines = drawn
    SeedName = 150
    KnownVersions = TRUE
    NoRequest = NoRequest
    NoPlan = NoPlan
    NoArea = NoArea
SYMMETRY Symmetry
INVARIANTS
    TypeOK
    AuditLedger
    LockAuditStands
    EditsFollowTheirSnapshot
PROPERTIES
    ImplementsEditableRows
