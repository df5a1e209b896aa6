SPECIFICATION PlanningSpec
CONSTANTS
    upper = upper
    lower = lower
    wide = wide
    narrow = narrow
    latlon = latlon
    wideEdge = wideEdge
    narrowEdge = narrowEdge
    drawn = drawn
    generated = generated
    broken = broken
    p1 = p1
    Slot = {s1, s2}
    PlanSlot = {t1}
    MaxInFlight = 2
    AreaId = {a1, a2}
    TypedCode = {lower, upper}
    AreaCode = {upper}
    Normalized <- Stored
    Content = {wide, narrow, latlon}
    GeometryError <- Errors
    BoundaryOf <- Edges
    SeedCode = upper
    SeedContent = wide
    SeedLines = drawn
    SeedName = 8
    CreateInput <- AreaCreates
    UpdateInput <- AreaUpdates
    KnownVersions = TRUE
    PlanId = {p1}
    Boundary = {wideEdge, narrowEdge}
    Lines = {drawn, generated, broken}
    ParsableLines = {drawn, generated}
    Spacing = {10, 20}
    Transects <- Generated
    NameLength = {8, 15}
    MaxName = 16
    DrawInput <- Draws
    GenerateInput <- Generates
    EditInput <- Edits
    LockInput = {}
    CopyInput = {}
    NoRequest = NoRequest
    NoArea = NoArea
    NoAreaRow = NoAreaRow
    NoPlan = NoPlan
SYMMETRY Symmetry
INVARIANTS
    TypeOK
    CodesUnique
    AuditLedger
    SnapshotsAgree
PROPERTIES
    ImplementsEditableRows
    PlanServiceAssumptionsHold
