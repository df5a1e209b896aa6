SPECIFICATION Spec
CONSTANTS
    area = area
    run = run
    crs = crs
    v1 = v1
    edge = edge
    Slot = {s1, s2}
    GapId = {g1}
    Area = {area}
    RunId = {run}
    RunArea <- MCRunArea
    Boundary = {edge}
    CRS = {crs}
    Resolution = {5}
    Algorithm = {v1}
    Computable <- Fits
    AreaInput <- AreaRows
    DetectInput <- Detections
    ReviewInput <- Reviews
    BaseLength = 50
    MaxExplanation = 1200
    NoArea = NoArea
    NoRequest = NoRequest
    NoGap = NoGap
SYMMETRY Symmetry
INVARIANTS
    TypeOK
    NotesKept
    AuditLedger
    AuditSnapshots
PROPERTIES
    ImplementsLifecycle
