SPECIFICATION Spec
CONSTANTS
    east = east
    west = west
    run = run
    crs = crs
    v1 = v1
    narrow = narrow
    wide = wide
    Slot = {s1, s2}
    GapId = {g1, g2}
    Area = {east, west}
    RunId = {run}
    RunArea <- MCRunArea
    Boundary = {narrow, wide}
    CRS = {crs}
    Resolution = {5, 10}
    Algorithm = {v1}
    Computable <- Fits
    AreaInput <- AreaRows
    DetectInput <- Detections
    ReviewInput = {}
    BaseLength = 50
    MaxExplanation = 1200
    NoArea = NoArea
    NoRequest = NoRequest
    NoGap = NoGap
SYMMETRY Symmetry
INVARIANTS
    DetectIdempotent
    SourcesStayProcessed
