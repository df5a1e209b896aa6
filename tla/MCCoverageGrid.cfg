SPECIFICATION Spec
CONSTANTS
    Boundary <- Boundaries
    Cut <- Cuts
    Flown <- Tracks
    Heading = {0, 45, 134, 135, 225, 315}
    Spacing = {2, 4, 6, 8, 12, 14}
    MaxCells = 36
    NoBox = NoBox
INVARIANTS
    TypeOK
    AreasAgree
    CellInOnePart
    RecommendationClosesGap
    PlanCoversToLastStrip
