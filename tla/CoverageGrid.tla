---------------------------- MODULE CoverageGrid ----------------------------
(***************************************************************************)
(* The geometry of a survey: the lines that a plan draws over a boundary,  *)
(* the grid of cells on which a detection counts what the tracks have      *)
(* covered, and the line that is recommended to close the gap.  The loop   *)
(* over the cells is one action for each cell.                             *)
(*                                                                         *)
(* Lengths are whole numbers of half a cell, so that the centre of a cell  *)
(* is a point of the grid and every comparison of the code is exact: a     *)
(* quotient is compared after multiplying out, a distance by its square.   *)
(* What the model does not have is the rounding of float64.                *)
(***************************************************************************)
EXTENDS Integers, Sequences, FiniteSets

CONSTANTS
    Boundary,    \* polygons: a sequence of closed rings, the first is the outer one
    Flown,       \* what a detection is asked with: a sequence of tracks, each
                 \* of them the lines of one run and its swath
    Cut,         \* straight borders between two corners of a boundary: the path
                 \* along it from one corner to the other, and the path back
    Heading,     \* degrees
    Spacing,     \* even, so that half of it is a length
    MaxCells,    \* 60000 in the code
    NoBox

Point == Int \X Int

\* The lines of one run, and the width they cover.
Track == [lines : Seq(Seq(Point)), swath : Nat]

\* Positive on the left of the line from a to b, 0 on it.
Side(a, b, p) == (b[1] - a[1]) * (p[2] - a[2]) - (b[2] - a[2]) * (p[1] - a[1])

\* The border has the path there on one side and the path back on the other.
Separates(cut) ==
    LET a == Head(cut.there)
        b == Head(cut.back)
    IN  /\ a # b
        /\ \/ /\ \A i \in DOMAIN cut.there : Side(a, b, cut.there[i]) <= 0
              /\ \A i \in DOMAIN cut.back : Side(a, b, cut.back[i]) >= 0
           \/ /\ \A i \in DOMAIN cut.there : Side(a, b, cut.there[i]) >= 0
              /\ \A i \in DOMAIN cut.back : Side(a, b, cut.back[i]) <= 0

ASSUME CutAssumption ==
    \A cut \in Cut :
        /\ cut \in [there : Seq(Point) \ {<<>>}, back : Seq(Point) \ {<<>>}]
        /\ cut.there[Len(cut.there)] = Head(cut.back)
        /\ cut.back[Len(cut.back)] = Head(cut.there)
        /\ Separates(cut)
ASSUME MaxCellsAssumption == MaxCells \in Nat
ASSUME BoundaryAssumption == \A polygon \in Boundary : polygon \in Seq(Seq(Point)) \ {<<>>}
ASSUME FlownAssumption == Flown \subseteq Seq(Track)
ASSUME NoBoxAssumption == NoBox \notin [minX : Int, minY : Int, maxX : Int, maxY : Int]
ASSUME SpacingAssumption == \A s \in Spacing : s \in Nat \ {0} /\ s % 2 = 0

VARIABLES
    status,     \* what the service does, or the error it ended with
    boundary,   \* the boundary at hand
    tracks,     \* the tracks of the detection
    origin,     \* where they come from: "given", "planned", "recommended"
    cell,       \* how many cells the loop has visited
    inside, covered, overlap,   \* the counters of the loop
    box         \* the bounding box of the uncovered cells so far

vars == <<status, boundary, tracks, origin, cell, inside, covered, overlap, box>>

Res == 2

Least(S) == CHOOSE x \in S : \A y \in S : x <= y
Greatest(S) == CHOOSE x \in S : \A y \in S : y <= x
Abs(x) == IF x < 0 THEN -x ELSE x

(***************************************************************************)
(* Polygons.                                                               *)
(***************************************************************************)
Points(polygon) ==
    UNION {{polygon[r][i] : i \in DOMAIN polygon[r]} : r \in DOMAIN polygon}

polygonBounds(polygon) ==
    LET xs == {p[1] : p \in Points(polygon)}
        ys == {p[2] : p \in Points(polygon)}
    IN  [minX |-> Least(xs), minY |-> Least(ys), maxX |-> Greatest(xs), maxY |-> Greatest(ys)]

Width(b) == b.maxX - b.minX
Height(b) == b.maxY - b.minY

\* Twice the area of a ring.
ringArea(ring) ==
    LET next(i) == ring[(i % Len(ring)) + 1]
        sum[i \in 0 .. Len(ring)] ==
            IF i = 0 THEN 0
            ELSE sum[i - 1] + ring[i][1] * next(i)[2] - next(i)[1] * ring[i][2]
    IN  sum[Len(ring)]

PolygonArea(polygon) ==
    LET less[r \in 1 .. Len(polygon)] ==
            IF r = 1 THEN Abs(ringArea(polygon[1]))
            ELSE less[r - 1] - Abs(ringArea(polygon[r]))
    IN  less[Len(polygon)]

ValidPolygon(polygon) == Len(polygon[1]) >= 4 /\ PolygonArea(polygon) > 0

\* Mutant: a point on an edge also counts as left of it.
EdgeCrossesClosed(a, b, p) ==
    /\ (a[2] > p[2]) # (b[2] > p[2])
    /\ IF b[2] > a[2]
       THEN (p[1] - a[1]) * (b[2] - a[2]) <= (b[1] - a[1]) * (p[2] - a[2])
       ELSE (p[1] - a[1]) * (b[2] - a[2]) > (b[1] - a[1]) * (p[2] - a[2])

\* Half-open in both directions: a point on a left or lower edge is inside.
EdgeCrosses(a, b, p) ==
    /\ (a[2] > p[2]) # (b[2] > p[2])
    /\ IF b[2] > a[2]
       THEN (p[1] - a[1]) * (b[2] - a[2]) < (b[1] - a[1]) * (p[2] - a[2])
       ELSE (p[1] - a[1]) * (b[2] - a[2]) > (b[1] - a[1]) * (p[2] - a[2])

ringContains(ring, p) ==
    LET previous(i) == IF i = 1 THEN Len(ring) ELSE i - 1
    IN  Cardinality({i \in DOMAIN ring : EdgeCrosses(ring[i], ring[previous(i)], p)}) % 2 = 1

\* Mutant: the holes are forgotten.
polygonContainsOuter(polygon, p) == ringContains(polygon[1], p)

polygonContains(polygon, p) ==
    /\ ringContains(polygon[1], p)
    /\ \A r \in 2 .. Len(polygon) : ~ringContains(polygon[r], p)

(***************************************************************************)
(* Tracks.                                                                 *)
(***************************************************************************)
\* pointSegmentDistance(p, a, b) <= swath / 2, with t = part / square.
WithinSwath(p, a, b, swath) ==
    LET dx == b[1] - a[1]
        dy == b[2] - a[2]
        square == dx * dx + dy * dy
        dot == (p[1] - a[1]) * dx + (p[2] - a[2]) * dy
        part == Greatest({0, Least({square, dot})})
        ex == square * (p[1] - a[1]) - part * dx
        ey == square * (p[2] - a[2]) - part * dy
    IN  IF square = 0
        THEN 4 * ((p[1] - a[1]) * (p[1] - a[1]) + (p[2] - a[2]) * (p[2] - a[2])) <= swath * swath
        ELSE 4 * (ex * ex + ey * ey) <= swath * swath * square * square

TrackCovers(track, p) ==
    \E l \in DOMAIN track.lines : \E i \in 2 .. Len(track.lines[l]) :
        WithinSwath(p, track.lines[l][i - 1], track.lines[l][i], track.swath)

coveragePasses(p, flown) == Cardinality({k \in DOMAIN flown : TrackCovers(flown[k], p)})

(***************************************************************************)
(* Generate: parallel lines across the boundary.                           *)
(***************************************************************************)
Horizontal(heading) == heading \in 45 .. 134 \/ heading \in 225 .. 314

\* Mutant: the first line is a whole spacing away from the edge.
FirstLineInside(spacing) == spacing

FirstLine(spacing) == spacing \div 2

GeneratedLines(b, heading, spacing) ==
    LET span == IF Horizontal(heading) THEN Height(b) ELSE Width(b)
        number == Cardinality({k \in 0 .. span : FirstLine(spacing) + k * spacing < span})
        at(k) == FirstLine(spacing) + (k - 1) * spacing
    IN  [k \in 1 .. number |->
            IF Horizontal(heading)
            THEN <<<<b.minX, b.minY + at(k)>>, <<b.maxX, b.minY + at(k)>>>>
            ELSE <<<<b.minX + at(k), b.minY>>, <<b.minX + at(k), b.maxY>>>>]

(***************************************************************************)
(* The grid.                                                               *)
(***************************************************************************)
Cells(length) == (length + Res - 1) \div Res

Columns(polygon) == Cells(Width(polygonBounds(polygon)))
Rows(polygon) == Cells(Height(polygonBounds(polygon)))

\* The centre of the cell that the loop visits after n others.
Centre(polygon, n) ==
    LET b == polygonBounds(polygon) IN
    <<b.minX + (n % Columns(polygon)) * Res + 1, b.minY + (n \div Columns(polygon)) * Res + 1>>

Stretched(old, p) ==
    IF old = NoBox
    THEN [minX |-> p[1] - 1, minY |-> p[2] - 1, maxX |-> p[1] + 1, maxY |-> p[2] + 1]
    ELSE [minX |-> Least({old.minX, p[1] - 1}), minY |-> Least({old.minY, p[2] - 1}),
          maxX |-> Greatest({old.maxX, p[1] + 1}), maxY |-> Greatest({old.maxY, p[2] + 1})]

\* Mutant: the line runs along the shorter side.
RecommendationAcross(b) ==
    LET x == (b.minX + b.maxX) \div 2
        y == (b.minY + b.maxY) \div 2
    IN  IF Width(b) < Height(b)
        THEN <<<<b.minX - Res, y>>, <<b.maxX + Res, y>>>>
        ELSE <<<<x, b.minY - Res>>, <<x, b.maxY + Res>>>>

\* The line through the middle of the box along its longer side.
Recommendation(b) ==
    LET x == (b.minX + b.maxX) \div 2
        y == (b.minY + b.maxY) \div 2
    IN  IF Width(b) >= Height(b)
        THEN <<<<b.minX - Res, y>>, <<b.maxX + Res, y>>>>
        ELSE <<<<x, b.minY - Res>>, <<x, b.maxY + Res>>>>

Init ==
    /\ status = "idle"
    /\ boundary \in Boundary
    /\ tracks = <<>>
    /\ origin = "given"
    /\ cell = 0 /\ inside = 0 /\ covered = 0 /\ overlap = 0
    /\ box = NoBox

\* Mutant: the grid may have any size.
DetectErrorAnySize(polygon, flown) ==
    IF ~ValidPolygon(polygon) THEN "GEOJSON_INVALID"
    ELSE IF flown = <<>> THEN "NO_TRACKS"
    ELSE "none"

\* The checks before the loop, by the service and by CalculateCoverage.  A
\* boundary that is a valid polygon has a width and a height.
DetectError(polygon, flown) ==
    IF ~ValidPolygon(polygon) THEN "GEOJSON_INVALID"
    ELSE IF flown = <<>> THEN "NO_TRACKS"
    ELSE IF Columns(polygon) * Rows(polygon) > MaxCells THEN "TOO_LARGE"
    ELSE "none"

StartDetection(flown) ==
    /\ tracks' = flown
    /\ cell' = 0 /\ inside' = 0 /\ covered' = 0 /\ overlap' = 0
    /\ box' = NoBox
    /\ status' = IF DetectError(boundary, flown) = "none" THEN "scanning"
                 ELSE DetectError(boundary, flown)

Detect(flown) ==
    /\ status = "idle"
    /\ StartDetection(flown)
    /\ UNCHANGED <<boundary, origin>>

\* The next cell of the two loops.
Visit ==
    LET p == Centre(boundary, cell)
        passes == coveragePasses(p, tracks)
    IN  /\ status = "scanning"
        /\ cell < Columns(boundary) * Rows(boundary)
        /\ cell' = cell + 1
        /\ IF polygonContains(boundary, p)
           THEN /\ inside' = inside + 1
                /\ covered' = IF passes > 0 THEN covered + 1 ELSE covered
                /\ overlap' = IF passes > 1 THEN overlap + 1 ELSE overlap
                /\ box' = IF passes = 0 THEN Stretched(box, p) ELSE box
           ELSE UNCHANGED <<inside, covered, overlap, box>>
        /\ UNCHANGED <<status, boundary, tracks, origin>>

Report ==
    /\ status = "scanning"
    /\ cell = Columns(boundary) * Rows(boundary)
    /\ status' = IF inside = 0 THEN "NO_CELLS" ELSE "reported"
    /\ UNCHANGED <<boundary, tracks, origin, cell, inside, covered, overlap, box>>

\* Service Generate.  External: a run flies the lines with the spacing as swath.
GeneratePlan(heading, spacing) ==
    LET b == polygonBounds(boundary)
        lines == GeneratedLines(b, heading, spacing)
    IN  /\ status = "idle"
        /\ IF ~ValidPolygon(boundary)
           THEN status' = "GEOJSON_INVALID" /\ UNCHANGED <<tracks, origin>>
           ELSE IF spacing > Greatest({Width(b), Height(b)})
           THEN status' = "LINE_SPACING_INVALID" /\ UNCHANGED <<tracks, origin>>
           ELSE IF lines = <<>>
           THEN status' = "NO_TRANSECTS" /\ UNCHANGED <<tracks, origin>>
           ELSE /\ status' = "planned"
                /\ tracks' = <<[lines |-> lines, swath |-> spacing]>>
                /\ origin' = "planned"
        /\ UNCHANGED <<boundary, cell, inside, covered, overlap, box>>

DetectPlanned ==
    /\ status = "planned"
    /\ StartDetection(tracks)
    /\ UNCHANGED <<boundary, origin>>

NarrowSide(b) == Least({Width(b), Height(b)})

\* External: a run flies the recommended line with the least swath that can do,
\* since the centre of a cell is half a cell inside the box, and the detection
\* is asked again with its track as well.
Resurvey ==
    /\ status = "reported"
    /\ box # NoBox
    /\ origin' = "recommended"
    /\ StartDetection(Append(tracks, [lines |-> <<Recommendation(box)>>,
                                      swath |-> Greatest({1, NarrowSide(box) - Res})]))
    /\ UNCHANGED boundary

\* The next request, for any area.
Again ==
    /\ status \notin {"idle", "planned", "scanning"}
    /\ boundary' \in Boundary
    /\ status' = "idle"
    /\ tracks' = <<>>
    /\ origin' = "given"
    /\ cell' = 0 /\ inside' = 0 /\ covered' = 0 /\ overlap' = 0
    /\ box' = NoBox

Next ==
    \/ \E flown \in Flown : Detect(flown)
    \/ \E heading \in Heading, spacing \in Spacing : GeneratePlan(heading, spacing)
    \/ DetectPlanned
    \/ Visit
    \/ Report
    \/ Resurvey
    \/ Again

Spec == Init /\ [][Next]_vars

-----------------------------------------------------------------------------
\* The variables have their types: the counters are nested, so that the ratios
\* are fractions, no more cells are visited than the limit allows, and there is
\* a gap to draw exactly if a cell is uncovered.
TypeOK ==
    /\ status \in {"idle", "planned", "scanning", "reported", "GEOJSON_INVALID", "NO_TRACKS",
                   "TOO_LARGE", "NO_CELLS", "LINE_SPACING_INVALID", "NO_TRANSECTS"}
    /\ boundary \in Boundary
    /\ origin \in {"given", "planned", "recommended"}
    /\ {cell, inside, covered, overlap} \subseteq 0 .. MaxCells
    /\ overlap <= covered /\ covered <= inside /\ inside <= cell
    /\ box = NoBox <=> covered = inside

\* All edges of the boundary are edges of cells.
OnGrid(polygon) ==
    LET b == polygonBounds(polygon) IN
    \A r \in DOMAIN polygon : \A i \in 2 .. Len(polygon[r]) :
        LET p == polygon[r][i - 1]
            q == polygon[r][i]
        IN  /\ p[1] = q[1] \/ p[2] = q[2]
            /\ (p[1] - b.minX) % Res = 0
            /\ (p[2] - b.minY) % Res = 0

\* How often a ring goes round a point: its edges that pass on the right of the
\* point, the ones that go up less the ones that go down.
Winding(ring, p) ==
    LET right == {i \in 2 .. Len(ring) : EdgeCrosses(ring[i], ring[i - 1], p)}
        up == {i \in right : ring[i][2] > ring[i - 1][2]}
    IN  Cardinality(up) - Cardinality(right \ up)

\* A polygon as a map has it: every ring ends where it begins and goes round a
\* cell at most once, always the same way; the holes are apart, in the outer ring.
Simple(polygon) ==
    LET centres == {Centre(polygon, n) : n \in 0 .. Columns(polygon) * Rows(polygon) - 1}
        hole == 2 .. Len(polygon)
    IN  /\ \A r \in DOMAIN polygon :
               /\ Len(polygon[r]) >= 1
               /\ polygon[r][1] = polygon[r][Len(polygon[r])]
               /\ \E turn \in {1, -1} : \A p \in centres : Winding(polygon[r], p) \in {0, turn}
        /\ \A r \in hole : \A p \in centres :
               ringContains(polygon[r], p) =>
                   /\ ringContains(polygon[1], p)
                   /\ \A s \in hole \ {r} : ~ringContains(polygon[s], p)

\* On such a boundary, holes included, the cells that ray casting finds inside
\* make up exactly the area that the shoelace formula gives: the two numbers
\* that Detect multiplies to the area of the gap speak of the same region.
AreasAgree ==
    status = "reported" /\ OnGrid(boundary) /\ Simple(boundary) =>
        inside * 2 * Res * Res = PolygonArea(boundary)

\* A boundary and its two parts on either side of the border which cuts it.
Whole(cut) == <<cut.there \o Tail(cut.back)>>
Parts(cut) == {<<Append(cut.there, Head(cut.there))>>, <<Append(cut.back, Head(cut.back))>>}

\* polygonContains shares out the points of a boundary that is cut in two: the
\* centre of each cell of its grid is inside exactly one part, also when the
\* border runs through centres.  Nothing is said of what detections of the parts
\* count: CalculateCoverage lays the grid of each from the box of that part.
CellInOnePart ==
    status = "scanning" /\ cell < Columns(boundary) * Rows(boundary) =>
        \A cut \in Cut : Whole(cut) = boundary =>
            LET p == Centre(boundary, cell) IN
            Cardinality({part \in Parts(cut) : polygonContains(part, p)})
                = IF polygonContains(boundary, p) THEN 1 ELSE 0

\* Once a run has flown the recommended line, the next detection finds no gap,
\* whatever the shape of the gap was.  The swath is the one that Resurvey takes
\* from the box of the gap: no code ties the swath of a run to the gap.
RecommendationClosesGap ==
    status = "reported" /\ origin = "recommended" => box = NoBox

\* A generated plan, flown with the spacing as swath, covers the boundary up to
\* half a spacing beyond its last line.  It may leave a gap beyond that, since
\* the loop stops at the far edge; the last line is within a spacing of it.
PlanCoversToLastStrip ==
    status = "reported" /\ origin = "planned" /\ box # NoBox =>
        LET b == polygonBounds(boundary)
            spacing == tracks[1].swath
            last == tracks[1].lines[Len(tracks[1].lines)][2]
        IN  \/ box.minX + 1 > last[1] + spacing \div 2 /\ b.maxX - last[1] <= spacing
            \/ box.minY + 1 > last[2] + spacing \div 2 /\ b.maxY - last[2] <= spacing
=============================================================================
