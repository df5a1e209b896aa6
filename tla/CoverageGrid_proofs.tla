------------------------- MODULE CoverageGrid_proofs -------------------------
(* Theorems about CoverageGrid, for every boundary, all tracks and every     *)
(* limit of the grid: the types, the recommended line that closes the gap,   *)
(* the strip that is all a flown plan leaves uncovered, the two parts of a   *)
(* boundary that is cut, and the area that the counted cells make up.        *)
EXTENDS CoverageGrid, FiniteSetTheorems, TLAPS

-----------------------------------------------------------------------------
(* Least and greatest elements: what Least and Greatest choose from a finite *)
(* set of numbers.  That there is one follows from the order of inclusion    *)
(* being well-founded on finite sets.                                        *)

\* A nonempty set of finite sets has one that is minimal.
LEMMA MinimalSet ==
    ASSUME NEW U, NEW F, F # {}, F \subseteq FiniteSubsetsOf(U)
    PROVE  \E T \in F : \A X \in F : X \subseteq T => X = T
  <1>1. IsWellFoundedOn(StrictSubsetOrdering(U), FiniteSubsetsOf(U))
    BY FS_StrictSubsetOrderingWellFounded
  <1>2. PICK T \in F : \A X \in F : <<X, T>> \notin StrictSubsetOrdering(U)
    BY <1>1, WFMin, Zenon
  <1>3. \A X \in F : X \in SUBSET U
    BY DEF FiniteSubsetsOf
  <1> QED
    BY <1>2, <1>3 DEF StrictSubsetOrdering

\* A finite set of numbers that is not empty has a least one.
LEMMA HasLeast ==
    ASSUME NEW S, S \subseteq Int, S # {}, IsFiniteSet(S)
    PROVE  \E x \in S : \A y \in S : x <= y
  <1> DEFINE below(x) == {y \in S : y <= x}
             F == {below(x) : x \in S}
  <1>1. F # {}
    OBVIOUS
  <1>2. F \subseteq FiniteSubsetsOf(S)
    BY FS_Subset DEF FiniteSubsetsOf
  <1>3. PICK T \in F : \A X \in F : X \subseteq T => X = T
    <2> HIDE DEF F
    <2> QED
      BY <1>1, <1>2, MinimalSet
  <1>4. PICK x \in S : T = below(x)
    OBVIOUS
  <1>5. ASSUME NEW y \in S, ~(x <= y)
        PROVE  FALSE
    <2>0. \A z \in S : z <= y => z <= x
      BY <1>5
    <2>1. below(y) \in F /\ below(y) \subseteq T
      BY <1>4, <2>0
    <2>2. below(y) = below(x)
      BY <1>3, <1>4, <2>1
    <2>3. x \in below(x) /\ x \notin below(y)
      BY <1>5
    <2> QED
      BY <2>2, <2>3
  <1> QED
    BY <1>5

\* Least chooses the least element.
LEMMA LeastIs ==
    ASSUME NEW S, S \subseteq Int, S # {}, IsFiniteSet(S)
    PROVE  Least(S) \in S /\ \A y \in S : Least(S) <= y
  BY HasLeast DEF Least

\* A finite set of numbers that is not empty has a greatest one.
LEMMA HasGreatest ==
    ASSUME NEW S, S \subseteq Int, S # {}, IsFiniteSet(S)
    PROVE  \E x \in S : \A y \in S : y <= x
  <1> DEFINE above(x) == {y \in S : x <= y}
             F == {above(x) : x \in S}
  <1>1. F # {}
    OBVIOUS
  <1>2. F \subseteq FiniteSubsetsOf(S)
    BY FS_Subset DEF FiniteSubsetsOf
  <1>3. PICK T \in F : \A X \in F : X \subseteq T => X = T
    <2> HIDE DEF F
    <2> QED
      BY <1>1, <1>2, MinimalSet
  <1>4. PICK x \in S : T = above(x)
    OBVIOUS
  <1>5. ASSUME NEW y \in S, ~(y <= x)
        PROVE  FALSE
    <2>0. \A z \in S : y <= z => x <= z
      BY <1>5
    <2>1. above(y) \in F /\ above(y) \subseteq T
      BY <1>4, <2>0
    <2>2. above(y) = above(x)
      BY <1>3, <1>4, <2>1
    <2>3. x \in above(x) /\ x \notin above(y)
      BY <1>5
    <2> QED
      BY <2>2, <2>3
  <1> QED
    BY <1>5

\* Greatest chooses the greatest element.
LEMMA GreatestIs ==
    ASSUME NEW S, S \subseteq Int, S # {}, IsFiniteSet(S)
    PROVE  Greatest(S) \in S /\ \A y \in S : y <= Greatest(S)
  BY HasGreatest DEF Greatest

LEMMA PairFinite ==
    ASSUME NEW a \in Int, NEW b \in Int
    PROVE  IsFiniteSet({a, b}) /\ {a, b} # {} /\ {a, b} \subseteq Int
  <1>1. IsFiniteSet({a})
    BY FS_Singleton
  <1>2. IsFiniteSet({a} \cup {b})
    BY <1>1, FS_AddElement
  <1>3. {a, b} = {a} \cup {b}
    OBVIOUS
  <1> QED
    BY <1>2, <1>3

LEMMA LeastOfTwo ==
    ASSUME NEW a \in Int, NEW b \in Int
    PROVE  Least({a, b}) = IF a <= b THEN a ELSE b
  <1>1. Least({a, b}) \in {a, b} /\ \A y \in {a, b} : Least({a, b}) <= y
    BY PairFinite, LeastIs
  <1> QED
    BY <1>1

LEMMA GreatestOfTwo ==
    ASSUME NEW a \in Int, NEW b \in Int
    PROVE  Greatest({a, b}) = IF a <= b THEN b ELSE a
  <1>1. Greatest({a, b}) \in {a, b} /\ \A y \in {a, b} : y <= Greatest({a, b})
    BY PairFinite, GreatestIs
  <1> QED
    BY <1>1

\* The values of a function on a finite set are finitely many.
LEMMA FiniteImage ==
    ASSUME NEW S, IsFiniteSet(S), NEW T, NEW f \in [S -> T]
    PROVE  IsFiniteSet({f[x] : x \in S})
  <1>1. f \in Surjection(S, {f[x] : x \in S})
    BY DEF Surjection
  <1> QED
    BY <1>1, FS_Surjection

\* A polygon has finitely many corners.
LEMMA PointsFinite ==
    ASSUME NEW polygon \in Seq(Seq(Point))
    PROVE  IsFiniteSet(Points(polygon)) /\ Points(polygon) \subseteq Point
  <1> DEFINE on(r) == {polygon[r][i] : i \in DOMAIN polygon[r]}
             f == [r \in DOMAIN polygon |-> on(r)]
  <1>1. ASSUME NEW r \in DOMAIN polygon
        PROVE  IsFiniteSet(on(r)) /\ on(r) \subseteq Point
    <2>1. polygon[r] \in Seq(Point)
      OBVIOUS
    <2>2. DOMAIN polygon[r] = 1 .. Len(polygon[r]) /\ Len(polygon[r]) \in Nat
          /\ polygon[r] \in [DOMAIN polygon[r] -> Point]
      BY <2>1
    <2>3. IsFiniteSet(DOMAIN polygon[r])
      BY <2>2, FS_Interval
    <2> QED
      BY <2>2, <2>3, FiniteImage
  <1>2. DOMAIN polygon = 1 .. Len(polygon) /\ Len(polygon) \in Nat
    OBVIOUS
  <1>3. IsFiniteSet(DOMAIN polygon)
    BY <1>2, FS_Interval
  <1>4. f \in [DOMAIN polygon -> SUBSET Point]
    BY <1>1
  <1>5. IsFiniteSet({f[r] : r \in DOMAIN polygon})
    BY <1>3, <1>4, FiniteImage
  <1>6. {f[r] : r \in DOMAIN polygon} = {on(r) : r \in DOMAIN polygon}
    OBVIOUS
  <1>7. \A T \in {on(r) : r \in DOMAIN polygon} : IsFiniteSet(T)
    BY <1>1
  <1>8. IsFiniteSet(UNION {on(r) : r \in DOMAIN polygon})
    BY <1>5, <1>6, <1>7, FS_UNION
  <1> QED
    BY <1>1, <1>8 DEF Points

-----------------------------------------------------------------------------
(* The bounds of a boundary and the cells over them. *)

BoxType == [minX : Int, minY : Int, maxX : Int, maxY : Int]

\* A valid polygon has a bounding box, the lower bounds below the upper ones.
LEMMA BoundsType ==
    ASSUME NEW polygon \in Seq(Seq(Point)) \ {<<>>}, ValidPolygon(polygon)
    PROVE  LET b == polygonBounds(polygon)
           IN  b \in BoxType /\ b.minX <= b.maxX /\ b.minY <= b.maxY
  <1> DEFINE P == Points(polygon)
             xs == {p[1] : p \in P}
             ys == {p[2] : p \in P}
             fx == [p \in P |-> p[1]]
             fy == [p \in P |-> p[2]]
  <1>1. IsFiniteSet(P) /\ P \subseteq Point
    BY PointsFinite
  <1>2. P # {}
    <2>1. 1 \in DOMAIN polygon /\ polygon[1] \in Seq(Point)
      OBVIOUS
    <2>2. 1 \in DOMAIN polygon[1]
      BY <2>1 DEF ValidPolygon
    <2>3. polygon[1][1] \in P
      BY <2>1, <2>2 DEF Points
    <2> QED
      BY <2>3
  <1> HIDE DEF P
  <1>3. xs \subseteq Int /\ ys \subseteq Int /\ xs # {} /\ ys # {}
    BY <1>1, <1>2 DEF Point
  <1>4. fx \in [P -> Int] /\ fy \in [P -> Int]
    BY <1>1 DEF Point
  <1>5. {fx[p] : p \in P} = xs /\ {fy[p] : p \in P} = ys
    OBVIOUS
  <1>6. IsFiniteSet({fx[p] : p \in P}) /\ IsFiniteSet({fy[p] : p \in P})
    <2> HIDE DEF fx, fy
    <2> QED
      BY <1>1, <1>4, FiniteImage
  <1>7. IsFiniteSet(xs) /\ IsFiniteSet(ys)
    BY <1>5, <1>6
  <1>8. polygonBounds(polygon) = [minX |-> Least(xs), minY |-> Least(ys),
                                  maxX |-> Greatest(xs), maxY |-> Greatest(ys)]
    BY DEF polygonBounds, P
  <1> HIDE DEF xs, ys
  <1>9. /\ Least(xs) \in Int /\ Greatest(xs) \in Int /\ Least(xs) <= Greatest(xs)
        /\ Least(ys) \in Int /\ Greatest(ys) \in Int /\ Least(ys) <= Greatest(ys)
    BY <1>3, <1>7, LeastIs, GreatestIs
  <1> QED
    BY <1>8, <1>9 DEF BoxType

\* Quotient and remainder of a cell's number.
LEMMA Divided ==
    ASSUME NEW n \in Nat, NEW c \in Nat, c > 0
    PROVE  /\ n % c \in 0 .. c - 1
           /\ n \div c \in Nat
           /\ n = c * (n \div c) + (n % c)
  OBVIOUS

\* A number below c * r names one of c columns and one of r rows.
LEMMA QuotientBelow ==
    ASSUME NEW n \in Nat, NEW c \in Nat, NEW r \in Nat, n < c * r
    PROVE  /\ c > 0 /\ r > 0
           /\ n \div c \in 0 .. r - 1
           /\ n % c \in 0 .. c - 1
  <1>1. c > 0 /\ r > 0
    OBVIOUS
  <1>2. n % c \in 0 .. c - 1 /\ n \div c \in Nat /\ n = c * (n \div c) + (n % c)
    BY <1>1, Divided
  <1> DEFINE q == n \div c
  <1>3. c * q < c * r
    BY <1>2
  <1> HIDE DEF q
  <1>4. q \in Nat
    BY <1>2 DEF q
  <1>5. q < r
    BY <1>1, <1>3, <1>4
  <1> QED
    BY <1>1, <1>2, <1>4, <1>5 DEF q

\* The grid has a number of columns and rows.
LEMMA GridSize ==
    ASSUME NEW polygon \in Seq(Seq(Point)) \ {<<>>}, ValidPolygon(polygon)
    PROVE  /\ Columns(polygon) \in Nat
           /\ Rows(polygon) \in Nat
           /\ Columns(polygon) * Rows(polygon) \in Nat
  <1>1. Columns(polygon) \in Nat /\ Rows(polygon) \in Nat
    BY BoundsType DEF BoxType, Columns, Rows, Cells, Res, Width, Height
  <1> QED
    BY <1>1

\* The centre of the i-th cell over a length is past its start, not past its end.
LEMMA CellInLength ==
    ASSUME NEW low \in Int, NEW high \in Int, NEW i \in 0 .. (high - low + 1) \div 2 - 1
    PROVE  \E x \in Int : /\ x = low + i * 2 + 1
                         /\ low < x /\ x <= high /\ (x - low) % 2 = 1
  OBVIOUS

\* The centre of a cell lies past the lower edges of the bounding box, and not
\* past its upper ones.
LEMMA CentreInBounds ==
    ASSUME NEW polygon \in Seq(Seq(Point)) \ {<<>>}, ValidPolygon(polygon),
           NEW n \in Nat, n < Columns(polygon) * Rows(polygon)
    PROVE  LET b == polygonBounds(polygon)
               p == Centre(polygon, n)
           IN  /\ p \in Point /\ p = <<p[1], p[2]>>
               /\ b.minX < p[1] /\ p[1] <= b.maxX
               /\ b.minY < p[2] /\ p[2] <= b.maxY
               /\ (p[1] - b.minX) % 2 = 1 /\ (p[2] - b.minY) % 2 = 1
  <1> DEFINE b == polygonBounds(polygon)
             i == n % Columns(polygon)
             j == n \div Columns(polygon)
  <1>1. i \in 0 .. Columns(polygon) - 1 /\ j \in 0 .. Rows(polygon) - 1
    BY GridSize, QuotientBelow
  <1>2. b \in BoxType /\ b.minX <= b.maxX /\ b.minY <= b.maxY
    BY BoundsType
  <1>3. Centre(polygon, n) = <<b.minX + i * 2 + 1, b.minY + j * 2 + 1>>
    BY DEF Centre, Res
  <1>4. /\ Columns(polygon) = (b.maxX - b.minX + 1) \div 2
        /\ Rows(polygon) = (b.maxY - b.minY + 1) \div 2
    BY <1>2 DEF Columns, Rows, Cells, Res, Width, Height, BoxType
  <1> HIDE DEF b, i, j
  <1>5. b.minX \in Int /\ b.maxX \in Int /\ b.minY \in Int /\ b.maxY \in Int
    BY <1>2 DEF BoxType
  <1>6. PICK x \in Int : /\ x = b.minX + i * 2 + 1
                         /\ b.minX < x /\ x <= b.maxX /\ (x - b.minX) % 2 = 1
    BY <1>1, <1>4, <1>5, CellInLength
  <1>7. PICK y \in Int : /\ y = b.minY + j * 2 + 1
                         /\ b.minY < y /\ y <= b.maxY /\ (y - b.minY) % 2 = 1
    BY <1>1, <1>4, <1>5, CellInLength
  <1>8. Centre(polygon, n) = <<x, y>>
    BY <1>3, <1>6, <1>7
  <1> QED
    BY <1>6, <1>7, <1>8 DEF b, Point

-----------------------------------------------------------------------------
(* The distance of a point from a line along one of the axes. *)

\* The square of a number grows with its absolute value.
LEMMA SquareMonotone ==
    ASSUME NEW a \in Int, NEW b \in Nat, a <= b, -a <= b
    PROVE  a * a <= b * b
  <1>1. CASE a >= 0
    BY <1>1
  <1>2. CASE a < 0
    <2>1. PICK c \in Nat : c = -a
      BY <1>2
    <2>2. a * a = c * c /\ c <= b
      BY <2>1
    <2> QED
      BY <2>2
  <1> QED
    BY <1>1, <1>2

\* Distances are compared by their squares, multiplied by that of the divisor.
LEMMA ScaledSquares ==
    ASSUME NEW d \in Int, NEW w \in Nat, NEW square \in Nat, 2 * d <= w, -(2 * d) <= w
    PROVE  4 * (square * d * (square * d)) <= w * w * square * square
  <1>1. PICK e \in Int : e = 2 * d
    OBVIOUS
  <1>2. e * e <= w * w
    BY <1>1, SquareMonotone
  <1>3. PICK ee \in Int : ee = e * e
    BY <1>1
  <1>4. PICK ww \in Nat : ww = w * w
    OBVIOUS
  <1>5. PICK ss \in Nat : ss = square * square
    OBVIOUS
  <1>6. ee * ss <= ww * ss
    BY <1>2, <1>3, <1>4, <1>5
  <1>7. 4 * (square * d * (square * d)) = ee * ss
    BY <1>1, <1>3, <1>5
  <1>8. w * w * square * square = ww * ss
    BY <1>4, <1>5
  <1> QED
    BY <1>6, <1>7, <1>8

\* The nearest point of a segment is not past its ends when the foot is on it.
LEMMA PartOfSegment ==
    ASSUME NEW d \in Nat, NEW s \in Nat, s <= d
    PROVE  Greatest({0, Least({d * d, s * d})}) = s * d
  <1>1. PICK t \in Nat : t = s * d
    OBVIOUS
  <1>2. PICK u \in Nat : u = d * d
    OBVIOUS
  <1>3. t <= u
    BY <1>1, <1>2
  <1>4. Least({u, t}) = t
    BY <1>3, LeastOfTwo
  <1>5. Greatest({0, t}) = t
    BY GreatestOfTwo
  <1> QED
    BY <1>1, <1>2, <1>4, <1>5

\* The comparison of squares, with its terms named.
LEMMA Measured ==
    ASSUME NEW p1, NEW p2, NEW a1, NEW a2, NEW b1, NEW b2, NEW swath,
           NEW square, square = (b1 - a1) * (b1 - a1) + (b2 - a2) * (b2 - a2), square # 0,
           NEW dot, dot = (p1 - a1) * (b1 - a1) + (p2 - a2) * (b2 - a2),
           NEW part, part = Greatest({0, Least({square, dot})}),
           NEW ex, ex = square * (p1 - a1) - part * (b1 - a1),
           NEW ey, ey = square * (p2 - a2) - part * (b2 - a2),
           4 * (ex * ex + ey * ey) <= swath * swath * square * square
    PROVE  WithinSwath(<<p1, p2>>, <<a1, a2>>, <<b1, b2>>, swath)
  BY Zenon DEF WithinSwath

\* A point beside a segment along the x axis is as far from it as its y
\* coordinate is from that of the segment.
LEMMA BesideX ==
    ASSUME NEW x \in Int, NEW y \in Int, NEW x1 \in Int, NEW x2 \in Int, NEW at \in Int,
           NEW swath \in Nat, x1 < x2, x1 <= x, x <= x2,
           2 * (y - at) <= swath, -(2 * (y - at)) <= swath
    PROVE  WithinSwath(<<x, y>>, <<x1, at>>, <<x2, at>>, swath)
  <1>1. PICK d \in Nat : d = x2 - x1 /\ d > 0
    OBVIOUS
  <1>2. PICK s \in Nat : s = x - x1 /\ s <= d
    BY <1>1
  <1>3. PICK e \in Int : e = y - at
    OBVIOUS
  <1>4. PICK square \in Nat : square = d * d /\ square # 0
    BY <1>1
  <1>5. Greatest({0, Least({square, s * d})}) = s * d
    BY <1>1, <1>2, <1>4, PartOfSegment
  <1>6. 4 * (square * e * (square * e)) <= swath * swath * square * square
    BY <1>3, ScaledSquares
  <1>7. square * s - (s * d) * d = 0
    BY <1>4
  <1>8. /\ square = (x2 - x1) * (x2 - x1) + (at - at) * (at - at)
        /\ s * d = (x - x1) * (x2 - x1) + (y - at) * (at - at)
        /\ 0 = square * (x - x1) - (s * d) * (x2 - x1)
        /\ square * e = square * (y - at) - (s * d) * (at - at)
        /\ 4 * (0 * 0 + square * e * (square * e)) <= swath * swath * square * square
    <2>1. x2 - x1 = d /\ at - at = 0 /\ x - x1 = s /\ y - at = e
      BY <1>1, <1>2, <1>3
    <2>2. /\ square = d * d + 0 * 0 /\ s * d = s * d + e * 0
          /\ 0 = square * s - (s * d) * d
          /\ square * e = square * e - (s * d) * 0
          /\ 0 * 0 + square * e * (square * e) = square * e * (square * e)
      BY <1>4, <1>7
    <2> QED
      BY <1>6, <2>1, <2>2
  <1> QED
    BY <1>4, <1>5, <1>8, Measured

LEMMA BesideY ==
    ASSUME NEW x \in Int, NEW y \in Int, NEW y1 \in Int, NEW y2 \in Int, NEW at \in Int,
           NEW swath \in Nat, y1 < y2, y1 <= y, y <= y2,
           2 * (x - at) <= swath, -(2 * (x - at)) <= swath
    PROVE  WithinSwath(<<x, y>>, <<at, y1>>, <<at, y2>>, swath)
  <1>1. PICK d \in Nat : d = y2 - y1 /\ d > 0
    OBVIOUS
  <1>2. PICK s \in Nat : s = y - y1 /\ s <= d
    BY <1>1
  <1>3. PICK e \in Int : e = x - at
    OBVIOUS
  <1>4. PICK square \in Nat : square = d * d /\ square # 0
    BY <1>1
  <1>5. Greatest({0, Least({square, s * d})}) = s * d
    BY <1>1, <1>2, <1>4, PartOfSegment
  <1>6. 4 * (square * e * (square * e)) <= swath * swath * square * square
    BY <1>3, ScaledSquares
  <1>7. square * s - (s * d) * d = 0
    BY <1>4
  <1>8. /\ square = (at - at) * (at - at) + (y2 - y1) * (y2 - y1)
        /\ s * d = (x - at) * (at - at) + (y - y1) * (y2 - y1)
        /\ square * e = square * (x - at) - (s * d) * (at - at)
        /\ 0 = square * (y - y1) - (s * d) * (y2 - y1)
        /\ 4 * (square * e * (square * e) + 0 * 0) <= swath * swath * square * square
    <2>1. y2 - y1 = d /\ at - at = 0 /\ y - y1 = s /\ x - at = e
      BY <1>1, <1>2, <1>3
    <2>2. /\ square = 0 * 0 + d * d /\ s * d = e * 0 + s * d
          /\ 0 = square * s - (s * d) * d
          /\ square * e = square * e - (s * d) * 0
          /\ square * e * (square * e) + 0 * 0 = square * e * (square * e)
      BY <1>4, <1>7
    <2> QED
      BY <1>6, <2>1, <2>2
  <1> QED
    BY <1>4, <1>5, <1>8, Measured

-----------------------------------------------------------------------------
(* Tracks and boxes. *)

\* A point has no passes if and only if no track covers it.
LEMMA Passes ==
    ASSUME NEW flown \in Seq(Track), NEW p
    PROVE  /\ coveragePasses(p, flown) \in Nat
           /\ coveragePasses(p, flown) = 0 <=> \A k \in DOMAIN flown : ~TrackCovers(flown[k], p)
  <1> DEFINE K == {k \in DOMAIN flown : TrackCovers(flown[k], p)}
  <1>1. DOMAIN flown = 1 .. Len(flown) /\ Len(flown) \in Nat
    OBVIOUS
  <1>2. IsFiniteSet(DOMAIN flown)
    BY <1>1, FS_Interval
  <1>3. IsFiniteSet(K)
    BY <1>2, FS_Subset
  <1>4. coveragePasses(p, flown) = Cardinality(K)
    BY DEF coveragePasses
  <1>5. K = {} <=> \A k \in DOMAIN flown : ~TrackCovers(flown[k], p)
    OBVIOUS
  <1> HIDE DEF K
  <1> QED
    BY <1>3, <1>4, <1>5, FS_CardinalityType, FS_EmptySet

\* A box of cells, of the grid over bounds b.
CellBox(b, bx) ==
    /\ bx \in BoxType
    /\ bx.minX + 2 <= bx.maxX /\ bx.minY + 2 <= bx.maxY
    /\ (bx.minX - b.minX) % 2 = 0 /\ (bx.maxX - b.minX) % 2 = 0
    /\ (bx.minY - b.minY) % 2 = 0 /\ (bx.maxY - b.minY) % 2 = 0

InBox(p, bx) ==
    /\ bx.minX + 1 <= p[1] /\ p[1] <= bx.maxX - 1
    /\ bx.minY + 1 <= p[2] /\ p[2] <= bx.maxY - 1

\* The middle of a box of cells is a whole number.
LEMMA Middle ==
    ASSUME NEW origin0 \in Int, NEW low \in Int, NEW high \in Int, low + 2 <= high,
           (low - origin0) % 2 = 0, (high - origin0) % 2 = 0
    PROVE  /\ (low + high) \div 2 \in Int
           /\ 2 * ((low + high) \div 2) = low + high
  OBVIOUS

\* All centres in a box are within its narrow side, less a cell, of its middle line.
LEMMA SpanBeside ==
    ASSUME NEW low \in Int, NEW high \in Int, low + 2 <= high, NEW mid \in Int,
           2 * mid = low + high, NEW x \in Int, low + 1 <= x, x <= high - 1
    PROVE  LET w == Greatest({1, high - low - 2})
           IN  w \in Nat /\ 2 * (x - mid) <= w /\ -(2 * (x - mid)) <= w
  BY GreatestOfTwo

\* The recommended line, flown with the swath of Resurvey, covers all cells of
\* the box.
LEMMA RecommendedCovers ==
    ASSUME NEW b \in BoxType, NEW bx, CellBox(b, bx), NEW p \in Point, InBox(p, bx)
    PROVE  WithinSwath(p, Recommendation(bx)[1], Recommendation(bx)[2],
                       Greatest({1, NarrowSide(bx) - Res}))
  <1>1. /\ bx.minX \in Int /\ bx.maxX \in Int /\ bx.minY \in Int /\ bx.maxY \in Int
        /\ b.minX \in Int /\ b.minY \in Int
    BY DEF CellBox, BoxType
  <1>2. PICK x \in Int, y \in Int : p = <<x, y>>
    BY DEF Point
  <1>3. /\ bx.minX + 1 <= x /\ x <= bx.maxX - 1
        /\ bx.minY + 1 <= y /\ y <= bx.maxY - 1
    BY <1>2 DEF InBox
  <1>4. NarrowSide(bx) = IF Width(bx) <= Height(bx) THEN Width(bx) ELSE Height(bx)
    BY <1>1, LeastOfTwo DEF NarrowSide, Width, Height
  <1>5. CASE Width(bx) >= Height(bx)
    <2>1. NarrowSide(bx) - Res = bx.maxY - bx.minY - 2
      BY <1>1, <1>4, <1>5 DEF Width, Height, Res
    <2>2. PICK mid \in Int : mid = (bx.minY + bx.maxY) \div 2 /\ 2 * mid = bx.minY + bx.maxY
      BY <1>1, Middle DEF CellBox
    <2>3. LET w == Greatest({1, NarrowSide(bx) - Res})
          IN  w \in Nat /\ 2 * (y - mid) <= w /\ -(2 * (y - mid)) <= w
      BY <1>1, <1>3, <2>1, <2>2, SpanBeside DEF CellBox
    <2>4. /\ Recommendation(bx)[1] = <<bx.minX - 2, mid>>
          /\ Recommendation(bx)[2] = <<bx.maxX + 2, mid>>
      BY <1>5, <2>2 DEF Recommendation, Res
    <2>5. /\ bx.minX - 2 \in Int /\ bx.maxX + 2 \in Int /\ bx.minX - 2 < bx.maxX + 2
          /\ bx.minX - 2 <= x /\ x <= bx.maxX + 2
      BY <1>1, <1>3
    <2>6. PICK w : w = Greatest({1, NarrowSide(bx) - Res})
      OBVIOUS
    <2>7. w \in Nat /\ 2 * (y - mid) <= w /\ -(2 * (y - mid)) <= w
      BY <2>3, <2>6, Zenon
    <2>8. WithinSwath(<<x, y>>, <<bx.minX - 2, mid>>, <<bx.maxX + 2, mid>>, w)
      BY <2>5, <2>7, BesideX
    <2> QED
      BY <1>2, <2>4, <2>6, <2>8, Zenon
  <1>6. CASE ~(Width(bx) >= Height(bx))
    <2>1. NarrowSide(bx) - Res = bx.maxX - bx.minX - 2
      BY <1>1, <1>4, <1>6 DEF Width, Height, Res
    <2>2. PICK mid \in Int : mid = (bx.minX + bx.maxX) \div 2 /\ 2 * mid = bx.minX + bx.maxX
      BY <1>1, Middle DEF CellBox
    <2>3. LET w == Greatest({1, NarrowSide(bx) - Res})
          IN  w \in Nat /\ 2 * (x - mid) <= w /\ -(2 * (x - mid)) <= w
      BY <1>1, <1>3, <2>1, <2>2, SpanBeside DEF CellBox
    <2>4. /\ Recommendation(bx)[1] = <<mid, bx.minY - 2>>
          /\ Recommendation(bx)[2] = <<mid, bx.maxY + 2>>
      BY <1>6, <2>2 DEF Recommendation, Res
    <2>5. /\ bx.minY - 2 \in Int /\ bx.maxY + 2 \in Int /\ bx.minY - 2 < bx.maxY + 2
          /\ bx.minY - 2 <= y /\ y <= bx.maxY + 2
      BY <1>1, <1>3
    <2>6. PICK w : w = Greatest({1, NarrowSide(bx) - Res})
      OBVIOUS
    <2>7. w \in Nat /\ 2 * (x - mid) <= w /\ -(2 * (x - mid)) <= w
      BY <2>3, <2>6, Zenon
    <2>8. WithinSwath(<<x, y>>, <<mid, bx.minY - 2>>, <<mid, bx.maxY + 2>>, w)
      BY <2>5, <2>7, BesideY
    <2> QED
      BY <1>2, <2>4, <2>6, <2>8, Zenon
  <1> QED
    BY <1>5, <1>6

\* A box grows by the cell around p, and no further.
LEMMA StretchedBox ==
    ASSUME NEW old \in BoxType \cup {NoBox}, NEW p \in Point
    PROVE  LET new == Stretched(old, p)
           IN  /\ new \in BoxType
               /\ InBox(p, new)
               /\ new.minX = p[1] - 1 \/ (old # NoBox /\ new.minX = old.minX)
               /\ new.minY = p[2] - 1 \/ (old # NoBox /\ new.minY = old.minY)
               /\ new.maxX = p[1] + 1 \/ (old # NoBox /\ new.maxX = old.maxX)
               /\ new.maxY = p[2] + 1 \/ (old # NoBox /\ new.maxY = old.maxY)
               /\ old # NoBox => /\ new.minX <= old.minX /\ old.maxX <= new.maxX
                                 /\ new.minY <= old.minY /\ old.maxY <= new.maxY
  <1>1. PICK x \in Int, y \in Int : p = <<x, y>>
    BY DEF Point
  <1>2. CASE old = NoBox
    <2>1. Stretched(old, p) = [minX |-> x - 1, minY |-> y - 1, maxX |-> x + 1, maxY |-> y + 1]
      BY <1>1, <1>2 DEF Stretched
    <2> QED
      BY <1>1, <1>2, <2>1 DEF InBox, BoxType
  <1>3. CASE old # NoBox
    <2>1. /\ old.minX \in Int /\ old.minY \in Int /\ old.maxX \in Int /\ old.maxY \in Int
      BY <1>3 DEF BoxType
    <2>2. Stretched(old, p) = [minX |-> IF old.minX <= x - 1 THEN old.minX ELSE x - 1,
                               minY |-> IF old.minY <= y - 1 THEN old.minY ELSE y - 1,
                               maxX |-> IF old.maxX <= x + 1 THEN x + 1 ELSE old.maxX,
                               maxY |-> IF old.maxY <= y + 1 THEN y + 1 ELSE old.maxY]
      BY <1>1, <1>3, <2>1, LeastOfTwo, GreatestOfTwo DEF Stretched
    <2> QED
      BY <1>1, <1>3, <2>1, <2>2 DEF InBox, BoxType
  <1> QED
    BY <1>2, <1>3

-----------------------------------------------------------------------------
(* The invariant, and the actions that start or end a detection. *)

Size == Columns(boundary) * Rows(boundary)

\* Cell n has its centre inside the boundary and on no track.
Uncovered(n) ==
    LET p == Centre(boundary, n) IN
    /\ polygonContains(boundary, p)
    /\ \A k \in DOMAIN tracks : ~TrackCovers(tracks[k], p)

Scanned == status \in {"scanning", "reported"}

Kinds == tracks \in Seq(Track) /\ box \in BoxType \cup {NoBox}

Valid == status \in {"planned", "scanning", "reported"} => ValidPolygon(boundary)

InGrid == Scanned => /\ Size <= MaxCells
                     /\ cell <= Size
                     /\ status = "reported" => cell = Size

Origins == /\ status = "idle" => origin = "given"
           /\ status = "planned" => origin = "planned"

\* The box holds every uncovered cell that has been visited.
GapInBox ==
    Scanned => \A n \in 0 .. cell - 1 :
                   Uncovered(n) => box # NoBox /\ InBox(Centre(boundary, n), box)

\* An uncovered cell lies at the left of the box and one at the bottom.
BoxTight ==
    Scanned /\ box # NoBox =>
        /\ CellBox(polygonBounds(boundary), box)
        /\ \E n \in 0 .. cell - 1 : Uncovered(n) /\ Centre(boundary, n)[1] = box.minX + 1
        /\ \E n \in 0 .. cell - 1 : Uncovered(n) /\ Centre(boundary, n)[2] = box.minY + 1

\* With the track of the recommended line no cell of the grid is uncovered.
Closed == Scanned /\ origin = "recommended" => \A n \in 0 .. Size - 1 : ~Uncovered(n)

\* One track along the lines that are generated over bounds b.
DrawnOver(b, flown) ==
    \E heading \in Heading, spacing \in Spacing :
        LET lines == GeneratedLines(b, heading, spacing)
        IN  lines # <<>> /\ flown = <<[lines |-> lines, swath |-> spacing]>>

\* The track of a plan is along its lines.
Planned ==
    status \in {"planned", "scanning", "reported"} /\ origin = "planned" =>
        DrawnOver(polygonBounds(boundary), tracks)

Inv == TypeOK /\ Kinds /\ Valid /\ InGrid /\ Origins /\ GapInBox /\ BoxTight /\ Closed /\ Planned

\* The invariant holds initially.
LEMMA InitInv == Init => Inv
  BY MaxCellsAssumption DEF Init, Inv, TypeOK, Kinds, Valid, InGrid, Origins, GapInBox, BoxTight,
     Closed, Planned, Scanned

\* What a detection starts with.
LEMMA StartInv ==
    ASSUME Inv, NEW flown \in Seq(Track), StartDetection(flown), boundary' = boundary,
           origin' \in {"given", "planned", "recommended"},
           origin' = "planned" => status = "planned" /\ flown = tracks,
           origin' = "recommended" => (status' = "scanning" => Closed')
    PROVE  Inv'
  <1>1. /\ tracks' = flown /\ cell' = 0 /\ inside' = 0 /\ covered' = 0 /\ overlap' = 0
        /\ box' = NoBox
        /\ status' \in {"scanning", "GEOJSON_INVALID", "NO_TRACKS", "TOO_LARGE"}
    BY DEF StartDetection, DetectError
  <1>2. ASSUME status' = "scanning"
        PROVE  ValidPolygon(boundary) /\ Size <= MaxCells
    <2>1. DetectError(boundary, flown) = "none"
      BY <1>2 DEF StartDetection, DetectError
    <2>2. boundary \in Seq(Seq(Point)) \ {<<>>}
      BY BoundaryAssumption DEF Inv, TypeOK
    <2>3. ValidPolygon(boundary) /\ ~(Size > MaxCells)
      BY <2>1 DEF DetectError, Size
    <2> QED
      BY <2>2, <2>3, GridSize, MaxCellsAssumption DEF Size
  <1>3. ASSUME status' = "scanning"
        PROVE  Size' = Size /\ Size \in Nat
    <2>1. boundary \in Seq(Seq(Point)) \ {<<>>}
      BY BoundaryAssumption DEF Inv, TypeOK
    <2> QED
      BY <1>2, <1>3, <2>1, GridSize DEF Size
  <1>4. TypeOK' /\ Kinds'
    BY <1>1, MaxCellsAssumption DEF Inv, TypeOK, Kinds
  <1>5. Valid' /\ Origins'
    BY <1>1, <1>2 DEF Valid, Origins
  <1>6. InGrid'
    BY <1>1, <1>2, <1>3 DEF InGrid, Scanned
  <1>7. GapInBox' /\ BoxTight'
    BY <1>1 DEF GapInBox, BoxTight
  <1>8. Closed'
    BY <1>1 DEF Closed, Scanned
  <1>9. Planned'
    BY <1>1 DEF Inv, Origins, Planned
  <1> QED
    BY <1>4, <1>5, <1>6, <1>7, <1>8, <1>9 DEF Inv

LEMMA DetectInv ==
    ASSUME Inv, NEW flown \in Flown, Detect(flown)
    PROVE  Inv'
  <1>1. origin' = "given" /\ flown \in Seq(Track)
    BY FlownAssumption DEF Detect, Inv, Origins
  <1> QED
    BY <1>1, StartInv DEF Detect

LEMMA DetectPlannedInv ==
    ASSUME Inv, DetectPlanned
    PROVE  Inv'
  <1>1. origin' = "planned" /\ tracks \in Seq(Track)
    BY DEF DetectPlanned, Inv, Origins, Kinds
  <1> QED
    BY <1>1, StartInv DEF DetectPlanned

LEMMA AgainInv ==
    ASSUME Inv, Again
    PROVE  Inv'
  BY MaxCellsAssumption DEF Again, Inv, TypeOK, Kinds, Valid, InGrid, Origins, GapInBox, BoxTight,
     Closed, Planned, Scanned

LEMMA ReportInv ==
    ASSUME Inv, Report
    PROVE  Inv'
  <1>1. /\ status' \in {"NO_CELLS", "reported"} /\ status = "scanning" /\ cell = Size
        /\ UNCHANGED <<boundary, tracks, origin, cell, inside, covered, overlap, box>>
    BY DEF Report, Size
  <1>2. TypeOK' /\ Kinds' /\ Valid' /\ Origins' /\ Planned'
    BY <1>1 DEF Inv, TypeOK, Kinds, Valid, Origins, Planned
  <1>3. InGrid'
    BY <1>1 DEF Inv, InGrid, Scanned, Size
  <1>4. GapInBox' /\ BoxTight' /\ Closed'
    BY <1>1 DEF Inv, GapInBox, BoxTight, Closed, Scanned, Size, Uncovered
  <1> QED
    BY <1>2, <1>3, <1>4 DEF Inv

LEMMA StutterInv ==
    ASSUME Inv, UNCHANGED vars
    PROVE  Inv'
  BY DEF vars, Inv, TypeOK, Kinds, Valid, InGrid, Origins, GapInBox, BoxTight, Closed, Planned,
     Scanned, Size, Uncovered

-----------------------------------------------------------------------------
(* The loop over the cells. *)

\* What is known of the grid while its cells are visited.
LEMMA ScanFacts ==
    ASSUME Inv, Scanned
    PROVE  /\ boundary \in Seq(Seq(Point)) \ {<<>>} /\ ValidPolygon(boundary)
           /\ polygonBounds(boundary) \in BoxType
           /\ Size \in Nat /\ Size <= MaxCells
           /\ cell \in Nat /\ cell <= Size
  <1>1. boundary \in Seq(Seq(Point)) \ {<<>>} /\ ValidPolygon(boundary)
    BY BoundaryAssumption DEF Inv, TypeOK, Valid, Scanned
  <1> QED
    BY <1>1, GridSize, BoundsType, MaxCellsAssumption DEF Inv, InGrid, TypeOK, Size

\* Where the centre of a cell of the grid lies.
LEMMA CellPoint ==
    ASSUME Inv, Scanned, NEW n \in Nat, n < Size
    PROVE  LET b == polygonBounds(boundary)
               p == Centre(boundary, n)
           IN  /\ p \in Point
               /\ b.minX < p[1] /\ p[1] <= b.maxX
               /\ b.minY < p[2] /\ p[2] <= b.maxY
               /\ (p[1] - b.minX) % 2 = 1 /\ (p[2] - b.minY) % 2 = 1
  BY ScanFacts, CentreInBounds DEF Size

\* A box of cells that grows by a cell is a box of cells.
LEMMA StretchedCellBox ==
    ASSUME NEW b \in BoxType, NEW old \in BoxType \cup {NoBox}, NEW p \in Point,
           old # NoBox => CellBox(b, old),
           (p[1] - b.minX) % 2 = 1, (p[2] - b.minY) % 2 = 1
    PROVE  CellBox(b, Stretched(old, p))
  <1>1. PICK x \in Int, y \in Int : p = <<x, y>>
    BY DEF Point
  <1>2. PICK new : new = Stretched(old, p)
    OBVIOUS
  <1>3. /\ new \in BoxType
        /\ new.minX + 1 <= x /\ x <= new.maxX - 1
        /\ new.minY + 1 <= y /\ y <= new.maxY - 1
        /\ new.minX = x - 1 \/ (old # NoBox /\ new.minX = old.minX)
        /\ new.minY = y - 1 \/ (old # NoBox /\ new.minY = old.minY)
        /\ new.maxX = x + 1 \/ (old # NoBox /\ new.maxX = old.maxX)
        /\ new.maxY = y + 1 \/ (old # NoBox /\ new.maxY = old.maxY)
    BY <1>1, <1>2, StretchedBox DEF InBox
  <1>4. /\ b.minX \in Int /\ b.minY \in Int
        /\ new.minX \in Int /\ new.minY \in Int /\ new.maxX \in Int /\ new.maxY \in Int
    BY <1>3 DEF BoxType
  <1>5. (x - b.minX) % 2 = 1 /\ (y - b.minY) % 2 = 1
    BY <1>1
  <1>6. (x - 1 - b.minX) % 2 = 0 /\ ((x + 1) - b.minX) % 2 = 0
    BY <1>4, <1>5
  <1>7. (y - 1 - b.minY) % 2 = 0 /\ ((y + 1) - b.minY) % 2 = 0
    BY <1>4, <1>5
  <1>8. /\ (new.minX - b.minX) % 2 = 0 /\ (new.maxX - b.minX) % 2 = 0
        /\ (new.minY - b.minY) % 2 = 0 /\ (new.maxY - b.minY) % 2 = 0
    <2>1. (new.minX - b.minX) % 2 = 0
      BY <1>3, <1>6, Zenon DEF CellBox
    <2>2. (new.maxX - b.minX) % 2 = 0
      <3>1. CASE new.maxX = x + 1
        BY <1>6, <3>1
      <3>2. CASE old # NoBox /\ new.maxX = old.maxX
        BY <3>2 DEF CellBox
      <3> QED
        BY <1>3, <3>1, <3>2
    <2>3. (new.minY - b.minY) % 2 = 0
      BY <1>3, <1>7, Zenon DEF CellBox
    <2>4. (new.maxY - b.minY) % 2 = 0
      <3>1. CASE new.maxY = y + 1
        BY <1>7, <3>1
      <3>2. CASE old # NoBox /\ new.maxY = old.maxY
        BY <3>2 DEF CellBox
      <3> QED
        BY <1>3, <3>1, <3>2
    <2> QED
      BY <2>1, <2>2, <2>3, <2>4
  <1>9. new.minX + 2 <= new.maxX /\ new.minY + 2 <= new.maxY
    BY <1>3, <1>4
  <1> QED
    BY <1>2, <1>3, <1>8, <1>9 DEF CellBox

\* A visited cell extends the box if and only if it is inside and uncovered.
LEMMA VisitInv ==
    ASSUME Inv, Visit
    PROVE  Inv'
  <1> DEFINE p == Centre(boundary, cell)
             b == polygonBounds(boundary)
  <1>1. /\ status = "scanning" /\ cell < Size /\ cell' = cell + 1 /\ Scanned
        /\ UNCHANGED <<status, boundary, tracks, origin>>
    BY DEF Visit, Size, Scanned
  <1>2. /\ b \in BoxType /\ Size \in Nat /\ Size <= MaxCells /\ cell \in Nat
        /\ boundary' = boundary
    BY <1>1, ScanFacts
  <1>3. p \in Point /\ (p[1] - b.minX) % 2 = 1 /\ (p[2] - b.minY) % 2 = 1
    BY <1>1, <1>2, CellPoint
  <1>4. /\ Size' = Size /\ Scanned' /\ b' = b
        /\ \A n : Uncovered(n)' <=> Uncovered(n)
        /\ \A n : Centre(boundary, n)' = Centre(boundary, n)
    BY <1>1 DEF Size, Scanned, Uncovered
  <1>5. tracks \in Seq(Track)
    BY DEF Inv, Kinds
  <1>6. Uncovered(cell) <=> polygonContains(boundary, p) /\ coveragePasses(p, tracks) = 0
    BY <1>5, Passes DEF Uncovered
  <1>7. coveragePasses(p, tracks) \in Nat
    BY <1>5, Passes
  <1>8. box' = IF Uncovered(cell) THEN Stretched(box, p) ELSE box
    BY <1>6 DEF Visit
  <1>9. box \in BoxType \cup {NoBox} /\ NoBox \notin BoxType
    BY NoBoxAssumption DEF Inv, Kinds, BoxType
  <1>10. Stretched(box, p) \in BoxType
    BY <1>3, <1>9, StretchedBox
  <1>11. Kinds'
    BY <1>1, <1>8, <1>9, <1>10 DEF Inv, Kinds
  <1>12. TypeOK'
    <2>1. cell' \in 0 .. MaxCells
      BY <1>1, <1>2, MaxCellsAssumption
    <2>2. CASE ~polygonContains(boundary, p)
      BY <1>1, <1>2, <2>1, <2>2, MaxCellsAssumption DEF Visit, Inv, TypeOK
    <2>3. CASE polygonContains(boundary, p)
      <3>1. /\ inside' = inside + 1
            /\ covered' = IF coveragePasses(p, tracks) > 0 THEN covered + 1 ELSE covered
            /\ overlap' = IF coveragePasses(p, tracks) > 1 THEN overlap + 1 ELSE overlap
            /\ box' = IF coveragePasses(p, tracks) = 0 THEN Stretched(box, p) ELSE box
        BY <2>3 DEF Visit
      <3>2. /\ inside' \in 0 .. MaxCells /\ covered' \in 0 .. MaxCells
            /\ overlap' \in 0 .. MaxCells
            /\ overlap' <= covered' /\ covered' <= inside' /\ inside' <= cell'
            /\ coveragePasses(p, tracks) > 0 => (covered' = inside' <=> covered = inside)
            /\ coveragePasses(p, tracks) = 0 => covered' # inside'
        BY <1>1, <1>2, <1>7, <2>1, <3>1, MaxCellsAssumption DEF Inv, TypeOK
      <3>3. box' = NoBox <=> covered' = inside'
        BY <1>7, <1>9, <1>10, <3>1, <3>2 DEF Inv, TypeOK
      <3> QED
        BY <1>1, <2>1, <3>2, <3>3 DEF Inv, TypeOK
    <2> QED
      BY <2>2, <2>3
  <1>13. Valid' /\ Origins' /\ Planned'
    BY <1>1 DEF Inv, Valid, Origins, Planned
  <1>14. InGrid'
    BY <1>1, <1>2, <1>4 DEF Inv, InGrid
  <1>15. Closed'
    BY <1>1, <1>4 DEF Inv, Closed
  <1>16. GapInBox'
    <2> SUFFICES ASSUME NEW n \in 0 .. cell', Uncovered(n), n < cell'
                 PROVE  box' # NoBox /\ InBox(Centre(boundary, n), box')
      BY <1>1, <1>2, <1>4 DEF GapInBox
    <2>1. CASE n = cell
      BY <1>3, <1>8, <1>9, <1>10, <2>1, StretchedBox
    <2>2. CASE n # cell
      <3>1. n \in 0 .. cell - 1 /\ n < Size
        BY <1>1, <1>2, <2>2
      <3>2. box # NoBox /\ InBox(Centre(boundary, n), box)
        BY <1>1, <3>1 DEF Inv, GapInBox
      <3>3. PICK x \in Int, y \in Int : Centre(boundary, n) = <<x, y>>
        BY <1>1, <3>1, CellPoint DEF Point
      <3>4. CASE box' = box
        BY <3>2, <3>4
      <3>5. CASE box' = Stretched(box, p)
        <4>1. /\ box' \in BoxType /\ box \in BoxType
              /\ box'.minX <= box.minX /\ box.maxX <= box'.maxX
              /\ box'.minY <= box.minY /\ box.maxY <= box'.maxY
          BY <1>3, <1>9, <3>2, <3>5, StretchedBox
        <4>2. InBox(<<x, y>>, box')
          BY <3>2, <3>3, <4>1 DEF InBox, BoxType
        <4> QED
          BY <1>9, <3>3, <4>1, <4>2
      <3> QED
        BY <1>8, <3>4, <3>5
    <2> QED
      BY <2>1, <2>2
  <1>17. BoxTight'
    <2>1. CASE ~Uncovered(cell)
      <3>1. box' = box /\ 0 .. cell - 1 \subseteq 0 .. cell' - 1
        BY <1>1, <1>2, <1>8, <2>1
      <3> QED
        BY <1>1, <1>4, <3>1 DEF Inv, BoxTight
    <2>2. CASE Uncovered(cell)
      <3>1. box' = Stretched(box, p) /\ box # NoBox => BoxTight
        BY <1>8, <2>2 DEF Inv
      <3>2. box # NoBox => CellBox(b, box)
        BY <1>1 DEF Inv, BoxTight
      <3>3. CellBox(b, box')
        BY <1>2, <1>3, <1>8, <1>9, <2>2, <3>2, StretchedCellBox
      <3>4. /\ box'.minX = p[1] - 1 \/ (box # NoBox /\ box'.minX = box.minX)
            /\ box'.minY = p[2] - 1 \/ (box # NoBox /\ box'.minY = box.minY)
        BY <1>3, <1>8, <1>9, <2>2, StretchedBox
      <3>5. cell \in 0 .. cell' - 1 /\ 0 .. cell - 1 \subseteq 0 .. cell' - 1
        BY <1>1, <1>2
      <3>6. p[1] \in Int /\ p[2] \in Int
        BY <1>3 DEF Point
      <3>7. \E n \in 0 .. cell' - 1 : Uncovered(n) /\ Centre(boundary, n)[1] = box'.minX + 1
        <4>1. CASE box'.minX = p[1] - 1
          BY <2>2, <3>5, <3>6, <4>1
        <4>2. CASE box # NoBox /\ box'.minX = box.minX
          BY <1>1, <3>5, <4>2 DEF Inv, BoxTight
        <4> QED
          BY <3>4, <4>1, <4>2
      <3>8. \E n \in 0 .. cell' - 1 : Uncovered(n) /\ Centre(boundary, n)[2] = box'.minY + 1
        <4>1. CASE box'.minY = p[2] - 1
          BY <2>2, <3>5, <3>6, <4>1
        <4>2. CASE box # NoBox /\ box'.minY = box.minY
          BY <1>1, <3>5, <4>2 DEF Inv, BoxTight
        <4> QED
          BY <3>4, <4>1, <4>2
      <3> QED
        BY <1>4, <3>3, <3>7, <3>8 DEF BoxTight
    <2> QED
      BY <2>1, <2>2
  <1> QED
    BY <1>11, <1>12, <1>13, <1>14, <1>15, <1>16, <1>17 DEF Inv

-----------------------------------------------------------------------------
(* The recommended line. *)

\* The recommendation is a line of two points.
LEMMA RecommendedLine ==
    ASSUME NEW b \in BoxType, NEW bx, CellBox(b, bx)
    PROVE  Recommendation(bx) \in Seq(Point) /\ Len(Recommendation(bx)) = 2
  <1> DEFINE x == (bx.minX + bx.maxX) \div 2
             y == (bx.minY + bx.maxY) \div 2
  <1>1. /\ bx.minX \in Int /\ bx.maxX \in Int /\ bx.minY \in Int /\ bx.maxY \in Int
        /\ b.minX \in Int /\ b.minY \in Int
    BY DEF CellBox, BoxType
  <1>2. x \in Int /\ y \in Int
    BY <1>1, Middle DEF CellBox
  <1>3. /\ <<bx.minX - Res, y>> \in Point /\ <<bx.maxX + Res, y>> \in Point
        /\ <<x, bx.minY - Res>> \in Point /\ <<x, bx.maxY + Res>> \in Point
    BY <1>1, <1>2 DEF Res, Point
  <1>4. Recommendation(bx) = IF Width(bx) >= Height(bx)
                             THEN <<<<bx.minX - Res, y>>, <<bx.maxX + Res, y>>>>
                             ELSE <<<<x, bx.minY - Res>>, <<x, bx.maxY + Res>>>>
    BY DEF Recommendation
  <1>5. ASSUME NEW p \in Point, NEW q \in Point
        PROVE  <<p, q>> \in Seq(Point) /\ Len(<<p, q>>) = 2
    OBVIOUS
  <1> HIDE DEF x, y
  <1>6. CASE Width(bx) >= Height(bx)
    BY <1>3, <1>4, <1>5, <1>6
  <1>7. CASE ~(Width(bx) >= Height(bx))
    BY <1>3, <1>4, <1>5, <1>7
  <1> QED
    BY <1>6, <1>7

\* What is flown after a recommendation is a track.
LEMMA RecommendedTrack ==
    ASSUME NEW b \in BoxType, NEW bx, CellBox(b, bx)
    PROVE  [lines |-> <<Recommendation(bx)>>,
            swath |-> Greatest({1, NarrowSide(bx) - Res})] \in Track
  <1>1. /\ bx.minX \in Int /\ bx.maxX \in Int /\ bx.minY \in Int /\ bx.maxY \in Int
        /\ b.minX \in Int /\ b.minY \in Int
    BY DEF CellBox, BoxType
  <1>2. NarrowSide(bx) \in Int
    BY <1>1, LeastOfTwo DEF NarrowSide, Width, Height
  <1>3. Greatest({1, NarrowSide(bx) - Res}) \in Nat
    BY <1>2, GreatestOfTwo DEF Res
  <1>5. Recommendation(bx) \in Seq(Point)
    BY RecommendedLine
  <1> QED
    BY <1>3, <1>5 DEF Track

\* The recommended line covers the uncovered cells, which are all in the box.
LEMMA ResurveyInv ==
    ASSUME Inv, Resurvey
    PROVE  Inv'
  <1> DEFINE t == [lines |-> <<Recommendation(box)>>,
                   swath |-> Greatest({1, NarrowSide(box) - Res})]
             b == polygonBounds(boundary)
  <1>1. /\ status = "reported" /\ Scanned /\ box # NoBox /\ boundary' = boundary
        /\ origin' = "recommended" /\ StartDetection(Append(tracks, t))
    BY DEF Resurvey, Scanned
  <1>2. b \in BoxType /\ CellBox(b, box)
    BY <1>1, ScanFacts DEF Inv, BoxTight
  <1>3. t \in Track
    BY <1>2, RecommendedTrack
  <1>4. tracks \in Seq(Track) /\ Append(tracks, t) \in Seq(Track)
    BY <1>3 DEF Inv, Kinds
  <1>5. tracks' = Append(tracks, t)
    BY <1>1 DEF StartDetection
  <1>6. Size \in Nat /\ cell = Size /\ Size' = Size
    BY <1>1, ScanFacts DEF Inv, InGrid, Size
  <1>7. ASSUME NEW n \in 0 .. Size - 1, Uncovered(n)'
        PROVE  FALSE
    <2> DEFINE p == Centre(boundary, n)
    <2>1. /\ polygonContains(boundary, p)
          /\ \A k \in DOMAIN Append(tracks, t) : ~TrackCovers(Append(tracks, t)[k], p)
      BY <1>1, <1>5, <1>7 DEF Uncovered
    <2>2. /\ DOMAIN Append(tracks, t) = 1 .. Len(tracks) + 1
          /\ Append(tracks, t)[Len(tracks) + 1] = t
          /\ DOMAIN tracks = 1 .. Len(tracks) /\ Len(tracks) \in Nat
          /\ \A k \in DOMAIN tracks : Append(tracks, t)[k] = tracks[k]
      BY <1>3, <1>4
    <2>3. Uncovered(n)
      BY <2>1, <2>2 DEF Uncovered
    <2>4. InBox(p, box)
      BY <1>1, <1>6, <2>3 DEF Inv, GapInBox
    <2>5. p \in Point
      BY <1>1, <1>6, <1>7, CellPoint
    <2>6. WithinSwath(p, Recommendation(box)[1], Recommendation(box)[2], t.swath)
      BY <1>2, <2>4, <2>5, RecommendedCovers
    <2>7. Recommendation(box) \in Seq(Point) /\ Len(Recommendation(box)) = 2
      BY <1>2, RecommendedLine
    <2>8. TrackCovers(t, p)
      <3>1. t.lines = <<Recommendation(box)>>
        OBVIOUS
      <3>2. 1 \in DOMAIN t.lines /\ t.lines[1] = Recommendation(box)
        BY <3>1
      <3>3. 2 \in 2 .. Len(t.lines[1]) /\ t.lines[1][2 - 1] = Recommendation(box)[1]
        BY <2>7, <3>2
      <3> HIDE DEF t
      <3> QED
        BY <2>6, <3>2, <3>3 DEF TrackCovers
    <2> HIDE DEF p, t
    <2> QED
      BY <2>1, <2>2, <2>8
  <1>8. Closed'
    BY <1>6, <1>7 DEF Closed
  <1> HIDE DEF t
  <1> QED
    BY <1>1, <1>4, <1>8, StartInv

-----------------------------------------------------------------------------
(* The lines of a plan. *)

\* A set of natural numbers with x0 has a least one, at most x0.
LEMMA LeastNumber ==
    ASSUME NEW S, S \subseteq Nat, NEW x0 \in S
    PROVE  \E m \in S : m <= x0 /\ \A k \in S : m <= k
  <1> DEFINE T == {x \in S : x <= x0}
  <1>1. x0 \in Nat /\ T \subseteq 0 .. x0
    <2>1. x0 \in Nat
      OBVIOUS
    <2>2. ASSUME NEW x \in T
          PROVE  x \in 0 .. x0
      <3>1. x \in Nat /\ x <= x0
        OBVIOUS
      <3> QED
        BY <2>1, <3>1
    <2> QED
      BY <2>1, <2>2
  <1>2. IsFiniteSet(0 .. x0)
    BY <1>1, FS_Interval
  <1>3. T # {} /\ IsFiniteSet(T) /\ T \subseteq Int
    BY <1>1, <1>2, FS_Subset
  <1>4. PICK m \in T : \A k \in T : m <= k
    <2> HIDE DEF T
    <2> QED
      BY <1>3, HasLeast
  <1>5. \A k \in S : m <= k
    BY <1>4
  <1> QED
    BY <1>4, <1>5

\* The loop that draws the lines: it stops at the first one at or beyond the
\* far edge.
LEMMA NumberOfLines ==
    ASSUME NEW span \in Nat, NEW first \in Nat \ {0}, NEW spacing \in Nat \ {0}
    PROVE  \E m \in Nat :
               /\ Cardinality({k \in 0 .. span : first + k * spacing < span}) = m
               /\ \A k \in Nat : k < m <=> first + k * spacing < span
  <1> DEFINE S == {k \in Nat : ~(first + k * spacing < span)}
  <1>1. span \in S
    <2>1. span * spacing >= span
      OBVIOUS
    <2> QED
      BY <2>1
  <1>2. PICK m \in S : m <= span /\ \A k \in S : m <= k
    <2> HIDE DEF S
    <2>1. S \subseteq Nat
      BY DEF S
    <2> QED
      BY <1>1, <2>1, LeastNumber
  <1>3. m \in Nat /\ ~(first + m * spacing < span)
    BY <1>2
  <1>4. ASSUME NEW k \in Nat
        PROVE  k < m <=> first + k * spacing < span
    <2>1. CASE k < m
      BY <1>2, <1>3, <2>1
    <2>2. CASE m <= k
      <3>1. PICK d \in Nat : k = m + d
        BY <1>3, <2>2
      <3>2. PICK ds \in Nat : ds = d * spacing
        BY <3>1
      <3>3. k * spacing = m * spacing + ds
        BY <1>3, <3>1, <3>2
      <3>4. PICK ms \in Nat : ms = m * spacing
        BY <1>3
      <3> QED
        BY <1>3, <2>2, <3>2, <3>3, <3>4
    <2> QED
      BY <1>3, <2>1, <2>2
  <1>5. {k \in 0 .. span : first + k * spacing < span} = 0 .. m - 1
    <2>1. ASSUME NEW k \in 0 .. span, first + k * spacing < span
          PROVE  k \in 0 .. m - 1
      BY <1>3, <1>4, <2>1
    <2>2. ASSUME NEW k \in 0 .. m - 1
          PROVE  k \in 0 .. span /\ first + k * spacing < span
      <3>1. k \in Nat /\ k < m /\ m <= span
        BY <1>2, <1>3
      <3> QED
        BY <1>3, <1>4, <3>1
    <2> HIDE DEF S
    <2> QED
      BY <2>1, <2>2
  <1>6. Cardinality(0 .. m - 1) = m
    BY <1>3, FS_Interval
  <1> QED
    BY <1>3, <1>4, <1>5, <1>6

\* The line across bounds b that is at away from their near edge.
LineAcross(b, heading, away) ==
    IF Horizontal(heading)
    THEN <<<<b.minX, b.minY + away>>, <<b.maxX, b.minY + away>>>>
    ELSE <<<<b.minX + away, b.minY>>, <<b.minX + away, b.maxY>>>>

Span(b, heading) == IF Horizontal(heading) THEN Height(b) ELSE Width(b)

\* What is drawn: m lines, half a spacing from the near edge and a spacing from
\* each other, up to the far edge.
Drawn(b, heading, spacing, h, m) ==
    /\ spacing = 2 * h /\ spacing \div 2 = h
    /\ \A k \in Nat : k < m <=> h + k * spacing < Span(b, heading)
    /\ GeneratedLines(b, heading, spacing) =
           [k \in 1 .. m |-> LineAcross(b, heading, h + (k - 1) * spacing)]

LEMMA LinesDrawn ==
    ASSUME NEW b \in BoxType, b.minX <= b.maxX, b.minY <= b.maxY, NEW heading,
           NEW spacing \in Spacing
    PROVE  \E h \in Nat \ {0}, m \in Nat : Drawn(b, heading, spacing, h, m)
  <1>1. spacing \in Nat \ {0} /\ spacing % 2 = 0
    BY SpacingAssumption
  <1>2. PICK h \in Nat \ {0} : spacing = 2 * h /\ spacing \div 2 = h
    BY <1>1
  <1>3. PICK span \in Nat : span = Span(b, heading)
    BY DEF Span, Height, Width, BoxType
  <1>4. PICK m \in Nat : /\ Cardinality({k \in 0 .. span : h + k * spacing < span}) = m
                         /\ \A k \in Nat : k < m <=> h + k * spacing < span
    BY <1>1, NumberOfLines
  <1>5. FirstLine(spacing) = h
    BY <1>2 DEF FirstLine
  <1>6. GeneratedLines(b, heading, spacing) =
            [k \in 1 .. Cardinality({k \in 0 .. span : h + k * spacing < span}) |->
                LineAcross(b, heading, h + (k - 1) * spacing)]
    BY <1>3, <1>5, Zenon DEF GeneratedLines, LineAcross, Span
  <1> QED
    BY <1>2, <1>3, <1>4, <1>6, Zenon DEF Drawn

\* A generated line is a sequence of two points.
LEMMA LineAcrossType ==
    ASSUME NEW b \in BoxType, NEW heading, NEW away \in Int
    PROVE  LineAcross(b, heading, away) \in Seq(Point)
  <1>1. /\ b.minX \in Int /\ b.maxX \in Int /\ b.minY \in Int /\ b.maxY \in Int
    BY DEF BoxType
  <1>2. ASSUME NEW p \in Point, NEW q \in Point
        PROVE  <<p, q>> \in Seq(Point)
    OBVIOUS
  <1>3. /\ <<b.minX, b.minY + away>> \in Point /\ <<b.maxX, b.minY + away>> \in Point
        /\ <<b.minX + away, b.minY>> \in Point /\ <<b.minX + away, b.maxY>> \in Point
    BY <1>1 DEF Point
  <1>4. CASE Horizontal(heading)
    BY <1>2, <1>3, <1>4 DEF LineAcross
  <1>5. CASE ~Horizontal(heading)
    BY <1>2, <1>3, <1>5 DEF LineAcross
  <1> QED
    BY <1>4, <1>5

\* The generated lines are m lines.
LEMMA LinesType ==
    ASSUME NEW b \in BoxType, NEW heading, NEW spacing \in Nat,
           NEW h \in Nat \ {0}, NEW m \in Nat, Drawn(b, heading, spacing, h, m)
    PROVE  /\ GeneratedLines(b, heading, spacing) \in Seq(Seq(Point))
           /\ Len(GeneratedLines(b, heading, spacing)) = m
  <1>1. PICK lines : lines = GeneratedLines(b, heading, spacing)
    OBVIOUS
  <1>2. lines = [k \in 1 .. m |-> LineAcross(b, heading, h + (k - 1) * spacing)]
    BY <1>1 DEF Drawn
  <1>3. ASSUME NEW k \in 1 .. m
        PROVE  LineAcross(b, heading, h + (k - 1) * spacing) \in Seq(Point)
    BY LineAcrossType
  <1>4. lines \in [1 .. m -> Seq(Point)]
    BY <1>2, <1>3
  <1>5. lines \in Seq(Seq(Point)) /\ Len(lines) = m
    BY <1>4
  <1> QED
    BY <1>1, <1>5

\* A generated plan is a track along the lines drawn over the bounds.
LEMMA GeneratePlanInv ==
    ASSUME Inv, NEW heading \in Heading, NEW spacing \in Spacing, GeneratePlan(heading, spacing)
    PROVE  Inv'
  <1> DEFINE b == polygonBounds(boundary)
             lines == GeneratedLines(b, heading, spacing)
             t == [lines |-> lines, swath |-> spacing]
  <1>1. /\ status = "idle"
        /\ UNCHANGED <<boundary, cell, inside, covered, overlap, box>>
    BY DEF GeneratePlan
  <1>2. \/ /\ status' \in {"GEOJSON_INVALID", "LINE_SPACING_INVALID", "NO_TRANSECTS"}
           /\ UNCHANGED <<tracks, origin>>
        \/ /\ status' = "planned" /\ ValidPolygon(boundary) /\ lines # <<>>
           /\ tracks' = <<t>> /\ origin' = "planned"
    BY DEF GeneratePlan
  <1> HIDE DEF b, lines, t
  <1>3. CASE /\ status' \in {"GEOJSON_INVALID", "LINE_SPACING_INVALID", "NO_TRANSECTS"}
             /\ UNCHANGED <<tracks, origin>>
    BY <1>1, <1>3 DEF Inv, TypeOK, Kinds, Valid, InGrid, Origins, GapInBox, BoxTight, Closed,
       Planned, Scanned
  <1>4. CASE /\ status' = "planned" /\ ValidPolygon(boundary) /\ lines # <<>>
             /\ tracks' = <<t>> /\ origin' = "planned"
    <2>1. boundary \in Seq(Seq(Point)) \ {<<>>}
      BY BoundaryAssumption DEF Inv, TypeOK
    <2>2. b \in BoxType /\ b.minX <= b.maxX /\ b.minY <= b.maxY
      BY <1>4, <2>1, BoundsType DEF b
    <2>3. lines \in Seq(Seq(Point)) /\ spacing \in Nat
      BY <2>2, LinesDrawn, LinesType, SpacingAssumption DEF lines
    <2>4. t \in Track
      BY <2>3 DEF t, Track
    <2>5. tracks' \in Seq(Track)
      BY <1>4, <2>4
    <2>6. DrawnOver(b, tracks')
      BY <1>4 DEF DrawnOver, t, lines
    <2>7. polygonBounds(boundary') = b
      BY <1>1 DEF b
    <2>8. TypeOK' /\ Kinds' /\ Valid' /\ Origins'
      BY <1>1, <1>4, <2>5 DEF Inv, TypeOK, Kinds, Valid, Origins
    <2>9. InGrid' /\ GapInBox' /\ BoxTight' /\ Closed'
      BY <1>4 DEF InGrid, GapInBox, BoxTight, Closed, Scanned
    <2>10. Planned'
      BY <2>6, <2>7 DEF Planned
    <2> QED
      BY <2>8, <2>9, <2>10 DEF Inv
  <1> QED
    BY <1>2, <1>3, <1>4

\* Every step keeps the invariant.
LEMMA NextInv ==
    ASSUME Inv, [Next]_vars
    PROVE  Inv'
  BY DetectInv, GeneratePlanInv, DetectPlannedInv, VisitInv, ReportInv, ResurveyInv, AgainInv,
     StutterInv DEF Next

\* The invariant holds of every behaviour.
THEOREM Invariance == Spec => []Inv
  BY InitInv, NextInv, PTL DEF Spec

\* Whatever the boundary and the tracks: the counters of CalculateCoverage are
\* nested and within the limit of cells, and there is a box of uncovered cells
\* exactly if one was counted.
THEOREM TypeCorrect == Spec => []TypeOK
  <1>1. Inv => TypeOK
    BY DEF Inv
  <1> QED
    BY <1>1, Invariance, PTL

\* A box has an uncovered cell in it: where none is uncovered there is no box.
LEMMA ClosedHolds == Inv => RecommendationClosesGap
  <1> SUFFICES ASSUME Inv, status = "reported", origin = "recommended", box # NoBox
               PROVE  FALSE
    BY DEF RecommendationClosesGap
  <1>1. Scanned
    BY DEF Scanned
  <1>2. PICK n \in 0 .. cell - 1 : Uncovered(n)
    BY <1>1 DEF Inv, BoxTight
  <1>3. n \in 0 .. Size - 1
    BY <1>1, ScanFacts
  <1> QED
    BY <1>1, <1>2, <1>3 DEF Inv, Closed

\* Flying the recommended line with a swath of the narrow side of the gap, less
\* a cell, closes every gap that a detection finds, of any shape, over any
\* boundary and beside any other tracks.
THEOREM RecommendationClosesGapHolds == Spec => []RecommendationClosesGap
  BY Invariance, ClosedHolds, PTL

\* A point up to half a spacing beyond the last line is within half a spacing
\* of one of them.
LEMMA NearestLine ==
    ASSUME NEW h \in Nat \ {0}, NEW s \in Nat, s = 2 * h, NEW m \in Nat,
           NEW q \in Nat, 0 < q, q <= m * s
    PROVE  \E k \in 0 .. m - 1 : /\ 2 * (q - (h + k * s)) <= s
                                 /\ -(2 * (q - (h + k * s))) <= s
  <1>1. PICK n \in Nat : n = q - 1
    OBVIOUS
  <1>2. n < s * m
    <2>1. PICK ms \in Nat : ms = m * s
      OBVIOUS
    <2>2. s * m = ms
      BY <2>1
    <2> QED
      BY <1>1, <2>1, <2>2
  <1>3. PICK k \in 0 .. m - 1 : k = n \div s
    BY <1>2, QuotientBelow
  <1>4. PICK r \in 0 .. s - 1 : n = s * k + r
    <2>1. s > 0
      OBVIOUS
    <2>2. n % s \in 0 .. s - 1 /\ n = s * (n \div s) + (n % s)
      BY <2>1, Divided
    <2> QED
      BY <1>3, <2>2
  <1>5. PICK ks \in Int : ks = k * s /\ ks = s * k
    OBVIOUS
  <1>6. q = ks + r + 1
    BY <1>1, <1>4, <1>5
  <1> QED
    BY <1>5, <1>6

\* A track covers what is within its swath of one of its segments.
LEMMA OnLine ==
    ASSUME NEW track, NEW l \in DOMAIN track.lines, NEW p, NEW a, NEW c,
           track.lines[l] = <<a, c>>, WithinSwath(p, a, c, track.swath)
    PROVE  TrackCovers(track, p)
  <1>1. 2 \in 2 .. Len(track.lines[l]) /\ 2 - 1 = 1
    OBVIOUS
  <1>2. track.lines[l][1] = a /\ track.lines[l][2] = c
    OBVIOUS
  <1>3. WithinSwath(p, track.lines[l][2 - 1], track.lines[l][2], track.swath)
    BY <1>1, <1>2
  <1> QED
    BY <1>1, <1>3 DEF TrackCovers

\* Where the box begins, a cell is uncovered: it is past the strip of every line.
LEMMA PlanHolds == Inv => PlanCoversToLastStrip
  <1> SUFFICES ASSUME Inv, status = "reported", origin = "planned", box # NoBox
               PROVE  LET b == polygonBounds(boundary)
                          spacing == tracks[1].swath
                          last == tracks[1].lines[Len(tracks[1].lines)][2]
                      IN  \/ /\ box.minX + 1 > last[1] + spacing \div 2
                             /\ b.maxX - last[1] <= spacing
                          \/ /\ box.minY + 1 > last[2] + spacing \div 2
                             /\ b.maxY - last[2] <= spacing
    BY DEF PlanCoversToLastStrip
  <1> DEFINE b == polygonBounds(boundary)
  <1>1. Scanned
    BY DEF Scanned
  <1>2. /\ boundary \in Seq(Seq(Point)) \ {<<>>} /\ ValidPolygon(boundary)
        /\ cell \in Nat /\ cell <= Size /\ Size \in Nat
    BY <1>1, ScanFacts
  <1>3. b \in BoxType /\ b.minX <= b.maxX /\ b.minY <= b.maxY
    BY <1>2, BoundsType
  <1>4. /\ b.minX \in Int /\ b.maxX \in Int /\ b.minY \in Int /\ b.maxY \in Int
        /\ box.minX \in Int /\ box.minY \in Int
    BY <1>3 DEF Inv, Kinds, BoxType
  <1>5. PICK heading \in Heading, spacing \in Spacing :
            /\ GeneratedLines(b, heading, spacing) # <<>>
            /\ tracks = <<[lines |-> GeneratedLines(b, heading, spacing), swath |-> spacing]>>
    BY DEF Inv, Planned, DrawnOver
  <1> DEFINE lines == GeneratedLines(b, heading, spacing)
  <1>6. tracks[1].lines = lines /\ tracks[1].swath = spacing /\ DOMAIN tracks = {1}
    BY <1>5
  <1>7. PICK h \in Nat \ {0}, m \in Nat : Drawn(b, heading, spacing, h, m)
    BY <1>3, LinesDrawn
  <1>8. /\ lines \in Seq(Seq(Point)) /\ Len(lines) = m /\ DOMAIN lines = 1 .. m /\ m # 0
        /\ spacing \in Nat /\ spacing = 2 * h /\ spacing \div 2 = h
        /\ \A k \in 1 .. m : lines[k] = LineAcross(b, heading, h + (k - 1) * spacing)
        /\ ~(h + m * spacing < Span(b, heading))
    <2>1. spacing = 2 * h /\ spacing \div 2 = h
      BY <1>7 DEF Drawn
    <2>2. lines \in Seq(Seq(Point)) /\ Len(lines) = m
      BY <1>3, <1>7, <2>1, LinesType
    <2>3. m # 0
      BY <1>5, <2>2
    <2>4. ~(h + m * spacing < Span(b, heading))
      <3>1. m < m <=> h + m * spacing < Span(b, heading)
        BY <1>7 DEF Drawn
      <3> QED
        BY <3>1
    <2>5. \A k \in 1 .. m : lines[k] = LineAcross(b, heading, h + (k - 1) * spacing)
      BY <1>7, Zenon DEF Drawn
    <2> QED
      BY <2>1, <2>2, <2>3, <2>4, <2>5
  <1>9. spacing \in Nat
    BY <1>8
  <1>10. \A n \in 0 .. cell - 1 :
            Uncovered(n) => /\ polygonContains(boundary, Centre(boundary, n))
                            /\ ~TrackCovers(tracks[1], Centre(boundary, n))
    BY <1>6 DEF Uncovered
  <1>11. PICK at \in Int : at = h + (m - 1) * spacing
    BY <1>8
  <1>12. m * spacing = at + h
    <2>1. (m - 1) * spacing = m * spacing - spacing
      BY <1>8
    <2>2. PICK ms \in Int : ms = m * spacing
      BY <1>8
    <2> QED
      BY <1>8, <1>11, <2>1, <2>2
  <1> HIDE DEF lines, b
  <1>13. CASE Horizontal(heading)
    <2>1. \A away : LineAcross(b, heading, away)
                        = <<<<b.minX, b.minY + away>>, <<b.maxX, b.minY + away>>>>
      BY <1>13 DEF LineAcross
    <2>2. lines[m][2][2] = b.minY + at
      <3>1. lines[m] = LineAcross(b, heading, at)
        BY <1>8, <1>11
      <3> QED
        BY <2>1, <3>1
    <2>3. b.maxY - (b.minY + at) <= spacing
      <3>1. ~(h + m * spacing < b.maxY - b.minY)
        BY <1>8, <1>13 DEF Span, Height
      <3>2. PICK ms \in Int : ms = m * spacing
        BY <1>8
      <3> QED
        BY <1>4, <1>8, <1>12, <3>1, <3>2
    <2>4. ASSUME box.minY + 1 <= b.minY + at + h
          PROVE  FALSE
      <3>1. PICK n \in 0 .. cell - 1 :
                Uncovered(n) /\ Centre(boundary, n)[2] = box.minY + 1
        BY <1>1 DEF Inv, BoxTight
      <3>2. n \in Nat /\ n < Size
        BY <1>2
      <3>3. PICK x \in Int, y \in Int : Centre(boundary, n) = <<x, y>>
        BY <1>1, <3>2, CellPoint DEF Point
      <3>4. b.minX < x /\ x <= b.maxX /\ b.minY < y /\ y = box.minY + 1
        BY <1>1, <3>1, <3>2, <3>3, CellPoint DEF b
      <3>5. PICK q \in Nat : q = y - b.minY
        BY <1>4, <3>4
      <3>6. 0 < q /\ q <= m * spacing
        BY <1>4, <1>12, <2>4, <3>4, <3>5
      <3>7. PICK k \in 0 .. m - 1 : /\ 2 * (q - (h + k * spacing)) <= spacing
                                    /\ -(2 * (q - (h + k * spacing))) <= spacing
        BY <1>8, <3>5, <3>6, NearestLine
      <3>8. PICK away \in Int : away = h + k * spacing
        BY <1>8
      <3>9. 2 * (q - away) <= spacing /\ -(2 * (q - away)) <= spacing
        BY <3>7, <3>8
      <3>10. PICK at0 \in Int : at0 = b.minY + away
        BY <1>4
      <3>11. 2 * (y - at0) <= spacing /\ -(2 * (y - at0)) <= spacing
        BY <1>4, <1>9, <3>5, <3>9, <3>10
      <3>12. /\ b.minX \in Int /\ b.maxX \in Int /\ b.minX < b.maxX
             /\ b.minX <= x /\ x <= b.maxX
        BY <1>4, <3>4
      <3>13. WithinSwath(<<x, y>>, <<b.minX, at0>>, <<b.maxX, at0>>, spacing)
        BY <1>9, <3>11, <3>12, BesideX
      <3>14. k + 1 \in 1 .. m /\ (k + 1) - 1 = k
        BY <1>8
      <3>15. lines[k + 1] = LineAcross(b, heading, away)
        BY <1>8, <3>8, <3>14
      <3>16. lines[k + 1] = <<<<b.minX, at0>>, <<b.maxX, at0>>>>
        BY <2>1, <3>10, <3>15
      <3>17. TrackCovers(tracks[1], <<x, y>>)
        <4>1. k + 1 \in DOMAIN tracks[1].lines
          BY <1>6, <1>8, <3>14
        <4>2. tracks[1].lines[k + 1] = lines[k + 1] /\ tracks[1].swath = spacing
          BY <1>6
        <4> QED
          BY <3>13, <3>16, <4>1, <4>2, OnLine
      <3> QED
        BY <1>10, <3>1, <3>3, <3>17
    <2>5. box.minY + 1 > b.minY + at + h
      BY <1>4, <2>4
    <2> QED
      BY <1>6, <1>8, <2>2, <2>3, <2>5 DEF b
  <1>14. CASE ~Horizontal(heading)
    <2>1. \A away : LineAcross(b, heading, away)
                        = <<<<b.minX + away, b.minY>>, <<b.minX + away, b.maxY>>>>
      BY <1>14 DEF LineAcross
    <2>2. lines[m][2][1] = b.minX + at
      <3>1. lines[m] = LineAcross(b, heading, at)
        BY <1>8, <1>11
      <3> QED
        BY <2>1, <3>1
    <2>3. b.maxX - (b.minX + at) <= spacing
      <3>1. ~(h + m * spacing < b.maxX - b.minX)
        BY <1>8, <1>14 DEF Span, Width
      <3>2. PICK ms \in Int : ms = m * spacing
        BY <1>8
      <3> QED
        BY <1>4, <1>8, <1>12, <3>1, <3>2
    <2>4. ASSUME box.minX + 1 <= b.minX + at + h
          PROVE  FALSE
      <3>1. PICK n \in 0 .. cell - 1 :
                Uncovered(n) /\ Centre(boundary, n)[1] = box.minX + 1
        BY <1>1 DEF Inv, BoxTight
      <3>2. n \in Nat /\ n < Size
        BY <1>2
      <3>3. PICK x \in Int, y \in Int : Centre(boundary, n) = <<x, y>>
        BY <1>1, <3>2, CellPoint DEF Point
      <3>4. b.minY < y /\ y <= b.maxY /\ b.minX < x /\ x = box.minX + 1
        BY <1>1, <3>1, <3>2, <3>3, CellPoint DEF b
      <3>5. PICK q \in Nat : q = x - b.minX
        BY <1>4, <3>4
      <3>6. 0 < q /\ q <= m * spacing
        BY <1>4, <1>12, <2>4, <3>4, <3>5
      <3>7. PICK k \in 0 .. m - 1 : /\ 2 * (q - (h + k * spacing)) <= spacing
                                    /\ -(2 * (q - (h + k * spacing))) <= spacing
        BY <1>8, <3>5, <3>6, NearestLine
      <3>8. PICK away \in Int : away = h + k * spacing
        BY <1>8
      <3>9. 2 * (q - away) <= spacing /\ -(2 * (q - away)) <= spacing
        BY <3>7, <3>8
      <3>10. PICK at0 \in Int : at0 = b.minX + away
        BY <1>4
      <3>11. 2 * (x - at0) <= spacing /\ -(2 * (x - at0)) <= spacing
        BY <1>4, <1>9, <3>5, <3>9, <3>10
      <3>12. /\ b.minY \in Int /\ b.maxY \in Int /\ b.minY < b.maxY
             /\ b.minY <= y /\ y <= b.maxY
        BY <1>4, <3>4
      <3>13. WithinSwath(<<x, y>>, <<at0, b.minY>>, <<at0, b.maxY>>, spacing)
        BY <1>9, <3>11, <3>12, BesideY
      <3>14. k + 1 \in 1 .. m /\ (k + 1) - 1 = k
        BY <1>8
      <3>15. lines[k + 1] = LineAcross(b, heading, away)
        BY <1>8, <3>8, <3>14
      <3>16. lines[k + 1] = <<<<at0, b.minY>>, <<at0, b.maxY>>>>
        BY <2>1, <3>10, <3>15
      <3>17. TrackCovers(tracks[1], <<x, y>>)
        <4>1. k + 1 \in DOMAIN tracks[1].lines
          BY <1>6, <1>8, <3>14
        <4>2. tracks[1].lines[k + 1] = lines[k + 1] /\ tracks[1].swath = spacing
          BY <1>6
        <4> QED
          BY <3>13, <3>16, <4>1, <4>2, OnLine
      <3> QED
        BY <1>10, <3>1, <3>3, <3>17
    <2>5. box.minX + 1 > b.minX + at + h
      BY <1>4, <2>4
    <2> QED
      BY <1>6, <1>8, <2>2, <2>3, <2>5 DEF b
  <1> QED
    BY <1>13, <1>14

\* A generated plan, flown with its spacing as swath, leaves a gap only beyond
\* half a spacing past its last line, which is within a spacing of the far edge.
THEOREM PlanCoversToLastStripHolds == Spec => []PlanCoversToLastStrip
  BY Invariance, PlanHolds, PTL

-----------------------------------------------------------------------------
(* The edges of a path that a ray crosses.  A closed ring rises as often as  *)
(* it falls: the parity of the edges on the right of a point is the parity   *)
(* of those on its left.                                                     *)

\* A border counts once from either end: an edge is crossed in both directions
\* or in neither.
LEMMA EdgeReversed ==
    ASSUME NEW u \in Point, NEW v \in Point, NEW p \in Point
    PROVE  EdgeCrosses(u, v, p) <=> EdgeCrosses(v, u, p)
  <1>1. /\ u[1] \in Int /\ u[2] \in Int /\ v[1] \in Int /\ v[2] \in Int
        /\ p[1] \in Int /\ p[2] \in Int
    BY DEF Point
  <1>2. PICK u1 \in Int, u2 \in Int, v1 \in Int, v2 \in Int, p1 \in Int, p2 \in Int :
            /\ u1 = u[1] /\ u2 = u[2] /\ v1 = v[1] /\ v2 = v[2] /\ p1 = p[1] /\ p2 = p[2]
    BY <1>1
  <1>3. /\ (p1 - u1) * (v2 - u2) < (v1 - u1) * (p2 - u2)
              <=> (p1 - v1) * (u2 - v2) > (u1 - v1) * (p2 - v2)
        /\ (p1 - u1) * (v2 - u2) > (v1 - u1) * (p2 - u2)
              <=> (p1 - v1) * (u2 - v2) < (u1 - v1) * (p2 - v2)
    <2>1. (p1 - u1) * (v2 - u2) - (v1 - u1) * (p2 - u2)
              = (u1 - v1) * (p2 - v2) - (p1 - v1) * (u2 - v2)
      OBVIOUS
    <2>2. /\ (p1 - u1) * (v2 - u2) \in Int /\ (v1 - u1) * (p2 - u2) \in Int
          /\ (u1 - v1) * (p2 - v2) \in Int /\ (p1 - v1) * (u2 - v2) \in Int
      OBVIOUS
    <2> QED
      BY <2>1, <2>2
  <1> QED
    BY <1>2, <1>3 DEF EdgeCrosses

\* The ray of a point meets an edge that lies across its height right of the
\* point exactly if the point is on the left of the edge taken upwards.
LEMMA UpwardEdge ==
    ASSUME NEW u \in Point, NEW v \in Point, NEW p \in Point, u[2] <= p[2], p[2] < v[2]
    PROVE  EdgeCrosses(u, v, p) <=> Side(u, v, p) > 0
  <1>1. /\ u[1] \in Int /\ u[2] \in Int /\ v[1] \in Int /\ v[2] \in Int
        /\ p[1] \in Int /\ p[2] \in Int
    BY DEF Point
  <1>2. PICK r \in Int : r = (v[1] - u[1]) * (p[2] - u[2])
    BY <1>1
  <1>3. PICK l \in Int : l = (p[1] - u[1]) * (v[2] - u[2])
    BY <1>1
  <1>4. (v[2] - u[2]) * (p[1] - u[1]) = l
    BY <1>1, <1>3
  <1>5. Side(u, v, p) = r - l
    BY <1>2, <1>4 DEF Side
  <1>6. EdgeCrosses(u, v, p) <=> l < r
    BY <1>1, <1>2, <1>3 DEF EdgeCrosses
  <1> QED
    BY <1>2, <1>3, <1>5, <1>6

\* Where an edge is at the height of a point, measured from the border.
LEMMA SideOnEdge ==
    ASSUME NEW a \in Point, NEW b \in Point, NEW u \in Point, NEW v \in Point, NEW p \in Point
    PROVE  (v[2] - u[2]) * Side(a, b, p)
             = (v[2] - p[2]) * Side(a, b, u) + (p[2] - u[2]) * Side(a, b, v)
               + (b[2] - a[2]) * Side(u, v, p)
  <1>1. /\ a[1] \in Int /\ a[2] \in Int /\ b[1] \in Int /\ b[2] \in Int
        /\ u[1] \in Int /\ u[2] \in Int /\ v[1] \in Int /\ v[2] \in Int
        /\ p[1] \in Int /\ p[2] \in Int
    BY DEF Point
  <1>2. \A a1, a2, b1, b2, u1, u2, v1, v2, p1, p2 \in Int :
           (v2 - u2) * ((b1 - a1) * (p2 - a2) - (b2 - a2) * (p1 - a1))
             = (v2 - p2) * ((b1 - a1) * (u2 - a2) - (b2 - a2) * (u1 - a1))
               + (p2 - u2) * ((b1 - a1) * (v2 - a2) - (b2 - a2) * (v1 - a1))
               + (b2 - a2) * ((v1 - u1) * (p2 - u2) - (v2 - u2) * (p1 - u1))
    OBVIOUS
  <1> QED
    BY <1>1, <1>2 DEF Side

LEMMA SideType ==
    ASSUME NEW a \in Point, NEW b \in Point, NEW p \in Point
    PROVE  Side(a, b, p) \in Int
  BY DEF Side, Point

LEMMA SideReversed ==
    ASSUME NEW a \in Point, NEW b \in Point, NEW p \in Point
    PROVE  Side(b, a, p) = -Side(a, b, p)
  <1>1. /\ a[1] \in Int /\ a[2] \in Int /\ b[1] \in Int /\ b[2] \in Int
        /\ p[1] \in Int /\ p[2] \in Int
    BY DEF Point
  <1>2. \A a1, a2, b1, b2, p1, p2 \in Int :
           (a1 - b1) * (p2 - b2) - (a2 - b2) * (p1 - b1)
             = -((b1 - a1) * (p2 - a2) - (b2 - a2) * (p1 - a1))
    OBVIOUS
  <1> QED
    BY <1>1, <1>2 DEF Side

\* The sign of a weighted sum.
LEMMA Weighted ==
    ASSUME NEW w \in Int, w > 0, NEW i \in Int, i > 0, NEW j \in Nat, NEW l \in Int, l > 0,
           NEW s \in Int, NEW su \in Int, NEW sv \in Int, NEW e \in Int,
           w * s = i * su + j * sv + l * e
    PROVE  /\ su >= 0 /\ sv >= 0 /\ e > 0 => s > 0
           /\ su <= 0 /\ sv <= 0 /\ s > 0 => e > 0
  <1>1. ASSUME su >= 0, sv >= 0, e > 0
        PROVE  s > 0
    <2>1. i * su >= 0 /\ j * sv >= 0 /\ l * e > 0
      BY <1>1
    <2>2. w * s > 0
      <3>1. i * su \in Int /\ j * sv \in Int /\ l * e \in Int
        OBVIOUS
      <3> QED
        BY <2>1, <3>1
    <2> QED
      BY <2>2
  <1>2. ASSUME su <= 0, sv <= 0, s > 0
        PROVE  e > 0
    <2>1. i * su <= 0 /\ j * sv <= 0 /\ w * s > 0
      BY <1>2
    <2>2. l * e > 0
      <3>1. i * su \in Int /\ j * sv \in Int /\ l * e \in Int /\ w * s \in Int
        OBVIOUS
      <3> QED
        BY <2>1, <3>1
    <2> QED
      BY <2>2
  <1> QED
    BY <1>1, <1>2

\* An edge on the left of an upward border is crossed only from its left; one
\* on the right of it is crossed from everywhere on its left.
LEMMA EdgeBeside ==
    ASSUME NEW a \in Point, NEW b \in Point, a[2] < b[2],
           NEW u \in Point, NEW v \in Point, NEW p \in Point, u[2] <= p[2], p[2] < v[2]
    PROVE  /\ Side(a, b, u) >= 0 /\ Side(a, b, v) >= 0 /\ EdgeCrosses(u, v, p)
                => Side(a, b, p) > 0
           /\ Side(a, b, u) <= 0 /\ Side(a, b, v) <= 0 /\ Side(a, b, p) > 0
                => EdgeCrosses(u, v, p)
  <1>1. /\ a[2] \in Int /\ b[2] \in Int /\ u[2] \in Int /\ v[2] \in Int /\ p[2] \in Int
    BY DEF Point
  <1>2. PICK w \in Int : w = v[2] - u[2] /\ w > 0
    BY <1>1
  <1>3. PICK i \in Int : i = v[2] - p[2] /\ i > 0
    BY <1>1
  <1>4. PICK j \in Nat : j = p[2] - u[2]
    BY <1>1
  <1>5. PICK l \in Int : l = b[2] - a[2] /\ l > 0
    BY <1>1
  <1>6. /\ Side(a, b, p) \in Int /\ Side(a, b, u) \in Int /\ Side(a, b, v) \in Int
        /\ Side(u, v, p) \in Int
    BY SideType
  <1>7. w * Side(a, b, p) = i * Side(a, b, u) + j * Side(a, b, v) + l * Side(u, v, p)
    BY <1>2, <1>3, <1>4, <1>5, SideOnEdge
  <1>8. /\ Side(a, b, u) >= 0 /\ Side(a, b, v) >= 0 /\ Side(u, v, p) > 0 => Side(a, b, p) > 0
        /\ Side(a, b, u) <= 0 /\ Side(a, b, v) <= 0 /\ Side(a, b, p) > 0 => Side(u, v, p) > 0
    <2> DEFINE s == Side(a, b, p)
               su == Side(a, b, u)
               sv == Side(a, b, v)
               e == Side(u, v, p)
    <2>1. s \in Int /\ su \in Int /\ sv \in Int /\ e \in Int
          /\ w * s = i * su + j * sv + l * e
      BY <1>6, <1>7
    <2> HIDE DEF s, su, sv, e
    <2>2. /\ su >= 0 /\ sv >= 0 /\ e > 0 => s > 0
          /\ su <= 0 /\ sv <= 0 /\ s > 0 => e > 0
      BY <1>2, <1>3, <1>4, <1>5, <2>1, Weighted
    <2> QED
      BY <2>2 DEF s, su, sv, e
  <1> QED
    BY <1>8, UpwardEdge

\* The edges of a path that the ray of a point crosses.
Crossed(path, p) == {i \in 2 .. Len(path) : EdgeCrosses(path[i], path[i - 1], p)}

\* The edges of a path that lie across a height.
Across(path, y) == {i \in 2 .. Len(path) : (path[i][2] > y) # (path[i - 1][2] > y)}

\* A ring that ends where it begins.
ClosedRing(ring) == ring \in Seq(Point) /\ Len(ring) >= 1 /\ ring[1] = ring[Len(ring)]

LEMMA CrossedCount ==
    ASSUME NEW path \in Seq(Point), NEW p
    PROVE  IsFiniteSet(Crossed(path, p)) /\ Cardinality(Crossed(path, p)) \in Nat
  <1>1. IsFiniteSet(2 .. Len(path))
    BY FS_Interval
  <1>2. Crossed(path, p) \subseteq 2 .. Len(path)
    BY DEF Crossed
  <1>3. IsFiniteSet(Crossed(path, p))
    BY <1>1, <1>2, FS_Subset
  <1> QED
    BY <1>3, FS_CardinalityType

LEMMA Disjoint ==
    ASSUME NEW S, IsFiniteSet(S), NEW T, IsFiniteSet(T), S \cap T = {}
    PROVE  IsFiniteSet(S \cup T) /\ Cardinality(S \cup T) = Cardinality(S) + Cardinality(T)
  <1>1. /\ IsFiniteSet(S \cup T)
        /\ Cardinality(S \cup T) = Cardinality(S) + Cardinality(T) - Cardinality(S \cap T)
    BY FS_Union
  <1>2. Cardinality(S \cap T) = 0
    BY FS_EmptySet
  <1>3. Cardinality(S) \in Nat /\ Cardinality(T) \in Nat
    BY FS_CardinalityType
  <1> QED
    BY <1>1, <1>2, <1>3

\* A closed ring crosses every height an even number of times: it rises as often
\* as it falls.
LEMMA AcrossEven ==
    ASSUME NEW ring, ClosedRing(ring), NEW y \in Int
    PROVE  Cardinality(Across(ring, y)) % 2 = 0
  <1> DEFINE n == Len(ring)
             E == 2 .. n
             up(i) == ring[i][2] > y
             To == {i \in E : up(i)}
             From == {i \in E : up(i - 1)}
             before == [i \in From |-> IF i = 2 THEN n ELSE i - 1]
  <1>1. n \in Nat /\ n >= 1 /\ ring[1] = ring[n]
    BY DEF ClosedRing
  <1>2. ExistsBijection(From, To)
    <2>1. before \in [From -> To]
      <3>1. ASSUME NEW i \in From
            PROVE  before[i] \in To
        <4>1. CASE i = 2
          <5>1. i - 1 = 1 /\ n \in E
            BY <1>1, <4>1
          <5> QED
            BY <1>1, <4>1, <5>1
        <4>2. CASE i # 2
          <5>1. i - 1 \in E
            BY <1>1, <4>2
          <5> QED
            BY <4>2, <5>1
        <4> QED
          BY <4>1, <4>2
      <3> QED
        BY <3>1
    <2>2. ASSUME NEW i \in From, NEW j \in From, before[i] = before[j]
          PROVE  i = j
      BY <1>1, <2>2
    <2>3. ASSUME NEW j \in To
          PROVE  \E i \in From : before[i] = j
      <3>1. CASE j = n
        <4>1. 2 \in From /\ before[2] = n
          BY <1>1, <3>1
        <4> QED
          BY <3>1, <4>1
      <3>2. CASE j # n
        <4>1. j + 1 \in E /\ (j + 1) - 1 = j /\ j + 1 # 2
          BY <1>1, <3>2
        <4>2. j + 1 \in From /\ before[j + 1] = j
          BY <4>1
        <4> QED
          BY <4>2
      <3> QED
        BY <3>1, <3>2
    <2> HIDE DEF From, To, before
    <2>4. before \in Bijection(From, To)
      BY <2>1, <2>2, <2>3 DEF Bijection, Injection, Surjection, IsInjective
    <2> QED
      BY <2>4 DEF ExistsBijection
  <1>3. /\ From \subseteq E /\ To \subseteq E
        /\ Across(ring, y) = (To \ From) \cup (From \ To)
    BY DEF Across
  <1> HIDE DEF From, To, before
  <1>4. IsFiniteSet(From) /\ IsFiniteSet(To) /\ Cardinality(From) = Cardinality(To)
    <2>1. IsFiniteSet(2 .. n)
      BY <1>1, FS_Interval
    <2>2. IsFiniteSet(From) /\ IsFiniteSet(To)
      BY <1>3, <2>1, FS_Subset
    <2> QED
      BY <1>2, <2>2, FS_Bijection
  <1>5. /\ IsFiniteSet(To \ From) /\ IsFiniteSet(From \ To)
        /\ Cardinality(To \ From) = Cardinality(To) - Cardinality(To \cap From)
        /\ Cardinality(From \ To) = Cardinality(From) - Cardinality(From \cap To)
    BY <1>4, FS_Difference
  <1>6. To \cap From = From \cap To /\ (To \ From) \cap (From \ To) = {}
    OBVIOUS
  <1>7. Cardinality(Across(ring, y)) = Cardinality(To \ From) + Cardinality(From \ To)
    BY <1>3, <1>5, <1>6, Disjoint
  <1>8. Cardinality(To \ From) = Cardinality(From \ To)
    BY <1>4, <1>5, <1>6
  <1>9. Cardinality(To \ From) \in Nat
    BY <1>5, FS_CardinalityType
  <1> QED
    BY <1>7, <1>8, <1>9

\* The edge that closes the ring is a point, which no ray crosses.
LEMMA RingCrossed ==
    ASSUME NEW ring, ClosedRing(ring), NEW p \in Point
    PROVE  ringContains(ring, p) <=> Cardinality(Crossed(ring, p)) % 2 = 1
  <1> DEFINE previous(i) == IF i = 1 THEN Len(ring) ELSE i - 1
  <1>1. Len(ring) \in Nat /\ Len(ring) >= 1 /\ DOMAIN ring = 1 .. Len(ring)
    BY DEF ClosedRing
  <1>2. ~EdgeCrosses(ring[1], ring[Len(ring)], p)
    BY DEF ClosedRing, EdgeCrosses
  <1>3. {i \in DOMAIN ring : EdgeCrosses(ring[i], ring[previous(i)], p)} = Crossed(ring, p)
    BY <1>1, <1>2 DEF Crossed
  <1> QED
    BY <1>3 DEF ringContains

LEMMA OneRing ==
    ASSUME NEW ring, NEW p
    PROVE  polygonContains(<<ring>>, p) <=> ringContains(ring, p)
  BY DEF polygonContains

\* A ring lies on one side of the line from a to b.
OnLeft(path, a, b) == \A i \in 1 .. Len(path) : Side(a, b, path[i]) >= 0
OnRight(path, a, b) == \A i \in 1 .. Len(path) : Side(a, b, path[i]) <= 0

LEMMA AcrossEnds ==
    ASSUME NEW path \in Seq(Point), NEW p \in Point, NEW i \in Across(path, p[2])
    PROVE  \E u, v \in Point :
              /\ {u, v} = {path[i], path[i - 1]}
              /\ u[2] <= p[2] /\ p[2] < v[2]
              /\ EdgeCrosses(path[i], path[i - 1], p) <=> EdgeCrosses(u, v, p)
  <1>1. i \in 1 .. Len(path) /\ i - 1 \in 1 .. Len(path)
    BY DEF Across
  <1>2. path[i] \in Point /\ path[i - 1] \in Point
    BY <1>1
  <1>3. path[i][2] \in Int /\ path[i - 1][2] \in Int /\ p[2] \in Int
    BY <1>2 DEF Point
  <1>4. EdgeCrosses(path[i], path[i - 1], p) <=> EdgeCrosses(path[i - 1], path[i], p)
    BY <1>2, EdgeReversed
  <1>5. CASE path[i][2] > p[2]
    <2>1. path[i - 1][2] <= p[2] /\ p[2] < path[i][2]
      BY <1>3, <1>5 DEF Across
    <2> QED
      BY <1>2, <1>4, <2>1
  <1>6. CASE ~(path[i][2] > p[2])
    <2>1. path[i][2] <= p[2] /\ p[2] < path[i - 1][2]
      BY <1>3, <1>6 DEF Across
    <2> QED
      BY <1>2, <2>1
  <1> QED
    BY <1>5, <1>6

LEMMA CrossedAcross ==
    ASSUME NEW path, NEW p
    PROVE  Crossed(path, p) \subseteq Across(path, p[2])
  BY DEF Crossed, Across, EdgeCrosses

\* Odd is not none.
LEMMA ContainedAcross ==
    ASSUME NEW ring, ClosedRing(ring), NEW p \in Point, ringContains(ring, p)
    PROVE  \E i : i \in Crossed(ring, p)
  <1>1. CASE Crossed(ring, p) = {}
    <2>1. Cardinality(Crossed(ring, p)) = 0
      BY <1>1, FS_EmptySet
    <2> QED
      BY <2>1, RingCrossed
  <1> QED
    BY <1>1

-----------------------------------------------------------------------------
(* A boundary that a straight border cuts in two.  A ring that lies on one   *)
(* side of the border has nothing inside it on the other; the crossings of   *)
(* the two parts are those of the boundary and, twice, those of the border.  *)

\* A ring on the left of an upward line contains only what is left of it.
LEMMA InLeftRing ==
    ASSUME NEW a \in Point, NEW b \in Point, a[2] < b[2], NEW ring, ClosedRing(ring),
           OnLeft(ring, a, b), NEW p \in Point, ringContains(ring, p)
    PROVE  Side(a, b, p) > 0
  <1>1. PICK i : i \in Crossed(ring, p)
    BY ContainedAcross
  <1>2. i \in Across(ring, p[2]) /\ EdgeCrosses(ring[i], ring[i - 1], p)
    BY <1>1, CrossedAcross DEF Crossed
  <1>3. PICK u \in Point, v \in Point :
            /\ {u, v} = {ring[i], ring[i - 1]}
            /\ u[2] <= p[2] /\ p[2] < v[2] /\ EdgeCrosses(u, v, p)
    BY <1>2, AcrossEnds DEF ClosedRing
  <1>4. i \in 1 .. Len(ring) /\ i - 1 \in 1 .. Len(ring)
    BY <1>1 DEF Crossed, ClosedRing
  <1>5. Side(a, b, u) >= 0 /\ Side(a, b, v) >= 0
    BY <1>3, <1>4 DEF OnLeft
  <1> QED
    BY <1>3, <1>5, EdgeBeside

\* A ring on the right of an upward line contains nothing that is left of it.
LEMMA InRightRing ==
    ASSUME NEW a \in Point, NEW b \in Point, a[2] < b[2], NEW ring, ClosedRing(ring),
           OnRight(ring, a, b), NEW p \in Point, ringContains(ring, p)
    PROVE  ~(Side(a, b, p) > 0)
  <1> SUFFICES ASSUME Side(a, b, p) > 0
               PROVE  FALSE
    OBVIOUS
  <1>1. ASSUME NEW i \in Across(ring, p[2])
        PROVE  i \in Crossed(ring, p)
    <2>1. PICK u \in Point, v \in Point :
              /\ {u, v} = {ring[i], ring[i - 1]}
              /\ u[2] <= p[2] /\ p[2] < v[2]
              /\ EdgeCrosses(ring[i], ring[i - 1], p) <=> EdgeCrosses(u, v, p)
      BY AcrossEnds DEF ClosedRing
    <2>2. i \in 2 .. Len(ring) /\ i \in 1 .. Len(ring) /\ i - 1 \in 1 .. Len(ring)
      BY DEF Across, ClosedRing
    <2>3. Side(a, b, u) <= 0 /\ Side(a, b, v) <= 0
      BY <2>1, <2>2 DEF OnRight
    <2>4. EdgeCrosses(u, v, p)
      BY <2>1, <2>3, EdgeBeside
    <2> QED
      BY <2>1, <2>2, <2>4 DEF Crossed
  <1>2. Crossed(ring, p) = Across(ring, p[2])
    BY <1>1, CrossedAcross
  <1>3. p[2] \in Int
    BY DEF Point
  <1>4. Cardinality(Crossed(ring, p)) % 2 = 0
    BY <1>2, <1>3, AcrossEven
  <1> QED
    BY <1>4, RingCrossed

\* Beside a level line the height of a point is its side.
LEMMA LevelSide ==
    ASSUME NEW a \in Point, NEW b \in Point, a[2] = b[2], a[1] < b[1], NEW u \in Point
    PROVE  /\ Side(a, b, u) >= 0 <=> u[2] >= a[2]
           /\ Side(a, b, u) <= 0 <=> u[2] <= a[2]
  <1>1. /\ a[1] \in Int /\ a[2] \in Int /\ b[1] \in Int /\ b[2] \in Int
        /\ u[1] \in Int /\ u[2] \in Int
    BY DEF Point
  <1>2. PICK l \in Int : l = b[1] - a[1] /\ l > 0
    BY <1>1
  <1>3. PICK h \in Int : h = u[2] - a[2]
    BY <1>1
  <1>4. Side(a, b, u) = l * h
    BY <1>1, <1>2, <1>3 DEF Side
  <1>5. (l * h >= 0 <=> h >= 0) /\ (l * h <= 0 <=> h <= 0)
    BY <1>2
  <1> QED
    BY <1>1, <1>3, <1>4, <1>5

\* A ring above a level line contains nothing below it, and one below it
\* nothing that is not.
LEMMA BesideLevel ==
    ASSUME NEW a \in Point, NEW b \in Point, a[2] = b[2], a[1] < b[1],
           NEW ring, ClosedRing(ring), NEW p \in Point, ringContains(ring, p)
    PROVE  /\ OnLeft(ring, a, b) => p[2] >= a[2]
           /\ OnRight(ring, a, b) => p[2] < a[2]
  <1>1. PICK i : i \in Crossed(ring, p)
    BY ContainedAcross
  <1>2. i \in Across(ring, p[2])
    BY <1>1, CrossedAcross
  <1>3. PICK u \in Point, v \in Point :
            /\ {u, v} = {ring[i], ring[i - 1]}
            /\ u[2] <= p[2] /\ p[2] < v[2]
    BY <1>2, AcrossEnds DEF ClosedRing
  <1>4. i \in 1 .. Len(ring) /\ i - 1 \in 1 .. Len(ring)
    BY <1>1 DEF Crossed, ClosedRing
  <1>5. u[2] \in Int /\ v[2] \in Int /\ p[2] \in Int /\ a[2] \in Int
    BY DEF Point
  <1>6. OnLeft(ring, a, b) => u[2] >= a[2]
    <2>1. OnLeft(ring, a, b) => Side(a, b, u) >= 0
      BY <1>3, <1>4 DEF OnLeft
    <2> QED
      BY <2>1, LevelSide
  <1>7. OnRight(ring, a, b) => v[2] <= a[2]
    <2>1. OnRight(ring, a, b) => Side(a, b, v) <= 0
      BY <1>3, <1>4 DEF OnRight
    <2> QED
      BY <2>1, LevelSide
  <1> QED
    BY <1>3, <1>5, <1>6, <1>7

\* Two rings on the two sides of a line contain no point in common, the line
\* running upwards or level to the right.
LEMMA ApartOrdered ==
    ASSUME NEW a \in Point, NEW b \in Point, a[2] < b[2] \/ (a[2] = b[2] /\ a[1] < b[1]),
           NEW left, ClosedRing(left), OnLeft(left, a, b),
           NEW right, ClosedRing(right), OnRight(right, a, b),
           NEW p \in Point
    PROVE  ~(ringContains(left, p) /\ ringContains(right, p))
  <1>1. CASE a[2] < b[2]
    BY <1>1, InLeftRing, InRightRing
  <1>2. CASE a[2] = b[2] /\ a[1] < b[1]
    <2>1. p[2] \in Int /\ a[2] \in Int
      BY DEF Point
    <2>2. ringContains(left, p) => p[2] >= a[2]
      BY <1>2, BesideLevel
    <2>3. ringContains(right, p) => p[2] < a[2]
      BY <1>2, BesideLevel
    <2> QED
      BY <2>1, <2>2, <2>3
  <1> QED
    BY <1>1, <1>2

LEMMA OtherWay ==
    ASSUME NEW a \in Point, NEW b \in Point, NEW path \in Seq(Point)
    PROVE  (OnLeft(path, a, b) <=> OnRight(path, b, a))
  <1>1. ASSUME NEW i \in 1 .. Len(path)
        PROVE  Side(a, b, path[i]) >= 0 <=> Side(b, a, path[i]) <= 0
    <2>1. path[i] \in Point
      OBVIOUS
    <2>2. PICK s \in Int : s = Side(a, b, path[i])
      BY <2>1, SideType
    <2>3. Side(b, a, path[i]) = -s
      BY <2>1, <2>2, SideReversed
    <2> QED
      BY <2>2, <2>3
  <1> QED
    BY <1>1 DEF OnLeft, OnRight

\* The same for any line.
LEMMA Apart ==
    ASSUME NEW a \in Point, NEW b \in Point, a # b,
           NEW left, ClosedRing(left), OnLeft(left, a, b),
           NEW right, ClosedRing(right), OnRight(right, a, b),
           NEW p \in Point
    PROVE  ~(ringContains(left, p) /\ ringContains(right, p))
  <1>1. /\ a[1] \in Int /\ a[2] \in Int /\ b[1] \in Int /\ b[2] \in Int
        /\ a = <<a[1], a[2]>> /\ b = <<b[1], b[2]>>
    BY DEF Point
  <1>2. CASE a[2] < b[2] \/ (a[2] = b[2] /\ a[1] < b[1])
    BY <1>2, ApartOrdered
  <1>3. CASE b[2] < a[2] \/ (b[2] = a[2] /\ b[1] < a[1])
    <2>1. OnRight(left, b, a) /\ OnLeft(right, b, a)
      BY OtherWay DEF ClosedRing
    <2> QED
      BY <1>3, <2>1, ApartOrdered
  <1>4. a[1] # b[1] \/ a[2] # b[2]
    BY <1>1
  <1> QED
    BY <1>1, <1>2, <1>3, <1>4

\* The path W goes along A, and from its end along B.
Joins(W, A, B) ==
    /\ A \in Seq(Point) /\ B \in Seq(Point) /\ Len(A) >= 1 /\ Len(B) >= 1
    /\ A[Len(A)] = B[1]
    /\ W = A \o Tail(B)

\* It is crossed as often as both.
LEMMA JoinedCrossed ==
    ASSUME NEW W, NEW A, NEW B, Joins(W, A, B), NEW p \in Point
    PROVE  /\ W \in Seq(Point) /\ Len(W) = Len(A) + Len(B) - 1
           /\ W[1] = A[1] /\ W[Len(W)] = B[Len(B)]
           /\ Cardinality(Crossed(W, p)) = Cardinality(Crossed(A, p)) + Cardinality(Crossed(B, p))
  <1> DEFINE m == Len(A)
             k == Len(B)
             shift == [i \in Crossed(B, p) |-> i + m - 1]
             Later == {i + m - 1 : i \in Crossed(B, p)}
  <1>0. /\ A \in Seq(Point) /\ B \in Seq(Point) /\ m >= 1 /\ k >= 1
        /\ A[m] = B[1] /\ W = A \o Tail(B)
    BY DEF Joins
  <1>1. m \in Nat /\ k \in Nat /\ m >= 1 /\ k >= 1
    BY <1>0
  <1>2. W \in Seq(Point) /\ Len(W) = m + k - 1
    <2>1. Tail(B) \in Seq(Point) /\ Len(Tail(B)) = k - 1
      BY <1>0
    <2> QED
      BY <1>0, <2>1
  <1>3. \A i \in 1 .. m : W[i] = A[i]
    BY <1>0
  <1>4. \A i \in 1 .. k : W[i + m - 1] = B[i]
    <2>1. ASSUME NEW i \in 1 .. k, i # 1
          PROVE  W[i + m - 1] = B[i]
      <3>1. i - 1 \in 1 .. Len(Tail(B)) /\ Tail(B)[i - 1] = B[i]
        <4>1. B \in Seq(Point) /\ Len(B) \in Nat /\ i \in 1 .. Len(B) /\ i # 1
          BY <1>0, <2>1
        <4> QED
          BY <4>1
      <3>2. i + m - 1 = Len(A) + (i - 1)
        BY <1>1
      <3>3. i + m - 1 \in 1 .. Len(A) + Len(Tail(B)) /\ ~(i + m - 1 <= Len(A))
            /\ i + m - 1 - Len(A) = i - 1
        BY <1>1, <2>1, <3>1
      <3> QED
        BY <1>0, <3>1, <3>3
    <2>2. W[1 + m - 1] = B[1]
      BY <1>0, <1>1, <1>3
    <2> QED
      BY <2>1, <2>2
  <1>5. W[1] = A[1] /\ W[Len(W)] = B[k]
    <2>1. k + m - 1 = Len(W) /\ k \in 1 .. k /\ 1 \in 1 .. m
      BY <1>1, <1>2
    <2> QED
      BY <1>3, <1>4, <2>1
  <1>6. Crossed(W, p) = Crossed(A, p) \cup Later
    <2>1. ASSUME NEW i \in 2 .. m
          PROVE  i \in Crossed(W, p) <=> i \in Crossed(A, p)
      <3>1. W[i] = A[i] /\ W[i - 1] = A[i - 1] /\ i \in 2 .. Len(W)
        BY <1>1, <1>2, <1>3, <2>1
      <3> QED
        BY <3>1 DEF Crossed
    <2>2. ASSUME NEW i \in 2 .. k
          PROVE  i + m - 1 \in Crossed(W, p) <=> i \in Crossed(B, p)
      <3>1. W[i + m - 1] = B[i] /\ W[(i - 1) + m - 1] = B[i - 1]
        BY <1>1, <1>4, <2>2
      <3>2. (i - 1) + m - 1 = (i + m - 1) - 1 /\ i + m - 1 \in 2 .. Len(W)
        BY <1>1, <1>2
      <3> QED
        BY <3>1, <3>2 DEF Crossed
    <2>3. ASSUME NEW j \in Crossed(W, p)
          PROVE  j \in Crossed(A, p) \cup Later
      <3>1. j \in 2 .. m + k - 1
        BY <1>2 DEF Crossed
      <3>2. CASE j <= m
        BY <1>1, <2>1, <3>1, <3>2
      <3>3. CASE ~(j <= m)
        <4>1. PICK i \in 2 .. k : j = i + m - 1
          <5>1. j - m + 1 \in 2 .. k /\ j = (j - m + 1) + m - 1
            BY <1>1, <3>1, <3>3
          <5> QED
            BY <5>1
        <4> QED
          BY <2>2, <4>1
      <3> QED
        BY <3>2, <3>3
    <2>4. Crossed(A, p) \subseteq 2 .. m /\ Crossed(B, p) \subseteq 2 .. k
      BY DEF Crossed
    <2> QED
      BY <2>1, <2>2, <2>3, <2>4
  <1>7. /\ IsFiniteSet(Crossed(A, p)) /\ IsFiniteSet(Crossed(B, p))
    BY <1>0, CrossedCount
  <1>8. IsFiniteSet(Later) /\ Cardinality(Later) = Cardinality(Crossed(B, p))
    <2>0. Crossed(B, p) \subseteq Int
      BY DEF Crossed
    <2>1. shift \in Bijection(Crossed(B, p), Later)
      <3>1. shift \in [Crossed(B, p) -> Later]
        OBVIOUS
      <3>2. \A i, j \in Crossed(B, p) : shift[i] = shift[j] => i = j
        BY <1>1, <2>0
      <3>3. \A j \in Later : \E i \in Crossed(B, p) : shift[i] = j
        OBVIOUS
      <3> HIDE DEF shift, Later
      <3> QED
        BY <3>1, <3>2, <3>3 DEF Bijection, Injection, Surjection, IsInjective
    <2> HIDE DEF shift, Later
    <2>2. ExistsBijection(Crossed(B, p), Later)
      BY <2>1 DEF ExistsBijection
    <2> QED
      BY <1>7, <2>2, FS_Bijection
  <1>9. Crossed(A, p) \cap Later = {}
    <2>1. ASSUME NEW j \in Crossed(A, p), j \in Later
          PROVE  FALSE
      <3>1. j \in 2 .. m
        BY DEF Crossed
      <3>2. PICK i \in Crossed(B, p) : j = i + m - 1
        BY <2>1
      <3>3. i \in 2 .. k
        BY DEF Crossed
      <3> QED
        BY <1>1, <3>1, <3>2, <3>3
    <2> QED
      BY <2>1
  <1>10. Cardinality(Crossed(W, p)) = Cardinality(Crossed(A, p)) + Cardinality(Crossed(B, p))
    <2> HIDE DEF Later
    <2> QED
      BY <1>6, <1>7, <1>8, <1>9, Disjoint
  <1> QED
    BY <1>2, <1>5, <1>10

\* The path closed by the border, as a ring.
LEMMA ClosedPath ==
    ASSUME NEW path \in Seq(Point), Len(path) >= 1, NEW a \in Point, NEW b \in Point,
           path[1] = a, path[Len(path)] = b, NEW p \in Point
    PROVE  LET ring == Append(path, a)
           IN  /\ ClosedRing(ring)
               /\ Cardinality(Crossed(ring, p))
                    = Cardinality(Crossed(path, p)) + (IF EdgeCrosses(a, b, p) THEN 1 ELSE 0)
  <1> DEFINE border == <<b, a>>
  <1>0. PICK ring : ring = Append(path, a)
    OBVIOUS
  <1>1. border \in Seq(Point) /\ Len(border) = 2 /\ border[1] = b /\ border[2] = a
    OBVIOUS
  <1>2. Tail(border) = <<a>>
    OBVIOUS
  <1>3. Joins(ring, path, border)
    BY <1>0, <1>1, <1>2 DEF Joins
  <1> HIDE DEF border
  <1>4. /\ ring \in Seq(Point) /\ Len(ring) = Len(path) + 1
        /\ ring[1] = a /\ ring[Len(ring)] = a
        /\ Cardinality(Crossed(ring, p))
             = Cardinality(Crossed(path, p)) + Cardinality(Crossed(border, p))
    <2>2. /\ ring \in Seq(Point) /\ Len(ring) = Len(path) + Len(border) - 1
          /\ ring[1] = path[1] /\ ring[Len(ring)] = border[Len(border)]
          /\ Cardinality(Crossed(ring, p))
               = Cardinality(Crossed(path, p)) + Cardinality(Crossed(border, p))
      BY <1>3, JoinedCrossed
    <2>3. Len(path) \in Nat
      OBVIOUS
    <2> QED
      BY <1>1, <2>2, <2>3
  <1>5. Cardinality(Crossed(border, p)) = IF EdgeCrosses(a, b, p) THEN 1 ELSE 0
    <2>1. CASE EdgeCrosses(a, b, p)
      <3>1. Crossed(border, p) = {2}
        BY <1>1, <2>1 DEF Crossed
      <3> QED
        BY <2>1, <3>1, FS_Singleton
    <2>2. CASE ~EdgeCrosses(a, b, p)
      <3>1. Crossed(border, p) = {}
        BY <1>1, <2>2 DEF Crossed
      <3> QED
        BY <2>2, <3>1, FS_EmptySet
    <2> QED
      BY <2>1, <2>2
  <1>6. ClosedRing(ring)
    BY <1>4 DEF ClosedRing
  <1> QED
    BY <1>0, <1>4, <1>5, <1>6

LEMMA ClosedPathLeft ==
    ASSUME NEW path \in Seq(Point), Len(path) >= 1, NEW a \in Point, NEW b \in Point,
           path[1] \in {a, b}
    PROVE  /\ OnLeft(path, a, b) => OnLeft(Append(path, path[1]), a, b)
           /\ OnRight(path, a, b) => OnRight(Append(path, path[1]), a, b)
  <1>1. Len(path) \in Nat /\ 1 \in 1 .. Len(path)
    OBVIOUS
  <1>2. /\ Len(Append(path, path[1])) = Len(path) + 1
        /\ Append(path, path[1])[Len(path) + 1] = path[1]
        /\ \A i \in 1 .. Len(path) : Append(path, path[1])[i] = path[i]
    BY <1>1
  <1>3. \A i \in 1 .. Len(path) + 1 : i \in 1 .. Len(path) \/ i = Len(path) + 1
    BY <1>1
  <1> QED
    BY <1>1, <1>2, <1>3 DEF OnLeft, OnRight

\* Of three crossings counted, the first the sum of the others.
LEMMA Parity ==
    ASSUME NEW n1 \in Nat, NEW n2 \in Nat, NEW c \in {0, 1}
    PROVE  (n1 + n2) % 2 = 1 <=> \/ (n1 + c) % 2 = 1 /\ ~((n2 + c) % 2 = 1)
                                 \/ (n2 + c) % 2 = 1 /\ ~((n1 + c) % 2 = 1)
  OBVIOUS

\* Of the two parts of a boundary that a border cuts, at most one contains a
\* point, and one does exactly if the boundary does.
LEMMA InOnePart ==
    ASSUME NEW cut \in Cut, NEW p \in Point
    PROVE  Cardinality({part \in Parts(cut) : polygonContains(part, p)})
             = IF polygonContains(Whole(cut), p) THEN 1 ELSE 0
  <1> DEFINE A == cut.there
             B == cut.back
             a == A[1]
             b == B[1]
             one == Append(A, a)
             other == Append(B, b)
  <1>1. /\ A \in Seq(Point) /\ Len(A) >= 1 /\ B \in Seq(Point) /\ Len(B) >= 1
        /\ A[Len(A)] = b /\ B[Len(B)] = a /\ a \in Point /\ b \in Point
        /\ Head(A) = a /\ Head(B) = b
    <2>1. A \in Seq(Point) \ {<<>>} /\ B \in Seq(Point) \ {<<>>}
      BY CutAssumption
    <2>2. Len(A) \in Nat /\ Len(A) >= 1 /\ Len(B) \in Nat /\ Len(B) >= 1
      BY <2>1
    <2>3. Head(A) = a /\ Head(B) = b /\ a \in Point /\ b \in Point
      BY <2>1, <2>2
    <2>4. A[Len(A)] = Head(B) /\ B[Len(B)] = Head(A)
      BY CutAssumption
    <2> QED
      BY <2>1, <2>2, <2>3, <2>4
  <1>2. /\ a # b
        /\ \/ OnRight(A, a, b) /\ OnLeft(B, a, b)
           \/ OnLeft(A, a, b) /\ OnRight(B, a, b)
    <2>1. DOMAIN A = 1 .. Len(A) /\ DOMAIN B = 1 .. Len(B)
      BY <1>1
    <2> HIDE DEF A, B, a, b
    <2>2. Separates(cut)
      BY CutAssumption
    <2> USE DEF A, B
    <2> QED
      BY <1>1, <2>1, <2>2 DEF Separates, OnLeft, OnRight
  <1>3. PICK whole : whole = A \o Tail(B) /\ Whole(cut) = <<whole>>
    BY <1>1 DEF Whole
  <1>4. Parts(cut) = {<<one>>, <<other>>}
    BY <1>1 DEF Parts
  <1> HIDE DEF A, B, a, b
  <1>5. PICK c \in {0, 1} : c = (IF EdgeCrosses(a, b, p) THEN 1 ELSE 0)
                        /\ c = (IF EdgeCrosses(b, a, p) THEN 1 ELSE 0)
    BY <1>1, EdgeReversed
  <1>6. PICK n1 \in Nat : n1 = Cardinality(Crossed(A, p))
    BY <1>1, CrossedCount
  <1>7. PICK n2 \in Nat : n2 = Cardinality(Crossed(B, p))
    BY <1>1, CrossedCount
  <1>8. ClosedRing(whole) /\ Cardinality(Crossed(whole, p)) = n1 + n2
    <2>1. /\ whole \in Seq(Point) /\ Len(whole) = Len(A) + Len(B) - 1
          /\ whole[1] = A[1] /\ whole[Len(whole)] = B[Len(B)]
          /\ Cardinality(Crossed(whole, p))
               = Cardinality(Crossed(A, p)) + Cardinality(Crossed(B, p))
      <3>1. Joins(whole, A, B)
        BY <1>1, <1>3 DEF Joins, b
      <3> QED
        BY <3>1, JoinedCrossed
    <2> QED
      BY <1>1, <1>6, <1>7, <2>1 DEF ClosedRing, a
  <1>9. /\ ClosedRing(one) /\ Cardinality(Crossed(one, p)) = n1 + c
    BY <1>1, <1>5, <1>6, ClosedPath DEF a
  <1>10. /\ ClosedRing(other) /\ Cardinality(Crossed(other, p)) = n2 + c
    BY <1>1, <1>5, <1>7, ClosedPath DEF b
  <1>11. \/ OnRight(one, a, b) /\ OnLeft(other, a, b)
         \/ OnLeft(one, a, b) /\ OnRight(other, a, b)
    BY <1>1, <1>2, ClosedPathLeft DEF a, b
  <1>12. one # other
    <2>1. one[1] = a /\ other[1] = b
      BY <1>1 DEF a, b
    <2> QED
      BY <1>2, <2>1
  <1> HIDE DEF one, other
  <1>13. ~(ringContains(one, p) /\ ringContains(other, p))
    BY <1>1, <1>2, <1>9, <1>10, <1>11, Apart
  <1>14. ringContains(whole, p) <=> \/ ringContains(one, p) /\ ~ringContains(other, p)
                                    \/ ringContains(other, p) /\ ~ringContains(one, p)
    <2>1. /\ ringContains(whole, p) <=> (n1 + n2) % 2 = 1
          /\ ringContains(one, p) <=> (n1 + c) % 2 = 1
          /\ ringContains(other, p) <=> (n2 + c) % 2 = 1
      BY <1>8, <1>9, <1>10, RingCrossed
    <2> QED
      BY <2>1, Parity
  <1>15. {part \in Parts(cut) : polygonContains(part, p)}
           = (IF ringContains(one, p) THEN {<<one>>} ELSE {})
             \cup (IF ringContains(other, p) THEN {<<other>>} ELSE {})
    <2>1. /\ polygonContains(<<one>>, p) <=> ringContains(one, p)
          /\ polygonContains(<<other>>, p) <=> ringContains(other, p)
      BY OneRing
    <2> QED
      BY <1>4, <2>1
  <1>16. polygonContains(Whole(cut), p) <=> ringContains(whole, p)
    BY <1>3, OneRing
  <1>17. CASE ringContains(whole, p)
    <2>1. CASE ringContains(one, p)
      <3>1. {part \in Parts(cut) : polygonContains(part, p)} = {<<one>>}
        BY <1>13, <1>15, <2>1
      <3> QED
        BY <1>16, <1>17, <3>1, FS_Singleton
    <2>2. CASE ringContains(other, p)
      <3>1. {part \in Parts(cut) : polygonContains(part, p)} = {<<other>>}
        BY <1>13, <1>15, <2>2
      <3> QED
        BY <1>16, <1>17, <3>1, FS_Singleton
    <2>3. ringContains(one, p) \/ ringContains(other, p)
      BY <1>14, <1>17
    <2> QED
      BY <2>1, <2>2, <2>3
  <1>18. CASE ~ringContains(whole, p)
    <2>1. {part \in Parts(cut) : polygonContains(part, p)} = {}
      BY <1>13, <1>14, <1>15, <1>18
    <2>2. Cardinality({part \in Parts(cut) : polygonContains(part, p)}) = 0
      BY <2>1, FS_EmptySet
    <2> QED
      BY <1>16, <1>18, <2>2
  <1> QED
    BY <1>17, <1>18

LEMMA OnePartHolds == Inv => CellInOnePart
  <1> SUFFICES ASSUME Inv, status = "scanning", cell < Columns(boundary) * Rows(boundary),
                      NEW cut \in Cut, Whole(cut) = boundary
               PROVE  Cardinality({part \in Parts(cut) :
                                      polygonContains(part, Centre(boundary, cell))})
                        = IF polygonContains(boundary, Centre(boundary, cell)) THEN 1 ELSE 0
    BY DEF CellInOnePart
  <1>1. Scanned
    BY DEF Scanned
  <1>2. cell \in Nat /\ cell < Size
    BY <1>1, ScanFacts DEF Size
  <1>3. Centre(boundary, cell) \in Point
    BY <1>1, <1>2, CellPoint
  <1> QED
    BY <1>3, InOnePart

\* Whatever the boundary and whatever straight border cuts it: of the two parts
\* exactly one has, for polygonContains, the centre of a cell of the boundary's
\* own grid when the boundary has it, and none when the boundary has not.
THEOREM CellInOnePartHolds == Spec => []CellInOnePart
  BY Invariance, OnePartHolds, PTL

-----------------------------------------------------------------------------
(* Sums over the numbers of an interval, one at a time. *)

\* What holds of the first number and passes on to the next holds of all.
LEMMA Reaches ==
    ASSUME NEW low \in Int, NEW high \in Int, NEW S,
           low \in S, \A n \in low .. high - 1 : n \in S => n + 1 \in S
    PROVE  \A n \in low .. high : n \in S
  <1> DEFINE T == {n \in low .. high : n \notin S}
  <1>1. ASSUME T # {}
        PROVE  FALSE
    <2>1. IsFiniteSet(low .. high)
      BY FS_Interval
    <2>2. IsFiniteSet(T) /\ T \subseteq Int
      BY <2>1, FS_Subset
    <2>3. PICK m \in T : \A k \in T : m <= k
      <3> HIDE DEF T
      <3> QED
        BY <1>1, <2>2, HasLeast
    <2>4. m \in low .. high /\ m \notin S /\ m # low
      OBVIOUS
    <2>5. m - 1 \in low .. high - 1 /\ (m - 1) + 1 = m
      BY <2>4
    <2>6. m - 1 \notin T
      BY <2>3, <2>4
    <2>7. m - 1 \in S
      BY <2>5, <2>6
    <2> QED
      BY <2>4, <2>5, <2>7
  <1> QED
    BY <1>1

\* The sums of t from low on, starting from base.
Sums(f, low, high, base, t) ==
    f = [n \in low .. high |-> IF n = low THEN base ELSE f[n - 1] + t[n]]

\* There are sums.
LEMMA SumsExist ==
    ASSUME NEW low \in Int, NEW high \in Int, low <= high, NEW base \in Int,
           NEW t \in [low .. high -> Int]
    PROVE  \E f : Sums(f, low, high, base, t)
  <1> DEFINE S == {n \in Int : \E f : Sums(f, low, n, base, t)}
  <1>1. low \in S
    <2> DEFINE f == [n \in low .. low |-> base]
    <2>1. Sums(f, low, low, base, t)
      BY DEF Sums
    <2> QED
      BY <2>1
  <1>2. ASSUME NEW m \in low .. high - 1, m \in S
        PROVE  m + 1 \in S
    <2>1. PICK f : Sums(f, low, m, base, t)
      BY <1>2
    <2> DEFINE g == [n \in low .. m + 1 |-> IF n <= m THEN f[n] ELSE f[m] + t[m + 1]]
    <2>2. ASSUME NEW n \in low .. m + 1
          PROVE  g[n] = IF n = low THEN base ELSE g[n - 1] + t[n]
      <3>1. CASE n <= m
        <4>1. f[n] = IF n = low THEN base ELSE f[n - 1] + t[n]
          BY <2>1, <3>1 DEF Sums
        <4>2. n # low => n - 1 \in low .. m + 1 /\ n - 1 <= m
          BY <3>1
        <4> QED
          BY <3>1, <4>1, <4>2
      <3>2. CASE ~(n <= m)
        <4>1. n = m + 1 /\ n # low /\ n - 1 = m /\ m \in low .. m + 1
          BY <3>2
        <4> QED
          BY <4>1
      <3> QED
        BY <3>1, <3>2
    <2>3. g = [n \in low .. m + 1 |-> IF n = low THEN base ELSE g[n - 1] + t[n]]
      BY <2>2
    <2>4. Sums(g, low, m + 1, base, t)
      <3> HIDE DEF g
      <3> QED
        BY <2>3 DEF Sums
    <2> QED
      BY <2>4
  <1>3. high \in S
    <2> HIDE DEF S
    <2>1. \A n \in low .. high : n \in S
      BY <1>1, <1>2, Reaches
    <2> QED
      BY <2>1
  <1> QED
    BY <1>3

\* And what they are.
LEMMA SumsAre ==
    ASSUME NEW low \in Int, NEW high \in Int, low <= high, NEW base \in Int,
           NEW t \in [low .. high -> Int], NEW f, Sums(f, low, high, base, t)
    PROVE  /\ f \in [low .. high -> Int]
           /\ f[low] = base
           /\ \A n \in low + 1 .. high : f[n] = f[n - 1] + t[n]
  <1>1. f[low] = base
    BY DEF Sums
  <1>2. ASSUME NEW n \in low + 1 .. high
        PROVE  f[n] = f[n - 1] + t[n]
    BY DEF Sums
  <1> DEFINE S == {n \in low .. high : f[n] \in Int}
  <1>3. low \in S
    BY <1>1
  <1>4. ASSUME NEW n \in low .. high - 1, n \in S
        PROVE  n + 1 \in S
    <2>1. n + 1 \in low + 1 .. high /\ (n + 1) - 1 = n
      OBVIOUS
    <2>2. f[n + 1] = f[n] + t[n + 1]
      BY <1>2, <2>1
    <2>3. t[n + 1] \in Int /\ f[n] \in Int
      BY <1>4, <2>1
    <2> QED
      BY <2>1, <2>2, <2>3
  <1>5. \A n \in low .. high : n \in S
    <2> HIDE DEF S
    <2> QED
      BY <1>3, <1>4, Reaches
  <1>6. f \in [low .. high -> Int]
    BY <1>5 DEF Sums
  <1> QED
    BY <1>1, <1>2, <1>6

\* The term that an edge adds to the area, from each point to the next.
Shoelace(u, v) == u[1] * v[2] - v[1] * u[2]

NextPoint(ring, i) == ring[(i % Len(ring)) + 1]

\* The area of a ring is the sum of the terms of its edges.
LEMMA RingAreaSum ==
    ASSUME NEW ring \in Seq(Point), Len(ring) >= 1
    PROVE  \E f \in [0 .. Len(ring) -> Int] :
               /\ f[0] = 0
               /\ \A i \in 1 .. Len(ring) :
                      f[i] = f[i - 1] + Shoelace(ring[i], NextPoint(ring, i))
               /\ ringArea(ring) = f[Len(ring)]
  <1> DEFINE L == Len(ring)
             t == [i \in 0 .. L |-> IF i = 0 THEN 0 ELSE Shoelace(ring[i], NextPoint(ring, i))]
             sum == CHOOSE f : f = [i \in 0 .. L |->
                        IF i = 0 THEN 0
                        ELSE f[i - 1] + ring[i][1] * NextPoint(ring, i)[2]
                                      - NextPoint(ring, i)[1] * ring[i][2]]
  <1>1. L \in Nat /\ L >= 1
    OBVIOUS
  <1>2. ASSUME NEW i \in 1 .. L
        PROVE  /\ ring[i] \in Point /\ NextPoint(ring, i) \in Point
               /\ Shoelace(ring[i], NextPoint(ring, i)) \in Int
               /\ ring[i][1] * NextPoint(ring, i)[2] \in Int
               /\ NextPoint(ring, i)[1] * ring[i][2] \in Int
    <2>1. (i % L) + 1 \in 1 .. L
      BY <1>1
    <2>2. ring[i] \in Point /\ NextPoint(ring, i) \in Point
      BY <2>1 DEF NextPoint
    <2>3. /\ ring[i][1] \in Int /\ ring[i][2] \in Int
          /\ NextPoint(ring, i)[1] \in Int /\ NextPoint(ring, i)[2] \in Int
      BY <2>2 DEF Point
    <2>4. /\ ring[i][1] * NextPoint(ring, i)[2] \in Int
          /\ NextPoint(ring, i)[1] * ring[i][2] \in Int
      BY <2>3
    <2> QED
      BY <2>2, <2>4 DEF Shoelace
  <1>3. t \in [0 .. L -> Int]
    BY <1>1, <1>2
  <1> HIDE DEF t
  <1>4. PICK f : Sums(f, 0, L, 0, t)
    BY <1>1, <1>3, SumsExist
  <1>5. /\ f \in [0 .. L -> Int] /\ f[0] = 0
        /\ \A i \in 1 .. L : f[i] = f[i - 1] + t[i]
    BY <1>1, <1>3, <1>4, SumsAre
  <1>6. ringArea(ring) = sum[L]
    BY DEF ringArea, NextPoint
  <1>7. sum = [i \in 0 .. L |->
                  IF i = 0 THEN 0
                  ELSE sum[i - 1] + ring[i][1] * NextPoint(ring, i)[2]
                                  - NextPoint(ring, i)[1] * ring[i][2]]
    <2>1. ASSUME NEW i \in 1 .. L
          PROVE  f[i] = f[i - 1] + ring[i][1] * NextPoint(ring, i)[2]
                                 - NextPoint(ring, i)[1] * ring[i][2]
      <3>1. t[i] = ring[i][1] * NextPoint(ring, i)[2] - NextPoint(ring, i)[1] * ring[i][2]
        BY <1>1 DEF t, Shoelace
      <3>2. PICK x \in Int : x = ring[i][1] * NextPoint(ring, i)[2]
        BY <1>2
      <3>3. PICK y \in Int : y = NextPoint(ring, i)[1] * ring[i][2]
        BY <1>2
      <3>4. f[i - 1] \in Int
        BY <1>1, <1>5
      <3>5. f[i] = f[i - 1] + (x - y)
        BY <1>5, <3>1, <3>2, <3>3
      <3> QED
        BY <3>2, <3>3, <3>4, <3>5
    <2>2. f = [i \in 0 .. L |->
                  IF i = 0 THEN 0
                  ELSE f[i - 1] + ring[i][1] * NextPoint(ring, i)[2]
                                - NextPoint(ring, i)[1] * ring[i][2]]
      BY <1>1, <1>5, <2>1
    <2> QED
      BY <2>2
  <1> HIDE DEF sum
  <1>8. ASSUME NEW i \in 1 .. L, sum[i - 1] = f[i - 1]
        PROVE  sum[i] = f[i]
    <2>1. sum[i] = f[i - 1] + ring[i][1] * NextPoint(ring, i)[2]
                            - NextPoint(ring, i)[1] * ring[i][2]
      BY <1>1, <1>7, <1>8
    <2>2. PICK x \in Int : x = ring[i][1] * NextPoint(ring, i)[2]
      BY <1>2
    <2>3. PICK y \in Int : y = NextPoint(ring, i)[1] * ring[i][2]
      BY <1>2
    <2>4. f[i - 1] \in Int
      BY <1>1, <1>5
    <2>5. t[i] = x - y
      BY <1>1, <2>2, <2>3 DEF t, Shoelace
    <2>6. f[i] = f[i - 1] + (x - y)
      BY <1>5, <2>5
    <2>7. sum[i] = f[i - 1] + x - y
      BY <2>1, <2>2, <2>3
    <2> QED
      BY <2>2, <2>3, <2>4, <2>6, <2>7
  <1>9. sum[L] = f[L]
    <2> DEFINE S == {i \in 0 .. L : sum[i] = f[i]}
    <2>1. 0 \in S
      <3>1. sum[0] = 0
        BY <1>1, <1>7
      <3> QED
        BY <1>1, <1>5, <3>1
    <2>2. ASSUME NEW i \in 0 .. L - 1, i \in S
          PROVE  i + 1 \in S
      <3>1. i + 1 \in 1 .. L /\ (i + 1) - 1 = i
        BY <1>1
      <3>2. sum[i + 1] = f[i + 1]
        BY <1>8, <2>2, <3>1
      <3> QED
        BY <3>1, <3>2
    <2>3. \A i \in 0 .. L : i \in S
      <3> HIDE DEF S, L
      <3> QED
        BY <1>1, <2>1, <2>2, Reaches
    <2> QED
      BY <1>1, <2>3
  <1>10. \A i \in 1 .. L : f[i] = f[i - 1] + Shoelace(ring[i], NextPoint(ring, i))
    BY <1>1, <1>5 DEF t
  <1> QED
    BY <1>5, <1>6, <1>9, <1>10

-----------------------------------------------------------------------------
(* The cells on the left of an edge. *)

\* Quotient and remainder are unique.
LEMMA Composed ==
    ASSUME NEW c \in Nat, NEW i \in 0 .. c - 1, NEW j \in Nat
    PROVE  /\ c * j + i \in Nat
           /\ (c * j + i) \div c = j
           /\ (c * j + i) % c = i
  <1>1. PICK cj \in Nat : cj = c * j
    OBVIOUS
  <1>2. PICK n \in Nat : n = c * j + i /\ n = cj + i
    BY <1>1
  <1>3. c > 0 /\ i \in Int /\ 0 <= i /\ i < c
    OBVIOUS
  <1>4. PICK q \in Nat : q = n \div c
    BY <1>2, <1>3, Divided
  <1>5. PICK r \in 0 .. c - 1 : r = n % c
    BY <1>2, <1>3, Divided
  <1>6. PICK cq \in Nat : cq = c * q /\ n = cq + r
    BY <1>2, <1>3, <1>4, <1>5, Divided
  <1>7. ASSUME q < j
        PROVE  FALSE
    <2>1. PICK d \in Nat : j = q + 1 + d
      BY <1>7
    <2>2. PICK cd \in Nat : cd = c * d
      OBVIOUS
    <2>3. cj = cq + c + cd
      <3>1. c * j = c * q + c + c * d
        BY <1>4, <2>1
      <3> QED
        BY <1>1, <1>6, <2>2, <3>1
    <2> QED
      BY <1>2, <1>3, <1>5, <1>6, <2>2, <2>3
  <1>8. ASSUME j < q
        PROVE  FALSE
    <2>1. PICK d \in Nat : q = j + 1 + d
      BY <1>8
    <2>2. PICK cd \in Nat : cd = c * d
      OBVIOUS
    <2>3. cq = cj + c + cd
      <3>1. c * q = c * j + c + c * d
        BY <1>4, <2>1
      <3> QED
        BY <1>1, <1>6, <2>2, <3>1
    <2> QED
      BY <1>2, <1>3, <1>5, <1>6, <2>2, <2>3
  <1>9. q = j
    BY <1>4, <1>7, <1>8
  <1>10. r = i
    BY <1>1, <1>2, <1>3, <1>5, <1>6, <1>9
  <1> QED
    BY <1>2, <1>4, <1>5, <1>9, <1>10

\* The cells of the first x columns of rows y1 to y2 - 1.
Block(c, r, x, y1, y2) ==
    {n \in 0 .. c * r - 1 : n % c < x /\ y1 <= n \div c /\ n \div c < y2}

LEMMA BlockCount ==
    ASSUME NEW c \in Nat, NEW r \in Nat, NEW x \in 0 .. c,
           NEW y1 \in 0 .. r, NEW y2 \in y1 .. r
    PROVE  Cardinality(Block(c, r, x, y1, y2)) = x * (y2 - y1)
  <1> DEFINE B == Block(c, r, x, y1, y2)
             T == (0 .. x - 1) \X (y1 .. y2 - 1)
             f == [p \in T |-> c * p[2] + p[1]]
  <1>0. x \in Nat /\ y1 \in Nat /\ y2 \in Nat /\ y1 <= y2
    OBVIOUS
  <1>1. ASSUME NEW i \in 0 .. x - 1, NEW j \in y1 .. y2 - 1
        PROVE  /\ c * j + i \in B
               /\ (c * j + i) % c = i /\ (c * j + i) \div c = j
    <2>1. i \in 0 .. c - 1 /\ j \in Nat /\ j < r
      OBVIOUS
    <2>2. /\ c * j + i \in Nat
          /\ (c * j + i) % c = i /\ (c * j + i) \div c = j
      BY <2>1, Composed
    <2>3. c * j + i < c * r
      <3>1. PICK d \in Nat : r = j + 1 + d
        BY <2>1
      <3>2. PICK cd \in Nat : cd = c * d
        BY <3>1
      <3>3. PICK cj \in Nat : cj = c * j
        BY <2>1
      <3>4. c * r = cj + c + cd
        BY <2>1, <3>1, <3>2, <3>3
      <3> QED
        BY <2>1, <3>2, <3>3, <3>4
    <2>4. c * j + i \in 0 .. c * r - 1
      BY <2>2, <2>3
    <2> QED
      BY <2>1, <2>2, <2>4 DEF Block
  <1>2. f \in [T -> B]
    BY <1>1
  <1>3. ASSUME NEW p \in T, NEW q \in T, f[p] = f[q]
        PROVE  p = q
    <2>1. PICK i \in 0 .. x - 1, j \in y1 .. y2 - 1 : p = <<i, j>>
      OBVIOUS
    <2>2. PICK k \in 0 .. x - 1, l \in y1 .. y2 - 1 : q = <<k, l>>
      OBVIOUS
    <2>3. c * j + i = c * l + k
      BY <1>3, <2>1, <2>2
    <2>4. i = k /\ j = l
      BY <1>1, <2>3
    <2> QED
      BY <2>1, <2>2, <2>4
  <1>4. ASSUME NEW n \in B
        PROVE  \E p \in T : f[p] = n
    <2>1. n \in Nat /\ n < c * r
      BY DEF Block
    <2>2. c > 0 /\ n % c \in 0 .. c - 1 /\ n \div c \in Nat /\ n = c * (n \div c) + (n % c)
      BY <2>1, QuotientBelow, Divided
    <2>3. n % c \in 0 .. x - 1 /\ n \div c \in y1 .. y2 - 1
      BY <1>0, <2>2 DEF Block
    <2>4. <<n % c, n \div c>> \in T /\ f[<<n % c, n \div c>>] = n
      BY <2>2, <2>3
    <2> QED
      BY <2>4
  <1>5. IsFiniteSet(T) /\ Cardinality(T) = x * (y2 - y1)
    <2>1. IsFiniteSet(0 .. x - 1) /\ Cardinality(0 .. x - 1) = x
      BY <1>0, FS_Interval
    <2>2. IsFiniteSet(y1 .. y2 - 1) /\ Cardinality(y1 .. y2 - 1) = y2 - y1
      <3>1. PICK e \in Int : e = y2 - 1
        BY <1>0
      <3>2. IsFiniteSet(y1 .. e) /\ Cardinality(y1 .. e) = IF y1 > e THEN 0 ELSE e - y1 + 1
        BY <1>0, <3>1, FS_Interval
      <3> QED
        BY <1>0, <3>1, <3>2
    <2> QED
      BY <2>1, <2>2, FS_Product
  <1>6. f \in Bijection(T, B)
    <2> HIDE DEF f, T, B
    <2> QED
      BY <1>2, <1>3, <1>4 DEF Bijection, Injection, Surjection, IsInjective
  <1>7. ExistsBijection(T, B)
    BY <1>6 DEF ExistsBijection
  <1> HIDE DEF T, B
  <1>8. Cardinality(B) = x * (y2 - y1)
    BY <1>5, <1>7, FS_Bijection
  <1> QED
    BY <1>8 DEF B

\* The cells of the grid over a polygon.
CellsOf(polygon) == 0 .. Columns(polygon) * Rows(polygon) - 1

\* The cells that an edge from u up to v has on its left, and one down to v.
Rising(polygon, u, v) ==
    {n \in CellsOf(polygon) : u[2] < v[2] /\ EdgeCrosses(v, u, Centre(polygon, n))}
Falling(polygon, u, v) ==
    {n \in CellsOf(polygon) : v[2] < u[2] /\ EdgeCrosses(v, u, Centre(polygon, n))}

\* A point at the corners of cells, x columns and y rows from the bounds.
AtCorner(polygon, p, x, y) ==
    /\ x \in 0 .. Columns(polygon) /\ y \in 0 .. Rows(polygon)
    /\ p = <<polygonBounds(polygon).minX + 2 * x, polygonBounds(polygon).minY + 2 * y>>

\* The edge between two corners one above the other has the block beside it.
LEMMA UpEdgeBlock ==
    ASSUME NEW polygon \in Seq(Seq(Point)) \ {<<>>}, ValidPolygon(polygon),
           NEW u, NEW v, NEW x, NEW y1, NEW y2,
           AtCorner(polygon, u, x, y1), AtCorner(polygon, v, x, y2), y1 < y2
    PROVE  /\ {n \in CellsOf(polygon) : EdgeCrosses(u, v, Centre(polygon, n))}
                = Block(Columns(polygon), Rows(polygon), x, y1, y2)
           /\ {n \in CellsOf(polygon) : EdgeCrosses(v, u, Centre(polygon, n))}
                = Block(Columns(polygon), Rows(polygon), x, y1, y2)
           /\ u[2] < v[2]
  <1> DEFINE b == polygonBounds(polygon)
             c == Columns(polygon)
             r == Rows(polygon)
  <1>1. c \in Nat /\ r \in Nat /\ c * r \in Nat
    BY GridSize
  <1>2. PICK x0 \in Int, y0 \in Int : x0 = b.minX /\ y0 = b.minY
    BY BoundsType DEF BoxType
  <1>3. x \in 0 .. c /\ y1 \in 0 .. r /\ y2 \in 0 .. r
    BY DEF AtCorner
  <1> HIDE DEF b, c, r
  <1>4. x \in Int /\ y1 \in Int /\ y2 \in Int
    BY <1>1, <1>3
  <1>5. PICK e \in Int, s1 \in Int, s2 \in Int :
            /\ e = x0 + 2 * x /\ s1 = y0 + 2 * y1 /\ s2 = y0 + 2 * y2
    BY <1>4
  <1>6. u = <<e, s1>> /\ v = <<e, s2>> /\ u \in Point /\ v \in Point
    BY <1>2, <1>5 DEF AtCorner, Point, b
  <1>7. s1 < s2
    BY <1>4, <1>5
  <1>8. ASSUME NEW n \in CellsOf(polygon)
        PROVE  /\ EdgeCrosses(u, v, Centre(polygon, n))
                     <=> n % c < x /\ y1 <= n \div c /\ n \div c < y2
               /\ EdgeCrosses(u, v, Centre(polygon, n)) <=> EdgeCrosses(v, u, Centre(polygon, n))
    <2>1. n \in Nat /\ n < c * r
      BY <1>1 DEF CellsOf, c, r
    <2>2. n % c \in 0 .. c - 1 /\ n \div c \in 0 .. r - 1
      BY <1>1, <2>1, QuotientBelow
    <2>3. PICK i \in Int, j \in Int : i = n % c /\ j = n \div c
      BY <1>1, <2>2
    <2>4. PICK p1 \in Int, p2 \in Int : p1 = x0 + i * 2 + 1 /\ p2 = y0 + j * 2 + 1
      OBVIOUS
    <2>5. Centre(polygon, n) = <<p1, p2>> /\ <<p1, p2>> \in Point
      BY <1>2, <2>3, <2>4 DEF Centre, Res, Point, b, c
    <2>6. EdgeCrosses(u, v, <<p1, p2>>) <=> EdgeCrosses(v, u, <<p1, p2>>)
      BY <1>6, <2>5, EdgeReversed
    <2>7. EdgeCrosses(u, v, <<p1, p2>>) <=> s1 <= p2 /\ p2 < s2 /\ p1 < e
      <3>1. CASE s1 <= p2 /\ p2 < s2
        <4>1. EdgeCrosses(u, v, <<p1, p2>>) <=> Side(u, v, <<p1, p2>>) > 0
          BY <1>6, <2>5, <3>1, UpwardEdge
        <4>2. Side(u, v, <<p1, p2>>) = (e - e) * (p2 - s1) - (s2 - s1) * (p1 - e)
          BY <1>6 DEF Side
        <4>3. PICK h \in Int : h = s2 - s1 /\ h > 0
          BY <1>7
        <4>4. PICK d \in Int : d = p1 - e
          OBVIOUS
        <4>5. Side(u, v, <<p1, p2>>) = -(h * d)
          BY <4>2, <4>3, <4>4
        <4>6. -(h * d) > 0 <=> d < 0
          BY <4>3
        <4> QED
          BY <3>1, <4>1, <4>4, <4>5, <4>6
      <3>2. CASE ~(s1 <= p2 /\ p2 < s2)
        <4>1. ~((s1 > p2) # (s2 > p2))
          BY <1>7, <3>2
        <4> QED
          BY <1>6, <3>2, <4>1 DEF EdgeCrosses
      <3> QED
        BY <3>1, <3>2
    <2>8. p1 < e <=> i < x
      BY <1>4, <1>5, <2>4
    <2>9. s1 <= p2 <=> y1 <= j
      BY <1>4, <1>5, <2>4
    <2>10. p2 < s2 <=> j < y2
      BY <1>4, <1>5, <2>4
    <2> QED
      BY <2>3, <2>5, <2>6, <2>7, <2>8, <2>9, <2>10
  <1>9. u[2] < v[2]
    BY <1>6, <1>7
  <1> QED
    BY <1>8, <1>9 DEF CellsOf, Block, c, r

\* The count of the cells beside an edge between corners, which runs along an
\* axis: it is the edge's term of the area, up to what the next edge gives back.
Rest(x0, p) == 2 * x0 * p[2] - p[1] * p[2]

LEMMA EdgeTerm ==
    ASSUME NEW polygon \in Seq(Seq(Point)) \ {<<>>}, ValidPolygon(polygon),
           NEW u, NEW v, NEW x1, NEW x2, NEW y1, NEW y2,
           AtCorner(polygon, u, x1, y1), AtCorner(polygon, v, x2, y2), x1 = x2 \/ y1 = y2
    PROVE  LET x0 == polygonBounds(polygon).minX
           IN  Shoelace(u, v)
                 = 8 * (Cardinality(Rising(polygon, u, v)) - Cardinality(Falling(polygon, u, v)))
                   + Rest(x0, v) - Rest(x0, u)
  <1> DEFINE b == polygonBounds(polygon)
             c == Columns(polygon)
             r == Rows(polygon)
  <1>1. c \in Nat /\ r \in Nat
    BY GridSize
  <1>2. PICK x0 \in Int, y0 \in Int : x0 = b.minX /\ y0 = b.minY
    BY BoundsType DEF BoxType
  <1>3. x1 \in 0 .. c /\ x2 \in 0 .. c /\ y1 \in 0 .. r /\ y2 \in 0 .. r
    BY DEF AtCorner
  <1>4. /\ x1 \in Int /\ x2 \in Int /\ y1 \in Int /\ y2 \in Int
    BY <1>1, <1>3
  <1>5. u = <<x0 + 2 * x1, y0 + 2 * y1>> /\ v = <<x0 + 2 * x2, y0 + 2 * y2>>
    BY <1>2 DEF AtCorner
  <1>6. /\ Shoelace(u, v) = (x0 + 2 * x1) * (y0 + 2 * y2) - (x0 + 2 * x2) * (y0 + 2 * y1)
        /\ Rest(x0, v) = 2 * x0 * (y0 + 2 * y2) - (x0 + 2 * x2) * (y0 + 2 * y2)
        /\ Rest(x0, u) = 2 * x0 * (y0 + 2 * y1) - (x0 + 2 * x1) * (y0 + 2 * y1)
    BY <1>5 DEF Shoelace, Rest
  <1>7. x1 = x2 => Shoelace(u, v) = 8 * (x1 * (y2 - y1)) + Rest(x0, v) - Rest(x0, u)
    BY <1>4, <1>6
  <1>8. y1 = y2 => Shoelace(u, v) = Rest(x0, v) - Rest(x0, u)
    BY <1>4, <1>6
  <1>9. CASE y1 = y2
    <2>1. Rising(polygon, u, v) = {} /\ Falling(polygon, u, v) = {}
      BY <1>2, <1>4, <1>5, <1>9 DEF Rising, Falling
    <2>2. Cardinality(Rising(polygon, u, v)) = 0 /\ Cardinality(Falling(polygon, u, v)) = 0
      BY <2>1, FS_EmptySet
    <2>3. Rest(x0, v) \in Int /\ Rest(x0, u) \in Int
      BY <1>4, <1>6
    <2> QED
      BY <1>2, <1>8, <1>9, <2>2, <2>3
  <1>10. CASE x1 = x2 /\ y1 < y2
    <2>1. Rising(polygon, u, v) = Block(c, r, x1, y1, y2) /\ Falling(polygon, u, v) = {}
      <3>1. /\ {n \in CellsOf(polygon) : EdgeCrosses(v, u, Centre(polygon, n))}
                 = Block(c, r, x1, y1, y2)
            /\ u[2] < v[2]
        BY <1>10, UpEdgeBlock
      <3>2. ~(v[2] < u[2])
        BY <1>2, <1>4, <1>5, <1>10
      <3> QED
        BY <3>1, <3>2 DEF Rising, Falling
    <2>2. Cardinality(Falling(polygon, u, v)) = 0
      BY <2>1, FS_EmptySet
    <2>3. Cardinality(Rising(polygon, u, v)) = x1 * (y2 - y1)
      <3>1. c \in Nat /\ r \in Nat /\ x1 \in 0 .. c /\ y1 \in 0 .. r /\ y2 \in y1 .. r
        BY <1>1, <1>3, <1>10
      <3>2. Cardinality(Block(c, r, x1, y1, y2)) = x1 * (y2 - y1)
        <4> HIDE DEF c, r
        <4> QED
          BY <3>1, BlockCount
      <3> QED
        BY <2>1, <3>2
    <2>4. Rest(x0, v) \in Int /\ Rest(x0, u) \in Int /\ x1 * (y2 - y1) \in Int
      BY <1>4, <1>6
    <2> QED
      BY <1>2, <1>7, <1>10, <2>2, <2>3, <2>4
  <1>11. CASE x1 = x2 /\ y2 < y1
    <2>1. Falling(polygon, u, v) = Block(c, r, x1, y2, y1) /\ Rising(polygon, u, v) = {}
      <3>1. /\ {n \in CellsOf(polygon) : EdgeCrosses(v, u, Centre(polygon, n))}
                 = Block(c, r, x1, y2, y1)
            /\ v[2] < u[2]
        BY <1>11, UpEdgeBlock
      <3>2. ~(u[2] < v[2])
        BY <1>2, <1>4, <1>5, <1>11
      <3> QED
        BY <3>1, <3>2 DEF Rising, Falling
    <2>2. Cardinality(Rising(polygon, u, v)) = 0
      BY <2>1, FS_EmptySet
    <2>3. Cardinality(Falling(polygon, u, v)) = x1 * (y1 - y2)
      <3>1. c \in Nat /\ r \in Nat /\ x1 \in 0 .. c /\ y2 \in 0 .. r /\ y1 \in y2 .. r
        BY <1>1, <1>3, <1>11
      <3>2. Cardinality(Block(c, r, x1, y2, y1)) = x1 * (y1 - y2)
        <4> HIDE DEF c, r
        <4> QED
          BY <3>1, BlockCount
      <3> QED
        BY <2>1, <3>2
    <2>4. PICK a \in Int : a = x1 * (y1 - y2)
      BY <1>4
    <2>5. x1 * (y2 - y1) = -a
      BY <1>4, <2>4
    <2>6. Rest(x0, v) \in Int /\ Rest(x0, u) \in Int
      BY <1>4, <1>6
    <2> QED
      BY <1>2, <1>7, <1>11, <2>2, <2>3, <2>4, <2>5, <2>6
  <1> QED
    BY <1>4, <1>9, <1>10, <1>11

\* The corners of a polygon are within its bounds.
LEMMA PointInBounds ==
    ASSUME NEW polygon \in Seq(Seq(Point)) \ {<<>>}, NEW p \in Points(polygon)
    PROVE  LET b == polygonBounds(polygon)
           IN  /\ p \in Point
               /\ b.minX \in Int /\ b.maxX \in Int /\ b.minY \in Int /\ b.maxY \in Int
               /\ b.minX <= p[1] /\ p[1] <= b.maxX
               /\ b.minY <= p[2] /\ p[2] <= b.maxY
  <1> DEFINE P == Points(polygon)
             xs == {q[1] : q \in P}
             ys == {q[2] : q \in P}
             fx == [q \in P |-> q[1]]
             fy == [q \in P |-> q[2]]
  <1>1. IsFiniteSet(P) /\ P \subseteq Point /\ p \in P
    BY PointsFinite
  <1> HIDE DEF P
  <1>2. xs \subseteq Int /\ ys \subseteq Int /\ p[1] \in xs /\ p[2] \in ys
    BY <1>1 DEF Point
  <1>3. fx \in [P -> Int] /\ fy \in [P -> Int]
    BY <1>1 DEF Point
  <1>4. {fx[q] : q \in P} = xs /\ {fy[q] : q \in P} = ys
    OBVIOUS
  <1>5. IsFiniteSet({fx[q] : q \in P}) /\ IsFiniteSet({fy[q] : q \in P})
    <2> HIDE DEF fx, fy
    <2> QED
      BY <1>1, <1>3, FiniteImage
  <1>6. IsFiniteSet(xs) /\ IsFiniteSet(ys)
    BY <1>4, <1>5
  <1>7. polygonBounds(polygon) = [minX |-> Least(xs), minY |-> Least(ys),
                                  maxX |-> Greatest(xs), maxY |-> Greatest(ys)]
    BY DEF polygonBounds, P
  <1> HIDE DEF xs, ys
  <1>8. /\ Least(xs) \in Int /\ Greatest(xs) \in Int
        /\ Least(ys) \in Int /\ Greatest(ys) \in Int
        /\ Least(xs) <= p[1] /\ p[1] <= Greatest(xs)
        /\ Least(ys) <= p[2] /\ p[2] <= Greatest(ys)
    BY <1>2, <1>6, LeastIs, GreatestIs
  <1> QED
    BY <1>1, <1>7, <1>8

\* A whole number of cells within a length.
LEMMA WholeCells ==
    ASSUME NEW low \in Int, NEW high \in Int, NEW x \in Int,
           low <= x, x <= high, (x - low) % 2 = 0
    PROVE  \E k \in 0 .. (high - low + 1) \div 2 : x = low + 2 * k
  <1>1. PICK d \in Nat : d = x - low
    OBVIOUS
  <1>2. PICK k \in Nat : d = 2 * k
    <2>1. d % 2 = 0
      BY <1>1
    <2>2. d \div 2 \in Nat /\ d = 2 * (d \div 2) + (d % 2)
      BY Divided
    <2> QED
      BY <2>1, <2>2
  <1>3. k \in 0 .. (high - low + 1) \div 2
    BY <1>1, <1>2
  <1> QED
    BY <1>1, <1>2, <1>3

\* A corner of a polygon on the grid is a corner of cells.
LEMMA CornerOfCells ==
    ASSUME NEW polygon \in Seq(Seq(Point)) \ {<<>>}, ValidPolygon(polygon),
           NEW p \in Points(polygon),
           (p[1] - polygonBounds(polygon).minX) % 2 = 0,
           (p[2] - polygonBounds(polygon).minY) % 2 = 0
    PROVE  \E x, y : AtCorner(polygon, p, x, y)
  <1> DEFINE b == polygonBounds(polygon)
  <1>1. /\ p \in Point
        /\ b.minX \in Int /\ b.maxX \in Int /\ b.minY \in Int /\ b.maxY \in Int
        /\ b.minX <= p[1] /\ p[1] <= b.maxX
        /\ b.minY <= p[2] /\ p[2] <= b.maxY
    BY PointInBounds
  <1>2. PICK p1 \in Int, p2 \in Int : p = <<p1, p2>>
    BY <1>1 DEF Point
  <1>3. /\ Columns(polygon) = (b.maxX - b.minX + 1) \div 2
        /\ Rows(polygon) = (b.maxY - b.minY + 1) \div 2
    BY <1>1 DEF Columns, Rows, Cells, Res, Width, Height
  <1> HIDE DEF b
  <1>4. PICK x \in 0 .. Columns(polygon) : p1 = b.minX + 2 * x
    <2>1. PICK low \in Int, high \in Int : low = b.minX /\ high = b.maxX
      BY <1>1
    <2>2. (p1 - low) % 2 = 0 /\ low <= p1 /\ p1 <= high
      BY <1>1, <1>2, <2>1 DEF b
    <2>3. PICK k \in 0 .. (high - low + 1) \div 2 : p1 = low + 2 * k
      BY <2>2, WholeCells
    <2> QED
      BY <1>3, <2>1, <2>3
  <1>5. PICK y \in 0 .. Rows(polygon) : p2 = b.minY + 2 * y
    <2>1. PICK low \in Int, high \in Int : low = b.minY /\ high = b.maxY
      BY <1>1
    <2>2. (p2 - low) % 2 = 0 /\ low <= p2 /\ p2 <= high
      BY <1>1, <1>2, <2>1 DEF b
    <2>3. PICK k \in 0 .. (high - low + 1) \div 2 : p2 = low + 2 * k
      BY <2>2, WholeCells
    <2> QED
      BY <1>3, <2>1, <2>3
  <1>6. AtCorner(polygon, p, x, y)
    BY <1>2, <1>4, <1>5 DEF AtCorner, b
  <1> QED
    BY <1>6

\* What a ring of a polygon on the grid is.
GridRing(polygon, ring) ==
    /\ polygon \in Seq(Seq(Point)) \ {<<>>} /\ ValidPolygon(polygon) /\ OnGrid(polygon)
    /\ \E r \in DOMAIN polygon : ring = polygon[r]
    /\ ClosedRing(ring)

\* The term of an edge of such a ring.
LEMMA RingEdge ==
    ASSUME NEW polygon, NEW ring, GridRing(polygon, ring), NEW i \in 2 .. Len(ring)
    PROVE  LET u == ring[i - 1]
               v == ring[i]
               x0 == polygonBounds(polygon).minX
           IN  Shoelace(u, v)
                 = 8 * (Cardinality(Rising(polygon, u, v)) - Cardinality(Falling(polygon, u, v)))
                   + Rest(x0, v) - Rest(x0, u)
  <1> DEFINE b == polygonBounds(polygon)
             u == ring[i - 1]
             v == ring[i]
  <1>1. /\ polygon \in Seq(Seq(Point)) \ {<<>>} /\ ValidPolygon(polygon)
        /\ ring \in Seq(Point) /\ Len(ring) \in Nat /\ ring[1] = ring[Len(ring)]
    BY DEF GridRing, ClosedRing
  <1>2. PICK r \in DOMAIN polygon : ring = polygon[r]
    BY DEF GridRing
  <1>3. \A j \in 1 .. Len(ring) : ring[j] \in Points(polygon)
    BY <1>1, <1>2 DEF Points
  <1>4. \A j \in 2 .. Len(ring) :
            /\ ring[j - 1][1] = ring[j][1] \/ ring[j - 1][2] = ring[j][2]
            /\ (ring[j - 1][1] - b.minX) % 2 = 0
            /\ (ring[j - 1][2] - b.minY) % 2 = 0
    BY <1>2 DEF OnGrid, GridRing, Res
  <1> HIDE DEF b
  <1>5. \A j \in 1 .. Len(ring) - 1 :
            (ring[j][1] - b.minX) % 2 = 0 /\ (ring[j][2] - b.minY) % 2 = 0
    <2>1. ASSUME NEW j \in 1 .. Len(ring) - 1
          PROVE  (ring[j][1] - b.minX) % 2 = 0 /\ (ring[j][2] - b.minY) % 2 = 0
      <3>1. j + 1 \in 2 .. Len(ring) /\ (j + 1) - 1 = j
        BY <1>1
      <3> QED
        BY <1>4, <3>1
    <2> QED
      BY <2>1
  <1>6. \A j \in 1 .. Len(ring) :
            (ring[j][1] - b.minX) % 2 = 0 /\ (ring[j][2] - b.minY) % 2 = 0
    <2>1. 1 \in 1 .. Len(ring) - 1
      BY <1>1
    <2>2. \A j \in 1 .. Len(ring) : j \in 1 .. Len(ring) - 1 \/ j = Len(ring)
      BY <1>1
    <2> QED
      BY <1>1, <1>5, <2>1, <2>2
  <1>7. i \in 1 .. Len(ring) /\ i - 1 \in 1 .. Len(ring)
    BY <1>1
  <1>8. PICK x1, y1 : AtCorner(polygon, u, x1, y1)
    BY <1>1, <1>3, <1>6, <1>7, CornerOfCells DEF b
  <1>9. PICK x2, y2 : AtCorner(polygon, v, x2, y2)
    BY <1>1, <1>3, <1>6, <1>7, CornerOfCells DEF b
  <1>10. x1 = x2 \/ y1 = y2
    <2>1. u[1] = v[1] \/ u[2] = v[2]
      BY <1>4
    <2>2. Columns(polygon) \in Nat /\ Rows(polygon) \in Nat
      BY <1>1, GridSize
    <2>3. PICK x0 \in Int, y0 \in Int : x0 = b.minX /\ y0 = b.minY
      BY <1>1, BoundsType DEF b, BoxType
    <2>4. x1 \in Int /\ x2 \in Int /\ y1 \in Int /\ y2 \in Int
      BY <1>8, <1>9, <2>2 DEF AtCorner
    <2>5. u = <<x0 + 2 * x1, y0 + 2 * y1>> /\ v = <<x0 + 2 * x2, y0 + 2 * y2>>
      BY <1>8, <1>9, <2>3 DEF AtCorner, b
    <2> QED
      BY <2>1, <2>4, <2>5
  <1> QED
    BY <1>1, <1>8, <1>9, <1>10, EdgeTerm

\* The pairs of M with the first of I and the second of N.
In(M, I, N) == {p \in I \X N : p \in M}

LEMMA InFinite ==
    ASSUME NEW M, NEW I, NEW N, IsFiniteSet(I), IsFiniteSet(N)
    PROVE  IsFiniteSet(In(M, I, N)) /\ Cardinality(In(M, I, N)) \in Nat
  <1>1. IsFiniteSet(I \X N)
    BY FS_Product
  <1>2. In(M, I, N) \subseteq I \X N
    BY DEF In
  <1>3. IsFiniteSet(In(M, I, N))
    BY <1>1, <1>2, FS_Subset
  <1> QED
    BY <1>3, FS_CardinalityType

LEMMA InPair ==
    ASSUME NEW M, NEW I, NEW N
    PROVE  /\ \A i, n : <<i, n>> \in In(M, I, N) <=> i \in I /\ n \in N /\ <<i, n>> \in M
           /\ \A p \in In(M, I, N) : \E i \in I, n \in N : p = <<i, n>>
  BY DEF In

\* One more row.
LEMMA AddRow ==
    ASSUME NEW M, NEW I, NEW N, IsFiniteSet(I), IsFiniteSet(N), NEW i, i \notin I
    PROVE  Cardinality(In(M, I \cup {i}, N))
             = Cardinality(In(M, I, N)) + Cardinality({n \in N : <<i, n>> \in M})
  <1> DEFINE S == {n \in N : <<i, n>> \in M}
             T == {<<i, n>> : n \in S}
             f == [n \in S |-> <<i, n>>]
  <1>1. In(M, I \cup {i}, N) = In(M, I, N) \cup T
    <2>1. ASSUME NEW p \in In(M, I \cup {i}, N)
          PROVE  p \in In(M, I, N) \cup T
      <3>1. PICK k \in I \cup {i}, n \in N : p = <<k, n>>
        BY InPair
      <3> QED
        BY <2>1, <3>1, InPair
    <2>2. ASSUME NEW p \in In(M, I, N)
          PROVE  p \in In(M, I \cup {i}, N)
      <3>1. PICK k \in I, n \in N : p = <<k, n>>
        BY InPair
      <3> QED
        BY <2>2, <3>1, InPair
    <2>3. ASSUME NEW p \in T
          PROVE  p \in In(M, I \cup {i}, N)
      <3>1. PICK n \in S : p = <<i, n>>
        BY <2>3
      <3> QED
        BY <3>1, InPair
    <2> QED
      BY <2>1, <2>2, <2>3
  <1>2. In(M, I, N) \cap T = {}
    <2>1. ASSUME NEW p \in In(M, I, N), p \in T
          PROVE  FALSE
      <3>1. PICK k \in I, n \in N : p = <<k, n>>
        BY InPair
      <3>2. PICK m \in S : p = <<i, m>>
        BY <2>1
      <3> QED
        BY <3>1, <3>2
    <2> QED
      BY <2>1
  <1>3. IsFiniteSet(S)
    BY FS_Subset
  <1>4. f \in Bijection(S, T)
    <2>1. f \in [S -> T] /\ \A m, n \in S : f[m] = f[n] => m = n
      OBVIOUS
    <2>2. \A t \in T : \E n \in S : f[n] = t
      OBVIOUS
    <2> HIDE DEF f, S, T
    <2> QED
      BY <2>1, <2>2 DEF Bijection, Injection, Surjection, IsInjective
  <1> HIDE DEF S, T
  <1>5. IsFiniteSet(T) /\ Cardinality(T) = Cardinality(S)
    <2>1. ExistsBijection(S, T)
      BY <1>4 DEF ExistsBijection
    <2> QED
      BY <1>3, <2>1, FS_Bijection
  <1>6. IsFiniteSet(In(M, I, N))
    BY InFinite
  <1>7. Cardinality(In(M, I \cup {i}, N)) = Cardinality(In(M, I, N)) + Cardinality(S)
    BY <1>1, <1>2, <1>5, <1>6, Disjoint
  <1> QED
    BY <1>7 DEF S

\* One more column.
LEMMA AddColumn ==
    ASSUME NEW M, NEW I, NEW N, IsFiniteSet(I), IsFiniteSet(N), NEW n, n \notin N
    PROVE  Cardinality(In(M, I, N \cup {n}))
             = Cardinality(In(M, I, N)) + Cardinality({i \in I : <<i, n>> \in M})
  <1> DEFINE S == {i \in I : <<i, n>> \in M}
             T == {<<i, n>> : i \in S}
             f == [i \in S |-> <<i, n>>]
  <1>1. In(M, I, N \cup {n}) = In(M, I, N) \cup T
    <2>1. ASSUME NEW p \in In(M, I, N \cup {n})
          PROVE  p \in In(M, I, N) \cup T
      <3>1. PICK i \in I, k \in N \cup {n} : p = <<i, k>>
        BY InPair
      <3> QED
        BY <2>1, <3>1, InPair
    <2>2. ASSUME NEW p \in In(M, I, N)
          PROVE  p \in In(M, I, N \cup {n})
      <3>1. PICK i \in I, k \in N : p = <<i, k>>
        BY InPair
      <3> QED
        BY <2>2, <3>1, InPair
    <2>3. ASSUME NEW p \in T
          PROVE  p \in In(M, I, N \cup {n})
      <3>1. PICK i \in S : p = <<i, n>>
        BY <2>3
      <3> QED
        BY <3>1, InPair
    <2> QED
      BY <2>1, <2>2, <2>3
  <1>2. In(M, I, N) \cap T = {}
    <2>1. ASSUME NEW p \in In(M, I, N), p \in T
          PROVE  FALSE
      <3>1. PICK i \in I, k \in N : p = <<i, k>>
        BY InPair
      <3>2. PICK j \in S : p = <<j, n>>
        BY <2>1
      <3> QED
        BY <3>1, <3>2
    <2> QED
      BY <2>1
  <1>3. IsFiniteSet(S)
    BY FS_Subset
  <1>4. f \in Bijection(S, T)
    <2>1. f \in [S -> T] /\ \A i, j \in S : f[i] = f[j] => i = j
      OBVIOUS
    <2>2. \A t \in T : \E i \in S : f[i] = t
      OBVIOUS
    <2> HIDE DEF f, S, T
    <2> QED
      BY <2>1, <2>2 DEF Bijection, Injection, Surjection, IsInjective
  <1> HIDE DEF S, T
  <1>5. IsFiniteSet(T) /\ Cardinality(T) = Cardinality(S)
    <2>1. ExistsBijection(S, T)
      BY <1>4 DEF ExistsBijection
    <2> QED
      BY <1>3, <2>1, FS_Bijection
  <1>6. IsFiniteSet(In(M, I, N))
    BY InFinite
  <1>7. Cardinality(In(M, I, N \cup {n})) = Cardinality(In(M, I, N)) + Cardinality(S)
    BY <1>1, <1>2, <1>5, <1>6, Disjoint
  <1> QED
    BY <1>7 DEF S

-----------------------------------------------------------------------------
(* The pairs of an edge and a cell on its left, counted edge by edge, which  *)
(* gives the area of a ring, and cell by cell, which gives its windings.     *)

\* The edges of a ring that go up, and those that go down, each with the cells
\* on its left.
Ups(polygon, ring) ==
    {m \in (2 .. Len(ring)) \X CellsOf(polygon) :
        m[2] \in Rising(polygon, ring[m[1] - 1], ring[m[1]])}
Downs(polygon, ring) ==
    {m \in (2 .. Len(ring)) \X CellsOf(polygon) :
        m[2] \in Falling(polygon, ring[m[1] - 1], ring[m[1]])}

LEMMA CellsFinite ==
    ASSUME NEW polygon \in Seq(Seq(Point)) \ {<<>>}, ValidPolygon(polygon)
    PROVE  /\ CellsOf(polygon) \subseteq Nat /\ IsFiniteSet(CellsOf(polygon))
           /\ \A p, q : /\ Cardinality(Rising(polygon, p, q)) \in Nat
                        /\ Cardinality(Falling(polygon, p, q)) \in Nat
  <1>1. PICK s \in Nat : s = Columns(polygon) * Rows(polygon)
    BY GridSize
  <1>2. IsFiniteSet(0 .. s - 1) /\ 0 .. s - 1 \subseteq Nat
    BY FS_Interval
  <1>3. IsFiniteSet(CellsOf(polygon)) /\ CellsOf(polygon) \subseteq Nat
    BY <1>1, <1>2 DEF CellsOf
  <1>4. ASSUME NEW p, NEW q
        PROVE  /\ Cardinality(Rising(polygon, p, q)) \in Nat
               /\ Cardinality(Falling(polygon, p, q)) \in Nat
    <2>1. /\ Rising(polygon, p, q) \subseteq CellsOf(polygon)
          /\ Falling(polygon, p, q) \subseteq CellsOf(polygon)
      BY DEF Rising, Falling
    <2>2. IsFiniteSet(Rising(polygon, p, q)) /\ IsFiniteSet(Falling(polygon, p, q))
      BY <1>3, <2>1, FS_Subset
    <2> QED
      BY <2>2, FS_CardinalityType
  <1> QED
    BY <1>3, <1>4

\* The area of a ring, counted edge by edge.
LEMMA RingSum ==
    ASSUME NEW polygon, NEW ring, GridRing(polygon, ring)
    PROVE  LET L == Len(ring)
               C == CellsOf(polygon)
           IN  ringArea(ring) = 8 * (Cardinality(In(Ups(polygon, ring), 2 .. L, C))
                                     - Cardinality(In(Downs(polygon, ring), 2 .. L, C)))
  <1> DEFINE L == Len(ring)
             C == CellsOf(polygon)
             U == Ups(polygon, ring)
             D == Downs(polygon, ring)
             u(k) == Cardinality(In(U, 2 .. k, C))
             d(k) == Cardinality(In(D, 2 .. k, C))
             rise(k) == Cardinality(Rising(polygon, ring[k - 1], ring[k]))
             fall(k) == Cardinality(Falling(polygon, ring[k - 1], ring[k]))
  <1>1. /\ polygon \in Seq(Seq(Point)) \ {<<>>} /\ ValidPolygon(polygon)
        /\ ring \in Seq(Point) /\ L \in Nat /\ L >= 1 /\ ring[1] = ring[L]
    BY DEF GridRing, ClosedRing
  <1>2. PICK x0 \in Int : x0 = polygonBounds(polygon).minX
    BY <1>1, BoundsType DEF BoxType
  <1>3. \A k \in 1 .. L : ring[k] \in Point /\ Rest(x0, ring[k]) \in Int
    <2>1. ASSUME NEW k \in 1 .. L
          PROVE  ring[k] \in Point /\ Rest(x0, ring[k]) \in Int
      <3>1. PICK p \in Point : p = ring[k]
        BY <1>1
      <3>2. PICK p1 \in Int, p2 \in Int : p = <<p1, p2>>
        BY DEF Point
      <3>3. 2 * x0 * p2 \in Int /\ p1 * p2 \in Int
        OBVIOUS
      <3>4. Rest(x0, p) \in Int
        BY <3>2, <3>3 DEF Rest
      <3> QED
        BY <3>1, <3>4
    <2> QED
      BY <2>1
  <1>4. IsFiniteSet(C)
    BY <1>1, CellsFinite
  <1>5. \A k \in 2 .. L : rise(k) \in Nat /\ fall(k) \in Nat
    BY <1>1, CellsFinite
  <1>6. \A k \in 1 .. L : u(k) \in Nat /\ d(k) \in Nat
    <2>1. ASSUME NEW k \in 1 .. L
          PROVE  u(k) \in Nat /\ d(k) \in Nat
      <3>1. IsFiniteSet(2 .. k)
        BY FS_Interval
      <3> HIDE DEF U, D, C
      <3> QED
        BY <1>4, <3>1, InFinite
    <2> QED
      BY <2>1
  <1>7. u(1) = 0 /\ d(1) = 0
    <2>1. In(U, 2 .. 1, C) = {} /\ In(D, 2 .. 1, C) = {}
      BY DEF In
    <2> QED
      BY <2>1, FS_EmptySet
  <1>8. ASSUME NEW k \in 1 .. L - 1
        PROVE  u(k + 1) = u(k) + rise(k + 1) /\ d(k + 1) = d(k) + fall(k + 1)
    <2>1. k + 1 \in 2 .. L /\ k + 1 \notin 2 .. k /\ 2 .. k + 1 = (2 .. k) \cup {k + 1}
      BY <1>1
    <2>2. IsFiniteSet(2 .. k)
      BY FS_Interval
    <2>3. /\ Rising(polygon, ring[(k + 1) - 1], ring[k + 1]) \subseteq C
          /\ Falling(polygon, ring[(k + 1) - 1], ring[k + 1]) \subseteq C
      BY DEF Rising, Falling
    <2>4. /\ {n \in C : <<k + 1, n>> \in U} = Rising(polygon, ring[(k + 1) - 1], ring[k + 1])
          /\ {n \in C : <<k + 1, n>> \in D} = Falling(polygon, ring[(k + 1) - 1], ring[k + 1])
      BY <2>1, <2>3 DEF Ups, Downs
    <2>5. PICK I : I = 2 .. k /\ IsFiniteSet(I) /\ k + 1 \notin I
      BY <2>1, <2>2
    <2> HIDE DEF U, D, C
    <2>6. /\ Cardinality(In(U, I \cup {k + 1}, C))
               = Cardinality(In(U, I, C)) + Cardinality({n \in C : <<k + 1, n>> \in U})
          /\ Cardinality(In(D, I \cup {k + 1}, C))
               = Cardinality(In(D, I, C)) + Cardinality({n \in C : <<k + 1, n>> \in D})
      <3>1. PICK e : e = k + 1
        OBVIOUS
      <3>2. e \notin I /\ IsFiniteSet(I)
        BY <2>5, <3>1
      <3>3. Cardinality(In(U, I \cup {e}, C))
               = Cardinality(In(U, I, C)) + Cardinality({n \in C : <<e, n>> \in U})
        BY ONLY <1>4, <3>2, AddRow
      <3>4. Cardinality(In(D, I \cup {e}, C))
               = Cardinality(In(D, I, C)) + Cardinality({n \in C : <<e, n>> \in D})
        BY ONLY <1>4, <3>2, AddRow
      <3> QED
        BY <3>1, <3>3, <3>4
    <2>7. 2 .. k + 1 = I \cup {k + 1}
      BY <2>1, <2>5
    <2> QED
      BY <2>4, <2>5, <2>6, <2>7
  <1>9. PICK f \in [0 .. L -> Int] :
            /\ f[0] = 0
            /\ \A i \in 1 .. L : f[i] = f[i - 1] + Shoelace(ring[i], NextPoint(ring, i))
            /\ ringArea(ring) = f[L]
    BY <1>1, RingAreaSum
  <1>10. ASSUME NEW k \in 1 .. L - 1
         PROVE  Shoelace(ring[k], NextPoint(ring, k))
                  = 8 * (rise(k + 1) - fall(k + 1)) + Rest(x0, ring[k + 1]) - Rest(x0, ring[k])
    <2>1. k + 1 \in 2 .. L /\ (k + 1) - 1 = k /\ k % L = k
      <3>1. L \in Nat /\ L >= 1
        BY <1>1
      <3> HIDE DEF L
      <3>2. k \in Nat /\ 0 <= k /\ k < L /\ k + 1 \in 2 .. L
        BY <3>1
      <3> QED
        BY <3>1, <3>2
    <2>2. NextPoint(ring, k) = ring[k + 1]
      BY <2>1 DEF NextPoint
    <2> QED
      BY <1>2, <2>1, <2>2, RingEdge
  <1> DEFINE S == {k \in 1 .. L :
                      f[k - 1] = 8 * (u(k) - d(k)) + Rest(x0, ring[k]) - Rest(x0, ring[1])}
  <1>11. 1 \in S
    <2>1. 1 \in 1 .. L /\ Rest(x0, ring[1]) \in Int
      BY <1>1, <1>3
    <2>2. f[1 - 1] = 8 * (u(1) - d(1)) + Rest(x0, ring[1]) - Rest(x0, ring[1])
      <3> HIDE DEF u, d
      <3> QED
        BY <1>7, <1>9, <2>1
    <2> QED
      BY <2>1, <2>2
  <1> HIDE DEF u, d, rise, fall, U, D, C, L
  <1>12. ASSUME NEW k \in 1 .. L - 1, k \in S
         PROVE  k + 1 \in S
    <2>1. k \in 1 .. L /\ k + 1 \in 1 .. L /\ k + 1 \in 2 .. L /\ (k + 1) - 1 = k
          /\ k - 1 \in 0 .. L /\ 1 \in 1 .. L
      BY <1>1
    <2>2. f[k] = f[k - 1] + Shoelace(ring[k], NextPoint(ring, k))
      BY <1>9, <2>1
    <2>3. f[k - 1] = 8 * (u(k) - d(k)) + Rest(x0, ring[k]) - Rest(x0, ring[1])
      BY <1>12
    <2>4. PICK a \in Int, b \in Int, c \in Int :
              a = Rest(x0, ring[1]) /\ b = Rest(x0, ring[k]) /\ c = Rest(x0, ring[k + 1])
      BY <1>3, <2>1
    <2>5. PICK ri \in Int, fa \in Int : ri = rise(k + 1) /\ fa = fall(k + 1)
      BY <1>5, <2>1
    <2>6. PICK uk \in Int, dk \in Int : uk = u(k) /\ dk = d(k)
      BY <1>6, <2>1
    <2>7. Shoelace(ring[k], NextPoint(ring, k)) = 8 * (ri - fa) + c - b
      BY <1>10, <2>4, <2>5
    <2>8. u(k + 1) = uk + ri /\ d(k + 1) = dk + fa
      BY <1>8, <2>5, <2>6
    <2>9. f[k] = 8 * (uk - dk) + b - a + (8 * (ri - fa) + c - b)
      BY <2>2, <2>3, <2>4, <2>6, <2>7
    <2>10. f[k] = 8 * ((uk + ri) - (dk + fa)) + c - a
      <3>1. PICK g \in Int : g = f[k]
        BY <1>9, <2>1
      <3>2. g = 8 * (uk - dk) + b - a + (8 * (ri - fa) + c - b)
        BY <2>9, <3>1
      <3>3. g = 8 * ((uk + ri) - (dk + fa)) + c - a
        BY <3>2
      <3> QED
        BY <3>1, <3>3
    <2>11. f[(k + 1) - 1] = 8 * (u(k + 1) - d(k + 1)) + Rest(x0, ring[k + 1]) - Rest(x0, ring[1])
      BY <2>1, <2>4, <2>8, <2>10
    <2> QED
      BY <2>1, <2>11
  <1>13. \A k \in 1 .. L : k \in S
    <2>1. L \in Int /\ 1 \in Int
      BY <1>1
    <2> HIDE DEF S
    <2>2. \A k \in 1 .. L - 1 : k \in S => k + 1 \in S
      BY <1>12
    <2> QED
      BY <1>11, <2>1, <2>2, Reaches
  <1>14. f[L - 1] = 8 * (u(L) - d(L))
    <2>1. L \in S /\ 1 \in 1 .. L
      BY <1>1, <1>13
    <2>2. PICK a \in Int : a = Rest(x0, ring[1]) /\ a = Rest(x0, ring[L])
      BY <1>1, <1>3, <2>1
    <2>3. u(L) \in Int /\ d(L) \in Int
      BY <1>6, <2>1
    <2>4. f[L - 1] = 8 * (u(L) - d(L)) + a - a
      BY <2>1, <2>2
    <2> QED
      BY <2>2, <2>3, <2>4
  <1>15. Shoelace(ring[L], NextPoint(ring, L)) = 0
    <2>1. L % L = 0 /\ 1 \in 1 .. L
      BY <1>1
    <2>2. NextPoint(ring, L) = ring[1]
      BY <2>1 DEF NextPoint, L
    <2>3. PICK p1 \in Int, p2 \in Int : ring[1] = <<p1, p2>>
      BY <1>3, <2>1 DEF Point
    <2>4. PICK q \in Int : q = p1 * p2
      OBVIOUS
    <2>5. Shoelace(ring[L], NextPoint(ring, L)) = q - q
      BY <1>1, <2>2, <2>3, <2>4 DEF Shoelace
    <2> QED
      BY <2>5
  <1>16. ringArea(ring) = 8 * (u(L) - d(L))
    <2>1. L \in 1 .. L /\ L - 1 \in 0 .. L
      BY <1>1
    <2>2. f[L] = f[L - 1] + 0
      BY <1>9, <1>15, <2>1
    <2>3. f[L - 1] \in Int
      BY <1>9, <2>1
    <2> QED
      BY <1>9, <1>14, <2>2, <2>3
  <1> QED
    BY <1>16 DEF u, d, U, D, C, L

\* The cells that a ring contains.
Contained(polygon, ring) == {n \in CellsOf(polygon) : ringContains(ring, Centre(polygon, n))}

\* How many members of a set are below a number, one number more.
LEMMA CountNext ==
    ASSUME NEW X, NEW m \in Nat
    PROVE  /\ IsFiniteSet(X \cap (0 .. m - 1)) /\ Cardinality(X \cap (0 .. m - 1)) \in Nat
           /\ Cardinality(X \cap (0 .. (m + 1) - 1))
                = Cardinality(X \cap (0 .. m - 1)) + IF m \in X THEN 1 ELSE 0
  <1> DEFINE Y == X \cap (0 .. m - 1)
  <1>1. IsFiniteSet(0 .. m - 1)
    BY FS_Interval
  <1>2. IsFiniteSet(Y) /\ Cardinality(Y) \in Nat
    BY <1>1, FS_Subset, FS_CardinalityType
  <1>3. 0 .. (m + 1) - 1 = (0 .. m - 1) \cup {m} /\ m \notin Y
    OBVIOUS
  <1>4. X \cap (0 .. (m + 1) - 1) = IF m \in X THEN Y \cup {m} ELSE Y
    BY <1>3
  <1> HIDE DEF Y
  <1>5. Cardinality(Y \cup {m}) = Cardinality(Y) + 1
    BY <1>2, <1>3, FS_AddElement
  <1> QED
    BY <1>2, <1>4, <1>5 DEF Y

\* The edges above and below the ray of a cell are counted by its winding, and
\* their number is odd inside.
LEMMA CellWinding ==
    ASSUME NEW polygon, NEW ring, GridRing(polygon, ring), NEW n \in CellsOf(polygon)
    PROVE  LET up == {i \in 2 .. Len(ring) : <<i, n>> \in Ups(polygon, ring)}
               down == {i \in 2 .. Len(ring) : <<i, n>> \in Downs(polygon, ring)}
           IN  /\ Cardinality(up) \in Nat /\ Cardinality(down) \in Nat
               /\ Winding(ring, Centre(polygon, n)) = Cardinality(up) - Cardinality(down)
               /\ ringContains(ring, Centre(polygon, n))
                    <=> (Cardinality(up) + Cardinality(down)) % 2 = 1
  <1> DEFINE p == Centre(polygon, n)
             L == Len(ring)
             up == {i \in 2 .. L : <<i, n>> \in Ups(polygon, ring)}
             down == {i \in 2 .. L : <<i, n>> \in Downs(polygon, ring)}
             right == Crossed(ring, p)
             rising == {i \in right : ring[i][2] > ring[i - 1][2]}
  <1>1. /\ polygon \in Seq(Seq(Point)) \ {<<>>} /\ ValidPolygon(polygon)
        /\ ClosedRing(ring) /\ ring \in Seq(Point)
    BY DEF GridRing, ClosedRing
  <1>2. p \in Point
    <2>1. PICK s \in Nat : s = Columns(polygon) * Rows(polygon)
      BY <1>1, GridSize
    <2>2. n \in Nat /\ n < s
      BY <2>1 DEF CellsOf
    <2> QED
      BY <1>1, <2>1, <2>2, CentreInBounds
  <1> HIDE DEF p
  <1>3. ASSUME NEW i \in 2 .. L
        PROVE  /\ i \in up <=> i \in rising
               /\ i \in down <=> i \in right /\ i \notin rising
    <2>1. PICK u \in Point, v \in Point : u = ring[i - 1] /\ v = ring[i]
      <3>1. i \in 1 .. Len(ring) /\ i - 1 \in 1 .. Len(ring)
        BY <1>1
      <3> QED
        BY <1>1, <3>1
    <2>2. u[2] \in Int /\ v[2] \in Int /\ p[2] \in Int
      BY <1>2 DEF Point
    <2>3. EdgeCrosses(v, u, p) => u[2] # v[2]
      BY <2>2 DEF EdgeCrosses
    <2>4. i \in right <=> EdgeCrosses(v, u, p)
      BY <2>1 DEF Crossed
    <2>5. i \in rising <=> EdgeCrosses(v, u, p) /\ v[2] > u[2]
      BY <2>1, <2>4
    <2>6. i \in up <=> u[2] < v[2] /\ EdgeCrosses(v, u, p)
      BY <2>1 DEF Ups, Rising, p
    <2>7. i \in down <=> v[2] < u[2] /\ EdgeCrosses(v, u, p)
      BY <2>1 DEF Downs, Falling, p
    <2> QED
      BY <2>2, <2>3, <2>4, <2>5, <2>6, <2>7
  <1>4. up = rising /\ down = right \ rising /\ right \subseteq 2 .. L
    BY <1>3 DEF Crossed
  <1>5. IsFiniteSet(right) /\ rising \subseteq right
    BY <1>1, CrossedCount
  <1>6. Winding(ring, p) = Cardinality(rising) - Cardinality(right \ rising)
    BY DEF Winding, Crossed
  <1>7. ringContains(ring, p) <=> Cardinality(right) % 2 = 1
    BY <1>1, <1>2, RingCrossed
  <1> HIDE DEF up, down, right, rising
  <1>8. /\ IsFiniteSet(up) /\ IsFiniteSet(down) /\ up \cap down = {} /\ up \cup down = right
    BY <1>4, <1>5, FS_Subset, FS_Difference
  <1>9. Cardinality(right) = Cardinality(up) + Cardinality(down)
    BY <1>8, Disjoint
  <1>10. Cardinality(up) \in Nat /\ Cardinality(down) \in Nat
    BY <1>8, FS_CardinalityType
  <1> QED
    BY <1>4, <1>6, <1>7, <1>9, <1>10 DEF up, down, p

\* A ring that goes round its cells once has them inside.
LEMMA OnceRound ==
    ASSUME NEW polygon, NEW ring, GridRing(polygon, ring), NEW n \in CellsOf(polygon),
           NEW turn \in {1, -1}, Winding(ring, Centre(polygon, n)) \in {0, turn}
    PROVE  LET up == {i \in 2 .. Len(ring) : <<i, n>> \in Ups(polygon, ring)}
               down == {i \in 2 .. Len(ring) : <<i, n>> \in Downs(polygon, ring)}
           IN  /\ Cardinality(up) \in Nat /\ Cardinality(down) \in Nat
               /\ Cardinality(up) - Cardinality(down)
                    = turn * (IF n \in Contained(polygon, ring) THEN 1 ELSE 0)
  <1>1. PICK u \in Nat, d \in Nat :
            /\ u = Cardinality({i \in 2 .. Len(ring) : <<i, n>> \in Ups(polygon, ring)})
            /\ d = Cardinality({i \in 2 .. Len(ring) : <<i, n>> \in Downs(polygon, ring)})
            /\ Winding(ring, Centre(polygon, n)) = u - d
            /\ ringContains(ring, Centre(polygon, n)) <=> (u + d) % 2 = 1
    BY CellWinding
  <1>2. u - d \in {0, turn}
    BY <1>1
  <1>3. n \in Contained(polygon, ring) <=> (u + d) % 2 = 1
    BY <1>1 DEF Contained
  <1>4. CASE u - d = 0
    <2>1. (u + d) % 2 = 0
      BY <1>4
    <2> QED
      BY <1>1, <1>3, <1>4, <2>1
  <1>5. CASE u - d = turn
    <2>1. (u + d) % 2 = 1
      BY <1>5
    <2> QED
      BY <1>1, <1>3, <1>5, <2>1
  <1> QED
    BY <1>2, <1>4, <1>5

\* The pairs of edges and cells, counted cell by cell.
LEMMA ByColumns ==
    ASSUME NEW polygon, NEW ring, GridRing(polygon, ring), NEW turn \in {1, -1},
           \A n \in CellsOf(polygon) : Winding(ring, Centre(polygon, n)) \in {0, turn}
    PROVE  LET I == 2 .. Len(ring)
               C == CellsOf(polygon)
           IN  /\ Cardinality(Contained(polygon, ring)) \in Nat
               /\ Cardinality(In(Ups(polygon, ring), I, C))
                    - Cardinality(In(Downs(polygon, ring), I, C))
                    = turn * Cardinality(Contained(polygon, ring))
  <1> DEFINE I == 2 .. Len(ring)
             U == Ups(polygon, ring)
             D == Downs(polygon, ring)
             X == Contained(polygon, ring)
             u(m) == Cardinality(In(U, I, 0 .. m - 1))
             d(m) == Cardinality(In(D, I, 0 .. m - 1))
             x(m) == Cardinality(X \cap (0 .. m - 1))
  <1>1. /\ polygon \in Seq(Seq(Point)) \ {<<>>} /\ ValidPolygon(polygon)
        /\ ring \in Seq(Point)
    BY DEF GridRing, ClosedRing
  <1>2. PICK s \in Nat : s = Columns(polygon) * Rows(polygon)
    BY <1>1, GridSize
  <1>3. CellsOf(polygon) = 0 .. s - 1
    BY <1>2 DEF CellsOf
  <1>4. IsFiniteSet(I)
    BY FS_Interval
  <1>5. X \subseteq 0 .. s - 1
    BY <1>3 DEF Contained
  <1>6. \A m \in 0 .. s : u(m) \in Nat /\ d(m) \in Nat /\ x(m) \in Nat
    <2>1. ASSUME NEW m \in 0 .. s
          PROVE  u(m) \in Nat /\ d(m) \in Nat /\ x(m) \in Nat
      <3>1. IsFiniteSet(0 .. m - 1) /\ m \in Nat
        BY FS_Interval
      <3> HIDE DEF U, D, X, I
      <3> QED
        BY <1>4, <3>1, InFinite, CountNext
    <2> QED
      BY <2>1
  <1>7. u(0) = 0 /\ d(0) = 0 /\ x(0) = 0
    <2>1. In(U, I, 0 .. 0 - 1) = {} /\ In(D, I, 0 .. 0 - 1) = {} /\ X \cap (0 .. 0 - 1) = {}
      BY DEF In
    <2> HIDE DEF U, D, X, I
    <2> QED
      BY <2>1, FS_EmptySet
  <1>8. ASSUME NEW m \in 0 .. s - 1
        PROVE  \E up \in Nat, down \in Nat :
                   /\ u(m + 1) = u(m) + up /\ d(m + 1) = d(m) + down
                   /\ up - down = turn * (x(m + 1) - x(m))
    <2>1. m \in CellsOf(polygon) /\ m \in Nat
      BY <1>3
    <2>2. PICK up \in Nat, down \in Nat :
              /\ up = Cardinality({i \in I : <<i, m>> \in U})
              /\ down = Cardinality({i \in I : <<i, m>> \in D})
              /\ up - down = turn * (IF m \in X THEN 1 ELSE 0)
      <3>1. Winding(ring, Centre(polygon, m)) \in {0, turn}
        BY <2>1
      <3>2. /\ Cardinality({i \in I : <<i, m>> \in U}) \in Nat
            /\ Cardinality({i \in I : <<i, m>> \in D}) \in Nat
            /\ Cardinality({i \in I : <<i, m>> \in U}) - Cardinality({i \in I : <<i, m>> \in D})
                 = turn * (IF m \in X THEN 1 ELSE 0)
        BY <2>1, <3>1, OnceRound
      <3> HIDE DEF U, D, X, I
      <3> QED
        BY <3>2
    <2>3. PICK N : N = 0 .. m - 1 /\ IsFiniteSet(N) /\ m \notin N
      BY <2>1, FS_Interval
    <2>4. 0 .. (m + 1) - 1 = N \cup {m}
      BY <2>1, <2>3
    <2> HIDE DEF U, D, X, I
    <2>5. /\ Cardinality(In(U, I, N \cup {m})) = Cardinality(In(U, I, N)) + up
          /\ Cardinality(In(D, I, N \cup {m})) = Cardinality(In(D, I, N)) + down
      <3>1. IsFiniteSet(N) /\ m \notin N
        BY <2>3
      <3>2. Cardinality(In(U, I, N \cup {m}))
              = Cardinality(In(U, I, N)) + Cardinality({i \in I : <<i, m>> \in U})
        BY ONLY <1>4, <3>1, AddColumn
      <3>3. Cardinality(In(D, I, N \cup {m}))
              = Cardinality(In(D, I, N)) + Cardinality({i \in I : <<i, m>> \in D})
        BY ONLY <1>4, <3>1, AddColumn
      <3> QED
        BY <2>2, <3>2, <3>3
    <2>6. x(m + 1) = x(m) + IF m \in X THEN 1 ELSE 0
      BY <2>1, CountNext
    <2>7. x(m) \in Nat
      BY <2>1, CountNext
    <2>8. x(m + 1) - x(m) = IF m \in X THEN 1 ELSE 0
      BY <2>6, <2>7
    <2>9. u(m + 1) = u(m) + up /\ d(m + 1) = d(m) + down
      BY <2>3, <2>4, <2>5
    <2> QED
      BY <2>2, <2>8, <2>9
  <1> HIDE DEF u, d, x, U, D, X, I
  <1> DEFINE S == {m \in 0 .. s : u(m) - d(m) = turn * x(m)}
  <1>9. 0 \in S
    BY <1>7
  <1>10. ASSUME NEW m \in 0 .. s - 1, m \in S
         PROVE  m + 1 \in S
    <2>1. m \in 0 .. s /\ m + 1 \in 0 .. s
      OBVIOUS
    <2>2. PICK up \in Nat, down \in Nat :
              /\ u(m + 1) = u(m) + up /\ d(m + 1) = d(m) + down
              /\ up - down = turn * (x(m + 1) - x(m))
      BY <1>8
    <2>3. PICK a \in Int, b \in Int, c \in Int, e \in Int :
              a = u(m) /\ b = d(m) /\ c = x(m) /\ e = x(m + 1)
      BY <1>6, <2>1
    <2>4. a - b = turn * c
      BY <1>10, <2>3
    <2>5. up - down = turn * (e - c)
      BY <2>2, <2>3
    <2>6. (a + up) - (b + down) = turn * e
      BY <2>4, <2>5
    <2> QED
      BY <2>1, <2>2, <2>3, <2>6
  <1>11. \A m \in 0 .. s : m \in S
    <2> HIDE DEF S
    <2>1. \A m \in 0 .. s - 1 : m \in S => m + 1 \in S
      BY <1>10
    <2> QED
      BY <1>9, <2>1, Reaches
  <1>12. s \in S
    BY <1>11
  <1>13. u(s) - d(s) = turn * x(s) /\ x(s) \in Nat
    BY <1>6, <1>12
  <1>14. x(s) = Cardinality(X)
    <2>1. X \cap (0 .. s - 1) = X
      BY <1>5
    <2> QED
      BY <2>1 DEF x
  <1> QED
    BY <1>3, <1>13, <1>14 DEF u, d, U, D, I, X

\* The area of a ring is that of the cells in it.
LEMMA RingAreaCells ==
    ASSUME NEW polygon, NEW ring, GridRing(polygon, ring), NEW turn \in {1, -1},
           \A n \in CellsOf(polygon) : Winding(ring, Centre(polygon, n)) \in {0, turn}
    PROVE  Abs(ringArea(ring)) = 8 * Cardinality(Contained(polygon, ring))
  <1>1. PICK x \in Nat : x = Cardinality(Contained(polygon, ring))
    BY ByColumns
  <1>2. ringArea(ring) = 8 * (turn * x)
    BY <1>1, ByColumns, RingSum
  <1> QED
    BY <1>1, <1>2 DEF Abs

-----------------------------------------------------------------------------
(* A polygon with holes, and the loop that counts its cells.                 *)

\* What is left of an area after the first holes.
LEMMA AreaLess ==
    ASSUME NEW polygon \in Seq(Seq(Point)) \ {<<>>},
           \A r \in DOMAIN polygon : Abs(ringArea(polygon[r])) \in Int
    PROVE  \E f :
               /\ f[1] = Abs(ringArea(polygon[1]))
               /\ \A r \in 2 .. Len(polygon) : f[r] = f[r - 1] - Abs(ringArea(polygon[r]))
               /\ PolygonArea(polygon) = f[Len(polygon)]
  <1> DEFINE R == Len(polygon)
             area(r) == Abs(ringArea(polygon[r]))
             t == [r \in 1 .. R |-> -area(r)]
             less == CHOOSE f : f = [r \in 1 .. R |-> IF r = 1 THEN Abs(ringArea(polygon[1]))
                                                     ELSE f[r - 1] - Abs(ringArea(polygon[r]))]
  <1>1. R \in Nat /\ R >= 1 /\ DOMAIN polygon = 1 .. R
    OBVIOUS
  <1>2. \A r \in 1 .. R : area(r) \in Int
    BY <1>1
  <1>3. PolygonArea(polygon) = less[R]
    BY DEF PolygonArea
  <1> HIDE DEF area, R
  <1>4. t \in [1 .. R -> Int] /\ \A r \in 1 .. R : t[r] = -area(r)
    BY <1>2
  <1>5. area(1) \in Int /\ 1 \in 1 .. R
    BY <1>1, <1>2
  <1> HIDE DEF t
  <1>6. PICK f : Sums(f, 1, R, area(1), t)
    BY <1>1, <1>4, <1>5, SumsExist
  <1>7. f \in [1 .. R -> Int]
    BY <1>1, <1>4, <1>5, <1>6, SumsAre
  <1>8. ASSUME NEW r \in 1 .. R
        PROVE  f[r] = IF r = 1 THEN area(1) ELSE f[r - 1] - area(r)
    <2>1. f[r] = IF r = 1 THEN area(1) ELSE f[r - 1] + t[r]
      BY <1>6 DEF Sums
    <2>2. r # 1 => r - 1 \in 1 .. R
      BY <1>1
    <2>3. PICK a \in Int : a = area(r) /\ t[r] = -a
      BY <1>2, <1>4
    <2>4. r # 1 => f[r - 1] \in Int
      BY <1>7, <2>2
    <2>5. r # 1 => f[r - 1] + t[r] = f[r - 1] - a
      BY <2>3, <2>4
    <2> QED
      BY <2>1, <2>3, <2>5
  <1>9. f = [r \in 1 .. R |-> IF r = 1 THEN area(1) ELSE f[r - 1] - area(r)]
    BY <1>7, <1>8
  <1>10. less = [r \in 1 .. R |-> IF r = 1 THEN area(1) ELSE less[r - 1] - area(r)]
    <2>1. less = CHOOSE g : g = [r \in 1 .. R |-> IF r = 1 THEN area(1) ELSE g[r - 1] - area(r)]
      BY DEF area
    <2> HIDE DEF less
    <2> QED
      BY <1>9, <2>1
  <1> HIDE DEF less
  <1>11. ASSUME NEW r \in 2 .. R
         PROVE  less[r] = less[r - 1] - area(r)
    <2>1. r \in 1 .. R /\ r # 1
      BY <1>1
    <2> QED
      BY <1>10, <2>1
  <1>12. less[1] = area(1)
    BY <1>5, <1>10
  <1> QED
    BY <1>3, <1>11, <1>12 DEF area, R

\* The cells in the outer ring and in none of the first holes.
Kept(polygon, k) ==
    {n \in Contained(polygon, polygon[1]) :
        \A r \in 2 .. k : n \notin Contained(polygon, polygon[r])}

\* Of a simple polygon every ring has the area of its cells.
LEMMA SimpleRing ==
    ASSUME NEW polygon \in Seq(Seq(Point)) \ {<<>>}, ValidPolygon(polygon), OnGrid(polygon),
           Simple(polygon), NEW r \in DOMAIN polygon
    PROVE  /\ IsFiniteSet(Contained(polygon, polygon[r]))
           /\ Cardinality(Contained(polygon, polygon[r])) \in Nat
           /\ Abs(ringArea(polygon[r])) = 8 * Cardinality(Contained(polygon, polygon[r]))
  <1>1. polygon[r] \in Seq(Point)
    OBVIOUS
  <1>2. Len(polygon[r]) >= 1 /\ polygon[r][1] = polygon[r][Len(polygon[r])]
    BY DEF Simple
  <1>3. GridRing(polygon, polygon[r])
    BY <1>1, <1>2 DEF GridRing, ClosedRing
  <1>4. PICK turn \in {1, -1} :
            \A p \in {Centre(polygon, n) : n \in CellsOf(polygon)} :
                Winding(polygon[r], p) \in {0, turn}
    BY DEF Simple, CellsOf
  <1>5. \A n \in CellsOf(polygon) : Winding(polygon[r], Centre(polygon, n)) \in {0, turn}
    BY <1>4
  <1>6. IsFiniteSet(Contained(polygon, polygon[r]))
    BY CellsFinite, FS_Subset DEF Contained
  <1> QED
    BY <1>3, <1>5, <1>6, RingAreaCells, FS_CardinalityType

\* The next hole takes all of its cells away.
LEMMA HoleTaken ==
    ASSUME NEW polygon \in Seq(Seq(Point)) \ {<<>>}, ValidPolygon(polygon), OnGrid(polygon),
           Simple(polygon), NEW k \in 1 .. Len(polygon) - 1
    PROVE  /\ Cardinality(Kept(polygon, k)) \in Nat
           /\ Cardinality(Kept(polygon, k + 1))
                = Cardinality(Kept(polygon, k)) - Cardinality(Contained(polygon, polygon[k + 1]))
  <1> DEFINE K == Kept(polygon, k)
             H == Contained(polygon, polygon[k + 1])
  <1>1. /\ k + 1 \in DOMAIN polygon /\ 1 \in DOMAIN polygon /\ k + 1 \in 2 .. Len(polygon)
        /\ 2 .. k + 1 = (2 .. k) \cup {k + 1}
        /\ \A s \in 2 .. k : s \in 2 .. Len(polygon) /\ s # k + 1
    OBVIOUS
  <1>2. \A n \in CellsOf(polygon) :
            ringContains(polygon[k + 1], Centre(polygon, n)) =>
                /\ ringContains(polygon[1], Centre(polygon, n))
                /\ \A s \in (2 .. Len(polygon)) \ {k + 1} :
                       ~ringContains(polygon[s], Centre(polygon, n))
    BY <1>1 DEF Simple, CellsOf
  <1>3. H \subseteq K
    BY <1>1, <1>2 DEF Kept, Contained
  <1>4. Kept(polygon, k + 1) = K \ H
    BY <1>1 DEF Kept
  <1>5. IsFiniteSet(K)
    <2>1. IsFiniteSet(Contained(polygon, polygon[1]))
      BY <1>1, SimpleRing
    <2> QED
      BY <2>1, FS_Subset DEF Kept
  <1> HIDE DEF K, H
  <1>6. IsFiniteSet(K \ H) /\ Cardinality(K \ H) = Cardinality(K) - Cardinality(K \cap H)
    BY <1>5, FS_Difference
  <1>7. K \cap H = H
    BY <1>3
  <1> QED
    BY <1>4, <1>5, <1>6, <1>7, FS_CardinalityType DEF K, H

\* The two areas of a simple polygon on the grid: the shoelace formula, and the
\* cells that ray casting finds inside.
LEMMA AreaOfCells ==
    ASSUME NEW polygon \in Seq(Seq(Point)) \ {<<>>}, ValidPolygon(polygon), OnGrid(polygon),
           Simple(polygon)
    PROVE  PolygonArea(polygon)
             = 8 * Cardinality({n \in CellsOf(polygon) :
                                    polygonContains(polygon, Centre(polygon, n))})
  <1> DEFINE R == Len(polygon)
             kept(k) == Cardinality(Kept(polygon, k))
  <1>1. R \in Nat /\ R >= 1 /\ DOMAIN polygon = 1 .. R /\ 1 \in DOMAIN polygon
    OBVIOUS
  <1>2. \A r \in DOMAIN polygon : Abs(ringArea(polygon[r])) \in Int
    <2>1. ASSUME NEW r \in DOMAIN polygon
          PROVE  Abs(ringArea(polygon[r])) \in Int
      <3>1. PICK x \in Nat : Abs(ringArea(polygon[r])) = 8 * x
        BY SimpleRing
      <3> QED
        BY <3>1
    <2> QED
      BY <2>1
  <1>3. PICK f : /\ f[1] = Abs(ringArea(polygon[1]))
                 /\ \A r \in 2 .. Len(polygon) : f[r] = f[r - 1] - Abs(ringArea(polygon[r]))
                 /\ PolygonArea(polygon) = f[Len(polygon)]
    BY <1>2, AreaLess
  <1> DEFINE S == {k \in 1 .. R : f[k] = 8 * kept(k)}
  <1>4. 1 \in S
    <2>1. Kept(polygon, 1) = Contained(polygon, polygon[1])
      BY DEF Kept
    <2> QED
      BY <1>1, <1>3, <2>1, SimpleRing
  <1>5. ASSUME NEW k \in 1 .. R - 1, k \in S
        PROVE  k + 1 \in S
    <2>1. k + 1 \in 2 .. R /\ k + 1 \in 1 .. R /\ (k + 1) - 1 = k
      BY <1>1
    <2>2. PICK x \in Nat :
              /\ x = Cardinality(Contained(polygon, polygon[k + 1]))
              /\ Abs(ringArea(polygon[k + 1])) = 8 * x
      BY <1>1, <2>1, SimpleRing
    <2>3. PICK y \in Nat : y = kept(k) /\ kept(k + 1) = y - x
      BY <2>2, HoleTaken
    <2>4. f[k + 1] = f[k] - 8 * x
      BY <1>3, <2>1, <2>2
    <2>5. f[k] = 8 * y
      BY <1>5, <2>3
    <2>6. f[k + 1] = 8 * (y - x)
      BY <2>4, <2>5
    <2> QED
      BY <2>1, <2>3, <2>6
  <1>6. \A k \in 1 .. R : k \in S
    <2>1. R \in Int /\ 1 \in Int
      BY <1>1
    <2> HIDE DEF S, R
    <2>2. \A k \in 1 .. R - 1 : k \in S => k + 1 \in S
      BY <1>5
    <2> QED
      BY <1>4, <2>1, <2>2, Reaches
  <1>7. f[R] = 8 * kept(R)
    BY <1>1, <1>6
  <1>8. Kept(polygon, R)
          = {n \in CellsOf(polygon) : polygonContains(polygon, Centre(polygon, n))}
    BY DEF Kept, Contained, polygonContains
  <1> QED
    BY <1>3, <1>7, <1>8

\* The loop has counted the visited cells that are inside.
Counted ==
    Scanned => inside = Cardinality({n \in Nat : polygonContains(boundary, Centre(boundary, n))}
                                       \cap (0 .. cell - 1))

LEMMA VisitCounted ==
    ASSUME Inv, Counted, Visit
    PROVE  Counted'
  <1> DEFINE X == {n \in Nat : polygonContains(boundary, Centre(boundary, n))}
  <1>1. Scanned
    BY DEF Visit, Scanned
  <1>2. cell \in Nat
    BY <1>1, ScanFacts
  <1>3. cell' = cell + 1 /\ boundary' = boundary
    BY DEF Visit
  <1>4. inside' = inside + IF cell \in X THEN 1 ELSE 0
    <2>1. inside \in Int
      BY MaxCellsAssumption DEF Inv, TypeOK
    <2>2. inside' = IF polygonContains(boundary, Centre(boundary, cell))
                    THEN inside + 1 ELSE inside
      BY DEF Visit
    <2> QED
      BY <1>2, <2>1, <2>2
  <1>5. inside = Cardinality(X \cap (0 .. cell - 1))
    BY <1>1 DEF Counted
  <1>6. Cardinality(X \cap (0 .. (cell + 1) - 1))
          = Cardinality(X \cap (0 .. cell - 1)) + IF cell \in X THEN 1 ELSE 0
    <2> HIDE DEF X
    <2> QED
      BY <1>2, CountNext
  <1>7. inside' = Cardinality(X \cap (0 .. (cell + 1) - 1))
    <2> HIDE DEF X
    <2> QED
      BY <1>4, <1>5, <1>6
  <1> QED
    BY <1>3, <1>7 DEF Counted

LEMMA NoneCounted ==
    ASSUME Inv, inside' = 0, cell' = 0
    PROVE  Counted'
  <1>1. {n \in Nat : polygonContains(boundary, Centre(boundary, n))}' \cap (0 .. 0 - 1) = {}
    OBVIOUS
  <1> QED
    BY <1>1, FS_EmptySet DEF Counted

LEMMA NextCounted ==
    ASSUME Inv, Counted, [Next]_vars
    PROVE  Counted'
  <1>1. ASSUME NEW flown \in Flown, Detect(flown)
        PROVE  Counted'
    BY <1>1, NoneCounted DEF Detect, StartDetection
  <1>2. ASSUME NEW heading \in Heading, NEW spacing \in Spacing, GeneratePlan(heading, spacing)
        PROVE  Counted'
    <2>1. status' \notin {"scanning", "reported"}
      BY <1>2 DEF GeneratePlan
    <2> QED
      BY <2>1 DEF Counted, Scanned
  <1>3. CASE DetectPlanned
    BY <1>3, NoneCounted DEF DetectPlanned, StartDetection
  <1>4. CASE Visit
    BY <1>4, VisitCounted
  <1>5. CASE Report
    BY <1>5 DEF Report, Counted, Scanned
  <1>6. CASE Resurvey
    BY <1>6, NoneCounted DEF Resurvey, StartDetection
  <1>7. CASE Again
    BY <1>7, NoneCounted DEF Again
  <1>8. CASE UNCHANGED vars
    BY <1>8 DEF vars, Counted, Scanned
  <1> QED
    BY <1>1, <1>2, <1>3, <1>4, <1>5, <1>6, <1>7, <1>8 DEF Next

\* At the end of the loop they are all the cells of the grid.
LEMMA AreasHold == Inv /\ Counted => AreasAgree
  <1> SUFFICES ASSUME Inv, Counted, status = "reported", OnGrid(boundary), Simple(boundary)
               PROVE  inside * 2 * Res * Res = PolygonArea(boundary)
    BY DEF AreasAgree
  <1> DEFINE X == {n \in Nat : polygonContains(boundary, Centre(boundary, n))}
             Y == {n \in CellsOf(boundary) : polygonContains(boundary, Centre(boundary, n))}
  <1>1. Scanned
    BY DEF Scanned
  <1>2. /\ boundary \in Seq(Seq(Point)) \ {<<>>} /\ ValidPolygon(boundary)
        /\ Size \in Nat /\ cell = Size
    BY <1>1, ScanFacts DEF Inv, InGrid
  <1>3. CellsOf(boundary) = 0 .. cell - 1
    BY <1>2 DEF CellsOf, Size
  <1>4. X \cap (0 .. cell - 1) = Y
    BY <1>2, <1>3
  <1>5. inside = Cardinality(Y)
    BY <1>1, <1>4 DEF Counted
  <1>6. PolygonArea(boundary) = 8 * Cardinality(Y)
    BY <1>2, AreaOfCells
  <1>7. inside \in Int
    BY MaxCellsAssumption DEF Inv, TypeOK
  <1> QED
    BY <1>5, <1>6, <1>7 DEF Res

\* On every boundary whose edges are edges of cells and whose rings go round no
\* cell twice, with its holes apart and inside, CalculateCoverage counts as many
\* cells as the shoelace formula of PolygonArea gives.
THEOREM AreasAgreeHolds == Spec => []AreasAgree
  <1>1. Init => Inv /\ Counted
    BY InitInv DEF Init, Counted, Scanned
  <1>2. (Inv /\ Counted) /\ [Next]_vars => (Inv /\ Counted)'
    BY NextInv, NextCounted
  <1> QED
    BY <1>1, <1>2, AreasHold, PTL DEF Spec
=============================================================================
