------------------------------ MODULE Contours ------------------------------
(***************************************************************************)
(* geometry/{point,arc,contour,polygon,path,rotate}: spans, closed loops   *)
(* and the exact tests on them.  A contour is the sequence of its spans, a *)
(* span a segment or an arc; all the tests look at an arc's chord.  cross  *)
(* and dot may overflow and are then the empty set.                        *)
(***************************************************************************)
EXTENDS CheckedArith, SequencesExt

Pt(x, y) == [x |-> x, y |-> y]

Origin == Pt(0, 0)

Plus(p, q) == Pt(p.x + q.x, p.y + q.y)

Minus(p, q) == Pt(p.x - q.x, p.y - q.y)

Segment(s, e) == [arc |-> FALSE, start |-> s, end |-> e, center |-> Origin, ccw |-> FALSE]

Arc(s, e, c, ccw) == [arc |-> TRUE, start |-> s, end |-> e, center |-> c, ccw |-> ccw]

\* The straight-edged loop through the given corners (parse_zone_polygon and
\* parse_custom_pad_outline build their contours this way).
ClosedLoop(points) ==
    [i \in DOMAIN points |-> Segment(points[i], points[(i % Len(points)) + 1])]

Cross(a, b) == UNION {CheckedSub(xy, yx) : xy \in CheckedMul(a.x, b.y), yx \in CheckedMul(a.y, b.x)}

Dot(a, b) == UNION {CheckedAdd(xx, yy) : xx \in CheckedMul(a.x, b.x), yy \in CheckedMul(a.y, b.y)}

\* Arc::is_valid
ArcIsValid(a) ==
    LET Radius2(p) == Dot(Minus(p, a.center), Minus(p, a.center))
    IN  Radius2(a.start) # {} /\ Radius2(a.start) = Radius2(a.end)

AfterClamped(contour, i) ==         \* mutant: the loop is not closed
    contour[IF i = Len(contour) THEN i ELSE i + 1]

After(contour, i) == contour[(i % Len(contour)) + 1]

\* orientation: the sign of the chords' signed area
Orientation(contour) ==
    LET n == Len(contour)
        area[k \in 0 .. n] ==
            IF k = 0 THEN {0}
            ELSE UNION {CheckedAdd(s, t) : s \in area[k - 1],
                                           t \in Cross(contour[k].start, After(contour, k).start)}
    IN  CASE n > 0 /\ \E v \in area[n] : v > 0 -> "CounterClockwise"
          [] n > 0 /\ \E v \in area[n] : v < 0 -> "Clockwise"
          [] OTHER                          -> "Degenerate"

SideOf(a, b, c) == Cross(Minus(b, a), Minus(c, a))

\* Overflow counts as a crossing.
ChordsProperlyCross(s, t) ==
    LET ofT == <<SideOf(s.start, s.end, t.start), SideOf(s.start, s.end, t.end)>>
        ofS == <<SideOf(t.start, t.end, s.start), SideOf(t.start, t.end, s.end)>>
        Apart(sides) == \E u \in sides[1], v \in sides[2] : (u > 0 /\ v < 0) \/ (u < 0 /\ v > 0)
    IN  {} \in ToSet(ofT) \cup ToSet(ofS) \/ (Apart(ofT) /\ Apart(ofS))

StraddlesClosed(a, b, p) == (a.y >= p.y) # (b.y > p.y)     \* mutant: a vertex counts twice

Straddles(a, b, p) == (a.y > p.y) # (b.y > p.y)

\* contour_strictly_contains: even-odd rule; an overflow answers false.
StrictlyContains(contour, p) ==
    LET From(i)  == contour[i].start
        To(i)    == After(contour, i).start
        Straddle == {i \in DOMAIN contour : Straddles(From(i), To(i), p)}
        Turn(i)  == SideOf(From(i), To(i), p)
        Hit(i)   == \E v \in Turn(i) : IF To(i).y > From(i).y THEN v > 0 ELSE v < 0
    IN  /\ \A i \in Straddle : Turn(i) # {}
        /\ Cardinality({i \in Straddle : Hit(i)}) % 2 = 1

\* validate(Contour)
ContourValidity(contour) ==
    LET n == Len(contour)
        Far(i, j) == i < j /\ j - i # 1 /\ j - i # n - 1
        Broken(i) == \/ contour[i].arc /\ ~ArcIsValid(contour[i])
                     \/ contour[i].end # After(contour, i).start
        first     == CHOOSE i \in 1 .. n : Broken(i) /\ \A j \in 1 .. i - 1 : ~Broken(j)
    IN  CASE n < 3 -> "TooFewSpans"
          [] n >= 3 /\ \E i \in 1 .. n : Broken(i) ->
                IF contour[first].arc /\ ~ArcIsValid(contour[first])
                THEN "InvalidArcSpan" ELSE "Discontinuous"
          [] OTHER ->
                IF \E i, j \in 1 .. n : Far(i, j) /\ ChordsProperlyCross(contour[i], contour[j])
                THEN "SelfIntersecting" ELSE "Valid"

\* validate(Polygon); a polygon is [outline, holes].  The first bad hole decides.
HoleFault(outline, hole) ==
    CASE ContourValidity(hole) # "Valid"         -> "InvalidHole"
      [] ContourValidity(hole) = "Valid" /\ Orientation(hole) # "Clockwise" -> "HoleWrongOrientation"
      [] OTHER ->
            IF \/ \E s \in ToSet(outline), t \in ToSet(hole) : ChordsProperlyCross(s, t)
               \/ ~StrictlyContains(outline, hole[1].start)
            THEN "HoleOutsideOutline" ELSE "Valid"

FirstFault(faults) ==
    LET faulty == {i \in DOMAIN faults : faults[i] # "Valid"}
    IN  IF faulty = {} THEN "Valid" ELSE faults[Min(faulty)]

PolygonValidity(polygon) ==
    IF ContourValidity(polygon.outline) # "Valid" THEN "InvalidOutline"
    ELSE IF Orientation(polygon.outline) # "CounterClockwise" THEN "OutlineWrongOrientation"
    ELSE FirstFault([i \in DOMAIN polygon.holes |-> HoleFault(polygon.outline, polygon.holes[i])])

\* reverse_span: the same curve, travelled the other way
ReverseSpan(s) ==
    [s EXCEPT !.start = s.end, !.end = s.start, !.ccw = s.arc /\ ~s.ccw]

ReverseContour(contour) ==
    [i \in DOMAIN contour |-> ReverseSpan(contour[Len(contour) + 1 - i])]

WindingKept(contour) == contour     \* mutant: finish() forgotten

\* canonicalize_winding: a clockwise loop is reversed, a degenerate one kept.
CanonicalizeWinding(contour) ==
    IF Orientation(contour) = "Clockwise" THEN ReverseContour(contour) ELSE contour

\* rotate() by quarter turns, the exact case
RotatePoint(p, quarters) ==
    CASE quarters = 0 -> p
      [] quarters = 1 -> Pt(-p.y, p.x)
      [] quarters = 2 -> Pt(-p.x, -p.y)
      [] quarters = 3 -> Pt(p.y, -p.x)

MapPoints(F(_), contour) ==
    [i \in DOMAIN contour |->
        IF contour[i].arc
        THEN Arc(F(contour[i].start), F(contour[i].end), F(contour[i].center), contour[i].ccw)
        ELSE Segment(F(contour[i].start), F(contour[i].end))]

Rotate(contour, quarters) == MapPoints(LAMBDA p : RotatePoint(p, quarters), contour)

Translate(contour, delta) == MapPoints(LAMBDA p : Plus(p, delta), contour)
=============================================================================
