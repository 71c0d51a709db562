--------------------------- MODULE GeometryCalls ----------------------------
(***************************************************************************)
(* A client of the exact geometry: it fills and queries a spatial index,   *)
(* and calls the pure functions (checked arithmetic, unit conversion, pad  *)
(* outlines, contour tests) on every input of small sets.  A pure call     *)
(* leaves its arguments and its result in `call'; it is made once, on an   *)
(* empty index, since no pure function can see what was called before.     *)
(***************************************************************************)
EXTENDS SpatialIndex, Units, PadShape

CONSTANTS MaxBoxes,         \* bound: boxes inserted
          Numbers,          \* operands of checked arithmetic, values to format
          Texts,            \* decimal texts to parse
          PadParams,        \* parametric pads to build
          Loops,            \* contours to examine, well formed or not
          Points            \* points to locate

ASSUME NumbersAssumption == Numbers \subseteq Word

ASSUME TextsAssumption ==
    Texts \subseteq [sign : {"", "-", "+"}, whole : Seq(Digit), fraction : Seq(Digit)]

PointType == [x : Word, y : Word]

SpanType == [arc : BOOLEAN, start : PointType, end : PointType, center : PointType, ccw : BOOLEAN]

ASSUME ContoursAssumption == Points \subseteq PointType /\ Loops \subseteq Seq(SpanType)

\* Points are subtracted without a way to report overflow: point.hpp asserts that
\* there is none, which the caller has to see to.
ASSUME DifferencesAssumption ==
    \A loop \in Loops : \A i \in DOMAIN loop :
        LET Near == {loop[j].start : j \in DOMAIN loop} \cup {loop[i].end} \cup Points
        IN  /\ \A p \in Near : Minus(p, loop[i].start) \in PointType
            /\ loop[i].arc => \A p \in {loop[i].start, loop[i].end} :
                                 Minus(p, loop[i].center) \in PointType

\* pad_shape.hpp:36 has every outline valid.  It is within the limits KiCad sets to
\* ratio and delta, which the importer does not check; of pads not too small to
\* halve, nor too large for the signed area; and not of an oval longer than wide by one.
ASSUME PadsAssumption ==
    \A p \in PadParams :
        /\ p.shape \in {"rect", "circle", "oval", "roundrect", "trapezoid"}
        /\ p.w \in Nat /\ p.h \in Nat /\ p.radius \in Int /\ p.dx \in Int /\ p.dy \in Int
        /\ p.w >= 2 /\ p.h >= 2 /\ 16 * (p.w * p.h) <= MaxInt
        /\ 2 * p.radius <= p.w /\ 2 * p.radius <= p.h
        /\ -p.h <= p.dx /\ p.dx <= p.h /\ -p.w <= p.dy /\ p.dy <= p.w
        /\ p.shape = "oval" => p.w - p.h \notin {-1, 1}

VARIABLE call               \* the last pure call: [op, args, result]

vars == <<bounds, cells, answer, call>>

Init ==
    /\ SpatialInit
    /\ call = [op |-> "none", args |-> <<>>, result |-> <<>>]

IndexCall ==
    /\ call.op = "none"
    /\ \E box \in Boxes : (Len(bounds) < MaxBoxes /\ Insert(box)) \/ Query(box)
    /\ UNCHANGED call

Return(op, args, result) ==
    /\ call.op = "none" /\ bounds = <<>> /\ answer.region = EmptyBox
    /\ call' = [op |-> op, args |-> args, result |-> result]
    /\ UNCHANGED spatialVars

ArithCall ==
    \E a, b \in Numbers :
        \/ Return("add", <<a, b>>, CheckedAdd(a, b))
        \/ Return("sub", <<a, b>>, CheckedSub(a, b))
        \/ Return("mul", <<a, b>>, CheckedMul(a, b))

UnitCall ==
    \/ \E text \in Texts : Return("parse", <<text>>, ParseDecimal(text))
    \/ \E v \in Numbers : Return("format", <<v>>, FormatDecimal(v))

PadCall == \E p \in PadParams : Return("pad", <<p>>, PadOutline(p))

ContourCall ==
    \/ \E loop \in Loops : Return("validate", <<loop>>, <<ContourValidity(loop), Orientation(loop)>>)
    \/ \E loop \in Loops, p \in Points :
            Return("contains", <<loop, p>>, StrictlyContains(loop, p))

Next == IndexCall \/ ArithCall \/ UnitCall \/ PadCall \/ ContourCall

Spec == Init /\ [][Next]_vars

-----------------------------------------------------------------------------
TypeOK ==
    /\ SpatialTypeOK
    /\ call.op \in {"none", "add", "sub", "mul", "parse", "format", "pad", "validate", "contains"}

Exact(op, a, b) == CASE op = "add" -> a + b [] op = "sub" -> a - b [] op = "mul" -> a * b

\* checked_arith.hpp: an operation succeeds exactly when its true result has a
\* representation, and then returns it.  The hazard is the boundary: the least
\* number has no negation, and division truncates the bound it is tested against.
CheckedExact ==
    call.op \in {"add", "sub", "mul"} =>
        call.result = {Exact(call.op, call.args[1], call.args[2])} \cap Word

AbsOf(n) == IF n < 0 THEN -n ELSE n

DecimalValue(digits) ==
    LET upTo[n \in 0 .. Len(digits)] == IF n = 0 THEN 0 ELSE 10 * upTo[n - 1] + digits[n]
    IN  upTo[Len(digits)]

\* units.cpp: the value read is the one nearest to the decimal, half a unit
\* rounding away from zero, and a decimal is refused only when it has no digit
\* or its nearest value no representation.  (The value of the text is compared
\* after multiplying by the power of ten that makes it whole.)
ParseNearest ==
    call.op = "parse" =>
        LET text     == call.args[1]
            unit     == Pow10[Len(text.fraction)]
            exact    == DecimalValue(text.whole \o text.fraction) * SCALE_PER_UNIT
            nearest  == (2 * exact + unit) \div (2 * unit)
            digits   == text.whole \o text.fraction # <<>>
        IN  call.result = IF digits /\ nearest <= MaxInt
                          THEN {IF text.sign = "-" THEN -nearest ELSE nearest} ELSE {}

\* What the exporter writes the importer reads back (units.hpp: "for every
\* representable x"): true of every number except the least one, whose
\* magnitude the parser builds before it applies the sign.
FormatParses ==
    call.op = "format" =>
        ParseDecimal(call.result) = {call.args[1]} \ {MinInt}

Corners(outline) == UNION {{s.start, s.end} : s \in ToSet(outline)}

Spread(S) == Max(S) - Min(S)

IsTallOval(p) == p.shape = "oval" /\ p.w < p.h

\* Half of what the corners of a pad's outline span: the longer of a trapezoid's
\* parallel sides exceeds the pad by delta, and an oval's corners are where its caps
\* begin, the caps' radius short of its ends.
HalfSpan(p) ==
    CASE p.shape = "trapezoid" /\ p.dx # 0 -> Pt(TruncDiv(p.w, 2), TruncDiv(p.h, 2) + AbsOf(TruncDiv(p.dx, 2)))
      [] p.shape = "trapezoid" /\ p.dx = 0 -> Pt(TruncDiv(p.w, 2) + AbsOf(TruncDiv(p.dy, 2)), TruncDiv(p.h, 2))
      [] p.shape = "oval" /\ p.w > p.h     -> Pt(TruncDiv(p.w - p.h, 2), TruncDiv(p.h, 2))
      [] p.shape = "oval" /\ p.w < p.h     -> Pt(TruncDiv(p.w, 2), TruncDiv(p.h - p.w, 2))
      [] OTHER                             -> Pt(TruncDiv(p.w, 2), TruncDiv(p.h, 2))

\* pad_shape.cpp: within PadsAssumption, the outline of a pad is a valid polygon
\* (pad_shape.hpp:36), its corners reach as far as the sizes in the file say, it is
\* wound counterclockwise, which later code takes for granted, and its arcs bulge
\* outwards, those of an oval taller than wide excepted: see CapsBulgeOutward.
PadOutlineSound ==
    call.op = "pad" =>
        LET p == call.args[1]
        IN  /\ call.result = {} <=> p.shape = "circle" /\ p.w # p.h
            /\ \A outline \in call.result :
                /\ PolygonValidity([outline |-> outline, holes |-> <<>>]) = "Valid"
                /\ Spread({c.x : c \in Corners(outline)}) = 2 * HalfSpan(p).x
                /\ Spread({c.y : c \in Corners(outline)}) = 2 * HalfSpan(p).y
                /\ \A s \in ToSet(outline) : s.arc /\ ~IsTallOval(p) => s.ccw

\* pad_shape.cpp:89-90: an oval is "two straight edges joined by two semicircular
\* end caps"; in an outline wound counterclockwise a cap that travels clockwise
\* bulges into the pad.
CapsBulgeOutward ==
    call.op = "pad" /\ call.args[1].shape = "oval" =>
        \A outline \in call.result : \A s \in ToSet(outline) : s.arc => s.ccw

RotateStart(loop, k) == [i \in DOMAIN loop |-> loop[((i + k - 1) % Len(loop)) + 1]]

\* What validate() finds, the two faults it looks for in one pass taken together: a
\* loop with an open joint and an invalid arc is reported for the one listed first.
Verdict(loop) ==
    IF ContourValidity(loop) \in {"Discontinuous", "InvalidArcSpan"} THEN "Broken"
    ELSE ContourValidity(loop)

OnChord(a, b, p) ==
    /\ 0 \in SideOf(a, b, p)
    /\ p.x \in Min({a.x, b.x}) .. Max({a.x, b.x})
    /\ p.y \in Min({a.y, b.y}) .. Max({a.y, b.y})

\* contour.cpp: validity, winding and inside belong to the curve, away from the end
\* of the word.  They do not depend on the span a loop is listed from, nor on where
\* on the board and which way up it lies; reversing the travel reverses the winding
\* only; and what is inside does not depend on the direction of the ray, through
\* vertices and along chords, unless the point is on a chord (contour.hpp:70-73).
\* Validators, importer and boolean operations look at one loop from different
\* spans and must agree.
OutlineTestsIntrinsic ==
    call.op \in {"validate", "contains"} /\ call.args[1] # <<>> =>
        LET loop   == call.args[1]
            Listed == {RotateStart(loop, k) : k \in 1 .. Len(loop) - 1}
            Turned == {Rotate(loop, q) : q \in 1 .. 3}
            Same(l) == Verdict(l) = Verdict(loop) /\ Orientation(l) = call.result[2]
            p      == call.args[2]
            Beside == \A i \in DOMAIN loop : ~OnChord(loop[i].start, After(loop, i).start, p)
        IN  /\ call.op = "validate" =>
                /\ \A l \in Listed \cup Turned \cup {Translate(loop, Pt(1, -2))} : Same(l)
                /\ Verdict(ReverseContour(loop)) = Verdict(loop)
                /\ call.result[1] = "Valid" /\ call.result[2] # "Degenerate" =>
                        Orientation(CanonicalizeWinding(loop)) = "CounterClockwise"
            /\ call.op = "contains" =>
                /\ \A l \in Listed : StrictlyContains(l, p) = call.result
                /\ Verdict(loop) = "Valid" =>
                        StrictlyContains(ReverseContour(loop), p) = call.result
                /\ Beside => \A q \in 1 .. 3 :
                        StrictlyContains(Rotate(loop, q), RotatePoint(p, q)) = call.result

\* contour_strictly_contains: the even-odd count agrees with the three half planes
\* of a triangle, whichever way it is wound, also on a line through a vertex: a point
\* to the same side of all three edges is inside, one with edges on both sides of
\* it is not.  An edge whose side overflows is on neither.
ContainsExact ==
    call.op = "contains" /\ Len(call.args[1]) = 3 /\ ContourValidity(call.args[1]) = "Valid" =>
        LET loop    == call.args[1]
            Side(i) == SideOf(loop[i].start, loop[i].end, call.args[2])
            left    == {i \in DOMAIN loop : \E v \in Side(i) : v > 0}
            right   == {i \in DOMAIN loop : \E v \in Side(i) : v < 0}
        IN  /\ DOMAIN loop \in {left, right} => call.result
            /\ left # {} /\ right # {} => ~call.result
=============================================================================
