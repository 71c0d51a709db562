------------------------ MODULE GeometryCallsProofs -------------------------
(***************************************************************************)
(* The exact geometry for every width of the word, every cell size and     *)
(* every set of operands and boxes.  Checked arithmetic succeeds exactly   *)
(* when the word holds the true result; and a client that mixes pure calls *)
(* with the spatial index leaves the index what SpatialIndex promises,     *)
(* since it implements SpatialSpec: an index call is a step of it and a    *)
(* pure call touches none of its variables.  The grid itself answers as a  *)
(* scan would: floor division is monotone, so the cells of a box are the   *)
(* image of its points, and two boxes that meet share the cell of a common *)
(* point.                                                                  *)
(***************************************************************************)
EXTENDS GeometryCalls, FiniteSetTheorems, WellFoundedInduction, TLAPS

-----------------------------------------------------------------------------
\* The grid.

\* C++ / and % against a positive divisor: floor_div's result r satisfies
\* b * r <= a < b * r + b, on both sides of zero.
LEMMA FloorDivBounds ==
    ASSUME NEW a \in Int, NEW b \in Nat \ {0}
    PROVE  /\ FloorDiv(a, b) \in Int
           /\ b * FloorDiv(a, b) <= a
           /\ a < b * FloorDiv(a, b) + b
<1> DEFINE q == Quotient(a, b)
<1>1. q \in Int
    BY DEF Quotient
<1>2. CASE a >= 0
    <2>1. b * q <= a /\ a < b * q + b
        BY <1>2 DEF Quotient
    <2>2. ~(Remainder(a, b) < 0) /\ ~(b < 0)
        BY <1>1, <2>1 DEF Remainder
    <2>3. FloorDiv(a, b) = q
        BY <2>2 DEF FloorDiv
    <2> QED BY <1>1, <2>1, <2>3
<1>3. CASE a < 0
    <2> DEFINE p == (-a) \div b
    <2>1. p \in Int /\ b * p <= -a /\ -a < b * p + b
        BY <1>3
    <2>2. q = -p
        BY <1>3 DEF Quotient
    <2>3. b * q = -(b * p)
        BY <2>1, <2>2
    <2>4. Remainder(a, b) = a - b * q /\ Remainder(a, b) \in Int
        BY <1>1 DEF Remainder
    <2>5. CASE Remainder(a, b) = 0
        <3>1. FloorDiv(a, b) = q
            BY <2>5 DEF FloorDiv
        <3> QED BY <1>1, <2>4, <2>5, <3>1
    <2>6. CASE Remainder(a, b) # 0
        <3>1. Remainder(a, b) < 0
            BY <2>1, <2>3, <2>4, <2>6
        <3>2. FloorDiv(a, b) = q - 1
            BY <2>6, <3>1 DEF FloorDiv
        <3>3. b * (q - 1) = b * q - b
            BY <1>1
        <3> QED BY <1>1, <2>1, <2>3, <2>4, <3>1, <3>2, <3>3
    <2> QED BY <2>4, <2>5, <2>6
<1> QED BY <1>2, <1>3

\* Cell coordinates keep the order of the coordinates.
LEMMA FloorDivMonotone ==
    ASSUME NEW a \in Int, NEW c \in Int, a <= c, NEW b \in Nat \ {0}
    PROVE  FloorDiv(a, b) <= FloorDiv(c, b)
<1> DEFINE x == FloorDiv(a, b)
           y == FloorDiv(c, b)
<1>1. x \in Int /\ y \in Int /\ b * x <= a /\ c < b * y + b
    BY FloorDivBounds
<1>2. SUFFICES ASSUME y + 1 <= x PROVE FALSE
    BY <1>1
<1> HIDE DEF x, y
<1>3. b * (y + 1) <= b * x
    BY <1>1, <1>2
<1>4. b * (y + 1) = b * y + b
    BY <1>1
<1> QED BY <1>1, <1>3, <1>4

\* Boxes that meet share the cell of a common point.
LEMMA MeetingBoxesShareACell ==
    ASSUME NEW a \in BoxType, NEW b \in BoxType, Intersects(a, b)
    PROVE  \E c \in CellsOf(a) : c \in CellsOf(b)
<1> USE SpatialAssumption
<1> DEFINE x == IF a.minx >= b.minx THEN a.minx ELSE b.minx
           y == IF a.miny >= b.miny THEN a.miny ELSE b.miny
           F(n) == FloorDiv(n, CellSize)
<1>1. /\ x \in Int /\ y \in Int
      /\ a.minx <= x /\ x <= a.maxx /\ b.minx <= x /\ x <= b.maxx
      /\ a.miny <= y /\ y <= a.maxy /\ b.miny <= y /\ y <= b.maxy
    BY DEF Intersects, IsEmpty, BoxType
<1>2. /\ a.minx \in Int /\ a.maxx \in Int /\ a.miny \in Int /\ a.maxy \in Int
      /\ b.minx \in Int /\ b.maxx \in Int /\ b.miny \in Int /\ b.maxy \in Int
    BY DEF BoxType
<1> HIDE DEF x, y
<1>3. \A n \in Int : F(n) \in Int
    BY FloorDivBounds
<1>4. \A n, k \in Int : n <= k => F(n) <= F(k)
    BY FloorDivMonotone
<1> HIDE DEF F
<1>5. F(x) \in F(a.minx) .. F(a.maxx) /\ F(x) \in F(b.minx) .. F(b.maxx)
    BY <1>1, <1>2, <1>3, <1>4
<1>6. F(y) \in F(a.miny) .. F(a.maxy) /\ F(y) \in F(b.miny) .. F(b.maxy)
    BY <1>1, <1>2, <1>3, <1>4
<1>7. ~IsEmpty(a) /\ ~IsEmpty(b)
    BY DEF Intersects
<1>8. <<F(x), F(y)>> \in CellsOf(a) /\ <<F(x), F(y)>> \in CellsOf(b)
    BY <1>5, <1>6, <1>7 DEF CellsOf, F
<1> QED BY <1>8

\* A cell is a pair of integers.
LEMMA CellsArePairs ==
    ASSUME NEW a \in BoxType
    PROVE  CellsOf(a) \subseteq Pairs
<1>1. /\ FloorDiv(a.minx, CellSize) \in Int /\ FloorDiv(a.maxx, CellSize) \in Int
      /\ FloorDiv(a.miny, CellSize) \in Int /\ FloorDiv(a.maxy, CellSize) \in Int
    BY FloorDivBounds, SpatialAssumption DEF BoxType
<1> QED BY <1>1 DEF CellsOf, Pairs

-----------------------------------------------------------------------------
\* Every box inserted so far is a box of the client's, and what was answered
\* was answered for the boxes of that time.
THEOREM SpatialTypeCorrect == SpatialSpec => []SpatialTypeOK
<1>1. SpatialInit => SpatialTypeOK
    BY DEF SpatialInit, SpatialTypeOK
<1>2. SpatialTypeOK /\ [SpatialNext]_spatialVars => SpatialTypeOK'
    <2> SUFFICES ASSUME SpatialTypeOK, [SpatialNext]_spatialVars PROVE SpatialTypeOK'
        OBVIOUS
    <2>1. ASSUME NEW box \in Boxes, Insert(box) PROVE SpatialTypeOK'
        <3>1. box \in BoxType
            BY SpatialAssumption
        <3>2. CellsOf(box) \subseteq Pairs
            BY <3>1, CellsArePairs
        <3>3. /\ bounds \in Seq(Boxes)
              /\ bounds' = Append(bounds, box)
              /\ cells' = cells \cup (CellsOf(box) \X {Len(bounds) + 1})
              /\ answer' = answer
            BY <2>1 DEF Insert, SpatialTypeOK
        <3>4. bounds' \in Seq(Boxes) /\ Len(bounds') = Len(bounds) + 1 /\ Len(bounds) \in Nat
            BY <3>3
        <3>5. DOMAIN bounds' = 1 .. Len(bounds) + 1 /\ DOMAIN bounds = 1 .. Len(bounds)
            BY <3>3, <3>4
        <3>6. cells' \subseteq Pairs \X (DOMAIN bounds')
            BY <3>2, <3>3, <3>4, <3>5 DEF SpatialTypeOK
        <3> QED BY <3>3, <3>4, <3>6 DEF SpatialTypeOK
    <2>2. ASSUME NEW box \in Boxes, Query(box) PROVE SpatialTypeOK'
        <3>1. bounds \in Seq(Boxes) /\ Len(bounds) \in Nat
            BY DEF SpatialTypeOK
        <3> QED BY <2>2, <3>1 DEF Query, SpatialTypeOK
    <2>3. CASE UNCHANGED spatialVars
        BY <2>3 DEF SpatialTypeOK, spatialVars
    <2> QED BY <2>1, <2>2, <2>3 DEF SpatialNext
<1> QED BY <1>1, <1>2, PTL DEF SpatialSpec

\* What Insert() keeps up and a query relies on.
Filed == cells = UNION {CellsOf(bounds[i]) \X {i} : i \in DOMAIN bounds}

LEMMA BoxesAreFiled == SpatialSpec => []Filed
<1>1. SpatialInit => Filed
    BY DEF SpatialInit, Filed
<1>2. SpatialTypeOK /\ Filed /\ [SpatialNext]_spatialVars => Filed'
    <2> SUFFICES ASSUME SpatialTypeOK, Filed, [SpatialNext]_spatialVars PROVE Filed'
        OBVIOUS
    <2>1. ASSUME NEW box \in Boxes, Insert(box) PROVE Filed'
        <3>1. /\ bounds \in Seq(Boxes) /\ Len(bounds) \in Nat
              /\ bounds' = Append(bounds, box)
              /\ cells' = cells \cup (CellsOf(box) \X {Len(bounds) + 1})
            BY <2>1 DEF Insert, SpatialTypeOK
        <3>2. DOMAIN bounds' = 1 .. Len(bounds) + 1 /\ DOMAIN bounds = 1 .. Len(bounds)
            BY <3>1
        <3>3. \A i \in 1 .. Len(bounds) : bounds'[i] = bounds[i]
            BY <3>1
        <3>4. bounds'[Len(bounds) + 1] = box
            BY <3>1
        <3>5. UNION {CellsOf(bounds'[i]) \X {i} : i \in DOMAIN bounds'}
                = (UNION {CellsOf(bounds[i]) \X {i} : i \in DOMAIN bounds})
                    \cup (CellsOf(box) \X {Len(bounds) + 1})
            BY <3>1, <3>2, <3>3, <3>4
        <3> QED BY <3>1, <3>5 DEF Filed
    <2>2. ASSUME NEW box \in Boxes, Query(box) PROVE Filed'
        BY <2>2 DEF Query, Filed
    <2>3. CASE UNCHANGED spatialVars
        BY <2>3 DEF Filed, spatialVars
    <2> QED BY <2>1, <2>2, <2>3 DEF SpatialNext
<1> QED BY <1>1, <1>2, SpatialTypeCorrect, PTL DEF SpatialSpec

\* A query finds a box exactly when the box meets the region.
LEMMA CandidatesSuffice ==
    ASSUME SpatialTypeOK, Filed, NEW region \in Boxes, NEW i \in DOMAIN bounds,
           Intersects(bounds[i], region)
    PROVE  \E c \in CellsOf(region) : <<c, i>> \in cells
<1>1. bounds[i] \in BoxType /\ region \in BoxType
    BY SpatialAssumption DEF SpatialTypeOK
<1>2. PICK c \in CellsOf(bounds[i]) : c \in CellsOf(region)
    BY <1>1, MeetingBoxesShareACell
<1>3. <<c, i>> \in cells
    BY <1>2 DEF Filed
<1> QED BY <1>2, <1>3

THEOREM SpatialQueryExact == SpatialSpec => []QueryExact
<1>1. SpatialInit => QueryExact
    BY DEF SpatialInit, QueryExact
<1>2. SpatialTypeOK /\ Filed /\ QueryExact /\ [SpatialNext]_spatialVars => QueryExact'
    <2> SUFFICES ASSUME SpatialTypeOK, Filed, QueryExact, [SpatialNext]_spatialVars
                 PROVE  QueryExact'
        OBVIOUS
    <2>1. ASSUME NEW box \in Boxes, Insert(box) PROVE QueryExact'
        <3>1. /\ bounds \in Seq(Boxes) /\ Len(bounds) \in Nat
              /\ bounds' = Append(bounds, box) /\ answer' = answer
            BY <2>1 DEF Insert, SpatialTypeOK
        <3>2. answer.count \in 0 .. Len(bounds)
            BY DEF SpatialTypeOK
        <3>3. \A i \in 1 .. answer.count : bounds'[i] = bounds[i]
            BY <3>1, <3>2
        <3> QED BY <3>1, <3>3 DEF QueryExact
    <2>2. ASSUME NEW box \in Boxes, Query(box) PROVE QueryExact'
        <3>1. /\ bounds \in Seq(Boxes) /\ Len(bounds) \in Nat /\ bounds' = bounds
              /\ answer'.region = box /\ answer'.count = Len(bounds)
              /\ answer'.hits = {i \in {k \in DOMAIN bounds : \E c \in CellsOf(box) : <<c, k>> \in cells} :
                                    Intersects(bounds[i], box)}
            BY <2>2 DEF Query, SpatialTypeOK
        <3>2. DOMAIN bounds = 1 .. Len(bounds)
            BY <3>1
        <3>3. \A i \in DOMAIN bounds : Intersects(bounds[i], box) => \E c \in CellsOf(box) : <<c, i>> \in cells
            BY CandidatesSuffice
        <3> QED BY <3>1, <3>2, <3>3 DEF QueryExact
    <2>3. CASE UNCHANGED spatialVars
        BY <2>3 DEF QueryExact, spatialVars
    <2> QED BY <2>1, <2>2, <2>3 DEF SpatialNext
<1> QED BY <1>1, <1>2, SpatialTypeCorrect, BoxesAreFiled, PTL DEF SpatialSpec

-----------------------------------------------------------------------------
\* The checked arithmetic, and the client of all calls.

\* The division tests ask what they stand for: x > n / y exactly when x * y > n.
LEMMA DivisionBound ==
    ASSUME NEW x \in Nat, NEW y \in Nat \ {0}, NEW n \in Nat
    PROVE  x > n \div y <=> x * y > n
<1> DEFINE q == n \div y
<1>1. q \in Nat /\ y * q <= n /\ n < y * q + y
    OBVIOUS
<1> HIDE DEF q
<1>2. CASE x > q
    <2>1. x >= q + 1
        BY <1>1, <1>2
    <2>2. y * x >= y * (q + 1)
        BY <1>1, <2>1
    <2>3. y * (q + 1) = y * q + y
        BY <1>1
    <2>4. x * y > n
        BY <1>1, <2>2, <2>3
    <2> QED BY <1>2, <2>4 DEF q
<1>3. CASE x <= q
    <2>1. y * x <= y * q
        BY <1>1, <1>3
    <2>2. x * y <= n
        BY <1>1, <2>1
    <2> QED BY <1>1, <1>3, <2>2 DEF q
<1> QED BY <1>1, <1>2, <1>3

\* checked_mul's four division tests, for operands other than 0 and -1.
LEMMA MulOverflowsExact ==
    ASSUME NEW a \in Word, NEW b \in Word, a \notin {0, -1}, b \notin {0, -1}
    PROVE  MulOverflows(a, b) <=> a * b \notin Word
<1> USE MaxIntAssumption
<1>1. a \in Int /\ b \in Int /\ MaxInt \in Nat /\ MinInt = -MaxInt - 1
    BY DEF Word, MinInt
<1>2. \A n \in Int : n \in Word <=> MinInt <= n /\ n <= MaxInt
    BY <1>1 DEF Word
<1>3. CASE a > 0 /\ b > 0
    <2>1. TruncDiv(MaxInt, b) = MaxInt \div b
        BY <1>1, <1>3 DEF TruncDiv
    <2>2. a > MaxInt \div b <=> a * b > MaxInt
        BY <1>1, <1>3, DivisionBound
    <2>3. a * b \in Int /\ a * b > 0
        BY <1>1, <1>3
    <2> QED BY <1>1, <1>2, <1>3, <2>1, <2>2, <2>3 DEF MulOverflows
<1>4. CASE a > 0 /\ b < 0
    <2>1. TruncDiv(MinInt, a) = -((MaxInt + 1) \div a)
        BY <1>1, <1>4 DEF TruncDiv
    <2>2. -b > (MaxInt + 1) \div a <=> (-b) * a > MaxInt + 1
        BY <1>1, <1>4, DivisionBound
    <2>3. (-b) * a = -(a * b) /\ a * b \in Int /\ a * b < 0
        BY <1>1, <1>4
    <2>4. (MaxInt + 1) \div a \in Int
        BY <1>1, <1>4
    <2> QED BY <1>1, <1>2, <1>4, <2>1, <2>2, <2>3, <2>4 DEF MulOverflows
<1>5. CASE a < 0 /\ b > 0
    <2>1. TruncDiv(MinInt, b) = -((MaxInt + 1) \div b)
        BY <1>1, <1>5 DEF TruncDiv
    <2>2. -a > (MaxInt + 1) \div b <=> (-a) * b > MaxInt + 1
        BY <1>1, <1>5, DivisionBound
    <2>3. (-a) * b = -(a * b) /\ a * b \in Int /\ a * b < 0
        BY <1>1, <1>5
    <2>4. (MaxInt + 1) \div b \in Int
        BY <1>1, <1>5
    <2> QED BY <1>1, <1>2, <1>5, <2>1, <2>2, <2>3, <2>4 DEF MulOverflows
<1>6. CASE a < 0 /\ b < 0
    <2>1. TruncDiv(MaxInt, b) = -(MaxInt \div (-b))
        BY <1>1, <1>6 DEF TruncDiv
    <2>2. -a > MaxInt \div (-b) <=> (-a) * (-b) > MaxInt
        BY <1>1, <1>6, DivisionBound
    <2>3. (-a) * (-b) = a * b /\ a * b \in Int /\ a * b > 0
        BY <1>1, <1>6
    <2>4. MaxInt \div (-b) \in Int
        BY <1>1, <1>6
    <2> QED BY <1>1, <1>2, <1>6, <2>1, <2>2, <2>3, <2>4 DEF MulOverflows
<1> QED BY <1>1, <1>3, <1>4, <1>5, <1>6

\* checked_add and checked_sub, whose bounds may not themselves leave the word.
THEOREM CheckedSumsExact ==
    ASSUME NEW a \in Word, NEW b \in Word
    PROVE  /\ CheckedAdd(a, b) = {a + b} \cap Word
           /\ CheckedSub(a, b) = {a - b} \cap Word
           /\ b > 0 => MaxInt - b \in Word /\ MinInt + b \in Word
           /\ b < 0 => MinInt - b \in Word /\ MaxInt + b \in Word
<1> USE MaxIntAssumption DEF Word, MinInt
<1>1. a \in Int /\ b \in Int /\ MaxInt \in Nat
    OBVIOUS
<1>2. CheckedAdd(a, b) = {a + b} \cap Word
    BY <1>1 DEF CheckedAdd
<1>3. CheckedSub(a, b) = {a - b} \cap Word
    BY <1>1 DEF CheckedSub
<1> QED BY <1>1, <1>2, <1>3

\* checked_mul: the quotient tests, the zero and the minus one cases together.
THEOREM CheckedMulExact ==
    ASSUME NEW a \in Word, NEW b \in Word
    PROVE  CheckedMul(a, b) = {a * b} \cap Word
<1> USE MaxIntAssumption
<1>1. a \in Int /\ b \in Int /\ MaxInt \in Nat /\ MinInt = -MaxInt - 1
    BY DEF Word, MinInt
<1>2. \A n \in Int : n \in Word <=> MinInt <= n /\ n <= MaxInt
    BY <1>1 DEF Word
<1>3. CASE a = 0 \/ b = 0
    <2>1. a * b = 0 /\ 0 \in Word
        BY <1>1, <1>2, <1>3
    <2> QED BY <1>1, <1>3, <2>1 DEF CheckedMul
<1>4. CASE a = -1 /\ b # 0
    <2>1. a * b = -b
        BY <1>1, <1>4
    <2>2. -b \in Word <=> b # MinInt
        BY <1>1, <1>2
    <2> QED BY <1>1, <1>4, <2>1, <2>2 DEF CheckedMul
<1>5. CASE b = -1 /\ a \notin {0, -1}
    <2>1. a * b = -a
        BY <1>1, <1>5
    <2>2. -a \in Word <=> a # MinInt
        BY <1>1, <1>2
    <2> QED BY <1>1, <1>5, <2>1, <2>2 DEF CheckedMul
<1>6. CASE a \notin {0, -1} /\ b \notin {0, -1}
    <2>1. MulOverflows(a, b) <=> a * b \notin Word
        BY <1>6, MulOverflowsExact
    <2>2. CheckedMul(a, b) = IF MulOverflows(a, b) THEN {} ELSE {a * b}
        BY <1>1, <1>6 DEF CheckedMul
    <2> QED BY <2>1, <2>2
<1> QED BY <1>1, <1>3, <1>4, <1>5, <1>6
-----------------------------------------------------------------------------
\* A client's index call is a step of the index, every other call stutters.
LEMMA StepsAreIndexSteps == [Next]_vars => [SpatialNext]_spatialVars
<1>1. ASSUME Next PROVE [SpatialNext]_spatialVars
    <2>1. CASE IndexCall
        BY <2>1 DEF IndexCall, SpatialNext
    <2>2. CASE ArithCall \/ UnitCall \/ PadCall \/ ContourCall
        BY <2>2 DEF ArithCall, UnitCall, PadCall, ContourCall, Return
    <2> QED BY <1>1, <2>1, <2>2 DEF Next
<1>2. UNCHANGED vars => UNCHANGED spatialVars
    BY DEF vars, spatialVars
<1> QED BY <1>1, <1>2

\* The client implements the spatial index alone: no call between two of the
\* index's operations is seen by it.
THEOREM CallsImplementIndex == Spec => SpatialSpec
<1>1. Init => SpatialInit
    BY DEF Init
<1> QED BY <1>1, StepsAreIndexSteps, PTL DEF Spec, SpatialSpec

\* spatial_index.cpp: a query answers as a scan of every box would, whatever is
\* called between an insertion and the query.
THEOREM QueriesAreExact == Spec => []QueryExact
BY CallsImplementIndex, SpatialQueryExact, PTL

\* The index's state has its type and a pure call names its operation.
THEOREM TypeCorrect == Spec => []TypeOK
<1> DEFINE OpOK == call.op \in {"none", "add", "sub", "mul", "parse", "format", "pad", "validate", "contains"}
<1>1. Init => OpOK
    BY DEF Init
<1>2. OpOK /\ [Next]_vars => OpOK'
    <2> SUFFICES ASSUME OpOK, [Next]_vars PROVE OpOK'
        OBVIOUS
    <2>1. CASE IndexCall \/ UNCHANGED vars
        BY <2>1 DEF IndexCall, vars
    <2>2. CASE ArithCall
        BY <2>2 DEF ArithCall, Return
    <2>3. CASE UnitCall
        BY <2>3 DEF UnitCall, Return
    <2>4. CASE PadCall
        BY <2>4 DEF PadCall, Return
    <2>5. CASE ContourCall
        BY <2>5 DEF ContourCall, Return
    <2> QED BY <2>1, <2>2, <2>3, <2>4, <2>5 DEF Next
<1>3. Spec => []OpOK
    BY <1>1, <1>2, PTL DEF Spec
<1>4. Spec => []SpatialTypeOK
    BY CallsImplementIndex, SpatialTypeCorrect, PTL
<1>5. SpatialTypeOK /\ OpOK => TypeOK
    BY DEF TypeOK
<1> QED BY <1>3, <1>4, <1>5, PTL

\* checked_arith.hpp, as its callers see it: on every pair of operands an operation
\* returns the true result when the word holds it and reports overflow otherwise.
THEOREM ArithmeticIsExact == Spec => []CheckedExact
<1>1. Init => CheckedExact
    BY DEF Init, CheckedExact
<1>2. CheckedExact /\ [Next]_vars => CheckedExact'
    <2> SUFFICES ASSUME CheckedExact, [Next]_vars PROVE CheckedExact'
        OBVIOUS
    <2>1. CASE IndexCall \/ UNCHANGED vars
        <3>1. UNCHANGED call
            BY <2>1 DEF IndexCall, vars
        <3> QED BY <3>1 DEF CheckedExact
    <2>2. CASE ArithCall
        <3>1. PICK a, b \in Numbers :
                \/ Return("add", <<a, b>>, CheckedAdd(a, b))
                \/ Return("sub", <<a, b>>, CheckedSub(a, b))
                \/ Return("mul", <<a, b>>, CheckedMul(a, b))
            BY <2>2 DEF ArithCall
        <3>2. a \in Word /\ b \in Word
            BY NumbersAssumption
        <3>3. CASE Return("add", <<a, b>>, CheckedAdd(a, b))
            <4>1. call'.op = "add" /\ call'.args = <<a, b>> /\ call'.result = CheckedAdd(a, b)
                BY <3>3 DEF Return
            <4> QED BY <3>2, <4>1, CheckedSumsExact DEF CheckedExact, Exact
        <3>4. CASE Return("sub", <<a, b>>, CheckedSub(a, b))
            <4>1. call'.op = "sub" /\ call'.args = <<a, b>> /\ call'.result = CheckedSub(a, b)
                BY <3>4 DEF Return
            <4> QED BY <3>2, <4>1, CheckedSumsExact DEF CheckedExact, Exact
        <3>5. CASE Return("mul", <<a, b>>, CheckedMul(a, b))
            <4>1. call'.op = "mul" /\ call'.args = <<a, b>> /\ call'.result = CheckedMul(a, b)
                BY <3>5 DEF Return
            <4> QED BY <3>2, <4>1, CheckedMulExact DEF CheckedExact, Exact
        <3> QED BY <3>1, <3>3, <3>4, <3>5
    <2>3. CASE UnitCall
        <3>1. call'.op \in {"parse", "format"}
            BY <2>3 DEF UnitCall, Return
        <3> QED BY <3>1 DEF CheckedExact
    <2>4. CASE PadCall
        <3>1. call'.op = "pad"
            BY <2>4 DEF PadCall, Return
        <3> QED BY <3>1 DEF CheckedExact
    <2>5. CASE ContourCall
        <3>1. call'.op \in {"validate", "contains"}
            BY <2>5 DEF ContourCall, Return
        <3> QED BY <3>1 DEF CheckedExact
    <2> QED BY <2>1, <2>2, <2>3, <2>4, <2>5 DEF Next
<1> QED BY <1>1, <1>2, PTL DEF Spec

-----------------------------------------------------------------------------
\* Counting, and sequences of values each computed from the one before: what the
\* recursive functions of units.cpp's model need in order to exist.

LEMMA LeastNumber ==
    \A S \in SUBSET Nat : S # {} => \E m \in S : \A k \in S : m <= k
<1> SUFFICES ASSUME NEW S \in SUBSET Nat, S # {}
             PROVE  \E m \in S : \A k \in S : m <= k
    OBVIOUS
<1> DEFINE R == OpToRel(<, Nat)
<1>1. IsWellFoundedOn(R, Nat)
    BY NatLessThanWellFounded
<1>2. \A x, y \in Nat : y < x => <<y, x>> \in R
    BY DEF R, OpToRel
<1> HIDE DEF R
<1>3. PICK x \in S : \A y \in S : <<y, x>> \notin R
    BY <1>1, WFMin
<1>4. ASSUME NEW y \in S PROVE x <= y
    <2>1. x \in Nat /\ y \in Nat /\ ~(y < x)
        BY <1>2, <1>3
    <2> QED BY <2>1
<1> QED BY <1>4

\* What holds of 0 and passes from each number below n to the next holds of n.
LEMMA CountUp ==
    ASSUME NEW n \in Nat, NEW S, 0 \in S, \A m \in 0 .. n - 1 : m \in S => m + 1 \in S
    PROVE  n \in S
<1> SUFFICES ASSUME n \notin S PROVE FALSE
    OBVIOUS
<1> DEFINE T == {m \in 0 .. n : m \notin S}
<1>1. T \in SUBSET Nat /\ T # {}
    OBVIOUS
<1>2. PICK m \in T : \A k \in T : m <= k
    BY <1>1, LeastNumber
<1>3. m # 0 /\ m - 1 \in 0 .. n - 1 /\ (m - 1) + 1 = m
    BY <1>2
<1>4. m - 1 \in S
    BY <1>2, <1>3
<1> QED BY <1>2, <1>3, <1>4

Computes(f, n, X, first, step) ==
    /\ f \in [0 .. n -> X]
    /\ f[0] = first
    /\ \A k \in 1 .. n : f[k] = step[k][f[k - 1]]

LEMMA Recursion ==
    ASSUME NEW n \in Nat, NEW X, NEW first \in X, NEW step \in [1 .. n -> [X -> X]]
    PROVE  \E f : Computes(f, n, X, first, step)
<1> DEFINE S == {m \in 0 .. n : \E f : Computes(f, m, X, first, step)}
<1>1. 0 \in S
    <2>1. Computes([k \in 0 .. 0 |-> first], 0, X, first, step)
        BY DEF Computes
    <2> QED BY <2>1
<1>2. ASSUME NEW m \in 0 .. n - 1, m \in S PROVE m + 1 \in S
    <2>1. PICK f : Computes(f, m, X, first, step)
        BY <1>2
    <2>2. /\ f \in [0 .. m -> X] /\ f[0] = first
          /\ \A k \in 1 .. m : f[k] = step[k][f[k - 1]]
        BY <2>1 DEF Computes
    <2> DEFINE next == step[m + 1][f[m]]
               g == [k \in 0 .. m + 1 |-> IF k = m + 1 THEN next ELSE f[k]]
    <2>3. m + 1 \in 1 .. n /\ m \in 0 .. m /\ m \in Nat /\ m + 1 \in 0 .. n
        BY <1>2
    <2>4. next \in X
        BY <2>2, <2>3
    <2> HIDE DEF next
    <2>5. g \in [0 .. m + 1 -> X]
        BY <2>2, <2>3, <2>4
    <2>6. g[0] = first
        BY <2>2, <2>3
    <2>7. ASSUME NEW k \in 1 .. m + 1 PROVE g[k] = step[k][g[k - 1]]
        <3>1. k - 1 \in 0 .. m /\ k - 1 # m + 1 /\ k \in 0 .. m + 1
            BY <2>3
        <3>2. g[k - 1] = f[k - 1]
            BY <3>1
        <3>3. CASE k = m + 1
            BY <3>2, <3>3, <2>3 DEF next
        <3>4. CASE k # m + 1
            <4>1. k \in 1 .. m
                BY <2>3, <3>4
            <4>2. g[k] = f[k]
                BY <3>1, <3>4
            <4> QED BY <2>2, <3>2, <4>1, <4>2
        <3> QED BY <3>3, <3>4
    <2>8. Computes(g, m + 1, X, first, step)
        BY <2>5, <2>6, <2>7 DEF Computes
    <2> QED BY <2>3, <2>8
<1>3. n \in S
    BY <1>1, <1>2, CountUp
<1> QED BY <1>3

\* Ten to the power 0, and to the next power.
LEMMA PowersOfTen ==
    /\ Pow10 \in [Nat -> Nat]
    /\ Pow10[0] = 1
    /\ \A n \in Nat : Pow10[n + 1] = 10 * Pow10[n]
<1> DEFINE tenfold(n) == [k \in 1 .. n |-> [x \in Nat |-> 10 * x]]
           P(n, f) == Computes(f, n, Nat, 1, tenfold(n))
           upTo == [n \in Nat |-> CHOOSE f : P(n, f)]
           h == [n \in Nat |-> upTo[n][n]]
<1>1. ASSUME NEW n \in Nat
      PROVE  /\ upTo[n] \in [0 .. n -> Nat] /\ upTo[n][0] = 1
             /\ \A k \in 1 .. n : upTo[n][k] = 10 * upTo[n][k - 1]
    <2>1. tenfold(n) \in [1 .. n -> [Nat -> Nat]]
        OBVIOUS
    <2>2. \E f : P(n, f)
        BY <2>1, Recursion
    <2>3. P(n, upTo[n])
        BY <2>2
    <2> DEFINE g == upTo[n]
    <2> HIDE DEF upTo
    <2>4. /\ g \in [0 .. n -> Nat] /\ g[0] = 1
          /\ \A k \in 1 .. n : g[k] = tenfold(n)[k][g[k - 1]]
        BY <2>3 DEF Computes
    <2> HIDE DEF g
    <2>5. ASSUME NEW k \in 1 .. n PROVE g[k] = 10 * g[k - 1]
        <3>1. k - 1 \in 0 .. n
            OBVIOUS
        <3>2. g[k - 1] \in Nat
            BY <2>4, <3>1
        <3> QED BY <2>4, <3>2
    <2> QED BY <2>4, <2>5 DEF g
<1> HIDE DEF upTo, P, tenfold
<1>2. ASSUME NEW n \in Nat PROVE upTo[n + 1][n] = upTo[n][n]
    <2> DEFINE S == {k \in 0 .. n : upTo[n + 1][k] = upTo[n][k]}
    <2>1. 0 \in S
        BY <1>1
    <2>2. ASSUME NEW k \in 0 .. n - 1, k \in S PROVE k + 1 \in S
        <3>1. k + 1 \in 1 .. n /\ k + 1 \in 1 .. n + 1 /\ (k + 1) - 1 = k /\ k + 1 \in 0 .. n
            OBVIOUS
        <3>2. upTo[n + 1][k + 1] = 10 * upTo[n + 1][k]
            BY <1>1, <3>1
        <3>3. upTo[n][k + 1] = 10 * upTo[n][k]
            BY <1>1, <3>1
        <3> QED BY <2>2, <3>1, <3>2, <3>3
    <2>3. n \in S
        BY <2>1, <2>2, CountUp
    <2> QED BY <2>3
<1>3. /\ h \in [Nat -> Nat] /\ h[0] = 1
      /\ \A n \in Nat : h[n + 1] = 10 * h[n]
    <2>1. ASSUME NEW n \in Nat PROVE h[n + 1] = 10 * h[n]
        <3>1. n + 1 \in Nat /\ n + 1 \in 1 .. n + 1 /\ (n + 1) - 1 = n
            OBVIOUS
        <3>2. upTo[n + 1][n + 1] = 10 * upTo[n + 1][n]
            BY <1>1, <3>1
        <3> QED BY <1>2, <3>1, <3>2
    <2>2. ASSUME NEW n \in Nat PROVE h[n] \in Nat
        BY <1>1
    <2>3. h[0] = 1
        BY <1>1
    <2> QED BY <2>1, <2>2, <2>3
<1> HIDE DEF h
<1>4. h = [n \in Nat |-> IF n = 0 THEN 1 ELSE 10 * h[n - 1]]
    <2>1. ASSUME NEW n \in Nat PROVE h[n] = IF n = 0 THEN 1 ELSE 10 * h[n - 1]
        <3>1. n # 0 => n - 1 \in Nat /\ (n - 1) + 1 = n
            OBVIOUS
        <3> QED BY <1>3, <3>1
    <2> QED BY <1>3, <2>1
<1>5. Pow10 = CHOOSE f : f = [n \in Nat |-> IF n = 0 THEN 1 ELSE 10 * f[n - 1]]
    BY DEF Pow10
<1>6. Pow10 = [n \in Nat |-> IF n = 0 THEN 1 ELSE 10 * Pow10[n - 1]]
    BY <1>4, <1>5
<1>7. Pow10[0] = 1
    BY <1>6
<1>8. ASSUME NEW n \in Nat PROVE Pow10[n + 1] = 10 * Pow10[n]
    <2>1. n + 1 \in Nat /\ n + 1 # 0 /\ (n + 1) - 1 = n
        OBVIOUS
    <2> QED BY <1>6, <2>1
<1>9. ASSUME NEW n \in Nat PROVE Pow10[n] \in Nat
    <2> DEFINE S == {k \in Nat : Pow10[k] \in Nat}
    <2>1. 0 \in S /\ \A k \in 0 .. n - 1 : k \in S => k + 1 \in S
        BY <1>7, <1>8
    <2>2. n \in S
        BY <2>1, CountUp
    <2> QED BY <2>2
<1> QED BY <1>6, <1>7, <1>8, <1>9

LEMMA PowerPositive ==
    ASSUME NEW n \in Nat
    PROVE  Pow10[n] \in Nat /\ Pow10[n] >= 1
<1> DEFINE S == {k \in Nat : Pow10[k] \in Nat /\ Pow10[k] >= 1}
<1>1. 0 \in S /\ \A k \in 0 .. n - 1 : k \in S => k + 1 \in S
    BY PowersOfTen
<1>2. n \in S
    BY <1>1, CountUp
<1> QED BY <1>2

\* Powers of ten multiply as their exponents add.
LEMMA PowerOfSum ==
    ASSUME NEW m \in Nat, NEW n \in Nat
    PROVE  Pow10[m + n] = Pow10[m] * Pow10[n]
<1> DEFINE S == {k \in Nat : Pow10[m + k] = Pow10[m] * Pow10[k]}
<1>1. 0 \in S
    BY PowersOfTen
<1>2. ASSUME NEW k \in 0 .. n - 1, k \in S PROVE k + 1 \in S
    <2>1. m + (k + 1) = (m + k) + 1 /\ m + k \in Nat /\ k \in Nat
        OBVIOUS
    <2>2. Pow10[m + (k + 1)] = 10 * (Pow10[m] * Pow10[k])
        BY <1>2, <2>1, PowersOfTen
    <2>3. Pow10[k + 1] = 10 * Pow10[k] /\ Pow10[m] \in Nat /\ Pow10[k] \in Nat
        BY <2>1, PowersOfTen
    <2>4. 10 * (Pow10[m] * Pow10[k]) = Pow10[m] * (10 * Pow10[k])
        BY <2>3
    <2> QED BY <2>1, <2>2, <2>3, <2>4
<1>3. n \in S
    BY <1>1, <1>2, CountUp
<1> QED BY <1>3

-----------------------------------------------------------------------------
\* Digits and the numbers they stand for.

\* The values of a text's beginnings, each ten times the one before and a digit more.
Reads(f, digits) ==
    /\ f \in [0 .. Len(digits) -> Nat]
    /\ f[0] = 0
    /\ \A k \in 1 .. Len(digits) : f[k] = 10 * f[k - 1] + digits[k]

LEMMA DigitFacts ==
    ASSUME NEW digits \in Seq(Digit)
    PROVE  /\ Len(digits) \in Nat
           /\ \A k \in 1 .. Len(digits) : digits[k] \in Nat /\ digits[k] <= 9
BY DEF Digit

LEMMA SomeReading ==
    ASSUME NEW digits \in Seq(Digit)
    PROVE  \E f : Reads(f, digits)
<1> DEFINE n == Len(digits)
           step == [k \in 1 .. n |-> [x \in Nat |-> 10 * x + digits[k]]]
<1>1. n \in Nat /\ \A k \in 1 .. n : digits[k] \in Nat
    BY DigitFacts
<1>2. step \in [1 .. n -> [Nat -> Nat]]
    BY <1>1
<1>3. \A k \in 1 .. n : \A x \in Nat : step[k][x] = 10 * x + digits[k]
    OBVIOUS
<1> HIDE DEF step
<1>4. PICK f : Computes(f, n, Nat, 0, step)
    BY <1>1, <1>2, Recursion
<1>5. f \in [0 .. n -> Nat] /\ f[0] = 0 /\ \A k \in 1 .. n : f[k] = step[k][f[k - 1]]
    BY <1>4 DEF Computes
<1>6. ASSUME NEW k \in 1 .. n PROVE f[k] = 10 * f[k - 1] + digits[k]
    <2>1. k - 1 \in 0 .. n
        BY <1>1
    <2>2. f[k - 1] \in Nat
        BY <1>5, <2>1
    <2> QED BY <1>3, <1>5, <2>2
<1> QED BY <1>5, <1>6 DEF Reads

LEMMA DecimalIsReading ==
    ASSUME NEW digits \in Seq(Digit), NEW f, Reads(f, digits)
    PROVE  DecimalValue(digits) = f[Len(digits)]
<1> DEFINE n == Len(digits)
           upTo[k \in 0 .. n] == IF k = 0 THEN 0 ELSE 10 * upTo[k - 1] + digits[k]
<1>1. n \in Nat
    BY DigitFacts
<1>2. f = [k \in 0 .. n |-> IF k = 0 THEN 0 ELSE 10 * f[k - 1] + digits[k]]
    <2>1. ASSUME NEW k \in 0 .. n PROVE f[k] = IF k = 0 THEN 0 ELSE 10 * f[k - 1] + digits[k]
        <3>1. k # 0 => k \in 1 .. n
            BY <1>1
        <3> QED BY <3>1 DEF Reads
    <2> QED BY <2>1 DEF Reads
<1>3. upTo = CHOOSE g : g = [k \in 0 .. n |-> IF k = 0 THEN 0 ELSE 10 * g[k - 1] + digits[k]]
    BY DEF upTo
<1>4. DecimalValue(digits) = upTo[n]
    BY DEF DecimalValue, upTo
<1> HIDE DEF upTo
<1>5. upTo = [k \in 0 .. n |-> IF k = 0 THEN 0 ELSE 10 * upTo[k - 1] + digits[k]]
    BY <1>2, <1>3
<1> DEFINE S == {k \in 0 .. n : upTo[k] = f[k]}
<1>6. 0 \in S
    BY <1>1, <1>5 DEF Reads
<1>7. ASSUME NEW k \in 0 .. n - 1, k \in S PROVE k + 1 \in S
    <2>1. k + 1 \in 0 .. n /\ k + 1 \in 1 .. n /\ k + 1 # 0 /\ (k + 1) - 1 = k
        BY <1>1
    <2>2. upTo[k + 1] = 10 * upTo[k] + digits[k + 1]
        BY <1>5, <2>1
    <2>3. f[k + 1] = 10 * f[k] + digits[k + 1]
        BY <2>1 DEF Reads
    <2> QED BY <1>7, <2>1, <2>2, <2>3
<1>8. n \in S
    BY <1>1, <1>6, <1>7, CountUp
<1> QED BY <1>4, <1>8

LEMMA TenIsWord == 10 \in Word /\ SCALE_PER_UNIT \in Word /\ SCALE_PER_UNIT \in Nat \ {0}
<1>1. FractionDigits \in Nat /\ FractionDigits - 1 \in Nat /\ (FractionDigits - 1) + 1 = FractionDigits
    BY FractionDigitsAssumption
<1>2. SCALE_PER_UNIT = 10 * Pow10[FractionDigits - 1]
    BY <1>1, PowersOfTen DEF SCALE_PER_UNIT
<1>3. Pow10[FractionDigits - 1] \in Nat /\ Pow10[FractionDigits - 1] >= 1
    BY <1>1, PowerPositive
<1> QED BY <1>2, <1>3, ScaleAssumption, MaxIntAssumption DEF Word, MinInt

LEMMA NaturalsInWord ==
    ASSUME NEW n \in Nat
    PROVE  n \in Word <=> n <= MaxInt
BY MaxIntAssumption DEF Word, MinInt

\* One turn of accumulate_digits.
LEMMA DigitAccumulated ==
    ASSUME NEW v \in Nat, NEW d \in Digit
    PROVE  UNION {CheckedAdd(s, d) : s \in UNION {CheckedMul(o, 10) : o \in {v} \cap Word}}
             = {10 * v + d} \cap Word
<1> USE MaxIntAssumption
<1>1. d \in Nat /\ d <= 9 /\ d \in Word /\ 10 \in Word
    BY TenIsWord, NaturalsInWord DEF Digit
<1>2. 10 * v \in Nat /\ 10 * v + d \in Nat /\ v * 10 = 10 * v
    BY <1>1
<1>3. CASE v \notin Word
    <2>1. 10 * v + d \notin Word
        BY <1>1, <1>2, <1>3, NaturalsInWord
    <2> QED BY <1>3, <2>1
<1>4. CASE v \in Word /\ 10 * v \notin Word
    <2>1. 10 * v + d \notin Word
        BY <1>1, <1>2, <1>4, NaturalsInWord
    <2>2. CheckedMul(v, 10) = {}
        BY <1>1, <1>2, <1>4, CheckedMulExact
    <2>3. {v} \cap Word = {v}
        BY <1>4
    <2> HIDE DEF CheckedMul, CheckedAdd
    <2> QED BY <2>1, <2>2, <2>3
<1>5. CASE v \in Word /\ 10 * v \in Word
    <2>1. CheckedMul(v, 10) = {10 * v}
        BY <1>1, <1>2, <1>5, CheckedMulExact
    <2>2. CheckedAdd(10 * v, d) = {10 * v + d} \cap Word
        BY <1>1, <1>5, CheckedSumsExact
    <2>3. {v} \cap Word = {v}
        BY <1>5
    <2>4. UNION {CheckedMul(o, 10) : o \in {v} \cap Word} = {10 * v}
        BY <2>1, <2>3
    <2> QED BY <2>2, <2>4
<1> QED BY <1>3, <1>4, <1>5

\* accumulate_digits: the number the digits stand for, or overflow when the word
\* does not hold it.
LEMMA AccumulateExact ==
    ASSUME NEW digits \in Seq(Digit)
    PROVE  /\ DecimalValue(digits) \in Nat
           /\ AccumulateDigits(digits) = {DecimalValue(digits)} \cap Word
<1> DEFINE n == Len(digits)
           Turn(A, d) == UNION {CheckedAdd(s, d) : s \in UNION {CheckedMul(o, 10) : o \in A}}
           upTo[k \in 0 .. n] ==
               IF k = 0 THEN {0}
               ELSE UNION {CheckedAdd(s, digits[k]) : s \in UNION {CheckedMul(o, 10) : o \in upTo[k - 1]}}
<1>1. n \in Nat /\ \A k \in 1 .. n : digits[k] \in Digit
    OBVIOUS
<1>2. PICK f : Reads(f, digits)
    BY SomeReading
<1>3. /\ f \in [0 .. n -> Nat] /\ f[0] = 0
      /\ \A k \in 1 .. n : f[k] = 10 * f[k - 1] + digits[k]
    BY <1>2 DEF Reads
<1>4. DecimalValue(digits) = f[n] /\ f[n] \in Nat
    BY <1>1, <1>2, <1>3, DecimalIsReading
<1>5. upTo = CHOOSE g : g = [k \in 0 .. n |-> IF k = 0 THEN {0} ELSE Turn(g[k - 1], digits[k])]
    BY DEF upTo
<1>6. AccumulateDigits(digits) = upTo[n]
    BY DEF AccumulateDigits, upTo
<1>7. \A v \in Nat, d \in Digit : Turn({v} \cap Word, d) = {10 * v + d} \cap Word
    BY DigitAccumulated
<1> HIDE DEF upTo, Turn
<1> DEFINE a == [k \in 0 .. n |-> {f[k]} \cap Word]
<1>8. a = [k \in 0 .. n |-> IF k = 0 THEN {0} ELSE Turn(a[k - 1], digits[k])]
    <2>1. ASSUME NEW k \in 0 .. n
          PROVE  a[k] = IF k = 0 THEN {0} ELSE Turn(a[k - 1], digits[k])
        <3>1. CASE k = 0
            <4>1. 0 \in Word
                BY NaturalsInWord, MaxIntAssumption
            <4> QED BY <1>1, <1>3, <3>1, <4>1
        <3>2. CASE k # 0
            <4>1. k \in 1 .. n /\ k - 1 \in 0 .. n
                BY <1>1, <3>2
            <4>2. f[k - 1] \in Nat /\ f[k] = 10 * f[k - 1] + digits[k] /\ digits[k] \in Digit
                BY <1>1, <1>3, <4>1
            <4>3. a[k - 1] = {f[k - 1]} \cap Word /\ a[k] = {f[k]} \cap Word
                BY <4>1
            <4> HIDE DEF a
            <4> QED BY <1>7, <3>2, <4>2, <4>3
        <3> QED BY <3>1, <3>2
    <2> QED BY <2>1
<1> HIDE DEF a
<1>9. upTo = [k \in 0 .. n |-> IF k = 0 THEN {0} ELSE Turn(upTo[k - 1], digits[k])]
    BY <1>5, <1>8
<1> DEFINE S == {k \in 0 .. n : upTo[k] = a[k]}
<1>10. 0 \in S
    BY <1>1, <1>8, <1>9
<1>11. ASSUME NEW k \in 0 .. n - 1, k \in S PROVE k + 1 \in S
    <2>1. k + 1 \in 0 .. n /\ k + 1 # 0 /\ (k + 1) - 1 = k
        BY <1>1
    <2>2. upTo[k + 1] = Turn(upTo[k], digits[k + 1])
        BY <1>9, <2>1
    <2>3. a[k + 1] = Turn(a[k], digits[k + 1])
        BY <1>8, <2>1
    <2> QED BY <1>11, <2>1, <2>2, <2>3
<1>12. n \in S
    BY <1>1, <1>10, <1>11, CountUp
<1>13. a[n] = {f[n]} \cap Word
    BY <1>1 DEF a
<1> QED BY <1>4, <1>6, <1>12, <1>13

LEMMA TimesOne ==
    ASSUME NEW x \in Nat
    PROVE  x * Pow10[0] = x
<1>1. Pow10[0] = 1
    BY PowersOfTen
<1>2. x * 1 = x
    OBVIOUS
<1> QED BY <1>1, <1>2

LEMMA TimesTen ==
    ASSUME NEW x \in Nat, NEW y \in Nat
    PROVE  x * y \in Nat /\ x * (10 * y) = 10 * (x * y)
OBVIOUS

\* Digits after digits.
LEMMA DecimalOfConcat ==
    ASSUME NEW a \in Seq(Digit), NEW b \in Seq(Digit)
    PROVE  DecimalValue(a \o b) = DecimalValue(a) * Pow10[Len(b)] + DecimalValue(b)
<1> DEFINE m == Len(a)
           n == Len(b)
           ab == a \o b
<1>1. /\ m \in Nat /\ n \in Nat /\ ab \in Seq(Digit) /\ Len(ab) = m + n
      /\ \A k \in 1 .. m : ab[k] = a[k]
      /\ \A k \in m + 1 .. m + n : ab[k] = b[k - m]
    OBVIOUS
<1>2. PICK f : Reads(f, a)
    BY SomeReading
<1>3. PICK g : Reads(g, b)
    BY SomeReading
<1>4. f \in [0 .. m -> Nat] /\ f[0] = 0 /\ \A k \in 1 .. m : f[k] = 10 * f[k - 1] + a[k]
    BY <1>2 DEF Reads
<1>5. g \in [0 .. n -> Nat] /\ g[0] = 0 /\ \A k \in 1 .. n : g[k] = 10 * g[k - 1] + b[k]
    BY <1>3 DEF Reads
<1>6. DecimalValue(a) = f[m] /\ DecimalValue(b) = g[n] /\ f[m] \in Nat
    <2>1. m \in 0 .. m
        BY <1>1
    <2>2. f[m] \in Nat
        BY <1>4, <2>1
    <2>3. DecimalValue(a) = f[m] /\ DecimalValue(b) = g[n]
        BY <1>2, <1>3, DecimalIsReading
    <2> QED BY <2>2, <2>3
<1> DEFINE h == [k \in 0 .. m + n |-> IF k <= m THEN f[k] ELSE f[m] * Pow10[k - m] + g[k - m]]
<1>7. h[m + n] = f[m] * Pow10[n] + g[n]
    <2>1. CASE n = 0
        <3>1. f[m] * Pow10[0] = f[m]
            BY <1>6, TimesOne
        <3> QED BY <1>1, <1>5, <1>6, <2>1, <3>1
    <2>2. CASE n # 0
        BY <1>1, <2>2
    <2> QED BY <2>1, <2>2
<1>8. h \in [0 .. m + n -> Nat]
    <2>1. ASSUME NEW k \in 0 .. m + n PROVE h[k] \in Nat
        <3>1. CASE k <= m
            <4>1. k \in 0 .. m
                BY <1>1, <3>1
            <4> QED BY <1>4, <3>1, <4>1
        <3>2. CASE ~(k <= m)
            <4>1. k - m \in 0 .. n /\ k - m \in Nat
                BY <1>1, <3>2
            <4>2. Pow10[k - m] \in Nat /\ g[k - m] \in Nat
                BY <1>5, <4>1, PowersOfTen
            <4>3. f[m] * Pow10[k - m] \in Nat
                BY <1>6, <4>2
            <4> QED BY <3>2, <4>2, <4>3
        <3> QED BY <3>1, <3>2
    <2> QED BY <2>1
<1>9. ASSUME NEW k \in 1 .. m + n PROVE h[k] = 10 * h[k - 1] + ab[k]
    <2>1. k - 1 \in 0 .. m + n /\ k \in 0 .. m + n
        BY <1>1
    <2>2. CASE k <= m
        BY <1>1, <1>4, <2>1, <2>2
    <2>3. CASE ~(k <= m)
        <3> DEFINE j == k - m
        <3>1. /\ j \in 1 .. n /\ j - 1 \in 0 .. n /\ j - 1 \in Nat /\ (j - 1) + 1 = j
              /\ k \in m + 1 .. m + n /\ (k - 1) - m = j - 1
            BY <1>1, <2>3
        <3>2. ab[k] = b[j] /\ b[j] \in Nat
            BY <1>1, <3>1, DigitFacts
        <3>3. g[j] = 10 * g[j - 1] + b[j] /\ g[j - 1] \in Nat
            BY <1>5, <3>1
        <3>4. Pow10[j] = 10 * Pow10[j - 1] /\ Pow10[j - 1] \in Nat
            BY <3>1, PowersOfTen
        <3>5. h[k] = f[m] * Pow10[j] + g[j]
            BY <2>1, <2>3
        <3>6. h[k - 1] = f[m] * Pow10[j - 1] + g[j - 1]
            <4>1. CASE j = 1
                <5>1. k - 1 = m /\ j - 1 = 0
                    BY <1>1, <3>1, <4>1
                <5>2. f[m] * Pow10[0] = f[m]
                    BY <1>6, TimesOne
                <5> QED BY <1>5, <1>6, <2>1, <5>1, <5>2
            <4>2. CASE j # 1
                <5>1. ~(k - 1 <= m)
                    BY <1>1, <3>1, <4>2
                <5> QED BY <2>1, <3>1, <5>1
            <4> QED BY <4>1, <4>2
        <3> HIDE DEF h, j
        <3>7. f[m] * (10 * Pow10[j - 1]) = 10 * (f[m] * Pow10[j - 1]) /\ f[m] * Pow10[j - 1] \in Nat
            BY <1>6, <3>4
        <3> QED BY <3>2, <3>3, <3>4, <3>5, <3>6, <3>7
    <2> QED BY <2>2, <2>3
<1>10. h[0] = 0
    BY <1>1, <1>4
<1> HIDE DEF h
<1>11. Reads(h, ab)
    BY <1>1, <1>8, <1>9, <1>10 DEF Reads
<1>12. DecimalValue(ab) = h[m + n]
    BY <1>1, <1>11, DecimalIsReading
<1> QED BY <1>6, <1>7, <1>12

\* A number's first digits bound it: the rest is worth less than one of the last of them.
LEMMA FirstDigitsBound ==
    ASSUME NEW digits \in Seq(Digit), NEW f, Reads(f, digits), NEW k \in 0 .. Len(digits)
    PROVE  /\ f[k] * Pow10[Len(digits) - k] <= f[Len(digits)]
           /\ f[Len(digits)] < (f[k] + 1) * Pow10[Len(digits) - k]
<1> DEFINE n == Len(digits)
           p(j) == Pow10[j]
           S == {j \in 0 .. n - k : f[k] * p(j) <= f[k + j] /\ f[k + j] < (f[k] + 1) * p(j)}
<1>1. n \in Nat /\ k \in Nat /\ n - k \in Nat /\ k + (n - k) = n
    BY DigitFacts
<1>2. f \in [0 .. n -> Nat] /\ \A j \in 1 .. n : f[j] = 10 * f[j - 1] + digits[j]
    BY DEF Reads
<1>3. f[k] \in Nat
    BY <1>1, <1>2
<1>4. 0 \in S
    <2>1. p(0) = 1 /\ k + 0 = k
        BY <1>1, PowersOfTen
    <2> QED BY <1>1, <1>3, <2>1
<1>5. ASSUME NEW j \in 0 .. n - k - 1, j \in S PROVE j + 1 \in S
    <2>1. /\ k + j \in 0 .. n /\ k + (j + 1) \in 1 .. n /\ (k + (j + 1)) - 1 = k + j
          /\ j + 1 \in 0 .. n - k /\ j \in Nat
        BY <1>1
    <2>2. f[k + (j + 1)] = 10 * f[k + j] + digits[k + (j + 1)] /\ f[k + j] \in Nat
        BY <1>2, <2>1
    <2>3. digits[k + (j + 1)] \in Nat /\ digits[k + (j + 1)] <= 9
        BY <2>1, DigitFacts
    <2>4. p(j + 1) = 10 * p(j) /\ p(j) \in Nat
        BY <2>1, PowersOfTen
    <2>5. f[k] * p(j) <= f[k + j] /\ f[k + j] < (f[k] + 1) * p(j)
        BY <1>5
    <2> HIDE DEF p
    <2> DEFINE x == f[k] * p(j)
               y == (f[k] + 1) * p(j)
    <2>6. x \in Nat /\ y \in Nat /\ f[k] * (10 * p(j)) = 10 * x /\ (f[k] + 1) * (10 * p(j)) = 10 * y
        BY <1>3, <2>4, TimesTen
    <2> HIDE DEF x, y
    <2>7. x <= f[k + j] /\ f[k + j] < y
        BY <2>5 DEF x, y
    <2>8. 10 * x <= f[k + (j + 1)] /\ f[k + (j + 1)] < 10 * y
        BY <2>2, <2>3, <2>6, <2>7
    <2> QED BY <2>1, <2>4, <2>6, <2>8
<1>6. n - k \in S
    BY <1>1, <1>4, <1>5, CountUp
<1> QED BY <1>1, <1>6

LEMMA DecimalBelowPower ==
    ASSUME NEW digits \in Seq(Digit)
    PROVE  DecimalValue(digits) < Pow10[Len(digits)]
<1>1. PICK f : Reads(f, digits)
    BY SomeReading
<1>2. 0 \in 0 .. Len(digits) /\ Len(digits) - 0 = Len(digits) /\ f[0] = 0 /\ Len(digits) \in Nat
    BY <1>1, DigitFacts DEF Reads
<1>3. Pow10[Len(digits)] \in Nat
    BY <1>2, PowersOfTen
<1>4. (0 + 1) * Pow10[Len(digits)] = Pow10[Len(digits)]
    BY <1>3
<1> QED BY <1>1, <1>2, <1>4, FirstDigitsBound, DecimalIsReading

-----------------------------------------------------------------------------
\* Rounding.

LEMMA QuotientIs ==
    ASSUME NEW a \in Int, NEW b \in Nat \ {0}, NEW q \in Int, q * b <= a, a < q * b + b
    PROVE  a \div b = q
<1> DEFINE p == a \div b
<1>1. p \in Int /\ p * b <= a /\ a < p * b + b
    OBVIOUS
<1> HIDE DEF p
<1>2. CASE p < q
    <2>1. (p + 1) * b <= q * b
        BY <1>1, <1>2
    <2>2. (p + 1) * b = p * b + b
        BY <1>1
    <2> QED BY <1>1, <2>1, <2>2
<1>3. CASE q < p
    <2>1. (q + 1) * b <= p * b
        BY <1>1, <1>3
    <2>2. (q + 1) * b = q * b + b
        BY <1>1
    <2> QED BY <1>1, <2>1, <2>2
<1> QED BY <1>1, <1>2, <1>3 DEF p

\* q is n / unit rounded to the nearest, halves up: what the code's test of one digit
\* has to amount to.
Rounds(q, n, unit) == q * (2 * unit) <= 2 * n + unit /\ 2 * n + unit < q * (2 * unit) + 2 * unit

LEMMA SameDigits ==
    ASSUME NEW a \in Seq(Digit), NEW b \in Seq(Digit), NEW n, Len(a) = n, Len(b) = n,
           \A i \in 1 .. n : a[i] = b[i]
    PROVE  a = b
<1>1. a = [i \in 1 .. n |-> a[i]] /\ b = [i \in 1 .. n |-> b[i]]
    OBVIOUS
<1>2. [i \in 1 .. n |-> a[i]] = [i \in 1 .. n |-> b[i]]
    OBVIOUS
<1> QED BY <1>1, <1>2

LEMMA FirstDigitsTyped ==
    ASSUME NEW fraction \in Seq(Digit)
    PROVE  FirstDigits(fraction) \in Seq(Digit) /\ Len(FirstDigits(fraction)) = FractionDigits
<1>1. \A i \in 1 .. FractionDigits :
        (IF i <= Len(fraction) THEN fraction[i] ELSE 0) \in Digit
    BY FractionDigitsAssumption DEF Digit
<1> QED BY <1>1, FractionDigitsAssumption DEF FirstDigits

\* A text with no more digits than are kept: padding multiplies by a power of ten.
LEMMA ShortFraction ==
    ASSUME NEW fraction \in Seq(Digit), Len(fraction) <= FractionDigits
    PROVE  DecimalValue(FirstDigits(fraction))
             = DecimalValue(fraction) * Pow10[FractionDigits - Len(fraction)]
<1> DEFINE l == Len(fraction)
           pad == [i \in 1 .. FractionDigits - l |-> 0]
<1>1. l \in Nat /\ FractionDigits \in Nat /\ FractionDigits - l \in Nat
    BY FractionDigitsAssumption, DigitFacts
<1>2. pad \in Seq(Digit) /\ Len(pad) = FractionDigits - l
    BY <1>1 DEF Digit
<1>3. FirstDigits(fraction) = fraction \o pad
    <2>1. Len(fraction \o pad) = FractionDigits /\ fraction \o pad \in Seq(Digit)
        BY <1>1, <1>2
    <2>2. ASSUME NEW i \in 1 .. FractionDigits PROVE FirstDigits(fraction)[i] = (fraction \o pad)[i]
        <3>1. CASE i <= l
            <4>1. i \in 1 .. l
                BY <1>1, <3>1
            <4>2. (fraction \o pad)[i] = fraction[i]
                BY <1>1, <1>2, <4>1
            <4> QED BY <3>1, <4>2 DEF FirstDigits
        <3>2. CASE ~(i <= l)
            <4>1. i - l \in 1 .. FractionDigits - l
                BY <1>1, <3>2
            <4>2. (fraction \o pad)[i] = pad[i - l]
                <5>1. i \in l + 1 .. l + Len(pad)
                    BY <1>1, <1>2, <3>2
                <5> HIDE DEF pad
                <5> QED BY <1>1, <1>2, <5>1
            <4>3. pad[i - l] = 0
                BY <4>1
            <4> QED BY <3>2, <4>2, <4>3 DEF FirstDigits
        <3> QED BY <3>1, <3>2
    <2> HIDE DEF pad
    <2> QED BY <2>1, <2>2, FirstDigitsTyped, SameDigits
<1>4. DecimalValue(pad) = 0
    <2> DEFINE f == [k \in 0 .. FractionDigits - l |-> 0]
    <2>1. Reads(f, pad)
        BY <1>1, <1>2 DEF Reads
    <2>2. f[Len(pad)] = 0
        BY <1>1, <1>2
    <2> HIDE DEF f, pad
    <2> QED BY <1>2, <2>1, <2>2, DecimalIsReading
<1>5. DecimalValue(fraction) * Pow10[FractionDigits - l] \in Nat
    <2>1. DecimalValue(fraction) \in Nat /\ Pow10[FractionDigits - l] \in Nat
        BY <1>1, AccumulateExact, PowersOfTen
    <2> QED BY <2>1
<1> HIDE DEF pad
<1> QED BY <1>2, <1>3, <1>4, <1>5, DecimalOfConcat

\* The arithmetic of a text with digits to spare: the first of them decides.
LEMMA SpareDigitRounds ==
    ASSUME NEW a \in Nat, NEW d \in Nat, d <= 9, NEW r \in Nat, NEW f \in Nat,
           (10 * a + d) * r <= f, f < (10 * a + d + 1) * r, r >= 1
    PROVE  Rounds(IF d >= 5 THEN a + 1 ELSE a, f, 10 * r)
<1> DEFINE x == a * r
           y == d * r
<1>1. x \in Nat /\ y \in Nat
    OBVIOUS
<1>2. (10 * a + d) * r = 10 * x + y /\ (10 * a + d + 1) * r = 10 * x + y + r
    OBVIOUS
<1>3. a * (2 * (10 * r)) = 20 * x /\ (a + 1) * (2 * (10 * r)) = 20 * x + 20 * r
    OBVIOUS
<1>4. 10 * x + y <= f /\ f < 10 * x + y + r
    BY <1>2
<1>5. CASE d >= 5
    <2>1. 5 * r <= y /\ y <= 9 * r
        BY <1>5
    <2> HIDE DEF x, y
    <2> QED BY <1>1, <1>3, <1>4, <1>5, <2>1 DEF Rounds
<1>6. CASE ~(d >= 5)
    <2>1. y <= 4 * r
        BY <1>6
    <2> HIDE DEF x, y
    <2> QED BY <1>1, <1>3, <1>4, <1>6, <2>1 DEF Rounds
<1> QED BY <1>5, <1>6

\* Rounding does not depend on the unit counted in.
LEMMA RoundsScaled ==
    ASSUME NEW q \in Nat, NEW n \in Nat, NEW unit \in Nat, NEW c \in Nat, c >= 1, Rounds(q, n, unit)
    PROVE  Rounds(q, n * c, unit * c)
<1> DEFINE x == q * (2 * unit)
           y == 2 * n + unit
<1>1. x \in Nat /\ y \in Nat /\ x <= y /\ y < x + 2 * unit
    BY DEF Rounds
<1>2. q * (2 * (unit * c)) = x * c /\ 2 * (n * c) + unit * c = y * c /\ 2 * (unit * c) = (2 * unit) * c
    OBVIOUS
<1> HIDE DEF x, y
<1>3. x * c <= y * c
    BY <1>1
<1>4. (y + 1) * c <= (x + 2 * unit) * c
    BY <1>1
<1>5. (y + 1) * c = y * c + c /\ (x + 2 * unit) * c = x * c + (2 * unit) * c
    BY <1>1
<1>6. y * c < x * c + (2 * unit) * c
    BY <1>1, <1>4, <1>5
<1> QED BY <1>2, <1>3, <1>6 DEF Rounds

LEMMA ScaleFacts ==
    /\ FractionDigits \in Nat /\ FractionDigits >= 1
    /\ SCALE_PER_UNIT = Pow10[FractionDigits]
    /\ SCALE_PER_UNIT \in Nat /\ SCALE_PER_UNIT >= 1 /\ SCALE_PER_UNIT <= MaxInt
    /\ MaxInt \in Nat /\ 0 .. SCALE_PER_UNIT \subseteq Word
<1>1. MaxInt \in Nat /\ SCALE_PER_UNIT \in Nat /\ SCALE_PER_UNIT >= 1 /\ SCALE_PER_UNIT <= MaxInt
    BY TenIsWord, ScaleAssumption, MaxIntAssumption
<1>2. ASSUME NEW n \in 0 .. SCALE_PER_UNIT PROVE n \in Word
    BY <1>1, NaturalsInWord
<1> QED BY <1>1, <1>2, FractionDigitsAssumption DEF SCALE_PER_UNIT

\* The digits kept are read without overflow.
LEMMA FirstDigitsRead ==
    ASSUME NEW fraction \in Seq(Digit)
    PROVE  LET value == DecimalValue(FirstDigits(fraction))
           IN  /\ value \in 0 .. SCALE_PER_UNIT - 1
               /\ AccumulateDigits(FirstDigits(fraction)) = {value}
<1> DEFINE value == DecimalValue(FirstDigits(fraction))
<1>1. FirstDigits(fraction) \in Seq(Digit) /\ Len(FirstDigits(fraction)) = FractionDigits
    BY FirstDigitsTyped
<1>2. value \in Nat /\ AccumulateDigits(FirstDigits(fraction)) = {value} \cap Word
    BY <1>1, AccumulateExact
<1>3. value < SCALE_PER_UNIT
    BY <1>1, DecimalBelowPower DEF SCALE_PER_UNIT
<1>4. value \in Word
    BY <1>2, <1>3, ScaleFacts
<1> QED BY <1>2, <1>3, <1>4, ScaleFacts

\* FractionPart is the fraction to the nearest fixed point value.
LEMMA FractionNearest ==
    ASSUME NEW fraction \in Seq(Digit)
    PROVE  \E q \in 0 .. SCALE_PER_UNIT :
             /\ FractionPart(fraction) = {q}
             /\ Rounds(q, DecimalValue(fraction) * SCALE_PER_UNIT, Pow10[Len(fraction)])
<1> DEFINE K == FractionDigits
           l == Len(fraction)
           F == DecimalValue(fraction)
           A == DecimalValue(FirstDigits(fraction))
           up == l > K /\ fraction[K + 1] >= 5
           q == A + (IF up THEN 1 ELSE 0)
<1>1. /\ l \in Nat /\ K \in Nat /\ F \in Nat /\ A \in Nat /\ A <= SCALE_PER_UNIT - 1
      /\ Pow10[l] \in Nat /\ Pow10[l] >= 1 /\ SCALE_PER_UNIT \in Nat
    BY DigitFacts, ScaleFacts, AccumulateExact, FirstDigitsRead, PowerPositive
<1>2. FractionPart(fraction) = {q} /\ q \in 0 .. SCALE_PER_UNIT
    <2>1. AccumulateDigits(FirstDigits(fraction)) = {A}
        BY FirstDigitsRead
    <2>2. q \in 0 .. SCALE_PER_UNIT
        BY <1>1
    <2>3. FractionPart(fraction) = {f + (IF up THEN 1 ELSE 0) : f \in AccumulateDigits(FirstDigits(fraction))}
        BY DEF FractionPart
    <2> HIDE DEF A, up
    <2>4. FractionPart(fraction) = {A + (IF up THEN 1 ELSE 0)}
        BY <2>1, <2>3
    <2> QED BY <2>2, <2>4
<1>3. CASE l <= K
    <2> DEFINE Z == Pow10[K - l]
               unit == Pow10[l]
    <2>0. K - l \in Nat /\ l + (K - l) = K
        BY <1>1, <1>3
    <2>1. K - l \in Nat /\ l + (K - l) = K /\ Z \in Nat
        BY <2>0, PowerPositive
    <2>2. SCALE_PER_UNIT = unit * Z
        BY <1>1, <2>1, PowerOfSum DEF SCALE_PER_UNIT
    <2>3. A = F * Z
        BY <1>3, ShortFraction
    <2>4. q = A
        BY <1>1, <1>3
    <2>5. unit \in Nat /\ unit >= 1
        BY <1>1
    <2> HIDE DEF A, F, Z, unit, q
    <2>6. (F * Z) * (2 * unit) = 2 * (F * (unit * Z)) /\ F * (unit * Z) \in Nat
        BY <1>1, <2>1, <2>5
    <2>7. Rounds(A, F * SCALE_PER_UNIT, unit)
        BY <2>2, <2>3, <2>5, <2>6 DEF Rounds
    <2> QED BY <1>2, <2>4, <2>7 DEF F, unit
<1>4. CASE l > K
    <2> DEFINE d == fraction[K + 1]
               r == Pow10[l - (K + 1)]
    <2>1. /\ K + 1 \in 1 .. l /\ K + 1 \in 0 .. l /\ K \in 0 .. l /\ l - (K + 1) \in Nat
          /\ (l - (K + 1)) + 1 = l - K /\ l - K \in Nat /\ K + (l - K) = l
        BY <1>1, <1>4
    <2>2. d \in Nat /\ d <= 9 /\ r \in Nat /\ r >= 1
        BY <2>1, DigitFacts, PowerPositive
    <2>3. PICK f : Reads(f, fraction)
        BY SomeReading
    <2>4. f \in [0 .. l -> Nat] /\ f[0] = 0 /\ \A k \in 1 .. l : f[k] = 10 * f[k - 1] + fraction[k]
        BY <2>3 DEF Reads
    <2>5. F = f[l]
        BY <2>3, DecimalIsReading
    <2>6. A = f[K]
        <3> DEFINE s == FirstDigits(fraction)
                   g == [k \in 0 .. K |-> f[k]]
        <3>1. s \in Seq(Digit) /\ Len(s) = K
            BY FirstDigitsTyped
        <3>2. \A k \in 1 .. K : s[k] = fraction[k]
            BY <1>1, <1>4 DEF FirstDigits
        <3>3. ASSUME NEW k \in 0 .. K PROVE k \in 0 .. l
            BY <1>1, <1>4
        <3>4. g \in [0 .. K -> Nat]
            BY <2>4, <3>3
        <3>5. ASSUME NEW k \in 1 .. K PROVE g[k] = 10 * g[k - 1] + s[k]
            <4>1. k \in 0 .. K /\ k - 1 \in 0 .. K /\ k \in 1 .. l
                BY <1>1, <1>4
            <4> HIDE DEF s
            <4> QED BY <2>4, <3>2, <4>1
        <3>6. g[0] = 0 /\ g[K] = f[K]
            BY <1>1, <2>4
        <3> HIDE DEF s, g
        <3>7. Reads(g, s)
            BY <3>1, <3>4, <3>5, <3>6 DEF Reads
        <3> QED BY <3>1, <3>6, <3>7, DecimalIsReading DEF s
    <2>7. f[K + 1] = 10 * A + d
        BY <1>1, <2>1, <2>4, <2>6
    <2>8. (10 * A + d) * r <= F /\ F < (10 * A + d + 1) * r
        BY <2>1, <2>3, <2>5, <2>7, FirstDigitsBound
    <2>9. q = IF d >= 5 THEN A + 1 ELSE A
        BY <1>1, <1>4
    <2>10. 10 * r = Pow10[l - K]
        BY <2>1, PowersOfTen
    <2>11. Pow10[l - K] \in Nat
        BY <2>1, PowersOfTen
    <2>12. Pow10[l] = SCALE_PER_UNIT * Pow10[l - K]
        BY <1>1, <2>1, PowerOfSum DEF SCALE_PER_UNIT
    <2> HIDE DEF A, F, d, r, q
    <2>13. Rounds(q, F, 10 * r)
        BY <1>1, <2>2, <2>8, <2>9, SpareDigitRounds
    <2>14. q \in Nat
        BY <1>1, <2>9
    <2>15. Rounds(q, F * SCALE_PER_UNIT, Pow10[l - K] * SCALE_PER_UNIT)
        BY <1>1, <2>10, <2>11, <2>13, <2>14, RoundsScaled, ScaleFacts
    <2>16. Pow10[l - K] * SCALE_PER_UNIT = Pow10[l]
        BY <1>1, <2>11, <2>12
    <2> QED BY <1>2, <2>15, <2>16 DEF F
<1> QED BY <1>1, <1>3, <1>4

LEMMA FactorBound == ASSUME NEW a \in Nat, NEW b \in Nat, b >= 1 PROVE a * b \in Nat /\ a <= a * b
<1>1. a * b = a * (b - 1) + a /\ b - 1 \in Nat
    OBVIOUS
<1>2. a * (b - 1) \in Nat
    BY <1>1
<1> QED BY <1>1, <1>2

SumsOf(A, S, B) == UNION {CheckedAdd(s, f) : s \in UNION {CheckedMul(i, S) : i \in A}, f \in B}

LEMMA ScaledSum ==
    ASSUME NEW w \in Nat, NEW S \in Word, S >= 1, NEW q \in Word, q \in Nat,
           NEW A, A = {w} \cap Word, NEW B, B = {q}
    PROVE  /\ w * S + q \in Nat
           /\ SumsOf(A, S, B) = {w * S + q} \cap Word
<1> DEFINE p == w * S
           scaled == UNION {CheckedMul(i, S) : i \in A}
           sums == UNION {CheckedAdd(s, f) : s \in scaled, f \in B}
<1>1. MaxInt \in Nat /\ S \in Nat /\ q \in Nat
    BY MaxIntAssumption DEF Word, MinInt
<1>2. p \in Nat /\ w <= p
    BY <1>1, FactorBound
<1> HIDE DEF p
<1>3. p + q \in Nat /\ p <= p + q
    BY <1>1, <1>2
<1>4. (p + q \in Word <=> p + q <= MaxInt) /\ (w \in Word <=> w <= MaxInt) /\ (p \in Word <=> p <= MaxInt)
    BY <1>2, <1>3, NaturalsInWord
<1>5. scaled = {p} \cap Word
    <2>1. CASE w \in Word
        <3>1. CheckedMul(w, S) = {p} \cap Word
            BY <2>1, CheckedMulExact DEF p
        <3>2. A = {w}
            BY <2>1
        <3> QED BY <3>1, <3>2
    <2>2. CASE w \notin Word
        <3>1. p \notin Word
            BY <1>1, <1>2, <1>4, <2>2
        <3>2. A = {}
            BY <2>2
        <3> QED BY <3>1, <3>2
    <2> QED BY <2>1, <2>2
<1> HIDE DEF scaled
<1>6. sums = {p + q} \cap Word
    <2>1. CASE p \in Word
        <3>1. CheckedAdd(p, q) = {p + q} \cap Word
            BY <2>1, CheckedSumsExact
        <3>2. scaled = {p}
            BY <1>5, <2>1
        <3> QED BY <3>1, <3>2
    <2>2. CASE p \notin Word
        <3>1. p + q \notin Word
            BY <1>1, <1>2, <1>3, <1>4, <2>2
        <3>2. scaled = {}
            BY <1>5, <2>2
        <3> QED BY <3>1, <3>2
    <2> QED BY <2>1, <2>2
<1>7. SumsOf(A, S, B) = sums
    BY DEF SumsOf, scaled
<1> HIDE DEF sums
<1> QED BY <1>3, <1>6, <1>7 DEF p

Signed(text, M) == {IF text.sign = "-" THEN -m ELSE m : m \in M}

LEMMA ParseUnfolds ==
    ASSUME NEW text, text.whole # <<>> \/ text.fraction # <<>>
    PROVE  ParseDecimal(text) =
             Signed(text, SumsOf(AccumulateDigits(text.whole), SCALE_PER_UNIT, FractionPart(text.fraction)))
BY DEF ParseDecimal, SumsOf, Signed

LEMMA SignedOne ==
    ASSUME NEW text, NEW M, NEW m \in Nat, M = {m} \cap Word
    PROVE  Signed(text, M) = IF m <= MaxInt THEN {IF text.sign = "-" THEN -m ELSE m} ELSE {}
<1>1. m \in Word <=> m <= MaxInt
    BY NaturalsInWord
<1>2. CASE m <= MaxInt
    <2>1. M = {m}
        BY <1>1, <1>2
    <2> QED BY <1>2, <2>1 DEF Signed
<1>3. CASE ~(m <= MaxInt)
    <2>1. M = {}
        BY <1>1, <1>3
    <2> QED BY <1>3, <2>1 DEF Signed
<1> QED BY <1>2, <1>3

LEMMA ScaledSums ==
    ASSUME NEW text, NEW w \in Nat, NEW q \in Nat, q <= SCALE_PER_UNIT,
           NEW A, A = {w} \cap Word, NEW B, B = {q}
    PROVE  LET m == w * SCALE_PER_UNIT + q
           IN  /\ m \in Nat
               /\ Signed(text, SumsOf(A, SCALE_PER_UNIT, B)) =
                    IF m <= MaxInt THEN {IF text.sign = "-" THEN -m ELSE m} ELSE {}
<1> DEFINE m == w * SCALE_PER_UNIT + q
           sums == SumsOf(A, SCALE_PER_UNIT, B)
<1>1. SCALE_PER_UNIT \in Nat /\ SCALE_PER_UNIT <= MaxInt /\ MaxInt \in Nat /\ SCALE_PER_UNIT >= 1
    BY ScaleFacts
<1>2. q <= MaxInt
    BY <1>1
<1>3. q \in Word /\ SCALE_PER_UNIT \in Word
    BY <1>1, <1>2, NaturalsInWord
<1>4. m \in Nat /\ sums = {m} \cap Word
    BY <1>1, <1>3, ScaledSum
<1> HIDE DEF m, sums
<1>5. Signed(text, sums) = IF m <= MaxInt THEN {IF text.sign = "-" THEN -m ELSE m} ELSE {}
    BY <1>4, SignedOne
<1> QED BY <1>4, <1>5 DEF m, sums

\* parse_decimal_e6, given what its two digit strings are worth.
LEMMA ParseValue ==
    ASSUME NEW text \in [sign : {"", "-", "+"}, whole : Seq(Digit), fraction : Seq(Digit)],
           text.whole # <<>> \/ text.fraction # <<>>,
           NEW q \in Nat, q <= SCALE_PER_UNIT, FractionPart(text.fraction) = {q}
    PROVE  LET m == DecimalValue(text.whole) * SCALE_PER_UNIT + q
           IN  /\ m \in Nat
               /\ ParseDecimal(text) = IF m <= MaxInt THEN {IF text.sign = "-" THEN -m ELSE m} ELSE {}
<1>1. ParseDecimal(text) =
        Signed(text, SumsOf(AccumulateDigits(text.whole), SCALE_PER_UNIT, FractionPart(text.fraction)))
    BY ParseUnfolds
<1>2. text.whole \in Seq(Digit)
    OBVIOUS
<1>3. /\ DecimalValue(text.whole) \in Nat
      /\ AccumulateDigits(text.whole) = {DecimalValue(text.whole)} \cap Word
    BY <1>2, AccumulateExact
<1> DEFINE w == DecimalValue(text.whole)
           A == AccumulateDigits(text.whole)
           B == FractionPart(text.fraction)
<1>4. q \in Nat /\ q <= SCALE_PER_UNIT /\ B = {q}
    OBVIOUS
<1>5. w \in Nat /\ A = {w} \cap Word
    BY <1>3
<1>6. ParseDecimal(text) = Signed(text, SumsOf(A, SCALE_PER_UNIT, B))
    BY <1>1
<1> HIDE DEF w, A, B
<1>7. /\ w * SCALE_PER_UNIT + q \in Nat
      /\ Signed(text, SumsOf(A, SCALE_PER_UNIT, B)) =
            IF w * SCALE_PER_UNIT + q <= MaxInt
            THEN {IF text.sign = "-" THEN -(w * SCALE_PER_UNIT + q) ELSE w * SCALE_PER_UNIT + q} ELSE {}
    BY <1>4, <1>5, ScaledSums, Zenon
<1> QED BY <1>6, <1>7, Zenon DEF w

\* A whole part in front of a rounded fraction.
LEMMA WholeAndFraction ==
    ASSUME NEW w \in Nat, NEW F \in Nat, NEW S \in Nat, NEW unit \in Nat, unit >= 1, NEW q \in Nat,
           NEW v \in Nat, v = w * unit + F, Rounds(q, F * S, unit)
    PROVE  Rounds(w * S + q, v * S, unit)
<1> DEFINE n == F * S
           p == w * S
           b == 2 * unit
<1>1. n \in Nat /\ p \in Nat /\ b \in Nat
    OBVIOUS
<1>2. 2 * (v * S) + unit = p * b + (2 * n + unit)
    <2>1. v * S = (w * S) * unit + F * S
        OBVIOUS
    <2>2. p * b = 2 * (p * unit) /\ p * unit \in Nat
        OBVIOUS
    <2> QED BY <1>1, <2>1, <2>2
<1>3. q * b <= 2 * n + unit /\ 2 * n + unit < q * b + b
    BY DEF Rounds
<1> HIDE DEF n, p, b
<1>4. (p + q) * b = p * b + q * b /\ p * b \in Nat /\ q * b \in Nat
    BY <1>1
<1>5. (p + q) * b <= 2 * (v * S) + unit /\ 2 * (v * S) + unit < (p + q) * b + b
    BY <1>1, <1>2, <1>3, <1>4
<1> QED BY <1>5 DEF Rounds, p, b

LEMMA RoundedQuotient ==
    ASSUME NEW q \in Nat, NEW n \in Nat, NEW unit \in Nat, unit >= 1, Rounds(q, n, unit)
    PROVE  (2 * n + unit) \div (2 * unit) = q
<1> DEFINE a == 2 * n + unit
           b == 2 * unit
<1>1. a \in Int /\ b \in Nat \ {0} /\ q \in Int
    OBVIOUS
<1>2. q * b <= a /\ a < q * b + b
    BY DEF Rounds
<1> HIDE DEF a, b
<1>3. a \div b = q
    BY <1>1, <1>2, QuotientIs
<1> QED BY <1>3 DEF a, b

LEMMA ConcatEmpty ==
    ASSUME NEW a \in Seq(Digit), NEW b \in Seq(Digit)
    PROVE  a \o b = <<>> <=> a = <<>> /\ b = <<>>
<1>1. Len(a) \in Nat /\ Len(b) \in Nat /\ Len(a \o b) = Len(a) + Len(b) /\ a \o b \in Seq(Digit)
    OBVIOUS
<1>2. (a = <<>> <=> Len(a) = 0) /\ (b = <<>> <=> Len(b) = 0) /\ (a \o b = <<>> <=> Len(a \o b) = 0)
    BY <1>1
<1> QED BY <1>1, <1>2

LEMMA NoDigitNoValue ==
    ASSUME NEW text, text.whole = <<>>, text.fraction = <<>>
    PROVE  ParseDecimal(text) = {}
BY DEF ParseDecimal

LEMMA FractionValue ==
    ASSUME NEW fraction \in Seq(Digit)
    PROVE  \E q \in Nat :
             /\ q <= SCALE_PER_UNIT
             /\ FractionPart(fraction) = {q}
             /\ Rounds(q, DecimalValue(fraction) * SCALE_PER_UNIT, Pow10[Len(fraction)])
<1>1. PICK q \in 0 .. SCALE_PER_UNIT :
        /\ FractionPart(fraction) = {q}
        /\ Rounds(q, DecimalValue(fraction) * SCALE_PER_UNIT, Pow10[Len(fraction)])
    BY FractionNearest
<1>2. q \in Nat /\ q <= SCALE_PER_UNIT
    BY <1>1, ScaleFacts
<1> QED BY <1>1, <1>2

LEMMA NearestOfConcat ==
    ASSUME NEW a \in Seq(Digit), NEW b \in Seq(Digit), NEW q \in Nat,
           Rounds(q, DecimalValue(b) * SCALE_PER_UNIT, Pow10[Len(b)])
    PROVE  LET unit  == Pow10[Len(b)]
               exact == DecimalValue(a \o b) * SCALE_PER_UNIT
           IN  (2 * exact + unit) \div (2 * unit) = DecimalValue(a) * SCALE_PER_UNIT + q
<1> DEFINE w == DecimalValue(a)
           F == DecimalValue(b)
           unit == Pow10[Len(b)]
           S == SCALE_PER_UNIT
<1>1. DecimalValue(a \o b) = w * unit + F
    BY DecimalOfConcat
<1>2. w \in Nat /\ F \in Nat /\ unit \in Nat /\ unit >= 1 /\ S \in Nat
    BY AccumulateExact, DigitFacts, PowerPositive, ScaleFacts
<1>3. Rounds(q, F * S, unit)
    OBVIOUS
<1> DEFINE v == DecimalValue(a \o b)
           n == v * S
           m == w * S + q
<1>4. v = w * unit + F
    BY <1>1
<1> HIDE DEF w, F, unit, S, v
<1>5. v \in Nat /\ n \in Nat /\ m \in Nat
    BY <1>2, <1>4
<1>6. Rounds(m, n, unit)
    BY <1>2, <1>3, <1>4, <1>5, WholeAndFraction
<1> HIDE DEF n, m
<1>7. (2 * n + unit) \div (2 * unit) = m
    BY <1>2, <1>5, <1>6, RoundedQuotient
<1> QED BY <1>7, Zenon DEF w, unit, S, v, n, m

LEMMA ParsesToNearest ==
    ASSUME NEW text \in [sign : {"", "-", "+"}, whole : Seq(Digit), fraction : Seq(Digit)]
    PROVE  LET unit     == Pow10[Len(text.fraction)]
               exact    == DecimalValue(text.whole \o text.fraction) * SCALE_PER_UNIT
               nearest  == (2 * exact + unit) \div (2 * unit)
               digits   == text.whole \o text.fraction # <<>>
           IN  ParseDecimal(text) = IF digits /\ nearest <= MaxInt
                                    THEN {IF text.sign = "-" THEN -nearest ELSE nearest} ELSE {}
<1> DEFINE unit    == Pow10[Len(text.fraction)]
           exact   == DecimalValue(text.whole \o text.fraction) * SCALE_PER_UNIT
           nearest == (2 * exact + unit) \div (2 * unit)
<1>1. text.whole \in Seq(Digit) /\ text.fraction \in Seq(Digit)
    OBVIOUS
<1>2. CASE text.whole = <<>> /\ text.fraction = <<>>
    <2>1. ParseDecimal(text) = {}
        BY <1>2, NoDigitNoValue, Zenon
    <2>2. text.whole \o text.fraction = <<>>
        BY <1>1, <1>2, ConcatEmpty, Zenon
    <2> QED BY <2>1, <2>2, Zenon
<1>3. CASE text.whole # <<>> \/ text.fraction # <<>>
    <2>1. text.whole \o text.fraction # <<>>
        BY <1>1, <1>3, ConcatEmpty, Zenon
    <2>2. PICK q \in Nat :
            /\ q <= SCALE_PER_UNIT
            /\ FractionPart(text.fraction) = {q}
            /\ Rounds(q, DecimalValue(text.fraction) * SCALE_PER_UNIT, unit)
        BY <1>1, FractionValue
    <2> DEFINE w == DecimalValue(text.whole)
               m == w * SCALE_PER_UNIT + q
    <2>3. q \in Nat /\ q <= SCALE_PER_UNIT
        BY <2>2
    <2>4. ParseDecimal(text) = IF m <= MaxInt THEN {IF text.sign = "-" THEN -m ELSE m} ELSE {}
        BY <1>3, <2>2, <2>3, ParseValue, Zenon
    <2>9. nearest = m
        BY <1>1, <2>2, NearestOfConcat, Zenon
    <2> HIDE DEF nearest, m
    <2>10. ParseDecimal(text) = IF text.whole \o text.fraction # <<>> /\ nearest <= MaxInt
                                THEN {IF text.sign = "-" THEN -nearest ELSE nearest} ELSE {}
        BY <2>1, <2>4, <2>9, Zenon
    <2> QED BY <2>10, Zenon DEF nearest, unit
<1> QED BY <1>2, <1>3, Zenon

\* units.cpp: a decimal text is read as the fixed point value nearest to it, and
\* refused only when it has no digit or that value no representation, for every
\* text: no digit string is long enough, and no scale fine enough, for a lost
\* carry or a wrongly detected overflow.
THEOREM ParsedNearest == Spec => []ParseNearest
<1>1. Init => ParseNearest
    BY DEF Init, ParseNearest
<1>2. ParseNearest /\ [Next]_vars => ParseNearest'
    <2> SUFFICES ASSUME ParseNearest, [Next]_vars PROVE ParseNearest'
        OBVIOUS
    <2>1. CASE IndexCall \/ UNCHANGED vars
        <3>1. UNCHANGED call
            BY <2>1 DEF IndexCall, vars
        <3> QED BY <3>1 DEF ParseNearest
    <2>2. CASE \E text \in Texts : Return("parse", <<text>>, ParseDecimal(text))
        <3>1. PICK text \in Texts : Return("parse", <<text>>, ParseDecimal(text))
            BY <2>2
        <3>2. text \in [sign : {"", "-", "+"}, whole : Seq(Digit), fraction : Seq(Digit)]
            BY TextsAssumption
        <3>3. call'.args[1] = text /\ call'.result = ParseDecimal(text)
            BY <3>1 DEF Return
        <3> QED BY <3>2, <3>3, ParsesToNearest, Zenon DEF ParseNearest
    <2>3. CASE \E v \in Numbers : Return("format", <<v>>, FormatDecimal(v))
        <3>1. call'.op = "format"
            BY <2>3 DEF Return
        <3> QED BY <3>1 DEF ParseNearest
    <2>4. CASE ArithCall \/ PadCall \/ ContourCall
        <3>1. call'.op # "parse"
            BY <2>4 DEF ArithCall, PadCall, ContourCall, Return
        <3> QED BY <3>1 DEF ParseNearest
    <2> QED BY <2>1, <2>2, <2>3, <2>4 DEF Next, UnitCall
<1> QED BY <1>1, <1>2, PTL DEF Spec

-----------------------------------------------------------------------------
\* Numbers written out in digits.

LEMMA ProductMonotone ==
    ASSUME NEW a \in Nat, NEW b \in Nat, NEW c \in Nat, a <= b
    PROVE  a * c <= b * c
<1>1. b * c = a * c + (b - a) * c /\ (b - a) * c \in Nat /\ a * c \in Nat
    OBVIOUS
<1> QED BY <1>1

LEMMA LastDigit ==
    ASSUME NEW x \in Nat
    PROVE  x % 10 \in Digit /\ x = 10 * (x \div 10) + (x % 10)
<1>1. x % 10 \in Int /\ 0 <= x % 10 /\ x % 10 <= 9
    OBVIOUS
<1>2. x % 10 = x - 10 * (x \div 10) /\ x \div 10 \in Nat
    OBVIOUS
<1>3. x = 10 * (x \div 10) + (x % 10)
    <2> DEFINE y == x \div 10
               r == x % 10
    <2>1. r = x - 10 * y /\ y \in Nat
        BY <1>2
    <2> HIDE DEF y, r
    <2>2. x = 10 * y + r
        BY <2>1
    <2> QED BY <2>2, Zenon DEF y, r
<1> QED BY <1>1, <1>3 DEF Digit

LEMMA DivideTwice ==
    ASSUME NEW n \in Nat, NEW p \in Nat, p >= 1
    PROVE  n \div (10 * p) = (n \div p) \div 10
<1> DEFINE x == n \div p
           y == x \div 10
<1>1. x \in Nat /\ x * p <= n /\ n < x * p + p
    OBVIOUS
<1> HIDE DEF x
<1>2. y \in Nat /\ 10 * y <= x /\ x <= 10 * y + 9
    BY <1>1
<1> HIDE DEF y
<1> DEFINE z == y * p
<1>3. z \in Nat /\ (10 * y) * p = 10 * z /\ (10 * y + 9) * p = 10 * z + 9 * p /\ y * (10 * p) = 10 * z
    BY <1>2
<1>4. (10 * y) * p <= x * p /\ x * p <= (10 * y + 9) * p
    BY <1>1, <1>2, ProductMonotone
<1> HIDE DEF z
<1>5. 10 * z <= n /\ n < 10 * z + 10 * p
    <2>1. x * p \in Nat
        BY <1>1
    <2> QED BY <1>1, <1>3, <1>4, <2>1
<1>6. y * (10 * p) <= n /\ n < y * (10 * p) + 10 * p
    BY <1>3, <1>5
<1>7. n \div (10 * p) = y
    <2> DEFINE b == 10 * p
    <2>1. b \in Nat \ {0} /\ n \in Int /\ y \in Int
        BY <1>2
    <2>2. y * b <= n /\ n < y * b + b
        BY <1>6
    <2> HIDE DEF b
    <2>3. n \div b = y
        BY <2>1, <2>2, QuotientIs
    <2> QED BY <2>3 DEF b
<1> QED BY <1>7 DEF x, y

\* The k lowest digits of a number below 10^k are that number.
LEMMA LowDigitsRead ==
    ASSUME NEW n \in Nat, NEW k \in Nat, n < Pow10[k]
    PROVE  /\ LowDigits(n, k) \in Seq(Digit)
           /\ Len(LowDigits(n, k)) = k
           /\ DecimalValue(LowDigits(n, k)) = n
<1> DEFINE s == LowDigits(n, k)
           f == [i \in 0 .. k |-> n \div Pow10[k - i]]
<1>1. ASSUME NEW i \in 0 .. k
      PROVE  /\ k - i \in Nat /\ Pow10[k - i] \in Nat /\ Pow10[k - i] >= 1
             /\ n \div Pow10[k - i] \in Nat
    <2>1. k - i \in Nat
        OBVIOUS
    <2>2. Pow10[k - i] \in Nat /\ Pow10[k - i] >= 1
        BY <2>1, PowerPositive
    <2> DEFINE p == Pow10[k - i]
    <2> HIDE DEF p
    <2>3. n \div p \in Nat
        BY <2>2 DEF p
    <2> QED BY <2>1, <2>2, <2>3 DEF p
<1>2. ASSUME NEW i \in 1 .. k
      PROVE  /\ i \in 0 .. k /\ i - 1 \in 0 .. k
             /\ (n \div Pow10[k - i]) % 10 \in Digit
             /\ n \div Pow10[k - i] = 10 * (n \div Pow10[k - (i - 1)]) + ((n \div Pow10[k - i]) % 10)
    <2>1. i \in 0 .. k /\ i - 1 \in 0 .. k /\ (k - i) + 1 = k - (i - 1)
        OBVIOUS
    <2> DEFINE p == Pow10[k - i]
    <2>2. k - i \in Nat /\ p \in Nat /\ p >= 1
        BY <1>1, <2>1
    <2>3. Pow10[k - (i - 1)] = 10 * p
        BY <2>1, <2>2, PowersOfTen
    <2>4. n \div Pow10[k - (i - 1)] = (n \div p) \div 10
        BY <2>2, <2>3, DivideTwice
    <2> DEFINE x == n \div p
    <2>5. x \in Nat
        BY <1>1, <2>1
    <2> HIDE DEF x
    <2>6. x % 10 \in Digit /\ x = 10 * (x \div 10) + (x % 10)
        BY <2>5, LastDigit
    <2> QED BY <2>1, <2>4, <2>6 DEF x
<1>3. s \in Seq(Digit) /\ Len(s) = k
    BY <1>2 DEF LowDigits
<1>4. ASSUME NEW i \in 1 .. k PROVE s[i] = (n \div Pow10[k - i]) % 10
    BY DEF LowDigits
<1> HIDE DEF s
<1>5. f \in [0 .. k -> Nat]
    BY <1>1
<1>6. f[0] = 0
    <2>1. 0 \in 0 .. k /\ k - 0 = k
        OBVIOUS
    <2>2. Pow10[k] \in Nat /\ Pow10[k] >= 1
        BY PowerPositive
    <2> DEFINE p == Pow10[k]
    <2> HIDE DEF p
    <2>3. n \div p = 0
        BY <2>2 DEF p
    <2> QED BY <2>1, <2>3 DEF p
<1>7. ASSUME NEW i \in 1 .. k PROVE f[i] = 10 * f[i - 1] + s[i]
    <2>1. i \in 0 .. k /\ i - 1 \in 0 .. k
        BY <1>2
    <2> DEFINE x == n \div Pow10[k - i]
               y == n \div Pow10[k - (i - 1)]
               r == x % 10
    <2>2. f[i] = x /\ f[i - 1] = y
        BY <2>1
    <2>3. x = 10 * y + r
        BY <1>2
    <2>4. s[i] = r
        BY <1>4
    <2> HIDE DEF f, x, y, r
    <2> QED BY <2>2, <2>3, <2>4
<1> HIDE DEF f
<1>8. Reads(f, s)
    BY <1>3, <1>5, <1>6, <1>7 DEF Reads
<1>9. DecimalValue(s) = f[k]
    BY <1>3, <1>8, DecimalIsReading
<1>10. f[k] = n
    <2>1. k \in 0 .. k /\ k - k = 0 /\ n \div 1 = n
        OBVIOUS
    <2> QED BY <2>1, PowersOfTen DEF f
<1> QED BY <1>3, <1>9, <1>10 DEF s

LEMMA NumberBelowPower ==
    ASSUME NEW n \in Nat
    PROVE  n < Pow10[n]
<1> DEFINE S == {k \in Nat : k < Pow10[k]}
<1>1. 0 \in S
    BY PowersOfTen
<1>2. ASSUME NEW k \in 0 .. n - 1, k \in S PROVE k + 1 \in S
    <2>1. k \in Nat /\ Pow10[k] \in Nat /\ Pow10[k + 1] = 10 * Pow10[k] /\ k < Pow10[k]
        BY <1>2, PowersOfTen
    <2> QED BY <2>1
<1>3. n \in S
    BY <1>1, <1>2, CountUp
<1> QED BY <1>3

\* std::to_string writes at least one digit, and the number it is given.
LEMMA DigitsOfRead ==
    ASSUME NEW n \in Nat
    PROVE  DigitsOf(n) \in Seq(Digit) /\ DigitsOf(n) # <<>> /\ DecimalValue(DigitsOf(n)) = n
<1> DEFINE T == {k \in 1 .. n + 1 : n < Pow10[k]}
           enough(k) == n < Pow10[k] /\ (k = 1 \/ Pow10[k - 1] <= n)
           c == CHOOSE k \in 1 .. n + 1 : enough(k)
<1>1. n + 1 \in T
    <2>1. n + 1 \in Nat /\ n + 1 \in 1 .. n + 1 /\ Pow10[n + 1] \in Nat
        BY PowerPositive
    <2>2. n + 1 < Pow10[n + 1]
        BY <2>1, NumberBelowPower
    <2> QED BY <2>1, <2>2
<1>2. PICK k \in T : \A i \in T : k <= i
    <2>1. T \in SUBSET Nat /\ T # {}
        BY <1>1
    <2> HIDE DEF T
    <2> QED BY <2>1, LeastNumber
<1>3. k \in 1 .. n + 1 /\ n < Pow10[k]
    BY <1>2
<1>4. k = 1 \/ Pow10[k - 1] <= n
    <2> SUFFICES ASSUME k # 1 PROVE Pow10[k - 1] <= n
        OBVIOUS
    <2>1. k - 1 \in 1 .. n + 1 /\ k - 1 \in Nat /\ ~(k <= k - 1)
        BY <1>3
    <2>2. k - 1 \notin T
        BY <1>2, <2>1
    <2>3. ~(n < Pow10[k - 1]) /\ Pow10[k - 1] \in Nat
        BY <2>1, <2>2, PowerPositive
    <2> QED BY <2>3
<1>5. c \in 1 .. n + 1 /\ enough(c)
    BY <1>3, <1>4
<1>6. DigitsOf(n) = LowDigits(n, c)
    BY DEF DigitsOf
<1> HIDE DEF c
<1>7. c \in Nat /\ n < Pow10[c] /\ c # 0
    BY <1>5
<1>8. /\ LowDigits(n, c) \in Seq(Digit) /\ Len(LowDigits(n, c)) = c
      /\ DecimalValue(LowDigits(n, c)) = n
    BY <1>7, LowDigitsRead
<1>9. LowDigits(n, c) # <<>>
    BY <1>7, <1>8
<1> QED BY <1>6, <1>8, <1>9

\* Trailing zeros of a fraction can be dropped: the parser pads them back.
LEMMA TrimmedFraction ==
    ASSUME NEW digits \in Seq(Digit), Len(digits) = FractionDigits
    PROVE  LET kept == {i \in 0 .. FractionDigits : \A j \in i + 1 .. FractionDigits : digits[j] = 0}
               trimmed == SubSeq(digits, 1, CHOOSE i \in kept : \A k \in kept : i <= k)
           IN  trimmed \in Seq(Digit) /\ Len(trimmed) <= FractionDigits /\ FirstDigits(trimmed) = digits
<1> DEFINE K == FractionDigits
           kept == {i \in 0 .. K : \A j \in i + 1 .. K : digits[j] = 0}
           c == CHOOSE i \in kept : \A k \in kept : i <= k
           trimmed == SubSeq(digits, 1, c)
<1>1. K \in Nat /\ \A i \in 1 .. K : digits[i] \in Digit
    BY FractionDigitsAssumption
<1>2. kept \in SUBSET Nat /\ kept # {}
    <2>1. K \in kept
        BY <1>1
    <2>2. kept \subseteq Nat
        BY <1>1
    <2> QED BY <2>1, <2>2
<1>3. c \in kept
    <2> HIDE DEF kept
    <2>1. \E i \in kept : \A k \in kept : i <= k
        BY <1>2, LeastNumber
    <2> QED BY <2>1
<1>4. c \in 0 .. K /\ \A j \in c + 1 .. K : digits[j] = 0
    BY <1>3
<1> HIDE DEF c, kept
<1>5. /\ trimmed = [i \in 1 .. c |-> digits[i]]
      /\ trimmed \in Seq(Digit) /\ Len(trimmed) = c
      /\ \A i \in 1 .. c : trimmed[i] = digits[i]
    <2>1. \A i \in 1 .. c : i \in 1 .. K /\ digits[i] \in Digit
        BY <1>1, <1>4
    <2>2. c \in Nat
        BY <1>4
    <2>3. trimmed = [i \in 1 .. c |-> digits[i]]
        BY <1>1, <1>4
    <2> DEFINE g == [i \in 1 .. c |-> digits[i]]
    <2>4. g \in Seq(Digit) /\ Len(g) = c
        BY <2>1, <2>2
    <2>5. \A i \in 1 .. c : g[i] = digits[i]
        OBVIOUS
    <2> QED BY <2>3, <2>4, <2>5
<1> HIDE DEF trimmed
<1>6. \A i \in 1 .. K : FirstDigits(trimmed)[i] = digits[i]
    <2> SUFFICES ASSUME NEW i \in 1 .. K PROVE FirstDigits(trimmed)[i] = digits[i]
        OBVIOUS
    <2>0. FirstDigits(trimmed)[i] = IF i <= Len(trimmed) THEN trimmed[i] ELSE 0
        BY DEF FirstDigits
    <2>1. FirstDigits(trimmed)[i] = IF i <= c THEN trimmed[i] ELSE 0
        <3>1. Len(trimmed) = c
            BY <1>5
        <3> QED BY <2>0, <3>1, Zenon
    <2>2. CASE i <= c
        <3>1. i \in 1 .. c
            BY <1>1, <1>4, <2>2
        <3> QED BY <1>5, <2>1, <2>2, <3>1
    <2>3. CASE ~(i <= c)
        <3>1. i \in c + 1 .. K
            BY <1>1, <1>4, <2>3
        <3> QED BY <1>4, <2>1, <2>3, <3>1
    <2> QED BY <2>2, <2>3
<1>7. FirstDigits(trimmed) \in Seq(Digit) /\ Len(FirstDigits(trimmed)) = K
    BY <1>5, FirstDigitsTyped
<1>8. FirstDigits(trimmed) = digits
    BY <1>6, <1>7, SameDigits
<1>9. Len(trimmed) <= K
    BY <1>1, <1>4, <1>5
<1> QED BY <1>5, <1>8, <1>9 DEF trimmed, c, kept

\* A fraction no longer than the scale is read without rounding.
LEMMA ExactFraction ==
    ASSUME NEW fraction \in Seq(Digit), Len(fraction) <= FractionDigits
    PROVE  FractionPart(fraction) = {DecimalValue(FirstDigits(fraction))}
<1> DEFINE A == DecimalValue(FirstDigits(fraction))
           up == Len(fraction) > FractionDigits /\ fraction[FractionDigits + 1] >= 5
<1>1. ~up
    BY DigitFacts, FractionDigitsAssumption
<1>2. AccumulateDigits(FirstDigits(fraction)) = {A} /\ A \in Nat
    BY FirstDigitsRead, ScaleFacts
<1>3. FractionPart(fraction) = {f + (IF up THEN 1 ELSE 0) : f \in AccumulateDigits(FirstDigits(fraction))}
    BY DEF FractionPart
<1> HIDE DEF A, up
<1>4. FractionPart(fraction) = {A + 0}
    BY <1>1, <1>2, <1>3
<1>5. A + 0 = A
    BY <1>2
<1> QED BY <1>4, <1>5 DEF A

LEMMA MagnitudeSplits ==
    ASSUME NEW m \in Nat
    PROVE  /\ m \div SCALE_PER_UNIT \in Nat
           /\ m % SCALE_PER_UNIT \in Nat /\ m % SCALE_PER_UNIT < SCALE_PER_UNIT
           /\ (m \div SCALE_PER_UNIT) * SCALE_PER_UNIT + (m % SCALE_PER_UNIT) = m
<1> DEFINE S == SCALE_PER_UNIT
<1>1. S \in Nat /\ S >= 1
    BY ScaleFacts
<1> HIDE DEF S
<1>2. m \div S \in Nat /\ m % S = m - S * (m \div S) /\ m % S \in Nat /\ m % S < S
    BY <1>1
<1>3. (m \div S) * S = S * (m \div S) /\ S * (m \div S) \in Nat
    BY <1>1, <1>2
<1> DEFINE x == m \div S
           r == m % S
           y == S * x
<1>4. r = m - y /\ x * S = y /\ y \in Nat
    BY <1>2, <1>3
<1> HIDE DEF x, r, y
<1>5. x * S + r = m
    BY <1>4
<1> QED BY <1>2, <1>5 DEF x, r, S

\* What format_decimal_e6 writes of a magnitude is read as that magnitude.
LEMMA FormattedRead ==
    ASSUME NEW v \in Int
    PROVE  LET m == IF v < 0 THEN -v ELSE v
           IN  ParseDecimal(FormatDecimal(v)) = IF m <= MaxInt THEN {IF v < 0 THEN -m ELSE m} ELSE {}
<1> DEFINE m == IF v < 0 THEN -v ELSE v
           rest == m % SCALE_PER_UNIT
           digits == LowDigits(rest, FractionDigits)
           kept == {i \in 0 .. FractionDigits : \A j \in i + 1 .. FractionDigits : digits[j] = 0}
           trimmed == SubSeq(digits, 1, CHOOSE i \in kept : \A k \in kept : i <= k)
           whole == DigitsOf(m \div SCALE_PER_UNIT)
           sign == IF v < 0 THEN "-" ELSE ""
           text == FormatDecimal(v)
<1>1. text = [sign |-> sign, whole |-> whole, fraction |-> trimmed]
    BY DEF FormatDecimal
<1>2. m \in Nat
    OBVIOUS
<1> HIDE DEF m
<1>3. /\ m \div SCALE_PER_UNIT \in Nat /\ rest \in Nat /\ rest < SCALE_PER_UNIT
      /\ (m \div SCALE_PER_UNIT) * SCALE_PER_UNIT + rest = m
    BY <1>2, MagnitudeSplits
<1>4. whole \in Seq(Digit) /\ whole # <<>> /\ DecimalValue(whole) = m \div SCALE_PER_UNIT
    BY <1>3, DigitsOfRead
<1> HIDE DEF rest, whole
<1>5. digits \in Seq(Digit) /\ Len(digits) = FractionDigits /\ DecimalValue(digits) = rest
    BY <1>3, LowDigitsRead, ScaleFacts
<1> HIDE DEF digits
<1>6. trimmed \in Seq(Digit) /\ Len(trimmed) <= FractionDigits /\ FirstDigits(trimmed) = digits
    BY <1>5, TrimmedFraction
<1> HIDE DEF kept, trimmed
<1>7. FractionPart(trimmed) = {rest}
    BY <1>5, <1>6, ExactFraction
<1>8. /\ text.sign = sign /\ text.whole = whole /\ text.fraction = trimmed
      /\ text \in [sign : {"", "-", "+"}, whole : Seq(Digit), fraction : Seq(Digit)]
    <2>1. sign \in {"", "-", "+"}
        OBVIOUS
    <2> HIDE DEF text, sign
    <2> QED BY <1>1, <1>4, <1>6, <2>1
<1>9. rest <= SCALE_PER_UNIT
    BY <1>3, ScaleFacts
<1> HIDE DEF text, sign
<1>10. text.whole # <<>> /\ FractionPart(text.fraction) = {rest} /\ rest \in Nat
    BY <1>3, <1>4, <1>7, <1>8, Zenon
<1>11. DecimalValue(text.whole) * SCALE_PER_UNIT + rest = m
    BY <1>3, <1>4, <1>8, Zenon
<1>12. ParseDecimal(text) = IF DecimalValue(text.whole) * SCALE_PER_UNIT + rest <= MaxInt
                            THEN {IF text.sign = "-" THEN -(DecimalValue(text.whole) * SCALE_PER_UNIT + rest)
                                  ELSE DecimalValue(text.whole) * SCALE_PER_UNIT + rest}
                            ELSE {}
    BY <1>8, <1>9, <1>10, ParseValue, Zenon
<1>13. ParseDecimal(text) = IF m <= MaxInt THEN {IF text.sign = "-" THEN -m ELSE m} ELSE {}
    BY <1>11, <1>12, Zenon
<1>14. text.sign = "-" <=> v < 0
    BY <1>8 DEF sign
<1>15. ParseDecimal(text) = IF m <= MaxInt THEN {IF v < 0 THEN -m ELSE m} ELSE {}
    BY <1>13, <1>14, Zenon
<1> QED BY <1>15, Zenon DEF text, m

\* units.hpp: format_decimal_e6 and parse_decimal_e6 are inverse on every number
\* of the word, the least one excepted.
THEOREM FormattedParses == Spec => []FormatParses
<1>1. Init => FormatParses
    BY DEF Init, FormatParses
<1>2. FormatParses /\ [Next]_vars => FormatParses'
    <2> SUFFICES ASSUME FormatParses, [Next]_vars PROVE FormatParses'
        OBVIOUS
    <2>1. CASE IndexCall \/ UNCHANGED vars
        <3>1. UNCHANGED call
            BY <2>1 DEF IndexCall, vars
        <3> QED BY <3>1 DEF FormatParses
    <2>2. CASE \E v \in Numbers : Return("format", <<v>>, FormatDecimal(v))
        <3>1. PICK v \in Numbers : Return("format", <<v>>, FormatDecimal(v))
            BY <2>2
        <3>2. call'.args[1] = v /\ call'.result = FormatDecimal(v)
            BY <3>1 DEF Return
        <3>3. v \in Int /\ MinInt <= v /\ v <= MaxInt /\ MaxInt \in Nat /\ MinInt = -MaxInt - 1
            BY NumbersAssumption, MaxIntAssumption DEF Word, MinInt
        <3> DEFINE m == IF v < 0 THEN -v ELSE v
        <3>4. ParseDecimal(FormatDecimal(v)) = IF m <= MaxInt THEN {IF v < 0 THEN -m ELSE m} ELSE {}
            BY <3>3, FormattedRead
        <3>5. (m <= MaxInt <=> v # MinInt) /\ (IF v < 0 THEN -m ELSE m) = v
            BY <3>3
        <3> HIDE DEF m
        <3>6. ParseDecimal(FormatDecimal(v)) = {v} \ {MinInt}
            BY <3>4, <3>5
        <3> QED BY <3>2, <3>6 DEF FormatParses
    <2>3. CASE \E text \in Texts : Return("parse", <<text>>, ParseDecimal(text))
        <3>1. call'.op = "parse"
            BY <2>3 DEF Return
        <3> QED BY <3>1 DEF FormatParses
    <2>4. CASE ArithCall \/ PadCall \/ ContourCall
        <3>1. call'.op # "format"
            BY <2>4 DEF ArithCall, PadCall, ContourCall, Return
        <3> QED BY <3>1 DEF FormatParses
    <2> QED BY <2>1, <2>2, <2>3, <2>4 DEF Next, UnitCall
<1> QED BY <1>1, <1>2, PTL DEF Spec

-----------------------------------------------------------------------------
\* A triangle and a point: x1, y1, ... are its corners seen from the point.

LEMMA ProductSign ==
    ASSUME NEW y \in Int, NEW v \in Int
    PROVE  /\ y * v \in Int
           /\ y * v > 0 <=> (y > 0 /\ v > 0) \/ (y < 0 /\ v < 0)
           /\ y * v < 0 <=> (y > 0 /\ v < 0) \/ (y < 0 /\ v > 0)
<1>1. y > 0 /\ v > 0 => y * v > 0
    OBVIOUS
<1>2. y < 0 /\ v < 0 => y * v > 0
    OBVIOUS
<1>3. y > 0 /\ v < 0 => y * v < 0
    OBVIOUS
<1>4. y < 0 /\ v > 0 => y * v < 0
    OBVIOUS
<1>5. y = 0 \/ v = 0 => y * v = 0
    OBVIOUS
<1> QED BY <1>1, <1>2, <1>3, <1>4, <1>5

\* The even-odd count of a triangle's edges, from the heights of its corners and
\* the sides the point is on: y3 v1 + y1 v2 + y2 v3 = 0 is the one relation there is.
Counted(from, to, v) == (from > 0) # (to > 0) /\ IF to > from THEN v > 0 ELSE v < 0

LEMMA EvenOddOfSigns ==
    ASSUME NEW y1 \in Int, NEW y2 \in Int, NEW y3 \in Int,
           NEW v1 \in Int, NEW v2 \in Int, NEW v3 \in Int,
           y3 * v1 + y1 * v2 + y2 * v3 = 0,
           y1 = 0 /\ y2 = 0 /\ y3 = 0 => v1 = 0
    PROVE  LET h1 == Counted(y1, y2, v1)
               h2 == Counted(y2, y3, v2)
               h3 == Counted(y3, y1, v3)
               odd == (h1 # h2) # h3
           IN  /\ (v1 > 0 /\ v2 > 0 /\ v3 > 0) \/ (v1 < 0 /\ v2 < 0 /\ v3 < 0) => odd
               /\ odd => (v1 >= 0 /\ v2 >= 0 /\ v3 >= 0) \/ (v1 <= 0 /\ v2 <= 0 /\ v3 <= 0)
<1> DEFINE p == y3 * v1
           q == y1 * v2
           r == y2 * v3
<1>1. p \in Int /\ (p > 0 <=> (y3 > 0 /\ v1 > 0) \/ (y3 < 0 /\ v1 < 0))
                /\ (p < 0 <=> (y3 > 0 /\ v1 < 0) \/ (y3 < 0 /\ v1 > 0))
    BY ProductSign
<1>2. q \in Int /\ (q > 0 <=> (y1 > 0 /\ v2 > 0) \/ (y1 < 0 /\ v2 < 0))
                /\ (q < 0 <=> (y1 > 0 /\ v2 < 0) \/ (y1 < 0 /\ v2 > 0))
    BY ProductSign
<1>3. r \in Int /\ (r > 0 <=> (y2 > 0 /\ v3 > 0) \/ (y2 < 0 /\ v3 < 0))
                /\ (r < 0 <=> (y2 > 0 /\ v3 < 0) \/ (y2 < 0 /\ v3 > 0))
    BY ProductSign
<1>4. p + q + r = 0
    OBVIOUS
<1> HIDE DEF p, q, r
<1> QED BY <1>1, <1>2, <1>3, <1>4 DEF Counted

LEMMA SidesOfCorners ==
    ASSUME NEW x1 \in Int, NEW y1 \in Int, NEW x2 \in Int, NEW y2 \in Int, NEW x3 \in Int, NEW y3 \in Int
    PROVE  y3 * (x1 * y2 - x2 * y1) + y1 * (x2 * y3 - x3 * y2) + y2 * (x3 * y1 - x1 * y3) = 0
OBVIOUS

LEMMA OddSubset ==
    ASSUME NEW H, H \subseteq {1, 2, 3}
    PROVE  Cardinality(H) % 2 = 1 <=> ((1 \in H) # (2 \in H)) # (3 \in H)
<1> DEFINE A == H \cap {1}
           B == H \cap {1, 2}
<1>1. IsFiniteSet({}) /\ Cardinality({}) = 0
    BY FS_EmptySet
<1>2. IsFiniteSet(A) /\ Cardinality(A) = IF 1 \in H THEN 1 ELSE 0
    <2>1. IsFiniteSet({1}) /\ Cardinality({1}) = 1
        BY FS_Singleton
    <2>2. A = IF 1 \in H THEN {1} ELSE {}
        OBVIOUS
    <2> QED BY <1>1, <2>1, <2>2
<1>3. IsFiniteSet(B) /\ Cardinality(B) = Cardinality(A) + (IF 2 \in H THEN 1 ELSE 0)
    <2>1. CASE 2 \in H
        <3>1. B = A \cup {2} /\ 2 \notin A
            BY <2>1
        <3> HIDE DEF A, B
        <3>2. Cardinality(A \cup {2}) = Cardinality(A) + 1 /\ IsFiniteSet(A \cup {2})
            BY <1>2, <3>1, FS_AddElement
        <3> QED BY <2>1, <3>1, <3>2
    <2>2. CASE 2 \notin H
        <3>1. B = A
            BY <2>2
        <3> HIDE DEF A, B
        <3>2. Cardinality(A) \in Nat
            BY <1>2
        <3> QED BY <1>2, <2>2, <3>1, <3>2
    <2> QED BY <2>1, <2>2
<1>4. Cardinality(H) = Cardinality(B) + (IF 3 \in H THEN 1 ELSE 0)
    <2>1. CASE 3 \in H
        <3>1. H = B \cup {3} /\ 3 \notin B
            <4>1. \A e : e \in H <=> e \in B \cup {3}
                BY <2>1
            <4>2. 3 \notin B
                OBVIOUS
            <4> HIDE DEF B
            <4> QED BY <4>1, <4>2
        <3> HIDE DEF A, B
        <3>2. Cardinality(B \cup {3}) = Cardinality(B) + 1
            BY <1>3, <3>1, FS_AddElement
        <3> QED BY <2>1, <3>1, <3>2
    <2>2. CASE 3 \notin H
        <3>1. H = B
            BY <2>2
        <3> HIDE DEF A, B
        <3>2. Cardinality(B) \in Nat
            BY <1>2, <1>3
        <3> QED BY <1>3, <2>2, <3>1, <3>2
    <2> QED BY <2>1, <2>2
<1> HIDE DEF A, B
<1>5. Cardinality(H) \in 0 .. 3
    BY <1>2, <1>3, <1>4
<1>6. \A n \in 0 .. 3 : n % 2 = 1 <=> n = 1 \/ n = 3
    OBVIOUS
<1> QED BY <1>2, <1>3, <1>4, <1>5, <1>6

-----------------------------------------------------------------------------
\* The side of a line, as the code computes it.

\* Which side of the line from a to b the point is on, without bounds on the word.
SideValue(a, b, p) == (a.x - p.x) * (b.y - p.y) - (b.x - p.x) * (a.y - p.y)

LEMMA CrossExact ==
    ASSUME NEW a \in PointType, NEW b \in PointType
    PROVE  Cross(a, b) \subseteq {a.x * b.y - a.y * b.x}
<1>1. a.x \in Word /\ a.y \in Word /\ b.x \in Word /\ b.y \in Word
    BY DEF PointType
<1> DEFINE xy == a.x * b.y
           yx == a.y * b.x
<1>2. CheckedMul(a.x, b.y) = {xy} \cap Word /\ CheckedMul(a.y, b.x) = {yx} \cap Word
    BY <1>1, CheckedMulExact
<1>3. xy \in Word /\ yx \in Word => CheckedSub(xy, yx) = {xy - yx} \cap Word
    <2> HIDE DEF xy, yx
    <2> QED BY CheckedSumsExact
<1>4. Cross(a, b) = UNION {CheckedSub(s, t) : s \in CheckedMul(a.x, b.y), t \in CheckedMul(a.y, b.x)}
    BY DEF Cross
<1> HIDE DEF xy, yx
<1>5. Cross(a, b) \subseteq {xy - yx}
    BY <1>2, <1>3, <1>4
<1> QED BY <1>5 DEF xy, yx

LEMMA SideExact ==
    ASSUME NEW a \in PointType, NEW b \in PointType, NEW p \in PointType,
           Minus(b, a) \in PointType, Minus(p, a) \in PointType
    PROVE  SideValue(a, b, p) \in Int /\ SideOf(a, b, p) \subseteq {SideValue(a, b, p)}
<1>1. /\ a.x \in Int /\ a.y \in Int /\ b.x \in Int /\ b.y \in Int /\ p.x \in Int /\ p.y \in Int
    BY DEF PointType, Word
<1>2. /\ Minus(b, a).x = b.x - a.x /\ Minus(b, a).y = b.y - a.y
      /\ Minus(p, a).x = p.x - a.x /\ Minus(p, a).y = p.y - a.y
    BY DEF Minus, Pt
<1>3. SideOf(a, b, p) \subseteq {(b.x - a.x) * (p.y - a.y) - (b.y - a.y) * (p.x - a.x)}
    BY <1>2, CrossExact DEF SideOf
<1>4. \A ax, ay, bx, by, px, py \in Int :
        (bx - ax) * (py - ay) - (by - ay) * (px - ax) = (ax - px) * (by - py) - (bx - px) * (ay - py)
    OBVIOUS
<1>5. (b.x - a.x) * (p.y - a.y) - (b.y - a.y) * (p.x - a.x) = SideValue(a, b, p)
    BY <1>1, <1>4 DEF SideValue
<1>6. SideValue(a, b, p) \in Int
    BY <1>1 DEF SideValue
<1> QED BY <1>3, <1>5, <1>6

-----------------------------------------------------------------------------
\* The corners of a valid triangle, and what the even-odd count makes of its edges.

LEMMA SpanOfLoop == ASSUME NEW S, NEW s \in Seq(S), NEW i \in 1 .. Len(s) PROVE s[i] \in S
OBVIOUS

LEMMA TriangleCorners ==
    ASSUME NEW loop \in Loops, NEW p \in Points, Len(loop) = 3, ContourValidity(loop) = "Valid"
    PROVE  /\ loop \in Seq(SpanType) /\ DOMAIN loop = {1, 2, 3}
           /\ After(loop, 1) = loop[2] /\ After(loop, 2) = loop[3] /\ After(loop, 3) = loop[1]
           /\ \A i \in {1, 2, 3} :
                /\ loop[i].end = After(loop, i).start
                /\ loop[i].start \in PointType /\ After(loop, i).start \in PointType
                /\ Minus(loop[i].end, loop[i].start) \in PointType
                /\ Minus(p, loop[i].start) \in PointType
<1>1. loop \in Seq(SpanType) /\ p \in PointType
    BY ContoursAssumption
<1>2. DOMAIN loop = {1, 2, 3}
    BY <1>1
<1>3. After(loop, 1) = loop[2] /\ After(loop, 2) = loop[3] /\ After(loop, 3) = loop[1]
    BY DEF After
<1>4. \A i \in {1, 2, 3} : loop[i].end = After(loop, i).start
    BY DEF ContourValidity
<1>5. \A i \in {1, 2, 3} : loop[i].start \in PointType /\ loop[i].end \in PointType
    <2>1. \A i \in {1, 2, 3} : loop[i] \in SpanType
        <3> SUFFICES ASSUME NEW i \in {1, 2, 3} PROVE loop[i] \in SpanType
            OBVIOUS
        <3>1. i \in 1 .. Len(loop)
            OBVIOUS
        <3> HIDE DEF SpanType
        <3> QED BY <1>1, <3>1, SpanOfLoop
    <2> QED BY <2>1 DEF SpanType
<1>6. \A i \in {1, 2, 3} : Minus(loop[i].end, loop[i].start) \in PointType
                           /\ Minus(p, loop[i].start) \in PointType
    BY <1>2, DifferencesAssumption
<1> QED BY <1>1, <1>2, <1>3, <1>4, <1>5, <1>6

\* What the code counts of one edge is what the exact side says, where it counts it.
LEMMA EdgeCounted ==
    ASSUME NEW a \in PointType, NEW b \in PointType, NEW p \in PointType,
           SideOf(a, b, p) \subseteq {SideValue(a, b, p)}, SideOf(a, b, p) # {}
    PROVE  Straddles(a, b, p) /\ (\E v \in SideOf(a, b, p) : IF b.y > a.y THEN v > 0 ELSE v < 0)
             <=> Counted(a.y - p.y, b.y - p.y, SideValue(a, b, p))
<1>1. a.y \in Int /\ b.y \in Int /\ p.y \in Int
    BY DEF PointType, Word
<1>2. SideOf(a, b, p) = {SideValue(a, b, p)}
    OBVIOUS
<1>3. /\ (a.y - p.y > 0 <=> a.y > p.y) /\ (b.y - p.y > 0 <=> b.y > p.y)
      /\ (b.y - p.y > a.y - p.y <=> b.y > a.y)
    BY <1>1
<1> QED BY <1>2, <1>3 DEF Counted, Straddles

LEMMA NotCounted ==
    ASSUME NEW a \in PointType, NEW b \in PointType, NEW p \in PointType, NEW v, ~Straddles(a, b, p)
    PROVE  ~Counted(a.y - p.y, b.y - p.y, v)
<1>1. a.y \in Int /\ b.y \in Int /\ p.y \in Int
    BY DEF PointType, Word
<1>2. (a.y - p.y > 0 <=> a.y > p.y) /\ (b.y - p.y > 0 <=> b.y > p.y)
    BY <1>1
<1> QED BY <1>2 DEF Counted, Straddles

LEMMA TriangleContains ==
    ASSUME NEW loop \in Loops, NEW p \in Points, Len(loop) = 3, ContourValidity(loop) = "Valid"
    PROVE  LET Side(i) == SideOf(loop[i].start, loop[i].end, p)
               left    == {i \in DOMAIN loop : \E v \in Side(i) : v > 0}
               right   == {i \in DOMAIN loop : \E v \in Side(i) : v < 0}
           IN  /\ DOMAIN loop \in {left, right} => StrictlyContains(loop, p)
               /\ left # {} /\ right # {} => ~StrictlyContains(loop, p)
<1> DEFINE a == loop[1].start
           b == loop[2].start
           c == loop[3].start
           v1 == SideValue(a, b, p)
           v2 == SideValue(b, c, p)
           v3 == SideValue(c, a, p)
           t1 == SideOf(a, b, p)
           t2 == SideOf(b, c, p)
           t3 == SideOf(c, a, p)
           Side(i) == SideOf(loop[i].start, loop[i].end, p)
           left    == {i \in DOMAIN loop : \E v \in Side(i) : v > 0}
           right   == {i \in DOMAIN loop : \E v \in Side(i) : v < 0}
           h1 == Counted(a.y - p.y, b.y - p.y, v1)
           h2 == Counted(b.y - p.y, c.y - p.y, v2)
           h3 == Counted(c.y - p.y, a.y - p.y, v3)
           odd == (h1 # h2) # h3
<1>1. /\ DOMAIN loop = {1, 2, 3}
      /\ loop[1].end = b /\ loop[2].end = c /\ loop[3].end = a
      /\ After(loop, 1).start = b /\ After(loop, 2).start = c /\ After(loop, 3).start = a
      /\ a \in PointType /\ b \in PointType /\ c \in PointType /\ p \in PointType
      /\ Minus(b, a) \in PointType /\ Minus(c, b) \in PointType /\ Minus(a, c) \in PointType
      /\ Minus(p, a) \in PointType /\ Minus(p, b) \in PointType /\ Minus(p, c) \in PointType
    BY TriangleCorners, ContoursAssumption
<1>2. /\ v1 \in Int /\ v2 \in Int /\ v3 \in Int
      /\ t1 \subseteq {v1} /\ t2 \subseteq {v2} /\ t3 \subseteq {v3}
    BY <1>1, SideExact
<1>3. /\ (v1 > 0 /\ v2 > 0 /\ v3 > 0) \/ (v1 < 0 /\ v2 < 0 /\ v3 < 0) => odd
      /\ odd => (v1 >= 0 /\ v2 >= 0 /\ v3 >= 0) \/ (v1 <= 0 /\ v2 <= 0 /\ v3 <= 0)
    <2> DEFINE x1 == a.x - p.x
               y1 == a.y - p.y
               x2 == b.x - p.x
               y2 == b.y - p.y
               x3 == c.x - p.x
               y3 == c.y - p.y
    <2>1. x1 \in Int /\ y1 \in Int /\ x2 \in Int /\ y2 \in Int /\ x3 \in Int /\ y3 \in Int
        BY <1>1 DEF PointType, Word
    <2>2. v1 = x1 * y2 - x2 * y1 /\ v2 = x2 * y3 - x3 * y2 /\ v3 = x3 * y1 - x1 * y3
        BY DEF SideValue
    <2> HIDE DEF x1, y1, x2, y2, x3, y3, v1, v2, v3
    <2>3. y3 * v1 + y1 * v2 + y2 * v3 = 0
        BY <2>1, <2>2, SidesOfCorners
    <2>4. y1 = 0 /\ y2 = 0 /\ y3 = 0 => v1 = 0
        BY <2>1, <2>2
    <2>5. LET k1 == Counted(y1, y2, v1)
              k2 == Counted(y2, y3, v2)
              k3 == Counted(y3, y1, v3)
          IN  /\ (v1 > 0 /\ v2 > 0 /\ v3 > 0) \/ (v1 < 0 /\ v2 < 0 /\ v3 < 0) => ((k1 # k2) # k3)
              /\ ((k1 # k2) # k3) =>
                    (v1 >= 0 /\ v2 >= 0 /\ v3 >= 0) \/ (v1 <= 0 /\ v2 <= 0 /\ v3 <= 0)
        BY <1>2, <2>1, <2>3, <2>4, EvenOddOfSigns
    <2> QED BY <2>5 DEF y1, y2, y3
<1>4. /\ 1 \in left <=> \E v \in t1 : v > 0
      /\ 2 \in left <=> \E v \in t2 : v > 0
      /\ 3 \in left <=> \E v \in t3 : v > 0
      /\ 1 \in right <=> \E v \in t1 : v < 0
      /\ 2 \in right <=> \E v \in t2 : v < 0
      /\ 3 \in right <=> \E v \in t3 : v < 0
    BY <1>1
<1> DEFINE Up(i) == After(loop, i).start.y > loop[i].start.y
           Turn(i) == SideOf(loop[i].start, After(loop, i).start, p)
           Straddle == {i \in DOMAIN loop : Straddles(loop[i].start, After(loop, i).start, p)}
           H == {i \in Straddle : \E v \in Turn(i) : IF Up(i) THEN v > 0 ELSE v < 0}
<1>5. StrictlyContains(loop, p) <=> (\A i \in Straddle : Turn(i) # {}) /\ Cardinality(H) % 2 = 1
    BY DEF StrictlyContains
<1>6. Turn(1) = t1 /\ Turn(2) = t2 /\ Turn(3) = t3
    BY <1>1
<1>7. ASSUME \A i \in Straddle : Turn(i) # {} PROVE Cardinality(H) % 2 = 1 <=> odd
    <2>1. 1 \in H <=> h1
        <3>1. 1 \in H <=> Straddles(a, b, p) /\ \E v \in t1 : IF b.y > a.y THEN v > 0 ELSE v < 0
            BY <1>1
        <3>2. CASE t1 # {}
            BY <1>1, <1>2, <3>1, <3>2, EdgeCounted
        <3>3. CASE t1 = {}
            <4>1. ~Straddles(a, b, p)
                BY <1>1, <1>6, <1>7, <3>3
            <4> QED BY <3>1, <4>1, <1>1, NotCounted
        <3> QED BY <3>2, <3>3
    <2>2. 2 \in H <=> h2
        <3>1. 2 \in H <=> Straddles(b, c, p) /\ \E v \in t2 : IF c.y > b.y THEN v > 0 ELSE v < 0
            BY <1>1
        <3>2. CASE t2 # {}
            BY <1>1, <1>2, <3>1, <3>2, EdgeCounted
        <3>3. CASE t2 = {}
            <4>1. ~Straddles(b, c, p)
                BY <1>1, <1>6, <1>7, <3>3
            <4> QED BY <3>1, <4>1, <1>1, NotCounted
        <3> QED BY <3>2, <3>3
    <2>3. 3 \in H <=> h3
        <3>1. 3 \in H <=> Straddles(c, a, p) /\ \E v \in t3 : IF a.y > c.y THEN v > 0 ELSE v < 0
            BY <1>1
        <3>2. CASE t3 # {}
            BY <1>1, <1>2, <3>1, <3>2, EdgeCounted
        <3>3. CASE t3 = {}
            <4>1. ~Straddles(c, a, p)
                BY <1>1, <1>6, <1>7, <3>3
            <4> QED BY <3>1, <4>1, <1>1, NotCounted
        <3> QED BY <3>2, <3>3
    <2>4. H \subseteq {1, 2, 3}
        BY <1>1
    <2> HIDE DEF H, h1, h2, h3
    <2> QED BY <2>1, <2>2, <2>3, <2>4, OddSubset
<1> HIDE DEF H, odd, v1, v2, v3, t1, t2, t3, left, right
<1>8. DOMAIN loop \in {left, right} => StrictlyContains(loop, p)
    <2> SUFFICES ASSUME DOMAIN loop = left \/ DOMAIN loop = right PROVE StrictlyContains(loop, p)
        OBVIOUS
    <2>1. (v1 > 0 /\ v2 > 0 /\ v3 > 0) \/ (v1 < 0 /\ v2 < 0 /\ v3 < 0)
        BY <1>1, <1>2, <1>4
    <2>2. t1 # {} /\ t2 # {} /\ t3 # {}
        BY <1>1, <1>4
    <2>3. \A i \in Straddle : Turn(i) # {}
        <3>1. Straddle \subseteq {1, 2, 3}
            BY <1>1
        <3> HIDE DEF Straddle, Turn
        <3> QED BY <1>6, <2>2, <3>1
    <2> QED BY <1>3, <1>5, <1>7, <2>1, <2>3
<1>9. left # {} /\ right # {} => ~StrictlyContains(loop, p)
    <2> SUFFICES ASSUME left # {}, right # {}, StrictlyContains(loop, p) PROVE FALSE
        OBVIOUS
    <2>1. odd
        BY <1>5, <1>7
    <2>2. left \subseteq {1, 2, 3} /\ right \subseteq {1, 2, 3}
        BY <1>1 DEF left, right
    <2>3. v1 > 0 \/ v2 > 0 \/ v3 > 0
        BY <1>2, <1>4, <2>2
    <2>4. v1 < 0 \/ v2 < 0 \/ v3 < 0
        BY <1>2, <1>4, <2>2
    <2> QED BY <1>2, <1>3, <2>1, <2>3, <2>4
<1> QED BY <1>8, <1>9 DEF left, right

\* contour_strictly_contains, on every triangle and every point whose differences
\* fit the word: a point to one side of all three edges is inside, a point with
\* edges to both of its sides is not.  Products and sums may still overflow; where
\* they do the answer is no, and the theorem says that this is never a wrong no
\* for a point all of whose sides were computed.
THEOREM ContainmentIsExact == Spec => []ContainsExact
<1>1. Init => ContainsExact
    BY DEF Init, ContainsExact
<1>2. ContainsExact /\ [Next]_vars => ContainsExact'
    <2> SUFFICES ASSUME ContainsExact, [Next]_vars PROVE ContainsExact'
        OBVIOUS
    <2>1. CASE IndexCall \/ UNCHANGED vars
        <3>1. UNCHANGED call
            BY <2>1 DEF IndexCall, vars
        <3> QED BY <3>1 DEF ContainsExact
    <2>2. CASE \E loop \in Loops, p \in Points :
                  Return("contains", <<loop, p>>, StrictlyContains(loop, p))
        <3>1. PICK loop \in Loops, p \in Points :
                  Return("contains", <<loop, p>>, StrictlyContains(loop, p))
            BY <2>2
        <3>2. call'.args[1] = loop /\ call'.args[2] = p /\ call'.result = StrictlyContains(loop, p)
            BY <3>1 DEF Return
        <3>3. CASE ~(Len(loop) = 3 /\ ContourValidity(loop) = "Valid")
            BY <3>2, <3>3 DEF ContainsExact
        <3>4. CASE Len(loop) = 3 /\ ContourValidity(loop) = "Valid"
            <4>1. LET Side(i) == SideOf(loop[i].start, loop[i].end, p)
                      left    == {i \in DOMAIN loop : \E v \in Side(i) : v > 0}
                      right   == {i \in DOMAIN loop : \E v \in Side(i) : v < 0}
                  IN  /\ DOMAIN loop \in {left, right} => StrictlyContains(loop, p)
                      /\ left # {} /\ right # {} => ~StrictlyContains(loop, p)
                BY <3>1, <3>4, TriangleContains
            <4> QED BY <3>2, <4>1, Zenon DEF ContainsExact
        <3> QED BY <3>3, <3>4
    <2>3. CASE \E loop \in Loops : Return("validate", <<loop>>, <<ContourValidity(loop), Orientation(loop)>>)
        <3>1. call'.op = "validate"
            BY <2>3 DEF Return
        <3> QED BY <3>1 DEF ContainsExact
    <2>4. CASE ArithCall \/ UnitCall \/ PadCall
        <3>1. call'.op # "contains"
            BY <2>4 DEF ArithCall, UnitCall, PadCall, Return
        <3> QED BY <3>1 DEF ContainsExact
    <2> QED BY <2>1, <2>2, <2>3, <2>4 DEF Next, ContourCall
<1> QED BY <1>1, <1>2, PTL DEF Spec

-----------------------------------------------------------------------------
\* Loops that turn one way around the origin, the shape every pad outline has.  Their
\* points stay within w by h, so that no product or sum of the tests overflows.

LEMMA ProductBound ==
    ASSUME NEW W \in Nat, NEW H \in Nat, NEW x \in -W .. W, NEW y \in -H .. H
    PROVE  x * y \in -(W * H) .. W * H
<1>1. \A a, b \in Nat : a <= W /\ b <= H => a * b \in Nat /\ a * b <= W * H
    <2> SUFFICES ASSUME NEW a \in Nat, NEW b \in Nat, a <= W, b <= H
                 PROVE  a * b \in Nat /\ a * b <= W * H
        OBVIOUS
    <2>1. a * b <= W * b
        BY ProductMonotone
    <2>2. b * W <= H * W
        BY ProductMonotone
    <2>3. a * b \in Nat /\ W * b = b * W /\ H * W = W * H /\ W * b \in Nat /\ W * H \in Nat
        OBVIOUS
    <2> QED BY <2>1, <2>2, <2>3
<1>2. W * H \in Nat /\ x * y \in Int
    OBVIOUS
<1>3. CASE x >= 0 /\ y >= 0
    <2>1. x \in Nat /\ y \in Nat /\ x <= W /\ y <= H
        BY <1>3
    <2>2. x * y \in Nat /\ x * y <= W * H
        BY <1>1, <2>1
    <2> QED BY <1>2, <2>2
<1>4. CASE x >= 0 /\ y < 0
    <2>1. x \in Nat /\ -y \in Nat /\ x <= W /\ -y <= H
        BY <1>4
    <2>2. x * (-y) \in Nat /\ x * (-y) <= W * H
        BY <1>1, <2>1
    <2>3. x * (-y) = -(x * y)
        BY <2>1
    <2> QED BY <1>2, <2>2, <2>3
<1>5. CASE x < 0 /\ y >= 0
    <2>1. -x \in Nat /\ y \in Nat /\ -x <= W /\ y <= H
        BY <1>5
    <2>2. (-x) * y \in Nat /\ (-x) * y <= W * H
        BY <1>1, <2>1
    <2>3. (-x) * y = -(x * y)
        BY <2>1
    <2> QED BY <1>2, <2>2, <2>3
<1>6. CASE x < 0 /\ y < 0
    <2>1. -x \in Nat /\ -y \in Nat /\ -x <= W /\ -y <= H
        BY <1>6
    <2>2. (-x) * (-y) \in Nat /\ (-x) * (-y) <= W * H
        BY <1>1, <2>1
    <2>3. (-x) * (-y) = x * y
        BY <2>1
    <2> QED BY <1>2, <2>2, <2>3
<1> QED BY <1>3, <1>4, <1>5, <1>6

Within(W, H) == [x : -W .. W, y : -H .. H]

\* cross() of vectors short enough is their cross product.
LEMMA CrossOfShort ==
    ASSUME NEW W \in Nat, NEW H \in Nat, W >= 1, H >= 1, 2 * (W * H) <= MaxInt,
           NEW a \in Within(W, H), NEW b \in Within(W, H)
    PROVE  /\ Cross(a, b) = {a.x * b.y - a.y * b.x}
           /\ a.x * b.y - a.y * b.x \in -(2 * (W * H)) .. 2 * (W * H)
<1> DEFINE xy == a.x * b.y
           yx == a.y * b.x
           M == W * H
<1>1. a.x \in -W .. W /\ a.y \in -H .. H /\ b.x \in -W .. W /\ b.y \in -H .. H
    BY DEF Within
<1>2. xy \in -M .. M /\ b.x * a.y \in -M .. M
    BY <1>1, ProductBound
<1>3. b.x * a.y = yx
    BY <1>1
<1>4. M \in Nat /\ W <= M /\ H <= M
    <2>1. W * H \in Nat /\ W <= W * H
        BY FactorBound
    <2>2. H * W \in Nat /\ H <= H * W
        BY FactorBound
    <2> QED BY <2>1, <2>2
<1>5. /\ \A z : z \in -M .. M => z \in Word
      /\ \A y, z \in -M .. M : y - z \in Word /\ y - z \in -(2 * M) .. 2 * M
    <2> HIDE DEF M
    <2> QED BY <1>4, MaxIntAssumption DEF Word, MinInt, M
<1>6. a.x \in Word /\ a.y \in Word /\ b.x \in Word /\ b.y \in Word
    <2> HIDE DEF M
    <2>1. \A z : z \in -W .. W \/ z \in -H .. H => z \in -M .. M
        BY <1>4
    <2> QED BY <1>1, <1>5, <2>1
<1>7. xy \in Word /\ yx \in Word /\ xy - yx \in Word /\ xy - yx \in -(2 * M) .. 2 * M
    <2> HIDE DEF M, xy, yx
    <2> QED BY <1>2, <1>3, <1>5
<1>8. CheckedMul(a.x, b.y) = {xy} /\ CheckedMul(a.y, b.x) = {yx}
    BY <1>6, <1>7, CheckedMulExact
<1>9. CheckedSub(xy, yx) = {xy - yx}
    <2> HIDE DEF xy, yx
    <2> QED BY <1>7, CheckedSumsExact
<1>10. Cross(a, b) = UNION {CheckedSub(s, t) : s \in CheckedMul(a.x, b.y), t \in CheckedMul(a.y, b.x)}
    BY DEF Cross
<1>11. Cross(a, b) = {xy - yx}
    <2> HIDE DEF xy, yx
    <2> QED BY <1>8, <1>9, <1>10
<1> QED BY <1>7, <1>11

\* Which side of the line from a to b the point p is on, without overflow.
Turn(a, b, p) == (b.x - a.x) * (p.y - a.y) - (b.y - a.y) * (p.x - a.x)

LEMMA SideOfShort ==
    ASSUME NEW W \in Nat, NEW H \in Nat, W >= 1, H >= 1, 8 * (W * H) <= MaxInt,
           NEW a \in Within(W, H), NEW b \in Within(W, H), NEW p \in Within(W, H)
    PROVE  SideOf(a, b, p) = {Turn(a, b, p)}
<1>1. \A q \in Within(W, H) : Minus(q, a) \in Within(2 * W, 2 * H)
                              /\ Minus(q, a).x = q.x - a.x /\ Minus(q, a).y = q.y - a.y
    BY DEF Minus, Pt, Within
<1>2. (2 * W) * (2 * H) = 4 * (W * H) /\ W * H \in Nat
    OBVIOUS
<1>3. 2 * ((2 * W) * (2 * H)) <= MaxInt
    <2> DEFINE M == W * H
    <2>1. M \in Nat /\ 8 * M <= MaxInt /\ (2 * W) * (2 * H) = 4 * M
        BY <1>2
    <2> HIDE DEF M
    <2> QED BY <2>1, MaxIntAssumption
<1>4. 2 * W \in Nat /\ 2 * H \in Nat /\ 2 * W >= 1 /\ 2 * H >= 1
    OBVIOUS
<1>5. Cross(Minus(b, a), Minus(p, a))
        = {Minus(b, a).x * Minus(p, a).y - Minus(b, a).y * Minus(p, a).x}
    BY <1>1, <1>3, <1>4, CrossOfShort
<1> QED BY <1>1, <1>5 DEF SideOf, Turn

Faces(v, ccw) == IF ccw THEN v >= 0 ELSE v <= 0

SpansWithin(W, H) == [arc : BOOLEAN, start : Within(W, H), end : Within(W, H),
                      center : [x : Int, y : Int], ccw : BOOLEAN]

\* A closed loop all of whose corners, and the origin, are to one side of every edge.
Convex(c, W, H, ccw) ==
    /\ c \in Seq(SpansWithin(W, H))
    /\ Len(c) \in 3 .. 8
    /\ \A i \in 1 .. Len(c) :
        /\ c[i].end = After(c, i).start
        /\ c[i].arc => ArcIsValid(c[i])
        /\ Faces(Turn(c[i].start, c[i].end, Origin), ccw)
        /\ \A j \in 1 .. Len(c) : Faces(Turn(c[i].start, c[i].end, c[j].start), ccw)
    /\ \E i \in 1 .. Len(c) : Turn(c[i].start, c[i].end, Origin) # 0

\* Chords do not cross when both ends of one are on the same side of the other.
LEMMA SameSideApart ==
    ASSUME NEW W \in Nat, NEW H \in Nat, W >= 1, H >= 1, 8 * (W * H) <= MaxInt,
           NEW s \in SpansWithin(W, H), NEW t \in SpansWithin(W, H), NEW ccw \in BOOLEAN,
           Faces(Turn(s.start, s.end, t.start), ccw), Faces(Turn(s.start, s.end, t.end), ccw)
    PROVE  ~ChordsProperlyCross(s, t)
<1>1. /\ s.start \in Within(W, H) /\ s.end \in Within(W, H)
      /\ t.start \in Within(W, H) /\ t.end \in Within(W, H)
    BY DEF SpansWithin
<1> DEFINE u == Turn(s.start, s.end, t.start)
           v == Turn(s.start, s.end, t.end)
           ofT == <<SideOf(s.start, s.end, t.start), SideOf(s.start, s.end, t.end)>>
           ofS == <<SideOf(t.start, t.end, s.start), SideOf(t.start, t.end, s.end)>>
           Apart(sides) == \E x \in sides[1], y \in sides[2] : (x > 0 /\ y < 0) \/ (x < 0 /\ y > 0)
<1>2. SideOf(s.start, s.end, t.start) = {u} /\ SideOf(s.start, s.end, t.end) = {v}
    BY <1>1, SideOfShort
<1>3. SideOf(t.start, t.end, s.start) # {} /\ SideOf(t.start, t.end, s.end) # {}
    <2>1. /\ SideOf(t.start, t.end, s.start) = {Turn(t.start, t.end, s.start)}
          /\ SideOf(t.start, t.end, s.end) = {Turn(t.start, t.end, s.end)}
        BY <1>1, SideOfShort
    <2> QED BY <2>1
<1>4. u \in Int /\ v \in Int
    BY <1>1 DEF Turn, Within
<1>5. Faces(u, ccw) /\ Faces(v, ccw)
    OBVIOUS
<1> HIDE DEF u, v
<1>6. ~Apart(ofT)
    BY <1>2, <1>4, <1>5 DEF Faces
<1>7. {} \notin ToSet(ofT) \cup ToSet(ofS)
    <2>1. \A x, y : x # {} /\ y # {} => {} \notin ToSet(<<x, y>>)
        BY DEF ToSet
    <2>2. SideOf(s.start, s.end, t.start) # {} /\ SideOf(s.start, s.end, t.end) # {}
        BY <1>2
    <2> QED BY <1>3, <2>1, <2>2
<1> QED BY <1>6, <1>7 DEF ChordsProperlyCross

LEMMA NextOf ==
    ASSUME NEW n \in Nat, n >= 1, NEW i \in 1 .. n
    PROVE  /\ (i % n) + 1 \in 1 .. n
           /\ i < n => (i % n) + 1 = i + 1
           /\ i = n => (i % n) + 1 = 1
OBVIOUS

LEMMA ConvexIsValid ==
    ASSUME NEW W \in Nat, NEW H \in Nat, W >= 1, H >= 1, 8 * (W * H) <= MaxInt,
           NEW c, NEW ccw \in BOOLEAN, Convex(c, W, H, ccw)
    PROVE  ContourValidity(c) = "Valid"
<1> DEFINE n == Len(c)
           Broken(i) == \/ c[i].arc /\ ~ArcIsValid(c[i])
                        \/ c[i].end # After(c, i).start
<1>1. n \in 3 .. 8 /\ \A i \in 1 .. n : c[i] \in SpansWithin(W, H)
    <2>1. c \in Seq(SpansWithin(W, H)) /\ n \in 3 .. 8
        BY DEF Convex
    <2> QED BY <2>1, SpanOfLoop
<1>2. \A i \in 1 .. n : ~Broken(i)
    BY DEF Convex
<1>3. \A i, j \in 1 .. n : ~ChordsProperlyCross(c[i], c[j])
    <2> SUFFICES ASSUME NEW i \in 1 .. n, NEW j \in 1 .. n PROVE ~ChordsProperlyCross(c[i], c[j])
        OBVIOUS
    <2> DEFINE k == (j % n) + 1
    <2>1. k \in 1 .. n
        BY <1>1, NextOf
    <2>2. c[j].end = c[k].start
        BY DEF Convex, After
    <2> HIDE DEF k
    <2>3. /\ Faces(Turn(c[i].start, c[i].end, c[j].start), ccw)
          /\ Faces(Turn(c[i].start, c[i].end, c[k].start), ccw)
        BY <2>1 DEF Convex
    <2> QED BY <1>1, <2>2, <2>3, SameSideApart
<1> HIDE DEF n, Broken
<1>4. ~(n < 3) /\ n >= 3
    <2>1. n \in 3 .. 8
        BY <1>1, Zenon
    <2> QED BY <2>1
<1>5. ~\E i \in 1 .. n : Broken(i)
    BY <1>2
<1>6. ~\E i, j \in 1 .. n : (i < j /\ j - i # 1 /\ j - i # n - 1) /\ ChordsProperlyCross(c[i], c[j])
    BY <1>3
<1> QED BY <1>4, <1>5, <1>6, Zenon DEF ContourValidity, n, Broken

\* The partial sums of the signed area.
Sums(f, t, n) ==
    /\ f \in [0 .. n -> Int]
    /\ f[0] = 0
    /\ \A k \in 1 .. n : f[k] = f[k - 1] + t[k]

LEMMA SomeSums ==
    ASSUME NEW n \in Nat, NEW t \in [1 .. n -> Int]
    PROVE  \E f : Sums(f, t, n)
<1> DEFINE step == [k \in 1 .. n |-> [x \in Int |-> x + t[k]]]
<1>1. step \in [1 .. n -> [Int -> Int]] /\ 0 \in Int
    OBVIOUS
<1>2. \A k \in 1 .. n : \A x \in Int : step[k][x] = x + t[k]
    OBVIOUS
<1> HIDE DEF step
<1>3. PICK f : Computes(f, n, Int, 0, step)
    BY <1>1, Recursion, Zenon
<1>4. f \in [0 .. n -> Int] /\ f[0] = 0 /\ \A k \in 1 .. n : f[k] = step[k][f[k - 1]]
    BY <1>3 DEF Computes
<1>5. ASSUME NEW k \in 1 .. n PROVE f[k] = f[k - 1] + t[k]
    <2>1. k - 1 \in 0 .. n
        OBVIOUS
    <2>2. f[k - 1] \in Int
        BY <1>4, <2>1
    <2> QED BY <1>2, <1>4, <2>2
<1> QED BY <1>4, <1>5 DEF Sums

TermsFace(t, n, M, ccw) == \A k \in 1 .. n : Faces(t[k], ccw) /\ t[k] \in -M .. M

SumFaces(f, t, k, M, ccw) ==
    /\ Faces(f[k], ccw)
    /\ f[k] \in -(8 * M) .. 8 * M
    /\ \A i \in 1 .. k : t[i] # 0 => f[k] # 0

\* Terms of one sign, at most M each, add up to that sign and at most k times M.
LEMMA SumsOfOneSign ==
    ASSUME NEW n \in 0 .. 8, NEW M \in Nat, NEW t \in [1 .. n -> Int], NEW ccw \in BOOLEAN,
           NEW f, Sums(f, t, n), TermsFace(t, n, M, ccw), NEW k \in 0 .. n
    PROVE  SumFaces(f, t, k, M, ccw)
<1> DEFINE S == {m \in 0 .. n : /\ Faces(f[m], ccw)
                                /\ -(m * M) <= f[m] /\ f[m] <= m * M
                                /\ \A i \in 1 .. m : t[i] # 0 => f[m] # 0}
<1>1. f \in [0 .. n -> Int] /\ f[0] = 0 /\ \A q \in 1 .. n : f[q] = f[q - 1] + t[q]
    BY DEF Sums
<1>2. ASSUME NEW m \in Nat, m <= n PROVE m \in S
    <2>1. 0 \in S
        <3>1. 0 * M = 0 /\ 0 \in 0 .. n
            OBVIOUS
        <3> QED BY <1>1, <3>1 DEF Faces
    <2>2. ASSUME NEW q \in 0 .. m - 1, q \in S PROVE q + 1 \in S
        <3>1. q \in 0 .. n /\ q + 1 \in 0 .. n /\ q + 1 \in 1 .. n /\ (q + 1) - 1 = q
            BY <1>2
        <3>2. f[q + 1] = f[q] + t[q + 1] /\ f[q] \in Int /\ t[q + 1] \in Int
            BY <1>1, <3>1
        <3>3. Faces(f[q], ccw) /\ Faces(t[q + 1], ccw) /\ -M <= t[q + 1] /\ t[q + 1] <= M
            BY <2>2, <3>1 DEF TermsFace
        <3>4. -(q * M) <= f[q] /\ f[q] <= q * M
            BY <2>2
        <3>5. (q + 1) * M = q * M + M /\ q * M \in Nat
            BY <3>1
        <3>6. Faces(f[q + 1], ccw)
            BY <3>2, <3>3 DEF Faces
        <3>7. -((q + 1) * M) <= f[q + 1] /\ f[q + 1] <= (q + 1) * M
            <4> DEFINE P == q * M
                       Q == (q + 1) * M
            <4>1. Q = P + M /\ P \in Nat /\ -P <= f[q] /\ f[q] <= P
                BY <3>4, <3>5
            <4> HIDE DEF P, Q
            <4>2. -Q <= f[q + 1] /\ f[q + 1] <= Q
                BY <3>2, <3>3, <4>1
            <4> QED BY <4>2 DEF Q
        <3>8. ASSUME NEW i \in 1 .. q + 1, t[i] # 0 PROVE f[q + 1] # 0
            <4>1. CASE i = q + 1
                BY <3>2, <3>3, <3>8, <4>1 DEF Faces
            <4>2. CASE i # q + 1
                <5>1. i \in 1 .. q
                    BY <3>1, <4>2
                <5>2. f[q] # 0
                    BY <2>2, <3>8, <5>1
                <5> QED BY <3>2, <3>3, <5>2 DEF Faces
            <4> QED BY <4>1, <4>2
        <3> QED BY <3>1, <3>6, <3>7, <3>8
    <2> HIDE DEF S
    <2> QED BY <2>1, <2>2, CountUp
<1>3. k \in Nat /\ k <= 8 /\ k \in S
    BY <1>2
<1>4. k * M <= 8 * M /\ k * M \in Nat /\ 8 * M \in Nat
    BY <1>3, ProductMonotone
<1>5. f[k] \in Int /\ -(k * M) <= f[k] /\ f[k] <= k * M
    BY <1>1, <1>3
<1>6. f[k] \in -(8 * M) .. 8 * M
    <2> DEFINE P == k * M
    <2>1. P \in Nat /\ P <= 8 * M /\ -P <= f[k] /\ f[k] <= P
        BY <1>4, <1>5
    <2> HIDE DEF P
    <2> QED BY <1>5, <2>1
<1> QED BY <1>3, <1>6 DEF SumFaces

\* orientation: the area of a convex loop has the sign of its direction.
LEMMA ConvexOrientation ==
    ASSUME NEW W \in Nat, NEW H \in Nat, W >= 1, H >= 1, 16 * (W * H) <= MaxInt,
           NEW c, NEW ccw \in BOOLEAN, Convex(c, W, H, ccw)
    PROVE  Orientation(c) = IF ccw THEN "CounterClockwise" ELSE "Clockwise"
<1> DEFINE n == Len(c)
           M == 2 * (W * H)
           Add(A, B) == UNION {CheckedAdd(s, v) : s \in A, v \in B}
           area[k \in 0 .. n] ==
               IF k = 0 THEN {0}
               ELSE UNION {CheckedAdd(s, v) : s \in area[k - 1],
                                              v \in Cross(c[k].start, After(c, k).start)}
           t == [k \in 1 .. n |-> Turn(c[k].start, c[k].end, Origin)]
<1>1. n \in 3 .. 8 /\ n \in 0 .. 8 /\ n \in Nat /\ n > 0
    <2>1. n \in 3 .. 8
        BY DEF Convex
    <2> HIDE DEF n
    <2> QED BY <2>1
<1>2. ASSUME NEW k \in 1 .. n
      PROVE  /\ t[k] \in Int /\ t[k] \in -M .. M /\ Faces(t[k], ccw)
             /\ Cross(c[k].start, After(c, k).start) = {t[k]}
    <2>1. c[k].start \in Within(W, H) /\ c[k].end \in Within(W, H)
        <3>1. c[k] \in SpansWithin(W, H)
            BY SpanOfLoop DEF Convex
        <3> QED BY <3>1 DEF SpansWithin
    <2>2. After(c, k).start = c[k].end /\ Faces(Turn(c[k].start, c[k].end, Origin), ccw)
        BY DEF Convex
    <2>3. 2 * (W * H) <= MaxInt
        <3>1. W * H \in Nat
            OBVIOUS
        <3> QED BY <3>1, MaxIntAssumption
    <2> DEFINE a == c[k].start
               b == c[k].end
    <2>4. a \in Within(W, H) /\ b \in Within(W, H)
        BY <2>1
    <2>5. t[k] = Turn(a, b, Origin)
        OBVIOUS
    <2> HIDE DEF t, a, b
    <2>6. /\ Cross(a, b) = {a.x * b.y - a.y * b.x}
          /\ a.x * b.y - a.y * b.x \in -M .. M
        BY <2>3, <2>4, CrossOfShort
    <2>7. Turn(a, b, Origin) = a.x * b.y - a.y * b.x
        <3>1. a.x \in Int /\ a.y \in Int /\ b.x \in Int /\ b.y \in Int
            BY <2>4 DEF Within
        <3> DEFINE ax == a.x
                   ay == a.y
                   bx == b.x
                   by == b.y
        <3>2. Turn(a, b, Origin) = (bx - ax) * (0 - ay) - (by - ay) * (0 - ax)
            BY DEF Turn, Origin, Pt
        <3>3. ax \in Int /\ ay \in Int /\ bx \in Int /\ by \in Int
            BY <3>1
        <3> HIDE DEF ax, ay, bx, by
        <3>4. (bx - ax) * (0 - ay) - (by - ay) * (0 - ax) = ax * by - ay * bx
            BY <3>3
        <3> QED BY <3>2, <3>4, Zenon DEF ax, ay, bx, by
    <2>8. t[k] \in -M .. M /\ Cross(a, b) = {t[k]}
        BY <2>5, <2>6, <2>7
    <2>9. t[k] \in Int
        BY <2>8
    <2> QED BY <2>2, <2>5, <2>8, <2>9 DEF a, b
<1>3. t \in [1 .. n -> Int] /\ \A k \in 1 .. n : Faces(t[k], ccw) /\ t[k] \in -M .. M
    BY <1>2
<1>4. PICK i \in 1 .. n : t[i] # 0
    BY DEF Convex
<1>5. area = CHOOSE g : g = [k \in 0 .. n |-> IF k = 0 THEN {0}
                                 ELSE Add(g[k - 1], Cross(c[k].start, After(c, k).start))]
    BY DEF area
<1>6. Orientation(c) = CASE n > 0 /\ \E v \in area[n] : v > 0 -> "CounterClockwise"
                         [] n > 0 /\ \E v \in area[n] : v < 0 -> "Clockwise"
                         [] OTHER                             -> "Degenerate"
    BY DEF Orientation, area
<1> HIDE DEF area, t, n
<1>7. PICK f : Sums(f, t, n)
    BY <1>1, <1>3, SomeSums
<1>8. M \in Nat /\ 8 * M <= MaxInt
    <2> DEFINE P == W * H
    <2>1. P \in Nat /\ 16 * P <= MaxInt /\ M = 2 * P
        OBVIOUS
    <2> HIDE DEF P, M
    <2> QED BY <2>1, MaxIntAssumption
<1> HIDE DEF M
<1>9. \A k \in 0 .. n : /\ Faces(f[k], ccw)
                        /\ f[k] \in -(8 * M) .. 8 * M
                        /\ \A j \in 1 .. k : t[j] # 0 => f[k] # 0
    <2>1. n \in 0 .. 8 /\ M \in Nat /\ t \in [1 .. n -> Int] /\ Sums(f, t, n)
        BY <1>1, <1>3, <1>7, <1>8
    <2>2. TermsFace(t, n, M, ccw)
        BY <1>3 DEF TermsFace
    <2>3. \A k \in 0 .. n : SumFaces(f, t, k, M, ccw)
        BY <2>1, <2>2, SumsOfOneSign, Zenon
    <2> QED BY <2>3 DEF SumFaces
<1>10. f[0] = 0 /\ \A k \in 1 .. n : f[k] = f[k - 1] + t[k]
    BY <1>7 DEF Sums
<1>11. \A k \in 0 .. n : f[k] \in Word /\ f[k] \in Int
    <2> SUFFICES ASSUME NEW k \in 0 .. n PROVE f[k] \in Word /\ f[k] \in Int
        OBVIOUS
    <2>1. f[k] \in -(8 * M) .. 8 * M
        BY <1>9
    <2> QED BY <1>8, <2>1, MaxIntAssumption DEF Word, MinInt
<1> DEFINE a == [k \in 0 .. n |-> {f[k]}]
<1>12. ASSUME NEW k \in 1 .. n
       PROVE  Add({f[k - 1]}, Cross(c[k].start, After(c, k).start)) = {f[k]}
    <2>1. k - 1 \in 0 .. n /\ k \in 0 .. n
        BY <1>1
    <2>2. f[k - 1] \in Word /\ f[k] \in Word /\ t[k] \in Word
        <3>1. t[k] \in Word
            BY <1>2, <1>8, MaxIntAssumption DEF Word, MinInt
        <3> QED BY <1>11, <2>1, <3>1
    <2>3. CheckedAdd(f[k - 1], t[k]) = {f[k - 1] + t[k]} \cap Word
        BY <2>2, CheckedSumsExact
    <2>4. CheckedAdd(f[k - 1], t[k]) = {f[k]}
        BY <1>10, <2>2, <2>3
    <2>5. Cross(c[k].start, After(c, k).start) = {t[k]}
        BY <1>2
    <2> QED BY <2>4, <2>5
<1>13. a = [k \in 0 .. n |-> IF k = 0 THEN {0}
                ELSE Add(a[k - 1], Cross(c[k].start, After(c, k).start))]
    <2>1. ASSUME NEW k \in 0 .. n
          PROVE  a[k] = IF k = 0 THEN {0} ELSE Add(a[k - 1], Cross(c[k].start, After(c, k).start))
        <3>1. a[k] = {f[k]} /\ (k - 1 \in 0 .. n => a[k - 1] = {f[k - 1]})
            OBVIOUS
        <3> HIDE DEF a, Add
        <3>2. CASE k = 0
            BY <1>10, <3>1, <3>2
        <3>3. CASE k # 0
            <4>1. k \in 1 .. n /\ k - 1 \in 0 .. n
                BY <1>1, <3>3
            <4>2. Add({f[k - 1]}, Cross(c[k].start, After(c, k).start)) = {f[k]}
                BY <1>12, <4>1
            <4> QED BY <3>1, <3>3, <4>1, <4>2, Zenon
        <3> QED BY <3>2, <3>3
    <2> HIDE DEF Add
    <2> QED BY <2>1
<1> HIDE DEF a, Add
<1>14. area = [k \in 0 .. n |-> IF k = 0 THEN {0}
                  ELSE Add(area[k - 1], Cross(c[k].start, After(c, k).start))]
    BY <1>5, <1>13
<1> DEFINE S == {k \in 0 .. n : area[k] = a[k]}
<1>15. 0 \in S
    BY <1>1, <1>13, <1>14
<1>16. ASSUME NEW k \in 0 .. n - 1, k \in S PROVE k + 1 \in S
    <2>1. k + 1 \in 0 .. n /\ k + 1 # 0 /\ (k + 1) - 1 = k
        BY <1>1
    <2>2. area[k + 1] = Add(area[k], Cross(c[k + 1].start, After(c, k + 1).start))
        BY <1>14, <2>1
    <2>3. a[k + 1] = Add(a[k], Cross(c[k + 1].start, After(c, k + 1).start))
        BY <1>13, <2>1
    <2> QED BY <1>16, <2>1, <2>2, <2>3
<1>17. n \in S
    BY <1>1, <1>15, <1>16, CountUp
<1>18. area[n] = {f[n]}
    BY <1>1, <1>17 DEF a
<1>19. f[n] \in Int /\ f[n] # 0 /\ Faces(f[n], ccw)
    <2>1. n \in 0 .. n
        BY <1>1
    <2> QED BY <1>4, <1>9, <1>11, <2>1
<1>20. CASE ccw
    <2>1. f[n] > 0
        BY <1>19, <1>20 DEF Faces
    <2>2. (\E v \in area[n] : v > 0) /\ ~\E v \in area[n] : v < 0
        BY <1>18, <1>19, <2>1
    <2>3. Orientation(c) = "CounterClockwise"
        BY <1>1, <1>6, <2>2
    <2> QED BY <1>20, <2>3
<1>21. CASE ~ccw
    <2>1. f[n] < 0 /\ ~(f[n] > 0)
        BY <1>19, <1>21 DEF Faces
    <2>2. (\E v \in area[n] : v < 0) /\ ~\E v \in area[n] : v > 0
        BY <1>18, <2>1
    <2>3. Orientation(c) = "Clockwise"
        BY <1>1, <1>6, <2>2
    <2> QED BY <1>21, <2>3
<1> QED BY <1>20, <1>21

LEMMA TurnReversed ==
    ASSUME NEW a \in [x : Int, y : Int], NEW b \in [x : Int, y : Int], NEW p \in [x : Int, y : Int]
    PROVE  Turn(a, b, p) \in Int /\ Turn(b, a, p) = -Turn(a, b, p)
<1> DEFINE ax == a.x
           ay == a.y
           bx == b.x
           by == b.y
           px == p.x
           py == p.y
<1>1. ax \in Int /\ ay \in Int /\ bx \in Int /\ by \in Int /\ px \in Int /\ py \in Int
    OBVIOUS
<1>2. /\ Turn(a, b, p) = (bx - ax) * (py - ay) - (by - ay) * (px - ax)
      /\ Turn(b, a, p) = (ax - bx) * (py - by) - (ay - by) * (px - bx)
    BY DEF Turn
<1> HIDE DEF ax, ay, bx, by, px, py
<1>3. (bx - ax) * (py - ay) - (by - ay) * (px - ax) \in Int
    BY <1>1
<1>4. (ax - bx) * (py - by) - (ay - by) * (px - bx) = -((bx - ax) * (py - ay) - (by - ay) * (px - ax))
    BY <1>1
<1> QED BY <1>2, <1>3, <1>4, Zenon

LEMMA ReversedSpan ==
    ASSUME NEW W \in Nat, NEW H \in Nat, NEW s \in SpansWithin(W, H)
    PROVE  /\ ReverseSpan(s) \in SpansWithin(W, H)
           /\ ReverseSpan(s).start = s.end /\ ReverseSpan(s).end = s.start
           /\ ReverseSpan(s).arc = s.arc /\ ReverseSpan(s).center = s.center
           /\ s.arc => ReverseSpan(s).ccw = ~s.ccw
           /\ ArcIsValid(s) => ArcIsValid(ReverseSpan(s))
<1>1. /\ ReverseSpan(s) \in SpansWithin(W, H)
      /\ ReverseSpan(s).start = s.end /\ ReverseSpan(s).end = s.start
      /\ ReverseSpan(s).arc = s.arc /\ ReverseSpan(s).center = s.center
      /\ s.arc => ReverseSpan(s).ccw = ~s.ccw
    BY DEF ReverseSpan, SpansWithin
<1>2. ArcIsValid(s) => ArcIsValid(ReverseSpan(s))
    BY <1>1, Zenon DEF ArcIsValid
<1> QED BY <1>1, <1>2

\* canonicalize_winding's reversal: the same loop, turning the other way.
LEMMA ConvexReversed ==
    ASSUME NEW W \in Nat, NEW H \in Nat, NEW c, NEW ccw \in BOOLEAN, Convex(c, W, H, ccw)
    PROVE  /\ Convex(ReverseContour(c), W, H, ~ccw)
           /\ Len(ReverseContour(c)) = Len(c)
           /\ \A i \in 1 .. Len(c) : ReverseContour(c)[i] = ReverseSpan(c[Len(c) + 1 - i])
<1> DEFINE n == Len(c)
           r == ReverseContour(c)
           m(i) == n + 1 - i
<1>1. c \in Seq(SpansWithin(W, H)) /\ n \in 3 .. 8
    BY DEF Convex
<1>2. n \in Nat /\ n >= 1 /\ DOMAIN c = 1 .. n
    <2>1. DOMAIN c = 1 .. n
        BY <1>1
    <2> HIDE DEF n
    <2> QED BY <1>1, <2>1
<1>3. \A i \in 1 .. n : c[i] \in SpansWithin(W, H)
    BY <1>1, SpanOfLoop
<1>4. r = [i \in 1 .. n |-> ReverseSpan(c[m(i)])]
    BY <1>2 DEF ReverseContour
<1>5. \A i \in 1 .. n : r[i] = ReverseSpan(c[m(i)])
    BY <1>4
<1>6. \A i \in 1 .. n : m(i) \in 1 .. n
    <2> HIDE DEF n
    <2> QED BY <1>2
<1> DEFINE P == [x : Int, y : Int]
<1>7. Within(W, H) \subseteq P /\ Origin \in P
    BY DEF Within, Origin, Pt
<1>8. \A i \in 1 .. n : c[i].start \in Within(W, H) /\ c[i].end \in Within(W, H)
    BY <1>3 DEF SpansWithin
<1>9. ASSUME NEW i \in 1 .. n
      PROVE  /\ r[i] \in SpansWithin(W, H)
             /\ r[i].start = c[m(i)].end /\ r[i].end = c[m(i)].start
             /\ r[i].arc => ArcIsValid(r[i])
    <2>1. c[m(i)] \in SpansWithin(W, H) /\ (c[m(i)].arc => ArcIsValid(c[m(i)]))
        BY <1>3, <1>6 DEF Convex
    <2> DEFINE s == c[m(i)]
    <2>2. r[i] = ReverseSpan(s) /\ s \in SpansWithin(W, H) /\ (s.arc => ArcIsValid(s))
        BY <1>5, <2>1
    <2> HIDE DEF s, r
    <2> QED BY <2>2, ReversedSpan DEF s
<1>10. r \in Seq(SpansWithin(W, H)) /\ Len(r) = n
    <2>1. r \in [1 .. n -> SpansWithin(W, H)]
        BY <1>4, <1>9, Zenon
    <2> HIDE DEF r, n
    <2> QED BY <1>2, <2>1
<1>11. \A i \in 1 .. n : c[i].end = c[(i % n) + 1].start /\ (i % n) + 1 \in 1 .. n
    BY <1>2, NextOf DEF Convex, After
<1>12. ASSUME NEW i \in 1 .. n PROVE r[i].end = After(r, i).start
    <2> DEFINE k == (i % n) + 1
    <2>1. k \in 1 .. n /\ (i < n => k = i + 1) /\ (i = n => k = 1)
        BY <1>2, NextOf
    <2>2. After(r, i) = r[k]
        BY <1>10 DEF After
    <2>3. After(r, i).start = c[m(k)].end /\ r[i].end = c[m(i)].start
        BY <1>9, <2>1, <2>2
    <2>4. c[m(k)].end = c[m(i)].start
        <3>1. m(k) \in 1 .. n /\ c[m(k)].end = c[(m(k) % n) + 1].start
            BY <1>6, <1>11, <2>1
        <3>2. (m(k) % n) + 1 = m(i)
            <4>1. /\ m(k) < n => (m(k) % n) + 1 = m(k) + 1
                  /\ m(k) = n => (m(k) % n) + 1 = 1
                BY <1>2, <3>1, NextOf
            <4> DEFINE q == (m(k) % n) + 1
            <4>2. (m(k) < n => q = m(k) + 1) /\ (m(k) = n => q = 1)
                BY <4>1
            <4> HIDE DEF q, k, n
            <4> QED BY <1>2, <2>1, <4>2 DEF q
        <3> QED BY <3>1, <3>2
    <2> QED BY <2>3, <2>4
<1>13. ASSUME NEW i \in 1 .. n, NEW p \in P,
              Faces(Turn(c[m(i)].start, c[m(i)].end, p), ccw)
       PROVE  Faces(Turn(r[i].start, r[i].end, p), ~ccw)
    <2> DEFINE a == c[m(i)].start
               b == c[m(i)].end
    <2>1. a \in P /\ b \in P
        BY <1>6, <1>7, <1>8
    <2>2. r[i].start = b /\ r[i].end = a /\ Faces(Turn(a, b, p), ccw)
        BY <1>9, <1>13
    <2> HIDE DEF a, b
    <2>3. Turn(a, b, p) \in Int /\ Turn(b, a, p) = -Turn(a, b, p)
        BY <2>1, TurnReversed
    <2>4. Faces(Turn(b, a, p), ~ccw)
        BY <2>2, <2>3 DEF Faces
    <2> QED BY <2>2, <2>4, Zenon
<1>14. ASSUME NEW i \in 1 .. n
       PROVE  /\ Faces(Turn(r[i].start, r[i].end, Origin), ~ccw)
              /\ \A j \in 1 .. n : Faces(Turn(r[i].start, r[i].end, r[j].start), ~ccw)
    <2>1. Faces(Turn(c[m(i)].start, c[m(i)].end, Origin), ccw)
        BY <1>6 DEF Convex
    <2>2. ASSUME NEW j \in 1 .. n PROVE Faces(Turn(r[i].start, r[i].end, r[j].start), ~ccw)
        <3> DEFINE k == (m(j) % n) + 1
        <3>1. k \in 1 .. n /\ r[j].start = c[k].start
            BY <1>6, <1>9, <1>11
        <3>2. Faces(Turn(c[m(i)].start, c[m(i)].end, c[k].start), ccw)
            BY <1>6, <3>1 DEF Convex
        <3>3. c[k].start \in P
            BY <1>7, <1>8, <3>1
        <3> HIDE DEF r, k, m, P
        <3>4. Faces(Turn(r[i].start, r[i].end, c[k].start), ~ccw)
            BY <1>13, <3>2, <3>3
        <3> QED BY <3>1, <3>4, Zenon
    <2> QED BY <1>7, <1>13, <2>1, <2>2
<1>15. \E i \in 1 .. n : Turn(r[i].start, r[i].end, Origin) # 0
    <2>1. PICK k \in 1 .. n : Turn(c[k].start, c[k].end, Origin) # 0
        BY DEF Convex
    <2>2. m(k) \in 1 .. n /\ m(m(k)) = k
        <3> HIDE DEF n
        <3> QED BY <1>2
    <2>3. r[m(k)].start = c[k].end /\ r[m(k)].end = c[k].start
        BY <1>9, <2>2
    <2> DEFINE a == c[k].start
               b == c[k].end
    <2>4. a \in P /\ b \in P /\ Turn(a, b, Origin) # 0
        BY <1>7, <1>8, <2>1
    <2> HIDE DEF a, b
    <2>5. Turn(a, b, Origin) \in Int /\ Turn(b, a, Origin) = -Turn(a, b, Origin)
        BY <1>7, <2>4, TurnReversed
    <2>6. Turn(b, a, Origin) # 0
        BY <2>4, <2>5
    <2> QED BY <2>2, <2>3, <2>6 DEF a, b
<1>16. Convex(r, W, H, ~ccw)
    <2>1. Len(r) \in 3 .. 8
        BY <1>1, <1>10
    <2> HIDE DEF r, n, m
    <2> QED BY <1>9, <1>10, <1>12, <1>14, <1>15, <2>1, Zenon DEF Convex
<1> QED BY <1>5, <1>10, <1>16

Bulges(c, ccw) == \A i \in 1 .. Len(c) : c[i].arc => c[i].ccw = ccw

HasCorners(o, c) ==
    \A p : p \in Corners(o) <=> \E i \in 1 .. Len(c) : p = c[i].start \/ p = c[i].end

\* Of a convex loop canonicalize_winding makes a valid polygon with the same corners,
\* and turns its arcs with it.
LEMMA CanonicalIsValid ==
    ASSUME NEW W \in Nat, NEW H \in Nat, W >= 1, H >= 1, 16 * (W * H) <= MaxInt,
           NEW c, NEW ccw \in BOOLEAN, Convex(c, W, H, ccw)
    PROVE  /\ PolygonValidity([outline |-> CanonicalizeWinding(c), holes |-> <<>>]) = "Valid"
           /\ HasCorners(CanonicalizeWinding(c), c)
           /\ Bulges(c, ccw) => \A s \in ToSet(CanonicalizeWinding(c)) : s.arc => s.ccw
<1> DEFINE o == CanonicalizeWinding(c)
           n == Len(c)
           r == ReverseContour(c)
<1>1. Orientation(c) = IF ccw THEN "CounterClockwise" ELSE "Clockwise"
    BY ConvexOrientation
<1>2. o = IF ccw THEN c ELSE r
    BY <1>1 DEF CanonicalizeWinding
<1>3. /\ Convex(r, W, H, ~ccw) /\ Len(r) = n
      /\ \A i \in 1 .. n : r[i] = ReverseSpan(c[n + 1 - i])
    BY ConvexReversed
<1>4. n \in Nat /\ \A i \in 1 .. n : c[i] \in SpansWithin(W, H)
    <2>1. c \in Seq(SpansWithin(W, H))
        BY DEF Convex
    <2> QED BY <2>1, SpanOfLoop
<1> HIDE DEF r, o
<1>5. Convex(o, W, H, TRUE) /\ Len(o) = n
    <2>1. CASE ccw
        <3>1. ccw = TRUE /\ o = c
            BY <1>2, <2>1
        <3> QED BY <3>1, Zenon
    <2>2. CASE ~ccw
        <3>1. (~ccw) = TRUE /\ o = r
            BY <1>2, <2>2
        <3> QED BY <1>3, <3>1, Zenon
    <2> QED BY <2>1, <2>2
<1>6. DOMAIN o = 1 .. n
    <2>1. o \in Seq(SpansWithin(W, H))
        BY <1>5, Zenon DEF Convex
    <2> QED BY <1>5, <2>1
<1>7. /\ ccw => \A i \in 1 .. n : o[i] = c[i]
      /\ ~ccw => \A i \in 1 .. n : o[i] = ReverseSpan(c[n + 1 - i])
    BY <1>2, <1>3
<1>8. \A i \in 1 .. n : n + 1 - i \in 1 .. n /\ n + 1 - (n + 1 - i) = i
    <2> HIDE DEF n
    <2> QED BY <1>4
<1>9. \A i \in 1 .. n : /\ ReverseSpan(c[i]).start = c[i].end
                        /\ ReverseSpan(c[i]).end = c[i].start
                        /\ ReverseSpan(c[i]).arc = c[i].arc
                        /\ c[i].arc => ReverseSpan(c[i]).ccw = ~c[i].ccw
    BY <1>4, ReversedSpan
<1> HIDE DEF n
<1>10. PolygonValidity([outline |-> o, holes |-> <<>>]) = "Valid"
    <2>1. 8 * (W * H) <= MaxInt
        <3>1. W * H \in Nat
            OBVIOUS
        <3> QED BY <3>1, MaxIntAssumption
    <2>2. ContourValidity(o) = "Valid"
        <3>1. TRUE \in BOOLEAN
            OBVIOUS
        <3> QED BY <1>5, <2>1, <3>1, ConvexIsValid
    <2>3. Orientation(o) = "CounterClockwise"
        <3>1. Orientation(o) = IF TRUE THEN "CounterClockwise" ELSE "Clockwise"
            BY <1>5, ConvexOrientation
        <3> QED BY <3>1
    <2> DEFINE polygon == [outline |-> o, holes |-> <<>>]
               faults == [i \in DOMAIN polygon.holes |-> HoleFault(polygon.outline, polygon.holes[i])]
    <2>4. polygon.outline = o /\ DOMAIN faults = {}
        OBVIOUS
    <2>5. FirstFault(faults) = "Valid"
        <3> HIDE DEF faults
        <3> QED BY <2>4 DEF FirstFault
    <2> QED BY <2>2, <2>3, <2>4, <2>5, Zenon DEF PolygonValidity
<1>11. ASSUME NEW p
       PROVE  p \in Corners(o) <=> \E i \in 1 .. n : p = c[i].start \/ p = c[i].end
    <2>1. p \in Corners(o) <=> \E i \in 1 .. n : p = o[i].start \/ p = o[i].end
        BY <1>6 DEF Corners, ToSet
    <2>2. CASE ccw
        BY <1>7, <2>1, <2>2
    <2>3. CASE ~ccw
        <3>1. \A i \in 1 .. n : o[i].start = c[n + 1 - i].end /\ o[i].end = c[n + 1 - i].start
            BY <1>7, <1>8, <1>9, <2>3
        <3>2. \A i \in 1 .. n : o[n + 1 - i].start = c[i].end /\ o[n + 1 - i].end = c[i].start
            <4> SUFFICES ASSUME NEW i \in 1 .. n
                         PROVE  o[n + 1 - i].start = c[i].end /\ o[n + 1 - i].end = c[i].start
                OBVIOUS
            <4> DEFINE j == n + 1 - i
            <4>1. j \in 1 .. n /\ n + 1 - j = i
                BY <1>8
            <4> HIDE DEF j
            <4>2. o[j].start = c[n + 1 - j].end /\ o[j].end = c[n + 1 - j].start
                BY <3>1, <4>1
            <4> QED BY <4>1, <4>2 DEF j
        <3> QED BY <1>8, <2>1, <3>1, <3>2
    <2> QED BY <2>2, <2>3
<1>12. ASSUME Bulges(c, ccw) PROVE \A s \in ToSet(o) : s.arc => s.ccw
    <2> SUFFICES ASSUME NEW i \in 1 .. n, o[i].arc PROVE o[i].ccw
        BY <1>6 DEF ToSet
    <2>1. CASE ccw
        BY <1>7, <1>12, <2>1 DEF Bulges, n
    <2>2. CASE ~ccw
        <3> DEFINE j == n + 1 - i
        <3>1. j \in 1 .. n /\ o[i] = ReverseSpan(c[j])
            BY <1>7, <1>8, <2>2
        <3> HIDE DEF j
        <3>2. c[j].arc /\ o[i].ccw = ~c[j].ccw
            BY <1>9, <3>1
        <3>3. c[j].ccw = ccw
            BY <1>12, <3>1, <3>2, Zenon DEF Bulges, n
        <3> QED BY <2>2, <3>2, <3>3, Zenon
    <2> QED BY <2>1, <2>2
<1> QED BY <1>10, <1>11, <1>12, Zenon DEF o, n, HasCorners

\* The width of a set that has -v and v and lies between them.
LEMMA SpreadIs ==
    ASSUME NEW S, NEW v \in Nat, v \in S, -v \in S, \A x \in S : x \in -v .. v
    PROVE  Spread(S) = 2 * v
<1>1. Max(S) = v
    <2>1. \A x \in S : v >= x
        OBVIOUS
    <2>2. \A m \in S : (\A x \in S : m >= x) => m = v
        OBVIOUS
    <2> QED BY <2>1, <2>2, Zenon DEF Max
<1>2. Min(S) = -v
    <2>1. \A x \in S : -v <= x
        OBVIOUS
    <2>2. \A m \in S : (\A x \in S : m <= x) => m = -v
        OBVIOUS
    <2> QED BY <2>1, <2>2 DEF Min
<1> QED BY <1>1, <1>2 DEF Spread

-----------------------------------------------------------------------------
\* The pads of four spans.

\* A triangle turns the same way from each of its corners.
LEMMA TurnCycle ==
    ASSUME NEW a \in [x : Int, y : Int], NEW b \in [x : Int, y : Int], NEW p \in [x : Int, y : Int]
    PROVE  /\ Turn(a, b, a) = 0 /\ Turn(a, b, b) = 0
           /\ Turn(b, p, a) = Turn(a, b, p) /\ Turn(p, a, b) = Turn(a, b, p)
<1> DEFINE ax == a.x
           ay == a.y
           bx == b.x
           by == b.y
           px == p.x
           py == p.y
<1>1. ax \in Int /\ ay \in Int /\ bx \in Int /\ by \in Int /\ px \in Int /\ py \in Int
    OBVIOUS
<1>2. /\ Turn(a, b, p) = (bx - ax) * (py - ay) - (by - ay) * (px - ax)
      /\ Turn(b, p, a) = (px - bx) * (ay - by) - (py - by) * (ax - bx)
      /\ Turn(p, a, b) = (ax - px) * (by - py) - (ay - py) * (bx - px)
      /\ Turn(a, b, a) = (bx - ax) * (ay - ay) - (by - ay) * (ax - ax)
      /\ Turn(a, b, b) = (bx - ax) * (by - ay) - (by - ay) * (bx - ax)
    BY DEF Turn
<1> HIDE DEF ax, ay, bx, by, px, py
<1>3. (px - bx) * (ay - by) - (py - by) * (ax - bx) = (bx - ax) * (py - ay) - (by - ay) * (px - ax)
    BY <1>1
<1>4. (ax - px) * (by - py) - (ay - py) * (bx - px) = (bx - ax) * (py - ay) - (by - ay) * (px - ax)
    BY <1>1
<1>5. /\ (bx - ax) * (ay - ay) - (by - ay) * (ax - ax) = 0
      /\ (bx - ax) * (by - ay) - (by - ay) * (bx - ax) = 0
    BY <1>1
<1> QED BY <1>2, <1>3, <1>4, <1>5, Zenon

\* Four spans are convex when their four triangles turn one way and go around the origin.
LEMMA QuadIsConvex ==
    ASSUME NEW W \in Nat, NEW H \in Nat, NEW ccw \in BOOLEAN,
           NEW c \in Seq(SpansWithin(W, H)), Len(c) = 4,
           NEW p1, NEW p2, NEW p3, NEW p4,
           c[1].start = p1, c[2].start = p2, c[3].start = p3, c[4].start = p4,
           c[1].end = p2, c[2].end = p3, c[3].end = p4, c[4].end = p1,
           \A i \in 1 .. 4 : c[i].arc => ArcIsValid(c[i]),
           Faces(Turn(p1, p2, p3), ccw), Faces(Turn(p2, p3, p4), ccw),
           Faces(Turn(p3, p4, p1), ccw), Faces(Turn(p4, p1, p2), ccw),
           Faces(Turn(p1, p2, Origin), ccw), Faces(Turn(p2, p3, Origin), ccw),
           Faces(Turn(p3, p4, Origin), ccw), Faces(Turn(p4, p1, Origin), ccw),
           Turn(p2, p3, Origin) # 0
    PROVE  Convex(c, W, H, ccw)
<1> DEFINE P == [x : Int, y : Int]
<1>1. p1 \in P /\ p2 \in P /\ p3 \in P /\ p4 \in P
    <2>1. \A i \in 1 .. Len(c) : c[i] \in SpansWithin(W, H)
        BY SpanOfLoop
    <2>2. \A i \in 1 .. 4 : c[i].start \in Within(W, H)
        BY <2>1 DEF SpansWithin
    <2>3. Within(W, H) \subseteq P
        BY DEF Within
    <2>4. 1 \in 1 .. 4 /\ 2 \in 1 .. 4 /\ 3 \in 1 .. 4 /\ 4 \in 1 .. 4
        OBVIOUS
    <2> QED BY <2>2, <2>3, <2>4
<1> HIDE DEF P
<1>2. \A v : v = 0 => Faces(v, ccw)
    BY DEF Faces
<1>3. \A a, b, p \in P : /\ Faces(Turn(a, b, a), ccw) /\ Faces(Turn(a, b, b), ccw)
                         /\ Faces(Turn(a, b, p), ccw) => Faces(Turn(b, p, a), ccw) /\ Faces(Turn(p, a, b), ccw)
    <2> SUFFICES ASSUME NEW a \in P, NEW b \in P, NEW p \in P
                 PROVE  /\ Faces(Turn(a, b, a), ccw) /\ Faces(Turn(a, b, b), ccw)
                        /\ Faces(Turn(a, b, p), ccw) => Faces(Turn(b, p, a), ccw) /\ Faces(Turn(p, a, b), ccw)
        OBVIOUS
    <2>1. /\ Turn(a, b, a) = 0 /\ Turn(a, b, b) = 0
          /\ Turn(b, p, a) = Turn(a, b, p) /\ Turn(p, a, b) = Turn(a, b, p)
        BY TurnCycle DEF P
    <2> QED BY <1>2, <2>1, Zenon
<1>4. /\ Faces(Turn(p1, p2, p1), ccw) /\ Faces(Turn(p1, p2, p2), ccw) /\ Faces(Turn(p1, p2, p4), ccw)
      /\ Faces(Turn(p2, p3, p1), ccw) /\ Faces(Turn(p2, p3, p2), ccw) /\ Faces(Turn(p2, p3, p3), ccw)
      /\ Faces(Turn(p3, p4, p2), ccw) /\ Faces(Turn(p3, p4, p3), ccw) /\ Faces(Turn(p3, p4, p4), ccw)
      /\ Faces(Turn(p4, p1, p3), ccw) /\ Faces(Turn(p4, p1, p4), ccw) /\ Faces(Turn(p4, p1, p1), ccw)
    BY <1>1, <1>3
<1>5. /\ After(c, 1) = c[2] /\ After(c, 2) = c[3] /\ After(c, 3) = c[4] /\ After(c, 4) = c[1]
    BY DEF After
<1>6. 1 .. Len(c) = {1, 2, 3, 4} /\ Len(c) \in 3 .. 8
    OBVIOUS
<1>7. ASSUME NEW i \in {1, 2, 3, 4}
      PROVE  /\ c[i].end = After(c, i).start
             /\ c[i].arc => ArcIsValid(c[i])
             /\ Faces(Turn(c[i].start, c[i].end, Origin), ccw)
             /\ \A j \in {1, 2, 3, 4} : Faces(Turn(c[i].start, c[i].end, c[j].start), ccw)
    <2>1. c[i].arc => ArcIsValid(c[i])
        BY <1>6
    <2>2. CASE i = 1
        BY <1>4, <1>5, <2>1, <2>2, Zenon
    <2>3. CASE i = 2
        BY <1>4, <1>5, <2>1, <2>3, Zenon
    <2>4. CASE i = 3
        BY <1>4, <1>5, <2>1, <2>4, Zenon
    <2>5. CASE i = 4
        BY <1>4, <1>5, <2>1, <2>5, Zenon
    <2> QED BY <2>2, <2>3, <2>4, <2>5
<1>8. \E i \in {1, 2, 3, 4} : Turn(c[i].start, c[i].end, Origin) # 0
    <2>1. Turn(c[2].start, c[2].end, Origin) # 0
        OBVIOUS
    <2> QED BY <2>1
<1> QED BY <1>6, <1>7, <1>8, Zenon DEF Convex

\* Two upright sides, u to the right and to the left, reaching v and z up and down.
LEMMA UprightSides ==
    ASSUME NEW u \in Int, NEW v \in Int, NEW z \in Int, u * v >= 0, u * z >= 0, u * v + u * z > 0
    PROVE  LET p1 == Pt(u, -v)
               p2 == Pt(u, v)
               p3 == Pt(-u, z)
               p4 == Pt(-u, -z)
           IN  /\ Faces(Turn(p1, p2, p3), TRUE) /\ Faces(Turn(p2, p3, p4), TRUE)
               /\ Faces(Turn(p3, p4, p1), TRUE) /\ Faces(Turn(p4, p1, p2), TRUE)
               /\ Faces(Turn(p1, p2, Origin), TRUE) /\ Faces(Turn(p2, p3, Origin), TRUE)
               /\ Faces(Turn(p3, p4, Origin), TRUE) /\ Faces(Turn(p4, p1, Origin), TRUE)
               /\ Turn(p2, p3, Origin) # 0
<1> DEFINE p1 == Pt(u, -v)
           p2 == Pt(u, v)
           p3 == Pt(-u, z)
           p4 == Pt(-u, -z)
           a == u * v
           b == u * z
<1>1. /\ Turn(p1, p2, p3) = (u - u) * (z - (-v)) - (v - (-v)) * ((-u) - u)
      /\ Turn(p2, p3, p4) = ((-u) - u) * ((-z) - v) - (z - v) * ((-u) - u)
      /\ Turn(p3, p4, p1) = ((-u) - (-u)) * ((-v) - z) - ((-z) - z) * (u - (-u))
      /\ Turn(p4, p1, p2) = (u - (-u)) * (v - (-z)) - ((-v) - (-z)) * (u - (-u))
    BY DEF Turn, Pt
<1>2. /\ Turn(p1, p2, Origin) = (u - u) * (0 - (-v)) - (v - (-v)) * (0 - u)
      /\ Turn(p2, p3, Origin) = ((-u) - u) * (0 - v) - (z - v) * (0 - u)
      /\ Turn(p3, p4, Origin) = ((-u) - (-u)) * (0 - z) - ((-z) - z) * (0 - (-u))
      /\ Turn(p4, p1, Origin) = (u - (-u)) * (0 - (-z)) - ((-v) - (-z)) * (0 - (-u))
    BY DEF Turn, Pt, Origin
<1>3. /\ (u - u) * (z - (-v)) - (v - (-v)) * ((-u) - u) = 4 * a
      /\ ((-u) - u) * ((-z) - v) - (z - v) * ((-u) - u) = 4 * b
      /\ ((-u) - (-u)) * ((-v) - z) - ((-z) - z) * (u - (-u)) = 4 * b
      /\ (u - (-u)) * (v - (-z)) - ((-v) - (-z)) * (u - (-u)) = 4 * a
    OBVIOUS
<1>4. /\ (u - u) * (0 - (-v)) - (v - (-v)) * (0 - u) = 2 * a
      /\ ((-u) - u) * (0 - v) - (z - v) * (0 - u) = a + b
      /\ ((-u) - (-u)) * (0 - z) - ((-z) - z) * (0 - (-u)) = 2 * b
      /\ (u - (-u)) * (0 - (-z)) - ((-v) - (-z)) * (0 - (-u)) = a + b
    OBVIOUS
<1>5. /\ Turn(p1, p2, p3) = 4 * a /\ Turn(p2, p3, p4) = 4 * b
      /\ Turn(p3, p4, p1) = 4 * b /\ Turn(p4, p1, p2) = 4 * a
      /\ Turn(p1, p2, Origin) = 2 * a /\ Turn(p2, p3, Origin) = a + b
      /\ Turn(p3, p4, Origin) = 2 * b /\ Turn(p4, p1, Origin) = a + b
    BY <1>1, <1>2, <1>3, <1>4, Zenon
<1>6. a \in Int /\ b \in Int /\ a >= 0 /\ b >= 0 /\ a + b > 0
    OBVIOUS
<1> HIDE DEF p1, p2, p3, p4, a, b
<1> QED BY <1>5, <1>6 DEF Faces, p1, p2, p3, p4

\* Two level sides, v wide below and z above, u from the middle.
LEMMA LevelSides ==
    ASSUME NEW u \in Int, NEW v \in Int, NEW z \in Int, u * v >= 0, u * z >= 0, u * v + u * z > 0
    PROVE  LET p1 == Pt(v, -u)
               p2 == Pt(-v, -u)
               p3 == Pt(-z, u)
               p4 == Pt(z, u)
           IN  /\ Faces(Turn(p1, p2, p3), FALSE) /\ Faces(Turn(p2, p3, p4), FALSE)
               /\ Faces(Turn(p3, p4, p1), FALSE) /\ Faces(Turn(p4, p1, p2), FALSE)
               /\ Faces(Turn(p1, p2, Origin), FALSE) /\ Faces(Turn(p2, p3, Origin), FALSE)
               /\ Faces(Turn(p3, p4, Origin), FALSE) /\ Faces(Turn(p4, p1, Origin), FALSE)
               /\ Turn(p2, p3, Origin) # 0
<1> DEFINE p1 == Pt(v, -u)
           p2 == Pt(-v, -u)
           p3 == Pt(-z, u)
           p4 == Pt(z, u)
           a == u * v
           b == u * z
<1>1. /\ Turn(p1, p2, p3) = ((-v) - v) * (u - (-u)) - ((-u) - (-u)) * ((-z) - v)
      /\ Turn(p2, p3, p4) = ((-z) - (-v)) * (u - (-u)) - (u - (-u)) * (z - (-v))
      /\ Turn(p3, p4, p1) = (z - (-z)) * ((-u) - u) - (u - u) * (v - (-z))
      /\ Turn(p4, p1, p2) = (v - z) * ((-u) - u) - ((-u) - u) * ((-v) - z)
    BY DEF Turn, Pt
<1>2. /\ Turn(p1, p2, Origin) = ((-v) - v) * (0 - (-u)) - ((-u) - (-u)) * (0 - v)
      /\ Turn(p2, p3, Origin) = ((-z) - (-v)) * (0 - (-u)) - (u - (-u)) * (0 - (-v))
      /\ Turn(p3, p4, Origin) = (z - (-z)) * (0 - u) - (u - u) * (0 - (-z))
      /\ Turn(p4, p1, Origin) = (v - z) * (0 - u) - ((-u) - u) * (0 - z)
    BY DEF Turn, Pt, Origin
<1>3. /\ ((-v) - v) * (u - (-u)) - ((-u) - (-u)) * ((-z) - v) = -(4 * a)
      /\ ((-z) - (-v)) * (u - (-u)) - (u - (-u)) * (z - (-v)) = -(4 * b)
      /\ (z - (-z)) * ((-u) - u) - (u - u) * (v - (-z)) = -(4 * b)
      /\ (v - z) * ((-u) - u) - ((-u) - u) * ((-v) - z) = -(4 * a)
    OBVIOUS
<1>4. /\ ((-v) - v) * (0 - (-u)) - ((-u) - (-u)) * (0 - v) = -(2 * a)
      /\ ((-z) - (-v)) * (0 - (-u)) - (u - (-u)) * (0 - (-v)) = -(a + b)
      /\ (z - (-z)) * (0 - u) - (u - u) * (0 - (-z)) = -(2 * b)
      /\ (v - z) * (0 - u) - ((-u) - u) * (0 - z) = -(a + b)
    OBVIOUS
<1>5. /\ Turn(p1, p2, p3) = -(4 * a) /\ Turn(p2, p3, p4) = -(4 * b)
      /\ Turn(p3, p4, p1) = -(4 * b) /\ Turn(p4, p1, p2) = -(4 * a)
      /\ Turn(p1, p2, Origin) = -(2 * a) /\ Turn(p2, p3, Origin) = -(a + b)
      /\ Turn(p3, p4, Origin) = -(2 * b) /\ Turn(p4, p1, Origin) = -(a + b)
    BY <1>1, <1>2, <1>3, <1>4, Zenon
<1>6. a \in Int /\ b \in Int /\ a >= 0 /\ b >= 0 /\ a + b > 0
    OBVIOUS
<1> HIDE DEF p1, p2, p3, p4, a, b
<1> QED BY <1>5, <1>6 DEF Faces, p1, p2, p3, p4

\* The four cardinal points.
LEMMA CardinalSides ==
    ASSUME NEW r \in Nat, r >= 1
    PROVE  LET p1 == Pt(r, 0)
               p2 == Pt(0, r)
               p3 == Pt(-r, 0)
               p4 == Pt(0, -r)
           IN  /\ Faces(Turn(p1, p2, p3), TRUE) /\ Faces(Turn(p2, p3, p4), TRUE)
               /\ Faces(Turn(p3, p4, p1), TRUE) /\ Faces(Turn(p4, p1, p2), TRUE)
               /\ Faces(Turn(p1, p2, Origin), TRUE) /\ Faces(Turn(p2, p3, Origin), TRUE)
               /\ Faces(Turn(p3, p4, Origin), TRUE) /\ Faces(Turn(p4, p1, Origin), TRUE)
               /\ Turn(p2, p3, Origin) # 0
<1> DEFINE p1 == Pt(r, 0)
           p2 == Pt(0, r)
           p3 == Pt(-r, 0)
           p4 == Pt(0, -r)
           a == r * r
<1>1. /\ Turn(p1, p2, p3) = (0 - r) * (0 - 0) - (r - 0) * ((-r) - r)
      /\ Turn(p2, p3, p4) = ((-r) - 0) * ((-r) - r) - (0 - r) * (0 - 0)
      /\ Turn(p3, p4, p1) = (0 - (-r)) * (0 - 0) - ((-r) - 0) * (r - (-r))
      /\ Turn(p4, p1, p2) = (r - 0) * (r - (-r)) - (0 - (-r)) * (0 - 0)
    BY DEF Turn, Pt
<1>2. /\ Turn(p1, p2, Origin) = (0 - r) * (0 - 0) - (r - 0) * (0 - r)
      /\ Turn(p2, p3, Origin) = ((-r) - 0) * (0 - r) - (0 - r) * (0 - 0)
      /\ Turn(p3, p4, Origin) = (0 - (-r)) * (0 - 0) - ((-r) - 0) * (0 - (-r))
      /\ Turn(p4, p1, Origin) = (r - 0) * (0 - (-r)) - (0 - (-r)) * (0 - 0)
    BY DEF Turn, Pt, Origin
<1>3. /\ (0 - r) * (0 - 0) - (r - 0) * ((-r) - r) = 2 * a
      /\ ((-r) - 0) * ((-r) - r) - (0 - r) * (0 - 0) = 2 * a
      /\ (0 - (-r)) * (0 - 0) - ((-r) - 0) * (r - (-r)) = 2 * a
      /\ (r - 0) * (r - (-r)) - (0 - (-r)) * (0 - 0) = 2 * a
    OBVIOUS
<1>4. /\ (0 - r) * (0 - 0) - (r - 0) * (0 - r) = a
      /\ ((-r) - 0) * (0 - r) - (0 - r) * (0 - 0) = a
      /\ (0 - (-r)) * (0 - 0) - ((-r) - 0) * (0 - (-r)) = a
      /\ (r - 0) * (0 - (-r)) - (0 - (-r)) * (0 - 0) = a
    OBVIOUS
<1>5. /\ Turn(p1, p2, p3) = 2 * a /\ Turn(p2, p3, p4) = 2 * a
      /\ Turn(p3, p4, p1) = 2 * a /\ Turn(p4, p1, p2) = 2 * a
      /\ Turn(p1, p2, Origin) = a /\ Turn(p2, p3, Origin) = a
      /\ Turn(p3, p4, Origin) = a /\ Turn(p4, p1, Origin) = a
    BY <1>1, <1>2, <1>3, <1>4, Zenon
<1>6. a \in Int /\ a > 0
    <2>1. a \in Nat /\ r <= a
        BY FactorBound
    <2> HIDE DEF a
    <2> QED BY <2>1
<1> HIDE DEF p1, p2, p3, p4, a
<1> QED BY <1>5, <1>6 DEF Faces, p1, p2, p3, p4

\* The ends of the arcs lie a radius away from their centre, straight or level.
Radial(r) == {Pt(r, 0), Pt(-r, 0), Pt(0, r), Pt(0, -r)}

LEMMA RadialDot ==
    ASSUME NEW r \in Nat, r >= 1, r * r <= MaxInt, NEW v \in Radial(r)
    PROVE  Dot(v, v) = {r * r}
<1> DEFINE a == r * r
<1>1. a \in Nat /\ r <= a /\ (-r) * (-r) = a
    BY FactorBound
<1>2. r \in Word /\ -r \in Word /\ a \in Word /\ 0 \in Word
    <2> HIDE DEF a
    <2>1. a <= MaxInt
        BY DEF a
    <2> QED BY <1>1, <2>1, MaxIntAssumption DEF Word, MinInt
<1>3. CheckedMul(r, r) = {a} /\ CheckedMul(-r, -r) = {a} /\ CheckedMul(0, 0) = {0}
    <2>1. CheckedMul(r, r) = {r * r} \cap Word /\ CheckedMul(-r, -r) = {(-r) * (-r)} \cap Word
        BY <1>2, CheckedMulExact
    <2>2. CheckedMul(0, 0) = {0}
        BY DEF CheckedMul
    <2> QED BY <1>1, <1>2, <2>1, <2>2
<1>4. CheckedAdd(a, 0) = {a} /\ CheckedAdd(0, a) = {a}
    <2> HIDE DEF a
    <2>1. CheckedAdd(a, 0) = {a + 0} \cap Word /\ CheckedAdd(0, a) = {0 + a} \cap Word
        BY <1>2, CheckedSumsExact
    <2> QED BY <1>1, <1>2, <2>1
<1>5. Dot(v, v) = UNION {CheckedAdd(s, t) : s \in CheckedMul(v.x, v.x), t \in CheckedMul(v.y, v.y)}
    BY DEF Dot
<1>6. \/ CheckedMul(v.x, v.x) = {a} /\ CheckedMul(v.y, v.y) = {0}
      \/ CheckedMul(v.x, v.x) = {0} /\ CheckedMul(v.y, v.y) = {a}
    <2>1. \/ v.x = r /\ v.y = 0
          \/ v.x = -r /\ v.y = 0
          \/ v.x = 0 /\ v.y = r
          \/ v.x = 0 /\ v.y = -r
        BY DEF Radial, Pt
    <2> QED BY <1>3, <2>1
<1> HIDE DEF a
<1>7. Dot(v, v) = {a}
    BY <1>4, <1>5, <1>6
<1> QED BY <1>7 DEF a

LEMMA RadialArc ==
    ASSUME NEW r \in Nat, r >= 1, r * r <= MaxInt, NEW s, NEW e, NEW center, NEW ccw,
           Minus(s, center) \in Radial(r), Minus(e, center) \in Radial(r)
    PROVE  ArcIsValid(Arc(s, e, center, ccw))
<1>1. Dot(Minus(s, center), Minus(s, center)) = {r * r} /\ Dot(Minus(e, center), Minus(e, center)) = {r * r}
    BY RadialDot
<1>2. /\ Arc(s, e, center, ccw).start = s /\ Arc(s, e, center, ccw).end = e
      /\ Arc(s, e, center, ccw).center = center
    BY DEF Arc
<1> QED BY <1>1, <1>2 DEF ArcIsValid

Fills(c, hw, hh) ==
    /\ \A i \in 1 .. Len(c) : c[i].start \in Within(hw, hh)
    /\ \E i \in 1 .. Len(c) : c[i].start.x = hw
    /\ \E i \in 1 .. Len(c) : c[i].start.x = -hw
    /\ \E i \in 1 .. Len(c) : c[i].start.y = hh
    /\ \E i \in 1 .. Len(c) : c[i].start.y = -hh

HasExtent(o, hw, hh) ==
    /\ Spread({p.x : p \in Corners(o)}) = 2 * hw
    /\ Spread({p.y : p \in Corners(o)}) = 2 * hh

LEMMA FilledSpread ==
    ASSUME NEW W \in Nat, NEW H \in Nat, W >= 1, H >= 1, 16 * (W * H) <= MaxInt,
           NEW c, NEW ccw \in BOOLEAN, Convex(c, W, H, ccw),
           NEW hw \in Nat, NEW hh \in Nat, Fills(c, hw, hh)
    PROVE  HasExtent(CanonicalizeWinding(c), hw, hh)
<1> DEFINE n == Len(c)
           K == Corners(CanonicalizeWinding(c))
<1>1. \A p : p \in K <=> \E i \in 1 .. n : p = c[i].start \/ p = c[i].end
    <2>1. HasCorners(CanonicalizeWinding(c), c)
        BY CanonicalIsValid
    <2> QED BY <2>1 DEF HasCorners
<1>2. \A i \in 1 .. n : c[i].end = c[(i % n) + 1].start /\ (i % n) + 1 \in 1 .. n
    <2>1. n \in Nat /\ n >= 1
        <3>1. n \in 3 .. 8
            BY DEF Convex
        <3> HIDE DEF n
        <3> QED BY <3>1
    <2> QED BY <2>1, NextOf DEF Convex, After
<1> HIDE DEF n, K
<1>3. \A p \in K : p \in Within(hw, hh)
    <2> SUFFICES ASSUME NEW p \in K PROVE p \in Within(hw, hh)
        OBVIOUS
    <2>1. PICK i \in 1 .. n : p = c[i].start \/ p = c[i].end
        BY <1>1
    <2>2. \A j \in 1 .. n : c[j].start \in Within(hw, hh)
        BY DEF Fills, n
    <2> QED BY <1>2, <2>1, <2>2
<1>4. \A p \in K : p.x \in -hw .. hw /\ p.y \in -hh .. hh
    BY <1>3 DEF Within
<1>5. hw \in {p.x : p \in K} /\ -hw \in {p.x : p \in K}
    BY <1>1 DEF Fills, n
<1>6. hh \in {p.y : p \in K} /\ -hh \in {p.y : p \in K}
    BY <1>1 DEF Fills, n
<1>7. (\A x \in {p.x : p \in K} : x \in -hw .. hw) /\ (\A y \in {p.y : p \in K} : y \in -hh .. hh)
    BY <1>4
<1>8. Spread({p.x : p \in K}) = 2 * hw /\ Spread({p.y : p \in K}) = 2 * hh
    BY <1>5, <1>6, <1>7, SpreadIs
<1> QED BY <1>8, Zenon DEF HasExtent, K

LEMMA HalfOf ==
    ASSUME NEW w \in Nat
    PROVE  TruncDiv(w, 2) \in Nat /\ 2 * TruncDiv(w, 2) <= w /\ w <= 2 * TruncDiv(w, 2) + 1
BY DEF TruncDiv

LEMMA SignedHalf ==
    ASSUME NEW w \in Nat, NEW d \in -w .. w
    PROVE  TruncDiv(d, 2) \in -TruncDiv(w, 2) .. TruncDiv(w, 2)
<1>1. CASE d >= 0
    <2>1. TruncDiv(d, 2) = d \div 2 /\ TruncDiv(w, 2) = w \div 2
        BY <1>1 DEF TruncDiv
    <2> QED BY <1>1, <2>1
<1>2. CASE d < 0
    <2>1. TruncDiv(d, 2) = -((-d) \div 2) /\ TruncDiv(w, 2) = w \div 2
        BY <1>2 DEF TruncDiv
    <2> QED BY <1>2, <2>1
<1> QED BY <1>1, <1>2

LEMMA FourSpans ==
    ASSUME NEW S, NEW s1 \in S, NEW s2 \in S, NEW s3 \in S, NEW s4 \in S,
           NEW c, c = <<s1, s2, s3, s4>>
    PROVE  /\ c \in Seq(S) /\ Len(c) = 4
           /\ c[1] = s1 /\ c[2] = s2 /\ c[3] = s3 /\ c[4] = s4
OBVIOUS

LEMMA SpanTypes ==
    ASSUME NEW W \in Nat, NEW H \in Nat, NEW s \in Within(W, H), NEW e \in Within(W, H),
           NEW center \in [x : Int, y : Int], NEW ccw \in BOOLEAN
    PROVE  /\ Segment(s, e) \in SpansWithin(W, H) /\ Arc(s, e, center, ccw) \in SpansWithin(W, H)
           /\ Segment(s, e).start = s /\ Segment(s, e).end = e /\ ~Segment(s, e).arc
           /\ Arc(s, e, center, ccw).start = s /\ Arc(s, e, center, ccw).end = e
           /\ Arc(s, e, center, ccw).arc /\ Arc(s, e, center, ccw).ccw = ccw
BY DEF Segment, Arc, SpansWithin, Origin, Pt

\* A loop of four segments with the given corners.
StraightQuad(c, W, H, p1, p2, p3, p4) ==
    /\ c \in Seq(SpansWithin(W, H)) /\ Len(c) = 4
    /\ c[1].start = p1 /\ c[2].start = p2 /\ c[3].start = p3 /\ c[4].start = p4
    /\ c[1].end = p2 /\ c[2].end = p3 /\ c[3].end = p4 /\ c[4].end = p1
    /\ \A i \in 1 .. 4 : ~c[i].arc

LEMMA ClosedQuad ==
    ASSUME NEW W \in Nat, NEW H \in Nat, NEW p1 \in Within(W, H), NEW p2 \in Within(W, H),
           NEW p3 \in Within(W, H), NEW p4 \in Within(W, H)
    PROVE  StraightQuad(ClosedLoop(<<p1, p2, p3, p4>>), W, H, p1, p2, p3, p4)
<1> DEFINE points == <<p1, p2, p3, p4>>
           c == ClosedLoop(points)
<1>1. DOMAIN points = 1 .. 4 /\ Len(points) = 4
    OBVIOUS
<1>2. points[1] = p1 /\ points[2] = p2 /\ points[3] = p3 /\ points[4] = p4
    OBVIOUS
<1>3. c = [i \in 1 .. 4 |-> Segment(points[i], points[(i % 4) + 1])]
    BY <1>1 DEF ClosedLoop
<1> HIDE DEF points, c
<1>4. c = <<Segment(p1, p2), Segment(p2, p3), Segment(p3, p4), Segment(p4, p1)>>
    BY <1>2, <1>3
<1>5. /\ Segment(p1, p2) \in SpansWithin(W, H) /\ Segment(p2, p3) \in SpansWithin(W, H)
      /\ Segment(p3, p4) \in SpansWithin(W, H) /\ Segment(p4, p1) \in SpansWithin(W, H)
    <2>1. Origin \in [x : Int, y : Int] /\ TRUE \in BOOLEAN
        BY DEF Origin, Pt
    <2> QED BY <2>1, SpanTypes
<1>6. /\ c \in Seq(SpansWithin(W, H)) /\ Len(c) = 4
      /\ c[1] = Segment(p1, p2) /\ c[2] = Segment(p2, p3)
      /\ c[3] = Segment(p3, p4) /\ c[4] = Segment(p4, p1)
    BY <1>4, <1>5, FourSpans
<1>7. \A s, e : Segment(s, e).start = s /\ Segment(s, e).end = e /\ ~Segment(s, e).arc
    BY DEF Segment
<1>8. \A i \in 1 .. 4 : ~c[i].arc
    BY <1>6, <1>7
<1>9. StraightQuad(c, W, H, p1, p2, p3, p4)
    BY <1>6, <1>7, <1>8 DEF StraightQuad
<1> QED BY <1>9, Zenon DEF points, c

LEMMA PtWithin ==
    ASSUME NEW W \in Nat, NEW H \in Nat, NEW x \in -W .. W, NEW y \in -H .. H
    PROVE  Pt(x, y) \in Within(W, H) /\ Pt(x, y).x = x /\ Pt(x, y).y = y
BY DEF Pt, Within

LEMMA UprightLoop ==
    ASSUME NEW W \in Nat, NEW H \in Nat, NEW u \in -W .. W, NEW v \in -H .. H, NEW z \in -H .. H,
           u * v >= 0, u * z >= 0, u * v + u * z > 0,
           NEW c, c = ClosedLoop(<<Pt(u, -v), Pt(u, v), Pt(-u, z), Pt(-u, -z)>>)
    PROVE  Convex(c, W, H, TRUE) /\ Bulges(c, TRUE)
<1> DEFINE p1 == Pt(u, -v)
           p2 == Pt(u, v)
           p3 == Pt(-u, z)
           p4 == Pt(-u, -z)
<1>1. /\ -u \in -W .. W /\ -v \in -H .. H /\ -z \in -H .. H
      /\ u \in Int /\ v \in Int /\ z \in Int /\ TRUE \in BOOLEAN
    OBVIOUS
<1>2. p1 \in Within(W, H) /\ p2 \in Within(W, H) /\ p3 \in Within(W, H) /\ p4 \in Within(W, H)
    BY <1>1, PtWithin
<1>3. /\ Faces(Turn(p1, p2, p3), TRUE) /\ Faces(Turn(p2, p3, p4), TRUE)
      /\ Faces(Turn(p3, p4, p1), TRUE) /\ Faces(Turn(p4, p1, p2), TRUE)
      /\ Faces(Turn(p1, p2, Origin), TRUE) /\ Faces(Turn(p2, p3, Origin), TRUE)
      /\ Faces(Turn(p3, p4, Origin), TRUE) /\ Faces(Turn(p4, p1, Origin), TRUE)
      /\ Turn(p2, p3, Origin) # 0
    BY <1>1, UprightSides, Zenon
<1> HIDE DEF p1, p2, p3, p4
<1>4. /\ c \in Seq(SpansWithin(W, H)) /\ Len(c) = 4
      /\ c[1].start = p1 /\ c[2].start = p2 /\ c[3].start = p3 /\ c[4].start = p4
      /\ c[1].end = p2 /\ c[2].end = p3 /\ c[3].end = p4 /\ c[4].end = p1
      /\ \A i \in 1 .. 4 : ~c[i].arc
    <2>1. c = ClosedLoop(<<p1, p2, p3, p4>>)
        BY DEF p1, p2, p3, p4
    <2>2. StraightQuad(ClosedLoop(<<p1, p2, p3, p4>>), W, H, p1, p2, p3, p4)
        BY <1>2, ClosedQuad
    <2>3. StraightQuad(c, W, H, p1, p2, p3, p4)
        BY <2>1, <2>2, Zenon
    <2> QED BY <2>3 DEF StraightQuad
<1>5. \A i \in 1 .. 4 : c[i].arc => ArcIsValid(c[i])
    BY <1>4
<1>6. Convex(c, W, H, TRUE)
    BY <1>1, <1>3, <1>4, <1>5, QuadIsConvex, Zenon
<1> QED BY <1>4, <1>6 DEF Bulges

LEMMA LevelLoop ==
    ASSUME NEW W \in Nat, NEW H \in Nat, NEW u \in -H .. H, NEW v \in -W .. W, NEW z \in -W .. W,
           u * v >= 0, u * z >= 0, u * v + u * z > 0,
           NEW c, c = ClosedLoop(<<Pt(v, -u), Pt(-v, -u), Pt(-z, u), Pt(z, u)>>)
    PROVE  Convex(c, W, H, FALSE) /\ Bulges(c, FALSE)
<1> DEFINE p1 == Pt(v, -u)
           p2 == Pt(-v, -u)
           p3 == Pt(-z, u)
           p4 == Pt(z, u)
<1>1. /\ -u \in -H .. H /\ -v \in -W .. W /\ -z \in -W .. W
      /\ u \in Int /\ v \in Int /\ z \in Int /\ FALSE \in BOOLEAN
    OBVIOUS
<1>2. p1 \in Within(W, H) /\ p2 \in Within(W, H) /\ p3 \in Within(W, H) /\ p4 \in Within(W, H)
    BY <1>1, PtWithin
<1>3. /\ Faces(Turn(p1, p2, p3), FALSE) /\ Faces(Turn(p2, p3, p4), FALSE)
      /\ Faces(Turn(p3, p4, p1), FALSE) /\ Faces(Turn(p4, p1, p2), FALSE)
      /\ Faces(Turn(p1, p2, Origin), FALSE) /\ Faces(Turn(p2, p3, Origin), FALSE)
      /\ Faces(Turn(p3, p4, Origin), FALSE) /\ Faces(Turn(p4, p1, Origin), FALSE)
      /\ Turn(p2, p3, Origin) # 0
    BY <1>1, LevelSides, Zenon
<1> HIDE DEF p1, p2, p3, p4
<1>4. /\ c \in Seq(SpansWithin(W, H)) /\ Len(c) = 4
      /\ c[1].start = p1 /\ c[2].start = p2 /\ c[3].start = p3 /\ c[4].start = p4
      /\ c[1].end = p2 /\ c[2].end = p3 /\ c[3].end = p4 /\ c[4].end = p1
      /\ \A i \in 1 .. 4 : ~c[i].arc
    <2>1. c = ClosedLoop(<<p1, p2, p3, p4>>)
        BY DEF p1, p2, p3, p4
    <2>2. StraightQuad(ClosedLoop(<<p1, p2, p3, p4>>), W, H, p1, p2, p3, p4)
        BY <1>2, ClosedQuad
    <2>3. StraightQuad(c, W, H, p1, p2, p3, p4)
        BY <2>1, <2>2, Zenon
    <2> QED BY <2>3 DEF StraightQuad
<1>5. \A i \in 1 .. 4 : c[i].arc => ArcIsValid(c[i])
    BY <1>4
<1>6. Convex(c, W, H, FALSE)
    BY <1>1, <1>3, <1>4, <1>5, QuadIsConvex, Zenon
<1> QED BY <1>4, <1>6 DEF Bulges

LEMMA PositiveProduct ==
    ASSUME NEW a \in Nat, NEW b \in Nat
    PROVE  a * b \in Nat /\ (a >= 1 /\ b >= 1 => a * b >= 1)
<1>1. a * b \in Nat
    OBVIOUS
<1>2. b >= 1 => a <= a * b
    BY FactorBound
<1> QED BY <1>1, <1>2

\* The half sizes the builders compute from a pad of two or more.
LEMMA Halves ==
    ASSUME NEW w \in Nat, w >= 2
    PROVE  /\ TruncDiv(w, 2) \in Nat /\ TruncDiv(w, 2) >= 1 /\ 2 * TruncDiv(w, 2) <= w
           /\ TruncDiv(w, 2) \in -w .. w /\ -TruncDiv(w, 2) \in -w .. w
<1>1. TruncDiv(w, 2) \in Nat /\ 2 * TruncDiv(w, 2) <= w /\ w <= 2 * TruncDiv(w, 2) + 1
    BY HalfOf
<1> QED BY <1>1

LEMMA RectIsConvex ==
    ASSUME NEW w \in Nat, NEW h \in Nat, w >= 2, h >= 2
    PROVE  /\ Convex(RectOutline(w, h), w, h, TRUE) /\ Bulges(RectOutline(w, h), TRUE)
           /\ Fills(RectOutline(w, h), TruncDiv(w, 2), TruncDiv(h, 2))
<1> DEFINE c == RectOutline(w, h)
           hw == TruncDiv(w, 2)
           hh == TruncDiv(h, 2)
           a == hw * hh
<1>1. c = ClosedLoop(<<Pt(hw, -hh), Pt(hw, hh), Pt(-hw, hh), Pt(-hw, -hh)>>)
    BY DEF RectOutline
<1>2. /\ hw \in Nat /\ hw >= 1 /\ hw \in -w .. w /\ -hw \in -w .. w
      /\ hh \in Nat /\ hh >= 1 /\ hh \in -h .. h /\ -hh \in -h .. h
    BY Halves
<1> HIDE DEF c, hw, hh
<1>3. a >= 0 /\ a + a > 0
    <2>1. a \in Nat /\ a >= 1
        BY <1>2, PositiveProduct
    <2> HIDE DEF a
    <2> QED BY <2>1
<1>4. Convex(c, w, h, TRUE) /\ Bulges(c, TRUE)
    BY <1>1, <1>2, <1>3, UprightLoop, Zenon
<1>5. Fills(c, hw, hh)
    <2>1. /\ hw \in -hw .. hw /\ -hw \in -hw .. hw /\ hh \in -hh .. hh /\ -hh \in -hh .. hh
        BY <1>2
    <2> DEFINE p1 == Pt(hw, -hh)
               p2 == Pt(hw, hh)
               p3 == Pt(-hw, hh)
               p4 == Pt(-hw, -hh)
    <2>2. /\ p1 \in Within(hw, hh) /\ p2 \in Within(hw, hh) /\ p3 \in Within(hw, hh) /\ p4 \in Within(hw, hh)
          /\ p1.x = hw /\ p3.x = -hw /\ p2.y = hh /\ p1.y = -hh
        BY <1>2, <2>1, PtWithin
    <2> HIDE DEF p1, p2, p3, p4
    <2>3. c = ClosedLoop(<<p1, p2, p3, p4>>)
        BY <1>1 DEF p1, p2, p3, p4
    <2>4. /\ Len(c) = 4
          /\ c[1].start = p1 /\ c[2].start = p2 /\ c[3].start = p3 /\ c[4].start = p4
        <3>1. StraightQuad(ClosedLoop(<<p1, p2, p3, p4>>), hw, hh, p1, p2, p3, p4)
            BY <1>2, <2>2, ClosedQuad
        <3>2. StraightQuad(c, hw, hh, p1, p2, p3, p4)
            BY <2>3, <3>1, Zenon
        <3> QED BY <3>2 DEF StraightQuad
    <2>5. 1 .. Len(c) = {1, 2, 3, 4}
        BY <2>4
    <2> QED BY <2>2, <2>4, <2>5 DEF Fills
<1> QED BY <1>4, <1>5 DEF c, hw, hh

LEMMA TrapezoidIsConvex ==
    ASSUME NEW w \in Nat, NEW h \in Nat, w >= 2, h >= 2, NEW dx \in -h .. h, NEW dy \in -w .. w
    PROVE  \E ccw \in BOOLEAN : /\ Convex(TrapezoidOutline(w, h, dx, dy), w, h, ccw)
                                /\ Bulges(TrapezoidOutline(w, h, dx, dy), ccw)
<1> DEFINE c == TrapezoidOutline(w, h, dx, dy)
           hw == TruncDiv(w, 2)
           hh == TruncDiv(h, 2)
           tx == TruncDiv(dx, 2)
           ty == TruncDiv(dy, 2)
<1>1. c = IF dx # 0
          THEN ClosedLoop(<<Pt(hw, -(hh - tx)), Pt(hw, hh - tx), Pt(-hw, hh + tx), Pt(-hw, -(hh + tx))>>)
          ELSE ClosedLoop(<<Pt(hw - ty, -hh), Pt(-(hw - ty), -hh), Pt(-(hw + ty), hh), Pt(hw + ty, hh)>>)
    BY DEF TrapezoidOutline
<1>2. /\ hw \in Nat /\ hw >= 1 /\ hw \in -w .. w /\ 2 * hw <= w
      /\ hh \in Nat /\ hh >= 1 /\ hh \in -h .. h /\ 2 * hh <= h
    BY Halves
<1>3. tx \in -hh .. hh /\ ty \in -hw .. hw
    BY SignedHalf
<1> HIDE DEF c, hw, hh, tx, ty
<1>4. \A a, d \in Nat : \A t \in -d .. d :
          a >= 1 /\ d >= 1 => a * (d - t) >= 0 /\ a * (d + t) >= 0 /\ a * (d - t) + a * (d + t) > 0
    <2> SUFFICES ASSUME NEW a \in Nat, NEW d \in Nat, NEW t \in -d .. d, a >= 1, d >= 1
                 PROVE  a * (d - t) >= 0 /\ a * (d + t) >= 0 /\ a * (d - t) + a * (d + t) > 0
        OBVIOUS
    <2>1. d - t \in Nat /\ d + t \in Nat
        OBVIOUS
    <2>2. a * (d - t) \in Nat /\ a * (d + t) \in Nat
        BY <2>1, PositiveProduct
    <2>3. a * (d - t) + a * (d + t) = 2 * (a * d) /\ a * d \in Nat /\ a * d >= 1
        <3>1. a * (d - t) + a * (d + t) = 2 * (a * d)
            OBVIOUS
        <3> QED BY <3>1, PositiveProduct
    <2> QED BY <2>2, <2>3
<1>5. CASE dx # 0
    <2> DEFINE v == hh - tx
               z == hh + tx
    <2>1. v \in -h .. h /\ z \in -h .. h
        BY <1>2, <1>3
    <2>2. hw * v >= 0 /\ hw * z >= 0 /\ hw * v + hw * z > 0
        BY <1>2, <1>3, <1>4
    <2>3. c = ClosedLoop(<<Pt(hw, -v), Pt(hw, v), Pt(-hw, z), Pt(-hw, -z)>>)
        BY <1>1, <1>5
    <2> HIDE DEF v, z
    <2>4. Convex(c, w, h, TRUE) /\ Bulges(c, TRUE)
        BY <1>2, <2>1, <2>2, <2>3, UprightLoop, Zenon
    <2> QED BY <2>4, Zenon DEF c
<1>6. CASE dx = 0
    <2> DEFINE v == hw - ty
               z == hw + ty
    <2>1. v \in -w .. w /\ z \in -w .. w
        BY <1>2, <1>3
    <2>2. hh * v >= 0 /\ hh * z >= 0 /\ hh * v + hh * z > 0
        BY <1>2, <1>3, <1>4
    <2>3. c = ClosedLoop(<<Pt(v, -hh), Pt(-v, -hh), Pt(-z, hh), Pt(z, hh)>>)
        BY <1>1, <1>6
    <2> HIDE DEF v, z
    <2>4. Convex(c, w, h, FALSE) /\ Bulges(c, FALSE)
        BY <1>2, <2>1, <2>2, <2>3, LevelLoop, Zenon
    <2> QED BY <2>4, Zenon DEF c
<1> QED BY <1>5, <1>6

-----------------------------------------------------------------------------
\* The pads with arcs.

\* A span of the loop, as the outline builders list it.
LEMMA SpanEnds ==
    ASSUME NEW s, NEW e, NEW center, NEW ccw
    PROVE  /\ Segment(s, e).start = s /\ Segment(s, e).end = e /\ Segment(s, e).arc = FALSE
           /\ Arc(s, e, center, ccw).start = s /\ Arc(s, e, center, ccw).end = e
           /\ Arc(s, e, center, ccw).arc = TRUE /\ Arc(s, e, center, ccw).ccw = ccw
           /\ Arc(s, e, center, ccw).center = center
BY DEF Segment, Arc

LEMMA SpanStarts ==
    /\ \A s, e : Segment(s, e).start = s
    /\ \A s, e, center, ccw : Arc(s, e, center, ccw).start = s
BY DEF Segment, Arc

LEMMA MinusZero == -0 = 0
<1>1. \A z \in Int : -z + z = 0
    OBVIOUS
<1>2. \A z \in Int : z + 0 = z /\ -z \in Int
    OBVIOUS
<1>3. 0 \in Int
    OBVIOUS
<1>4. -0 + 0 = 0
    BY <1>1, <1>3, Zenon
<1>5. -0 \in Int
    BY <1>2, <1>3, Zenon
<1>6. -0 + 0 = -0
    BY <1>2, <1>5, Zenon
<1> QED BY <1>4, <1>6, Zenon

LEMMA CircleIsConvex ==
    ASSUME NEW w \in Nat, w >= 2, 16 * (w * w) <= MaxInt
    PROVE  /\ Convex(CircleOutline(w), w, w, TRUE) /\ Bulges(CircleOutline(w), TRUE)
           /\ Fills(CircleOutline(w), TruncDiv(w, 2), TruncDiv(w, 2))
<1> DEFINE c == CircleOutline(w)
           r == TruncDiv(w, 2)
           p1 == Pt(r, 0)
           p2 == Pt(0, r)
           p3 == Pt(-r, 0)
           p4 == Pt(0, -r)
           Cardinal(i) == RotatePoint(Pt(r, 0), i % 4)
<1>1. /\ r \in Nat /\ r >= 1 /\ r \in -w .. w /\ -r \in -w .. w /\ 0 \in -w .. w
      /\ r \in -r .. r /\ -r \in -r .. r /\ 0 \in -r .. r /\ 0 \in Int /\ TRUE \in BOOLEAN
    BY Halves
<1>2. r * r <= MaxInt
    <2> HIDE DEF r
    <2>1. r * r \in -(w * w) .. w * w /\ w * w \in Nat
        BY <1>1, ProductBound
    <2> DEFINE a == r * r
               M == w * w
    <2>2. a \in -M .. M /\ M \in Nat /\ 16 * M <= MaxInt
        BY <2>1
    <2>3. a <= MaxInt
        <3> HIDE DEF a, M
        <3> QED BY <2>2, MaxIntAssumption
    <2> QED BY <2>3
<1> HIDE DEF r
<1>3. Cardinal(0) = p1 /\ Cardinal(1) = p2 /\ Cardinal(2) = p3 /\ Cardinal(3) = p4 /\ Cardinal(4) = p1
    <2>1. 0 % 4 = 0 /\ 1 % 4 = 1 /\ 2 % 4 = 2 /\ 3 % 4 = 3 /\ 4 % 4 = 0
        OBVIOUS
    <2>2. 0 # 1 /\ 0 # 2 /\ 0 # 3 /\ 1 # 2 /\ 1 # 3 /\ 2 # 3
        OBVIOUS
    <2>3. Pt(r, 0).x = r /\ Pt(r, 0).y = 0
        BY DEF Pt
    <2>4. -0 = 0
        BY MinusZero
    <2>5. /\ RotatePoint(Pt(r, 0), 0) = Pt(r, 0) /\ RotatePoint(Pt(r, 0), 1) = Pt(-Pt(r, 0).y, Pt(r, 0).x)
          /\ RotatePoint(Pt(r, 0), 2) = Pt(-Pt(r, 0).x, -Pt(r, 0).y)
          /\ RotatePoint(Pt(r, 0), 3) = Pt(Pt(r, 0).y, -Pt(r, 0).x)
        BY <2>2, Zenon DEF RotatePoint
    <2> QED BY <2>1, <2>3, <2>4, <2>5, Zenon
<1>4. c = [i \in 1 .. 4 |-> Arc(Cardinal(i - 1), Cardinal(i), Origin, TRUE)]
    BY DEF CircleOutline, r
<1> DEFINE A(s, e) == Arc(s, e, Origin, TRUE)
<1>5. c = [i \in 1 .. 4 |-> A(Cardinal(i - 1), Cardinal(i))]
    BY <1>4
<1>6. /\ \A s, e : A(s, e).start = s /\ A(s, e).end = e /\ A(s, e).ccw = TRUE
      /\ \A s, e \in Within(w, w) : A(s, e) \in SpansWithin(w, w)
    <2>1. Origin \in [x : Int, y : Int]
        BY DEF Origin, Pt
    <2>2. \A s, e \in Within(w, w) : A(s, e) \in SpansWithin(w, w)
        BY <1>1, <2>1, SpanTypes
    <2>3. \A s, e : A(s, e).start = s /\ A(s, e).end = e /\ A(s, e).ccw = TRUE
        BY DEF Arc
    <2> QED BY <2>2, <2>3, Zenon
<1>7. p1 \in Within(w, w) /\ p2 \in Within(w, w) /\ p3 \in Within(w, w) /\ p4 \in Within(w, w)
    BY <1>1, PtWithin DEF p1, p2, p3, p4
<1> HIDE DEF c, Cardinal, p1, p2, p3, p4, A
<1>8. c = <<A(p1, p2), A(p2, p3), A(p3, p4), A(p4, p1)>>
    BY <1>3, <1>5
<1>9. /\ A(p1, p2) \in SpansWithin(w, w) /\ A(p2, p3) \in SpansWithin(w, w)
      /\ A(p3, p4) \in SpansWithin(w, w) /\ A(p4, p1) \in SpansWithin(w, w)
    BY <1>7, <1>6
<1>10. /\ c \in Seq(SpansWithin(w, w)) /\ Len(c) = 4
      /\ c[1] = A(p1, p2) /\ c[2] = A(p2, p3) /\ c[3] = A(p3, p4) /\ c[4] = A(p4, p1)
    BY <1>8, <1>9, FourSpans
<1>11. /\ c[1].start = p1 /\ c[2].start = p2 /\ c[3].start = p3 /\ c[4].start = p4
      /\ c[1].end = p2 /\ c[2].end = p3 /\ c[3].end = p4 /\ c[4].end = p1
      /\ c[1].ccw = TRUE /\ c[2].ccw = TRUE /\ c[3].ccw = TRUE /\ c[4].ccw = TRUE
    <2>1. \A s, e : A(s, e).start = s /\ A(s, e).end = e /\ A(s, e).ccw = TRUE
        BY <1>6
    <2>2. /\ A(p1, p2).start = p1 /\ A(p2, p3).start = p2 /\ A(p3, p4).start = p3 /\ A(p4, p1).start = p4
          /\ A(p1, p2).end = p2 /\ A(p2, p3).end = p3 /\ A(p3, p4).end = p4 /\ A(p4, p1).end = p1
          /\ A(p1, p2).ccw = TRUE /\ A(p2, p3).ccw = TRUE /\ A(p3, p4).ccw = TRUE /\ A(p4, p1).ccw = TRUE
        BY <2>1, Zenon
    <2> QED BY <1>10, <2>2
<1>12. /\ Minus(p1, Origin) \in Radial(r) /\ Minus(p2, Origin) \in Radial(r)
       /\ Minus(p3, Origin) \in Radial(r) /\ Minus(p4, Origin) \in Radial(r)
    BY <1>1 DEF Minus, Origin, Pt, Radial, p1, p2, p3, p4
<1>13. ArcIsValid(c[1]) /\ ArcIsValid(c[2]) /\ ArcIsValid(c[3]) /\ ArcIsValid(c[4])
    <2>1. \A s, e : Minus(s, Origin) \in Radial(r) /\ Minus(e, Origin) \in Radial(r)
                        => ArcIsValid(A(s, e))
        BY <1>1, <1>2, RadialArc DEF A
    <2> QED BY <1>10, <1>12, <2>1, Zenon
<1>14. \A i \in 1 .. 4 : i = 1 \/ i = 2 \/ i = 3 \/ i = 4
    OBVIOUS
<1>15. \A i \in 1 .. 4 : ArcIsValid(c[i]) /\ c[i].ccw = TRUE
    BY <1>11, <1>13, <1>14, Zenon
<1>16. /\ Faces(Turn(p1, p2, p3), TRUE) /\ Faces(Turn(p2, p3, p4), TRUE)
       /\ Faces(Turn(p3, p4, p1), TRUE) /\ Faces(Turn(p4, p1, p2), TRUE)
       /\ Faces(Turn(p1, p2, Origin), TRUE) /\ Faces(Turn(p2, p3, Origin), TRUE)
       /\ Faces(Turn(p3, p4, Origin), TRUE) /\ Faces(Turn(p4, p1, Origin), TRUE)
       /\ Turn(p2, p3, Origin) # 0
    BY <1>1, CardinalSides, Zenon DEF p1, p2, p3, p4
<1>17. Convex(c, w, w, TRUE)
    BY <1>1, <1>10, <1>11, <1>15, <1>16, QuadIsConvex, Zenon
<1>18. Bulges(c, TRUE)
    BY <1>10, <1>15, Zenon DEF Bulges
<1>19. Fills(c, r, r)
    <2>1. /\ p1 \in Within(r, r) /\ p2 \in Within(r, r) /\ p3 \in Within(r, r) /\ p4 \in Within(r, r)
          /\ p1.x = r /\ p3.x = -r /\ p2.y = r /\ p4.y = -r
        BY <1>1, PtWithin DEF p1, p2, p3, p4
    <2>2. 1 .. Len(c) = {1, 2, 3, 4}
        BY <1>10
    <2> QED BY <1>11, <2>1, <2>2 DEF Fills
<1> QED BY <1>17, <1>18, <1>19, Zenon DEF c, r

\* Two segments joined by two arcs, centred at d and e, a radius from their ends.
LEMMA CappedLoop ==
    ASSUME NEW W \in Nat, NEW H \in Nat, NEW ccw \in BOOLEAN, NEW r \in Nat, r >= 1, r * r <= MaxInt,
           NEW p1 \in Within(W, H), NEW p2 \in Within(W, H), NEW p3 \in Within(W, H), NEW p4 \in Within(W, H),
           NEW d \in [x : Int, y : Int], NEW e \in [x : Int, y : Int],
           Minus(p2, d) \in Radial(r), Minus(p3, d) \in Radial(r),
           Minus(p4, e) \in Radial(r), Minus(p1, e) \in Radial(r),
           Faces(Turn(p1, p2, p3), ccw), Faces(Turn(p2, p3, p4), ccw),
           Faces(Turn(p3, p4, p1), ccw), Faces(Turn(p4, p1, p2), ccw),
           Faces(Turn(p1, p2, Origin), ccw), Faces(Turn(p2, p3, Origin), ccw),
           Faces(Turn(p3, p4, Origin), ccw), Faces(Turn(p4, p1, Origin), ccw),
           Turn(p2, p3, Origin) # 0
    PROVE  Convex(<<Segment(p1, p2), Arc(p2, p3, d, FALSE), Segment(p3, p4), Arc(p4, p1, e, FALSE)>>,
                  W, H, ccw)
<1> DEFINE s1 == Segment(p1, p2)
           s2 == Arc(p2, p3, d, FALSE)
           s3 == Segment(p3, p4)
           s4 == Arc(p4, p1, e, FALSE)
           c == <<s1, s2, s3, s4>>
<1>1. /\ s1 \in SpansWithin(W, H) /\ s2 \in SpansWithin(W, H)
      /\ s3 \in SpansWithin(W, H) /\ s4 \in SpansWithin(W, H)
    <2>1. FALSE \in BOOLEAN
        OBVIOUS
    <2> QED BY <2>1, SpanTypes
<1>2. /\ s1.start = p1 /\ s2.start = p2 /\ s3.start = p3 /\ s4.start = p4
      /\ s1.end = p2 /\ s2.end = p3 /\ s3.end = p4 /\ s4.end = p1
      /\ ~s1.arc /\ ~s3.arc
    BY DEF Segment, Arc
<1>3. ArcIsValid(s2) /\ ArcIsValid(s4)
    BY RadialArc
<1> HIDE DEF s1, s2, s3, s4
<1>4. /\ c \in Seq(SpansWithin(W, H)) /\ Len(c) = 4
      /\ c[1] = s1 /\ c[2] = s2 /\ c[3] = s3 /\ c[4] = s4
    BY <1>1
<1> HIDE DEF c
<1>5. /\ c[1].start = p1 /\ c[2].start = p2 /\ c[3].start = p3 /\ c[4].start = p4
      /\ c[1].end = p2 /\ c[2].end = p3 /\ c[3].end = p4 /\ c[4].end = p1
    BY <1>2, <1>4
<1>6. \A i \in 1 .. 4 : c[i].arc => ArcIsValid(c[i])
    <2>1. \A i \in 1 .. 4 : i = 1 \/ i = 2 \/ i = 3 \/ i = 4
        OBVIOUS
    <2> QED BY <1>2, <1>3, <1>4, <2>1, Zenon
<1>7. Convex(c, W, H, ccw)
    BY <1>4, <1>5, <1>6, QuadIsConvex, Zenon
<1> QED BY <1>7, Zenon DEF c, s1, s2, s3, s4

\* The half sizes build_oval computes of the longer and the shorter side.
LEMMA OvalHalves ==
    ASSUME NEW major \in Nat, NEW minor \in Nat, minor >= 2, major - minor >= 2,
           16 * (major * minor) <= MaxInt
    PROVE  LET r == TruncDiv(minor, 2)
               f == TruncDiv(major - minor, 2)
           IN  /\ r \in Nat /\ r >= 1 /\ r \in -minor .. minor /\ -r \in -minor .. minor
               /\ f \in Nat /\ f >= 1 /\ f \in -major .. major /\ -f \in -major .. major
               /\ r * r <= MaxInt /\ r * f >= 0 /\ r * f + r * f > 0
<1> DEFINE r == TruncDiv(minor, 2)
           f == TruncDiv(major - minor, 2)
           m == major - minor
           M == major * minor
           a == r * r
           b == r * f
<1>1. r \in Nat /\ r >= 1 /\ 2 * r <= minor /\ r \in -minor .. minor /\ -r \in -minor .. minor
    BY Halves
<1>2. f \in Nat /\ f >= 1 /\ 2 * f <= m
    <2>1. m \in Nat /\ m >= 2
        OBVIOUS
    <2>2. TruncDiv(m, 2) \in Nat /\ TruncDiv(m, 2) >= 1 /\ 2 * TruncDiv(m, 2) <= m
        BY <2>1, Halves
    <2> QED BY <2>2
<1> HIDE DEF r, f
<1>3. f \in -major .. major /\ -f \in -major .. major /\ r \in -major .. major
    BY <1>1, <1>2
<1>4. a <= MaxInt
    <2>1. a \in -M .. M /\ M \in Nat /\ 16 * M <= MaxInt
        BY <1>1, <1>3, ProductBound
    <2> HIDE DEF a, M
    <2> QED BY <2>1, MaxIntAssumption
<1>5. b >= 0 /\ b + b > 0
    <2>1. b \in Nat /\ b >= 1
        BY <1>1, <1>2, PositiveProduct
    <2> HIDE DEF b
    <2> QED BY <2>1
<1> QED BY <1>1, <1>2, <1>3, <1>4, <1>5 DEF r, f

LEMMA WideOvalIsConvex ==
    ASSUME NEW w \in Nat, NEW h \in Nat, h >= 2, w - h >= 2, 16 * (w * h) <= MaxInt
    PROVE  Convex(WideOval(w, h), w, h, FALSE) /\ Bulges(WideOval(w, h), FALSE)
<1> DEFINE r == TruncDiv(h, 2)
           f == TruncDiv(w - h, 2)
           p1 == Pt(f, -r)
           p2 == Pt(-f, -r)
           p3 == Pt(-f, r)
           p4 == Pt(f, r)
           c == <<Segment(p1, p2), Arc(p2, p3, Pt(-f, 0), FALSE),
                  Segment(p3, p4), Arc(p4, p1, Pt(f, 0), FALSE)>>
<1>1. WideOval(w, h) = c
    BY DEF WideOval
<1>2. /\ r \in Nat /\ r >= 1 /\ r \in -h .. h /\ -r \in -h .. h
      /\ f \in Nat /\ f >= 1 /\ f \in -w .. w /\ -f \in -w .. w
      /\ r * r <= MaxInt /\ r * f >= 0 /\ r * f + r * f > 0
    BY OvalHalves
<1> HIDE DEF r, f
<1>3. p1 \in Within(w, h) /\ p2 \in Within(w, h) /\ p3 \in Within(w, h) /\ p4 \in Within(w, h)
    BY <1>2, PtWithin
<1>4. /\ Faces(Turn(p1, p2, p3), FALSE) /\ Faces(Turn(p2, p3, p4), FALSE)
      /\ Faces(Turn(p3, p4, p1), FALSE) /\ Faces(Turn(p4, p1, p2), FALSE)
      /\ Faces(Turn(p1, p2, Origin), FALSE) /\ Faces(Turn(p2, p3, Origin), FALSE)
      /\ Faces(Turn(p3, p4, Origin), FALSE) /\ Faces(Turn(p4, p1, Origin), FALSE)
      /\ Turn(p2, p3, Origin) # 0
    <2>1. r \in Int /\ f \in Int
        BY <1>2
    <2> QED BY <1>2, <2>1, LevelSides, Zenon
<1>5. /\ Minus(p2, Pt(-f, 0)) \in Radial(r) /\ Minus(p3, Pt(-f, 0)) \in Radial(r)
      /\ Minus(p4, Pt(f, 0)) \in Radial(r) /\ Minus(p1, Pt(f, 0)) \in Radial(r)
      /\ Pt(-f, 0) \in [x : Int, y : Int] /\ Pt(f, 0) \in [x : Int, y : Int]
    BY <1>2 DEF Minus, Pt, Radial
<1>6. Convex(c, w, h, FALSE)
    <2>1. FALSE \in BOOLEAN
        OBVIOUS
    <2> HIDE DEF p1, p2, p3, p4
    <2> QED BY <1>2, <1>3, <1>4, <1>5, <2>1, CappedLoop, Zenon
<1>7. Bulges(c, FALSE)
    <2>1. \A i \in 1 .. 4 : c[i].ccw = FALSE
        BY DEF Segment, Arc
    <2>2. Len(c) = 4
        OBVIOUS
    <2> QED BY <2>1, <2>2 DEF Bulges
<1> QED BY <1>1, <1>6, <1>7, Zenon

\* The tall oval keeps the directions of the wide one's arcs.
LEMMA TallOvalIsConvex ==
    ASSUME NEW w \in Nat, NEW h \in Nat, w >= 2, h - w >= 2, 16 * (w * h) <= MaxInt
    PROVE  Convex(MapPoints(LAMBDA p : Pt(p.y, p.x), WideOval(h, w)), w, h, TRUE)
<1> DEFINE r == TruncDiv(w, 2)
           f == TruncDiv(h - w, 2)
           p1 == Pt(-r, f)
           p2 == Pt(-r, -f)
           p3 == Pt(r, -f)
           p4 == Pt(r, f)
           wide == <<Segment(Pt(f, -r), Pt(-f, -r)), Arc(Pt(-f, -r), Pt(-f, r), Pt(-f, 0), FALSE),
                     Segment(Pt(-f, r), Pt(f, r)), Arc(Pt(f, r), Pt(f, -r), Pt(f, 0), FALSE)>>
           c == <<Segment(p1, p2), Arc(p2, p3, Pt(0, -f), FALSE),
                  Segment(p3, p4), Arc(p4, p1, Pt(0, f), FALSE)>>
           F(p) == Pt(p.y, p.x)
           swapped == MapPoints(LAMBDA p : Pt(p.y, p.x), WideOval(h, w))
<1>1. WideOval(h, w) = wide
    BY DEF WideOval
<1>2. \A x, y : F(Pt(x, y)) = Pt(y, x)
    BY DEF Pt
<1>3. swapped = [i \in DOMAIN wide |->
            IF wide[i].arc THEN Arc(F(wide[i].start), F(wide[i].end), F(wide[i].center), wide[i].ccw)
            ELSE Segment(F(wide[i].start), F(wide[i].end))]
    BY <1>1, Zenon DEF MapPoints
<1>4. /\ r \in Nat /\ r >= 1 /\ r \in -w .. w /\ -r \in -w .. w
      /\ f \in Nat /\ f >= 1 /\ f \in -h .. h /\ -f \in -h .. h
      /\ r * r <= MaxInt /\ r * f >= 0 /\ r * f + r * f > 0
    <2>1. h * w = w * h
        OBVIOUS
    <2> QED BY <2>1, OvalHalves
<1> HIDE DEF r, f, F
<1>5. swapped = c
    <2>1. DOMAIN wide = 1 .. 4
        OBVIOUS
    <2>2. /\ ~wide[1].arc /\ wide[1].start = Pt(f, -r) /\ wide[1].end = Pt(-f, -r)
          /\ wide[2].arc /\ wide[2].start = Pt(-f, -r) /\ wide[2].end = Pt(-f, r)
          /\ wide[2].center = Pt(-f, 0) /\ wide[2].ccw = FALSE
          /\ ~wide[3].arc /\ wide[3].start = Pt(-f, r) /\ wide[3].end = Pt(f, r)
          /\ wide[4].arc /\ wide[4].start = Pt(f, r) /\ wide[4].end = Pt(f, -r)
          /\ wide[4].center = Pt(f, 0) /\ wide[4].ccw = FALSE
        BY DEF Segment, Arc
    <2> HIDE DEF wide, swapped
    <2>3. swapped = [i \in 1 .. 4 |->
            IF wide[i].arc THEN Arc(F(wide[i].start), F(wide[i].end), F(wide[i].center), wide[i].ccw)
            ELSE Segment(F(wide[i].start), F(wide[i].end))]
        BY <1>3, <2>1
    <2>4. swapped[1] = Segment(p1, p2) /\ swapped[3] = Segment(p3, p4)
        BY <1>2, <2>2, <2>3
    <2>5. swapped[2] = Arc(p2, p3, Pt(0, -f), FALSE) /\ swapped[4] = Arc(p4, p1, Pt(0, f), FALSE)
        <3>1. /\ swapped[2] = Arc(F(wide[2].start), F(wide[2].end), F(wide[2].center), wide[2].ccw)
              /\ swapped[4] = Arc(F(wide[4].start), F(wide[4].end), F(wide[4].center), wide[4].ccw)
            BY <2>2, <2>3
        <3> QED BY <1>2, <2>2, <3>1, Zenon
    <2> DEFINE s1 == Segment(p1, p2)
               s2 == Arc(p2, p3, Pt(0, -f), FALSE)
               s3 == Segment(p3, p4)
               s4 == Arc(p4, p1, Pt(0, f), FALSE)
    <2>6. swapped[1] = s1 /\ swapped[2] = s2 /\ swapped[3] = s3 /\ swapped[4] = s4
        BY <2>4, <2>5
    <2> DEFINE g(i) == IF wide[i].arc THEN Arc(F(wide[i].start), F(wide[i].end), F(wide[i].center), wide[i].ccw)
                       ELSE Segment(F(wide[i].start), F(wide[i].end))
    <2>7. swapped = [i \in 1 .. 4 |-> g(i)]
        BY <2>3
    <2> HIDE DEF s1, s2, s3, s4, g
    <2>8. swapped = <<s1, s2, s3, s4>>
        BY <2>6, <2>7
    <2> QED BY <2>8, Zenon DEF s1, s2, s3, s4
<1> HIDE DEF swapped
<1>6. p1 \in Within(w, h) /\ p2 \in Within(w, h) /\ p3 \in Within(w, h) /\ p4 \in Within(w, h)
    BY <1>4, PtWithin
<1>7. /\ Faces(Turn(p1, p2, p3), TRUE) /\ Faces(Turn(p2, p3, p4), TRUE)
      /\ Faces(Turn(p3, p4, p1), TRUE) /\ Faces(Turn(p4, p1, p2), TRUE)
      /\ Faces(Turn(p1, p2, Origin), TRUE) /\ Faces(Turn(p2, p3, Origin), TRUE)
      /\ Faces(Turn(p3, p4, Origin), TRUE) /\ Faces(Turn(p4, p1, Origin), TRUE)
      /\ Turn(p2, p3, Origin) # 0
    <2> DEFINE u == -r
               v == -f
    <2>1. u \in Int /\ v \in Int /\ -u = r /\ -v = f /\ u * v = r * f
        BY <1>4
    <2> HIDE DEF u, v
    <2>2. /\ p1 = Pt(u, -v) /\ p2 = Pt(u, v) /\ p3 = Pt(-u, v) /\ p4 = Pt(-u, -v)
        BY <2>1, Zenon DEF u, v
    <2>3. u * v >= 0 /\ u * v + u * v > 0
        BY <1>4, <2>1
    <2> HIDE DEF p1, p2, p3, p4
    <2> QED BY <2>1, <2>2, <2>3, UprightSides
<1>8. /\ Minus(p2, Pt(0, -f)) \in Radial(r) /\ Minus(p3, Pt(0, -f)) \in Radial(r)
      /\ Minus(p4, Pt(0, f)) \in Radial(r) /\ Minus(p1, Pt(0, f)) \in Radial(r)
      /\ Pt(0, -f) \in [x : Int, y : Int] /\ Pt(0, f) \in [x : Int, y : Int]
    BY <1>4 DEF Minus, Pt, Radial
<1>9. Convex(c, w, h, TRUE)
    <2>1. TRUE \in BOOLEAN
        OBVIOUS
    <2> HIDE DEF p1, p2, p3, p4
    <2> QED BY <1>4, <1>6, <1>7, <1>8, <2>1, CappedLoop, Zenon
<1> QED BY <1>5, <1>9, Zenon DEF swapped

-----------------------------------------------------------------------------
\* The rounded rectangle: its eight corners lie in an octagon, and each edge has the
\* octagon to one side.
Octagon(a, b, q) ==
    {p \in [x : Int, y : Int] : /\ p.x \in -(a + q) .. a + q
                                /\ p.y \in -(b + q) .. b + q
                                /\ p.x + p.y \in -(a + b + q) .. a + b + q
                                /\ p.x - p.y \in -(a + b + q) .. a + b + q}

RoundCorners(a, b, q) ==
    <<Pt(a, -(b + q)), Pt(-a, -(b + q)), Pt(-(a + q), -b), Pt(-(a + q), b),
      Pt(-a, b + q), Pt(a, b + q), Pt(a + q, b), Pt(a + q, -b)>>

LEMMA RoundSides ==
    ASSUME NEW a \in Nat, NEW b \in Nat, NEW q \in Nat, NEW p \in Octagon(a, b, q)
    PROVE  LET P == RoundCorners(a, b, q)
           IN  /\ Turn(P[1], P[2], p) <= 0 /\ Turn(P[2], P[3], p) <= 0
               /\ Turn(P[3], P[4], p) <= 0 /\ Turn(P[4], P[5], p) <= 0
               /\ Turn(P[5], P[6], p) <= 0 /\ Turn(P[6], P[7], p) <= 0
               /\ Turn(P[7], P[8], p) <= 0 /\ Turn(P[8], P[1], p) <= 0
<1> DEFINE P == RoundCorners(a, b, q)
           x == p.x
           y == p.y
           t1 == ((-a) - a) * (y - (-(b + q))) - ((-(b + q)) - (-(b + q))) * (x - a)
           t2 == ((-(a + q)) - (-a)) * (y - (-(b + q))) - ((-b) - (-(b + q))) * (x - (-a))
           t3 == ((-(a + q)) - (-(a + q))) * (y - (-b)) - (b - (-b)) * (x - (-(a + q)))
           t4 == ((-a) - (-(a + q))) * (y - b) - ((b + q) - b) * (x - (-(a + q)))
           t5 == (a - (-a)) * (y - (b + q)) - ((b + q) - (b + q)) * (x - (-a))
           t6 == ((a + q) - a) * (y - (b + q)) - (b - (b + q)) * (x - a)
           t7 == ((a + q) - (a + q)) * (y - b) - ((-b) - b) * (x - (a + q))
           t8 == (a - (a + q)) * (y - (-b)) - ((-(b + q)) - (-b)) * (x - (a + q))
<1>1. /\ x \in Int /\ y \in Int
      /\ x \in -(a + q) .. a + q /\ y \in -(b + q) .. b + q
      /\ x + y \in -(a + b + q) .. a + b + q /\ x - y \in -(a + b + q) .. a + b + q
    BY DEF Octagon
<1>2. /\ P[1].x = a /\ P[1].y = -(b + q) /\ P[2].x = -a /\ P[2].y = -(b + q)
      /\ P[3].x = -(a + q) /\ P[3].y = -b /\ P[4].x = -(a + q) /\ P[4].y = b
      /\ P[5].x = -a /\ P[5].y = b + q /\ P[6].x = a /\ P[6].y = b + q
      /\ P[7].x = a + q /\ P[7].y = b /\ P[8].x = a + q /\ P[8].y = -b
    BY DEF RoundCorners, Pt
<1> HIDE DEF P
<1>3. /\ Turn(P[1], P[2], p) = t1 /\ Turn(P[2], P[3], p) = t2
      /\ Turn(P[3], P[4], p) = t3 /\ Turn(P[4], P[5], p) = t4
      /\ Turn(P[5], P[6], p) = t5 /\ Turn(P[6], P[7], p) = t6
      /\ Turn(P[7], P[8], p) = t7 /\ Turn(P[8], P[1], p) = t8
    BY <1>2, Zenon DEF Turn
<1> HIDE DEF x, y
<1>4. /\ t1 = -(2 * (a * (y + (b + q)))) /\ t2 = -(q * ((x + y) + (a + b + q)))
      /\ t3 = -(2 * (b * (x + (a + q)))) /\ t4 = -(q * ((x - y) + (a + b + q)))
      /\ t5 = -(2 * (a * ((b + q) - y))) /\ t6 = -(q * ((a + b + q) - (x + y)))
      /\ t7 = -(2 * (b * ((a + q) - x))) /\ t8 = -(q * ((a + b + q) - (x - y)))
    BY <1>1
<1>5. /\ y + (b + q) \in Nat /\ (b + q) - y \in Nat /\ x + (a + q) \in Nat /\ (a + q) - x \in Nat
      /\ (x + y) + (a + b + q) \in Nat /\ (a + b + q) - (x + y) \in Nat
      /\ (x - y) + (a + b + q) \in Nat /\ (a + b + q) - (x - y) \in Nat
    BY <1>1
<1>6. /\ a * (y + (b + q)) \in Nat /\ q * ((x + y) + (a + b + q)) \in Nat
      /\ b * (x + (a + q)) \in Nat /\ q * ((x - y) + (a + b + q)) \in Nat
      /\ a * ((b + q) - y) \in Nat /\ q * ((a + b + q) - (x + y)) \in Nat
      /\ b * ((a + q) - x) \in Nat /\ q * ((a + b + q) - (x - y)) \in Nat
    BY <1>5, PositiveProduct
<1>7. \A u \in Nat : -u <= 0 /\ -(2 * u) <= 0
    OBVIOUS
<1> HIDE DEF t1, t2, t3, t4, t5, t6, t7, t8
<1>8. t1 <= 0 /\ t2 <= 0 /\ t3 <= 0 /\ t4 <= 0 /\ t5 <= 0 /\ t6 <= 0 /\ t7 <= 0 /\ t8 <= 0
    BY <1>4, <1>6, <1>7, Zenon
<1> QED BY <1>3, <1>8, Zenon DEF P

LEMMA EightSpans ==
    ASSUME NEW S, NEW s1 \in S, NEW s2 \in S, NEW s3 \in S, NEW s4 \in S,
           NEW s5 \in S, NEW s6 \in S, NEW s7 \in S, NEW s8 \in S
    PROVE  LET c == <<s1, s2, s3, s4, s5, s6, s7, s8>>
           IN  /\ c \in Seq(S) /\ Len(c) = 8
               /\ c[1] = s1 /\ c[2] = s2 /\ c[3] = s3 /\ c[4] = s4
               /\ c[5] = s5 /\ c[6] = s6 /\ c[7] = s7 /\ c[8] = s8
OBVIOUS

LEMMA OneToEight ==
    ASSUME NEW i \in 1 .. 8
    PROVE  i = 1 \/ i = 2 \/ i = 3 \/ i = 4 \/ i = 5 \/ i = 6 \/ i = 7 \/ i = 8
OBVIOUS

\* build_roundrect's loop, the half sizes written a + q and b + q.
RoundLoop(a, b, q) ==
    LET P == RoundCorners(a, b, q)
    IN  <<Segment(P[1], P[2]), Arc(P[2], P[3], Pt(-a, -b), FALSE),
          Segment(P[3], P[4]), Arc(P[4], P[5], Pt(-a, b), FALSE),
          Segment(P[5], P[6]), Arc(P[6], P[7], Pt(a, b), FALSE),
          Segment(P[7], P[8]), Arc(P[8], P[1], Pt(a, -b), FALSE)>>

LEMMA RoundLoopIsConvex ==
    ASSUME NEW W \in Nat, NEW H \in Nat, NEW a \in Nat, NEW b \in Nat, NEW q \in Nat,
           q >= 1, q * q <= MaxInt, a + q <= W, b + q <= H
    PROVE  /\ Convex(RoundLoop(a, b, q), W, H, FALSE) /\ Bulges(RoundLoop(a, b, q), FALSE)
           /\ Fills(RoundLoop(a, b, q), a + q, b + q)
<1> DEFINE P == RoundCorners(a, b, q)
           s1 == Segment(P[1], P[2])
           s2 == Arc(P[2], P[3], Pt(-a, -b), FALSE)
           s3 == Segment(P[3], P[4])
           s4 == Arc(P[4], P[5], Pt(-a, b), FALSE)
           s5 == Segment(P[5], P[6])
           s6 == Arc(P[6], P[7], Pt(a, b), FALSE)
           s7 == Segment(P[7], P[8])
           s8 == Arc(P[8], P[1], Pt(a, -b), FALSE)
           c == <<s1, s2, s3, s4, s5, s6, s7, s8>>
           S == SpansWithin(W, H)
<1>1. RoundLoop(a, b, q) = c
    BY DEF RoundLoop
<1>2. /\ P[1] = Pt(a, -(b + q)) /\ P[2] = Pt(-a, -(b + q)) /\ P[3] = Pt(-(a + q), -b) /\ P[4] = Pt(-(a + q), b)
      /\ P[5] = Pt(-a, b + q) /\ P[6] = Pt(a, b + q) /\ P[7] = Pt(a + q, b) /\ P[8] = Pt(a + q, -b)
    BY DEF RoundCorners
<1> HIDE DEF P
<1>3. ASSUME NEW w \in Nat, NEW h \in Nat, a + q <= w, b + q <= h
      PROVE  \A i \in 1 .. 8 : P[i] \in Within(w, h)
    <2>1. /\ a \in -w .. w /\ -a \in -w .. w /\ a + q \in -w .. w /\ -(a + q) \in -w .. w
          /\ b \in -h .. h /\ -b \in -h .. h /\ b + q \in -h .. h /\ -(b + q) \in -h .. h
        BY <1>3
    <2>2. /\ Pt(a, -(b + q)) \in Within(w, h) /\ Pt(-a, -(b + q)) \in Within(w, h)
          /\ Pt(-(a + q), -b) \in Within(w, h) /\ Pt(-(a + q), b) \in Within(w, h)
          /\ Pt(-a, b + q) \in Within(w, h) /\ Pt(a, b + q) \in Within(w, h)
          /\ Pt(a + q, b) \in Within(w, h) /\ Pt(a + q, -b) \in Within(w, h)
        BY <2>1, PtWithin
    <2> QED BY <1>2, <2>2, OneToEight, Zenon
<1>4. \A i \in 1 .. 8 : P[i] \in Octagon(a, b, q)
    <2>1. \A x, y : Pt(x, y).x = x /\ Pt(x, y).y = y
        BY DEF Pt
    <2>2. \A x, y \in Int : Pt(x, y) \in [x : Int, y : Int]
        BY DEF Pt
    <2>3. \A x, y \in Int : x \in -(a + q) .. a + q /\ y \in -(b + q) .. b + q
                            /\ x + y \in -(a + b + q) .. a + b + q /\ x - y \in -(a + b + q) .. a + b + q
                                => Pt(x, y) \in Octagon(a, b, q)
        BY <2>1, <2>2 DEF Octagon
    <2> HIDE DEF P
    <2>4. /\ Pt(a, -(b + q)) \in Octagon(a, b, q) /\ Pt(-a, -(b + q)) \in Octagon(a, b, q)
          /\ Pt(-(a + q), -b) \in Octagon(a, b, q) /\ Pt(-(a + q), b) \in Octagon(a, b, q)
          /\ Pt(-a, b + q) \in Octagon(a, b, q) /\ Pt(a, b + q) \in Octagon(a, b, q)
          /\ Pt(a + q, b) \in Octagon(a, b, q) /\ Pt(a + q, -b) \in Octagon(a, b, q)
        BY <2>3
    <2> QED BY <1>2, <2>4, OneToEight, Zenon
<1>5. Origin \in Octagon(a, b, q)
    BY DEF Origin, Pt, Octagon
<1>6. ASSUME NEW p \in Octagon(a, b, q)
      PROVE  /\ Turn(P[1], P[2], p) <= 0 /\ Turn(P[2], P[3], p) <= 0
             /\ Turn(P[3], P[4], p) <= 0 /\ Turn(P[4], P[5], p) <= 0
             /\ Turn(P[5], P[6], p) <= 0 /\ Turn(P[6], P[7], p) <= 0
             /\ Turn(P[7], P[8], p) <= 0 /\ Turn(P[8], P[1], p) <= 0
    BY RoundSides, Zenon DEF P
<1>7. Turn(P[2], P[3], Origin) # 0
    <2>1. Turn(P[2], P[3], Origin)
            = ((-(a + q)) - (-a)) * (0 - (-(b + q))) - ((-b) - (-(b + q))) * (0 - (-a))
        BY <1>2 DEF Turn, Pt, Origin
    <2>2. ((-(a + q)) - (-a)) * (0 - (-(b + q))) - ((-b) - (-(b + q))) * (0 - (-a)) = -(q * (a + b + q))
        OBVIOUS
    <2> DEFINE m == q * (a + b + q)
    <2>3. m \in Nat /\ m >= 1
        <3>1. a + b + q \in Nat /\ a + b + q >= 1
            OBVIOUS
        <3> QED BY <3>1, PositiveProduct
    <2>4. Turn(P[2], P[3], Origin) = -m
        BY <2>1, <2>2, Zenon
    <2> HIDE DEF m
    <2> QED BY <2>3, <2>4
<1>8. \A i \in 1 .. 8 : P[i] \in Within(W, H)
    BY <1>3
<1>9. s1 \in S /\ s2 \in S /\ s3 \in S /\ s4 \in S /\ s5 \in S /\ s6 \in S /\ s7 \in S /\ s8 \in S
    <2>1. /\ Pt(-a, -b) \in [x : Int, y : Int] /\ Pt(-a, b) \in [x : Int, y : Int]
          /\ Pt(a, b) \in [x : Int, y : Int] /\ Pt(a, -b) \in [x : Int, y : Int] /\ FALSE \in BOOLEAN
        BY DEF Pt
    <2>2. /\ P[1] \in Within(W, H) /\ P[2] \in Within(W, H) /\ P[3] \in Within(W, H) /\ P[4] \in Within(W, H)
          /\ P[5] \in Within(W, H) /\ P[6] \in Within(W, H) /\ P[7] \in Within(W, H) /\ P[8] \in Within(W, H)
        BY <1>8
    <2> QED BY <2>1, <2>2, SpanTypes
<1>10. /\ s1.start = P[1] /\ s1.end = P[2] /\ ~s1.arc /\ s2.start = P[2] /\ s2.end = P[3]
       /\ s3.start = P[3] /\ s3.end = P[4] /\ ~s3.arc /\ s4.start = P[4] /\ s4.end = P[5]
       /\ s5.start = P[5] /\ s5.end = P[6] /\ ~s5.arc /\ s6.start = P[6] /\ s6.end = P[7]
       /\ s7.start = P[7] /\ s7.end = P[8] /\ ~s7.arc /\ s8.start = P[8] /\ s8.end = P[1]
    BY DEF Segment, Arc
<1>11. /\ s2.ccw = FALSE /\ s4.ccw = FALSE /\ s6.ccw = FALSE /\ s8.ccw = FALSE
    BY DEF Arc
<1>12. ArcIsValid(s2) /\ ArcIsValid(s4) /\ ArcIsValid(s6) /\ ArcIsValid(s8)
    <2>1. /\ Minus(P[2], Pt(-a, -b)) \in Radial(q) /\ Minus(P[3], Pt(-a, -b)) \in Radial(q)
          /\ Minus(P[4], Pt(-a, b)) \in Radial(q) /\ Minus(P[5], Pt(-a, b)) \in Radial(q)
          /\ Minus(P[6], Pt(a, b)) \in Radial(q) /\ Minus(P[7], Pt(a, b)) \in Radial(q)
          /\ Minus(P[8], Pt(a, -b)) \in Radial(q) /\ Minus(P[1], Pt(a, -b)) \in Radial(q)
        BY <1>2 DEF Minus, Pt, Radial
    <2> QED BY <2>1, RadialArc
<1> HIDE DEF s1, s2, s3, s4, s5, s6, s7, s8, S
<1>13. /\ c \in Seq(S) /\ Len(c) = 8
       /\ c[1] = s1 /\ c[2] = s2 /\ c[3] = s3 /\ c[4] = s4
       /\ c[5] = s5 /\ c[6] = s6 /\ c[7] = s7 /\ c[8] = s8
    BY <1>9, EightSpans
<1> HIDE DEF c
<1>14. \A i \in 1 .. 8 : c[i].start = P[i]
    BY <1>10, <1>13, OneToEight, Zenon
<1>15. /\ c[1].end = P[2] /\ c[2].end = P[3] /\ c[3].end = P[4] /\ c[4].end = P[5]
       /\ c[5].end = P[6] /\ c[6].end = P[7] /\ c[7].end = P[8] /\ c[8].end = P[1]
    BY <1>10, <1>13
<1>16. /\ After(c, 1) = c[2] /\ After(c, 2) = c[3] /\ After(c, 3) = c[4] /\ After(c, 4) = c[5]
       /\ After(c, 5) = c[6] /\ After(c, 6) = c[7] /\ After(c, 7) = c[8] /\ After(c, 8) = c[1]
    BY <1>13 DEF After
<1>17. /\ c[1].start = P[1] /\ c[2].start = P[2] /\ c[3].start = P[3] /\ c[4].start = P[4]
       /\ c[5].start = P[5] /\ c[6].start = P[6] /\ c[7].start = P[7] /\ c[8].start = P[8]
    BY <1>14
<1>18. \A i \in 1 .. 8 : c[i].end = After(c, i).start
    BY <1>15, <1>16, <1>17, OneToEight, Zenon
<1>19. \A i \in 1 .. 8 : c[i].arc => ArcIsValid(c[i]) /\ c[i].ccw = FALSE
    BY <1>10, <1>11, <1>12, <1>13, OneToEight, Zenon
<1>20. ASSUME NEW i \in 1 .. 8, NEW p \in Octagon(a, b, q)
       PROVE  Faces(Turn(c[i].start, c[i].end, p), FALSE)
    <2>1. Turn(c[i].start, c[i].end, p) <= 0
        BY <1>6, <1>15, <1>17, OneToEight, Zenon
    <2> QED BY <2>1, Zenon DEF Faces
<1>21. Convex(c, W, H, FALSE)
    <2>1. \E i \in 1 .. 8 : Turn(c[i].start, c[i].end, Origin) # 0
        <3>1. Turn(c[2].start, c[2].end, Origin) # 0
            BY <1>7, <1>15, <1>17
        <3> QED BY <3>1
    <2>2. \A i, j \in 1 .. 8 : Faces(Turn(c[i].start, c[i].end, c[j].start), FALSE)
        BY <1>4, <1>14, <1>20, Zenon
    <2>3. \A i \in 1 .. 8 : Faces(Turn(c[i].start, c[i].end, Origin), FALSE)
        BY <1>5, <1>20, Zenon
    <2>4. Len(c) = 8 /\ 8 \in 3 .. 8 /\ c \in Seq(SpansWithin(W, H))
        BY <1>13 DEF S
    <2> QED BY <1>18, <1>19, <2>1, <2>2, <2>3, <2>4, Zenon DEF Convex
<1>22. Bulges(c, FALSE)
    BY <1>13, <1>19, Zenon DEF Bulges
<1>23. Fills(c, a + q, b + q)
    <2>1. \A i \in 1 .. 8 : P[i] \in Within(a + q, b + q)
        <3>1. a + q \in Nat /\ b + q \in Nat /\ a + q <= a + q /\ b + q <= b + q
            OBVIOUS
        <3> QED BY <1>3, <3>1, Zenon
    <2>2. P[7].x = a + q /\ P[3].x = -(a + q) /\ P[5].y = b + q /\ P[1].y = -(b + q)
        BY <1>2 DEF Pt
    <2>3. 1 \in 1 .. 8 /\ 3 \in 1 .. 8 /\ 5 \in 1 .. 8 /\ 7 \in 1 .. 8 /\ Len(c) = 8
        BY <1>13
    <2> QED BY <1>14, <2>1, <2>2, <2>3, Zenon DEF Fills
<1> QED BY <1>1, <1>21, <1>22, <1>23, Zenon DEF c, s1, s2, s3, s4, s5, s6, s7, s8

LEMMA RoundRectIsConvex ==
    ASSUME NEW w \in Nat, NEW h \in Nat, w >= 2, h >= 2, 16 * (w * h) <= MaxInt,
           NEW radius \in Int, 2 * radius <= w, 2 * radius <= h
    PROVE  \E ccw \in BOOLEAN :
              /\ Convex(RoundRectOutline(w, h, radius), w, h, ccw)
              /\ Bulges(RoundRectOutline(w, h, radius), ccw)
              /\ Fills(RoundRectOutline(w, h, radius), TruncDiv(w, 2), TruncDiv(h, 2))
<1> DEFINE c == RoundRectOutline(w, h, radius)
           hw == TruncDiv(w, 2)
           hh == TruncDiv(h, 2)
           a == hw - radius
           b == hh - radius
<1>1. TRUE \in BOOLEAN /\ FALSE \in BOOLEAN
    OBVIOUS
<1>2. CASE radius <= 0
    <2>1. c = RectOutline(w, h)
        BY <1>2, Zenon DEF RoundRectOutline
    <2> QED BY <1>1, <2>1, RectIsConvex, Zenon
<1>3. CASE radius >= 1
    <2>1. hw \in Nat /\ hh \in Nat /\ 2 * hw <= w /\ w <= 2 * hw + 1 /\ 2 * hh <= h /\ h <= 2 * hh + 1
        BY HalfOf
    <2> HIDE DEF hw, hh
    <2>2. /\ a \in Nat /\ b \in Nat /\ radius \in Nat /\ a + radius = hw /\ b + radius = hh
          /\ a + radius <= w /\ b + radius <= h /\ radius \in -w .. w /\ radius \in -h .. h
          /\ ~(radius <= 0)
        BY <1>3, <2>1
    <2>3. radius * radius <= MaxInt
        <3> DEFINE m == radius * radius
                   M == w * h
        <3>1. m \in -M .. M /\ M \in Nat /\ 16 * M <= MaxInt
            BY <2>2, ProductBound
        <3> HIDE DEF m, M
        <3>2. m <= MaxInt
            BY <3>1, MaxIntAssumption
        <3> QED BY <3>2 DEF m
    <2>4. c = RoundLoop(a, b, radius)
        <3> DEFINE Loop(l, m, x, y) ==
                <<Segment(Pt(l, -y), Pt(-l, -y)), Arc(Pt(-l, -y), Pt(-x, -m), Pt(-l, -m), FALSE),
                  Segment(Pt(-x, -m), Pt(-x, m)), Arc(Pt(-x, m), Pt(-l, y), Pt(-l, m), FALSE),
                  Segment(Pt(-l, y), Pt(l, y)), Arc(Pt(l, y), Pt(x, m), Pt(l, m), FALSE),
                  Segment(Pt(x, m), Pt(x, -m)), Arc(Pt(x, -m), Pt(l, -y), Pt(l, -m), FALSE)>>
        <3>1. c = Loop(a, b, hw, hh)
            BY <2>2, Zenon DEF RoundRectOutline, hw, hh
        <3>2. \A l, m, q : RoundLoop(l, m, q) = Loop(l, m, l + q, m + q)
            <4> SUFFICES ASSUME NEW l, NEW m, NEW q
                         PROVE  RoundLoop(l, m, q) = Loop(l, m, l + q, m + q)
                OBVIOUS
            <4> DEFINE P == RoundCorners(l, m, q)
            <4>1. /\ P[1] = Pt(l, -(m + q)) /\ P[2] = Pt(-l, -(m + q))
                  /\ P[3] = Pt(-(l + q), -m) /\ P[4] = Pt(-(l + q), m)
                  /\ P[5] = Pt(-l, m + q) /\ P[6] = Pt(l, m + q)
                  /\ P[7] = Pt(l + q, m) /\ P[8] = Pt(l + q, -m)
                BY DEF RoundCorners
            <4> HIDE DEF P
            <4> QED BY <4>1, Zenon DEF RoundLoop, P
        <3> HIDE DEF Loop
        <3>3. RoundLoop(a, b, radius) = Loop(a, b, a + radius, b + radius)
            BY <3>2, Zenon
        <3> QED BY <2>2, <3>1, <3>3, Zenon
    <2> HIDE DEF a, b, c
    <2>5. /\ Convex(c, w, h, FALSE) /\ Bulges(c, FALSE)
          /\ Fills(c, a + radius, b + radius)
        BY <1>3, <2>2, <2>3, <2>4, RoundLoopIsConvex
    <2>6. Fills(c, hw, hh)
        BY <2>2, <2>5, Zenon
    <2> QED BY <1>1, <2>5, <2>6, Zenon DEF c, hw, hh
<1> QED BY <1>2, <1>3

-----------------------------------------------------------------------------
\* Every pad is one of those loops.

SoundOutline(p, outline) ==
    /\ PolygonValidity([outline |-> outline, holes |-> <<>>]) = "Valid"
    /\ Spread({c.x : c \in Corners(outline)}) = 2 * HalfSpan(p).x
    /\ Spread({c.y : c \in Corners(outline)}) = 2 * HalfSpan(p).y
    /\ \A s \in ToSet(outline) : s.arc /\ ~IsTallOval(p) => s.ccw

\* What the outline has to be before finish().
GoodLoop(p, c) ==
    \E ccw \in BOOLEAN :
        /\ Convex(c, p.w, p.h, ccw)
        /\ \E hw, hh \in Nat : HalfSpan(p) = Pt(hw, hh) /\ Fills(c, hw, hh)
        /\ ~IsTallOval(p) => Bulges(c, ccw)

LEMMA GoodLoopIsSound ==
    ASSUME NEW p, p.w \in Nat, p.h \in Nat, p.w >= 2, p.h >= 2, 16 * (p.w * p.h) <= MaxInt,
           NEW c, GoodLoop(p, c)
    PROVE  SoundOutline(p, CanonicalizeWinding(c))
<1> DEFINE W == p.w
           H == p.h
           o == CanonicalizeWinding(c)
<1>1. PICK ccw \in BOOLEAN :
        /\ Convex(c, W, H, ccw)
        /\ \E hw, hh \in Nat : HalfSpan(p) = Pt(hw, hh) /\ Fills(c, hw, hh)
        /\ ~IsTallOval(p) => Bulges(c, ccw)
    BY Zenon DEF GoodLoop
<1>2. W \in Nat /\ H \in Nat /\ W >= 1 /\ H >= 1 /\ 16 * (W * H) <= MaxInt
    OBVIOUS
<1>3. PICK hw \in Nat, hh \in Nat : HalfSpan(p) = Pt(hw, hh) /\ Fills(c, hw, hh)
    BY <1>1
<1> HIDE DEF W, H
<1>4. /\ PolygonValidity([outline |-> o, holes |-> <<>>]) = "Valid"
      /\ Bulges(c, ccw) => \A s \in ToSet(o) : s.arc => s.ccw
    BY <1>1, <1>2, CanonicalIsValid
<1>5. /\ Spread({q.x : q \in Corners(o)}) = 2 * HalfSpan(p).x
      /\ Spread({q.y : q \in Corners(o)}) = 2 * HalfSpan(p).y
    <2>1. HasExtent(o, hw, hh)
        BY <1>1, <1>2, <1>3, FilledSpread
    <2>2. HalfSpan(p).x = hw /\ HalfSpan(p).y = hh
        <3>1. Pt(hw, hh).x = hw /\ Pt(hw, hh).y = hh
            BY DEF Pt
        <3> QED BY <1>3, <3>1, Zenon
    <2> QED BY <2>1, <2>2, Zenon DEF HasExtent
<1>6. \A s \in ToSet(o) : s.arc /\ ~IsTallOval(p) => s.ccw
    BY <1>1, <1>4, Zenon
<1> HIDE DEF o
<1>7. SoundOutline(p, o)
    BY <1>4, <1>5, <1>6, Zenon DEF SoundOutline, W, H
<1> QED BY <1>7, Zenon DEF o

Raw(p) == CASE p.shape = "rect"      -> {RectOutline(p.w, p.h)}
            [] p.shape = "circle"    -> IF p.w = p.h THEN {CircleOutline(p.w)} ELSE {}
            [] p.shape = "oval"      -> {OvalOutline(p.w, p.h)}
            [] p.shape = "roundrect" -> {RoundRectOutline(p.w, p.h, p.radius)}
            [] p.shape = "trapezoid" -> {TrapezoidOutline(p.w, p.h, p.dx, p.dy)}

LEMMA RawIs ==
    ASSUME NEW p
    PROVE  /\ p.shape = "rect" => Raw(p) = {RectOutline(p.w, p.h)}
           /\ p.shape = "circle" => Raw(p) = IF p.w = p.h THEN {CircleOutline(p.w)} ELSE {}
           /\ p.shape = "oval" => Raw(p) = {OvalOutline(p.w, p.h)}
           /\ p.shape = "roundrect" => Raw(p) = {RoundRectOutline(p.w, p.h, p.radius)}
           /\ p.shape = "trapezoid" => Raw(p) = {TrapezoidOutline(p.w, p.h, p.dx, p.dy)}
<1>1. CASE p.shape = "rect"
    BY <1>1, Zenon DEF Raw
<1>2. CASE p.shape = "circle"
    BY <1>2, Zenon DEF Raw
<1>3. CASE p.shape = "oval"
    BY <1>3, Zenon DEF Raw
<1>4. CASE p.shape = "roundrect"
    BY <1>4, Zenon DEF Raw
<1>5. CASE p.shape = "trapezoid"
    BY <1>5, Zenon DEF Raw
<1> QED BY <1>1, <1>2, <1>3, <1>4, <1>5, Zenon

LEMMA OvalIs ==
    ASSUME NEW w \in Nat, NEW h \in Nat
    PROVE  /\ w = h => OvalOutline(w, h) = CircleOutline(w)
           /\ w > h => OvalOutline(w, h) = WideOval(w, h)
           /\ w < h => OvalOutline(w, h) = MapPoints(LAMBDA p : Pt(p.y, p.x), WideOval(h, w))
<1>1. CASE w = h
    <2>1. ~(w > h) /\ ~(w < h)
        BY <1>1
    <2> QED BY <1>1, <2>1, Zenon DEF OvalOutline
<1>2. CASE w > h
    <2>1. ~(w = h) /\ ~(w < h)
        BY <1>2
    <2> QED BY <1>2, <2>1, Zenon DEF OvalOutline
<1>3. CASE w < h
    <2>1. ~(w = h) /\ ~(w > h)
        BY <1>3
    <2> QED BY <1>3, <2>1, Zenon DEF OvalOutline
<1> QED BY <1>1, <1>2, <1>3, Zenon

\* How far the corners of trapezoids and ovals reach.

\* The lengths of a trapezoid's parallel sides: the longer is the half and delta's.
LEMMA ParallelSides ==
    ASSUME NEW d \in Nat, NEW t \in -d .. d
    PROVE  LET m == d + AbsOf(t)
           IN  /\ m \in Nat
               /\ d - t \in -m .. m /\ -(d - t) \in -m .. m
               /\ d + t \in -m .. m /\ -(d + t) \in -m .. m
               /\ m = d + t \/ m = d - t
BY DEF AbsOf

LEMMA UprightTrapezoidFills ==
    ASSUME NEW w \in Nat, NEW h \in Nat, w >= 2, h >= 2, NEW dx \in -h .. h, NEW dy \in -w .. w, dx # 0
    PROVE  /\ Fills(TrapezoidOutline(w, h, dx, dy), TruncDiv(w, 2), TruncDiv(h, 2) + AbsOf(TruncDiv(dx, 2)))
           /\ TruncDiv(h, 2) + AbsOf(TruncDiv(dx, 2)) \in Nat
<1> DEFINE c  == TrapezoidOutline(w, h, dx, dy)
           hw == TruncDiv(w, 2)
           hh == TruncDiv(h, 2)
           tx == TruncDiv(dx, 2)
           v  == hh - tx
           z  == hh + tx
           m  == hh + AbsOf(tx)
           p1 == Pt(hw, -v)
           p2 == Pt(hw, v)
           p3 == Pt(-hw, z)
           p4 == Pt(-hw, -z)
<1>1. c = ClosedLoop(<<p1, p2, p3, p4>>)
    BY DEF TrapezoidOutline
<1>2. hw \in Nat /\ hh \in Nat
    BY Halves
<1>3. tx \in -hh .. hh
    BY SignedHalf
<1> HIDE DEF c, hw, hh, tx
<1>4. /\ m \in Nat /\ v \in -m .. m /\ -v \in -m .. m /\ z \in -m .. m /\ -z \in -m .. m
      /\ m = z \/ m = v
    BY <1>2, <1>3, ParallelSides
<1>5. hw \in -hw .. hw /\ -hw \in -hw .. hw
    BY <1>2
<1> HIDE DEF m, v, z
<1>6. /\ p1 \in Within(hw, m) /\ p2 \in Within(hw, m) /\ p3 \in Within(hw, m) /\ p4 \in Within(hw, m)
      /\ p1.x = hw /\ p3.x = -hw /\ p1.y = -v /\ p2.y = v /\ p3.y = z /\ p4.y = -z
    BY <1>2, <1>4, <1>5, PtWithin
<1> HIDE DEF p1, p2, p3, p4
<1>7. /\ Len(c) = 4
      /\ c[1].start = p1 /\ c[2].start = p2 /\ c[3].start = p3 /\ c[4].start = p4
    <2>1. StraightQuad(ClosedLoop(<<p1, p2, p3, p4>>), hw, m, p1, p2, p3, p4)
        BY <1>2, <1>4, <1>6, ClosedQuad
    <2>2. StraightQuad(c, hw, m, p1, p2, p3, p4)
        BY <1>1, <2>1, Zenon
    <2> QED BY <2>2 DEF StraightQuad
<1>8. Fills(c, hw, m)
    BY <1>2, <1>4, <1>6, <1>7 DEF Fills
<1> QED BY <1>4, <1>8 DEF c, hw, hh, tx, m

LEMMA LevelTrapezoidFills ==
    ASSUME NEW w \in Nat, NEW h \in Nat, w >= 2, h >= 2, NEW dx \in -h .. h, NEW dy \in -w .. w, dx = 0
    PROVE  /\ Fills(TrapezoidOutline(w, h, dx, dy), TruncDiv(w, 2) + AbsOf(TruncDiv(dy, 2)), TruncDiv(h, 2))
           /\ TruncDiv(w, 2) + AbsOf(TruncDiv(dy, 2)) \in Nat
<1> DEFINE c  == TrapezoidOutline(w, h, dx, dy)
           hw == TruncDiv(w, 2)
           hh == TruncDiv(h, 2)
           ty == TruncDiv(dy, 2)
           v  == hw - ty
           z  == hw + ty
           m  == hw + AbsOf(ty)
           p1 == Pt(v, -hh)
           p2 == Pt(-v, -hh)
           p3 == Pt(-z, hh)
           p4 == Pt(z, hh)
<1>1. c = ClosedLoop(<<p1, p2, p3, p4>>)
    BY DEF TrapezoidOutline
<1>2. hw \in Nat /\ hh \in Nat
    BY Halves
<1>3. ty \in -hw .. hw
    BY SignedHalf
<1> HIDE DEF c, hw, hh, ty
<1>4. /\ m \in Nat /\ v \in -m .. m /\ -v \in -m .. m /\ z \in -m .. m /\ -z \in -m .. m
      /\ m = z \/ m = v
    BY <1>2, <1>3, ParallelSides
<1>5. hh \in -hh .. hh /\ -hh \in -hh .. hh
    BY <1>2
<1> HIDE DEF m, v, z
<1>6. /\ p1 \in Within(m, hh) /\ p2 \in Within(m, hh) /\ p3 \in Within(m, hh) /\ p4 \in Within(m, hh)
      /\ p1.x = v /\ p2.x = -v /\ p3.x = -z /\ p4.x = z /\ p1.y = -hh /\ p3.y = hh
    BY <1>2, <1>4, <1>5, PtWithin
<1> HIDE DEF p1, p2, p3, p4
<1>7. /\ Len(c) = 4
      /\ c[1].start = p1 /\ c[2].start = p2 /\ c[3].start = p3 /\ c[4].start = p4
    <2>1. StraightQuad(ClosedLoop(<<p1, p2, p3, p4>>), m, hh, p1, p2, p3, p4)
        BY <1>2, <1>4, <1>6, ClosedQuad
    <2>2. StraightQuad(c, m, hh, p1, p2, p3, p4)
        BY <1>1, <2>1, Zenon
    <2> QED BY <2>2 DEF StraightQuad
<1>8. Fills(c, m, hh)
    BY <1>2, <1>4, <1>6, <1>7 DEF Fills
<1> QED BY <1>4, <1>8 DEF c, hw, hh, ty, m

LEMMA WideOvalFills ==
    ASSUME NEW w \in Nat, NEW h \in Nat, h >= 2, w - h >= 2
    PROVE  /\ Fills(WideOval(w, h), TruncDiv(w - h, 2), TruncDiv(h, 2))
           /\ TruncDiv(w - h, 2) \in Nat
<1> DEFINE r == TruncDiv(h, 2)
           f == TruncDiv(w - h, 2)
           p1 == Pt(f, -r)
           p2 == Pt(-f, -r)
           p3 == Pt(-f, r)
           p4 == Pt(f, r)
           c == <<Segment(p1, p2), Arc(p2, p3, Pt(-f, 0), FALSE),
                  Segment(p3, p4), Arc(p4, p1, Pt(f, 0), FALSE)>>
<1>1. WideOval(w, h) = c
    BY DEF WideOval
<1>2. r \in Nat /\ f \in Nat
    <2>1. w - h \in Nat
        OBVIOUS
    <2> QED BY <2>1, HalfOf
<1> HIDE DEF r, f
<1>3. f \in -f .. f /\ -f \in -f .. f /\ r \in -r .. r /\ -r \in -r .. r
    BY <1>2
<1>4. /\ p1 \in Within(f, r) /\ p2 \in Within(f, r) /\ p3 \in Within(f, r) /\ p4 \in Within(f, r)
      /\ p1.x = f /\ p2.x = -f /\ p1.y = -r /\ p3.y = r
    BY <1>2, <1>3, PtWithin
<1>5. Len(c) = 4 /\ c[1].start = p1 /\ c[2].start = p2 /\ c[3].start = p3 /\ c[4].start = p4
    <2> HIDE DEF p1, p2, p3, p4
    <2>1. /\ c[1] = Segment(p1, p2) /\ c[2] = Arc(p2, p3, Pt(-f, 0), FALSE)
          /\ c[3] = Segment(p3, p4) /\ c[4] = Arc(p4, p1, Pt(f, 0), FALSE) /\ Len(c) = 4
        OBVIOUS
    <2> HIDE DEF c
    <2>2. c[1].start = p1 /\ c[3].start = p3
        BY <2>1, SpanStarts
    <2>3. c[2].start = p2 /\ c[4].start = p4
        <3> DEFINE left  == Arc(p2, p3, Pt(-f, 0), FALSE)
                   right == Arc(p4, p1, Pt(f, 0), FALSE)
        <3>1. left.start = p2 /\ right.start = p4
            BY DEF Arc
        <3>2. c[2] = left /\ c[4] = right
            BY <2>1, Zenon
        <3> HIDE DEF left, right
        <3> QED BY <3>1, <3>2
    <2> QED BY <2>1, <2>2, <2>3, Zenon
<1> HIDE DEF p1, p2, p3, p4, c
<1>6. Fills(c, f, r)
    BY <1>2, <1>4, <1>5 DEF Fills
<1> QED BY <1>1, <1>2, <1>6, Zenon DEF f, r

LEMMA TallOvalFills ==
    ASSUME NEW w \in Nat, NEW h \in Nat, w >= 2, h - w >= 2
    PROVE  /\ Fills(MapPoints(LAMBDA p : Pt(p.y, p.x), WideOval(h, w)), TruncDiv(w, 2), TruncDiv(h - w, 2))
           /\ TruncDiv(h - w, 2) \in Nat
<1> DEFINE r == TruncDiv(w, 2)
           f == TruncDiv(h - w, 2)
           wide == WideOval(h, w)
           F(p) == Pt(p.y, p.x)
           swapped == MapPoints(LAMBDA p : Pt(p.y, p.x), WideOval(h, w))
<1>1. /\ Fills(wide, f, r) /\ f \in Nat /\ r \in Nat
    BY WideOvalFills, HalfOf
<1>2. Len(wide) = 4 /\ DOMAIN wide = 1 .. 4
    BY DEF WideOval
<1>3. swapped = [i \in DOMAIN wide |->
            IF wide[i].arc THEN Arc(F(wide[i].start), F(wide[i].end), F(wide[i].center), wide[i].ccw)
            ELSE Segment(F(wide[i].start), F(wide[i].end))]
    BY Zenon DEF MapPoints
<1> HIDE DEF wide, swapped, r, f
<1>4. \A i \in 1 .. 4 : swapped[i].start = F(wide[i].start)
    <2> SUFFICES ASSUME NEW i \in 1 .. 4 PROVE swapped[i].start = F(wide[i].start)
        OBVIOUS
    <2> HIDE DEF F
    <2>1. swapped[i] = IF wide[i].arc THEN Arc(F(wide[i].start), F(wide[i].end), F(wide[i].center), wide[i].ccw)
                       ELSE Segment(F(wide[i].start), F(wide[i].end))
        BY <1>2, <1>3
    <2> QED BY <2>1, SpanStarts
<1>5. Len(swapped) = 4
    <2>1. DOMAIN swapped = 1 .. 4
        BY <1>2, <1>3
    <2>2. swapped \in Seq({swapped[i] : i \in 1 .. 4})
        <3>1. swapped = [i \in 1 .. 4 |-> swapped[i]]
            BY <1>2, <1>3
        <3> QED BY <3>1
    <2> QED BY <2>1, <2>2
<1>6. \A q \in Within(f, r) : F(q) \in Within(r, f) /\ F(q).x = q.y /\ F(q).y = q.x
    BY DEF Within, Pt
<1> HIDE DEF F
<1>7. \A i \in 1 .. 4 : wide[i].start \in Within(f, r)
    BY <1>1, <1>2 DEF Fills
<1>8. \A i \in 1 .. 4 : /\ swapped[i].start \in Within(r, f)
                         /\ swapped[i].start.x = wide[i].start.y
                         /\ swapped[i].start.y = wide[i].start.x
    BY <1>4, <1>6, <1>7
<1>9. Fills(swapped, r, f)
    BY <1>1, <1>2, <1>5, <1>8 DEF Fills
<1> QED BY <1>1, <1>9, Zenon DEF swapped, r, f

LEMMA HalfSpanIs ==
    ASSUME NEW p
    PROVE  /\ p.shape \in {"rect", "circle", "roundrect"} =>
                  HalfSpan(p) = Pt(TruncDiv(p.w, 2), TruncDiv(p.h, 2))
           /\ p.shape = "oval" /\ ~(p.w > p.h) /\ ~(p.w < p.h) =>
                  HalfSpan(p) = Pt(TruncDiv(p.w, 2), TruncDiv(p.h, 2))
           /\ p.shape = "oval" /\ p.w > p.h /\ ~(p.w < p.h) =>
                  HalfSpan(p) = Pt(TruncDiv(p.w - p.h, 2), TruncDiv(p.h, 2))
           /\ p.shape = "oval" /\ p.w < p.h /\ ~(p.w > p.h) =>
                  HalfSpan(p) = Pt(TruncDiv(p.w, 2), TruncDiv(p.h - p.w, 2))
           /\ p.shape = "trapezoid" /\ p.dx # 0 =>
                  HalfSpan(p) = Pt(TruncDiv(p.w, 2), TruncDiv(p.h, 2) + AbsOf(TruncDiv(p.dx, 2)))
           /\ p.shape = "trapezoid" /\ p.dx = 0 =>
                  HalfSpan(p) = Pt(TruncDiv(p.w, 2) + AbsOf(TruncDiv(p.dy, 2)), TruncDiv(p.h, 2))
<1>1. CASE p.shape = "rect"
    BY <1>1, Zenon DEF HalfSpan
<1>2. CASE p.shape = "circle"
    BY <1>2, Zenon DEF HalfSpan
<1>3. CASE p.shape = "roundrect"
    BY <1>3, Zenon DEF HalfSpan
<1>4. CASE p.shape = "oval"
    <2>1. CASE ~(p.w > p.h) /\ ~(p.w < p.h)
        BY <1>4, <2>1, Zenon DEF HalfSpan
    <2>2. CASE p.w > p.h /\ ~(p.w < p.h)
        BY <1>4, <2>2, Zenon DEF HalfSpan
    <2>3. CASE p.w < p.h /\ ~(p.w > p.h)
        BY <1>4, <2>3, Zenon DEF HalfSpan
    <2>4. CASE p.w > p.h /\ p.w < p.h
        BY <1>4, <2>4, Zenon
    <2> QED BY <2>1, <2>2, <2>3, <2>4, Zenon
<1>5. CASE p.shape = "trapezoid"
    <2>1. CASE p.dx # 0
        BY <1>5, <2>1, Zenon DEF HalfSpan
    <2>2. CASE p.dx = 0
        BY <1>5, <2>2, Zenon DEF HalfSpan
    <2> QED BY <1>5, <2>1, <2>2, Zenon
<1>6. CASE p.shape \notin {"rect", "circle", "roundrect", "oval", "trapezoid"}
    BY <1>6, Zenon
<1> QED BY <1>1, <1>2, <1>3, <1>4, <1>5, <1>6, Zenon

LEMMA EveryPadIsGood ==
    ASSUME NEW p \in PadParams, NEW c \in Raw(p)
    PROVE  GoodLoop(p, c)
<1> DEFINE w == p.w
           h == p.h
<1>1. /\ p.shape \in {"rect", "circle", "oval", "roundrect", "trapezoid"}
      /\ w \in Nat /\ h \in Nat /\ p.radius \in Int /\ p.dx \in Int /\ p.dy \in Int
      /\ w >= 2 /\ h >= 2 /\ 16 * (w * h) <= MaxInt
      /\ 2 * p.radius <= w /\ 2 * p.radius <= h
      /\ -h <= p.dx /\ p.dx <= h /\ -w <= p.dy /\ p.dy <= w
      /\ p.shape = "oval" => w - h \notin {-1, 1}
    BY PadsAssumption, Zenon
<1> HIDE DEF w, h
<1>2. TRUE \in BOOLEAN /\ FALSE \in BOOLEAN
    OBVIOUS
<1>a. TruncDiv(w, 2) \in Nat /\ TruncDiv(h, 2) \in Nat
    BY <1>1, HalfOf
<1>3. ASSUME NEW ccw \in BOOLEAN, Convex(c, w, h, ccw), ~IsTallOval(p) => Bulges(c, ccw),
             NEW hw \in Nat, NEW hh \in Nat, HalfSpan(p) = Pt(hw, hh), Fills(c, hw, hh)
      PROVE  GoodLoop(p, c)
    BY <1>3, Zenon DEF GoodLoop, w, h
<1>4. CASE p.shape = "rect"
    <2>1. c = RectOutline(w, h)
        BY <1>4, RawIs DEF w, h
    <2>2. Convex(c, w, h, TRUE) /\ Bulges(c, TRUE) /\ Fills(c, TruncDiv(w, 2), TruncDiv(h, 2))
        BY <1>1, <2>1, RectIsConvex
    <2>3. HalfSpan(p) = Pt(TruncDiv(w, 2), TruncDiv(h, 2))
        BY <1>4, HalfSpanIs, Zenon DEF w, h
    <2> QED BY <1>2, <1>3, <1>a, <2>2, <2>3, Zenon
<1>5. CASE p.shape = "circle"
    <2>1. c = CircleOutline(w) /\ w = h
        BY <1>5, RawIs DEF w, h
    <2>2. 16 * (w * w) <= MaxInt
        BY <1>1, <2>1
    <2>3. Convex(c, w, w, TRUE) /\ Bulges(c, TRUE) /\ Fills(c, TruncDiv(w, 2), TruncDiv(w, 2))
        BY <1>1, <2>1, <2>2, CircleIsConvex
    <2>4. Convex(c, w, h, TRUE) /\ Fills(c, TruncDiv(w, 2), TruncDiv(h, 2))
        BY <2>1, <2>3, Zenon
    <2>5. HalfSpan(p) = Pt(TruncDiv(w, 2), TruncDiv(h, 2))
        BY <1>5, HalfSpanIs, Zenon DEF w, h
    <2> QED BY <1>2, <1>3, <1>a, <2>3, <2>4, <2>5, Zenon
<1>6. CASE p.shape = "oval"
    <2>1. c = OvalOutline(w, h)
        BY <1>6, RawIs DEF w, h
    <2>2. CASE w = h
        <3>1. c = CircleOutline(w) /\ 16 * (w * w) <= MaxInt
            BY <1>1, <2>1, <2>2, OvalIs
        <3>2. Convex(c, w, w, TRUE) /\ Bulges(c, TRUE) /\ Fills(c, TruncDiv(w, 2), TruncDiv(w, 2))
            BY <1>1, <3>1, CircleIsConvex
        <3>3. Convex(c, w, h, TRUE) /\ Fills(c, TruncDiv(w, 2), TruncDiv(h, 2))
            BY <2>2, <3>2, Zenon
        <3>4. ~(w > h) /\ ~(w < h)
            BY <1>1, <2>2
        <3>5. HalfSpan(p) = Pt(TruncDiv(w, 2), TruncDiv(h, 2))
            BY <1>6, <3>4, HalfSpanIs, Zenon DEF w, h
        <3> QED BY <1>2, <1>3, <1>a, <3>2, <3>3, <3>5, Zenon
    <2>3. CASE w > h
        <3>1. c = WideOval(w, h) /\ w - h >= 2
            <4>1. c = WideOval(w, h)
                BY <1>1, <2>1, <2>3, OvalIs, Zenon
            <4>2. w - h >= 2
                BY <1>1, <1>6, <2>3
            <4> QED BY <4>1, <4>2
        <3>2. Convex(c, w, h, FALSE) /\ Bulges(c, FALSE)
            BY <1>1, <3>1, WideOvalIsConvex
        <3>3. Fills(c, TruncDiv(w - h, 2), TruncDiv(h, 2)) /\ TruncDiv(w - h, 2) \in Nat
            BY <1>1, <3>1, WideOvalFills
        <3>4. HalfSpan(p) = Pt(TruncDiv(w - h, 2), TruncDiv(h, 2))
            <4>1. ~(w < h)
                BY <1>1, <2>3
            <4> QED BY <1>6, <2>3, <4>1, HalfSpanIs, Zenon DEF w, h
        <3> QED BY <1>2, <1>3, <1>a, <3>2, <3>3, <3>4, Zenon
    <2>4. CASE w < h
        <3>1. h - w >= 2
            BY <1>1, <1>6, <2>4
        <3>2. c = MapPoints(LAMBDA q : Pt(q.y, q.x), WideOval(h, w))
            BY <1>1, <2>1, <2>4, OvalIs, Zenon
        <3>3. Convex(MapPoints(LAMBDA q : Pt(q.y, q.x), WideOval(h, w)), w, h, TRUE)
            BY <1>1, <3>1, TallOvalIsConvex
        <3>4. Convex(c, w, h, TRUE)
            BY <3>2, <3>3, Zenon
        <3>5. IsTallOval(p)
            BY <1>6, <2>4 DEF IsTallOval, w, h
        <3>6. Fills(c, TruncDiv(w, 2), TruncDiv(h - w, 2)) /\ TruncDiv(h - w, 2) \in Nat
            <4>1. /\ Fills(MapPoints(LAMBDA q : Pt(q.y, q.x), WideOval(h, w)), TruncDiv(w, 2), TruncDiv(h - w, 2))
                  /\ TruncDiv(h - w, 2) \in Nat
                BY <1>1, <3>1, TallOvalFills
            <4> QED BY <3>2, <4>1, Zenon
        <3>7. HalfSpan(p) = Pt(TruncDiv(w, 2), TruncDiv(h - w, 2))
            <4>1. ~(w > h)
                BY <1>1, <2>4
            <4> QED BY <1>6, <2>4, <4>1, HalfSpanIs, Zenon DEF w, h
        <3> QED BY <1>2, <1>3, <1>a, <3>4, <3>5, <3>6, <3>7, Zenon
    <2> QED BY <1>1, <2>2, <2>3, <2>4
<1>7. CASE p.shape = "roundrect"
    <2> DEFINE radius == p.radius
    <2>1. c = RoundRectOutline(w, h, radius)
        BY <1>7, RawIs DEF w, h
    <2>2. radius \in Int /\ 2 * radius <= w /\ 2 * radius <= h
        BY <1>1
    <2> HIDE DEF radius
    <2>3. \E ccw \in BOOLEAN : /\ Convex(c, w, h, ccw) /\ Bulges(c, ccw)
                               /\ Fills(c, TruncDiv(w, 2), TruncDiv(h, 2))
        BY <1>1, <2>1, <2>2, RoundRectIsConvex
    <2>4. HalfSpan(p) = Pt(TruncDiv(w, 2), TruncDiv(h, 2))
        BY <1>7, HalfSpanIs, Zenon DEF w, h
    <2> QED BY <1>3, <1>a, <2>3, <2>4, Zenon
<1>8. CASE p.shape = "trapezoid"
    <2> DEFINE dx == p.dx
               dy == p.dy
    <2>1. c = TrapezoidOutline(w, h, dx, dy)
        BY <1>8, RawIs DEF w, h
    <2>2. dx \in -h .. h /\ dy \in -w .. w
        BY <1>1
    <2> HIDE DEF dx, dy
    <2>3. \E ccw \in BOOLEAN : Convex(c, w, h, ccw) /\ Bulges(c, ccw)
        BY <1>1, <2>1, <2>2, TrapezoidIsConvex
    <2>4. \E hw, hh \in Nat : HalfSpan(p) = Pt(hw, hh) /\ Fills(c, hw, hh)
        <3>1. CASE dx # 0
            <4>1. /\ Fills(c, TruncDiv(w, 2), TruncDiv(h, 2) + AbsOf(TruncDiv(dx, 2)))
                  /\ TruncDiv(h, 2) + AbsOf(TruncDiv(dx, 2)) \in Nat
                BY <1>1, <2>1, <2>2, <3>1, UprightTrapezoidFills
            <4>2. HalfSpan(p) = Pt(TruncDiv(w, 2), TruncDiv(h, 2) + AbsOf(TruncDiv(dx, 2)))
                BY <1>8, <3>1, HalfSpanIs, Zenon DEF w, h, dx
            <4> QED BY <1>a, <4>1, <4>2, Zenon
        <3>2. CASE dx = 0
            <4>1. /\ Fills(c, TruncDiv(w, 2) + AbsOf(TruncDiv(dy, 2)), TruncDiv(h, 2))
                  /\ TruncDiv(w, 2) + AbsOf(TruncDiv(dy, 2)) \in Nat
                BY <1>1, <2>1, <2>2, <3>2, LevelTrapezoidFills
            <4>2. HalfSpan(p) = Pt(TruncDiv(w, 2) + AbsOf(TruncDiv(dy, 2)), TruncDiv(h, 2))
                BY <1>8, <3>2, HalfSpanIs, Zenon DEF w, h, dx, dy
            <4> QED BY <1>a, <4>1, <4>2, Zenon
        <3> QED BY <3>1, <3>2
    <2> QED BY <1>3, <2>3, <2>4, Zenon
<1> QED BY <1>1, <1>4, <1>5, <1>6, <1>7, <1>8

LEMMA EveryPadIsSound ==
    ASSUME NEW p \in PadParams
    PROVE  /\ PadOutline(p) = {} <=> p.shape = "circle" /\ p.w # p.h
           /\ \A outline \in PadOutline(p) : SoundOutline(p, outline)
<1>1. PadOutline(p) = {CanonicalizeWinding(c) : c \in Raw(p)}
    BY Zenon DEF PadOutline, Raw
<1>2. p.shape \in {"rect", "circle", "oval", "roundrect", "trapezoid"}
    BY PadsAssumption, Zenon
<1>3. Raw(p) = {} <=> p.shape = "circle" /\ p.w # p.h
    BY <1>2, RawIs
<1>4. /\ p.w \in Nat /\ p.h \in Nat /\ p.w >= 2 /\ p.h >= 2 /\ 16 * (p.w * p.h) <= MaxInt
    BY PadsAssumption, Zenon
<1>5. \A c \in Raw(p) : SoundOutline(p, CanonicalizeWinding(c))
    BY <1>4, EveryPadIsGood, GoodLoopIsSound, Zenon
<1> QED BY <1>1, <1>3, <1>5

\* pad_shape.cpp: whatever the shape, every pad outline is a valid counterclockwise
\* polygon whose corners span what HalfSpan says, of an oval where its caps begin; no
\* chord of it crosses another, no product of the tests overflows, and
\* canonicalize_winding never meets a degenerate loop.  Its arcs bulge outwards unless
\* it is an oval taller than wide, whose caps do not: see CapsBulgeOutward.  All this
\* within PadsAssumption, which is narrower than what the importer lets through and
\* than what pad_shape.hpp:36 says of every outline.
THEOREM PadOutlinesAreSound == Spec => []PadOutlineSound
<1>1. Init => PadOutlineSound
    BY DEF Init, PadOutlineSound
<1>2. PadOutlineSound /\ [Next]_vars => PadOutlineSound'
    <2> SUFFICES ASSUME PadOutlineSound, [Next]_vars PROVE PadOutlineSound'
        OBVIOUS
    <2>1. CASE IndexCall \/ UNCHANGED vars
        <3>1. UNCHANGED call
            BY <2>1 DEF IndexCall, vars
        <3> QED BY <3>1, Zenon DEF PadOutlineSound
    <2>2. CASE PadCall
        <3>1. PICK p \in PadParams : Return("pad", <<p>>, PadOutline(p))
            BY <2>2 DEF PadCall
        <3>2. call'.args[1] = p /\ call'.result = PadOutline(p)
            BY <3>1 DEF Return
        <3>3. /\ PadOutline(p) = {} <=> p.shape = "circle" /\ p.w # p.h
              /\ \A outline \in PadOutline(p) : SoundOutline(p, outline)
            BY EveryPadIsSound
        <3> QED BY <3>2, <3>3, Zenon DEF PadOutlineSound, SoundOutline
    <2>3. CASE ArithCall \/ UnitCall \/ ContourCall
        <3>1. call'.op # "pad"
            BY <2>3 DEF ArithCall, UnitCall, ContourCall, Return
        <3> QED BY <3>1, Zenon DEF PadOutlineSound
    <2> QED BY <2>1, <2>2, <2>3, Zenon DEF Next
<1> QED BY <1>1, <1>2, PTL DEF Spec
=============================================================================
