-------------------------- MODULE MCGeometryCalls ---------------------------
(***************************************************************************)
(* An 11-bit word (-1024 .. 1023), two fraction digits, cells two units    *)
(* wide, and boxes on both sides of zero.                                  *)
(***************************************************************************)
EXTENDS GeometryCalls

Interval == {<<-3, -3>>, <<-2, -1>>, <<-1, 0>>, <<0, 3>>, <<1, 0>>}

MCBoxes == {[minx |-> i[1], maxx |-> i[2], miny |-> j[1], maxy |-> j[2]] :
                i \in Interval, j \in {<<-3, -2>>, <<-1, 1>>}}

MCNumbers == (MinInt .. MinInt + 1) \cup {-33, -32, -31} \cup (-3 .. 3)
                \cup {31, 32, 33, 340, 341, 342} \cup (MaxInt - 1 .. MaxInt)

Digits(n, D) == UNION {[1 .. k -> D] : k \in 0 .. n}

MCTexts == [sign : {"", "-", "+"}, whole : Digits(2, {0, 1}), fraction : Digits(4, {0, 4, 5, 9})]

Sizes == {2, 3, 4, 6}

MCPadParams ==
    {p \in [shape : {"rect", "circle", "oval", "roundrect", "trapezoid"}, w : Sizes, h : Sizes,
            radius : 0 .. 1, dx : {-2, 0, 2}, dy : {0, 2}] :
        /\ p.shape # "roundrect" => p.radius = 0
        /\ p.shape # "trapezoid" => p.dx = 0 /\ p.dy = 0
        /\ p.shape = "oval" => p.w - p.h \notin {-1, 1}}

Grid == {Pt(-1, -1), Pt(1, -1), Pt(1, 1), Pt(-1, 1), Pt(1, 0)}

\* Loops, the same with the second span bent about the origin (a valid arc between
\* corners of the square only), and all of these with the first span missing
MCLoops == LET closed == {ClosedLoop(c) : c \in [1 .. 3 -> Grid] \cup [1 .. 4 -> Grid]}
               bent   == {[l EXCEPT ![2] = Arc(@.start, @.end, Origin, TRUE)] : l \in closed}
               loops  == closed \cup bent
           IN  loops \cup {SubSeq(l, 2, Len(l)) : l \in loops}

MCPoints == {Pt(x, y) : x \in -1 .. 1, y \in {-1, 0}}
=============================================================================
