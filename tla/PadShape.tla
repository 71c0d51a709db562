------------------------------ MODULE PadShape ------------------------------
(***************************************************************************)
(* kicad/pad_shape.cpp: the outline of a pad, centred at the origin, from  *)
(* KiCad's five parametric shapes.  Parameters: [shape, w, h, radius, dx,  *)
(* dy]; {} is the ImportError of a circle that is not round.               *)
(***************************************************************************)
EXTENDS Contours

\* build_rect
RectOutline(w, h) ==
    LET hw == TruncDiv(w, 2)
        hh == TruncDiv(h, 2)
    IN  ClosedLoop(<<Pt(hw, -hh), Pt(hw, hh), Pt(-hw, hh), Pt(-hw, -hh)>>)

\* build_circle: four quarter arcs
CircleOutline(d) ==
    LET r == TruncDiv(d, 2)
        Cardinal(i) == RotatePoint(Pt(r, 0), i % 4)
    IN  [i \in 1 .. 4 |-> Arc(Cardinal(i - 1), Cardinal(i), Origin, TRUE)]

\* build_oval, the wide case; the tall one swaps x and y of every point and
\* leaves the arcs' directions as they are.
WideOval(major, minor) ==
    LET r == TruncDiv(minor, 2)
        f == TruncDiv(major - minor, 2)
    IN  <<Segment(Pt(f, -r), Pt(-f, -r)), Arc(Pt(-f, -r), Pt(-f, r), Pt(-f, 0), FALSE),
          Segment(Pt(-f, r), Pt(f, r)), Arc(Pt(f, r), Pt(f, -r), Pt(f, 0), FALSE)>>

OvalOutline(w, h) ==
    CASE w = h -> CircleOutline(w)
      [] w > h -> WideOval(w, h)
      [] w < h -> MapPoints(LAMBDA p : Pt(p.y, p.x), WideOval(h, w))

\* build_roundrect: corners in travelling order, each arc centred radius inwards
RoundRectOutline(w, h, radius) ==
    LET hw == TruncDiv(w, 2)
        hh == TruncDiv(h, 2)
        a  == hw - radius
        b  == hh - radius
        Corner(from, to, cx, cy) == Arc(from, to, Pt(cx, cy), FALSE)
    IN  IF radius <= 0 THEN RectOutline(w, h)
        ELSE <<Segment(Pt(a, -hh), Pt(-a, -hh)), Corner(Pt(-a, -hh), Pt(-hw, -b), -a, -b),
               Segment(Pt(-hw, -b), Pt(-hw, b)), Corner(Pt(-hw, b), Pt(-a, hh), -a, b),
               Segment(Pt(-a, hh), Pt(a, hh)),   Corner(Pt(a, hh), Pt(hw, b), a, b),
               Segment(Pt(hw, b), Pt(hw, -b)),   Corner(Pt(hw, -b), Pt(a, -hh), a, -b)>>

\* build_trapezoid: dx shears the vertical edges, else dy the horizontal ones
TrapezoidOutline(w, h, dx, dy) ==
    LET hw == TruncDiv(w, 2)
        hh == TruncDiv(h, 2)
        rh == hh - TruncDiv(dx, 2)
        lh == hh + TruncDiv(dx, 2)
        tw == hw + TruncDiv(dy, 2)
        bw == hw - TruncDiv(dy, 2)
    IN  IF dx # 0
        THEN ClosedLoop(<<Pt(hw, -rh), Pt(hw, rh), Pt(-hw, lh), Pt(-hw, -lh)>>)
        ELSE ClosedLoop(<<Pt(bw, -hh), Pt(-bw, -hh), Pt(-tw, hh), Pt(tw, hh)>>)

\* build_pad_outline, with finish() at the end of every builder
PadOutline(p) ==
    LET raw == CASE p.shape = "rect"      -> {RectOutline(p.w, p.h)}
                 [] p.shape = "circle"    -> IF p.w = p.h THEN {CircleOutline(p.w)} ELSE {}
                 [] p.shape = "oval"      -> {OvalOutline(p.w, p.h)}
                 [] p.shape = "roundrect" -> {RoundRectOutline(p.w, p.h, p.radius)}
                 [] p.shape = "trapezoid" -> {TrapezoidOutline(p.w, p.h, p.dx, p.dy)}
    IN  {CanonicalizeWinding(outline) : outline \in raw}
=============================================================================
