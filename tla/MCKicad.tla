------------------------------ MODULE MCKicad -------------------------------
\* Boards as KiCad writes them: one with everything, and that board with one thing
\* about it changed.
EXTENDS Kicad

MCNetNames == <<"GND", "VCC">>

MCLattice == -7 .. 7

Line(a, b) == [tag |-> "gr_line", start |-> a, mid |-> a, end |-> b, layer |-> "Edge.Cuts"]

Bow(a, m, b) == [tag |-> "gr_arc", start |-> a, mid |-> m, end |-> b, layer |-> "Edge.Cuts"]

\* A D: the arc of the unit (3, 4, 5) has centre and middle on the lattice.
DShape == <<Line(Pt(-3, 4), Pt(-5, 4)), Line(Pt(-5, -4), Pt(-5, 4)), Line(Pt(-3, -4), Pt(-5, -4)),
            Bow(Pt(-3, -4), Pt(5, 0), Pt(-3, 4))>>

Square(x) == <<Line(Pt(x, -6), Pt(x, -2)), Line(Pt(x - 4, -2), Pt(x - 4, -6)),
               Line(Pt(x - 4, -6), Pt(x, -6)), Line(Pt(x, -2), Pt(x - 4, -2))>>

Pad(number, at, net) ==
    [number |-> number, type |-> "smd", shape |-> "rect", at |-> at, angle |-> 0, w |-> 4, h |-> 2,
     ratio |-> {}, dx |-> 0, dy |-> 0, polygons |-> <<>>, drill |-> 0,
     layers |-> <<"F.Cu", "F.Mask", "F.Paste">>, net |-> net]

Hole(number, at, net) ==
    [Pad(number, at, net) EXCEPT !.type = "thru_hole", !.shape = "circle", !.h = 4, !.drill = 2,
                                 !.layers = <<"*.Cu", "*.Mask">>]

Footprint(reference, angle, pads) ==
    [reference |-> reference, layer |-> "F.Cu", at |-> Pt(1, 2), angle |-> angle, pads |-> pads]

Track(tag, a, m, b, net) ==
    [tag |-> tag, start |-> a, mid |-> m, end |-> b, width |-> 1, layer |-> "B.Cu", net |-> net]

Ring(r) == <<Pt(r, -r), Pt(r, r), Pt(-r, r), Pt(-r, -r)>>

Everything ==
    [version |-> 20260206, layers |-> <<"F.Cu", "In1.Cu", "B.Cu", "B.SilkS", "F.Fab", "Edge.Cuts">>,
     edges |-> DShape,
     footprints |-> <<Footprint("U1", 1, <<Pad("1", Pt(2, 1), {"VCC"}), Hole("2", Pt(-2, 0), {"GND"})>>)>>,
     tracks |-> <<Track("arc", Pt(4, -3), Pt(5, 0), Pt(4, 3), {"VCC"}),
                  Track("segment", Pt(0, 0), Pt(0, 0), Pt(4, -3), {"VCC"})>>,
     vias |-> <<[at |-> Pt(0, 0), size |-> 4, drill |-> 2, layers |-> <<"In1.Cu", "F.Cu">>, net |-> {"VCC"}]>>,
     zones |-> <<[polygons |-> <<Ring(6), Ring(3)>>, layers |-> <<"F.Cu", "B.Cu">>, net |-> {"GND"}]>>,
     others |-> {"gr_text"}, otherNets |-> {""}]

WithPad(pad) == [Everything EXCEPT !.footprints[1].pads[1] = pad]

P1 == Pad("1", Pt(2, 1), {"VCC"})

Shaped ==
    {[P1 EXCEPT !.shape = "oval"], [P1 EXCEPT !.shape = "circle", !.h = 4],
     [P1 EXCEPT !.shape = "circle"],                                        \* throws
     [P1 EXCEPT !.shape = "roundrect", !.w = 6, !.h = 6, !.ratio = {34}],
     [P1 EXCEPT !.shape = "trapezoid", !.w = 6, !.h = 6, !.dx = 2],
     [P1 EXCEPT !.shape = "custom", !.polygons = <<<<Pt(0, 0), Pt(0, 2), Pt(2, 0)>>>>],
     [P1 EXCEPT !.shape = "custom"],                                        \* throws
     [P1 EXCEPT !.type = "np_thru_hole", !.layers = <<"F.Cu", "In1.Cu">>, !.net = {}],
     [P1 EXCEPT !.type = "paste_only"],                                     \* throws
     [P1 EXCEPT !.net = {}]}

MCFiles ==
    {Everything} \cup {WithPad(p) : p \in Shaped}
        \cup {[Everything EXCEPT !.footprints[1].angle = a, !.footprints[1].pads[1].angle = b] : a, b \in {2, 3}}
        \cup {[Everything EXCEPT !.edges = @ \o Square(4)],
              [Everything EXCEPT !.edges = Front(@)],                       \* dangling
              [Everything EXCEPT !.edges[4].mid = Pt(-3, 0)],               \* three points on a line
              [Everything EXCEPT !.edges = @ \o <<Line(Pt(-5, -4), Pt(-3, 4))>>],   \* branches
              [Everything EXCEPT !.edges = @ \o <<Line(Pt(-5, 4), Pt(-5, 4))>>],    \* no length
              [Everything EXCEPT !.edges = <<>>, !.otherNets = {"VCC", "GND"}],
              [Everything EXCEPT !.layers = Front(@)],                      \* no Edge.Cuts
              [Everything EXCEPT !.version = 20241229],
              [Everything EXCEPT !.tracks[1].layer = "In2.Cu"],             \* throws
              [Everything EXCEPT !.vias[1].layers = <<"F.Cu">>],            \* throws
              [Everything EXCEPT !.zones[1].polygons = <<>>],               \* throws
              [Everything EXCEPT !.footprints[1].layer = "B.Cu", !.footprints[1].pads[1].layers = <<"B.Cu">>]}
=============================================================================
