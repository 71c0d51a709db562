----------------------------- MODULE KicadBoard -----------------------------
(***************************************************************************)
(* The board the KiCad importer builds and the exporter writes, and the    *)
(* helpers both share (kicad/coordinate_util.hpp).  A table is the         *)
(* sequence of its live entities in slot order, each with its id; the      *)
(* three workspaces of a board hand out ids from counters of their own.    *)
(* A layer or net name is a string; an operation that may throw gives the  *)
(* set of its results, {} for the exception.                               *)
(***************************************************************************)
EXTENDS PadShape

CONSTANTS CopperNames,      \* names that end in ".Cu", "*.Cu" among them
          NetNames,         \* net names in the order of std::set<std::string>
          RatioScale,       \* the fixed point of roundrect_rratio, 10^6 in the code
          MaxCopperLayers,  \* MAX_COPPER_LAYERS
          Lattice           \* bound: coordinates of an arc's middle

Null == 0

\* A default-constructed board as import_kicad_pcb starts from: the geometry
\* workspace is opened on a default Snapshot, whose next id is 0; the other two are
\* default-constructed workspaces, which start at 1.
EmptyBoard ==
    [layers |-> <<>>, stacks |-> <<>>, nets |-> <<>>, pins |-> <<>>, outlines |-> <<>>,
     footprints |-> <<>>, pads |-> <<>>, vias |-> <<>>, tracks |-> <<>>, pours |-> <<>>,
     keepouts |-> <<>>, extensions |-> <<>>,
     next |-> [stackup |-> 1, connectivity |-> 1, geometry |-> 0]]

Insert(board, domain, table, entity) ==
    [board EXCEPT ![table] = Append(@, entity @@ [id |-> board.next[domain]]),
                  !.next[domain] = @ + 1]

\* Arena::find and try_get
ById(table, id) == {e \in ToSet(table) : e.id = id}

NameOf(table, id) == {e.name : e \in ById(table, id)}

IsCopper(name) == name \in CopperNames

\* find_layer_id_by_name: the last of several
FindLayerByName(board, name) ==
    LET hits == {i \in DOMAIN board.layers : board.layers[i].name = name}
    IN  IF hits = {} THEN {} ELSE {board.layers[Max(hits)].id}

\* The last EdgeCuts layer (import_board_outline, find_edge_cuts_layer)
EdgeCutsLayer(board) ==
    LET hits == {i \in DOMAIN board.layers : board.layers[i].kind = "EdgeCuts"}
    IN  IF hits = {} THEN {} ELSE {board.layers[Max(hits)].id}

\* require_layer_stack
LayerStack(board) ==
    IF board.stacks = <<>> \/ Last(board.stacks).layers = <<>> THEN {} ELSE {Last(board.stacks).layers}

\* layer_stack_position, of the layers that have one
StackPosition(stack, id) == {i \in DOMAIN stack : stack[i] = id /\ \A j \in 1 .. i - 1 : stack[j] # id}

\* resolve_via_layer_span: <<start_layer, end_layer>> from a (layers ...) list
ViaSpan(board, names) ==
    LET copper == SelectSeq(names, IsCopper)
        Ordered(stack, a, b) == {IF i <= j THEN <<a, b>> ELSE <<b, a>> :
                                    i \in StackPosition(stack, a), j \in StackPosition(stack, b)}
    IN  IF copper = <<"*.Cu">>
        THEN {<<stack[1], Last(stack)>> : stack \in LayerStack(board)}
        ELSE IF Len(copper) < 2 THEN {}
        ELSE UNION {Ordered(stack, a, b) : stack \in LayerStack(board),
                        a \in FindLayerByName(board, copper[1]), b \in FindLayerByName(board, copper[2])}

\* resolve_optional_net: a (net ...) field is {} or {name}; index.emplace keeps the first.
ResolveNet(board, field) ==
    LET named == SelectSeq(board.nets, LAMBDA n : n.name \in field)
    IN  IF field = {} THEN {Null} ELSE IF named = <<>> THEN {} ELSE {named[1].id}

\* require_layer, to its name
RequireLayer(board, id) == NameOf(board.layers, id)

\* net_field: no field for the null net
NetField(board, id) == IF id = Null THEN {{}} ELSE {{name} : name \in NameOf(board.nets, id)}

\* build_pin_net_index: the net the last Pin of a pad gives it
PinNet(board, pad) ==
    LET pins == SelectSeq(board.pins, LAMBDA p : p.pad = pad)
    IN  IF pins = <<>> THEN Null ELSE Last(pins).net

\* parse_kicad_rotation_e6 and format_kicad_rotation_e6, in quarter turns: KiCad
\* counts clockwise, geometry::rotate counterclockwise; 0 stands for no field.
ParseRotation(angle) == (-angle) % 4

FormatRotationKept(turns) == turns      \* mutant: the angle is not negated on the way out

FormatRotation(turns) == (-turns) % 4

\* import_footprint.cpp's placement, and footprint_local_point, its inverse
Placed(position, turns, local) == Plus(position, RotatePoint(local, turns))

FootprintLocalPoint(absolute, position, turns) == RotatePoint(Minus(absolute, position), (-turns) % 4)

-----------------------------------------------------------------------------
\* Arcs by three points.  Exact here: the arcs of the model have their centre and
\* the middle of their sweep on the lattice, where the code rounds doubles.
Turning(a, b, c) == (b.x - a.x) * (c.y - b.y) - (b.y - a.y) * (c.x - b.x)

Distance2(a, b) == (a.x - b.x) * (a.x - b.x) + (a.y - b.y) * (a.y - b.y)

\* kicad_three_point_arc_to_pcbir: the circumcentre; collinear points throw.
ThreePointArc(start, mid, end) ==
    LET centres == {Pt(x, y) : x \in Lattice, y \in Lattice}
        centre  == CHOOSE c \in centres : Distance2(c, start) = Distance2(c, mid)
                                            /\ Distance2(c, mid) = Distance2(c, end)
    IN  IF Turning(start, mid, end) = 0 THEN {}
        ELSE {Arc(start, end, centre, Turning(start, mid, end) > 0)}

\* arc_three_point_mid: halfway round the sweep, in the arc's own direction
ArcMid(arc) ==
    CHOOSE m \in {Pt(x, y) : x \in Lattice, y \in Lattice} :
        /\ Distance2(m, arc.center) = Distance2(arc.start, arc.center)
        /\ Distance2(m, arc.start) = Distance2(m, arc.end)
        /\ (Turning(arc.start, m, arc.end) > 0) = arc.ccw

\* flatten_arc, at quarter turns: the points from the start up to the end
FlattenArc(arc) ==
    LET Step(k)  == IF arc.ccw THEN k % 4 ELSE (-k) % 4
        On(k)    == Plus(arc.center, RotatePoint(Minus(arc.start, arc.center), Step(k)))
        quarters == CHOOSE k \in 1 .. 4 : On(k) = arc.end /\ \A j \in 1 .. k - 1 : On(j) # arc.end
    IN  [i \in 1 .. quarters |-> On(i - 1)]
=============================================================================
