----------------------------- MODULE KicadImport ----------------------------
(***************************************************************************)
(* The passes of import_kicad_pcb.  A file is what its S-expression tree   *)
(* holds for them, each kind of row in file order:                         *)
(*   [version, layers, edges, footprints, tracks, vias, zones, others,     *)
(*    otherNets]                                                           *)
(* (others: the tags no pass knows; otherNets: nets named only below       *)
(* nodes no pass reads).  A pass gives {} on ImportError.                  *)
(***************************************************************************)
EXTENDS KicadBoard

\* Folds a handler that may throw over rows: the first exception ends the pass.
EachRow(Handle(_, _), board, rows) ==
    FoldLeft(LAMBDA boards, row : UNION {Handle(b, row) : b \in boards}, {board}, rows)

\* import_stackup: non-copper rows get their layers at once, copper rows after the
\* whole section was read, in file order, which is the physical order.
KindOf(name) ==
    CASE IsCopper(name)                   -> "Copper"
      [] name = "Edge.Cuts"               -> "EdgeCuts"
      [] name \in {"F.SilkS", "B.SilkS"}  -> "Silkscreen"
      [] OTHER                            -> "skipped"

ImportStackup(board, file) ==
    LET Of(kinds) == SelectSeq(file.layers, LAMBDA name : KindOf(name) \in kinds)
        Add(b, name) == Insert(b, "stackup", "layers", [name |-> name, kind |-> KindOf(name)])
        plain  == FoldLeft(Add, board, Of({"EdgeCuts", "Silkscreen"}))
        copper == Of({"Copper"})
        full   == FoldLeft(Add, plain, copper)
    IN  IF copper = <<>> THEN plain
        ELSE Insert(full, "stackup", "stacks",
                    [layers |-> [i \in DOMAIN copper |-> plain.next.stackup + i - 1]])

\* collect_net_names walks the whole tree; the empty name is no net.
ReferencedNets(file) ==
    LET pads == UNION {ToSet(f.pads) : f \in ToSet(file.footprints)}
        rows == pads \cup ToSet(file.tracks) \cup ToSet(file.vias) \cup ToSet(file.zones)
    IN  (UNION {r.net : r \in rows} \cup file.otherNets) \ {""}

ImportNets(board, file) ==
    FoldLeft(LAMBDA b, name : Insert(b, "connectivity", "nets", [name |-> name]), board,
             SelectSeq(NetNames, LAMBDA name : name \in ReferencedNets(file)))

\* parse_edge_span, parse_segment_span, parse_track_arc_span
RowSpan(row) ==
    IF row.tag \in {"gr_arc", "arc"} THEN ThreePointArc(row.start, row.mid, row.end)
    ELSE {Segment(row.start, row.end)}

\* Lines before arcs, each in file order, only those on Edge.Cuts
EdgeRows(file) ==
    LET On(tag) == SelectSeq(file.edges, LAMBDA r : r.tag = tag /\ r.layer = "Edge.Cuts")
    IN  On("gr_line") \o On("gr_arc")

EdgeSpans(file) ==
    LET rows == EdgeRows(file)
    IN  IF \E i \in DOMAIN rows : RowSpan(rows[i]) = {} THEN {}
        ELSE {[i \in DOMAIN rows |-> CHOOSE s \in RowSpan(rows[i]) : TRUE]}

InsertOutline(board, loop) ==
    {Insert(board, "geometry", "outlines", [outline |-> CanonicalizeWinding(loop), layer |-> layer]) :
        layer \in EdgeCutsLayer(board)}

-----------------------------------------------------------------------------
\* import_pad.  A pad row: [number, type, shape, at, angle, w, h, ratio, dx, dy,
\* polygons, drill, layers, net]; ratio is {} when the field is missing.
PadParams(pad) ==
    LET least  == IF pad.h < pad.w THEN pad.h ELSE pad.w
        radii  == IF pad.shape = "roundrect" /\ pad.ratio # {}
                  THEN {TruncDiv(s, RatioScale) : s \in UNION {CheckedMul(q, least) : q \in pad.ratio}}
                  ELSE {0}
        sheared == pad.shape = "trapezoid"
    IN  {[shape |-> pad.shape, w |-> pad.w, h |-> pad.h, radius |-> r,
          dx |-> IF sheared THEN pad.dx ELSE 0, dy |-> IF sheared THEN pad.dy ELSE 0] : r \in radii}

\* parse_custom_pad_outline: exactly one polygon
CustomOutline(pad) ==
    IF Len(pad.polygons) # 1 \/ Len(pad.polygons[1]) < 3 THEN {}
    ELSE {CanonicalizeWinding(ClosedLoop(pad.polygons[1]))}

\* resolve_pad_copper_layer: the first copper name that is a layer
PadLayer(board, names) ==
    LET known == SelectSeq(names, LAMBDA n : n # "*.Cu" /\ IsCopper(n) /\ FindLayerByName(board, n) # {})
    IN  IF known = <<>> THEN {} ELSE FindLayerByName(board, known[1])

SmdPad(board, pad, centre) ==
    LET turns   == ParseRotation(pad.angle)
        params  == IF pad.shape = "custom" THEN {} ELSE PadParams(pad)
        locals  == IF pad.shape = "custom" THEN CustomOutline(pad) ELSE UNION {PadOutline(p) : p \in params}
        Inserted(local, layer) ==
            Insert(board, "geometry", "pads",
                   [position |-> centre, layer |-> layer, number |-> pad.number,
                    outline |-> Translate(Rotate(local, turns), centre)])
        Extended(b) ==
            [b EXCEPT !.extensions = @ \o [i \in 1 .. Cardinality(params) |->
                [entity |-> board.next.geometry, version |-> 1, decodes |-> TRUE,
                 params |-> CHOOSE p \in params : TRUE, turns |-> turns]]]
    IN  {Extended(Inserted(local, layer)) : local \in locals, layer \in PadLayer(board, pad.layers)}

ThroughPad(board, pad, centre) ==
    {Insert(board, "geometry", "vias",
            [position |-> centre, drill |-> pad.drill, finished |-> pad.drill, diameter |-> pad.w,
             first |-> span[1], last |-> span[2], number |-> pad.number]) :
        span \in ViaSpan(board, pad.layers)}

ImportPad(board, pad, position, turns) ==
    LET centre   == Placed(position, turns, pad.at)
        inserted == CASE pad.type \in {"smd", "connect"}            -> SmdPad(board, pad, centre)
                      [] pad.type \in {"thru_hole", "np_thru_hole"} -> ThroughPad(board, pad, centre)
                      [] OTHER                                      -> {}
    IN  {Insert(b, "connectivity", "pins", [pad |-> board.next.geometry, net |-> net]) :
            b \in inserted, net \in ResolveNet(board, pad.net)}

\* A footprint row: [reference, layer, at, angle, pads].  It is inserted after its
\* pads, which therefore have the ids before its own.
ImportFootprint(board, row) ==
    LET turns == ParseRotation(row.angle)
        Pads  == [i \in DOMAIN row.pads |-> board.next.geometry + i - 1]
    IN  {Insert(b, "geometry", "footprints",
                [reference |-> row.reference, position |-> row.at, rotation |-> turns,
                 side |-> IF row.layer = "B.Cu" THEN "Bottom" ELSE "Top", pads |-> Pads]) :
            b \in EachRow(LAMBDA x, pad : ImportPad(x, pad, row.at, turns), board, row.pads)}

\* import_tracks: segments before arcs; every row becomes a track of one span.
ImportTrack(board, row) ==
    {Insert(board, "geometry", "tracks",
            [path |-> <<[geometry |-> span, width |-> row.width]>>, layer |-> layer, net |-> net]) :
        span \in RowSpan(row), layer \in FindLayerByName(board, row.layer), net \in ResolveNet(board, row.net)}

TrackRows(file) ==
    LET Tagged(tag) == SelectSeq(file.tracks, LAMBDA r : r.tag = tag)
    IN  Tagged("segment") \o Tagged("arc")

ImportVia(board, row) ==
    {Insert(Insert(board, "geometry", "vias",
                   [position |-> row.at, drill |-> row.drill, finished |-> row.drill,
                    diameter |-> row.size, first |-> span[1], last |-> span[2], number |-> ""]),
            "connectivity", "pins", [pad |-> board.next.geometry, net |-> net]) :
        span \in ViaSpan(board, row.layers), net \in ResolveNet(board, row.net)}

\* import_zones: the first polygon is the outline, the others holes, wound the
\* other way; one pour for each layer.  A zone row: [polygons, layers, net].
HoleContour(points) == ReverseContour(CanonicalizeWinding(ClosedLoop(points)))

ImportZone(board, row) ==
    LET holes   == [i \in 1 .. Len(row.polygons) - 1 |-> HoleContour(row.polygons[i + 1])]
        polygon == [outline |-> CanonicalizeWinding(ClosedLoop(row.polygons[1])), holes |-> holes]
        Pour(b, name, net) ==
            {Insert(b, "geometry", "pours", [outline |-> polygon, layer |-> layer, net |-> net]) :
                layer \in FindLayerByName(b, name)}
        formed  == row.polygons # <<>> /\ \A points \in ToSet(row.polygons) : Len(points) >= 3
    IN  IF ~formed THEN {}
        ELSE UNION {EachRow(LAMBDA b, name : Pour(b, name, net), board, row.layers) :
                        net \in ResolveNet(board, row.net)}

\* populate_import_fidelity_report: [kind, id, attribute, tier]
Record(kind, id, attribute, tier) == [kind |-> kind, id |-> id, attribute |-> attribute, tier |-> tier]

RecordsOf(table, kind, attribute, Tier(_)) ==
    {Record(kind, e.id, attribute, Tier(e)) : e \in ToSet(table)}

Preserved(e) == "Preserved"

Approximated(e) == "Approximated"

Absent(kind) == Record(kind, Null, "presence", "Unsupported")

ImportReport(file, board) ==
    LET shaped    == {x.entity : x \in ToSet(board.extensions)}
        Shape(e)  == IF e.id \in shaped THEN "Preserved" ELSE "Approximated"
        Copper(l) == l.kind = "Copper"
    IN  UNION {RecordsOf(SelectSeq(board.layers, Copper), "layer", "thickness", Approximated),
               RecordsOf(SelectSeq(board.layers, LAMBDA l : ~Copper(l)), "layer", "kind", Preserved),
               RecordsOf(board.outlines, "board_outline", "outline", Preserved),
               RecordsOf(board.footprints, "footprint", "rotation", Preserved),
               RecordsOf(board.pads, "pad", "shape", Shape),
               RecordsOf(board.vias, "via", "finished_hole_diameter", Approximated),
               RecordsOf(board.tracks, "track", "path", Preserved),
               RecordsOf(board.pours, "zone", "outline", Preserved),
               {Absent(tag) : tag \in file.others}}
=============================================================================
