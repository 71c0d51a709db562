----------------------------- MODULE KicadExport ----------------------------
(***************************************************************************)
(* The passes of export_kicad_pcb: the inverse of KicadImport, from a      *)
(* board of any origin to a file.  A pass gives {} on ExportError; the     *)
(* file is written only after all of them succeeded.                       *)
(***************************************************************************)
EXTENDS KicadImport

EXPORTED_KICAD_VERSION == 20260206

\* A pass over a table: one row for each entity, {} when one of them throws.
RowsOf(Row(_), table) ==
    FoldLeft(LAMBDA rows, e : {Append(r, row) : r \in rows, row \in Row(e)}, {<<>>}, table)

\* export_layers_section: the last stack's layers in physical order, then the others
LayerRows(board) ==
    LET members == IF board.stacks = <<>> THEN <<>> ELSE Last(board.stacks).layers
        copper  == RowsOf(LAMBDA id : NameOf(board.layers, id), members)
        OtherKinds(l) == l.kind \in {"EdgeCuts", "Silkscreen"}
        others  == SelectSeq(board.layers, OtherKinds)
    IN  IF Len(members) > MaxCopperLayers THEN {}
        ELSE {rows \o [i \in DOMAIN others |-> others[i].name] : rows \in copper}

\* export_board_outline; a row of a span, with its middle when it is an arc
SpanRow(segmentTag, arcTag, span) ==
    [tag |-> IF span.arc THEN arcTag ELSE segmentTag, start |-> span.start,
     mid |-> IF span.arc THEN ArcMid(span) ELSE span.start, end |-> span.end]

OutlineRows(board) ==
    LET spans == FlattenSeq([i \in DOMAIN board.outlines |-> board.outlines[i].outline])
        Edge(span) == SpanRow("gr_line", "gr_arc", span) @@ [layer |-> "Edge.Cuts"]
    IN  {[i \in DOMAIN spans |-> Edge(spans[i])] :
            layer \in {l \in EdgeCutsLayer(board) : \A o \in ToSet(board.outlines) : o.layer = l}}

-----------------------------------------------------------------------------
\* export_footprints

\* build_pad_shape_index: an unknown version or an undecodable payload is skipped;
\* the last of several wins.
PadShape(board, pad) ==
    LET usable == SelectSeq(board.extensions,
                            LAMBDA x : x.entity = pad /\ x.version = 1 /\ x.decodes)
    IN  IF usable = <<>> THEN {} ELSE {[params |-> Last(usable).params, turns |-> Last(usable).turns]}

\* roundrect_ratio_e6
RoundRectRatio(params) ==
    LET least == IF params.h < params.w THEN params.h ELSE params.w
    IN  IF least <= 0 THEN {0} ELSE {TruncDiv(s, least) : s \in CheckedMul(params.radius, RatioScale)}

\* pad_layer_names
PadLayerNames(copper) ==
    CASE copper = "F.Cu" -> <<copper, "F.Mask", "F.Paste">>
      [] copper = "B.Cu" -> <<copper, "B.Mask", "B.Paste">>
      [] OTHER           -> <<copper>>

\* What export_parametric_pad, export_smd_pad and export_thru_hole_pad leave out
BarePad(number, at, net) ==
    [number |-> number, type |-> "smd", shape |-> "custom", at |-> at, angle |-> 0, w |-> 0, h |-> 0,
     ratio |-> {}, dx |-> 0, dy |-> 0, polygons |-> <<>>, drill |-> 0, layers |-> <<>>, net |-> net]

ParametricRow(bare, shape) ==
    LET p == shape.params
        ratios == IF p.shape = "roundrect" THEN {{r} : r \in RoundRectRatio(p)} ELSE {{}}
    IN  {[bare EXCEPT !.shape = p.shape, !.angle = FormatRotation(shape.turns), !.w = p.w, !.h = p.h,
                      !.ratio = ratio, !.dx = p.dx, !.dy = p.dy] : ratio \in ratios}

\* build_custom_pad_shape: arcs become chords, the points are relative to the pad
CustomRow(bare, pad) ==
    LET Points(span) == IF span.arc THEN FlattenArc(span) ELSE <<span.start>>
        points == FlattenSeq([i \in DOMAIN pad.outline |-> Points(pad.outline[i])])
    IN  IF points = <<>> THEN {}
        ELSE {[bare EXCEPT !.polygons = <<[i \in DOMAIN points |-> Minus(points[i], pad.position)]>>]}

ThroughRow(bare, via) ==
    {[bare EXCEPT !.type = "thru_hole", !.shape = "circle", !.w = via.diameter, !.h = via.diameter,
                  !.drill = via.drill, !.layers = <<"*.Cu", "*.Mask">>]}

\* export_footprint_entry; a member is looked up as a Pad first, then as a Via.
MemberRow(board, footprint, member) ==
    LET At(e)    == FootprintLocalPoint(e.position, footprint.position, footprint.rotation)
        Bare(e, net, layers) == [BarePad(e.number, At(e), net) EXCEPT !.layers = layers]
        pads     == ById(board.pads, member)
        shape    == PadShape(board, member)
        Smd(pad, bare) == IF shape = {} THEN CustomRow(bare, pad)
                          ELSE UNION {ParametricRow(bare, s) : s \in shape}
        nets     == NetField(board, PinNet(board, member))
    IN  IF pads # {}
        THEN UNION {Smd(pad, Bare(pad, net, PadLayerNames(name))) :
                        pad \in pads, name \in UNION {RequireLayer(board, p.layer) : p \in pads}, net \in nets}
        ELSE UNION {ThroughRow(Bare(via, net, <<>>), via) : via \in ById(board.vias, member), net \in nets}

FootprintRow(board, f) ==
    {[reference |-> f.reference, layer |-> IF f.side = "Bottom" THEN "B.Cu" ELSE "F.Cu",
      at |-> f.position, angle |-> FormatRotation(f.rotation), pads |-> pads] :
        pads \in RowsOf(LAMBDA member : MemberRow(board, f, member), f.pads)}

-----------------------------------------------------------------------------
\* export_tracks: one row for each span of the path
TrackSpanRows(board, track) ==
    {[i \in DOMAIN track.path |->
        SpanRow("segment", "arc", track.path[i].geometry)
            @@ [width |-> track.path[i].width, layer |-> layer, net |-> net]] :
        layer \in RequireLayer(board, track.layer), net \in NetField(board, track.net)}

\* export_vias: those no footprint owns
OwnedIds(board) == UNION {ToSet(f.pads) : f \in ToSet(board.footprints)}

ViaRow(board, via) ==
    {[at |-> via.position, size |-> via.diameter, drill |-> via.drill,
      layers |-> <<first, last>>, net |-> net] :
        first \in RequireLayer(board, via.first), last \in RequireLayer(board, via.last),
        net \in NetField(board, PinNet(board, via.id))}

\* export_zones: start points only, so an arc throws.
ZoneRow(board, pour) ==
    LET contours == <<pour.outline.outline>> \o pour.outline.holes
        straight == \A c \in ToSet(contours) : \A s \in ToSet(c) : ~s.arc
    IN  {[polygons |-> [i \in DOMAIN contours |-> [j \in DOMAIN contours[i] |-> contours[i][j].start]],
          layers |-> <<layer>>, net |-> net] :
            layer \in IF straight THEN RequireLayer(board, pour.layer) ELSE {},
            net \in NetField(board, pour.net)}

\* export_kicad_pcb
Export(board) ==
    LET free == SelectSeq(board.vias, LAMBDA v : v.id \notin OwnedIds(board))
    IN  {[version |-> EXPORTED_KICAD_VERSION, layers |-> layers, edges |-> edges,
          footprints |-> footprints, tracks |-> FlattenSeq(tracks), vias |-> vias, zones |-> zones,
          others |-> {}, otherNets |-> {}] :
            layers     \in LayerRows(board),
            edges      \in OutlineRows(board),
            footprints \in RowsOf(LAMBDA f : FootprintRow(board, f), board.footprints),
            tracks     \in RowsOf(LAMBDA t : TrackSpanRows(board, t), board.tracks),
            vias       \in RowsOf(LAMBDA v : ViaRow(board, v), free),
            zones      \in RowsOf(LAMBDA z : ZoneRow(board, z), board.pours)}

ShapedUndecoded(board) ==           \* mutant: every extension is taken to decode
    {x.entity : x \in ToSet(board.extensions)}

\* pad_ids_with_shape_extension: whatever its version
ShapedPads(board) == {x.entity : x \in {x \in ToSet(board.extensions) : x.decodes}}

\* populate_export_fidelity_report
ExportReport(board) ==
    LET Shape(e) == IF e.id \in ShapedPads(board) THEN "Preserved" ELSE "Approximated"
    IN  UNION {RecordsOf(board.footprints, "footprint", "rotation", Preserved),
               RecordsOf(board.pads, "pad", "shape", Shape),
               RecordsOf(board.vias, "via", "finished_hole_diameter", Approximated),
               RecordsOf(board.tracks, "track", "path", Preserved),
               RecordsOf(board.pours, "zone", "outline", Preserved),
               {Absent("keepout") : k \in ToSet(board.keepouts)}}
=============================================================================
