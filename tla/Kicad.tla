-------------------------------- MODULE Kicad -------------------------------
(***************************************************************************)
(* A board's way through the KiCad converters: import_kicad_pcb, perhaps   *)
(* an edit of the board by its owner, export_kicad_pcb, and the import of  *)
(* the file that wrote, over and over.  The import goes pass by pass, the  *)
(* assembly of the outline span by span; every pass may throw ImportError, *)
(* the export ExportError.                                                 *)
(***************************************************************************)
EXTENDS KicadExport, Diagnostics

CONSTANTS Files,                        \* .kicad_pcb files that KiCad wrote
          MIN_SUPPORTED_KICAD_VERSION,
          MaxTrips                      \* bound: exports of one board

VARIABLES phase,        \* the next pass, or how the last call ended
          file,         \* the file being imported
          spans, loop,  \* assemble_loops: the loose spans, the loop under way
          board,
          report,       \* of the last import
          written,      \* {} or the last export: [board, report, edited]
          trip,         \* exports so far
          edited        \* whether the owner edited the board since the last import

vars == <<phase, file, spans, loop, board, report, written, trip, edited>>

Init ==
    /\ phase = "layers" /\ file \in Files
    /\ spans = <<>> /\ loop = <<>> /\ board = EmptyBoard /\ report = {}
    /\ written = {} /\ trip = 0 /\ edited = FALSE

-----------------------------------------------------------------------------
\* A pass takes the board from one phase to the next, or throws.
Pass(from, to, Results) ==
    /\ phase = from
    /\ \/ phase' = to /\ board' \in Results
       \/ Results = {} /\ phase' = "failed" /\ UNCHANGED board

\* validate_kicad_pcb_root and import_stackup
ImportLayers ==
    /\ Pass("layers", "nets",
            {ImportStackup(EmptyBoard, f) : f \in {f \in {file} : f.version >= MIN_SUPPORTED_KICAD_VERSION}})
    /\ UNCHANGED <<file, spans, loop, report, written, trip, edited>>

ImportNetsPass ==
    /\ Pass("nets", "edges", {ImportNets(board, file)})
    /\ UNCHANGED <<file, spans, loop, report, written, trip, edited>>

\* import_board_outline, up to the call of assemble_loops
CollectEdges ==
    LET found == IF EdgeCutsLayer(board) = {} THEN {} ELSE EdgeSpans(file)
    IN  /\ phase = "edges"
        /\ \/ found # {} /\ phase' = "outline" /\ spans' \in found
           \/ found = {} /\ phase' = "failed" /\ UNCHANGED spans
        /\ UNCHANGED <<file, loop, board, report, written, trip, edited>>

\* assemble_loops takes the last loose span,
StartLoop ==
    /\ phase = "outline" /\ loop = <<>> /\ spans # <<>>
    /\ loop' = <<Last(spans)>> /\ spans' = Front(spans)
    /\ UNCHANGED <<phase, file, board, report, written, trip, edited>>

Closed == loop # <<>> /\ Last(loop).end = loop[1].start

\* The first loose span that starts where the loop ends, else the first that ends
\* there, to be reversed.
Attachments ==
    LET target == Last(loop).end
        First(hits) == {i \in hits : \A j \in hits : i <= j}
        starting == {i \in DOMAIN spans : spans[i].start = target}
        ending   == {i \in DOMAIN spans : spans[i].end = target}
    IN  IF starting # {} THEN {[at |-> i, span |-> spans[i]] : i \in First(starting)}
        ELSE {[at |-> i, span |-> ReverseSpan(spans[i])] : i \in First(ending)}

OpenLoopKept ==                     \* mutant: a dangling edge ends its loop
    /\ phase = "outline" /\ loop # <<>> /\ ~Closed
    /\ \/ \E next \in Attachments : loop' = Append(loop, next.span) /\ spans' = RemoveAt(spans, next.at)
       \/ Attachments = {} /\ UNCHANGED <<spans, loop>>
    /\ UNCHANGED <<phase, file, board, report, written, trip, edited>>

\* and attaches spans to it until it is closed; a dangling edge throws,
ExtendLoop ==
    /\ phase = "outline" /\ loop # <<>> /\ ~Closed
    /\ \/ \E next \in Attachments :
            loop' = Append(loop, next.span) /\ spans' = RemoveAt(spans, next.at) /\ UNCHANGED phase
       \/ Attachments = {} /\ phase' = "failed" /\ UNCHANGED <<spans, loop>>
    /\ UNCHANGED <<file, board, report, written, trip, edited>>

\* and inserts every closed loop as a BoardOutline.
CloseLoop ==
    /\ phase = "outline" /\ Closed
    /\ board' \in InsertOutline(board, loop) /\ loop' = <<>>
    /\ UNCHANGED <<phase, file, spans, report, written, trip, edited>>

ImportFootprintsEarly ==            \* mutant: one loop is taken for all of them
    /\ loop = <<>>
    /\ Pass("outline", "tracks", EachRow(ImportFootprint, board, file.footprints))
    /\ UNCHANGED <<file, spans, loop, report, written, trip, edited>>

ImportFootprints ==
    /\ spans = <<>> /\ loop = <<>>
    /\ Pass("outline", "tracks", EachRow(ImportFootprint, board, file.footprints))
    /\ UNCHANGED <<file, spans, loop, report, written, trip, edited>>

ImportTracksAnew ==                 \* mutant: the pass is not given the ids of the one before
    /\ Pass("tracks", "vias",
            EachRow(ImportTrack, [board EXCEPT !.next.geometry = 1], TrackRows(file)))
    /\ UNCHANGED <<file, spans, loop, report, written, trip, edited>>

ImportTracks ==
    /\ Pass("tracks", "vias", EachRow(ImportTrack, board, TrackRows(file)))
    /\ UNCHANGED <<file, spans, loop, report, written, trip, edited>>

ImportVias ==
    /\ Pass("vias", "zones", EachRow(ImportVia, board, file.vias))
    /\ UNCHANGED <<file, spans, loop, report, written, trip, edited>>

ImportZones ==
    /\ Pass("zones", "ready", EachRow(ImportZone, board, file.zones))
    /\ report' = ImportReport(file, board')
    /\ UNCHANGED <<file, spans, loop, written, trip, edited>>

-----------------------------------------------------------------------------
\* What the owner of a board may do to it through its three workspaces: erase an
\* entity, or write one field of one.  None of it is checked by the workspaces.
Erasures(b) ==
    UNION {{[b EXCEPT ![table] = RemoveAt(@, i)] : i \in DOMAIN b[table]} :
              table \in {"layers", "stacks", "nets", "outlines", "footprints", "pads", "vias"}}

Writes(b) ==
    LET Turned(outline, centre) == Translate(Rotate(Translate(outline, Minus(Origin, centre)), 1), centre)
        Rewritten(table, Value(_)) == {[b EXCEPT ![table][i] = Value(@)] : i \in DOMAIN b[table]}
        Copper(name) == Insert(b, "stackup", "layers", [name |-> name, kind |-> "Copper"])
        Grown(x) == [x EXCEPT !.stacks = [i \in DOMAIN @ |-> [@[i] EXCEPT !.layers = Append(@, Last(x.layers).id)]]]
    IN  UNION {Rewritten("nets", LAMBDA n : [n EXCEPT !.name = ""]),
               Rewritten("layers", LAMBDA l : [l EXCEPT !.name = "Top"]),
               Rewritten("tracks", LAMBDA t : [t EXCEPT !.path = @ \o @]),
               Rewritten("outlines", LAMBDA o : [o EXCEPT !.layer = 1]),
               Rewritten("pads", LAMBDA p : [p EXCEPT !.layer = Null]),
               Rewritten("pads", LAMBDA p : [p EXCEPT !.outline = <<>>]),
               Rewritten("pads", LAMBDA p : [p EXCEPT !.outline = Turned(@, p.position)]),
               Rewritten("extensions", LAMBDA x : [x EXCEPT !.decodes = FALSE]),
               Rewritten("extensions", LAMBDA x : [x EXCEPT !.version = 2]),
               Rewritten("extensions", LAMBDA x : [x EXCEPT !.params.shape = "roundrect", !.params.radius = 11]),
               Rewritten("pours", LAMBDA z : [z EXCEPT !.outline.outline = CircleOutline(6)]),
               Rewritten("pours", LAMBDA z : [z EXCEPT !.outline.holes = <<ReverseContour(CircleOutline(4))>>]),
               Rewritten("vias", LAMBDA v : [v EXCEPT !.first = Null]),
               {Insert(b, "stackup", "layers", [name |-> "Edge.Cuts", kind |-> "EdgeCuts"])},
               {Insert(b, "geometry", "keepouts", [area |-> "any"])},
               {Insert(b, "connectivity", "pins", [pad |-> p.pad, net |-> Null]) : p \in ToSet(b.pins)},
               {Grown(Copper("Extra.Cu"))}}

Edit ==
    /\ phase = "ready" /\ trip = 0 /\ ~edited
    /\ board' \in Erasures(board) \cup Writes(board)
    /\ edited' = TRUE
    /\ UNCHANGED <<phase, file, spans, loop, report, written, trip>>

\* export_kicad_pcb: nothing is written when a pass throws.
ExportBoard ==
    /\ phase = "ready" /\ trip < MaxTrips
    /\ \/ /\ file' \in Export(board) /\ phase' = "written" /\ trip' = trip + 1
          /\ written' = {[board |-> board, report |-> ExportReport(board), edited |-> edited]}
       \/ Export(board) = {} /\ phase' = "refused" /\ UNCHANGED <<file, trip, written>>
    /\ UNCHANGED <<spans, loop, board, report, edited>>

Reimport ==
    /\ phase = "written"
    /\ phase' = "layers" /\ board' = EmptyBoard /\ report' = {} /\ edited' = FALSE
    /\ UNCHANGED <<file, spans, loop, written, trip>>

AssembleStep == StartLoop \/ ExtendLoop \/ CloseLoop

Next ==
    \/ ImportLayers \/ ImportNetsPass \/ CollectEdges \/ AssembleStep
    \/ ImportFootprints \/ ImportTracks \/ ImportVias \/ ImportZones
    \/ Edit \/ ExportBoard \/ Reimport

\* assemble_loops is one call: once begun, it runs on.
Spec == Init /\ [][Next]_vars /\ WF_vars(AssembleStep)

-----------------------------------------------------------------------------
\* Vocabulary of the properties: what an entity is, by content and names, ids aside.
LayerName(b, id) == {l.name : l \in ById(b.layers, id)}

NetName(b, id) == {n.name : n \in ById(b.nets, id)}

NetOfPad(b, e) == NetName(b, PinNet(b, e.id))

\* A curve, whichever way it is travelled
Curve(span) == {span, ReverseSpan(span)}

Curves(contour) == {Curve(span) : span \in ToSet(contour)}

\* Exporting a corner radius as a ratio and importing it again truncates twice.
RadiusKept(p, q) ==
    LET least == IF p.h < p.w THEN p.h ELSE p.w
    IN  p.radius - (least + RatioScale - 1) \div RatioScale <= q.radius /\ q.radius <= p.radius

SameShape(b, p, c, q) ==
    LET Shape(x, e) == PadShape(x, e.id)
    IN  \/ Shape(b, p) = Shape(c, q) /\ Curves(p.outline) = Curves(q.outline)
        \/ \E s \in Shape(b, p), t \in Shape(c, q) :
              /\ s.params.shape = "roundrect" /\ s.turns = t.turns
              /\ RadiusKept(s.params, t.params)
              /\ t.params = [s.params EXCEPT !.radius = t.params.radius]

SamePlace(b, p, c, q) ==
    /\ p.number = q.number /\ p.position = q.position
    /\ NetOfPad(b, p) = NetOfPad(c, q)

SamePad(b, p, c, q) ==
    SamePlace(b, p, c, q) /\ LayerName(b, p.layer) = LayerName(c, q.layer) /\ SameShape(b, p, c, q)

SameHole(b, p, c, q) ==
    SamePlace(b, p, c, q) /\ p.drill = q.drill /\ p.diameter = q.diameter

\* Members of a footprint; a through-hole pad comes back through the whole stack.
SameMember(b, i, c, j) ==
    \/ \E p \in ById(b.pads, i), q \in ById(c.pads, j) : SamePad(b, p, c, q)
    \/ \E p \in ById(b.vias, i), q \in ById(c.vias, j) : SameHole(b, p, c, q)

SameFootprint(b, f, c, g) ==
    /\ f.reference = g.reference /\ f.position = g.position
    /\ f.rotation = g.rotation /\ f.side = g.side
    /\ Len(f.pads) = Len(g.pads)
    /\ \A i \in DOMAIN f.pads : SameMember(b, f.pads[i], c, g.pads[i])

FreeVias(b) ==
    {[at |-> v.position, drill |-> v.drill, diameter |-> v.diameter, first |-> LayerName(b, v.first),
      last |-> LayerName(b, v.last), net |-> NetOfPad(b, v)] :
        v \in {v \in ToSet(b.vias) : v.id \notin OwnedIds(b)}}

TrackSpans(b, t) ==
    {[span |-> w.geometry, width |-> w.width, layer |-> LayerName(b, t.layer), net |-> NetName(b, t.net)] :
        w \in ToSet(t.path)}

AllTrackSpans(b) == UNION {TrackSpans(b, t) : t \in ToSet(b.tracks)}

Pour(b, z) == [outline |-> z.outline, layer |-> LayerName(b, z.layer), net |-> NetName(b, z.net)]

Pours(b) == {Pour(b, z) : z \in ToSet(b.pours)}

Outlines(b) == {[curves |-> Curves(o.outline), layer |-> LayerName(b, o.layer)] : o \in ToSet(b.outlines)}

Layers(b) == {[name |-> l.name, kind |-> l.kind] : l \in ToSet(b.layers)}

Stack(b) == IF b.stacks = <<>> THEN <<>>
            ELSE LET ids == Last(b.stacks).layers IN [i \in DOMAIN ids |-> LayerName(b, ids[i])]

UsedNets(b) == UNION {NetName(b, e.net) : e \in ToSet(b.pins) \cup ToSet(b.tracks) \cup ToSet(b.pours)}

\* The layers the rows of an export name
UsedLayers(b) ==
    LET ids == {e.layer : e \in ToSet(b.tracks) \cup ToSet(b.pours) \cup ToSet(b.pads)}
                  \cup UNION {{v.first, v.last} : v \in ToSet(b.vias)}
    IN  UNION {LayerName(b, id) : id \in ids}

-----------------------------------------------------------------------------
Phases == {"layers", "nets", "edges", "outline", "tracks", "vias", "zones",
           "ready", "written", "refused", "failed"}

\* The phases are the passes in order, and the two workspaces the outline and the
\* copper need are there when their passes run (import.cpp:303-320).
TypeOK ==
    /\ phase \in Phases /\ trip \in 0 .. MaxTrips /\ edited \in BOOLEAN
    /\ Cardinality(written) <= 1 /\ (trip > 0) = (written # {})
    /\ spans \o loop # <<>> => phase \in {"outline", "failed"}
    /\ phase \in {"outline", "tracks", "vias", "zones"} => EdgeCutsLayer(board) # {}

\* The edges of the file, and the spans of the outlines, each once
EdgesUsed ==
    LET used == FlattenSeq([i \in DOMAIN board.outlines |-> board.outlines[i].outline])
    IN  \A edges \in EdgeSpans(file) :
            Len(used) = Len(edges) /\ Curves(used) = Curves(edges)

\* What an import makes is sound: every edge of the file is in one outline, once, though
\* the assembly reorders and reverses them (import_geometry.cpp:56-88); the ids of a layer's entities are distinct though
\* six passes and three workspaces hand them out, every reference between them
\* resolves, and no polygon is wound the wrong way, so of all the validators only
\* the remark that a pad has no net is left.  A board without any edge is excepted:
\* there a pad may take id 0, which is the null id to its Pin (import.cpp:303-330,
\* import_geometry.hpp:32-38).
ImportedBoardClean ==
    phase = "ready" /\ ~edited /\ board.outlines # <<>> =>
        /\ EdgesUsed
        /\ \A tables \in {{"layers", "stacks"}, {"nets", "pins"},
                           {"outlines", "footprints", "pads", "vias", "tracks", "pours"}} :
              LET held == {<<t, i>> : t \in tables, i \in 1 .. 20} \cap
                          UNION {{<<t, i>> : i \in DOMAIN board[t]} : t \in tables}
              IN  \A x, y \in held : board[x[1]][x[2]].id = board[y[1]][y[2]].id => x = y
        /\ {d.code : d \in AllDiagnostics(board)} \subseteq {"UnconnectedPin"}

SameBoard(b, c) ==
    /\ Layers(b) = Layers(c) /\ Stack(b) = Stack(c)
    /\ Len(b.outlines) = Len(c.outlines) /\ Outlines(b) = Outlines(c)
    /\ Len(b.footprints) = Len(c.footprints)
    /\ \A i \in DOMAIN b.footprints : SameFootprint(b, b.footprints[i], c, c.footprints[i])
    /\ FreeVias(b) = FreeVias(c) /\ AllTrackSpans(b) = AllTrackSpans(c) /\ Pours(b) = Pours(c)
    /\ {n.name : n \in ToSet(c.nets)} = UsedNets(b)

\* What an owner can do to a board that still exports, to a file that cannot be read:
\* a net in use with no name, a layer in use that the stack lost, or that does not
\* have the name KiCad knows its kind by.
Unreadable(b) ==
    LET known == {l \in CopperNames : \E i \in DOMAIN Stack(b) : l \in Stack(b)[i]}
    IN  \/ "" \in UsedNets(b)
        \/ ~(UsedLayers(b) \subseteq known)
        \/ "Edge.Cuts" \notin UNION {LayerName(b, id) : id \in EdgeCutsLayer(b)}

\* tests/kicad/roundtrip_test.cpp and docs/conformance.md: export and import give
\* the board back, compared by content and never by id.  Every file export_kicad_pcb
\* writes is one import_kicad_pcb reads, but for the boards Unreadable names; and a
\* board straight from an import comes back with the same layers, outlines,
\* footprints, pads, vias, tracks and pours, in the same places, on the same layers
\* and nets.  Two things give: the corner radius of a rounded pad may shrink by the
\* truncation of its ratio, never grow; a through-hole pad comes back through the
\* whole stack.
RoundTrip ==
    \A w \in written :
        /\ phase = "failed" => Unreadable(w.board)
        /\ phase = "ready" /\ ~edited /\ ~w.edited => SameBoard(w.board, board)

\* What makes the exporter throw and no validator looks at, all of it: too many copper
\* layers in the stack written; no layer for the outline, or an outline on an EdgeCuts
\* layer other than the last; a layer missing under a track, a footprint's pad or a
\* pour; a free via with a null layer (a dangling one is reported); an arc in a pour or
\* in one of its holes; a corner radius too large for its ratio to be computed.
Unchecked(b) ==
    LET NoLayer(id) == ById(b.layers, id) = {}
        placed      == {p \in ToSet(b.pads) : p.id \in OwnedIds(b)}
        free        == {v \in ToSet(b.vias) : v.id \notin OwnedIds(b)}
    IN  \/ b.stacks # <<>> /\ Len(Last(b.stacks).layers) > MaxCopperLayers
        \/ EdgeCutsLayer(b) = {}
        \/ \E o \in ToSet(b.outlines) : \E l \in ById(b.layers, o.layer) :
              l.kind = "EdgeCuts" /\ l.id \notin EdgeCutsLayer(b)
        \/ \E e \in ToSet(b.tracks) \cup placed \cup ToSet(b.pours) : NoLayer(e.layer)
        \/ \E v \in free : Null \in {v.first, v.last}
        \/ \E z \in ToSet(b.pours) : \E c \in {z.outline.outline} \cup ToSet(z.outline.holes) :
              \E span \in ToSet(c) : span.arc
        \/ \E p \in placed : \E s \in PadShape(b, p.id) :
              s.params.shape = "roundrect" /\ s.params.radius > MaxInt \div RatioScale

\* What the validators report that makes the exporter throw
Blocking == {"DanglingStackupLayerReference", "DanglingBoardOutlineLayerReference", "BoardOutlineLayerWrongKind",
             "DanglingViaLayerReference", "DanglingPinNetReference", "DanglingGeometryNetReference",
             "DanglingFootprintMemberReference", "InvalidOutline"}

\* The exporter refuses a board, before it writes anything, because of a fault some
\* validator reports or of one Unchecked names, and a board with one of those is never
\* written: of six passes that look up layers, nets and members by id, each relies on
\* checks made in other files, and Unchecked is what those checks leave open.
ExportFailureDiagnosed ==
    /\ phase = "refused" =>
          Unchecked(board) \/ {d.code : d \in AllDiagnostics(board)} \cap Blocking # {}
    /\ \A w \in written : ~Unchecked(w.board)

\* A pad as its extension describes it, in the place and with the number of p: the
\* parameters of the extension, though a corner radius may have shrunk by the truncation
\* of its ratio, and the outline they give.
ShapedAgain(b, p, c, q) ==
    \E s \in PadShape(b, p.id), t \in PadShape(c, q.id) :
        /\ q.number = p.number /\ q.position = p.position /\ t.turns = s.turns
        /\ t.params = [s.params EXCEPT !.radius = t.params.radius]
        /\ t.params.radius # s.params.radius => s.params.shape = "roundrect" /\ RadiusKept(s.params, t.params)
        /\ q.outline \in {Translate(Rotate(o, t.turns), q.position) : o \in PadOutline(t.params)}

\* What the export report calls "Preserved" (export.cpp:433-498), of an edited board as
\* well, against the board the file gives back.  The place, turn and side of a footprint,
\* the spans of a track with their width, layer and net, and a pour with its holes, layer
\* and net come back as they were.  The shape of a pad comes back as its extension gives
\* it (ShapedAgain), whatever its outline had become, and a pad so written is never
\* called anything less.  The report calls two more kinds of pads preserved, and only
\* these: a pad no footprint owns, which is not written at all, and a pad whose extension
\* is of a later version, which is written by its outline (export.cpp:419-431 looks at
\* neither, export_footprint.cpp:341-357 at both).  The report of an import
\* calls preserved exactly the shapes the exporter will find.
PreservedComesBack ==
    phase = "ready" /\ ~edited =>
        /\ \A p \in ToSet(board.pads) :
              (Record("pad", p.id, "shape", "Preserved") \in report) = (PadShape(board, p.id) # {})
        /\ \A w \in written :
              LET b == w.board
                  Kept(kind, attribute, e) == Record(kind, e.id, attribute, "Preserved") \in w.report
                  Unwritten(p) == p.id \notin OwnedIds(b)
                  Later(p)     == \E x \in ToSet(b.extensions) : x.entity = p.id /\ x.version > 1
              IN  /\ \A f \in ToSet(b.footprints) : Kept("footprint", "rotation", f) =>
                        \E g \in ToSet(board.footprints) :
                            /\ f.reference = g.reference /\ f.position = g.position
                            /\ f.rotation = g.rotation /\ f.side = g.side
                  /\ \A t \in ToSet(b.tracks) : Kept("track", "path", t) =>
                        TrackSpans(b, t) \subseteq AllTrackSpans(board)
                  /\ \A z \in ToSet(b.pours) : Kept("zone", "outline", z) => Pour(b, z) \in Pours(board)
                  /\ \A p \in ToSet(b.pads) :
                        IF Unwritten(p) \/ PadShape(b, p.id) = {}
                        THEN Kept("pad", "shape", p) => Unwritten(p) \/ Later(p)
                        ELSE /\ Kept("pad", "shape", p)
                             /\ \E q \in ToSet(board.pads) : ShapedAgain(b, p, board, q)
                  /\ b.keepouts # board.keepouts => Absent("keepout") \in w.report

\* assemble_loops ends (import_geometry.cpp:56-88): whatever the order and directions
\* of the edges, they are used up, or one of them dangles and the import fails.
AssemblyEnds == phase = "outline" ~> phase = "failed" \/ spans \o loop = <<>>

\* entity_id.hpp:31: "0 is reserved for null".
NoNullId ==
    \A table \in {"layers", "stacks", "nets", "pins", "outlines", "footprints", "pads", "vias", "tracks", "pours"} :
        \A e \in ToSet(board[table]) : e.id # Null
=============================================================================
