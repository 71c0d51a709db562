----------------------------- MODULE Diagnostics ----------------------------
(***************************************************************************)
(* The validate() functions of the three layers that look across entities: *)
(* connectivity, geometry and stackup diagnostics.cpp, over the board of   *)
(* KicadBoard.  A diagnostic is [id, code].  Differential pairs, buses,    *)
(* materials, impedance profiles and the checks of one entity alone that   *)
(* no import can fail (thickness, diameters) are left out.                 *)
(***************************************************************************)
EXTENDS KicadBoard

Report(table, Faulty(_), code) == {[id |-> e.id, code |-> code] : e \in {e \in ToSet(table) : Faulty(e)}}

Dangling(table, id) == id # Null /\ ById(table, id) = {}

\* Whether an earlier entry of a sequence is equal to the i-th
Repeated(seq, i) == \E j \in 1 .. i - 1 : seq[j] = seq[i]

\* connectivity::validate
PinFaults(board) ==
    LET claimed == [i \in DOMAIN board.pins |-> board.pins[i].pad]
        again   == {board.pins[i].id : i \in {i \in DOMAIN claimed : claimed[i] # Null /\ Repeated(claimed, i)}}
    IN  UNION {Report(board.pins, LAMBDA p : p.pad = Null, "InvalidPin"),
               Report(board.pins, LAMBDA p : p.pad # Null /\ p.net = Null, "UnconnectedPin"),
               Report(board.pins, LAMBDA p : Dangling(board.nets, p.net), "DanglingPinNetReference"),
               {[id |-> id, code |-> "DuplicatePadAssignment"] : id \in again}}

NetFaults(board) == Report(board.nets, LAMBDA n : n.name = "", "EmptyNetName")

\* connectivity::validate_geometry_net_references
GeometryNetFaults(board) ==
    LET Hangs(e) == Dangling(board.nets, e.net)
    IN  Report(board.tracks, Hangs, "DanglingGeometryNetReference")
            \cup Report(board.pours, Hangs, "DanglingGeometryNetReference")

\* stackup::validate
StackFaults(board) ==
    LET Kinds(s) == {l.kind : l \in {l \in ToSet(board.layers) : l.id \in ToSet(s.layers)}}
    IN  UNION {Report(board.stacks, LAMBDA s : s.layers = <<>>, "EmptyStackup"),
               Report(board.stacks, LAMBDA s : ~IsInjective(s.layers), "DuplicateStackupLayer"),
               Report(board.stacks, LAMBDA s : \E id \in ToSet(s.layers) : ById(board.layers, id) = {},
                      "DanglingStackupLayerReference"),
               Report(board.stacks, LAMBDA s : Kinds(s) \cap {"EdgeCuts", "Silkscreen"} # {},
                      "NonPhysicalStackupLayerMember")}

WrongKindUnseen(board) ==           \* mutant: an outline on any layer that exists is fine
    Report(board.outlines, LAMBDA o : ById(board.layers, o.layer) = {}, "DanglingBoardOutlineLayerReference")

\* stackup::validate_layer_references: vias and outlines only
LayerReferenceFaults(board) ==
    LET Gone(id)  == ById(board.layers, id) = {}
        Wrong(id) == \E l \in ById(board.layers, id) : l.kind # "EdgeCuts"
    IN  UNION {Report(board.vias, LAMBDA v : Dangling(board.layers, v.first) \/ Dangling(board.layers, v.last),
                      "DanglingViaLayerReference"),
               Report(board.outlines, LAMBDA o : Gone(o.layer), "DanglingBoardOutlineLayerReference"),
               Report(board.outlines, LAMBDA o : Wrong(o.layer), "BoardOutlineLayerWrongKind")}

\* geometry::validate: the members of the footprints, in table and then member order
MemberFaults(board) ==
    LET pairs     == FlattenSeq([i \in DOMAIN board.footprints |->
                        [j \in DOMAIN board.footprints[i].pads |->
                            [owner |-> board.footprints[i].id, member |-> board.footprints[i].pads[j]]]])
        resolved  == SelectSeq(pairs, LAMBDA p : ById(board.pads, p.member) \cup ById(board.vias, p.member) # {})
        members   == [i \in DOMAIN resolved |-> resolved[i].member]
        unknown   == {p.owner : p \in ToSet(pairs) \ ToSet(resolved)}
        duplicate == {resolved[i].owner : i \in {i \in DOMAIN members : Repeated(members, i)}}
    IN  {[id |-> id, code |-> "DanglingFootprintMemberReference"] : id \in unknown}
            \cup {[id |-> id, code |-> "DuplicateFootprintMemberReference"] : id \in duplicate}

\* from_polygon_validity, for outlines, pads and pours
PolygonFaults(board) ==
    LET Of(table, Polygon(_)) ==
            {[id |-> e.id, code |-> PolygonValidity(Polygon(e))] :
                e \in {e \in ToSet(table) : PolygonValidity(Polygon(e)) # "Valid"}}
        Plain(e)  == [outline |-> e.outline, holes |-> <<>>]
    IN  UNION {Of(board.outlines, Plain), Of(board.pads, Plain), Of(board.pours, LAMBDA e : e.outline)}

AllDiagnostics(board) ==
    UNION {PinFaults(board), NetFaults(board), GeometryNetFaults(board), StackFaults(board),
           LayerReferenceFaults(board), MemberFaults(board), PolygonFaults(board)}
=============================================================================
