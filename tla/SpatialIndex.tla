---------------------------- MODULE SpatialIndex ----------------------------
(***************************************************************************)
(* geometry::SpatialIndex (geometry/spatial_index.cpp): a uniform grid     *)
(* over bounding boxes.  insert() files a box's index under every cell the *)
(* box touches; query() collects the indexes filed under the cells of the  *)
(* region and keeps the boxes that really intersect it.  cells_ is the set *)
(* of pairs <<cell, index>>; the result of a query is sorted and free of   *)
(* duplicates in the code, so it is determined by the set of its indexes.  *)
(***************************************************************************)
EXTENDS Integers, Sequences

CONSTANTS CellSize,         \* cell_size_nm
          Boxes             \* the boxes a client inserts or asks for, empty ones included

Pairs == Int \X Int

BoxType == [minx : Int, miny : Int, maxx : Int, maxy : Int]

ASSUME SpatialAssumption == CellSize \in Nat \ {0} /\ Boxes \subseteq BoxType

VARIABLES bounds,           \* bounds_: the boxes in insertion order
          cells,            \* cells_
          answer            \* the last query: [region, count, hits], count boxes inserted by then

spatialVars == <<bounds, cells, answer>>

\* C++ / and %: towards zero, the remainder with the dividend's sign.
Quotient(a, b) == IF a >= 0 THEN a \div b ELSE -((-a) \div b)

Remainder(a, b) == a - b * Quotient(a, b)

FloorDiv(a, b) ==
    LET r == Remainder(a, b)
    IN  IF r # 0 /\ (r < 0) # (b < 0) THEN Quotient(a, b) - 1 ELSE Quotient(a, b)

EmptyBox == [minx |-> 1, miny |-> 1, maxx |-> 0, maxy |-> 0]

IsEmpty(box) == box.minx > box.maxx \/ box.miny > box.maxy

Intersects(a, b) ==
    /\ ~IsEmpty(a) /\ ~IsEmpty(b)
    /\ a.minx <= b.maxx /\ a.maxx >= b.minx
    /\ a.miny <= b.maxy /\ a.maxy >= b.miny

CellsOpenAbove(box) ==      \* mutant: the last row and column of cells are left out
    IF IsEmpty(box) THEN {}
    ELSE (FloorDiv(box.minx, CellSize) .. FloorDiv(box.maxx, CellSize) - 1)
            \X (FloorDiv(box.miny, CellSize) .. FloorDiv(box.maxy, CellSize) - 1)

CellsOf(box) ==
    IF IsEmpty(box) THEN {}
    ELSE (FloorDiv(box.minx, CellSize) .. FloorDiv(box.maxx, CellSize))
            \X (FloorDiv(box.miny, CellSize) .. FloorDiv(box.maxy, CellSize))

InsertCountedLate(box) ==   \* mutant: the index is taken after push_back
    /\ bounds' = Append(bounds, box)
    /\ cells' = cells \cup (CellsOf(box) \X {Len(bounds) + 2})
    /\ UNCHANGED answer

Insert(box) ==
    /\ bounds' = Append(bounds, box)
    /\ cells' = cells \cup (CellsOf(box) \X {Len(bounds) + 1})
    /\ UNCHANGED answer

Query(region) ==
    LET candidates == {i \in DOMAIN bounds : \E c \in CellsOf(region) : <<c, i>> \in cells}
    IN  /\ answer' = [region |-> region, count |-> Len(bounds),
                      hits   |-> {i \in candidates : Intersects(bounds[i], region)}]
        /\ UNCHANGED <<bounds, cells>>

SpatialInit ==
    /\ bounds = <<>>
    /\ cells = {}
    /\ answer = [region |-> EmptyBox, count |-> 0, hits |-> {}]

SpatialNext == \E box \in Boxes : Insert(box) \/ Query(box)

SpatialSpec == SpatialInit /\ [][SpatialNext]_spatialVars

-----------------------------------------------------------------------------
\* What the index is for: the grid answers as a scan of every box would.  It
\* fails when a box and a region that meet share no cell: a division that is not
\* monotone across zero, an open cell range, a box filed under its corner.
QueryExact ==
    answer.hits = {i \in 1 .. answer.count : Intersects(bounds[i], answer.region)}

SpatialTypeOK ==
    /\ bounds \in Seq(Boxes)
    /\ cells \subseteq Pairs \X (DOMAIN bounds)
    /\ answer.region \in Boxes \cup {EmptyBox}
    /\ answer.count \in 0 .. Len(bounds)
=============================================================================
