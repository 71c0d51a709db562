# PCB-IR: TLA+ models, model checking and proofs

PCB-IR is a C++ library that holds a printed circuit board as an
intermediate representation: typed entities in three layers (geometry,
connectivity, stackup), grouped in immutable snapshots, edited through
workspaces, written to one FlatBuffers file, read back whole or memory-mapped,
exposed through a C ABI, and imported from and exported to KiCad.

This directory specifies its core: the entity arena, the copy-on-write
snapshots (sequentially and with threads), the board file and the mapped view, the C
interface, the exact geometry, and the KiCad converters with the validators that
guard them. TLC checks the modules on small instances; TLAPS proves, for every value
of the constants, the safety properties of the arena, of the copy-on-write store with
and without threads, of the board file, of the mapped view, of the C interface, and of
the exact geometry: the spatial index, the checked arithmetic, the decimal conversion
both ways, the containment test on triangles and the outlines of pads.

All paths below are relative to the repository (`src/...` in `PROJECT.json`).

## The system

| Component | State it keeps | Operations | Works with |
|---|---|---|---|
| Arena and handles (`core/arena.hpp`, `handle.hpp`, `entity_id.hpp`) | slots (value, generation, id), free list, id index | insert, erase, try_get, find, id_of, size, for_each | owned by CowTables |
| Snapshots and workspaces (`core/snapshot.hpp`, `workspace.hpp`, `detail/cow_table.hpp`) | shared pointers to arenas, next id, commit count | open, copy, commit, insert, insert_with_id, erase, try_get, destroy | share arenas with each other, across threads |
| Board snapshot and serialization (`serialize.cpp` and one per layer) | three snapshots, extensions, passthrough blobs, format version | serialize, deserialize | reads entities by for_each, rebuilds workspaces by insert_with_id |
| Memory-mapped board files (`board_file_view.cpp`) | descriptor and mapping (POSIX), file, mapping and view handles (Windows) | open, move, destroy, header accessors, materialize | the file that saves write |
| C ABI (`c_abi/*.cpp`) | opaque heap objects, a last-error string per thread | create, free, load, save, lookup, edit, validate | wraps all of the above |
| Layer diagnostics (`*/diagnostics.cpp`) | none | validate a snapshot, or one against another | reads snapshots |
| Geometry algorithms (`geometry/*.cpp`) | spatial index cells | contours, polygons, rotation, queries, checked arithmetic | used by import and clients |
| Boolean operations (`geometry/boolean.cpp`) | none | wraps Clipper2 | geometry |
| KiCad import (`kicad/import*.cpp`) | id counter and workspaces along its passes | parse tree to board and fidelity report | inserts with explicit ids, attaches extensions |
| KiCad export (`kicad/export*.cpp`) | none | board to text, fidelity report | reads snapshots and extensions |
| KiCad text formats (`kicad/sexpr.cpp`, `units.cpp`, ...) | none | text parsing and printing | import, export |

What is hard in it, and what makes each part correct:

- **Arena.** Slots are reused, so a stale handle must never reach the entity
  that took its slot, and a stale `erase()` must not free a slot twice. The
  free list and the id index repeat what the slots say and must agree with them.
- **Snapshots and workspaces.** Sharing must be invisible: a committed snapshot
  never changes, workspaces opened on one snapshot do not see each other. The
  decision to clone is `use_count() > 1`, read without a lock, while other
  threads copy and drop references.
- **Serialization.** The allocator, the free list and the generations are not
  written. Everything that depends on them must survive a reload or must
  not show.
- **Saving.** The file is truncated in place and written through a buffer; a
  crash or a full disk comes between any two steps.
- **Mapped views.** Three resources, one error path after each, moves that hand
  them over, and a file that others write while it is mapped.
- **C ABI.** The caller owns every object and frees it when it likes, from any
  thread, while names it was handed point into tables other objects share. Counts
  come from the id index and positions from the slots. An exception in the middle of a
  call becomes a status, and what the call had done by then stays.
- **Geometry.** Overflow must be found without overflowing, division truncates
  towards zero, outlines are listed from any span in either direction, and a ray
  through a vertex counts once.
- **Diagnostics.** The exporter refuses what the validators, in other files, are
  expected to have found.
- **KiCad.** Six passes hand each other an id counter and base snapshots; edges come in
  any order and direction; KiCad's y axis and angles run the other way; the
  fidelity reports predict what code in another file writes.

`PROJECT.json` lists these hazards at their lines ("hazards"), each with the
properties that would catch it, or the reason why there is none.

## The modules

| Module | What it is | Code |
|---|---|---|
| `ArenaOps` | the arena as a record and its operations as operators | `core/arena.hpp` |
| `Arena` | a client of one arena, with its history | the contract of `core/arena.hpp` |
| `ArenaOpsProofs`, `ArenaProofs` | lemmas on the operators; theorems of `Arena` | |
| `SnapshotStore` | abstract: every snapshot and workspace has tables of its own | `core/workspace.hpp`, `snapshot.hpp` |
| `CowStore` | detailed: objects point to shared arenas, `write()` clones a shared one | with `detail/cow_table.hpp` |
| `CowStoreProofs` | inductive invariant, safety and refinement of `CowStore` | |
| `CowThreads` | `write()`, copying and destruction in atomic steps of several threads | `cow_table.hpp` and `std::shared_ptr` |
| `CowThreadsProofs` | inductive invariant, safety and refinement of `CowThreads` | |
| `BoardCodec` | what a board becomes when written and when read | `serialize.cpp` of the board and of the layers |
| `BoardFile` | sessions that edit, save, crash, load | `c_abi/board.cpp`, `serialize.cpp` |
| `BoardFileProofs` | lemmas on writing and reading; theorems of `BoardFile` | |
| `BoardFileView` | mapped views on both platforms | `board_file_view.cpp` |
| `BoardFileViewProofs` | ownership and verification of mapped views | |
| `CAbi` | every call on boards, snapshots, workspaces, lists, buffers and names, from several threads | `c_abi/*.cpp`, `pcbir.h` |
| `CAbiProofs` | names, positions and failures of the C interface | |
| `CheckedArith` | overflow-checked `+`, `-`, `*` in a word of any width | `geometry/checked_arith.hpp` |
| `Units` | decimal text to fixed point and back | `kicad/units.cpp` |
| `Contours` | points, spans, contours, polygons: validity, winding, containment, rotation | `geometry/contour.cpp`, `polygon.cpp`, `rotate.cpp`, `kicad/coordinate_util.hpp` |
| `PadShape` | the outline of each parametric pad shape | `kicad/pad_shape.cpp` |
| `SpatialIndex` | the grid of boxes, insertion and query | `geometry/spatial_index.cpp` |
| `GeometryCalls` | one client of all of the above | |
| `GeometryCallsProofs` | theorems on the index, the arithmetic, the decimal conversion, triangles, pad outlines, and on the client of all | |
| `KicadBoard` | boards and KiCad files, lookups, angles and arcs both ways | `kicad/coordinate_util.hpp` |
| `KicadImport` | each row of a file to entities, the import report | `kicad/import*.cpp` |
| `KicadExport` | each entity to a row, what throws, the export report | `kicad/export*.cpp` |
| `Diagnostics` | the validators, and those of one layer against another | `*/diagnostics.cpp` |
| `Kicad` | import pass by pass, an edit, export, import again | `import_kicad_pcb`, `export_kicad_pcb` |
| `MC*` | the instances for TLC | |

How they are composed: `ArenaOps` is the state of one table in `Arena`,
`SnapshotStore`, `CowStore`, `CowThreads` and `BoardCodec` alike. `CowStore` and
`CowThreads` each instantiate `SnapshotStore` under a refinement mapping (an
object shows the contents of the arenas it points to). `BoardFile` extends
`BoardCodec`; its layers are workspaces as `CowStore` has them, without the
sharing, which `CowStore` shows to be invisible. `CAbi` builds its objects on
`ArenaOps` with the sharing of `CowStore`, a call being one step. `Kicad` extends
`KicadExport` and `Diagnostics`, which extend `KicadImport`, `KicadBoard`, `PadShape`
and `Contours`; the geometry the converters use is the one `GeometryCalls` checks.

State and actions against the code:

- An arena is `[slots, free, idIndex]` as in the class; a slot is live while
  its value is not `NoValue` (`std::optional` engaged). Generations live in
  `0 .. GenMod - 1` with 0 reserved, as the `uint32_t` of the code does with
  `GenMod = 2^32`. `Insert`, `Erase`, `Find` and the others are the
  methods. `erase()` of a handle that does not resolve does nothing, as in a build
  without assertions.
- `CowStore`: `obj[o]` is a snapshot, a workspace or nothing; its tables name
  arenas of a heap. `Write` is `CowTable::write()`: it clones an arena that another
  object shows too. `Reclaim` is the destructor of the last reference. `Copy` opens
  a workspace on a snapshot or copies an object, `Commit` makes a
  snapshot of a workspace, `InsertNew` and `InsertWithId` allocate ids as
  `Workspace` does.
- `CowThreads`: the use counts are state of their own, and `write()` is
  `CheckCount`, `Clone`, `Swap`, `DropOld`; a copy of an object takes one table's
  reference at a time (`CopyTable`), destruction drops one at a time. A workspace is used by one
  thread at a time and snapshots by any number, the rule the docs state.
- `BoardFile`: `file` is absent, cut off or a whole board in wire form. A save is
  `BeginSave` (serialize, open with truncation), `WriteBytes` or `FailWrite`,
  `CloseFile` (the destructor). What has reached the disk between those is left open,
  as a buffered stream leaves it. `Crash` may come anywhere. `Relabel`
  stands for another build of the same major version, or of another one.
- `CAbi`: `obj` gives each handle its layers, `heap` the tables by address, with the
  copy-on-write test in `WriteNets`. `Answer` and `Throws` are `translate_exceptions`: a
  status, and the last error of the calling thread. `Load` rebuilds tables as
  `insert_entries` does; `BoardLayer`, `WithConnectivity` and
  `WorkspaceFromSnapshot` copy references, so they share. `Lookup` is the four
  read calls every entity kind has. `InsertNet` may run out of memory before
  a shared table is cloned, after that, or after the slot is filled and before the
  index has it (`arena.hpp:62`). Each leaves what the code leaves.
- `GeometryCalls`: `Insert` and `Query` of the index as the code does them, and one
  action per group of pure functions, whose arguments and result are kept in `call`
  for the properties. Numbers are a word of `MaxInt` (`2^63 - 1` in the code).
- `Kicad`: `phase` is the next pass. `Pass` runs one pass or throws; `StartLoop`,
  `ExtendLoop`, `CloseLoop` are the iterations of `assemble_loops`; `Edit` is one
  thing an owner may do to a board through its workspaces, which check nothing;
  `ExportBoard` and `Reimport` close the circle. In `KicadImport` and `KicadExport` a
  function that may throw gives a set: empty when it throws. Entities are
  records in sequences by table, ids come from the counter of each layer.
- `BoardFileView`: `os` is the set of the process's open resources by number; a new
  one gets any number that is free, so numbers are used again; `held` is what an object remembers. `open()` is
  `BeginOpen`, `FindSize`, `TakeNext`, `Return` and one failing action beside each.

## The runs

| Run | Shows |
|---|---|
| `arena` (`MCArena`) | `FreeListExact`: the free list is the dead slots, once each, whatever stale handle is erased. `IdIndexExact`: `find()` and the slots agree unless a live id was inserted twice. `HandleIdentity`: a handle reaches its own entity, or none, until its slot's generation has come round. |
| `cow_store` (`MCCowStore`) | `ImplementsSnapshotStore`, `EditsStayPrivate`: sharing is invisible. `ClonesOnlyShared`: nothing is cloned that nobody else shows. `AllocatorAhead`: no id of a table is ever at or past the allocator two tables share, and it never goes back. |
| `cow_threads` (`MCCowThreads`) | `CountsExact`: use counts equal the references held, in-flight ones included. `EditsExclusive`: from the test of the count to the edit in place no step of another thread reaches the arena. `ThreadsImplementSnapshotStore`. |
| `board_file` (`MCBoardFile`) | `FileStable`: load and save give the same bytes. `LoadFindsEverything`: each entity is found by its id in its table. `IdsUnambiguous`: an id names one live entity of a layer, over all its tables, reloads and edits between them. |
| `id_reuse` (`MCBoardFile`) | violation: an erased id is given again after a reload |
| `save_lost` (`MCBoardFile`) | violation: a save returns `PCBIR_OK` and the file is cut off |
| `board_file_view` (`MCBoardFileView`) | `OwnedOnce`: every open resource has one owner, and what an object remembers is open. `AssignHandsOver`: assignment keeps what the source shows, self-assignment included. `StaysVerified`: on Windows, what was verified stays so. |
| `c_abi` (`MCCAbi`) | `NamesStayValid`: a name a getter returned reads the same until its snapshot is freed, whatever is freed, committed or edited meanwhile. `PositionsSound`: counting and then asking by position gives each entity once under its own id; a half-inserted net has no handle at its position and is not counted. `CallsContained`: no call changes what a board or snapshot shows, a failed call changes nothing that is reachable by id and one thread's last error, a successful one no last error. |
| `geometry_calls` (`MCGeometryCalls`) | `QueryExact`: the grid answers as a scan would. `CheckedExact`: arithmetic succeeds exactly when the result fits. `ParseNearest`, `FormatParses`: decimals are read to the nearest unit and what is written reads back. `PadOutlineSound`: pad outlines are valid, their corners as far apart as the sizes given say, wound one way. `OutlineTestsIntrinsic`: validity and winding do not depend on the first span, the position, a quarter turn or (validity) the direction, and the containment test neither on the first span nor on the direction, nor, for a point off the chords, on the axis its ray takes. `ContainsExact`: the even-odd test says inside of a point to the same side of all three edges of a triangle, outside of one with edges to both its sides, whichever way the triangle is wound. |
| `kicad_round_trip` (`MCKicad`) | `ImportedBoardClean`: every edge is in one outline, ids are distinct over all passes, references resolve, no validator complains of anything but pads without a net. `RoundTrip`: every file exported can be read, and an unedited board comes back with the same content. `ExportFailureDiagnosed`: a refused export is one a validator finds fault with, or one with a fault `Unchecked` names, and a board with one of those is never written. `PreservedComesBack`: what the export report calls Preserved comes back, a pad by its extension, two kinds of pads excepted by name. `AssemblyEnds`: the assembly of outlines ends. |
| `null_id` (`MCKicad`) | violation: the first outline of an import gets id 0 |
| `tall_oval` (`MCGeometryCalls`) | violation: the end caps of a tall oval bulge into the pad |

Every property of a passing run has a mutant in `PROJECT.json`: a named defect of
the code (kept in a section of the module, before the definitions) under which TLC
finds the property violated.

### Findings

1. `null_id`: `Snapshot::next_entity_id_` is default-initialised to the null id
   (`snapshot.hpp:41`) and `import_kicad_pcb()` opens the outline's workspace on a
   default snapshot (`import.cpp:310`), so the first outline of every import has the id
   that `entity_id.hpp:31` reserves. On a board without edges a pad gets it, and the pad's pin
   then names no pad; `ImportedBoardClean` excepts that board.
2. `tall_oval`: `build_oval()` mirrors a wide oval by swapping coordinates
   (`pad_shape.cpp:119-132`) and leaves each arc's direction, so that after the winding is
   made canonical the caps are concave. No test has an oval taller than wide.
3. `id_reuse`: the allocator is not serialized, so "never reused" (architecture.md)
   does not hold over a reload.
4. `save_lost`: `write_file()` does not look at the flush its stream's destructor
   makes.

### Where else code and words part

Met while modelling; each is modelled as the code does it (unless said otherwise) and
excepted by name where a property would otherwise speak of it.

- **C ABI.** A net whose insertion ran out of memory at `arena.hpp:62` is counted by
  nobody, its position answers `NOT_FOUND` in mid-range, and positions from the
  count on still resolve; it becomes an ordinary net after a save and a reload,
  though `insert_net` had returned `UNKNOWN`. `PCBIR_ERROR_OUT_OF_MEMORY`
  (`pcbir.h:86`) is never returned: `error.hpp:32` makes `bad_alloc` `UNKNOWN`.
  `entity_id` of a stale handle returns `OK` and 0. A pointer of `Workspace::try_get()`
  kept over `commit()` reaches into the snapshot (`workspace.hpp:50`).
- **Numbers.** `units.hpp:57` says every representable value reads back:
  `INT64_MIN` does not. A rounded pad's radius may shrink by the truncation of its
  ratio, although `export_footprint.cpp:178-180` says the same radius comes back.
- **Pads.** `pad_shape.hpp:36` says an outline always satisfies `validate()`. A pad
  narrower than 2 nm has coinciding corners; an oval longer than wide by 1 nm has its
  straight edges truncated away, no area, and is refused as `OutlineWrongOrientation`; a
  radius above half a side or a delta beyond the other size makes edges cross; and
  where the signed area of a huge pad overflows its winding is unknown. The importer checks none of these.
  `PadOutlineSound` is stated of the other pads (`PadsAssumption`).
- **Export, not in the report.** Silkscreen `gr_line` and `gr_arc` are skipped; the shape
  of a through-hole pad that is not a circle, and its type when `np_thru_hole`; its
  layers come back as all copper; tracks of several spans come back as several
  tracks; nets nothing refers to are lost; holes of a board outline
  are never written (not modelled).
- **Export, reported wrongly.** conformance.md:24 wants any attribute that is not preserved
  reported, :39 defines Preserved as "carried through exactly", :47 forbids silent losses.
  The code falls short of all three. Besides the losses above, which no record names:
  a pad shape extension of a later version is called Preserved and skipped
  (`export.cpp:419-431` against `export_footprint.cpp:341-357`); a pad no footprint owns is
  called Preserved and not written; a pad whose outline its owner changed is called
  Preserved and written by the extension of its import
  (`export_footprint.cpp:305-315`); and a rounded pad is called Preserved although its
  radius may shrink. `PreservedComesBack` does not claim those sentences: it says what
  comes back of that which the report calls Preserved, excepts the first two by name, and
  holds a written pad to the shape of its extension with a radius that may have shrunk, so
  that these four are the only ways among the edits of the run. It does not look at what no record names.
- **Export, unreadable.** A net with an empty name, a layer in use that is not in the last
  stack, a layer whose name does not tell its kind to KiCad: the file is written and
  `import_kicad_pcb` throws on it.
- **Export, undiagnosed.** The exporter throws on these, and no validator reports them: a
  stack of more copper layers than KiCad has; a board without a layer for the outline,
  or with an outline on an EdgeCuts layer that is not the last one (`export.cpp:194`; the
  validator accepts any, `stackup/diagnostics.cpp:155`); a missing layer of a
  track, of a footprint's pad or of a pour; a null layer of a free via
  (`export.cpp:295-296`; `stackup/diagnostics.cpp:141-143` reports a dangling one only);
  an arc in a pour or in a hole of one (`export.cpp:318`); an extension whose corner
  radius overflows the ratio (`export_footprint.cpp:188`). `Unchecked` lists them, and
  `ExportFailureDiagnosed` says that each of them does stop the export and that with the
  faults in `Blocking`, which validators do report, they are all that stops it.
- **Threads.** c-abi.md:27 and `pcbir.h:30` call snapshots safe to read concurrently, by
  "atomic refcounting" (rfcs/0001-stable-c-abi.md:72-74). `write()` decides by `use_count()`
  (`cow_table.hpp:26`), a relaxed load: when it reads 1 because another thread has just
  dropped its reference, that thread's finished reads do not happen before the edit in
  place, which in C++ is a data race (an acquire fence after the test would order them).
  The models read the count in a step (`SharedNow`); the comment there says why the
  outcomes of a build are those of such a step, and nothing here says that
  the program is free of the race.
- **Contours.** A contour with both an open joint and an invalid arc is reported for the one
  whose span is listed first (`contour.cpp:129-142`), so that the kind of fault, unlike
  the verdict, depends on the first span. Where products overflow, so do winding and
  sides.
- **Import.** An edge of no length that is the last of the spans becomes an outline of its
  own, which `validate()` rejects (the run has one within a loop, where it does no
  harm). Nets of one name become one. Outlines that touch in a point may be
  assembled into one loop (no file of the run has them).

### Bounds, and why they are enough

- `arena` (`GenMod` 4, so three generations; 5 handles issued; 3 ids): one slot is
  reused often enough for its generation to wrap and skip 0, two slots are on the
  free list in either order, and a live id is inserted twice. 212 thousand states.
- `cow_store` (2 snapshots, 2 workspaces, three of them at a time, 2 tables of 1 slot,
  4 addresses, ids 1 and 2, each of them fresh or restored, one commit per lineage): the least with
  a snapshot that outlives its workspace, sibling workspaces, a clone of a clone, and ids
  restored in either order, mixed with fresh ones, to tables that share an allocator. The
  second table is not followed once two objects show different arenas of it (`Budget`):
  what sharing does, one table shows. 103 thousand states.
- `cow_threads` (2 threads, 1 snapshot, 2 workspaces, 1 table, 5 addresses): a
  thread's test of the count, the other's copy or drop of a reference to the same
  arena, three references to one arena, and two clones in progress at once. 295
  thousand states.
- `board_file`: two layers, one with two tables that share an allocator; three
  entities and one extension; three file versions. `GenMod` is larger than any
  behaviour needs, wrapping being the matter of `arena`. Three births suffice for an id restored
  below another, a hole in a table filled before a save (slot order differs from id
  order), and an id erased and given again. 572 thousand states.
- `board_file_view` (3 objects, 2 files, 9 numbers): an object moved onto an
  open one, onto itself and out of a moved-from one while an `open()` is in
  progress; nine numbers are all that three objects, or two and a call, can hold at
  three each. Its VIEW renumbers the resources by who holds them, which no action or
  property tells apart. 234 thousand states.
- `c_abi` (2 threads, 2 boards, 2 snapshots, 1 workspace, 1 list; ids to 2; one finding
  per list; a good file, a corrupt one, one of another version, one that cannot be
  read): two snapshots and a workspace on one table, a board assembled from
  another, a name borrowed from a snapshot whose board is freed, and an insertion that
  fails on a shared table. At most three things are held at a time, lists and
  buffers counting double (`Budget`). 25 thousand states.
- `geometry_calls`: an 11-bit word, so that products, sums and the least number are all
  met at its edge; two fraction digits and up to four in a text, so that rounding
  carries; cells two wide, boxes on both sides of zero, on cell edges and empty; all
  closed loops of three and four points of a small grid, the same with a span bent to an
  arc, valid or not, and each with a span missing;
  pad sizes 2, 3, 4, 6 (the code halves them and their difference). A pure call is made
  once, on an empty index. 32 thousand states.
- `kicad_round_trip`: 27 files, one with everything (three copper layers, an outline
  with an arc and edges out of order and reversed, a turned footprint with a surface and a
  through-hole pad, track, arc, buried via, zone with a hole on two layers) and that
  file with one thing changed, with one at least that must throw in each pass that
  can. Then one edit of each kind, export, import, and the same again (`MaxTrips` 2), so that an error that
  cancels in one trip shows. Coordinates are integers of -7 .. 7 where the
  centre and the middle of the arcs used are integers as well; angles are quarter
  turns; ratios have two digits (`RatioScale` 100). 8 thousand states.

Bounds are CONSTANTS named in the modules (`MaxIssued`, `MaxId`, `MaxSlots`,
`MaxVersion`, `MaxBorn`, `MaxExtensions`, `File`, `Number`, `MaxFaults`, `MaxBoxes`,
`MaxTrips`) and stand in guards or bound a set; `Budget` is a constraint. Runs that
stop at a bound or when a converter has failed say `CHECK_DEADLOCK FALSE`.
`cow_store`, `cow_threads` and `c_abi` use symmetry, and a VIEW that forgets the names of
addresses: no action or property tells one address from another, and the view keeps
which references lead to the same arena. The view of `c_abi` also drops the last
answer and the last errors, which no call reads; `CallsContained` is a property of
steps and sees every step.

### Fairness

One fairness assumption, `WF_vars(AssembleStep)` in `Kicad`: `assemble_loops()` is a
synchronous call that neither waits nor returns between two iterations, so once
begun it runs on. Under it `AssemblyEnds` says that its two nested loops end: each
iteration uses up an edge, closes the loop or throws. Elsewhere none is assumed and no
liveness is claimed: every operation is a call a client makes, and nothing in the code
obliges it to make one; there is no background work, no lock and no waiting, and
`write()` never blocks.

## What is proved

`ArenaProofs` (every `GenMod > 2`, every set of ids and values, any number of
handles; TLAPS checks with SMT, Zenon and PTL):

- `ArenaTypeOK`, `ArenaFreeListExact`, `ArenaIdIndexExact`: each is inductive
  together with type correctness. The facts needed of `Insert` and `Erase` (which
  slot is taken, what the free list loses or gains, which index entries change) are
  lemmas of `ArenaOpsProofs`, stated on the operators and used here and in
  `CowStoreProofs`.
- `ArenaHandleIdentity`: the strengthening is `GenTracks`: the slot's
  generation is the handle's, advanced in the cycle 1 .. `GenMod - 1` by the
  number of erasures of that slot since. Two handles of one slot with one
  generation are then a whole cycle apart, which is what the property says.

`CowStoreProofs` (any sets of objects and tables): the inductive invariant `IInv`
is type correctness, `TablesApart` (an arena is in one table position only, so
that editing one table cannot reach another), `IdsBehind` (ids are behind the allocator), and the exactness of
the free list of every arena in the heap. The last is what makes an insertion into
a shared arena's clone land on a free slot, so that the abstract step is the same.

- `CowTypeOK`: a conjunct of `IInv`. `CowAllocatorAhead`: another, and the step property
  that no object's allocator goes back.
- `CowEditsStayPrivate`, `CowClonesOnlyShared`: action properties, from `IInv` and one
  lemma per action on what `Write` leaves alone.
- `CowImplementsSnapshotStore`: `Init` and every action map to `SnapshotStore`'s under
  the mapping that gives each object the contents of its arenas. The two lemmas
  that carry it: a `write()` changes either an arena only its workspace refers to or a
  fresh clone (`WriteEffect`), so it changes what that workspace shows in that table
  and nothing else (`WriteViews`).

`CowThreadsProofs` (any sets of threads, objects and tables). A call in progress is a
`task` with the references it holds besides those of the objects. The inductive
invariant says:

- no reference dangles (`NoDangling`), references from different table positions
  never meet (`TablesApart`), and every arena's free list is exact;
- an arena's count is the number of references to it, of objects and of tasks together
  (`Counted`);
- a workspace, and an object that is being made, is used by one task (`OneUser`: the
  rule of the docs, which the actions' guards state);
- from its test of the count to its write, an edit's workspace has the only reference
  to the arena, and a clone not yet in place is its task's alone (`Sole`). This lasts
  because a new reference is only made by copying an object that has one, and the only
  one that has is in use.

`CountsAreExact` is `Counted` and `EditsAreExclusive` follows from `Sole`: both of every
interleaving of the steps, neither of the memory order of C++ (see "Threads" above).
`ThreadsImplement` is the refinement: `Create`, `Edit`, `Publish` and `BeginDestroy` are
the abstract steps, every other step is a stutter, because what an object shows is the
contents of its arenas and a clone has the same.

`BoardFileProofs` (any layers, tables and format versions, any number of entities). The
invariant `IInv` holds the same facts of the board in memory, of the file and
of the bytes of a save in progress, so that a save that fails and a crash between
any two steps need no argument of their own:

- of a layer in memory (`WorkspaceOK`): its tables are sound arenas, live ids differ
  across all of them, and are behind the allocator;
- of a layer in a file (`VectorsOK`): no id occurs twice across its vectors.

Writing leads from the one to the other since a vector lists the live slots of its
table, each once (`EntriesAreLiveSlots`). Reading leads back: the tables after n entries
are described exactly (`Loaded`: entry i in slot i, generation 1, nothing free), also
while the allocator jumps ahead and back behind ids restored in any order
(`ReadInto`, `Stage`). A loaded table lists the very vector it was read from, hence
`FilesAreStable`; `LoadsFindEverything` and `IdsAreUnambiguous` follow from the same.

`BoardFileViewProofs` (any number of objects, files and numbers, both platforms): the
sets of resources that the objects and the `open()` in progress remember are
disjoint and cover what is open; an object holds every kind of its platform in
order, with the size of its mapping, or nothing; so `release()` frees all of it.
`ResourcesAreOwnedOnce`, `AssignmentHandsOver` (an action property) and, with the
share mode of Windows as the guard of writers, `VerifiedStaysVerified`.

`CAbiProofs` (any handles, threads, files, names and findings): the invariant says
that the tables in memory are exactly those some handle refers to, each a sound arena,
each in the table position of one kind; that a name kept points into a
table of a snapshot not yet freed; that a buffer holds well-formed entities. From it:

- `NamesAreValid`: an edit clones a table a snapshot shows, also when memory
  runs out during the edit.
- `CallsAreContained`: an action property, one case per call.
- `PositionsAreSound`: needs besides that live ids of a table differ and are behind
  the allocator. It is proved under the hypothesis `FilesDistinct`: no table of a
  file repeats an id. Every file the library writes is such a one (`BoardFileProofs`),
  but no reader checks it; with a file that repeats an id, counting by the id index
  and asking by slot do disagree.

`GeometryCallsProofs` (every cell size, every width of word, any boxes with integer
coordinates, any number of calls):

- `SpatialQueryExact`: what the grid holds, box by box, is inductive (`Filed`). The theorem
  rests on that, on `FloorDivBounds` (the code's division, built from one that
  truncates, is the floor), `FloorDivMonotone`, and `MeetingBoxesShareACell`: boxes that
  intersect have a point in common, and its cell is among the cells of both.
- `CheckedSumsExact` and `CheckedMulExact`: the operations of `checked_arith.hpp`
  succeed exactly when the true result fits. For the product, `DivisionBound` says
  what each truncated quotient the code compares with means for the product, one
  case per pair of signs. `ArithmeticIsExact` is the same of every call of the client.
- `ParsedNearest` (texts of any length, any number of fraction digits, any word that one
  unit fits): parsing gives the value nearest to the decimal and fails
  exactly when there is no digit or no representation. `AccumulateExact`: the checked
  accumulation gives the number the digits denote, or fails because that does not fit, at
  whatever step it stops. `DecimalOfConcat` relates a text's whole number to its two
  parts; `Rounds` describes the value nearest to a decimal by two inequalities instead
  of a division, so that looking at one digit beyond the last kept one can
  be shown enough (`SpareDigitRounds`, `FractionNearest`).
- `FormattedParses`: every number but the least is read back from its text. The
  digits of a number denote it (`LowDigitsRead`, by dividing twice), leading zeros of the
  fraction are kept, and trimmed zeros are those the parser pads with
  (`TrimmedFraction`); the rest is `ParseValue`, shared with the theorem above.
- `ContainmentIsExact` (every valid triangle and every point with representable
  differences): by `SideExact` a side is the true cross product when it is computed at
  all. The sides v1, v2, v3 satisfy y3 v1 + y1 v2 + y2 v3 = 0 with y the heights of
  the corners over the point, so that sides of one sign put the heights on both sides of
  the ray. Which edges straddle it then has few cases (`EvenOddOfSigns`), and
  `OddSubset` counts them.
- `PadOutlinesAreSound` (every pad within `PadsAssumption`; arcs outwards except those of
  ovals taller than wide, which is finding 2; the extent is that of the corners, an oval's
  being where its caps begin, `HalfSpan`): each builder's loop is
  `Convex`: closed, its arcs valid, and all its corners and the origin to one side of each
  edge. The rest follows from that alone. The corners of the pad are so near that
  the checked products are the true ones (`CrossOfShort`), so no two chords cross
  (`SameSideApart`, `ConvexIsValid`); the terms of the signed area have one sign and not all are
  zero, so it has the sign of the direction and none of its partial sums overflows
  (`SumsOfOneSign`, `ConvexOrientation`); and the reversal by `canonicalize_winding` keeps the
  loop convex and turns its arcs (`ConvexReversed`, `CanonicalIsValid`). For a rounded
  rectangle the corners are in an `Octagon`, of which each of the eight
  edges has one side (`RoundSides`). What each builder's corners span is `Fills`.
- `CallsImplementIndex`: the client's calls are steps or stutters of the index, so that
  `QueriesAreExact` holds of the client too.

Recursion: `Entries`, `Restored`, `DeserializeTable`, `DeserializeLayer`, `Pow10`,
`AccumulateDigits`, `DecimalValue` and the area in `Orientation` are recursive
functions, most of them local to their operators. That each is what its recursion says at
every length is proved, not assumed: `LeastNumber` (from the well-foundedness of the
naturals) gives `CountUp`, by which a set that has 0 and goes on to the next number has
`n`; with it `EntriesByCounting`, `RestoredByCounting`, `TableByCounting`
and `LayerByCounting` show the function exists, and so does `Recursion` for those
of the decimal texts and of the area, whose steps share a shape. This takes the place of the
library's induction theorems, which cannot be used here.

Assumptions: those named in the modules, and no other. `GenMod` is a natural above 2
and `NoValue` is no value; ids and bounds are naturals; snapshots, workspaces, threads
and handles of different kinds are different things; a table has one place in its
layer's wire order (`TablesAssumption`); the births of a session are numbered
(`ValueAssumption`); this build's version is among the versions files carry
(`VersionAssumption`); files, findings and arguments of the C interface have their types
(`FilesAssumption`, `ArgumentsAssumption`); cells have a positive size, a word has at
least one positive number, the arguments of a call fit a word (`NumbersAssumption`), and
so does one unit (`ScaleAssumption`, 10^6 in the code); texts and contours have their types
(`TextsAssumption`, `ContoursAssumption`); the differences of a contour's points fit a
word (`DifferencesAssumption`: `point.hpp` asserts it and leaves it to the caller). Pads
(`PadsAssumption`) are at least 2 nm wide and high and sixteen times their area fits a word, which
a pad of 0.7 m by 0.7 m does; a radius is at most half of either side and a
delta at most the size across, the limits of KiCad's ratio and delta; and no oval is longer
than wide by 1 nm. Without any one of them the outline can be invalid (see above), except that
the factor sixteen is sufficient rather than necessary. TLC evaluates them on the instances. `FilesDistinct` is a hypothesis of one theorem.

Only model-checked:

- `AssemblyEnds`: liveness is out of the prover's reach, as is ENABLED.
- `OutlineTestsIntrinsic`: it does not hold of every value of the constants. Where
  the partial sums of the area overflow from one span and not from another, the winding
  depends on the span a loop is listed from; loops of the run are small enough. Two
  kinds of fault in one contour count as one (see "Contours" above).
- The invariants of `Kicad`: its passes fold handlers over rows, and what they promise
  compares whole boards before and after.
- The violations.

## What is abstracted or left out

- Entity contents are members of a small set. The field codecs of the layers
  (`write_pad` / `read_pad` and the like) are taken to write and read a
  value unchanged; unknown enumerators in a file are not modelled.
- A malformed buffer is one kind of file which the verifier rejects.
- The memory order of C++: threads interleave in steps, `use_count()` included (see
  "Threads" above).
- How often a track or a via occurs: the round trip compares sets, so one of two
  identical tracks could be lost unseen.
- Allocation failure (`std::bad_alloc`) except in `InsertNet` of `CAbi`.
- 64-bit wrap of the id allocator: ids are bounded by `MaxId`.
- `version()` of snapshots (the commit count): written nowhere, read by nobody but the
  caller.
- Calls on one C handle from two threads at once, which `pcbir.h` leaves to the caller;
  what is safe on different handles is `CowThreads`' matter.
- Rotation by angles other than quarter turns, `path.cpp`, `bezier.cpp`: rotation and
  flattening compute in floating point; the path checks are those of contours.
- Stackup details (materials, thickness, differential pairs, buses, impedance) in the
  converters and validators; custom pads of several primitives; checks of one entity
  alone.
- S-expression text, UUIDs and the bytes of extension payloads.
- Accessors of mapped views, which read and change nothing.
- Clipper2 (`boolean.cpp`), tools, fuzzers, benchmarks.

## Plan

Done, in this order: arena; copy-on-write store and its abstract form; threads; board
file; mapped view; proofs of the first two; exact geometry and its proofs; KiCad
converters with the validators; C interface; proofs of the threads, the mapped view, the
C interface and the board file.

Next:

1. Proofs: the distinct ids of an imported board, from the id counters its passes hand on.
2. Model: the single-entity checks of the validators, and the stackup details of the
   import.
