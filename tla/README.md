# Composition IR: specifications, checks and proofs

Composition IR is a Rust library that publishes a composed document as immutable
*snapshots* and describes how adjacent snapshots differ by *deltas*. Frontends feed it
through adapters; backends, derived computations and foreign hosts consume it. This
directory models that system in TLA+, checks the models with TLC on small instances and
proves the properties that matter most with TLAPS.

Paths below are relative to the repository; `ir/` stands for
`packages/composition-ir/src/`.

## 1. The system

| Component | State | Operations | Talks to |
|---|---|---|---|
| Snapshots and builders (`ir/snapshot.rs`, `ir/node.rs`, `ir/address.rs`) | a snapshot: version, address-to-record map with records shared by pointer, roots, placement; a builder: its base and a candidate of the same shape | `Snapshot::empty`, `edit`; `put`, `update`, `update_if_live`, `remove`, `root`, `reset_placement`, `place`, `translate`, `commit` | returns snapshots and deltas to its caller |
| Membership law (`ir/delta.rs`) | none: a function of two snapshots | `diffs_between`, `applies_to` | called by `commit` |
| Consumer of deltas (contract of `docs/specs/composition-ir.md` 2, gates of `conformance/frontend/tests/gates.rs`) | a version and whatever it materialised | apply a delta that fits, rebuild otherwise | handed commits by a host |
| Derivation engine (`ir/derive.rs`) | recipes and memoized cells with their receipts | `define`, `get`, `invalidate` | reads snapshots, is told of deltas |
| Placement (`ir/placement.rs`) | boxes and translations | `push`, `translate`, `rect`, `union` | queried by backends |
| Frontend session and adapter (`conformance/frontend/src`) | a tree with identities and the last identity given out | `set_source`; `adapt`, `adapt_full` | commits snapshots |
| SVG and raster backends (`conformance/backend/src/svg.rs`, `raster.rs`) | elements; a draw list | `render`, `patch`, `repaint` | read a snapshot and a delta |
| Paginated backend (`conformance/backend/src/paged.rs`) | none: pages and a resource table of one snapshot | `render` | reads a snapshot |
| C ABI handles (`packages/composition-ir-ffi/src/lib.rs`, `record.rs`) | boxes that share counted snapshots; borrowed pointers | retain, release, look up, read a field, list a delta | wraps snapshots and deltas for a host |
| C ABI layout (`packages/composition-ir-ffi/src/layout.rs`, its gates, `.github/workflows/release.yml`) | the committed manifest, the build guard | describe, regenerate, gate, ship | read by the bindings of other languages |
| Workloads (`conformance/workloads`) | none | hit testing, culling, page bands, encoding conversions | read snapshots |

**What is hard.** No operation is concurrent inside: each is one call on an owned value.
The difficulty is between operations. Builders on shared snapshots interleave and fork
lineages. Consumers see commits late, twice, out of order or never, and read snapshots
newer than the delta they hold. Receipts must survive exactly the commits that leave
their answers alone. Identities must survive reparses and never return. Parents must
learn of changes in children they no longer have. Memory behind a handle is shared,
counted, freed and given out again while a host reads it. A library is built for one
machine on the word of tests that ran on another. `PROJECT.json` lists each such hazard
at its line, with the properties that would catch it going wrong.

**What makes each component correct.**

- *Snapshots*: a published snapshot never changes; a revision is spent only on a
  difference of value; a no-op loses nothing; within one lineage a version names one
  snapshot.
- *Membership law*: an address is in a delta iff its whole subtree differs, with exactly
  the parts that differ; every live parent of a changed child is named; deltas compose.
- *Consumers*: nothing held is older than the version held; at the newest version it is
  exact; a consumer that is handed the newest commit catches up.
- *Derivation*: no cached value is stale, as far as the entries of a delta let the engine
  see it; no cell is dropped in vain.
- *Frontend*: records are the tree; identities do not return; re-adapting is a no-op.
- *Backends*: incremental output is the output of a render, wherever nothing moved
  silently; the repainted region covers what changed; a culled target is right about what
  never left the viewport.
- *C ABI handles*: a handle shows one snapshot until it is released, whatever else is
  published, released or reused.
- *C ABI layout*: what ships with a library describes that library.
- *Workloads*: what is visible is what can be hit, a page of a flowing layout is its band,
  an offset is converted or refused, and a caret finds its line.

## 2. The modules

| Module | What it is |
|---|---|
| `Ordered` | sets and sequences laid out in order, described by how many members come before each |
| `Projection` | records, parts and the membership law, as operators on two documents; the base of every other module |
| `ProjectionReference` | a reference reading of the law: subtrees unfolded to nested values |
| `CompositionIR` | snapshots and builders over an explicit heap of records |
| `CompositionIRLaws` | what deltas promise, stated over the commits of `CompositionIR` against `ProjectionReference` and against the walk of the source, with its order, its short circuits and its panics |
| `DeltaConsumer` | a consumer and its unreliable host |
| `Derive` | the engine, its receipts and the host that commits and reads |
| `PlacementQuery` | boxes, translations, rectangles |
| `Frontend` | the session, its report, the two routes of the adapter |
| `SourceOffsets` | offsets in two encodings, and the nodes an offset is in; used by `Frontend` |
| `Workloads` | hit testing, culling, fragments, page bands; over `Projection` and `PlacementQuery` |
| `Backends` | the retained and the immediate target, the latter with or without culling, over a lineage that the queries of `Workloads` are asked about too |
| `HandleTable` | the abstract specification of the handles: what each shows |
| `FfiHandles` | handles, counts, allocations that are freed and reused; implements `HandleTable` |
| `AbiManifest` | declarations, their layout on each target, the manifest, the guard and the gates |
| `MC_*` | the instances TLC checks |
| `*_proofs` | the theorems about the module of that name; `Projection_proofs` also holds what the others need about sets in order and folds, `Backends_proofs` what is proved about `Workloads`, `Frontend_proofs` what is proved about `SourceOffsets` |

### How the models correspond to the code

*Documents.* A document is a partial function from addresses to records: the
`records` map of one snapshot. A record has the twelve fields of `Node`. Fields that are
only ever compared (text, mappings, fonts, links) are opaque values; a colour is one too,
except in `Backends`, where it has an alpha.
`Proj(n)` is what each of the eleven own parts is compared by, so `PartEq` is `part_eq`.

*Subtree equality.* `subtree_eq` recurses. `SubtreeEq` says instead that there is a set
of addresses that holds the root, is closed under children, and on which the documents
agree record by record. This is the greatest fixed point of the same recursion: it gives
the walk's answer wherever the walk returns, and, unlike a recursive operator, it can be
proved about. `SubtreeEqIsTheWalk` checks the two against each other on every candidate a
builder reaches: a walk overflows only where `WalkDiverges` holds and panics only where
`WalkReadsForeign` does, and where either holds some walk of the commit fails. The order of the list of differences is left out: the source sorts it and nothing
reads it in that order.

The same law is given twice more, by counted steps and not by recursion on records:
`Unfoldings(doc)[d]` is what each subtree is worth when unfolded to depth `d`, and
`Walks(before, after)[r]` what the walk answers with a stack of `r` calls. As many steps as
there are addresses are enough for the first, and one more for the second; the proofs say
why.

*Snapshots and builders.* `heap` is every record ever allocated; a snapshot maps an
address to an allocation. This is what lets the module say that `update` copies before it
writes and that a record put again is another instance. `commits` remembers what each
commit returned. Each method of `SnapshotBuilder` is one action. `commit` is four:
`CommitNoOp`, `CommitPublishes`, `CommitPanics` (revision exhausted, or a foreign address
compared) and `CommitOverflows` (the walk never returns). Where a commit would both trap
and overflow, either may happen; the source compares addresses in order and which comes
first depends on that order.

*Foreign addresses.* The source lets an address of another domain be put, rooted, placed or
listed as a child; only `Snapshot::get` asserts. One that was put panics at the commit. A
foreign *child* panics when a comparison comes to it: `subtree_eq` comes to it only past a
record and children that compare equal (`WalkReadsForeign`), and `descendant_differs` only
past children, in address order (`Precedes`), that do (`SearchReadsForeign`). So a commit
that changes a child before it publishes the record with its foreign child, and from then
on every commit on that snapshot that leaves what is below the record alone panics, a
no-op included. `ForeignChildrenAreNamed` says that this is the only way. Foreign roots
and boxes are published like any others.

*Forks.* Two builders on one snapshot that both commit produce two snapshots of one
version. The source allows this and so does the model: `AppliesToItsBaseAlone` is stated
within a lineage, and across forks it does not hold.

*Consumers.* `DeltaConsumer` is one producer's line of snapshots and a consumer with two
readings of a delta, the two that `part.Descendant` distinguishes. `mirror` holds own
parts and rereads the named ones, as the loop of the gate
`a_consumer_that_ignores_every_delta_agrees_with_one_that_does_not` does with the text;
`pulled` says from which snapshot each subtree was materialised. The consumer reads the
snapshot at hand, which may be newer than the delta.

*Derivation.* A recipe is a deterministic reader: `Observations(r, doc)` is the receipt
and `Value(r, doc)` the value; it may read any of the twelve parts, `Descendant` included.
`RecipeAssumption` says that a recipe's value depends on nothing it did not observe. The
code cannot enforce this: `Reader::part` hands out the whole record. An engine may be asked
on any snapshot, newer or older than the last commit it was told of; a cell computed on an
older one is marked `late`, and nothing is claimed of its value, since the commits it
missed are never told again. `get` of a key that was never defined panics and changes
nothing; it is left out.

*Frontend.* A line is its kind, text, width and reference; a source is a sequence of such
lines and blank ones. Identities are looked up by line number in a list without blank
lines, as in `set_source`. The adapter's two routes are operators (`FromReport`,
`InFull`) from a snapshot to an edited one, and `Commit` is the no-op test of
`SnapshotBuilder::commit`. The host uses a report only on the snapshot it describes the
change of, or repeats it on the snapshot just made; otherwise it takes the full route.

*Backends.* An SVG element is its position, its fill and its body; the fill is the paint
without its alpha (`Hex`), where the draw list keeps the paint whole; a patched element's
body is the *opening* of the old text element, because that is what the cut in
`Svg::patch` keeps. The draw list is sorted by `(y, x, address)`. The caller hands each
target the commits in order, as the gates do; nothing in the backends checks it. A
raster target is rendered for a viewport or for `Everywhere`; for a viewport it is told
only the entries of `Culled`, the test of `poc.rs` on what was visible before the commit.

*Queries.* The queries of the workloads are functions of one snapshot, so they are
operators of `Workloads`, and `Backends` asks them about the snapshots of its lineage.
`VisibleIsEveryHit` and `BandsArePages` speak of one snapshot
only; every snapshot may be the first of a lineage, so they are looked at there
(`Len(log) = 1`) and nothing is lost. `FragmentsOf` is the page arithmetic of the flowing
document of `document.rs`, division towards zero included; a record that lists other
pages than its box falls on is allowed and is the premise of `PageIsBand`.

*Offsets.* A character is how much of either encoding it takes, a text a sequence of
characters. `Converted` is the walk of `utf16_offset_of`, and of `byte_offset_of` with
the encodings exchanged. The spans of `Frontend` are those of `set_source`: they advance
by the length of a line and one byte. With line ends of two bytes, which `str::lines`
takes off, a span is one byte early for each line above it, and `CaretFindsItsLine` speaks
of line ends of one byte only; offsets are converted with either. What an offset means
depends on the source alone, so both offset properties are looked at when one source was
read and nothing was adapted yet (`FirstRead`): any source may be that one.

*Handles.* `boxes` maps an open handle to a counted snapshot, `arcs` is those snapshots
with their strong counts, `records` the allocated records. Each step frees at once what
nothing reaches, and a freed pointer may be given out by the next step that allocates, so
a reader that kept one would see another record. The host keeps to the `# Safety`
contracts: it uses no handle after releasing it, and no pointer borrowed from one
(`HeldWithout`). One borrowed pointer stands for all: none affects another. `HandleTable`
knows neither counts nor memory; `FfiHandles` implements it under the mapping that reads
each handle's snapshot out of the heap. A delta is a value and owns its entries, so its
handle is a table of its own.

*Manifest.* A declaration is a sequence of named, typed members. `Struct` and `Enum` are
the rules of `repr(C)` and `repr(u8)`; `Compiled` lays a set of declarations out on a
target. `Manifest` is what `manifest_json` writes, of the members the source *describes*,
which a developer may forget to bring up to date. `Compiles` is the guard together with
`offset_of!` of every described member. `Gates` are the layout gates as the release runs
them, on `GateAbi`; `Ship` builds for any target afterwards and runs nothing.

## 3. The runs

Bounds are the constants of each `.cfg`; every bound is a named constant.

| Run | Shows | Bounds, and why they are enough |
|---|---|---|
| `ir_commits` | the store, the law and its consequences over two interleaved builders | three addresses in one domain and one foreign, which may be a key, a root, a box or the second child of a record; three openings: a chain, a shared child and nothing; two edits and two commits: enough for a fork, a sequence, a copy under a retained snapshot, a retired and a dropped child, a loop that is published and then walked, a foreign child behind one that differs, a lost no-op and the revision limit. Two edits reach every pair of builder calls, in one builder or in two. 150 811 states |
| `consumer` | staleness, exactness and catching up | a parent and a child, four documents, up to four snapshots in two domains that reuse revision numbers: a gap, a replay, a reordering and a confusion of domains each need at most three commits |
| `derive` | freshness and economy of receipts | two addresses, seven documents, seven recipes (three of them the readers of `tests/derive_gates.rs`, two that ask before they read, two that read what is below a record), one key that may be redefined. 2 407 181 states |
| `backends` | incremental output against a render, culling, pages | two records, two colours and two alphas; six snapshots with and without moves, on one page or two; sequences of four: a record can leave the viewport, change and come back. Viewports that end before, at and inside the left and the upper edge of a box and begin inside, at and beyond the right and the lower one, empty ones included, so that every way of touching occurs; four pages. 161 352 states |
| `frontend` | identities, records, roots and boxes over reparses and both routes; carets and offsets | sources of up to two lines with blanks and two of three lines, the first with the blank in the middle; four identities; two published revisions after the first: a full adaptation between two others. Characters of every width in either encoding, the widest at the end of a line and the narrowest between others; line ends of one byte for carets, of one and two for offsets. 244 477 states |
| `handles` | the table, the counts and what is borrowed | two addresses, three writes, four revisions; five records and two counted snapshots, so that both are reused; three handles: one released between a copy of it and another; one delta handle. Pointers are interchangeable, hence the symmetry, which the table is read through. 36 051 states |
| `abi_manifest` | offsets of shipped libraries, the manifest's ABI | four targets that differ in width, in the alignment of `u64` and in byte order; four sets of declarations that all have the same sizes on the common target: fields swapped, a field added in padding, a variant inserted. 4096 states |
| `reference_emitter` | violated: see 4 | as `ir_commits` |
| `derive_law` | violated | as `derive`, without the two recipes that read what is below a record |
| `svg_patch` | violated | as `backends` |
| `full_route` | violated | as `frontend` |
| `identity_in_place` | violated | as `frontend` |

Deadlock is checked by `abi_manifest`, where a developer can always go on. Elsewhere it
is not: those models stop at their bounds, and a host may stop calling.

**Fairness.** Only `consumer` has a liveness property. The library schedules nothing, so
the only fairness assumed is the host's: `HandOverLatest` says that as long as the
consumer is behind, the host eventually hands over the newest commit (or the newest
snapshot where a domain has no commit yet). That is what an editor's loop does after each
keystroke. Nothing is assumed about the commits in between, which may all be lost, nor
about publication, which may never happen.

Each property has a mutant: a plausible bug in the mapped definition (beside the
definition, marked `Mutant`) under which the same run violates it.

## 4. What the code does otherwise than it says

- `NoOpIsNoDifference`: `resources_for` drops the roles, so turning an image reference into
  a gradient is no difference; its commit is a no-op and the new record is discarded, while
  the reference of the tests, which compares whole records, names it. `NoOpLosesNothing`
  says that no other field of a record is lost this way, and it holds.
- `EveryLiveCellIsFresh`: the entry of a retired record has no parts, so a cell that read
  it without a liveness probe is kept. There is a second way, which `NoFalseNegatives` needs
  as an exception too (`LostBelow`): a cell that read `Descendant` of a record, and not which
  its children are, is kept when the record is created as a leaf, or when it takes in a
  child that an earlier commit edited, because neither entry has `Descendant`. With these
  two exceptions the law holds of every cell that was not computed on a snapshot the engine
  had already left.
- `PatchIsRender`: a patched SVG element loses its text.
- `RoutesAgree`: the full route leaves old boxes in front of the new ones.
- `IdentityKeptInPlace`: blank lines shift identities.

Others were met while modelling and are stated here without a run:

- Spans count one byte per line end (`fixture.rs` 64), where line 20 calls them byte spans
  in the frontend's own source: with `\r\n` each span is early by one byte for each line
  above it.
- `hex` (`svg.rs` 8-10) drops the alpha of a paint, which the draw list keeps
  (`raster.rs` 41), where `svg.rs` 7 wants both targets to agree on what the paint became.
  A commit that changes only an alpha leaves the SVG as it was.
- The resource table of the paginated target is "every resource referenced, once"
  (`paged.rs` 13); `render` puts every live record of the `Resource` space into it, used or
  not, and looks at no reference.
- A commit that only changes roots is a no-op and the roots are lost (`snapshot.rs` 159);
  and neither route of the adapter takes a root back, so the list of roots grows by one
  with every published commit (`adapter.rs` 107 and 144).
- `cir_snapshot_node` answers absence with null (`record.rs` 69), but an address of another
  domain reaches the assertion of `Snapshot::get` inside an `extern "C"` call, which aborts
  the host.
- `docs/specs/composition-ir.md` 107-110 says an unchanged record is the same instance in
  both snapshots; an equal value that is *put* again is another allocation. The models
  compare values, as `commit` does.
- An offset past the end of a text is refused with the beginning of the last character
  (`candidate.rs` 184-210), where the comment above calls it the boundary at or before
  the offset; that boundary is the end. `ConvertsWhereCharactersBegin` states what the
  code answers.
- Regenerating the manifest compares the pointer width and the alignment of `u64`
  (`layout_gates.rs` 44-61) and not the byte order: once the guard names a machine of the
  other order, the manifest can be regenerated there. The offsets are the same, and the
  gates do not pass on the release's machine until both are put back.
- Adding a variant to an enum stops the crate from compiling only at the match that gives
  variants their names (`layout.rs` 66-69); it can be named there and still be missing from
  the list the manifest is written from. The gate on completeness finds it, as
  `ShippedReadsAreExact` shows with the variant that `Inserted` puts between others.

## 5. The proofs

Every property of a passing run but `CatchesUp` is a theorem: it holds for every value of
the constants that satisfies the named assumptions, that is for any set of addresses and
records, any number of builders, snapshots, commits and domains, any sources, viewports
and declarations. The assumptions are in the modules and say what constants are:

- `NodeAssumption`, `CompositionAssumption`, `ConsumerAssumption`, `BackendsAssumption`,
  `WorkloadsAssumption`, `FfiAssumption`, `FrontendAssumption`, `AbiAssumption`: the sorts
  (`children` is a sequence of addresses, published documents are documents of finitely
  many records, limits are positive, a line is as wide as its characters; addresses are
  strictly ordered, `Precedes`, and the documents a lineage opens with have no foreign
  children). TLC evaluates each.
- `AddressAssumption`: there are finitely many addresses (a domain and an identity of 64
  bits each). Only what is said by counted steps needs it.
- `RecipeAssumption`: recipes are deterministic readers, which the code cannot enforce.
- `SizesAssumption`: no box has a negative size. `union` takes the larger of far edges,
  and a negative size puts these before the near ones; only `RegionSafe` needs it.
- `LineAssumption`: the parser tells two lines apart by nothing but their text.

| Module | Theorems | Argument |
|---|---|---|
| `Projection_proofs` | `ParentsCarryDescendant` | closed sets compose: the union of the closed sets of a record's children and the record itself is closed, so a record whose own parts and children are equal has an equal subtree |
| `CompositionIR_proofs` | `TypeCorrect`, `RetainedSafe`, `RevisionSafe`, `NoOpSafe`, `OverflowSafe`, `ForeignSafe` | the invariant is `StoreOK` with `RootsOK`, `RevisionMeansDifference`, `OverflowNeedsPublishedLoop` and `ForeignChildrenAreNamed` carried along. `StoreOK` is needed by each: a published snapshot keeps its meaning because the heap only grows and nothing points outside it. A commit that returned read no foreign address, so beside a foreign child there is one that differs and comes before it |
| | `AppliesSafe`, `ComposeSafe` | `LineageOK`: every delta starts at the version of its base; a commit that published a document gave it the successor version and tells the difference of the two documents, and one that gives back its base tells none; a published snapshot is the result of commits on one base alone. The ancestors of a snapshot are the least set that is closed under parents, so a version met twice on a line is one snapshot, and a difference between the ends of a line appears at some step of it. Below a record that may be as `Structure` alone: a child can be edited by one commit and taken in by the next |
| | `MembershipSafe`, `WalkSafe` | the sets on which two documents agree to depth 0, 1, 2, ... only narrow, and a chain of sets that narrow settles within as many steps as there are addresses; where it has settled it is closed, so it is what `SubtreeEq` asks for. A walk is the same with answers: what it says with one more call of stack than there are addresses it says with any more, and an overflow then is a place where a walk can stay for ever. A call that fails makes each call that comes to it fail, so where the closed sets see a loop or a foreign child some walk that the commit starts does not return |
| `DeltaConsumer_proofs` | `TypeCorrect`, `MirrorSafe`, `SubtreesSafe`, `CaughtUpExact` | the invariant is `TypeOK` with `VersionsOrdered`, `MirrorNeverStale` and `SubtreesNeverStale`. `VersionsOrdered` makes a version name one snapshot, without which a delta could fit by accident; staleness is inductive because what an entry does not name is equal on both sides of the delta. `CaughtUpIsExact` is then the case in which only one snapshot is left to be as new as |
| `Derive_proofs` | `TypeCorrect`, `NeverStale`, `DropsWhatChanged` | the invariant is `TypeOK` with `Answered`: unless the cell is late, every recorded observation of a record itself still has its answer on the snapshot the cell must be right about, but for lost reads (`OwnAnswered`), a record whose children were read has kept them all the way (`ChildrenKept`), and what is below a record that has not moved is the same (`BelowKept`), which carries over a commit only because the children are. Freshness alone is not inductive: a value may be right by coincidence while an answer has changed |
| `Frontend_proofs` | `TypeCorrect`, `RetiredSafe`, `RecordsSafe`, `BoxesSafe`, `AgainSafe` | `FrontendInv` says how far behind the tree a snapshot may be: while the host is one reparse behind (`ReportFits`), whatever the report does not name is in the snapshot as it is in the tree, and whatever the tree no longer has is among the retired. Identities are new because they are numbered by how many lines need one up to here, an injection. A full adaptation appends boxes, so the invariant says only that the *last* boxes are those of the tree, and that is what keeps the first node rooted |
| | `OffsetsSafe`, `CaretSafe` | what a fold over a text or a source gives after each of its places (`UpToFacts`, `WalkStops`, `TextAlong`, `StartsApart`). A walk stops before the first character that does not begin before the offset. With line ends of one byte, the bytes above a line are where its span says it starts; spans of different lines are apart; a nested span is narrower, because every character takes something |
| `Backends_proofs` | `SvgSafe` | the invariant says of each element which snapshot it was laid out at last and which named it last; a patch moves these forward, and an address a delta does not name has equal paint on both sides and so an equal colour, and the element stays right |
| | `TypeCorrect`, `RasterSafe`, `InViewSafe`, `RegionSafe` | the same for operations, with the list described by what drawing in order promises (`LaysOut`): each operation once, after those before it. For a culled target the invariant speaks only of what was visible at every commit so far. A union covers each box it was made of |
| | `VisibilityIsHitting`, `PagesAreBands`, `VisibilitySafe`, `PagesSafe` | two rectangles with an area intersect exactly if the larger of their left and upper edges is in both; a page's number brackets the rows of the page, so comparing quotients is comparing rows |
| `FfiHandles_proofs` | `TypeCorrect`, `CountSafe`, `ViewSafe`, `EntriesSafe`, `ImplementsTable` | that nothing dangles and that a count is the number of its handles are one invariant: a release may free a snapshot only because the count says it was the last, and the count is right only because no handle points at what was freed. With it goes that of each version there is one document among all that is still reachable, which is what lets a delta's versions identify the snapshots it is the difference of. The refinement then needs one lemma: freeing what nothing reaches changes nothing that a handle shows |
| `AbiManifest_proofs` | `TypeCorrect`, `ShippedSafe`, `OffsetsSafe` | equal widths give equal scalars, and a layout is a function of the scalars and the declarations; that a description names every member in its place makes what is written of it the layout itself |

**Induction.** The library's induction theorems take an operator as a parameter and cannot
be used. What stands in for them are four facts about *sets*, which can: a set of
numbers that holds 0 and the successor of each of its members holds all (`NaturalsReached`),
a set of subsets of a finite set that holds each one whose proper subsets it holds is all
of them (`SubsetsReached`), and a fold over the subsets of a finite set has values
(`FoldsExist`), the same whatever larger set it is folded in (`FoldsAgree`). A proof by induction defines
the set of the numbers for which its claim holds. `FoldLeft` of the
community modules folds over the set of the places of a sequence, so what it computes up to
each place is proved with the last two, and what holds of that with the first.

**Precedence.** TLC reads `SUBSET A \ B` as a set of sets less a set, `tlapm` as the
subsets of a difference. Wherever a module has such a term it is parenthesised, so that
what was checked is what was proved.

**Only model-checked.** `CatchesUp` is liveness under fairness, which is out of the
prover's reach, and the runs of section 4 show violations, which only TLC can.

## 6. What is not modelled

- The paginated backend: `Paged::render` keeps nothing and reads no delta. It puts each
  record on the pages the record lists, which is the query `OnFragment`, and fills the
  resource table of section 4; `pages_of` reads its output back.
- Boxes without a width or a height in `VisibleIsEveryHit`: one strictly inside a viewport
  is kept by `intersects`, and no point is in it.
- Redefining a key that is cached keeps the old cell (`Define` is modelled so); no property
  speaks of such a cell's new recipe.
- Looking up an address of another domain through a handle (section 4).
- `cir_snapshot_roots` and `cir_snapshot_rect`, which answer as `Snapshot` and
  `Placement` do; `cir_snapshot_len` and `cir_snapshot_addresses`, which copy a count and
  a set out; releasing a null pointer, which does nothing. A host that breaks a
  `# Safety` contract is outside the model: what happens then is not defined.
- The text of the manifest, the flag values of `Parts`, and the generated C header, which
  a gate compares as text.
- The single-pass form of culling, the same test on the boxes as they were pushed, and
  the fixed sample document of the workloads.
- The parsing of a line's prefix in the fixture; statistics counters; integer widths of
  coordinates, of counts and of spans.
- Language bindings, packaging and the rest of the release: no state of this system.

## 7. Plan

1. An abstract specification of a published history (a growing forest of versions, each
   with a value that never changes), implemented by `CompositionIR` under the map that
   resolves allocations to values; the proof is `StoreOK` and `RetainedSafe` again.
2. Composition: a foreign host that consumes deltas through handles, `DeltaConsumer` over
   `FfiHandles`, with the order of release against the order of application.
3. The hazards of `PROJECT.json` without a property: redefining a key that is cached, a
   recipe that reads more than its receipt says, a backend handed a delta that does not
   apply.
