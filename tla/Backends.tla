------------------------------ MODULE Backends ------------------------------
(***************************************************************************)
(* Two output targets kept up to date by the deltas of one lineage: a      *)
(* retained one that patches an element per address, and an immediate one  *)
(* that keeps a draw list and reports the region to repaint, and whose     *)
(* owner may hand it only the part of a delta that is in a viewport.       *)
(*                                                                         *)
(* Neither target checks that a delta applies: that is left to the caller, *)
(* which hands each of them the commits of the lineage in order and may    *)
(* render a target afresh at any time.  Boxes may move without any record  *)
(* changing, and then no delta says so.                                    *)
(***************************************************************************)
EXTENDS Workloads

CONSTANTS
    Publishable,      \* the snapshots of the lineage: [doc, placement]
    Views,            \* the viewports an owner may cull by
    Everywhere,       \* no viewport: nothing is culled
    Windows,          \* the viewports the queries are compared with
    Fragments,        \* the numbers of pages
    MaxLog            \* bound: snapshots published

VARIABLES
    log,              \* Seq of published snapshots
    svg,              \* [from, at, elements]: rendered from, patched up to
    raster            \* [from, at, ops, region, view]

vars == <<log, svg, raster>>

\* Addresses are ordered; here they are numbers.
ASSUME BackendsAssumption ==
    /\ Address \subseteq Nat
    /\ \A s \in Publishable :
          /\ IsDocument(s.doc) /\ IsFiniteSet(DOMAIN s.doc)
          /\ \A x \in Address : BoxOf(s.placement, x) \in Box
    /\ Windows \subseteq Box
    /\ Fragments \subseteq Nat
    /\ Everywhere \notin Views

\* A layout measures nothing smaller than nothing.  The source would take a
\* negative size too, and a union of such boxes may lose what is in it.
ASSUME SizesAssumption ==
    \A s \in Publishable : \A x \in Address :
        LET box == BoxOf(s.placement, x)
        IN  box.width >= 0 /\ box.height >= 0

Delta(k) == DiffsBetween(log[k - 1].doc, log[k].doc)

-----------------------------------------------------------------------------
\* A paint is a colour and how far it lets through what is below: [rgb,
\* alpha].  The retained target writes the colour alone.
Hex(paint) == paint.rgb

\* The retained target.  A whole element has its text for a body.
Element(s, x) ==
    LET box == BoxOf(s.placement, x)
    IN  [at   |-> <<box.x, box.y>>,
         fill |-> Hex(s.doc[x].paint),
         body |-> [text |-> s.doc[x].text]]

Elements(s) == [x \in DOMAIN s.doc |-> Element(s, x)]

NeedsGeometry(parts) ==
    parts \cap {"Structure", "IntrinsicLayout", "LineLayout", "Fragmentation"}
        # {}

\* The element is cut before its first fill and after its first tag: what
\* follows the new fill is the opening of the old text element, and the text
\* itself is dropped.
Refilled(element, s, x) ==
    [element EXCEPT !.fill = Hex(s.doc[x].paint),
                    !.body = [open |-> element.fill]]

\* Mutant: an element keeps the place it was first given.
PatchedInPlace(elements, s, diffs) ==
    [x \in {y \in DOMAIN elements \cup DOMAIN diffs : y \in DOMAIN s.doc} |->
        IF x \notin DOMAIN elements THEN Element(s, x)
        ELSE IF x \notin DOMAIN diffs THEN elements[x]
        ELSE IF NeedsGeometry(diffs[x])
        THEN [Element(s, x) EXCEPT !.at = elements[x].at]
        ELSE Refilled(elements[x], s, x)]

Patched(elements, s, diffs) ==
    LET relaid == {x \in DOMAIN diffs \cap DOMAIN s.doc : NeedsGeometry(diffs[x])}
        kept   == {x \in DOMAIN elements : x \in DOMAIN diffs => x \in DOMAIN s.doc}
    IN  [x \in kept \cup relaid |->
            IF x \in relaid THEN Element(s, x)
            ELSE IF x \in DOMAIN diffs THEN Refilled(elements[x], s, x)
            ELSE elements[x]]

-----------------------------------------------------------------------------
\* The immediate target.
Op(s, x) ==
    [address |-> x, bounds |-> BoxOf(s.placement, x),
     fill |-> s.doc[x].paint, text |-> s.doc[x].text]

DrawnBefore(o, p) ==
    LET a == o.bounds
        b == p.bounds
    IN  \/ a.y < b.y
        \/ a.y = b.y /\ a.x < b.x
        \/ a.y = b.y /\ a.x = b.x /\ o.address < p.address

\* Mutant: the list is left in the order in which records came.
Unsorted(ops) == SetToSeq(ops)

DrawList(ops) ==
    Ordered(ops, {pair \in ops \X ops : DrawnBefore(pair[1], pair[2])})

AllOps(s) == DrawList({Op(s, x) : x \in DOMAIN s.doc})

\* Mutant: the entries are culled by what is in view after the commit.
CulledByNew(view, old, new, diffs) ==
    IF view = Everywhere
    THEN diffs
    ELSE Restrict(diffs, DOMAIN diffs \cap VisibleSet(new, view))

\* The entries a target is handed: those of addresses in view, as the owner
\* last computed the visible set, which is before the commit.
Culled(view, old, new, diffs) ==
    IF view = Everywhere
    THEN diffs
    ELSE Restrict(diffs, DOMAIN diffs \cap VisibleSet(old, view))

\* What the immediate target is told of the i-th snapshot.
Told(i) == Culled(raster.view, log[i - 1], log[i], Delta(i))

\* Mutant: what was drawn before is not invalidated.
NewBoxesOnly(old, new) == {o.bounds : o \in new}

\* What a repaint invalidates: where the named records were, and are.
Invalidated(old, new) == {o.bounds : o \in old \cup new}

-----------------------------------------------------------------------------
Init ==
    /\ log \in {<<s>> : s \in Publishable}
    /\ svg = [from |-> 1, at |-> 1, elements |-> Elements(log[1])]
    /\ raster = [from |-> 1, at |-> 1, ops |-> AllOps(log[1]), region |-> NoBox,
                 view |-> Everywhere]

\* A commit; one that changes nothing publishes nothing.
Publish(s) ==
    /\ Len(log) < MaxLog
    /\ s # log[Len(log)]
    /\ log' = Append(log, s)
    /\ UNCHANGED <<svg, raster>>

\* Svg::render
RenderSvg(i) ==
    /\ svg' = [from |-> i, at |-> i, elements |-> Elements(log[i])]
    /\ UNCHANGED <<log, raster>>

\* Svg::patch with the next commit
PatchSvg ==
    LET next == svg.at + 1
    IN  /\ next <= Len(log)
        /\ svg' = [svg EXCEPT
                     !.at = next,
                     !.elements = Patched(@, log[next], Delta(next))]
        /\ UNCHANGED <<log, raster>>

\* Raster::render, whole, whatever its owner culls by from then on
RenderRaster(i, view) ==
    /\ raster' = [from |-> i, at |-> i, ops |-> AllOps(log[i]), region |-> NoBox,
                  view |-> view]
    /\ UNCHANGED <<log, svg>>

\* Raster::repaint with the next commit
Repaint ==
    LET next == raster.at + 1
        diffs == Told(next)
        old == {o \in Range(raster.ops) : o.address \in DOMAIN diffs}
        new == {Op(log[next], x) : x \in DOMAIN diffs \cap DOMAIN log[next].doc}
    IN  /\ next <= Len(log)
        /\ raster' =
             [raster EXCEPT
                !.at     = next,
                !.ops    = DrawList((Range(@) \ old) \cup new),
                !.region = FoldSet(UnionBox, NoBox, Invalidated(old, new))]
        /\ UNCHANGED <<log, svg>>

Next ==
    \/ \E s \in Publishable : Publish(s)
    \/ \E i \in DOMAIN log : RenderSvg(i)
    \/ PatchSvg
    \/ \E i \in DOMAIN log, view \in Views \cup {Everywhere} : RenderRaster(i, view)
    \/ Repaint

Spec == Init /\ [][Next]_vars

-----------------------------------------------------------------------------
\* Both targets stand at a published snapshot that is not older than the one
\* they were rendered from; the draw list holds each record once, in order.
TypeOK ==
    /\ log \in Seq(Publishable)
    /\ svg.at \in DOMAIN log /\ svg.from \in 1..svg.at
    /\ raster.at \in DOMAIN log /\ raster.from \in 1..raster.at
    /\ IsMap(svg.elements, Address, {svg.elements[x] : x \in DOMAIN svg.elements})
    /\ \A i, j \in DOMAIN raster.ops :
          i < j => /\ raster.ops[i].address # raster.ops[j].address
                   /\ DrawnBefore(raster.ops[i], raster.ops[j])

Snapshot(target) == log[target.at]

\* The newest snapshot, of those a target went through, whose delta named the
\* address, or the one it was rendered from.
LastNamed(target, x) ==
    Max({i \in target.from..target.at :
            i = target.from \/ x \in DOMAIN Delta(i)})

\* After any commits the draw list is the one a render would give, but for
\* boxes that moved without being named: every record has the paint and text
\* of the snapshot at hand, and the box it had when it was last named
\* (raster.rs, repaint).
RasterIsRenderButForMoves ==
    raster.view = Everywhere =>
    LET ops == Range(raster.ops)
    IN  /\ {o.address : o \in ops} = DOMAIN Snapshot(raster).doc
        /\ \A o \in ops :
              /\ o.fill = Snapshot(raster).doc[o.address].paint
              /\ o.text = Snapshot(raster).doc[o.address].text
              /\ o.bounds =
                   BoxOf(log[LastNamed(raster, o.address)].placement, o.address)

\* A repaint invalidates everything it changes: the box of every op that left
\* the list and of every op that came (raster.rs: the region is conservative,
\* "a cost rather than an error").
RegionCoversWhatChanged ==
    [][raster'.at = raster.at + 1 /\ raster'.from = raster.from =>
          LET old == Range(raster.ops)
              new == Range(raster'.ops)
          IN  \A o \in (old \ new) \cup (new \ old) :
                 Covers(raster'.region, o.bounds)]_vars

\* The newest snapshot, of those the retained target went through, that laid
\* the address out.
LastLaidOut(x) ==
    Max({i \in svg.from..svg.at :
            \/ i = svg.from
            \/ x \in DOMAIN Delta(i) /\ NeedsGeometry(Delta(i)[x])})

\* After any commits there is an element for each record, in the colour of the
\* record's paint, whatever the last commits changed of it.  That is as far as
\* both targets "agree on what the paint became" (svg.rs:7): the alpha, which
\* the other target keeps, is not written.  The element is placed where the
\* record was when it was last laid out, and is whole for as long as nothing
\* but a layout has touched it since (svg.rs, patch).
SvgIsRenderWhereLaidOut ==
    /\ DOMAIN svg.elements = DOMAIN Snapshot(svg).doc
    /\ \A x \in DOMAIN svg.elements :
          LET fresh == Element(log[LastLaidOut(x)], x)
          IN  /\ svg.elements[x].fill = Hex(Snapshot(svg).doc[x].paint)
              /\ svg.elements[x].at = fresh.at
              /\ LastNamed(svg, x) = LastLaidOut(x) => svg.elements[x] = fresh

\* A target that keeps what it was told and is told only of what is in view is
\* right about every record that has been in view at each commit since it was
\* rendered: it draws the record as it is, and has dropped it if it is gone
\* (poc.rs, Finding 8).
InViewThroughoutIsCurrent ==
    \A x \in Address :
        (/\ raster.view # Everywhere
         /\ \A i \in raster.from..raster.at :
               i < raster.at => x \in VisibleSet(log[i], raster.view))
        => LET ops == {o \in Range(raster.ops) : o.address = x}
               doc == Snapshot(raster).doc
           IN  IF x \in DOMAIN doc
               THEN \E o \in ops : o.fill = doc[x].paint /\ o.text = doc[x].text
               ELSE raster.from < raster.at => ops = {}

\* What is in a viewport is what some point of it hits: no box is culled that
\* a click could reach, and none is kept that none could (candidate.rs,
\* addresses_at and visible_set).  Every snapshot may be the first, and the
\* first is looked at.
VisibleIsEveryHit ==
    Len(log) = 1 =>
        \A view \in Windows : Solid(view) => HitWhereVisible(log[1], view)

\* The rectangle of a page and the page hold the same of the records that list
\* the pages their boxes fall on (poc.rs, Finding 4: a flowing document lays
\* pages out as bands).
BandsArePages ==
    Len(log) = 1 =>
        \A f \in Fragments, view \in Windows : PageIsBand(log[1], f, view.width)

\* A patch leaves what a render of the same snapshot gives, where no box has
\* moved since (backend-contract.md 3, "a backend that renders from the
\* snapshot alone must reach the same output").
PatchIsRender ==
    (\A i \in svg.from..svg.at : log[i].placement = log[svg.at].placement)
    => svg.elements = Elements(Snapshot(svg))
=============================================================================
