-------------------------- MODULE Backends_proofs --------------------------
(***************************************************************************)
(* The queries agree with each other on every snapshot a lineage begins    *)
(* with, for any snapshots, viewports and height of a page.  After any     *)
(* commits, renders and patches the retained target has an element for     *)
(* every record, in its colour, placed where it was laid out last, and the *)
(* immediate one has an operation for every record, where it was named     *)
(* last, or for every one that stayed in view; and it invalidates what it  *)
(* changes.                                                                *)
(***************************************************************************)
EXTENDS Backends, Projection_proofs

\* Two intervals that are not empty have a common point when each begins
\* before the other ends.
LEMMA CommonPoint ==
    ASSUME NEW a \in Int, NEW m \in Int, m > 0,
           NEW b \in Int, NEW n \in Int, n > 0
    PROVE  (a < b + n /\ b < a + m)
             <=> \E i \in b..(b + n - 1) : a <= i /\ i < a + m
<1>1. ASSUME a < b + n, b < a + m
      PROVE  \E i \in b..(b + n - 1) : a <= i /\ i < a + m
  <2>1. CASE a <= b
    <3>1. b \in b..(b + n - 1)
      OBVIOUS
    <3> QED
      BY <1>1, <2>1, <3>1
  <2>2. CASE a > b
    <3>1. a \in b..(b + n - 1)
      BY <1>1, <2>2
    <3> QED
      BY <1>1, <2>2, <3>1
  <2> QED
    BY <2>1, <2>2
<1>2. ASSUME NEW i \in b..(b + n - 1), a <= i, i < a + m
      PROVE  a < b + n /\ b < a + m
  BY <1>2
<1> QED
  BY <1>1, <1>2

\* Two boxes with a point each intersect when they have one in common.
LEMMA IntersectionIsACommonPoint ==
    ASSUME NEW a \in Box, Solid(a), NEW b \in Box, Solid(b)
    PROVE  Intersects(a, b)
             <=> \E p \in Points(b) : InBox(a, [x |-> p[1], y |-> p[2]])
<1> DEFINE InX(i) == a.x <= i /\ i < a.x + a.width
           InY(j) == a.y <= j /\ j < a.y + a.height
           Xs == b.x..(b.x + b.width - 1)
           Ys == b.y..(b.y + b.height - 1)
<1>1. (a.x < b.x + b.width /\ b.x < a.x + a.width) <=> \E i \in Xs : InX(i)
  BY CommonPoint DEF Box, Solid
<1>2. (a.y < b.y + b.height /\ b.y < a.y + a.height) <=> \E j \in Ys : InY(j)
  BY CommonPoint DEF Box, Solid
<1>3. Intersects(a, b) <=> (\E i \in Xs : InX(i)) /\ (\E j \in Ys : InY(j))
  BY <1>1, <1>2 DEF Intersects
<1>4. ASSUME NEW i \in Xs, NEW j \in Ys, InX(i), InY(j)
      PROVE  \E p \in Points(b) : InBox(a, [x |-> p[1], y |-> p[2]])
  <2>1. <<i, j>> \in Points(b)
    BY DEF Points
  <2>2. InBox(a, [x |-> <<i, j>>[1], y |-> <<i, j>>[2]])
    BY <1>4 DEF InBox
  <2> QED
    BY <2>1, <2>2
<1>5. ASSUME NEW p \in Points(b), InBox(a, [x |-> p[1], y |-> p[2]])
      PROVE  (\E i \in Xs : InX(i)) /\ (\E j \in Ys : InY(j))
  <2>1. p[1] \in Xs /\ p[2] \in Ys
    BY DEF Points
  <2>2. InX(p[1]) /\ InY(p[2])
    BY <1>5 DEF InBox
  <2> QED
    BY <2>1, <2>2
<1> QED
  BY <1>3, <1>4, <1>5

\* No box is culled that a click could reach, and none is kept that none could
\* (candidate.rs, addresses_at and visible_set).
THEOREM VisibilityIsHitting ==
    ASSUME NEW s, \A x \in DOMAIN s.doc : BoxOf(s.placement, x) \in Box,
           NEW view \in Box, Solid(view)
    PROVE  HitWhereVisible(s, view)
<1>1. ASSUME NEW x \in Drawn(s)
      PROVE  x \in VisibleSet(s, view) <=>
               \E p \in Points(view) :
                  x \in AddressesAt(s, [x |-> p[1], y |-> p[2]])
  <2> DEFINE box == BoxOf(s.placement, x)
  <2>1. x \in BoxedIn(s) /\ x \in DOMAIN s.doc /\ Solid(box)
    BY DEF Drawn, BoxedIn
  <2>2. box \in Box
    BY <2>1
  <2>3. x \in VisibleSet(s, view) <=> Intersects(box, view)
    BY <2>1 DEF VisibleSet
  <2>4. \A p \in Points(view) :
           x \in AddressesAt(s, [x |-> p[1], y |-> p[2]])
             <=> InBox(box, [x |-> p[1], y |-> p[2]])
    BY <2>1 DEF AddressesAt
  <2> HIDE DEF box
  <2> QED
    BY <2>1, <2>2, <2>3, <2>4, IntersectionIsACommonPoint
<1> QED
  BY <1>1 DEF HitWhereVisible

-----------------------------------------------------------------------------
\* The quotient brackets what it divides.
LEMMA QuotientBrackets ==
    ASSUME NEW n \in Nat
    PROVE  /\ Quotient(n, PageHeight) \in Nat
           /\ Quotient(n, PageHeight) * PageHeight <= n
           /\ n < (Quotient(n, PageHeight) + 1) * PageHeight
<1>1. PageHeight \in Nat \ {0}
  BY WorkloadsAssumption
<1>2. Quotient(n, PageHeight) = n \div PageHeight
  BY DEF Quotient
<1> QED
  BY <1>1, <1>2

\* Multiples of the height of a page are in the order of their factors.
LEMMA FactorsInOrder ==
    ASSUME NEW f \in Int, NEW g \in Int
    PROVE  f * PageHeight < g * PageHeight <=> f < g
<1>1. PageHeight \in Nat \ {0}
  BY WorkloadsAssumption
<1> QED
  BY <1>1

\* A box that has a row is on the pages from that of its first row to that of
\* its last, which are those whose band it meets.
LEMMA RowsOfAPage ==
    ASSUME NEW f \in Nat, NEW y \in Nat, NEW h \in Nat, h > 0
    PROVE  (y < f * PageHeight + PageHeight /\ f * PageHeight < y + h)
             <=> f \in Quotient(y, PageHeight)..Quotient(y + h - 1, PageHeight)
<1> DEFINE q == Quotient(y, PageHeight)
           r == Quotient(y + h - 1, PageHeight)
<1>0. PageHeight \in Nat \ {0}
  BY WorkloadsAssumption
<1>1. q \in Nat /\ q * PageHeight <= y /\ y < (q + 1) * PageHeight
  BY QuotientBrackets
<1>2. r \in Nat /\ r * PageHeight <= y + h - 1
        /\ y + h - 1 < (r + 1) * PageHeight
  <2>1. y + h - 1 \in Nat
    OBVIOUS
  <2> QED
    BY <2>1, QuotientBrackets
<1>3. f * PageHeight + PageHeight = (f + 1) * PageHeight
  BY <1>0
<1> HIDE DEF q, r
<1>4. y < (f + 1) * PageHeight <=> q <= f
  <2>1. ASSUME y < (f + 1) * PageHeight PROVE q <= f
    <3>1. q * PageHeight < (f + 1) * PageHeight
      BY <1>0, <1>1, <2>1
    <3>2. q < f + 1
      BY <1>1, <3>1, FactorsInOrder
    <3> QED
      BY <1>1, <3>2
  <2>2. ASSUME q <= f PROVE y < (f + 1) * PageHeight
    <3>1. (q + 1) * PageHeight <= (f + 1) * PageHeight
      <4>1. ~ (f + 1 < q + 1)
        BY <1>1, <2>2
      <4>2. ~ ((f + 1) * PageHeight < (q + 1) * PageHeight)
        BY <1>1, <4>1, FactorsInOrder
      <4>3. (f + 1) * PageHeight \in Int /\ (q + 1) * PageHeight \in Int
        BY <1>0, <1>1
      <4> QED
        BY <4>2, <4>3
    <3> QED
      BY <1>0, <1>1, <3>1
  <2> QED
    BY <2>1, <2>2
<1>5. f * PageHeight < y + h <=> f <= r
  <2>1. ASSUME f * PageHeight < y + h PROVE f <= r
    <3>1. f * PageHeight < (r + 1) * PageHeight
      BY <1>0, <1>2, <2>1
    <3>2. f < r + 1
      BY <1>2, <3>1, FactorsInOrder
    <3> QED
      BY <1>2, <3>2
  <2>2. ASSUME f <= r PROVE f * PageHeight < y + h
    <3>1. ~ (r < f)
      BY <1>2, <2>2
    <3>2. ~ (r * PageHeight < f * PageHeight)
      BY <1>2, <3>1, FactorsInOrder
    <3>3. r * PageHeight \in Int /\ f * PageHeight \in Int
      BY <1>0, <1>2
    <3>4. f * PageHeight <= r * PageHeight
      BY <3>2, <3>3
    <3> QED
      BY <1>2, <3>3, <3>4
  <2> QED
    BY <2>1, <2>2
<1> QED
  BY <1>1, <1>2, <1>3, <1>4, <1>5 DEF q, r

\* Where records list the pages their boxes fall on, the rectangle of a page
\* and the page hold the same of them, whatever the height of a page
\* (candidate.rs, on_fragment; document.rs, layout).
THEOREM PagesAreBands ==
    ASSUME NEW s, \A x \in DOMAIN s.doc : BoxOf(s.placement, x) \in Box,
           NEW f \in Nat, NEW width \in Int
    PROVE  PageIsBand(s, f, width)
<1> SUFFICES ASSUME NEW x \in Drawn(s),
                    BoxOf(s.placement, x).x >= 0,
                    BoxOf(s.placement, x).y >= 0,
                    BoxOf(s.placement, x).x < width,
                    Range(s.doc[x].fragments) = FragmentsOf(BoxOf(s.placement, x))
             PROVE  x \in VisibleSet(s, Band(f, width)) <=> x \in OnFragment(s, f)
  BY DEF PageIsBand
<1> DEFINE box == BoxOf(s.placement, x)
<1>1. /\ x \in BoxedIn(s) /\ x \in DOMAIN s.doc
      /\ Solid(box) /\ box \in Box
  BY DEF Drawn, BoxedIn
<1>2. PageHeight \in Nat \ {0}
  BY WorkloadsAssumption
<1>3. x \in OnFragment(s, f) <=> f \in FragmentsOf(box)
  BY <1>1 DEF OnFragment
<1>4. x \in VisibleSet(s, Band(f, width))
        <=> Intersects(box, Band(f, width))
  BY <1>1 DEF VisibleSet
<1> HIDE DEF box
<1>5. box.x >= 0 /\ box.y >= 0 /\ box.x < width
  BY DEF box
<1>6. box.x < 0 + width /\ 0 < box.x + box.width
  BY <1>1, <1>5 DEF Box, Solid
<1>7. Intersects(box, Band(f, width))
        <=> (box.y < f * PageHeight + PageHeight
               /\ f * PageHeight < box.y + box.height)
  BY <1>6 DEF Intersects, Band
<1>8. box.y \in Nat /\ box.height \in Nat /\ box.height > 0
  BY <1>1, <1>5 DEF Box, Solid
<1>9. (box.y < f * PageHeight + PageHeight /\ f * PageHeight < box.y + box.height)
        <=> f \in FragmentsOf(box)
  BY <1>1, <1>8, RowsOfAPage DEF FragmentsOf
<1> QED
  BY <1>3, <1>4, <1>7, <1>9
-----------------------------------------------------------------------------

LogOK == log \in Seq(Publishable)

LEMMA LogSafe == Spec => []LogOK
<1>1. ASSUME Init PROVE LogOK
  <2>1. PICK s \in Publishable : log = <<s>>
    BY <1>1 DEF Init
  <2> QED
    BY <2>1 DEF LogOK
<1>2. LogOK /\ [Next]_vars => LogOK'
  <2> SUFFICES ASSUME LogOK, [Next]_vars
               PROVE  LogOK'
    OBVIOUS
  <2> USE DEF LogOK
  <2>1. ASSUME NEW s \in Publishable, Publish(s)
        PROVE  LogOK'
    BY <2>1 DEF Publish
  <2>2. ASSUME NEW i \in DOMAIN log, RenderSvg(i)
        PROVE  LogOK'
    BY <2>2 DEF RenderSvg
  <2>3. CASE PatchSvg
    BY <2>3 DEF PatchSvg
  <2>4. ASSUME NEW i \in DOMAIN log, NEW view, RenderRaster(i, view)
        PROVE  LogOK'
    BY <2>4 DEF RenderRaster
  <2>5. CASE Repaint
    BY <2>5 DEF Repaint
  <2>6. CASE UNCHANGED vars
    BY <2>6 DEF vars
  <2> QED
    BY <2>1, <2>2, <2>3, <2>4, <2>5, <2>6 DEF Next
<1> QED
  BY <1>1, <1>2, PTL DEF Spec

\* The boxes of what is published are boxes.
LEMMA FirstIsBoxed ==
    ASSUME LogOK, Len(log) = 1
    PROVE  \A x \in DOMAIN log[1].doc : BoxOf(log[1].placement, x) \in Box
<1>1. log[1] \in Publishable
  BY DEF LogOK
<1>2. IsDocument(log[1].doc)
  BY <1>1, BackendsAssumption
<1>3. DOMAIN log[1].doc \subseteq Address
  BY <1>2 DEF IsDocument, IsMap
<1> QED
  BY <1>1, <1>3, BackendsAssumption

\* No box is culled that a click could reach, and none is kept that none could
\* (candidate.rs, addresses_at and visible_set).
THEOREM VisibilitySafe == Spec => []VisibleIsEveryHit
<1>1. LogOK => VisibleIsEveryHit
  BY FirstIsBoxed, VisibilityIsHitting, BackendsAssumption DEF VisibleIsEveryHit
<1> QED
  BY <1>1, LogSafe, PTL

\* A page of a flowing document is its band, whatever the height of a page
\* (candidate.rs, on_fragment and visible_set; document.rs, layout).
THEOREM PagesSafe == Spec => []BandsArePages
<1>1. ASSUME LogOK, Len(log) = 1, NEW f \in Fragments, NEW view \in Windows
      PROVE  PageIsBand(log[1], f, view.width)
  <2>1. f \in Nat /\ view \in Box
    BY BackendsAssumption
  <2>2. view.width \in Int
    BY <2>1 DEF Box
  <2> QED
    BY <1>1, <2>1, <2>2, FirstIsBoxed, PagesAreBands
<1>2. LogOK => BandsArePages
  BY <1>1 DEF BandsArePages
<1> QED
  BY <1>2, LogSafe, PTL

-----------------------------------------------------------------------------
\* The snapshots, of those the retained target went through, that named an
\* address, and those that laid it out.
Named(x) ==
    {i \in svg.from..svg.at : i = svg.from \/ x \in DOMAIN Delta(i)}

Laid(x) ==
    {i \in svg.from..svg.at :
        \/ i = svg.from
        \/ x \in DOMAIN Delta(i) /\ NeedsGeometry(Delta(i)[x])}

LEMMA LastOf ==
    \A x : LastNamed(svg, x) = Max(Named(x)) /\ LastLaidOut(x) = Max(Laid(x))
  BY DEF LastNamed, LastLaidOut, Named, Laid

LEMMA NewestIsMax ==
    ASSUME NEW set \in SUBSET Int, NEW n \in set, \A i \in set : i <= n
    PROVE  Max(set) = n
<1>1. \A i \in set : n >= i
  OBVIOUS
<1>2. \A m \in set : (\A i \in set : m >= i) => m = n
  OBVIOUS
<1> QED
  BY <1>1, <1>2 DEF Max

SvgOK ==
    /\ svg = [from |-> svg.from, at |-> svg.at, elements |-> svg.elements]
    /\ svg.elements = [x \in DOMAIN svg.elements |-> svg.elements[x]]
    /\ svg.at \in DOMAIN log
    /\ svg.from \in 1..svg.at

\* An element is whole or refilled, and was laid out at some snapshot.
ElementsOK ==
    /\ DOMAIN svg.elements = DOMAIN Snapshot(svg).doc
    /\ \A x \in DOMAIN svg.elements :
          LET e == svg.elements[x]
              fresh == Element(log[Max(Laid(x))], x)
          IN  /\ e = [at |-> e.at, fill |-> e.fill, body |-> e.body]
              /\ Max(Laid(x)) \in 1..svg.at
              /\ e.fill = Hex(Snapshot(svg).doc[x].paint)
              /\ e.at = fresh.at
              /\ Max(Named(x)) = Max(Laid(x)) => e = fresh

SvgInv == LogOK /\ SvgOK /\ ElementsOK

\* A freshly rendered target.
IsRendered == \E i \in DOMAIN log :
                 svg = [from |-> i, at |-> i, elements |-> Elements(log[i])]

LEMMA RenderedOK == LogOK /\ IsRendered => SvgInv
<1> SUFFICES ASSUME LogOK, NEW i \in DOMAIN log,
                    svg = [from |-> i, at |-> i, elements |-> Elements(log[i])]
             PROVE  SvgInv
  BY DEF IsRendered
<1>1. svg.from = i /\ svg.at = i /\ svg.elements = Elements(log[i]) /\ i \in Nat \ {0}
  BY DEF LogOK
<1>2. SvgOK
  BY <1>1 DEF SvgOK, Elements
<1>3. ASSUME NEW x
      PROVE  Max(Laid(x)) = i /\ Max(Named(x)) = i
  <2>1. Laid(x) = {i} /\ Named(x) = {i}
    BY <1>1 DEF Laid, Named
  <2> QED
    BY <1>1, <2>1, NewestIsMax
<1>4. Snapshot(svg) = log[i]
  BY <1>1 DEF Snapshot
<1>5. ASSUME NEW x \in DOMAIN log[i].doc
      PROVE  /\ svg.elements[x] = Element(log[i], x)
             /\ svg.elements[x] =
                  [at |-> svg.elements[x].at, fill |-> svg.elements[x].fill,
                   body |-> svg.elements[x].body]
             /\ svg.elements[x].fill = Hex(log[i].doc[x].paint)
  BY <1>1 DEF Elements, Element
<1>6. DOMAIN svg.elements = DOMAIN log[i].doc
  BY <1>1 DEF Elements
<1>7. ASSUME NEW x \in DOMAIN log[i].doc
      PROVE  LET e == svg.elements[x]
                 fresh == Element(log[Max(Laid(x))], x)
             IN  /\ e = [at |-> e.at, fill |-> e.fill, body |-> e.body]
                 /\ Max(Laid(x)) \in 1..svg.at
                 /\ e.fill = Hex(Snapshot(svg).doc[x].paint)
                 /\ e.at = fresh.at
                 /\ Max(Named(x)) = Max(Laid(x)) => e = fresh
  <2>1. Max(Laid(x)) = i
    BY <1>3
  <2>2. Element(log[Max(Laid(x))], x) = svg.elements[x]
    BY <1>5, <2>1
  <2> QED
    BY <1>1, <1>4, <1>5, <2>1, <2>2
<1>8. ElementsOK
  BY <1>4, <1>6, <1>7 DEF ElementsOK
<1> QED
  BY <1>2, <1>8 DEF SvgInv

\* What was published and the target went through stays as it was.
LEMMA LogGrows ==
    ASSUME SvgInv, LogOK', svg' = svg, DOMAIN log \subseteq DOMAIN log',
           \A k \in DOMAIN log : log'[k] = log[k]
    PROVE  SvgInv'
<1> USE DEF SvgInv
<1>1. DOMAIN log = 1..Len(log) /\ Len(log) \in Nat
  BY DEF LogOK
<1>2. svg.at \in DOMAIN log /\ svg.from \in 1..svg.at
  BY DEF SvgOK
<1>3. ASSUME NEW i \in svg.from..svg.at, i # svg.from
      PROVE  Delta(i)' = Delta(i)
  <2>1. i \in DOMAIN log /\ i - 1 \in DOMAIN log
    BY <1>1, <1>2, <1>3
  <2> QED
    BY <2>1 DEF Delta
<1>4. ASSUME NEW x
      PROVE  Named(x)' = Named(x) /\ Laid(x)' = Laid(x)
  BY <1>3 DEF Named, Laid
<1>5. Snapshot(svg)' = Snapshot(svg)
  BY <1>2 DEF Snapshot
<1>6. ASSUME NEW x \in DOMAIN svg.elements
      PROVE  log'[Max(Laid(x))] = log[Max(Laid(x))]
  <2>1. Max(Laid(x)) \in 1..svg.at
    BY <1>2 DEF ElementsOK
  <2> QED
    BY <1>1, <1>2, <2>1
<1>7. ElementsOK'
  BY <1>4, <1>5, <1>6 DEF ElementsOK
<1> QED
  BY <1>2, <1>7 DEF SvgOK

\* What becomes of each element when a delta is patched in.
IsPatched(patched, elements, old, s, diffs) ==
    /\ DOMAIN patched = DOMAIN s.doc
    /\ \A x \in DOMAIN s.doc :
          \/ /\ x \in DOMAIN diffs /\ NeedsGeometry(diffs[x])
             /\ patched[x] = Element(s, x)
          \/ /\ x \in DOMAIN diffs /\ ~ NeedsGeometry(diffs[x])
             /\ x \in DOMAIN old.doc
             /\ patched[x] = Refilled(elements[x], s, x)
          \/ /\ x \notin DOMAIN diffs
             /\ x \in DOMAIN old.doc
             /\ patched[x] = elements[x]

LEMMA PatchedElements ==
    ASSUME NEW elements, NEW old, NEW s, NEW diffs,
           diffs = DiffsBetween(old.doc, s.doc),
           DOMAIN elements = DOMAIN old.doc
    PROVE  IsPatched(Patched(elements, s, diffs), elements, old, s, diffs)
<1> DEFINE relaid == {x \in DOMAIN diffs \cap DOMAIN s.doc : NeedsGeometry(diffs[x])}
           kept   == {x \in DOMAIN elements : x \in DOMAIN diffs => x \in DOMAIN s.doc}
           patched == Patched(elements, s, diffs)
<1>1. ASSUME NEW x \in DOMAIN s.doc, x \notin DOMAIN old.doc
      PROVE  x \in relaid
  <2>1. x \in DOMAIN diffs /\ OwnParts \subseteq diffs[x]
    BY <1>1, CreatedAndRetired
  <2>2. "Structure" \in diffs[x]
    BY <2>1 DEF OwnParts
  <2> QED
    BY <2>1, <2>2 DEF NeedsGeometry
<1>2. ASSUME NEW x \in kept
      PROVE  x \in DOMAIN s.doc
  BY CreatedAndRetired
<1>3. kept \cup relaid = DOMAIN s.doc
  BY <1>1, <1>2
<1>4. patched = [x \in kept \cup relaid |->
                    IF x \in relaid THEN Element(s, x)
                    ELSE IF x \in DOMAIN diffs THEN Refilled(elements[x], s, x)
                    ELSE elements[x]]
  BY DEF Patched
<1>5. DOMAIN patched = DOMAIN s.doc
  BY <1>3, <1>4
<1>6. ASSUME NEW x \in DOMAIN s.doc
      PROVE  patched[x] = IF x \in relaid THEN Element(s, x)
                          ELSE IF x \in DOMAIN diffs THEN Refilled(elements[x], s, x)
                          ELSE elements[x]
  BY <1>3, <1>4
<1> HIDE DEF patched
<1>7. ASSUME NEW x \in DOMAIN s.doc
      PROVE  \/ /\ x \in DOMAIN diffs /\ NeedsGeometry(diffs[x])
                /\ patched[x] = Element(s, x)
             \/ /\ x \in DOMAIN diffs /\ ~ NeedsGeometry(diffs[x])
                /\ x \in DOMAIN old.doc
                /\ patched[x] = Refilled(elements[x], s, x)
             \/ /\ x \notin DOMAIN diffs
                /\ x \in DOMAIN old.doc
                /\ patched[x] = elements[x]
  <2>1. CASE x \in relaid
    BY <1>6, <2>1
  <2>2. CASE x \notin relaid
    <3>1. x \in DOMAIN old.doc
      BY <1>1, <2>2
    <3> QED
      BY <1>6, <2>2, <3>1
  <2> QED
    BY <2>1, <2>2
<1> QED
  BY <1>5, <1>7 DEF patched, IsPatched

\* A whole element, and a refilled one.
LEMMA ElementFields ==
    ASSUME NEW s, NEW x
    PROVE  /\ Element(s, x).fill = Hex(s.doc[x].paint)
           /\ Element(s, x) =
                [at |-> Element(s, x).at, fill |-> Element(s, x).fill,
                 body |-> Element(s, x).body]
  BY DEF Element

LEMMA FillAndBody ==
    ASSUME NEW at, NEW fill, NEW body, NEW other, NEW rest,
           NEW e, e = [at |-> at, fill |-> fill, body |-> body],
           NEW f, f = [e EXCEPT !.fill = other, !.body = rest]
    PROVE  f = [at |-> at, fill |-> other, body |-> rest]
  OBVIOUS

LEMMA RefilledFields ==
    ASSUME NEW e, e = [at |-> e.at, fill |-> e.fill, body |-> e.body],
           NEW s, NEW x
    PROVE  /\ Refilled(e, s, x).at = e.at
           /\ Refilled(e, s, x).fill = Hex(s.doc[x].paint)
           /\ Refilled(e, s, x) =
                [at |-> Refilled(e, s, x).at, fill |-> Refilled(e, s, x).fill,
                 body |-> Refilled(e, s, x).body]
<1>1. PICK at, fill, body : e = [at |-> at, fill |-> fill, body |-> body]
  OBVIOUS
<1>2. e.at = at
  BY <1>1
<1>3. Refilled(e, s, x) =
        [at |-> at, fill |-> Hex(s.doc[x].paint), body |-> [open |-> e.fill]]
  <2>1. Refilled(e, s, x) =
          [e EXCEPT !.fill = Hex(s.doc[x].paint), !.body = [open |-> e.fill]]
    BY DEF Refilled
  <2> QED
    BY <1>1, <2>1, FillAndBody, Zenon
<1> DEFINE new == Refilled(e, s, x)
<1>4. new.at = at /\ new.fill = Hex(s.doc[x].paint) /\ new.body = [open |-> e.fill]
  BY <1>3
<1> HIDE DEF new
<1>5. new = [at |-> at, fill |-> Hex(s.doc[x].paint), body |-> [open |-> e.fill]]
  BY <1>3 DEF new
<1>6. new = [at |-> new.at, fill |-> new.fill, body |-> new.body]
  BY <1>4, <1>5
<1> QED
  BY <1>2, <1>4, <1>6 DEF new

LEMMA PatchKeeps ==
    ASSUME SvgInv, PatchSvg
    PROVE  SvgInv'
<1> USE DEF SvgInv
<1> DEFINE next == svg.at + 1
           old == log[svg.at]
           new == log[next]
           diffs == Delta(next)
<1>1. /\ DOMAIN log = 1..Len(log) /\ Len(log) \in Nat
      /\ svg.at \in DOMAIN log /\ svg.from \in 1..svg.at
      /\ svg.at \in Nat /\ svg.from \in Nat
  BY DEF LogOK, SvgOK
<1>2. next \in DOMAIN log /\ log' = log
  BY <1>1 DEF PatchSvg
<1>3. svg' = [from |-> svg.from, at |-> next,
              elements |-> Patched(svg.elements, new, diffs)]
  <2>1. svg = [from |-> svg.from, at |-> svg.at, elements |-> svg.elements]
    BY DEF SvgOK
  <2>2. svg' = [svg EXCEPT !.at = next,
                           !.elements = Patched(svg.elements, new, diffs)]
    BY DEF PatchSvg
  <2> QED
    BY <2>1, <2>2
<1>4. /\ svg'.from = svg.from /\ svg'.at = next
      /\ svg'.elements = Patched(svg.elements, new, diffs)
  BY <1>3
<1>5. LogOK' /\ SvgOK'
  <2>1. svg'.elements = [x \in DOMAIN svg'.elements |-> svg'.elements[x]]
    BY <1>4 DEF Patched
  <2> QED
    BY <1>1, <1>2, <1>3, <1>4, <2>1 DEF LogOK, SvgOK
<1>6. diffs = DiffsBetween(old.doc, new.doc)
  BY <1>1 DEF Delta
<1>7. /\ Snapshot(svg) = old /\ Snapshot(svg)' = new
      /\ DOMAIN svg.elements = DOMAIN old.doc
  BY <1>2, <1>4 DEF Snapshot, ElementsOK
<1>8. \A i : Delta(i)' = Delta(i)
  BY <1>2 DEF Delta
<1>9. svg.from..next = (svg.from..svg.at) \cup {next} /\ next # svg.from
  BY <1>1
<1>10. ASSUME NEW x
       PROVE  /\ Named(x)' = IF x \in DOMAIN diffs THEN Named(x) \cup {next}
                             ELSE Named(x)
              /\ Laid(x)' = IF x \in DOMAIN diffs /\ NeedsGeometry(diffs[x])
                            THEN Laid(x) \cup {next} ELSE Laid(x)
              /\ Named(x) \subseteq svg.from..svg.at
              /\ Laid(x) \subseteq svg.from..svg.at
  BY <1>4, <1>8, <1>9 DEF Named, Laid
<1>11. ASSUME NEW set, set \subseteq svg.from..svg.at
       PROVE  Max(set \cup {next}) = next
  <2>1. \A i \in set \cup {next} : i \in Int /\ i <= next
    BY <1>1, <1>11
  <2> QED
    BY <2>1, NewestIsMax
<1> HIDE DEF diffs, old, new, next
<1>12. IsPatched(svg'.elements, svg.elements, old, new, diffs)
  BY <1>4, <1>6, <1>7, PatchedElements
<1>13. ASSUME NEW x \in DOMAIN old.doc
       PROVE  /\ svg.elements[x] =
                   [at |-> svg.elements[x].at, fill |-> svg.elements[x].fill,
                    body |-> svg.elements[x].body]
              /\ Max(Laid(x)) \in 1..svg.at
              /\ svg.elements[x].fill = Hex(old.doc[x].paint)
              /\ svg.elements[x].at = Element(log[Max(Laid(x))], x).at
              /\ Max(Named(x)) = Max(Laid(x)) =>
                    svg.elements[x] = Element(log[Max(Laid(x))], x)
  BY <1>7 DEF ElementsOK
<1>14. ASSUME NEW x \in DOMAIN new.doc
       PROVE  LET e == svg'.elements[x]
                  fresh == Element(log[Max(Laid(x)')], x)
              IN  /\ e = [at |-> e.at, fill |-> e.fill, body |-> e.body]
                  /\ Max(Laid(x)') \in 1..next
                  /\ e.fill = Hex(new.doc[x].paint)
                  /\ e.at = fresh.at
                  /\ Max(Named(x)') = Max(Laid(x)') => e = fresh
  <2>1. CASE x \in DOMAIN diffs /\ NeedsGeometry(diffs[x])
    <3>1. svg'.elements[x] = Element(new, x)
      BY <1>12, <2>1 DEF IsPatched
    <3>2. Max(Laid(x)') = next
      BY <1>10, <1>11, <2>1
    <3>3. next \in 1..next /\ log[next] = new
      BY <1>1 DEF next, new
    <3> QED
      BY <3>1, <3>2, <3>3, ElementFields
  <2>2. CASE x \in DOMAIN diffs /\ ~ NeedsGeometry(diffs[x])
    <3>1. /\ svg'.elements[x] = Refilled(svg.elements[x], new, x)
          /\ x \in DOMAIN old.doc
      BY <1>12, <2>2 DEF IsPatched
    <3>2. Max(Laid(x)') = Max(Laid(x)) /\ Max(Named(x)') = next
      BY <1>10, <1>11, <2>2
    <3>3. Max(Laid(x)) \in 1..next /\ Max(Laid(x)) # next
      <4>1. Max(Laid(x)) \in 1..svg.at
        BY <1>13, <3>1
      <4> QED
        BY <1>1, <4>1 DEF next
    <3> DEFINE e == svg.elements[x]
    <3>4. /\ e = [at |-> e.at, fill |-> e.fill, body |-> e.body]
          /\ e.at = Element(log[Max(Laid(x))], x).at
      BY <1>13, <3>1
    <3> HIDE DEF e
    <3>5. /\ Refilled(e, new, x).at = e.at
          /\ Refilled(e, new, x).fill = Hex(new.doc[x].paint)
          /\ Refilled(e, new, x) =
               [at |-> Refilled(e, new, x).at, fill |-> Refilled(e, new, x).fill,
                body |-> Refilled(e, new, x).body]
      BY <3>4, RefilledFields
    <3>6. svg'.elements[x] = Refilled(e, new, x)
      BY <3>1 DEF e
    <3>7. Max(Named(x)') # Max(Laid(x)')
      BY <3>2, <3>3
    <3> QED
      BY <3>2, <3>3, <3>4, <3>5, <3>6, <3>7
  <2>3. CASE x \notin DOMAIN diffs
    <3>1. svg'.elements[x] = svg.elements[x] /\ x \in DOMAIN old.doc
      BY <1>12, <2>3 DEF IsPatched
    <3>2. Max(Laid(x)') = Max(Laid(x)) /\ Max(Named(x)') = Max(Named(x))
      BY <1>10, <2>3
    <3>3. Max(Laid(x)) \in 1..next
      <4>1. Max(Laid(x)) \in 1..svg.at
        BY <1>13, <3>1
      <4> QED
        BY <1>1, <4>1 DEF next
    <3>4. new.doc[x].paint = old.doc[x].paint
      <4>1. x \in Address
        <5>1. old \in Publishable
          BY <1>1 DEF LogOK, old
        <5> QED
          BY <3>1, <5>1, BackendsAssumption DEF IsDocument, IsMap
      <4>2. Agrees(old.doc, new.doc, x)
        BY <1>6, <2>3, <4>1, UnnamedAgrees
      <4>3. Proj(old.doc[x]) = Proj(new.doc[x])
        BY <3>1, <4>2 DEF Agrees, OwnEq
      <4>4. Proj(old.doc[x]).Paint = Proj(new.doc[x]).Paint
        BY <4>3
      <4>5. <<old.doc[x].paint, ResourcesFor(old.doc[x], "Paint")>>
              = <<new.doc[x].paint, ResourcesFor(new.doc[x], "Paint")>>
        BY <4>4 DEF Proj
      <4> QED
        BY <4>5
    <3> QED
      BY <1>13, <3>1, <3>2, <3>3, <3>4
  <2> QED
    BY <2>1, <2>2, <2>3
<1>15. ElementsOK'
  BY <1>2, <1>4, <1>7, <1>12, <1>14 DEF ElementsOK, IsPatched
<1> QED
  BY <1>5, <1>15

LEMMA SvgInvHolds == Spec => []SvgInv
<1>0. LogOK' /\ IsRendered' => SvgInv'
  BY RenderedOK, PTL
<1>1. ASSUME Init PROVE SvgInv
  <2>1. PICK s \in Publishable : log = <<s>>
    BY <1>1 DEF Init
  <2>2. LogOK /\ 1 \in DOMAIN log
    BY <2>1 DEF LogOK
  <2> QED
    BY <1>1, <2>1, <2>2, RenderedOK DEF Init, IsRendered
<1>2. SvgInv /\ [Next]_vars /\ LogOK' => SvgInv'
  <2> SUFFICES ASSUME SvgInv, [Next]_vars, LogOK'
               PROVE  SvgInv'
    OBVIOUS
  <2>1. ASSUME NEW s \in Publishable, Publish(s)
        PROVE  SvgInv'
    <3>1. svg' = svg /\ log' = Append(log, s) /\ log \in Seq(Publishable)
      BY <2>1 DEF Publish, SvgInv, LogOK
    <3>2. DOMAIN log \subseteq DOMAIN log' /\ \A k \in DOMAIN log : log'[k] = log[k]
      BY <3>1
    <3> QED
      BY <3>1, <3>2, LogGrows
  <2>2. ASSUME NEW i \in DOMAIN log, RenderSvg(i)
        PROVE  SvgInv'
    <3>1. \E k \in DOMAIN log' :
             svg' = [from |-> k, at |-> k, elements |-> Elements(log'[k])]
      BY <2>2 DEF RenderSvg
    <3>2. IsRendered'
      BY <3>1 DEF IsRendered
    <3> QED
      BY <1>0, <3>2
  <2>3. CASE PatchSvg
    BY <2>3, PatchKeeps
  <2>4. ASSUME NEW i \in DOMAIN log, NEW view, RenderRaster(i, view)
        PROVE  SvgInv'
    BY <2>4, LogGrows DEF RenderRaster
  <2>5. CASE Repaint
    BY <2>5, LogGrows DEF Repaint
  <2>6. CASE UNCHANGED vars
    BY <2>6, LogGrows DEF vars
  <2> QED
    BY <2>1, <2>2, <2>3, <2>4, <2>5, <2>6 DEF Next
<1> QED
  BY <1>1, <1>2, LogSafe, PTL DEF Spec

\* After any commits and renders the retained target has an element for each
\* record, in the colour of the record's paint, placed where the record was
\* when it was last laid out, and whole if nothing but a layout has touched it
\* since (svg.rs, hex and patch).
THEOREM SvgSafe == Spec => []SvgIsRenderWhereLaidOut
<1>1. ASSUME SvgInv, NEW x \in DOMAIN svg.elements
      PROVE  LET fresh == Element(log[LastLaidOut(x)], x)
             IN  /\ svg.elements[x].fill = Hex(Snapshot(svg).doc[x].paint)
                 /\ svg.elements[x].at = fresh.at
                 /\ LastNamed(svg, x) = LastLaidOut(x) => svg.elements[x] = fresh
  BY <1>1, LastOf DEF SvgInv, ElementsOK
<1>2. SvgInv => SvgIsRenderWhereLaidOut
  BY <1>1 DEF SvgIsRenderWhereLaidOut, SvgInv, ElementsOK
<1> QED
  BY <1>2, SvgInvHolds, PTL

-----------------------------------------------------------------------------
\* A set that is drawn: no address twice, and boxes that can be compared.
IsDrawn(set) ==
    /\ IsFiniteSet(set)
    /\ \A o \in set : o.address \in Address /\ o.bounds \in Box
    /\ \A o, p \in set : o.address = p.address => o = p

DrawOrder(set) == {pair \in set \X set : DrawnBefore(pair[1], pair[2])}

\* The order of the draw list leaves no two operations where they may swap.
LEMMA DrawOrderIsOrder ==
    ASSUME NEW set, IsDrawn(set)
    PROVE  IsOrderOf(DrawOrder(set), set)
<1>1. \A o \in set : o.address \in Nat /\ o.bounds.x \in Int /\ o.bounds.y \in Int
  BY BackendsAssumption DEF IsDrawn, Box
<1>2. \A o, p \in set : <<o, p>> \in DrawOrder(set) <=> DrawnBefore(o, p)
  BY DEF DrawOrder
<1>3. \A o \in set : ~ DrawnBefore(o, o)
  BY <1>1 DEF DrawnBefore
<1>4. \A o, p \in set : o # p => DrawnBefore(o, p) \/ DrawnBefore(p, o)
  <2>1. \A o, p \in set : o # p => o.address # p.address
    BY DEF IsDrawn
  <2> QED
    BY <1>1, <2>1 DEF DrawnBefore
<1>5. \A o, p, q \in set :
         DrawnBefore(o, p) /\ DrawnBefore(p, q) => DrawnBefore(o, q)
  BY <1>1 DEF DrawnBefore
<1> QED
  BY <1>2, <1>3, <1>4, <1>5 DEF IsOrderOf

LEMMA DrawListFacts ==
    ASSUME NEW set, IsDrawn(set)
    PROVE  LaysOut(DrawList(set), set, DrawOrder(set))
<1>1. IsFiniteSet(set)
  BY DEF IsDrawn
<1>2. IsOrderOf(DrawOrder(set), set)
  BY DrawOrderIsOrder
<1>3. DrawList(set) = Ordered(set, DrawOrder(set))
  BY DEF DrawList, DrawOrder
<1> QED
  BY <1>1, <1>2, <1>3, OrderedFacts

\* The operations of some of the records of a snapshot.
OpsOf(s, some) == {Op(s, x) : x \in some}

LEMMA OpFields ==
    ASSUME NEW s, NEW x
    PROVE  /\ Op(s, x).address = x
           /\ Op(s, x).bounds = BoxOf(s.placement, x)
           /\ Op(s, x).fill = s.doc[x].paint
           /\ Op(s, x).text = s.doc[x].text
  BY DEF Op

LEMMA OpsAreDrawn ==
    ASSUME NEW s \in Publishable, NEW some \in SUBSET DOMAIN s.doc
    PROVE  IsDrawn(OpsOf(s, some))
<1>1. IsDocument(s.doc) /\ IsFiniteSet(DOMAIN s.doc)
      /\ \A x \in Address : BoxOf(s.placement, x) \in Box
  BY BackendsAssumption
<1>2. some \subseteq Address /\ IsFiniteSet(some)
  BY <1>1, FS_Subset DEF IsDocument, IsMap
<1> DEFINE ops == OpsOf(s, some)
           op == [x \in some |-> Op(s, x)]
<1>3. op \in Surjection(some, ops)
  BY DEF Surjection, OpsOf
<1>4. IsFiniteSet(ops)
  BY <1>2, <1>3, FS_Surjection
<1>5. \A o \in ops : o = Op(s, o.address) /\ o.address \in some
  BY OpFields DEF OpsOf
<1>6. \A o \in ops : o.bounds \in Box
  BY <1>1, <1>2, <1>5, OpFields
<1> QED
  BY <1>2, <1>4, <1>5, <1>6 DEF IsDrawn

\* What a target holds when a delta named some addresses: the operations of
\* the others as they were, and of those that are live in s.
Redrawn(set, named, s) ==
    {o \in set : o.address \notin named} \cup OpsOf(s, named \cap DOMAIN s.doc)

LEMMA RedrawnIsDrawn ==
    ASSUME NEW set, IsDrawn(set), NEW named, NEW s \in Publishable
    PROVE  IsDrawn(Redrawn(set, named, s))
<1> DEFINE kept == {o \in set : o.address \notin named}
           ops == OpsOf(s, named \cap DOMAIN s.doc)
<1>1. IsDrawn(ops)
  BY OpsAreDrawn
<1>2. \A o \in ops : o.address \in named
  BY OpFields DEF OpsOf
<1>3. IsFiniteSet(kept)
  BY FS_Subset DEF IsDrawn
<1>4. IsFiniteSet(kept \cup ops)
  BY <1>1, <1>3, FS_Union DEF IsDrawn
<1> HIDE DEF ops
<1> QED
  BY <1>1, <1>2, <1>4 DEF IsDrawn, Redrawn, ops

\* A record that a delta does not name is drawn as it was.
LEMMA UnnamedIsDrawnAlike ==
    ASSUME NEW old, NEW new, NEW x \in Address,
           x \notin DOMAIN DiffsBetween(old, new)
    PROVE  /\ x \in DOMAIN old <=> x \in DOMAIN new
           /\ x \in DOMAIN old =>
                /\ old[x].text = new[x].text
                /\ old[x].paint = new[x].paint
<1>1. Agrees(old, new, x)
  BY UnnamedAgrees
<1>2. CASE x \in DOMAIN old
  <2>1. x \in DOMAIN new /\ Proj(old[x]) = Proj(new[x])
    BY <1>1, <1>2 DEF Agrees, OwnEq
  <2>2. /\ Proj(old[x]).Text = old[x].text /\ Proj(new[x]).Text = new[x].text
        /\ Proj(old[x]).Paint[1] = old[x].paint
        /\ Proj(new[x]).Paint[1] = new[x].paint
    BY DEF Proj
  <2>3. old[x].text = new[x].text
    BY <2>1, <2>2
  <2>4. old[x].paint = new[x].paint
    BY <2>1, <2>2
  <2> QED
    BY <1>2, <2>1, <2>3, <2>4
<1>3. CASE x \notin DOMAIN old
  BY <1>1, <1>3 DEF Agrees
<1> QED
  BY <1>2, <1>3

-----------------------------------------------------------------------------
\* The snapshots, of those the immediate target went through, that named an
\* address.
Drew(x) ==
    {i \in raster.from..raster.at : i = raster.from \/ x \in DOMAIN Delta(i)}

RasterOK ==
    /\ raster = [from |-> raster.from, at |-> raster.at, ops |-> raster.ops,
                 region |-> raster.region, view |-> raster.view]
    /\ raster.at \in DOMAIN log
    /\ raster.from \in 1..raster.at
    /\ raster.view \in Views \cup {Everywhere}

OpsOK ==
    /\ IsDrawn(Range(raster.ops))
    /\ raster.ops = DrawList(Range(raster.ops))

WholeOK ==
    raster.view = Everywhere =>
        /\ {o.address : o \in Range(raster.ops)} = DOMAIN Snapshot(raster).doc
        /\ \A o \in Range(raster.ops) :
              LET last == Max(Drew(o.address))
              IN  /\ o.fill = Snapshot(raster).doc[o.address].paint
                  /\ o.text = Snapshot(raster).doc[o.address].text
                  /\ last \in 1..raster.at
                  /\ o.bounds = BoxOf(log[last].placement, o.address)

RasterInv ==
    LogOK /\ RasterOK /\ OpsOK /\ WholeOK /\ InViewThroughoutIsCurrent

IsRasterRendered ==
    \E i \in DOMAIN log, view \in Views \cup {Everywhere} :
        raster = [from |-> i, at |-> i, ops |-> AllOps(log[i]),
                  region |-> NoBox, view |-> view]

LEMMA DrawnList ==
    ASSUME NEW set, IsDrawn(set), NEW list, list = DrawList(set)
    PROVE  Range(list) = set /\ list = DrawList(Range(list))
  BY DrawListFacts DEF LaysOut

LEMMA RasterRenderedOK == LogOK /\ IsRasterRendered => RasterInv
<1> SUFFICES ASSUME LogOK, NEW i \in DOMAIN log,
                    NEW view \in Views \cup {Everywhere},
                    raster = [from |-> i, at |-> i, ops |-> AllOps(log[i]),
                              region |-> NoBox, view |-> view]
             PROVE  RasterInv
  BY DEF IsRasterRendered
<1>1. /\ raster.from = i /\ raster.at = i /\ raster.ops = AllOps(log[i])
      /\ raster.view = view /\ i \in Nat \ {0} /\ log[i] \in Publishable
  BY DEF LogOK
<1>2. RasterOK
  BY <1>1 DEF RasterOK
<1>3. Snapshot(raster) = log[i]
  BY <1>1 DEF Snapshot
<1> DEFINE ops == OpsOf(log[i], DOMAIN log[i].doc)
<1>4. IsDrawn(ops)
  BY <1>1, OpsAreDrawn
<1>5. raster.ops = DrawList(ops)
  BY <1>1 DEF AllOps, OpsOf
<1>6. Range(raster.ops) = ops /\ OpsOK
  BY <1>4, <1>5, DrawnList DEF OpsOK
<1>7. ASSUME NEW x
      PROVE  Max(Drew(x)) = i
  <2>1. Drew(x) = {i}
    BY <1>1 DEF Drew
  <2> QED
    BY <1>1, <2>1, NewestIsMax
<1>8. /\ \A o \in ops : o.address \in DOMAIN log[i].doc /\ o = Op(log[i], o.address)
      /\ \A x \in DOMAIN log[i].doc : Op(log[i], x) \in ops
  BY OpFields DEF OpsOf
<1>9. {o.address : o \in ops} = DOMAIN log[i].doc
  BY <1>8, OpFields
<1> HIDE DEF ops
<1>10. WholeOK
  BY <1>1, <1>3, <1>6, <1>7, <1>8, <1>9, OpFields DEF WholeOK
<1>11. InViewThroughoutIsCurrent
  <2>1. ASSUME NEW x \in DOMAIN log[i].doc
        PROVE  \E o \in {p \in Range(raster.ops) : p.address = x} :
                  o.fill = log[i].doc[x].paint /\ o.text = log[i].doc[x].text
    BY <1>6, <1>8, OpFields
  <2>2. ~ (raster.from < raster.at)
    BY <1>1
  <2> QED
    BY <1>3, <2>1, <2>2 DEF InViewThroughoutIsCurrent
<1> QED
  BY <1>2, <1>6, <1>10, <1>11 DEF RasterInv

LEMMA RasterGrows ==
    ASSUME RasterInv, LogOK', raster' = raster, DOMAIN log \subseteq DOMAIN log',
           \A k \in DOMAIN log : log'[k] = log[k]
    PROVE  RasterInv'
<1> USE DEF RasterInv
<1>1. DOMAIN log = 1..Len(log) /\ Len(log) \in Nat
  BY DEF LogOK
<1>2. raster.at \in DOMAIN log /\ raster.from \in 1..raster.at
  BY DEF RasterOK
<1>3. ASSUME NEW i \in raster.from..raster.at, i # raster.from
      PROVE  Delta(i)' = Delta(i)
  <2>1. i \in DOMAIN log /\ i - 1 \in DOMAIN log
    BY <1>1, <1>2, <1>3
  <2> QED
    BY <2>1 DEF Delta
<1>4. ASSUME NEW x
      PROVE  Drew(x)' = Drew(x)
  BY <1>3 DEF Drew
<1>5. Snapshot(raster)' = Snapshot(raster)
  BY <1>2 DEF Snapshot
<1>6. RasterOK' /\ OpsOK'
  BY <1>2 DEF RasterOK, OpsOK
<1>7. ASSUME NEW k \in 1..raster.at
      PROVE  log'[k] = log[k]
  BY <1>1, <1>2
<1>8. WholeOK'
  <2>1. ASSUME raster.view = Everywhere, NEW o \in Range(raster.ops)
        PROVE  LET last == Max(Drew(o.address)')
               IN  /\ o.fill = Snapshot(raster)'.doc[o.address].paint
                   /\ o.text = Snapshot(raster)'.doc[o.address].text
                   /\ last \in 1..raster.at
                   /\ o.bounds = BoxOf(log'[last].placement, o.address)
    BY <1>4, <1>5, <1>7, <2>1 DEF WholeOK
  <2>2. raster.view = Everywhere =>
          {o.address : o \in Range(raster.ops)} = DOMAIN Snapshot(raster)'.doc
    BY <1>5 DEF WholeOK
  <2> QED
    BY <2>1, <2>2 DEF WholeOK
<1>9. InViewThroughoutIsCurrent'
  <2>1. \A k \in raster.from..raster.at : log'[k] = log[k]
    BY <1>2, <1>7
  <2> QED
    BY <1>5, <2>1 DEF InViewThroughoutIsCurrent
<1> QED
  BY <1>6, <1>8, <1>9

\* What a repaint does to the list.
LEMMA RepaintDraws ==
    ASSUME RasterInv, Repaint
    PROVE  LET next == raster.at + 1
               set  == Redrawn(Range(raster.ops), DOMAIN Told(next), log[next])
           IN  /\ next \in DOMAIN log /\ log' = log
               /\ raster'.from = raster.from /\ raster'.at = next
               /\ raster'.view = raster.view
               /\ Range(raster'.ops) = set
               /\ RasterOK' /\ OpsOK'
<1> USE DEF RasterInv
<1> DEFINE next == raster.at + 1
           diffs == Told(next)
           old == {o \in Range(raster.ops) : o.address \in DOMAIN diffs}
           new == {Op(log[next], x) : x \in DOMAIN diffs \cap DOMAIN log[next].doc}
           set == Redrawn(Range(raster.ops), DOMAIN diffs, log[next])
<1>1. /\ DOMAIN log = 1..Len(log) /\ Len(log) \in Nat
      /\ raster.at \in DOMAIN log /\ raster.from \in 1..raster.at
      /\ raster.at \in Nat /\ raster.from \in Nat
  BY DEF LogOK, RasterOK
<1>2. next \in DOMAIN log /\ log' = log /\ log[next] \in Publishable
  BY <1>1 DEF Repaint, LogOK
<1>3. PICK region :
        raster' = [from |-> raster.from, at |-> next,
                   ops |-> DrawList((Range(raster.ops) \ old) \cup new),
                   region |-> region, view |-> raster.view]
  <2>1. raster = [from |-> raster.from, at |-> raster.at, ops |-> raster.ops,
                  region |-> raster.region, view |-> raster.view]
    BY DEF RasterOK
  <2>2. \E region : raster' =
          [raster EXCEPT !.at = next,
                         !.ops = DrawList((Range(raster.ops) \ old) \cup new),
                         !.region = region]
    BY DEF Repaint
  <2> QED
    BY <2>1, <2>2
<1>4. (Range(raster.ops) \ old) \cup new = set
  BY DEF Redrawn, OpsOf
<1> HIDE DEF old, new, diffs, next
<1>5. IsDrawn(set)
  BY <1>2, RedrawnIsDrawn DEF OpsOK
<1>6. raster'.ops = DrawList(set)
  BY <1>3, <1>4
<1> HIDE DEF set
<1>7. Range(raster'.ops) = set /\ raster'.ops = DrawList(Range(raster'.ops))
  BY <1>5, <1>6, DrawnList
<1>8. /\ raster'.from = raster.from /\ raster'.at = next
      /\ raster'.view = raster.view
  BY <1>3
<1>9. OpsOK'
  BY <1>5, <1>7 DEF OpsOK
<1>10. RasterOK'
  <2>1. raster' = [from |-> raster'.from, at |-> raster'.at, ops |-> raster'.ops,
                   region |-> raster'.region, view |-> raster'.view]
    BY <1>3
  <2>2. raster'.from \in 1..raster'.at
    BY <1>1, <1>8 DEF next
  <2> QED
    BY <1>2, <1>8, <2>1, <2>2 DEF RasterOK
<1> QED
  BY <1>2, <1>7, <1>8, <1>9, <1>10 DEF next, set, diffs

\* A whole delta leaves what a render gives, but for boxes that moved unnamed.
LEMMA RepaintKeepsWhole ==
    ASSUME RasterInv, Repaint
    PROVE  WholeOK'
<1> USE DEF RasterInv
<1> DEFINE next == raster.at + 1
           named == DOMAIN Told(next)
           set == Redrawn(Range(raster.ops), named, log[next])
<1>1. /\ next \in DOMAIN log /\ log' = log
      /\ raster'.from = raster.from /\ raster'.at = next
      /\ raster'.view = raster.view
      /\ Range(raster'.ops) = set
  BY RepaintDraws
<1> SUFFICES ASSUME raster.view = Everywhere
             PROVE  /\ {o.address : o \in set} = DOMAIN log[next].doc
                    /\ \A o \in set :
                          LET last == Max(Drew(o.address)')
                          IN  /\ o.fill = log[next].doc[o.address].paint
                              /\ o.text = log[next].doc[o.address].text
                              /\ last \in 1..next
                              /\ o.bounds = BoxOf(log[last].placement, o.address)
  BY <1>1 DEF WholeOK, Snapshot
<1>2. /\ DOMAIN log = 1..Len(log) /\ Len(log) \in Nat
      /\ raster.at \in DOMAIN log /\ raster.from \in 1..raster.at
      /\ raster.at \in Nat /\ raster.from \in Nat
  BY DEF LogOK, RasterOK
<1>3. Told(next) = Delta(next)
      /\ Delta(next) = DiffsBetween(log[raster.at].doc, log[next].doc)
  BY <1>2 DEF Told, Culled, Delta
<1>4. /\ {o.address : o \in Range(raster.ops)} = DOMAIN log[raster.at].doc
      /\ \A o \in Range(raster.ops) :
            /\ o.address \in Address
            /\ o.fill = log[raster.at].doc[o.address].paint
            /\ o.text = log[raster.at].doc[o.address].text
            /\ Max(Drew(o.address)) \in 1..raster.at
            /\ o.bounds = BoxOf(log[Max(Drew(o.address))].placement, o.address)
  BY DEF WholeOK, Snapshot, OpsOK, IsDrawn
<1>5. DOMAIN log[next].doc \subseteq Address
  BY <1>1, BackendsAssumption DEF LogOK, IsDocument, IsMap
<1>6. raster.from..next = (raster.from..raster.at) \cup {next} /\ next # raster.from
  BY <1>2
<1>7. \A i : Delta(i)' = Delta(i)
  BY <1>1 DEF Delta
<1>8. ASSUME NEW x
      PROVE  /\ Drew(x)' = IF x \in named THEN Drew(x) \cup {next} ELSE Drew(x)
             /\ Drew(x) \subseteq raster.from..raster.at
  BY <1>1, <1>3, <1>6, <1>7 DEF Drew
<1>9. ASSUME NEW x \in named
      PROVE  Max(Drew(x)') = next
  <2>1. /\ Drew(x)' \in SUBSET Int /\ next \in Drew(x)'
        /\ \A i \in Drew(x)' : i <= next
    BY <1>2, <1>8
  <2> QED
    BY <2>1, NewestIsMax
<1> HIDE DEF next, named, set
<1>10. ASSUME NEW x \in Address, x \notin named
       PROVE  /\ x \in DOMAIN log[raster.at].doc <=> x \in DOMAIN log[next].doc
              /\ x \in DOMAIN log[raster.at].doc =>
                   /\ log[raster.at].doc[x].text = log[next].doc[x].text
                   /\ log[raster.at].doc[x].paint = log[next].doc[x].paint
  BY <1>3, <1>10, UnnamedIsDrawnAlike DEF named
<1>11. ASSUME NEW o \in set
       PROVE  /\ o.address \in DOMAIN log[next].doc
              /\ o.fill = log[next].doc[o.address].paint
              /\ o.text = log[next].doc[o.address].text
              /\ Max(Drew(o.address)') \in 1..next
              /\ o.bounds = BoxOf(log[Max(Drew(o.address)')].placement, o.address)
  <2>1. CASE o \in Range(raster.ops) /\ o.address \notin named
    <3>1. o.address \in Address /\ o.address \in DOMAIN log[raster.at].doc
      BY <1>4, <2>1
    <3>2. Drew(o.address)' = Drew(o.address)
      BY <1>8, <2>1
    <3>3. Max(Drew(o.address)) \in 1..next
      BY <1>2, <1>4, <2>1 DEF next
    <3> QED
      BY <1>4, <1>10, <2>1, <3>1, <3>2, <3>3
  <2>2. CASE \E x \in named \cap DOMAIN log[next].doc : o = Op(log[next], x)
    <3>1. PICK x \in named \cap DOMAIN log[next].doc : o = Op(log[next], x)
      BY <2>2
    <3>2. Max(Drew(x)') = next /\ next \in 1..next
      BY <1>2, <1>9 DEF next
    <3> QED
      BY <3>1, <3>2, OpFields
  <2> QED
    BY <2>1, <2>2 DEF set, Redrawn, OpsOf
<1>12. ASSUME NEW x \in DOMAIN log[next].doc
       PROVE  \E o \in set : o.address = x
  <2>1. CASE x \in named
    <3>1. Op(log[next], x) \in set
      BY <2>1 DEF set, Redrawn, OpsOf
    <3> QED
      BY <3>1, OpFields
  <2>2. CASE x \notin named
    <3>1. x \in DOMAIN log[raster.at].doc
      BY <1>5, <1>10, <2>2
    <3>2. PICK o \in Range(raster.ops) : o.address = x
      BY <1>4, <3>1
    <3> QED
      BY <2>2, <3>2 DEF set, Redrawn
  <2> QED
    BY <2>1, <2>2
<1> QED
  BY <1>11, <1>12

\* A culled delta leaves what is right about all that stayed in view.
LEMMA RepaintKeepsInView ==
    ASSUME RasterInv, Repaint
    PROVE  InViewThroughoutIsCurrent'
<1> USE DEF RasterInv
<1> DEFINE next == raster.at + 1
           named == DOMAIN Told(next)
           set == Redrawn(Range(raster.ops), named, log[next])
           here == log[raster.at].doc
           there == log[next].doc
<1>1. /\ next \in DOMAIN log /\ log' = log
      /\ raster'.from = raster.from /\ raster'.at = next
      /\ raster'.view = raster.view
      /\ Range(raster'.ops) = set
  BY RepaintDraws
<1>2. /\ DOMAIN log = 1..Len(log) /\ Len(log) \in Nat
      /\ raster.at \in DOMAIN log /\ raster.from \in 1..raster.at
      /\ raster.at \in Nat /\ raster.from \in Nat
  BY DEF LogOK, RasterOK
<1> SUFFICES ASSUME NEW x \in Address, raster.view # Everywhere,
                    \A i \in raster.from..next :
                       i < next => x \in VisibleSet(log[i], raster.view)
             PROVE  IF x \in DOMAIN there
                    THEN \E o \in set : /\ o.address = x
                                        /\ o.fill = there[x].paint
                                        /\ o.text = there[x].text
                    ELSE \A o \in set : o.address # x
  BY <1>1 DEF InViewThroughoutIsCurrent, Snapshot
<1>3. x \in VisibleSet(log[raster.at], raster.view)
      /\ \A i \in raster.from..raster.at :
            i < raster.at => x \in VisibleSet(log[i], raster.view)
  BY <1>2
<1>4. x \in DOMAIN here
  BY <1>3 DEF VisibleSet, BoxedIn
<1>5. \E o \in Range(raster.ops) :
         o.address = x /\ o.fill = here[x].paint /\ o.text = here[x].text
  BY <1>3, <1>4 DEF InViewThroughoutIsCurrent, Snapshot
<1>6. x \in named <=> x \in DOMAIN DiffsBetween(here, there)
  BY <1>2, <1>3 DEF Told, Culled, Delta, Restrict
<1> HIDE DEF next, named, set, here, there
<1>7. CASE x \in named
  <2>1. \A o \in set : o.address = x => x \in DOMAIN there
    BY <1>7, OpFields DEF set, Redrawn, OpsOf, there
  <2>2. x \in DOMAIN there => Op(log[next], x) \in set
    BY <1>7 DEF set, Redrawn, OpsOf, there
  <2> QED
    BY <2>1, <2>2, OpFields DEF there
<1>8. CASE x \notin named
  <2>1. /\ x \in DOMAIN there
        /\ here[x].text = there[x].text /\ here[x].paint = there[x].paint
    BY <1>4, <1>6, <1>8, UnnamedIsDrawnAlike
  <2>2. PICK o \in Range(raster.ops) :
           o.address = x /\ o.fill = here[x].paint /\ o.text = here[x].text
    BY <1>5
  <2>3. o \in set
    BY <1>8, <2>2 DEF set, Redrawn
  <2> QED
    BY <2>1, <2>2, <2>3
<1> QED
  BY <1>7, <1>8

LEMMA RasterInvHolds == Spec => []RasterInv
<1>0. LogOK' /\ IsRasterRendered' => RasterInv'
  BY RasterRenderedOK, PTL
<1>1. ASSUME Init PROVE RasterInv
  <2>1. PICK s \in Publishable : log = <<s>>
    BY <1>1 DEF Init
  <2>2. LogOK /\ 1 \in DOMAIN log
    BY <2>1 DEF LogOK
  <2> QED
    BY <1>1, <2>1, <2>2, RasterRenderedOK DEF Init, IsRasterRendered
<1>2. RasterInv /\ [Next]_vars /\ LogOK' => RasterInv'
  <2> SUFFICES ASSUME RasterInv, [Next]_vars, LogOK'
               PROVE  RasterInv'
    OBVIOUS
  <2>1. ASSUME NEW s \in Publishable, Publish(s)
        PROVE  RasterInv'
    <3>1. raster' = raster /\ log' = Append(log, s) /\ log \in Seq(Publishable)
      BY <2>1 DEF Publish, RasterInv, LogOK
    <3>2. DOMAIN log \subseteq DOMAIN log' /\ \A k \in DOMAIN log : log'[k] = log[k]
      BY <3>1
    <3> QED
      BY <3>1, <3>2, RasterGrows
  <2>2. ASSUME NEW i \in DOMAIN log, RenderSvg(i)
        PROVE  RasterInv'
    BY <2>2, RasterGrows DEF RenderSvg
  <2>3. CASE PatchSvg
    BY <2>3, RasterGrows DEF PatchSvg
  <2>4. ASSUME NEW i \in DOMAIN log, NEW view \in Views \cup {Everywhere},
               RenderRaster(i, view)
        PROVE  RasterInv'
    <3>1. \E k \in DOMAIN log', one \in Views \cup {Everywhere} :
             raster' = [from |-> k, at |-> k, ops |-> AllOps(log'[k]),
                        region |-> NoBox, view |-> one]
      BY <2>4 DEF RenderRaster
    <3>2. IsRasterRendered'
      BY <3>1 DEF IsRasterRendered
    <3> QED
      BY <1>0, <3>2
  <2>5. CASE Repaint
    <3>1. RasterOK' /\ OpsOK'
      BY <2>5, RepaintDraws
    <3> QED
      BY <2>5, <3>1, RepaintKeepsWhole, RepaintKeepsInView DEF RasterInv
  <2>6. CASE UNCHANGED vars
    BY <2>6, RasterGrows DEF vars
  <2> QED
    BY <2>1, <2>2, <2>3, <2>4, <2>5, <2>6 DEF Next
<1> QED
  BY <1>1, <1>2, LogSafe, PTL DEF Spec

\* After any commits and renders the draw list of a target that is told
\* everything is the one a render would give, but for boxes that moved without
\* being named (raster.rs, repaint).
THEOREM RasterSafe == Spec => []RasterIsRenderButForMoves
<1>1. \A x : LastNamed(raster, x) = Max(Drew(x))
  BY DEF LastNamed, Drew
<1>2. RasterInv => RasterIsRenderButForMoves
  BY <1>1 DEF RasterInv, WholeOK, RasterIsRenderButForMoves
<1> QED
  BY <1>2, RasterInvHolds, PTL

\* Whatever is culled by the viewport of before each commit, what has stayed in
\* view is drawn as it is, and is dropped when it is gone (poc.rs, Finding 8).
THEOREM InViewSafe == Spec => []InViewThroughoutIsCurrent
<1>1. RasterInv => InViewThroughoutIsCurrent
  BY DEF RasterInv
<1> QED
  BY <1>1, RasterInvHolds, PTL

-----------------------------------------------------------------------------
\* A box with a size that is not negative.
Sized == {b \in Box : b.width >= 0 /\ b.height >= 0}

LEMMA UnionCovers ==
    ASSUME NEW r \in Sized, NEW s \in Sized
    PROVE  /\ UnionBox(r, s) \in Sized
           /\ Covers(UnionBox(r, s), r)
           /\ \A b \in Sized : Covers(s, b) => Covers(UnionBox(r, s), b)
<1>1. NoBox \in Sized
  BY DEF NoBox, Sized, Box
<1>2. \A b \in Sized : Covers(NoBox, b) => b = NoBox
  BY DEF NoBox, Sized, Box, Covers
<1>3. CASE r = NoBox
  BY <1>3 DEF UnionBox, Covers
<1>4. CASE r # NoBox /\ s = NoBox
  <2>1. UnionBox(r, s) = r
    BY <1>4 DEF UnionBox
  <2>2. Covers(r, r)
    BY DEF Covers, Sized, Box
  <2> QED
    BY <1>2, <1>4, <2>1, <2>2 DEF Covers
<1>5. CASE r # NoBox /\ s # NoBox
  <2>1. ASSUME NEW i \in Int, NEW j \in Int
        PROVE  /\ Min({i, j}) = IF i <= j THEN i ELSE j
               /\ Max({i, j}) = IF i <= j THEN j ELSE i
    BY DEF Min, Max
  <2> DEFINE x == Min({r.x, s.x})
             y == Min({r.y, s.y})
             right == Max({r.x + r.width, s.x + s.width})
             low == Max({r.y + r.height, s.y + s.height})
  <2>2. UnionBox(r, s) =
          [x |-> x, y |-> y, width |-> right - x, height |-> low - y]
    BY <1>5 DEF UnionBox
  <2>3. /\ x \in Int /\ x <= r.x /\ x <= s.x
        /\ y \in Int /\ y <= r.y /\ y <= s.y
        /\ right \in Int /\ r.x + r.width <= right /\ s.x + s.width <= right
        /\ low \in Int /\ r.y + r.height <= low /\ s.y + s.height <= low
    <3>1. /\ r.x \in Int /\ r.y \in Int /\ r.width \in Int /\ r.height \in Int
          /\ s.x \in Int /\ s.y \in Int /\ s.width \in Int /\ s.height \in Int
      BY DEF Sized, Box
    <3>2. ASSUME NEW i \in Int, NEW j \in Int
          PROVE  /\ Min({i, j}) \in Int /\ Min({i, j}) <= i /\ Min({i, j}) <= j
                 /\ Max({i, j}) \in Int /\ i <= Max({i, j}) /\ j <= Max({i, j})
      BY <2>1
    <3>3. /\ r.x + r.width \in Int /\ s.x + s.width \in Int
          /\ r.y + r.height \in Int /\ s.y + s.height \in Int
      BY <3>1
    <3> QED
      BY <3>1, <3>2, <3>3
  <2> HIDE DEF x, y, right, low
  <2>7. r.width >= 0 /\ r.height >= 0
    BY DEF Sized
  <2>4. UnionBox(r, s) \in Sized
    <3>1. /\ r.x \in Int /\ r.width \in Int /\ r.width >= 0
          /\ r.y \in Int /\ r.height \in Int /\ r.height >= 0
      BY DEF Sized, Box
    <3>2. right - x \in Int /\ low - y \in Int /\ right - x >= 0 /\ low - y >= 0
      BY <2>3, <3>1
    <3> QED
      BY <2>2, <2>3, <3>2 DEF Sized, Box
  <2>5. Covers(UnionBox(r, s), r)
    BY <2>2, <2>3 DEF Covers, Sized, Box
  <2>6. ASSUME NEW b \in Sized, Covers(s, b) PROVE Covers(UnionBox(r, s), b)
    BY <2>2, <2>3, <2>6 DEF Covers, Sized, Box
  <2> QED
    BY <2>4, <2>5, <2>6
<1> QED
  BY <1>3, <1>4, <1>5

\* The union of some boxes covers each of them, in whatever order it is made.
LEMMA RegionCovers ==
    ASSUME NEW boxes \in SUBSET Sized, IsFiniteSet(boxes)
    PROVE  \A b \in boxes : Covers(FoldSet(UnionBox, NoBox, boxes), b)
<1> DEFINE
      one(s) == CHOOSE x \in s : TRUE
      union[s \in SUBSET boxes] ==
        IF s = {} THEN NoBox ELSE UnionBox(one(s), union[s \ {one(s)}])
      pick == [s \in SUBSET boxes |-> one(s)]
      step == [x \in boxes |-> [v \in Sized |-> UnionBox(x, v)]]
      IsUnion(f) == f = [s \in SUBSET boxes |->
                           IF s = {} THEN NoBox
                           ELSE UnionBox(one(s), f[s \ {one(s)}])]
<1>1. FoldSet(UnionBox, NoBox, boxes) = union[boxes]
  BY Zenon DEF FoldSet, MapThenFoldSet
<1>2. NoBox \in Sized
  BY DEF NoBox, Sized, Box
<1>3. \A s \in SUBSET boxes : s # {} => pick[s] \in s /\ pick[s] = one(s)
  OBVIOUS
<1>4. \A x \in boxes, v \in Sized : step[x][v] \in Sized /\ step[x][v] = UnionBox(x, v)
  BY UnionCovers
<1>5. PICK f \in [SUBSET boxes -> Sized] : IsFold(f, boxes, NoBox, pick, step)
  <2> HIDE DEF pick, step
  <2> QED
    BY <1>2, <1>3, <1>4, FoldsExist
<1>6. IsUnion(f)
  <2>1. ASSUME NEW s \in SUBSET boxes, s # {}
        PROVE  f[s] = UnionBox(one(s), f[s \ {one(s)}])
    <3>1. /\ s \ {one(s)} \in SUBSET boxes /\ one(s) \in boxes
          /\ pick[s] = one(s)
      BY <1>3, <2>1
    <3>2. f[s \ {one(s)}] \in Sized
      BY <3>1
    <3> HIDE DEF pick, step, one
    <3>3. f[s] = step[one(s)][f[s \ {one(s)}]]
      BY <1>5, <2>1, <3>1 DEF IsFold
    <3> QED
      BY <1>4, <3>1, <3>2, <3>3
  <2>2. f[{}] = NoBox
    <3> HIDE DEF pick, step
    <3> QED
      BY <1>5 DEF IsFold
  <2> HIDE DEF one
  <2>3. \A s \in SUBSET boxes :
           f[s] = IF s = {} THEN NoBox ELSE UnionBox(one(s), f[s \ {one(s)}])
    BY <2>1, <2>2
  <2> QED
    BY <2>3
<1>7. IsUnion(union)
  <2>1. \E g : IsUnion(g)
    BY <1>6
  <2>2. union = CHOOSE g : IsUnion(g)
    OBVIOUS
  <2> HIDE DEF union, IsUnion
  <2> QED
    BY <2>1, <2>2
<1> HIDE DEF union, pick, step
<1> DEFINE good == {s \in SUBSET boxes :
                      /\ union[s] \in Sized
                      /\ \A b \in s : Covers(union[s], b)}
<1>8. ASSUME NEW s \in SUBSET boxes, \A t \in SUBSET s : t # s => t \in good
      PROVE  s \in good
  <2>1. CASE s = {}
    BY <1>2, <1>7, <2>1
  <2>2. CASE s # {}
    <3> DEFINE t == s \ {one(s)}
    <3>1. /\ one(s) \in s /\ one(s) \in Sized
          /\ t \in SUBSET s /\ t # s /\ s = t \cup {one(s)}
      BY <2>2
    <3>2. union[t] \in Sized /\ \A b \in t : Covers(union[t], b)
      BY <1>8, <3>1
    <3>3. union[s] = UnionBox(one(s), union[t])
      BY <1>7, <2>2
    <3> HIDE DEF one, t
    <3>4. /\ union[s] \in Sized /\ Covers(union[s], one(s))
          /\ \A b \in t : Covers(union[s], b)
      BY <3>1, <3>2, <3>3, UnionCovers
    <3> QED
      BY <3>1, <3>4
  <2> QED
    BY <2>1, <2>2
<1>9. SUBSET boxes \subseteq good
  <2> HIDE DEF good
  <2> QED
    BY <1>8, SubsetsReached
<1> QED
  BY <1>1, <1>9

SizedOK == \A o \in Range(raster.ops) : o.bounds \in Sized

LEMMA SizedOps ==
    ASSUME LogOK, NEW i \in DOMAIN log, NEW some \in SUBSET DOMAIN log[i].doc
    PROVE  \A o \in OpsOf(log[i], some) : o.bounds \in Sized
<1>1. log[i] \in Publishable
  BY DEF LogOK
<1>2. some \subseteq Address
  BY <1>1, BackendsAssumption DEF IsDocument, IsMap
<1>3. \A x \in Address : BoxOf(log[i].placement, x) \in Sized
  BY <1>1, BackendsAssumption, SizesAssumption DEF Sized
<1> QED
  BY <1>2, <1>3, OpFields DEF OpsOf

LEMMA RenderedSized == LogOK /\ IsRasterRendered => SizedOK
<1> SUFFICES ASSUME LogOK, NEW i \in DOMAIN log,
                    raster.ops = DrawList(OpsOf(log[i], DOMAIN log[i].doc))
             PROVE  SizedOK
  BY DEF IsRasterRendered, AllOps, OpsOf
<1>1. IsDrawn(OpsOf(log[i], DOMAIN log[i].doc))
  BY OpsAreDrawn DEF LogOK
<1> QED
  BY <1>1, DrawnList, SizedOps DEF SizedOK

LEMMA SizedHolds == Spec => []SizedOK
<1>0. LogOK' /\ IsRasterRendered' => SizedOK'
  BY RenderedSized, PTL
<1>1. ASSUME Init PROVE SizedOK
  <2>1. PICK s \in Publishable : log = <<s>>
    BY <1>1 DEF Init
  <2>2. LogOK /\ 1 \in DOMAIN log
    BY <2>1 DEF LogOK
  <2> QED
    BY <1>1, <2>1, <2>2, RenderedSized DEF Init, IsRasterRendered
<1>2. RasterInv /\ LogOK' /\ SizedOK /\ [Next]_vars => SizedOK'
  <2> SUFFICES ASSUME RasterInv, LogOK', SizedOK, [Next]_vars
               PROVE  SizedOK'
    OBVIOUS
  <2>1. CASE raster' = raster
    BY <2>1 DEF SizedOK
  <2>2. ASSUME NEW i \in DOMAIN log, NEW view \in Views \cup {Everywhere},
               RenderRaster(i, view)
        PROVE  SizedOK'
    <3>1. \E k \in DOMAIN log', one \in Views \cup {Everywhere} :
             raster' = [from |-> k, at |-> k, ops |-> AllOps(log'[k]),
                        region |-> NoBox, view |-> one]
      BY <2>2 DEF RenderRaster
    <3>2. IsRasterRendered'
      BY <3>1 DEF IsRasterRendered
    <3> QED
      BY <1>0, <3>2
  <2>3. CASE Repaint
    <3> DEFINE next == raster.at + 1
               some == DOMAIN Told(next) \cap DOMAIN log[next].doc
    <3>1. /\ next \in DOMAIN log
          /\ Range(raster'.ops) =
               {o \in Range(raster.ops) : o.address \notin DOMAIN Told(next)}
                 \cup OpsOf(log[next], some)
      BY <2>3, RepaintDraws DEF Redrawn
    <3>2. some \in SUBSET DOMAIN log[next].doc
      OBVIOUS
    <3> HIDE DEF next, some
    <3>3. \A o \in OpsOf(log[next], some) : o.bounds \in Sized
      BY <3>1, <3>2, SizedOps DEF RasterInv
    <3> QED
      BY <3>1, <3>3 DEF SizedOK
  <2> QED
    BY <2>1, <2>2, <2>3 DEF Next, Publish, RenderSvg, PatchSvg, vars
<1> QED
  BY <1>1, <1>2, LogSafe, RasterInvHolds, PTL DEF Spec

\* A repaint invalidates the box of every operation that left the list and of
\* every one that came (raster.rs, repaint; Rect::union).
THEOREM RegionSafe == Spec => RegionCoversWhatChanged
<1> DEFINE Changed(old, new) == (old \ new) \cup (new \ old)
           Covered == \A o \in Changed(Range(raster.ops), Range(raster'.ops)) :
                         Covers(raster'.region, o.bounds)
           Repainted == raster'.at = raster.at + 1 /\ raster'.from = raster.from
<1>1. ASSUME RasterInv, SizedOK, [Next]_vars, Repainted PROVE Covered
  <2>1. raster.at \in Nat /\ raster.from \in Nat /\ raster.from <= raster.at
    BY <1>1 DEF RasterInv, RasterOK, LogOK
  <2>2. CASE raster' = raster
    BY <1>1, <2>1, <2>2
  <2>3. CASE \E i \in DOMAIN log, view \in Views \cup {Everywhere} :
                RenderRaster(i, view)
    <3>1. raster'.from = raster'.at
      BY <2>3 DEF RenderRaster
    <3> QED
      BY <1>1, <2>1, <3>1
  <2>4. CASE Repaint
    <3> DEFINE next == raster.at + 1
               diffs == Told(next)
               some == DOMAIN diffs \cap DOMAIN log[next].doc
               old == {o \in Range(raster.ops) : o.address \in DOMAIN diffs}
               new == OpsOf(log[next], some)
               boxes == Invalidated(old, new)
    <3>1. /\ next \in DOMAIN log
          /\ Range(raster'.ops) = Redrawn(Range(raster.ops), DOMAIN diffs, log[next])
      BY <1>1, <2>4, RepaintDraws
    <3>2. Changed(Range(raster.ops), Range(raster'.ops)) \subseteq old \cup new
      BY <3>1 DEF Redrawn
    <3>3. raster'.region = FoldSet(UnionBox, NoBox, boxes)
      <4>1. raster = [from |-> raster.from, at |-> raster.at, ops |-> raster.ops,
                      region |-> raster.region, view |-> raster.view]
        BY <1>1 DEF RasterInv, RasterOK
      <4>2. new = {Op(log[next], x) : x \in DOMAIN diffs \cap DOMAIN log[next].doc}
        BY DEF OpsOf
      <4>3. \E at, ops :
              raster' = [raster EXCEPT !.at = at, !.ops = ops,
                                       !.region = FoldSet(UnionBox, NoBox, boxes)]
        BY <2>4, <4>2 DEF Repaint
      <4> QED
        BY <4>1, <4>3
    <3>4. log[next] \in Publishable /\ some \in SUBSET DOMAIN log[next].doc
      BY <1>1, <3>1 DEF RasterInv, LogOK
    <3>5. IsFiniteSet(old \cup new) /\ \A o \in old \cup new : o.bounds \in Sized
      <4>1. IsFiniteSet(old)
        BY <1>1, FS_Subset DEF RasterInv, OpsOK, IsDrawn
      <4>2. IsFiniteSet(new)
        <5> HIDE DEF some, next
        <5> QED
          BY <3>4, OpsAreDrawn DEF IsDrawn
      <4>3. IsFiniteSet(old \cup new)
        BY <4>1, <4>2, FS_Union
      <4>4. \A o \in new : o.bounds \in Sized
        <5> HIDE DEF some, next
        <5> QED
          BY <1>1, <3>1, <3>4, SizedOps DEF RasterInv
      <4>5. \A o \in old : o.bounds \in Sized
        BY <1>1 DEF SizedOK
      <4> QED
        BY <4>3, <4>4, <4>5
    <3> HIDE DEF old, new
    <3>6. boxes \in SUBSET Sized /\ IsFiniteSet(boxes)
      <4> DEFINE bounds == [o \in old \cup new |-> o.bounds]
      <4>1. bounds \in Surjection(old \cup new, boxes)
        BY DEF Surjection, Invalidated
      <4> QED
        BY <3>5, <4>1, FS_Surjection DEF Invalidated
    <3>7. \A b \in boxes : Covers(raster'.region, b)
      <4> HIDE DEF boxes
      <4> QED
        BY <3>3, <3>6, RegionCovers
    <3> QED
      BY <3>2, <3>7 DEF Invalidated
  <2> QED
    BY <1>1, <2>2, <2>3, <2>4 DEF Next, Publish, RenderSvg, PatchSvg, vars
<1>2. RasterInv /\ SizedOK /\ [Next]_vars => [Repainted => Covered]_vars
  BY <1>1
<1>3. [](RasterInv /\ SizedOK) /\ [][Next]_vars => RegionCoversWhatChanged
  BY <1>2, PTL DEF RegionCoversWhatChanged
<1> QED
  BY <1>3, RasterInvHolds, SizedHolds, PTL DEF Spec

-----------------------------------------------------------------------------
\* Both targets stand at a published snapshot, and the draw list holds each
\* record once, in order (raster.rs, render and repaint).
THEOREM TypeCorrect == Spec => []TypeOK
<1> DEFINE SvgType ==
             /\ svg.at \in DOMAIN log /\ svg.from \in 1..svg.at
             /\ IsMap(svg.elements, Address,
                      {svg.elements[x] : x \in DOMAIN svg.elements})
           RasterType ==
             /\ raster.at \in DOMAIN log /\ raster.from \in 1..raster.at
             /\ \A i, j \in DOMAIN raster.ops :
                   i < j => /\ raster.ops[i].address # raster.ops[j].address
                            /\ DrawnBefore(raster.ops[i], raster.ops[j])
<1>1. ASSUME SvgInv PROVE SvgType
  <2>1. log[svg.at] \in Publishable
    BY <1>1 DEF SvgInv, SvgOK, LogOK
  <2>2. DOMAIN svg.elements \subseteq Address
    BY <1>1, <2>1, BackendsAssumption
       DEF SvgInv, ElementsOK, Snapshot, IsDocument, IsMap
  <2>3. svg.elements = [x \in DOMAIN svg.elements |-> svg.elements[x]]
    BY <1>1 DEF SvgInv, SvgOK
  <2>4. svg.elements \in [DOMAIN svg.elements ->
                            {svg.elements[x] : x \in DOMAIN svg.elements}]
    BY <2>3
  <2> QED
    BY <1>1, <2>2, <2>4 DEF SvgInv, SvgOK, IsMap
<1>2. ASSUME RasterInv PROVE RasterType
  <2> DEFINE set == Range(raster.ops)
  <2>1. IsDrawn(set) /\ raster.ops = DrawList(set)
    BY <1>2 DEF RasterInv, OpsOK
  <2> HIDE DEF set
  <2>2. LaysOut(raster.ops, set, DrawOrder(set))
    BY <2>1, DrawListFacts
  <2>3. ASSUME NEW i \in DOMAIN raster.ops, NEW j \in DOMAIN raster.ops, i < j
        PROVE  /\ raster.ops[i].address # raster.ops[j].address
               /\ DrawnBefore(raster.ops[i], raster.ops[j])
    <3>1. /\ raster.ops[i] \in set /\ raster.ops[j] \in set
          /\ DrawnBefore(raster.ops[i], raster.ops[j])
      BY <2>2, <2>3 DEF LaysOut, DrawOrder
    <3>2. raster.ops[i] # raster.ops[j]
      <4>1. DOMAIN raster.ops \subseteq Nat
        BY <2>2 DEF LaysOut
      <4> QED
        BY <2>2, <2>3, <4>1 DEF LaysOut
    <3> QED
      BY <2>1, <3>1, <3>2 DEF IsDrawn
  <2> QED
    BY <1>2, <2>3 DEF RasterInv, RasterOK
<1>3. LogOK /\ SvgType /\ RasterType => TypeOK
  BY DEF TypeOK, LogOK
<1>4. LogOK /\ SvgInv /\ RasterInv => TypeOK
  BY <1>1, <1>2, <1>3
<1> QED
  BY <1>4, LogSafe, SvgInvHolds, RasterInvHolds, PTL
=============================================================================
