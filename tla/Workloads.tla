------------------------------ MODULE Workloads ------------------------------
(***************************************************************************)
(* The queries the proof-of-concept workloads put to a snapshot: what is   *)
(* at a point, what is in a viewport, what is on a page.  All of them are  *)
(* computed from one snapshot, [doc, placement], by going through its live *)
(* addresses; lists are sorted by address, which is left out.              *)
(***************************************************************************)
EXTENDS Projection, PlacementQuery

CONSTANT
    PageHeight        \* where the page break falls

-----------------------------------------------------------------------------
\* Mutant: the far edges belong to the box.
InBoxClosed(r, p) ==
    /\ r.x <= p.x /\ p.x <= r.x + r.width
    /\ r.y <= p.y /\ p.y <= r.y + r.height

InBox(r, p) ==
    /\ r.x <= p.x /\ p.x < r.x + r.width
    /\ r.y <= p.y /\ p.y < r.y + r.height

\* Mutant: boxes that touch intersect.
Touches(a, b) ==
    /\ a.x <= b.x + b.width /\ b.x <= a.x + a.width
    /\ a.y <= b.y + b.height /\ b.y <= a.y + a.height

Intersects(a, b) ==
    /\ a.x < b.x + b.width /\ b.x < a.x + a.width
    /\ a.y < b.y + b.height /\ b.y < a.y + a.height

\* The live addresses Placement::rect has an answer for.
BoxedIn(s) == {x \in DOMAIN s.doc : BoxesOf(s.placement, x) # {}}

AddressesAt(s, p) == {x \in BoxedIn(s) : InBox(BoxOf(s.placement, x), p)}

VisibleSet(s, view) ==
    {x \in BoxedIn(s) : Intersects(BoxOf(s.placement, x), view)}

OnFragment(s, f) == {x \in DOMAIN s.doc : f \in Range(s.doc[x].fragments)}

-----------------------------------------------------------------------------
\* Division as the source does it, towards zero.
Quotient(n, d) == IF n >= 0 THEN n \div d ELSE - ((- n) \div d)

\* Mutant: the row below a box counts as its last.
FragmentsToNextRow(box) ==
    Quotient(box.y, PageHeight)..Quotient(box.y + box.height, PageHeight)

\* The pages a box is laid out on.
FragmentsOf(box) ==
    Quotient(box.y, PageHeight)..Quotient(box.y + box.height - 1, PageHeight)

\* A page of a flowing document, as a rectangle.
Band(f, width) ==
    [x |-> 0, y |-> f * PageHeight, width |-> width, height |-> PageHeight]

-----------------------------------------------------------------------------
ASSUME WorkloadsAssumption == PageHeight \in Nat \ {0}

Box == [x : Int, y : Int, width : Int, height : Int]

\* The points of a rectangle.
Points(r) == (r.x..(r.x + r.width - 1)) \X (r.y..(r.y + r.height - 1))

Solid(box) == box.width > 0 /\ box.height > 0

\* The records of a snapshot whose box has a point in it.
Drawn(s) == {x \in BoxedIn(s) : Solid(BoxOf(s.placement, x))}

\* What is in a viewport is what some point of it hits.  Boxes without a width
\* or a height are left out: one inside the other, they intersect and no point
\* is in them.
HitWhereVisible(s, view) ==
    VisibleSet(s, view) \cap Drawn(s) =
        {x \in Drawn(s) : \E p \in Points(view) :
            x \in AddressesAt(s, [x |-> p[1], y |-> p[2]])}

\* A page, and the band of the document it is laid out as, hold the same of
\* the records that list the pages their boxes fall on.
PageIsBand(s, f, width) ==
    \A x \in Drawn(s) :
        LET box == BoxOf(s.placement, x)
        IN  /\ box.x >= 0 /\ box.y >= 0 /\ box.x < width
            /\ Range(s.doc[x].fragments) = FragmentsOf(box)
            => (x \in VisibleSet(s, Band(f, width)) <=> x \in OnFragment(s, f))
=============================================================================
