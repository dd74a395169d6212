--------------------------- MODULE PlacementQuery ---------------------------
(***************************************************************************)
(* Where a record is drawn: a query over the boxes and the translations a  *)
(* snapshot carries.  Coordinates are integers; their width is left out,   *)
(* since nothing here depends on it.                                       *)
(***************************************************************************)
EXTENDS Integers, Sequences, FiniteSetsExt, SequencesExt

NoBox == [x |-> 0, y |-> 0, width |-> 0, height |-> 0]

EmptyPlacement == [boxes |-> <<>>, translations |-> <<>>]

\* Placement::push: a second box for an address is shadowed by the first.
PushBox(placement, a, box) ==
    [placement EXCEPT !.boxes = Append(@, [address |-> a, box |-> box])]

\* Where the boxes pushed for an address are.
BoxesOf(placement, a) ==
    {k \in DOMAIN placement.boxes : placement.boxes[k].address = a}

\* Every translation that covers the address, in order.
Moved(placement, a, box) ==
    FoldLeft(LAMBDA r, move :
                IF a \in move.covers
                THEN [r EXCEPT !.x = @ + move.dx, !.y = @ + move.dy]
                ELSE r,
             box, placement.translations)

\* Placement::rect, and what a backend makes of no answer.
BoxOf(placement, a) ==
    LET pushed == BoxesOf(placement, a)
    IN  IF pushed = {}
        THEN NoBox
        ELSE Moved(placement, a, placement.boxes[Min(pushed)].box)

\* Rect::union: the box without a place or a size is neutral.
UnionBox(r, s) ==
    IF r = NoBox THEN s
    ELSE IF s = NoBox THEN r
    ELSE LET x == Min({r.x, s.x})
             y == Min({r.y, s.y})
         IN  [x      |-> x,
              y      |-> y,
              width  |-> Max({r.x + r.width, s.x + s.width}) - x,
              height |-> Max({r.y + r.height, s.y + s.height}) - y]

Covers(region, box) ==
    \/ box = NoBox
    \/ /\ region.x <= box.x /\ region.y <= box.y
       /\ box.x + box.width <= region.x + region.width
       /\ box.y + box.height <= region.y + region.height
=============================================================================
