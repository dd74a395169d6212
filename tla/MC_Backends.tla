----------------------------- MODULE MC_Backends -----------------------------
(* A small instance of Backends: two records that come, go, change in colour,
   in alpha, in text and in width, move with and without a change, and fall on
   one page or two. *)
EXTENDS Backends

Paint(rgb, alpha) == [rgb |-> rgb, alpha |-> alpha]

Blank ==
    [children |-> <<>>, text |-> "", text_map |-> "", font |-> "",
     intrinsic |-> 0, lines |-> 0, paint |-> Paint("black", 255), resources |-> <<>>,
     fragments |-> <<0>>, interaction |-> "", source_link |-> "",
     valid |-> TRUE]

Red == [Blank EXCEPT !.paint = Paint("red", 255)]
Faded == [Blank EXCEPT !.paint = Paint("red", 128)]
Words == [Blank EXCEPT !.text = "words"]
WideRed == [Red EXCEPT !.intrinsic = 5]
MCAddress == {1, 2}

BoxAt(x, y, width, height) ==
    [x |-> x, y |-> y, width |-> width, height |-> height]
RowBox(x, width) == BoxAt(x, 0, width, 4)

\* Two boxes side by side; the same, the second address boxed twice; both
\* moved by translations that swap them; and one below the other, the first
\* across the page break and the second on the page below.
Side == PushBox(PushBox(EmptyPlacement, 1, RowBox(0, 4)), 2, RowBox(4, 4))
Twice == PushBox(Side, 2, RowBox(20, 4))
Swapped ==
    [Twice EXCEPT
       !.translations = <<[covers |-> {1, 2}, dx |-> 1, dy |-> 2],
                          [covers |-> {1}, dx |-> 9, dy |-> 3]>>]
Upper == BoxAt(0, 2, 4, 4)
Lower == BoxAt(0, 4, 4, 4)
Flow == PushBox(PushBox(EmptyPlacement, 1, Upper), 2, Lower)

\* A node on the pages its box falls on.
On(node, box) ==
    [node EXCEPT !.fragments = SetToSortSeq(FragmentsOf(box), <)]
Header == On(Words, Upper)
Second == On(Red, Lower)
MCNode == {Blank, Red, Faded, Words, WideRed, Header, Second}

Only(x, node) == [y \in {x} |-> node]
Both(one, two) == [x \in {1, 2} |-> IF x = 1 THEN one ELSE two]

MCPublishable ==
    {[doc |-> Only(1, Red), placement |-> Side],
     [doc |-> Both(Blank, Red), placement |-> Side],
     [doc |-> Both(Blank, Faded), placement |-> Swapped],
     [doc |-> Both(Blank, WideRed), placement |-> Twice],
     [doc |-> Both(Header, Second), placement |-> Flow],
     [doc |-> Only(2, Blank), placement |-> EmptyPlacement]}

MCWindows ==
    {BoxAt(x, y, width, height) :
        x \in {0, 2, 3, 4}, y \in {0, 3, 4, 5}, width \in {0, 1, 3}, height \in {0, 1, 4, 5}}

MCViews == {BoxAt(3, 0, 3, 4)}
=============================================================================
