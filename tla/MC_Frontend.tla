----------------------------- MODULE MC_Frontend -----------------------------
(* A small instance of Frontend: sources of up to two lines, and some of
   three, with characters of every width. *)
EXTENDS Frontend

Ascii == [utf8 |-> 1, utf16 |-> 1]
Accented == [utf8 |-> 2, utf16 |-> 1]
Han == [utf8 |-> 3, utf16 |-> 1]
Emoji == [utf8 |-> 4, utf16 |-> 2]

MCCharsOf(line) ==
    CASE line.text = "one"      -> <<Ascii, Ascii, Emoji>>
      [] line.text = "two"      -> <<Han, Accented>>
      [] line.text = "two more" -> <<Han, Accented, Ascii, Emoji>>
      [] line.text = "space"    -> <<Han>>

LineOf(kind, text, width) ==
    [kind |-> kind, text |-> text, width |-> width, reference |-> ""]

Heading == LineOf("Heading", "one", 6)
Para == LineOf("Para", "two", 5)
Edit == LineOf("Para", "two more", 10)

MCLine == {Heading, Para, Edit}
MCBlank == LineOf("Blank", "space", 3)
MCSources ==
    BoundedSeq(MCLine \cup {MCBlank}, 2)
        \cup {<<Heading, MCBlank, Edit>>, <<Edit, Para, MCBlank>>}
MCInk(kind) == kind
MCAddress == 1..4
MCNode == {Project([id |-> x, line |-> l]) : x \in MCAddress, l \in MCLine}
=============================================================================
