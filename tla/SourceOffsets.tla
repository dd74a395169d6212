---------------------------- MODULE SourceOffsets ----------------------------
(***************************************************************************)
(* Offsets into the source of a frontend, which counts bytes, and the same *)
(* offsets as a host counts them whose strings are UTF-16.                 *)
(*                                                                         *)
(* A text is a sequence of characters, and a character is what it takes in *)
(* either encoding: [utf8, utf16].                                         *)
(***************************************************************************)
EXTENDS Integers, SequencesExt, Ordered

Char == [utf8 : 1..4, utf16 : 1..2]

\* How much of an encoding the first characters of a text take.
UpTo(text, count, encoding) ==
    FoldLeft(LAMBDA n, c : n + c[encoding], 0, SubSeq(text, 1, count))

Width(text, encoding) == UpTo(text, Len(text), encoding)

-----------------------------------------------------------------------------
\* Mutant: the walk goes on until it has passed the offset.
WalkPast(text, from, to, offset) ==
    FoldLeft(LAMBDA w, c :
                IF w.at > offset
                THEN w
                ELSE [at |-> w.at + c[from], other |-> w.other + c[to],
                      previous |-> w.at],
             [at |-> 0, other |-> 0, previous |-> 0], text)

\* The walk from the start of a text to the first character that does not
\* begin before the offset, or to the end.
Walk(text, from, to, offset) ==
    FoldLeft(LAMBDA w, c :
                IF w.at >= offset
                THEN w
                ELSE [at |-> w.at + c[from], other |-> w.other + c[to],
                      previous |-> w.at],
             [at |-> 0, other |-> 0, previous |-> 0], text)

\* utf16_offset_of and byte_offset_of: the offset in the other encoding, or a
\* refusal that says where the last character before it begins.
Converted(text, from, to, offset) ==
    LET w == Walk(text, from, to, offset)
    IN  IF w.at = offset
        THEN [ok |-> TRUE, offset |-> w.other]
        ELSE [ok |-> FALSE, offset |-> w.previous]

-----------------------------------------------------------------------------
\* addresses_for_offset: the nodes whose span covers an offset, the narrowest
\* first.
AddressesForOffset(tree, offset) ==
    LET covering == {n \in Range(tree) : n.span[1] <= offset /\ offset < n.span[2]}
        Extent(n) == n.span[2] - n.span[1]
        Before(m, n) == \/ Extent(m) < Extent(n)
                        \/ Extent(m) = Extent(n) /\ m.id < n.id
        sorted == Ordered(covering,
                          {p \in covering \X covering : Before(p[1], p[2])})
    IN  [k \in DOMAIN sorted |-> sorted[k].id]

-----------------------------------------------------------------------------
\* A text is converted to the other encoding and back at the beginning of each
\* character and at its end, and nowhere else: an offset inside a character is
\* refused with the beginning of that character, one past the end with that of
\* the last.
ConvertsWhereCharactersBegin(text, from, to) ==
    LET begins == {UpTo(text, k, from) : k \in 0..Len(text)}
        end    == Width(text, from)
    IN  \A offset \in 0..(end + 2) :
            LET there == Converted(text, from, to, offset)
                back  == Converted(text, to, from, there.offset)
            IN  IF offset \in begins
                THEN there.ok /\ back = [ok |-> TRUE, offset |-> offset]
                ELSE /\ ~ there.ok
                     /\ there.offset =
                          Max({0} \cup {b \in begins \ {end} : b < offset})
=============================================================================
