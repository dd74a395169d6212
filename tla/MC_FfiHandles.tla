---------------------------- MODULE MC_FfiHandles ----------------------------
(* A small instance of FfiHandles: a parent and a leaf, each with two
   values, over three revisions. *)
EXTENDS FfiHandles, TLC

Blank ==
    [children |-> <<>>, text |-> "", text_map |-> "", font |-> "",
     intrinsic |-> 0, lines |-> 0, paint |-> "black", resources |-> <<>>,
     fragments |-> <<>>, interaction |-> "", source_link |-> "",
     valid |-> TRUE]

Parent == [Blank EXCEPT !.children = <<2>>]
Words == [Blank EXCEPT !.text = "words"]

MCAddress == {1, 2}
MCNode == {Blank, Parent, Words}
MCWrites == {<<1, Parent>>, <<2, Blank>>, <<2, Words>>}

Symmetry ==
    Permutations(Record) \cup Permutations(Cell) \cup Permutations(Handle)
=============================================================================
