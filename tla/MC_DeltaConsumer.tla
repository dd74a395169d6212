-------------------------- MODULE MC_DeltaConsumer --------------------------
(* A small instance of DeltaConsumer: a parent, its child, and every way the
   two come, go and change over a handful of commits and two domains. *)
EXTENDS DeltaConsumer

CONSTANTS a1, a2

Blank ==
    [children |-> <<>>, text |-> "", text_map |-> "", font |-> "",
     intrinsic |-> 0, lines |-> 0, paint |-> "black", resources |-> <<>>,
     fragments |-> <<>>, interaction |-> "", source_link |-> "",
     valid |-> TRUE]

Parent == [Blank EXCEPT !.children = <<a2>>]
Red == [Blank EXCEPT !.paint = "red"]
RedWords == [Blank EXCEPT !.paint = "red", !.text = "words"]

MCAddress == {a1, a2}
MCNode == {Blank, Parent, Red, RedWords}
Only(node) == [x \in {a1} |-> node]
Both(parent, child) == [x \in {a1, a2} |-> IF x = a1 THEN parent ELSE child]
MCPublishable ==
    {Only(Parent), Both(Parent, Red), Both(Parent, RedWords), Both(Blank, Red)}
=============================================================================
