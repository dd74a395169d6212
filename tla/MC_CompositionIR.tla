-------------------------- MODULE MC_CompositionIR --------------------------
(* A small instance of CompositionIR: a three-level document, two builders. *)
EXTENDS CompositionIRLaws, TLC

CONSTANTS a1, a2, a3, f1, b1, b2, r1, m1

Blank ==
    [children |-> <<>>, text |-> "", text_map |-> "", font |-> "",
     intrinsic |-> 0, lines |-> 0, paint |-> "black", resources |-> <<>>,
     fragments |-> <<>>, interaction |-> "", source_link |-> "",
     valid |-> TRUE]

\* Leaves that draw with one resource, as an image or as a gradient.
Drawn(role) ==
    [Blank EXCEPT !.resources = <<[role |-> role, address |-> a2]>>]
Leaf == Drawn("Image")
Recast == Drawn("Gradient")
Edited == [Blank EXCEPT !.text = "edited"]
OverA2 == [Blank EXCEPT !.children = <<a2>>]
OverA3 == [Blank EXCEPT !.children = <<a3>>]
OverBoth == [Blank EXCEPT !.children = <<a3, f1>>]

MCAddress == {a1, a2, a3, f1}
MCForeign == {f1}
MCNode == {Leaf, Recast, Edited, OverA2, OverA3, OverBoth}
MCPrecedes ==
    {<<a1, a2>>, <<a1, a3>>, <<a1, f1>>, <<a2, a3>>, <<a2, f1>>, <<a3, f1>>}
Chain ==
    <<[address |-> a1, node |-> OverA2], [address |-> a2, node |-> OverA3],
      [address |-> a3, node |-> Leaf]>>

\* A child under two parents.
Shared ==
    <<[address |-> a3, node |-> Leaf], [address |-> a1, node |-> OverA3],
      [address |-> a2, node |-> OverA3]>>

MCOpening ==
    {[revision |-> 1, puts |-> Chain], [revision |-> 2, puts |-> Shared],
     [revision |-> 1, puts |-> <<>>]}
MCBuilder == {b1, b2}
MCRect == {r1}
MCMove == {m1}
Interchangeable == Permutations(MCBuilder)
=============================================================================
