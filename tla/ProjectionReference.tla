------------------------- MODULE ProjectionReference -------------------------
(***************************************************************************)
(* A reference reading of the membership law: what a record's whole        *)
(* subtree is worth when it is unfolded.                                   *)
(***************************************************************************)
EXTENDS Projection, FiniteSets

\* An address is a few machine words.
ASSUME AddressAssumption == IsFiniteSet(Address)

\* Subtrees as nested values, empty where the address is not live: the
\* record's projection, and below it what its children are worth.
Unfolded(doc, below) ==
    [x \in Address |->
        {[own      |-> Proj(doc[y]),
          children |-> [i \in DOMAIN doc[y].children |->
                          below[doc[y].children[i]]]] :
            y \in {x} \cap DOMAIN doc}]

\* The same to every depth, of which the first knows nothing.
Unfoldings(doc) ==
    LET unfold[depth \in 0..Cardinality(Address)] ==
            IF depth = 0
            THEN [x \in Address |-> {}]
            ELSE Unfolded(doc, unfold[depth - 1])
    IN  unfold

\* Two documents that agree on it to the number of addresses agree on it to
\* any depth.
Whole(doc) == Unfoldings(doc)[Cardinality(Address)]
=============================================================================
