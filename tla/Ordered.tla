------------------------------- MODULE Ordered -------------------------------
(***************************************************************************)
(* Sets laid out in order, in a form that can be reasoned about: what is   *)
(* sorted, or kept in its order, is described by how many members come     *)
(* before each.                                                            *)
(***************************************************************************)
EXTENDS Naturals, Sequences, FiniteSets

\* The members of a finite set in an order given by its pairs: each comes
\* after as many as are before it.
Ordered(set, before) ==
    [k \in 1..Cardinality(set) |->
        CHOOSE x \in set :
            Cardinality({y \in set : <<y, x>> \in before}) = k - 1]

\* Some numbers, smallest first.
Increasing(set) == Ordered(set, {pair \in set \X set : pair[1] < pair[2]})

\* The elements of s at some of its places, in the order of s.
At(s, places) ==
    LET place == Increasing(places)
    IN  [k \in DOMAIN place |-> s[place[k]]]
=============================================================================
