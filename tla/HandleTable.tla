----------------------------- MODULE HandleTable -----------------------------
(***************************************************************************)
(* What the C boundary promises of its snapshot handles.  A producer has a *)
(* current snapshot, which it replaces at will.  A handle is a pointer the *)
(* host owns: it shows one snapshot from the moment it is given out to the *)
(* moment it is released, and nothing anybody does in between changes what *)
(* it shows.                                                               *)
(***************************************************************************)
EXTENDS Naturals, Functions

CONSTANT Handle

VARIABLES
    current,   \* what the producer's snapshot shows
    table      \* a partial function from the open handles to what they show

vars == <<current, table>>

Publish == UNCHANGED table

\* The handle was closed, and is the only one whose entry is new.
Enter(h, shown) ==
    /\ h \in Handle \ DOMAIN table
    /\ table' = [g \in DOMAIN table \cup {h} |->
                    IF g = h THEN shown ELSE table[g]]
    /\ UNCHANGED current

Hand(h) == Enter(h, current)

Retain(g, h) == g \in DOMAIN table /\ Enter(h, table[g])

Release(h) ==
    /\ h \in DOMAIN table
    /\ table' = Restrict(table, DOMAIN table \ {h})
    /\ UNCHANGED current

Init == DOMAIN table = {}

Next ==
    \/ Publish
    \/ \E h \in Handle : Hand(h) \/ Release(h)
    \/ \E g, h \in Handle : Retain(g, h)

Spec == Init /\ [][Next]_vars
=============================================================================
