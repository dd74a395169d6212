-------------------------- MODULE CompositionIRLaws --------------------------
(***************************************************************************)
(* What a delta promises, stated over every commit of CompositionIR        *)
(* against two reference readings of the membership law: the unfolded      *)
(* subtrees of ProjectionReference, and the recursive walk of the source,  *)
(* with its order, its short circuits and the reads that assert.           *)
(***************************************************************************)
EXTENDS CompositionIR, ProjectionReference, FiniteSetsExt

\* subtree_eq: what a call from each address answers, given what the calls it
\* makes answer; the first child that does not compare equal decides.
Answers(before, after, told) ==
    [x \in Address |->
        IF x \in Foreign
        THEN "panic"
        ELSE IF x \notin DOMAIN before \cup DOMAIN after
        THEN "equal"
        ELSE IF \/ x \notin DOMAIN before \cap DOMAIN after
                \/ ~ OwnEq(before[x], after[x])
        THEN "differs"
        ELSE LET children == before[x].children
                 stops == {i \in DOMAIN children : told[children[i]] # "equal"}
             IN  IF stops = {} THEN "equal" ELSE told[children[Min(stops)]]]

\* The same with a stack of every height, of which the first has no room for
\* a call.
Walks(before, after) ==
    LET walk[room \in 0..(Cardinality(Address) + 1)] ==
            IF room = 0
            THEN [x \in Address |-> "overflow"]
            ELSE Answers(before, after, walk[room - 1])
    IN  walk

\* A walk that comes to no address twice has room.
Walk(before, after) == Walks(before, after)[Cardinality(Address) + 1]

-----------------------------------------------------------------------------
\* The membership law (delta.rs, diffs_between): an address is in a delta iff
\* its unfolded subtree differs; its parts are those of its own projection
\* that differ in the after state, and Descendant iff a child's subtree does.
MembershipLaw ==
    \A k \in DOMAIN commits :
        LET c == commits[k]
            old == DocOf(c.base)
            new == DocOf(c.result)
            diffs == c.delta.diffs
            was == Whole(old)
            is == Whole(new)
        IN  /\ \A x \in Address : x \in DOMAIN diffs <=> was[x] # is[x]
            /\ \A x \in DOMAIN diffs : \A p \in OwnParts :
                  p \in diffs[x] <=>
                    /\ x \in DOMAIN new
                    /\ x \in DOMAIN old => Proj(old[x])[p] # Proj(new[x])[p]
            /\ \A x \in DOMAIN diffs :
                  "Descendant" \in diffs[x] <=>
                    /\ x \in DOMAIN new
                    /\ \E y \in Children(old, x) \cup Children(new, x) :
                          was[y] # is[y]

\* The closed-set form of subtree equality is what the recursive walk of the
\* source answers, wherever it answers; it overflows only where WalkDiverges
\* says so, it panics only where WalkReadsForeign does, and where either does,
\* some walk that the commit starts fails (delta.rs, subtree_eq), on every
\* candidate a builder can reach.
SubtreeEqIsTheWalk ==
    \A b \in DOMAIN builders :
        LET before == Before(b)
            after == After(b)
            starts == (DOMAIN before \cup DOMAIN after) \ Foreign
            answer == Walk(before, after)
            Some(failure) == \E x \in starts : answer[x] = failure
        IN  /\ Some("overflow") => WalkDiverges(before, after)
            /\ Some("panic") => WalkReadsForeign(before, after)
            /\ WalkDiverges(before, after) \/ WalkReadsForeign(before, after)
                  => Some("overflow") \/ Some("panic")
            /\ \A x \in starts :
                  answer[x] \in {"equal", "differs"} =>
                    (SubtreeEq(before, after, x) <=> answer[x] = "equal")

\* A commit that gives back its base had a candidate without a difference from
\* it for the reference of the tests, which compares whole records
\* (tests/gates.rs, reference: "The emitter must agree with it exactly").
NoOpIsNoDifference ==
    [][\A b \in DOMAIN builders :
          (b \notin DOMAIN builders' /\ commits' # commits /\ published' = published)
          => After(b) = Before(b)]_vars
=============================================================================
