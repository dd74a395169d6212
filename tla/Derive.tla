------------------------------- MODULE Derive -------------------------------
(***************************************************************************)
(* Memoized computations that record what they read, and their             *)
(* invalidation by the deltas of one lineage.                              *)
(*                                                                         *)
(* A recipe is a pure reader: what it observes, and the value it computes, *)
(* are functions of the document it runs on.  The host publishes           *)
(* snapshots, tells the engine of each commit in order, and asks for cells *)
(* when it likes, on any snapshot it has at hand: one whose commit the     *)
(* engine has not been told of yet, or one whose successors it has.        *)
(***************************************************************************)
EXTENDS Projection

CONSTANTS
    Publishable,        \* the documents the lineage may go through
    Key,                \* names of cells
    Recipe,             \* the computations that may be defined
    Observations(_, _), \* what a recipe observes on a document: a set of Obs
    Value(_, _),        \* what it computes there
    MaxLog              \* bound: snapshots published

VARIABLES
    log,                \* Seq of the documents published
    told,               \* the newest snapshot whose commit was told
    recipes,            \* map from key to recipe
    cells               \* map from key to [value, receipt, recipe, from, late]:
                        \* recipe and from say what it was computed by and on,
                        \* late that the engine had been told of a later one

vars == <<log, told, recipes, cells>>

-----------------------------------------------------------------------------
Read(x, p) == [kind |-> "Read", address |-> x, part |-> p]
Liveness(x, was_absent) ==
    [kind |-> "Liveness", address |-> x, was_absent |-> was_absent]

Obs == {Read(x, p) : x \in Address, p \in Parts}
       \cup {Liveness(x, w) : x \in Address, w \in BOOLEAN}

\* An observation has the same answer on both documents.  The answer to a read
\* of Descendant is whether the record is live and what its children are worth;
\* which they are is Structure.
SameAnswer(o, before, after) ==
    LET x == o.address
    IN  IF o.kind = "Read"
        THEN \/ x \notin DOMAIN before \cup DOMAIN after
             \/ /\ x \in DOMAIN before \cap DOMAIN after
                /\ o.part \in OwnParts => PartEq(before[x], after[x], o.part)
                /\ o.part = "Descendant" => ~ DescendantDiffers(before, after, x)
        ELSE x \in DOMAIN before <=> x \in DOMAIN after

\* Recipes are deterministic readers: a document that answers every recorded
\* observation alike is one on which the same is observed and computed.
ASSUME RecipeAssumption ==
    /\ \A doc \in Publishable : IsDocument(doc)
    /\ \A r \in Recipe, doc \in Publishable :
          /\ Observations(r, doc) \subseteq Obs
          /\ \A x \in Address, w \in BOOLEAN :
                Liveness(x, w) \in Observations(r, doc)
                => w = (x \notin DOMAIN doc)
    /\ \A r \in Recipe, before, after \in Publishable :
          (\A o \in Observations(r, before) : SameAnswer(o, before, after))
          => /\ Observations(r, before) = Observations(r, after)
             /\ Value(r, before) = Value(r, after)

-----------------------------------------------------------------------------
\* Mutant: any entry that names the address disturbs a read of it.
DisturbedByAddress(o, diffs, after) ==
    IF o.kind = "Read"
    THEN o.address \in DOMAIN diffs
    ELSE (o.address \notin DOMAIN after) # o.was_absent

\* Mutant: a conclusion drawn from presence is never taken to be stale.
DisturbedByAppearance(o, diffs, after) ==
    IF o.kind = "Read"
    THEN o.address \in DOMAIN diffs /\ o.part \in diffs[o.address]
    ELSE o.was_absent /\ o.address \in DOMAIN after

\* A delta disturbs an observation: it names the part read, or the address
\* is now live where it was absent, or absent where it was live.
Disturbed(o, diffs, after) ==
    IF o.kind = "Read"
    THEN o.address \in DOMAIN diffs /\ o.part \in diffs[o.address]
    ELSE (o.address \notin DOMAIN after) # o.was_absent

\* Receipt::survives
Survives(receipt, diffs, after) ==
    ~ \E o \in receipt : Disturbed(o, diffs, after)

-----------------------------------------------------------------------------
Init ==
    /\ log \in {<<doc>> : doc \in Publishable}
    /\ told = 1
    /\ recipes = [k \in {} |-> {}]
    /\ cells = [k \in {} |-> {}]

Publish(doc) ==
    /\ Len(log) < MaxLog
    /\ log' = Append(log, doc)
    /\ UNCHANGED <<told, recipes, cells>>

\* Engine::define: a cell already cached under the key is left as it is.
Define(k, r) ==
    /\ recipes' = With(recipes, k, r)
    /\ UNCHANGED <<log, told, cells>>

\* Mutant: the value is kept without what the reader recorded.
ComputedUnrecorded(r, i) ==
    [value |-> Value(r, log[i]), receipt |-> {},
     recipe |-> r, from |-> i, late |-> i < told]

\* Engine::recompute: the receipt is what the recipe reads as it runs.
Computed(r, i) ==
    [value |-> Value(r, log[i]), receipt |-> Observations(r, log[i]),
     recipe |-> r, from |-> i, late |-> i < told]

\* Engine::get on any snapshot.  A cached cell answers without running anything.
Get(k, i) ==
    /\ k \in DOMAIN recipes
    /\ i \in DOMAIN log
    /\ cells' = IF k \in DOMAIN cells
                THEN cells
                ELSE With(cells, k, Computed(recipes[k], i))
    /\ UNCHANGED <<log, told, recipes>>

\* Engine::invalidate with the next commit of the lineage.
Invalidate ==
    /\ told < Len(log)
    /\ told' = told + 1
    /\ LET diffs == DiffsBetween(log[told], log[told + 1])
       IN  cells' = RestrictValues(cells,
                      LAMBDA c : Survives(c.receipt, diffs, log[told + 1]))
    /\ UNCHANGED <<log, recipes>>

Next ==
    \/ \E doc \in Publishable : Publish(doc)
    \/ \E k \in Key, r \in Recipe : Define(k, r)
    \/ \E k \in Key, i \in DOMAIN log : Get(k, i)
    \/ Invalidate

Spec == Init /\ [][Next]_vars

-----------------------------------------------------------------------------
\* Every cell was computed by a recipe on a snapshot of the lineage, and its
\* receipt is all that the recipe observed there (derive.rs, recompute).
TypeOK ==
    /\ log \in Seq(Publishable)
    /\ told \in DOMAIN log
    /\ IsMap(recipes, Key, Recipe)
    /\ DOMAIN cells \subseteq DOMAIN recipes
    /\ \A k \in DOMAIN cells :
          /\ cells[k].recipe \in Recipe
          /\ cells[k].from \in DOMAIN log
          /\ cells[k].late \in BOOLEAN
          /\ cells[k].value = Value(cells[k].recipe, log[cells[k].from])
          /\ cells[k].receipt =
               Observations(cells[k].recipe, log[cells[k].from])

\* The snapshot a cell must be right about: the newest the engine was told of,
\* or the one it was computed on when that is newer.
Due(c) == IF c.from < told THEN told ELSE c.from

Fresh(c) == c.value = Value(c.recipe, log[Due(c)])

\* The cell read a record that has since been retired, without asking whether
\* it was live: its entry in the delta has no parts, so the read survives.
LostRead(c) ==
    \E o \in c.receipt :
        /\ o.kind = "Read"
        /\ o.address \in DOMAIN log[c.from] \ DOMAIN log[Due(c)]
        /\ Liveness(o.address, FALSE) \notin c.receipt

\* On the way to the snapshot it is due to be right about, a record was created,
\* retired, or given other children.
Moved(c, x) ==
    \E i \in c.from..Due(c) :
        \/ (x \in DOMAIN log[i]) # (x \in DOMAIN log[c.from])
        \/ Children(log[i], x) # Children(log[c.from], x)

\* The cell read what is below a record, but not which its children are, and the
\* record was moved: a record created as a leaf, or over children that stay as
\* they are, is named without Descendant, and so is one that takes in a child
\* after it was edited.
LostBelow(c) ==
    \E o \in c.receipt :
        /\ o.kind = "Read" /\ o.part = "Descendant"
        /\ Read(o.address, "Structure") \notin c.receipt
        /\ Moved(c, o.address)

\* No false negatives (derivation.md 4), as far as the code keeps it: after
\* any commits, told in any interleaving with reads of newer snapshots, every
\* cell still cached has the value its recipe computes afresh, unless it was
\* computed on a snapshot whose successor had been told, or read, unprobed, a
\* record that was retired, or read below a record that moved.
NoFalseNegatives ==
    \A k \in DOMAIN cells :
        LET c == cells[k]
        IN  c.late \/ LostRead(c) \/ LostBelow(c) \/ Fresh(c)

\* The law as derivation.md 4 states it, without the exceptions.
EveryLiveCellIsFresh ==
    \A k \in DOMAIN cells :
        recipes[k] = cells[k].recipe /\ ~ cells[k].late => Fresh(cells[k])

\* A cell is dropped only when some answer it recorded has changed, from the
\* commit before or from where it was computed (derivation.md 5: a paint
\* change leaves the cells that read measurements).
DropsOnlyTheDisturbed ==
    [][\A k \in DOMAIN cells :
          k \notin DOMAIN cells' =>
             \E o \in cells[k].receipt :
                \/ ~ SameAnswer(o, log[told], log[told'])
                \/ ~ SameAnswer(o, log[cells[k].from], log[told'])]_vars
=============================================================================
