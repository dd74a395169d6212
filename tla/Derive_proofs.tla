--------------------------- MODULE Derive_proofs ---------------------------
(***************************************************************************)
(* A cell that survived has the value its recipe would compute now, unless *)
(* it read a record that was retired without asking whether it was live,   *)
(* or below one that moved without asking what its children are; and a     *)
(* cell that was dropped had an answer that changed.                       *)
(***************************************************************************)
EXTENDS Derive, Projection_proofs

\* An observation is a read of a part, or a question of liveness.
LEMMA ObsForms ==
    ASSUME NEW o \in Obs
    PROVE  /\ o.address \in Address
           /\ o.kind = "Read" =>
                /\ o.part \in OwnParts \/ o.part = "Descendant"
                /\ o = Read(o.address, o.part)
           /\ o.kind # "Read" =>
                /\ o.was_absent \in BOOLEAN
                /\ o = Liveness(o.address, o.was_absent)
<1>1. CASE o \in {Read(x, p) : x \in Address, p \in Parts}
  BY <1>1 DEF Read, Parts
<1>2. CASE o \in {Liveness(x, w) : x \in Address, w \in BOOLEAN}
  BY <1>2 DEF Liveness
<1> QED
  BY <1>1, <1>2 DEF Obs

LEMMA SameAnswerReflexive ==
    ASSUME NEW o, NEW doc, IsDocument(doc) PROVE SameAnswer(o, doc, doc)
<1>1. \A x : Children(doc, x) \subseteq Address
  BY ChildrenAreAddresses
<1>2. \A x : ~ DescendantDiffers(doc, doc, x)
  BY <1>1, SubtreeEqReflexive DEF DescendantDiffers
<1> QED
  BY <1>2 DEF SameAnswer, PartEq

-----------------------------------------------------------------------------
\* What a receipt records of a record itself is answered as on the document it
\* was taken on, or is a read of a record that has since been retired.
OwnAnswered(c) ==
    \A o \in c.receipt :
        \/ o.kind = "Read" /\ o.part = "Descendant"
        \/ SameAnswer(o, log[c.from], log[Due(c)])
        \/ /\ o.kind = "Read"
           /\ o.address \in DOMAIN log[c.from] \ DOMAIN log[Due(c)]

\* A record whose children were read has kept them all the way, or is retired.
ChildrenKept(c) ==
    \A o \in c.receipt :
        o.kind = "Read" /\ o.part = "Structure" /\ Moved(c, o.address)
        => o.address \in DOMAIN log[c.from] \ DOMAIN log[Due(c)]

\* What is below a record that was read so, and did not move, is the same.
BelowKept(c) ==
    \A o \in c.receipt :
        o.kind = "Read" /\ o.part = "Descendant" /\ ~ Moved(c, o.address)
        => SameAnswer(o, log[c.from], log[Due(c)])

Answered(c) ==
    c.late \/ (OwnAnswered(c) /\ ChildrenKept(c) /\ BelowKept(c))

\* Freshness is not inductive: what carries over a commit is that each
\* recorded observation keeps its answer.
Inv ==
    /\ TypeOK
    /\ \A k \in DOMAIN cells : Answered(cells[k])

LEMMA LogFacts ==
    ASSUME TypeOK
    PROVE  /\ Len(log) \in Nat
           /\ DOMAIN log = 1..Len(log)
           /\ told \in 1..Len(log)
           /\ \A i \in DOMAIN log : log[i] \in Publishable
<1>1. log \in Seq(Publishable) /\ told \in DOMAIN log
  BY DEF TypeOK
<1> QED
  BY <1>1

\* The snapshot a cell is due to be right about is one of the log.
LEMMA DueInLog ==
    ASSUME TypeOK, NEW k \in DOMAIN cells
    PROVE  /\ cells[k].from \in DOMAIN log
           /\ Due(cells[k]) \in DOMAIN log
  BY DEF TypeOK, Due

\* A receipt is a set of observations, and records liveness as it was.
LEMMA ReceiptFacts ==
    ASSUME TypeOK, NEW k \in DOMAIN cells, NEW o \in cells[k].receipt
    PROVE  /\ o \in Obs
           /\ o.kind # "Read" =>
                (o.was_absent <=> o.address \notin DOMAIN log[cells[k].from])
<1> DEFINE c == cells[k]
<1>1. /\ c.recipe \in Recipe
      /\ c.from \in DOMAIN log
      /\ o \in Observations(c.recipe, log[c.from])
  BY DEF TypeOK
<1>2. log[c.from] \in Publishable
  BY <1>1, LogFacts
<1>3. o \in Obs
  BY <1>1, <1>2, RecipeAssumption
<1>4. ASSUME o.kind # "Read"
      PROVE  o.was_absent <=> o.address \notin DOMAIN log[c.from]
  <2>1. /\ o.address \in Address
        /\ o.was_absent \in BOOLEAN
        /\ Liveness(o.address, o.was_absent) \in Observations(c.recipe, log[c.from])
    BY <1>1, <1>3, <1>4, ObsForms
  <2>2. o.was_absent = (o.address \notin DOMAIN log[c.from])
    BY <1>1, <1>2, <2>1, RecipeAssumption
  <2> QED
    BY <2>1, <2>2
<1> QED
  BY <1>3, <1>4

\* An observation that a delta does not disturb keeps its answer across it,
\* or reads what it retires.
LEMMA UndisturbedKeepsAnswer ==
    ASSUME NEW before, NEW after, NEW o \in Obs,
           o.kind = "Read", o.part # "Descendant",
           ~ Disturbed(o, DiffsBetween(before, after), after)
    PROVE  \/ SameAnswer(o, before, after)
           \/ o.address \in DOMAIN before \ DOMAIN after
<1> DEFINE diffs == DiffsBetween(before, after)
<1>1. o.address \in DOMAIN diffs => o.part \notin diffs[o.address]
  BY DEF Disturbed
<1>2. o.part \in OwnParts
  BY ObsForms
<1>3. CASE o.address \in DOMAIN before \cap DOMAIN after
  <2>1. PartEq(before[o.address], after[o.address], o.part)
    BY <1>1, <1>2, <1>3, UnnamedPart
  <2> QED
    BY <1>3, <2>1 DEF SameAnswer
<1>4. CASE o.address \in DOMAIN after \ DOMAIN before
  BY <1>1, <1>2, <1>4, CreatedAndRetired
<1>5. CASE o.address \notin DOMAIN before \cup DOMAIN after
  BY <1>5 DEF SameAnswer
<1> QED
  BY <1>3, <1>4, <1>5

\* One snapshot further, a record has moved if it had, or if it was created,
\* retired or given other children by this commit.
LEMMA MovesFurther ==
    ASSUME TypeOK, NEW c, c.from \in DOMAIN log, c.from <= told,
           told + 1 \in DOMAIN log, NEW x
    PROVE  /\ Due(c) = told
           /\ Moved(c, x) <=>
                \E i \in c.from..told :
                   \/ (x \in DOMAIN log[i]) # (x \in DOMAIN log[c.from])
                   \/ Children(log[i], x) # Children(log[c.from], x)
           /\ LET further ==
                    \E i \in c.from..(told + 1) :
                       \/ (x \in DOMAIN log[i]) # (x \in DOMAIN log[c.from])
                       \/ Children(log[i], x) # Children(log[c.from], x)
              IN  /\ Moved(c, x) => further
                  /\ further =>
                       \/ Moved(c, x)
                       \/ (x \in DOMAIN log[told + 1]) # (x \in DOMAIN log[c.from])
                       \/ Children(log[told + 1], x) # Children(log[c.from], x)
                  /\ ~ further =>
                       \A i \in {c.from, told, told + 1} :
                          /\ (x \in DOMAIN log[i]) <=> (x \in DOMAIN log[c.from])
                          /\ Children(log[i], x) = Children(log[c.from], x)
<1>1. c.from \in Nat /\ told \in Nat
  BY LogFacts
<1>2. Due(c) = told
  BY <1>1 DEF Due
<1>3. Moved(c, x) <=>
        \E i \in c.from..told :
           \/ (x \in DOMAIN log[i]) # (x \in DOMAIN log[c.from])
           \/ Children(log[i], x) # Children(log[c.from], x)
  BY <1>2 DEF Moved
<1>4. /\ c.from..(told + 1) = (c.from..told) \cup {told + 1}
      /\ {c.from, told, told + 1} \subseteq c.from..(told + 1)
  BY <1>1
<1> QED
  BY <1>2, <1>3, <1>4

\* What stays below a record over one commit, and had stayed so far, stays.
LEMMA BelowStays ==
    ASSUME NEW first, NEW before, NEW after, NEW x,
           Children(before, x) = Children(first, x),
           Children(after, x) = Children(first, x),
           ~ DescendantDiffers(first, before, x),
           ~ DescendantDiffers(before, after, x)
    PROVE  ~ DescendantDiffers(first, after, x)
<1> SUFFICES ASSUME NEW y \in Children(first, x)
             PROVE  SubtreeEq(first, after, y)
  BY DEF DescendantDiffers
<1>1. SubtreeEq(first, before, y) /\ SubtreeEq(before, after, y)
  BY DEF DescendantDiffers
<1> QED
  BY <1>1, SubtreeEqTransitive

\* A read of what is below a record that stays, undisturbed by a delta.
LEMMA UndisturbedBelow ==
    ASSUME NEW before, NEW after, NEW o \in Obs,
           o.kind = "Read", o.part = "Descendant",
           ~ Disturbed(o, DiffsBetween(before, after), after),
           o.address \in DOMAIN after
    PROVE  ~ DescendantDiffers(before, after, o.address)
<1> SUFFICES ASSUME DescendantDiffers(before, after, o.address) PROVE FALSE
  OBVIOUS
<1>1. ~ SubtreeEq(before, after, o.address)
  BY SubtreeEqBelow DEF DescendantDiffers
<1>2. /\ o.address \in DOMAIN DiffsBetween(before, after)
      /\ DiffsBetween(before, after)[o.address] = PartsOf(before, after, o.address)
  BY <1>1, NamedAddresses
<1>3. "Descendant" \in PartsOf(before, after, o.address)
  BY DEF PartsOf
<1> QED
  BY <1>2, <1>3 DEF Disturbed

-----------------------------------------------------------------------------
LEMMA InitInv == Init => Inv
<1> SUFFICES ASSUME Init PROVE Inv
  OBVIOUS
<1>1. PICK doc \in Publishable : log = <<doc>>
  BY DEF Init
<1>2. log \in Seq(Publishable) /\ told \in DOMAIN log
  BY <1>1 DEF Init
<1>3. DOMAIN cells = {} /\ DOMAIN recipes = {}
  BY DEF Init
<1>4. IsMap(recipes, Key, Recipe)
  BY <1>3 DEF IsMap, Init
<1> QED
  BY <1>2, <1>3, <1>4 DEF Inv, TypeOK

LEMMA PublishInv ==
    ASSUME Inv, NEW doc \in Publishable, Publish(doc)
    PROVE  Inv'
<1>1. UNCHANGED <<told, recipes, cells>> /\ log' = Append(log, doc)
  BY DEF Publish
<1>2. TypeOK
  BY DEF Inv
<1>3. log \in Seq(Publishable)
  BY <1>2 DEF TypeOK
<1>4. /\ log' \in Seq(Publishable)
      /\ \A i \in DOMAIN log : i \in DOMAIN log' /\ log'[i] = log[i]
  BY <1>1, <1>3
<1>5. TypeOK'
  BY <1>1, <1>2, <1>4 DEF TypeOK
<1>6. ASSUME NEW k \in DOMAIN cells
      PROVE  Answered(cells[k])'
  <2>1. Due(cells[k])' = Due(cells[k]) /\ cells[k]' = cells[k]
    BY <1>1 DEF Due
  <2>2. /\ cells[k].from \in DOMAIN log /\ Due(cells[k]) \in DOMAIN log
        /\ log'[cells[k].from] = log[cells[k].from]
        /\ log'[Due(cells[k])] = log[Due(cells[k])]
    BY <1>2, <1>4, DueInLog
  <2>3. \A i \in cells[k].from..Due(cells[k]) : log'[i] = log[i]
    BY <1>2, <1>4, <2>2, LogFacts
  <2>4. \A x : Moved(cells[k], x)' <=> Moved(cells[k], x)
    BY <2>1, <2>2, <2>3 DEF Moved
  <2>5. Answered(cells[k])
    BY DEF Inv
  <2> QED
    BY <1>1, <2>1, <2>2, <2>4, <2>5
       DEF Answered, OwnAnswered, ChildrenKept, BelowKept
<1> QED
  BY <1>1, <1>5, <1>6 DEF Inv

LEMMA DefineInv ==
    ASSUME Inv, NEW k \in Key, NEW r \in Recipe, Define(k, r)
    PROVE  Inv'
<1>1. UNCHANGED <<log, told, cells>> /\ recipes' = With(recipes, k, r)
  BY DEF Define
<1>2. TypeOK
  BY DEF Inv
<1>3. /\ DOMAIN recipes' = DOMAIN recipes \cup {k}
      /\ \A x \in DOMAIN recipes' :
            recipes'[x] = IF x = k THEN r ELSE recipes[x]
  BY <1>1 DEF With
<1>4. IsMap(recipes, Key, Recipe)
  BY <1>2 DEF TypeOK
<1>5. recipes' \in [DOMAIN recipes' -> Recipe]
  BY <1>1, <1>3, <1>4 DEF With, IsMap
<1>6. IsMap(recipes', Key, Recipe)
  BY <1>3, <1>4, <1>5 DEF IsMap
<1>7. TypeOK'
  BY <1>1, <1>2, <1>3, <1>6 DEF TypeOK
<1>8. ASSUME NEW x \in DOMAIN cells
      PROVE  Answered(cells[x])'
  BY <1>1 DEF Inv, Answered, OwnAnswered, ChildrenKept, BelowKept, Moved, Due
<1> QED
  BY <1>1, <1>7, <1>8 DEF Inv

\* A cell answers as the document it has just been computed on.
LEMMA GetInv ==
    ASSUME Inv, NEW k \in Key, NEW i \in DOMAIN log, Get(k, i)
    PROVE  Inv'
<1> DEFINE new == Computed(recipes[k], i)
<1>1. /\ UNCHANGED <<log, told, recipes>>
      /\ k \in DOMAIN recipes
  BY DEF Get
<1>2. TypeOK
  BY DEF Inv
<1>3. CASE k \in DOMAIN cells
  <2>1. cells' = cells
    BY <1>3 DEF Get
  <2>2. TypeOK'
    BY <1>1, <1>2, <2>1 DEF TypeOK
  <2>3. ASSUME NEW x \in DOMAIN cells
        PROVE  Answered(cells[x])'
    BY <1>1, <2>1 DEF Inv, Answered, OwnAnswered, ChildrenKept, BelowKept, Moved, Due
  <2> QED
    BY <2>1, <2>2, <2>3 DEF Inv
<1>4. CASE k \notin DOMAIN cells
  <2>1. cells' = With(cells, k, new)
    BY <1>4 DEF Get
  <2>2. /\ DOMAIN cells' = DOMAIN cells \cup {k}
        /\ \A x \in DOMAIN cells' : cells'[x] = IF x = k THEN new ELSE cells[x]
    BY <2>1 DEF With
  <2>3. /\ new.value = Value(recipes[k], log[i])
        /\ new.receipt = Observations(recipes[k], log[i])
        /\ new.recipe = recipes[k]
        /\ new.from = i
        /\ new.late = (i < told)
    BY DEF Computed
  <2>4. recipes[k] \in Recipe
    BY <1>1, <1>2 DEF TypeOK, IsMap
  <2>5. TypeOK'
    <3>1. ASSUME NEW x \in DOMAIN cells'
          PROVE  /\ cells'[x].recipe \in Recipe
                 /\ cells'[x].from \in DOMAIN log
                 /\ cells'[x].late \in BOOLEAN
                 /\ cells'[x].value =
                      Value(cells'[x].recipe, log[cells'[x].from])
                 /\ cells'[x].receipt =
                      Observations(cells'[x].recipe, log[cells'[x].from])
      <4>1. CASE x = k
        <5>1. new.late \in BOOLEAN
          <6>1. new.late = (i < told)
            BY <2>3
          <6>2. (i < told) \in BOOLEAN
            OBVIOUS
          <6> QED
            BY Zenon, <6>1, <6>2
        <5> QED
          BY <2>2, <2>3, <2>4, <4>1, <5>1
      <4>2. CASE x # k
        BY <1>2, <2>2, <4>2 DEF TypeOK
      <4> QED
        BY <4>1, <4>2
    <3>2. DOMAIN cells' \subseteq DOMAIN recipes
      BY <1>1, <1>2, <2>2 DEF TypeOK
    <3> QED
      BY <1>1, <1>2, <3>1, <3>2 DEF TypeOK
  <2>6. ASSUME NEW x \in DOMAIN cells'
        PROVE  Answered(cells[x])'
    <3>1. CASE x = k
      <4>1. cells'[x] = new
        BY <2>2, <3>1
      <4>2. CASE i < told
        BY <2>3, <4>1, <4>2 DEF Answered
      <4>3. CASE ~ (i < told)
        <5>1. Due(cells[x])' = i /\ i \in Nat
          BY <1>1, <2>3, <4>1, <4>3, <1>2, LogFacts DEF Due
        <5>2. i..i = {i}
          BY <5>1
        <5>3. \A y : ~ Moved(cells[x], y)'
          BY <1>1, <2>3, <4>1, <5>1, <5>2 DEF Moved
        <5>4. IsDocument(log[i])
          BY <1>2, LogFacts, RecipeAssumption
        <5>5. \A o : SameAnswer(o, log[i], log[i])
          BY <5>4, SameAnswerReflexive
        <5> QED
          BY <1>1, <2>3, <4>1, <5>1, <5>3, <5>5
             DEF Answered, OwnAnswered, ChildrenKept, BelowKept
      <4> QED
        BY <4>2, <4>3
    <3>2. CASE x # k
      <4>1. x \in DOMAIN cells /\ cells'[x] = cells[x]
        BY <2>2, <3>2
      <4> QED
        BY <1>1, <4>1 DEF Inv, Answered, OwnAnswered, ChildrenKept, BelowKept, Moved, Due
    <3> QED
      BY <3>1, <3>2
  <2> QED
    BY <2>5, <2>6 DEF Inv
<1> QED
  BY <1>3, <1>4

-----------------------------------------------------------------------------
\* What invalidation leaves is the cells whose receipts survive.
LEMMA InvalidateKeeps ==
    ASSUME Inv, Invalidate
    PROVE  /\ UNCHANGED <<log, recipes>>
           /\ told' = told + 1
           /\ told + 1 \in DOMAIN log
           /\ DOMAIN cells' =
                {k \in DOMAIN cells :
                    Survives(cells[k].receipt,
                             DiffsBetween(log[told], log[told + 1]),
                             log[told + 1])}
           /\ \A k \in DOMAIN cells' : cells'[k] = cells[k]
<1>1. told + 1 \in DOMAIN log
  BY LogFacts DEF Inv, Invalidate
<1> QED
  BY <1>1 DEF Invalidate, RestrictValues, Restrict

LEMMA InvalidateInv ==
    ASSUME Inv, Invalidate
    PROVE  Inv'
<1> DEFINE before == log[told]
           after  == log[told + 1]
           diffs  == DiffsBetween(before, after)
<1>1. TypeOK
  BY DEF Inv
<1>2. TypeOK'
  BY <1>1, InvalidateKeeps DEF TypeOK
<1>3. ASSUME NEW k \in DOMAIN cells'
      PROVE  Answered(cells[k])'
  <2> DEFINE c == cells[k]
  <2>1. /\ k \in DOMAIN cells
        /\ cells'[k] = c
        /\ Survives(c.receipt, diffs, after)
    BY InvalidateKeeps
  <2>2. Answered(c)
    BY <2>1 DEF Inv
  <2>3. log' = log /\ told' = told + 1
    BY InvalidateKeeps
  <2>4. c.from \in Nat /\ told \in Nat
    BY <1>1, <2>1, DueInLog, LogFacts
  <2>5. CASE c.late
    BY <2>1, <2>5 DEF Answered
  <2>6. CASE c.from > told
    <3>1. Due(c) = c.from /\ Due(cells[k])' = c.from
      BY <2>1, <2>3, <2>4, <2>6 DEF Due
    <3> QED
      BY <2>1, <2>2, <2>3, <3>1
         DEF Answered, OwnAnswered, ChildrenKept, BelowKept, Moved
  <2>7. CASE c.from <= told /\ ~ c.late
    <3> DEFINE first == log[c.from]
               Further(x) ==
                 \E i \in c.from..(told + 1) :
                    \/ (x \in DOMAIN log[i]) # (x \in DOMAIN log[c.from])
                    \/ Children(log[i], x) # Children(log[c.from], x)
    <3>1. /\ Due(c) = told /\ Due(cells[k])' = told + 1
          /\ told + 1 \in DOMAIN log /\ c.from \in DOMAIN log
      BY <1>1, <2>1, <2>3, <2>4, <2>7, DueInLog, InvalidateKeeps DEF Due
    <3>2. \A x : Moved(cells[k], x)' <=> Further(x)
      BY <2>1, <2>3, <3>1 DEF Moved
    <3>3. OwnAnswered(c) /\ ChildrenKept(c) /\ BelowKept(c)
      BY <2>2, <2>7 DEF Answered
    <3>4. \A o \in c.receipt : o \in Obs /\ ~ Disturbed(o, diffs, after)
      BY <1>1, <2>1, ReceiptFacts DEF Survives
    <3>5. ASSUME NEW o \in c.receipt,
                 ~ (o.kind = "Read" /\ o.part = "Descendant")
          PROVE  \/ SameAnswer(o, first, after)
                 \/ /\ o.kind = "Read"
                    /\ o.address \in DOMAIN first \ DOMAIN after
      <4>1. \/ SameAnswer(o, first, before)
            \/ /\ o.kind = "Read"
               /\ o.address \in DOMAIN first \ DOMAIN before
        BY <3>1, <3>3, <3>5 DEF OwnAnswered
      <4>2. CASE o.kind = "Read"
        <5>1. \/ SameAnswer(o, before, after)
              \/ o.address \in DOMAIN before \ DOMAIN after
          BY <3>4, <3>5, <4>2, UndisturbedKeepsAnswer
        <5>2. o.part \in OwnParts
          BY <3>4, <3>5, <4>2, ObsForms
        <5> QED
          BY <3>5, <4>1, <4>2, <5>1, <5>2 DEF SameAnswer, PartEq
      <4>3. CASE o.kind # "Read"
        <5>1. o.was_absent <=> o.address \notin DOMAIN first
          BY <1>1, <2>1, <4>3, ReceiptFacts
        <5>2. (o.address \notin DOMAIN after) = o.was_absent
          BY <3>4, <4>3 DEF Disturbed
        <5> QED
          BY <4>3, <5>1, <5>2 DEF SameAnswer
      <4> QED
        BY <4>2, <4>3
    <3>6. ASSUME NEW o \in c.receipt, o.kind = "Read", o.part = "Structure",
                 Further(o.address)
          PROVE  o.address \in DOMAIN first \ DOMAIN after
      <4> DEFINE x == o.address
      <4>1. "Structure" \in OwnParts
        BY DEF OwnParts
      <4>2. ~ (x \in DOMAIN after \ DOMAIN before)
        BY <3>4, <3>6, <4>1, CreatedAndRetired DEF Disturbed
      <4>3. CASE Moved(c, x)
        <5>1. x \in DOMAIN first \ DOMAIN before
          BY <3>1, <3>3, <3>6, <4>3 DEF ChildrenKept
        <5> QED
          BY <4>2, <5>1
      <4>4. CASE ~ Moved(c, x)
        <5>1. /\ (x \in DOMAIN before) <=> (x \in DOMAIN first)
              /\ Children(before, x) = Children(first, x)
          BY <1>1, <2>7, <3>1, <4>4, MovesFurther, <2>4
        <5>2. \/ (x \in DOMAIN after) # (x \in DOMAIN first)
              \/ Children(after, x) # Children(first, x)
          BY <1>1, <2>7, <3>1, <3>6, <4>4, MovesFurther
        <5>3. CASE x \in DOMAIN before \cap DOMAIN after
          <6>1. SameAnswer(o, before, after)
            BY <3>4, <3>6, <5>3, UndisturbedKeepsAnswer
          <6>2. before[x].children = after[x].children
            BY <3>6, <4>1, <5>3, <6>1 DEF SameAnswer, PartEq, Proj
          <6>3. Children(before, x) = Children(after, x)
            BY <5>3, <6>2 DEF Children
          <6> QED
            BY <5>1, <5>2, <5>3, <6>3
        <5>4. CASE x \notin DOMAIN before /\ x \notin DOMAIN after
          <6>1. Children(before, x) = Children(after, x)
            BY <5>4 DEF Children
          <6> QED
            BY <5>1, <5>2, <5>4, <6>1
        <5> QED
          BY <4>2, <5>1, <5>3, <5>4
      <4> QED
        BY <4>3, <4>4
    <3>7. ASSUME NEW o \in c.receipt, o.kind = "Read", o.part = "Descendant",
                 ~ Further(o.address)
          PROVE  SameAnswer(o, first, after)
      <4> DEFINE x == o.address
      <4>1. /\ ~ Moved(c, x)
            /\ \A i \in {told, told + 1} :
                  /\ (x \in DOMAIN log[i]) <=> (x \in DOMAIN first)
                  /\ Children(log[i], x) = Children(first, x)
        BY <1>1, <2>7, <3>1, <3>7, MovesFurther
      <4>2. SameAnswer(o, first, before)
        BY <3>1, <3>3, <3>7, <4>1 DEF BelowKept
      <4>3. CASE x \notin DOMAIN first
        BY <3>7, <4>1, <4>3 DEF SameAnswer
      <4>4. CASE x \in DOMAIN first
        <5>1. ~ DescendantDiffers(first, before, x)
          BY <3>7, <4>2, <4>4 DEF SameAnswer
        <5>2. ~ DescendantDiffers(before, after, x)
          BY <3>4, <3>7, <4>1, <4>4, UndisturbedBelow
        <5>3. ~ DescendantDiffers(first, after, x)
          BY <4>1, <5>1, <5>2, BelowStays
        <5>4. "Descendant" \notin OwnParts
          BY DEF OwnParts
        <5> QED
          BY <3>7, <4>1, <4>4, <5>3, <5>4 DEF SameAnswer
      <4> QED
        BY <4>3, <4>4
    <3> HIDE DEF Further
    <3> QED
      BY <2>1, <2>3, <3>1, <3>2, <3>5, <3>6, <3>7
         DEF Answered, OwnAnswered, ChildrenKept, BelowKept
  <2> QED
    BY <2>4, <2>5, <2>6, <2>7
<1> QED
  BY <1>2, <1>3 DEF Inv

LEMMA StepInv == Inv /\ [Next]_vars => Inv'
<1> SUFFICES ASSUME Inv, [Next]_vars PROVE Inv'
  OBVIOUS
<1>1. ASSUME UNCHANGED vars PROVE Inv'
  BY <1>1 DEF vars, Inv, TypeOK, Answered, OwnAnswered, ChildrenKept,
              BelowKept, Moved, Due
<1> QED
  BY <1>1, PublishInv, DefineInv, GetInv, InvalidateInv DEF Next

LEMMA Invariance == Spec => []Inv
<1> QED
  BY InitInv, StepInv, PTL DEF Spec

\* A cell that read nothing that was lost has all its answers, and so its
\* value, still.
LEMMA AnsweredIsFresh == Inv => NoFalseNegatives
<1> SUFFICES ASSUME Inv, NEW k \in DOMAIN cells, ~ cells[k].late,
                    ~ LostRead(cells[k]), ~ LostBelow(cells[k])
             PROVE  Fresh(cells[k])
  BY DEF NoFalseNegatives
<1> DEFINE c == cells[k]
<1>1. TypeOK /\ OwnAnswered(c) /\ ChildrenKept(c) /\ BelowKept(c)
  BY DEF Inv, Answered
<1>2. log[c.from] \in Publishable /\ log[Due(c)] \in Publishable
  BY <1>1, DueInLog, LogFacts
<1>3. /\ c.recipe \in Recipe
      /\ c.value = Value(c.recipe, log[c.from])
      /\ c.receipt = Observations(c.recipe, log[c.from])
  BY <1>1 DEF TypeOK
<1>4. ASSUME NEW o \in c.receipt, o.kind = "Read",
             o.address \in DOMAIN log[c.from] \ DOMAIN log[Due(c)]
      PROVE  FALSE
  <2>1. Liveness(o.address, FALSE) \in c.receipt
    BY <1>4 DEF LostRead
  <2>2. ~ SameAnswer(Liveness(o.address, FALSE), log[c.from], log[Due(c)])
    BY <1>4 DEF SameAnswer, Liveness
  <2> QED
    BY <1>1, <2>1, <2>2 DEF OwnAnswered, Liveness
<1>5. ASSUME NEW o \in c.receipt
      PROVE  SameAnswer(o, log[c.from], log[Due(c)])
  <2>1. CASE ~ (o.kind = "Read" /\ o.part = "Descendant")
    BY <1>1, <1>4, <2>1 DEF OwnAnswered
  <2>2. CASE o.kind = "Read" /\ o.part = "Descendant" /\ ~ Moved(c, o.address)
    BY <1>1, <2>2 DEF BelowKept
  <2>3. CASE o.kind = "Read" /\ o.part = "Descendant" /\ Moved(c, o.address)
    <3>1. Read(o.address, "Structure") \in c.receipt
      BY <2>3 DEF LostBelow
    <3>2. PICK s \in c.receipt : s = Read(o.address, "Structure")
      BY <3>1
    <3>3. /\ s.kind = "Read" /\ s.part = "Structure"
          /\ s.address = o.address
      BY <3>2 DEF Read
    <3>4. s.address \in DOMAIN log[c.from] \ DOMAIN log[Due(c)]
      BY <1>1, <2>3, <3>3 DEF ChildrenKept
    <3> QED
      BY <1>4, <3>3, <3>4
  <2> QED
    BY <2>1, <2>2, <2>3
<1>6. Value(c.recipe, log[c.from]) = Value(c.recipe, log[Due(c)])
  BY <1>2, <1>3, <1>5, RecipeAssumption
<1> QED
  BY <1>3, <1>6 DEF Fresh

\* A receipt that a delta disturbs has an answer that changed.
LEMMA DroppedWasDisturbed ==
    ASSUME Inv, Invalidate, NEW k \in DOMAIN cells, k \notin DOMAIN cells'
    PROVE  \E o \in cells[k].receipt :
              \/ ~ SameAnswer(o, log[told], log[told'])
              \/ ~ SameAnswer(o, log[cells[k].from], log[told'])
<1> DEFINE before == log[told]
           after  == log[told + 1]
           diffs  == DiffsBetween(before, after)
<1>1. told' = told + 1
  BY InvalidateKeeps
<1>2. PICK o \in cells[k].receipt : Disturbed(o, diffs, after)
  BY InvalidateKeeps DEF Survives
<1>3. o \in Obs
  BY ReceiptFacts DEF Inv
<1>4. CASE o.kind = "Read"
  <2>1. o.address \in DOMAIN diffs /\ o.part \in diffs[o.address]
    BY <1>2, <1>4 DEF Disturbed
  <2>2. o.part \in PartsOf(before, after, o.address)
    BY <2>1, NamedAddresses
  <2>3. o.part \in OwnParts \/ o.part = "Descendant"
    BY <1>3, <1>4, ObsForms
  <2>4. /\ o.address \in DOMAIN after
        /\ o.part \in OwnParts /\ o.address \in DOMAIN before
             => ~ PartEq(before[o.address], after[o.address], o.part)
        /\ o.part = "Descendant" => DescendantDiffers(before, after, o.address)
    <3>1. "Descendant" \notin OwnParts
      BY DEF OwnParts
    <3> QED
      BY <2>2, <2>3, <3>1 DEF PartsOf
  <2>5. ~ SameAnswer(o, before, after)
    BY <1>4, <2>3, <2>4 DEF SameAnswer
  <2> QED
    BY <1>1, <2>5
<1>5. CASE o.kind # "Read"
  <2>1. o.was_absent <=> o.address \notin DOMAIN log[cells[k].from]
    BY <1>5, ReceiptFacts DEF Inv
  <2>2. (o.address \notin DOMAIN after) # o.was_absent
    BY <1>2, <1>5 DEF Disturbed
  <2>3. o.was_absent \in BOOLEAN
    BY <1>3, <1>5, ObsForms
  <2>4. ~ SameAnswer(o, log[cells[k].from], after)
    BY <1>5, <2>1, <2>2, <2>3 DEF SameAnswer
  <2> QED
    BY <1>1, <2>4
<1> QED
  BY <1>4, <1>5

-----------------------------------------------------------------------------
\* A cached cell was computed by a recipe on a snapshot of the lineage, and its
\* receipt is all it observed there (Engine::recompute, derive.rs).
THEOREM TypeCorrect == Spec => []TypeOK
<1>1. Inv => TypeOK
  BY DEF Inv
<1> QED
  BY <1>1, Invariance, PTL

\* Receipt::survives has no false negatives but two: a cell that is still
\* cached, and was not computed on a snapshot already left behind, has the value
\* its recipe would compute afresh, whatever parts the recipes read, unless it
\* read a record that was retired without asking whether it was live, or read
\* below a record that moved without reading which its children are.
THEOREM NeverStale == Spec => []NoFalseNegatives
  BY AnsweredIsFresh, Invariance, PTL

\* Engine::invalidate drops no cell all of whose recorded answers still stand.
THEOREM DropsWhatChanged == Spec => DropsOnlyTheDisturbed
<1>1. ASSUME Inv, [Next]_vars
      PROVE  [\A k \in DOMAIN cells :
                k \notin DOMAIN cells' =>
                  \E o \in cells[k].receipt :
                    \/ ~ SameAnswer(o, log[told], log[told'])
                    \/ ~ SameAnswer(o, log[cells[k].from], log[told'])]_vars
  <2> SUFFICES ASSUME Next, NEW k \in DOMAIN cells, k \notin DOMAIN cells'
               PROVE  \E o \in cells[k].receipt :
                        \/ ~ SameAnswer(o, log[told], log[told'])
                        \/ ~ SameAnswer(o, log[cells[k].from], log[told'])
    BY <1>1
  <2>1. CASE Invalidate
    BY <1>1, <2>1, DroppedWasDisturbed
  <2>2. ASSUME NEW doc \in Publishable, Publish(doc) PROVE FALSE
    BY <2>2 DEF Publish
  <2>3. ASSUME NEW h \in Key, NEW r \in Recipe, Define(h, r) PROVE FALSE
    BY <2>3 DEF Define
  <2>4. ASSUME NEW h \in Key, NEW i \in DOMAIN log, Get(h, i) PROVE FALSE
    BY <2>4 DEF Get, With
  <2> QED
    BY <2>1, <2>2, <2>3, <2>4 DEF Next
<1> QED
  BY <1>1, Invariance, PTL DEF Spec, DropsOnlyTheDisturbed
=============================================================================
