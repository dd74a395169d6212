--------------------------- MODULE Frontend_proofs ---------------------------
(***************************************************************************)
(* An identity that was retired never comes back, and whatever the host    *)
(* did before, and by either route, an adaptation leaves exactly the       *)
(* records of the tree; by report it boxes exactly these, and done again   *)
(* it publishes nothing.  Offsets are converted where characters begin and *)
(* refused elsewhere, and a caret finds the node of its line.              *)
(***************************************************************************)
EXTENDS Frontend, Projection_proofs

\* A tree as a session makes it: lines that are not blank, under identities
\* that were given out, each to one node.
IsTree(tree, last) ==
    /\ tree = [k \in 1..Len(tree) |-> tree[k]] /\ Len(tree) \in Nat
    /\ \A k \in DOMAIN tree :
          /\ tree[k].id \in 1..last /\ tree[k].line \in Line
          /\ \A j \in DOMAIN tree : tree[j].id = tree[k].id => j = k

SessionOK ==
    /\ source \in Sources \cup {<<>>}
    /\ next_id \in 0..MaxId
    /\ IsTree(nodes, next_id)
    /\ Len(nodes) = Cardinality(Written(source))
    /\ gone \subseteq 1..next_id
    /\ Ids(nodes) \cap gone = {}
    /\ behind \in 0..2
    /\ report.retired \cap Ids(nodes) = {}

\* Records as the adapter projects them, under identities that were given out.
AreRecords(records, last) ==
    /\ records = [x \in DOMAIN records |-> records[x]]
    /\ DOMAIN records \subseteq 1..last
    /\ \A x \in DOMAIN records :
          \E l \in Line : records[x] = Project([id |-> x, line |-> l])

Boxing(tree) ==
    [k \in 1..Len(tree) |-> [address |-> tree[k].id, box |-> NodeBox(tree[k])]]

\* The boxes of a snapshot end with those of its tree, and the first of these
\* is of a root.
IsRooted(records, roots, boxes) ==
    LET n == Cardinality(DOMAIN records)
    IN  /\ n <= Len(boxes)
        /\ n > 0 => boxes[Len(boxes) - n + 1].address \in Range(roots)

\* A snapshot as adaptations leave it.
IsSnapshot(s, last) ==
    /\ s = [revision |-> s.revision, records |-> s.records,
            roots |-> s.roots, placement |-> s.placement]
    /\ s.revision \in 1..MaxRevision
    /\ AreRecords(s.records, last)
    /\ s.roots \in Seq(DOMAIN s.records)
    /\ s.placement = [boxes |-> s.placement.boxes, translations |-> <<>>]
    /\ s.placement.boxes \in Seq(Range(s.placement.boxes))
    /\ IsRooted(s.records, s.roots, s.placement.boxes)

\* The report fits the snapshot: what it does not name is as in the tree.
ReportFits ==
    /\ DOMAIN snapshot.records \ report.retired \subseteq Ids(nodes)
    /\ \A k \in DOMAIN nodes :
          nodes[k].id \notin report.touched =>
             /\ nodes[k].id \in DOMAIN snapshot.records
             /\ snapshot.records[nodes[k].id] = Project(nodes[k])

\* The records are those of the nodes of a tree.
AreOf(records, tree) ==
    /\ records = [x \in DOMAIN records |-> records[x]]
    /\ DOMAIN records = Ids(tree)
    /\ \A k \in DOMAIN tree : records[tree[k].id] = Project(tree[k])

FrontendInv ==
    /\ SessionOK
    /\ IsSnapshot(snapshot, next_id)
    /\ behind <= 1 => ReportFits
    /\ behind = 0 => AreOf(snapshot.records, nodes)
    /\ behind = 0 /\ nodes # <<>> => nodes[1].id \in Range(snapshot.roots)
    /\ behind = 0 /\ route = "report" => snapshot.placement.boxes = Boxing(nodes)
    /\ behind = 1 /\ route = "report" /\ AreOf(snapshot.records, nodes)
         => snapshot.placement.boxes = Boxing(nodes)

\* A tree has as many identities as nodes.
LEMMA TreeIds ==
    ASSUME NEW tree, NEW last \in Nat, IsTree(tree, last)
    PROVE  /\ Ids(tree) \subseteq 1..last
           /\ Ids(tree) = {tree[k].id : k \in 1..Len(tree)}
           /\ IsFiniteSet(Ids(tree)) /\ Cardinality(Ids(tree)) = Len(tree)
<1> DEFINE n == Len(tree)
           id == [k \in 1..n |-> tree[k].id]
<1>1. n \in Nat /\ DOMAIN tree = 1..n
  BY DEF IsTree
<1>2. Ids(tree) = {tree[k].id : k \in 1..n} /\ Ids(tree) \subseteq 1..last
  BY <1>1 DEF Ids, IsTree
<1>3. id \in Bijection(1..n, Ids(tree))
  <2>1. id \in [1..n -> Ids(tree)] /\ \A x \in Ids(tree) : \E k \in 1..n : id[k] = x
    BY <1>2
  <2>2. \A j, k \in 1..n : id[j] = id[k] => j = k
    BY <1>1 DEF IsTree
  <2> HIDE DEF id
  <2> QED
    BY <2>1, <2>2 DEF Bijection, Injection, IsInjective, Surjection
<1> HIDE DEF id, n
<1>4. IsFiniteSet(1..n) /\ Cardinality(1..n) = n
  BY <1>1, FS_Interval
<1>5. ExistsBijection(1..n, Ids(tree))
  BY <1>3 DEF ExistsBijection
<1>6. IsFiniteSet(Ids(tree)) /\ Cardinality(Ids(tree)) = n
  BY <1>4, <1>5, FS_Bijection
<1> QED
  BY <1>2, <1>6 DEF n

\* The lines that need a new identity: how many there are up to each line.
LEMMA NewAreCounted ==
    ASSUME NEW old, NEW src, NEW n \in Nat, DOMAIN src = 1..n
    PROVE  /\ Cardinality(NewUpTo(old, src, n)) \in Nat
           /\ \A i \in Written(src) : ~ Keeps(old, src, i) =>
                 /\ Cardinality(NewUpTo(old, src, i)) \in
                      1..Cardinality(NewUpTo(old, src, n))
                 /\ \A j \in Written(src) : ~ Keeps(old, src, j) /\ i < j =>
                       Cardinality(NewUpTo(old, src, i))
                         # Cardinality(NewUpTo(old, src, j))
<1> DEFINE Up(i) == NewUpTo(old, src, i)
<1>1. Written(src) \subseteq 1..n
  BY DEF Written
<1>2. ASSUME NEW i PROVE IsFiniteSet(Up(i)) /\ Cardinality(Up(i)) \in Nat
  <2>1. Up(i) \in SUBSET (1..n)
    BY <1>1 DEF NewUpTo
  <2>2. IsFiniteSet(1..n)
    BY FS_Interval
  <2>3. IsFiniteSet(Up(i))
    BY <2>1, <2>2, FS_Subset
  <2> QED
    BY <2>3, FS_CardinalityType
<1>3. ASSUME NEW i \in Written(src), ~ Keeps(old, src, i)
      PROVE  /\ Up(i) \in SUBSET Up(n) /\ i \in Up(i)
             /\ \A j \in Written(src) : ~ Keeps(old, src, j) /\ i < j =>
                   Up(i) \in SUBSET Up(j) /\ j \in Up(j) /\ j \notin Up(i)
  BY <1>1, <1>3 DEF NewUpTo
<1> HIDE DEF Up
<1>4. ASSUME NEW i \in Written(src), ~ Keeps(old, src, i)
      PROVE  /\ Cardinality(Up(i)) \in 1..Cardinality(Up(n))
             /\ \A j \in Written(src) : ~ Keeps(old, src, j) /\ i < j =>
                   Cardinality(Up(i)) # Cardinality(Up(j))
  <2>1. Cardinality(Up(i)) <= Cardinality(Up(n))
    BY <1>2, <1>3, <1>4, FS_Subset
  <2>2. Cardinality(Up(i)) # 0
    BY <1>2, <1>3, <1>4, FS_EmptySet
  <2>3. ASSUME NEW j \in Written(src), ~ Keeps(old, src, j), i < j
        PROVE  Cardinality(Up(i)) # Cardinality(Up(j))
    <3>1. Up(i) \in SUBSET Up(j) /\ Up(i) # Up(j)
      BY <1>3, <1>4, <2>3
    <3> QED
      BY <1>2, <3>1, FS_Subset
  <2> QED
    BY <1>2, <2>1, <2>2, <2>3
<1> QED
  BY <1>2, <1>4 DEF Up

\* What a reparse makes: a tree of the written lines in order, each under the
\* old identity it keeps or a new one.
IsParsed(tree, old, last, new, src) ==
    /\ IsTree(tree, new)
    /\ Len(tree) = Cardinality(Written(src))
    /\ \E order \in Seq(Written(src)) :
          /\ order = Increasing(Written(src)) /\ Len(order) = Len(tree)
          /\ \A k \in DOMAIN tree :
                \/ /\ order[k] \in DOMAIN old
                   /\ tree[k].id = old[order[k]].id
                \/ tree[k].id \in (last + 1)..new

\* Parsing makes such a tree, and the identities it gives out are new.
LEMMA ParseFacts ==
    ASSUME NEW old, NEW last \in Nat, IsTree(old, last),
           NEW src \in Seq(Line \cup {Blank}),
           NEW new, new = last + Cardinality(NewUpTo(old, src, Len(src)))
    PROVE  /\ new \in Nat /\ last <= new
           /\ IsParsed(Parse(old, last, src), old, last, new, src)
<1>1. DOMAIN src = 1..Len(src) /\ Len(src) \in Nat
  OBVIOUS
<1> DEFINE new1 == Cardinality(NewUpTo(old, src, Len(src)))
           tree == Parse(old, last, src)
<1>2. new1 \in Nat /\ new \in Nat /\ last <= new
  BY <1>1, NewAreCounted
<1>3. PICK order : order = Increasing(Written(src))
  OBVIOUS
<1>4. IsFiniteSet(Written(src)) /\ Written(src) \in SUBSET Nat
  <2>1. Written(src) \in SUBSET (1..Len(src)) /\ IsFiniteSet(1..Len(src))
    BY <1>1, FS_Interval DEF Written
  <2> QED
    BY <1>1, <2>1, FS_Subset
<1>5. /\ order \in Seq(Written(src)) /\ Len(order) = Cardinality(Written(src))
      /\ \A j, k \in DOMAIN order : order[j] = order[k] => j = k
  BY <1>3, <1>4, IncreasingFacts DEF LaysOut
<1>6. /\ tree = [k \in 1..Len(order) |->
                   [id   |-> IdAt(old, last, src, order[k]),
                    line |-> src[order[k]],
                    span |-> <<Start(src, order[k]),
                               Start(src, order[k]) + src[order[k]].width>>]]
      /\ Len(order) \in Nat
  BY <1>3, <1>5 DEF Parse
<1>7. /\ Len(tree) = Len(order) /\ DOMAIN tree = 1..Len(order)
      /\ tree = [k \in 1..Len(tree) |-> tree[k]]
      /\ \A k \in 1..Len(order) : tree[k].id = IdAt(old, last, src, order[k])
                                    /\ tree[k].line = src[order[k]]
  BY <1>6
<1> HIDE DEF tree
<1>8. ASSUME NEW i \in Written(src)
      PROVE  \/ /\ Keeps(old, src, i) /\ i \in DOMAIN old
                /\ IdAt(old, last, src, i) = old[i].id
                /\ old[i].id \in 1..last
             \/ /\ ~ Keeps(old, src, i)
                /\ IdAt(old, last, src, i) =
                     last + Cardinality(NewUpTo(old, src, i))
                /\ Cardinality(NewUpTo(old, src, i)) \in 1..new1
  BY <1>1, NewAreCounted DEF IdAt, Keeps, IsTree
<1>9. ASSUME NEW i \in Written(src), NEW j \in Written(src),
             IdAt(old, last, src, i) = IdAt(old, last, src, j)
      PROVE  i = j
  <2>1. CASE Keeps(old, src, i) /\ Keeps(old, src, j)
    BY <1>8, <1>9, <2>1 DEF IsTree
  <2>2. CASE ~ (Keeps(old, src, i) <=> Keeps(old, src, j))
    BY <1>2, <1>8, <1>9, <2>2
  <2>3. CASE ~ Keeps(old, src, i) /\ ~ Keeps(old, src, j)
    <3>1. Cardinality(NewUpTo(old, src, i)) = Cardinality(NewUpTo(old, src, j))
      BY <1>2, <1>8, <1>9, <2>3
    <3>2. ~ (i < j) /\ ~ (j < i)
      BY <1>1, <2>3, <3>1, NewAreCounted
    <3> QED
      BY <1>4, <3>2
  <2> QED
    BY <2>1, <2>2, <2>3
<1>10. \A i \in Written(src) : src[i] \in Line
  BY DEF Written
<1>11. ASSUME NEW k \in 1..Len(order)
       PROVE  /\ tree[k].id \in 1..new /\ tree[k].line \in Line
              /\ \A j \in 1..Len(order) : tree[j].id = tree[k].id => j = k
              /\ \/ /\ order[k] \in DOMAIN old
                    /\ tree[k].id = old[order[k]].id
                 \/ tree[k].id \in (last + 1)..new
  <2>1. order[k] \in Written(src) /\ \A j \in 1..Len(order) : order[j] \in Written(src)
    BY <1>5
  <2>2. \A j \in 1..Len(order) : order[j] = order[k] => j = k
    BY <1>5
  <2>3. \A j \in 1..Len(order) : tree[j].id = tree[k].id => order[j] = order[k]
    BY <1>7, <1>9, <2>1
  <2>4. /\ tree[k].id \in 1..new
        /\ \/ /\ order[k] \in DOMAIN old
              /\ tree[k].id = old[order[k]].id
           \/ tree[k].id \in (last + 1)..new
    BY <1>2, <1>7, <1>8, <2>1
  <2> QED
    BY <1>7, <1>10, <2>1, <2>2, <2>3, <2>4
<1>12. IsTree(tree, new)
  BY <1>6, <1>7, <1>11 DEF IsTree
<1>13. IsParsed(tree, old, last, new, src)
  BY <1>3, <1>5, <1>7, <1>11, <1>12 DEF IsParsed
<1> QED
  BY <1>2, <1>13 DEF tree

\* The first numbers, smallest first.
LEMMA CountedInOrder ==
    ASSUME NEW n \in Nat
    PROVE  Increasing(1..n) = [k \in 1..n |-> k]
<1>1. IsFiniteSet(1..n) /\ Cardinality(1..n) = n
  BY FS_Interval
<1> DEFINE before == {pair \in (1..n) \X (1..n) : pair[1] < pair[2]}
<1>2. ASSUME NEW x \in 1..n
      PROVE  Cardinality({y \in 1..n : <<y, x>> \in before}) = x - 1
  <2>1. {y \in 1..n : <<y, x>> \in before} = 1..(x - 1)
    OBVIOUS
  <2>2. Cardinality(1..(x - 1)) = x - 1
    BY FS_Interval
  <2> QED
    BY <2>1, <2>2
<1>3. Increasing(1..n) =
        [k \in 1..n |->
            CHOOSE x \in 1..n :
                Cardinality({y \in 1..n : <<y, x>> \in before}) = k - 1]
  BY <1>1 DEF Increasing, Ordered
<1> HIDE DEF before
<1>4. ASSUME NEW k \in 1..n
      PROVE  (CHOOSE x \in 1..n :
                Cardinality({y \in 1..n : <<y, x>> \in before}) = k - 1) = k
  <2>1. \A x \in 1..n :
           Cardinality({y \in 1..n : <<y, x>> \in before}) = k - 1 <=> x = k
    BY <1>2
  <2> QED
    BY <2>1
<1> QED
  BY <1>3, <1>4

\* A reparse that gives out no new identity and retires none leaves the
\* identities in the order they had.
LEMMA SameIds ==
    ASSUME NEW old, NEW last \in Nat, IsTree(old, last),
           NEW src, NEW n \in Nat, DOMAIN src = 1..n, NEW new \in Nat,
           NEW tree, IsParsed(tree, old, last, new, src), Ids(tree) = Ids(old)
    PROVE  Len(tree) = Len(old) /\ \A k \in DOMAIN tree : tree[k].id = old[k].id
<1>1. Len(tree) = Len(old) /\ Ids(tree) \subseteq 1..last
  <2>1. Ids(old) \subseteq 1..last /\ Cardinality(Ids(old)) = Len(old)
    BY TreeIds
  <2>2. Cardinality(Ids(tree)) = Len(tree)
    BY TreeIds DEF IsParsed
  <2> QED
    BY <2>1, <2>2
<1>2. Len(old) \in Nat /\ DOMAIN old = 1..Len(old) /\ DOMAIN tree = 1..Len(tree)
  BY DEF IsTree, IsParsed
<1>3. PICK order \in Seq(Written(src)) :
         /\ order = Increasing(Written(src)) /\ Len(order) = Len(tree)
         /\ \A k \in DOMAIN tree :
               \/ order[k] \in DOMAIN old /\ tree[k].id = old[order[k]].id
               \/ tree[k].id \in (last + 1)..new
  BY DEF IsParsed
<1>4. \A k \in DOMAIN tree : tree[k].id \in 1..last
  BY <1>1 DEF Ids
<1>5. \A k \in DOMAIN tree : order[k] \in DOMAIN old /\ tree[k].id = old[order[k]].id
  BY <1>3, <1>4
<1>6. Written(src) \in SUBSET (1..Len(old))
  <2>1. Written(src) \in SUBSET (1..n) /\ IsFiniteSet(1..n)
    BY FS_Interval DEF Written
  <2>2. IsFiniteSet(Written(src)) /\ Written(src) \in SUBSET Nat
    BY <2>1, FS_Subset
  <2>3. Range(order) = Written(src)
    BY <1>3, <2>2, IncreasingFacts DEF LaysOut
  <2>4. DOMAIN order = 1..Len(old)
    BY <1>1, <1>3
  <2> QED
    BY <1>1, <1>2, <1>5, <2>3, <2>4 DEF Range
<1>7. Written(src) = 1..Len(old)
  <2>1. Cardinality(Written(src)) = Len(old)
    BY <1>1 DEF IsParsed
  <2>2. IsFiniteSet(1..Len(old)) /\ Cardinality(1..Len(old)) = Len(old)
    <3>1. PICK m \in Nat : m = Len(old)
      BY <1>2
    <3>2. IsFiniteSet(1..m) /\ Cardinality(1..m) = m
      BY FS_Interval
    <3> QED
      BY <3>1, <3>2
  <2> QED
    BY <1>6, <2>1, <2>2, FS_Subset
<1>8. order = [k \in 1..Len(old) |-> k]
  BY <1>2, <1>3, <1>7, CountedInOrder
<1> QED
  BY <1>1, <1>2, <1>5, <1>8

\* What the parts of a record are compared by tells its line.
LEMMA ProjectTells ==
    ASSUME NEW m, NEW n, OwnEq(Project(m), Project(n))
    PROVE  Project(m) = Project(n)
  BY DEF OwnEq, Proj, Project

\* The adapter gives no record children.
LEMMA ProjectIsALeaf ==
    ASSUME NEW n
    PROVE  Project(n).children = <<>>
  BY Zenon DEF Project

\* So the no-op test tells any two maps of such records apart.
LEMMA RecordsDiffer ==
    ASSUME NEW a, NEW b, AreRecords(a, MaxId), AreRecords(b, MaxId)
    PROVE  (DiffsBetween(a, b) = NoDiffs) <=> a = b
<1>1. DOMAIN a \subseteq Address /\ DOMAIN b \subseteq Address
  BY FrontendAssumption DEF AreRecords
<1>2. ASSUME DiffsBetween(a, b) = NoDiffs PROVE a = b
  <2>1. DOMAIN DiffsBetween(a, b) = {}
    BY <1>2 DEF NoDiffs
  <2>2. \A x \in Address : Agrees(a, b, x)
    BY <2>1, UnnamedAgrees
  <2>3. DOMAIN a = DOMAIN b
    BY <1>1, <2>2 DEF Agrees
  <2>4. ASSUME NEW x \in DOMAIN a PROVE a[x] = b[x]
    <3>1. OwnEq(a[x], b[x])
      BY <1>1, <2>2 DEF Agrees
    <3>2. PICK l \in Line : a[x] = Project([id |-> x, line |-> l])
      BY DEF AreRecords
    <3>3. PICK m \in Line : b[x] = Project([id |-> x, line |-> m])
      BY <2>3 DEF AreRecords
    <3> QED
      BY <3>1, <3>2, <3>3, ProjectTells
  <2> QED
    BY <2>3, <2>4 DEF AreRecords
<1>3. ASSUME a = b PROVE DiffsBetween(a, b) = NoDiffs
  <2>1. ASSUME NEW x \in DOMAIN a PROVE SubtreeEq(a, a, x)
    <3>1. Children(a, x) = {}
      <4>1. PICK l \in Line : a[x] = Project([id |-> x, line |-> l])
        BY DEF AreRecords
      <4>2. a[x].children = <<>>
        BY <4>1, ProjectIsALeaf
      <4> QED
        BY <4>2 DEF Children, Range
    <3>2. Closed(a, a, {x}) /\ {x} \in SUBSET Address
      BY <1>1, <3>1 DEF Closed, Agrees, OwnEq
    <3> QED
      BY <3>2 DEF SubtreeEq
  <2> QED
    BY <1>3, <2>1 DEF DiffsBetween, NoDiffs
<1> QED
  BY <1>2, <1>3


\* The boxes of a tree are as many as its nodes, and name these.
LEMMA BoxingFacts ==
    ASSUME NEW tree, NEW last, IsTree(tree, last)
    PROVE  /\ DOMAIN Boxing(tree) = 1..Len(tree) /\ Len(Boxing(tree)) = Len(tree)
           /\ Boxing(tree) \in Seq(Range(Boxing(tree)))
           /\ \A k \in 1..Len(tree) :
                 Boxing(tree)[k] = [address |-> tree[k].id, box |-> NodeBox(tree[k])]
           /\ {entry.address : entry \in Range(Boxing(tree))} = Ids(tree)
<1> DEFINE boxes == Boxing(tree)
<1>1. Len(tree) \in Nat /\ DOMAIN tree = 1..Len(tree)
  BY DEF IsTree
<1>2. boxes = [k \in 1..Len(tree) |->
                 [address |-> tree[k].id, box |-> NodeBox(tree[k])]]
  BY DEF Boxing
<1> HIDE DEF boxes
<1>3. /\ DOMAIN boxes = 1..Len(tree) /\ Len(boxes) = Len(tree)
      /\ boxes \in Seq(Range(boxes))
      /\ \A k \in 1..Len(tree) :
            boxes[k] = [address |-> tree[k].id, box |-> NodeBox(tree[k])]
  BY <1>1, <1>2 DEF Range
<1>4. {entry.address : entry \in Range(boxes)} = Ids(tree)
  BY <1>1, <1>3 DEF Range, Ids
<1> QED
  BY <1>3, <1>4 DEF boxes

\* Nothing moves a box where there is no translation.
LEMMA Unmoved ==
    ASSUME NEW placement, placement.translations = <<>>, NEW a, NEW box
    PROVE  Moved(placement, a, box) = box
<1> DEFINE
      covered(r, move) ==
        IF a \in move.covers
        THEN [r EXCEPT !.x = @ + move.dx, !.y = @ + move.dy]
        ELSE r
      moves == placement.translations
      moved[s \in SUBSET DOMAIN moves] ==
        IF s = {} THEN box
        ELSE covered(moved[s \ {Max(s)}], moves[Max(s)])
<1>1. Moved(placement, a, box) = moved[DOMAIN moves]
  BY Zenon DEF Moved, FoldLeft, MapThenFoldSet
<1>2. DOMAIN moves = {}
  OBVIOUS
<1> DEFINE f == [s \in SUBSET DOMAIN moves |-> box]
<1>3. f = [s \in SUBSET DOMAIN moves |->
             IF s = {} THEN box
             ELSE covered(f[s \ {Max(s)}], moves[Max(s)])]
  BY <1>2
<1>4. moved = [s \in SUBSET DOMAIN moves |->
                 IF s = {} THEN box
                 ELSE covered(moved[s \ {Max(s)}], moves[Max(s)])]
  <2> HIDE DEF covered
  <2> QED
    BY <1>3
<1> QED
  BY <1>1, <1>2, <1>4

\* Boxed from a tree, a node has the box that is made of it.
LEMMA BoxedOnce ==
    ASSUME NEW tree, NEW last, IsTree(tree, last), NEW placement,
           placement = [boxes |-> Boxing(tree), translations |-> <<>>],
           NEW k \in DOMAIN tree
    PROVE  BoxOf(placement, tree[k].id) = NodeBox(tree[k])
<1>1. k \in 1..Len(tree) /\ Len(tree) \in Nat /\ DOMAIN tree = 1..Len(tree)
  BY DEF IsTree
<1>2. placement.boxes = Boxing(tree) /\ placement.translations = <<>>
  OBVIOUS
<1>3. /\ DOMAIN placement.boxes = 1..Len(tree)
      /\ \A j \in 1..Len(tree) :
            /\ placement.boxes[j].address = tree[j].id
            /\ placement.boxes[j].box = NodeBox(tree[j])
  <2>1. ASSUME NEW j \in 1..Len(tree)
        PROVE  Boxing(tree)[j] = [address |-> tree[j].id, box |-> NodeBox(tree[j])]
    BY BoxingFacts
  <2>2. DOMAIN Boxing(tree) = 1..Len(tree)
    BY BoxingFacts
  <2> QED
    BY <1>2, <2>1, <2>2
<1>4. BoxesOf(placement, tree[k].id) = {k}
  <2>1. \A j \in 1..Len(tree) : tree[j].id = tree[k].id => j = k
    BY <1>1 DEF IsTree
  <2> QED
    BY <1>1, <1>3, <2>1 DEF BoxesOf
<1>5. Min({k}) = k
  BY <1>1 DEF Min
<1>6. placement.boxes[Min({k})].box = NodeBox(tree[k])
  BY <1>1, <1>3, <1>5
<1>7. BoxOf(placement, tree[k].id)
        = Moved(placement, tree[k].id, placement.boxes[Min({k})].box)
  BY <1>4 DEF BoxOf
<1> QED
  BY <1>2, <1>6, <1>7, Unmoved


\* The record put for a node is the one made of it: no other has its identity.
LEMMA ProjectedFacts ==
    ASSUME NEW tree, NEW last, IsTree(tree, last), NEW ids
    PROVE  /\ DOMAIN Projected(tree, ids) = Ids(tree) \cap ids
           /\ \A k \in DOMAIN tree : tree[k].id \in ids =>
                 Projected(tree, ids)[tree[k].id] = Project(tree[k])
<1>1. ASSUME NEW k \in DOMAIN tree
      PROVE  (CHOOSE n \in Range(tree) : n.id = tree[k].id) = tree[k]
  <2>1. \A n \in Range(tree) : n.id = tree[k].id <=> n = tree[k]
    BY DEF Range, IsTree
  <2>2. tree[k] \in Range(tree)
    BY DEF Range
  <2> QED
    BY <2>1, <2>2
<1>2. \A k \in DOMAIN tree : tree[k].id \in Ids(tree)
  BY DEF Ids
<1> QED
  BY <1>1, <1>2 DEF Projected

\* Records of the nodes of a tree are records as the adapter projects them.
LEMMA AreOfTree ==
    ASSUME NEW tree, NEW last \in Nat, IsTree(tree, last), NEW records,
           AreOf(records, tree)
    PROVE  AreRecords(records, last)
<1>1. DOMAIN records \subseteq 1..last
  BY TreeIds DEF AreOf
<1>2. ASSUME NEW x \in DOMAIN records
      PROVE  \E l \in Line : records[x] = Project([id |-> x, line |-> l])
  <2>1. PICK k \in DOMAIN tree : x = tree[k].id
    BY DEF AreOf, Ids
  <2>2. records[x] = Project(tree[k]) /\ tree[k].line \in Line
    BY <2>1 DEF AreOf, IsTree
  <2>3. Project(tree[k]) = Project([id |-> x, line |-> tree[k].line])
    BY <2>1 DEF Project
  <2> QED
    BY <2>2, <2>3
<1> QED
  BY <1>1, <1>2 DEF AreRecords, AreOf

\* What is rooted is live, the first node of the tree among it.
LEMMA RootedFacts ==
    ASSUME NEW tree, NEW last, IsTree(tree, last), NEW all, NEW roots \in Seq(all),
           NEW removed, NEW live, all \ removed \subseteq live, Ids(tree) \subseteq live
    PROVE  /\ Rooted(roots, removed, tree) \in Seq(live)
           /\ tree # <<>> => tree[1].id \in Range(Rooted(roots, removed, tree))
<1> DEFINE places == {k \in DOMAIN roots : roots[k] \notin removed}
           kept == At(roots, places)
<1>1. kept \in Seq(all) /\ Range(kept) = {roots[k] : k \in places}
  BY AtFacts
<1>2. \A k \in DOMAIN roots : roots[k] \in all
  OBVIOUS
<1>3. Range(kept) \subseteq live
  BY <1>1, <1>2
<1>4. Rooted(roots, removed, tree) =
        IF tree = <<>> THEN kept ELSE Append(kept, tree[1].id)
  BY DEF Rooted
<1> HIDE DEF kept, places
<1>5. kept \in Seq(live)
  <2>1. \A k \in DOMAIN kept : kept[k] \in live
    BY <1>3 DEF Range
  <2> QED
    BY <1>1, <2>1
<1>6. ASSUME tree # <<>>
      PROVE  /\ tree[1].id \in live
             /\ Append(kept, tree[1].id) \in Seq(live)
             /\ tree[1].id \in Range(Append(kept, tree[1].id))
  <2>1. 1 \in DOMAIN tree
    BY <1>6 DEF IsTree
  <2>2. tree[1].id \in live
    BY <2>1 DEF Ids
  <2>3. /\ Append(kept, tree[1].id) \in Seq(live)
        /\ Append(kept, tree[1].id)[Len(kept) + 1] = tree[1].id
        /\ Len(kept) + 1 \in DOMAIN Append(kept, tree[1].id)
    BY <1>5, <2>2
  <2> QED
    BY <2>2, <2>3 DEF Range
<1> QED
  BY <1>4, <1>5, <1>6

\* The boxes of the tree come after those there already are.
LEMMA PlacedFacts ==
    ASSUME NEW tree, NEW last, IsTree(tree, last), NEW boxes,
           NEW placement, placement = [boxes |-> boxes, translations |-> <<>>]
    PROVE  Placed(placement, tree)
             = [boxes |-> boxes \o Boxing(tree), translations |-> <<>>]
<1>1. Boxing(tree) = [k \in DOMAIN tree |->
                        [address |-> tree[k].id, box |-> NodeBox(tree[k])]]
  BY DEF Boxing, IsTree
<1>2. Placed(placement, tree)
        = [placement EXCEPT !.boxes = placement.boxes \o Boxing(tree)]
  BY <1>1 DEF Placed
<1>3. \A new : [placement EXCEPT !.boxes = new] = [boxes |-> new, translations |-> <<>>]
  OBVIOUS
<1> QED
  BY <1>2, <1>3


\* What an adaptation hands to commit: the records of the tree, live roots
\* with its first node among them, and its boxes after some others.
IsEdit(edited, tree, prior) ==
    /\ AreOf(edited.records, tree)
    /\ edited.roots \in Seq(DOMAIN edited.records)
    /\ tree # <<>> => tree[1].id \in Range(edited.roots)
    /\ edited.placement = [boxes |-> prior \o Boxing(tree), translations |-> <<>>]

\* However it is made, if what it does not put is as in the tree already.
LEMMA EditedFacts ==
    ASSUME NEW tree, NEW last \in Nat, IsTree(tree, last),
           NEW base, base.roots \in Seq(DOMAIN base.records),
           NEW removed, removed \cap Ids(tree) = {},
           DOMAIN base.records \ removed \subseteq Ids(tree),
           NEW ids,
           \A k \in DOMAIN tree : tree[k].id \notin ids =>
              /\ tree[k].id \in DOMAIN base.records
              /\ base.records[tree[k].id] = Project(tree[k]),
           NEW placement, NEW prior,
           placement = [boxes |-> prior \o Boxing(tree), translations |-> <<>>]
    PROVE  IsEdit(Edited(base, removed, Projected(tree, ids), placement, tree),
                  tree, prior)
<1> DEFINE edited == Edited(base, removed, Projected(tree, ids), placement, tree)
           put == Projected(tree, ids)
           live == (DOMAIN base.records \ removed) \cup DOMAIN put
<1>1. /\ edited.records = [x \in live |-> IF x \in DOMAIN put THEN put[x]
                                          ELSE base.records[x]]
      /\ edited.roots = Rooted(base.roots, removed, tree)
      /\ edited.placement = placement
  BY DEF Edited
<1>2. /\ DOMAIN put = Ids(tree) \cap ids
      /\ \A k \in DOMAIN tree : tree[k].id \in ids => put[tree[k].id] = Project(tree[k])
  BY ProjectedFacts
<1> HIDE DEF edited, put
<1>3. live = Ids(tree)
  <2>1. ASSUME NEW x \in Ids(tree) PROVE x \in live
    <3>1. PICK k \in DOMAIN tree : x = tree[k].id
      BY DEF Ids
    <3> QED
      BY <1>2, <2>1, <3>1
  <2> QED
    BY <1>2, <2>1
<1>4. ASSUME NEW k \in DOMAIN tree PROVE edited.records[tree[k].id] = Project(tree[k])
  <2>1. tree[k].id \in Ids(tree)
    BY DEF Ids
  <2> QED
    BY <1>1, <1>2, <1>3, <2>1
<1>5. AreOf(edited.records, tree)
  BY <1>1, <1>3, <1>4 DEF AreOf
<1>6. /\ Rooted(base.roots, removed, tree) \in Seq(Ids(tree))
      /\ tree # <<>> => tree[1].id \in Range(Rooted(base.roots, removed, tree))
  BY RootedFacts
<1>7. IsEdit(edited, tree, prior)
  BY <1>1, <1>5, <1>6 DEF IsEdit, AreOf
<1> QED
  BY <1>7 DEF edited

\* From a report that fits the snapshot.
LEMMA FromReportEdits ==
    ASSUME NEW tree, NEW last \in Nat, IsTree(tree, last),
           NEW base, NEW n, IsSnapshot(base, n),
           NEW retired, NEW touched, NEW extra,
           retired \cap Ids(tree) = {},
           DOMAIN base.records \ retired \subseteq Ids(tree),
           \A k \in DOMAIN tree : tree[k].id \notin touched =>
              /\ tree[k].id \in DOMAIN base.records
              /\ base.records[tree[k].id] = Project(tree[k])
    PROVE  IsEdit(FromReport(base, tree, retired, touched \cup extra), tree, <<>>)
<1>1. Placed(EmptyPlacement, tree)
        = [boxes |-> <<>> \o Boxing(tree), translations |-> <<>>]
  BY PlacedFacts DEF EmptyPlacement
<1>2. base.roots \in Seq(DOMAIN base.records)
  BY DEF IsSnapshot
<1> DEFINE ids == touched \cup extra
<1>3. \A k \in DOMAIN tree : tree[k].id \notin ids =>
         /\ tree[k].id \in DOMAIN base.records
         /\ base.records[tree[k].id] = Project(tree[k])
  OBVIOUS
<1> HIDE DEF ids
<1>4. IsEdit(Edited(base, retired, Projected(tree, ids),
                    Placed(EmptyPlacement, tree), tree), tree, <<>>)
  BY <1>1, <1>2, <1>3, EditedFacts
<1> QED
  BY <1>4 DEF FromReport, ids

\* In full, whatever the snapshot has.
LEMMA InFullEdits ==
    ASSUME NEW tree, NEW last \in Nat, IsTree(tree, last),
           NEW base, NEW n, IsSnapshot(base, n)
    PROVE  IsEdit(InFull(base, tree), tree, base.placement.boxes)
<1> DEFINE removed == DOMAIN base.records \ Ids(tree)
           placement == Placed(base.placement, tree)
           prior == base.placement.boxes
<1>1. placement = [boxes |-> prior \o Boxing(tree), translations |-> <<>>]
  <2>1. base.placement = [boxes |-> base.placement.boxes, translations |-> <<>>]
    BY DEF IsSnapshot
  <2> QED
    BY <2>1, PlacedFacts
<1>2. base.roots \in Seq(DOMAIN base.records)
  BY DEF IsSnapshot
<1>3. \A k \in DOMAIN tree : tree[k].id \in Ids(tree)
  BY DEF Ids
<1>4. removed \cap Ids(tree) = {} /\ DOMAIN base.records \ removed \subseteq Ids(tree)
  OBVIOUS
<1> HIDE DEF removed, placement, prior
<1>5. IsEdit(Edited(base, removed, Projected(tree, Ids(tree)), placement, tree),
             tree, prior)
  BY <1>1, <1>2, <1>3, <1>4, EditedFacts
<1> QED
  BY <1>5 DEF InFull, removed, placement, prior


\* What is appended comes after what was there.
LEMMA Appended ==
    ASSUME NEW a, NEW b, a \in Seq(Range(a)), b \in Seq(Range(b))
    PROVE  /\ a \o b \in Seq(Range(a \o b))
           /\ Len(a \o b) = Len(a) + Len(b)
           /\ \A k \in 1..Len(b) : (a \o b)[Len(a) + k] = b[k]
<1>1. a \in Seq(Range(a) \cup Range(b)) /\ b \in Seq(Range(a) \cup Range(b))
  OBVIOUS
<1> DEFINE c == a \o b
<1>2. /\ c \in Seq(Range(a) \cup Range(b)) /\ Len(c) = Len(a) + Len(b)
      /\ \A k \in 1..Len(b) : c[Len(a) + k] = b[k]
  BY <1>1
<1> HIDE DEF c
<1>3. c \in Seq(Range(c))
  <2>1. DOMAIN c = 1..Len(c) /\ Len(c) \in Nat /\ c = [k \in 1..Len(c) |-> c[k]]
    BY <1>2
  <2>2. \A k \in 1..Len(c) : c[k] \in Range(c)
    BY <2>1 DEF Range
  <2> QED
    BY <2>1, <2>2
<1>4. /\ c \in Seq(Range(c)) /\ Len(c) = Len(a) + Len(b)
      /\ \A k \in 1..Len(b) : c[Len(a) + k] = b[k]
  BY <1>2, <1>3
<1> QED
  BY <1>4 DEF c

\* What is published is a snapshot as adaptations leave it.
LEMMA PublishedEdit ==
    ASSUME NEW tree, NEW last \in Nat, IsTree(tree, last),
           NEW prior, prior \in Seq(Range(prior)),
           NEW edited, IsEdit(edited, tree, prior), NEW s, s.revision \in 1..MaxRevision,
           s = [revision |-> s.revision, records |-> edited.records,
                roots |-> edited.roots, placement |-> edited.placement]
    PROVE  IsSnapshot(s, last)
<1> DEFINE boxes == prior \o Boxing(tree)
<1>1. s.records = edited.records /\ s.roots = edited.roots
        /\ s.placement = edited.placement
  OBVIOUS
<1>2. /\ boxes \in Seq(Range(boxes)) /\ Len(boxes) = Len(prior) + Len(tree)
      /\ \A k \in 1..Len(tree) : boxes[Len(prior) + k] = Boxing(tree)[k]
  BY Appended, BoxingFacts
<1>3. Len(prior) \in Nat /\ Len(tree) \in Nat
  BY DEF IsTree
<1>4. Cardinality(DOMAIN s.records) = Len(tree)
  BY <1>1, TreeIds DEF IsEdit, AreOf
<1> HIDE DEF boxes
<1>5. s.placement.boxes = boxes /\ s.placement = [boxes |-> boxes, translations |-> <<>>]
  BY <1>1 DEF IsEdit, boxes
<1>6. IsRooted(s.records, s.roots, boxes)
  <2>1. ASSUME Len(tree) > 0
        PROVE  boxes[Len(boxes) - Len(tree) + 1].address \in Range(s.roots)
    <3>1. tree # <<>> /\ 1 \in 1..Len(tree)
      BY <1>3, <2>1
    <3>2. Len(boxes) - Len(tree) + 1 = Len(prior) + 1
      BY <1>2, <1>3
    <3>3. boxes[Len(prior) + 1] = Boxing(tree)[1]
      BY <1>2, <3>1
    <3>4. Boxing(tree)[1] = [address |-> tree[1].id, box |-> NodeBox(tree[1])]
      BY <3>1, BoxingFacts
    <3> QED
      BY <1>1, <3>1, <3>2, <3>3, <3>4 DEF IsEdit
  <2> QED
    BY <1>2, <1>3, <1>4, <2>1 DEF IsRooted
<1>7. AreRecords(s.records, last) /\ s.roots \in Seq(DOMAIN s.records)
  BY <1>1, AreOfTree DEF IsEdit
<1> QED
  BY <1>1, <1>2, <1>5, <1>6, <1>7 DEF IsSnapshot

\* What is not published the snapshot had already, the root included.
LEMMA NotPublished ==
    ASSUME NEW tree, NEW last \in 0..MaxId, IsTree(tree, last),
           NEW base, IsSnapshot(base, last),
           NEW prior, prior = <<>> \/ prior = base.placement.boxes,
           NEW edited, IsEdit(edited, tree, prior), ~ Publishes(base, edited)
    PROVE  /\ AreOf(base.records, tree)
           /\ tree # <<>> => tree[1].id \in Range(base.roots)
           /\ prior = <<>> => base.placement.boxes = Boxing(tree)
<1>1. /\ DiffsBetween(base.records, edited.records) = NoDiffs
      /\ edited.placement = base.placement
  BY DEF Publishes
<1>2. last \in Nat /\ last <= MaxId
  BY FrontendAssumption
<1>3. AreRecords(base.records, last) /\ AreRecords(edited.records, last)
  BY <1>2, AreOfTree DEF IsSnapshot, IsEdit
<1>4. AreRecords(base.records, MaxId) /\ AreRecords(edited.records, MaxId)
  BY <1>2, <1>3, FrontendAssumption DEF AreRecords
<1>5. base.records = edited.records
  BY <1>1, <1>4, RecordsDiffer
<1>6. AreOf(base.records, tree)
  BY <1>5 DEF IsEdit
<1>7. base.placement.boxes = prior \o Boxing(tree)
  BY <1>1 DEF IsEdit
<1>8. /\ Len(tree) \in Nat /\ Len(Boxing(tree)) = Len(tree)
      /\ Boxing(tree) \in Seq(Range(Boxing(tree)))
  BY BoxingFacts DEF IsTree
<1>9. CASE prior = <<>>
  <2>1. base.placement.boxes = Boxing(tree)
    BY <1>7, <1>8, <1>9
  <2>2. Cardinality(DOMAIN base.records) = Len(tree)
    BY <1>2, <1>6, TreeIds DEF AreOf
  <2>3. ASSUME tree # <<>> PROVE tree[1].id \in Range(base.roots)
    <3>1. 1 \in 1..Len(tree) /\ Len(tree) > 0
      BY <1>8, <2>3 DEF IsTree
    <3>2. Boxing(tree)[1] = [address |-> tree[1].id, box |-> NodeBox(tree[1])]
      BY <3>1, BoxingFacts
    <3>3. Len(tree) - Len(tree) + 1 = 1
      BY <1>8
    <3> QED
      BY <1>8, <2>1, <2>2, <3>1, <3>2, <3>3 DEF IsSnapshot, IsRooted
  <2> QED
    BY <1>6, <2>1, <2>3
<1>10. CASE prior # <<>>
  <2>1. /\ prior = base.placement.boxes /\ prior \in Seq(Range(prior))
        /\ prior = prior \o Boxing(tree)
    BY <1>7, <1>10 DEF IsSnapshot
  <2>2. Len(prior) = Len(prior) + Len(tree) /\ Len(prior) \in Nat
    BY <1>8, <2>1, Appended
  <2>3. Len(tree) = 0
    BY <1>8, <2>2
  <2>4. tree = <<>>
    BY <2>3 DEF IsTree
  <2> QED
    BY <1>6, <1>10, <2>4
<1> QED
  BY <1>9, <1>10


\* The empty session and its first snapshot satisfy the invariant.
LEMMA InitInv == Init => FrontendInv
<1> SUFFICES ASSUME Init PROVE FrontendInv
  OBVIOUS
<1>1. /\ source = <<>> /\ next_id = 0 /\ nodes = <<>> /\ gone = {} /\ behind = 0
      /\ report.retired = {}
      /\ DOMAIN snapshot.records = {} /\ snapshot.records = [x \in {} |-> {}]
      /\ snapshot.roots = <<>> /\ snapshot.placement = EmptyPlacement
      /\ snapshot.revision = 1
      /\ snapshot = [revision |-> snapshot.revision, records |-> snapshot.records,
                     roots |-> snapshot.roots, placement |-> snapshot.placement]
  BY DEF Init
<1>2. Ids(nodes) = {} /\ Written(source) = {} /\ Len(nodes) = 0
  BY <1>1 DEF Ids, Written
<1>3. Cardinality({}) = 0
  BY FS_EmptySet
<1>4. IsTree(nodes, next_id)
  BY <1>1 DEF IsTree
<1>5. SessionOK
  <2>1. 0 \in 0..MaxId
    BY FrontendAssumption
  <2>2. Len(nodes) = Cardinality(Written(source))
    BY <1>2, <1>3
  <2>3. gone \subseteq 1..next_id /\ Ids(nodes) \cap gone = {} /\ behind \in 0..2
        /\ report.retired \cap Ids(nodes) = {}
    BY <1>1
  <2>4. source \in Sources \cup {<<>>} /\ next_id \in 0..MaxId
    BY <1>1, <2>1
  <2> QED
    BY <1>4, <2>2, <2>3, <2>4 DEF SessionOK
<1>6. AreRecords(snapshot.records, next_id) /\ AreOf(snapshot.records, nodes)
  <2>1. DOMAIN nodes = {}
    BY <1>1
  <2> QED
    BY <1>1, <1>2, <2>1 DEF AreRecords, AreOf
<1>7. IsRooted(snapshot.records, snapshot.roots, snapshot.placement.boxes)
  BY <1>1, <1>3 DEF IsRooted, EmptyPlacement
<1>8. IsSnapshot(snapshot, next_id)
  <2>1. snapshot.placement = [boxes |-> snapshot.placement.boxes, translations |-> <<>>]
        /\ snapshot.placement.boxes = <<>>
    BY <1>1 DEF EmptyPlacement
  <2>2. snapshot.revision \in 1..MaxRevision
    BY <1>1, FrontendAssumption
  <2> QED
    BY <1>1, <1>6, <1>7, <2>1, <2>2 DEF IsSnapshot
<1>9. snapshot.placement.boxes = Boxing(nodes)
  BY <1>1 DEF Boxing, EmptyPlacement
<1>10. ReportFits
  BY <1>1 DEF ReportFits
<1> QED
  BY <1>1, <1>5, <1>6, <1>8, <1>9, <1>10 DEF FrontendInv

\* A reparse keeps the invariant.
LEMMA SetSourceInv ==
    ASSUME FrontendInv, NEW src \in Sources, SetSource(src)
    PROVE  FrontendInv'
<1>1. /\ src \in Seq(Line \cup {Blank}) /\ DOMAIN src = 1..Len(src) /\ Len(src) \in Nat
      /\ next_id \in Nat /\ IsTree(nodes, next_id) /\ behind \in 0..2
  BY FrontendAssumption DEF FrontendInv, SessionOK
<1>2. PICK tree : tree = Parse(nodes, next_id, src)
  OBVIOUS
<1>3. PICK last : last = next_id + Cardinality(NewUpTo(nodes, src, Len(src)))
  OBVIOUS
<1>4. /\ last <= MaxId /\ source' = src /\ next_id' = last /\ nodes' = tree
      /\ report' = Reported(nodes, tree)
      /\ gone' = gone \cup (Ids(nodes) \ Ids(tree))
      /\ behind' = Min({behind + 1, 2})
      /\ route' = route /\ snapshot' = snapshot
  BY <1>2, <1>3 DEF SetSource
<1>5. /\ last \in Nat /\ next_id <= last
      /\ IsParsed(tree, nodes, next_id, last, src)
  BY <1>1, <1>2, <1>3, ParseFacts
<1>6. behind' = IF behind = 0 THEN 1 ELSE 2
  <2>1. behind = 0 \/ behind = 1 \/ behind = 2
    BY <1>1
  <2>2. Min({1, 2}) = 1 /\ Min({2, 2}) = 2 /\ Min({3, 2}) = 2
    BY DEF Min
  <2> QED
    BY <1>4, <2>1, <2>2
<1>7. IsTree(tree, last) /\ Len(tree) = Cardinality(Written(src))
  BY <1>5 DEF IsParsed
<1>8. ASSUME NEW x \in Ids(tree) PROVE x \in Ids(nodes) \/ x \in (next_id + 1)..last
  <2>1. PICK k \in DOMAIN tree : x = tree[k].id
    BY DEF Ids
  <2> QED
    BY <1>5, <2>1 DEF IsParsed, Ids
<1>9. Ids(nodes) \subseteq 1..next_id
  BY <1>1, TreeIds
<1>10. gone' \subseteq 1..last /\ Ids(tree) \cap gone' = {}
  <2>1. gone \subseteq 1..next_id /\ Ids(nodes) \cap gone = {}
    BY DEF FrontendInv, SessionOK
  <2>2. 1..next_id \subseteq 1..last
    BY <1>1, <1>5
  <2>3. \A x \in 1..next_id : x \notin (next_id + 1)..last
    BY <1>1, <1>5
  <2> QED
    BY <1>4, <1>8, <1>9, <2>1, <2>2, <2>3
<1>11. report'.retired = Ids(nodes) \ Ids(tree)
  BY <1>4 DEF Reported
<1>12. SessionOK'
  BY <1>4, <1>5, <1>6, <1>7, <1>10, <1>11 DEF SessionOK
<1>13. IsSnapshot(snapshot, last)
  <2>1. 1..next_id \subseteq 1..last
    BY <1>1, <1>5
  <2>2. IsSnapshot(snapshot, next_id)
    BY DEF FrontendInv
  <2>3. AreRecords(snapshot.records, next_id)
    BY <2>2 DEF IsSnapshot
  <2>4. AreRecords(snapshot.records, last)
    BY <2>1, <2>3 DEF AreRecords
  <2> QED
    BY <2>2, <2>4 DEF IsSnapshot
<1>14. ASSUME behind = 0, NEW k \in DOMAIN tree, tree[k].id \notin report'.touched
       PROVE  /\ tree[k].id \in DOMAIN snapshot.records
              /\ snapshot.records[tree[k].id] = Project(tree[k])
  <2>1. PICK o \in Range(nodes) :
           /\ o.id = tree[k].id
           /\ o.line.text = tree[k].line.text
           /\ o.line.kind = tree[k].line.kind
    BY <1>4, <1>14 DEF Reported, Range
  <2>2. PICK j \in DOMAIN nodes : o = nodes[j]
    BY DEF Range
  <2>3. o.line \in Line /\ tree[k].line \in Line
    BY <1>1, <1>7, <2>2 DEF IsTree
  <2>4. o.line = tree[k].line
    BY <2>1, <2>3, LineAssumption
  <2>5. Project(o) = Project(tree[k])
    BY <2>1, <2>4 DEF Project
  <2>6. nodes[j].id \in Ids(nodes) /\ AreOf(snapshot.records, nodes)
    BY <1>14 DEF Ids, FrontendInv
  <2> QED
    BY <2>1, <2>2, <2>5, <2>6 DEF AreOf
<1>15. ASSUME behind = 0 PROVE ReportFits'
  <2>1. DOMAIN snapshot.records = Ids(nodes)
    BY <1>15 DEF FrontendInv, AreOf
  <2> QED
    BY <1>4, <1>11, <1>14, <1>15, <2>1 DEF ReportFits
<1>16. ASSUME behind = 0, route = "report", AreOf(snapshot.records, tree)
       PROVE  snapshot.placement.boxes = Boxing(tree)
  <2>1. AreOf(snapshot.records, nodes) /\ snapshot.placement.boxes = Boxing(nodes)
    BY <1>16 DEF FrontendInv
  <2>2. Ids(tree) = Ids(nodes)
    BY <1>16, <2>1 DEF AreOf
  <2>3. Len(tree) = Len(nodes) /\ \A k \in DOMAIN tree : tree[k].id = nodes[k].id
    BY <1>1, <1>5, <2>2, SameIds
  <2>4. DOMAIN tree = 1..Len(tree) /\ DOMAIN nodes = 1..Len(nodes)
    BY <1>1, <1>7 DEF IsTree
  <2>5. ASSUME NEW k \in 1..Len(tree) PROVE NodeBox(tree[k]) = NodeBox(nodes[k])
    <3>1. Project(tree[k]) = Project(nodes[k])
      BY <1>16, <2>1, <2>3, <2>4 DEF AreOf
    <3>2. Project(tree[k]).intrinsic = Project(nodes[k]).intrinsic
      BY <3>1
    <3> QED
      BY <3>2, Zenon DEF Project, NodeBox
  <2>6. Boxing(tree) = Boxing(nodes)
    BY <2>3, <2>4, <2>5 DEF Boxing
  <2> QED
    BY <2>1, <2>6
<1> QED
  BY <1>4, <1>6, <1>12, <1>13, <1>15, <1>16 DEF FrontendInv


\* So does what commit makes of an adaptation, published or not.
LEMMA CommitInv ==
    ASSUME FrontendInv, NEW prior,
           prior = <<>> \/ prior = snapshot.placement.boxes,
           NEW edited, IsEdit(edited, nodes, prior), Commit(edited),
           route' = "report" => prior = <<>>
    PROVE  FrontendInv' /\ AreOf(snapshot'.records, nodes)
<1>1. /\ next_id \in 0..MaxId /\ next_id \in Nat /\ IsTree(nodes, next_id)
      /\ IsSnapshot(snapshot, next_id)
  BY FrontendAssumption DEF FrontendInv, SessionOK
<1>2. /\ source' = source /\ next_id' = next_id /\ nodes' = nodes
      /\ report' = report /\ gone' = gone /\ behind' = 0
      /\ snapshot.revision < MaxRevision
  BY DEF Commit, session
<1>3. SessionOK'
  BY <1>2 DEF FrontendInv, SessionOK
<1>4. prior \in Seq(Range(prior))
  <2>1. <<>> \in Seq(Range(<<>>))
    OBVIOUS
  <2> QED
    BY <1>1, <2>1 DEF IsSnapshot
<1>5. CASE Publishes(snapshot, edited)
  <2>1. PICK s : s = snapshot'
    OBVIOUS
  <2>2. s = [revision  |-> snapshot.revision + 1, records |-> edited.records,
             roots     |-> edited.roots, placement |-> edited.placement]
    BY <1>5, <2>1 DEF Commit
  <2>3. /\ s.revision = snapshot.revision + 1 /\ s.records = edited.records
        /\ s.roots = edited.roots /\ s.placement = edited.placement
    BY <2>2
  <2>4. s.revision \in 1..MaxRevision
    <3>1. snapshot.revision \in 1..MaxRevision
      BY <1>1 DEF IsSnapshot
    <3> QED
      BY <1>2, <2>3, <3>1, FrontendAssumption
  <2>5. IsSnapshot(s, next_id)
    BY <1>1, <1>4, <2>2, <2>3, <2>4, PublishedEdit
  <2>6. AreOf(s.records, nodes) /\ (nodes # <<>> => nodes[1].id \in Range(s.roots))
    BY <2>3 DEF IsEdit
  <2>7. route' = "report" => s.placement.boxes = Boxing(nodes)
    <3>1. Boxing(nodes) \in Seq(Range(Boxing(nodes)))
      BY <1>1, BoxingFacts
    <3>2. <<>> \o Boxing(nodes) = Boxing(nodes)
      BY <3>1
    <3>3. s.placement.boxes = prior \o Boxing(nodes)
      BY <2>3 DEF IsEdit
    <3> QED
      BY <3>2, <3>3
  <2>8. ReportFits'
    BY <1>2, <2>1, <2>6 DEF AreOf, ReportFits, Ids
  <2> QED
    BY <1>2, <1>3, <2>1, <2>5, <2>6, <2>7, <2>8 DEF FrontendInv
<1>6. CASE ~ Publishes(snapshot, edited)
  <2>1. snapshot' = snapshot
    BY <1>6 DEF Commit
  <2>2. /\ AreOf(snapshot.records, nodes)
        /\ nodes # <<>> => nodes[1].id \in Range(snapshot.roots)
        /\ prior = <<>> => snapshot.placement.boxes = Boxing(nodes)
    BY <1>1, <1>6, NotPublished
  <2>3. ReportFits'
    BY <1>2, <2>1, <2>2 DEF AreOf, ReportFits, Ids
  <2> QED
    BY <1>1, <1>2, <1>3, <2>1, <2>2, <2>3 DEF FrontendInv
<1> QED
  BY <1>5, <1>6

\* By report: the report fits, so what comes of it is the tree.
LEMMA AdaptEdits ==
    ASSUME FrontendInv, NEW extra, behind <= 1
    PROVE  IsEdit(FromReport(snapshot, nodes, report.retired, report.touched \cup extra),
                  nodes, <<>>)
<1>1. /\ next_id \in Nat /\ IsTree(nodes, next_id) /\ ReportFits
      /\ IsSnapshot(snapshot, next_id) /\ report.retired \cap Ids(nodes) = {}
  BY FrontendAssumption DEF FrontendInv, SessionOK
<1> QED
  BY <1>1, FromReportEdits DEF ReportFits

\* Every step keeps the invariant.
LEMMA StepInv == FrontendInv /\ [Next]_vars => FrontendInv'
<1> SUFFICES ASSUME FrontendInv, [Next]_vars PROVE FrontendInv'
  OBVIOUS
<1>1. CASE UNCHANGED vars
  BY <1>1 DEF vars, FrontendInv, SessionOK, ReportFits
<1>2. ASSUME NEW src \in Sources, SetSource(src) PROVE FrontendInv'
  BY <1>2, SetSourceInv
<1>3. ASSUME NEW extra, Adapt(extra) PROVE FrontendInv'
  <2> DEFINE edited == FromReport(snapshot, nodes, report.retired,
                                  report.touched \cup extra)
  <2>1. behind <= 1 /\ Commit(edited)
    BY <1>3 DEF Adapt
  <2>2. IsEdit(edited, nodes, <<>>)
    BY <2>1, AdaptEdits
  <2> HIDE DEF edited
  <2> QED
    BY <2>1, <2>2, CommitInv
<1>4. ASSUME AdaptFull PROVE FrontendInv'
  <2> DEFINE edited == InFull(snapshot, nodes)
  <2>1. Commit(edited) /\ route' = "full"
    BY <1>4 DEF AdaptFull
  <2>2. IsEdit(edited, nodes, snapshot.placement.boxes)
    BY InFullEdits, FrontendAssumption DEF FrontendInv, SessionOK
  <2> HIDE DEF edited
  <2> QED
    BY <2>1, <2>2, CommitInv
<1> QED
  BY <1>1, <1>2, <1>3, <1>4 DEF Next

\* So it holds in every state a session and its adapter reach.
LEMMA Invariance == Spec => []FrontendInv
  BY InitInv, StepInv, PTL DEF Spec


\* A tree is the written lines of its source, under identities that were given
\* out, each to one node (fixture.rs, set_source).
THEOREM TypeCorrect == Spec => []TypeOK
<1>1. FrontendInv => TypeOK
  <2> SUFFICES ASSUME FrontendInv PROVE TypeOK
    OBVIOUS
  <2>1. next_id \in Nat /\ IsTree(nodes, next_id)
    BY FrontendAssumption DEF FrontendInv, SessionOK
  <2>2. Ids(nodes) \subseteq 1..next_id /\ Cardinality(Ids(nodes)) = Len(nodes)
    BY <2>1, TreeIds
  <2>3. /\ snapshot.revision \in 1..MaxRevision
        /\ DOMAIN snapshot.records \subseteq 1..next_id
    BY DEF FrontendInv, IsSnapshot, AreRecords
  <2> QED
    BY <2>2, <2>3 DEF TypeOK, FrontendInv, SessionOK
<1> QED
  BY <1>1, Invariance, PTL

\* An identity that was retired never comes back, to the tree or to a snapshot
\* adapted from it (frontend-contract.md 2.1).
THEOREM RetiredSafe == Spec => []RetiredStaysRetired
<1>1. FrontendInv => RetiredStaysRetired
  BY DEF FrontendInv, SessionOK, AreOf, RetiredStaysRetired
<1> QED
  BY <1>1, Invariance, PTL

\* By either route, whatever the host did before, an adaptation leaves exactly
\* the records of the tree, its first node a root and no root dead (adapter.rs,
\* adapt and adapt_full; snapshot.rs, commit).
THEOREM RecordsSafe == Spec => []RecordsAreTheTree
<1>1. FrontendInv => RecordsAreTheTree
  <2> SUFFICES ASSUME FrontendInv, behind = 0
               PROVE  /\ snapshot.records = Projected(nodes, Ids(nodes))
                      /\ nodes # <<>> => Head(nodes).id \in Range(snapshot.roots)
                      /\ Range(snapshot.roots) \subseteq DOMAIN snapshot.records
    BY DEF RecordsAreTheTree
  <2>1. /\ IsTree(nodes, next_id) /\ AreOf(snapshot.records, nodes)
        /\ snapshot.roots \in Seq(DOMAIN snapshot.records)
    BY DEF FrontendInv, SessionOK, IsSnapshot
  <2>2. /\ DOMAIN Projected(nodes, Ids(nodes)) = Ids(nodes)
        /\ \A k \in DOMAIN nodes :
              Projected(nodes, Ids(nodes))[nodes[k].id] = Project(nodes[k])
    <3>1. \A k \in DOMAIN nodes : nodes[k].id \in Ids(nodes)
      BY DEF Ids
    <3>2. PICK ids : ids = Ids(nodes)
      OBVIOUS
    <3>3. /\ DOMAIN Projected(nodes, ids) = Ids(nodes) \cap ids
          /\ \A k \in DOMAIN nodes : nodes[k].id \in ids =>
                Projected(nodes, ids)[nodes[k].id] = Project(nodes[k])
      BY <2>1, ProjectedFacts
    <3> QED
      BY <3>1, <3>2, <3>3
  <2>3. \A x \in Ids(nodes) : snapshot.records[x] = Projected(nodes, Ids(nodes))[x]
    BY <2>1, <2>2 DEF Ids, AreOf
  <2>4. Projected(nodes, Ids(nodes))
          = [x \in Ids(nodes) |-> Projected(nodes, Ids(nodes))[x]]
    BY DEF Projected
  <2>5. snapshot.records = Projected(nodes, Ids(nodes))
    BY <2>1, <2>3, <2>4 DEF AreOf
  <2>6. nodes # <<>> => Head(nodes).id \in Range(snapshot.roots)
    BY DEF FrontendInv
  <2>7. Range(snapshot.roots) \subseteq DOMAIN snapshot.records
    BY <2>1 DEF Range
  <2> QED
    BY <2>5, <2>6, <2>7
<1> QED
  BY <1>1, Invariance, PTL

\* Adapted from a report, every record is boxed as wide as its text, and no
\* box is left of a record that is gone (adapter.rs, adapt).
THEOREM BoxesSafe == Spec => []BoxesFollowTheTree
<1>1. FrontendInv => BoxesFollowTheTree
  <2> SUFFICES ASSUME FrontendInv, behind = 0, route = "report"
               PROVE  /\ {entry.address :
                            entry \in Range(snapshot.placement.boxes)} = Ids(nodes)
                      /\ \A n \in Range(nodes) :
                            BoxOf(snapshot.placement, n.id) = NodeBox(n)
    BY DEF BoxesFollowTheTree
  <2>1. /\ IsTree(nodes, next_id) /\ snapshot.placement.boxes = Boxing(nodes)
        /\ snapshot.placement = [boxes |-> Boxing(nodes), translations |-> <<>>]
    BY DEF FrontendInv, SessionOK, IsSnapshot
  <2>2. {entry.address : entry \in Range(Boxing(nodes))} = Ids(nodes)
    BY <2>1, BoxingFacts
  <2>3. \A k \in DOMAIN nodes : BoxOf(snapshot.placement, nodes[k].id) = NodeBox(nodes[k])
    BY <2>1, BoxedOnce
  <2> QED
    BY <2>1, <2>2, <2>3 DEF Range
<1> QED
  BY <1>1, Invariance, PTL

\* A tree has one set of records.
LEMMA SameRecords ==
    ASSUME NEW tree, NEW a, NEW b, AreOf(a, tree), AreOf(b, tree)
    PROVE  a = b
<1>1. DOMAIN a = Ids(tree) /\ DOMAIN b = Ids(tree)
  BY DEF AreOf
<1>2. ASSUME NEW x \in Ids(tree) PROVE a[x] = b[x]
  BY DEF AreOf, Ids
<1> QED
  BY <1>1, <1>2 DEF AreOf

\* Adapting again, by report, what has not changed publishes nothing
\* (snapshot.rs, commit; adapter.rs, adapt).
THEOREM AgainSafe == Spec => AdaptingAgainIsNoOp
<1> DEFINE Again == /\ route = "report" /\ route' = "report"
                    /\ snapshot'.records = snapshot.records
                    => snapshot' = snapshot
<1>1. FrontendInv /\ [Next]_vars => [Again]_vars
  <2> SUFFICES ASSUME FrontendInv, Next, route = "report", route' = "report",
                      snapshot'.records = snapshot.records
               PROVE  snapshot' = snapshot
    OBVIOUS
  <2>1. ASSUME NEW src \in Sources, SetSource(src) PROVE snapshot' = snapshot
    BY <2>1 DEF SetSource
  <2>2. ASSUME NEW extra, Adapt(extra) PROVE snapshot' = snapshot
    <3> DEFINE edited == FromReport(snapshot, nodes, report.retired,
                                    report.touched \cup extra)
    <3>1. behind <= 1 /\ Commit(edited)
      BY <2>2 DEF Adapt
    <3>2. IsEdit(edited, nodes, <<>>)
      BY <3>1, AdaptEdits
    <3> HIDE DEF edited
    <3>3. AreOf(snapshot.records, nodes)
      BY <3>1, <3>2, CommitInv
    <3>4. /\ IsTree(nodes, next_id) /\ IsSnapshot(snapshot, next_id)
          /\ next_id \in 0..MaxId /\ next_id \in Nat
          /\ snapshot.placement.boxes = Boxing(nodes)
      BY <3>1, <3>3, FrontendAssumption DEF FrontendInv, SessionOK
    <3>5. ~ Publishes(snapshot, edited)
      <4>1. Boxing(nodes) \in Seq(Range(Boxing(nodes)))
        BY <3>4, BoxingFacts
      <4>2. edited.placement = snapshot.placement
        BY <3>2, <3>4, <4>1 DEF IsEdit, IsSnapshot
      <4>3. AreRecords(edited.records, next_id) /\ AreRecords(snapshot.records, next_id)
        BY <3>2, <3>4, AreOfTree DEF IsEdit, IsSnapshot
      <4>4. AreRecords(edited.records, MaxId) /\ AreRecords(snapshot.records, MaxId)
        <5>1. 1..next_id \subseteq 1..MaxId
          BY <3>4, FrontendAssumption
        <5> QED
          BY <4>3, <5>1 DEF AreRecords
      <4>5. edited.records = snapshot.records
        BY <3>2, <3>3, SameRecords DEF IsEdit
      <4>6. DiffsBetween(snapshot.records, edited.records) = NoDiffs
        BY <4>4, <4>5, RecordsDiffer
      <4> QED
        BY <4>2, <4>6 DEF Publishes
    <3> QED
      BY <3>1, <3>5 DEF Commit
  <2>3. ~ AdaptFull
    BY DEF AdaptFull
  <2> QED
    BY <2>1, <2>2, <2>3 DEF Next
<1>2. []FrontendInv /\ [][Next]_vars => AdaptingAgainIsNoOp
  BY <1>1, PTL DEF AdaptingAgainIsNoOp
<1> QED
  BY <1>2, Invariance, PTL DEF Spec

-----------------------------------------------------------------------------
\* The largest of some places.
LEMMA LatestFacts ==
    ASSUME NEW n \in Nat, NEW set \in SUBSET (1..n)
    PROVE  /\ \A m \in set : (\A i \in set : i <= m) => Max(set) = m
           /\ set # {} => Max(set) \in set /\ \A i \in set : i <= Max(set)
<1>0. \A i \in set : i \in Nat /\ i <= n
  OBVIOUS
<1>1. ASSUME NEW m \in set, \A i \in set : i <= m PROVE Max(set) = m
  <2>1. Max(set) \in set /\ \A i \in set : i <= Max(set)
    BY <1>1, Zenon DEF Max
  <2>2. PICK top : top = Max(set)
    OBVIOUS
  <2>3. top \in Nat /\ m \in Nat /\ m <= top /\ top <= m
    BY <1>0, <1>1, <2>1, <2>2
  <2> QED
    BY <2>2, <2>3
<1>2. ASSUME set # {} PROVE \E m \in set : \A i \in set : i <= m
  <2> SUFFICES ASSUME \A m \in set : \E i \in set : ~ (i <= m) PROVE FALSE
    OBVIOUS
  <2> DEFINE good == {m \in Nat : \E i \in set : m <= i}
  <2>1. 0 \in good
    <3>1. PICK i \in set : TRUE
      BY <1>2
    <3> QED
      BY <1>0, <3>1
  <2>2. ASSUME NEW m \in Nat, m \in good PROVE m + 1 \in good
    BY <1>0, <2>2
  <2> HIDE DEF good
  <2>3. Nat \subseteq good
    BY <2>1, <2>2, NaturalsReached
  <2>4. n + 1 \in good
    BY <2>3
  <2> QED
    BY <2>4 DEF good
<1>3. ASSUME NEW m \in set, \A i \in set : i <= m
      PROVE  Max(set) \in set /\ \A i \in set : i <= Max(set)
  BY <1>1, <1>3
<1> QED
  BY <1>1, <1>2, <1>3

\* The places of a sequence, folded from the last.
Latest(n) == [s \in SUBSET (1..n) |-> Max(s)]

\* A value for each prefix, each from the one before.
IsAlong(along, n, base, step) ==
    /\ along[0] = base
    /\ \A k \in 0..(n - 1) : along[k + 1] = step[k + 1][along[k]]

\* A sequence can be folded from its last place.
LEMMA FoldsAlong ==
    ASSUME NEW n \in Nat, NEW values, NEW base \in values, NEW step,
           \A i \in 1..n, v \in values : step[i][v] \in values
    PROVE  \E f \in [SUBSET (1..n) -> values] :
              IsFold(f, 1..n, base, Latest(n), step)
<1>1. IsFiniteSet(1..n)
  BY FS_Interval
<1>2. \A s \in SUBSET (1..n) : s # {} => Latest(n)[s] \in s
  BY LatestFacts DEF Latest
<1> QED
  BY <1>1, <1>2, FoldsExist

\* Taking away the last place of a prefix.
LEMMA PrefixPlaces ==
    ASSUME NEW n \in Nat, NEW k \in 0..(n - 1)
    PROVE  /\ 1..(k + 1) \in SUBSET (1..n) /\ 1..k \in SUBSET (1..n)
           /\ 1..(k + 1) # {} /\ 1..0 = {}
           /\ Max(1..(k + 1)) = k + 1
           /\ (1..(k + 1)) \ {k + 1} = 1..k
<1>1. k + 1 \in 1..(k + 1) /\ \A i \in 1..(k + 1) : i <= k + 1
  OBVIOUS
<1>2. 1..(k + 1) \in SUBSET (1..n) /\ 1..k \in SUBSET (1..n)
  OBVIOUS
<1>3. Max(1..(k + 1)) = k + 1
  BY <1>1, <1>2, LatestFacts
<1>4. (1..(k + 1)) \ {k + 1} = 1..k
  OBVIOUS
<1> QED
  BY <1>1, <1>2, <1>3, <1>4

\* There are values for the prefixes, each from the one before.
LEMMA AlongExists ==
    ASSUME NEW n \in Nat, NEW values, NEW base \in values, NEW step,
           \A i \in 1..n, v \in values : step[i][v] \in values
    PROVE  \E along \in [0..n -> values] : IsAlong(along, n, base, step)
<1>1. PICK f \in [SUBSET (1..n) -> values] :
         IsFold(f, 1..n, base, Latest(n), step)
  BY FoldsAlong
<1> DEFINE along == [k \in 0..n |-> f[1..k]]
<1>2. along \in [0..n -> values]
  <2>1. \A k \in 0..n : 1..k \in SUBSET (1..n)
    OBVIOUS
  <2> QED
    BY <2>1
<1>3. along[0] = base
  <2>1. 1..0 = {} /\ 0 \in 0..n
    OBVIOUS
  <2> QED
    BY <1>1, <2>1 DEF IsFold
<1>4. ASSUME NEW k \in 0..(n - 1) PROVE along[k + 1] = step[k + 1][along[k]]
  <2>1. k \in 0..n /\ k + 1 \in 0..n
    OBVIOUS
  <2>2. f[1..(k + 1)] = step[Max(1..(k + 1))][f[(1..(k + 1)) \ {Max(1..(k + 1))}]]
    <3>1. PICK t : t = 1..(k + 1)
      OBVIOUS
    <3>2. t \in SUBSET (1..n) /\ t # {}
      BY <3>1, PrefixPlaces
    <3>3. f[t] = step[Max(t)][f[t \ {Max(t)}]]
      BY <1>1, <3>2 DEF IsFold, Latest
    <3> QED
      BY <3>1, <3>3
  <2> QED
    BY <2>1, <2>2, PrefixPlaces
<1> QED
  BY <1>2, <1>3, <1>4 DEF IsAlong
-----------------------------------------------------------------------------
Encodings == {"utf8", "utf16"}

\* A character takes something in either encoding.
LEMMA CharWidths ==
    ASSUME NEW text \in Seq(Char), NEW encoding \in Encodings
    PROVE  \A k \in 1..Len(text) :
              text[k][encoding] \in Nat /\ text[k][encoding] > 0
<1> SUFFICES ASSUME NEW k \in 1..Len(text)
             PROVE  text[k][encoding] \in Nat /\ text[k][encoding] > 0
  OBVIOUS
<1>1. PICK c \in Char : c = text[k]
  OBVIOUS
<1>2. c.utf8 \in 1..4 /\ c.utf16 \in 1..2
  BY DEF Char
<1>3. c[encoding] \in 1..4
  BY <1>2 DEF Encodings
<1> QED
  BY <1>1, <1>3

\* What a fold of widths is, place by place.
LEMMA SumAlong ==
    ASSUME NEW s \in Seq(Char), NEW encoding \in Encodings,
           NEW at \in [0..Len(s) -> Nat], at[0] = 0,
           \A k \in 0..(Len(s) - 1) : at[k + 1] = at[k] + s[k + 1][encoding]
    PROVE  FoldLeft(LAMBDA n, c : n + c[encoding], 0, s) = at[Len(s)]
<1>1. PICK n : n = Len(s)
  OBVIOUS
<1>2. n \in Nat /\ DOMAIN s = 1..n
  BY <1>1
<1> DEFINE
      sum[t \in SUBSET DOMAIN s] ==
        IF t = {} THEN 0 ELSE sum[t \ {Max(t)}] + s[Max(t)][encoding]
      IsSum(f) == f = [t \in SUBSET (1..n) |->
                         IF t = {} THEN 0
                         ELSE f[t \ {Max(t)}] + s[Max(t)][encoding]]
      step == [i \in 1..n |-> [v \in Nat |-> v + s[i][encoding]]]
<1>3. FoldLeft(LAMBDA m, c : m + c[encoding], 0, s) = sum[DOMAIN s]
  BY Zenon DEF FoldLeft, MapThenFoldSet
<1>4. \A i \in 1..n : s[i][encoding] \in Nat
  BY <1>1, CharWidths
<1>5. \A i \in 1..n, v \in Nat :
         step[i][v] = v + s[i][encoding] /\ step[i][v] \in Nat
  BY <1>4
<1>6. PICK f \in [SUBSET (1..n) -> Nat] : IsFold(f, 1..n, 0, Latest(n), step)
  <2> HIDE DEF step
  <2> QED
    BY <1>2, <1>5, FoldsAlong
<1>7. IsSum(f)
  <2>1. ASSUME NEW t \in SUBSET (1..n), t # {}
        PROVE  f[t] = f[t \ {Max(t)}] + s[Max(t)][encoding]
    <3>1. Max(t) \in 1..n /\ t \ {Max(t)} \in SUBSET (1..n)
      BY <1>2, <2>1, LatestFacts
    <3> HIDE DEF step
    <3>2. f[t] = step[Max(t)][f[t \ {Max(t)}]]
      BY <1>6, <2>1 DEF IsFold, Latest
    <3> QED
      BY <1>5, <3>1, <3>2
  <2>2. f[{}] = 0
    BY <1>6 DEF IsFold
  <2> QED
    BY <2>1, <2>2
<1>8. IsSum(sum)
  <2>1. \E g : IsSum(g)
    BY <1>7
  <2>2. sum = CHOOSE g : IsSum(g)
    BY <1>2
  <2> HIDE DEF sum, IsSum
  <2> QED
    BY <2>1, <2>2
<1> HIDE DEF sum, step
<1> DEFINE good == {k \in Nat : k <= n => sum[1..k] = at[k]}
<1>9. 0 \in good
  BY <1>8
<1>10. ASSUME NEW k \in Nat, k \in good PROVE k + 1 \in good
  <2> SUFFICES ASSUME k + 1 <= n PROVE sum[1..(k + 1)] = at[k + 1]
    OBVIOUS
  <2>1. k \in 0..(n - 1) /\ sum[1..k] = at[k]
    BY <1>2, <1>10
  <2>2. sum[1..(k + 1)]
          = sum[(1..(k + 1)) \ {Max(1..(k + 1))}] + s[Max(1..(k + 1))][encoding]
    <3>1. PICK t : t = 1..(k + 1)
      OBVIOUS
    <3>2. t \in SUBSET (1..n) /\ t # {}
      BY <1>2, <2>1, <3>1, PrefixPlaces
    <3>3. sum[t] = sum[t \ {Max(t)}] + s[Max(t)][encoding]
      BY <1>8, <3>2
    <3> QED
      BY <3>1, <3>3
  <2>3. sum[1..(k + 1)] = sum[1..k] + s[k + 1][encoding]
    BY <1>2, <2>1, <2>2, PrefixPlaces
  <2> QED
    BY <1>1, <2>1, <2>3
<1> HIDE DEF good
<1>11. n \in good
  BY <1>2, <1>9, <1>10, NaturalsReached
<1>12. sum[1..n] = at[n]
  BY <1>2, <1>11 DEF good
<1> QED
  BY <1>1, <1>2, <1>3, <1>12

\* How much the first characters take, one after the other.
IsUpTo(at, text, encoding) ==
    /\ at \in [0..Len(text) -> Nat]
    /\ at[0] = 0
    /\ \A k \in 0..(Len(text) - 1) : at[k + 1] = at[k] + text[k + 1][encoding]

\* There are such numbers.
LEMMA UpToExists ==
    ASSUME NEW text \in Seq(Char), NEW encoding \in Encodings
    PROVE  \E at : IsUpTo(at, text, encoding)
<1>1. PICK n : n = Len(text)
  OBVIOUS
<1>2. n \in Nat
  BY <1>1
<1> DEFINE step == [i \in 1..n |-> [v \in Nat |-> v + text[i][encoding]]]
<1>3. \A i \in 1..n, v \in Nat :
         step[i][v] = v + text[i][encoding] /\ step[i][v] \in Nat
  BY <1>1, CharWidths
<1>4. PICK at \in [0..n -> Nat] : IsAlong(at, n, 0, step)
  <2> HIDE DEF step
  <2> QED
    BY <1>2, <1>3, AlongExists
<1> HIDE DEF step
<1>5. ASSUME NEW k \in 0..(n - 1) PROVE at[k + 1] = at[k] + text[k + 1][encoding]
  <2>1. k + 1 \in 1..n /\ at[k] \in Nat
    BY <1>2
  <2> QED
    BY <1>3, <1>4, <2>1 DEF IsAlong
<1> QED
  BY <1>1, <1>4, <1>5 DEF IsUpTo, IsAlong

\* And UpTo is them.
LEMMA UpToIs ==
    ASSUME NEW text \in Seq(Char), NEW encoding \in Encodings,
           NEW at, IsUpTo(at, text, encoding), NEW count \in 0..Len(text)
    PROVE  UpTo(text, count, encoding) = at[count]
<1>1. PICK s : s = SubSeq(text, 1, count)
  OBVIOUS
<1>2. s \in Seq(Char) /\ Len(s) = count /\ \A k \in 1..count : s[k] = text[k]
  BY <1>1
<1> DEFINE first == [k \in 0..count |-> at[k]]
<1>3. first \in [0..Len(s) -> Nat] /\ first[0] = 0
  BY <1>2 DEF IsUpTo
<1>4. ASSUME NEW k \in 0..(Len(s) - 1) PROVE first[k + 1] = first[k] + s[k + 1][encoding]
  BY <1>2 DEF IsUpTo
<1> HIDE DEF first
<1>5. FoldLeft(LAMBDA n, c : n + c[encoding], 0, s) = first[Len(s)]
  BY <1>2, <1>3, <1>4, SumAlong
<1>6. UpTo(text, count, encoding) = FoldLeft(LAMBDA n, c : n + c[encoding], 0, s)
  BY Zenon, <1>1 DEF UpTo
<1>7. UpTo(text, count, encoding) = first[Len(s)]
  BY Zenon, <1>5, <1>6
<1> QED
  BY <1>2, <1>7 DEF first

\* The offset at which each character begins: it starts at nothing, and every
\* character takes something.
LEMMA UpToFacts ==
    ASSUME NEW text \in Seq(Char), NEW encoding \in Encodings
    PROVE  /\ UpTo(text, 0, encoding) = 0
           /\ \A k \in 0..Len(text) : UpTo(text, k, encoding) \in Nat
           /\ \A k \in 0..(Len(text) - 1) :
                 UpTo(text, k + 1, encoding)
                   = UpTo(text, k, encoding) + text[k + 1][encoding]
           /\ \A j, k \in 0..Len(text) :
                 j < k => UpTo(text, j, encoding) < UpTo(text, k, encoding)
<1>1. PICK at : IsUpTo(at, text, encoding)
  BY UpToExists
<1>2. PICK n : n = Len(text)
  OBVIOUS
<1>3. n \in Nat
  BY <1>2
<1>4. \A k \in 0..n : UpTo(text, k, encoding) = at[k] /\ at[k] \in Nat
  BY <1>1, <1>2, UpToIs DEF IsUpTo
<1>5. \A k \in 0..(n - 1) : at[k + 1] = at[k] + text[k + 1][encoding]
  BY <1>1, <1>2 DEF IsUpTo
<1>6. at[0] = 0
  BY <1>1 DEF IsUpTo
<1> DEFINE good == {k \in Nat : k <= n => \A j \in 0..n : j < k => at[j] < at[k]}
<1>7. 0 \in good
  BY <1>3
<1>8. ASSUME NEW k \in Nat, k \in good PROVE k + 1 \in good
  <2> SUFFICES ASSUME k + 1 <= n, NEW j \in 0..n, j < k + 1 PROVE at[j] < at[k + 1]
    OBVIOUS
  <2>1. k \in 0..(n - 1) /\ k \in 0..n /\ k + 1 \in 1..n
    BY <1>3
  <2>2. at[k + 1] = at[k] + text[k + 1][encoding] /\ at[k] \in Nat /\ at[j] \in Nat
    BY <1>4, <1>5, <2>1
  <2>3. text[k + 1][encoding] \in Nat /\ text[k + 1][encoding] > 0
    BY <1>2, <2>1, CharWidths
  <2>4. j = k \/ j < k
    BY <1>3
  <2> QED
    BY <1>8, <2>1, <2>2, <2>3, <2>4
<1> HIDE DEF good
<1>9. \A k \in 0..n : k \in good
  BY <1>7, <1>8, NaturalsReached
<1>10. \A j, k \in 0..n : j < k => at[j] < at[k]
  BY <1>3, <1>9 DEF good
<1>11. 0 \in 0..n /\ \A k \in 0..(n - 1) : k \in 0..n /\ k + 1 \in 0..n
  BY <1>3
<1> QED
  BY <1>2, <1>4, <1>5, <1>6, <1>10, <1>11

-----------------------------------------------------------------------------
\* Where a walk can be.
Stop == [at : Nat, other : Nat, previous : Nat]

\* Where it goes from there.
Onward(w, c, from, to, offset) ==
    IF w.at >= offset
    THEN w
    ELSE [at |-> w.at + c[from], other |-> w.other + c[to], previous |-> w.at]

Outset == [at |-> 0, other |-> 0, previous |-> 0]

\* A walk stays among the places where it can be.
LEMMA OnwardStops ==
    ASSUME NEW c \in Char, NEW from \in Encodings, NEW to \in Encodings,
           NEW offset \in Nat, NEW w \in Stop
    PROVE  Onward(w, c, from, to, offset) \in Stop
<1>1. c.utf8 \in 1..4 /\ c.utf16 \in 1..2
  BY DEF Char
<1>2. c[from] \in Nat /\ c[to] \in Nat
  BY <1>1 DEF Encodings
<1>3. w.at \in Nat /\ w.other \in Nat
  BY DEF Stop
<1>4. w.at + c[from] \in Nat /\ w.other + c[to] \in Nat
  BY <1>2, <1>3
<1>5. [at |-> w.at + c[from], other |-> w.other + c[to], previous |-> w.at] \in Stop
  BY <1>3, <1>4 DEF Stop
<1> QED
  BY <1>5 DEF Onward

\* What the fold of a walk is, character by character.
LEMMA WalkAlong ==
    ASSUME NEW text \in Seq(Char), NEW from \in Encodings, NEW to \in Encodings,
           NEW offset \in Nat,
           NEW w \in [0..Len(text) -> Stop], w[0] = Outset,
           \A k \in 0..(Len(text) - 1) :
              w[k + 1] = Onward(w[k], text[k + 1], from, to, offset)
    PROVE  Walk(text, from, to, offset) = w[Len(text)]
<1>1. PICK n : n = Len(text)
  OBVIOUS
<1>2. n \in Nat /\ DOMAIN text = 1..n
  BY <1>1
<1> DEFINE
      walk[t \in SUBSET DOMAIN text] ==
        IF t = {} THEN [at |-> 0, other |-> 0, previous |-> 0]
        ELSE IF walk[t \ {Max(t)}].at >= offset
             THEN walk[t \ {Max(t)}]
             ELSE [at       |-> walk[t \ {Max(t)}].at + text[Max(t)][from],
                   other    |-> walk[t \ {Max(t)}].other + text[Max(t)][to],
                   previous |-> walk[t \ {Max(t)}].at]
      IsWalk(f) == f = [t \in SUBSET (1..n) |->
                          IF t = {} THEN Outset
                          ELSE Onward(f[t \ {Max(t)}], text[Max(t)],
                                      from, to, offset)]
      step == [i \in 1..n |->
                 [v \in Stop |-> Onward(v, text[i], from, to, offset)]]
<1>3. Walk(text, from, to, offset) = walk[DOMAIN text]
  BY Zenon DEF Walk, FoldLeft, MapThenFoldSet
<1>4. \A i \in 1..n, v \in Stop :
         /\ step[i][v] = Onward(v, text[i], from, to, offset)
         /\ step[i][v] \in Stop
  BY <1>2, OnwardStops
<1>5. Outset \in Stop
  BY DEF Outset, Stop
<1>6. PICK f \in [SUBSET (1..n) -> Stop] : IsFold(f, 1..n, Outset, Latest(n), step)
  <2> HIDE DEF step
  <2> QED
    BY <1>2, <1>4, <1>5, FoldsAlong
<1>7. IsWalk(f)
  <2>1. ASSUME NEW t \in SUBSET (1..n), t # {}
        PROVE  f[t] = Onward(f[t \ {Max(t)}], text[Max(t)], from, to, offset)
    <3>1. Max(t) \in 1..n /\ t \ {Max(t)} \in SUBSET (1..n)
      BY <1>2, <2>1, LatestFacts
    <3> HIDE DEF step
    <3>2. f[t] = step[Max(t)][f[t \ {Max(t)}]]
      BY <1>6, <2>1 DEF IsFold, Latest
    <3> QED
      BY <1>4, <3>1, <3>2
  <2>2. f[{}] = Outset
    BY <1>6 DEF IsFold
  <2> QED
    BY <2>1, <2>2
<1>8. IsWalk(walk)
  <2>1. \E g : IsWalk(g)
    BY <1>7
  <2>2. walk = CHOOSE g : IsWalk(g)
    BY Zenon, <1>2 DEF Onward, Outset
  <2> HIDE DEF walk, IsWalk
  <2> QED
    BY <2>1, <2>2
<1> HIDE DEF walk, step
<1> DEFINE good == {k \in Nat : k <= n => walk[1..k] = w[k]}
<1>9. 0 \in good
  BY <1>8
<1>10. ASSUME NEW k \in Nat, k \in good PROVE k + 1 \in good
  <2> SUFFICES ASSUME k + 1 <= n PROVE walk[1..(k + 1)] = w[k + 1]
    OBVIOUS
  <2>1. k \in 0..(n - 1) /\ walk[1..k] = w[k]
    BY <1>2, <1>10
  <2>2. walk[1..(k + 1)] = Onward(walk[(1..(k + 1)) \ {Max(1..(k + 1))}],
                                  text[Max(1..(k + 1))], from, to, offset)
    <3>1. PICK t : t = 1..(k + 1)
      OBVIOUS
    <3>2. t \in SUBSET (1..n) /\ t # {}
      BY <1>2, <2>1, <3>1, PrefixPlaces
    <3>3. walk[t] = Onward(walk[t \ {Max(t)}], text[Max(t)], from, to, offset)
      BY <1>8, <3>2
    <3> QED
      BY <3>1, <3>3
  <2>3. walk[1..(k + 1)] = Onward(walk[1..k], text[k + 1], from, to, offset)
    BY <1>2, <2>1, <2>2, PrefixPlaces
  <2> QED
    BY <1>1, <2>1, <2>3
<1> HIDE DEF good
<1>11. n \in good
  BY <1>2, <1>9, <1>10, NaturalsReached
<1>12. walk[1..n] = w[n]
  BY <1>2, <1>11 DEF good
<1> QED
  BY <1>1, <1>2, <1>3, <1>12

\* A walk has stopped before the character after the first m, the first one
\* that does not begin before the offset, or at the end.
StopsBefore(m, w, text, from, to, offset) ==
    /\ m \in 0..Len(text)
    /\ w.at = UpTo(text, m, from)
    /\ w.other = UpTo(text, m, to)
    /\ w.previous = IF m = 0 THEN 0 ELSE UpTo(text, m - 1, from)
    /\ m = Len(text) \/ UpTo(text, m, from) >= offset
    /\ \A j \in 0..(m - 1) : UpTo(text, j, from) < offset

\* Every walk stops so.
LEMMA WalkStops ==
    ASSUME NEW text \in Seq(Char), NEW from \in Encodings, NEW to \in Encodings,
           NEW offset \in Nat
    PROVE  \E m : StopsBefore(m, Walk(text, from, to, offset), text, from, to, offset)
<1>1. PICK n : n = Len(text)
  OBVIOUS
<1>2. n \in Nat
  BY <1>1
<1>3. PICK a, b : /\ a = [k \in 0..n |-> UpTo(text, k, from)]
                  /\ b = [k \in 0..n |-> UpTo(text, k, to)]
  OBVIOUS
<1>4. /\ a[0] = 0 /\ b[0] = 0
      /\ \A k \in 0..n : a[k] \in Nat /\ b[k] \in Nat
      /\ \A k \in 0..(n - 1) : /\ a[k + 1] = a[k] + text[k + 1][from]
                               /\ b[k + 1] = b[k] + text[k + 1][to]
  <2>1. 0 \in 0..n /\ \A k \in 0..(n - 1) : k \in 0..n /\ k + 1 \in 0..n
    BY <1>2
  <2> QED
    BY <1>1, <1>3, <2>1, UpToFacts
<1> DEFINE step == [i \in 1..n |->
                      [v \in Stop |-> Onward(v, text[i], from, to, offset)]]
<1>5. \A i \in 1..n, v \in Stop :
         /\ step[i][v] = Onward(v, text[i], from, to, offset)
         /\ step[i][v] \in Stop
  BY <1>1, OnwardStops
<1>6. Outset \in Stop
  BY DEF Outset, Stop
<1>7. PICK w \in [0..n -> Stop] : IsAlong(w, n, Outset, step)
  <2> HIDE DEF step
  <2> QED
    BY <1>2, <1>5, <1>6, AlongExists
<1> HIDE DEF step
<1>8. w[0] = Outset
  BY <1>7 DEF IsAlong
<1>9. ASSUME NEW k \in 0..(n - 1)
      PROVE  w[k + 1] = Onward(w[k], text[k + 1], from, to, offset)
  <2>1. k + 1 \in 1..n /\ w[k] \in Stop
    BY <1>2
  <2> QED
    BY <1>5, <1>7, <2>1 DEF IsAlong
<1>10. Walk(text, from, to, offset) = w[n]
  BY <1>1, <1>8, <1>9, WalkAlong
<1> DEFINE Before(m, k) ==
             /\ w[k].at = a[m] /\ w[k].other = b[m]
             /\ w[k].previous = IF m = 0 THEN 0 ELSE a[m - 1]
             /\ m = k \/ a[m] >= offset
             /\ \A j \in 0..(m - 1) : a[j] < offset
           good == {k \in Nat : k <= n => \E m \in 0..k : Before(m, k)}
<1>11. 0 \in good
  <2>1. Before(0, 0)
    BY <1>4, <1>8 DEF Outset
  <2> QED
    BY <2>1
<1>12. ASSUME NEW k \in Nat, k \in good PROVE k + 1 \in good
  <2> SUFFICES ASSUME k + 1 <= n PROVE \E m \in 0..(k + 1) : Before(m, k + 1)
    OBVIOUS
  <2>1. PICK m \in 0..k : Before(m, k)
    <3>1. k <= n
      BY <1>2
    <3> HIDE DEF Before
    <3> QED
      BY <1>12, <3>1
  <2>2. k \in 0..(n - 1) /\ m \in 0..n
    BY <1>2
  <2>3. w[k + 1] = Onward(w[k], text[k + 1], from, to, offset)
    BY <1>9, <2>2
  <2>4. CASE a[m] >= offset
    <3>1. w[k + 1] = w[k]
      BY <2>1, <2>3, <2>4 DEF Onward
    <3>2. Before(m, k + 1)
      BY <2>1, <2>4, <3>1
    <3> HIDE DEF Before
    <3> QED
      BY <3>2
  <2>5. CASE ~ (a[m] >= offset)
    <3>1. m = k
      BY <2>1, <2>5
    <3>2. w[k + 1] = [at       |-> a[k] + text[k + 1][from],
                      other    |-> b[k] + text[k + 1][to],
                      previous |-> a[k]]
      BY <2>1, <2>3, <2>5, <3>1 DEF Onward
    <3>3. /\ w[k + 1].at = a[k + 1] /\ w[k + 1].other = b[k + 1]
          /\ w[k + 1].previous = a[k]
      BY <1>4, <2>2, <3>2
    <3>4. \A j \in 0..((k + 1) - 1) : a[j] < offset
      <4>1. a[k] < offset
        BY <1>4, <2>2, <2>5, <3>1
      <4>2. \A j \in 0..((k + 1) - 1) : j = k \/ j \in 0..(k - 1)
        OBVIOUS
      <4> QED
        BY <2>1, <3>1, <4>1, <4>2
    <3>5. Before(k + 1, k + 1)
      BY <3>3, <3>4
    <3> HIDE DEF Before
    <3> QED
      BY <3>5
  <2> QED
    BY <2>4, <2>5
<1> HIDE DEF good
<1>13. n \in good
  BY <1>2, <1>11, <1>12, NaturalsReached
<1>14. PICK m \in 0..n : Before(m, n)
  BY <1>2, <1>13 DEF good
<1>15. /\ a[m] = UpTo(text, m, from) /\ b[m] = UpTo(text, m, to)
       /\ m # 0 => a[m - 1] = UpTo(text, m - 1, from)
       /\ \A j \in 0..(m - 1) : a[j] = UpTo(text, j, from)
  BY <1>2, <1>3
<1>16. StopsBefore(m, Walk(text, from, to, offset), text, from, to, offset)
  BY <1>1, <1>10, <1>14, <1>15 DEF StopsBefore
<1> QED
  BY <1>16

\* Where a character begins, the conversion is that of the character.
LEMMA ConvertedAtABegin ==
    ASSUME NEW text \in Seq(Char), NEW from \in Encodings, NEW to \in Encodings,
           NEW k \in 0..Len(text)
    PROVE  Converted(text, from, to, UpTo(text, k, from))
             = [ok |-> TRUE, offset |-> UpTo(text, k, to)]
<1>1. PICK n, offset, w : /\ n = Len(text) /\ offset = UpTo(text, k, from)
                          /\ w = Walk(text, from, to, offset)
  OBVIOUS
<1>2. n \in Nat /\ offset \in Nat
  BY <1>1, UpToFacts
<1>3. PICK m \in 0..n :
         /\ w.at = UpTo(text, m, from) /\ w.other = UpTo(text, m, to)
         /\ m = n \/ UpTo(text, m, from) >= offset
         /\ \A j \in 0..(m - 1) : UpTo(text, j, from) < offset
  <2>1. PICK m : StopsBefore(m, Walk(text, from, to, offset), text, from, to, offset)
    BY <1>2, WalkStops
  <2>2. StopsBefore(m, w, text, from, to, offset)
    BY <1>1, <2>1
  <2> QED
    BY <1>1, <2>2 DEF StopsBefore
<1>4. ~ (k < m)
  BY <1>1, <1>2, <1>3
<1>5. ~ (m < k)
  <2>1. m < k => UpTo(text, m, from) < offset
    BY <1>1, <1>3, UpToFacts
  <2>2. UpTo(text, m, from) \in Nat
    BY <1>1, <1>3, UpToFacts
  <2> QED
    BY <1>1, <1>2, <1>3, <2>1, <2>2
<1>6. m = k
  BY <1>1, <1>2, <1>4, <1>5
<1>7. w.at = offset /\ w.other = UpTo(text, k, to)
  BY <1>1, <1>3, <1>6
<1> QED
  BY <1>1, <1>7 DEF Converted

\* Elsewhere it is refused, with the last character that begins before.
LEMMA RefusedElsewhere ==
    ASSUME NEW text \in Seq(Char), NEW from \in Encodings, NEW to \in Encodings,
           NEW offset \in Nat,
           \A k \in 0..Len(text) : UpTo(text, k, from) # offset
    PROVE  /\ Converted(text, from, to, offset).ok = FALSE
           /\ Converted(text, from, to, offset).offset =
                Max({0} \cup {b \in {UpTo(text, k, from) : k \in 0..Len(text)}
                                      \ {Width(text, from)} : b < offset})
<1>1. PICK n, w : n = Len(text) /\ w = Walk(text, from, to, offset)
  OBVIOUS
<1>2. PICK a : a = [k \in 0..n |-> UpTo(text, k, from)]
  OBVIOUS
<1>3. /\ n \in Nat /\ a[0] = 0
      /\ \A k \in 0..n : a[k] = UpTo(text, k, from) /\ a[k] \in Nat /\ a[k] # offset
      /\ \A j, k \in 0..n : j < k => a[j] < a[k]
  BY <1>1, <1>2, UpToFacts
<1>4. PICK m \in 0..n :
         /\ w.at = a[m] /\ w.previous = IF m = 0 THEN 0 ELSE a[m - 1]
         /\ m = n \/ a[m] >= offset
         /\ \A j \in 0..(m - 1) : a[j] < offset
  <2>1. PICK m \in 0..n :
           /\ w.at = UpTo(text, m, from)
           /\ w.previous = IF m = 0 THEN 0 ELSE UpTo(text, m - 1, from)
           /\ m = n \/ UpTo(text, m, from) >= offset
           /\ \A j \in 0..(m - 1) : UpTo(text, j, from) < offset
    <3>1. PICK m : StopsBefore(m, Walk(text, from, to, offset), text, from, to, offset)
      BY WalkStops
    <3>2. StopsBefore(m, w, text, from, to, offset)
      BY <1>1, <3>1
    <3> QED
      BY <1>1, <3>2 DEF StopsBefore
  <2>2. m # 0 => m - 1 \in 0..n
    BY <1>3
  <2>3. \A j \in 0..(m - 1) : j \in 0..n
    BY <1>3
  <2> QED
    BY <1>3, <2>1, <2>2, <2>3
<1> DEFINE begins == {a[k] : k \in 0..n}
           set == {0} \cup {b \in begins \ {a[n]} : b < offset}
           last == IF m = 0 THEN 0 ELSE a[m - 1]
<1>5. last \in set
  <2>1. CASE m = 0
    BY <2>1
  <2>2. CASE m # 0
    <3>1. m - 1 \in 0..n /\ m - 1 \in 0..(m - 1) /\ m - 1 < n
      BY <1>3, <2>2
    <3>2. a[m - 1] < offset /\ a[m - 1] < a[n] /\ a[m - 1] \in Nat /\ a[n] \in Nat
      BY <1>3, <1>4, <3>1
    <3> QED
      BY <2>2, <3>1, <3>2
  <2> QED
    BY <2>1, <2>2
<1>6. ASSUME NEW b \in set PROVE b \in Nat /\ b <= last
  <2>1. CASE b = 0
    <3>1. m # 0 => a[m - 1] \in Nat
      BY <1>3
    <3> QED
      BY <2>1, <3>1
  <2>2. ASSUME NEW j \in 0..n, b = a[j], b # a[n], b < offset
        PROVE  b \in Nat /\ b <= last
    <3>1. j < n /\ a[j] \in Nat
      BY <1>3, <2>2
    <3>2. ~ (m <= j)
      <4>1. CASE m = n
        BY <1>3, <3>1, <4>1
      <4>2. CASE a[m] >= offset
        <5>1. m < j => a[m] < a[j]
          BY <1>3
        <5>2. a[m] \in Nat
          BY <1>3
        <5> QED
          BY <1>3, <2>2, <3>1, <4>2, <5>1, <5>2
      <4> QED
        BY <1>4, <4>1, <4>2
    <3>3. m # 0 /\ m - 1 \in 0..n /\ (j = m - 1 \/ j < m - 1)
      BY <1>3, <3>1, <3>2
    <3>4. a[m - 1] \in Nat /\ (j < m - 1 => a[j] < a[m - 1])
      BY <1>3, <3>3
    <3> QED
      BY <2>2, <3>1, <3>3, <3>4
  <2> QED
    BY <2>1, <2>2
<1> HIDE DEF set, last
<1>7. Max(set) = last
  <2>1. \E x \in set : \A b \in set : x >= b
    BY <1>5, <1>6
  <2>2. Max(set) \in set /\ \A b \in set : Max(set) >= b
    BY Zenon, <2>1 DEF Max
  <2>3. PICK top : top = Max(set)
    OBVIOUS
  <2>4. top \in Nat /\ last \in Nat /\ top <= last /\ last <= top
    BY <1>5, <1>6, <2>2, <2>3
  <2> QED
    BY <2>3, <2>4
<1>8. w.at # offset /\ w.previous = last
  BY <1>3, <1>4 DEF last
<1>9. Width(text, from) = a[n]
  BY <1>1, <1>3 DEF Width
<1>10. begins = {UpTo(text, k, from) : k \in 0..Len(text)}
  BY <1>1, <1>3
<1>11. set = {0} \cup {b \in {UpTo(text, k, from) : k \in 0..Len(text)}
                             \ {Width(text, from)} : b < offset}
  BY <1>9, <1>10 DEF set
<1>12. Converted(text, from, to, offset) = [ok |-> FALSE, offset |-> last]
  BY <1>1, <1>8 DEF Converted
<1> QED
  BY <1>7, <1>11, <1>12

\* A text is converted there and back where characters begin, and nowhere else.
LEMMA ConvertsText ==
    ASSUME NEW text \in Seq(Char), NEW from \in Encodings, NEW to \in Encodings
    PROVE  ConvertsWhereCharactersBegin(text, from, to)
<1> DEFINE begins == {UpTo(text, k, from) : k \in 0..Len(text)}
           end    == Width(text, from)
           There(offset) == Converted(text, from, to, offset)
           Back(offset) == Converted(text, to, from, There(offset).offset)
<1>1. ASSUME NEW offset \in begins
      PROVE  There(offset).ok /\ Back(offset) = [ok |-> TRUE, offset |-> offset]
  <2>1. PICK k \in 0..Len(text) : offset = UpTo(text, k, from)
    OBVIOUS
  <2>2. There(offset) = [ok |-> TRUE, offset |-> UpTo(text, k, to)]
    BY <2>1, ConvertedAtABegin
  <2>3. Converted(text, to, from, UpTo(text, k, to)) = [ok |-> TRUE, offset |-> offset]
    BY <2>1, ConvertedAtABegin
  <2> QED
    BY <2>2, <2>3
<1>2. ASSUME NEW offset \in Nat, offset \notin begins
      PROVE  /\ ~ There(offset).ok
             /\ There(offset).offset = Max({0} \cup {b \in begins \ {end} : b < offset})
  <2>1. \A k \in 0..Len(text) : UpTo(text, k, from) # offset
    BY <1>2
  <2> QED
    BY <2>1, RefusedElsewhere
<1>3. end \in Nat /\ \A offset \in 0..(end + 2) : offset \in Nat
  BY UpToFacts DEF Width
<1> HIDE DEF begins, end, There, Back
<1>4. \A offset \in 0..(end + 2) :
         IF offset \in begins
         THEN There(offset).ok /\ Back(offset) = [ok |-> TRUE, offset |-> offset]
         ELSE /\ ~ There(offset).ok
              /\ There(offset).offset = Max({0} \cup {b \in begins \ {end} : b < offset})
  BY <1>1, <1>2, <1>3
<1> QED
  BY Zenon, <1>4 DEF ConvertsWhereCharactersBegin, begins, end, There, Back
-----------------------------------------------------------------------------
\* What a line leaves in a text.
WithLine(text, l, ending) ==
    text \o CharsOf(l) \o [k \in 1..ending |-> [utf8 |-> 1, utf16 |-> 1]]

Lines == Line \cup {Blank}

\* A line adds characters to a text.
LEMMA LineIsText ==
    ASSUME NEW l \in Lines, NEW ending \in {1, 2}, NEW text \in Seq(Char)
    PROVE  WithLine(text, l, ending) \in Seq(Char)
<1>1. CharsOf(l) \in Seq(Char)
  BY FrontendAssumption DEF Lines
<1>2. [utf8 |-> 1, utf16 |-> 1] \in Char
  BY DEF Char
<1>3. [k \in 1..ending |-> [utf8 |-> 1, utf16 |-> 1]] \in Seq(Char)
  <2> DEFINE end == [k \in 1..ending |-> [utf8 |-> 1, utf16 |-> 1]]
  <2>1. end \in [1..ending -> Char] /\ ending \in Nat
    BY <1>2
  <2> HIDE DEF end
  <2>2. end \in Seq(Char)
    BY <2>1
  <2> QED
    BY <2>2 DEF end
<1> QED
  BY <1>1, <1>3 DEF WithLine

\* The text of the first lines of a source, line by line.
IsText(t, src, ending) ==
    /\ t \in [0..Len(src) -> Seq(Char)]
    /\ t[0] = <<>>
    /\ \A k \in 0..(Len(src) - 1) : t[k + 1] = WithLine(t[k], src[k + 1], ending)

\* Every source has a text, line by line.
LEMMA TextExists ==
    ASSUME NEW src \in Seq(Lines), NEW ending \in {1, 2}
    PROVE  \E t : IsText(t, src, ending)
<1>1. PICK n : n = Len(src)
  OBVIOUS
<1>2. n \in Nat
  BY <1>1
<1> DEFINE step == [i \in 1..n |-> [v \in Seq(Char) |-> WithLine(v, src[i], ending)]]
<1>3. \A i \in 1..n, v \in Seq(Char) :
         step[i][v] = WithLine(v, src[i], ending) /\ step[i][v] \in Seq(Char)
  <2>1. \A i \in 1..n : src[i] \in Lines
    BY <1>1
  <2> QED
    BY <2>1, LineIsText
<1>4. PICK t \in [0..n -> Seq(Char)] : IsAlong(t, n, <<>>, step)
  <2>1. <<>> \in Seq(Char)
    OBVIOUS
  <2> HIDE DEF step
  <2> QED
    BY <1>2, <1>3, <2>1, AlongExists
<1> HIDE DEF step
<1>5. ASSUME NEW k \in 0..(n - 1) PROVE t[k + 1] = WithLine(t[k], src[k + 1], ending)
  <2>1. k + 1 \in 1..n /\ t[k] \in Seq(Char)
    BY <1>2
  <2> QED
    BY <1>3, <1>4, <2>1 DEF IsAlong
<1>6. t[0] = <<>>
  BY <1>4 DEF IsAlong
<1> QED
  BY <1>1, <1>4, <1>5, <1>6 DEF IsText

\* The text of a source is that.
LEMMA TextAlong ==
    ASSUME NEW src \in Seq(Lines), NEW ending \in {1, 2},
           NEW t, IsText(t, src, ending)
    PROVE  TextOf(src, ending) = t[Len(src)]
<1>1. PICK n : n = Len(src)
  OBVIOUS
<1>2. n \in Nat /\ DOMAIN src = 1..n
  BY <1>1
<1> DEFINE
      text[s \in SUBSET DOMAIN src] ==
        IF s = {} THEN <<>>
        ELSE text[s \ {Max(s)}] \o CharsOf(src[Max(s)])
               \o [k \in 1..ending |-> [utf8 |-> 1, utf16 |-> 1]]
      IsFolded(f) == f = [s \in SUBSET (1..n) |->
                          IF s = {} THEN <<>>
                          ELSE WithLine(f[s \ {Max(s)}], src[Max(s)], ending)]
      step == [i \in 1..n |-> [v \in Seq(Char) |-> WithLine(v, src[i], ending)]]
<1>3. TextOf(src, ending) = text[DOMAIN src]
  BY Zenon DEF TextOf, FoldLeft, MapThenFoldSet
<1>4. \A i \in 1..n, v \in Seq(Char) :
         step[i][v] = WithLine(v, src[i], ending) /\ step[i][v] \in Seq(Char)
  <2>1. \A i \in 1..n : src[i] \in Lines
    BY <1>1
  <2> QED
    BY <2>1, LineIsText
<1>5. <<>> \in Seq(Char)
  OBVIOUS
<1>6. PICK f \in [SUBSET (1..n) -> Seq(Char)] : IsFold(f, 1..n, <<>>, Latest(n), step)
  <2> HIDE DEF step
  <2> QED
    BY <1>2, <1>4, <1>5, FoldsAlong
<1>7. IsFolded(f)
  <2>1. ASSUME NEW s \in SUBSET (1..n), s # {}
        PROVE  f[s] = WithLine(f[s \ {Max(s)}], src[Max(s)], ending)
    <3>1. Max(s) \in 1..n /\ s \ {Max(s)} \in SUBSET (1..n)
      BY <1>2, <2>1, LatestFacts
    <3> HIDE DEF step
    <3>2. f[s] = step[Max(s)][f[s \ {Max(s)}]]
      BY <1>6, <2>1 DEF IsFold, Latest
    <3>3. f[s \ {Max(s)}] \in Seq(Char)
      BY <1>6, <3>1
    <3> QED
      BY <1>4, <3>1, <3>2, <3>3
  <2>2. f[{}] = <<>>
    BY <1>6 DEF IsFold
  <2> QED
    BY <2>1, <2>2
<1>8. IsFolded(text)
  <2>1. \E g : IsFolded(g)
    BY <1>7
  <2>2. text = CHOOSE g : IsFolded(g)
    BY Zenon, <1>2 DEF WithLine
  <2> HIDE DEF text, IsFolded
  <2> QED
    BY <2>1, <2>2
<1> HIDE DEF text, step
<1> DEFINE good == {k \in Nat : k <= n => text[1..k] = t[k]}
<1>9. 0 \in good
  BY <1>8 DEF IsText
<1>10. ASSUME NEW k \in Nat, k \in good PROVE k + 1 \in good
  <2> SUFFICES ASSUME k + 1 <= n PROVE text[1..(k + 1)] = t[k + 1]
    OBVIOUS
  <2>1. k \in 0..(n - 1) /\ text[1..k] = t[k]
    BY <1>2, <1>10
  <2>2. text[1..(k + 1)] = WithLine(text[(1..(k + 1)) \ {Max(1..(k + 1))}],
                                    src[Max(1..(k + 1))], ending)
    <3>1. PICK s : s = 1..(k + 1)
      OBVIOUS
    <3>2. s \in SUBSET (1..n) /\ s # {}
      BY <1>2, <2>1, <3>1, PrefixPlaces
    <3>3. text[s] = WithLine(text[s \ {Max(s)}], src[Max(s)], ending)
      BY <1>8, <3>2
    <3> QED
      BY <3>1, <3>3
  <2>3. text[1..(k + 1)] = WithLine(text[1..k], src[k + 1], ending)
    BY <1>2, <2>1, <2>2, PrefixPlaces
  <2> QED
    BY <1>1, <2>1, <2>3 DEF IsText
<1> HIDE DEF good
<1>11. n \in good
  BY <1>2, <1>9, <1>10, NaturalsReached
<1>12. text[1..n] = t[n]
  BY <1>2, <1>11 DEF good
<1> QED
  BY <1>1, <1>2, <1>3, <1>12

\* The text of a source is a text.
LEMMA TextIsText ==
    ASSUME NEW src \in Seq(Lines), NEW ending \in {1, 2}
    PROVE  TextOf(src, ending) \in Seq(Char)
<1>1. PICK t : IsText(t, src, ending)
  BY TextExists
<1>2. TextOf(src, ending) = t[Len(src)]
  BY <1>1, TextAlong
<1> QED
  BY <1>1, <1>2 DEF IsText

-----------------------------------------------------------------------------
\* An offset of either encoding is converted to the other and back where a
\* character begins and at the end, and refused elsewhere, on every source
\* (candidate.rs, utf16_offset_of and byte_offset_of).
THEOREM OffsetsSafe == Spec => []OffsetsConvertOrAreRefused
<1>1. FrontendInv => OffsetsConvertOrAreRefused
  <2> SUFFICES ASSUME FrontendInv, NEW ending \in {1, 2}
               PROVE  /\ ConvertsWhereCharactersBegin(TextOf(source, ending),
                                                      "utf8", "utf16")
                      /\ ConvertsWhereCharactersBegin(TextOf(source, ending),
                                                      "utf16", "utf8")
    BY DEF OffsetsConvertOrAreRefused
  <2>1. source \in Seq(Lines)
    <3>1. source \in Sources \/ source = <<>>
      BY DEF FrontendInv, SessionOK
    <3>2. Sources \subseteq Seq(Lines)
      BY FrontendAssumption DEF Lines
    <3>3. <<>> \in Seq(Lines)
      OBVIOUS
    <3> HIDE DEF Lines
    <3> QED
      BY Zenon, <3>1, <3>2, <3>3
  <2>2. TextOf(source, ending) \in Seq(Char)
    BY <2>1, TextIsText
  <2> QED
    BY <2>2, ConvertsText DEF Encodings
<1> QED
  BY <1>1, Invariance, PTL

-----------------------------------------------------------------------------
\* How much the first characters take depends on them alone.
LEMMA UpToPrefix ==
    ASSUME NEW a \in Seq(Char), NEW b \in Seq(Char), NEW encoding \in Encodings,
           NEW j \in 0..Len(a), j <= Len(b), \A k \in 1..j : a[k] = b[k]
    PROVE  UpTo(a, j, encoding) = UpTo(b, j, encoding)
<1>1. PICK at : IsUpTo(at, a, encoding)
  BY UpToExists
<1>2. PICK bt : IsUpTo(bt, b, encoding)
  BY UpToExists
<1>3. PICK m, n : m = Len(a) /\ n = Len(b)
  OBVIOUS
<1>4. m \in Nat /\ n \in Nat /\ j \in 0..m /\ j \in 0..n /\ j \in Nat
  BY <1>3
<1>5. /\ at[0] = 0 /\ bt[0] = 0
      /\ \A k \in 0..(j - 1) : at[k + 1] = at[k] + a[k + 1][encoding]
      /\ \A k \in 0..(j - 1) : bt[k + 1] = bt[k] + b[k + 1][encoding]
  <2>1. \A k \in 0..(j - 1) : k \in 0..(m - 1) /\ k \in 0..(n - 1)
    BY <1>4
  <2> QED
    BY <1>1, <1>2, <1>3, <2>1 DEF IsUpTo
<1> DEFINE good == {k \in Nat : k <= j => at[k] = bt[k]}
<1>6. 0 \in good
  BY <1>5
<1>7. ASSUME NEW k \in Nat, k \in good PROVE k + 1 \in good
  <2> SUFFICES ASSUME k + 1 <= j PROVE at[k + 1] = bt[k + 1]
    OBVIOUS
  <2>1. k \in 0..(j - 1) /\ k + 1 \in 1..j /\ at[k] = bt[k]
    BY <1>4, <1>7
  <2> QED
    BY <1>5, <2>1
<1> HIDE DEF good
<1>8. j \in good
  BY <1>4, <1>6, <1>7, NaturalsReached
<1>9. at[j] = bt[j]
  BY <1>4, <1>8 DEF good
<1>10. UpTo(a, j, encoding) = at[j]
  BY <1>1, UpToIs
<1>11. UpTo(b, j, encoding) = bt[j]
  BY <1>2, <1>3, <1>4, UpToIs
<1> QED
  BY <1>9, <1>10, <1>11

\* And beyond a text, on what follows it.
LEMMA UpToBeyond ==
    ASSUME NEW a \in Seq(Char), NEW b \in Seq(Char), NEW encoding \in Encodings,
           NEW j \in 0..Len(b)
    PROVE  UpTo(a \o b, Len(a) + j, encoding)
             = Width(a, encoding) + UpTo(b, j, encoding)
<1>1. PICK c, m, n : c = a \o b /\ m = Len(a) /\ n = Len(b)
  OBVIOUS
<1>2. /\ c \in Seq(Char) /\ Len(c) = m + n /\ m \in Nat /\ n \in Nat
      /\ \A k \in 1..m : c[k] = a[k]
      /\ \A k \in 1..n : c[m + k] = b[k]
  BY <1>1
<1> DEFINE good == {k \in Nat : k <= n =>
                      UpTo(c, m + k, encoding) = Width(a, encoding) + UpTo(b, k, encoding)}
<1>3. 0 \in good
  <2>1. UpTo(c, m, encoding) = UpTo(a, m, encoding)
    <3>1. m \in 0..Len(a) /\ m <= Len(c) /\ \A k \in 1..m : a[k] = c[k]
      BY <1>1, <1>2
    <3> QED
      BY <1>2, <3>1, UpToPrefix
  <2>2. UpTo(b, 0, encoding) = 0 /\ UpTo(a, m, encoding) \in Nat
    BY <1>1, <1>2, UpToFacts
  <2> QED
    BY <1>1, <1>2, <2>1, <2>2 DEF Width
<1>4. ASSUME NEW k \in Nat, k \in good PROVE k + 1 \in good
  <2> SUFFICES ASSUME k + 1 <= n
               PROVE  UpTo(c, m + (k + 1), encoding)
                        = Width(a, encoding) + UpTo(b, k + 1, encoding)
    OBVIOUS
  <2>1. /\ k \in 0..(n - 1) /\ k \in 0..n /\ k + 1 \in 1..n
        /\ m + k \in 0..((m + n) - 1) /\ m + (k + 1) = (m + k) + 1
    BY <1>2
  <2>2. UpTo(c, m + k, encoding) = Width(a, encoding) + UpTo(b, k, encoding)
    BY <1>4, <2>1
  <2>3. UpTo(b, k + 1, encoding) = UpTo(b, k, encoding) + b[k + 1][encoding]
    BY <1>1, <2>1, UpToFacts
  <2>4. UpTo(c, (m + k) + 1, encoding)
          = UpTo(c, m + k, encoding) + c[(m + k) + 1][encoding]
    <3>1. PICK i : i = m + k
      OBVIOUS
    <3>2. i \in 0..(Len(c) - 1)
      BY <1>2, <2>1, <3>1
    <3>3. UpTo(c, i + 1, encoding) = UpTo(c, i, encoding) + c[i + 1][encoding]
      BY <1>2, <3>2, UpToFacts
    <3> QED
      BY <3>1, <3>3
  <2>5. c[(m + k) + 1] = b[k + 1]
    <3>1. PICK i : i = k + 1
      OBVIOUS
    <3>2. i \in 1..n /\ m + i = (m + k) + 1
      BY <1>2, <2>1, <3>1
    <3>3. c[m + i] = b[i]
      BY <1>2, <3>2
    <3> QED
      BY <3>1, <3>2, <3>3
  <2>6. /\ Width(a, encoding) \in Nat /\ UpTo(b, k, encoding) \in Nat
        /\ b[k + 1][encoding] \in Nat
    BY <1>1, <1>2, <2>1, UpToFacts, CharWidths DEF Width
  <2> QED
    BY <2>1, <2>2, <2>3, <2>4, <2>5, <2>6
<1> HIDE DEF good
<1>5. j \in Nat /\ j <= n
  BY <1>1, <1>2
<1>6. j \in good
  BY <1>3, <1>4, <1>5, NaturalsReached
<1> QED
  BY <1>1, <1>2, <1>5, <1>6 DEF good

\* The width of a line is what its characters take.
LEMMA LineWidth ==
    ASSUME NEW l \in Lines
    PROVE  /\ CharsOf(l) \in Seq(Char)
           /\ l.width = Width(CharsOf(l), "utf8") /\ l.width \in Nat
<1>1. CharsOf(l) \in Seq(Char) /\ l.width = Width(CharsOf(l), "utf8")
  BY FrontendAssumption DEF Lines
<1>2. Len(CharsOf(l)) \in 0..Len(CharsOf(l))
  BY <1>1
<1>3. Width(CharsOf(l), "utf8") \in Nat
  BY <1>1, <1>2, UpToFacts DEF Width, Encodings
<1> QED
  BY <1>1, <1>3

\* What a fold of line widths is, line by line.
LEMMA StartAlong ==
    ASSUME NEW s \in Seq(Lines),
           NEW start \in [0..Len(s) -> Nat], start[0] = 0,
           \A k \in 0..(Len(s) - 1) : start[k + 1] = start[k] + s[k + 1].width + 1
    PROVE  FoldLeft(LAMBDA at, l : at + l.width + 1, 0, s) = start[Len(s)]
<1>1. PICK n : n = Len(s)
  OBVIOUS
<1>2. n \in Nat /\ DOMAIN s = 1..n
  BY <1>1
<1> DEFINE
      sum[t \in SUBSET DOMAIN s] ==
        IF t = {} THEN 0 ELSE sum[t \ {Max(t)}] + s[Max(t)].width + 1
      IsSum(f) == f = [t \in SUBSET (1..n) |->
                         IF t = {} THEN 0
                         ELSE f[t \ {Max(t)}] + s[Max(t)].width + 1]
      step == [i \in 1..n |-> [v \in Nat |-> v + s[i].width + 1]]
<1>3. FoldLeft(LAMBDA at, l : at + l.width + 1, 0, s) = sum[DOMAIN s]
  BY Zenon DEF FoldLeft, MapThenFoldSet
<1>4. \A i \in 1..n : s[i].width \in Nat
  <2>1. \A i \in 1..n : s[i] \in Lines
    BY <1>1
  <2> QED
    BY <2>1, LineWidth
<1>5. \A i \in 1..n, v \in Nat :
         step[i][v] = v + s[i].width + 1 /\ step[i][v] \in Nat
  BY <1>4
<1>6. PICK f \in [SUBSET (1..n) -> Nat] : IsFold(f, 1..n, 0, Latest(n), step)
  <2> HIDE DEF step
  <2> QED
    BY <1>2, <1>5, FoldsAlong
<1>7. IsSum(f)
  <2>1. ASSUME NEW t \in SUBSET (1..n), t # {}
        PROVE  f[t] = f[t \ {Max(t)}] + s[Max(t)].width + 1
    <3>1. Max(t) \in 1..n /\ t \ {Max(t)} \in SUBSET (1..n)
      BY <1>2, <2>1, LatestFacts
    <3> HIDE DEF step
    <3>2. f[t] = step[Max(t)][f[t \ {Max(t)}]]
      BY <1>6, <2>1 DEF IsFold, Latest
    <3> QED
      BY <1>5, <3>1, <3>2
  <2>2. f[{}] = 0
    BY <1>6 DEF IsFold
  <2> QED
    BY <2>1, <2>2
<1>8. IsSum(sum)
  <2>1. \E g : IsSum(g)
    BY <1>7
  <2>2. sum = CHOOSE g : IsSum(g)
    BY <1>2
  <2> HIDE DEF sum, IsSum
  <2> QED
    BY <2>1, <2>2
<1> HIDE DEF sum, step
<1> DEFINE good == {k \in Nat : k <= n => sum[1..k] = start[k]}
<1>9. 0 \in good
  BY <1>8
<1>10. ASSUME NEW k \in Nat, k \in good PROVE k + 1 \in good
  <2> SUFFICES ASSUME k + 1 <= n PROVE sum[1..(k + 1)] = start[k + 1]
    OBVIOUS
  <2>1. k \in 0..(n - 1) /\ sum[1..k] = start[k]
    BY <1>2, <1>10
  <2>2. sum[1..(k + 1)]
          = sum[(1..(k + 1)) \ {Max(1..(k + 1))}] + s[Max(1..(k + 1))].width + 1
    <3>1. PICK t : t = 1..(k + 1)
      OBVIOUS
    <3>2. t \in SUBSET (1..n) /\ t # {}
      BY <1>2, <2>1, <3>1, PrefixPlaces
    <3>3. sum[t] = sum[t \ {Max(t)}] + s[Max(t)].width + 1
      BY <1>8, <3>2
    <3> QED
      BY <3>1, <3>3
  <2>3. sum[1..(k + 1)] = sum[1..k] + s[k + 1].width + 1
    BY <1>2, <2>1, <2>2, PrefixPlaces
  <2> QED
    BY <1>1, <2>1, <2>3
<1> HIDE DEF good
<1>11. n \in good
  BY <1>2, <1>9, <1>10, NaturalsReached
<1>12. sum[1..n] = start[n]
  BY <1>2, <1>11 DEF good
<1> QED
  BY <1>1, <1>2, <1>3, <1>12

\* Where lines start: the first at nothing, and each after the line before it
\* and its end.
IsStart(start, src) ==
    /\ start \in [0..Len(src) -> Nat]
    /\ start[0] = 0
    /\ \A k \in 0..(Len(src) - 1) : start[k + 1] = start[k] + src[k + 1].width + 1

\* There are such numbers.
LEMMA StartExists ==
    ASSUME NEW src \in Seq(Lines)
    PROVE  \E start : IsStart(start, src)
<1>1. PICK n : n = Len(src)
  OBVIOUS
<1>2. n \in Nat
  BY <1>1
<1> DEFINE step == [i \in 1..n |-> [v \in Nat |-> v + src[i].width + 1]]
<1>3. \A i \in 1..n, v \in Nat :
         step[i][v] = v + src[i].width + 1 /\ step[i][v] \in Nat
  <2>1. \A i \in 1..n : src[i] \in Lines
    BY <1>1
  <2>2. \A i \in 1..n : src[i].width \in Nat
    BY <2>1, LineWidth
  <2> QED
    BY <2>2
<1>4. PICK start \in [0..n -> Nat] : IsAlong(start, n, 0, step)
  <2> HIDE DEF step
  <2> QED
    BY <1>2, <1>3, AlongExists
<1> HIDE DEF step
<1>5. ASSUME NEW k \in 0..(n - 1) PROVE start[k + 1] = start[k] + src[k + 1].width + 1
  <2>1. k + 1 \in 1..n /\ start[k] \in Nat
    BY <1>2
  <2> QED
    BY <1>3, <1>4, <2>1 DEF IsAlong
<1> QED
  BY <1>1, <1>4, <1>5 DEF IsStart, IsAlong

\* And Start is them.
LEMMA StartIs ==
    ASSUME NEW src \in Seq(Lines), NEW start, IsStart(start, src),
           NEW i \in 1..(Len(src) + 1)
    PROVE  Start(src, i) = start[i - 1]
<1>1. PICK s : s = SubSeq(src, 1, i - 1)
  OBVIOUS
<1>2. /\ s \in Seq(Lines) /\ Len(s) = i - 1 /\ \A k \in 1..(i - 1) : s[k] = src[k]
      /\ i - 1 \in Nat /\ i - 1 <= Len(src) /\ Len(src) \in Nat
  BY <1>1
<1> DEFINE first == [k \in 0..(i - 1) |-> start[k]]
<1>3. first \in [0..Len(s) -> Nat] /\ first[0] = 0
  <2>1. \A k \in 0..(i - 1) : k \in 0..Len(src)
    BY <1>2
  <2>2. \A k \in 0..(i - 1) : start[k] \in Nat
    BY <2>1 DEF IsStart
  <2>3. 0 \in 0..(i - 1) /\ start[0] = 0
    BY <1>2 DEF IsStart
  <2> QED
    BY <1>2, <2>2, <2>3
<1>4. ASSUME NEW k \in 0..(Len(s) - 1) PROVE first[k + 1] = first[k] + s[k + 1].width + 1
  BY <1>2 DEF IsStart
<1> HIDE DEF first
<1>5. FoldLeft(LAMBDA at, l : at + l.width + 1, 0, s) = first[Len(s)]
  BY <1>2, <1>3, <1>4, StartAlong
<1>6. Start(src, i) = FoldLeft(LAMBDA at, l : at + l.width + 1, 0, s)
  BY Zenon, <1>1 DEF Start
<1>7. Start(src, i) = first[Len(s)]
  BY Zenon, <1>5, <1>6
<1> QED
  BY <1>2, <1>7 DEF first

\* A line starts after the lines before it have ended.
LEMMA StartsApart ==
    ASSUME NEW src \in Seq(Lines), NEW start, IsStart(start, src)
    PROVE  \A i, j \in 1..Len(src) :
              /\ start[i - 1] \in Nat
              /\ i < j => start[i - 1] + src[i].width < start[j - 1]
<1>1. PICK n : n = Len(src)
  OBVIOUS
<1>2. /\ n \in Nat
      /\ \A k \in 0..n : start[k] \in Nat
      /\ \A k \in 1..n : start[k] = start[k - 1] + src[k].width + 1 /\ src[k].width \in Nat
  <2>1. \A k \in 1..n : src[k] \in Lines /\ k - 1 \in 0..(n - 1) /\ (k - 1) + 1 = k
    BY <1>1
  <2>2. \A k \in 1..n : src[k].width \in Nat
    BY <2>1, LineWidth
  <2>3. \A k \in 0..(n - 1) : start[k + 1] = start[k] + src[k + 1].width + 1
    BY <1>1 DEF IsStart
  <2> QED
    BY <1>1, <2>1, <2>2, <2>3 DEF IsStart
<1> DEFINE good == {d \in Nat : \A i \in 1..n : i + d <= n => start[i] <= start[i + d]}
<1>3. 0 \in good
  BY <1>2
<1>4. ASSUME NEW d \in Nat, d \in good PROVE d + 1 \in good
  <2> SUFFICES ASSUME NEW i \in 1..n, i + (d + 1) <= n
               PROVE  start[i] <= start[i + (d + 1)]
    OBVIOUS
  <2>1. PICK k : k = i + (d + 1)
    OBVIOUS
  <2>2. k \in 1..n /\ k - 1 = i + d /\ i + d <= n /\ k - 1 \in 0..n /\ i \in 0..n
    BY <1>2, <2>1
  <2>3. start[i] <= start[k - 1]
    BY <1>4, <2>2
  <2>4. start[k] = start[k - 1] + src[k].width + 1 /\ src[k].width \in Nat
    BY <1>2, <2>2
  <2>5. start[i] \in Nat /\ start[k - 1] \in Nat /\ start[k] \in Nat
    BY <1>2, <2>2
  <2>6. start[i] <= start[k]
    BY <2>3, <2>4, <2>5
  <2> QED
    BY <2>1, <2>6
<1> HIDE DEF good
<1>5. ASSUME NEW i \in 1..n, NEW j \in 1..n, i < j
      PROVE  start[i - 1] + src[i].width < start[j - 1]
  <2>1. PICK d : d = (j - 1) - i
    OBVIOUS
  <2>2. d \in Nat /\ i + d = j - 1 /\ i + d <= n /\ i - 1 \in 0..n /\ j - 1 \in 0..n
    BY <1>2, <1>5, <2>1
  <2>3. d \in good
    BY <1>3, <1>4, <2>2, NaturalsReached
  <2>4. start[i] <= start[j - 1]
    BY <2>2, <2>3 DEF good
  <2>5. start[i] = start[i - 1] + src[i].width + 1 /\ src[i].width \in Nat
    BY <1>2
  <2>6. start[i] \in Nat /\ start[i - 1] \in Nat /\ start[j - 1] \in Nat
    BY <1>2, <2>2
  <2> QED
    BY <2>4, <2>5, <2>6
<1>6. \A i \in 1..n : i - 1 \in 0..n
  BY <1>2
<1> QED
  BY <1>1, <1>2, <1>5, <1>6

-----------------------------------------------------------------------------
\* The text above a line is what its lines leave.
LEMMA TextAbove ==
    ASSUME NEW src \in Seq(Lines), NEW ending \in {1, 2},
           NEW t, IsText(t, src, ending), NEW i \in 1..Len(src)
    PROVE  TextOf(SubSeq(src, 1, i - 1), ending) = t[i - 1]
<1>1. PICK s : s = SubSeq(src, 1, i - 1)
  OBVIOUS
<1>2. /\ s \in Seq(Lines) /\ Len(s) = i - 1 /\ \A k \in 1..(i - 1) : s[k] = src[k]
      /\ i - 1 \in Nat /\ i - 1 <= Len(src) /\ Len(src) \in Nat
  BY <1>1
<1> DEFINE first == [k \in 0..(i - 1) |-> t[k]]
<1>3. first \in [0..Len(s) -> Seq(Char)] /\ first[0] = <<>>
  <2>1. \A k \in 0..(i - 1) : k \in 0..Len(src)
    BY <1>2
  <2>2. \A k \in 0..(i - 1) : t[k] \in Seq(Char)
    BY <2>1 DEF IsText
  <2>3. 0 \in 0..(i - 1)
    BY <1>2
  <2> QED
    BY <1>2, <2>2, <2>3 DEF IsText
<1>4. ASSUME NEW k \in 0..(Len(s) - 1)
      PROVE  first[k + 1] = WithLine(first[k], s[k + 1], ending)
  <2>1. /\ k \in 0..(Len(src) - 1) /\ k \in 0..(i - 1)
        /\ k + 1 \in 0..(i - 1) /\ k + 1 \in 1..(i - 1)
    BY <1>2
  <2>2. t[k + 1] = WithLine(t[k], src[k + 1], ending)
    BY <2>1 DEF IsText
  <2> QED
    BY <1>2, <2>1, <2>2
<1> HIDE DEF first
<1>5. IsText(first, s, ending)
  BY <1>3, <1>4 DEF IsText
<1>6. TextOf(s, ending) = first[Len(s)]
  BY <1>2, <1>5, TextAlong
<1> QED
  BY <1>1, <1>2, <1>6 DEF first

\* A line end takes as much as it says, in either encoding.
LEMMA LineEnd ==
    ASSUME NEW ending \in {1, 2}, NEW encoding \in Encodings, NEW end,
           end = [k \in 1..ending |-> [utf8 |-> 1, utf16 |-> 1]]
    PROVE  /\ end \in Seq(Char) /\ Len(end) = ending
           /\ Width(end, encoding) = ending
<1>1. [utf8 |-> 1, utf16 |-> 1] \in Char
  BY DEF Char
<1>2. ending \in Nat /\ end \in [1..ending -> Char]
  BY <1>1
<1>3. end \in Seq(Char) /\ Len(end) = ending
  BY <1>2
<1>4. \A k \in 1..ending : end[k][encoding] = 1
  <2>1. [utf8 |-> 1, utf16 |-> 1][encoding] = 1
    BY DEF Encodings
  <2> QED
    BY <2>1
<1>5. UpTo(end, 0, encoding) = 0 /\ UpTo(end, 1, encoding) = 1
  <2>1. 0 \in 0..(Len(end) - 1) /\ 0 + 1 = 1 /\ 1 \in 1..ending
    BY <1>3
  <2>2. UpTo(end, 0 + 1, encoding) = UpTo(end, 0, encoding) + end[0 + 1][encoding]
    BY <1>3, <2>1, UpToFacts
  <2>3. UpTo(end, 0, encoding) = 0
    BY <1>3, UpToFacts
  <2> QED
    BY <1>4, <2>1, <2>2, <2>3
<1>6. CASE ending = 1
  BY <1>3, <1>5, <1>6 DEF Width
<1>7. CASE ending = 2
  <2>1. 1 \in 0..(Len(end) - 1) /\ 1 + 1 = 2 /\ 2 \in 1..ending
    BY <1>3, <1>7
  <2>2. UpTo(end, 1 + 1, encoding) = UpTo(end, 1, encoding) + end[1 + 1][encoding]
    BY <1>3, <2>1, UpToFacts
  <2>3. UpTo(end, 2, encoding) = 2
    BY <1>4, <1>5, <2>1, <2>2
  <2> QED
    BY <1>3, <1>7, <2>3 DEF Width
<1> QED
  BY <1>3, <1>6, <1>7

\* And the text of its first lines begins a text.
LEMMA TextBegins ==
    ASSUME NEW src \in Seq(Lines), NEW ending \in {1, 2},
           NEW t, IsText(t, src, ending), NEW i \in 0..Len(src)
    PROVE  /\ Len(t[i]) <= Len(t[Len(src)])
           /\ \A k \in 1..Len(t[i]) : t[Len(src)][k] = t[i][k]
<1>1. PICK n : n = Len(src)
  OBVIOUS
<1>2. n \in Nat /\ \A k \in 0..n : t[k] \in Seq(Char)
  BY <1>1 DEF IsText
<1> DEFINE Begins(a, b) == Len(a) <= Len(b) /\ \A k \in 1..Len(a) : b[k] = a[k]
           good == {d \in Nat : i + d <= n => Begins(t[i], t[i + d])}
<1>3. 0 \in good
  BY <1>1, <1>2
<1>4. ASSUME NEW d \in Nat, d \in good PROVE d + 1 \in good
  <2> SUFFICES ASSUME i + (d + 1) <= n PROVE Begins(t[i], t[i + (d + 1)])
    OBVIOUS
  <2>1. PICK k : k = i + d
    OBVIOUS
  <2>2. k \in 0..(n - 1) /\ k + 1 = i + (d + 1) /\ k \in 0..n /\ k + 1 \in 1..n /\ k <= n
    BY <1>1, <1>2, <2>1
  <2>3. Begins(t[i], t[k])
    BY <1>4, <2>1, <2>2
  <2>4. t[k + 1] = WithLine(t[k], src[k + 1], ending)
    BY <1>1, <2>2 DEF IsText
  <2>5. PICK a, b, c : /\ a = t[k] /\ b = CharsOf(src[k + 1])
                       /\ c = [m \in 1..ending |-> [utf8 |-> 1, utf16 |-> 1]]
    OBVIOUS
  <2>6. a \in Seq(Char) /\ b \in Seq(Char) /\ c \in Seq(Char)
    <3>1. src[k + 1] \in Lines
      BY <1>1, <2>2
    <3>2. c \in Seq(Char)
      BY <2>5, LineEnd DEF Encodings
    <3> QED
      BY <1>2, <2>2, <2>5, <3>1, <3>2, LineWidth
  <2>7. t[k + 1] = (a \o b) \o c
    BY <2>4, <2>5 DEF WithLine
  <2>8. Begins(a, (a \o b) \o c)
    BY <2>6
  <2>9. t[i] \in Seq(Char)
    BY <1>1, <1>2
  <2>10. Begins(t[i], t[k + 1])
    <3>1. PICK q, r : q = t[i] /\ r = t[k + 1]
      OBVIOUS
    <3>2. Begins(q, a) /\ Begins(a, r)
      BY <2>3, <2>5, <2>7, <2>8, <3>1
    <3>3. Len(q) \in Nat /\ Len(a) \in Nat /\ Len(r) \in Nat
      <4>1. k + 1 \in 0..n
        BY <2>2
      <4>2. r \in Seq(Char) /\ q \in Seq(Char)
        BY <1>2, <2>9, <3>1, <4>1
      <4> QED
        BY <2>6, <4>2
    <3>4. \A m \in 1..Len(q) : m \in 1..Len(a)
      BY <3>2, <3>3
    <3>5. Begins(q, r)
      BY <3>2, <3>3, <3>4
    <3> QED
      BY <3>1, <3>5
  <2> QED
    BY <2>2, <2>10
<1> HIDE DEF good
<1>5. PICK d : d = n - i
  OBVIOUS
<1>6. d \in Nat /\ i + d = n
  BY <1>1, <1>2, <1>5
<1>7. d \in good
  BY <1>3, <1>4, <1>6, NaturalsReached
<1>8. Begins(t[i], t[n])
  BY <1>2, <1>6, <1>7 DEF good
<1> QED
  BY <1>1, <1>8

\* The bytes above a line whose line ends take one byte: where it starts.
LEMMA BytesAbove ==
    ASSUME NEW src \in Seq(Lines), NEW start, IsStart(start, src),
           NEW t, IsText(t, src, 1)
    PROVE  \A i \in 0..Len(src) : Width(t[i], "utf8") = start[i]
<1>1. PICK n : n = Len(src)
  OBVIOUS
<1>2. n \in Nat /\ \A k \in 0..n : t[k] \in Seq(Char) /\ start[k] \in Nat
  <2>1. t \in [0..n -> Seq(Char)]
    BY <1>1 DEF IsText
  <2>2. start \in [0..n -> Nat]
    BY <1>1 DEF IsStart
  <2> QED
    BY <1>1, <2>1, <2>2
<1>3. PICK end : end = [k \in 1..1 |-> [utf8 |-> 1, utf16 |-> 1]]
  OBVIOUS
<1>4. end \in Seq(Char) /\ Width(end, "utf8") = 1
  BY <1>3, LineEnd DEF Encodings
<1>5. ASSUME NEW a \in Seq(Char), NEW b \in Seq(Char)
      PROVE  /\ Width(a \o b, "utf8") = Width(a, "utf8") + Width(b, "utf8")
             /\ Width(a, "utf8") \in Nat
  <2>1. PICK m, k : m = Len(a) /\ k = Len(b)
    OBVIOUS
  <2>2. k \in 0..Len(b) /\ m \in 0..Len(a) /\ Len(a \o b) = m + k
    BY <2>1
  <2>3. UpTo(a \o b, m + k, "utf8") = Width(a, "utf8") + UpTo(b, k, "utf8")
    BY <2>1, <2>2, UpToBeyond DEF Encodings
  <2>4. UpTo(a, m, "utf8") \in Nat
    BY <2>2, UpToFacts DEF Encodings
  <2> QED
    BY <2>1, <2>2, <2>3, <2>4 DEF Width
<1> DEFINE good == {k \in Nat : k <= n => Width(t[k], "utf8") = start[k]}
<1>6. 0 \in good
  <2>1. t[0] = <<>> /\ start[0] = 0 /\ <<>> \in Seq(Char) /\ Len(<<>>) = 0
    BY DEF IsText, IsStart
  <2>2. UpTo(<<>>, 0, "utf8") = 0
    BY <2>1, UpToFacts DEF Encodings
  <2>3. Width(t[0], "utf8") = 0
    BY <2>1, <2>2 DEF Width
  <2> QED
    BY <2>1, <2>3
<1>7. ASSUME NEW k \in Nat, k \in good PROVE k + 1 \in good
  <2> SUFFICES ASSUME k + 1 <= n
               PROVE  Width(t[k + 1], "utf8") = start[k + 1]
    OBVIOUS
  <2>1. k \in 0..(n - 1) /\ k \in 0..n /\ k + 1 \in 1..n /\ k <= n
    BY <1>2
  <2>2. PICK a, l, b : a = t[k] /\ l = src[k + 1] /\ b = CharsOf(l)
    OBVIOUS
  <2>3. a \in Seq(Char) /\ b \in Seq(Char) /\ l.width = Width(b, "utf8") /\ l.width \in Nat
    <3>1. l \in Lines
      BY <1>1, <2>1, <2>2
    <3> QED
      BY <1>2, <2>1, <2>2, <3>1, LineWidth
  <2>4. t[k + 1] = (a \o b) \o end
    BY <1>1, <1>3, <2>1, <2>2 DEF IsText, WithLine
  <2>5. Width(t[k + 1], "utf8") = (Width(a, "utf8") + Width(b, "utf8")) + Width(end, "utf8")
    <3>1. PICK c : c = a \o b
      OBVIOUS
    <3>2. c \in Seq(Char)
      BY <2>3, <3>1
    <3>3. Width(c, "utf8") = Width(a, "utf8") + Width(b, "utf8")
      BY <1>5, <2>3, <3>1
    <3>4. Width(c \o end, "utf8") = Width(c, "utf8") + Width(end, "utf8")
      BY <1>4, <1>5, <3>2
    <3> QED
      BY <2>4, <3>1, <3>3, <3>4
  <2>6. Width(a, "utf8") = start[k]
    BY <1>7, <2>1, <2>2
  <2>7. start[k + 1] = start[k] + l.width + 1 /\ start[k] \in Nat
    BY <1>1, <1>2, <2>1, <2>2 DEF IsStart
  <2> QED
    BY <1>4, <2>3, <2>5, <2>6, <2>7
<1> HIDE DEF good
<1>8. ASSUME NEW i \in 0..n
      PROVE  Width(t[i], "utf8") = start[i]
  <2>1. i \in Nat /\ i <= n
    BY <1>2
  <2>2. i \in good
    BY <1>6, <1>7, <2>1, NaturalsReached
  <2> QED
    BY <2>1, <2>2 DEF good
<1> QED
  BY <1>1, <1>8

\* A caret on a character of a line is converted to the byte where it begins.
LEMMA CaretConverts ==
    ASSUME NEW src \in Seq(Lines), NEW start, IsStart(start, src), NEW i \in 1..Len(src),
           NEW k \in 0..Len(CharsOf(src[i]))
    PROVE  LET text   == TextOf(src, 1)
               before == Len(TextOf(SubSeq(src, 1, i - 1), 1))
               caret  == Converted(text, "utf16", "utf8",
                                   UpTo(text, before + k, "utf16"))
           IN  caret.offset
                 = start[i - 1] + UpTo(CharsOf(src[i]), k, "utf8")
<1>1. PICK t : IsText(t, src, 1)
  BY TextExists
<1>2. PICK n, text, above, before :
         /\ n = Len(src) /\ text = TextOf(src, 1)
         /\ above = TextOf(SubSeq(src, 1, i - 1), 1) /\ before = Len(above)
  OBVIOUS
<1>3. /\ n \in Nat /\ i - 1 \in 0..n /\ i \in 0..n /\ n \in 0..n
      /\ i - 1 \in 0..(n - 1) /\ (i - 1) + 1 = i
  BY <1>2
<1>4. text = t[n] /\ text \in Seq(Char)
  BY <1>1, <1>2, <1>3, TextAlong DEF IsText
<1>5. above = t[i - 1] /\ above \in Seq(Char) /\ before \in Nat
  <2>1. above = t[i - 1]
    BY <1>1, <1>2, TextAbove
  <2>2. t[i - 1] \in Seq(Char)
    BY <1>1, <1>2, <1>3 DEF IsText
  <2> QED
    BY <1>2, <2>1, <2>2
<1>6. PICK chars, end : /\ chars = CharsOf(src[i])
                        /\ end = [m \in 1..1 |-> [utf8 |-> 1, utf16 |-> 1]]
  OBVIOUS
<1>7. chars \in Seq(Char) /\ end \in Seq(Char) /\ k \in 0..Len(chars)
  <2>1. src[i] \in Lines
    OBVIOUS
  <2>2. end \in Seq(Char)
    BY <1>6, LineEnd DEF Encodings
  <2> QED
    BY <1>6, <2>1, <2>2, LineWidth
<1>8. PICK rest : rest = chars \o end
  OBVIOUS
<1>9. /\ rest \in Seq(Char) /\ k \in 0..Len(rest)
      /\ k <= Len(chars) /\ \A m \in 1..k : chars[m] = rest[m]
  BY <1>7, <1>8
<1>10. t[i] = above \o rest
  <2>1. t[(i - 1) + 1] = WithLine(t[i - 1], src[(i - 1) + 1], 1)
    BY <1>1, <1>2, <1>3 DEF IsText
  <2>2. t[i] = (above \o chars) \o end
    BY <1>3, <1>5, <1>6, <2>1 DEF WithLine
  <2>3. \A a, b, c \in Seq(Char) : (a \o b) \o c = a \o (b \o c)
    OBVIOUS
  <2> QED
    BY <1>5, <1>7, <1>8, <2>2, <2>3
<1>11. /\ before + k \in 0..Len(t[i]) /\ t[i] \in Seq(Char)
       /\ before + k \in 0..Len(text)
       /\ \A m \in 1..(before + k) : t[i][m] = text[m]
  <2>1. t[i] \in Seq(Char) /\ Len(t[i]) = before + Len(rest)
    <3>1. \A a, b \in Seq(Char) : a \o b \in Seq(Char) /\ Len(a \o b) = Len(a) + Len(b)
      OBVIOUS
    <3>2. before = Len(above) /\ above \in Seq(Char) /\ rest \in Seq(Char)
      BY <1>2, <1>5, <1>9
    <3> QED
      BY <1>10, <3>1, <3>2
  <2>2. Len(t[i]) <= Len(text) /\ \A m \in 1..Len(t[i]) : text[m] = t[i][m]
    BY <1>1, <1>2, <1>3, <1>4, TextBegins
  <2>3. before + k \in Nat /\ before + k <= Len(t[i]) /\ Len(t[i]) \in Nat /\ Len(text) \in Nat
    BY <1>4, <1>5, <1>9, <2>1
  <2> QED
    BY <2>1, <2>2, <2>3
<1>12. UpTo(text, before + k, "utf8") = Width(above, "utf8") + UpTo(chars, k, "utf8")
  <2>1. UpTo(t[i], before + k, "utf8") = UpTo(text, before + k, "utf8")
    <3>1. PICK a, j : a = t[i] /\ j = before + k
      OBVIOUS
    <3>2. /\ a \in Seq(Char) /\ j \in 0..Len(a) /\ j <= Len(text)
          /\ \A m \in 1..j : a[m] = text[m]
      BY <1>4, <1>11, <3>1
    <3>3. UpTo(a, j, "utf8") = UpTo(text, j, "utf8")
      BY <1>4, <3>2, UpToPrefix DEF Encodings
    <3> QED
      BY <3>1, <3>3
  <2>2. UpTo(above \o rest, before + k, "utf8")
          = Width(above, "utf8") + UpTo(rest, k, "utf8")
    BY <1>2, <1>5, <1>9, UpToBeyond DEF Encodings
  <2>3. UpTo(chars, k, "utf8") = UpTo(rest, k, "utf8")
    BY <1>7, <1>9, UpToPrefix DEF Encodings
  <2> QED
    BY <1>10, <2>1, <2>2, <2>3
<1>13. Width(above, "utf8") = start[i - 1]
  BY <1>1, <1>2, <1>3, <1>5, BytesAbove
<1>14. Converted(text, "utf16", "utf8", UpTo(text, before + k, "utf16"))
         = [ok |-> TRUE, offset |-> UpTo(text, before + k, "utf8")]
  BY <1>4, <1>11, ConvertedAtABegin DEF Encodings
<1> QED
  BY <1>2, <1>6, <1>12, <1>13, <1>14

-----------------------------------------------------------------------------
\* A number among others, smallest first, is at the place that says how many
\* are no larger.
LEMMA PlaceOf ==
    ASSUME NEW set \in SUBSET Nat, IsFiniteSet(set), NEW x \in set
    PROVE  LET k == Cardinality({y \in set : y <= x})
           IN  k \in DOMAIN Increasing(set) /\ Increasing(set)[k] = x
<1>1. PICK before : before = {pair \in set \X set : pair[1] < pair[2]}
  OBVIOUS
<1>2. \A y, z \in set : <<y, z>> \in before <=> y < z
  BY <1>1
<1>3. IsOrderOf(before, set)
  BY <1>2 DEF IsOrderOf
<1> DEFINE n == Cardinality(set)
           Rank(z) == Cardinality(Below(z, set, before))
<1>4. /\ n \in Nat /\ \A z \in set : Rank(z) \in 0..(n - 1)
      /\ \A y, z \in set : Rank(y) = Rank(z) => y = z
  BY <1>3, Ranks
<1>5. Increasing(set) = [k \in 1..n |-> CHOOSE z \in set : Rank(z) = k - 1]
  BY <1>1 DEF Increasing, Ordered, Below
<1>6. PICK k : k = Cardinality({y \in set : y <= x})
  OBVIOUS
<1>7. k = Rank(x) + 1
  <2>1. PICK below : below = Below(x, set, before)
    OBVIOUS
  <2>2. {y \in set : y <= x} = below \cup {x} /\ x \notin below /\ below \in SUBSET set
    <3>1. below = {y \in set : y < x}
      BY <1>2, <2>1 DEF Below
    <3>2. \A y \in set : y <= x <=> y < x \/ y = x
      OBVIOUS
    <3>3. {y \in set : y <= x} = {y \in set : y < x} \cup {x}
      BY <3>2
    <3>4. x \notin {y \in set : y < x}
      OBVIOUS
    <3> QED
      BY <3>1, <3>3, <3>4
  <2>3. IsFiniteSet(below)
    BY <2>2, FS_Subset
  <2>4. Cardinality(below \cup {x}) = Cardinality(below) + 1
    BY <2>2, <2>3, FS_AddElement
  <2> QED
    BY <1>6, <2>1, <2>2, <2>4
<1> HIDE DEF n, Rank
<1>8. k \in 1..n /\ k - 1 = Rank(x)
  BY <1>4, <1>7
<1>9. Increasing(set)[k] = CHOOSE z \in set : Rank(z) = k - 1
  BY <1>5, <1>8
<1>10. (CHOOSE z \in set : Rank(z) = k - 1) = x
  BY <1>4, <1>8
<1>11. k \in DOMAIN Increasing(set) /\ Increasing(set)[k] = x
  BY <1>5, <1>8, <1>9, <1>10
<1> QED
  BY <1>6, <1>11

\* The nodes whose span covers an offset.
Covering(tree, offset) ==
    {n \in Range(tree) : n.span[1] <= offset /\ offset < n.span[2]}

\* What is found where no node, one or two nested ones cover the offset.
LEMMA FoundAt ==
    ASSUME NEW tree, NEW offset
    PROVE  /\ Covering(tree, offset) = {} => AddressesForOffset(tree, offset) = <<>>
           /\ \A x : /\ Covering(tree, offset) = {x}
                     /\ x.id \in Int /\ x.span[1] \in Int /\ x.span[2] \in Int
                     => AddressesForOffset(tree, offset) = <<x.id>>
           /\ \A x, y :
                 /\ Covering(tree, offset) = {x, y}
                 /\ x.id \in Int /\ x.span[1] \in Int /\ x.span[2] \in Int
                 /\ y.id \in Int /\ y.span[1] \in Int /\ y.span[2] \in Int
                 /\ x.span[2] - x.span[1] < y.span[2] - y.span[1]
                 => AddressesForOffset(tree, offset) = <<x.id, y.id>>
<1>1. PICK covering : covering = Covering(tree, offset)
  OBVIOUS
<1> DEFINE Extent(n) == n.span[2] - n.span[1]
           Narrower(m, n) == \/ Extent(m) < Extent(n)
                             \/ Extent(m) = Extent(n) /\ m.id < n.id
<1>2. PICK before : before = {p \in covering \X covering : Narrower(p[1], p[2])}
  OBVIOUS
<1>3. PICK sorted : sorted = Ordered(covering, before)
  OBVIOUS
<1>4. AddressesForOffset(tree, offset) = [k \in DOMAIN sorted |-> sorted[k].id]
  BY Zenon, <1>1, <1>2, <1>3 DEF AddressesForOffset, Covering
<1>5. \A m, n \in covering : <<m, n>> \in before <=> Narrower(m, n)
  BY <1>2
<1>6. before \subseteq covering \X covering
  BY <1>2
<1> HIDE DEF Narrower
<1>7. ASSUME IsFiniteSet(covering), IsOrderOf(before, covering)
      PROVE  LaysOut(sorted, covering, before)
  BY <1>3, <1>7, OrderedFacts
<1>8. ASSUME covering = {} PROVE AddressesForOffset(tree, offset) = <<>>
  <2>1. IsFiniteSet(covering) /\ Cardinality(covering) = 0
    BY <1>8, FS_EmptySet
  <2>2. IsOrderOf(before, covering)
    BY <1>8 DEF IsOrderOf
  <2>3. sorted \in Seq(covering) /\ Len(sorted) = 0
    BY <1>7, <2>1, <2>2 DEF LaysOut
  <2> QED
    BY <1>4, <2>3
<1>9. ASSUME NEW x, covering = {x},
             x.id \in Int, x.span[1] \in Int, x.span[2] \in Int
      PROVE  AddressesForOffset(tree, offset) = <<x.id>>
  <2>1. IsFiniteSet(covering) /\ Cardinality(covering) = 1
    BY <1>9, FS_Singleton
  <2>2. ~ Narrower(x, x)
    BY <1>9 DEF Narrower
  <2>3. IsOrderOf(before, covering)
    BY <1>5, <1>9, <2>2 DEF IsOrderOf
  <2>4. sorted \in Seq(covering) /\ Len(sorted) = 1
    BY <1>7, <2>1, <2>3 DEF LaysOut
  <2>5. DOMAIN sorted = 1..1 /\ sorted[1] \in covering
    BY <2>4
  <2>6. sorted[1] = x
    BY <1>9, <2>5
  <2> QED
    BY <1>4, <2>5, <2>6
<1>10. ASSUME NEW x, NEW y, covering = {x, y},
              x.id \in Int, x.span[1] \in Int, x.span[2] \in Int,
              y.id \in Int, y.span[1] \in Int, y.span[2] \in Int,
              x.span[2] - x.span[1] < y.span[2] - y.span[1]
       PROVE  AddressesForOffset(tree, offset) = <<x.id, y.id>>
  <2>1. /\ ~ Narrower(x, x) /\ ~ Narrower(y, y)
        /\ Narrower(x, y) /\ ~ Narrower(y, x)
    BY <1>10 DEF Narrower
  <2>2. x # y
    BY <2>1
  <2>3. IsFiniteSet(covering) /\ Cardinality(covering) = 2
    <3>1. IsFiniteSet({x}) /\ Cardinality({x}) = 1
      BY FS_Singleton
    <3>2. IsFiniteSet({x} \cup {y}) /\ Cardinality({x} \cup {y}) = 1 + 1
      BY <2>2, <3>1, FS_AddElement
    <3>3. {x} \cup {y} = covering
      BY <1>10
    <3> QED
      BY <3>2, <3>3
  <2>4. IsOrderOf(before, covering)
    BY <1>5, <1>10, <2>1 DEF IsOrderOf
  <2>5. /\ sorted \in Seq(covering) /\ Len(sorted) = 2
        /\ \A i, j \in DOMAIN sorted : i < j => <<sorted[i], sorted[j]>> \in before
    BY <1>7, <2>3, <2>4 DEF LaysOut
  <2>6. DOMAIN sorted = 1..2 /\ <<sorted[1], sorted[2]>> \in before
    BY <2>5
  <2>7. sorted[1] \in covering /\ sorted[2] \in covering
    BY <2>5, <2>6
  <2>8. Narrower(sorted[1], sorted[2])
    BY <1>5, <2>6, <2>7
  <2>9. sorted[1] = x /\ sorted[2] = y
    BY <1>10, <2>1, <2>7, <2>8
  <2> QED
    BY <1>4, <2>6, <2>9
<1> QED
  BY <1>1, <1>8, <1>9, <1>10

\* What has a span, inside what has a wider one.
Inside(x, y) ==
    /\ x.id \in Int /\ x.span[1] \in Int /\ x.span[2] \in Int
    /\ y.id \in Int /\ y.span[1] \in Int /\ y.span[2] \in Int
    /\ x.span[2] - x.span[1] < y.span[2] - y.span[1]

\* Of two the narrower is found first.
LEMMA FoundTwo ==
    ASSUME NEW tree, NEW offset, NEW x, NEW y, Covering(tree, offset) = {x, y},
           Inside(x, y)
    PROVE  AddressesForOffset(tree, offset) = <<x.id, y.id>>
  BY FoundAt DEF Inside

-----------------------------------------------------------------------------
\* A tree as its source reads: a node for each written line, in order, where
\* the line is.
IsRead(tree, src) ==
    LET order == Increasing(Written(src))
    IN  /\ DOMAIN tree = DOMAIN order
        /\ \A k \in DOMAIN tree :
              tree[k].span = <<Start(src, order[k]),
                               Start(src, order[k]) + src[order[k]].width>>

\* Parsing reads.
LEMMA ParseReads ==
    ASSUME NEW old, NEW last, NEW src
    PROVE  IsRead(Parse(old, last, src), src)
<1>1. PICK order : order = Increasing(Written(src))
  OBVIOUS
<1>2. Parse(old, last, src)
        = [k \in DOMAIN order |->
             [id   |-> IdAt(old, last, src, order[k]),
              line |-> src[order[k]],
              span |-> <<Start(src, order[k]),
                         Start(src, order[k]) + src[order[k]].width>>]]
  BY <1>1 DEF Parse
<1> QED
  BY <1>1, <1>2 DEF IsRead

\* The tree of a session is always read off its source.
LEMMA NodesAreRead == Spec => []IsRead(nodes, source)
<1>1. Init => IsRead(nodes, source)
  <2> SUFFICES ASSUME Init PROVE IsRead(nodes, source)
    OBVIOUS
  <2>1. source = <<>> /\ nodes = <<>>
    BY DEF Init
  <2>2. Written(source) = {} /\ Cardinality({}) = 0
    BY <2>1, FS_EmptySet DEF Written
  <2>3. DOMAIN Increasing({}) = 1..0
    BY <2>2 DEF Increasing, Ordered
  <2>4. DOMAIN nodes = {} /\ 1..0 = {}
    BY <2>1
  <2> QED
    BY <2>2, <2>3, <2>4 DEF IsRead
<1>2. IsRead(nodes, source) /\ [Next]_vars => IsRead(nodes, source)'
  <2> SUFFICES ASSUME IsRead(nodes, source), [Next]_vars
               PROVE  IsRead(nodes, source)'
    OBVIOUS
  <2>1. ASSUME NEW src \in Sources, SetSource(src) PROVE IsRead(nodes, source)'
    <3>1. nodes' = Parse(nodes, next_id, src) /\ source' = src
      BY <2>1 DEF SetSource
    <3>2. PICK tree : tree = Parse(nodes, next_id, src)
      OBVIOUS
    <3>3. IsRead(tree, src)
      BY <3>2, ParseReads
    <3> QED
      BY <3>1, <3>2, <3>3 DEF IsRead
  <2>2. ASSUME NEW extra, Adapt(extra) PROVE UNCHANGED <<nodes, source>>
    BY <2>2, Zenon DEF Adapt, Commit, session
  <2>3. ASSUME AdaptFull PROVE UNCHANGED <<nodes, source>>
    BY <2>3, Zenon DEF AdaptFull, Commit, session
  <2>4. ASSUME UNCHANGED <<nodes, source>> PROVE IsRead(nodes, source)'
    BY <2>4 DEF IsRead
  <2> QED
    BY <2>1, <2>2, <2>3, <2>4 DEF Next, vars
<1> QED
  BY <1>1, <1>2, PTL DEF Spec

\* The node of a line that starts at some byte.
IsNodeOf(k, src, tree, i, at) ==
    /\ k = Cardinality({j \in Written(src) : j <= i})
    /\ k \in DOMAIN tree
    /\ tree[k].span = <<at, at + src[i].width>>

\* That node alone covers an offset.
CoversAlone(src, tree, i, at, offset) ==
    \E k : IsNodeOf(k, src, tree, i, at) /\ Covering(tree, offset) = {tree[k]}

\* On an offset of a line, the node that covers it is the one of the line; on
\* its end there is none.
LEMMA LineCovers ==
    ASSUME NEW src \in Seq(Lines), NEW tree, NEW last \in Nat, IsTree(tree, last),
           IsRead(tree, src), NEW start, IsStart(start, src),
           NEW i \in 1..Len(src), NEW u \in 0..src[i].width
    PROVE  /\ u = src[i].width \/ src[i] = Blank => Covering(tree, start[i - 1] + u) = {}
           /\ u < src[i].width /\ src[i] # Blank =>
                 CoversAlone(src, tree, i, start[i - 1], start[i - 1] + u)
<1>1. PICK order, n, at, wide, written :
         /\ order = Increasing(Written(src)) /\ n = Len(src)
         /\ at = start[i - 1] /\ wide = src[i].width /\ written = Written(src)
  OBVIOUS
<1>2. n \in Nat /\ i \in 1..n /\ written \in SUBSET (1..n)
  BY <1>1 DEF Written
<1>3. /\ \A j, k \in 1..n : /\ start[j - 1] \in Nat
                            /\ j < k => start[j - 1] + src[j].width < start[k - 1]
      /\ \A j \in 1..n : src[j].width \in Nat /\ Start(src, j) = start[j - 1]
  <2>1. \A j \in 1..n : src[j] \in Lines /\ j \in 1..(Len(src) + 1)
    BY <1>1, <1>2
  <2>2. \A j \in 1..n : src[j].width \in Nat
    BY <2>1, LineWidth
  <2>3. \A j \in 1..n : Start(src, j) = start[j - 1]
    BY <2>1, StartIs
  <2> QED
    BY <1>1, <2>2, <2>3, StartsApart
<1>4. at \in Nat /\ wide \in Nat /\ u \in Nat /\ u <= wide
  BY <1>1, <1>2, <1>3
<1>5. IsFiniteSet(written) /\ written \in SUBSET Nat
  <2>1. IsFiniteSet(1..n)
    BY <1>2, FS_Interval
  <2>2. written \in SUBSET Nat
    BY <1>2
  <2> QED
    BY <1>2, <2>1, <2>2, FS_Subset
<1>6. /\ order \in Seq(written)
      /\ \A j, k \in DOMAIN order : order[j] = order[k] => j = k
  BY <1>1, <1>5, IncreasingFacts DEF LaysOut
<1>7. /\ DOMAIN tree = DOMAIN order
      /\ \A k \in DOMAIN tree :
            tree[k].span = <<Start(src, order[k]), Start(src, order[k]) + src[order[k]].width>>
  BY <1>1 DEF IsRead
<1>8. ASSUME NEW k \in DOMAIN tree
      PROVE  /\ order[k] \in written /\ order[k] \in 1..n
             /\ tree[k].span = <<start[order[k] - 1],
                                 start[order[k] - 1] + src[order[k]].width>>
             /\ tree[k].span[1] = start[order[k] - 1]
             /\ tree[k].span[2] = start[order[k] - 1] + src[order[k]].width
  <2>1. order[k] \in written
    BY <1>6, <1>7
  <2>2. order[k] \in 1..n
    BY <1>2, <2>1
  <2> QED
    BY <1>3, <1>7, <2>1, <2>2
<1>9. ASSUME NEW k \in DOMAIN tree
      PROVE  (tree[k].span[1] <= at + u /\ at + u < tree[k].span[2])
               <=> (order[k] = i /\ u < wide)
  <2>1. PICK j, x, y : j = order[k] /\ x = start[j - 1] /\ y = src[j].width
    OBVIOUS
  <2>2. /\ j \in 1..n /\ x \in Nat /\ y \in Nat
        /\ tree[k].span[1] = x /\ tree[k].span[2] = x + y
    BY <1>3, <1>8, <2>1
  <2>3. j < i => x + y < at
    BY <1>1, <1>2, <1>3, <2>1, <2>2
  <2>4. i < j => at + wide < x
    BY <1>1, <1>2, <1>3, <2>1, <2>2
  <2>5. j = i => x = at /\ y = wide
    BY <1>1, <2>1
  <2>6. j \in Int /\ i \in Int
    BY <1>2, <2>2
  <2>7. (x <= at + u /\ at + u < x + y) <=> (j = i /\ u < wide)
    <3>1. CASE j < i
      BY <1>4, <2>2, <2>3, <2>6, <3>1
    <3>2. CASE i < j
      BY <1>4, <2>2, <2>4, <2>6, <3>2
    <3>3. CASE i = j
      BY <1>4, <2>2, <2>5, <3>3
    <3> QED
      BY <2>6, <3>1, <3>2, <3>3
  <2> QED
    BY <2>1, <2>2, <2>7
<1>10. Range(tree) = {tree[k] : k \in DOMAIN tree}
  BY DEF Range
<1>11. ASSUME u = wide \/ src[i] = Blank PROVE Covering(tree, at + u) = {}
  <2>1. ASSUME NEW k \in DOMAIN tree PROVE ~ (order[k] = i /\ u < wide)
    <3>1. order[k] = i => src[i] # Blank
      BY <1>1, <1>8 DEF Written
    <3> QED
      BY <1>4, <1>11, <3>1
  <2> QED
    BY <1>9, <1>10, <2>1 DEF Covering
<1>12. ASSUME u < wide, src[i] # Blank,
              NEW k, k = Cardinality({j \in written : j <= i})
       PROVE  /\ k \in DOMAIN tree /\ Covering(tree, at + u) = {tree[k]}
              /\ tree[k].span = <<at, at + wide>>
  <2>1. i \in written
    BY <1>1, <1>2, <1>12 DEF Written
  <2>2. k \in DOMAIN tree /\ order[k] = i
    BY <1>1, <1>5, <1>7, <1>12, <2>1, PlaceOf
  <2>3. \A m \in DOMAIN tree : order[m] = i => m = k
    BY <1>6, <1>7, <2>2
  <2>4. Covering(tree, at + u) = {tree[k]}
    BY <1>9, <1>10, <1>12, <2>2, <2>3 DEF Covering
  <2>5. tree[k].span = <<at, at + wide>>
    BY <1>1, <1>8, <2>2
  <2> QED
    BY <2>2, <2>4, <2>5
<1>13. ASSUME u < wide, src[i] # Blank
       PROVE  CoversAlone(src, tree, i, at, at + u)
  <2>1. PICK k : k = Cardinality({j \in written : j <= i})
    OBVIOUS
  <2>2. IsNodeOf(k, src, tree, i, at) /\ Covering(tree, at + u) = {tree[k]}
    BY <1>1, <1>12, <1>13, <2>1 DEF IsNodeOf
  <2> QED
    BY <2>2 DEF CoversAlone
<1> QED
  BY <1>1, <1>11, <1>13

\* One after the other.
LEMMA TwoInRow ==
    ASSUME NEW x, NEW y
    PROVE  <<x>> \o <<y>> = <<x, y>>
<1>1. <<x>> \in Seq({x, y}) /\ <<y>> \in Seq({x, y}) /\ <<x, y>> \in Seq({x, y})
  OBVIOUS
<1>2. PICK s, t, r : s = <<x>> /\ t = <<y>> /\ r = s \o t
  OBVIOUS
<1>3. Len(s) = 1 /\ Len(t) = 1 /\ s[1] = x /\ t[1] = y
  BY <1>2
<1>4. r \in Seq({x, y}) /\ Len(r) = 2 /\ r[1] = x /\ r[2] = y
  BY <1>1, <1>2, <1>3
<1>5. r \in [1..2 -> {x, y}] /\ <<x, y>> \in [1..2 -> {x, y}]
  BY <1>1, <1>4
<1>6. \A m \in 1..2 : r[m] = <<x, y>>[m]
  <2>1. \A m \in 1..2 : m = 1 \/ m = 2
    OBVIOUS
  <2> QED
    BY <1>4, <2>1
<1>7. r = <<x, y>>
  BY <1>5, <1>6
<1> QED
  BY <1>2, <1>7

\* And before it, what is nested in the line there.
LEMMA NestedCovers ==
    ASSUME NEW src \in Seq(Lines), NEW tree, NEW last \in Nat, IsTree(tree, last),
           IsRead(tree, src), NEW at \in Nat,
           NEW i \in 1..Len(src), Start(src, i) = at,
           NEW chars, chars = CharsOf(src[i]),
           NEW a \in 0..Len(chars), NEW b \in 0..Len(chars),
           a <= b, b - a < Len(chars), NEW k \in 0..Len(chars),
           NEW nested,
           nested = [id   |-> last + 1,
                     span |-> <<at + UpTo(chars, a, "utf8"),
                                at + UpTo(chars, b, "utf8")>>]
    PROVE  AddressesForOffset(tree \o <<nested>>, at + UpTo(chars, k, "utf8"))
             = IF k = Len(chars) THEN <<>>
               ELSE (IF a <= k /\ k < b THEN <<last + 1>> ELSE <<>>)
                      \o (IF src[i] = Blank
                          THEN <<>> ELSE <<IdOfLine(src, tree, i)>>)
<1>1. PICK n, from, to, u, wide, start :
         /\ n = Len(chars) /\ from = UpTo(chars, a, "utf8") /\ to = UpTo(chars, b, "utf8")
         /\ u = UpTo(chars, k, "utf8") /\ wide = src[i].width /\ IsStart(start, src)
  BY StartExists
<1>2. /\ chars \in Seq(Char) /\ wide = UpTo(chars, n, "utf8") /\ n \in Nat
      /\ a \in 0..n /\ b \in 0..n /\ k \in 0..n /\ 0 \in 0..n /\ n \in 0..n
      /\ a \in Nat /\ b \in Nat /\ k \in Nat
  <2>1. src[i] \in Lines
    OBVIOUS
  <2>2. chars \in Seq(Char) /\ wide = Width(chars, "utf8")
    BY <1>1, <2>1, LineWidth
  <2> QED
    BY <1>1, <2>2 DEF Width
<1>3. /\ \A j \in 0..n : UpTo(chars, j, "utf8") \in Nat
      /\ \A j, m \in 0..n : j < m => UpTo(chars, j, "utf8") < UpTo(chars, m, "utf8")
      /\ UpTo(chars, 0, "utf8") = 0
  BY <1>1, <1>2, UpToFacts DEF Encodings
<1>4. from \in Nat /\ to \in Nat /\ u \in Nat /\ wide \in Nat
  BY <1>1, <1>2, <1>3
<1>5. /\ k < n => u < wide
      /\ k = n => u = wide
      /\ a <= k <=> from <= u
      /\ k < b <=> u < to
  <2>1. k < n => u < wide
    BY <1>1, <1>2, <1>3
  <2>2. k = n => u = wide
    BY <1>1, <1>2
  <2>3. a < k => from < u
    BY <1>1, <1>2, <1>3
  <2>4. k < a => u < from
    BY <1>1, <1>2, <1>3
  <2>5. k = a => u = from
    BY <1>1
  <2>6. k < b => u < to
    BY <1>1, <1>2, <1>3
  <2>7. b < k => to < u
    BY <1>1, <1>2, <1>3
  <2>8. b = k => to = u
    BY <1>1
  <2> QED
    BY <1>2, <1>4, <2>1, <2>2, <2>3, <2>4, <2>5, <2>6, <2>7, <2>8
<1>6. to - from < wide
  <2>1. 0 < a => 0 < from
    BY <1>1, <1>2, <1>3
  <2>2. b < n => to < wide
    BY <1>1, <1>2, <1>3
  <2>3. b = n => to = wide
    BY <1>1, <1>2
  <2>4. 0 < a \/ b < n
    BY <1>1, <1>2
  <2> QED
    BY <1>2, <1>4, <2>1, <2>2, <2>3, <2>4
<1>7. /\ nested.id = last + 1
      /\ nested.span[1] = at + from /\ nested.span[2] = at + to
  BY <1>1
<1>8. PICK both : both = tree \o <<nested>>
  OBVIOUS
<1>9. Range(both) = Range(tree) \cup {nested}
  <2>1. tree \in Seq(Range(tree)) /\ Len(tree) \in Nat /\ DOMAIN tree = 1..Len(tree)
    <3>1. tree = [m \in 1..Len(tree) |-> tree[m]] /\ Len(tree) \in Nat
      BY DEF IsTree
    <3>2. \A m \in 1..Len(tree) : tree[m] \in Range(tree)
      BY <3>1 DEF Range
    <3>3. PICK l, r : l = Len(tree) /\ r = Range(tree)
      OBVIOUS
    <3>4. tree \in [1..l -> r] /\ l \in Nat
      BY <3>1, <3>2, <3>3
    <3>5. tree \in Seq(r)
      BY <3>4
    <3> QED
      BY <3>1, <3>3, <3>5
  <2>2. PICK l : l = Len(tree)
    OBVIOUS
  <2>3. /\ DOMAIN both = 1..(l + 1) /\ both[l + 1] = nested
        /\ \A m \in 1..l : both[m] = tree[m]
    BY <1>8, <2>1, <2>2
  <2>4. l \in Nat /\ \A m \in 1..(l + 1) : m \in 1..l \/ m = l + 1
    BY <2>1, <2>2
  <2>5. Range(both) = {both[m] : m \in 1..(l + 1)} /\ Range(tree) = {tree[m] : m \in 1..l}
    BY <2>1, <2>2, <2>3 DEF Range
  <2>6. \A m \in 1..l : m \in 1..(l + 1)
    BY <2>4
  <2>7. l + 1 \in 1..(l + 1)
    BY <2>4
  <2> QED
    BY <2>3, <2>4, <2>5, <2>6, <2>7
<1>10. Covering(both, at + u)
         = Covering(tree, at + u) \cup (IF a <= k /\ k < b THEN {nested} ELSE {})
  <2>1. (nested.span[1] <= at + u /\ at + u < nested.span[2]) <=> (a <= k /\ k < b)
    BY <1>4, <1>5, <1>7
  <2> QED
    BY <1>9, <2>1 DEF Covering
<1>11. at = start[i - 1] /\ u \in 0..src[i].width
  <2>1. i \in 1..(Len(src) + 1)
    OBVIOUS
  <2>2. Start(src, i) = start[i - 1]
    BY <1>1, <2>1, StartIs
  <2>3. u <= wide
    BY <1>2, <1>4, <1>5
  <2> QED
    BY <1>1, <1>4, <2>2, <2>3
<1>12. /\ u = wide \/ src[i] = Blank => Covering(tree, at + u) = {}
       /\ u < wide /\ src[i] # Blank => CoversAlone(src, tree, i, at, at + u)
  <2>1. /\ u = src[i].width \/ src[i] = Blank => Covering(tree, start[i - 1] + u) = {}
        /\ u < src[i].width /\ src[i] # Blank =>
              CoversAlone(src, tree, i, start[i - 1], start[i - 1] + u)
    BY <1>1, <1>11, LineCovers
  <2> QED
    BY <1>1, <1>11, <2>1
<1> DEFINE inner == IF a <= k /\ k < b THEN <<last + 1>> ELSE <<>>
           line  == IF src[i] = Blank THEN <<>> ELSE <<IdOfLine(src, tree, i)>>
<1>13. ASSUME k = n
       PROVE  AddressesForOffset(both, at + u) = IF k = n THEN <<>> ELSE inner \o line
  <2>1. ~ (k < b)
    BY <1>2, <1>13
  <2>2. Covering(both, at + u) = {}
    BY <1>5, <1>10, <1>12, <1>13, <2>1
  <2>3. AddressesForOffset(both, at + u) = <<>>
    BY <2>2, FoundAt
  <2> QED
    BY <1>13, <2>3
<1>14. ASSUME k < n /\ src[i] = Blank
       PROVE  AddressesForOffset(both, at + u) = IF k = n THEN <<>> ELSE inner \o line
  <2>1. Covering(both, at + u) = IF a <= k /\ k < b THEN {nested} ELSE {}
    BY <1>10, <1>12, <1>14
  <2>2. CASE a <= k /\ k < b
    <3>1. nested.id \in Int /\ nested.span[1] \in Int /\ nested.span[2] \in Int
      BY <1>4, <1>7
    <3>2. Covering(both, at + u) = {nested}
      BY <2>1, <2>2
    <3>3. AddressesForOffset(both, at + u) = <<nested.id>>
      BY <3>1, <3>2, FoundAt
    <3>4. <<last + 1>> \o <<>> = <<last + 1>>
      OBVIOUS
    <3>5. inner = <<last + 1>> /\ line = <<>>
      BY <1>14, <2>2
    <3> QED
      BY <1>2, <1>7, <1>14, <3>3, <3>4, <3>5
  <2>3. CASE ~ (a <= k /\ k < b)
    <3>1. Covering(both, at + u) = {}
      BY <2>1, <2>3
    <3>2. AddressesForOffset(both, at + u) = <<>>
      BY <3>1, FoundAt
    <3>3. <<>> \o <<>> = <<>>
      OBVIOUS
    <3>4. inner = <<>> /\ line = <<>>
      BY <1>14, <2>3
    <3> QED
      BY <1>2, <1>14, <3>2, <3>3, <3>4
  <2> QED
    BY <2>2, <2>3
<1>15. ASSUME k < n /\ src[i] # Blank
       PROVE  AddressesForOffset(both, at + u) = IF k = n THEN <<>> ELSE inner \o line
  <2>1. PICK m : IsNodeOf(m, src, tree, i, at) /\ Covering(tree, at + u) = {tree[m]}
    BY <1>5, <1>12, <1>15 DEF CoversAlone
  <2>2. PICK mine : mine = tree[m]
    OBVIOUS
  <2>3. /\ m \in DOMAIN tree /\ Covering(tree, at + u) = {mine}
        /\ mine.span = <<at, at + wide>>
        /\ m = Cardinality({j \in Written(src) : j <= i})
    BY <1>1, <2>1, <2>2 DEF IsNodeOf
  <2>4. /\ mine.id \in Int /\ mine.span[1] = at /\ mine.span[2] = at + wide
        /\ mine.span[1] \in Int /\ mine.span[2] \in Int
    <3>1. mine.id \in 1..last
      BY <2>2, <2>3 DEF IsTree
    <3>2. mine.span[1] = at /\ mine.span[2] = at + wide
      BY <2>3
    <3> QED
      BY <1>4, <3>1, <3>2
  <2>5. IdOfLine(src, tree, i) = mine.id
    BY <2>2, <2>3 DEF IdOfLine
  <2>6. CASE a <= k /\ k < b
    <3>1. nested.id \in Int /\ nested.span[1] \in Int /\ nested.span[2] \in Int
      BY <1>4, <1>7
    <3>2. Covering(both, at + u) = {nested, mine}
      BY <1>10, <2>3, <2>6
    <3>3. nested.span[2] - nested.span[1] < mine.span[2] - mine.span[1]
      BY <1>4, <1>6, <1>7, <2>4
    <3>4. AddressesForOffset(both, at + u) = <<nested.id, mine.id>>
      <4>1. Inside(nested, mine)
        BY <2>4, <3>1, <3>3 DEF Inside
      <4> QED
        BY <3>2, <4>1, FoundTwo
    <3>5. <<last + 1>> \o <<mine.id>> = <<last + 1, mine.id>>
      BY TwoInRow
    <3>6. inner = <<last + 1>> /\ line = <<mine.id>>
      BY <1>15, <2>5, <2>6
    <3> HIDE DEF inner, line
    <3>7. k # n
      BY <1>2, <1>15
    <3>8. inner \o line = <<nested.id, mine.id>>
      BY <1>7, <3>5, <3>6
    <3> QED
      BY <3>4, <3>7, <3>8
  <2>7. CASE ~ (a <= k /\ k < b)
    <3>1. Covering(both, at + u) = {mine}
      BY <1>10, <2>3, <2>7
    <3>2. AddressesForOffset(both, at + u) = <<mine.id>>
      BY <2>4, <3>1, FoundAt
    <3>3. <<>> \o <<mine.id>> = <<mine.id>>
      OBVIOUS
    <3>4. inner = <<>> /\ line = <<mine.id>>
      BY <1>15, <2>5, <2>7
    <3> HIDE DEF inner, line
    <3> QED
      BY <1>2, <1>15, <3>2, <3>3, <3>4
  <2> QED
    BY <2>6, <2>7
<1>16. k = n \/ k < n
  BY <1>2
<1>17. AddressesForOffset(both, at + u) = IF k = n THEN <<>> ELSE inner \o line
  BY <1>13, <1>14, <1>15, <1>16
<1> QED
  BY Zenon, <1>1, <1>8, <1>17

-----------------------------------------------------------------------------
\* In a source whose lines end in one byte, a caret that a host puts on a
\* character is found in the node of the line, after what is nested in the line
\* there, and on a line end nowhere (fixture.rs, set_source; candidate.rs,
\* byte_offset_of and addresses_for_offset).
THEOREM CaretSafe == Spec => []CaretFindsItsLine
<1>1. FrontendInv /\ IsRead(nodes, source) => CaretFindsItsLine
  <2> SUFFICES ASSUME FrontendInv, IsRead(nodes, source),
                      NEW i \in DOMAIN source
               PROVE  LET chars  == CharsOf(source[i])
                          text   == TextOf(source, 1)
                          before == Len(TextOf(SubSeq(source, 1, i - 1), 1))
                          In(k)  == Start(source, i) + UpTo(chars, k, "utf8")
                          Nested(a, b) == [id |-> next_id + 1, span |-> <<In(a), In(b)>>]
                          Found(k, nested) ==
                              LET caret == Converted(text, "utf16", "utf8",
                                                     UpTo(text, before + k, "utf16"))
                              IN  AddressesForOffset(nodes \o <<nested>>, caret.offset)
                          InLine == IF source[i] = Blank
                                    THEN <<>> ELSE <<IdOfLine(source, nodes, i)>>
                      IN  \A a, b \in 0..Len(chars) :
                              a <= b /\ b - a < Len(chars) =>
                                 /\ Found(Len(chars), Nested(a, b)) = <<>>
                                 /\ \A k \in 0..(Len(chars) - 1) :
                                      Found(k, Nested(a, b)) =
                                          (IF a <= k /\ k < b THEN <<next_id + 1>> ELSE <<>>)
                                             \o InLine
    BY DEF CaretFindsItsLine
  <2> DEFINE chars  == CharsOf(source[i])
             text   == TextOf(source, 1)
             before == Len(TextOf(SubSeq(source, 1, i - 1), 1))
             In(k)  == Start(source, i) + UpTo(chars, k, "utf8")
             Nested(a, b) == [id |-> next_id + 1, span |-> <<In(a), In(b)>>]
             Caret(k) == Converted(text, "utf16", "utf8",
                                   UpTo(text, before + k, "utf16"))
             Found(k, nested) ==
                 AddressesForOffset(nodes \o <<nested>>, Caret(k).offset)
             InLine == IF source[i] = Blank
                       THEN <<>> ELSE <<IdOfLine(source, nodes, i)>>
  <2>1. /\ source \in Seq(Lines) /\ i \in 1..Len(source)
        /\ next_id \in Nat /\ IsTree(nodes, next_id)
    <3>1. source \in Sources \/ source = <<>>
      BY DEF FrontendInv, SessionOK
    <3>2. Sources \subseteq Seq(Lines)
      BY FrontendAssumption DEF Lines
    <3>3. <<>> \in Seq(Lines)
      OBVIOUS
    <3>4. source \in Seq(Lines)
      BY Zenon, <3>1, <3>2, <3>3
    <3> QED
      BY <3>4, FrontendAssumption DEF FrontendInv, SessionOK
  <2>2. PICK start : IsStart(start, source)
    BY <2>1, StartExists
  <2>3. Start(source, i) = start[i - 1] /\ Start(source, i) \in Nat
    <3>1. i \in 1..(Len(source) + 1) /\ i - 1 \in 0..Len(source)
      BY <2>1
    <3> QED
      BY <2>1, <2>2, <3>1, StartIs DEF IsStart
  <2>4. ASSUME NEW k \in 0..Len(chars)
        PROVE  Caret(k).offset = In(k)
    <3>1. Converted(TextOf(source, 1), "utf16", "utf8",
                    UpTo(TextOf(source, 1),
                         Len(TextOf(SubSeq(source, 1, i - 1), 1)) + k,
                         "utf16")).offset
            = start[i - 1] + UpTo(CharsOf(source[i]), k, "utf8")
      BY Zenon, <2>1, <2>2, CaretConverts
    <3> QED
      BY Zenon, <2>3, <3>1
  <2>5. ASSUME NEW a \in 0..Len(chars), NEW b \in 0..Len(chars),
               a <= b, b - a < Len(chars), NEW k \in 0..Len(chars)
        PROVE  Found(k, Nested(a, b))
                 = IF k = Len(chars) THEN <<>>
                   ELSE (IF a <= k /\ k < b THEN <<next_id + 1>> ELSE <<>>) \o InLine
    <3>1. AddressesForOffset(nodes \o <<Nested(a, b)>>, In(k))
            = IF k = Len(chars) THEN <<>>
              ELSE (IF a <= k /\ k < b THEN <<next_id + 1>> ELSE <<>>) \o InLine
      <4>1. PICK at : at = Start(source, i)
        OBVIOUS
      <4>2. PICK nested :
               nested = [id   |-> next_id + 1,
                         span |-> <<at + UpTo(CharsOf(source[i]), a, "utf8"),
                                    at + UpTo(CharsOf(source[i]), b, "utf8")>>]
        OBVIOUS
      <4>3. at \in Nat /\ Start(source, i) = at
        BY <2>3, <4>1
      <4>4. AddressesForOffset(nodes \o <<nested>>, at + UpTo(CharsOf(source[i]), k, "utf8"))
              = IF k = Len(CharsOf(source[i])) THEN <<>>
                ELSE (IF a <= k /\ k < b THEN <<next_id + 1>> ELSE <<>>)
                       \o (IF source[i] = Blank
                           THEN <<>> ELSE <<IdOfLine(source, nodes, i)>>)
        BY <2>1, <2>5, <4>2, <4>3, NestedCovers
      <4> QED
        BY Zenon, <4>1, <4>2, <4>4
    <3> QED
      BY <2>4, <2>5, <3>1
  <2>6. Len(chars) \in 0..Len(chars) /\ \A k \in 0..(Len(chars) - 1) :
           k \in 0..Len(chars) /\ k # Len(chars)
    <3>1. source[i] \in Lines
      BY <2>1
    <3>2. chars \in Seq(Char)
      BY <3>1, LineWidth
    <3> QED
      BY <3>2
  <2> HIDE DEF chars, Found, Nested, InLine
  <2>7. \A a, b \in 0..Len(chars) :
           a <= b /\ b - a < Len(chars) =>
              /\ Found(Len(chars), Nested(a, b)) = <<>>
              /\ \A k \in 0..(Len(chars) - 1) :
                   Found(k, Nested(a, b)) =
                       (IF a <= k /\ k < b THEN <<next_id + 1>> ELSE <<>>) \o InLine
    BY <2>5, <2>6
  <2> QED
    BY Zenon, <2>7 DEF chars, Found, Nested, InLine
<1> QED
  BY <1>1, Invariance, NodesAreRead, PTL
=============================================================================
