-------------------------- MODULE Projection_proofs --------------------------
(***************************************************************************)
(* What is sorted, kept in order and folded, for every finite set; that    *)
(* subtree equality is an equivalence, and what a delta says and does not  *)
(* say about an address, for every set of addresses and records.           *)
(***************************************************************************)
EXTENDS Projection, FiniteSetTheorems, TLAPS

\* A relation, as a set of pairs, that puts the members of a set in a row.
IsOrderOf(before, set) ==
    /\ \A x \in set : <<x, x>> \notin before
    /\ \A x, y \in set : x # y => <<x, y>> \in before \/ <<y, x>> \in before
    /\ \A x, y, z \in set :
          <<x, y>> \in before /\ <<y, z>> \in before => <<x, z>> \in before

\* What comes before a member.
Below(x, set, before) == {y \in set : <<y, x>> \in before}

\* Its place is how many come before it: no two have the same, and none is
\* left free.
LEMMA Ranks ==
    ASSUME NEW set, IsFiniteSet(set), NEW before, IsOrderOf(before, set)
    PROVE  LET Rank(x) == Cardinality(Below(x, set, before))
           IN  /\ Cardinality(set) \in Nat
               /\ \A x \in set : Rank(x) \in 0..(Cardinality(set) - 1)
               /\ \A x, y \in set : <<x, y>> \in before => Rank(x) < Rank(y)
               /\ \A x, y \in set : Rank(x) = Rank(y) => x = y
               /\ \A k \in 0..(Cardinality(set) - 1) :
                     \E x \in set : Rank(x) = k
<1> DEFINE n == Cardinality(set)
           Rank(x) == Cardinality(Below(x, set, before))
<1>1. n \in Nat
  BY FS_CardinalityType
<1>2. ASSUME NEW x \in set
      PROVE  IsFiniteSet(Below(x, set, before)) /\ Rank(x) \in 0..(n - 1)
  <2>1. Below(x, set, before) \in SUBSET set /\ x \notin Below(x, set, before)
    BY DEF IsOrderOf, Below
  <2>2. /\ IsFiniteSet(Below(x, set, before)) /\ Rank(x) <= n
        /\ n = Rank(x) => set = Below(x, set, before)
    BY <2>1, FS_Subset
  <2>3. Rank(x) \in Nat
    BY <2>2, FS_CardinalityType
  <2> QED
    BY <1>1, <2>1, <2>2, <2>3
<1>3. ASSUME NEW x \in set, NEW y \in set, <<x, y>> \in before
      PROVE  Rank(x) < Rank(y)
  <2>1. /\ Below(x, set, before) \in SUBSET Below(y, set, before)
        /\ x \in Below(y, set, before) /\ x \notin Below(x, set, before)
    BY <1>3 DEF IsOrderOf, Below
  <2>2. /\ Rank(x) <= Rank(y)
        /\ Rank(y) = Rank(x) => Below(y, set, before) = Below(x, set, before)
    BY <1>2, <2>1, FS_Subset
  <2>3. Rank(x) \in Nat /\ Rank(y) \in Nat
    BY <1>1, <1>2
  <2> QED
    BY <2>1, <2>2, <2>3
<1>4. ASSUME NEW x \in set, NEW y \in set, Rank(x) = Rank(y)
      PROVE  x = y
  <2>1. Rank(x) \in Nat
    BY <1>1, <1>2
  <2>2. ~ (Rank(x) < Rank(y)) /\ ~ (Rank(y) < Rank(x))
    BY <1>4, <2>1
  <2> QED
    BY <1>3, <2>2 DEF IsOrderOf
<1>5. \A k \in 0..(n - 1) : \E x \in set : Rank(x) = k
  <2> DEFINE places == 0..(n - 1)
             rank == [x \in set |-> Rank(x)]
  <2>1. IsFiniteSet(places) /\ Cardinality(places) = n
    BY <1>1, FS_Interval
  <2>2. rank \in Injection(set, places)
    BY <1>2, <1>4 DEF Injection, IsInjective
  <2>3. rank \in Surjection(set, places)
    BY <2>1, <2>2, FS_Injection
  <2> QED
    BY <2>3 DEF Surjection
<1> QED
  BY <1>1, <1>2, <1>3, <1>4, <1>5

\* s has every member of the set once, each after those before it.
LaysOut(s, set, before) ==
    /\ s \in Seq(set) /\ Len(s) = Cardinality(set)
    /\ \A i, j \in DOMAIN s : i < j => <<s[i], s[j]>> \in before
    /\ \A i, j \in DOMAIN s : s[i] = s[j] => i = j
    /\ Range(s) = set

LEMMA OrderedFacts ==
    ASSUME NEW set, IsFiniteSet(set), NEW before, IsOrderOf(before, set)
    PROVE  LaysOut(Ordered(set, before), set, before)
<1> DEFINE s == Ordered(set, before)
           n == Cardinality(set)
           Rank(x) == Cardinality(Below(x, set, before))
<1>1. /\ n \in Nat
      /\ \A x \in set : Rank(x) \in 0..(n - 1)
      /\ \A x, y \in set : <<x, y>> \in before => Rank(x) < Rank(y)
      /\ \A x, y \in set : Rank(x) = Rank(y) => x = y
      /\ \A k \in 0..(n - 1) : \E x \in set : Rank(x) = k
  BY Ranks
<1>2. s = [k \in 1..n |-> CHOOSE x \in set : Rank(x) = k - 1]
  BY DEF Ordered, Below
<1> HIDE DEF s, n, Rank
<1>3. ASSUME NEW k \in 1..n PROVE s[k] \in set /\ Rank(s[k]) = k - 1
  <2>1. \E x \in set : Rank(x) = k - 1
    BY <1>1
  <2> QED
    BY <1>2, <2>1
<1>4. s \in [1..n -> set]
  BY <1>2, <1>3
<1>5. Len(s) = n /\ DOMAIN s = 1..n /\ s \in Seq(set)
  BY <1>1, <1>4
<1>6. ASSUME NEW i \in 1..n, NEW j \in 1..n, i < j
      PROVE  <<s[i], s[j]>> \in before
  <2>1. /\ s[i] \in set /\ s[j] \in set
        /\ Rank(s[i]) = i - 1 /\ Rank(s[j]) = j - 1
    BY <1>3
  <2>2. s[i] # s[j] /\ ~ (Rank(s[j]) < Rank(s[i]))
    BY <1>6, <2>1
  <2> QED
    BY <1>1, <2>1, <2>2 DEF IsOrderOf
<1>7. \A i, j \in 1..n : s[i] = s[j] => i = j
  <2>1. \A i, j \in 1..n : s[i] = s[j] => i - 1 = j - 1
    BY <1>3
  <2> QED
    BY <1>1, <2>1
<1>8. \A x \in set : \E k \in 1..n : s[k] = x
  <2> SUFFICES ASSUME NEW x \in set PROVE \E k \in 1..n : s[k] = x
    OBVIOUS
  <2>1. Rank(x) + 1 \in 1..n
    BY <1>1
  <2>2. s[Rank(x) + 1] \in set /\ Rank(s[Rank(x) + 1]) = Rank(x)
    BY <1>1, <1>3, <2>1
  <2>3. s[Rank(x) + 1] = x
    BY <1>1, <2>2
  <2> QED
    BY <2>1, <2>3
<1>9. Range(s) = set
  BY <1>4, <1>5, <1>8 DEF Range
<1> QED
  BY <1>5, <1>6, <1>7, <1>9 DEF LaysOut, s, n

LEMMA IncreasingFacts ==
    ASSUME NEW set \in SUBSET Nat, IsFiniteSet(set)
    PROVE  LaysOut(Increasing(set), set, {pair \in Nat \X Nat : pair[1] < pair[2]})
<1>1. PICK before : before = {pair \in set \X set : pair[1] < pair[2]}
  OBVIOUS
<1>2. \A x, y \in set : <<x, y>> \in before <=> x < y
  BY <1>1
<1>3. IsOrderOf(before, set)
  BY <1>2 DEF IsOrderOf
<1>4. PICK s : s = Ordered(set, before)
  OBVIOUS
<1>5. LaysOut(s, set, before)
  BY <1>3, <1>4, OrderedFacts
<1>6. s = Increasing(set)
  BY <1>1, <1>4 DEF Increasing
<1>7. before \subseteq {pair \in Nat \X Nat : pair[1] < pair[2]}
  BY <1>1
<1> QED
  BY <1>5, <1>6, <1>7 DEF LaysOut

\* What is kept of a sequence is a sequence of what was kept.
LEMMA AtFacts ==
    ASSUME NEW values, NEW s \in Seq(values), NEW places \in SUBSET DOMAIN s
    PROVE  /\ At(s, places) \in Seq(values)
           /\ Range(At(s, places)) = {s[k] : k \in places}
           /\ Len(At(s, places)) = Cardinality(places)
<1>1. IsFiniteSet(places) /\ places \in SUBSET Nat
  <2>1. DOMAIN s = 1..Len(s) /\ Len(s) \in Nat
    OBVIOUS
  <2>2. IsFiniteSet(1..Len(s))
    BY <2>1, FS_Interval
  <2> QED
    BY <2>1, <2>2, FS_Subset
<1>2. PICK place : place = Increasing(places)
  OBVIOUS
<1>3. /\ place \in Seq(places) /\ Len(place) = Cardinality(places)
      /\ Range(place) = places
  BY <1>1, <1>2, IncreasingFacts DEF LaysOut
<1>4. At(s, places) = [k \in 1..Len(place) |-> s[place[k]]]
  BY <1>2, <1>3 DEF At
<1>5. \A k \in 1..Len(place) : place[k] \in places
  BY <1>3
<1>6. \A k \in 1..Len(place) : s[place[k]] \in values
  BY <1>5
<1>7. At(s, places) \in Seq(values) /\ Len(At(s, places)) = Len(place)
  BY <1>3, <1>4, <1>6
<1>8. Range(At(s, places)) = {s[k] : k \in places}
  <2>1. Range(At(s, places)) = {s[place[k]] : k \in 1..Len(place)}
    BY <1>4 DEF Range
  <2>2. ASSUME NEW p \in places PROVE \E k \in 1..Len(place) : place[k] = p
    BY <1>3 DEF Range
  <2> QED
    BY <1>5, <2>1, <2>2
<1> QED
  BY <1>3, <1>7, <1>8

-----------------------------------------------------------------------------
\* Induction over the subsets of a finite set, of a property given as the sets
\* that have it.
LEMMA SubsetsReached ==
    ASSUME NEW set, IsFiniteSet(set), NEW good,
           \A s \in SUBSET set :
              (\A t \in SUBSET s : t # s => t \in good) => s \in good
    PROVE  SUBSET set \subseteq good
<1> SUFFICES ASSUME NEW some \in SUBSET set, some \notin good PROVE FALSE
  OBVIOUS
<1> DEFINE bad == {s \in SUBSET set : s \notin good}
<1>1. bad \subseteq FiniteSubsetsOf(set) /\ bad # {}
  BY FS_FiniteSubsetsOfFinite
<1>2. PICK s \in bad :
        \A t \in bad : ~ (<<t, s>> \in StrictSubsetOrdering(set))
  <2> HIDE DEF bad
  <2> QED
    BY <1>1, FS_StrictSubsetOrderingWellFounded, WFMin
<1>3. \A t \in SUBSET s : t # s => t \in good
  <2> SUFFICES ASSUME NEW t \in SUBSET s, t # s, t \notin good PROVE FALSE
    OBVIOUS
  <2>1. t \in bad
    OBVIOUS
  <2>2. <<t, s>> \in StrictSubsetOrdering(set)
    BY DEF StrictSubsetOrdering
  <2> QED
    BY <1>2, <2>1, <2>2
<1> QED
  BY <1>3

\* Induction over the naturals, of a property given as the set that has it.
LEMMA NaturalsReached ==
    ASSUME NEW set, 0 \in set, \A n \in Nat : n \in set => n + 1 \in set
    PROVE  Nat \subseteq set
<1> SUFFICES ASSUME NEW n \in Nat, n \notin set PROVE FALSE
  OBVIOUS
<1> DEFINE missed == {0..m : m \in Nat \ set}
<1>1. missed \subseteq FiniteSubsetsOf(Nat) /\ missed # {}
  <2>1. ASSUME NEW m \in Nat PROVE IsFiniteSet(0..m) /\ 0..m \in SUBSET Nat
    BY FS_Interval
  <2> QED
    BY <2>1 DEF FiniteSubsetsOf
<1>2. PICK up \in missed :
        \A other \in missed : ~ (<<other, up>> \in StrictSubsetOrdering(Nat))
  <2> HIDE DEF missed
  <2> QED
    BY <1>1, FS_StrictSubsetOrderingWellFounded, WFMin
<1>3. PICK m \in Nat \ set : up = 0..m
  OBVIOUS
<1>4. m # 0 /\ m - 1 \in Nat \ set
  <2>1. m # 0
    BY <1>3
  <2>2. m - 1 \in Nat /\ (m - 1) + 1 = m
    BY <2>1
  <2> QED
    BY <2>1, <2>2
<1>5. 0..(m - 1) \in missed
  BY <1>4
<1>6. /\ 0..(m - 1) \subseteq 0..m
      /\ m \in 0..m /\ m \notin 0..(m - 1)
      /\ 0..m \in SUBSET Nat /\ 0..(m - 1) \in SUBSET Nat
  BY <1>4
<1>7. <<0..(m - 1), 0..m>> \in StrictSubsetOrdering(Nat)
  BY <1>6 DEF StrictSubsetOrdering
<1> QED
  BY <1>2, <1>3, <1>5, <1>7

\* f folds the subsets of a set: a member of each is taken by pick, and the
\* rest is folded before it.
IsFold(f, set, base, pick, step) ==
    f = [s \in SUBSET set |->
            IF s = {} THEN base ELSE step[pick[s]][f[s \ {pick[s]}]]]

LEMMA FoldsAgree ==
    ASSUME NEW set, IsFiniteSet(set), NEW base, NEW pick, NEW step,
           \A s \in SUBSET set : s # {} => pick[s] \in s,
           NEW one, NEW big, set \in SUBSET big, IsFold(one, set, base, pick, step),
           NEW two, IsFold(two, big, base, pick, step),
           NEW s \in SUBSET set
    PROVE  one[s] = two[s]
<1> DEFINE good == {t \in SUBSET set : one[t] = two[t]}
<1>1. ASSUME NEW t \in SUBSET set, \A u \in SUBSET t : u # t => u \in good
      PROVE  t \in good
  <2>1. CASE t = {}
    BY <2>1 DEF IsFold
  <2>2. CASE t # {}
    <3> DEFINE u == t \ {pick[t]}
    <3>1. u \in SUBSET t /\ u # t
      BY <2>2
    <3>2. one[u] = two[u]
      BY <1>1, <3>1
    <3> HIDE DEF u
    <3>3. one[t] = step[pick[t]][one[u]] /\ two[t] = step[pick[t]][two[u]]
      BY <2>2 DEF IsFold, u
    <3> QED
      BY <3>2, <3>3
  <2> QED
    BY <2>1, <2>2
<1> HIDE DEF good
<1>2. SUBSET set \subseteq good
  BY <1>1, SubsetsReached
<1> QED
  BY <1>2 DEF good

\* There is one, and its values are where the steps lead.
LEMMA FoldsExist ==
    ASSUME NEW set, IsFiniteSet(set), NEW values, NEW base \in values, NEW pick,
           \A s \in SUBSET set : s # {} => pick[s] \in s,
           NEW step, \A x \in set, v \in values : step[x][v] \in values
    PROVE  \E f \in [SUBSET set -> values] : IsFold(f, set, base, pick, step)
<1> DEFINE Is(f, s) == f \in [SUBSET s -> values] /\ IsFold(f, s, base, pick, step)
           good == {s \in SUBSET set : \E f : Is(f, s)}
           Of(s) == CHOOSE f : Is(f, s)
<1>1. ASSUME NEW t \in SUBSET set, \A u \in SUBSET t : u # t => u \in good
      PROVE  t \in good
  <2> DEFINE last == IF t = {} THEN base
                     ELSE step[pick[t]][Of(t \ {pick[t]})[t \ {pick[t]}]]
             f == [s \in SUBSET t |-> IF s = t THEN last ELSE Of(s)[s]]
  <2>1. ASSUME NEW u \in SUBSET t, u # t PROVE Is(Of(u), u)
    <3> HIDE DEF Is
    <3> QED
      BY <1>1, <2>1
  <2>2. last \in values
    <3>1. CASE t = {}
      BY <3>1
    <3>2. CASE t # {}
      <4> DEFINE u == t \ {pick[t]}
      <4>1. u \in SUBSET t /\ u # t /\ pick[t] \in set
        BY <3>2
      <4>2. Of(u)[u] \in values
        <5> HIDE DEF Of, u
        <5> QED
          BY <2>1, <4>1
      <4> QED
        BY <3>2, <4>1, <4>2
    <3> QED
      BY <3>1, <3>2
  <2>3. f \in [SUBSET t -> values]
    <3>1. ASSUME NEW s \in SUBSET t, s # t PROVE Of(s)[s] \in values
      <4>1. Of(s) \in [SUBSET s -> values]
        <5> HIDE DEF Of
        <5> QED
          BY <2>1, <3>1
      <4>2. s \in SUBSET s
        OBVIOUS
      <4> HIDE DEF Of
      <4> QED
        BY <4>1, <4>2
    <3> HIDE DEF last, Of
    <3>2. \A s \in SUBSET t : (IF s = t THEN last ELSE Of(s)[s]) \in values
      BY <2>2, <3>1
    <3> QED
      BY <3>2
  <2>4. ASSUME NEW s \in SUBSET t, s # {}
        PROVE  f[s] = step[pick[s]][f[s \ {pick[s]}]]
    <3> DEFINE u == s \ {pick[s]}
    <3>1. /\ u \in SUBSET s /\ u # s /\ u \in SUBSET t /\ u # t
          /\ pick[s] \in s
      BY <2>4
    <3>2. f[u] = Of(u)[u]
      BY <3>1
    <3>3. CASE s = t
      BY <2>4, <3>2, <3>3
    <3>4. CASE s # t
      <4>1. Is(Of(s), s) /\ Is(Of(u), u)
        <5> HIDE DEF Is, Of, u
        <5> QED
          BY <2>1, <3>1, <3>4
      <4>2. Of(s)[u] = Of(u)[u]
        <5>1. IsFiniteSet(u)
          BY <3>1, FS_Subset
        <5>2. \A v \in SUBSET u : v # {} => pick[v] \in v
          BY <3>1
        <5>3. u \in SUBSET u
          OBVIOUS
        <5> HIDE DEF Of, u
        <5> QED
          BY <3>1, <4>1, <5>1, <5>2, <5>3, FoldsAgree
      <4>3. Of(s)[s] = step[pick[s]][Of(s)[u]]
        <5> HIDE DEF Of
        <5> QED
          BY <2>4, <4>1 DEF IsFold
      <4>4. f[s] = Of(s)[s]
        BY <3>4
      <4> HIDE DEF f, Of
      <4> QED
        BY <3>2, <4>2, <4>3, <4>4
    <3> QED
      BY <3>3, <3>4
  <2>5. f[{}] = base
    <3>1. CASE t = {}
      BY <3>1
    <3>2. CASE t # {}
      <4>1. Is(Of({}), {})
        <5> HIDE DEF Is, Of
        <5> QED
          BY <2>1, <3>2
      <4>2. Of({})[{}] = base
        <5> HIDE DEF Of
        <5> QED
          BY <4>1 DEF IsFold
      <4> QED
        BY <3>2, <4>2
    <3> QED
      BY <3>1, <3>2
  <2> HIDE DEF f
  <2>6. IsFold(f, t, base, pick, step)
    <3>1. \A s \in SUBSET t :
             f[s] = IF s = {} THEN base ELSE step[pick[s]][f[s \ {pick[s]}]]
      BY <2>4, <2>5
    <3> QED
      BY <2>3, <3>1 DEF IsFold
  <2> QED
    BY <2>3, <2>6
<1> HIDE DEF good
<1>2. SUBSET set \subseteq good
  BY <1>1, SubsetsReached
<1>3. set \in good
  BY <1>2
<1> QED
  BY <1>3 DEF good

-----------------------------------------------------------------------------
\* The children of a record are addresses.
LEMMA ChildrenAreAddresses ==
    ASSUME NEW doc, IsDocument(doc), NEW x
    PROVE  Children(doc, x) \subseteq Address
<1>1. CASE x \in DOMAIN doc
  <2>1. doc[x] \in Node
    BY <1>1 DEF IsDocument, IsMap
  <2>2. doc[x].children \in Seq(Address)
    BY <2>1, NodeAssumption
  <2> QED
    BY <1>1, <2>2 DEF Children, Range
<1>2. CASE x \notin DOMAIN doc
  BY <1>2 DEF Children
<1> QED
  BY <1>1, <1>2

\* Documents that agree on a record agree on its children.
LEMMA AgreeingChildren ==
    ASSUME NEW before, NEW after, NEW x, Agrees(before, after, x)
    PROVE  Children(before, x) = Children(after, x)
<1>1. CASE x \in DOMAIN before \cap DOMAIN after
  <2>1. Proj(before[x]) = Proj(after[x])
    BY <1>1 DEF Agrees, OwnEq
  <2>2. before[x].children = after[x].children
    BY <2>1 DEF Proj
  <2> QED
    BY <1>1, <2>2 DEF Children
<1>2. CASE x \notin DOMAIN before /\ x \notin DOMAIN after
  BY <1>2 DEF Children
<1> QED
  BY <1>1, <1>2 DEF Agrees

\* A document agrees with itself on every subtree (delta.rs, subtree_eq).
LEMMA SubtreeEqReflexive ==
    ASSUME NEW doc, IsDocument(doc), NEW x \in Address
    PROVE  SubtreeEq(doc, doc, x)
<1>1. \A y \in Address : Agrees(doc, doc, y)
  BY DEF Agrees, OwnEq
<1>2. Closed(doc, doc, Address)
  BY <1>1, ChildrenAreAddresses DEF Closed
<1> QED
  BY <1>2 DEF SubtreeEq

\* Subtree equality does not depend on which document is walked.
LEMMA SubtreeEqSymmetric ==
    ASSUME NEW before, NEW after, NEW x, SubtreeEq(before, after, x)
    PROVE  SubtreeEq(after, before, x)
<1>1. PICK set \in SUBSET Address : x \in set /\ Closed(before, after, set)
  BY DEF SubtreeEq
<1>2. ASSUME NEW y \in set
      PROVE  Agrees(after, before, y) /\ Children(after, y) \subseteq set
  <2>1. Agrees(before, after, y) /\ Children(before, y) \subseteq set
    BY <1>1 DEF Closed
  <2>2. Agrees(after, before, y)
    BY <2>1 DEF Agrees, OwnEq
  <2> QED
    BY <2>1, <2>2, AgreeingChildren
<1>3. Closed(after, before, set)
  BY <1>2 DEF Closed
<1> QED
  BY <1>1, <1>3 DEF SubtreeEq

\* Equality through an intermediate document: the addresses on which neither
\* walk finds a difference are closed under the children of the first.
LEMMA SubtreeEqTransitive ==
    ASSUME NEW first, NEW second, NEW third, NEW x,
           SubtreeEq(first, second, x), SubtreeEq(second, third, x)
    PROVE  SubtreeEq(first, third, x)
<1>1. PICK one \in SUBSET Address : x \in one /\ Closed(first, second, one)
  BY DEF SubtreeEq
<1>2. PICK two \in SUBSET Address : x \in two /\ Closed(second, third, two)
  BY DEF SubtreeEq
<1> DEFINE both == one \cap two
<1>3. ASSUME NEW y \in both
      PROVE  Agrees(first, third, y) /\ Children(first, y) \subseteq both
  <2>1. Agrees(first, second, y) /\ Children(first, y) \subseteq one
    BY <1>1 DEF Closed
  <2>2. Agrees(second, third, y) /\ Children(second, y) \subseteq two
    BY <1>2 DEF Closed
  <2>3. Agrees(first, third, y)
    BY <2>1, <2>2 DEF Agrees, OwnEq
  <2>4. Children(first, y) = Children(second, y)
    BY <2>1, AgreeingChildren
  <2> QED
    BY <2>1, <2>2, <2>3, <2>4
<1>4. Closed(first, third, both)
  BY <1>3 DEF Closed
<1>5. both \in SUBSET Address /\ x \in both
  BY <1>1, <1>2
<1> QED
  BY <1>4, <1>5 DEF SubtreeEq

\* Equal subtrees have equal roots.
LEMMA SubtreeEqAgrees ==
    ASSUME NEW before, NEW after, NEW x, SubtreeEq(before, after, x)
    PROVE  Agrees(before, after, x)
  BY DEF SubtreeEq, Closed

\* Equal subtrees have equal subtrees below every child, in either document.
LEMMA SubtreeEqBelow ==
    ASSUME NEW before, NEW after, NEW x, SubtreeEq(before, after, x),
           NEW y \in Children(before, x) \cup Children(after, x)
    PROVE  SubtreeEq(before, after, y)
<1>1. PICK set \in SUBSET Address : x \in set /\ Closed(before, after, set)
  BY DEF SubtreeEq
<1>2. Children(before, x) = Children(after, x)
  BY SubtreeEqAgrees, AgreeingChildren
<1>3. y \in set
  BY <1>1, <1>2 DEF Closed
<1> QED
  BY <1>1, <1>3 DEF SubtreeEq

-----------------------------------------------------------------------------
\* The addresses a delta names are the live ones whose subtree differs.
LEMMA NamedAddresses ==
    ASSUME NEW before, NEW after
    PROVE  /\ DOMAIN DiffsBetween(before, after) =
                {y \in DOMAIN before \cup DOMAIN after :
                    ~ SubtreeEq(before, after, y)}
           /\ \A x \in DOMAIN DiffsBetween(before, after) :
                DiffsBetween(before, after)[x] = PartsOf(before, after, x)
  BY DEF DiffsBetween

\* Above an address that changed, every parent that is still live is named,
\* with Descendant among its parts (node.rs, Part::Descendant): a consumer
\* that re-reads what is named never holds a stale child.
THEOREM ParentsCarryDescendant ==
    ASSUME NEW before, NEW after, NEW y \in DOMAIN after,
           NEW x \in Children(before, y) \cup Children(after, y),
           x \in DOMAIN DiffsBetween(before, after)
    PROVE  /\ y \in DOMAIN DiffsBetween(before, after)
           /\ "Descendant" \in DiffsBetween(before, after)[y]
<1>1. ~ SubtreeEq(before, after, x)
  BY NamedAddresses
<1>2. ~ SubtreeEq(before, after, y)
  BY <1>1, SubtreeEqBelow
<1>3. y \in DOMAIN DiffsBetween(before, after)
  BY <1>2, NamedAddresses
<1>4. DescendantDiffers(before, after, y)
  BY <1>1 DEF DescendantDiffers
<1>5. "Descendant" \in PartsOf(before, after, y)
  BY <1>4 DEF PartsOf
<1> QED
  BY <1>3, <1>5, NamedAddresses

\* An address a delta does not name is live in both documents or in neither,
\* with equal own parts.
LEMMA UnnamedAgrees ==
    ASSUME NEW before, NEW after, NEW x \in Address,
           x \notin DOMAIN DiffsBetween(before, after)
    PROVE  Agrees(before, after, x)
<1>1. CASE x \in DOMAIN before \cup DOMAIN after
  BY <1>1, NamedAddresses, SubtreeEqAgrees
<1>2. CASE x \notin DOMAIN before \cup DOMAIN after
  BY <1>2 DEF Agrees
<1> QED
  BY <1>1, <1>2

\* Nor has its subtree changed.
LEMMA UnnamedSubtree ==
    ASSUME NEW before, NEW after, NEW x \in Address,
           x \notin DOMAIN DiffsBetween(before, after)
    PROVE  SubtreeEq(before, after, x)
<1>1. CASE x \in DOMAIN before \cup DOMAIN after
  BY <1>1, NamedAddresses
<1>2. CASE x \notin DOMAIN before \cup DOMAIN after
  <2>1. Closed(before, after, {x})
    BY <1>2 DEF Closed, Agrees, Children
  <2> QED
    BY <2>1 DEF SubtreeEq
<1> QED
  BY <1>1, <1>2

\* An own part a delta does not name has not changed on a record live in both.
LEMMA UnnamedPart ==
    ASSUME NEW before, NEW after, NEW x \in DOMAIN before \cap DOMAIN after,
           NEW p \in OwnParts,
           x \in DOMAIN DiffsBetween(before, after)
             => p \notin DiffsBetween(before, after)[x]
    PROVE  PartEq(before[x], after[x], p)
<1>1. CASE x \in DOMAIN DiffsBetween(before, after)
  <2>1. p \notin PartsOf(before, after, x)
    BY <1>1, NamedAddresses
  <2> QED
    BY <2>1 DEF PartsOf
<1>2. CASE x \notin DOMAIN DiffsBetween(before, after)
  <2>1. SubtreeEq(before, after, x)
    BY <1>2, NamedAddresses
  <2>2. Proj(before[x]) = Proj(after[x])
    BY <2>1, SubtreeEqAgrees DEF Agrees, OwnEq
  <2> QED
    BY <2>2 DEF PartEq
<1> QED
  BY <1>1, <1>2

\* A created record is named with all of its own parts, and a retired one
\* with none (tests/gates.rs, a_retired_address_carries_no_parts_...).
LEMMA CreatedAndRetired ==
    ASSUME NEW before, NEW after, NEW x
    PROVE  /\ x \in DOMAIN after \ DOMAIN before =>
                /\ x \in DOMAIN DiffsBetween(before, after)
                /\ OwnParts \subseteq DiffsBetween(before, after)[x]
           /\ x \in DOMAIN before \ DOMAIN after =>
                /\ x \in DOMAIN DiffsBetween(before, after)
                /\ DiffsBetween(before, after)[x] = {}
<1>1. ASSUME x \in (DOMAIN after \ DOMAIN before)
                    \cup (DOMAIN before \ DOMAIN after)
      PROVE  x \in DOMAIN DiffsBetween(before, after)
  <2>1. ~ Agrees(before, after, x)
    BY <1>1 DEF Agrees
  <2>2. ~ SubtreeEq(before, after, x)
    BY <2>1, SubtreeEqAgrees
  <2> QED
    BY <1>1, <2>2, NamedAddresses
<1>3. x \in DOMAIN after \ DOMAIN before
        => OwnParts \subseteq PartsOf(before, after, x)
  BY DEF PartsOf
<1>4. x \in DOMAIN before \ DOMAIN after => PartsOf(before, after, x) = {}
  BY DEF PartsOf
<1> QED
  BY <1>1, <1>3, <1>4, NamedAddresses
=============================================================================
