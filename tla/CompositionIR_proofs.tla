------------------------ MODULE CompositionIR_proofs ------------------------
(***************************************************************************)
(* The state keeps its types, what was published stays as it was, and what *)
(* a commit tells is the membership law, for any number of addresses,      *)
(* records, builders and commits and every way the builders interleave.    *)
(***************************************************************************)
EXTENDS CompositionIRLaws, Projection_proofs

\* t continues s.
Continues(t, s) == DOMAIN s \subseteq DOMAIN t /\ \A i \in DOMAIN s : t[i] = s[i]

LEMMA AppendContinues ==
    ASSUME NEW s, IsSeq(s), NEW e
    PROVE  /\ IsSeq(Append(s, e))
           /\ Continues(Append(s, e), s)
           /\ Len(s) \in Nat /\ DOMAIN s = 1..Len(s)
           /\ DOMAIN Append(s, e) = DOMAIN s \cup {Len(s) + 1}
           /\ Append(s, e)[Len(s) + 1] = e
<1> DEFINE t == Append(s, e)
           n == Len(s)
<1>1. s \in Seq(Range(s))
  BY DEF IsSeq
<1>2. n \in Nat /\ DOMAIN s = 1..n
  BY <1>1
<1>3. s \in Seq(Range(s) \cup {e})
  BY <1>1
<1>4. t \in Seq(Range(s) \cup {e}) /\ Len(t) = n + 1
  BY <1>3
<1>5. DOMAIN t = 1..(n + 1)
  BY <1>2, <1>4
<1>6. t[n + 1] = e /\ \A i \in 1..n : t[i] = s[i]
  BY <1>3
<1>7. \A i \in 1..Len(t) : t[i] \in Range(t)
  BY <1>2, <1>4, <1>5 DEF Range
<1>8. t \in Seq(Range(t))
  BY <1>2, <1>4, <1>5, <1>7
<1> QED
  BY <1>2, <1>5, <1>6, <1>8 DEF IsSeq, Continues

LEMMA MapWith ==
    ASSUME NEW f, NEW keys, NEW values, IsMap(f, keys, values),
           NEW x \in keys, NEW v \in values
    PROVE  IsMap(With(f, x, v), keys, values)
  BY DEF IsMap, With

LEMMA MapWithout ==
    ASSUME NEW f, NEW keys, NEW values, IsMap(f, keys, values), NEW x
    PROVE  IsMap(Without(f, x), keys, values)
  BY DEF IsMap, Without, Restrict

LEMMA MapWider ==
    ASSUME NEW f, NEW keys, NEW values, IsMap(f, keys, values),
           NEW wider, values \subseteq wider
    PROVE  IsMap(f, keys, wider)
  BY DEF IsMap

-----------------------------------------------------------------------------
\* The fields of the state's records.
LEMMA SnapshotFacts ==
    ASSUME StoreOK, NEW i \in DOMAIN published
    PROVE  /\ published[i].version \in Version
           /\ published[i].placement \in Placement
           /\ IsMap(published[i].records, Address \ Foreign, DOMAIN heap)
           /\ IsMap(published[i].records, Address, DOMAIN heap)
           /\ IsDocument(DocOf(i))
<1>1. IsSnapshot(published[i])
  BY DEF StoreOK
<1>2. /\ published[i].version \in Version
      /\ published[i].placement \in Placement
      /\ IsMap(published[i].records, Address \ Foreign, DOMAIN heap)
  BY <1>1 DEF IsSnapshot, Points
<1>3. IsMap(published[i].records, Address, DOMAIN heap)
  BY <1>2 DEF IsMap
<1>4. heap \in Seq(Node)
  BY DEF StoreOK
<1>5. IsDocument(DocOf(i))
  BY <1>3, <1>4 DEF IsDocument, IsMap, DocOf, Resolve
<1> QED
  BY <1>2, <1>3, <1>5

LEMMA BuilderFacts ==
    ASSUME StoreOK, NEW b \in DOMAIN builders
    PROVE  /\ builders[b].base \in DOMAIN published
           /\ builders[b].placement \in Placement
           /\ IsMap(builders[b].records, Address, DOMAIN heap)
           /\ builders[b] = [base      |-> builders[b].base,
                             records   |-> builders[b].records,
                             roots     |-> builders[b].roots,
                             placement |-> builders[b].placement]
           /\ IsDocument(After(b))
<1>1. IsBuilder(builders[b])
  BY DEF StoreOK
<1>2. /\ builders[b].base \in DOMAIN published
      /\ builders[b].placement \in Placement
      /\ IsMap(builders[b].records, Address, DOMAIN heap)
  BY <1>1 DEF IsBuilder, Points
<1>3. builders[b] = [base      |-> builders[b].base,
                     records   |-> builders[b].records,
                     roots     |-> builders[b].roots,
                     placement |-> builders[b].placement]
  BY <1>1 DEF IsBuilder
<1>4. heap \in Seq(Node)
  BY DEF StoreOK
<1>5. IsDocument(After(b))
  BY <1>2, <1>4 DEF IsDocument, IsMap, After, Resolve
<1> QED
  BY <1>2, <1>3, <1>5

-----------------------------------------------------------------------------
\* Nothing but a builder that is left well typed.
OnlyBuilders ==
    /\ UNCHANGED <<heap, published, commits>>
    /\ DOMAIN builders' \subseteq Builder
    /\ \A b \in DOMAIN builders' : IsBuilder(builders'[b])
    /\ crashed' \in BOOLEAN
    /\ edits' \in Nat

\* Records are allocated, nothing is published.
Allocates ==
    /\ heap' \in Seq(Node)
    /\ Continues(heap', heap)
    /\ UNCHANGED <<published, commits, crashed>>
    /\ DOMAIN builders' \subseteq Builder
    /\ \A b \in DOMAIN builders' :
          /\ builders'[b] \in [base : DOMAIN published,
                               records : {builders'[b].records},
                               roots : {builders'[b].roots},
                               placement : Placement]
          /\ IsMap(builders'[b].records, Address, DOMAIN heap')
    /\ edits' \in Nat

LEMMA OnlyBuildersStore ==
    ASSUME StoreOK, OnlyBuilders
    PROVE  StoreOK'
<1>1. UNCHANGED <<heap, published, commits>>
  BY DEF OnlyBuilders
<1>2. \A i \in DOMAIN published' : IsSnapshot(published[i])'
  BY <1>1 DEF StoreOK, IsSnapshot, Points
<1>3. \A k \in DOMAIN commits' : IsCommit(commits[k])'
  BY <1>1 DEF StoreOK, IsCommit
<1>4. \A b \in DOMAIN builders' : IsBuilder(builders[b])'
  BY <1>1 DEF OnlyBuilders, IsBuilder, Points
<1> QED
  BY <1>1, <1>2, <1>3, <1>4 DEF StoreOK, OnlyBuilders

LEMMA AllocatesStore ==
    ASSUME StoreOK, Allocates
    PROVE  StoreOK'
<1>1. UNCHANGED <<published, commits, crashed>> /\ DOMAIN heap \subseteq DOMAIN heap'
  BY DEF Allocates, Continues
<1>2. \A i \in DOMAIN published' : IsSnapshot(published[i])'
  BY <1>1, MapWider DEF StoreOK, IsSnapshot, Points
<1>3. \A k \in DOMAIN commits' : IsCommit(commits[k])'
  BY <1>1 DEF StoreOK, IsCommit
<1>4. \A b \in DOMAIN builders' : IsBuilder(builders[b])'
  BY <1>1 DEF Allocates, IsBuilder, Points
<1> QED
  BY <1>1, <1>2, <1>3, <1>4 DEF StoreOK, Allocates

-----------------------------------------------------------------------------
LEMMA InsertAllocates ==
    ASSUME StoreOK, NEW b \in DOMAIN builders, NEW x \in Address, NEW n \in Node,
           Insert(b, x, n), edits' \in Nat
    PROVE  Allocates
<1> DEFINE old == builders[b]
           new == [old EXCEPT !.records = With(@, x, Len(heap) + 1)]
<1>1. heap \in Seq(Node) /\ heap' = Append(heap, n)
  BY DEF StoreOK, Insert
<1>2. /\ heap' \in Seq(Node)
      /\ Continues(heap', heap)
      /\ Len(heap) + 1 \in DOMAIN heap'
  BY <1>1 DEF Continues
<1>3. builders' = [builders EXCEPT ![b] = new]
  BY DEF Insert, Store
<1>4. new = [base      |-> old.base,
             records   |-> With(old.records, x, Len(heap) + 1),
             roots     |-> old.roots,
             placement |-> old.placement]
  BY BuilderFacts
<1>5. DOMAIN heap \subseteq DOMAIN heap'
  BY <1>2 DEF Continues
<1>6. IsMap(new.records, Address, DOMAIN heap')
  <2>1. IsMap(old.records, Address, DOMAIN heap')
    BY <1>5, BuilderFacts, MapWider
  <2>2. IsMap(With(old.records, x, Len(heap) + 1), Address, DOMAIN heap')
    BY <1>2, <2>1, MapWith
  <2> QED
    BY <1>4, <2>2
<1>7. ASSUME NEW c \in DOMAIN builders'
      PROVE  /\ builders'[c] \in [base : DOMAIN published,
                                  records : {builders'[c].records},
                                  roots : {builders'[c].roots},
                                  placement : Placement]
             /\ IsMap(builders'[c].records, Address, DOMAIN heap')
  <2>1. CASE c = b
    <3>1. builders'[c] = new
      BY <1>3, <2>1
    <3>2. old.base \in DOMAIN published /\ old.placement \in Placement
      BY BuilderFacts
    <3>3. new \in [base : DOMAIN published, records : {new.records},
                   roots : {new.roots}, placement : Placement]
      BY <1>4, <3>2
    <3> QED
      BY <1>6, <3>1, <3>3
  <2>2. CASE c # b
    <3>1. c \in DOMAIN builders /\ builders'[c] = builders[c]
      BY <1>3, <2>2
    <3>2. IsMap(builders[c].records, Address, DOMAIN heap')
      BY <1>5, <3>1, BuilderFacts, MapWider
    <3>3. builders[c] \in [base : DOMAIN published,
                           records : {builders[c].records},
                           roots : {builders[c].roots},
                           placement : Placement]
      BY <3>1 DEF StoreOK, IsBuilder
    <3> QED
      BY <3>1, <3>2, <3>3
  <2> QED
    BY <2>1, <2>2
<1>8. DOMAIN builders' \subseteq Builder
  BY <1>3 DEF StoreOK
<1> QED
  BY <1>2, <1>7, <1>8 DEF Allocates, Insert

\* A builder is replaced by another one on the same base.
LEMMA StoreBuilder ==
    ASSUME StoreOK, NEW b \in DOMAIN builders, NEW new, IsBuilder(new),
           Store(b, new),
           UNCHANGED <<heap, published, commits, crashed>>, edits' \in Nat
    PROVE  OnlyBuilders
<1>1. builders' = [builders EXCEPT ![b] = new]
  BY DEF Store
<1>2. ASSUME NEW c \in DOMAIN builders'
      PROVE  IsBuilder(builders'[c])
  <2>1. builders'[c] = new \/ (c \in DOMAIN builders /\ builders'[c] = builders[c])
    BY <1>1, <1>2
  <2> QED
    BY <2>1 DEF StoreOK
<1> QED
  BY <1>1, <1>2 DEF OnlyBuilders, StoreOK

\* A builder is dropped.
LEMMA DropBuilder ==
    ASSUME StoreOK, NEW b, builders' = Without(builders, b),
           UNCHANGED <<heap, published, commits, crashed, edits>>
    PROVE  OnlyBuilders
<1>1. /\ DOMAIN builders' \subseteq DOMAIN builders
      /\ \A c \in DOMAIN builders' : builders'[c] = builders[c]
  BY DEF Without, Restrict
<1> QED
  BY <1>1 DEF OnlyBuilders, StoreOK

-----------------------------------------------------------------------------
LEMMA EmptyPlacementOK == EmptyPlacement \in Placement
  BY DEF EmptyPlacement, Placement

LEMMA PlacementGrows ==
    ASSUME NEW p \in Placement
    PROVE  /\ \A x \in Address, r \in Rect :
                [p EXCEPT !.boxes = Append(@, <<x, r>>)] \in Placement
           /\ \A m \in Move :
                [p EXCEPT !.translations = Append(@, m)] \in Placement
<1>1. /\ p = [boxes |-> p.boxes, translations |-> p.translations]
      /\ p.boxes \in Seq(Address \X Rect)
      /\ p.translations \in Seq(Move)
  BY DEF Placement
<1>2. ASSUME NEW x \in Address, NEW r \in Rect
      PROVE  [p EXCEPT !.boxes = Append(@, <<x, r>>)] \in Placement
  <2>1. <<x, r>> \in Address \X Rect
    OBVIOUS
  <2>2. Append(p.boxes, <<x, r>>) \in Seq(Address \X Rect)
    BY <1>1, <2>1
  <2> QED
    BY <1>1, <2>2 DEF Placement
<1>3. ASSUME NEW m \in Move
      PROVE  [p EXCEPT !.translations = Append(@, m)] \in Placement
  <2>1. Append(p.translations, m) \in Seq(Move)
    BY <1>1
  <2> QED
    BY <1>1, <2>1 DEF Placement
<1> QED
  BY <1>2, <1>3

LEMMA RemoveStore ==
    ASSUME StoreOK, NEW b, NEW x, Remove(b, x)
    PROVE  StoreOK'
<1>0. PICK roots :
        roots = At(builders[b].roots,
                   {k \in DOMAIN builders[b].roots : builders[b].roots[k] # x})
  OBVIOUS
<1>1. PICK new : new = [builders[b] EXCEPT
                         !.records = Without(@, x),
                         !.roots   = roots]
  OBVIOUS
<1>2. b \in DOMAIN builders /\ Store(b, new)
  BY <1>0, <1>1 DEF Remove, Editing
<1>3. IsBuilder(new)
  <2> DEFINE old == builders[b]
             records == Without(old.records, x)
  <2>0. old = [base |-> old.base, records |-> old.records, roots |-> old.roots,
               placement |-> old.placement]
    BY <1>2, BuilderFacts
  <2>1. new = [base |-> old.base, records |-> records, roots |-> roots,
               placement |-> old.placement]
    BY <1>1, <2>0
  <2>2. IsMap(records, Address, DOMAIN heap)
    BY <1>2, BuilderFacts, MapWithout
  <2> HIDE DEF records
  <2> QED
    BY <1>2, <2>1, <2>2, BuilderFacts DEF IsBuilder, Points
<1>4. edits' \in Nat /\ UNCHANGED <<heap, published, commits, crashed>>
  BY DEF StoreOK, Remove, Editing
<1> QED
  BY <1>2, <1>3, <1>4, StoreBuilder, OnlyBuildersStore

LEMMA RootStore ==
    ASSUME StoreOK, NEW b, NEW x, Root(b, x)
    PROVE  StoreOK'
<1>1. PICK new : new = [builders[b] EXCEPT !.roots = Append(@, x)]
  OBVIOUS
<1>2. b \in DOMAIN builders /\ Store(b, new)
  BY <1>1 DEF Root, Editing
<1>3. IsBuilder(new)
  <2> DEFINE old == builders[b]
             roots == Append(old.roots, x)
  <2>0. old = [base |-> old.base, records |-> old.records, roots |-> old.roots,
               placement |-> old.placement]
    BY <1>2, BuilderFacts
  <2>1. new = [base |-> old.base, records |-> old.records, roots |-> roots,
               placement |-> old.placement]
    BY <1>1, <2>0
  <2> HIDE DEF roots
  <2> QED
    BY <1>2, <2>1, BuilderFacts DEF IsBuilder, Points
<1>4. edits' \in Nat /\ UNCHANGED <<heap, published, commits, crashed>>
  BY DEF StoreOK, Root, Editing
<1> QED
  BY <1>2, <1>3, <1>4, StoreBuilder, OnlyBuildersStore

LEMMA ResetPlacementStore ==
    ASSUME StoreOK, NEW b, ResetPlacement(b)
    PROVE  StoreOK'
<1>1. PICK new : new = [builders[b] EXCEPT !.placement = EmptyPlacement]
  OBVIOUS
<1>2. b \in DOMAIN builders /\ Store(b, new)
  BY <1>1 DEF ResetPlacement, Editing
<1>3. IsBuilder(new)
  <2> DEFINE old == builders[b]
  <2>0. old = [base |-> old.base, records |-> old.records, roots |-> old.roots,
               placement |-> old.placement]
    BY <1>2, BuilderFacts
  <2>1. new = [base |-> old.base, records |-> old.records, roots |-> old.roots,
               placement |-> EmptyPlacement]
    BY <1>1, <2>0
  <2> QED
    BY <1>2, <2>1, BuilderFacts, EmptyPlacementOK DEF IsBuilder, Points
<1>4. edits' \in Nat /\ UNCHANGED <<heap, published, commits, crashed>>
  BY DEF StoreOK, ResetPlacement, Editing
<1> QED
  BY <1>2, <1>3, <1>4, StoreBuilder, OnlyBuildersStore

LEMMA PlaceStore ==
    ASSUME StoreOK, NEW b, NEW x \in Address, NEW r \in Rect, Place(b, x, r)
    PROVE  StoreOK'
<1>1. PICK new : new = [builders[b] EXCEPT
                         !.placement.boxes = Append(@, <<x, r>>)]
  OBVIOUS
<1>2. b \in DOMAIN builders /\ Store(b, new)
  BY <1>1 DEF Place, Editing
<1>3. IsBuilder(new)
  <2> DEFINE old == builders[b]
             placement == [old.placement EXCEPT !.boxes = Append(@, <<x, r>>)]
  <2>0. old = [base |-> old.base, records |-> old.records, roots |-> old.roots,
               placement |-> old.placement]
    BY <1>2, BuilderFacts
  <2>1. new = [base |-> old.base, records |-> old.records, roots |-> old.roots,
               placement |-> placement]
    BY <1>1, <2>0
  <2>2. placement \in Placement
    BY <1>2, BuilderFacts, PlacementGrows
  <2> HIDE DEF placement
  <2> QED
    BY <1>2, <2>1, <2>2, BuilderFacts DEF IsBuilder, Points
<1>4. edits' \in Nat /\ UNCHANGED <<heap, published, commits, crashed>>
  BY DEF StoreOK, Place, Editing
<1> QED
  BY <1>2, <1>3, <1>4, StoreBuilder, OnlyBuildersStore

LEMMA TranslateStore ==
    ASSUME StoreOK, NEW b, NEW m \in Move, Translate(b, m)
    PROVE  StoreOK'
<1>1. PICK new : new = [builders[b] EXCEPT
                         !.placement.translations = Append(@, m)]
  OBVIOUS
<1>2. b \in DOMAIN builders /\ Store(b, new)
  BY <1>1 DEF Translate, Editing
<1>3. IsBuilder(new)
  <2> DEFINE old == builders[b]
             placement == [old.placement EXCEPT !.translations = Append(@, m)]
  <2>0. old = [base |-> old.base, records |-> old.records, roots |-> old.roots,
               placement |-> old.placement]
    BY <1>2, BuilderFacts
  <2>1. new = [base |-> old.base, records |-> old.records, roots |-> old.roots,
               placement |-> placement]
    BY <1>1, <2>0
  <2>2. placement \in Placement
    BY <1>2, BuilderFacts, PlacementGrows
  <2> HIDE DEF placement
  <2> QED
    BY <1>2, <2>1, <2>2, BuilderFacts DEF IsBuilder, Points
<1>4. edits' \in Nat /\ UNCHANGED <<heap, published, commits, crashed>>
  BY DEF StoreOK, Translate, Editing
<1> QED
  BY <1>2, <1>3, <1>4, StoreBuilder, OnlyBuildersStore

LEMMA EditStore ==
    ASSUME StoreOK, NEW b \in Builder, NEW i \in DOMAIN published, Edit(b, i)
    PROVE  StoreOK'
<1>1. PICK new : new = [base      |-> i,
                        records   |-> published[i].records,
                        roots     |-> published[i].roots,
                        placement |-> published[i].placement]
  OBVIOUS
<1>2. builders' = With(builders, b, new)
      /\ UNCHANGED <<heap, published, commits, crashed, edits>>
  BY <1>1 DEF Edit
<1>3. IsBuilder(new)
  BY <1>1, SnapshotFacts DEF IsBuilder, Points
<1>4. \A c \in DOMAIN builders' : IsBuilder(builders'[c])
  BY <1>2, <1>3 DEF StoreOK, With
<1>5. DOMAIN builders' \subseteq Builder
  BY <1>2 DEF StoreOK, With
<1> QED
  BY <1>2, <1>4, <1>5, OnlyBuildersStore DEF OnlyBuilders, StoreOK

LEMMA InsertStore ==
    ASSUME StoreOK, NEW b \in Builder, NEW x \in Address, NEW n \in Node,
           Put(b, x, n) \/ Update(b, x, n) \/ UpdateIfLive(b, x, n)
    PROVE  StoreOK'
<1>1. b \in DOMAIN builders /\ edits' \in Nat
  BY DEF StoreOK, Put, Update, UpdateIfLive, Editing
<1>2. CASE Insert(b, x, n)
  BY <1>1, <1>2, InsertAllocates, AllocatesStore
<1>3. CASE UNCHANGED <<heap, published, builders, commits, crashed>>
  BY <1>1, <1>3, OnlyBuildersStore DEF OnlyBuilders, StoreOK
<1> QED
  BY <1>2, <1>3 DEF Put, Update, UpdateIfLive

-----------------------------------------------------------------------------
\* The differences of two documents are some addresses with some parts each.
LEMMA DiffsTyped ==
    ASSUME NEW before, NEW after, IsDocument(before), IsDocument(after)
    PROVE  IsMap(DiffsBetween(before, after), Address, SUBSET Parts)
<1> DEFINE diffs == DiffsBetween(before, after)
<1>1. DOMAIN before \subseteq Address /\ DOMAIN after \subseteq Address
  BY DEF IsDocument, IsMap
<1>2. DOMAIN diffs \subseteq Address
  BY <1>1, NamedAddresses
<1>3. \A x : PartsOf(before, after, x) \subseteq Parts
  BY DEF PartsOf, Parts
<1>4. diffs \in [DOMAIN diffs -> SUBSET Parts]
  BY <1>3 DEF DiffsBetween
<1> QED
  BY <1>2, <1>4 DEF IsMap

\* Below the limit the next revision fits the scalar.
LEMMA SuccessorTyped ==
    ASSUME NEW version \in Version, version.revision # MaxRevision
    PROVE  /\ Successor(version) \in Version
           /\ Successor(version).revision > version.revision
<1>1. /\ version.domain = Home
      /\ version.revision \in 1..MaxRevision
      /\ version = [domain |-> version.domain, revision |-> version.revision]
  BY DEF Version
<1>2. Successor(version) = [domain |-> Home, revision |-> version.revision + 1]
  BY <1>1 DEF Successor
<1>3. MaxRevision \in Nat
  BY CompositionAssumption
<1>4. version.revision + 1 \in 1..MaxRevision
  BY <1>1, <1>3
<1> QED
  BY <1>1, <1>2, <1>4 DEF Version

\* What a builder about to commit is known to be.
LEMMA CommittingFacts ==
    ASSUME StoreOK, NEW b, Committing(b)
    PROVE  /\ b \in DOMAIN builders
           /\ builders[b].base \in DOMAIN published
           /\ IsDocument(Before(b)) /\ IsDocument(After(b))
           /\ published[builders[b].base].version \in Version
           /\ published[builders[b].base].version.revision # MaxRevision
           /\ IsMap(builders[b].records, Address \ Foreign, DOMAIN heap)
<1>1. b \in DOMAIN builders /\ ~ CommitTraps(b)
  BY DEF Committing
<1>2. builders[b].base \in DOMAIN published
  BY <1>1, BuilderFacts
<1>3. IsMap(builders[b].records, Address \ Foreign, DOMAIN heap)
  <2>1. DOMAIN After(b) = DOMAIN builders[b].records
    BY DEF After, Resolve
  <2>2. DOMAIN builders[b].records \cap Foreign = {}
    BY <1>1, <2>1 DEF CommitTraps, ReadsForeign
  <2> QED
    BY <1>1, <2>2, BuilderFacts DEF IsMap
<1>4. published[builders[b].base].version.revision # MaxRevision
  BY <1>1 DEF CommitTraps, LastRevision
<1> QED
  BY <1>1, <1>2, <1>3, <1>4, BuilderFacts, SnapshotFacts DEF Before

\* Either way a commit returns, it leaves the other builders and the heap.
LEMMA ReturnStore ==
    ASSUME StoreOK, NEW b, NEW base, NEW result, NEW diffs,
           Return(b, base, result, diffs),
           IsSeq(published'),
           Continues(published', published),
           \A i \in DOMAIN published' \ DOMAIN published :
              IsSnapshot(published'[i]),
           base \in DOMAIN published,
           result \in DOMAIN published',
           published'[result].version \in Version,
           IsMap(diffs, Address, SUBSET Parts)
    PROVE  /\ StoreOK'
           /\ IsSeq(commits') /\ Continues(commits', commits)
           /\ DOMAIN commits' = DOMAIN commits \cup {Len(commits) + 1}
           /\ commits'[Len(commits) + 1].base = base
           /\ commits'[Len(commits) + 1].result = result
           /\ commits'[Len(commits) + 1].delta.before = published[base].version
           /\ commits'[Len(commits) + 1].delta.diffs = diffs
<1> DEFINE delta == [before |-> published[base].version,
                     after  |-> published'[result].version,
                     diffs  |-> diffs]
           new == [base |-> base, result |-> result, delta |-> delta]
<1>1. UNCHANGED <<heap, crashed, edits>> /\ builders' = Without(builders, b)
  BY DEF Return
<1>2. commits' = Append(commits, new) /\ IsSeq(commits)
  BY DEF Return, StoreOK
<1>3. /\ IsSeq(commits') /\ Continues(commits', commits)
      /\ DOMAIN commits' = DOMAIN commits \cup {Len(commits) + 1}
      /\ commits'[Len(commits) + 1] = new
  BY <1>2, AppendContinues
<1>4. DOMAIN published \subseteq DOMAIN published'
      /\ \A i \in DOMAIN published : published'[i] = published[i]
  BY DEF Continues
<1>5. ASSUME NEW i \in DOMAIN published' PROVE IsSnapshot(published[i])'
  <2>1. IsSnapshot(published'[i])
    BY <1>4 DEF StoreOK
  <2> QED
    BY <1>1, <2>1 DEF IsSnapshot, Points
<1>6. ASSUME NEW c \in DOMAIN builders' PROVE IsBuilder(builders[c])'
  <2>1. c \in DOMAIN builders /\ builders'[c] = builders[c]
    BY <1>1 DEF Without, Restrict
  <2> QED
    BY <1>1, <1>4, <2>1 DEF StoreOK, IsBuilder, Points
<1>7. ASSUME NEW k \in DOMAIN commits' PROVE IsCommit(commits[k])'
  <2>1. CASE k \in DOMAIN commits
    <3>1. commits'[k] = commits[k] /\ IsCommit(commits[k])
      BY <1>3, <2>1 DEF Continues, StoreOK
    <3> QED
      BY <1>4, <3>1 DEF IsCommit
  <2>2. CASE k \notin DOMAIN commits
    <3>1. commits'[k] = new
      BY <1>3, <2>2
    <3>2. published[base].version \in Version
      BY SnapshotFacts
    <3>3. /\ new.base \in DOMAIN published'
          /\ new.result \in DOMAIN published'
          /\ new.delta.before \in Version
          /\ new.delta.after \in Version
          /\ IsMap(new.delta.diffs, Address, SUBSET Parts)
      BY <1>4, <3>2
    <3> QED
      BY <3>1, <3>3 DEF IsCommit
  <2> QED
    BY <2>1, <2>2
<1>8. DOMAIN builders' \subseteq Builder
  BY <1>1 DEF StoreOK, Without, Restrict
<1>9. StoreOK'
  BY <1>1, <1>3, <1>5, <1>6, <1>7, <1>8 DEF StoreOK
<1> QED
  BY <1>3, <1>9

-----------------------------------------------------------------------------
\* A commit that is a no-op.
LEMMA NoOpStore ==
    ASSUME StoreOK, NEW b, CommitNoOp(b)
    PROVE  /\ StoreOK'
           /\ Continues(commits', commits)
           /\ DOMAIN commits' = DOMAIN commits \cup {Len(commits) + 1}
           /\ commits'[Len(commits) + 1].base = commits'[Len(commits) + 1].result
           /\ commits'[Len(commits) + 1].base = builders[b].base
           /\ commits'[Len(commits) + 1].base \in DOMAIN published
           /\ commits'[Len(commits) + 1].delta.before =
                published[commits'[Len(commits) + 1].base].version
           /\ commits'[Len(commits) + 1].delta.diffs = NoDiffs
<1>1. PICK base, diffs :
        /\ base = builders[b].base
        /\ diffs = NoDiffs
        /\ Return(b, base, base, diffs)
        /\ published' = published
        /\ Committing(b)
  BY DEF CommitNoOp
<1>2. base \in DOMAIN published /\ published[base].version \in Version
  BY <1>1, CommittingFacts
<1>3. IsMap(diffs, Address, SUBSET Parts)
  BY <1>1 DEF NoDiffs, IsMap
<1>4. IsSeq(published') /\ Continues(published', published)
  BY <1>1 DEF StoreOK, Continues
<1> QED
  BY <1>1, <1>2, <1>3, <1>4, ReturnStore

\* A commit that publishes.
LEMMA PublishesStore ==
    ASSUME StoreOK, NEW b, CommitPublishes(b)
    PROVE  /\ StoreOK'
           /\ Continues(published', published)
           /\ Continues(commits', commits)
           /\ DOMAIN commits' = DOMAIN commits \cup {Len(commits) + 1}
           /\ commits'[Len(commits) + 1].base = builders[b].base
           /\ commits'[Len(commits) + 1].result = Len(published) + 1
           /\ Len(published) + 1 \notin DOMAIN published
           /\ DOMAIN published' = DOMAIN published \cup {Len(published) + 1}
           /\ commits'[Len(commits) + 1].delta.before =
                published[builders[b].base].version
           /\ commits'[Len(commits) + 1].delta.diffs = Diffs(b)
           /\ LET new == published'[Len(published) + 1]
              IN  /\ new.version = Successor(published[builders[b].base].version)
                  /\ new.records = builders[b].records
                  /\ new.roots = builders[b].roots
                  /\ new.placement = builders[b].placement
<1>1. PICK base, result, diffs, new :
        /\ base = builders[b].base
        /\ result = Len(published) + 1
        /\ diffs = Diffs(b)
        /\ new = [version   |-> Successor(published[base].version),
                  records   |-> builders[b].records,
                  roots     |-> builders[b].roots,
                  placement |-> builders[b].placement]
        /\ Return(b, base, result, diffs)
        /\ published' = Append(published, new)
        /\ Committing(b)
  BY DEF CommitPublishes
<1>2. /\ b \in DOMAIN builders
      /\ base \in DOMAIN published
      /\ published[base].version \in Version
      /\ published[base].version.revision # MaxRevision
      /\ IsMap(builders[b].records, Address \ Foreign, DOMAIN heap)
      /\ IsDocument(Before(b)) /\ IsDocument(After(b))
  BY <1>1, CommittingFacts
<1>3. Successor(published[base].version) \in Version
  BY <1>2, SuccessorTyped
<1>4. /\ IsSeq(published')
      /\ Continues(published', published)
      /\ DOMAIN published' = DOMAIN published \cup {result}
      /\ published'[result] = new
  BY <1>1, AppendContinues DEF StoreOK
<1>5. IsSnapshot(new)
  <2>1. builders[b].placement \in Placement
    BY <1>2, BuilderFacts
  <2> QED
    BY <1>1, <1>2, <1>3, <2>1 DEF IsSnapshot, Points
<1>6. \A i \in DOMAIN published' \ DOMAIN published : IsSnapshot(published'[i])
  BY <1>4, <1>5
<1>7. IsMap(diffs, Address, SUBSET Parts)
  BY <1>1, <1>2, DiffsTyped DEF Diffs
<1>8. published'[result].version \in Version
  BY <1>1, <1>3, <1>4
<1>9. /\ Return(b, base, result, diffs)
      /\ base \in DOMAIN published /\ result \in DOMAIN published'
      /\ IsSeq(published') /\ Continues(published', published)
  BY <1>1, <1>2, <1>4
<1>10. /\ StoreOK'
       /\ Continues(commits', commits)
       /\ DOMAIN commits' = DOMAIN commits \cup {Len(commits) + 1}
       /\ commits'[Len(commits) + 1].base = base
       /\ commits'[Len(commits) + 1].result = result
       /\ commits'[Len(commits) + 1].delta.before = published[base].version
       /\ commits'[Len(commits) + 1].delta.diffs = diffs
  BY <1>6, <1>7, <1>8, <1>9, ReturnStore
<1>11. result \notin DOMAIN published
  BY <1>1, AppendContinues DEF StoreOK
<1> QED
  BY <1>1, <1>4, <1>10, <1>11

-----------------------------------------------------------------------------
LEMMA InitStore == Init => StoreOK
<1> SUFFICES ASSUME Init PROVE StoreOK
  OBVIOUS
<1>1. PICK opening \in Opening :
        LET puts == opening.puts
            addresses == {puts[k].address : k \in DOMAIN puts}
        IN  /\ heap = [k \in DOMAIN puts |-> puts[k].node]
            /\ published =
                 <<[version   |-> [domain |-> Home,
                                 revision |-> opening.revision],
                    records   |-> [x \in addresses |->
                                     CHOOSE k \in DOMAIN puts :
                                        puts[k].address = x],
                    roots     |-> <<>>,
                    placement |-> EmptyPlacement]>>
            /\ builders = [b \in {} |-> {}]
            /\ commits = <<>>
            /\ crashed = FALSE
            /\ edits = 0
  BY DEF Init
<1> DEFINE puts == opening.puts
           addresses == {puts[k].address : k \in DOMAIN puts}
           records == [x \in addresses |->
                         CHOOSE k \in DOMAIN puts : puts[k].address = x]
           first == [version   |-> [domain |-> Home, revision |-> opening.revision],
                     records   |-> records,
                     roots     |-> <<>>,
                     placement |-> EmptyPlacement]
<1>2. /\ opening.revision \in 1..MaxRevision
      /\ puts \in Seq([address : Address \ Foreign, node : Node])
      /\ DOMAIN puts = 1..Len(puts) /\ Len(puts) \in Nat
      /\ \A k \in DOMAIN puts :
            puts[k].address \in Address \ Foreign /\ puts[k].node \in Node
  <2> DEFINE Puttable == [address : Address \ Foreign, node : Node]
  <2>1. opening \in [revision : 1..MaxRevision, puts : Seq(Puttable)]
    BY CompositionAssumption
  <2>2. opening.revision \in 1..MaxRevision /\ puts \in Seq(Puttable)
    BY <2>1
  <2>3. \A put \in Puttable : put.address \in Address \ Foreign /\ put.node \in Node
    OBVIOUS
  <2> HIDE DEF Puttable
  <2>4. /\ DOMAIN puts = 1..Len(puts) /\ Len(puts) \in Nat
        /\ \A k \in DOMAIN puts : puts[k] \in Puttable
    BY <2>2
  <2> QED
    BY <2>2, <2>3, <2>4 DEF Puttable
<1>3. heap \in Seq(Node) /\ DOMAIN heap = DOMAIN puts
  <2>1. heap = [k \in DOMAIN puts |-> puts[k].node]
    BY <1>1
  <2>2. heap \in [1..Len(puts) -> Node]
    BY <1>2, <2>1
  <2> QED
    BY <1>2, <2>1, <2>2
<1>4. IsMap(records, Address \ Foreign, DOMAIN heap)
  <2>1. \A k \in DOMAIN puts : puts[k].address \in Address \ Foreign
    BY <1>2
  <2>2. \A x \in addresses : records[x] \in DOMAIN puts
    OBVIOUS
  <2> QED
    BY <1>3, <2>1, <2>2 DEF IsMap
<1>5. published = <<first>>
  BY <1>1
<1>6. IsSnapshot(first)
  BY <1>2, <1>4, EmptyPlacementOK DEF IsSnapshot, Points, Version
<1> HIDE DEF first
<1>7. IsSeq(published) /\ \A i \in DOMAIN published : IsSnapshot(published[i])
  BY <1>5, <1>6 DEF IsSeq, Range
<1>8. IsSeq(commits) /\ DOMAIN commits = {} /\ DOMAIN builders = {}
  BY <1>1 DEF IsSeq
<1> QED
  BY <1>1, <1>3, <1>7, <1>8 DEF StoreOK

-----------------------------------------------------------------------------
\* Every step either only works on builders, or is one of the two commits.
Quiet ==
    /\ UNCHANGED <<published, commits>>
    /\ Continues(heap', heap)
    /\ crashed' = crashed \/ \E b \in Builder : CommitOverflows(b)

LEMMA QuietOnlyBuilders ==
    ASSUME StoreOK, OnlyBuilders, crashed' = crashed
    PROVE  StoreOK' /\ Quiet
<1>1. Continues(heap', heap)
  BY DEF OnlyBuilders, Continues
<1> QED
  BY <1>1, OnlyBuildersStore DEF OnlyBuilders, Quiet

LEMMA StepKinds ==
    ASSUME StoreOK, Next
    PROVE  /\ StoreOK'
           /\ \/ Quiet
              \/ \E b \in Builder : CommitNoOp(b)
              \/ \E b \in Builder : CommitPublishes(b)
<1>1. PICK b \in Builder :
        \/ \E i \in DOMAIN published : Edit(b, i)
        \/ \E x \in Address, n \in Node :
              Put(b, x, n) \/ Update(b, x, n) \/ UpdateIfLive(b, x, n)
        \/ \E x \in Address : UpdatePanics(b, x)
        \/ Abandon(b) \/ CommitPanics(b)
        \/ \E x \in Address : Remove(b, x) \/ Root(b, x)
        \/ ResetPlacement(b)
        \/ \E x \in Address, r \in Rect : Place(b, x, r)
        \/ \E m \in Move : Translate(b, m)
        \/ CommitNoOp(b) \/ CommitPublishes(b) \/ CommitOverflows(b)
  BY DEF Next
<1>2. ASSUME NEW i \in DOMAIN published, Edit(b, i) PROVE StoreOK' /\ Quiet
  <2>1. UNCHANGED <<heap, published, commits, crashed>>
    BY <1>2 DEF Edit
  <2> QED
    BY <1>2, <2>1, EditStore DEF Quiet, Continues
<1>3. ASSUME NEW x \in Address, NEW n \in Node,
             Put(b, x, n) \/ Update(b, x, n) \/ UpdateIfLive(b, x, n)
      PROVE  StoreOK' /\ Quiet
  <2>1. StoreOK'
    BY <1>3, InsertStore
  <2>2. \/ Insert(b, x, n)
        \/ UNCHANGED <<heap, published, builders, commits, crashed>>
    BY <1>3 DEF Put, Update, UpdateIfLive
  <2>3. UNCHANGED <<published, commits, crashed>>
    BY <2>2 DEF Insert
  <2>4. Continues(heap', heap)
    <3>1. heap \in Seq(Node)
      BY DEF StoreOK
    <3>2. CASE heap' = Append(heap, n)
      BY <3>1, <3>2 DEF Continues
    <3>3. CASE heap' = heap
      BY <3>3 DEF Continues
    <3> QED
      BY <2>2, <3>2, <3>3 DEF Insert
  <2> QED
    BY <2>1, <2>3, <2>4 DEF Quiet
<1>4. ASSUME (\E x \in Address : UpdatePanics(b, x)) \/ Abandon(b) \/ CommitPanics(b)
      PROVE  StoreOK' /\ Quiet
  <2>1. /\ builders' = Without(builders, b)
        /\ UNCHANGED <<heap, published, commits, crashed, edits>>
    BY <1>4 DEF UpdatePanics, Abandon, CommitPanics
  <2> QED
    BY <2>1, DropBuilder, QuietOnlyBuilders
<1>5. ASSUME \/ \E x \in Address : Remove(b, x) \/ Root(b, x)
             \/ ResetPlacement(b)
             \/ \E x \in Address, r \in Rect : Place(b, x, r)
             \/ \E m \in Move : Translate(b, m)
      PROVE  StoreOK' /\ Quiet
  <2>1. UNCHANGED <<heap, published, commits, crashed>>
    BY <1>5 DEF Remove, Root, ResetPlacement, Place, Translate
  <2>2. StoreOK'
    BY <1>5, RemoveStore, RootStore, ResetPlacementStore, PlaceStore, TranslateStore
  <2> QED
    BY <2>1, <2>2 DEF Quiet, Continues
<1>6. ASSUME CommitOverflows(b)
      PROVE  StoreOK' /\ Quiet
  <2>1. UNCHANGED <<heap, published, builders, commits, edits>> /\ crashed' = TRUE
    BY <1>6 DEF CommitOverflows
  <2>2. OnlyBuilders
    BY <2>1 DEF OnlyBuilders, StoreOK
  <2> QED
    BY <1>6, <2>1, <2>2, OnlyBuildersStore DEF Quiet, Continues
<1>7. ASSUME CommitNoOp(b) PROVE StoreOK'
  BY <1>7, NoOpStore
<1>8. ASSUME CommitPublishes(b) PROVE StoreOK'
  BY <1>8, PublishesStore
<1> QED
  BY <1>1, <1>2, <1>3, <1>4, <1>5, <1>6, <1>7, <1>8

LEMMA StepStore == StoreOK /\ [Next]_vars => StoreOK'
<1>1. ASSUME StoreOK, UNCHANGED vars PROVE StoreOK'
  <2>1. OnlyBuilders
    BY <1>1 DEF vars, OnlyBuilders, StoreOK
  <2> QED
    BY <1>1, <2>1, OnlyBuildersStore
<1> QED
  BY <1>1, StepKinds

-----------------------------------------------------------------------------
\* Publishing appends, and allocating never overwrites, so every snapshot that
\* was published resolves to the records it had.
LEMMA StepRetains ==
    ASSUME StoreOK, Next
    PROVE  \A i \in DOMAIN published :
              /\ i \in DOMAIN published'
              /\ published'[i] = published[i]
              /\ DocOf(i)' = DocOf(i)
<1>1. Continues(published', published) /\ Continues(heap', heap)
  <2>1. CASE Quiet
    BY <2>1 DEF Quiet, Continues
  <2>2. ASSUME NEW b, CommitNoOp(b)
        PROVE  Continues(published', published) /\ Continues(heap', heap)
    BY <2>2 DEF CommitNoOp, Return, Continues
  <2>3. ASSUME NEW b, CommitPublishes(b)
        PROVE  Continues(published', published) /\ Continues(heap', heap)
    <3>1. Continues(published', published)
      BY <2>3, PublishesStore
    <3>2. heap' = heap
      BY <2>3 DEF CommitPublishes, Return
    <3> QED
      BY <3>1, <3>2 DEF Continues
  <2> QED
    BY <2>1, <2>2, <2>3, StepKinds
<1>2. ASSUME NEW i \in DOMAIN published
      PROVE  /\ i \in DOMAIN published' /\ published'[i] = published[i]
             /\ DocOf(i)' = DocOf(i)
  <2>1. i \in DOMAIN published' /\ published'[i] = published[i]
    BY <1>1 DEF Continues
  <2>2. \A x \in DOMAIN published[i].records :
          heap'[published[i].records[x]] = heap[published[i].records[x]]
    BY <1>1, SnapshotFacts DEF Continues, IsMap
  <2>3. DocOf(i)' = DocOf(i)
    BY <2>1, <2>2 DEF DocOf, Resolve
  <2> QED
    BY <2>1, <2>3
<1> QED
  BY <1>2

\* A document does not differ from itself.
LEMMA NoDiffsWithItself ==
    ASSUME NEW doc, IsDocument(doc)
    PROVE  DiffsBetween(doc, doc) = NoDiffs
<1>1. DOMAIN doc \subseteq Address
  BY DEF IsDocument, IsMap
<1>2. \A x \in DOMAIN doc : SubtreeEq(doc, doc, x)
  BY <1>1, SubtreeEqReflexive
<1> QED
  BY <1>2 DEF DiffsBetween, NoDiffs

\* Documents without a difference have equal records at the same addresses.
LEMMA NoDiffsAgree ==
    ASSUME NEW before, NEW after, IsDocument(before), IsDocument(after),
           DiffsBetween(before, after) = NoDiffs
    PROVE  /\ DOMAIN after = DOMAIN before
           /\ \A x \in DOMAIN after : OwnEq(before[x], after[x])
<1>1. DOMAIN before \subseteq Address /\ DOMAIN after \subseteq Address
  BY DEF IsDocument, IsMap
<1>2. DOMAIN DiffsBetween(before, after) = {}
  BY DEF NoDiffs
<1>3. \A x \in Address : Agrees(before, after, x)
  BY <1>2, UnnamedAgrees
<1> QED
  BY <1>1, <1>3 DEF Agrees

-----------------------------------------------------------------------------
\* The documents of the commit recorded last: what the builder was opened on,
\* and what it published.
LEMMA PublishedDocuments ==
    ASSUME StoreOK, NEW b, CommitPublishes(b),
           NEW c, c = commits'[Len(commits) + 1]
    PROVE  /\ DocOf(c.result)' = After(b)
           /\ DocOf(c.base)' = Before(b)
           /\ published'[c.result].placement = builders[b].placement
           /\ published'[c.base] = published[builders[b].base]
<1> DEFINE base == builders[b].base
<1>1. /\ c.base = base
      /\ published'[c.result].records = builders[b].records
      /\ published'[c.result].placement = builders[b].placement
  BY PublishesStore
<1>2. Committing(b) /\ heap' = heap
  BY DEF CommitPublishes, Return
<1>3. base \in DOMAIN published
  BY <1>2, CommittingFacts
<1>4. published'[base] = published[base]
  BY <1>3, PublishesStore DEF Continues
<1>5. DocOf(c.result)' = After(b)
  BY <1>1, <1>2 DEF DocOf, After, Resolve
<1>6. DocOf(c.base)' = Before(b)
  BY <1>1, <1>2, <1>4 DEF DocOf, Before, Resolve
<1> QED
  BY <1>1, <1>4, <1>5, <1>6

\* It published a difference.
LEMMA PublishedDiffers ==
    ASSUME StoreOK, NEW b, CommitPublishes(b),
           NEW c, c = commits'[Len(commits) + 1]
    PROVE  \/ DocOf(c.result)' # DocOf(c.base)'
           \/ published'[c.result].placement # published'[c.base].placement
<1>1. Committing(b) /\ ~ NothingChanged(b)
  BY DEF CommitPublishes
<1>2. IsDocument(Before(b))
  BY <1>1, CommittingFacts
<1>3. CASE Diffs(b) # NoDiffs
  <2>1. Before(b) # After(b)
    BY <1>2, <1>3, NoDiffsWithItself DEF Diffs
  <2> QED
    BY <2>1, PublishedDocuments
<1>4. CASE builders[b].placement # published[builders[b].base].placement
  BY <1>4, PublishedDocuments
<1> QED
  BY <1>1, <1>3, <1>4 DEF NothingChanged

LEMMA StepRevision ==
    ASSUME StoreOK, RevisionMeansDifference, Next
    PROVE  RevisionMeansDifference'
<1> DEFINE Differs(c) ==
             c.result # c.base =>
               \/ DocOf(c.result) # DocOf(c.base)
               \/ published[c.result].placement # published[c.base].placement
           DocNext(i) == [x \in DOMAIN published'[i].records |->
                            heap'[published'[i].records[x]]]
           DiffersNext(c) ==
             c.result # c.base =>
               \/ DocNext(c.result) # DocNext(c.base)
               \/ published'[c.result].placement # published'[c.base].placement
<1>1. ASSUME NEW k \in DOMAIN commits, commits'[k] = commits[k]
      PROVE  DiffersNext(commits'[k])
  <2>1. PICK c : c = commits[k]
    OBVIOUS
  <2>2. c.base \in DOMAIN published /\ c.result \in DOMAIN published
    BY <2>1 DEF StoreOK, IsCommit
  <2>3. Differs(c)
    BY <2>1 DEF RevisionMeansDifference
  <2>4. /\ published'[c.base] = published[c.base]
        /\ published'[c.result] = published[c.result]
        /\ DocOf(c.base)' = DocOf(c.base)
        /\ DocOf(c.result)' = DocOf(c.result)
    BY <2>2, StepRetains
  <2>5. DocNext(c.base) = DocOf(c.base)' /\ DocNext(c.result) = DocOf(c.result)'
    BY DEF DocOf, Resolve
  <2>6. DiffersNext(c)
    BY <2>3, <2>4, <2>5
  <2> QED
    BY <1>1, <2>1, <2>6
<1>2. ASSUME NEW k \in DOMAIN commits' \ DOMAIN commits
      PROVE  DiffersNext(commits'[k])
  <2>1. ~ Quiet
    BY <1>2 DEF Quiet
  <2>2. ASSUME NEW b, CommitNoOp(b) PROVE DiffersNext(commits'[k])
    BY <1>2, <2>2, NoOpStore
  <2>3. ASSUME NEW b, CommitPublishes(b) PROVE DiffersNext(commits'[k])
    <3>1. k = Len(commits) + 1
      BY <1>2, <2>3, PublishesStore
    <3>2. PICK c : c = commits'[k]
      OBVIOUS
    <3>3. DocNext(c.base) = DocOf(c.base)' /\ DocNext(c.result) = DocOf(c.result)'
      BY DEF DocOf, Resolve
    <3>4. DiffersNext(c)
      BY <2>3, <3>1, <3>2, <3>3, PublishedDiffers
    <3> QED
      BY <3>2, <3>4
  <2> QED
    BY <2>1, <2>2, <2>3, StepKinds
<1>3. \A k \in DOMAIN commits : commits'[k] = commits[k]
  <2>1. ASSUME NEW b, CommitNoOp(b)
        PROVE  Continues(commits', commits)
    BY <2>1, NoOpStore
  <2>2. ASSUME NEW b, CommitPublishes(b)
        PROVE  Continues(commits', commits)
    BY <2>2, PublishesStore
  <2> QED
    BY <2>1, <2>2, StepKinds DEF Quiet, Continues
<1> QED
  BY <1>1, <1>2, <1>3 DEF RevisionMeansDifference, DocOf, Resolve

\* A walk that does not return stays for ever in records of its base.
LEMMA DivergingBaseLoops ==
    ASSUME NEW before, NEW after, WalkDiverges(before, after)
    PROVE  HasLoop(before)
<1>1. PICK set \in (SUBSET (DOMAIN before \cap DOMAIN after)) \ {{}} :
        \A x \in set :
            \E i \in DOMAIN before[x].children : before[x].children[i] \in set
  BY DEF WalkDiverges
<1>2. set \in (SUBSET DOMAIN before) \ {{}}
  BY <1>1
<1>3. \A x \in set : Children(before, x) \cap set # {}
  BY <1>1, <1>2 DEF Children, Range
<1> QED
  BY <1>2, <1>3 DEF HasLoop

LEMMA StepOverflow ==
    ASSUME StoreOK, OverflowNeedsPublishedLoop, Next
    PROVE  OverflowNeedsPublishedLoop'
<1> SUFFICES ASSUME crashed'
             PROVE  \E i \in DOMAIN published' : HasLoop(DocOf(i)')
  BY DEF OverflowNeedsPublishedLoop, HasLoop
<1>1. \E i \in DOMAIN published : HasLoop(DocOf(i))
  <2>1. CASE crashed
    BY <2>1 DEF OverflowNeedsPublishedLoop
  <2>2. ASSUME NEW b \in Builder, CommitOverflows(b)
        PROVE  \E i \in DOMAIN published : HasLoop(DocOf(i))
    <3>1. builders[b].base \in DOMAIN published
      BY <2>2, BuilderFacts DEF CommitOverflows
    <3>2. HasLoop(Before(b))
      BY <2>2, DivergingBaseLoops DEF CommitOverflows
    <3> QED
      BY <3>1, <3>2 DEF Before
  <2>3. CASE crashed' = crashed
    BY <2>1, <2>3
  <2>4. ASSUME NEW b, CommitNoOp(b) \/ CommitPublishes(b)
        PROVE  crashed' = crashed
    BY <2>4 DEF CommitNoOp, CommitPublishes, Return
  <2> QED
    BY <2>2, <2>3, <2>4, StepKinds DEF Quiet
<1> QED
  BY <1>1, StepRetains

-----------------------------------------------------------------------------
\* What a commit that moved on says of its base and its result: the next
\* version, and exactly the differences of the two documents.
Follows(c) ==
    /\ published[c.result].version = Successor(published[c.base].version)
    /\ c.delta.diffs = DiffsBetween(DocOf(c.base), DocOf(c.result))

\* Every delta starts at the version of its base, a commit that gives back its
\* base tells no difference, and a snapshot is the result of commits on one
\* base alone.
LineageOK ==
    /\ \A k \in DOMAIN commits :
          /\ commits[k].delta.before = published[commits[k].base].version
          /\ commits[k].result # commits[k].base => Follows(commits[k])
          /\ commits[k].result = commits[k].base => commits[k].delta.diffs = NoDiffs
    /\ \A k, l \in DOMAIN commits :
          (/\ commits[k].result # commits[k].base
           /\ commits[l].result # commits[l].base
           /\ commits[k].result = commits[l].result)
          => commits[k].base = commits[l].base

\* A commit already recorded goes on saying the same of the same snapshots.
LEMMA FollowsStays ==
    ASSUME StoreOK, Next, NEW k \in DOMAIN commits, commits'[k] = commits[k],
           LineageOK
    PROVE  /\ commits'[k].delta.before = published'[commits'[k].base].version
           /\ commits'[k].result # commits'[k].base => Follows(commits[k])'
           /\ commits'[k].result = commits'[k].base =>
                commits'[k].delta.diffs = NoDiffs
<1>1. PICK c : c = commits[k]
  OBVIOUS
<1>2. c.base \in DOMAIN published /\ c.result \in DOMAIN published
  BY <1>1 DEF StoreOK, IsCommit
<1>3. /\ published'[c.base] = published[c.base]
      /\ published'[c.result] = published[c.result]
      /\ DocOf(c.base)' = DocOf(c.base)
      /\ DocOf(c.result)' = DocOf(c.result)
  BY <1>2, StepRetains
<1>4. /\ c.delta.before = published[c.base].version
      /\ c.result # c.base =>
            /\ published[c.result].version = Successor(published[c.base].version)
            /\ c.delta.diffs = DiffsBetween(DocOf(c.base), DocOf(c.result))
  BY <1>1 DEF LineageOK, Follows
<1>5. c.delta.before = published'[c.base].version
  BY <1>3, <1>4
<1>6. c.result # c.base =>
        /\ published'[c.result].version = Successor(published'[c.base].version)
        /\ c.delta.diffs = DiffsBetween(DocOf(c.base)', DocOf(c.result)')
  BY <1>3, <1>4
<1>7. commits'[k] = c
  BY <1>1
<1>8. c.result = c.base => c.delta.diffs = NoDiffs
  BY <1>1 DEF LineageOK
<1> QED
  BY <1>5, <1>6, <1>7, <1>8 DEF Follows, DocOf, Resolve

LEMMA StepLineage ==
    ASSUME StoreOK, LineageOK, Next
    PROVE  LineageOK'
<1>0. PICK last : last = Len(commits) + 1
  OBVIOUS
<1> DEFINE Says(k) ==
             /\ commits'[k].delta.before = published'[commits'[k].base].version
             /\ commits'[k].result # commits'[k].base => Follows(commits[k])'
             /\ commits'[k].result = commits'[k].base =>
                  commits'[k].delta.diffs = NoDiffs
           Moved(k) == commits'[k].result # commits'[k].base
           OneBase(k, l) ==
             (Moved(k) /\ Moved(l) /\ commits'[k].result = commits'[l].result)
               => commits'[k].base = commits'[l].base
<1> SUFFICES /\ \A k \in DOMAIN commits' : Says(k)
             /\ \A k, l \in DOMAIN commits' : OneBase(k, l)
  BY DEF LineageOK
<1>1. ASSUME \A k \in DOMAIN commits : commits'[k] = commits[k]
      PROVE  /\ \A k \in DOMAIN commits : Says(k)
             /\ \A k, l \in DOMAIN commits : OneBase(k, l)
  BY <1>1, FollowsStays DEF LineageOK
<1>2. CASE Quiet
  BY <1>1, <1>2 DEF Quiet
<1>3. ASSUME NEW b, CommitNoOp(b)
      PROVE  /\ \A k \in DOMAIN commits' : Says(k)
             /\ \A k, l \in DOMAIN commits' : OneBase(k, l)
  <2>1. /\ DOMAIN commits' = DOMAIN commits \cup {last}
        /\ ~ Moved(last) /\ commits'[last].delta.diffs = NoDiffs
        /\ \A k \in DOMAIN commits : commits'[k] = commits[k]
    BY <1>0, <1>3, NoOpStore DEF Continues
  <2>2. commits'[last].delta.before = published'[commits'[last].base].version
    BY <1>0, <1>3, NoOpStore DEF CommitNoOp
  <2> QED
    BY <1>1, <2>1, <2>2
<1>4. ASSUME NEW b, CommitPublishes(b)
      PROVE  /\ \A k \in DOMAIN commits' : Says(k)
             /\ \A k, l \in DOMAIN commits' : OneBase(k, l)
  <2>1. /\ DOMAIN commits' = DOMAIN commits \cup {last}
        /\ \A k \in DOMAIN commits : commits'[k] = commits[k]
        /\ commits'[last].result = Len(published) + 1
        /\ Len(published) + 1 \notin DOMAIN published
        /\ commits'[last].base = builders[b].base
        /\ commits'[last].delta.before = published[builders[b].base].version
        /\ commits'[last].delta.diffs = DiffsBetween(Before(b), After(b))
        /\ published'[Len(published) + 1].version =
             Successor(published[builders[b].base].version)
    BY <1>0, <1>4, PublishesStore DEF Continues, Diffs
  <2>2. PICK c : c = commits'[last]
    OBVIOUS
  <2>3. /\ DocOf(c.result)' = After(b)
        /\ DocOf(c.base)' = Before(b)
        /\ published'[c.base] = published[builders[b].base]
    BY <1>0, <1>4, <2>2, PublishedDocuments
  <2>4. /\ published'[c.result].version = Successor(published'[c.base].version)
        /\ c.delta.diffs = DiffsBetween(DocOf(c.base)', DocOf(c.result)')
        /\ c.delta.before = published'[c.base].version
    BY <2>1, <2>2, <2>3
  <2>5. Says(last)
    <3>1. c.base \in DOMAIN published /\ c.base # c.result
      BY <1>4, <2>1, <2>2, CommittingFacts DEF CommitPublishes
    <3> QED
      BY <2>2, <2>4, <3>1 DEF Follows, DocOf, Resolve
  <2>6. \A k \in DOMAIN commits : commits'[k].result \in DOMAIN published
    BY <2>1 DEF StoreOK, IsCommit
  <2>7. \A k \in DOMAIN commits : OneBase(k, last) /\ OneBase(last, k)
    BY <2>1, <2>6
  <2>8. /\ \A k \in DOMAIN commits : Says(k)
        /\ \A k, l \in DOMAIN commits : OneBase(k, l)
    BY <1>1, <2>1
  <2>9. OneBase(last, last)
    OBVIOUS
  <2> HIDE DEF Says, OneBase
  <2> QED
    BY <2>1, <2>5, <2>7, <2>8, <2>9
<1> QED
  BY <1>2, <1>3, <1>4, StepKinds

LEMMA InitLineage == Init => LineageOK
<1> SUFFICES ASSUME Init PROVE LineageOK
  OBVIOUS
<1>1. DOMAIN commits = {}
  BY DEF Init
<1> QED
  BY <1>1 DEF LineageOK

-----------------------------------------------------------------------------
\* What a lineage is made of, in one state.
LEMMA ParentFacts ==
    ASSUME StoreOK, NEW j \in DOMAIN published
    PROVE  /\ Parent(j) \in DOMAIN published
           /\ Parent(j) # j =>
                \E k \in DOMAIN commits :
                    /\ commits[k].result = j
                    /\ commits[k].base = Parent(j)
<1> DEFINE made == {k \in DOMAIN commits :
                      commits[k].result = j /\ commits[k].base # j}
<1>1. CASE made = {}
  BY <1>1 DEF Parent
<1>2. CASE made # {}
  <2>1. PICK k : k = CHOOSE l \in made : TRUE
    OBVIOUS
  <2>2. k \in made /\ Parent(j) = commits[k].base
    BY <1>2, <2>1 DEF Parent
  <2>3. commits[k].base \in DOMAIN published
    BY <2>2 DEF StoreOK, IsCommit
  <2> QED
    BY <2>2, <2>3
<1> QED
  BY <1>1, <1>2

LEMMA OneParent ==
    ASSUME LineageOK, NEW k \in DOMAIN commits,
           commits[k].result # commits[k].base
    PROVE  Parent(commits[k].result) = commits[k].base
<1> DEFINE j == commits[k].result
           made == {l \in DOMAIN commits :
                      commits[l].result = j /\ commits[l].base # j}
<1>1. k \in made
  OBVIOUS
<1>2. PICK l : l = CHOOSE m \in made : TRUE
  OBVIOUS
<1>3. l \in made /\ Parent(j) = commits[l].base
  BY <1>1, <1>2 DEF Parent
<1>4. commits[l].base = commits[k].base
  BY <1>1, <1>3 DEF LineageOK
<1> QED
  BY <1>3, <1>4

LEMMA ParentRevision ==
    ASSUME StoreOK, LineageOK, NEW j \in DOMAIN published, Parent(j) # j
    PROVE  published[j].version.revision =
             published[Parent(j)].version.revision + 1
<1>1. PICK k \in DOMAIN commits :
        commits[k].result = j /\ commits[k].base = Parent(j)
  BY ParentFacts
<1>2. published[j].version = Successor(published[Parent(j)].version)
  BY <1>1 DEF LineageOK, Follows
<1>3. published[Parent(j)].version \in Version
  BY ParentFacts, SnapshotFacts
<1> QED
  BY <1>2, <1>3 DEF Successor, Version

LEMMA AncestryLeast ==
    ASSUME NEW j \in DOMAIN published, NEW set \in SUBSET DOMAIN published,
           j \in set, \A k \in set : Parent(k) \in set
    PROVE  Ancestry[j] \subseteq set
  BY DEF Ancestry

LEMMA AncestryClosed ==
    ASSUME StoreOK, NEW j \in DOMAIN published
    PROVE  /\ Ancestry[j] \in SUBSET DOMAIN published
           /\ j \in Ancestry[j]
           /\ \A i \in Ancestry[j] : Parent(i) \in Ancestry[j]
<1>1. ASSUME NEW i \in Ancestry[j] PROVE Parent(i) \in Ancestry[j]
  <2>1. i \in DOMAIN published
    BY DEF Ancestry
  <2>2. Parent(i) \in DOMAIN published
    BY <2>1, ParentFacts
  <2>3. ASSUME NEW set \in SUBSET DOMAIN published,
               j \in set, \A k \in set : Parent(k) \in set
        PROVE  Parent(i) \in set
    BY <2>3, AncestryLeast
  <2> QED
    BY <2>2, <2>3 DEF Ancestry
<1> QED
  BY <1>1 DEF Ancestry

\* Revisions fall along a lineage: an ancestor is older, or the snapshot.
LEMMA AncestorsAreOlder ==
    ASSUME StoreOK, LineageOK, NEW j \in DOMAIN published, NEW i \in Ancestry[j]
    PROVE  i = j \/ published[i].version.revision < published[j].version.revision
<1> DEFINE older == {k \in DOMAIN published :
                       \/ k = j
                       \/ published[k].version.revision <
                            published[j].version.revision}
<1>1. \A k \in DOMAIN published : published[k].version.revision \in Nat
  BY SnapshotFacts, CompositionAssumption DEF Version
<1>2. ASSUME NEW k \in older PROVE Parent(k) \in older
  <2>1. Parent(k) \in DOMAIN published
    BY ParentFacts
  <2>2. Parent(k) # k =>
          published[k].version.revision =
            published[Parent(k)].version.revision + 1
    BY ParentRevision
  <2> QED
    BY <1>1, <2>1, <2>2
<1>3. Ancestry[j] \subseteq older
  BY <1>2, AncestryLeast
<1> QED
  BY <1>3

\* A snapshot's ancestors are itself and the ancestors of its parent.
LEMMA AncestorsAbove ==
    ASSUME StoreOK, NEW j \in DOMAIN published, NEW i \in Ancestry[j], i # j
    PROVE  i \in Ancestry[Parent(j)]
<1> DEFINE above == {j} \cup Ancestry[Parent(j)]
<1>1. Parent(j) \in DOMAIN published
  BY ParentFacts
<1>2. /\ Ancestry[Parent(j)] \in SUBSET DOMAIN published
      /\ Parent(j) \in Ancestry[Parent(j)]
      /\ \A k \in Ancestry[Parent(j)] : Parent(k) \in Ancestry[Parent(j)]
  BY <1>1, AncestryClosed
<1>3. /\ above \in SUBSET DOMAIN published
      /\ j \in above
      /\ \A k \in above : Parent(k) \in above
  BY <1>2
<1>4. Ancestry[j] \subseteq above
  <2> HIDE DEF above
  <2> QED
    BY <1>3, AncestryLeast
<1> QED
  BY <1>4

\* In one lineage a delta applies to nothing but its base.
LEMMA LineageApplies ==
    ASSUME StoreOK, LineageOK
    PROVE  AppliesToItsBaseAlone
<1> SUFFICES ASSUME NEW k \in DOMAIN commits, NEW j \in DOMAIN published,
                    AppliesTo(commits[k].delta, published[j].version),
                    \/ j \in Ancestry[commits[k].result]
                    \/ commits[k].result \in Ancestry[j]
             PROVE  j = commits[k].base
  BY DEF AppliesToItsBaseAlone
<1> DEFINE base == commits[k].base
           result == commits[k].result
           Rev(i) == published[i].version.revision
<1>1. base \in DOMAIN published /\ result \in DOMAIN published
  BY DEF StoreOK, IsCommit
<1>2. Rev(j) = Rev(base)
  BY DEF LineageOK, AppliesTo
<1>3. \A i \in DOMAIN published : Rev(i) \in Nat
  BY SnapshotFacts, CompositionAssumption DEF Version
<1>4. result # base => Rev(result) = Rev(base) + 1 /\ Parent(result) = base
  BY <1>1, OneParent, ParentRevision
<1>5. CASE j \in Ancestry[result]
  <2>1. CASE result = base
    BY <1>1, <1>2, <1>3, <1>5, <2>1, AncestorsAreOlder
  <2>2. CASE result # base
    <3>1. j # result
      BY <1>1, <1>2, <1>3, <1>4, <2>2
    <3>2. j \in Ancestry[base]
      BY <1>1, <1>4, <1>5, <2>2, <3>1, AncestorsAbove
    <3> QED
      BY <1>1, <1>2, <1>3, <3>2, AncestorsAreOlder
  <2> QED
    BY <2>1, <2>2
<1>6. CASE result \in Ancestry[j]
  <2>1. result = j \/ Rev(result) < Rev(j)
    BY <1>6, AncestorsAreOlder
  <2> QED
    BY <1>1, <1>2, <1>3, <1>4, <2>1
<1> QED
  BY <1>5, <1>6

\* A parent's ancestors are ancestors, and the snapshot is not one of them.
LEMMA ParentAncestors ==
    ASSUME StoreOK, LineageOK, NEW i \in DOMAIN published, Parent(i) # i
    PROVE  /\ Ancestry[Parent(i)] \subseteq Ancestry[i]
           /\ i \notin Ancestry[Parent(i)]
<1>1. Parent(i) \in DOMAIN published
  BY ParentFacts
<1>2. Ancestry[Parent(i)] \subseteq Ancestry[i]
  BY <1>1, AncestryClosed, AncestryLeast
<1>3. \A k \in DOMAIN published : published[k].version.revision \in Nat
  BY SnapshotFacts, CompositionAssumption DEF Version
<1>4. i \notin Ancestry[Parent(i)]
  <2>1. published[i].version.revision =
          published[Parent(i)].version.revision + 1
    BY ParentRevision
  <2> QED
    BY <1>1, <1>3, <2>1, AncestorsAreOlder
<1> QED
  BY <1>2, <1>4

\* The deltas on the way from one snapshot to another one made from it, and
\* what DeltasCompose says of the two.
Way(i, j) ==
    {k \in DOMAIN commits :
        /\ commits[k].base # commits[k].result
        /\ commits[k].result \in Ancestry[j] \ Ancestry[i]}

Tells(i, j) ==
    \A x \in Address :
        ~ SubtreeEq(DocOf(i), DocOf(j), x) =>
            /\ \E k \in Way(i, j) : x \in DOMAIN commits[k].delta.diffs
            /\ x \in DOMAIN DocOf(j) =>
                 \A p \in {q \in OwnParts :
                             x \in DOMAIN DocOf(i) =>
                               ~ PartEq(DocOf(i)[x], DocOf(j)[x], q)} :
                    \E k \in Way(i, j) :
                        /\ x \in DOMAIN commits[k].delta.diffs
                        /\ p \in commits[k].delta.diffs[x]
            /\ x \in DOMAIN DocOf(j) /\ DescendantDiffers(DocOf(i), DocOf(j), x) =>
                 \E k \in Way(i, j) :
                    /\ x \in DOMAIN commits[k].delta.diffs
                    /\ {"Structure", "Descendant"}
                         \cap commits[k].delta.diffs[x] # {}

\* One document does not differ from itself, in any part.
LEMMA TellsItself ==
    ASSUME StoreOK, NEW j \in DOMAIN published
    PROVE  Tells(j, j)
<1>1. \A x \in Address : SubtreeEq(DocOf(j), DocOf(j), x)
  BY SnapshotFacts, SubtreeEqReflexive
<1> QED
  BY <1>1 DEF Tells

\* One commit further back: what it changed it says itself, and what it left
\* as it was still differs further on.
LEMMA TellsFurther ==
    ASSUME StoreOK, LineageOK, NEW j \in DOMAIN published,
           NEW i \in Ancestry[j], Tells(i, j)
    PROVE  Tells(Parent(i), j)
<1>0. CASE Parent(i) = i
  BY <1>0
<1> SUFFICES ASSUME Parent(i) # i PROVE Tells(Parent(i), j)
  BY <1>0
<1> DEFINE old == DocOf(Parent(i))
           mid == DocOf(i)
           new == DocOf(j)
<1>1. i \in DOMAIN published
  BY AncestryClosed
<1>2. PICK m \in DOMAIN commits :
        commits[m].result = i /\ commits[m].base = Parent(i)
  BY <1>1, ParentFacts
<1>3. commits[m].delta.diffs = DiffsBetween(old, mid)
  BY <1>2 DEF LineageOK, Follows
<1>4. /\ m \in Way(Parent(i), j)
      /\ Way(i, j) \subseteq Way(Parent(i), j)
  BY <1>1, <1>2, ParentAncestors DEF Way
<1>5. SUFFICES ASSUME NEW x \in Address, ~ SubtreeEq(old, new, x)
               PROVE  /\ \E k \in Way(Parent(i), j) :
                            x \in DOMAIN commits[k].delta.diffs
                      /\ \A p \in OwnParts :
                            (/\ x \in DOMAIN new
                             /\ x \in DOMAIN old =>
                                  ~ PartEq(old[x], new[x], p))
                            => \E k \in Way(Parent(i), j) :
                                  /\ x \in DOMAIN commits[k].delta.diffs
                                  /\ p \in commits[k].delta.diffs[x]
                      /\ (x \in DOMAIN new /\ DescendantDiffers(old, new, x)) =>
                            \E k \in Way(Parent(i), j) :
                               /\ x \in DOMAIN commits[k].delta.diffs
                               /\ {"Structure", "Descendant"}
                                    \cap commits[k].delta.diffs[x] # {}
  BY DEF Tells
<1>6. ~ SubtreeEq(old, mid, x) => x \in DOMAIN commits[m].delta.diffs
  BY <1>3, UnnamedSubtree
<1>7. ~ SubtreeEq(mid, new, x) =>
        \E k \in Way(i, j) : x \in DOMAIN commits[k].delta.diffs
  BY DEF Tells
<1>8. ~ SubtreeEq(old, mid, x) \/ ~ SubtreeEq(mid, new, x)
  BY <1>5, SubtreeEqTransitive
<1>9. \E k \in Way(Parent(i), j) : x \in DOMAIN commits[k].delta.diffs
  BY <1>4, <1>6, <1>7, <1>8
<1>10. ASSUME x \in DOMAIN new, NEW p \in OwnParts,
              x \in DOMAIN old => ~ PartEq(old[x], new[x], p)
       PROVE  \E k \in Way(Parent(i), j) :
                 /\ x \in DOMAIN commits[k].delta.diffs
                 /\ p \in commits[k].delta.diffs[x]
  <2>1. CASE ~ SubtreeEq(mid, new, x)
             /\ (x \in DOMAIN mid => ~ PartEq(mid[x], new[x], p))
    <3>1. \E k \in Way(i, j) :
             /\ x \in DOMAIN commits[k].delta.diffs
             /\ p \in commits[k].delta.diffs[x]
      BY <1>10, <2>1 DEF Tells
    <3> QED
      BY <1>4, <3>1
  <2>2. CASE x \in DOMAIN mid /\ PartEq(mid[x], new[x], p)
    <3>1. CASE x \in DOMAIN old
      <4>1. ~ PartEq(old[x], mid[x], p)
        BY <1>10, <2>2, <3>1 DEF PartEq
      <4>2. /\ x \in DOMAIN DiffsBetween(old, mid)
            /\ p \in DiffsBetween(old, mid)[x]
        BY <2>2, <3>1, <4>1, UnnamedPart
      <4> QED
        BY <1>3, <1>4, <4>2
    <3>2. CASE x \notin DOMAIN old
      <4>1. /\ x \in DOMAIN DiffsBetween(old, mid)
            /\ p \in DiffsBetween(old, mid)[x]
        BY <2>2, <3>2, CreatedAndRetired
      <4> QED
        BY <1>3, <1>4, <4>1
    <3> QED
      BY <3>1, <3>2
  <2>3. CASE SubtreeEq(mid, new, x)
             /\ (x \in DOMAIN mid => ~ PartEq(mid[x], new[x], p))
    <3>1. Agrees(mid, new, x)
      BY <2>3, SubtreeEqAgrees
    <3> QED
      BY <1>10, <2>3, <3>1 DEF Agrees, OwnEq, PartEq
  <2> QED
    BY <2>1, <2>2, <2>3
<1>11. ASSUME x \in DOMAIN new, DescendantDiffers(old, new, x)
       PROVE  \E k \in Way(Parent(i), j) :
                 /\ x \in DOMAIN commits[k].delta.diffs
                 /\ {"Structure", "Descendant"}
                      \cap commits[k].delta.diffs[x] # {}
  <2>1. "Structure" \in OwnParts /\ "Descendant" \notin OwnParts
    BY DEF OwnParts
  <2>2. CASE DescendantDiffers(mid, new, x)
    <3>1. ~ SubtreeEq(mid, new, x)
      BY <2>2, SubtreeEqBelow DEF DescendantDiffers
    <3> QED
      BY <1>4, <1>11, <2>2, <3>1 DEF Tells
  <2>3. CASE x \in DOMAIN old => ~ PartEq(old[x], new[x], "Structure")
    BY <1>10, <1>11, <2>1, <2>3
  <2>4. CASE x \in DOMAIN old /\ x \notin DOMAIN mid
    <3>1. ~ Agrees(mid, new, x)
      BY <1>11, <2>4 DEF Agrees
    <3>2. ~ SubtreeEq(mid, new, x)
      BY <3>1, SubtreeEqAgrees
    <3>3. \E k \in Way(i, j) :
             /\ x \in DOMAIN commits[k].delta.diffs
             /\ "Structure" \in commits[k].delta.diffs[x]
      BY <1>11, <2>1, <2>4, <3>2 DEF Tells
    <3> QED
      BY <1>4, <3>3
  <2>5. CASE /\ x \in DOMAIN old \cap DOMAIN mid
             /\ PartEq(old[x], new[x], "Structure")
             /\ ~ DescendantDiffers(mid, new, x)
    <3>1. CASE ~ PartEq(old[x], mid[x], "Structure")
      <4>1. /\ x \in DOMAIN DiffsBetween(old, mid)
            /\ "Structure" \in DiffsBetween(old, mid)[x]
        BY <2>1, <2>5, <3>1, UnnamedPart
      <4> QED
        BY <1>3, <1>4, <4>1
    <3>2. CASE PartEq(old[x], mid[x], "Structure")
      <4>1. /\ old[x].children = mid[x].children
            /\ old[x].children = new[x].children
        BY <2>5, <3>2 DEF PartEq, Proj
      <4>2. /\ Children(old, x) = Children(mid, x)
            /\ Children(old, x) = Children(new, x)
        BY <1>11, <2>5, <4>1 DEF Children
      <4>3. PICK c \in Children(mid, x) : ~ SubtreeEq(old, new, c)
        BY <1>11, <4>2 DEF DescendantDiffers
      <4>4. SubtreeEq(mid, new, c)
        BY <2>5, <4>3 DEF DescendantDiffers
      <4>5. ~ SubtreeEq(old, mid, c)
        BY <4>3, <4>4, SubtreeEqTransitive
      <4>6. DescendantDiffers(old, mid, x)
        BY <4>3, <4>5 DEF DescendantDiffers
      <4>7. ~ SubtreeEq(old, mid, x)
        BY <4>6, SubtreeEqBelow DEF DescendantDiffers
      <4>8. /\ x \in DOMAIN DiffsBetween(old, mid)
            /\ DiffsBetween(old, mid)[x] = PartsOf(old, mid, x)
        BY <2>5, <4>7, NamedAddresses
      <4>9. "Descendant" \in PartsOf(old, mid, x)
        BY <2>5, <4>6 DEF PartsOf
      <4> QED
        BY <1>3, <1>4, <4>8, <4>9
    <3> QED
      BY <3>1, <3>2
  <2> QED
    BY <2>2, <2>3, <2>4, <2>5
<1> QED
  BY <1>9, <1>10, <1>11

LEMMA LineageTells ==
    ASSUME StoreOK, LineageOK
    PROVE  DeltasCompose
<1>1. ASSUME NEW j \in DOMAIN published, NEW i \in Ancestry[j]
      PROVE  Tells(i, j)
  <2> DEFINE told == {k \in Ancestry[j] : Tells(k, j)}
  <2>1. /\ Ancestry[j] \in SUBSET DOMAIN published
        /\ j \in Ancestry[j]
        /\ \A k \in Ancestry[j] : Parent(k) \in Ancestry[j]
    BY AncestryClosed
  <2>2. j \in told
    BY <2>1, TellsItself
  <2>3. \A k \in told : Parent(k) \in told
    BY <2>1, TellsFurther
  <2>4. Ancestry[j] \subseteq told
    <3>1. told \in SUBSET DOMAIN published
      BY <2>1
    <3> HIDE DEF told
    <3> QED
      BY <2>2, <2>3, <3>1, AncestryLeast
  <2> QED
    BY <2>4
<1> QED
  BY <1>1 DEF DeltasCompose, Tells, Way

-----------------------------------------------------------------------------
\* Roots are addresses.
LEMMA BuilderRoots ==
    ASSUME RootsOK, NEW b \in DOMAIN builders, NEW new,
           new.roots \in Seq(Address), Store(b, new), published' = published
    PROVE  RootsOK'
<1>1. builders' = [builders EXCEPT ![b] = new]
  BY DEF Store
<1>2. ASSUME NEW c \in DOMAIN builders' PROVE builders'[c].roots \in Seq(Address)
  <2>1. builders'[c] = new \/ (c \in DOMAIN builders /\ builders'[c] = builders[c])
    BY <1>1
  <2> QED
    BY <2>1 DEF RootsOK
<1> QED
  BY <1>2 DEF RootsOK

\* A builder that goes takes its roots with it.
LEMMA DroppedRoots ==
    ASSUME RootsOK, NEW b, builders' = Without(builders, b),
           \A i \in DOMAIN published' : published'[i].roots \in Seq(Address)
    PROVE  RootsOK'
<1>1. \A c \in DOMAIN builders' :
        c \in DOMAIN builders /\ builders'[c] = builders[c]
  BY DEF Without, Restrict
<1> QED
  BY <1>1 DEF RootsOK

LEMMA EditRoots ==
    ASSUME RootsOK, NEW b, NEW i \in DOMAIN published, Edit(b, i)
    PROVE  RootsOK'
<1>1. PICK new : new = [base      |-> i,
                        records   |-> published[i].records,
                        roots     |-> published[i].roots,
                        placement |-> published[i].placement]
  OBVIOUS
<1>2. builders' = With(builders, b, new) /\ published' = published
  BY <1>1 DEF Edit
<1>3. new.roots \in Seq(Address)
  BY <1>1 DEF RootsOK
<1>4. \A c \in DOMAIN builders' :
        builders'[c] = new \/ (c \in DOMAIN builders /\ builders'[c] = builders[c])
  BY <1>2 DEF With
<1> QED
  BY <1>2, <1>3, <1>4 DEF RootsOK

\* Calls that leave the roots of the builder as they are.
LEMMA InsertRoots ==
    ASSUME StoreOK, RootsOK, NEW b \in DOMAIN builders, NEW x, NEW n,
           Insert(b, x, n)
    PROVE  RootsOK'
<1>1. PICK new : new = [builders[b] EXCEPT !.records = With(@, x, Len(heap) + 1)]
  OBVIOUS
<1>2. Store(b, new) /\ published' = published
  BY <1>1 DEF Insert
<1>3. new.roots = builders[b].roots
  BY <1>1, BuilderFacts
<1> QED
  BY <1>2, <1>3, BuilderRoots DEF RootsOK

LEMMA PlacementRoots ==
    ASSUME StoreOK, RootsOK, NEW b,
           \/ ResetPlacement(b)
           \/ \E x \in Address, r \in Rect : Place(b, x, r)
           \/ \E m \in Move : Translate(b, m)
    PROVE  RootsOK'
<1>1. b \in DOMAIN builders /\ published' = published
  BY DEF ResetPlacement, Place, Translate, Editing
<1>2. PICK placement : Store(b, [builders[b] EXCEPT !.placement = placement])
  BY DEF ResetPlacement, Place, Translate
<1>3. PICK new : new = [builders[b] EXCEPT !.placement = placement]
  OBVIOUS
<1>4. new.roots = builders[b].roots /\ Store(b, new)
  BY <1>1, <1>2, <1>3, BuilderFacts
<1> QED
  BY <1>1, <1>4, BuilderRoots DEF RootsOK

\* The calls that work on them: roots are appended, and what remove keeps of
\* them it keeps.
LEMMA RootRoots ==
    ASSUME StoreOK, RootsOK, NEW b, NEW x \in Address, Remove(b, x) \/ Root(b, x)
    PROVE  RootsOK'
<1>1. b \in DOMAIN builders /\ published' = published
  BY DEF Remove, Root, Editing
<1> DEFINE roots == builders[b].roots
           kept == {k \in DOMAIN roots : roots[k] # x}
<1>2. roots \in Seq(Address)
  BY <1>1 DEF RootsOK
<1>3. CASE Root(b, x)
  <2>1. PICK new : new = [builders[b] EXCEPT !.roots = Append(@, x)]
    OBVIOUS
  <2>2. new.roots = Append(roots, x) /\ Store(b, new)
    BY <1>1, <1>3, <2>1, BuilderFacts DEF Root
  <2>3. new.roots \in Seq(Address)
    BY <1>2, <2>2
  <2> QED
    BY <1>1, <2>2, <2>3, BuilderRoots
<1>4. CASE Remove(b, x)
  <2>1. PICK new : new = [builders[b] EXCEPT
                            !.records = Without(@, x),
                            !.roots   = At(@, {k \in DOMAIN @ : @[k] # x})]
    OBVIOUS
  <2>2. new.roots = At(roots, kept) /\ Store(b, new)
    BY <1>1, <1>4, <2>1, BuilderFacts DEF Remove
  <2>3. new.roots \in Seq(Address)
    BY <1>2, <2>2, AtFacts
  <2> QED
    BY <1>1, <2>2, <2>3, BuilderRoots
<1> QED
  BY <1>3, <1>4

LEMMA CommitRoots ==
    ASSUME StoreOK, RootsOK, NEW b, CommitNoOp(b) \/ CommitPublishes(b)
    PROVE  RootsOK'
<1>1. builders' = Without(builders, b) /\ b \in DOMAIN builders
  BY DEF CommitNoOp, CommitPublishes, Return, Committing
<1>2. \A i \in DOMAIN published' : published'[i].roots \in Seq(Address)
  <2>1. CASE CommitNoOp(b)
    BY <2>1 DEF CommitNoOp, RootsOK
  <2>2. CASE CommitPublishes(b)
    <3>1. /\ DOMAIN published' = DOMAIN published \cup {Len(published) + 1}
          /\ \A i \in DOMAIN published : published'[i] = published[i]
          /\ published'[Len(published) + 1].roots = builders[b].roots
      BY <2>2, PublishesStore DEF Continues
    <3> QED
      BY <1>1, <3>1 DEF RootsOK
  <2> QED
    BY <2>1, <2>2
<1> QED
  BY <1>1, <1>2, DroppedRoots

LEMMA StepRoots ==
    ASSUME StoreOK, RootsOK, Next
    PROVE  RootsOK'
<1>1. PICK b \in Builder :
        \/ \E i \in DOMAIN published : Edit(b, i)
        \/ \E x \in Address, n \in Node :
              Put(b, x, n) \/ Update(b, x, n) \/ UpdateIfLive(b, x, n)
        \/ (\E x \in Address : UpdatePanics(b, x)) \/ Abandon(b) \/ CommitPanics(b)
        \/ \E x \in Address : Remove(b, x) \/ Root(b, x)
        \/ ResetPlacement(b)
        \/ \E x \in Address, r \in Rect : Place(b, x, r)
        \/ \E m \in Move : Translate(b, m)
        \/ CommitNoOp(b) \/ CommitPublishes(b) \/ CommitOverflows(b)
  BY DEF Next
<1>2. ASSUME NEW x \in Address, NEW n \in Node,
             Put(b, x, n) \/ Update(b, x, n) \/ UpdateIfLive(b, x, n)
      PROVE  RootsOK'
  <2>1. b \in DOMAIN builders
    BY <1>2 DEF Put, Update, UpdateIfLive, Editing
  <2>2. Insert(b, x, n) \/ UNCHANGED <<published, builders>>
    BY <1>2 DEF Put, Update, UpdateIfLive
  <2> QED
    BY <2>1, <2>2, InsertRoots DEF RootsOK
<1>3. ASSUME (\E x \in Address : UpdatePanics(b, x)) \/ Abandon(b) \/ CommitPanics(b)
      PROVE  RootsOK'
  <2>1. builders' = Without(builders, b) /\ published' = published
    BY <1>3 DEF UpdatePanics, Abandon, CommitPanics
  <2>2. \A i \in DOMAIN published' : published'[i].roots \in Seq(Address)
    BY <2>1 DEF RootsOK
  <2> QED
    BY <2>1, <2>2, DroppedRoots
<1>4. ASSUME CommitOverflows(b) PROVE RootsOK'
  BY <1>4 DEF CommitOverflows, RootsOK
<1> QED
  BY <1>1, <1>2, <1>3, <1>4, EditRoots, RootRoots, PlacementRoots, CommitRoots

LEMMA InitRoots == Init => RootsOK
<1> SUFFICES ASSUME Init PROVE RootsOK
  OBVIOUS
<1>1. DOMAIN builders = {}
  BY DEF Init
<1>2. \A i \in DOMAIN published : published[i].roots = <<>>
  BY DEF Init
<1>3. <<>> \in Seq(Address)
  OBVIOUS
<1> QED
  BY <1>1, <1>2, <1>3 DEF RootsOK

-----------------------------------------------------------------------------
\* A set that is narrowed as often as it has members is empty or has settled:
\* narrowed to itself, it stays what it is.
LEMMA Settles ==
    ASSUME NEW set, IsFiniteSet(set), NEW n \in Nat, n = Cardinality(set),
           NEW e, e[0] \in SUBSET set, NEW stays,
           \A d \in 0..(n - 1) : /\ e[d + 1] \in SUBSET e[d]
                                 /\ d \in stays => d + 1 \in stays
                                 /\ e[d + 1] = e[d] => d \in stays,
           e[n] = {} => n \in stays
    PROVE  n \in stays
<1> DEFINE Narrow(d) == /\ e[d] \in SUBSET set
                        /\ d \in stays \/ Cardinality(e[d]) <= n - d
           good == {d \in Nat : d <= n => Narrow(d)}
<1>1. 0 \in good
  <2>1. Cardinality(e[0]) <= n
    BY FS_Subset
  <2> QED
    BY <2>1
<1>2. ASSUME NEW d \in Nat, d \in good PROVE d + 1 \in good
  <2> SUFFICES ASSUME d + 1 <= n PROVE Narrow(d + 1)
    OBVIOUS
  <2>1. d \in 0..(n - 1) /\ Narrow(d)
    BY <1>2
  <2>2. /\ e[d + 1] \in SUBSET e[d] /\ e[d] \in SUBSET set /\ e[d + 1] \in SUBSET set
        /\ d \in stays => d + 1 \in stays
        /\ e[d + 1] = e[d] => d \in stays
    BY <2>1
  <2>3. IsFiniteSet(e[d]) /\ IsFiniteSet(e[d + 1])
    BY <2>2, FS_Subset
  <2>4. Cardinality(e[d]) \in Nat /\ Cardinality(e[d + 1]) \in Nat
    BY <2>3, FS_CardinalityType
  <2>5. /\ Cardinality(e[d + 1]) <= Cardinality(e[d])
        /\ Cardinality(e[d + 1]) = Cardinality(e[d]) => e[d + 1] = e[d]
    BY <2>2, <2>3, FS_Subset
  <2>6. CASE d \in stays
    BY <2>2, <2>6
  <2>7. CASE d \notin stays
    <3>1. Cardinality(e[d + 1]) < Cardinality(e[d]) /\ Cardinality(e[d]) <= n - d
      BY <2>1, <2>2, <2>4, <2>5, <2>7
    <3>2. Cardinality(e[d + 1]) <= n - (d + 1)
      BY <2>4, <3>1
    <3> QED
      BY <2>2, <3>2
  <2> QED
    BY <2>6, <2>7
<1> HIDE DEF good
<1>3. n \in good
  BY <1>1, <1>2, NaturalsReached
<1>4. e[n] \in SUBSET set /\ (n \in stays \/ Cardinality(e[n]) <= n - n)
  BY <1>3 DEF good
<1>5. ASSUME Cardinality(e[n]) <= 0 PROVE e[n] = {}
  <2>1. IsFiniteSet(e[n])
    BY <1>4, FS_Subset
  <2>2. Cardinality(e[n]) = 0
    BY <1>5, <2>1, FS_CardinalityType
  <2> QED
    BY <2>1, <2>2, FS_EmptySet
<1> QED
  BY <1>4, <1>5
-----------------------------------------------------------------------------
\* What a record is worth unfolded, to each depth up to n.
IsUnfolding(f, doc, n) ==
    f = [depth \in 0..n |-> IF depth = 0
                            THEN [x \in Address |-> {}]
                            ELSE Unfolded(doc, f[depth - 1])]

LEMMA UnfoldingExists ==
    ASSUME NEW doc, NEW n \in Nat
    PROVE  \E f : IsUnfolding(f, doc, n)
<1> DEFINE good == {m \in Nat : \E f : IsUnfolding(f, doc, m)}
<1>1. 0 \in good
  <2>1. IsUnfolding([depth \in 0..0 |-> [x \in Address |-> {}]], doc, 0)
    BY DEF IsUnfolding
  <2> QED
    BY <2>1
<1>2. ASSUME NEW m \in Nat, m \in good PROVE m + 1 \in good
  <2>1. PICK f : IsUnfolding(f, doc, m)
    BY <1>2
  <2> DEFINE g == [depth \in 0..(m + 1) |->
                     IF depth = m + 1 THEN Unfolded(doc, f[m]) ELSE f[depth]]
  <2>2. ASSUME NEW depth \in 0..(m + 1)
        PROVE  g[depth] = IF depth = 0 THEN [x \in Address |-> {}]
                                       ELSE Unfolded(doc, g[depth - 1])
    <3>1. CASE depth = m + 1
      BY <3>1
    <3>2. CASE depth = 0
      BY <2>1, <3>2 DEF IsUnfolding
    <3>3. CASE depth # 0 /\ depth # m + 1
      <4>1. depth \in 0..m /\ depth - 1 \in 0..m /\ depth - 1 # m + 1
        BY <3>3
      <4>2. f[depth] = Unfolded(doc, f[depth - 1])
        BY <2>1, <3>3, <4>1 DEF IsUnfolding
      <4>3. g[depth] = f[depth] /\ g[depth - 1] = f[depth - 1]
        BY <3>3, <4>1
      <4> QED
        BY <3>3, <4>2, <4>3
    <3> QED
      BY <3>1, <3>2, <3>3
  <2>3. IsUnfolding(g, doc, m + 1)
    <3>1. g = [depth \in 0..(m + 1) |-> g[depth]]
      OBVIOUS
    <3> HIDE DEF g
    <3> QED
      BY <2>2, <3>1 DEF IsUnfolding
  <2> QED
    BY <2>3
<1> HIDE DEF good
<1>3. n \in good
  BY <1>1, <1>2, NaturalsReached
<1> QED
  BY <1>3 DEF good

LEMMA UnfoldingsFacts ==
    ASSUME NEW doc
    PROVE  IsUnfolding(Unfoldings(doc), doc, Cardinality(Address))
<1> DEFINE n == Cardinality(Address)
           unfold[depth \in 0..n] ==
             IF depth = 0
             THEN [x \in Address |-> {}]
             ELSE Unfolded(doc, unfold[depth - 1])
<1>1. Unfoldings(doc) = unfold
  BY Zenon DEF Unfoldings
<1>2. n \in Nat
  BY AddressAssumption, FS_CardinalityType
<1>3. PICK f : IsUnfolding(f, doc, n)
  BY <1>2, UnfoldingExists
<1>4. unfold = [depth \in 0..n |-> IF depth = 0
                                   THEN [x \in Address |-> {}]
                                   ELSE Unfolded(doc, unfold[depth - 1])]
  BY <1>3 DEF IsUnfolding
<1> HIDE DEF unfold
<1> QED
  BY <1>1, <1>4 DEF IsUnfolding

\* One level deeper at every step.
Unfolds(f, doc, n) ==
    /\ f[0] = [x \in Address |-> {}]
    /\ \A d \in 0..(n - 1) : f[d + 1] = Unfolded(doc, f[d])

LEMMA UnfoldingsStep ==
    ASSUME NEW doc
    PROVE  Unfolds(Unfoldings(doc), doc, Cardinality(Address))
<1>1. PICK f, n : f = Unfoldings(doc) /\ n = Cardinality(Address)
  OBVIOUS
<1>2. n \in Nat /\ IsUnfolding(f, doc, n)
  BY <1>1, AddressAssumption, FS_CardinalityType, UnfoldingsFacts
<1>3. f[0] = [x \in Address |-> {}]
  BY <1>2 DEF IsUnfolding
<1>4. ASSUME NEW d \in 0..(n - 1) PROVE f[d + 1] = Unfolded(doc, f[d])
  <2>1. d + 1 \in 0..n /\ d + 1 # 0 /\ (d + 1) - 1 = d
    BY <1>2
  <2> QED
    BY <1>2, <2>1 DEF IsUnfolding
<1> QED
  BY <1>1, <1>3, <1>4 DEF Unfolds

\* Worth the same: neither is live, or both are, with equal own parts and
\* children that are worth the same one level less deep.
LEMMA SameUnfolded ==
    ASSUME NEW a, NEW b, NEW p, NEW q, NEW x \in Address
    PROVE  Unfolded(a, p)[x] = Unfolded(b, q)[x] <=>
              /\ Agrees(a, b, x)
              /\ \A y \in Children(a, x) : p[y] = q[y]
<1> DEFINE Of(doc, below) ==
             [own      |-> Proj(doc[x]),
              children |-> [i \in DOMAIN doc[x].children |->
                              below[doc[x].children[i]]]]
<1>1. ASSUME NEW doc, NEW below
      PROVE  Unfolded(doc, below)[x] = IF x \in DOMAIN doc THEN {Of(doc, below)} ELSE {}
  BY DEF Unfolded
<1>2. CASE x \notin DOMAIN a \/ x \notin DOMAIN b
  <2>1. Children(a, x) = {} \/ ~ Agrees(a, b, x)
    BY <1>2 DEF Children, Agrees
  <2> HIDE DEF Of
  <2> QED
    BY <1>1, <1>2, <2>1 DEF Agrees
<1>3. CASE x \in DOMAIN a /\ x \in DOMAIN b
  <2>1. Unfolded(a, p)[x] = Unfolded(b, q)[x] <=> Of(a, p) = Of(b, q)
    <3>1. Unfolded(a, p)[x] = {Of(a, p)} /\ Unfolded(b, q)[x] = {Of(b, q)}
      <4> HIDE DEF Of
      <4> QED
        BY <1>1, <1>3
    <3>2. \A v, w : {v} = {w} <=> v = w
      OBVIOUS
    <3> HIDE DEF Of
    <3> QED
      BY <3>1, <3>2
  <2>2. Agrees(a, b, x) <=> Proj(a[x]) = Proj(b[x])
    BY <1>3 DEF Agrees, OwnEq
  <2>3. Proj(a[x]) = Proj(b[x]) => a[x].children = b[x].children
    BY DEF Proj
  <2>4. ASSUME a[x].children = b[x].children
        PROVE  Of(a, p).children = Of(b, q).children <=>
                 \A y \in Children(a, x) : p[y] = q[y]
    <3> DEFINE c == a[x].children
    <3>1. Of(a, p).children = [i \in DOMAIN c |-> p[c[i]]]
      OBVIOUS
    <3>2. Of(b, q).children = [i \in DOMAIN c |-> q[c[i]]]
      <4>1. Of(b, q).children
              = [i \in DOMAIN b[x].children |-> q[b[x].children[i]]]
        OBVIOUS
      <4> QED
        BY <2>4, <4>1
    <3>3. Children(a, x) = {c[i] : i \in DOMAIN c}
      BY <1>3, Zenon DEF Children, Range
    <3> HIDE DEF c, Of
    <3>4. [i \in DOMAIN c |-> p[c[i]]] = [i \in DOMAIN c |-> q[c[i]]]
            <=> \A i \in DOMAIN c : p[c[i]] = q[c[i]]
      OBVIOUS
    <3> QED
      BY <3>1, <3>2, <3>3, <3>4
  <2>5. Of(a, p) = Of(b, q) <=> /\ Proj(a[x]) = Proj(b[x])
                                /\ Of(a, p).children = Of(b, q).children
    OBVIOUS
  <2> HIDE DEF Of
  <2> QED
    BY <2>1, <2>2, <2>3, <2>4, <2>5
<1> QED
  BY <1>2, <1>3
\* Two records are worth the same unfolded to the number of addresses exactly
\* when no walk from them meets a difference, however deep.
LEMMA WholeIsSubtree ==
    ASSUME NEW a, NEW b, IsDocument(a), IsDocument(b), NEW x \in Address
    PROVE  Whole(a)[x] = Whole(b)[x] <=> SubtreeEq(a, b, x)
<1> DEFINE n == Cardinality(Address)
           u == Unfoldings(a)
           v == Unfoldings(b)
           e == [d \in 0..n |-> {y \in Address : u[d][y] = v[d][y]}]
           stays == {d \in 0..n : Closed(a, b, e[d])}
<1>1. n \in Nat /\ IsFiniteSet(Address)
  BY AddressAssumption, FS_CardinalityType
<1>2. Unfolds(u, a, n) /\ Unfolds(v, b, n)
  BY UnfoldingsStep
<1> HIDE DEF u, v, n
<1>3. e[0] = Address
  BY <1>1, <1>2 DEF Unfolds
<1>4. ASSUME NEW d \in 0..(n - 1)
      PROVE  e[d + 1] = {y \in Address : Agrees(a, b, y) /\ Children(a, y) \subseteq e[d]}
  <2>1. d \in 0..n /\ d + 1 \in 0..n
    BY <1>1
  <2>2. e[d + 1] = {y \in Address : Unfolded(a, u[d])[y] = Unfolded(b, v[d])[y]}
    BY <1>2, <2>1 DEF Unfolds
  <2>3. e[d] = {y \in Address : u[d][y] = v[d][y]}
    BY <2>1
  <2>4. ASSUME NEW y \in Address
        PROVE  Unfolded(a, u[d])[y] = Unfolded(b, v[d])[y]
                 <=> Agrees(a, b, y) /\ Children(a, y) \subseteq e[d]
    <3> HIDE DEF e
    <3>1. Children(a, y) \subseteq Address
      BY ChildrenAreAddresses
    <3>2. Unfolded(a, u[d])[y] = Unfolded(b, v[d])[y] <=>
             Agrees(a, b, y) /\ \A z \in Children(a, y) : u[d][z] = v[d][z]
      <4>1. PICK p, q : p = u[d] /\ q = v[d]
        OBVIOUS
      <4>2. CASE Agrees(a, b, y)
        <5>1. Unfolded(a, p)[y] = Unfolded(b, q)[y]
                <=> \A z \in Children(a, y) : p[z] = q[z]
          BY <4>2, SameUnfolded
        <5> QED
          BY <4>1, <4>2, <5>1
      <4>3. CASE ~ Agrees(a, b, y)
        BY <4>1, <4>3, SameUnfolded
      <4> QED
        BY <4>2, <4>3
    <3> QED
      BY <2>3, <3>1, <3>2
  <2> HIDE DEF e
  <2> QED
    BY <2>2, <2>4
<1>5. ASSUME NEW d \in 0..n PROVE e[d] \in SUBSET Address
  OBVIOUS
<1> HIDE DEF e
<1>6. ASSUME NEW d \in 0..(n - 1) PROVE e[d + 1] \in SUBSET e[d]
  <2> DEFINE good == {k \in Nat : k < n => e[k + 1] \in SUBSET e[k]}
  <2>1. 0 \in good
    BY <1>1, <1>3, <1>5
  <2>2. ASSUME NEW k \in Nat, k \in good PROVE k + 1 \in good
    <3> SUFFICES ASSUME k + 1 < n PROVE e[(k + 1) + 1] \in SUBSET e[k + 1]
      OBVIOUS
    <3>1. k \in 0..(n - 1) /\ k + 1 \in 0..(n - 1) /\ e[k + 1] \in SUBSET e[k]
      BY <1>1, <2>2
    <3>2. e[k + 1] = {y \in Address : Agrees(a, b, y) /\ Children(a, y) \subseteq e[k]}
      BY <1>4, <3>1
    <3>3. e[(k + 1) + 1]
            = {y \in Address : Agrees(a, b, y) /\ Children(a, y) \subseteq e[k + 1]}
      BY <1>4, <3>1
    <3> QED
      BY <3>1, <3>2, <3>3
  <2> HIDE DEF good
  <2>3. d \in good /\ d < n
    BY <1>1, <2>1, <2>2, NaturalsReached
  <2> QED
    BY <2>3 DEF good
<1>7. n \in stays
  <2>1. ASSUME NEW d \in 0..(n - 1), d \in stays PROVE d + 1 \in stays
    <3>1. Closed(a, b, e[d]) /\ d \in 0..n /\ d + 1 \in 0..n
      BY <1>1, <2>1
    <3>2. e[d] \subseteq e[d + 1]
      BY <1>4, <1>5, <3>1 DEF Closed
    <3>3. e[d + 1] = e[d]
      BY <1>6, <3>2
    <3> QED
      BY <3>1, <3>3
  <2>2. ASSUME NEW d \in 0..(n - 1), e[d + 1] = e[d] PROVE d \in stays
    <3>1. Closed(a, b, e[d]) /\ d \in 0..n
      BY <1>1, <1>4, <2>2 DEF Closed
    <3> QED
      BY <3>1
  <2>3. ASSUME e[n] = {} PROVE n \in stays
    BY <1>1, <2>3 DEF Closed
  <2> HIDE DEF stays
  <2>4. e[0] \in SUBSET Address /\ n = Cardinality(Address)
    BY <1>3 DEF n
  <2> QED
    BY <1>1, <1>6, <2>1, <2>2, <2>3, <2>4, Settles
<1>8. Whole(a)[x] = Whole(b)[x] <=> x \in e[n]
  BY <1>1 DEF Whole, e, n, u, v
<1>9. ASSUME x \in e[n] PROVE SubtreeEq(a, b, x)
  BY <1>1, <1>5, <1>7, <1>9 DEF SubtreeEq
<1>10. ASSUME SubtreeEq(a, b, x) PROVE x \in e[n]
  <2>1. PICK set \in SUBSET Address : x \in set /\ Closed(a, b, set)
    BY <1>10 DEF SubtreeEq
  <2> DEFINE good == {k \in Nat : k <= n => set \subseteq e[k]}
  <2>2. 0 \in good
    BY <1>3
  <2>3. ASSUME NEW k \in Nat, k \in good PROVE k + 1 \in good
    <3> SUFFICES ASSUME k + 1 <= n PROVE set \subseteq e[k + 1]
      OBVIOUS
    <3>1. k \in 0..(n - 1) /\ set \subseteq e[k]
      BY <1>1, <2>3
    <3> QED
      BY <1>4, <2>1, <3>1 DEF Closed
  <2> HIDE DEF good
  <2>4. n \in good
    BY <1>1, <2>2, <2>3, NaturalsReached
  <2> QED
    BY <1>1, <2>1, <2>4 DEF good
<1> QED
  BY <1>8, <1>9, <1>10

\* A set of naturals has a least one.
LEMMA MinFacts ==
    ASSUME NEW set \in SUBSET Nat, set # {}
    PROVE  Min(set) \in set /\ \A i \in set : Min(set) <= i
<1> DEFINE good == {n \in Nat : \A i \in 0..n : i \notin set}
<1> SUFFICES \E m \in set : \A i \in set : m <= i
  BY Zenon DEF Min
<1> SUFFICES ASSUME \A m \in set : \E i \in set : ~ (m <= i) PROVE FALSE
  OBVIOUS
<1>1. 0 \in good
  OBVIOUS
<1>2. ASSUME NEW n \in Nat, n \in good PROVE n + 1 \in good
  <2>1. n + 1 \notin set
    BY <1>2
  <2>2. \A i \in 0..(n + 1) : i \in 0..n \/ i = n + 1
    OBVIOUS
  <2> QED
    BY <1>2, <2>1, <2>2
<1> HIDE DEF good
<1>3. Nat \subseteq good
  BY <1>1, <1>2, NaturalsReached
<1>4. PICK m \in set : TRUE
  OBVIOUS
<1>5. m \in good /\ m \in 0..m
  BY <1>3, <1>4
<1> QED
  BY <1>4, <1>5 DEF good

-----------------------------------------------------------------------------
\* What a call answers.
Told == {"equal", "differs", "overflow", "panic"}

\* The call on x makes its i-th call, which is the first not to answer "equal".
Stops(before, told, x, i) ==
    /\ i \in DOMAIN before[x].children
    /\ told[before[x].children[i]] # "equal"
    /\ \A j \in 1..(i - 1) : told[before[x].children[j]] = "equal"

LEMMA AnswersFacts ==
    ASSUME NEW before, NEW after, IsDocument(before), IsDocument(after),
           NEW told \in [Address -> Told], NEW x \in Address
    PROVE  LET answer == Answers(before, after, told)[x]
           IN  /\ answer \in Told
               /\ x \in Foreign => answer = "panic"
               /\ x \notin Foreign /\ ~ Agrees(before, after, x) =>
                     answer = "differs"
               /\ x \notin Foreign /\ Agrees(before, after, x) =>
                     \/ /\ \A y \in Children(before, x) : told[y] = "equal"
                        /\ answer = "equal"
                     \/ /\ x \in DOMAIN before /\ x \in DOMAIN after
                        /\ \E i \in DOMAIN before[x].children :
                              /\ Stops(before, told, x, i)
                              /\ answer = told[before[x].children[i]]
<1> DEFINE c == before[x].children
           stops == {i \in DOMAIN c : told[c[i]] # "equal"}
           answer == Answers(before, after, told)[x]
<1>1. answer = IF x \in Foreign
               THEN "panic"
               ELSE IF x \notin DOMAIN before \cup DOMAIN after
               THEN "equal"
               ELSE IF \/ x \notin DOMAIN before \cap DOMAIN after
                       \/ ~ OwnEq(before[x], after[x])
                    THEN "differs"
                    ELSE IF stops = {} THEN "equal" ELSE told[c[Min(stops)]]
  BY Zenon DEF Answers
<1> HIDE DEF answer
<1>0. CASE x \in Foreign
  <2>1. answer = "panic"
    BY <1>0, <1>1
  <2> QED
    BY <1>0, <2>1 DEF answer, Told
<1>2. CASE x \notin Foreign /\ ~ Agrees(before, after, x)
  <2>1. answer = "differs"
    BY <1>1, <1>2 DEF Agrees
  <2> QED
    BY <1>2, <2>1 DEF answer, Told
<1>3. CASE x \notin Foreign /\ x \notin DOMAIN before /\ x \notin DOMAIN after
  <2>1. answer = "equal" /\ Children(before, x) = {}
    BY <1>1, <1>3 DEF Children
  <2>2. Agrees(before, after, x)
    BY <1>3 DEF Agrees
  <2> QED
    BY <1>3, <2>1, <2>2 DEF answer, Told
<1>4. CASE /\ x \notin Foreign
           /\ x \in DOMAIN before \cap DOMAIN after
           /\ Agrees(before, after, x)
  <2>1. c \in Seq(Address)
    BY <1>4, NodeAssumption DEF IsDocument, IsMap
  <2>2. DOMAIN c = 1..Len(c) /\ Len(c) \in Nat
    BY <2>1
  <2>3. Children(before, x) = {c[i] : i \in DOMAIN c}
    BY <1>4, Zenon DEF Children, Range
  <2>4. \A i \in DOMAIN c : c[i] \in Address
    BY <2>1
  <2>5. answer = IF stops = {} THEN "equal" ELSE told[c[Min(stops)]]
    BY <1>1, <1>4 DEF Agrees
  <2>6. CASE stops = {}
    <3>1. \A y \in Children(before, x) : told[y] = "equal"
      <4> HIDE DEF c
      <4> QED
        BY <2>3, <2>6
    <3> QED
      BY <1>4, <2>5, <2>6, <3>1 DEF answer, Told
  <2>7. CASE stops # {}
    <3> DEFINE m == Min(stops)
    <3>1. stops \in SUBSET Nat
      BY <2>2
    <3>2. m \in stops /\ \A i \in stops : m <= i
      <4> HIDE DEF stops
      <4> QED
        BY <2>7, <3>1, MinFacts
    <3> HIDE DEF m
    <3>3. \A j \in 1..(m - 1) : j \in DOMAIN c /\ ~ (m <= j)
      BY <2>2, <3>2
    <3>4. Stops(before, told, x, m)
      <4>1. \A j \in 1..(m - 1) : told[c[j]] = "equal"
        BY <3>2, <3>3
      <4> QED
        BY <3>2, <4>1 DEF Stops
    <3>5. answer = told[c[m]] /\ answer \in Told
      BY <2>4, <2>5, <2>7, <3>2 DEF m
    <3> QED
      BY <1>4, <3>2, <3>4, <3>5 DEF answer
  <2> QED
    BY <2>6, <2>7
<1> QED
  BY <1>0, <1>2, <1>3, <1>4 DEF Agrees

\* An answer that did not run out of room stays with more room.
LEMMA MoreRoom ==
    ASSUME NEW before, NEW after, IsDocument(before), IsDocument(after),
           NEW told \in [Address -> Told], NEW more \in [Address -> Told],
           \A y \in Address : told[y] # "overflow" => more[y] = told[y],
           NEW x \in Address, Answers(before, after, told)[x] # "overflow"
    PROVE  Answers(before, after, more)[x] = Answers(before, after, told)[x]
<1> DEFINE c == before[x].children
           first == Answers(before, after, told)[x]
           second == Answers(before, after, more)[x]
<1>1. CASE x \in Foreign \/ ~ Agrees(before, after, x)
  BY <1>1, AnswersFacts
<1>2. CASE x \notin Foreign /\ Agrees(before, after, x)
  <2>1. \/ (\A y \in Children(before, x) : told[y] = "equal") /\ first = "equal"
        \/ /\ x \in DOMAIN before
           /\ \E i \in DOMAIN c : Stops(before, told, x, i) /\ first = told[c[i]]
    BY <1>2, AnswersFacts
  <2>2. \/ (\A y \in Children(before, x) : more[y] = "equal") /\ second = "equal"
        \/ /\ x \in DOMAIN before
           /\ \E i \in DOMAIN c : Stops(before, more, x, i) /\ second = more[c[i]]
    BY <1>2, AnswersFacts
  <2>3. Children(before, x) \subseteq Address
    BY ChildrenAreAddresses
  <2>4. ASSUME x \in DOMAIN before
        PROVE  /\ Len(c) \in Nat /\ DOMAIN c = 1..Len(c)
               /\ \A i \in DOMAIN c : c[i] \in Children(before, x)
    <3>1. c \in Seq(Address)
      BY <2>4, NodeAssumption DEF IsDocument, IsMap
    <3>2. \A i \in DOMAIN c : c[i] \in Children(before, x)
      BY <2>4, Zenon DEF Children, Range
    <3> QED
      BY <3>1, <3>2
  <2> HIDE DEF c, first, second
  <2>5. first # "overflow"
    BY DEF first
  <2>6. ASSUME \A y \in Children(before, x) : told[y] = "equal", first = "equal"
        PROVE  second = first
    <3>1. \A y \in Children(before, x) : more[y] = "equal"
      BY <2>3, <2>6
    <3>2. \A i \in DOMAIN c : x \in DOMAIN before => more[c[i]] = "equal"
      BY <2>4, <3>1
    <3> QED
      BY <2>2, <2>6, <3>2 DEF Stops, c
  <2>7. ASSUME x \in DOMAIN before, NEW i \in DOMAIN c,
               Stops(before, told, x, i), first = told[c[i]]
        PROVE  second = first
    <3>1. more[c[i]] = told[c[i]] /\ more[c[i]] # "equal"
      BY <2>3, <2>4, <2>5, <2>7 DEF Stops, c
    <3>2. \A j \in 1..(i - 1) : more[c[j]] = "equal"
      <4>1. ASSUME NEW j \in 1..(i - 1) PROVE more[c[j]] = "equal"
        <5>1. told[c[j]] = "equal" /\ j \in DOMAIN c
          BY <2>4, <2>7 DEF Stops, c
        <5> QED
          BY <2>3, <2>4, <2>7, <5>1
      <4> QED
        BY <4>1
    <3>3. PICK k \in DOMAIN c : Stops(before, more, x, k) /\ second = more[c[k]]
      BY <2>2, <2>4, <2>7, <3>1
    <3>4. more[c[k]] # "equal" /\ \A j \in 1..(k - 1) : more[c[j]] = "equal"
      BY <3>3 DEF Stops, c
    <3>5. k = i
      BY <2>4, <2>7, <3>1, <3>2, <3>4
    <3> QED
      BY <2>7, <3>1, <3>3, <3>5
  <2> QED
    BY <2>1, <2>6, <2>7 DEF first, second
<1> QED
  BY <1>1, <1>2

\* What the calls answer with a stack of every height up to n.
IsWalk(f, before, after, n) ==
    f = [room \in 0..n |-> IF room = 0
                           THEN [x \in Address |-> "overflow"]
                           ELSE Answers(before, after, f[room - 1])]

LEMMA WalkExists ==
    ASSUME NEW before, NEW after, NEW n \in Nat
    PROVE  \E f : IsWalk(f, before, after, n)
<1> DEFINE good == {m \in Nat : \E f : IsWalk(f, before, after, m)}
<1>1. 0 \in good
  <2>1. IsWalk([room \in 0..0 |-> [x \in Address |-> "overflow"]], before, after, 0)
    BY DEF IsWalk
  <2> QED
    BY <2>1
<1>2. ASSUME NEW m \in Nat, m \in good PROVE m + 1 \in good
  <2>1. PICK f : IsWalk(f, before, after, m)
    BY <1>2
  <2> DEFINE g == [room \in 0..(m + 1) |->
                     IF room = m + 1 THEN Answers(before, after, f[m]) ELSE f[room]]
  <2>2. ASSUME NEW room \in 0..(m + 1)
        PROVE  g[room] = IF room = 0 THEN [x \in Address |-> "overflow"]
                                     ELSE Answers(before, after, g[room - 1])
    <3>1. CASE room = m + 1
      BY <3>1
    <3>2. CASE room = 0
      BY <2>1, <3>2 DEF IsWalk
    <3>3. CASE room # 0 /\ room # m + 1
      <4>1. room \in 0..m /\ room - 1 \in 0..m /\ room - 1 # m + 1
        BY <3>3
      <4>2. f[room] = Answers(before, after, f[room - 1])
        BY <2>1, <3>3, <4>1 DEF IsWalk
      <4>3. g[room] = f[room] /\ g[room - 1] = f[room - 1]
        BY <3>3, <4>1
      <4> QED
        BY <3>3, <4>2, <4>3
    <3> QED
      BY <3>1, <3>2, <3>3
  <2>3. IsWalk(g, before, after, m + 1)
    <3>1. g = [room \in 0..(m + 1) |-> g[room]]
      OBVIOUS
    <3> HIDE DEF g
    <3> QED
      BY <2>2, <3>1 DEF IsWalk
  <2> QED
    BY <2>3
<1> HIDE DEF good
<1>3. n \in good
  BY <1>1, <1>2, NaturalsReached
<1> QED
  BY <1>3 DEF good

\* One call more at every step.
Calls(f, before, after, n) ==
    /\ f[0] = [x \in Address |-> "overflow"]
    /\ \A k \in 0..(n - 1) : f[k + 1] = Answers(before, after, f[k])

LEMMA WalksStep ==
    ASSUME NEW before, NEW after
    PROVE  Calls(Walks(before, after), before, after, Cardinality(Address) + 1)
<1> DEFINE n == Cardinality(Address) + 1
           walk[room \in 0..n] ==
             IF room = 0
             THEN [x \in Address |-> "overflow"]
             ELSE Answers(before, after, walk[room - 1])
<1>1. Walks(before, after) = walk
  BY Zenon DEF Walks
<1>2. n \in Nat
  BY AddressAssumption, FS_CardinalityType
<1>3. PICK f : IsWalk(f, before, after, n)
  BY <1>2, WalkExists
<1>4. walk = [room \in 0..n |-> IF room = 0
                                THEN [x \in Address |-> "overflow"]
                                ELSE Answers(before, after, walk[room - 1])]
  BY <1>3 DEF IsWalk
<1> HIDE DEF walk, n
<1>5. walk[0] = [x \in Address |-> "overflow"]
  BY <1>2, <1>4
<1>6. ASSUME NEW k \in 0..(n - 1) PROVE walk[k + 1] = Answers(before, after, walk[k])
  <2>1. k + 1 \in 0..n /\ k + 1 # 0 /\ (k + 1) - 1 = k
    BY <1>2
  <2> QED
    BY <1>4, <2>1
<1>7. Calls(walk, before, after, n)
  BY <1>5, <1>6 DEF Calls
<1> QED
  BY <1>1, <1>7 DEF n

LEMMA AnswersTyped ==
    ASSUME NEW before, NEW after, IsDocument(before), IsDocument(after),
           NEW told \in [Address -> Told]
    PROVE  Answers(before, after, told) \in [Address -> Told]
<1>1. \A x \in Address : Answers(before, after, told)[x] \in Told
  BY AnswersFacts
<1>2. Answers(before, after, told)
        = [x \in Address |-> Answers(before, after, told)[x]]
  BY DEF Answers
<1> QED
  BY <1>1, <1>2

\* An answer given with some room is given with more.
LEMMA CallsKeep ==
    ASSUME NEW before, NEW after, IsDocument(before), IsDocument(after),
           NEW n \in Nat, NEW f, Calls(f, before, after, n)
    PROVE  /\ \A k \in 0..n : f[k] \in [Address -> Told]
           /\ \A k \in 0..(n - 1) : \A x \in Address :
                 f[k][x] # "overflow" => f[k + 1][x] = f[k][x]
<1> DEFINE typed == {k \in Nat : k <= n => f[k] \in [Address -> Told]}
           Keeps(k) == \A x \in Address :
                          f[k][x] # "overflow" => f[k + 1][x] = f[k][x]
           kept == {k \in Nat : k < n => Keeps(k)}
<1>1. 0 \in typed
  BY DEF Calls, Told
<1>2. ASSUME NEW k \in Nat, k \in typed PROVE k + 1 \in typed
  <2> SUFFICES ASSUME k + 1 <= n PROVE f[k + 1] \in [Address -> Told]
    OBVIOUS
  <2>1. k \in 0..(n - 1) /\ f[k] \in [Address -> Told]
    BY <1>2
  <2> QED
    BY <2>1, AnswersTyped DEF Calls
<1>3. Nat \subseteq typed
  <2> HIDE DEF typed
  <2> QED
    BY <1>1, <1>2, NaturalsReached
<1>4. \A k \in 0..n : f[k] \in [Address -> Told]
  BY <1>3
<1> HIDE DEF typed
<1>5. 0 \in kept
  BY DEF Calls
<1>6. ASSUME NEW k \in Nat, k \in kept PROVE k + 1 \in kept
  <2> SUFFICES ASSUME k + 1 < n PROVE Keeps(k + 1)
    OBVIOUS
  <2>1. PICK told, more : told = f[k] /\ more = f[k + 1]
    OBVIOUS
  <2>2. k \in 0..(n - 1) /\ k + 1 \in 0..(n - 1) /\ k \in 0..n /\ k + 1 \in 0..n
    OBVIOUS
  <2>3. told \in [Address -> Told] /\ more \in [Address -> Told]
    BY <1>4, <2>1, <2>2
  <2>4. \A y \in Address : told[y] # "overflow" => more[y] = told[y]
    BY <1>6, <2>1, <2>2
  <2>5. more = Answers(before, after, told)
    BY <2>1, <2>2 DEF Calls
  <2>6. f[(k + 1) + 1] = Answers(before, after, more)
    BY <2>1, <2>2 DEF Calls
  <2>7. \A x \in Address : Answers(before, after, told)[x] # "overflow" =>
           Answers(before, after, more)[x] = Answers(before, after, told)[x]
    BY <2>3, <2>4, MoreRoom
  <2> QED
    BY <2>1, <2>5, <2>6, <2>7
<1>7. Nat \subseteq kept
  <2> HIDE DEF kept
  <2> QED
    BY <1>5, <1>6, NaturalsReached
<1>8. \A k \in 0..(n - 1) : k \in kept /\ k < n
  BY <1>7
<1> QED
  BY <1>4, <1>8

\* As much room as there are addresses is enough: with more, no call answers
\* otherwise.
LEMMA WalkFixed ==
    ASSUME NEW before, NEW after, IsDocument(before), IsDocument(after)
    PROVE  /\ Walk(before, after) \in [Address -> Told]
           /\ Walk(before, after) = Answers(before, after, Walk(before, after))
<1>1. PICK f, n : f = Walks(before, after) /\ n = Cardinality(Address)
  OBVIOUS
<1>2. n \in Nat /\ IsFiniteSet(Address) /\ n + 1 \in Nat
  BY <1>1, AddressAssumption, FS_CardinalityType
<1>3. Calls(f, before, after, n + 1)
  BY <1>1, WalksStep
<1>4. /\ \A k \in 0..(n + 1) : f[k] \in [Address -> Told]
      /\ \A k \in 0..((n + 1) - 1) : \A x \in Address :
            f[k][x] # "overflow" => f[k + 1][x] = f[k][x]
  BY <1>2, <1>3, CallsKeep
<1>5. ASSUME NEW k \in 0..n
      PROVE  /\ f[k] \in [Address -> Told] /\ f[k + 1] \in [Address -> Told]
             /\ f[k + 1] = Answers(before, after, f[k])
             /\ \A x \in Address : f[k][x] # "overflow" => f[k + 1][x] = f[k][x]
  <2>1. k \in 0..(n + 1) /\ k + 1 \in 0..(n + 1) /\ k \in 0..((n + 1) - 1)
    BY <1>2
  <2> QED
    BY <1>3, <1>4, <2>1 DEF Calls
<1> DEFINE e == [k \in 0..n |-> {x \in Address : f[k][x] = "overflow"}]
           stays == {k \in 0..n : f[k + 1] = f[k]}
<1>6. n \in stays
  <2>1. ASSUME NEW d \in 0..(n - 1)
        PROVE  /\ e[d + 1] \in SUBSET e[d]
               /\ d \in stays => d + 1 \in stays
               /\ e[d + 1] = e[d] => d \in stays
    <3>1. d \in 0..n /\ d + 1 \in 0..n
      BY <1>2
    <3>2. e[d + 1] \in SUBSET e[d]
      BY <1>5, <3>1
    <3>3. d \in stays => d + 1 \in stays
      BY <1>5, <3>1
    <3>4. ASSUME e[d + 1] = e[d] PROVE d \in stays
      <4>1. \A x \in Address : f[d][x] = "overflow" => f[d + 1][x] = "overflow"
        BY <3>1, <3>4
      <4>2. \A x \in Address : f[d + 1][x] = f[d][x]
        BY <1>5, <3>1, <4>1
      <4>3. f[d + 1] = f[d]
        BY <1>5, <3>1, <4>2
      <4> QED
        BY <3>1, <4>3
    <3> QED
      BY <3>2, <3>3, <3>4
  <2>2. ASSUME e[n] = {} PROVE n \in stays
    <3>1. n \in 0..n /\ \A x \in Address : f[n][x] # "overflow"
      BY <1>2, <2>2
    <3>2. \A x \in Address : f[n + 1][x] = f[n][x]
      BY <1>5, <3>1
    <3>3. f[n + 1] = f[n]
      BY <1>5, <3>1, <3>2
    <3> QED
      BY <3>1, <3>3
  <2>3. e[0] \in SUBSET Address
    BY <1>2
  <2> HIDE DEF e, stays
  <2> QED
    BY <1>1, <1>2, <2>1, <2>2, <2>3, Settles
<1>7. f[n + 1] = f[n] /\ n \in 0..n
  BY <1>6, <1>2
<1>8. f[n] = Answers(before, after, f[n]) /\ f[n] \in [Address -> Told]
  BY <1>5, <1>7
<1>9. Walk(before, after) = f[n + 1]
  BY <1>1 DEF Walk
<1> QED
  BY <1>7, <1>8, <1>9

\* A call that answers "equal" has nothing but equal records below it.
LEMMA EqualIsSubtreeEq ==
    ASSUME NEW before, NEW after, IsDocument(before), IsDocument(after),
           NEW told \in [Address -> Told], told = Answers(before, after, told),
           NEW x \in Address, told[x] = "equal"
    PROVE  SubtreeEq(before, after, x)
<1> DEFINE set == {y \in Address : told[y] = "equal"}
<1>1. ASSUME NEW y \in set
      PROVE  Agrees(before, after, y) /\ Children(before, y) \subseteq set
  <2>0. y \in Address /\ Answers(before, after, told)[y] = "equal"
    BY Zenon
  <2>1. /\ y \in Address /\ Answers(before, after, told)[y] = "equal"
        /\ y \notin Foreign
    BY <2>0, AnswersFacts
  <2>2. Agrees(before, after, y)
    BY <2>1, AnswersFacts
  <2>3. \A z \in Children(before, y) : told[z] = "equal"
    <3>1. \/ \A z \in Children(before, y) : told[z] = "equal"
          \/ \E i \in DOMAIN before[y].children :
                /\ Stops(before, told, y, i)
                /\ Answers(before, after, told)[y] = told[before[y].children[i]]
      BY <2>1, <2>2, AnswersFacts
    <3> QED
      BY <2>1, <3>1 DEF Stops
  <2> QED
    BY <2>2, <2>3, ChildrenAreAddresses
<1>2. Closed(before, after, set)
  BY <1>1 DEF Closed
<1> QED
  BY <1>2 DEF SubtreeEq

\* No call from an equal subtree answers that it differs, whatever its room.
LEMMA EqualNeverDiffers ==
    ASSUME NEW before, NEW after, IsDocument(before), IsDocument(after),
           NEW n \in Nat, NEW f, Calls(f, before, after, n),
           NEW x \in Address, SubtreeEq(before, after, x)
    PROVE  \A k \in 0..n : f[k][x] # "differs"
<1>1. PICK set \in SUBSET Address : x \in set /\ Closed(before, after, set)
  BY DEF SubtreeEq
<1> DEFINE good == {k \in Nat : k <= n => \A y \in set : f[k][y] # "differs"}
<1>2. 0 \in good
  BY DEF Calls
<1>3. ASSUME NEW k \in Nat, k \in good PROVE k + 1 \in good
  <2> SUFFICES ASSUME k + 1 <= n, NEW y \in set PROVE f[k + 1][y] # "differs"
    OBVIOUS
  <2>1. PICK told : told = f[k]
    OBVIOUS
  <2>2. k \in 0..(n - 1) /\ k \in 0..n
    OBVIOUS
  <2>3. told \in [Address -> Told] /\ f[k + 1] = Answers(before, after, told)
    BY <2>1, <2>2, CallsKeep DEF Calls
  <2>4. \A z \in set : told[z] # "differs"
    BY <1>3, <2>1, <2>2
  <2>5. Agrees(before, after, y) /\ Children(before, y) \subseteq set
    BY <1>1 DEF Closed
  <2>6. \/ Answers(before, after, told)[y] \in {"equal", "panic"}
        \/ /\ y \in DOMAIN before
           /\ \E i \in DOMAIN before[y].children :
                 Answers(before, after, told)[y] = told[before[y].children[i]]
    BY <2>3, <2>5, AnswersFacts
  <2>7. y \in DOMAIN before =>
           \A i \in DOMAIN before[y].children :
              before[y].children[i] \in Children(before, y)
    BY Zenon DEF Children, Range
  <2> QED
    BY <2>3, <2>4, <2>5, <2>6, <2>7
<1> HIDE DEF good
<1>4. Nat \subseteq good
  BY <1>2, <1>3, NaturalsReached
<1> QED
  BY <1>1, <1>4 DEF good

LEMMA OverflowingDiverges ==
    ASSUME NEW before, NEW after, IsDocument(before), IsDocument(after),
           NEW told \in [Address -> Told], told = Answers(before, after, told),
           NEW start \in Address, told[start] = "overflow"
    PROVE  WalkDiverges(before, after)
<1> DEFINE set == {y \in Address : told[y] = "overflow"}
<1>1. ASSUME NEW x \in set
      PROVE  /\ x \in DOMAIN before /\ x \in DOMAIN after
             /\ OwnEq(before[x], after[x])
             /\ \E i \in DOMAIN before[x].children :
                   /\ before[x].children[i] \in set
                   /\ \A j \in 1..(i - 1) :
                         SubtreeEq(before, after, before[x].children[j])
  <2> DEFINE c == before[x].children
  <2>0. x \in Address /\ Answers(before, after, told)[x] = "overflow"
    BY Zenon
  <2>1. /\ x \in Address /\ Answers(before, after, told)[x] = "overflow"
        /\ x \notin Foreign
    BY <2>0, AnswersFacts
  <2>2. Agrees(before, after, x)
    BY <2>1, AnswersFacts
  <2>3. /\ x \in DOMAIN before /\ x \in DOMAIN after
        /\ \E i \in DOMAIN c : /\ Stops(before, told, x, i)
                               /\ Answers(before, after, told)[x] = told[c[i]]
    BY <2>1, <2>2, AnswersFacts
  <2>4. PICK i \in DOMAIN c : /\ Stops(before, told, x, i)
                              /\ told[c[i]] = "overflow"
    BY <2>1, <2>3
  <2>5. c \in Seq(Address)
    BY <2>3, NodeAssumption DEF IsDocument, IsMap
  <2>6. /\ c[i] \in set
        /\ \A j \in 1..(i - 1) : c[j] \in Address /\ told[c[j]] = "equal"
    BY <2>4, <2>5 DEF Stops
  <2>7. \A j \in 1..(i - 1) : SubtreeEq(before, after, c[j])
    BY <2>6, EqualIsSubtreeEq
  <2>8. OwnEq(before[x], after[x])
    BY <2>2, <2>3 DEF Agrees
  <2> QED
    BY <2>3, <2>6, <2>7, <2>8
<1>2. set \in (SUBSET (DOMAIN before \cap DOMAIN after)) \ {{}}
  <2>1. start \in set
    OBVIOUS
  <2> QED
    BY <1>1, <2>1
<1> HIDE DEF set
<1> QED
  BY <1>1, <1>2 DEF WalkDiverges

\* An answer that is none: the process aborts or the builder unwinds.
Fails(answer) == answer = "overflow" \/ answer = "panic"

\* A call on an equal record fails when one of its calls does and the calls
\* before that are on equal subtrees.
LEMMA FailureSpreads ==
    ASSUME NEW before, NEW after, IsDocument(before), IsDocument(after),
           NEW n \in Nat, NEW f, Calls(f, before, after, n),
           NEW k \in 0..(n - 1),
           NEW x \in DOMAIN before \cap DOMAIN after,
           OwnEq(before[x], after[x]),
           NEW i \in DOMAIN before[x].children,
           f[k][before[x].children[i]] # "equal",
           f[k][before[x].children[i]] # "differs",
           \A j \in 1..(i - 1) : SubtreeEq(before, after, before[x].children[j])
    PROVE  Fails(f[k + 1][x])
<1> DEFINE c == before[x].children
<1>1. PICK told : told = f[k]
  OBVIOUS
<1>2. k \in 0..n /\ x \in Address
  BY DEF IsDocument, IsMap
<1>3. told \in [Address -> Told] /\ f[k + 1] = Answers(before, after, told)
  BY <1>1, <1>2, CallsKeep DEF Calls
<1>4. c \in Seq(Address)
  BY NodeAssumption DEF IsDocument, IsMap
<1>5. \A m \in DOMAIN c : c[m] \in Children(before, x) /\ c[m] \in Address
  <2>1. \A m \in DOMAIN c : c[m] \in Children(before, x)
    BY Zenon DEF Children, Range
  <2> QED
    BY <1>4, <2>1
<1>6. CASE x \in Foreign
  BY <1>2, <1>3, <1>6, AnswersFacts DEF Fails
<1>7. CASE x \notin Foreign
  <2>1. Agrees(before, after, x)
    BY DEF Agrees
  <2>2. ~ \A y \in Children(before, x) : told[y] = "equal"
    BY <1>1, <1>5
  <2>3. PICK m \in DOMAIN c :
           /\ Stops(before, told, x, m)
           /\ Answers(before, after, told)[x] = told[c[m]]
    BY <1>2, <1>3, <1>7, <2>1, <2>2, AnswersFacts
  <2>4. told[c[i]] # "equal" /\ told[c[i]] # "differs" /\ i \in DOMAIN c
    BY <1>1
  <2>5. \A j \in 1..(i - 1) : SubtreeEq(before, after, c[j])
    OBVIOUS
  <2> HIDE DEF c
  <2>6. DOMAIN c = 1..Len(c) /\ Len(c) \in Nat
    BY <1>4
  <2>7. told[c[m]] # "equal" /\ \A j \in 1..(m - 1) : told[c[j]] = "equal"
    BY <2>3 DEF Stops, c
  <2>8. ~ (i < m)
    BY <2>4, <2>6, <2>7
  <2>9. told[c[m]] # "differs"
    <3>1. CASE m = i
      BY <2>4, <3>1
    <3>2. CASE m < i
      <4>1. SubtreeEq(before, after, c[m])
        BY <2>4, <2>5, <2>6, <3>2
      <4> QED
        BY <1>1, <1>2, <1>5, <4>1, EqualNeverDiffers
    <3> QED
      BY <2>4, <2>6, <2>8, <3>1, <3>2
  <2>10. told[c[m]] \in Told
    BY <1>3, <1>5
  <2> QED
    BY <1>3, <2>3, <2>7, <2>9, <2>10 DEF Told, Fails
<1> QED
  BY <1>6, <1>7

LEMMA DivergingFails ==
    ASSUME NEW before, NEW after, IsDocument(before), IsDocument(after),
           NEW n \in Nat, NEW f, Calls(f, before, after, n),
           WalkDiverges(before, after)
    PROVE  \E x \in DOMAIN before : Fails(f[n][x])
<1>1. PICK set \in SUBSET (DOMAIN before \cap DOMAIN after) :
         /\ set # {}
         /\ \A x \in set :
               /\ OwnEq(before[x], after[x])
               /\ \E i \in DOMAIN before[x].children :
                     /\ before[x].children[i] \in set
                     /\ \A j \in 1..(i - 1) :
                           SubtreeEq(before, after, before[x].children[j])
  BY DEF WalkDiverges
<1>2. set \subseteq Address
  BY DEF IsDocument, IsMap
<1> DEFINE good == {k \in Nat : k <= n => \A x \in set : Fails(f[k][x])}
<1>3. 0 \in good
  BY <1>2 DEF Calls, Fails
<1>4. ASSUME NEW k \in Nat, k \in good PROVE k + 1 \in good
  <2> SUFFICES ASSUME k + 1 <= n, NEW x \in set PROVE Fails(f[k + 1][x])
    OBVIOUS
  <2>1. k \in 0..(n - 1) /\ \A y \in set : Fails(f[k][y])
    BY <1>4
  <2>2. PICK i \in DOMAIN before[x].children :
           /\ before[x].children[i] \in set
           /\ \A j \in 1..(i - 1) :
                 SubtreeEq(before, after, before[x].children[j])
    BY <1>1
  <2>3. /\ f[k][before[x].children[i]] # "equal"
        /\ f[k][before[x].children[i]] # "differs"
    BY <2>1, <2>2 DEF Fails
  <2> QED
    BY <1>1, <2>1, <2>2, <2>3, FailureSpreads
<1> HIDE DEF good
<1>5. Nat \subseteq good
  BY <1>3, <1>4, NaturalsReached
<1> QED
  BY <1>1, <1>5 DEF good

LEMMA ForeignFails ==
    ASSUME NEW before, NEW after, IsDocument(before), IsDocument(after),
           NEW n \in Nat, n # 0, NEW f, Calls(f, before, after, n),
           WalkReadsForeign(before, after)
    PROVE  \E x \in DOMAIN before : Fails(f[n][x])
<1>1. PICK x \in DOMAIN before \cap DOMAIN after :
         /\ OwnEq(before[x], after[x])
         /\ \E i \in DOMAIN before[x].children :
               /\ before[x].children[i] \in Foreign
               /\ \A j \in 1..(i - 1) :
                     SubtreeEq(before, after, before[x].children[j])
  BY DEF WalkReadsForeign
<1>2. PICK i \in DOMAIN before[x].children :
         /\ before[x].children[i] \in Foreign
         /\ \A j \in 1..(i - 1) :
               SubtreeEq(before, after, before[x].children[j])
  BY <1>1
<1>3. PICK y : y = before[x].children[i]
  OBVIOUS
<1>4. y \in Address /\ y \in Foreign
  BY <1>2, <1>3, CompositionAssumption
<1>5. n - 1 \in 0..(n - 1) /\ (n - 1) + 1 = n
  OBVIOUS
<1>6. f[n - 1][y] # "equal" /\ f[n - 1][y] # "differs"
  <2>1. CASE n - 1 = 0
    BY <1>4, <2>1 DEF Calls
  <2>2. CASE n - 1 # 0
    <3>1. PICK k \in 0..(n - 1) : k = n - 2
      BY <2>2
    <3>2. PICK told : told = f[k]
      OBVIOUS
    <3>3. told \in [Address -> Told]
      <4>1. k \in 0..n
        OBVIOUS
      <4> QED
        BY <3>2, <4>1, CallsKeep
    <3>4. f[n - 1] = Answers(before, after, told)
      <4>1. k + 1 = n - 1
        BY <3>1
      <4> QED
        BY <3>2, <4>1 DEF Calls
    <3> QED
      BY <1>4, <3>3, <3>4, AnswersFacts
  <2> QED
    BY <2>1, <2>2
<1> QED
  BY <1>1, <1>2, <1>3, <1>5, <1>6, FailureSpreads

\* An answer stays with any more room.
LEMMA CallsStay ==
    ASSUME NEW before, NEW after, IsDocument(before), IsDocument(after),
           NEW n \in Nat, NEW f, Calls(f, before, after, n),
           NEW k \in 0..n, NEW x \in Address, f[k][x] # "overflow"
    PROVE  f[n][x] = f[k][x]
<1> DEFINE good == {d \in Nat : k + d <= n => f[k + d][x] = f[k][x]}
<1>1. 0 \in good
  OBVIOUS
<1>2. ASSUME NEW d \in Nat, d \in good PROVE d + 1 \in good
  <2> SUFFICES ASSUME k + (d + 1) <= n PROVE f[k + (d + 1)][x] = f[k][x]
    OBVIOUS
  <2>1. f[k + d][x] = f[k][x] /\ k + d \in 0..(n - 1) /\ k + (d + 1) = (k + d) + 1
    BY <1>2
  <2> QED
    BY <2>1, CallsKeep
<1> HIDE DEF good
<1>3. n - k \in good
  BY <1>1, <1>2, NaturalsReached
<1> QED
  BY <1>3 DEF good

\* A walk that panics from an address of this domain comes to a record with a
\* foreign child behind equal ones.
LEMMA PanicReadsForeign ==
    ASSUME NEW before, NEW after, IsDocument(before), IsDocument(after),
           NEW n \in Nat, NEW f, Calls(f, before, after, n),
           f[n] = Answers(before, after, f[n]),
           NEW start \in Address \ Foreign, f[n][start] = "panic"
    PROVE  WalkReadsForeign(before, after)
<1> DEFINE Panics(k) == \E x \in Address \ Foreign : f[k][x] = "panic"
           good == {k \in Nat : k <= n /\ Panics(k) => WalkReadsForeign(before, after)}
<1>1. 0 \in good
  BY DEF Calls
<1>2. ASSUME NEW k \in Nat, k \in good PROVE k + 1 \in good
  <2> SUFFICES ASSUME k + 1 <= n, NEW x \in Address \ Foreign,
                      f[k + 1][x] = "panic"
               PROVE  WalkReadsForeign(before, after)
    OBVIOUS
  <2> DEFINE c == before[x].children
  <2>1. PICK told : told = f[k]
    OBVIOUS
  <2>2. k \in 0..(n - 1) /\ k \in 0..n
    OBVIOUS
  <2>3. told \in [Address -> Told] /\ f[k + 1] = Answers(before, after, told)
    BY <2>1, <2>2, CallsKeep DEF Calls
  <2>4. Agrees(before, after, x)
    BY <2>3, AnswersFacts
  <2>5. /\ x \in DOMAIN before /\ x \in DOMAIN after
        /\ \E i \in DOMAIN c : Stops(before, told, x, i) /\ told[c[i]] = "panic"
    BY <2>3, <2>4, AnswersFacts
  <2>6. PICK i \in DOMAIN c : Stops(before, told, x, i) /\ told[c[i]] = "panic"
    BY <2>5
  <2>7. c \in Seq(Address)
    BY <2>5, NodeAssumption DEF IsDocument, IsMap
  <2>8. c[i] \in Address /\ \A j \in 1..(i - 1) : c[j] \in Address
    BY <2>7
  <2>9. CASE c[i] \notin Foreign
    BY <1>2, <2>1, <2>2, <2>6, <2>8, <2>9
  <2>10. CASE c[i] \in Foreign
    <3>1. ASSUME NEW j \in 1..(i - 1) PROVE SubtreeEq(before, after, c[j])
      <4>1. f[k][c[j]] = "equal"
        BY <2>1, <2>6 DEF Stops
      <4>2. f[n][c[j]] = "equal"
        BY <2>2, <2>8, <4>1, CallsStay
      <4>3. f[n] \in [Address -> Told]
        BY CallsKeep
      <4> QED
        BY <2>8, <4>2, <4>3, EqualIsSubtreeEq
    <3>2. OwnEq(before[x], after[x])
      BY <2>4, <2>5 DEF Agrees
    <3> QED
      BY <2>5, <2>10, <3>1, <3>2 DEF WalkReadsForeign
  <2> QED
    BY <2>9, <2>10
<1> HIDE DEF good
<1>3. n \in good
  BY <1>1, <1>2, NaturalsReached
<1> QED
  BY <1>3 DEF good

\* The walk of the source on two documents of which the older holds no foreign
\* record: it answers what the closed sets say wherever it answers, and it runs
\* out of room or panics only where they say, and somewhere if they say.
WalkIsExact(before, after) ==
    LET starts == (DOMAIN before \cup DOMAIN after) \ Foreign
        answer == Walk(before, after)
        Some(failure) == \E x \in starts : answer[x] = failure
    IN  /\ Some("overflow") => WalkDiverges(before, after)
        /\ Some("panic") => WalkReadsForeign(before, after)
        /\ WalkDiverges(before, after) \/ WalkReadsForeign(before, after)
              => Some("overflow") \/ Some("panic")
        /\ \A x \in starts :
              answer[x] \in {"equal", "differs"} =>
                (SubtreeEq(before, after, x) <=> answer[x] = "equal")

LEMMA WalkExact ==
    ASSUME NEW before, NEW after, IsDocument(before), IsDocument(after),
           DOMAIN before \cap Foreign = {}
    PROVE  WalkIsExact(before, after)
<1>1. PICK answer : answer = Walk(before, after)
  OBVIOUS
<1>2. answer \in [Address -> Told] /\ answer = Answers(before, after, answer)
  BY <1>1, WalkFixed
<1>3. PICK f, n : f = Walks(before, after) /\ n = Cardinality(Address) + 1
  OBVIOUS
<1>4. n \in Nat /\ n # 0 /\ Calls(f, before, after, n) /\ n \in 0..n
  BY <1>3, AddressAssumption, FS_CardinalityType, WalksStep
<1>5. answer = f[n]
  BY <1>1, <1>3 DEF Walk
<1>6. PICK starts : starts = (DOMAIN before \cup DOMAIN after) \ Foreign
  OBVIOUS
<1>7. starts \subseteq Address \ Foreign
  BY <1>6 DEF IsDocument, IsMap
<1>8. ASSUME WalkDiverges(before, after) \/ WalkReadsForeign(before, after)
      PROVE  \E x \in starts : answer[x] = "overflow" \/ answer[x] = "panic"
  <2>1. \E x \in DOMAIN before : Fails(f[n][x])
    BY <1>4, <1>8, DivergingFails, ForeignFails
  <2> QED
    BY <1>5, <1>6, <2>1 DEF Fails
<1>9. ASSUME NEW x \in starts, answer[x] = "overflow"
      PROVE  WalkDiverges(before, after)
  BY <1>2, <1>7, <1>9, OverflowingDiverges
<1>10. ASSUME NEW x \in starts, answer[x] = "panic"
       PROVE  WalkReadsForeign(before, after)
  BY <1>2, <1>4, <1>5, <1>7, <1>10, PanicReadsForeign
<1>11. ASSUME NEW x \in starts, answer[x] \in {"equal", "differs"}
       PROVE  SubtreeEq(before, after, x) <=> answer[x] = "equal"
  <2>1. answer[x] = "equal" => SubtreeEq(before, after, x)
    BY <1>2, <1>7, EqualIsSubtreeEq
  <2>2. SubtreeEq(before, after, x) => answer[x] # "differs"
    BY <1>4, <1>5, <1>7, EqualNeverDiffers
  <2> QED
    BY <1>11, <2>1, <2>2
<1> QED
  BY <1>1, <1>6, <1>8, <1>9, <1>10, <1>11 DEF WalkIsExact

-----------------------------------------------------------------------------
\* What a delta of one commit tells, by the unfoldings of its two documents.
TellsTheLaw(old, new, diffs) ==
    /\ \A x \in Address : x \in DOMAIN diffs <=> Whole(old)[x] # Whole(new)[x]
    /\ \A x \in DOMAIN diffs : \A p \in OwnParts :
          p \in diffs[x] <=>
            /\ x \in DOMAIN new
            /\ x \in DOMAIN old => Proj(old[x])[p] # Proj(new[x])[p]
    /\ \A x \in DOMAIN diffs :
          "Descendant" \in diffs[x] <=>
            /\ x \in DOMAIN new
            /\ \E y \in Children(old, x) \cup Children(new, x) :
                  Whole(old)[y] # Whole(new)[y]

LEMMA DiffsTellTheLaw ==
    ASSUME NEW old, NEW new, IsDocument(old), IsDocument(new)
    PROVE  TellsTheLaw(old, new, DiffsBetween(old, new))
<1>1. PICK diffs : diffs = DiffsBetween(old, new)
  OBVIOUS
<1>2. \A x \in Address : Whole(old)[x] # Whole(new)[x] <=> ~ SubtreeEq(old, new, x)
  BY WholeIsSubtree
<1>3. /\ DOMAIN diffs = {y \in DOMAIN old \cup DOMAIN new : ~ SubtreeEq(old, new, y)}
      /\ \A x \in DOMAIN diffs : diffs[x] = PartsOf(old, new, x)
  BY <1>1, NamedAddresses
<1>4. DOMAIN old \subseteq Address /\ DOMAIN new \subseteq Address
  BY DEF IsDocument, IsMap
<1>5. \A x \in Address : ~ SubtreeEq(old, new, x) => x \in DOMAIN old \cup DOMAIN new
  <2> SUFFICES ASSUME NEW x \in Address, x \notin DOMAIN old \cup DOMAIN new
               PROVE  SubtreeEq(old, new, x)
    OBVIOUS
  <2>1. x \notin DOMAIN DiffsBetween(old, new)
    BY NamedAddresses
  <2> QED
    BY <2>1, UnnamedSubtree
<1>6. \A x \in Address : x \in DOMAIN diffs <=> Whole(old)[x] # Whole(new)[x]
  BY <1>2, <1>3, <1>5
<1>7. ASSUME NEW x \in DOMAIN diffs, NEW p \in OwnParts
      PROVE  p \in diffs[x] <=>
                /\ x \in DOMAIN new
                /\ x \in DOMAIN old => Proj(old[x])[p] # Proj(new[x])[p]
  <2>1. p # "Descendant"
    BY DEF OwnParts
  <2>2. p \in PartsOf(old, new, x) <=>
           /\ x \in DOMAIN new
           /\ x \in DOMAIN old => ~ PartEq(old[x], new[x], p)
    BY <2>1 DEF PartsOf
  <2>3. PartEq(old[x], new[x], p) <=> Proj(old[x])[p] = Proj(new[x])[p]
    BY Zenon DEF PartEq
  <2> QED
    BY <1>3, <2>2, <2>3
<1>8. ASSUME NEW x \in DOMAIN diffs
      PROVE  "Descendant" \in diffs[x] <=>
                /\ x \in DOMAIN new
                /\ \E y \in Children(old, x) \cup Children(new, x) :
                      Whole(old)[y] # Whole(new)[y]
  <2>1. Children(old, x) \cup Children(new, x) \subseteq Address
    BY ChildrenAreAddresses
  <2>2. "Descendant" \notin OwnParts
    BY DEF OwnParts
  <2>3. DescendantDiffers(old, new, x) <=>
          \E y \in Children(old, x) \cup Children(new, x) :
             Whole(old)[y] # Whole(new)[y]
    BY <1>2, <2>1 DEF DescendantDiffers
  <2> QED
    BY <1>3, <2>2, <2>3 DEF PartsOf
<1> QED
  BY <1>1, <1>6, <1>7, <1>8 DEF TellsTheLaw

\* A recorded commit tells the differences of its two documents.
LEMMA CommitTells ==
    ASSUME StoreOK, LineageOK, NEW k \in DOMAIN commits
    PROVE  /\ IsDocument(DocOf(commits[k].base))
           /\ IsDocument(DocOf(commits[k].result))
           /\ commits[k].delta.diffs
                = DiffsBetween(DocOf(commits[k].base), DocOf(commits[k].result))
<1>1. PICK c : c = commits[k]
  OBVIOUS
<1>2. c.base \in DOMAIN published /\ c.result \in DOMAIN published
  BY <1>1 DEF StoreOK, IsCommit
<1>3. IsDocument(DocOf(c.base)) /\ IsDocument(DocOf(c.result))
  BY <1>2, SnapshotFacts
<1>4. CASE c.result # c.base
  BY <1>1, <1>3, <1>4 DEF LineageOK, Follows
<1>5. CASE c.result = c.base
  BY <1>1, <1>3, <1>5, NoDiffsWithItself DEF LineageOK
<1> QED
  BY <1>1, <1>3, <1>4, <1>5

LEMMA LineageMembers ==
    ASSUME StoreOK, LineageOK
    PROVE  MembershipLaw
<1>1. \A k \in DOMAIN commits :
         TellsTheLaw(DocOf(commits[k].base), DocOf(commits[k].result),
                     commits[k].delta.diffs)
  BY CommitTells, DiffsTellTheLaw
<1> QED
  BY Zenon, <1>1 DEF MembershipLaw, TellsTheLaw

\* Whatever a builder holds, the recursive walk on it is what the closed sets
\* say.
LEMMA BuildersWalk ==
    ASSUME StoreOK
    PROVE  SubtreeEqIsTheWalk
<1>1. ASSUME NEW b \in DOMAIN builders
      PROVE  WalkIsExact(Before(b), After(b))
  <2>1. IsDocument(Before(b)) /\ IsDocument(After(b))
    BY BuilderFacts, SnapshotFacts DEF Before
  <2>2. DOMAIN Before(b) \cap Foreign = {}
    <3>1. builders[b].base \in DOMAIN published
      BY BuilderFacts
    <3>2. IsMap(published[builders[b].base].records, Address \ Foreign, DOMAIN heap)
      BY <3>1 DEF StoreOK, IsSnapshot, Points
    <3> QED
      BY <3>2 DEF Before, DocOf, Resolve, IsMap
  <2> QED
    BY <2>1, <2>2, WalkExact
<1> QED
  BY Zenon, <1>1 DEF SubtreeEqIsTheWalk, WalkIsExact

-----------------------------------------------------------------------------
\* A commit that returns has read no foreign address, so it tells a difference
\* below every record that has a foreign child.
LEMMA ReturnedForeign ==
    ASSUME NEW before, NEW after, IsDocument(before),
           ~ ReadsForeign(before, after),
           NEW x \in DOMAIN after, Children(after, x) \cap Foreign # {}
    PROVE  /\ x \in DOMAIN DiffsBetween(before, after)
           /\ "Descendant" \in DiffsBetween(before, after)[x]
<1>1. ~ SubtreeEq(before, after, x)
  <2> SUFFICES ASSUME SubtreeEq(before, after, x) PROVE FALSE
    OBVIOUS
  <2>1. x \in DOMAIN before \cap DOMAIN after /\ OwnEq(before[x], after[x])
    BY SubtreeEqAgrees DEF Agrees
  <2>2. Children(before, x) = Children(after, x)
    BY SubtreeEqAgrees, AgreeingChildren
  <2>3. Children(before, x) = {before[x].children[i] : i \in DOMAIN before[x].children}
    BY <2>1, Zenon DEF Children, Range
  <2>4. PICK i \in DOMAIN before[x].children : before[x].children[i] \in Foreign
    BY <2>2, <2>3
  <2>5. \A j \in 1..(i - 1) : SubtreeEq(before, after, before[x].children[j])
    <3>1. \A j \in 1..(i - 1) : j \in DOMAIN before[x].children
      <4>1. before[x].children \in Seq(Address)
        BY <2>1, NodeAssumption DEF IsDocument, IsMap
      <4> QED
        BY <4>1
    <3> QED
      BY <2>3, <3>1, SubtreeEqBelow
  <2> QED
    BY <2>1, <2>4, <2>5 DEF ReadsForeign, WalkReadsForeign
<1>2. PICK y \in Children(before, x) \cup Children(after, x) : y \in Foreign
  OBVIOUS
<1>3. PICK c \in Children(before, x) \cup Children(after, x) :
         ~ SubtreeEq(before, after, c)
  BY <1>1, <1>2 DEF ReadsForeign, SearchReadsForeign
<1>4. DescendantDiffers(before, after, x)
  BY <1>3 DEF DescendantDiffers
<1>5. /\ x \in DOMAIN DiffsBetween(before, after)
      /\ DiffsBetween(before, after)[x] = PartsOf(before, after, x)
  BY <1>1, NamedAddresses
<1> QED
  BY <1>4, <1>5 DEF PartsOf

\* A commit says so of its result.
SaysForeign(c, doc) ==
    \A x \in DOMAIN doc :
        Children(doc, x) \cap Foreign # {} =>
          /\ x \in DOMAIN c.delta.diffs
          /\ "Descendant" \in c.delta.diffs[x]

LEMMA StepForeign ==
    ASSUME StoreOK, LineageOK, ForeignChildrenAreNamed, Next
    PROVE  ForeignChildrenAreNamed'
<1>0. PICK last : last = Len(commits) + 1
  OBVIOUS
<1> DEFINE DocNext(i) == [x \in DOMAIN published'[i].records |->
                            heap'[published'[i].records[x]]]
           Says(k) == SaysForeign(commits'[k], DocNext(commits'[k].result))
<1> SUFFICES \A k \in DOMAIN commits' : Says(k)
  BY DEF ForeignChildrenAreNamed, SaysForeign, DocOf, Resolve
<1>1. ASSUME NEW k \in DOMAIN commits, commits'[k] = commits[k]
      PROVE  Says(k)
  <2>1. PICK c : c = commits[k]
    OBVIOUS
  <2>2. DocNext(c.result) = DocOf(c.result)
    <3>1. c.result \in DOMAIN published
      BY <2>1 DEF StoreOK, IsCommit
    <3>2. DocNext(c.result) = DocOf(c.result)'
      BY DEF DocOf, Resolve
    <3> QED
      BY <3>1, <3>2, StepRetains
  <2>3. SaysForeign(c, DocOf(c.result))
    BY <2>1 DEF ForeignChildrenAreNamed, SaysForeign
  <2> QED
    BY <1>1, <2>1, <2>2, <2>3
<1>2. CASE Quiet
  BY <1>1, <1>2 DEF Quiet
<1>3. ASSUME NEW b, Committing(b),
             NEW x \in DOMAIN After(b), Children(After(b), x) \cap Foreign # {}
      PROVE  x \in DOMAIN Diffs(b) /\ "Descendant" \in Diffs(b)[x]
  <2>1. IsDocument(Before(b)) /\ ~ ReadsForeign(Before(b), After(b))
    BY <1>3, CommittingFacts DEF Committing, CommitTraps
  <2> QED
    BY <1>3, <2>1, ReturnedForeign DEF Diffs
<1>4. ASSUME NEW b, CommitNoOp(b)
      PROVE  \A k \in DOMAIN commits' : Says(k)
  <2>1. /\ DOMAIN commits' = DOMAIN commits \cup {last}
        /\ \A k \in DOMAIN commits : commits'[k] = commits[k]
        /\ commits'[last].result = builders[b].base
    BY <1>0, <1>4, NoOpStore DEF Continues
  <2>2. Committing(b) /\ Diffs(b) = NoDiffs
    BY <1>4 DEF CommitNoOp, NothingChanged
  <2>3. /\ builders[b].base \in DOMAIN published
        /\ IsDocument(Before(b)) /\ IsDocument(After(b))
    BY <2>2, CommittingFacts
  <2>4. DocNext(builders[b].base) = Before(b)
    <3>1. /\ heap' = heap /\ published' = published
      BY <1>4 DEF CommitNoOp, Return
    <3> QED
      BY <3>1 DEF Before, DocOf, Resolve
  <2>5. ASSUME NEW x \in DOMAIN Before(b), Children(Before(b), x) \cap Foreign # {}
        PROVE  FALSE
    <3>1. x \in DOMAIN After(b) /\ OwnEq(Before(b)[x], After(b)[x])
      BY <2>2, <2>3, NoDiffsAgree DEF Diffs
    <3>2. Agrees(Before(b), After(b), x)
      BY <3>1 DEF Agrees
    <3>3. Children(After(b), x) \cap Foreign # {}
      BY <2>5, <3>2, AgreeingChildren
    <3> QED
      BY <1>3, <2>2, <3>1, <3>3 DEF NoDiffs
  <2>6. SaysForeign(commits'[last], Before(b))
    BY <2>5 DEF SaysForeign
  <2> QED
    BY <1>1, <2>1, <2>4, <2>6
<1>5. ASSUME NEW b, CommitPublishes(b)
      PROVE  \A k \in DOMAIN commits' : Says(k)
  <2>1. /\ DOMAIN commits' = DOMAIN commits \cup {last}
        /\ \A k \in DOMAIN commits : commits'[k] = commits[k]
        /\ commits'[last].delta.diffs = Diffs(b)
    BY <1>0, <1>5, PublishesStore DEF Continues
  <2>2. DocNext(commits'[last].result) = After(b)
    <3>1. /\ commits'[last].result = Len(published) + 1
          /\ published'[Len(published) + 1].records = builders[b].records
      BY <1>0, <1>5, PublishesStore
    <3>2. heap' = heap
      BY <1>5 DEF CommitPublishes, Return
    <3> QED
      BY <3>1, <3>2 DEF After, Resolve
  <2>3. SaysForeign(commits'[last], After(b))
    BY <1>3, <1>5, <2>1 DEF SaysForeign, CommitPublishes
  <2> QED
    BY <1>1, <2>1, <2>2, <2>3
<1> QED
  BY <1>2, <1>4, <1>5, StepKinds

-----------------------------------------------------------------------------
Inv ==
    /\ StoreOK
    /\ RootsOK
    /\ RevisionMeansDifference
    /\ OverflowNeedsPublishedLoop
    /\ LineageOK
    /\ ForeignChildrenAreNamed

LEMMA Invariance == Spec => []Inv
<1>1. Init => Inv
  <2>1. Init => DOMAIN commits = {} /\ crashed = FALSE
    BY DEF Init
  <2> QED
    BY <2>1, InitStore, InitRoots, InitLineage
       DEF Inv, RevisionMeansDifference, OverflowNeedsPublishedLoop,
           ForeignChildrenAreNamed
<1>2. Inv /\ [Next]_vars => Inv'
  <2>1. ASSUME Inv, Next PROVE Inv'
    BY <2>1, StepStore, StepRoots, StepRevision, StepOverflow, StepLineage,
       StepForeign
       DEF Inv
  <2>2. ASSUME Inv, UNCHANGED vars PROVE Inv'
    <3>1. StoreOK'
      BY <2>2, StepStore DEF Inv
    <3>2. RootsOK' /\ LineageOK'
      BY <2>2 DEF Inv, vars, RootsOK, LineageOK, Follows, DocOf, Resolve
    <3> QED
      BY <2>2, <3>1, <3>2
         DEF Inv, vars, RevisionMeansDifference, OverflowNeedsPublishedLoop,
             ForeignChildrenAreNamed, DocOf, Resolve
  <2> QED
    BY <2>1, <2>2
<1> QED
  BY <1>1, <1>2, PTL DEF Spec

\* No record map dangles, no index names what was never published, no record is
\* published under a foreign address and no revision goes past the limit (get,
\* next_revision, snapshot.rs).  Roots, boxes and children may name anything.
THEOREM TypeCorrect == Spec => []TypeOK
<1>1. Inv => TypeOK
  BY DEF Inv, TypeOK
<1> QED
  BY <1>1, Invariance, PTL

\* A published snapshot stays readable and equal to what it was, whatever later
\* builders do with the records they share with it (snapshot.rs, Snapshot).
THEOREM RetainedSafe == Spec => RetainedUnchanged
<1>1. ASSUME Inv, [Next]_vars
      PROVE  [\A i \in DOMAIN published :
                /\ i \in DOMAIN published'
                /\ published'[i] = published[i]
                /\ DocOf(i)' = DocOf(i)]_vars
  BY <1>1, StepRetains DEF Inv
<1> QED
  BY <1>1, Invariance, PTL DEF Spec, RetainedUnchanged

\* A commit that publishes differs from its base in value, not just in
\* allocations (SnapshotBuilder::commit, snapshot.rs).
THEOREM RevisionSafe == Spec => []RevisionMeansDifference
<1>1. Inv => RevisionMeansDifference
  BY DEF Inv
<1> QED
  BY <1>1, Invariance, PTL

\* What the parts compare is every field, but for the roles of the resources.
LEMMA OwnEqFields ==
    ASSUME NEW m, NEW n, OwnEq(m, n)
    PROVE  SameButRoles(m, n)
<1>1. \A p \in OwnParts : Proj(m)[p] = Proj(n)[p]
  BY DEF OwnEq
<1>2. /\ m.children = n.children /\ m.text = n.text /\ m.text_map = n.text_map
      /\ m.intrinsic = n.intrinsic /\ m.lines = n.lines
      /\ m.fragments = n.fragments /\ m.interaction = n.interaction
      /\ m.source_link = n.source_link /\ m.valid = n.valid
  BY <1>1 DEF Proj, OwnParts
<1>3. /\ m.font = n.font
      /\ ResourcesFor(m, "Shaping") = ResourcesFor(n, "Shaping")
  BY <1>1 DEF Proj, OwnParts
<1>4. /\ m.paint = n.paint
      /\ ResourcesFor(m, "Paint") = ResourcesFor(n, "Paint")
  BY <1>1 DEF Proj, OwnParts
<1>5. \A field \in Fields \ {"resources"} : m[field] = n[field]
  BY <1>2, <1>3, <1>4 DEF Fields
<1> QED
  BY <1>3, <1>4, <1>5 DEF SameButRoles

\* A commit that gives back its base loses no record, no box, and of a record no
\* field but the roles of its resources (the no-op test of
\* SnapshotBuilder::commit, snapshot.rs; part_eq, node.rs).
THEOREM NoOpSafe == Spec => NoOpLosesNothing
<1>1. ASSUME Inv, Next,
             NEW b \in DOMAIN builders,
             b \notin DOMAIN builders', commits' # commits, published' = published
      PROVE  /\ DOMAIN After(b) = DOMAIN Before(b)
             /\ \A x \in DOMAIN After(b) : SameButRoles(Before(b)[x], After(b)[x])
             /\ builders[b].placement = published[builders[b].base].placement
  <2>1. StoreOK
    BY <1>1 DEF Inv
  <2>2. ASSUME NEW c, CommitPublishes(c) PROVE FALSE
    <3>1. PICK new : published' = Append(published, new)
      BY <2>2 DEF CommitPublishes
    <3>2. /\ DOMAIN published' = DOMAIN published \cup {Len(published) + 1}
          /\ Len(published) \in Nat /\ DOMAIN published = 1..Len(published)
      BY <2>1, <3>1, AppendContinues DEF StoreOK
    <3>3. published' = published
      BY <1>1
    <3>4. Len(published) + 1 \in 1..Len(published)
      BY <3>2, <3>3
    <3> QED
      BY <3>2, <3>4
  <2>3. PICK c : CommitNoOp(c)
    BY <1>1, <2>1, <2>2, StepKinds DEF Quiet
  <2>4. builders' = Without(builders, c)
    BY <2>3 DEF CommitNoOp, Return
  <2>5. c = b
    BY <1>1, <2>4 DEF Without, Restrict
  <2>6. NothingChanged(b) /\ Committing(b)
    BY <2>3, <2>5 DEF CommitNoOp
  <2>7. IsDocument(Before(b)) /\ IsDocument(After(b))
    BY <2>1, <2>6, CommittingFacts
  <2>8. /\ DOMAIN After(b) = DOMAIN Before(b)
        /\ \A x \in DOMAIN After(b) : OwnEq(Before(b)[x], After(b)[x])
        /\ builders[b].placement = published[builders[b].base].placement
    BY <2>6, <2>7, NoDiffsAgree DEF NothingChanged, Diffs
  <2>9. \A x \in DOMAIN After(b) : SameButRoles(Before(b)[x], After(b)[x])
    BY <2>8, OwnEqFields
  <2> QED
    BY <2>8, <2>9
<1>2. ASSUME Inv, [Next]_vars
      PROVE  [\A b \in DOMAIN builders :
                (b \notin DOMAIN builders' /\ commits' # commits
                   /\ published' = published)
                => /\ DOMAIN After(b) = DOMAIN Before(b)
                   /\ \A x \in DOMAIN After(b) :
                         SameButRoles(Before(b)[x], After(b)[x])
                   /\ builders[b].placement =
                        published[builders[b].base].placement]_vars
  BY <1>1, <1>2
<1> QED
  BY <1>2, Invariance, PTL DEF Spec, NoOpLosesNothing

\* The recursive walk of subtree_eq (delta.rs) overflows the stack only on a
\* loop that was already published: never on one of the candidate alone.
THEOREM OverflowSafe == Spec => []OverflowNeedsPublishedLoop
<1>1. Inv => OverflowNeedsPublishedLoop
  BY DEF Inv
<1> QED
  BY <1>1, Invariance, PTL

\* Within one lineage a delta applies to the snapshot it was computed from and
\* to no other: revisions fall along the parents (Delta::before, delta.rs).
THEOREM AppliesSafe == Spec => []AppliesToItsBaseAlone
<1>1. Inv => AppliesToItsBaseAlone
  BY LineageApplies DEF Inv
<1> QED
  BY <1>1, Invariance, PTL

\* A record with a foreign child is published only by a commit that tells a
\* change below it: no commit that leaves what is below it alone returns, so
\* once published it stands in the way of the next one (get, snapshot.rs;
\* subtree_eq and descendant_differs, delta.rs).
THEOREM ForeignSafe == Spec => []ForeignChildrenAreNamed
<1>1. Inv => ForeignChildrenAreNamed
  BY DEF Inv
<1> QED
  BY <1>1, Invariance, PTL

\* What differs between a snapshot and one made from it, through any number of
\* commits, some delta on the way names: with every own part that differs, and
\* with Structure or Descendant where something below differs
\* (diffs_between, delta.rs; chunked application in tests/gates.rs).
THEOREM ComposeSafe == Spec => []DeltasCompose
<1>1. Inv => DeltasCompose
  BY LineageTells DEF Inv
<1> QED
  BY <1>1, Invariance, PTL

\* Every delta of every commit names exactly the addresses whose unfolded
\* subtrees differ, with exactly the parts the law gives them (diffs_between,
\* delta.rs), for any number of addresses and any shape of document.
THEOREM MembershipSafe == Spec => []MembershipLaw
<1>1. Inv => MembershipLaw
  BY LineageMembers DEF Inv
<1> QED
  BY <1>1, Invariance, PTL

\* On every candidate a builder can hold, the recursive walk with its order, its
\* short circuits and its assertion answers what the closed sets say wherever it
\* answers; it runs out of stack only where a walk can stay for ever, panics only
\* where it comes to a foreign child, and where either can happen one of the two
\* does (subtree_eq, delta.rs; get, snapshot.rs).
THEOREM WalkSafe == Spec => []SubtreeEqIsTheWalk
<1>1. Inv => SubtreeEqIsTheWalk
  BY BuildersWalk DEF Inv
<1> QED
  BY <1>1, Invariance, PTL
=============================================================================
