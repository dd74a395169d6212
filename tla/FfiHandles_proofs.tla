------------------------- MODULE FfiHandles_proofs -------------------------
(***************************************************************************)
(* The memory behind the handles of the C boundary is sound, and the       *)
(* handles are the table they promise to be, for any number of records,    *)
(* snapshots and handles, every document and every order of the calls.     *)
(*                                                                         *)
(* Nothing dangles only because every count is right, and a count is right *)
(* only because nothing dangles, so the two are one invariant.  That a     *)
(* delta names the difference of its versions needs that a version names   *)
(* one document among all that are still open.                             *)
(***************************************************************************)
EXTENDS FfiHandles, Projection_proofs, FiniteSetTheorems

\* The snapshots somebody keeps.
Snapshots == {current} \cup {arcs[c].snapshot : c \in DOMAIN arcs}

\* The deltas somebody keeps.
Deltas == {delta} \cup {deltas[d] : d \in DOMAIN deltas}

DocIn(s) == Doc(s.map, records)

Open(c) == {h \in DOMAIN boxes : boxes[h] = c}

\* A borrowed pointer is what its handle shows at its address.
ViewOK ==
    view # None =>
        /\ view = [handle |-> view.handle, address |-> view.address,
                   record |-> view.record, field |-> view.field]
        /\ view.handle \in DOMAIN boxes
        /\ view.address \in DOMAIN Through(view.handle).map
        /\ view.record = Through(view.handle).map[view.address]

\* A version names one document, and none is later than the current one.
VersionsOK ==
    /\ \A s \in Snapshots : s.version <= current.version
    /\ \A s, t \in Snapshots : s.version = t.version => DocIn(s) = DocIn(t)

DeltasOK ==
    /\ \A e \in Deltas :
          /\ e.before \in Nat /\ e.before <= current.version
          /\ e.after \in Nat /\ e.after <= current.version
    /\ \A e \in Deltas, s, t \in Snapshots :
          e.before = s.version /\ e.after = t.version
          => e.diffs = DiffsBetween(DocIn(s), DocIn(t))

CountsOK == IsFiniteSet(DOMAIN boxes) /\ CountIsHandles

MemoryOK == TypeOK /\ CountsOK

IInv == MemoryOK /\ ViewOK /\ VersionsOK /\ DeltasOK

-----------------------------------------------------------------------------
LEMMA WithMap ==
    ASSUME NEW f, NEW keys, NEW values, IsMap(f, keys, values),
           NEW x \in keys, NEW v \in values
    PROVE  IsMap(With(f, x, v), keys, values)
  BY DEF IsMap, With

LEMMA WithoutMap ==
    ASSUME NEW f, NEW keys, NEW values, IsMap(f, keys, values), NEW x
    PROVE  IsMap(Without(f, x), keys, values)
  BY DEF IsMap, Without, Restrict

LEMMA WiderMap ==
    ASSUME NEW f, NEW keys, NEW values, IsMap(f, keys, values),
           NEW wider, values \subseteq wider
    PROVE  IsMap(f, keys, wider)
  BY DEF IsMap

\* A record map over allocated records stands for a document.
LEMMA DocIsDocument ==
    ASSUME NEW allocated, IsMap(allocated, Record, Node),
           NEW map, IsMap(map, Address, DOMAIN allocated)
    PROVE  IsDocument(Doc(map, allocated))
  BY DEF Doc, IsDocument, IsMap

\* What a record map stands for depends on the records it names alone.
LEMMA DocOfNamed ==
    ASSUME NEW one, NEW other, NEW map,
           \A x \in DOMAIN map : one[map[x]] = other[map[x]]
    PROVE  Doc(map, one) = Doc(map, other)
  BY DEF Doc

\* Freeing what nothing reaches leaves every snapshot that is kept whole.
LEMMA ReachedIsKept ==
    ASSUME NEW allocated, IsMap(allocated, Record, Node),
           NEW own, IsMap(own.map, Address, DOMAIN allocated),
           NEW cells,
           \A c \in DOMAIN cells :
              IsMap(cells[c].snapshot.map, Address, DOMAIN allocated),
           NEW kept, kept = Restrict(allocated, Reached(own, cells))
    PROVE  /\ IsMap(kept, Record, Node)
           /\ IsMap(own.map, Address, DOMAIN kept)
           /\ Doc(own.map, kept) = Doc(own.map, allocated)
           /\ \A c \in DOMAIN cells :
                 /\ IsMap(cells[c].snapshot.map, Address, DOMAIN kept)
                 /\ Doc(cells[c].snapshot.map, kept) =
                      Doc(cells[c].snapshot.map, allocated)
<1> DEFINE reached == Reached(own, cells)
<1>1. reached \subseteq DOMAIN allocated
  <2>1. Range(own.map) \subseteq DOMAIN allocated
    BY DEF IsMap, Range
  <2>2. ASSUME NEW c \in DOMAIN cells
        PROVE  Range(cells[c].snapshot.map) \subseteq DOMAIN allocated
    <3>1. IsMap(cells[c].snapshot.map, Address, DOMAIN allocated)
      OBVIOUS
    <3> QED
      BY <3>1 DEF IsMap, Range
  <2> QED
    BY <2>1, <2>2 DEF Reached
<1>2. DOMAIN kept = reached /\ \A r \in reached : kept[r] = allocated[r]
  BY DEF Restrict
<1>3. IsMap(kept, Record, Node)
  BY <1>1, <1>2 DEF IsMap, Restrict
<1>4. ASSUME NEW map, IsMap(map, Address, DOMAIN allocated),
             Range(map) \subseteq reached
      PROVE  /\ IsMap(map, Address, DOMAIN kept)
             /\ Doc(map, kept) = Doc(map, allocated)
  <2>1. \A x \in DOMAIN map : map[x] \in reached
    BY <1>4 DEF Range
  <2>2. IsMap(map, Address, DOMAIN kept)
    BY <2>1, <1>2, <1>4 DEF IsMap
  <2>3. Doc(map, kept) = Doc(map, allocated)
    BY <2>1, <1>2, DocOfNamed
  <2> QED
    BY <2>2, <2>3
<1>5. Range(own.map) \subseteq reached
  BY DEF Reached
<1>6. ASSUME NEW c \in DOMAIN cells
      PROVE  Range(cells[c].snapshot.map) \subseteq reached
  BY DEF Reached
<1> QED
  BY <1>3, <1>4, <1>5, <1>6

\* Nothing differs from itself.
LEMMA NoDifference ==
    ASSUME NEW doc, IsDocument(doc)
    PROVE  DiffsBetween(doc, doc) = NoDiffs
<1>1. \A x \in DOMAIN doc : SubtreeEq(doc, doc, x)
  BY SubtreeEqReflexive DEF IsDocument, IsMap
<1>2. DOMAIN DiffsBetween(doc, doc) = {}
  BY <1>1, NamedAddresses
<1> QED
  BY <1>1 DEF DiffsBetween, NoDiffs

-----------------------------------------------------------------------------
LEMMA SnapshotFacts ==
    ASSUME TypeOK
    PROVE  /\ IsMap(records, Record, Node)
           /\ current.version \in Nat
           /\ \A s \in Snapshots :
                 s.version \in Nat /\ IsMap(s.map, Address, DOMAIN records)
           /\ \A c \in DOMAIN arcs :
                 IsMap(arcs[c].snapshot.map, Address, DOMAIN records)
<1>1. ASSUME NEW s, IsSnapshot(s)
      PROVE  s.version \in Nat /\ IsMap(s.map, Address, DOMAIN records)
  BY <1>1, FfiAssumption DEF IsSnapshot
<1>2. \A s \in Snapshots : IsSnapshot(s)
  BY DEF TypeOK, Snapshots
<1>3. IsSnapshot(current) /\ \A c \in DOMAIN arcs : IsSnapshot(arcs[c].snapshot)
  BY DEF TypeOK
<1> QED
  BY <1>1, <1>2, <1>3 DEF TypeOK

\* Nothing is said of versions that fewer snapshots or deltas could break.
LEMMA FewerToCompare ==
    ASSUME VersionsOK, DeltasOK,
           current' = current, Snapshots' \subseteq Snapshots,
           Deltas' \subseteq Deltas,
           \A s \in Snapshots' : Doc(s.map, records') = Doc(s.map, records)
    PROVE  VersionsOK' /\ DeltasOK'
<1>1. \A s \in Snapshots' : s \in Snapshots /\ DocIn(s)' = DocIn(s)
  BY DEF DocIn
<1>2. VersionsOK'
  BY <1>1 DEF VersionsOK
<1>3. DeltasOK'
  BY <1>1 DEF DeltasOK
<1> QED
  BY <1>2, <1>3

\* A commit leaves what every counted snapshot shows as it was.
LEMMA CommitMemory ==
    ASSUME TypeOK, NEW allocated, IsMap(allocated, Record, Node),
           NEW map, IsMap(map, Address, DOMAIN allocated),
           \A r \in DOMAIN records :
              r \in DOMAIN allocated /\ allocated[r] = records[r],
           Commit(map, allocated)
    PROVE  /\ TypeOK'
           /\ \A c \in DOMAIN arcs :
                 Doc(arcs[c].snapshot.map, records')
                    = Doc(arcs[c].snapshot.map, records)
           /\ current' = current =>
                 Doc(current.map, records') = Doc(current.map, records)
           /\ current'.map = map =>
                 Doc(map, records') = Doc(map, allocated)
<1> USE SnapshotFacts
<1>1. DOMAIN records \subseteq DOMAIN allocated
  OBVIOUS
<1>2. \A c \in DOMAIN arcs :
         IsMap(arcs[c].snapshot.map, Address, DOMAIN allocated)
  BY <1>1, WiderMap
<1>3. current \in Snapshots
  BY DEF Snapshots
<1>4. IsMap(current.map, Address, DOMAIN records)
  BY <1>3
<1>5. \/ current' = current
      \/ /\ current' = [version |-> NextVersion(current.version), map |-> map]
         /\ current.version < MaxRevision
  BY DEF Commit
<1>6. IsMap(current'.map, Address, DOMAIN allocated)
  <2>1. IsMap(current.map, Address, DOMAIN allocated)
    BY <1>1, <1>4, WiderMap
  <2> QED
    BY <1>5, <2>1
<1>7. records' = Restrict(allocated, Reached(current', arcs)) /\ arcs' = arcs
  BY DEF Commit
<1>8. /\ IsMap(records', Record, Node)
      /\ IsMap(current'.map, Address, DOMAIN records')
      /\ Doc(current'.map, records') = Doc(current'.map, allocated)
      /\ \A c \in DOMAIN arcs :
            /\ IsMap(arcs[c].snapshot.map, Address, DOMAIN records')
            /\ Doc(arcs[c].snapshot.map, records') =
                 Doc(arcs[c].snapshot.map, allocated)
  BY <1>2, <1>6, <1>7, ReachedIsKept
<1>9. ASSUME NEW old, IsMap(old, Address, DOMAIN records)
      PROVE  Doc(old, allocated) = Doc(old, records)
  <2>1. \A x \in DOMAIN old : allocated[old[x]] = records[old[x]]
    BY <1>9 DEF IsMap
  <2> QED
    BY <2>1, DocOfNamed
<1>10. current'.version \in 1..MaxRevision
  BY <1>5, FfiAssumption DEF TypeOK, IsSnapshot, NextVersion
<1>11. IsSnapshot(current)'
  BY <1>5, <1>8, <1>10 DEF IsSnapshot, TypeOK
<1>12. \A c \in DOMAIN arcs : IsSnapshot(arcs[c].snapshot)'
  BY <1>7, <1>8 DEF IsSnapshot, TypeOK
<1>13. TypeOK'
  BY <1>7, <1>8, <1>11, <1>12 DEF TypeOK, Commit
<1> QED
  BY <1>4, <1>8, <1>9, <1>13

\* Versions and deltas after a commit.
LEMMA CommitVersions ==
    ASSUME TypeOK, VersionsOK, DeltasOK, NEW allocated, NEW map,
           IsMap(map, Address, DOMAIN allocated),
           IsMap(allocated, Record, Node), Commit(map, allocated),
           \A c \in DOMAIN arcs :
              Doc(arcs[c].snapshot.map, records')
                 = Doc(arcs[c].snapshot.map, records),
           current' = current =>
              Doc(current.map, records') = Doc(current.map, records),
           current'.map = map =>
              Doc(map, records') = Doc(map, allocated)
    PROVE  VersionsOK' /\ DeltasOK'
<1> DEFINE diffs == DiffsBetween(Doc(current.map, records), Doc(map, allocated))
<1>1. /\ delta' = [before |-> current.version, after |-> current'.version,
                   diffs |-> diffs]
      /\ arcs' = arcs /\ deltas' = deltas
  BY DEF Commit
<1>2. current \in Snapshots /\ \A c \in DOMAIN arcs : arcs[c].snapshot \in Snapshots
  BY DEF Snapshots
<1>3. current.version \in Nat /\ \A s \in Snapshots : s.version \in Nat
  BY SnapshotFacts
<1>4. \A e \in Deltas' : e = delta' \/ e \in Deltas
  BY <1>1 DEF Deltas
<1>5. ASSUME diffs = NoDiffs
      PROVE  VersionsOK' /\ DeltasOK'
  <2>1. current' = current
    BY <1>5 DEF Commit
  <2>2. \A s \in Snapshots' : s \in Snapshots /\ DocIn(s)' = DocIn(s)
    BY <1>1, <2>1 DEF Snapshots, DocIn
  <2>3. VersionsOK'
    BY <2>1, <2>2 DEF VersionsOK
  <2>4. ASSUME NEW s \in Snapshots', NEW t \in Snapshots',
               s.version = current.version, t.version = current.version
        PROVE  NoDiffs = DiffsBetween(DocIn(s)', DocIn(t)')
    <3>1. DocIn(s)' = DocIn(current) /\ DocIn(t)' = DocIn(current)
      BY <1>2, <2>2, <2>4 DEF VersionsOK
    <3>2. IsDocument(DocIn(current))
      BY <1>2, SnapshotFacts, DocIsDocument DEF DocIn
    <3> QED
      BY <3>1, <3>2, NoDifference
  <2>5. DeltasOK'
    BY <1>1, <1>3, <1>4, <1>5, <2>1, <2>2, <2>4 DEF DeltasOK
  <2> QED
    BY <2>3, <2>5
<1>6. ASSUME diffs # NoDiffs
      PROVE  VersionsOK' /\ DeltasOK'
  <2>1. current' = [version |-> current.version + 1, map |-> map]
    BY <1>6 DEF Commit, NextVersion
  <2>2. DocIn(current)' = Doc(map, allocated)
    BY <2>1 DEF DocIn
  <2>3. \A s \in Snapshots' :
           \/ s = current'
           \/ /\ s \in Snapshots /\ DocIn(s)' = DocIn(s)
              /\ s.version \in Nat /\ s.version <= current.version
    BY <1>1, <1>2, <1>3 DEF Snapshots, DocIn, VersionsOK
  <2>4. current'.version = current.version + 1
    BY <2>1
  <2>5. VersionsOK'
    <3>1. \A s \in Snapshots' : s.version <= current'.version
      BY <1>3, <2>3, <2>4
    <3>2. ASSUME NEW s \in Snapshots', NEW t \in Snapshots',
                 s.version = t.version
          PROVE  DocIn(s)' = DocIn(t)'
      <4>1. CASE s = current'
        BY <1>3, <2>3, <2>4, <3>2, <4>1
      <4>2. CASE t = current'
        BY <1>3, <2>3, <2>4, <3>2, <4>2
      <4>3. CASE s # current' /\ t # current'
        BY <2>3, <3>2, <4>3 DEF VersionsOK
      <4> QED
        BY <4>1, <4>2, <4>3
    <3> QED
      BY <3>1, <3>2 DEF VersionsOK
  <2>6. ASSUME NEW s \in Snapshots', NEW t \in Snapshots',
               s.version = current.version, t.version = current.version + 1
        PROVE  diffs = DiffsBetween(DocIn(s)', DocIn(t)')
    <3>1. t = current' /\ s # current'
      BY <1>3, <2>3, <2>4, <2>6
    <3>2. DocIn(s)' = Doc(current.map, records)
      BY <1>2, <2>3, <2>6, <3>1 DEF VersionsOK, DocIn
    <3>3. DocIn(t)' = Doc(map, allocated)
      BY <2>1, <3>1 DEF DocIn
    <3> QED
      BY <3>2, <3>3
  <2>7. ASSUME NEW e \in Deltas, NEW s \in Snapshots', NEW t \in Snapshots',
               e.before = s.version, e.after = t.version
        PROVE  e.diffs = DiffsBetween(DocIn(s)', DocIn(t)')
    <3>1. /\ e.before \in Nat /\ e.before <= current.version
          /\ e.after \in Nat /\ e.after <= current.version
      BY DEF DeltasOK
    <3>2. s # current' /\ t # current'
      BY <1>3, <2>4, <2>7, <3>1
    <3> QED
      BY <2>3, <2>7, <3>2 DEF DeltasOK
  <2>8. \A e \in Deltas' :
           /\ e.before \in Nat /\ e.before <= current'.version
           /\ e.after \in Nat /\ e.after <= current'.version
    BY <1>1, <1>3, <1>4, <2>4 DEF DeltasOK
  <2>9. ASSUME NEW s \in Snapshots', NEW t \in Snapshots',
               delta'.before = s.version, delta'.after = t.version
        PROVE  delta'.diffs = DiffsBetween(DocIn(s)', DocIn(t)')
    BY <1>1, <2>4, <2>6, <2>9
  <2>10. DeltasOK'
    BY <1>4, <2>7, <2>8, <2>9 DEF DeltasOK
  <2> QED
    BY <2>5, <2>10
<1> QED
  BY <1>5, <1>6

-----------------------------------------------------------------------------
LEMMA HandMemory ==
    ASSUME MemoryOK, NEW c \in Cell, NEW h \in Handle, Hand(c, h)
    PROVE  /\ MemoryOK'
           /\ DOMAIN boxes' = DOMAIN boxes \cup {h} /\ h \notin DOMAIN boxes
           /\ \A g \in DOMAIN boxes : Through(g)' = Through(g)
           /\ Through(h)' = current
<1> USE DEF MemoryOK
<1>1. /\ DOMAIN arcs' = DOMAIN arcs \cup {c} /\ c \notin DOMAIN arcs
      /\ arcs'[c] = [snapshot |-> current, strong |-> 1]
      /\ \A b \in DOMAIN arcs : arcs'[b] = arcs[b]
  BY DEF Hand, With
<1>2. /\ DOMAIN boxes' = DOMAIN boxes \cup {h} /\ h \notin DOMAIN boxes
      /\ boxes'[h] = c
      /\ \A g \in DOMAIN boxes : boxes'[g] = boxes[g]
  BY DEF Hand, With
<1>3. \A g \in DOMAIN boxes : boxes[g] \in DOMAIN arcs
  BY DEF TypeOK, IsMap
<1>4. IsMap(boxes', Handle, DOMAIN arcs')
  <2>1. IsMap(boxes, Handle, DOMAIN arcs')
    BY <1>1, WiderMap DEF TypeOK
  <2>2. boxes' = With(boxes, h, c) /\ c \in DOMAIN arcs'
    BY <1>1 DEF Hand
  <2> QED
    BY <2>1, <2>2, WithMap
<1>5. UNCHANGED <<current, delta, records, deltas>>
  BY DEF Hand
<1>6. \A s : IsSnapshot(s) => IsSnapshot(s)'
  BY <1>5 DEF IsSnapshot
<1>7. TypeOK'
  BY <1>1, <1>4, <1>5, <1>6 DEF TypeOK
<1>8. \A b \in DOMAIN arcs : Open(b)' = Open(b)
  BY <1>1, <1>2 DEF Open
<1>9. Open(c)' = {h}
  BY <1>1, <1>2, <1>3 DEF Open
<1>10. CountIsHandles'
  <2>1. \A b \in DOMAIN arcs :
           arcs[b].strong = Cardinality(Open(b)) /\ arcs[b].strong > 0
    BY DEF CountsOK, CountIsHandles, Open
  <2>2. Cardinality({h}) = 1
    BY FS_Singleton
  <2>3. \A b \in DOMAIN arcs' :
           arcs'[b].strong = Cardinality(Open(b)') /\ arcs'[b].strong > 0
    BY <1>1, <1>8, <1>9, <2>1, <2>2
  <2> QED
    BY <2>3 DEF CountIsHandles, Open
<1>11. CountsOK'
  BY <1>2, <1>10, FS_AddElement DEF CountsOK
<1> QED
  BY <1>1, <1>2, <1>3, <1>7, <1>11 DEF Through

LEMMA RetainMemory ==
    ASSUME MemoryOK, NEW g \in Handle, NEW h \in Handle, Retain(g, h)
    PROVE  /\ MemoryOK'
           /\ DOMAIN boxes' = DOMAIN boxes \cup {h}
           /\ h \notin DOMAIN boxes /\ g \in DOMAIN boxes
           /\ \A k \in DOMAIN boxes : Through(k)' = Through(k)
           /\ Through(h)' = Through(g)
           /\ Snapshots' = Snapshots
<1> USE DEF MemoryOK
<1> DEFINE c == boxes[g]
<1>1. g \in DOMAIN boxes /\ c \in DOMAIN arcs
  BY DEF Retain, TypeOK, IsMap
<1>2. /\ DOMAIN arcs' = DOMAIN arcs
      /\ \A b \in DOMAIN arcs : b # c => arcs'[b] = arcs[b]
  BY <1>1 DEF Retain
<1>3. arcs[c] = [snapshot |-> arcs[c].snapshot, strong |-> arcs[c].strong]
        /\ arcs[c].strong \in Nat /\ IsSnapshot(arcs[c].snapshot)
  BY <1>1 DEF TypeOK
<1>4. arcs'[c] = [arcs[c] EXCEPT !.strong = @ + 1]
  BY <1>1 DEF Retain
<1>5. arcs'[c] = [snapshot |-> arcs[c].snapshot, strong |-> arcs[c].strong + 1]
  BY <1>3, <1>4
<1>6. /\ DOMAIN boxes' = DOMAIN boxes \cup {h} /\ h \notin DOMAIN boxes
      /\ boxes'[h] = c
      /\ \A k \in DOMAIN boxes : boxes'[k] = boxes[k]
  BY DEF Retain, With
<1>7. IsMap(boxes', Handle, DOMAIN arcs')
  <2>1. boxes' = With(boxes, h, c)
    BY DEF Retain
  <2> QED
    BY <1>1, <1>2, <2>1, WithMap DEF TypeOK
<1>8. UNCHANGED <<current, delta, records, deltas>>
  BY DEF Retain
<1>9. \A s : IsSnapshot(s) => IsSnapshot(s)'
  BY <1>8 DEF IsSnapshot
<1>10. ASSUME NEW b \in DOMAIN arcs'
       PROVE  /\ arcs'[b] = [snapshot |-> arcs'[b].snapshot,
                             strong |-> arcs'[b].strong]
              /\ arcs'[b].snapshot = arcs[b].snapshot
              /\ IsSnapshot(arcs[b].snapshot)'
              /\ arcs'[b].strong \in Nat
  <2>1. CASE b = c
    <3>1. arcs'[b].snapshot = arcs[c].snapshot
            /\ arcs'[b].strong = arcs[c].strong + 1
      BY <1>5, <2>1
    <3> QED
      BY <1>3, <1>5, <1>9, <2>1, <3>1
  <2>2. CASE b # c
    BY <1>2, <1>9, <2>2 DEF TypeOK
  <2> QED
    BY <2>1, <2>2
<1>11. TypeOK'
  BY <1>2, <1>7, <1>8, <1>9, <1>10 DEF TypeOK
<1>12. \A b \in DOMAIN arcs :
          Open(b)' = IF b = c THEN Open(b) \cup {h} ELSE Open(b)
  BY <1>6 DEF Open
<1>13. \A b \in DOMAIN arcs :
          /\ arcs[b].strong = Cardinality(Open(b)) /\ arcs[b].strong > 0
          /\ IsFiniteSet(Open(b)) /\ h \notin Open(b)
  BY <1>6, FS_Subset DEF CountsOK, CountIsHandles, Open
<1>14. Cardinality(Open(c) \cup {h}) = Cardinality(Open(c)) + 1
  BY <1>1, <1>13, FS_AddElement
<1>15. ASSUME NEW b \in DOMAIN arcs'
       PROVE  arcs'[b].strong = Cardinality(Open(b)') /\ arcs'[b].strong > 0
  <2>1. CASE b = c
    <3>1. arcs'[b].strong = arcs[c].strong + 1
      BY <1>5, <2>1
    <3>2. Open(b)' = Open(c) \cup {h}
      BY <1>1, <1>12, <2>1
    <3> QED
      BY <1>1, <1>3, <1>13, <1>14, <3>1, <3>2
  <2>2. CASE b # c
    BY <1>2, <1>12, <1>13, <2>2
  <2> QED
    BY <2>1, <2>2
<1>16. CountIsHandles'
  BY <1>15 DEF CountIsHandles, Open
<1>17. CountsOK'
  BY <1>6, <1>16, FS_AddElement DEF CountsOK
<1>18. Snapshots' = Snapshots
  BY <1>2, <1>8, <1>10 DEF Snapshots
<1>19. \A k \in DOMAIN boxes : boxes[k] \in DOMAIN arcs
  BY DEF TypeOK, IsMap
<1>20. /\ \A k \in DOMAIN boxes : Through(k)' = Through(k)
       /\ Through(h)' = Through(g)
  BY <1>1, <1>2, <1>6, <1>10, <1>19 DEF Through
<1> QED
  BY <1>1, <1>6, <1>11, <1>17, <1>18, <1>20

LEMMA ReleaseMemory ==
    ASSUME MemoryOK, NEW h \in Handle, Release(h)
    PROVE  /\ MemoryOK'
           /\ h \in DOMAIN boxes /\ DOMAIN boxes' = DOMAIN boxes \ {h}
           /\ \A k \in DOMAIN boxes' : Through(k)' = Through(k)
           /\ Snapshots' \subseteq Snapshots
           /\ \A s \in Snapshots' : Doc(s.map, records') = Doc(s.map, records)
<1> USE DEF MemoryOK
<1> DEFINE c == boxes[h]
<1>1. h \in DOMAIN boxes /\ c \in DOMAIN arcs
  BY DEF Release, TypeOK, IsMap
<1>2. /\ DOMAIN boxes' = DOMAIN boxes \ {h}
      /\ \A k \in DOMAIN boxes' : boxes'[k] = boxes[k]
      /\ IsMap(boxes, Handle, DOMAIN arcs)
      /\ \A k \in DOMAIN boxes : boxes[k] \in DOMAIN arcs
  BY DEF Release, Without, Restrict, TypeOK, IsMap
<1>3. \A b \in DOMAIN arcs :
         /\ arcs[b] = [snapshot |-> arcs[b].snapshot, strong |-> arcs[b].strong]
         /\ arcs[b].strong \in Nat /\ IsSnapshot(arcs[b].snapshot)
  BY DEF TypeOK
<1>4. \A b \in DOMAIN arcs :
         /\ arcs[b].strong = Cardinality(Open(b)) /\ arcs[b].strong > 0
         /\ IsFiniteSet(Open(b))
  BY FS_Subset DEF CountsOK, CountIsHandles, Open
<1>5. \A b \in DOMAIN arcs :
         Open(b)' = IF b = c THEN Open(b) \ {h} ELSE Open(b)
  BY <1>1, <1>2 DEF Open
<1>6. /\ h \in Open(c)
      /\ IsFiniteSet(Open(c) \ {h})
      /\ Cardinality(Open(c) \ {h}) = arcs[c].strong - 1
  <2>1. h \in Open(c)
    BY <1>1 DEF Open
  <2> QED
    BY <1>1, <1>4, <2>1, FS_RemoveElement
\* The handle was the last of its snapshot exactly when the count was one.
<1>7. /\ DOMAIN arcs' = IF arcs[c].strong = 1 THEN DOMAIN arcs \ {c} ELSE DOMAIN arcs
      /\ \A b \in DOMAIN arcs' : b # c => arcs'[b] = arcs[b]
      /\ c \in DOMAIN arcs' =>
            /\ arcs[c].strong # 1
            /\ arcs'[c] = [snapshot |-> arcs[c].snapshot,
                           strong |-> arcs[c].strong - 1]
  <2>1. arcs' = Dropped(c)
    BY DEF Release
  <2>2. CASE arcs[c].strong = 1
    <3>1. arcs' = [b \in DOMAIN arcs \ {c} |-> arcs[b]]
      BY <2>1, <2>2 DEF Dropped, Without, Restrict
    <3> QED
      BY <2>2, <3>1
  <2>3. CASE arcs[c].strong # 1
    <3>1. arcs' = [arcs EXCEPT ![c].strong = @ - 1]
      BY <2>1, <2>3 DEF Dropped
    <3>2. arcs'[c] = [arcs[c] EXCEPT !.strong = @ - 1]
      BY <1>1, <3>1
    <3>3. arcs'[c] = [snapshot |-> arcs[c].snapshot,
                      strong |-> arcs[c].strong - 1]
      BY <1>1, <1>3, <3>2
    <3> QED
      BY <2>3, <3>1, <3>3
  <2> QED
    BY <2>2, <2>3
<1>8. /\ DOMAIN arcs' \subseteq DOMAIN arcs
      /\ \A b \in DOMAIN arcs' : arcs'[b].snapshot = arcs[b].snapshot
  BY <1>7
<1>9. ASSUME NEW k \in DOMAIN boxes'
      PROVE  boxes'[k] \in DOMAIN arcs'
  <2>1. CASE boxes[k] = c
    <3>1. k \in Open(c) \ {h}
      BY <1>2, <2>1 DEF Open
    <3>2. arcs[c].strong - 1 # 0
      BY <1>6, <3>1, FS_EmptySet
    <3>3. arcs[c].strong # 1
      BY <1>1, <1>3, <3>2
    <3> QED
      BY <1>1, <1>2, <1>7, <2>1, <3>3
  <2>2. CASE boxes[k] # c
    BY <1>2, <1>7, <2>2
  <2> QED
    BY <2>1, <2>2
<1>10. IsMap(boxes', Handle, DOMAIN arcs')
  <2>1. boxes' \in [DOMAIN boxes' -> {boxes'[k] : k \in DOMAIN boxes'}]
    BY DEF Release, Without, Restrict
  <2> QED
    BY <1>2, <1>9, <2>1 DEF IsMap
<1>11. /\ UNCHANGED <<current, delta, deltas>>
       /\ records' = Restrict(records, Reached(current, arcs'))
  BY DEF Release
<1>12. /\ IsMap(records, Record, Node)
       /\ IsMap(current.map, Address, DOMAIN records)
       /\ \A b \in DOMAIN arcs' :
             IsMap(arcs'[b].snapshot.map, Address, DOMAIN records)
  BY <1>8, SnapshotFacts DEF Snapshots
<1>13. /\ IsMap(records', Record, Node)
       /\ IsMap(current.map, Address, DOMAIN records')
       /\ Doc(current.map, records') = Doc(current.map, records)
       /\ \A b \in DOMAIN arcs' :
             /\ IsMap(arcs'[b].snapshot.map, Address, DOMAIN records')
             /\ Doc(arcs'[b].snapshot.map, records') =
                  Doc(arcs'[b].snapshot.map, records)
  BY <1>11, <1>12, ReachedIsKept
<1>14. ASSUME NEW s, IsSnapshot(s), IsMap(s.map, Address, DOMAIN records')
       PROVE  IsSnapshot(s)'
  BY <1>14 DEF IsSnapshot
<1>15. IsSnapshot(current)'
  <2>1. IsSnapshot(current)
    BY DEF TypeOK
  <2> QED
    BY <1>11, <1>13, <1>14, <2>1
<1>16. ASSUME NEW b \in DOMAIN arcs'
       PROVE  /\ arcs'[b] = [snapshot |-> arcs'[b].snapshot,
                             strong |-> arcs'[b].strong]
              /\ IsSnapshot(arcs[b].snapshot)'
              /\ arcs'[b].strong \in Nat /\ arcs'[b].strong > 0
              /\ arcs'[b].strong = Cardinality(Open(b)')
  <2>1. IsSnapshot(arcs[b].snapshot)'
    BY <1>3, <1>8, <1>13, <1>14
  <2>2. CASE b = c
    <3>1. arcs[c].strong \in Nat /\ arcs[c].strong > 0 /\ arcs[c].strong # 1
      BY <1>1, <1>3, <1>4, <1>7, <2>2
    <3>2. arcs'[b].strong = arcs[c].strong - 1
      BY <1>7, <2>2
    <3>3. Open(b)' = Open(c) \ {h}
      BY <1>1, <1>5, <2>2
    <3> QED
      BY <1>6, <1>7, <2>1, <2>2, <3>1, <3>2, <3>3
  <2>3. CASE b # c
    BY <1>3, <1>4, <1>5, <1>7, <1>8, <2>1, <2>3
  <2> QED
    BY <2>2, <2>3
<1>17. TypeOK'
  BY <1>8, <1>10, <1>11, <1>13, <1>15, <1>16 DEF TypeOK
<1>18. CountIsHandles'
  BY <1>16 DEF CountIsHandles, Open
<1>19. CountsOK'
  BY <1>2, <1>18, FS_RemoveElement DEF CountsOK
<1>20. Snapshots' \subseteq Snapshots
  BY <1>8, <1>11 DEF Snapshots
<1>21. \A s \in Snapshots' : Doc(s.map, records') = Doc(s.map, records)
  BY <1>11, <1>13 DEF Snapshots
<1>22. \A k \in DOMAIN boxes' : Through(k)' = Through(k)
  BY <1>2, <1>8, <1>9 DEF Through
<1> QED
  BY <1>1, <1>2, <1>17, <1>19, <1>20, <1>21, <1>22

-----------------------------------------------------------------------------
\* A borrowed pointer does not notice what happens to other handles.
LEMMA ViewKept ==
    ASSUME ViewOK, NEW gone, view' = HeldWithout(gone, view),
           \A k \in DOMAIN boxes \ {gone} :
              k \in DOMAIN boxes' /\ Through(k)' = Through(k)
    PROVE  ViewOK'
<1>1. CASE view' = None
  BY <1>1 DEF ViewOK
<1>2. CASE view' # None
  <2>1. view' = view /\ view.handle # gone
    BY <1>2 DEF HeldWithout
  <2>2. view.handle \in DOMAIN boxes' /\ Through(view.handle)' = Through(view.handle)
    BY <1>2, <2>1 DEF ViewOK
  <2> QED
    BY <1>2, <2>1, <2>2 DEF ViewOK
<1> QED
  BY <1>1, <1>2

\* What the commits of the producer are.
LEMMA CommitArguments ==
    ASSUME TypeOK,
           \/ \E w \in Writes, r \in Record : CommitPut(w[1], w[2], r)
           \/ \E x \in Address : CommitRemove(x)
    PROVE  \E map, allocated :
              /\ IsMap(allocated, Record, Node)
              /\ IsMap(map, Address, DOMAIN allocated)
              /\ \A r \in DOMAIN records :
                    r \in DOMAIN allocated /\ allocated[r] = records[r]
              /\ Commit(map, allocated)
<1>0. IsMap(records, Record, Node) /\ IsMap(current.map, Address, DOMAIN records)
  BY SnapshotFacts DEF Snapshots
<1>1. ASSUME NEW w \in Writes, NEW r \in Record, CommitPut(w[1], w[2], r)
      PROVE  /\ IsMap(With(records, r, w[2]), Record, Node)
             /\ IsMap(With(current.map, w[1], r), Address,
                      DOMAIN With(records, r, w[2]))
             /\ \A s \in DOMAIN records :
                   /\ s \in DOMAIN With(records, r, w[2])
                   /\ With(records, r, w[2])[s] = records[s]
             /\ Commit(With(current.map, w[1], r), With(records, r, w[2]))
  <2>1. w[1] \in Address /\ w[2] \in Node
    BY FfiAssumption
  <2>2. IsMap(With(records, r, w[2]), Record, Node)
    BY <1>0, <2>1, WithMap
  <2>3. DOMAIN With(records, r, w[2]) = DOMAIN records \cup {r}
    BY DEF With
  <2>4. IsMap(current.map, Address, DOMAIN With(records, r, w[2]))
    BY <1>0, <2>3, WiderMap
  <2>5. IsMap(With(current.map, w[1], r), Address, DOMAIN With(records, r, w[2]))
    BY <2>1, <2>3, <2>4, WithMap
  <2>6. r \notin DOMAIN records
    BY <1>1 DEF CommitPut
  <2>7. \A s \in DOMAIN records : With(records, r, w[2])[s] = records[s]
    BY <2>6 DEF With
  <2> QED
    BY <1>1, <2>2, <2>3, <2>5, <2>7 DEF CommitPut
<1>2. ASSUME NEW x \in Address, CommitRemove(x)
      PROVE  /\ IsMap(Without(current.map, x), Address, DOMAIN records)
             /\ Commit(Without(current.map, x), records)
  BY <1>0, <1>2, WithoutMap DEF CommitRemove
<1>3. CASE \E w \in Writes, r \in Record : CommitPut(w[1], w[2], r)
  BY <1>1, <1>3
<1>4. CASE \E x \in Address : CommitRemove(x)
  BY <1>0, <1>2, <1>4
<1> QED
  BY <1>3, <1>4

\* Any commit keeps the invariant, and what every open handle shows.
LEMMA CommitKeeps ==
    ASSUME IInv,
           \/ \E w \in Writes, r \in Record : CommitPut(w[1], w[2], r)
           \/ \E x \in Address : CommitRemove(x)
    PROVE  /\ IInv'
           /\ boxes' = boxes
           /\ \A h \in DOMAIN boxes : Shown(Through(h))' = Shown(Through(h))
<1> USE DEF IInv, MemoryOK
<1>1. PICK map, allocated :
         /\ IsMap(allocated, Record, Node)
         /\ IsMap(map, Address, DOMAIN allocated)
         /\ \A r \in DOMAIN records :
               r \in DOMAIN allocated /\ allocated[r] = records[r]
         /\ Commit(map, allocated)
  BY CommitArguments
<1>2. /\ TypeOK'
      /\ \A c \in DOMAIN arcs :
            Doc(arcs[c].snapshot.map, records')
               = Doc(arcs[c].snapshot.map, records)
      /\ current' = current =>
            Doc(current.map, records') = Doc(current.map, records)
      /\ current'.map = map =>
            Doc(map, records') = Doc(map, allocated)
  BY <1>1, CommitMemory
<1>3. VersionsOK' /\ DeltasOK'
  BY <1>1, <1>2, CommitVersions
<1>4. UNCHANGED <<arcs, boxes, deltas, view>>
  BY <1>1 DEF Commit
<1>5. CountsOK' /\ ViewOK'
  BY <1>4 DEF CountsOK, CountIsHandles, ViewOK, Through
<1>6. \A h \in DOMAIN boxes : boxes[h] \in DOMAIN arcs
  BY DEF TypeOK, IsMap
<1>7. \A h \in DOMAIN boxes : Shown(Through(h))' = Shown(Through(h))
  BY <1>2, <1>4, <1>6 DEF Shown, Through
<1> QED
  BY <1>2, <1>3, <1>4, <1>5, <1>7

\* What is left of a step that leaves the snapshots alone.
LEMMA HandsOff ==
    ASSUME IInv, UNCHANGED <<current, records, arcs, boxes>>,
           Deltas' \subseteq Deltas, DOMAIN deltas' \subseteq DeltaHandle,
           ViewOK'
    PROVE  IInv'
<1> USE DEF IInv, MemoryOK
<1>1. \A s : IsSnapshot(s) => IsSnapshot(s)'
  BY DEF IsSnapshot
<1>2. TypeOK'
  BY <1>1 DEF TypeOK
<1>3. CountsOK'
  BY DEF CountsOK, CountIsHandles
<1>4. Snapshots' \subseteq Snapshots
  BY DEF Snapshots
<1>5. VersionsOK' /\ DeltasOK'
  BY <1>4, FewerToCompare
<1> QED
  BY <1>2, <1>3, <1>5

LEMMA InitInv == Init => IInv
<1> SUFFICES ASSUME Init PROVE IInv
  OBVIOUS
<1>1. /\ current = [version |-> 1, map |-> [x \in {} |-> {}]]
      /\ delta = [before |-> 1, after |-> 1, diffs |-> NoDiffs]
      /\ DOMAIN records = {} /\ DOMAIN arcs = {} /\ DOMAIN boxes = {}
      /\ DOMAIN deltas = {} /\ view = None
      /\ boxes = [h \in {} |-> {}] /\ records = [r \in {} |-> {}]
  BY DEF Init
<1>2. IsMap(records, Record, Node) /\ IsMap(boxes, Handle, DOMAIN arcs)
  BY <1>1 DEF IsMap
<1>3. DOMAIN current.map = {} /\ current.version = 1
        /\ IsMap(current.map, Address, DOMAIN records)
  BY <1>1 DEF IsMap
<1>4. TypeOK
  <2>1. current.version \in 1..MaxRevision
    BY <1>3, FfiAssumption
  <2>2. current = [version |-> current.version, map |-> current.map]
    BY <1>1
  <2>3. IsSnapshot(current)
    BY <1>3, <2>1, <2>2 DEF IsSnapshot
  <2> QED
    BY <1>1, <1>2, <2>3 DEF TypeOK
<1>5. CountsOK
  BY <1>1, FS_EmptySet DEF CountsOK, CountIsHandles
<1>6. ViewOK
  BY <1>1 DEF ViewOK
<1>7. Snapshots = {current} /\ Deltas = {delta}
  BY <1>1 DEF Snapshots, Deltas
<1>8. VersionsOK
  BY <1>3, <1>7 DEF VersionsOK
<1>9. DiffsBetween(DocIn(current), DocIn(current)) = NoDiffs
  BY <1>2, <1>3, DocIsDocument, NoDifference DEF DocIn
<1>10. DeltasOK
  BY <1>1, <1>3, <1>7, <1>9 DEF DeltasOK
<1> QED
  BY <1>4, <1>5, <1>6, <1>8, <1>10 DEF IInv, MemoryOK

LEMMA StepInv == IInv /\ [Next]_vars => IInv'
<1> SUFFICES ASSUME IInv, [Next]_vars
             PROVE  IInv'
  OBVIOUS
<1> USE DEF IInv
<1>1. CASE \/ \E w \in Writes, r \in Record : CommitPut(w[1], w[2], r)
           \/ \E x \in Address : CommitRemove(x)
  BY <1>1, CommitKeeps
<1>2. ASSUME NEW c \in Cell, NEW h \in Handle, Hand(c, h)
      PROVE  IInv'
  <2>1. /\ MemoryOK'
        /\ DOMAIN boxes' = DOMAIN boxes \cup {h} /\ h \notin DOMAIN boxes
        /\ \A g \in DOMAIN boxes : Through(g)' = Through(g)
    BY <1>2, HandMemory
  <2>2. view' = HeldWithout(h, view)
    BY <1>2, <2>1 DEF Hand, HeldWithout, ViewOK
  <2>3. ViewOK'
    BY <2>1, <2>2, ViewKept
  <2>4. UNCHANGED <<current, delta, records, deltas>>
    BY <1>2 DEF Hand
  <2>5. Snapshots' \subseteq Snapshots /\ Deltas' \subseteq Deltas
    BY <1>2, <2>4 DEF Snapshots, Deltas, Hand, With
  <2>6. VersionsOK' /\ DeltasOK'
    BY <2>4, <2>5, FewerToCompare
  <2> QED
    BY <2>1, <2>3, <2>6
<1>3. ASSUME NEW g \in Handle, NEW h \in Handle, Retain(g, h)
      PROVE  IInv'
  <2>1. /\ MemoryOK'
        /\ DOMAIN boxes' = DOMAIN boxes \cup {h} /\ h \notin DOMAIN boxes
        /\ \A k \in DOMAIN boxes : Through(k)' = Through(k)
        /\ Snapshots' = Snapshots
    BY <1>3, RetainMemory
  <2>2. view' = HeldWithout(h, view)
    BY <1>3, <2>1 DEF Retain, HeldWithout, ViewOK
  <2>3. ViewOK'
    BY <2>1, <2>2, ViewKept
  <2>4. UNCHANGED <<current, delta, records, deltas>>
    BY <1>3 DEF Retain
  <2>5. Deltas' \subseteq Deltas
    BY <2>4 DEF Deltas
  <2>6. VersionsOK' /\ DeltasOK'
    BY <2>1, <2>4, <2>5, FewerToCompare
  <2> QED
    BY <2>1, <2>3, <2>6
<1>4. ASSUME NEW h \in Handle, Release(h)
      PROVE  IInv'
  <2>1. /\ MemoryOK'
        /\ DOMAIN boxes' = DOMAIN boxes \ {h}
        /\ \A k \in DOMAIN boxes' : Through(k)' = Through(k)
        /\ Snapshots' \subseteq Snapshots
        /\ \A s \in Snapshots' : Doc(s.map, records') = Doc(s.map, records)
    BY <1>4, ReleaseMemory
  <2>2. view' = HeldWithout(h, view) /\ UNCHANGED <<current, delta, deltas>>
    BY <1>4 DEF Release
  <2>3. ViewOK'
    BY <2>1, <2>2, ViewKept
  <2>4. Deltas' \subseteq Deltas
    BY <2>2 DEF Deltas
  <2>5. VersionsOK' /\ DeltasOK'
    BY <2>1, <2>2, <2>4, FewerToCompare
  <2> QED
    BY <2>1, <2>3, <2>5
<1>5. ASSUME NEW h \in Handle, NEW x \in Address, Look(h, x)
      PROVE  IInv'
  <2>1. UNCHANGED <<current, delta, records, arcs, boxes, deltas>>
    BY <1>5 DEF Look
  <2>2. CASE x \notin DOMAIN Through(h).map
    <3>1. ViewOK'
      BY <1>5, <2>2 DEF Look, ViewOK
    <3> QED
      BY <2>1, <3>1, HandsOff DEF Deltas, TypeOK, MemoryOK
  <2>3. CASE x \in DOMAIN Through(h).map
    <3>1. view' = [handle |-> h, address |-> x,
                   record |-> Through(h).map[x], field |-> None]
            /\ h \in DOMAIN boxes
      BY <1>5, <2>3 DEF Look
    <3>2. Through(h)' = Through(h)
      BY <2>1 DEF Through
    <3>3. ViewOK'
      BY <2>1, <2>3, <3>1, <3>2 DEF ViewOK
    <3> QED
      BY <2>1, <3>3, HandsOff DEF Deltas, TypeOK, MemoryOK
  <2> QED
    BY <2>2, <2>3
<1>6. ASSUME NEW f \in Field, Borrow(f)
      PROVE  IInv'
  <2>1. /\ UNCHANGED <<current, delta, records, arcs, boxes, deltas>>
        /\ view # None /\ view' = [view EXCEPT !.field = f]
    BY <1>6 DEF Borrow
  <2>2. /\ view = [handle |-> view.handle, address |-> view.address,
                   record |-> view.record, field |-> view.field]
        /\ view.handle \in DOMAIN boxes
        /\ view.address \in DOMAIN Through(view.handle).map
        /\ view.record = Through(view.handle).map[view.address]
    BY <2>1 DEF ViewOK
  <2>3. view' = [handle |-> view.handle, address |-> view.address,
                 record |-> view.record, field |-> f]
    BY <2>1, <2>2
  <2>4. Through(view.handle)' = arcs'[boxes'[view'.handle]].snapshot
    BY DEF Through
  <2>5. /\ view'.handle = view.handle /\ view'.address = view.address
        /\ view'.record = view.record /\ view'.field = f
    BY <2>3
  <2>6. ViewOK'
    BY <2>1, <2>2, <2>3, <2>5 DEF ViewOK, Through
  <2> QED
    BY <2>1, <2>6, HandsOff DEF Deltas, TypeOK, MemoryOK
<1>7. ASSUME NEW d \in DeltaHandle, HandDelta(d)
      PROVE  IInv'
  <2>1. /\ UNCHANGED <<current, delta, records, arcs, boxes, view>>
        /\ deltas' = With(deltas, d, delta)
    BY <1>7 DEF HandDelta
  <2>2. Deltas' \subseteq Deltas /\ DOMAIN deltas' \subseteq DeltaHandle
    BY <2>1 DEF Deltas, With, TypeOK, MemoryOK
  <2>3. ViewOK'
    BY <2>1 DEF ViewOK, Through
  <2> QED
    BY <2>1, <2>2, <2>3, HandsOff
<1>8. ASSUME NEW d \in DeltaHandle, ReleaseDelta(d)
      PROVE  IInv'
  <2>1. /\ UNCHANGED <<current, delta, records, arcs, boxes, view>>
        /\ deltas' = Without(deltas, d)
    BY <1>8 DEF ReleaseDelta
  <2>2. Deltas' \subseteq Deltas /\ DOMAIN deltas' \subseteq DeltaHandle
    BY <2>1 DEF Deltas, Without, Restrict, TypeOK, MemoryOK
  <2>3. ViewOK'
    BY <2>1 DEF ViewOK, Through
  <2> QED
    BY <2>1, <2>2, <2>3, HandsOff
<1>9. CASE UNCHANGED vars
  <2>1. UNCHANGED <<current, delta, records, arcs, boxes, deltas, view>>
    BY <1>9 DEF vars
  <2>2. ViewOK'
    BY <2>1 DEF ViewOK, Through
  <2> QED
    BY <2>1, <2>2, HandsOff DEF Deltas, TypeOK, MemoryOK
<1> QED
  BY <1>1, <1>2, <1>3, <1>4, <1>5, <1>6, <1>7, <1>8, <1>9 DEF Next

LEMMA InvHolds == Spec => []IInv
  BY InitInv, StepInv, PTL DEF Spec

-----------------------------------------------------------------------------
\* Nothing that can be reached is freed: every record a snapshot names is
\* allocated and every open handle shares a snapshot that is counted (lib.rs,
\* cir_snapshot_release).
THEOREM TypeCorrect == Spec => []TypeOK
  BY InvHolds, PTL DEF IInv, MemoryOK

\* A count is the number of the open handles of its snapshot, and is not zero
\* (lib.rs, cir_snapshot_retain and cir_snapshot_release).
THEOREM CountSafe == Spec => []CountIsHandles
  BY InvHolds, PTL DEF IInv, MemoryOK, CountsOK

\* A pointer borrowed from an open handle reads what that handle shows
\* (record.rs, "stays valid for exactly as long as the snapshot handle it came
\* from is retained").
THEOREM ViewSafe == Spec => []ViewReadsItsRecord
<1>1. ASSUME IInv, view # None
      PROVE  /\ view.handle \in DOMAIN boxes
             /\ view.record \in DOMAIN records
             /\ LET shown == Shown(Through(view.handle)).doc
                IN  /\ view.address \in DOMAIN shown
                    /\ view.field # None =>
                          records[view.record][view.field] =
                             shown[view.address][view.field]
  <2> DEFINE map == Through(view.handle).map
  <2>1. /\ view.handle \in DOMAIN boxes
        /\ view.address \in DOMAIN map
        /\ view.record = map[view.address]
    BY <1>1 DEF IInv, ViewOK
  <2>2. boxes[view.handle] \in DOMAIN arcs
    BY <1>1, <2>1 DEF IInv, MemoryOK, TypeOK, IsMap
  <2>3. IsMap(map, Address, DOMAIN records)
    BY <1>1, <2>2, SnapshotFacts DEF IInv, MemoryOK, Through
  <2>4. view.record \in DOMAIN records
    BY <2>1, <2>3 DEF IsMap
  <2>5. Shown(Through(view.handle)).doc = Doc(map, records)
    BY DEF Shown
  <2>6. /\ view.address \in DOMAIN Doc(map, records)
        /\ Doc(map, records)[view.address] = records[view.record]
    BY <2>1 DEF Doc
  <2> QED
    BY <2>1, <2>4, <2>5, <2>6
<1>2. IInv => ViewReadsItsRecord
  BY <1>1 DEF ViewReadsItsRecord
<1> QED
  BY <1>2, InvHolds, PTL

\* A delta's entries name what differs between the snapshots of its versions,
\* whenever and through whichever handles the three are read (lib.rs,
\* cir_delta_entries and cir_delta_applies_to).
THEOREM EntriesSafe == Spec => []EntriesNameTheDifference
<1>1. ASSUME IInv, NEW d \in DOMAIN deltas,
             NEW g \in DOMAIN boxes, NEW h \in DOMAIN boxes,
             AppliesTo(d, Shown(Through(g)).version),
             deltas[d].after = Shown(Through(h)).version
      PROVE  Entries(d) = DiffsBetween(Shown(Through(g)).doc,
                                       Shown(Through(h)).doc)
  <2>1. boxes[g] \in DOMAIN arcs /\ boxes[h] \in DOMAIN arcs
    BY <1>1 DEF IInv, MemoryOK, TypeOK, IsMap
  <2>2. Through(g) \in Snapshots /\ Through(h) \in Snapshots
    BY <2>1 DEF Through, Snapshots
  <2>3. deltas[d] \in Deltas
    BY DEF Deltas
  <2>4. /\ deltas[d].before = Through(g).version
        /\ deltas[d].after = Through(h).version
    BY <1>1 DEF AppliesTo, Shown
  <2>5. deltas[d].diffs = DiffsBetween(DocIn(Through(g)), DocIn(Through(h)))
    BY <1>1, <2>2, <2>3, <2>4 DEF IInv, DeltasOK
  <2> QED
    BY <2>5 DEF Entries, Shown, DocIn
<1>2. IInv => EntriesNameTheDifference
  BY <1>1 DEF EntriesNameTheDifference
<1> QED
  BY <1>2, InvHolds, PTL

-----------------------------------------------------------------------------
\* What the open handles show.
ShownTable == [h \in DOMAIN boxes |-> Shown(Through(h))]

\* Every step is one of the table's, or does not show.
LEMMA TableStep ==
    ASSUME IInv, IInv', [Next]_vars
    PROVE  [Table!Next]_Table!vars
<1> USE DEF IInv
<1>0. ASSUME UNCHANGED <<current, records, arcs, boxes>>
      PROVE  UNCHANGED Table!vars
  BY <1>0 DEF Table!vars, Shown, Through, Doc
<1>00. MemoryOK => \A g \in DOMAIN boxes : boxes[g] \in DOMAIN arcs
  BY DEF MemoryOK, TypeOK, IsMap
<1>1. CASE \/ \E w \in Writes, r \in Record : CommitPut(w[1], w[2], r)
           \/ \E x \in Address : CommitRemove(x)
  <2>1. /\ boxes' = boxes
        /\ \A h \in DOMAIN boxes : Shown(Through(h))' = Shown(Through(h))
    BY <1>1, CommitKeeps
  <2>2. ShownTable' = ShownTable
    BY <2>1 DEF ShownTable
  <2> QED
    BY <2>2 DEF ShownTable, Table!Next, Table!Publish
<1>2. ASSUME NEW c \in Cell, NEW h \in Handle, Hand(c, h)
      PROVE  Table!Next
  <2>1. /\ DOMAIN boxes' = DOMAIN boxes \cup {h} /\ h \notin DOMAIN boxes
        /\ \A g \in DOMAIN boxes : Through(g)' = Through(g)
        /\ Through(h)' = current
    BY <1>2, HandMemory
  <2>2. UNCHANGED <<current, records>>
    BY <1>2 DEF Hand
  <2>3. Shown(current)' = Shown(current)
    BY <2>2 DEF Shown
  <2>4. \A g \in DOMAIN boxes : Shown(Through(g))' = Shown(Through(g))
    BY <2>1, <2>2 DEF Shown
  <2>5. Shown(Through(h))' = Shown(current)
    BY <2>1, <2>2 DEF Shown
  <2>6. ShownTable' = [g \in DOMAIN ShownTable \cup {h} |->
                          IF g = h THEN Shown(current) ELSE ShownTable[g]]
    BY <2>1, <2>4, <2>5 DEF ShownTable
  <2>7. Table!Hand(h)
    BY <2>1, <2>3, <2>6 DEF ShownTable, Table!Hand, Table!Enter
  <2> QED
    BY <2>7 DEF Table!Next
<1>3. ASSUME NEW g \in Handle, NEW h \in Handle, Retain(g, h)
      PROVE  Table!Next
  <2>1. /\ DOMAIN boxes' = DOMAIN boxes \cup {h}
        /\ h \notin DOMAIN boxes /\ g \in DOMAIN boxes
        /\ \A k \in DOMAIN boxes : Through(k)' = Through(k)
        /\ Through(h)' = Through(g)
    BY <1>3, RetainMemory
  <2>2. UNCHANGED <<current, records>>
    BY <1>3 DEF Retain
  <2>3. Shown(current)' = Shown(current)
    BY <2>2 DEF Shown
  <2>4. \A k \in DOMAIN boxes : Shown(Through(k))' = Shown(Through(k))
    BY <2>1, <2>2 DEF Shown
  <2>5. Shown(Through(h))' = Shown(Through(g))
    BY <2>1, <2>2 DEF Shown
  <2>6. ShownTable' = [k \in DOMAIN ShownTable \cup {h} |->
                          IF k = h THEN ShownTable[g] ELSE ShownTable[k]]
    BY <2>1, <2>4, <2>5 DEF ShownTable
  <2>7. Table!Retain(g, h)
    BY <2>1, <2>3, <2>6 DEF ShownTable, Table!Retain, Table!Enter
  <2> QED
    BY <2>7 DEF Table!Next
<1>4. ASSUME NEW h \in Handle, Release(h)
      PROVE  Table!Next
  <2>1. /\ h \in DOMAIN boxes /\ DOMAIN boxes' = DOMAIN boxes \ {h}
        /\ \A k \in DOMAIN boxes' : Through(k)' = Through(k)
        /\ \A s \in Snapshots' : Doc(s.map, records') = Doc(s.map, records)
    BY <1>4, ReleaseMemory
  <2>2. current' = current
    BY <1>4 DEF Release
  <2>3. \A k \in DOMAIN boxes' : Through(k)' \in Snapshots'
    <3>1. \A k \in DOMAIN boxes' : boxes'[k] \in DOMAIN arcs'
      BY DEF MemoryOK, TypeOK, IsMap
    <3> QED
      BY <3>1 DEF Through, Snapshots
  <2>4. \A k \in DOMAIN boxes' : Shown(Through(k))' = Shown(Through(k))
    BY <2>1, <2>3 DEF Shown
  <2>5. Shown(current)' = Shown(current)
    BY <2>1, <2>2 DEF Shown, Snapshots
  <2>6. ShownTable' = Restrict(ShownTable, DOMAIN ShownTable \ {h})
    BY <2>1, <2>4 DEF ShownTable, Restrict
  <2>7. Table!Release(h)
    BY <2>1, <2>5, <2>6 DEF ShownTable, Restrict, Table!Release, Table!Restrict
  <2> QED
    BY <2>7 DEF Table!Next
<1>5. ASSUME NEW h \in Handle, NEW x \in Address, Look(h, x)
      PROVE  UNCHANGED Table!vars
  BY <1>0, <1>5 DEF Look
<1>6. ASSUME NEW f \in Field, Borrow(f)
      PROVE  UNCHANGED Table!vars
  BY <1>0, <1>6 DEF Borrow
<1>7. ASSUME NEW d \in DeltaHandle, HandDelta(d) \/ ReleaseDelta(d)
      PROVE  UNCHANGED Table!vars
  BY <1>0, <1>7 DEF HandDelta, ReleaseDelta
<1>8. CASE UNCHANGED vars
  BY <1>0, <1>8 DEF vars
<1> QED
  BY <1>1, <1>2, <1>3, <1>4, <1>5, <1>6, <1>7, <1>8 DEF Next

\* The boxes, the counts and the shared records implement a table in which a
\* handle shows one snapshot from the moment it is given out to the moment it
\* is released (lib.rs, "Retaining one is what keeps its records alive").
THEOREM ImplementsTable == Spec => HandlesAreATable
<1>1. Init => Table!Init
  BY DEF Init, Table!Init
<1>2. IInv /\ IInv' /\ [Next]_vars => [Table!Next]_Table!vars
  BY TableStep
<1> QED
  BY <1>1, <1>2, InvHolds, PTL DEF Spec, Table!Spec, HandlesAreATable
=============================================================================
