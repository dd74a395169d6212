----------------------------- MODULE FfiHandles -----------------------------
(***************************************************************************)
(* The handles of the C boundary, and the memory behind them.              *)
(*                                                                         *)
(* A handle is a pointer to a box that shares a counted snapshot; the      *)
(* snapshot's records are allocations it shares with other snapshots.      *)
(* What nothing reaches any more is freed at once, and its pointer may be  *)
(* given out again.  The producer keeps one snapshot and moves on; only    *)
(* the host's own handles keep what it reads alive.  The host keeps to the *)
(* contract of the calls: it uses no handle after releasing it, and no     *)
(* pointer borrowed from one either.                                       *)
(*                                                                         *)
(* One borrowed pointer stands for all those a host may hold at a time:    *)
(* none has an effect on another.                                          *)
(***************************************************************************)
EXTENDS Projection

CONSTANTS
    Writes,           \* what a commit may put: pairs of an address and a node
    Record,           \* pointers to records
    Cell,             \* pointers to counted snapshots
    Handle,           \* pointers to snapshot boxes
    DeltaHandle,      \* pointers to delta boxes
    Field,            \* the fields of a record the host reads
    MaxRevision       \* bound: revisions published

VARIABLES
    current,          \* the producer's snapshot: [version, map]
    delta,            \* the delta of its last commit: [before, after, diffs]
    records,          \* allocated records: a partial function on Record
    arcs,             \* counted snapshots: Cell to [snapshot, strong]
    boxes,            \* open snapshot handles: Handle to Cell
    deltas,           \* open delta handles: DeltaHandle to delta
    view              \* a borrowed pointer: [handle, address, record, field]

handles == <<arcs, boxes>>
vars == <<current, delta, records, arcs, boxes, deltas, view>>

ASSUME FfiAssumption ==
    /\ Writes \subseteq Address \X Node
    /\ MaxRevision \in Nat \ {0}

CONSTANT None        \* nothing is borrowed
ASSUME NoneAssumption == None \notin Handle

-----------------------------------------------------------------------------
\* The document a record map stands for.
Doc(map, allocated) == [x \in DOMAIN map |-> allocated[map[x]]]

\* What is read of a snapshot through any of its handles: cir_snapshot_version,
\* contains, len and node.
Shown(s) == [version |-> s.version, doc |-> Doc(s.map, records)]

Through(h) == arcs[boxes[h]].snapshot

\* Mutant: the producer's snapshot alone keeps records.
ReachedByProducer(own, cells) == Range(own.map)

\* The records reached from the producer's snapshot and the counted ones.
Reached(own, cells) ==
    Range(own.map)
        \cup UNION {Range(cells[c].snapshot.map) : c \in DOMAIN cells}

-----------------------------------------------------------------------------
\* Mutant: the revision stays.
SameVersion(version) == version

NextVersion(version) == version + 1

\* A commit of the producer, who keeps the new snapshot and drops the old.
Commit(map, allocated) ==
    LET diffs == DiffsBetween(Doc(current.map, records), Doc(map, allocated))
    IN  /\ current.version < MaxRevision
        /\ current' = IF diffs = NoDiffs
                      THEN current
                      ELSE [version |-> NextVersion(current.version), map |-> map]
        /\ delta' = [before |-> current.version, after |-> current'.version,
                     diffs |-> diffs]
        /\ records' = Restrict(allocated, Reached(current', arcs))
        /\ UNCHANGED <<arcs, boxes, deltas, view>>

\* Mutant: a record that is shared is written over.
PutInPlace(x, n, r) ==
    /\ r \in DOMAIN records => x \in DOMAIN current.map /\ r = current.map[x]
    /\ Commit(With(current.map, x, r), With(records, r, n))

CommitPut(x, n, r) ==
    /\ r \notin DOMAIN records
    /\ Commit(With(current.map, x, r), With(records, r, n))

CommitRemove(x) ==
    /\ x \in DOMAIN current.map
    /\ Commit(Without(current.map, x), records)

\* CirSnapshot::into_raw of a clone of the producer's snapshot.
Hand(c, h) ==
    /\ c \notin DOMAIN arcs
    /\ h \notin DOMAIN boxes
    /\ arcs' = With(arcs, c, [snapshot |-> current, strong |-> 1])
    /\ boxes' = With(boxes, h, c)
    /\ UNCHANGED <<current, delta, records, deltas, view>>

\* Mutant: the copy is not counted.
RetainUncounted(g, h) ==
    /\ g \in DOMAIN boxes
    /\ h \notin DOMAIN boxes
    /\ arcs' = arcs
    /\ boxes' = With(boxes, h, boxes[g])
    /\ UNCHANGED <<current, delta, records, deltas, view>>

\* cir_snapshot_retain
Retain(g, h) ==
    /\ g \in DOMAIN boxes
    /\ h \notin DOMAIN boxes
    /\ arcs' = [arcs EXCEPT ![boxes[g]].strong = @ + 1]
    /\ boxes' = With(boxes, h, boxes[g])
    /\ UNCHANGED <<current, delta, records, deltas, view>>

\* What the host still holds once it has let go of a handle.
HeldWithout(h, held) ==
    IF held # None /\ held.handle = h THEN None ELSE held

\* Mutant: the snapshot goes with the first of its handles.
DroppedAtOnce(c) == Without(arcs, c)

\* Arc::drop: the snapshot goes with the last of its handles.
Dropped(c) ==
    IF arcs[c].strong = 1
    THEN Without(arcs, c)
    ELSE [arcs EXCEPT ![c].strong = @ - 1]

\* cir_snapshot_release
Release(h) ==
    /\ h \in DOMAIN boxes
    /\ arcs' = Dropped(boxes[h])
    /\ boxes' = Without(boxes, h)
    /\ records' = Restrict(records, Reached(current, arcs'))
    /\ view' = HeldWithout(h, view)
    /\ UNCHANGED <<current, delta, deltas>>

\* cir_snapshot_node: null when nothing is live at the address.
Look(h, x) ==
    /\ h \in DOMAIN boxes
    /\ view' = IF x \in DOMAIN Through(h).map
               THEN [handle |-> h, address |-> x,
                     record |-> Through(h).map[x], field |-> None]
               ELSE None
    /\ UNCHANGED <<current, delta, records, arcs, boxes, deltas>>

\* cir_node_text and its like, on a record looked up before.
Borrow(f) ==
    /\ view # None
    /\ view' = [view EXCEPT !.field = f]
    /\ UNCHANGED <<current, delta, records, arcs, boxes, deltas>>

\* CirDelta::into_raw of a clone of the last delta.
HandDelta(d) ==
    /\ d \notin DOMAIN deltas
    /\ deltas' = With(deltas, d, delta)
    /\ UNCHANGED <<current, delta, records, arcs, boxes, view>>

\* cir_delta_release
ReleaseDelta(d) ==
    /\ d \in DOMAIN deltas
    /\ deltas' = Without(deltas, d)
    /\ UNCHANGED <<current, delta, records, arcs, boxes, view>>

\* cir_delta_entries and cir_delta_len
Entries(d) == deltas[d].diffs

\* cir_delta_applies_to
AppliesTo(d, version) == deltas[d].before = version

Init ==
    /\ current = [version |-> 1, map |-> [x \in {} |-> {}]]
    /\ delta = [before |-> 1, after |-> 1, diffs |-> NoDiffs]
    /\ records = [r \in {} |-> {}]
    /\ arcs = [c \in {} |-> {}]
    /\ boxes = [h \in {} |-> {}]
    /\ deltas = [d \in {} |-> {}]
    /\ view = None

Next ==
    \/ \E w \in Writes, r \in Record : CommitPut(w[1], w[2], r)
    \/ \E x \in Address : CommitRemove(x)
    \/ \E c \in Cell, h \in Handle : Hand(c, h)
    \/ \E g, h \in Handle : Retain(g, h)
    \/ \E h \in Handle : Release(h)
    \/ \E h \in Handle, x \in Address : Look(h, x)
    \/ \E f \in Field : Borrow(f)
    \/ \E d \in DeltaHandle : HandDelta(d) \/ ReleaseDelta(d)

Spec == Init /\ [][Next]_vars

-----------------------------------------------------------------------------
IsSnapshot(s) ==
    /\ s = [version |-> s.version, map |-> s.map]
    /\ s.version \in 1..MaxRevision
    /\ IsMap(s.map, Address, DOMAIN records)

\* The state has its types, and nothing dangles: every record a snapshot names
\* is allocated, and every open handle shares a snapshot that is counted.
TypeOK ==
    /\ IsMap(records, Record, Node)
    /\ IsSnapshot(current)
    /\ DOMAIN arcs \subseteq Cell
    /\ \A c \in DOMAIN arcs :
          /\ arcs[c] = [snapshot |-> arcs[c].snapshot, strong |-> arcs[c].strong]
          /\ IsSnapshot(arcs[c].snapshot)
          /\ arcs[c].strong \in Nat
    /\ IsMap(boxes, Handle, DOMAIN arcs)
    /\ DOMAIN deltas \subseteq DeltaHandle

\* A snapshot's count is the number of its open handles, and is never zero: no
\* release frees what another handle shows, and the last one frees it
\* (lib.rs, cir_snapshot_retain and cir_snapshot_release).
CountIsHandles ==
    \A c \in DOMAIN arcs :
        /\ arcs[c].strong = Cardinality({h \in DOMAIN boxes : boxes[h] = c})
        /\ arcs[c].strong > 0

\* A pointer borrowed from a handle that is still open reads the field of the
\* record that handle shows, however far the producer has moved on and
\* whichever other handles were released (record.rs, "stays valid for exactly
\* as long as the snapshot handle it came from is retained").
ViewReadsItsRecord ==
    view # None =>
        /\ view.handle \in DOMAIN boxes
        /\ view.record \in DOMAIN records
        /\ LET shown == Shown(Through(view.handle)).doc
           IN  /\ view.address \in DOMAIN shown
               /\ view.field # None =>
                     records[view.record][view.field] =
                        shown[view.address][view.field]

\* A delta's entries, read through its handle at any later time, name exactly
\* what differs between the snapshots of its two versions, read through theirs
\* (lib.rs, cir_delta_entries).
EntriesNameTheDifference ==
    \A d \in DOMAIN deltas, g, h \in DOMAIN boxes :
        LET old == Shown(Through(g))
            new == Shown(Through(h))
        IN  AppliesTo(d, old.version) /\ deltas[d].after = new.version
            => Entries(d) = DiffsBetween(old.doc, new.doc)

Table ==
    INSTANCE HandleTable
        WITH current <- Shown(current),
             table <- [h \in DOMAIN boxes |-> Shown(Through(h))]

\* The boxes, the counts and the shared records behave as a table in which a
\* handle shows one snapshot until it is released (lib.rs, "Retaining one is
\* what keeps its records alive").
HandlesAreATable == Table!Spec
=============================================================================
