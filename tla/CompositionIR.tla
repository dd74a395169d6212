--------------------------- MODULE CompositionIR ---------------------------
(***************************************************************************)
(* Published snapshots and the builders that make the next ones.           *)
(*                                                                         *)
(* Snapshots are immutable and share records by pointer, so records live   *)
(* in a heap of allocations and a snapshot maps an address to an           *)
(* allocation.  Any number of builders may be open at once, each on any    *)
(* snapshot still retained; they interleave freely and each ends in one    *)
(* commit.  Two builders on the same snapshot fork its lineage: the source *)
(* allows it, and the module does not hide it.                             *)
(*                                                                         *)
(* Nothing here is concurrent inside one operation: an operation is one    *)
(* call on an owned value, and is one step.                                *)
(***************************************************************************)
EXTENDS Projection

CONSTANTS
    Foreign,          \* the addresses that carry another domain
    Precedes,         \* the order of addresses, as its pairs
    Home,             \* the domain of the session modelled
    Opening,          \* the first snapshots of a session: [revision, puts]
    Rect,             \* resolved boxes
    Move,             \* translations: [covers, dx, dy]
    Builder,          \* names of the builders that may be open at once
    MaxRevision,      \* the largest revision the revision scalar holds
    MaxEdits,         \* bound: calls that change a builder, over the behaviour
    MaxCommits        \* bound: commits that return

VARIABLES
    heap,             \* Seq(Node): every record ever allocated
    published,        \* Seq of snapshots, in publication order
    builders,         \* the open builders: a partial function from Builder
    commits,          \* Seq of what each commit returned
    crashed,          \* the process overflowed its stack
    edits             \* bookkeeping for MaxEdits: builder calls so far

vars == <<heap, published, builders, commits, crashed, edits>>

ASSUME CompositionAssumption ==
    /\ Foreign \subseteq Address
    /\ Precedes \subseteq Address \X Address
    /\ \A x, y \in Address :
          <<x, y>> \in Precedes <=> x # y /\ <<y, x>> \notin Precedes
    /\ \A x, y, z \in Address :
          <<x, y>> \in Precedes /\ <<y, z>> \in Precedes => <<x, z>> \in Precedes
    /\ MaxRevision \in Nat \ {0}
    /\ Opening \subseteq
         [revision : 1..MaxRevision,
          puts     : Seq([address : Address \ Foreign, node : Node])]
    /\ \A opening \in Opening : \A i, j \in DOMAIN opening.puts :
          /\ opening.puts[i].node.children \in Seq(Address \ Foreign)
          /\ opening.puts[i].address = opening.puts[j].address => i = j

-----------------------------------------------------------------------------
EmptyPlacement == [boxes |-> <<>>, translations |-> <<>>]

Placement == [boxes : Seq(Address \X Rect), translations : Seq(Move)]

Version == [domain : {Home}, revision : 1..MaxRevision]

\* The document a record map stands for.
Resolve(records) == [x \in DOMAIN records |-> heap[records[x]]]

DocOf(i) == Resolve(published[i].records)

\* A commit's delta may be applied by a consumer that holds this version.
AppliesTo(delta, version) == delta.before = version

-----------------------------------------------------------------------------
\* A session opens on Snapshot::empty, at the revision its caller chose, or on
\* what its first commit made of that by puts at distinct addresses.
Init ==
    \E opening \in Opening :
        LET puts == opening.puts
            addresses == {puts[k].address : k \in DOMAIN puts}
        IN  /\ heap = [k \in DOMAIN puts |-> puts[k].node]
            /\ published =
                 <<[version   |-> [domain |-> Home,
                                 revision |-> opening.revision],
                    records   |-> [x \in addresses |->
                                     CHOOSE k \in DOMAIN puts :
                                        puts[k].address = x],
                    roots     |-> <<>>,
                    placement |-> EmptyPlacement]>>
            /\ builders = [b \in {} |-> {}]
            /\ commits = <<>>
            /\ crashed = FALSE
            /\ edits = 0

Running == ~ crashed

\* A call on an open builder that may change it.
Editing(b) ==
    /\ Running
    /\ b \in DOMAIN builders
    /\ edits < MaxEdits /\ Len(commits) < MaxCommits
    /\ edits' = edits + 1

Store(b, new) == builders' = [builders EXCEPT ![b] = new]

\* Snapshot::edit
Edit(b, i) ==
    /\ Running
    /\ b \in Builder \ DOMAIN builders
    /\ i \in DOMAIN published
    /\ builders' =
         With(builders, b,
              [base      |-> i,
               records   |-> published[i].records,
               roots     |-> published[i].roots,
               placement |-> published[i].placement])
    /\ UNCHANGED <<heap, published, commits, crashed, edits>>

\* insert_mut of a fresh allocation
Insert(b, x, n) ==
    /\ heap' = Append(heap, n)
    /\ Store(b, [builders[b] EXCEPT !.records = With(@, x, Len(heap) + 1)])
    /\ UNCHANGED <<published, commits, crashed>>

\* SnapshotBuilder::put.  Nothing is asked of the address: it may be retired,
\* foreign, or live.
Put(b, x, n) ==
    /\ Editing(b)
    /\ Insert(b, x, n)

\* Mutant: the shared record is modified where it is.
UpdateInPlace(b, x, n) ==
    /\ Editing(b)
    /\ x \in DOMAIN builders[b].records
    /\ heap' = [heap EXCEPT ![builders[b].records[x]] = n]
    /\ UNCHANGED <<published, builders, commits, crashed>>

\* SnapshotBuilder::update: the closure may leave any record in the clone.
Update(b, x, n) ==
    /\ Editing(b)
    /\ x \in DOMAIN builders[b].records
    /\ Insert(b, x, n)

\* update on an address that is not live panics, and unwinding drops the
\* builder.
UpdatePanics(b, x) ==
    /\ Running
    /\ b \in DOMAIN builders
    /\ x \notin DOMAIN builders[b].records
    /\ builders' = Without(builders, b)
    /\ UNCHANGED <<heap, published, commits, crashed, edits>>

\* SnapshotBuilder::update_if_live
UpdateIfLive(b, x, n) ==
    /\ Editing(b)
    /\ IF x \in DOMAIN builders[b].records
       THEN Insert(b, x, n)
       ELSE UNCHANGED <<heap, published, builders, commits, crashed>>

\* SnapshotBuilder::remove also drops the address from the roots.
Remove(b, x) ==
    /\ Editing(b)
    /\ Store(b, [builders[b] EXCEPT
                   !.records = Without(@, x),
                   !.roots   = At(@, {k \in DOMAIN @ : @[k] # x})])
    /\ UNCHANGED <<heap, published, commits, crashed>>

\* SnapshotBuilder::root
Root(b, x) ==
    /\ Editing(b)
    /\ Store(b, [builders[b] EXCEPT !.roots = Append(@, x)])
    /\ UNCHANGED <<heap, published, commits, crashed>>

\* SnapshotBuilder::reset_placement
ResetPlacement(b) ==
    /\ Editing(b)
    /\ Store(b, [builders[b] EXCEPT !.placement = EmptyPlacement])
    /\ UNCHANGED <<heap, published, commits, crashed>>

\* SnapshotBuilder::place
Place(b, x, r) ==
    /\ Editing(b)
    /\ Store(b, [builders[b] EXCEPT !.placement.boxes = Append(@, <<x, r>>)])
    /\ UNCHANGED <<heap, published, commits, crashed>>

\* SnapshotBuilder::translate
Translate(b, m) ==
    /\ Editing(b)
    /\ Store(b, [builders[b] EXCEPT !.placement.translations = Append(@, m)])
    /\ UNCHANGED <<heap, published, commits, crashed>>

\* A builder given up without a commit: nothing was published.
Abandon(b) ==
    /\ Running
    /\ b \in DOMAIN builders
    /\ builders' = Without(builders, b)
    /\ UNCHANGED <<heap, published, commits, crashed, edits>>

-----------------------------------------------------------------------------
\* What a commit compares: the base it was opened on, and the candidate.
Before(b) == DocOf(builders[b].base)
After(b) == Resolve(builders[b].records)
Diffs(b) == DiffsBetween(Before(b), After(b))

LastRevision(b) == published[builders[b].base].version.revision = MaxRevision

\* The walk from a live record comes to a foreign child: the children before
\* it compare equal, and so does the record, or it would have stopped.
WalkReadsForeign(before, after) ==
    \E x \in DOMAIN before \cap DOMAIN after :
        /\ OwnEq(before[x], after[x])
        /\ \E i \in DOMAIN before[x].children :
              /\ before[x].children[i] \in Foreign
              /\ \A j \in 1..(i - 1) :
                    SubtreeEq(before, after, before[x].children[j])

\* descendant_differs, asked of a live record that changed, takes the children
\* of both sides in address order and comes to a foreign one.
SearchReadsForeign(before, after) ==
    \E x \in DOMAIN after :
        /\ ~ SubtreeEq(before, after, x)
        /\ LET children == Children(before, x) \cup Children(after, x)
           IN  \E y \in children \cap Foreign :
                  \A c \in children :
                     <<c, y>> \in Precedes => SubtreeEq(before, after, c)

\* Comparing a foreign address reads it through Snapshot::get, which asserts.
ReadsForeign(before, after) ==
    \/ DOMAIN after \cap Foreign # {}
    \/ WalkReadsForeign(before, after)
    \/ SearchReadsForeign(before, after)

\* Mutant: the revision is incremented without looking at the limit.
TrapsOnForeignOnly(b) == ReadsForeign(Before(b), After(b))

\* Mutant: an address is asked for its domain when it is put, and not when it
\* is read as a child.
TrapsOnForeignKeys(b) ==
    LastRevision(b) \/ DOMAIN builders[b].records \cap Foreign # {}

\* next_revision is evaluated first, whether or not anything changed.
CommitTraps(b) == LastRevision(b) \/ ReadsForeign(Before(b), After(b))

\* Mutant: a commit that only moved boxes is taken for a no-op.
NothingButRecords(b) == Diffs(b) = NoDiffs

\* Mutant: a candidate that shares no allocation with its base is a change.
SameAllocations(b) ==
    /\ builders[b].records = published[builders[b].base].records
    /\ builders[b].placement = published[builders[b].base].placement

\* The no-op test of the source: roots are not part of it.
NothingChanged(b) ==
    /\ Diffs(b) = NoDiffs
    /\ builders[b].placement = published[builders[b].base].placement

\* Mutant: the revision of the base is reused.
SameRevision(version) == version

Successor(version) == [version EXCEPT !.revision = @ + 1]

\* The builder is consumed and its commit is recorded.
Return(b, base, result, diffs) ==
    /\ builders' = Without(builders, b)
    /\ commits' =
         Append(commits,
                [base   |-> base,
                 result |-> result,
                 delta  |-> [before |-> published[base].version,
                             after  |-> published'[result].version,
                             diffs  |-> diffs]])
    /\ UNCHANGED <<heap, crashed, edits>>

\* A commit may start: the builder is open, and the walk over it returns.
Committing(b) ==
    /\ Running
    /\ b \in DOMAIN builders
    /\ Len(commits) < MaxCommits
    /\ ~ CommitTraps(b)
    /\ ~ WalkDiverges(Before(b), After(b))

CommitNoOp(b) ==
    /\ Committing(b)
    /\ NothingChanged(b)
    /\ published' = published
    /\ Return(b, builders[b].base, builders[b].base, NoDiffs)

CommitPublishes(b) ==
    /\ Committing(b)
    /\ ~ NothingChanged(b)
    /\ published' =
         Append(published,
                [version   |-> Successor(published[builders[b].base].version),
                 records   |-> builders[b].records,
                 roots     |-> builders[b].roots,
                 placement |-> builders[b].placement])
    /\ Return(b, builders[b].base, Len(published) + 1, Diffs(b))

CommitPanics(b) ==
    /\ Running
    /\ b \in DOMAIN builders
    /\ CommitTraps(b)
    /\ builders' = Without(builders, b)
    /\ UNCHANGED <<heap, published, commits, crashed, edits>>

\* The walk recurses without end and the process aborts on its stack guard.
\* Where it would also read a foreign address, what it comes to first is left
\* open: a panic, or this.
CommitOverflows(b) ==
    /\ Running
    /\ b \in DOMAIN builders
    /\ ~ LastRevision(b)
    /\ WalkDiverges(Before(b), After(b))
    /\ crashed' = TRUE
    /\ UNCHANGED <<heap, published, builders, commits, edits>>

Next ==
    \E b \in Builder :
        \/ \E i \in DOMAIN published : Edit(b, i)
        \/ \E x \in Address, n \in Node : Put(b, x, n)
        \/ \E x \in Address, n \in Node : Update(b, x, n)
        \/ \E x \in Address, n \in Node : UpdateIfLive(b, x, n)
        \/ \E x \in Address : UpdatePanics(b, x)
        \/ \E x \in Address : Remove(b, x)
        \/ \E x \in Address : Root(b, x)
        \/ ResetPlacement(b)
        \/ \E x \in Address, r \in Rect : Place(b, x, r)
        \/ \E m \in Move : Translate(b, m)
        \/ Abandon(b)
        \/ CommitNoOp(b)
        \/ CommitPublishes(b)
        \/ CommitPanics(b)
        \/ CommitOverflows(b)

Spec == Init /\ [][Next]_vars

-----------------------------------------------------------------------------
\* Record maps over some addresses, pointing into the heap.
Points(records, addresses) == IsMap(records, addresses, DOMAIN heap)

IsSnapshot(s) ==
    /\ s \in [version : Version, records : {s.records}, roots : {s.roots},
              placement : Placement]
    /\ Points(s.records, Address \ Foreign)

IsBuilder(s) ==
    /\ s \in [base : DOMAIN published, records : {s.records},
              roots : {s.roots}, placement : Placement]
    /\ Points(s.records, Address)

IsCommit(c) ==
    /\ c \in [base : DOMAIN published, result : DOMAIN published,
              delta : [before : Version, after : Version,
                       diffs : {c.delta.diffs}]]
    /\ IsMap(c.delta.diffs, Address, SUBSET Parts)

StoreOK ==
    /\ heap \in Seq(Node)
    /\ IsSeq(published) /\ \A i \in DOMAIN published : IsSnapshot(published[i])
    /\ DOMAIN builders \subseteq Builder
    /\ \A b \in DOMAIN builders : IsBuilder(builders[b])
    /\ IsSeq(commits) /\ \A k \in DOMAIN commits : IsCommit(commits[k])
    /\ crashed \in BOOLEAN
    /\ edits \in Nat

RootsOK ==
    /\ \A i \in DOMAIN published : published[i].roots \in Seq(Address)
    /\ \A b \in DOMAIN builders : builders[b].roots \in Seq(Address)

\* The state has its types: no record map dangles out of the heap, no builder
\* or commit names a snapshot that was never published, no record is ever
\* published under a foreign address, though roots, boxes and children may name
\* one, and no revision goes past the largest the scalar holds (snapshot.rs:
\* next_revision, Snapshot::get).
TypeOK == StoreOK /\ RootsOK

-----------------------------------------------------------------------------
\* A snapshot that has been published is never touched again: the same
\* version, roots and placement, and every record it resolves to unchanged,
\* whatever later builders do with the records they share with it
\* (snapshot.rs, "stays readable after later commits").
RetainedUnchanged ==
    [][\A i \in DOMAIN published :
          /\ i \in DOMAIN published'
          /\ published'[i] = published[i]
          /\ DocOf(i)' = DocOf(i)]_vars

\* A new revision is spent only on a difference of value: rebuilding equal
\* records in fresh allocations and committing them gives back the base
\* (snapshot.rs, commit).
RevisionMeansDifference ==
    \A k \in DOMAIN commits :
        LET c == commits[k]
        IN  c.result # c.base =>
              \/ DocOf(c.result) # DocOf(c.base)
              \/ published[c.result].placement # published[c.base].placement

\* Two records are equal field by field, but for what their resources are for.
SameButRoles(m, n) ==
    /\ \A field \in Fields \ {"resources"} : m[field] = n[field]
    /\ \A p \in {"Shaping", "Paint"} : ResourcesFor(m, p) = ResourcesFor(n, p)

\* The commit that closes a builder and gives back its base loses no record,
\* no field of one, and no box: a field that no part compared would be lost.
\* What is lost is the roots, and the role of a resource that feeds the same
\* part in another role (snapshot.rs, commit; node.rs, part_eq).
NoOpLosesNothing ==
    [][\A b \in DOMAIN builders :
          (b \notin DOMAIN builders' /\ commits' # commits /\ published' = published)
          => /\ DOMAIN After(b) = DOMAIN Before(b)
             /\ \A x \in DOMAIN After(b) : SameButRoles(Before(b)[x], After(b)[x])
             /\ builders[b].placement =
                  published[builders[b].base].placement]_vars

\* The snapshots a snapshot was made from, itself included.
Parent(j) ==
    LET made == {k \in DOMAIN commits :
                    commits[k].result = j /\ commits[k].base # j}
    IN  IF made = {} THEN j ELSE commits[CHOOSE k \in made : TRUE].base

\* The least set that holds j and the parent of everything in it.
Ancestry ==
    [j \in DOMAIN published |->
        {i \in DOMAIN published :
            \A set \in SUBSET DOMAIN published :
                (j \in set /\ \A k \in set : Parent(k) \in set) => i \in set}]

\* Within one lineage a version names one snapshot, so a delta applies to the
\* snapshot it was computed from and to no other one of its lineage.
AppliesToItsBaseAlone ==
    \A k \in DOMAIN commits, j \in DOMAIN published :
        LET c == commits[k]
        IN  (/\ AppliesTo(c.delta, published[j].version)
             /\ j \in Ancestry[c.result] \/ c.result \in Ancestry[j])
            => j = c.base

\* Deltas compose: what differs between a snapshot and any of its descendants
\* is named by some delta on the way, with every own part that differs, so a
\* consumer may apply commits one by one or take them as one chunk
\* (tests/gates.rs, chunked_and_whole_application_reach_the_same_state).  A
\* difference further down is told as Descendant, or as Structure alone: a child
\* may be edited by one commit and taken in, as it is then, by the next.
DeltasCompose ==
    \A j \in DOMAIN published : \A i \in Ancestry[j] :
        LET old == DocOf(i)
            new == DocOf(j)
            way == {k \in DOMAIN commits :
                      /\ commits[k].base # commits[k].result
                      /\ commits[k].result \in Ancestry[j] \ Ancestry[i]}
            Named(x, parts) ==
                \A p \in parts : \E k \in way :
                    /\ x \in DOMAIN commits[k].delta.diffs
                    /\ p \in commits[k].delta.diffs[x]
        IN  \A x \in Address :
              ~ SubtreeEq(old, new, x) =>
                /\ \E k \in way : x \in DOMAIN commits[k].delta.diffs
                /\ x \in DOMAIN new =>
                     Named(x, {p \in OwnParts :
                                 x \in DOMAIN old =>
                                   ~ PartEq(old[x], new[x], p)})
                /\ x \in DOMAIN new /\ DescendantDiffers(old, new, x) =>
                     \E k \in way :
                        /\ x \in DOMAIN commits[k].delta.diffs
                        /\ {"Structure", "Descendant"}
                             \cap commits[k].delta.diffs[x] # {}

\* A record with a foreign child is only ever published by a commit that names
\* it with a change below it, which stops the search before it gets there: once
\* published it has no commit on it that leaves what is below it alone, not
\* even one that changes nothing (snapshot.rs, get; delta.rs, descendant_differs).
ForeignChildrenAreNamed ==
    \A k \in DOMAIN commits :
        LET c == commits[k]
            new == DocOf(c.result)
        IN  \A x \in DOMAIN new :
              Children(new, x) \cap Foreign # {} =>
                /\ x \in DOMAIN c.delta.diffs
                /\ "Descendant" \in c.delta.diffs[x]

\* Some address of the document is reached from itself through children.
HasLoop(doc) ==
    \E set \in (SUBSET DOMAIN doc) \ {{}} :
        \A x \in set : Children(doc, x) \cap set # {}

\* A commit overflows the stack only when its base was published with records
\* that are their own descendants; a candidate's own loop is published.
OverflowNeedsPublishedLoop ==
    crashed => \E i \in DOMAIN published : HasLoop(DocOf(i))
=============================================================================
