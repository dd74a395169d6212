------------------------------ MODULE Frontend ------------------------------
(***************************************************************************)
(* A frontend session, and the adapter that publishes its tree.            *)
(*                                                                         *)
(* The session reparses a source of lines, gives each written line an      *)
(* identity, and reports which identities a reparse touched and retired.   *)
(* The adapter turns the tree into records by one of two routes: from the  *)
(* report, or in full.  The host adapts when it likes.  It uses a report   *)
(* only on the snapshot adapted from the tree before that report, or again *)
(* on the snapshot it has just made from it, and a report may name more    *)
(* than was touched.  When a report is lost the full route is what is left.*)
(*                                                                         *)
(* A line is what the parser tells apart of it: its kind, its text, the    *)
(* characters of the text, their bytes, and the reference it carries.      *)
(* Spans are computed as if every line ended in one byte.                  *)
(***************************************************************************)
EXTENDS Projection, PlacementQuery, SourceOffsets

CONSTANTS
    Line,             \* the lines that are not blank
    Blank,            \* a line of white space
    CharsOf(_),       \* the characters of a line
    Ink(_),           \* the paint of a kind
    Sources,          \* bound: the sources a host sets
    MaxId,            \* bound: identities the session gives out
    MaxRevision       \* bound: revisions published

VARIABLES
    source,           \* Seq of lines
    next_id,          \* the last identity given out
    nodes,            \* the tree: Seq of [id, line, span]
    report,           \* what the last reparse touched and retired
    gone,             \* bookkeeping: the identities retired so far
    behind,           \* reparses since the snapshot was adapted, up to 2
    route,            \* which route adapted it
    snapshot          \* [revision, records, roots, placement]

vars == <<source, next_id, nodes, report, gone, behind, route, snapshot>>

session == <<source, next_id, nodes, report, gone>>

ASSUME FrontendAssumption ==
    /\ MaxId \in Nat \ {0}
    /\ MaxRevision \in Nat \ {0}
    /\ Address = 1..MaxId
    /\ Blank \notin Line
    /\ \A l \in Line \cup {Blank} :
          CharsOf(l) \in Seq(Char) /\ l.width = Width(CharsOf(l), "utf8")
    /\ Sources \subseteq Seq(Line \cup {Blank})

\* What the parser tells apart of a line it reads off the text of the line.
ASSUME LineAssumption == \A l, m \in Line : l.text = m.text => l = m

Ids(tree) == {tree[k].id : k \in DOMAIN tree}

-----------------------------------------------------------------------------
\* A line keeps the identity of the node with the line's number, if there is
\* one and it has the line's kind.  Blank lines have a number and no node.
Keeps(old, src, i) == i \in DOMAIN old /\ old[i].line.kind = src[i].kind

Written(src) == {i \in DOMAIN src : src[i] # Blank}

NewUpTo(old, src, i) == {j \in Written(src) : j <= i /\ ~ Keeps(old, src, j)}

\* Mutant: numbering goes on from the largest identity still in the tree.
NumberedFromLive(old, last, src, i) ==
    IF Keeps(old, src, i)
    THEN old[i].id
    ELSE Max(Ids(old) \cup {0}) + Cardinality(NewUpTo(old, src, i))

\* Mutant: the lines of one reparse share their new identity.
OneNewIdentity(old, last, src, i) ==
    IF Keeps(old, src, i) THEN old[i].id ELSE last + 1

IdAt(old, last, src, i) ==
    IF Keeps(old, src, i)
    THEN old[i].id
    ELSE last + Cardinality(NewUpTo(old, src, i))

\* Mutant: the end of a line is not counted.
StartUnended(src, i) ==
    FoldLeft(LAMBDA at, l : at + l.width, 0, SubSeq(src, 1, i - 1))

\* Where a line starts, if every line end is one byte.
Start(src, i) ==
    FoldLeft(LAMBDA at, l : at + l.width + 1, 0, SubSeq(src, 1, i - 1))

Parse(old, last, src) ==
    LET order == Increasing(Written(src))
        MdNode(i) ==
            [id   |-> IdAt(old, last, src, i),
             line |-> src[i],
             span |-> <<Start(src, i), Start(src, i) + src[i].width>>]
    IN  [k \in DOMAIN order |-> MdNode(order[k])]

\* Mutant: a node whose line changed in place is not reported.
ReportedNew(old, new) ==
    [touched |-> Ids(new) \ Ids(old), retired |-> Ids(old) \ Ids(new)]

\* What a reparse reports: every node that is not an old one with its text
\* and kind, and every old identity that is no longer in the tree.
Reported(old, new) ==
    [touched |-> {n.id : n \in {m \in Range(new) :
                    ~ \E o \in Range(old) :
                        /\ o.id = m.id
                        /\ o.line.text = m.line.text
                        /\ o.line.kind = m.line.kind}},
     retired |-> Ids(old) \ Ids(new)]

\* MdSession::set_source
SetSource(src) ==
    LET tree == Parse(nodes, next_id, src)
        last == next_id + Cardinality(NewUpTo(nodes, src, Len(src)))
    IN  /\ last <= MaxId
        /\ source' = src
        /\ next_id' = last
        /\ nodes' = tree
        /\ report' = Reported(nodes, tree)
        /\ gone' = gone \cup (Ids(nodes) \ Ids(tree))
        /\ behind' = Min({behind + 1, 2})
        /\ UNCHANGED <<route, snapshot>>

-----------------------------------------------------------------------------
\* The record of a node: the fields a frontend does not set have their default.
Project(n) ==
    [children |-> <<>>, text |-> n.line.text, text_map |-> "", font |-> "",
     intrinsic |-> n.line.width, lines |-> 0, paint |-> Ink(n.line.kind),
     resources |-> <<>>, fragments |-> <<>>,
     interaction |-> n.line.reference, source_link |-> n.id, valid |-> TRUE]

\* The records of some of the nodes of a tree.
Projected(tree, ids) ==
    [x \in Ids(tree) \cap ids |->
        Project(CHOOSE n \in Range(tree) : n.id = x)]

NodeBox(n) == [x |-> 0, y |-> 0, width |-> n.line.width, height |-> 16]

\* Every node is boxed, in order.
Placed(placement, tree) ==
    [placement EXCEPT
       !.boxes = @ \o [k \in DOMAIN tree |->
                          [address |-> tree[k].id, box |-> NodeBox(tree[k])]]]

\* The roots after some addresses were removed and the first node was rooted.
Rooted(roots, removed, tree) ==
    LET kept == At(roots, {k \in DOMAIN roots : roots[k] \notin removed})
    IN  IF tree = <<>> THEN kept ELSE Append(kept, Head(tree).id)

\* A builder on base, after records were removed and others put.
Edited(base, removed, put, placement, tree) ==
    [records   |-> [x \in (DOMAIN base.records \ removed) \cup DOMAIN put |->
                      IF x \in DOMAIN put THEN put[x] ELSE base.records[x]],
     roots     |-> Rooted(base.roots, removed, tree),
     placement |-> placement]

\* Mutant: boxes are pushed after those of the snapshot before.
FromReportUnreset(base, tree, retired, touched) ==
    Edited(base, retired, Projected(tree, touched),
           Placed(base.placement, tree), tree)

\* adapt: placement is rebuilt from the current order.
FromReport(base, tree, retired, touched) ==
    Edited(base, retired, Projected(tree, touched),
           Placed(EmptyPlacement, tree), tree)

\* adapt_full: every record is put again, and the boxes are pushed after those
\* the base already has.
InFull(base, tree) ==
    Edited(base, DOMAIN base.records \ Ids(tree), Projected(tree, Ids(tree)),
           Placed(base.placement, tree), tree)

\* Mutant: a commit that only added a root is published.
PublishesRoots(base, edited) ==
    \/ DiffsBetween(base.records, edited.records) # NoDiffs
    \/ edited.placement # base.placement
    \/ edited.roots # base.roots

\* The no-op test of SnapshotBuilder::commit.
Publishes(base, edited) ==
    \/ DiffsBetween(base.records, edited.records) # NoDiffs
    \/ edited.placement # base.placement

Commit(edited) ==
    /\ snapshot.revision < MaxRevision
    /\ snapshot' = IF Publishes(snapshot, edited)
                   THEN [revision  |-> snapshot.revision + 1,
                         records   |-> edited.records,
                         roots     |-> edited.roots,
                         placement |-> edited.placement]
                   ELSE snapshot
    /\ behind' = 0
    /\ UNCHANGED session

\* The report fits the snapshot; extra is what it names beyond need.
Adapt(extra) ==
    /\ behind <= 1
    /\ Commit(FromReport(snapshot, nodes, report.retired,
                         report.touched \cup extra))
    /\ route' = "report"

AdaptFull ==
    /\ Commit(InFull(snapshot, nodes))
    /\ route' = "full"

-----------------------------------------------------------------------------
Init ==
    /\ source = <<>>
    /\ next_id = 0
    /\ nodes = <<>>
    /\ report = [touched |-> {}, retired |-> {}]
    /\ gone = {}
    /\ behind = 0
    /\ route = "report"
    /\ snapshot = [revision  |-> 1,
                   records   |-> [x \in {} |-> {}],
                   roots     |-> <<>>,
                   placement |-> EmptyPlacement]

Next ==
    \/ \E src \in Sources : SetSource(src)
    \/ \E extra \in {{}, Address} : Adapt(extra)
    \/ AdaptFull

Spec == Init /\ [][Next]_vars

-----------------------------------------------------------------------------
\* A tree is the written lines of its source, under identities that were given
\* out, each to one node (fixture.rs, set_source).
TypeOK ==
    /\ source \in Sources \cup {<<>>}
    /\ next_id \in 0..MaxId
    /\ Len(nodes) = Cardinality(Written(source))
    /\ Ids(nodes) \subseteq 1..next_id
    /\ Cardinality(Ids(nodes)) = Len(nodes)
    /\ gone \subseteq 1..next_id
    /\ behind \in 0..2
    /\ snapshot.revision \in 1..MaxRevision
    /\ DOMAIN snapshot.records \subseteq 1..next_id

\* An identity that was retired never comes back, to the tree or to a snapshot
\* adapted from it, even when an equal line does (frontend-contract.md 2.1).
RetiredStaysRetired ==
    /\ Ids(nodes) \cap gone = {}
    /\ behind = 0 => DOMAIN snapshot.records \cap gone = {}

\* Whatever the host did before, and by either route, an adaptation leaves
\* exactly the records of the tree: no report left one out, none outlived its
\* node (adapter.rs, adapt and adapt_full).  The first node of the tree is a
\* root and no root is dead, though commits are compared without their roots
\* (snapshot.rs, commit) and adapting never takes a root back.
RecordsAreTheTree ==
    behind = 0 =>
        /\ snapshot.records = Projected(nodes, Ids(nodes))
        /\ nodes # <<>> => Head(nodes).id \in Range(snapshot.roots)
        /\ Range(snapshot.roots) \subseteq DOMAIN snapshot.records

\* Adapted from a report, every record is boxed as wide as its text, and no
\* box is left of a record that is gone.
BoxesFollowTheTree ==
    behind = 0 /\ route = "report" =>
        /\ {entry.address : entry \in Range(snapshot.placement.boxes)}
             = Ids(nodes)
        /\ \A n \in Range(nodes) : BoxOf(snapshot.placement, n.id) = NodeBox(n)

\* Adapting again, by report, what has not changed publishes nothing.
AdaptingAgainIsNoOp ==
    [][/\ route = "report" /\ route' = "report"
       /\ snapshot'.records = snapshot.records
       => snapshot' = snapshot]_vars

\* The identity of the node of the i-th line.
IdOfLine(src, tree, i) ==
    tree[Cardinality({j \in Written(src) : j <= i})].id

\* The characters of a source whose lines end in so many bytes.
TextOf(src, ending) ==
    FoldLeft(LAMBDA text, l :
                text \o CharsOf(l) \o [k \in 1..ending |-> [utf8 |-> 1, utf16 |-> 1]],
             <<>>, src)

\* A session that has read a source and adapted nothing yet: what offsets mean
\* depends on the source alone, and they are compared there.
FirstRead == behind = 1 /\ snapshot.revision = 1

\* In a source whose lines end in one byte, a caret that a UTF-16 host puts on
\* a character of a written line is found in the node of that line and in no
\* other line's, after a node nested in the line if it is in that one too; on
\* a blank line or a line end it is found in no line (fixture.rs, set_source;
\* candidate.rs, byte_offset_of and addresses_for_offset, "Innermost first").
\* Where lines end in two bytes it does not hold: spans count one.
CaretFindsItsLine ==
    FirstRead =>
    \A i \in DOMAIN source :
        LET chars  == CharsOf(source[i])
            text   == TextOf(source, 1)
            before == Len(TextOf(SubSeq(source, 1, i - 1), 1))
            In(k)  == Start(source, i) + UpTo(chars, k, "utf8")
            Nested(a, b) == [id |-> next_id + 1, span |-> <<In(a), In(b)>>]
            Found(k, nested) ==
                LET caret == Converted(text, "utf16", "utf8",
                                       UpTo(text, before + k, "utf16"))
                IN  AddressesForOffset(nodes \o <<nested>>, caret.offset)
            InLine == IF source[i] = Blank
                      THEN <<>> ELSE <<IdOfLine(source, nodes, i)>>
        IN  \A a, b \in 0..Len(chars) :
                a <= b /\ b - a < Len(chars) =>
                   /\ Found(Len(chars), Nested(a, b)) = <<>>
                   /\ \A k \in 0..(Len(chars) - 1) :
                        Found(k, Nested(a, b)) =
                            (IF a <= k /\ k < b THEN <<next_id + 1>> ELSE <<>>)
                               \o InLine

\* Offsets are converted, and refused, alike in either direction on every
\* source (candidate.rs, "Returns an error rather than rounding").
OffsetsConvertOrAreRefused ==
    FirstRead =>
    \A ending \in {1, 2} :
        /\ ConvertsWhereCharactersBegin(TextOf(source, ending), "utf8", "utf16")
        /\ ConvertsWhereCharactersBegin(TextOf(source, ending), "utf16", "utf8")

\* Where both routes are open they answer alike (frontend-contract.md 2.5,
\* "both routes produce an identical snapshot").
RoutesAgree ==
    behind = 1 =>
        LET one == FromReport(snapshot, nodes, report.retired, report.touched)
            all == InFull(snapshot, nodes)
        IN  /\ one.records = all.records
            /\ \A x \in DOMAIN one.records :
                  BoxOf(one.placement, x) = BoxOf(all.placement, x)

\* A line that keeps its kind and its position keeps its identity (fixture.rs,
\* set_source).
IdentityKeptInPlace ==
    [][\A i \in Written(source) \cap Written(source') :
          source[i].kind = source'[i].kind =>
             IdOfLine(source, nodes, i) = IdOfLine(source', nodes', i)]_vars
=============================================================================
