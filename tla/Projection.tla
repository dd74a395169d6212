----------------------------- MODULE Projection -----------------------------
(***************************************************************************)
(* Records, their projection parts, and the membership law: which          *)
(* addresses differ between two document states, and in which parts.       *)
(*                                                                         *)
(* A document is the address-to-record map of one snapshot, as a partial   *)
(* function from Address to Node.  An address outside its domain is not    *)
(* live.  Everything here is a pure function of two documents, which is    *)
(* what the contract says of the delta.                                    *)
(*                                                                         *)
(* The source walks a subtree recursively.  Here subtree equality is the   *)
(* existence of a set of addresses that contains the root of the walk, is  *)
(* closed under the children of the old document, and on which the two     *)
(* documents agree record by record: it is what the walk computes whenever *)
(* the walk returns (CompositionIRLaws has the walk itself, and a run      *)
(* compares the two), and it can be proved about.                          *)
(***************************************************************************)
EXTENDS Ordered, Functions

CONSTANTS
    Address,    \* the addresses of the records, of every space
    Node        \* the record values that occur

(***************************************************************************)
(* A record has the twelve fields of the source.  Text, mappings, fonts,   *)
(* colours and links are opaque values compared for equality only.         *)
(***************************************************************************)
OwnParts ==
    {"Structure", "Text", "TextMap", "Shaping", "IntrinsicLayout",
     "LineLayout", "Fragmentation", "Paint", "Interaction", "SourceLink",
     "Validation"}

Parts == OwnParts \cup {"Descendant"}

\* The fields of a record.
Fields ==
    {"children", "text", "text_map", "font", "intrinsic", "lines", "paint",
     "resources", "fragments", "interaction", "source_link", "valid"}

ASSUME NodeAssumption ==
    \A n \in Node : n.children \in Seq(Address)

\* f is a map from some of the keys to values.
IsMap(f, keys, values) == DOMAIN f \subseteq keys /\ f \in [DOMAIN f -> values]

IsDocument(doc) == IsMap(doc, Address, Node)

\* s is a sequence, of whatever it holds.
IsSeq(s) == s \in Seq(Range(s))

\* Inserting into, and removing from, a persistent map.
With(f, x, v) == [y \in DOMAIN f \cup {x} |-> IF y = x THEN v ELSE f[y]]
Without(f, x) == Restrict(f, DOMAIN f \ {x})

-----------------------------------------------------------------------------
\* The projection a resource role participates in.
RolePart(role) == IF role = "Font" THEN "Shaping" ELSE "Paint"

\* The addresses, in order, of the resources that feed one part.
ResourcesFor(n, part) ==
    LET feeding == SelectSeq(n.resources, LAMBDA r : RolePart(r.role) = part)
    IN  [i \in DOMAIN feeding |-> feeding[i].address]

\* The projection of a record: what each own part is compared by.
Proj(n) ==
    [Structure       |-> n.children,
     Text            |-> n.text,
     TextMap         |-> n.text_map,
     Shaping         |-> <<n.font, n.text, ResourcesFor(n, "Shaping")>>,
     IntrinsicLayout |-> n.intrinsic,
     LineLayout      |-> n.lines,
     Fragmentation   |-> n.fragments,
     Paint           |-> <<n.paint, ResourcesFor(n, "Paint")>>,
     Interaction     |-> n.interaction,
     SourceLink      |-> n.source_link,
     Validation      |-> n.valid]

PartEq(m, n, p) == Proj(m)[p] = Proj(n)[p]

\* Every own part is equal.
OwnEq(m, n) == Proj(m) = Proj(n)

-----------------------------------------------------------------------------
Children(doc, x) == IF x \in DOMAIN doc THEN Range(doc[x].children) ELSE {}

\* The walk passes x: absent from both, or live in both with equal own parts.
Agrees(before, after, x) ==
    \/ x \notin DOMAIN before /\ x \notin DOMAIN after
    \/ /\ x \in DOMAIN before \cap DOMAIN after
       /\ OwnEq(before[x], after[x])

\* A set of addresses on which a walk can stay for ever without a difference.
Closed(before, after, set) ==
    \A y \in set : Agrees(before, after, y) /\ Children(before, y) \subseteq set

\* Mutant: an untouched record is taken for an untouched subtree.
SubtreeEqByRecord(before, after, x) == Agrees(before, after, x)

SubtreeEq(before, after, x) ==
    \E set \in SUBSET Address : x \in set /\ Closed(before, after, set)

\* Mutant: only the children that are still live are looked at.
DescendantDiffersLive(before, after, x) ==
    \E c \in Children(after, x) \cap DOMAIN after : ~ SubtreeEq(before, after, c)

DescendantDiffers(before, after, x) ==
    \E c \in Children(before, x) \cup Children(after, x) :
        ~ SubtreeEq(before, after, c)

\* Mutant: a created address carries only the parts of an empty record.
PartsOfCreatedAsEmpty(before, after, x) ==
    IF x \notin DOMAIN after
    THEN {}
    ELSE {p \in OwnParts : x \in DOMAIN before /\ ~ PartEq(before[x], after[x], p)}
         \cup {p \in {"Descendant"} : DescendantDiffers(before, after, x)}

\* The parts of a changed address: none once retired, every own part when it
\* is created, the differing ones otherwise, and Descendant when something
\* below differs.
PartsOf(before, after, x) ==
    IF x \notin DOMAIN after
    THEN {}
    ELSE {p \in OwnParts :
              x \in DOMAIN before => ~ PartEq(before[x], after[x], p)}
         \cup {p \in {"Descendant"} : DescendantDiffers(before, after, x)}

\* Mutant: only the addresses of the new document are looked at.
DiffsOfLive(before, after) ==
    [x \in {y \in DOMAIN after : ~ SubtreeEq(before, after, y)}
        |-> PartsOf(before, after, x)]

\* The differences, as a function from each changed address to its parts.
\* The source lists them in address order, on which nothing here depends.
DiffsBetween(before, after) ==
    [x \in {y \in DOMAIN before \cup DOMAIN after :
                ~ SubtreeEq(before, after, y)}
        |-> PartsOf(before, after, x)]

NoDiffs == [x \in {} |-> {}]

\* Mutant: children are walked before the records are compared, and in the
\* new document.
WalkDivergesInAfter(before, after) ==
    \E set \in (SUBSET (DOMAIN before \cap DOMAIN after)) \ {{}} :
        \A x \in set : Children(after, x) \cap set # {}

\* The walk does not return: some live address it starts from leads, through
\* own-equal records, back into a set it never leaves.  A child counts only if
\* the children before it compared equal, since the walk stops at the first
\* one that differs.
WalkDiverges(before, after) ==
    \E set \in (SUBSET (DOMAIN before \cap DOMAIN after)) \ {{}} :
        \A x \in set :
            /\ OwnEq(before[x], after[x])
            /\ \E i \in DOMAIN before[x].children :
                  /\ before[x].children[i] \in set
                  /\ \A j \in 1..(i - 1) :
                        SubtreeEq(before, after, before[x].children[j])
=============================================================================
