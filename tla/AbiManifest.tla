---------------------------- MODULE AbiManifest ----------------------------
(***************************************************************************)
(* The layout manifest of the C boundary, from the declarations to the     *)
(* libraries that ship.                                                    *)
(*                                                                         *)
(* A binding reads foreign memory at the offsets of the manifest committed *)
(* with the library, and nothing checks it while it reads.  What stands in *)
(* between is a developer, who edits declarations, the description the     *)
(* manifest is written from, and the ABI the build guard names, in any     *)
(* order, and regenerates the manifest on any machine; the gates, which    *)
(* run on the machine of the release; and the guard, which is all that a   *)
(* cross-compiled build evaluates.                                         *)
(***************************************************************************)
EXTENDS Integers, FiniteSetsExt, SequencesExt

CONSTANTS
    Abi,              \* targets: [pointer_width, u64_align, endian]
    Declarations,     \* what the source may declare: type to its members
    GateAbi,          \* the machine on which the release runs the gates
    Enums,            \* the declared types that are enums
    None              \* nothing shipped; no target block

VARIABLES
    declared,         \* the declarations, an element of Declarations
    described,        \* type to the names of the members the manifest lists
    manifest,         \* the committed manifest: [target, entries]
    guard,            \* the ABI the build guard compares with
    shipped           \* the library shipped last: [abi, declared, manifest]

vars == <<declared, described, manifest, guard, shipped>>

ASSUME AbiAssumption ==
    /\ GateAbi \in Abi
    /\ None \notin Abi
    /\ \A d, e \in Declarations : DOMAIN d = DOMAIN e

-----------------------------------------------------------------------------
\* Sizes and alignments that do not come from a declaration.
Scalars(abi) ==
    LET word == [size  |-> abi.pointer_width \div 8,
                 align |-> abi.pointer_width \div 8]
        wide == [size |-> 8, align |-> abi.u64_align]
    IN  [u8      |-> [size |-> 1, align |-> 1],
         u16     |-> [size |-> 2, align |-> 2],
         u64     |-> wide,
         usize   |-> word,
         pointer |-> word]

Up(n, align) == ((n + align - 1) \div align) * align

MemberNames(members) == {members[i].name : i \in DOMAIN members}

\* The places of the members, by their names.
ByName(members, place) ==
    [name \in MemberNames(members) |->
        place[CHOOSE i \in DOMAIN members : members[i].name = name]]

\* repr(C): each member at the next multiple of its alignment.
Struct(members, of) ==
    LET Put(end, m) == Up(end, of[m.type].align) + of[m.type].size
        End(i) == FoldLeft(Put, 0, SubSeq(members, 1, i))
        place == [i \in DOMAIN members |->
                    Up(End(i - 1), of[members[i].type].align)]
        align == Max({1} \cup {of[members[i].type].align : i \in DOMAIN members})
    IN  [size |-> Up(End(Len(members)), align), align |-> align,
         at   |-> ByName(members, place)]

\* repr(u8): each variant is its position.
Enum(members) ==
    [size |-> 1, align |-> 1,
     at   |-> ByName(members, [i \in DOMAIN members |-> i - 1])]

\* A declared type, given the layouts of what it is made of.
Layout(t, members, of) == IF t \in Enums THEN Enum(members) ELSE Struct(members, of)

\* Sizes and alignments, from the scalars up.
Sizes(scalars, declarations) ==
    LET of[t \in DOMAIN scalars \cup DOMAIN declarations] ==
            IF t \in DOMAIN declarations
            THEN Layout(t, declarations[t], of)
            ELSE scalars[t]
    IN  of

\* What the compiler makes of the declarations.
Compiled(abi, declarations) ==
    [t \in DOMAIN declarations |->
        Layout(t, declarations[t], Sizes(Scalars(abi), declarations))]

Names(declarations) ==
    [t \in DOMAIN declarations |-> MemberNames(declarations[t])]

\* Mutant: the enums are left out.
ManifestOfStructs(abi) ==
    [target  |-> abi,
     entries |-> [t \in DOMAIN declared \ Enums |->
                    [Compiled(abi, declared)[t] EXCEPT
                       !.at = Restrict(@, described[t])]]]

\* manifest_json, for a target.
Manifest(abi) ==
    [target  |-> abi,
     entries |-> [t \in DOMAIN declared |->
                    [Compiled(abi, declared)[t] EXCEPT
                       !.at = Restrict(@, described[t])]]]

-----------------------------------------------------------------------------
\* Mutant: the pointer width is taken to follow from the alignment.
AbiEqByAlign(a, b) == a.endian = b.endian /\ a.u64_align = b.u64_align

AbiEq(a, b) ==
    /\ a.endian = b.endian
    /\ a.pointer_width = b.pointer_width
    /\ a.u64_align = b.u64_align

\* The crate compiles: the guard holds, and no offset is asked of a member
\* that is not declared.
Compiles(abi) ==
    /\ AbiEq(abi, guard)
    /\ \A t \in DOMAIN described : described[t] \subseteq Names(declared)[t]

\* Mutant: a manifest is regenerated before its ABI is looked at.
AnyTarget(abi) == TRUE

\* A manifest may be replaced by one of an ABI with its widths, or if it has no
\* target block.  The order of bytes is not looked at.
SameWidths(abi) ==
    manifest.target # None =>
        /\ manifest.target.pointer_width = abi.pointer_width
        /\ manifest.target.u64_align = abi.u64_align

\* every_abi_type_the_ir_publishes_is_in_the_manifest
Complete ==
    \A t \in DOMAIN declared : Names(declared)[t] \subseteq described[t]

\* Mutant: the source is not scanned for members the manifest lacks.
GatesButCompleteness ==
    /\ Compiles(GateAbi)
    /\ manifest = Manifest(GateAbi)
    /\ manifest.target = guard

\* The tests of the crate, where they run for a release.
Gates ==
    /\ Compiles(GateAbi)
    /\ manifest = Manifest(GateAbi)
    /\ Complete
    /\ manifest.target = guard
    /\ GateAbi = guard

-----------------------------------------------------------------------------
\* The source is edited.
Declare(declarations) ==
    /\ declared' = declarations
    /\ UNCHANGED <<described, manifest, guard, shipped>>

\* The fields listed for a struct, or the variants for an enum, are.
Describe(t) ==
    /\ described' = [described EXCEPT ![t] = Names(declared)[t]]
    /\ UNCHANGED <<declared, manifest, guard, shipped>>

\* MANIFEST_ABI is edited.
Retarget(abi) ==
    /\ guard' = abi
    /\ UNCHANGED <<declared, described, manifest, shipped>>

\* the_committed_layout_matches_the_compiled_one, with UPDATE_ABI set: the test
\* rewrites the manifest and fails.
Regenerate(abi) ==
    /\ Compiles(abi)
    /\ manifest # Manifest(abi)
    /\ SameWidths(abi)
    /\ manifest' = Manifest(abi)
    /\ UNCHANGED <<declared, described, guard, shipped>>

\* A release: the gates on their machine, then a build that runs none of them.
Ship(abi) ==
    /\ Gates
    /\ Compiles(abi)
    /\ shipped' = [abi |-> abi, declared |-> declared, manifest |-> manifest]
    /\ UNCHANGED <<declared, described, manifest, guard>>

\* The first manifest may be older than the target block.
Init ==
    /\ declared \in Declarations
    /\ described = Names(declared)
    /\ guard = GateAbi
    /\ \/ manifest = Manifest(GateAbi)
       \/ manifest = [Manifest(GateAbi) EXCEPT !.target = None]
    /\ shipped = None

Next ==
    \/ \E declarations \in Declarations : Declare(declarations)
    \/ \E t \in DOMAIN declared : Describe(t)
    \/ \E abi \in Abi : Retarget(abi) \/ Regenerate(abi) \/ Ship(abi)

Spec == Init /\ [][Next]_vars

-----------------------------------------------------------------------------
\* The declarations are some that the source may hold, and every entry of the
\* manifest is of a declared type.
TypeOK ==
    /\ declared \in Declarations
    /\ DOMAIN described = DOMAIN declared
    /\ DOMAIN manifest.entries = DOMAIN declared
    /\ manifest.target \in Abi \cup {None}
    /\ guard \in Abi

\* The manifest a library ships with gives the size of every type and the
\* place of every member as that library has them, on whichever target, and
\* leaves out no member that was added (layout.rs, "a binding generated from
\* the wrong manifest reads the wrong bytes and reports nothing").
ShippedReadsAreExact ==
    shipped # None =>
        shipped.manifest.entries = Compiled(shipped.abi, shipped.declared)

\* A manifest that says its ABI is never turned into one whose offsets differ
\* for the same declarations, on whatever machine and after whatever edits of
\* the guard (layout_gates.rs: regenerating "would replace one ABI's answer
\* with another's").
OffsetsStayTheAbis ==
    [][manifest.target # None /\ manifest' # manifest =>
          Compiled(manifest'.target, declared)
             = Compiled(manifest.target, declared)]_vars
=============================================================================
