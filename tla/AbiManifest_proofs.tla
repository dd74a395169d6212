------------------------- MODULE AbiManifest_proofs -------------------------
(***************************************************************************)
(* A manifest stays the manifest of its ABI, and what ships is as its      *)
(* manifest says, for any targets, declarations and edits, whoever         *)
(* regenerates it and on whatever machine.                                 *)
(***************************************************************************)
EXTENDS AbiManifest, TLAPS

\* Of an ABI, the two widths decide every offset.
LEMMA WidthsDecide ==
    ASSUME NEW a, NEW b, NEW declarations,
           a.pointer_width = b.pointer_width, a.u64_align = b.u64_align
    PROVE  Compiled(a, declarations) = Compiled(b, declarations)
<1>1. Scalars(a) = Scalars(b)
  BY DEF Scalars
<1> QED
  BY <1>1 DEF Compiled

\* A type is laid out with a place for each of its members and for no other,
\* whatever it is made of.
LEMMA LayoutNames ==
    ASSUME NEW t, NEW members, NEW of
    PROVE  LET laid == Layout(t, members, of)
           IN  laid = [size |-> laid.size, align |-> laid.align,
                       at |-> [name \in MemberNames(members) |-> laid.at[name]]]
<1> DEFINE At(place) == [name \in MemberNames(members) |-> ByName(members, place)[name]]
<1>1. \A place : ByName(members, place) = At(place)
  BY DEF ByName
<1>2. \E size, align, place :
         Struct(members, of) = [size |-> size, align |-> align,
                                at |-> ByName(members, place)]
  BY Zenon DEF Struct
<1>3. \E size, align, place :
         Enum(members) = [size |-> size, align |-> align,
                          at |-> ByName(members, place)]
  BY Zenon DEF Enum
<1>4. PICK size, align, place :
         Layout(t, members, of) = [size |-> size, align |-> align,
                                   at |-> ByName(members, place)]
  BY <1>2, <1>3 DEF Layout
<1> HIDE DEF At
<1>5. Layout(t, members, of).at = ByName(members, place)
  BY <1>4
<1>6. ByName(members, place)
        = [name \in MemberNames(members) |-> ByName(members, place)[name]]
  BY <1>1 DEF At
<1> QED
  BY <1>4, <1>5, <1>6

\* A manifest that lists every member that is declared, and no other, leaves
\* nothing out of the layouts.
LEMMA CompleteIsCompiled ==
    ASSUME DOMAIN described = DOMAIN declared, Complete,
           \A t \in DOMAIN described : described[t] \subseteq Names(declared)[t],
           NEW abi
    PROVE  Manifest(abi).entries = Compiled(abi, declared)
<1> DEFINE all == Compiled(abi, declared)
<1>1. ASSUME NEW t \in DOMAIN declared
      PROVE  [all[t] EXCEPT !.at = Restrict(@, described[t])] = all[t]
  <2>1. described[t] = MemberNames(declared[t])
    BY DEF Complete, Names
  <2>2. all[t] = Layout(t, declared[t], Sizes(Scalars(abi), declared))
    BY DEF Compiled
  <2>3. PICK l : l = all[t]
    OBVIOUS
  <2>4. l = [size |-> l.size, align |-> l.align,
             at |-> [name \in MemberNames(declared[t]) |-> l.at[name]]]
    BY <2>2, <2>3, LayoutNames
  <2>5. Restrict(l.at, described[t]) = [name \in MemberNames(declared[t]) |-> l.at[name]]
    BY <2>1 DEF Restrict
  <2>6. [l EXCEPT !.at = Restrict(l.at, described[t])] = l
    BY <2>4, <2>5
  <2> HIDE DEF all
  <2> QED
    BY <2>3, <2>6
<1>2. all = [t \in DOMAIN declared |-> all[t]]
  BY DEF Compiled
<1>3. Manifest(abi).entries =
        [t \in DOMAIN declared |-> [all[t] EXCEPT !.at = Restrict(@, described[t])]]
  BY DEF Manifest
<1> HIDE DEF all
<1>4. Manifest(abi).entries = all
  BY <1>1, <1>2, <1>3
<1> QED
  BY <1>4 DEF all

\* Manifests have a target, or say none, and an entry for every type.
LEMMA ManifestFacts ==
    ASSUME NEW abi \in Abi
    PROVE  /\ Manifest(abi).target = abi
           /\ DOMAIN Manifest(abi).entries = DOMAIN declared
           /\ [Manifest(abi) EXCEPT !.target = None].target = None
           /\ DOMAIN [Manifest(abi) EXCEPT !.target = None].entries
                = DOMAIN declared
  BY DEF Manifest

\* The first manifest, whether or not it says its ABI.
LEMMA TypeInit == Init => TypeOK
<1> SUFFICES ASSUME Init PROVE TypeOK
  OBVIOUS
<1>1. declared \in Declarations /\ guard \in Abi
  BY AbiAssumption DEF Init
<1>2. DOMAIN described = DOMAIN declared
  BY DEF Init, Names
<1>3. DOMAIN manifest.entries = DOMAIN declared /\ manifest.target \in Abi \cup {None}
  BY AbiAssumption, ManifestFacts DEF Init
<1> QED
  BY <1>1, <1>2, <1>3 DEF TypeOK

\* No edit, regeneration or release leaves the types that are declared.
LEMMA TypeStep == TypeOK /\ [Next]_vars => TypeOK'
<1> SUFFICES ASSUME TypeOK, [Next]_vars
             PROVE  TypeOK'
  OBVIOUS
<1> USE DEF TypeOK
<1>1. ASSUME NEW declarations \in Declarations, Declare(declarations)
      PROVE  TypeOK'
  BY <1>1, AbiAssumption DEF Declare
<1>2. ASSUME NEW t \in DOMAIN declared, Describe(t)
      PROVE  TypeOK'
  BY <1>2 DEF Describe
<1>3. ASSUME NEW abi \in Abi, Retarget(abi)
      PROVE  TypeOK'
  BY <1>3 DEF Retarget
<1>4. ASSUME NEW abi \in Abi, Regenerate(abi)
      PROVE  TypeOK'
  BY <1>4, ManifestFacts DEF Regenerate
<1>5. ASSUME NEW abi \in Abi, Ship(abi)
      PROVE  TypeOK'
  BY <1>5 DEF Ship
<1>6. CASE UNCHANGED vars
  BY <1>6 DEF vars
<1> QED
  BY <1>1, <1>2, <1>3, <1>4, <1>5, <1>6 DEF Next

\* Every entry of the manifest is of a declared type, and its target is an ABI
\* there is (layout.rs, manifest_json).
THEOREM TypeCorrect == Spec => []TypeOK
  BY TypeInit, TypeStep, PTL DEF Spec

\* A library ships only after gates that compared the manifest with their own
\* compiler and with the source, and only for an ABI that has the widths of
\* theirs.
LEMMA ShipsExact ==
    ASSUME TypeOK, NEW abi, Ship(abi)
    PROVE  manifest.entries = Compiled(abi, declared)
<1>1. /\ manifest = Manifest(GateAbi) /\ Complete
      /\ \A t \in DOMAIN described : described[t] \subseteq Names(declared)[t]
      /\ abi.pointer_width = GateAbi.pointer_width
      /\ abi.u64_align = GateAbi.u64_align
  BY DEF Ship, Gates, Compiles, AbiEq
<1>2. manifest.entries = Compiled(GateAbi, declared)
  BY <1>1, CompleteIsCompiled DEF TypeOK
<1> QED
  BY <1>1, <1>2, WidthsDecide

\* The manifest a library ships with gives the size of every type and the
\* place of every member as that library has them, whichever its target, for
\* any declarations, edits and machines (layout.rs, the assertion on
\* target_abi; release.yml, the gates before the bundle).
THEOREM ShippedSafe == Spec => []ShippedReadsAreExact
<1>1. Init => ShippedReadsAreExact
  BY DEF Init, ShippedReadsAreExact
<1>2. TypeOK /\ ShippedReadsAreExact /\ [Next]_vars => ShippedReadsAreExact'
  <2> SUFFICES ASSUME TypeOK, ShippedReadsAreExact, [Next]_vars
               PROVE  ShippedReadsAreExact'
    OBVIOUS
  <2>1. ASSUME NEW abi \in Abi, Ship(abi) PROVE ShippedReadsAreExact'
    <3>1. shipped' = [abi |-> abi, declared |-> declared, manifest |-> manifest]
      BY <2>1 DEF Ship
    <3>2. /\ shipped'.abi = abi /\ shipped'.declared = declared
          /\ shipped'.manifest = manifest
      BY <3>1
    <3> QED
      BY <2>1, <3>2, ShipsExact DEF ShippedReadsAreExact
  <2>2. ASSUME shipped' = shipped PROVE ShippedReadsAreExact'
    BY <2>2 DEF ShippedReadsAreExact
  <2> QED
    BY <2>1, <2>2 DEF Next, vars, Declare, Describe, Retarget, Regenerate
<1> QED
  BY <1>1, <1>2, TypeCorrect, PTL DEF Spec

\* No edit, guard or machine turns a manifest that says its ABI into one whose
\* offsets differ for the same declarations (layout_gates.rs: regenerating
\* "would replace one ABI's answer with another's").
THEOREM OffsetsSafe == Spec => OffsetsStayTheAbis
<1> DEFINE Stays == manifest.target # None /\ manifest' # manifest =>
                       Compiled(manifest'.target, declared)
                          = Compiled(manifest.target, declared)
<1>1. [Next]_vars => Stays
  <2> SUFFICES ASSUME [Next]_vars, manifest.target # None, manifest' # manifest
               PROVE  Compiled(manifest'.target, declared)
                         = Compiled(manifest.target, declared)
    OBVIOUS
  <2>1. PICK abi \in Abi : Regenerate(abi)
    BY DEF Next, vars, Declare, Describe, Retarget, Ship
  <2>2. manifest'.target = abi
    BY <2>1, ManifestFacts DEF Regenerate
  <2>3. /\ manifest.target.pointer_width = abi.pointer_width
        /\ manifest.target.u64_align = abi.u64_align
    BY <2>1 DEF Regenerate, SameWidths
  <2> QED
    BY <2>2, <2>3, WidthsDecide
<1>2. [Next]_vars => [Stays]_vars
  BY <1>1
<1> QED
  BY <1>2, PTL DEF Spec, OffsetsStayTheAbis
=============================================================================
