--------------------------- MODULE MC_AbiManifest ---------------------------
(* A small instance of AbiManifest: the types a delta and a borrowed view are
   made of, four ABIs, and the edits that are hard to see in a size. *)
EXTENDS AbiManifest

Target(pointer_width, u64_align, endian) ==
    [pointer_width |-> pointer_width, u64_align |-> u64_align, endian |-> endian]

Common == Target(64, 8, "little")
AndroidX86 == Target(32, 4, "little")
Armv7 == Target(32, 8, "little")
BigEndian == Target(64, 8, "big")

MCAbi == {Common, AndroidX86, Armv7, BigEndian}

M(name, type) == [name |-> name, type |-> type]

Base ==
    [Part     |-> <<M("Structure", "u8"), M("Text", "u8"), M("Descendant", "u8")>>,
     Id       |-> <<M("domain", "u64"), M("ordinal", "u64")>>,
     Address  |-> <<M("space", "u8"), M("id", "Id")>>,
     Diff     |-> <<M("address", "Address"), M("parts", "u16")>>,
     CirBytes |-> <<M("ptr", "pointer"), M("len", "usize")>>]

\* Two fields swapped, a field added where there was padding, and a variant put
\* between others: no size changes.
Swapped == [Base EXCEPT !.Address = Reverse(@)]
Grown == [Base EXCEPT !.Diff = Append(@, M("depth", "u16"))]
Inserted ==
    [Base EXCEPT !.Part = <<M("Structure", "u8"), M("Paint", "u8"),
                            M("Text", "u8"), M("Descendant", "u8")>>]

MCDeclarations == {Base, Swapped, Grown, Inserted}
MCEnums == {"Part"}

\* The sizes the documentation gives (composition-ir.md 9.1).
ASSUME
    /\ Compiled(Common, Base)["Diff"].size = 32
    /\ Compiled(Common, Base)["Address"].at["id"] = 8
    /\ Compiled(AndroidX86, Base)["Diff"].size = 24
    /\ Compiled(AndroidX86, Base)["Address"].at["id"] = 4
    /\ \A d \in MCDeclarations, t \in DOMAIN Base :
          Compiled(Common, d)[t].size = Compiled(Common, Base)[t].size
=============================================================================
