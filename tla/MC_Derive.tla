------------------------------ MODULE MC_Derive ------------------------------
(* A small instance of Derive: the readers of tests/derive_gates.rs, two that
   ask whether a record is live before they read it, and two that read what is
   below a record, one of which also reads what its children are. *)
EXTENDS Derive

CONSTANTS a1, a2, k1

Blank ==
    [children |-> <<>>, text |-> "", text_map |-> "", font |-> "",
     intrinsic |-> 0, lines |-> 0, paint |-> "black", resources |-> <<>>,
     fragments |-> <<>>, interaction |-> "", source_link |-> "",
     valid |-> TRUE]

Words == [Blank EXCEPT !.text = "words"]
Wide == [Blank EXCEPT !.intrinsic = 2, !.text = "words"]
Over == [Blank EXCEPT !.children = <<a2>>]
Red == [Blank EXCEPT !.paint = "red"]

MCAddress == {a1, a2}
MCNode == {Blank, Words, Wide, Red, Over}
MCKey == {k1}

Doc(one, two) == [x \in {y \in MCAddress : IF y = a1 THEN one # {} ELSE two # {}}
                    |-> CHOOSE n \in (IF x = a1 THEN one ELSE two) : TRUE]
MCPublishable ==
    {Doc({}, {}), Doc({Blank}, {}), Doc({Words}, {}), Doc({Red}, {Blank}),
     Doc({}, {Wide}), Doc({Over}, {Wide}), Doc({Over}, {Blank})}

MCLawRecipe ==
    {"text_of_one", "total_width", "slot_is_free", "live_text", "live_width"}
MCRecipe == MCLawRecipe \cup {"is_there", "text_below"}

Probe(x, doc) == Liveness(x, x \notin DOMAIN doc)

MCObservations(r, doc) ==
    CASE r = "text_of_one" -> {Read(a1, "Text")}
      [] r = "total_width" -> {Read(x, "IntrinsicLayout") : x \in MCAddress}
      [] r = "slot_is_free" -> {Probe(a2, doc)}
      [] r = "live_text" ->
            {Probe(a1, doc)} \cup {Read(x, "Text") : x \in {a1} \cap DOMAIN doc}
      [] r = "is_there" -> {Read(a1, "Descendant")}
      [] r = "text_below" -> {Read(a1, "Structure"), Read(a1, "Descendant")}
      [] r = "live_width" ->
            {Probe(x, doc) : x \in MCAddress}
            \cup {Read(x, "IntrinsicLayout") : x \in DOMAIN doc}

Width(doc) ==
    (IF a1 \in DOMAIN doc THEN doc[a1].intrinsic + 1 ELSE 0)
    + (IF a2 \in DOMAIN doc THEN 10 * (doc[a2].intrinsic + 1) ELSE 0)

MCValue(r, doc) ==
    CASE r \in {"text_of_one", "live_text"} ->
            {doc[x].text : x \in {a1} \cap DOMAIN doc}
      [] r \in {"total_width", "live_width"} -> {Width(doc)}
      [] r = "slot_is_free" -> {a2 \notin DOMAIN doc}
      [] r = "is_there" -> {a1 \in DOMAIN doc}
      [] r = "text_below" ->
            {doc[x].text : x \in Children(doc, a1) \cap DOMAIN doc}
=============================================================================
