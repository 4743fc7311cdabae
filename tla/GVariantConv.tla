----------------------------- MODULE GVariantConv -----------------------------
(***************************************************************************)
(* gvariant_to_variant() and gvariant_dict_to_dictionary(): what becomes   *)
(* of a D-Bus value on its way to a game.                                  *)
(*                                                                         *)
(* A GVariant is its class, its number if it is basic, and its children.   *)
(* Classes that are converted alike are one class here: "int" stands for   *)
(* y n q i u x h, "string" for s o g; b, d and t are their own.  Of the    *)
(* arrays "bytes" is ay, "dict" is a{**}, whose children are entries, and  *)
(* "array" is any other.  A Variant is a type, a number and items.         *)
(***************************************************************************)
EXTENDS Integers, Sequences, FiniteSets, SequencesExt

CONSTANT INT64_MAX    \* scaled down; a 64-bit unsigned number goes up to twice that and one
ASSUME WidthAssumption == INT64_MAX \in Nat

Basic(class, number) == [class |-> class, number |-> number, children |-> <<>>]
Container(class, children) == [class |-> class, number |-> 0, children |-> children]

Variant(type, number, items) == [type |-> type, number |-> number, items |-> items]
Null == Variant("NIL", 0, <<>>)

\* Mutant: t wraps.
Wrapped(number) == IF number > INT64_MAX THEN number - (2 * INT64_MAX + 2) ELSE number

\* D-Bus t can exceed int64.
Clamped(number) == IF number > INT64_MAX THEN INT64_MAX ELSE number

TypeOf == [boolean |-> "BOOL", int |-> "INT", uint64 |-> "INT", double |-> "FLOAT",
           string |-> "STRING"]

\* Mutant: the first of two equal keys is kept.
KeepEntry(dictionary, key, value) ==
  IF \E i \in DOMAIN dictionary : dictionary[i][1] = key
    THEN dictionary ELSE Append(dictionary, <<key, value>>)

\* dictionary[key] = value: a key keeps its place, and has its last value.
SetEntry(dictionary, key, value) ==
  IF \E i \in DOMAIN dictionary : dictionary[i][1] = key
    THEN [i \in DOMAIN dictionary |->
            IF dictionary[i][1] = key THEN <<key, value>> ELSE dictionary[i]]
    ELSE Append(dictionary, <<key, value>>)

RECURSIVE ToVariant(_)

ToItems(g) == [i \in DOMAIN g.children |-> ToVariant(g.children[i])]

\* gvariant_dict_to_dictionary(); an item of a dictionary is the pair of key and value.
ToDictionary(g) ==
  FoldLeft(LAMBDA dictionary, entry :
             SetEntry(dictionary, ToVariant(entry.children[1]), ToVariant(entry.children[2])),
           <<>>, g.children)

\* bytes_to_packed()
ToBytes(g) == [i \in DOMAIN g.children |-> g.children[i].number]

ToVariant(g) ==
  CASE g.class \in {"boolean", "int", "double", "string"} ->
         Variant(TypeOf[g.class], g.number, <<>>)
    [] g.class = "uint64" -> Variant("INT", Clamped(g.number), <<>>)
    [] g.class \in {"variant", "maybe"} ->
         IF g.children = <<>> THEN Null ELSE ToVariant(g.children[1])
    [] g.class = "dict" -> Variant("DICTIONARY", 0, ToDictionary(g))
    [] g.class = "bytes" -> Variant("PACKED_BYTE_ARRAY", 0, ToBytes(g))
    [] g.class \in {"array", "tuple", "entry"} -> Variant("ARRAY", 0, ToItems(g))

-----------------------------------------------------------------------------
(* What a value says: where in it which basic values are.  A place is the  *)
(* sequence of positions and keys on the way down; variants and maybes are *)
(* not on the way.  This is defined on either side without the other.      *)

Under(step, facts) == {<<<<step>> \o f[1], f[2]>> : f \in facts}

\* What number a game can be told; a key is told like any other value.
Telling(g) == [kind |-> TypeOf[g.class],
               number |-> IF g.class = "uint64" /\ g.number > INT64_MAX THEN INT64_MAX ELSE g.number]
AtIndex(i) == [kind |-> "index", number |-> i]
Emptiness(kind) == {<<<<>>, [kind |-> kind, number |-> 0]>>}

\* The entry of a dictionary that counts for its key is the last one.
Overridden(g, i) ==
  \E j \in DOMAIN g.children :
    j > i /\ Telling(g.children[j].children[1]) = Telling(g.children[i].children[1])

RECURSIVE Says(_)
Says(g) ==
  CASE g.class \in DOMAIN TypeOf -> {<<<<>>, Telling(g)>>}
    [] g.class \in {"variant", "maybe"} ->
         IF g.children = <<>> THEN Emptiness("null") ELSE Says(g.children[1])
    [] g.class = "bytes" ->
         Emptiness("bytes") \cup
         UNION {Under(AtIndex(i), {<<<<>>, [kind |-> "BYTE", number |-> g.children[i].number]>>})
                : i \in DOMAIN g.children}
    [] g.class = "dict" ->
         Emptiness("dictionary") \cup
         UNION {Under(Telling(g.children[i].children[1]), Says(g.children[i].children[2]))
                : i \in {j \in DOMAIN g.children : ~Overridden(g, j)}}
    [] OTHER ->
         Emptiness("array") \cup
         UNION {Under(AtIndex(i), Says(g.children[i])) : i \in DOMAIN g.children}

RECURSIVE IsHeardAs(_)
IsHeardAs(v) ==
  CASE v.type = "NIL" -> Emptiness("null")
    [] v.type = "PACKED_BYTE_ARRAY" ->
         Emptiness("bytes") \cup
         UNION {Under(AtIndex(i), {<<<<>>, [kind |-> "BYTE", number |-> v.items[i]]>>})
                : i \in DOMAIN v.items}
    [] v.type = "DICTIONARY" ->
         Emptiness("dictionary") \cup
         UNION {Under([kind |-> v.items[i][1].type, number |-> v.items[i][1].number],
                      IsHeardAs(v.items[i][2])) : i \in DOMAIN v.items}
    [] v.type = "ARRAY" ->
         Emptiness("array") \cup
         UNION {Under(AtIndex(i), IsHeardAs(v.items[i])) : i \in DOMAIN v.items}
    [] OTHER -> {<<<<>>, [kind |-> v.type, number |-> v.number]>>}

\* A game hears what was said: every basic value, in its place, and none twice.
SameMeaning(g, v) ==
  /\ IsHeardAs(v) = Says(g)
  /\ v.type = "DICTIONARY" => Cardinality({v.items[i][1] : i \in DOMAIN v.items}) = Len(v.items)

=============================================================================
