---------------------------- MODULE MCPortalCalls ----------------------------
(***************************************************************************)
(* Values for TLC, how values are converted, and what that conversion      *)
(* promises over all small values.                                         *)
(***************************************************************************)
EXTENDS PortalCalls, GVariantConv

Ask1(member, arg) == [member |-> member, arg |-> arg]
MCCalls ==
  {Ask1("AddNotification", <<"a">>), Ask1("AddNotification", <<>>), Ask1("RemoveNotification", <<"a">>),
   Ask1("QueryStatus", <<"a">>),
   Ask1("SchemeSupported", <<"a", "+">>), Ask1("SchemeSupported", <<"1">>),
   Ask1("SchemeSupported", <<"FILE">>),
   Ask1("OpenURI", <<"A", ":", "/">>), Ask1("OpenURI", <<"FILE", ":", "/">>), Ask1("OpenURI", <<":">>)}

Boxed(g) == Container("variant", <<g>>)

Leaves ==
  {Basic("boolean", 0), Basic("int", -1), Basic("int", 1), Basic("uint64", INT64_MAX),
   Basic("uint64", INT64_MAX + 1), Basic("uint64", 2 * INT64_MAX + 1), Basic("string", 1),
   Basic("double", 1)}
Small == {Basic("int", 1), Basic("uint64", 2 * INT64_MAX + 1), Basic("string", 1)}

Pairs(S) == {<<a, b>> : a \in S, b \in S}
Short(S) == {<<>>} \cup {<<a>> : a \in S} \cup Pairs(S)
OneType(s) == \A i, j \in DOMAIN s : s[i].class = s[j].class

Entries(keys, values) == {Container("entry", <<k, v>>) : k \in keys, v \in values}
SameKeyType(s) == \A i, j \in DOMAIN s : s[i].children[1].class = s[j].children[1].class
Keys == Leaves \ {Basic("double", 1)}

\* Values with at most one container around them, and values that have those inside.
Flat ==
  Leaves
    \cup {Boxed(g) : g \in Leaves}
    \cup {Container("maybe", s) : s \in {<<>>} \cup {<<g>> : g \in Leaves}}
    \cup {Container("bytes", s) : s \in Short({Basic("int", 0), Basic("int", 7)})}
    \cup {Container("tuple", s) : s \in Short(Leaves)}
    \cup {Container("array", s) : s \in {t \in Short(Leaves) : OneType(t)}}
    \cup Entries(Keys, Small)
    \cup {Container("dict", s) :
            s \in {t \in Short(Entries(Keys, {Boxed(g) : g \in Small})) : SameKeyType(t)}}
Nested ==
  {Boxed(g) : g \in Flat} \cup {Container("maybe", <<g>>) : g \in Flat}
    \cup {Container("array", <<Boxed(g), Boxed(h)>>) : g \in Flat, h \in Small}
    \cup {Container("tuple", <<g, h>>) : g \in Small, h \in Flat}
    \cup {Container("dict", <<Container("entry", <<k, Boxed(g)>>)>>) : k \in Small, g \in Flat}

MCPayloads ==
  {[typed |-> TRUE, value |-> Container("array", <<Boxed(Basic("uint64", INT64_MAX + 1)),
                                                  Boxed(Container("bytes", <<Basic("int", 7)>>))>>)],
   [typed |-> FALSE, value |-> Basic("string", 1)]}

\* A value a portal sends loses nothing on its way to a game but what 64 bits cannot
\* say (gvariant_to_variant): every basic value is there, in its place, and the
\* last of equal keys counts.
ConversionIsFaithful == Evaluated => \A g \in Flat \cup Nested : SameMeaning(g, ToVariant(g))

=============================================================================
