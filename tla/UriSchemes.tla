------------------------------ MODULE UriSchemes ------------------------------
(***************************************************************************)
(* The scheme of a URI: the C++ code and the GDScript code make the same   *)
(* tests, each in its own language.  A string is a sequence of tokens:     *)
(* single characters and, because one scheme matters, "file" and "FILE".   *)
(***************************************************************************)
EXTENDS Integers, Sequences, SequencesExt

Alpha == {"a", "A", "file", "FILE"}
Digit == {"1"}
Others == {":", "+", "/"}
Token == Alpha \cup Digit \cup Others

Lower(s) ==
  [i \in DOMAIN s |-> IF s[i] = "A" THEN "a" ELSE IF s[i] = "FILE" THEN "file" ELSE s[i]]

\* Mutant: the first character is like the others.
IsValidAnywhere(s) == s # <<>> /\ \A i \in DOMAIN s : s[i] \in Alpha \cup Digit \cup {"+"}

\* is_valid_scheme(), _is_valid_scheme(); "+" stands for "-" and ".", too.
IsValidScheme(s) ==
  /\ s # <<>>
  /\ s[1] \in Alpha
  /\ \A i \in 2..Len(s) : s[i] \in Alpha \cup Digit \cup {"+"}

\* What is before the first colon, if there is a colon.
BeforeColon(uri) ==
  IF ":" \in {uri[i] : i \in DOMAIN uri}
    THEN SubSeq(uri, 1, SelectInSeq(uri, LAMBDA c : c = ":") - 1) ELSE <<>>

\* _scheme_of()
SchemeOf(uri) == IF IsValidScheme(BeforeColon(uri)) THEN Lower(BeforeColon(uri)) ELSE <<>>

\* The facade's open_uri() passes it on; the extension's open_uri() calls the portal.
FacadePasses(uri) == SchemeOf(uri) \notin {<<>>, <<"file">>}
NativePasses(uri) ==
  /\ BeforeColon(uri) # <<>>
  /\ IsValidScheme(BeforeColon(uri))
  /\ Lower(BeforeColon(uri)) # <<"file">>

-----------------------------------------------------------------------------
(* RFC 3986: scheme = ALPHA *( ALPHA / DIGIT / "+" / "-" / "." ), written  *)
(* as what it generates, and the URIs that are to be opened: those that    *)
(* begin with a scheme, and a colon, other than file in any case.          *)

SchemesUpTo(n) ==
  {s \in UNION {[1..k -> Alpha \cup Digit \cup {"+"}] : k \in 1..n} : Head(s) \in Alpha}

Proper(uri) ==
  \E k \in 1..Len(uri) - 1 :
    /\ SubSeq(uri, 1, k) \in SchemesUpTo(Len(uri))
    /\ uri[k + 1] = ":"
    /\ Lower(SubSeq(uri, 1, k)) # <<"file">>

=============================================================================
