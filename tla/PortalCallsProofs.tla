-------------------------- MODULE PortalCallsProofs --------------------------
(***************************************************************************)
(* Theorems about PortalCalls, for any versions, calls and payloads, any   *)
(* conversion of their values and any bounds: URIs of every length are     *)
(* told apart by both layers as RFC 3986 tells them apart, calls return    *)
(* what the portal made of them, failures are reported once, and actions   *)
(* reach the game in order.                                                *)
(***************************************************************************)
EXTENDS PortalCalls, TLAPS, FunctionTheorems, FiniteSetTheorems, SequenceTheorems

-----------------------------------------------------------------------------
(* URIs.                                                                   *)

InScheme == Alpha \cup Digit \cup {"+"}

\* A string that has a colon has a first one.
LEMMA FirstColon ==
  ASSUME NEW uri \in Seq(Token), NEW k \in 1..Len(uri), uri[k] = ":"
  PROVE  \E f \in 1..Len(uri) : uri[f] = ":" /\ \A j \in 1..Len(uri) : uri[j] = ":" => f <= j
<1> DEFINE S == 1..Len(uri)
           colons == {i \in S : uri[i] = ":"}
           upTo == {1..i : i \in colons}
           less == StrictSubsetOrdering(S)
<1>0. Len(uri) \in Nat
  BY LenProperties
<1>1. upTo \subseteq SUBSET S /\ upTo # {}
  BY <1>0
<1>2. IsWellFoundedOn(less, SUBSET S)
  <2>1. IsFiniteSet(S)
    BY <1>0, FS_Interval
  <2> HIDE DEF S
  <2> QED BY <2>1, FS_FiniteSubsetsOfFinite, FS_StrictSubsetOrderingWellFounded
<1>3. PICK x \in upTo : \A y \in upTo : ~(<<y, x>> \in less)
  <2> HIDE DEF less, upTo, S
  <2> QED BY <1>1, <1>2, WFMin
<1>4. PICK f \in colons : x = 1..f
  OBVIOUS
<1>5. ASSUME NEW j \in colons, j < f PROVE FALSE
  <2>1. 1..j \in upTo /\ 1..j \subseteq 1..f
    BY <1>0, <1>5
  <2>2. f \in 1..f /\ f \notin 1..j
    BY <1>0, <1>5
  <2>3. <<1..j, 1..f>> \in less
    BY <1>1, <1>4, <2>1, <2>2 DEF StrictSubsetOrdering
  <2> QED BY <1>3, <1>4, <2>1, <2>3
<1> QED BY <1>0, <1>5

\* Where SelectInSeq finds the colon, and what BeforeColon makes of it.
LEMMA BeforeFirstColon ==
  ASSUME NEW uri \in Seq(Token), NEW f \in 1..Len(uri), uri[f] = ":",
         \A j \in 1..Len(uri) : uri[j] = ":" => f <= j
  PROVE  BeforeColon(uri) = SubSeq(uri, 1, f - 1)
<1> DEFINE colons == {i \in 1..Len(uri) : uri[i] = ":"}
<1>1. f \in colons /\ \A y \in colons : f <= y
  OBVIOUS
<1>2. Min(colons) = f
  <2>1. \A x \in colons : (\A y \in colons : x <= y) => x = f
    BY <1>1
  <2> HIDE DEF colons
  <2> QED BY <1>1, <2>1 DEF Min
<1>3. ":" \in {uri[i] : i \in DOMAIN uri}
  OBVIOUS
<1> QED BY <1>1, <1>2, <1>3 DEF BeforeColon, SelectInSeq

LEMMA NoColon ==
  ASSUME NEW uri \in Seq(Token), \A j \in 1..Len(uri) : uri[j] # ":"
  PROVE  BeforeColon(uri) = <<>>
<1>1. ":" \notin {uri[i] : i \in DOMAIN uri}
  BY LenProperties
<1> QED BY <1>1 DEF BeforeColon, SelectInSeq

\* The test that the code makes accepts what the grammar generates.
LEMMA SchemesValid ==
  ASSUME NEW s \in Seq(Token), NEW n \in Nat, Len(s) <= n
  PROVE  IsValidScheme(s) <=> s \in SchemesUpTo(n)
<1>1. Len(s) \in Nat /\ s \in [1..Len(s) -> Token] /\ DOMAIN s = 1..Len(s)
  BY LenProperties
<1>2. ASSUME IsValidScheme(s) PROVE s \in SchemesUpTo(n)
  <2>1. s # <<>> /\ Len(s) \in 1..n
    BY <1>1, <1>2, EmptySeq DEF IsValidScheme
  <2>2. \A i \in 1..Len(s) : s[i] \in InScheme
    BY <1>2, <2>1 DEF IsValidScheme, InScheme
  <2>3. s \in [1..Len(s) -> InScheme]
    BY <1>1, <2>2
  <2>4. Head(s) = s[1] /\ s[1] \in Alpha
    BY <1>2 DEF IsValidScheme
  <2> QED BY <2>1, <2>3, <2>4 DEF SchemesUpTo, InScheme
<1>3. ASSUME s \in SchemesUpTo(n) PROVE IsValidScheme(s)
  <2>1. PICK k \in 1..n : s \in [1..k -> InScheme]
    BY <1>3 DEF SchemesUpTo, InScheme
  <2>2. DOMAIN s = 1..k
    BY <2>1
  <2>3. Len(s) = k
    <3>1. k \in 1..Len(s)
      BY <1>1, <2>2
    <3>2. Len(s) \in 1..k
      BY <1>1, <2>2, <3>1
    <3> QED BY <3>1, <3>2
  <2>4. s # <<>> /\ Head(s) = s[1]
    BY <2>3
  <2> QED BY <1>3, <2>1, <2>3, <2>4 DEF IsValidScheme, SchemesUpTo, InScheme
<1> QED BY <1>2, <1>3

\* What the grammar generates has no colon in it.
LEMMA NoColonInScheme ==
  ASSUME NEW n \in Nat, NEW s \in SchemesUpTo(n)
  PROVE  s # <<>> /\ \A i \in DOMAIN s : s[i] # ":"
<1>1. PICK k \in 1..n : s \in [1..k -> InScheme]
  BY DEF SchemesUpTo, InScheme
<1>2. ":" \notin InScheme
  BY DEF InScheme, Alpha, Digit
<1>3. 1 \in DOMAIN s
  BY <1>1
<1> QED BY <1>1, <1>2, <1>3

LEMMA BeforeColonType ==
  ASSUME NEW uri \in Seq(Token), NEW k \in 0..Len(uri)
  PROVE  /\ SubSeq(uri, 1, k) \in Seq(Token) /\ Len(SubSeq(uri, 1, k)) = k
         /\ \A i \in 1..k : SubSeq(uri, 1, k)[i] = uri[i]
<1>1. \A i \in 1..k : uri[i] \in Token
  BY ElementOfSeq
<1>2. /\ SubSeq(uri, 1, k) \in Seq(Token)
      /\ Len(SubSeq(uri, 1, k)) = IF 1 <= k THEN k - 1 + 1 ELSE 0
      /\ \A i \in 1..k - 1 + 1 : SubSeq(uri, 1, k)[i] = uri[1 + i - 1]
  BY <1>1, SubSeqProperties
<1> QED BY <1>2

\* A URI is proper if what is before its first colon is a scheme other than file.
LEMMA ProperByColon ==
  ASSUME NEW uri \in Seq(Token)
  PROVE  Proper(uri) <=> /\ IsValidScheme(BeforeColon(uri))
                         /\ Lower(BeforeColon(uri)) # <<"file">>
<1>0. Len(uri) \in Nat
  BY LenProperties
<1>1. ASSUME NEW k \in 1..Len(uri) - 1, SubSeq(uri, 1, k) \in SchemesUpTo(Len(uri)), uri[k + 1] = ":"
      PROVE  BeforeColon(uri) = SubSeq(uri, 1, k) /\ IsValidScheme(SubSeq(uri, 1, k))
  <2>0. k \in 0..Len(uri) /\ k + 1 \in 1..Len(uri)
    BY <1>0
  <2>1. /\ SubSeq(uri, 1, k) \in Seq(Token) /\ Len(SubSeq(uri, 1, k)) = k
        /\ \A i \in 1..k : SubSeq(uri, 1, k)[i] = uri[i]
    BY <2>0, BeforeColonType
  <2>2. \A i \in 1..k : uri[i] # ":"
    <3>1. \A i \in DOMAIN SubSeq(uri, 1, k) : SubSeq(uri, 1, k)[i] # ":"
      BY <1>0, <1>1, NoColonInScheme
    <3>2. DOMAIN SubSeq(uri, 1, k) = 1..k
      BY <2>1, LenProperties
    <3> QED BY <2>1, <3>1, <3>2
  <2>3. \A j \in 1..Len(uri) : uri[j] = ":" => k + 1 <= j
    BY <1>0, <2>2
  <2>4. BeforeColon(uri) = SubSeq(uri, 1, k + 1 - 1)
    BY <1>1, <2>0, <2>3, BeforeFirstColon
  <2>5. IsValidScheme(SubSeq(uri, 1, k))
    <3>1. Len(SubSeq(uri, 1, k)) <= Len(uri)
      BY <1>0, <2>1
    <3> QED BY <1>0, <1>1, <2>1, <3>1, SchemesValid
  <2> QED BY <2>4, <2>5
<1>2. ASSUME IsValidScheme(BeforeColon(uri))
      PROVE  \E k \in 1..Len(uri) - 1 : /\ SubSeq(uri, 1, k) \in SchemesUpTo(Len(uri))
                                        /\ uri[k + 1] = ":"
                                        /\ BeforeColon(uri) = SubSeq(uri, 1, k)
  <2>1. BeforeColon(uri) # <<>>
    BY <1>2 DEF IsValidScheme
  <2>2. PICK c \in 1..Len(uri) : uri[c] = ":"
    BY <2>1, NoColon
  <2>3. PICK f \in 1..Len(uri) : uri[f] = ":" /\ \A j \in 1..Len(uri) : uri[j] = ":" => f <= j
    BY <2>2, FirstColon
  <2>4. BeforeColon(uri) = SubSeq(uri, 1, f - 1)
    BY <2>3, BeforeFirstColon
  <2>5. f - 1 \in 0..Len(uri)
    BY <1>0
  <2>6. SubSeq(uri, 1, f - 1) \in Seq(Token) /\ Len(SubSeq(uri, 1, f - 1)) = f - 1
    BY <2>5, BeforeColonType
  <2>7. f - 1 \in 1..Len(uri) - 1
    BY <1>0, <2>1, <2>4, <2>6, EmptySeq
  <2>8. SubSeq(uri, 1, f - 1) \in SchemesUpTo(Len(uri))
    <3>1. Len(SubSeq(uri, 1, f - 1)) <= Len(uri)
      BY <1>0, <2>6
    <3> QED BY <1>0, <1>2, <2>4, <2>6, <3>1, SchemesValid
  <2>9. uri[(f - 1) + 1] = ":"
    BY <2>3
  <2> QED BY <2>4, <2>7, <2>8, <2>9
<1> QED BY <1>1, <1>2 DEF Proper

\* Both layers open just the proper URIs.
LEMMA LayersAgree ==
  ASSUME NEW uri \in Seq(Token)
  PROVE  (FacadePasses(uri) <=> Proper(uri)) /\ (NativePasses(uri) <=> Proper(uri))
<1> DEFINE s == BeforeColon(uri)
<1>1. IsValidScheme(s) => s # <<>> /\ 1 \in DOMAIN s
  <2>1. s \in Seq(Token)
    <3>1. CASE \A j \in 1..Len(uri) : uri[j] # ":"
      BY <3>1, NoColon, EmptySeq
    <3>2. ASSUME NEW c \in 1..Len(uri), uri[c] = ":" PROVE s \in Seq(Token)
      <4>1. PICK f \in 1..Len(uri) : uri[f] = ":" /\ \A j \in 1..Len(uri) : uri[j] = ":" => f <= j
        BY <3>2, FirstColon
      <4>2. s = SubSeq(uri, 1, f - 1) /\ f - 1 \in 0..Len(uri)
        BY <4>1, BeforeFirstColon
      <4> QED BY <4>2, BeforeColonType
    <3> QED BY <3>1, <3>2
  <2> HIDE DEF s
  <2> QED BY <2>1, EmptySeq, LenProperties DEF IsValidScheme
<1>2. IsValidScheme(s) => Lower(s) # <<>>
  <2> HIDE DEF s
  <2>1. DOMAIN Lower(s) = DOMAIN s
    BY DEF Lower
  <2> QED BY <1>1, <2>1
<1>3. NativePasses(uri) <=> IsValidScheme(s) /\ Lower(s) # <<"file">>
  BY <1>1 DEF NativePasses
<1>4. FacadePasses(uri) <=> IsValidScheme(s) /\ Lower(s) # <<"file">>
  BY <1>2 DEF FacadePasses, SchemeOf
<1> QED BY <1>3, <1>4, ProperByColon

\* However long a URI is, the facade passes it on, and the extension opens it, if
\* and only if it begins with an RFC 3986 scheme other than file, in any case.
THEOREM SchemesAreThoseOfTheRFC == Spec => []SchemesFollowRFC
<1>1. SchemesFollowRFC
  <2>1. \A uri \in Uris : uri \in Seq(Token)
    <3>1. \A k \in Nat : \A s \in [1..k -> Token] : s \in Seq(Token)
      BY SeqDef
    <3>2. 0..MaxLength \subseteq Nat
      BY BoundsAssumption
    <3> QED BY <3>1, <3>2 DEF Uris
  <2> QED BY <2>1, LayersAgree DEF SchemesFollowRFC
<1> QED BY <1>1, PTL DEF Spec

-----------------------------------------------------------------------------
(* Types.                                                                  *)

LEMMA LowerType ==
  ASSUME NEW s \in Seq(Token)
  PROVE  Lower(s) \in Seq(Token)
<1>1. Len(s) \in Nat /\ DOMAIN s = 1..Len(s) /\ \A i \in 1..Len(s) : s[i] \in Token
  BY LenProperties, ElementOfSeq
<1>2. Lower(s) \in [1..Len(s) -> Token]
  BY <1>1 DEF Lower, Token, Alpha
<1> QED BY <1>1, <1>2, SeqDef

\* The fields of a call that is under way.
LEMMA MainFields ==
  ASSUME main \in MainStates
  PROVE  /\ main # Idle => main.call \in CallTypes /\ main.at \in {"version", "asked", "failed", "answered"}
         /\ main.at = "answered" => main.value \in PortalCodes /\ main.fact \in Facts
         /\ main.at \in {"version", "asked", "failed", "answered"} => main # Idle
BY DEF MainStates, Idle

LEMMA CallFields ==
  ASSUME NEW call \in CallTypes
  PROVE  call.member \in Members /\ call.arg \in Seq(Token)
BY DEF CallTypes

\* What the main thread may do to its own state.
LEMMA ReturnType ==
  ASSUME NEW call \in CallTypes, NEW result \in -1..3, NEW fact \in Facts, Return(call, result, fact)
  PROVE  main' \in MainStates /\ outcome' \in Outcomes
BY CallFields DEF Return, MainStates, Outcomes

LEMMA AskType ==
  ASSUME NEW call \in CallTypes, Ask(call), outcome \in Outcomes
  PROVE  main' \in MainStates /\ outcome' \in Outcomes
BY DEF Ask, MainStates

LEMMA ResultTypes ==
  ASSUME NEW member, NEW value \in PortalCodes
  PROVE  Failed(member) \in -1..3 /\ Answered(member, value) \in -1..3
<1>1. StatusFromPortal(value) \in {-1, 0, 1, 3}
  BY DEF StatusFromPortal, UNKNOWN, NOT_REGISTERED, REGISTERED, ACTIVE_FOR_OTHERS
<1>2. KnownStatus(StatusFromPortal(value)) \in {-1, 0, 1, 3}
  BY <1>1 DEF KnownStatus, UNKNOWN, NOT_REGISTERED, REGISTERED, ACTIVE_FOR_OTHERS
<1>3. Answered(member, value) \in {-1, 0, 1, 3, value}
  BY <1>2 DEF Answered
<1>4. value \in -1..3
  BY DEF PortalCodes, OtherCodes
<1> QED BY <1>3, <1>4 DEF Failed

\* What is on its way to the game, and what it was told.
SignalTypes ==
  /\ failures \in Nat /\ reported \in Nat
  /\ deferred \in Seq(Signals)

LEMMA ErrorTypes ==
  ASSUME SignalTypes, EmitError \/ EmitNow \/ NoError, failures' \in {failures, failures + 1}
  PROVE  SignalTypes'
<1>1. [signal |-> "portal_error"] \in Signals
  BY DEF Signals
<1>2. SignalTypes => Append(deferred, [signal |-> "portal_error"]) \in Seq(Signals)
  BY <1>1, AppendProperties DEF SignalTypes
<1>3. deferred' \in Seq(Signals)
  BY <1>2 DEF SignalTypes, EmitError, EmitNow, NoError
<1>4. failures' \in Nat /\ reported' \in Nat
  BY DEF SignalTypes, EmitError, EmitNow, NoError
<1> QED BY <1>3, <1>4 DEF SignalTypes

LEMMA ReadTypes ==
  ASSUME NEW known, TypeOK, ReadInterfaceVersion(known)
  PROVE  known \in Versions \cup {NoVersion} /\ cached' \in Versions \cup {Unread}
BY DEF TypeOK, ReadInterfaceVersion, NoVersion, Unread

LEMMA CallBeginsTypes ==
  ASSUME TypeOK, NEW call \in Calls, CallBegins(call)
  PROVE  TypeOK'
<1>0. call \in CallTypes /\ MaxCalls \in Nat
  BY CallsAssumption, BoundsAssumption
<1>1. calls' \in 0..MaxCalls
  BY <1>0 DEF TypeOK, CallBegins, Begin, ReturnUnasked, RefuseFile, RefuseUri, OpenUri, AskAtOnce,
              BeginSchemeSupported
<1>2. main' \in MainStates /\ outcome' \in Outcomes
  <2>1. CASE ReturnUnasked(call)
    <3>1. Failed(call.member) \in -1..3 /\ "nothing" \in Facts
      BY DEF Failed, Facts
    <3> QED BY <1>0, <2>1, <3>1, ReturnType DEF ReturnUnasked
  <2>2. CASE RefuseFile(call) \/ RefuseUri(call)
    <3>1. 0 \in -1..3 /\ "nothing" \in Facts
      BY DEF Facts
    <3>2. Return(call, 0, "nothing")
      BY <2>2 DEF RefuseFile, RefuseUri
    <3> QED BY <1>0, <3>1, <3>2, ReturnType
  <2>3. CASE OpenUri(call)
    <3>1. {0, 1} \subseteq -1..3 /\ "nothing" \in Facts
      BY DEF Facts
    <3>2. Return(call, 0, "nothing") \/ Return(call, 1, "nothing")
      BY <2>3 DEF OpenUri
    <3> QED BY <1>0, <3>1, <3>2, ReturnType
  <2>4. CASE AskAtOnce(call)
    BY <1>0, <2>4, AskType DEF AskAtOnce, TypeOK
  <2>5. CASE BeginSchemeSupported(call)
    <3>1. [call EXCEPT !.arg = Lower(@)] \in CallTypes
      BY <1>0, LowerType DEF CallTypes
    <3>2. main' = [at |-> "version", call |-> [call EXCEPT !.arg = Lower(@)]] /\ outcome' = outcome
      BY <2>5 DEF BeginSchemeSupported
    <3> QED BY <3>1, <3>2 DEF MainStates, TypeOK
  <2> QED BY <2>1, <2>2, <2>3, <2>4, <2>5 DEF CallBegins
<1>3. SignalTypes'
  <2>1. EmitError \/ EmitNow \/ NoError
    BY DEF CallBegins, ReturnUnasked, RefuseFile, RefuseUri, OpenUri, AskAtOnce, BeginSchemeSupported
  <2>2. failures' \in {failures, failures + 1}
    BY DEF CallBegins, CountRefusal
  <2> QED BY <2>1, <2>2, ErrorTypes DEF TypeOK, SignalTypes
<1>4. UNCHANGED <<nativeVars, portalVars, actionVars>>
  BY DEF CallBegins
<1> QED BY <1>1, <1>2, <1>3, <1>4 DEF TypeOK, SignalTypes, nativeVars, portalVars, actionVars

LEMMA NextTypes ==
  ASSUME TypeOK, [Next]_vars
  PROVE  TypeOK'
<1>0. /\ MaxCalls \in Nat /\ MaxRestarts \in Nat /\ MaxActions \in Nat
      /\ SignalTypes
  BY BoundsAssumption DEF TypeOK, SignalTypes
<1> USE DEF portalVars, nativeVars, callVars, actionVars, errorVars
<1>1. ASSUME NEW call \in Calls, CallBegins(call) PROVE TypeOK'
  BY <1>1, CallBeginsTypes
<1>2. CASE CheckVersion
  <2>1. main.call \in CallTypes
    BY <1>2, MainFields DEF CheckVersion, TypeOK
  <2>2. PICK known \in Versions \cup {NoVersion} :
          /\ ReadInterfaceVersion(known)
          /\ IF known < 5 THEN Return(main.call, -1, "nothing") ELSE Ask(main.call)
    BY <1>2 DEF CheckVersion
  <2>3. main' \in MainStates /\ outcome' \in Outcomes
    <3>1. -1 \in -1..3 /\ "nothing" \in Facts /\ outcome \in Outcomes
      BY DEF TypeOK, Facts
    <3>2. Return(main.call, -1, "nothing") \/ Ask(main.call)
      BY <2>2
    <3> QED BY <2>1, <3>1, <3>2, ReturnType, AskType
  <2>4. cached' \in Versions \cup {Unread}
    BY <2>2, ReadTypes
  <2>5. SignalTypes'
    BY <1>0, <1>2, ErrorTypes DEF CheckVersion
  <2> QED BY <1>2, <2>3, <2>4, <2>5 DEF TypeOK, SignalTypes, CheckVersion
<1>3. CASE FinishCall
  <2>1. main.at = "answered" => main.value \in PortalCodes /\ main.fact \in Facts
    BY <1>3, MainFields DEF FinishCall, TypeOK
  <2>2. main.call \in CallTypes
    BY <1>3, MainFields DEF FinishCall, TypeOK
  <2>3. main' \in MainStates /\ outcome' \in Outcomes
    <3>1. CASE main.at = "answered" /\ Return(main.call, Answered(main.call.member, main.value), main.fact)
      <4>1. Answered(main.call.member, main.value) \in -1..3
        BY <2>1, <2>2, <3>1, ResultTypes
      <4> QED BY <2>1, <2>2, <3>1, <4>1, ReturnType
    <3>2. CASE Return(main.call, Failed(main.call.member), "nothing")
      <4>1. Failed(main.call.member) \in -1..3 /\ "nothing" \in Facts
        BY DEF Failed, Facts
      <4> QED BY <2>2, <3>2, <4>1, ReturnType
    <3> QED BY <1>3, <3>1, <3>2 DEF FinishCall
  <2>4. SignalTypes'
    BY <1>0, <1>3, ErrorTypes DEF FinishCall
  <2> QED BY <1>3, <2>3, <2>4 DEF TypeOK, SignalTypes, FinishCall
<1>4. CASE RefreshCapabilities
  <2>1. discovered' \in Versions \cup {NoVersion} /\ cached' \in Versions \cup {Unread}
    BY <1>4, ReadTypes DEF RefreshCapabilities
  <2> QED BY <1>4, <2>1 DEF TypeOK, RefreshCapabilities, NoError
<1>5. CASE Flush
  <2>1. Head(deferred) \in Signals /\ deferred' \in Seq(Signals)
    BY <1>5, HeadTailProperties DEF Flush, TypeOK
  <2>2. Head(deferred).signal = "action" => Head(deferred).action \in Actions
    BY <2>1 DEF Signals
  <2>3. heard' \in Seq(Actions)
    BY <1>5, <2>2, AppendProperties DEF Flush, TypeOK
  <2>4. reported' \in Nat
    BY <1>5 DEF Flush, TypeOK
  <2> QED BY <1>5, <2>1, <2>3, <2>4 DEF Flush, TypeOK
<1>6. CASE Shutdown \/ OnOwnerChanged
  BY <1>6 DEF TypeOK, Shutdown, OnOwnerChanged
<1>7. CASE OnActionInvoked
  <2>1. Head(inbox) \in [number : Nat, payload : Payloads]
        /\ inbox' \in Seq([number : Nat, payload : Payloads])
    BY <1>7, HeadTailProperties DEF OnActionInvoked, TypeOK
  <2>2. [signal |-> "action", action |-> [number |-> Head(inbox).number,
                                          value |-> Parameters(Head(inbox).payload.value)]] \in Signals
    BY <2>1 DEF Signals, Actions
  <2>3. deferred' \in Seq(Signals)
    <3>1. CASE EmitAction(Head(inbox).number, Head(inbox).payload)
      BY <2>2, <3>1, AppendProperties DEF EmitAction, TypeOK
    <3>2. CASE UNCHANGED deferred
      BY <3>2 DEF TypeOK
    <3> QED BY <1>7, <3>1, <3>2 DEF OnActionInvoked
  <2> QED BY <1>7, <2>1, <2>3 DEF OnActionInvoked, TypeOK
<1>8. CASE PortalReplies
  <2>1. main.call \in CallTypes
    BY <1>8, MainFields DEF PortalReplies, TypeOK
  <2>2. \E value \in PortalCodes, fact \in Facts : Reply(value, fact)
    <3>1. QueryStatus \in PortalCodes /\ QueryFact \in Facts
      BY DEF QueryStatus, QueryFact, Facts, PortalCodes
    <3>2. /\ {"done", "unheard of", "supported", "unsupported"} \subseteq Facts
          /\ {0, 1} \cup OtherCodes \subseteq PortalCodes
      BY DEF Facts, PortalCodes
    <3> QED BY <1>8, <3>1, <3>2 DEF PortalReplies
  <2>3. main' \in MainStates
    BY <2>1, <2>2 DEF Reply, MainStates
  <2>4. UNCHANGED <<calls, outcome, nativeVars, portalVars, actionVars, errorVars, deferred>>
    BY <1>8 DEF PortalReplies
  <2> QED BY <2>3, <2>4 DEF TypeOK
<1>9. CASE CallFails
  <2>1. main.call \in CallTypes
    BY <1>9, MainFields DEF CallFails, TypeOK
  <2>2. main' \in MainStates
    BY <1>9, <2>1 DEF CallFails, MainStates
  <2>3. failures' \in Nat
    BY <1>9 DEF CallFails, TypeOK
  <2> QED BY <1>9, <2>2, <2>3 DEF CallFails, TypeOK
<1>10. CASE PortalReplaced \/ PlayersChange
  <2>1. version' \in Versions \cup {NoVersion} /\ owner_changed' \in BOOLEAN
    BY <1>10 DEF PortalReplaced, PlayersChange, TypeOK
  <2>2. restarts' \in 0..MaxRestarts
    <3>1. CASE PortalReplaced
      BY <1>0, <3>1 DEF PortalReplaced, TypeOK
    <3>2. CASE PlayersChange
      BY <3>2 DEF PlayersChange, TypeOK
    <3> QED BY <1>10, <3>1, <3>2
  <2>3. players' \in SUBSET {"game", "other"}
    BY <1>10 DEF PortalReplaced, PlayersChange, TypeOK
  <2>4. UNCHANGED <<nativeVars, callVars, actionVars, errorVars, deferred>>
    BY <1>10 DEF PortalReplaced, PlayersChange
  <2> QED BY <2>1, <2>2, <2>3, <2>4 DEF TypeOK
<1>11. ASSUME NEW payload \in Payloads, UserActs(payload) PROVE TypeOK'
  <2>1. sent' \in Seq(Payloads) /\ Len(sent') = Len(sent) + 1 /\ Len(sent) \in Nat
    BY <1>11, AppendProperties, LenProperties DEF UserActs, TypeOK
  <2>2. inbox' \in Seq([number : Nat, payload : Payloads])
    BY <1>11, <2>1, AppendProperties DEF UserActs, TypeOK
  <2>3. Len(sent') <= MaxActions
    BY <1>0, <1>11, <2>1 DEF UserActs
  <2> QED BY <1>11, <2>1, <2>2, <2>3 DEF UserActs, TypeOK
<1>12. CASE UNCHANGED vars
  BY <1>12 DEF TypeOK, vars
<1> QED BY <1>1, <1>2, <1>3, <1>4, <1>5, <1>6, <1>7, <1>8, <1>9, <1>10, <1>11, <1>12
        DEF Next, MainThread, Worker, Desktop

LEMMA InitTypes == Init => TypeOK
<1> SUFFICES ASSUME Init PROVE TypeOK
  OBVIOUS
<1>1. main \in MainStates /\ outcome \in Outcomes
  BY DEF Init, MainStates, Outcomes
<1>2. /\ sent \in Seq(Payloads) /\ Len(sent) = 0
      /\ inbox \in Seq([number : Nat, payload : Payloads])
      /\ deferred \in Seq(Signals) /\ heard \in Seq(Actions)
  BY EmptySeq DEF Init
<1>3. calls \in 0..MaxCalls /\ restarts \in 0..MaxRestarts /\ 0 <= MaxActions
  BY BoundsAssumption DEF Init
<1> QED BY <1>1, <1>2, <1>3 DEF Init, TypeOK

\* Every variable holds a value of its kind, whatever the portals, calls and bounds;
\* in particular, no answer is never cached as a version.
THEOREM TypeCorrect == Spec => []TypeOK
<1> QED BY InitTypes, NextTypes, PTL DEF Spec

-----------------------------------------------------------------------------
(* Answers.                                                                *)

\* The portal's reply to a call, and what it says of the desktop.
Says(member, value, fact) ==
  /\ member = "QueryStatus" =>
       \/ <<value, fact>> \in {<<0, "nobody">>, <<1, "others">>, <<2, "game">>}
       \/ value \in OtherCodes /\ fact = "unheard of"
  /\ member = "SchemeSupported" => <<value, fact>> \in {<<1, "supported">>, <<0, "unsupported">>}
  /\ member \notin {"QueryStatus", "SchemeSupported"} => <<value, fact>> = <<1, "done">>

RepliesInv == main.at = "answered" => Says(main.call.member, main.value, main.fact)

AnswersInv == TypeOK /\ RepliesInv /\ AnswersAreThePortals

\* What AnswersAreThePortals says of the call that returns now.
Fits(member, arg, result, fact) ==
  /\ member \in {"AddNotification", "RemoveNotification"} =>
       (result = 1 <=> fact = "done")
  /\ member = "QueryStatus" =>
       /\ result = REGISTERED <=> fact = "game"
       /\ result = ACTIVE_FOR_OTHERS <=> fact = "others"
       /\ result = NOT_REGISTERED <=> fact = "nobody"
       /\ result = UNKNOWN <=> fact \in {"nothing", "unheard of"}
  /\ member = "SchemeSupported" =>
       /\ result = 1 <=> fact = "supported"
       /\ fact = "unsupported" => result = 0
       /\ result = 0 => fact = "unsupported" \/ Lower(arg) = <<"file">>

LEMMA ReturnFits ==
  ASSUME NEW call, NEW result, NEW fact, Return(call, result, fact),
         Fits(call.member, call.arg, result, fact)
  PROVE  RepliesInv' /\ AnswersAreThePortals'
<1>1. RepliesInv'
  BY DEF Return, RepliesInv, Idle
<1>2. /\ outcome'.member = call.member /\ outcome'.arg = call.arg
      /\ outcome'.result = result /\ outcome'.fact = fact
  BY DEF Return
<1>3. AnswersAreThePortals'
  BY <1>2 DEF AnswersAreThePortals, Fits
<1> QED BY <1>1, <1>3

\* A call that failed, or was not made, claims nothing.
LEMMA FailureFits ==
  ASSUME NEW member, NEW arg
  PROVE  Fits(member, arg, Failed(member), "nothing") /\ Fits(member, arg, -1, "nothing")
BY DEF Fits, Failed, UNKNOWN, REGISTERED, ACTIVE_FOR_OTHERS, NOT_REGISTERED

\* Both numberings of the status, one after the other, keep what the portal said.
LEMMA ReplyFits ==
  ASSUME NEW member, NEW arg, NEW value \in PortalCodes, NEW fact, Says(member, value, fact)
  PROVE  Fits(member, arg, Answered(member, value), fact)
<1>1. CASE member = "QueryStatus"
  <2> DEFINE status ==
        IF value = 0 THEN 0 ELSE IF value = 1 THEN 3 ELSE IF value = 2 THEN 1 ELSE -1
  <2>1. Answered(member, value) = KnownStatus(StatusFromPortal(value))
    BY <1>1 DEF Answered
  <2>2. StatusFromPortal(value) = status
    BY DEF StatusFromPortal, PortalCodes, OtherCodes, UNKNOWN, NOT_REGISTERED, REGISTERED,
           ACTIVE_FOR_OTHERS
  <2>3. Answered(member, value) = status
    BY <2>1, <2>2 DEF KnownStatus, UNKNOWN, NOT_REGISTERED, REGISTERED, ACTIVE_FOR_OTHERS
  <2>4. \/ <<value, fact>> \in {<<0, "nobody">>, <<1, "others">>, <<2, "game">>}
        \/ value \in OtherCodes /\ fact = "unheard of"
    BY <1>1 DEF Says
  <2>5. CASE value \in OtherCodes /\ fact = "unheard of"
    <3>1. Answered(member, value) = -1
      <4>1. value = -1 \/ value = 3
        BY <2>5 DEF OtherCodes
      <4>2. value # 0 /\ value # 1 /\ value # 2
        BY <4>1
      <4> QED BY <2>3, <4>2
    <3>2. Fits("QueryStatus", arg, -1, "unheard of")
      BY DEF Fits, UNKNOWN, NOT_REGISTERED, REGISTERED, ACTIVE_FOR_OTHERS
    <3> QED BY <1>1, <2>5, <3>1, <3>2
  <2>6. CASE <<value, fact>> \in {<<0, "nobody">>, <<1, "others">>, <<2, "game">>}
    <3>1. <<Answered(member, value), fact>> \in {<<0, "nobody">>, <<3, "others">>, <<1, "game">>}
      BY <2>3, <2>6
    <3>2. /\ Fits("QueryStatus", arg, 0, "nobody") /\ Fits("QueryStatus", arg, 3, "others")
          /\ Fits("QueryStatus", arg, 1, "game")
      BY DEF Fits, UNKNOWN, NOT_REGISTERED, REGISTERED, ACTIVE_FOR_OTHERS
    <3> QED BY <1>1, <3>1, <3>2
  <2> QED BY <2>4, <2>5, <2>6
<1>2. CASE member = "SchemeSupported"
  <2>1. Answered(member, value) = value
    BY <1>2 DEF Answered
  <2> QED BY <1>2, <2>1 DEF Fits, Says
<1>3. CASE member \notin {"QueryStatus", "SchemeSupported"}
  <2>1. Answered(member, value) = 1 /\ fact = "done"
    BY <1>3 DEF Answered, Says
  <2> QED BY <1>3, <2>1 DEF Fits
<1> QED BY <1>1, <1>2, <1>3

\* A step that returns from no call.
LEMMA NothingReturned ==
  ASSUME AnswersInv, UNCHANGED outcome, main' = main \/ main'.at # "answered"
  PROVE  RepliesInv' /\ AnswersAreThePortals'
BY DEF AnswersInv, RepliesInv, AnswersAreThePortals

LEMMA NextAnswers ==
  ASSUME AnswersInv, [Next]_vars
  PROVE  AnswersInv'
<1>0. TypeOK /\ TypeOK'
  BY NextTypes DEF AnswersInv
<1> USE DEF portalVars, nativeVars, callVars, actionVars, errorVars
<1> SUFFICES RepliesInv' /\ AnswersAreThePortals'
  BY <1>0 DEF AnswersInv
<1>1. ASSUME NEW call \in Calls, CallBegins(call) PROVE RepliesInv' /\ AnswersAreThePortals'
  <2>1. CASE ReturnUnasked(call)
    BY <2>1, ReturnFits, FailureFits DEF ReturnUnasked
  <2>2. CASE RefuseFile(call)
    <3>1. Fits(call.member, call.arg, 0, "nothing")
      BY <2>2 DEF RefuseFile, Fits
    <3> QED BY <2>2, <3>1, ReturnFits DEF RefuseFile
  <2>3. CASE RefuseUri(call) \/ OpenUri(call)
    <3>1. Fits(call.member, call.arg, 0, "nothing") /\ Fits(call.member, call.arg, 1, "nothing")
      BY <2>3 DEF RefuseUri, OpenUri, Fits
    <3> QED BY <2>3, <3>1, ReturnFits DEF RefuseUri, OpenUri
  <2>4. CASE AskAtOnce(call)
    <3>1. UNCHANGED outcome /\ main'.at # "answered"
      BY <2>4 DEF AskAtOnce, Ask
    <3> QED BY <3>1, NothingReturned
  <2>5. CASE BeginSchemeSupported(call)
    <3>1. UNCHANGED outcome /\ main'.at # "answered"
      BY <2>5 DEF BeginSchemeSupported
    <3> QED BY <3>1, NothingReturned
  <2> QED BY <1>1, <2>1, <2>2, <2>3, <2>4, <2>5 DEF CallBegins
<1>2. CASE CheckVersion
  <2>1. CASE Return(main.call, -1, "nothing")
    BY <2>1, ReturnFits, FailureFits
  <2>2. CASE Ask(main.call)
    <3>1. UNCHANGED outcome /\ main'.at # "answered"
      BY <2>2 DEF Ask
    <3> QED BY <3>1, NothingReturned
  <2> QED BY <1>2, <2>1, <2>2 DEF CheckVersion
<1>3. CASE FinishCall
  <2>1. CASE main.at = "answered" /\ Return(main.call, Answered(main.call.member, main.value), main.fact)
    <3>1. main.value \in PortalCodes
      BY <1>0, <2>1, MainFields DEF TypeOK
    <3>2. Fits(main.call.member, main.call.arg, Answered(main.call.member, main.value), main.fact)
      BY <2>1, <3>1, ReplyFits DEF AnswersInv, RepliesInv
    <3> QED BY <2>1, <3>2, ReturnFits
  <2>2. CASE Return(main.call, Failed(main.call.member), "nothing")
    BY <2>2, ReturnFits, FailureFits
  <2> QED BY <1>3, <2>1, <2>2 DEF FinishCall
<1>4. CASE PortalReplies
  <2>1. \E value, fact : Reply(value, fact) /\ Says(main.call.member, value, fact)
    <3>1. CASE main.call.member = "QueryStatus"
      <4>1. /\ Says(main.call.member, QueryStatus, QueryFact)
            /\ \A code \in OtherCodes : Says(main.call.member, code, "unheard of")
        BY <3>1 DEF Says, QueryStatus, QueryFact
      <4> QED BY <1>4, <3>1, <4>1 DEF PortalReplies
    <3>2. CASE main.call.member = "SchemeSupported"
      <4>1. Says(main.call.member, 1, "supported") /\ Says(main.call.member, 0, "unsupported")
        BY <3>2 DEF Says
      <4> QED BY <1>4, <3>2, <4>1 DEF PortalReplies
    <3>3. CASE main.call.member \notin {"QueryStatus", "SchemeSupported"}
      <4>1. Says(main.call.member, 1, "done")
        BY <3>3 DEF Says
      <4> QED BY <1>4, <3>3, <4>1 DEF PortalReplies
    <3> QED BY <3>1, <3>2, <3>3
  <2>2. RepliesInv'
    BY <2>1 DEF Reply, RepliesInv
  <2>3. AnswersAreThePortals'
    BY <1>4 DEF AnswersInv, PortalReplies, AnswersAreThePortals
  <2> QED BY <2>2, <2>3
<1>5. CASE CallFails
  <2>1. UNCHANGED outcome /\ main'.at # "answered"
    BY <1>5 DEF CallFails
  <2> QED BY <2>1, NothingReturned
<1>6. CASE UNCHANGED callVars
  BY <1>6, NothingReturned
<1>7. ASSUME \/ RefreshCapabilities \/ Flush \/ Shutdown \/ Worker \/ PortalReplaced \/ PlayersChange
             \/ \E payload \in Payloads : UserActs(payload)
             \/ UNCHANGED vars
      PROVE  UNCHANGED callVars
  BY <1>7 DEF RefreshCapabilities, Flush, Shutdown, Worker, OnOwnerChanged, OnActionInvoked,
              PortalReplaced, PlayersChange, UserActs, vars
<1> QED BY <1>1, <1>2, <1>3, <1>4, <1>5, <1>6, <1>7 DEF Next, MainThread, Desktop

\* Whatever the conversion and the portals do, a call returns what the portal made
\* of it, through both layers and the two numberings of the GameMode status.
THEOREM CallsReturnTheAnswer == Spec => []AnswersAreThePortals
<1>1. Init => AnswersInv
  <2>1. Init => RepliesInv /\ AnswersAreThePortals
    BY DEF Init, RepliesInv, Idle, AnswersAreThePortals, NoOutcome
  <2> QED BY <2>1, InitTypes DEF AnswersInv
<1>2. AnswersInv /\ [Next]_vars => AnswersInv'
  BY NextAnswers
<1>3. AnswersInv => AnswersAreThePortals
  BY DEF AnswersInv
<1> QED BY <1>1, <1>2, <1>3, PTL DEF Spec

-----------------------------------------------------------------------------
(* Failures.                                                               *)

\* Where the errors are in Godot's message queue.
Errors(queue) == {i \in 1..Len(queue) : queue[i].signal = "portal_error"}

\* The failure of the call that the main thread has yet to see.
Due == IF main.at = "failed" THEN 1 ELSE 0

\* A failure that the game has not heard of is in the queue, or is that of the call
\* that returns now, until the backend is shut down.
ReportsInv ==
  /\ reported <= failures
  /\ ~shutting_down => failures = reported + Cardinality(Errors(deferred)) + Due

FailuresInv == TypeOK /\ ReportsInv

LEMMA ErrorsFinite ==
  ASSUME NEW queue \in Seq(Signals)
  PROVE  IsFiniteSet(Errors(queue)) /\ Cardinality(Errors(queue)) \in Nat
<1>1. Len(queue) \in Nat
  BY LenProperties
<1>2. IsFiniteSet(1..Len(queue)) /\ Errors(queue) \in SUBSET (1..Len(queue))
  BY <1>1, FS_Interval DEF Errors
<1> QED BY <1>2, FS_Subset, FS_CardinalityType

LEMMA ErrorsAppended ==
  ASSUME NEW queue \in Seq(Signals), NEW told \in Signals
  PROVE  Cardinality(Errors(Append(queue, told))) =
           Cardinality(Errors(queue)) + IF told.signal = "portal_error" THEN 1 ELSE 0
<1> DEFINE longer == Append(queue, told)
<1>1. /\ Len(queue) \in Nat /\ Len(longer) = Len(queue) + 1
      /\ \A i \in 1..Len(queue) : longer[i] = queue[i]
      /\ longer[Len(queue) + 1] = told
  BY AppendProperties, LenProperties
<1>2. IsFiniteSet(Errors(queue)) /\ Cardinality(Errors(queue)) \in Nat
  BY ErrorsFinite
<1>3. Len(queue) + 1 \notin Errors(queue)
  BY <1>1 DEF Errors
<1> HIDE DEF longer
<1>4. CASE told.signal = "portal_error"
  <2>1. Errors(longer) = Errors(queue) \cup {Len(queue) + 1}
    BY <1>1, <1>4 DEF Errors
  <2>2. Cardinality(Errors(longer)) = Cardinality(Errors(queue)) + 1
    BY <1>2, <1>3, <2>1, FS_AddElement
  <2> QED BY <1>4, <2>2 DEF longer
<1>5. CASE told.signal # "portal_error"
  <2>1. Errors(longer) = Errors(queue)
    BY <1>1, <1>5 DEF Errors
  <2> QED BY <1>2, <1>5, <2>1 DEF longer
<1> QED BY <1>4, <1>5

LEMMA ErrorsFlushed ==
  ASSUME NEW queue \in Seq(Signals), queue # <<>>
  PROVE  Cardinality(Errors(Tail(queue))) =
           Cardinality(Errors(queue)) - IF Head(queue).signal = "portal_error" THEN 1 ELSE 0
<1> DEFINE rest == Tail(queue)
           shift == [i \in Errors(rest) |-> i + 1]
           others == Errors(queue) \ {1}
<1>1. /\ rest \in Seq(Signals) /\ Len(queue) \in Nat /\ Len(queue) >= 1 /\ Len(rest) = Len(queue) - 1
      /\ \A i \in 1..Len(rest) : rest[i] = queue[i + 1]
      /\ Head(queue) = queue[1]
  BY HeadTailProperties, LenProperties, EmptySeq
<1>2. IsFiniteSet(Errors(queue)) /\ Cardinality(Errors(queue)) \in Nat
  BY ErrorsFinite
<1>3. IsFiniteSet(Errors(rest)) /\ Cardinality(Errors(rest)) \in Nat
  BY <1>1, ErrorsFinite
<1>4. Cardinality(others) = Cardinality(Errors(rest))
  <2>1. Errors(rest) \subseteq Nat
    BY <1>1 DEF Errors
  <2>2. \A i \in Nat : i \in Errors(rest) <=> i + 1 \in others
    BY <1>1 DEF Errors
  <2>3. \A j \in others : j - 1 \in Nat /\ (j - 1) + 1 = j
    BY <1>1 DEF Errors
  <2>4. \A i \in Errors(rest) : shift[i] = i + 1
    OBVIOUS
  <2>5. shift \in [Errors(rest) -> others]
    BY <2>1, <2>2
  <2> HIDE DEF shift, others
  <2>6. \A a, b \in Errors(rest) : shift[a] = shift[b] => a = b
    BY <2>1, <2>4
  <2>7. \A j \in others : \E i \in Errors(rest) : shift[i] = j
    <3> SUFFICES ASSUME NEW j \in others PROVE \E i \in Errors(rest) : shift[i] = j
      OBVIOUS
    <3>1. j - 1 \in Errors(rest)
      BY <2>2, <2>3
    <3> QED BY <2>3, <2>4, <3>1
  <2>8. shift \in Bijection(Errors(rest), others)
    BY <2>5, <2>6, <2>7, Fun_IsBij
  <2>9. ExistsBijection(Errors(rest), others)
    BY <2>8, Fun_ExistsBij
  <2> QED BY <1>3, <2>9, FS_Bijection
<1>5. Cardinality(others) = IF 1 \in Errors(queue) THEN Cardinality(Errors(queue)) - 1
                            ELSE Cardinality(Errors(queue))
  BY <1>2, FS_RemoveElement
<1>6. 1 \in Errors(queue) <=> Head(queue).signal = "portal_error"
  BY <1>1 DEF Errors
<1> HIDE DEF rest, others
<1>7. Cardinality(Errors(rest)) =
        Cardinality(Errors(queue)) - IF Head(queue).signal = "portal_error" THEN 1 ELSE 0
  BY <1>2, <1>4, <1>5, <1>6
<1> QED BY <1>7 DEF rest

\* A call that fails, a report of what failed, at once or through the queue, an action
\* on its way, or nothing of that.
LEMMA ReportsKept ==
  ASSUME FailuresInv, UNCHANGED shutting_down,
         \/ NoError /\ UNCHANGED <<failures, Due>>
         \/ NoError /\ failures' = failures + 1 /\ Due' = Due + 1
         \/ EmitError /\ UNCHANGED failures /\ Due = Due' + 1
         \/ EmitNow /\ failures' = failures + 1 /\ UNCHANGED Due
         \/ /\ \E told \in Signals : told.signal = "action" /\ deferred' = Append(deferred, told)
            /\ UNCHANGED <<failures, reported, Due>>
  PROVE  ReportsInv'
<1>1. deferred \in Seq(Signals) /\ failures \in Nat /\ reported \in Nat
  BY DEF FailuresInv, TypeOK
<1>2. Cardinality(Errors(deferred)) \in Nat /\ Due \in Nat /\ Due' \in Nat
  BY <1>1, ErrorsFinite DEF Due
<1>3. /\ reported <= failures
      /\ ~shutting_down => failures = reported + Cardinality(Errors(deferred)) + Due
  BY DEF FailuresInv, ReportsInv
<1> HIDE DEF Due
<1>4. ASSUME failures' \in {failures, failures + 1}, reported' <= failures',
             \/ shutting_down
             \/ failures' = reported' + Cardinality(Errors(deferred')) + Due'
      PROVE  ReportsInv'
  BY <1>4 DEF ReportsInv
<1>5. CASE NoError /\ UNCHANGED <<failures, Due>>
  BY <1>3, <1>5 DEF NoError, ReportsInv
<1>6. CASE NoError /\ failures' = failures + 1 /\ Due' = Due + 1
  BY <1>1, <1>2, <1>3, <1>4, <1>6 DEF NoError
<1>7. CASE EmitError /\ UNCHANGED failures /\ Due = Due' + 1
  <2>1. PICK told \in Signals : told.signal = "portal_error" /\ deferred' = Append(deferred, told)
    BY <1>7 DEF EmitError, Signals
  <2>2. Cardinality(Errors(deferred')) = Cardinality(Errors(deferred)) + 1
    BY <1>1, <2>1, ErrorsAppended
  <2>3. reported' = reported
    BY <1>7 DEF EmitError
  <2> QED BY <1>1, <1>2, <1>3, <1>4, <1>7, <2>2, <2>3
<1>8. CASE EmitNow /\ failures' = failures + 1 /\ UNCHANGED Due
  BY <1>1, <1>2, <1>3, <1>4, <1>8 DEF EmitNow
<1>9. ASSUME NEW told \in Signals, told.signal = "action", deferred' = Append(deferred, told),
             UNCHANGED <<failures, reported, Due>>
      PROVE  ReportsInv'
  <2>1. Cardinality(Errors(deferred')) = Cardinality(Errors(deferred))
    BY <1>1, <1>2, <1>9, ErrorsAppended
  <2> QED BY <1>3, <1>9, <2>1 DEF ReportsInv
<1> QED BY <1>5, <1>6, <1>7, <1>8, <1>9

\* The first layer reports the URIs that have to be refused, and no others; the second
\* finds nothing left to refuse.
LEMMA RefusalsReported ==
  ASSUME NEW call \in Calls, CallBegins(call)
  PROVE  \/ NoError /\ UNCHANGED failures
         \/ EmitNow /\ failures' = failures + 1
<1>1. (FacadePasses(call.arg) <=> Proper(call.arg)) /\ (NativePasses(call.arg) <=> Proper(call.arg))
  BY CallsAssumption, CallFields, LayersAgree
<1>2. CASE ReturnUnasked(call) \/ RefuseFile(call) \/ AskAtOnce(call) \/ BeginSchemeSupported(call)
  <2>1. ~HasCapability \/ call.member # "OpenURI"
    BY <1>2 DEF ReturnUnasked, RefuseFile, AskAtOnce, BeginSchemeSupported
  <2>2. NoError
    BY <1>2 DEF ReturnUnasked, RefuseFile, AskAtOnce, BeginSchemeSupported
  <2> QED BY <2>1, <2>2 DEF CallBegins, CountRefusal
<1>3. CASE RefuseUri(call)
  BY <1>1, <1>3 DEF RefuseUri, CallBegins, CountRefusal
<1>4. CASE OpenUri(call)
  BY <1>1, <1>4 DEF OpenUri, CallBegins, CountRefusal
<1> QED BY <1>2, <1>3, <1>4 DEF CallBegins

LEMMA NextFailures ==
  ASSUME FailuresInv, [Next]_vars
  PROVE  FailuresInv'
<1>0. TypeOK /\ TypeOK'
  BY NextTypes DEF FailuresInv
<1> USE DEF portalVars, nativeVars, callVars, actionVars
<1> SUFFICES ReportsInv'
  BY <1>0 DEF FailuresInv
<1>1. ASSUME NEW call \in Calls, CallBegins(call) PROVE ReportsInv'
  <2>1. UNCHANGED shutting_down
    BY <1>1 DEF CallBegins
  <2>2. Due = 0 /\ Due' = 0
    BY <1>1 DEF CallBegins, Begin, ReturnUnasked, RefuseFile, RefuseUri, OpenUri, AskAtOnce,
                BeginSchemeSupported, Return, Ask, Idle, Due
  <2> HIDE DEF Due
  <2> QED BY <1>1, <2>1, <2>2, RefusalsReported, ReportsKept
<1>2. CASE CheckVersion \/ RefreshCapabilities
  <2>1. UNCHANGED <<shutting_down, failures>> /\ NoError
    BY <1>2 DEF CheckVersion, RefreshCapabilities
  <2>2. UNCHANGED Due
    BY <1>2 DEF CheckVersion, RefreshCapabilities, Return, Ask, Idle, Due
  <2> HIDE DEF Due
  <2> QED BY <2>1, <2>2, ReportsKept
<1>8. CASE FinishCall
  <2>1. UNCHANGED <<shutting_down, failures>>
    BY <1>8 DEF FinishCall
  <2>2. (NoError /\ UNCHANGED Due) \/ (EmitError /\ Due = Due' + 1)
    <3>1. \/ main.at = "answered" /\ main' = Idle /\ NoError
          \/ main.at = "failed" /\ main' = Idle /\ EmitError
      <4>1. CASE main.at = "answered" /\ NoError
                 /\ Return(main.call, Answered(main.call.member, main.value), main.fact)
        BY <4>1, Zenon DEF Return
      <4>2. CASE main.at = "failed" /\ EmitError
                 /\ Return(main.call, Failed(main.call.member), "nothing")
        BY <4>2, Zenon DEF Return
      <4> QED BY <1>8, <4>1, <4>2, Zenon DEF FinishCall
    <3>2. CASE main.at = "answered" /\ main' = Idle /\ NoError
      <4>1. Due = 0 /\ Due' = 0
        BY <3>2 DEF Idle, Due
      <4> QED BY <3>2, <4>1
    <3>3. CASE main.at = "failed" /\ main' = Idle /\ EmitError
      <4>1. Due = 1 /\ Due' = 0
        BY <3>3 DEF Idle, Due
      <4> QED BY <3>3, <4>1
    <3> QED BY <3>1, <3>2, <3>3
  <2> HIDE DEF Due
  <2> QED BY <2>1, <2>2, ReportsKept
<1>9. CASE CallFails
  <2>1. UNCHANGED shutting_down /\ NoError /\ failures' = failures + 1
    BY <1>9 DEF CallFails, NoError
  <2>2. Due' = Due + 1
    BY <1>9 DEF CallFails, Due
  <2> HIDE DEF Due
  <2> QED BY <2>1, <2>2, ReportsKept
<1>3. CASE Flush
  <2>1. /\ deferred \in Seq(Signals) /\ deferred # <<>> /\ deferred' = Tail(deferred)
        /\ failures \in Nat /\ reported \in Nat
        /\ UNCHANGED <<failures, shutting_down>>
    BY <1>0, <1>3 DEF Flush, TypeOK
  <2>2. /\ Cardinality(Errors(deferred')) = Cardinality(Errors(deferred))
             - IF Head(deferred).signal = "portal_error" THEN 1 ELSE 0
        /\ Cardinality(Errors(deferred)) \in Nat
    BY <2>1, ErrorsFlushed, ErrorsFinite
  <2>3. Cardinality(Errors(deferred')) \in Nat
    BY <1>0, ErrorsFinite DEF TypeOK
  <2>4. reported' = IF Head(deferred).signal = "portal_error" /\ ~shutting_down
                      THEN reported + 1 ELSE reported
    BY <1>3 DEF Flush
  <2>5. CASE shutting_down
    BY <2>1, <2>4, <2>5 DEF FailuresInv, ReportsInv
  <2>7. Due = 0 /\ Due' = 0
    BY <1>3 DEF Flush, Idle, Due
  <2> HIDE DEF Due
  <2>6. CASE ~shutting_down
    <3>1. reported' + Cardinality(Errors(deferred')) = reported + Cardinality(Errors(deferred))
      BY <2>1, <2>2, <2>4, <2>6
    <3>2. failures' = reported' + Cardinality(Errors(deferred'))
      BY <2>1, <2>2, <2>3, <2>4, <2>6, <2>7, <3>1 DEF FailuresInv, ReportsInv
    <3>3. reported' \in Nat
      BY <1>0 DEF TypeOK
    <3> QED BY <2>1, <2>3, <2>7, <3>2, <3>3 DEF ReportsInv
  <2> QED BY <2>5, <2>6
<1>4. CASE Shutdown
  BY <1>4 DEF Shutdown, errorVars, FailuresInv, ReportsInv, Due
<1>5. CASE OnActionInvoked
  <2>1. UNCHANGED <<shutting_down, failures, reported, Due>>
    BY <1>5 DEF OnActionInvoked, errorVars, Due
  <2> HIDE DEF Due
  <2>2. CASE UNCHANGED deferred
    BY <2>1, <2>2, ReportsKept DEF NoError
  <2>3. CASE EmitAction(Head(inbox).number, Head(inbox).payload)
    <3>1. Head(inbox) \in [number : Nat, payload : Payloads]
      BY <1>0, <1>5, HeadTailProperties DEF OnActionInvoked, TypeOK
    <3>2. [signal |-> "action", action |-> [number |-> Head(inbox).number,
                                            value |-> Parameters(Head(inbox).payload.value)]] \in Signals
      BY <3>1 DEF Signals, Actions
    <3>3. \E told \in Signals : told.signal = "action" /\ deferred' = Append(deferred, told)
      BY <2>3, <3>2 DEF EmitAction
    <3> QED BY <2>1, <3>3, ReportsKept
  <2> QED BY <1>5, <2>2, <2>3 DEF OnActionInvoked
<1>6. CASE UNCHANGED <<failures, reported, deferred, shutting_down, Due>>
  <2> HIDE DEF Due
  <2> QED BY <1>6, ReportsKept DEF NoError
<1>7. ASSUME \/ OnOwnerChanged \/ PortalReplies \/ PortalReplaced \/ PlayersChange
             \/ \E payload \in Payloads : UserActs(payload)
             \/ UNCHANGED vars
      PROVE  UNCHANGED <<failures, reported, deferred, shutting_down, Due>>
  <2>1. UNCHANGED <<failures, reported, deferred, shutting_down>>
    BY <1>7 DEF OnOwnerChanged, PortalReplies, PortalReplaced, PlayersChange, UserActs,
                vars, errorVars
  <2>2. UNCHANGED Due
    <3>1. CASE PortalReplies
      <4>1. main.at = "asked" /\ \E value, fact : Reply(value, fact)
        <5>1. CASE main.call.member = "QueryStatus"
          BY <3>1, <5>1, Zenon DEF PortalReplies
        <5>2. CASE main.call.member = "SchemeSupported"
          BY <3>1, <5>2 DEF PortalReplies
        <5>3. CASE main.call.member \notin {"QueryStatus", "SchemeSupported"}
          BY <3>1, <5>3 DEF PortalReplies
        <5> QED BY <5>1, <5>2, <5>3
      <4>2. main'.at = "answered"
        BY <4>1 DEF Reply
      <4> QED BY <4>1, <4>2 DEF Due
    <3>2. CASE UNCHANGED main
      BY <3>2 DEF Due
    <3> QED BY <1>7, <3>1, <3>2
            DEF OnOwnerChanged, PortalReplaced, PlayersChange, UserActs, vars
  <2> QED BY <2>1, <2>2
<1> QED BY <1>1, <1>2, <1>3, <1>4, <1>5, <1>6, <1>7, <1>8, <1>9
        DEF Next, MainThread, Worker, Desktop

\* However many calls fail and whatever URIs have to be refused, a game hears of each
\* from one layer, and from no other: never of more failures than there were, and,
\* once all is flushed, of every one.
THEOREM FailuresReportedOnce == Spec => []FailuresAreReported
<1>1. Init => FailuresInv
  <2> SUFFICES ASSUME Init PROVE ReportsInv
    BY InitTypes DEF FailuresInv
  <2>1. Errors(deferred) = {}
    BY EmptySeq DEF Init, Errors
  <2> QED BY <2>1, FS_EmptySet DEF Init, Idle, Due, ReportsInv
<1>2. FailuresInv /\ [Next]_vars => FailuresInv'
  BY NextFailures
<1>3. FailuresInv => FailuresAreReported
  <2> SUFFICES ASSUME FailuresInv PROVE FailuresAreReported
    OBVIOUS
  <2>1. deferred = <<>> => Errors(deferred) = {}
    BY EmptySeq DEF Errors
  <2>2. deferred = <<>> => Cardinality(Errors(deferred)) = 0
    BY <2>1, FS_EmptySet
  <2>3. failures \in Nat /\ reported \in Nat
    BY DEF FailuresInv, TypeOK
  <2>4. main = Idle => Due = 0
    BY DEF Idle, Due
  <2> QED BY <2>2, <2>3, <2>4 DEF FailuresInv, ReportsInv, FailuresAreReported
<1> QED BY <1>1, <1>2, <1>3, PTL DEF Spec

-----------------------------------------------------------------------------
(* Actions.                                                                *)

\* What the conversion owes to ActionsArrive: parameters of type (ssav) keep what
\* they say.
ParametersKeepMeaning ==
  \A payload \in Payloads : payload.typed => Means(payload.value, Parameters(payload.value))

\* How many of the ActionInvoked that were sent the worker has handled.
Handled == Len(sent) - Len(inbox)

\* An action is one of the first n of those that were sent, and reads as it should.
Genuine(action, of, n) ==
  /\ action.number \in 1..n
  /\ of[action.number].typed
  /\ action.value = Parameters(of[action.number].value)

Queued(i) == deferred[i].signal = "action"
InQueue(n) == \E i \in 1..Len(deferred) : Queued(i) /\ deferred[i].action.number = n
WasHeard(n) == \E i \in 1..Len(heard) : heard[i].number = n

\* The bus delivers in order, and what it has yet to deliver are the last sent.
InboxInv ==
  /\ Len(inbox) <= Len(sent)
  /\ \A i \in 1..Len(inbox) :
       inbox[i].number = Handled + i /\ inbox[i].payload = sent[Handled + i]

\* Actions are in order in Godot's queue, and later than those that were heard.
QueueInv ==
  /\ \A i \in 1..Len(deferred) : Queued(i) => Genuine(deferred[i].action, sent, Handled)
  /\ \A i, j \in 1..Len(deferred) :
       i < j /\ Queued(i) /\ Queued(j) => deferred[i].action.number < deferred[j].action.number
HeardInv ==
  /\ \A i \in 1..Len(heard) : Genuine(heard[i], sent, Handled)
  /\ \A i, j \in 1..Len(heard) : i < j => heard[i].number < heard[j].number
  /\ \A i \in 1..Len(heard) : \A j \in 1..Len(deferred) :
       Queued(j) => heard[i].number < deferred[j].action.number

\* While the backend lives, nothing that was handled is lost.
NothingLostInv ==
  ~shutting_down => \A n \in 1..Handled : sent[n].typed => WasHeard(n) \/ InQueue(n)

ArrivalInv == InboxInv /\ QueueInv /\ HeardInv /\ NothingLostInv
ActionsInv == TypeOK /\ ArrivalInv

LEMMA Lengths ==
  ASSUME TypeOK
  PROVE  /\ Len(sent) \in Nat /\ Len(inbox) \in Nat /\ Len(deferred) \in Nat /\ Len(heard) \in Nat
         /\ Handled \in Int
         /\ \A i \in 1..Len(heard) : heard[i].number \in Nat
         /\ \A i \in 1..Len(deferred) : Queued(i) => deferred[i].action.number \in Nat
<1>1. Len(sent) \in Nat /\ Len(inbox) \in Nat /\ Len(deferred) \in Nat /\ Len(heard) \in Nat
  BY LenProperties DEF TypeOK
<1>2. \A i \in 1..Len(heard) : heard[i] \in Actions
  BY ElementOfSeq DEF TypeOK
<1>3. \A i \in 1..Len(deferred) : deferred[i] \in Signals
  BY ElementOfSeq DEF TypeOK
<1>4. \A action \in Actions : action.number \in Nat
  BY DEF Actions
<1>5. \A i \in 1..Len(deferred) : Queued(i) => deferred[i].action \in Actions
  BY <1>3 DEF Signals, Queued
<1> QED BY <1>1, <1>2, <1>4, <1>5 DEF Handled

\* Nothing but errors is added to the queue.
LEMMA NoActionMoves ==
  ASSUME ActionsInv, TypeOK', UNCHANGED <<inbox, sent, heard, shutting_down>>,
         Len(deferred) <= Len(deferred'),
         \A i \in 1..Len(deferred) : deferred'[i] = deferred[i],
         \A i \in 1..Len(deferred') : Queued(i)' => i <= Len(deferred)
  PROVE  ArrivalInv'
<1>1. Len(deferred) \in Nat /\ Len(deferred') \in Nat
  BY Lengths DEF ActionsInv, TypeOK
<1>2. Handled' = Handled
  BY DEF Handled
<1>3. /\ 1..Len(deferred) \subseteq 1..Len(deferred')
      /\ \A i \in 1..Len(deferred') : Queued(i)' => i \in 1..Len(deferred) /\ Queued(i)
      /\ \A i \in 1..Len(deferred) : Queued(i) => Queued(i)'
  BY <1>1 DEF Queued
<1>4. InboxInv'
  BY <1>2 DEF ActionsInv, ArrivalInv, InboxInv
<1>5. QueueInv'
  BY <1>2, <1>3 DEF ActionsInv, ArrivalInv, QueueInv
<1>6. HeardInv'
  BY <1>2, <1>3 DEF ActionsInv, ArrivalInv, HeardInv
<1>7. NothingLostInv'
  <2>1. \A n : InQueue(n) => InQueue(n)'
    BY <1>3 DEF InQueue
  <2>2. \A n : WasHeard(n) => WasHeard(n)'
    BY DEF WasHeard
  <2> SUFFICES ASSUME ~shutting_down', NEW n \in 1..Handled', sent'[n].typed
               PROVE  WasHeard(n)' \/ InQueue(n)'
    BY DEF NothingLostInv
  <2>3. ~shutting_down
    OBVIOUS
  <2>4. n \in 1..Handled /\ sent[n].typed
    BY <1>2
  <2>5. WasHeard(n) \/ InQueue(n)
    BY <2>3, <2>4 DEF ActionsInv, ArrivalInv, NothingLostInv
  <2> QED BY <2>1, <2>2, <2>5
<1> QED BY <1>4, <1>5, <1>6, <1>7 DEF ArrivalInv

LEMMA UserActsArrival ==
  ASSUME ActionsInv, TypeOK', NEW payload \in Payloads, UserActs(payload)
  PROVE  ArrivalInv'
<1>1. /\ Len(sent) \in Nat /\ Len(sent') = Len(sent) + 1
      /\ \A i \in 1..Len(sent) : sent'[i] = sent[i]
      /\ sent'[Len(sent) + 1] = payload
  BY AppendProperties, LenProperties DEF UserActs, ActionsInv, TypeOK
<1>2. /\ Len(inbox) \in Nat /\ Len(inbox') = Len(inbox) + 1
      /\ \A i \in 1..Len(inbox) : inbox'[i] = inbox[i]
      /\ inbox'[Len(inbox) + 1] = [number |-> Len(sent) + 1, payload |-> payload]
  <2>1. [number |-> Len(sent'), payload |-> payload] \in [number : Nat, payload : Payloads]
    BY <1>1
  <2> QED BY <1>1, <2>1, AppendProperties, LenProperties DEF UserActs, ActionsInv, TypeOK
<1>3. Handled' = Handled /\ Handled \in Nat /\ Handled <= Len(sent)
  BY <1>1, <1>2 DEF Handled, ActionsInv, ArrivalInv, InboxInv
<1>4. UNCHANGED <<deferred, heard, shutting_down>>
  BY DEF UserActs, nativeVars
<1>5. \A action : Genuine(action, sent, Handled) => Genuine(action, sent', Handled')
  BY <1>1, <1>3 DEF Genuine
<1>6. \A i : Queued(i)' <=> Queued(i)
  BY <1>4 DEF Queued
<1>7. InboxInv'
  <2>1. Len(inbox') <= Len(sent')
    BY <1>1, <1>2 DEF ActionsInv, ArrivalInv, InboxInv
  <2>2. ASSUME NEW i \in 1..Len(inbox')
        PROVE  inbox'[i].number = Handled' + i /\ inbox'[i].payload = sent'[Handled' + i]
    <3>1. CASE i = Len(inbox) + 1
      <4>1. Handled' + i = Len(sent) + 1
        BY <1>1, <1>2, <1>3, <3>1 DEF Handled
      <4> QED BY <1>1, <1>2, <3>1, <4>1
    <3>2. CASE i \in 1..Len(inbox)
      <4>1. Handled' + i \in 1..Len(sent)
        BY <1>1, <1>2, <1>3, <3>2 DEF Handled
      <4> QED BY <1>1, <1>2, <1>3, <3>2, <4>1 DEF ActionsInv, ArrivalInv, InboxInv
    <3> QED BY <1>2, <3>1, <3>2
  <2> QED BY <2>1, <2>2 DEF InboxInv
<1>8. QueueInv' /\ HeardInv'
  BY <1>4, <1>5, <1>6 DEF ActionsInv, ArrivalInv, QueueInv, HeardInv
<1>9. NothingLostInv'
  <2>1. \A n : (InQueue(n)' <=> InQueue(n)) /\ (WasHeard(n)' <=> WasHeard(n))
    BY <1>4, <1>6 DEF InQueue, WasHeard
  <2>2. \A n \in 1..Handled : sent'[n] = sent[n]
    BY <1>1, <1>3
  <2> QED BY <1>3, <1>4, <2>1, <2>2 DEF ActionsInv, ArrivalInv, NothingLostInv
<1> QED BY <1>7, <1>8, <1>9 DEF ArrivalInv

LEMMA HandleArrival ==
  ASSUME ActionsInv, TypeOK', OnActionInvoked
  PROVE  ArrivalInv'
<1> DEFINE first == Head(inbox)
           next == [signal |-> "action", action |-> [number |-> first.number,
                                                     value |-> Parameters(first.payload.value)]]
<1>1. /\ Len(inbox) \in Nat /\ Len(inbox') = Len(inbox) - 1 /\ Len(inbox) >= 1
      /\ \A i \in 1..Len(inbox') : inbox'[i] = inbox[i + 1]
      /\ first = inbox[1]
  BY HeadTailProperties, LenProperties, EmptySeq DEF OnActionInvoked, ActionsInv, TypeOK
<1>2. UNCHANGED <<sent, heard, shutting_down>>
  BY DEF OnActionInvoked, nativeVars
<1>3. /\ Len(sent) \in Nat /\ Len(deferred) \in Nat /\ Len(heard) \in Nat
      /\ Handled \in Nat /\ Handled' = Handled + 1 /\ Handled' <= Len(sent)
  BY <1>1, <1>2, Lengths DEF Handled, ActionsInv, ArrivalInv, InboxInv
<1>4. first.number = Handled + 1 /\ first.payload = sent[Handled + 1]
  BY <1>1 DEF ActionsInv, ArrivalInv, InboxInv
<1>5. \A action : Genuine(action, sent, Handled)
                      => Genuine(action, sent', Handled') /\ action.number < Handled + 1
  BY <1>2, <1>3 DEF Genuine
<1>6. InboxInv'
  <2>1. ASSUME NEW i \in 1..Len(inbox')
        PROVE  inbox'[i].number = Handled' + i /\ inbox'[i].payload = sent'[Handled' + i]
    <3>1. i + 1 \in 1..Len(inbox) /\ Handled + (i + 1) = Handled' + i
      BY <1>1, <1>3
    <3>2. inbox[i + 1].number = Handled + (i + 1) /\ inbox[i + 1].payload = sent[Handled + (i + 1)]
      BY <3>1 DEF ActionsInv, ArrivalInv, InboxInv
    <3> QED BY <1>1, <1>2, <3>1, <3>2
  <2>2. Len(inbox') <= Len(sent')
    BY <1>1, <1>2, <1>3 DEF ActionsInv, ArrivalInv, InboxInv
  <2> QED BY <2>1, <2>2 DEF InboxInv
<1>7. \A n : WasHeard(n)' <=> WasHeard(n)
  BY <1>2 DEF WasHeard
<1> HIDE DEF next, first
<1>8. CASE ~shutting_down /\ first.payload.typed
  <2>0. deferred' = Append(deferred, next)
    BY <1>8 DEF OnActionInvoked, EmitAction, next, first
  <2>1. next \in Signals
    <3>1. first \in [number : Nat, payload : Payloads]
      BY HeadTailProperties DEF OnActionInvoked, ActionsInv, TypeOK, first
    <3> QED BY <3>1 DEF next, Signals, Actions
  <2>2. /\ Len(deferred') = Len(deferred) + 1
        /\ \A i \in 1..Len(deferred) : deferred'[i] = deferred[i]
        /\ deferred'[Len(deferred) + 1] = next
    BY <2>0, <2>1, AppendProperties DEF ActionsInv, TypeOK
  <2>3. /\ next.signal = "action" /\ next.action.number = Handled + 1
        /\ next.action.value = Parameters(sent[Handled + 1].value)
    BY <1>4 DEF next
  <2>4. Genuine(next.action, sent', Handled')
    BY <1>2, <1>3, <1>4, <1>8, <2>3 DEF Genuine
  <2>5. /\ \A i \in 1..Len(deferred) : Queued(i)' <=> Queued(i)
        /\ \A i : i = Len(deferred) + 1 => Queued(i)'
        /\ \A i \in 1..Len(deferred') : i \in 1..Len(deferred) \/ i = Len(deferred) + 1
    BY <1>3, <2>2, <2>3 DEF Queued
  <2>6. QueueInv'
    <3>1. \A i \in 1..Len(deferred) : Queued(i) => Genuine(deferred[i].action, sent, Handled)
      BY DEF ActionsInv, ArrivalInv, QueueInv
    <3>2. \A i \in 1..Len(deferred') :
            Queued(i)' => Genuine(deferred'[i].action, sent', Handled')
      BY <1>5, <2>2, <2>4, <2>5, <3>1
    <3>3. ASSUME NEW i \in 1..Len(deferred'), NEW j \in 1..Len(deferred'), i < j, Queued(i)', Queued(j)'
          PROVE  deferred'[i].action.number < deferred'[j].action.number
      <4>1. i \in 1..Len(deferred) /\ Queued(i) /\ deferred'[i] = deferred[i]
        BY <1>3, <2>2, <2>5, <3>3
      <4>2. CASE j \in 1..Len(deferred)
        BY <2>2, <2>5, <3>3, <4>1, <4>2 DEF ActionsInv, ArrivalInv, QueueInv
      <4>3. CASE j = Len(deferred) + 1
        BY <1>5, <2>2, <2>3, <3>1, <4>1, <4>3
      <4> QED BY <2>5, <4>2, <4>3
    <3> QED BY <3>2, <3>3 DEF QueueInv
  <2>7. HeardInv'
    <3>1. \A i \in 1..Len(heard) : Genuine(heard[i], sent, Handled)
      BY DEF ActionsInv, ArrivalInv, HeardInv
    <3>2. ASSUME NEW i \in 1..Len(heard), NEW j \in 1..Len(deferred'), Queued(j)'
          PROVE  heard[i].number < deferred'[j].action.number
      <4>1. CASE j \in 1..Len(deferred)
        BY <2>2, <2>5, <3>2, <4>1 DEF ActionsInv, ArrivalInv, HeardInv
      <4>2. CASE j = Len(deferred) + 1
        BY <1>5, <2>2, <2>3, <3>1, <4>2
      <4> QED BY <2>5, <4>1, <4>2
    <3>4. \A i \in 1..Len(heard') : Genuine(heard'[i], sent', Handled')
      BY <1>2, <1>5, <3>1
    <3>5. \A i, j \in 1..Len(heard') : i < j => heard'[i].number < heard'[j].number
      BY <1>2 DEF ActionsInv, ArrivalInv, HeardInv
    <3> QED BY <1>2, <3>2, <3>4, <3>5 DEF HeardInv
  <2>8. NothingLostInv'
    <3>1. \A n : n = Handled + 1 => InQueue(n)'
      <4>1. Len(deferred) + 1 \in 1..Len(deferred')
        BY <1>3, <2>2
      <4> QED BY <2>2, <2>3, <2>5, <4>1 DEF InQueue
    <3>2. \A n : InQueue(n) => InQueue(n)'
      <4>1. 1..Len(deferred) \subseteq 1..Len(deferred')
        BY <1>3, <2>2
      <4> QED BY <2>2, <2>5, <4>1 DEF InQueue
    <3>3. \A n \in 1..Handled' : n \in 1..Handled \/ n = Handled + 1
      BY <1>3
    <3> SUFFICES ASSUME NEW n \in 1..Handled', sent'[n].typed PROVE WasHeard(n)' \/ InQueue(n)'
      BY DEF NothingLostInv
    <3>4. CASE n = Handled + 1
      BY <3>1, <3>4
    <3>5. CASE n \in 1..Handled
      <4>1. WasHeard(n) \/ InQueue(n)
        BY <1>2, <1>8, <3>5 DEF ActionsInv, ArrivalInv, NothingLostInv
      <4> QED BY <1>7, <3>2, <4>1
    <3> QED BY <3>3, <3>4, <3>5
  <2> QED BY <1>6, <2>6, <2>7, <2>8 DEF ArrivalInv
<1>9. CASE shutting_down \/ ~first.payload.typed
  <2>1. deferred' = deferred
    BY <1>9 DEF OnActionInvoked, first
  <2>2. \A i : Queued(i)' <=> Queued(i)
    BY <2>1 DEF Queued
  <2>3. \A n : InQueue(n)' <=> InQueue(n)
    BY <2>1, <2>2 DEF InQueue
  <2>4. QueueInv' /\ HeardInv'
    BY <1>2, <1>5, <2>1, <2>2 DEF ActionsInv, ArrivalInv, QueueInv, HeardInv
  <2>5. NothingLostInv'
    <3>1. CASE shutting_down
      BY <1>2, <3>1 DEF NothingLostInv
    <3>2. CASE ~first.payload.typed
      <4>1. ~sent[Handled + 1].typed
        BY <1>4, <3>2
      <4>2. \A n \in 1..Handled' : n \in 1..Handled \/ n = Handled + 1
        BY <1>3
      <4> QED BY <1>2, <1>7, <2>3, <4>1, <4>2 DEF ActionsInv, ArrivalInv, NothingLostInv
    <3> QED BY <1>9, <3>1, <3>2
  <2> QED BY <1>6, <2>4, <2>5 DEF ArrivalInv
<1> QED BY <1>8, <1>9

LEMMA FlushArrival ==
  ASSUME ActionsInv, TypeOK', Flush
  PROVE  ArrivalInv'
<1> DEFINE told == Head(deferred)
<1>1. /\ Len(deferred) \in Nat /\ Len(deferred') = Len(deferred) - 1 /\ Len(deferred) >= 1
      /\ \A i \in 1..Len(deferred') : deferred'[i] = deferred[i + 1]
      /\ told = deferred[1]
  BY HeadTailProperties, LenProperties, EmptySeq DEF Flush, ActionsInv, TypeOK
<1>2. UNCHANGED <<sent, inbox, shutting_down>>
  BY DEF Flush, nativeVars
<1>3. Handled' = Handled /\ Len(heard) \in Nat
  BY <1>2, Lengths DEF Handled, ActionsInv
<1>4. \A i : i \in 1..Len(deferred') => i + 1 \in 1..Len(deferred) /\ (Queued(i)' => Queued(i + 1))
  BY <1>1 DEF Queued
<1>5. InboxInv'
  BY <1>2, <1>3 DEF ActionsInv, ArrivalInv, InboxInv
<1>6. QueueInv'
  <2>1. ASSUME NEW i \in 1..Len(deferred'), Queued(i)'
        PROVE  Genuine(deferred'[i].action, sent', Handled')
    BY <1>1, <1>2, <1>3, <1>4, <2>1 DEF ActionsInv, ArrivalInv, QueueInv
  <2>2. ASSUME NEW i \in 1..Len(deferred'), NEW j \in 1..Len(deferred'), i < j, Queued(i)', Queued(j)'
        PROVE  deferred'[i].action.number < deferred'[j].action.number
    <3>1. i + 1 < j + 1
      BY <2>2
    <3> QED BY <1>1, <1>4, <2>2, <3>1 DEF ActionsInv, ArrivalInv, QueueInv
  <2> QED BY <2>1, <2>2 DEF QueueInv
<1>7. \A n : InQueue(n) => InQueue(n)' \/ (told.signal = "action" /\ told.action.number = n)
  <2> SUFFICES ASSUME NEW n, NEW i \in 1..Len(deferred), Queued(i), deferred[i].action.number = n, i # 1
               PROVE  InQueue(n)'
    BY <1>1 DEF InQueue, Queued
  <2>1. i - 1 \in 1..Len(deferred') /\ deferred'[i - 1] = deferred[i]
    <3>1. i - 1 \in 1..Len(deferred') /\ (i - 1) + 1 = i
      BY <1>1
    <3> QED BY <1>1, <3>1
  <2> QED BY <2>1 DEF InQueue, Queued
<1> HIDE DEF told
<1>8. CASE told.signal = "action" /\ ~shutting_down
  <2>0. heard' = Append(heard, told.action)
    BY <1>8 DEF Flush, told
  <2>1. told.action \in Actions
    <3>1. told \in Signals
      BY HeadTailProperties DEF Flush, ActionsInv, TypeOK, told
    <3> QED BY <1>8, <3>1 DEF Signals
  <2>2. /\ Len(heard') = Len(heard) + 1
        /\ \A i \in 1..Len(heard) : heard'[i] = heard[i]
        /\ heard'[Len(heard) + 1] = told.action
    BY <2>0, <2>1, AppendProperties DEF ActionsInv, TypeOK
  <2>3. 1 \in 1..Len(deferred) /\ Queued(1)
    BY <1>1, <1>8 DEF Queued
  <2>4. /\ Genuine(told.action, sent, Handled)
        /\ \A i \in 1..Len(heard) : heard[i].number < told.action.number
    BY <1>1, <2>3 DEF ActionsInv, ArrivalInv, QueueInv, HeardInv
  <2>5. \A j : j \in 1..Len(deferred') /\ Queued(j)' => told.action.number < deferred'[j].action.number
    <3> SUFFICES ASSUME NEW j, j \in 1..Len(deferred'), Queued(j)'
                 PROVE  told.action.number < deferred'[j].action.number
      OBVIOUS
    <3>1. 1 < j + 1
      BY <1>1
    <3> QED BY <1>1, <1>4, <2>3, <3>1 DEF ActionsInv, ArrivalInv, QueueInv
  <2>6. \A i \in 1..Len(heard') : i \in 1..Len(heard) \/ i = Len(heard) + 1
    BY <1>3, <2>2
  <2>7. HeardInv'
    <3>1. \A i \in 1..Len(heard') : Genuine(heard'[i], sent', Handled')
      BY <1>2, <1>3, <2>2, <2>4, <2>6 DEF ActionsInv, ArrivalInv, HeardInv
    <3>2. ASSUME NEW i \in 1..Len(heard'), NEW j \in 1..Len(heard'), i < j
          PROVE  heard'[i].number < heard'[j].number
      <4>1. i \in 1..Len(heard)
        BY <1>3, <2>2, <3>2
      <4> QED BY <2>2, <2>4, <2>6, <3>2, <4>1 DEF ActionsInv, ArrivalInv, HeardInv
    <3>3. ASSUME NEW i \in 1..Len(heard'), NEW j \in 1..Len(deferred'), Queued(j)'
          PROVE  heard'[i].number < deferred'[j].action.number
      <4>1. CASE i \in 1..Len(heard)
        BY <1>1, <1>4, <2>2, <3>3, <4>1 DEF ActionsInv, ArrivalInv, HeardInv
      <4>2. CASE i = Len(heard) + 1
        BY <2>2, <2>5, <3>3, <4>2
      <4> QED BY <2>6, <4>1, <4>2
    <3> QED BY <3>1, <3>2, <3>3 DEF HeardInv
  <2>8. \A n : WasHeard(n) \/ told.action.number = n => WasHeard(n)'
    <3>1. 1..Len(heard) \subseteq 1..Len(heard') /\ Len(heard) + 1 \in 1..Len(heard')
      BY <1>3, <2>2
    <3> QED BY <2>2, <3>1 DEF WasHeard
  <2>9. NothingLostInv'
    <3> SUFFICES ASSUME NEW n \in 1..Handled', sent'[n].typed PROVE WasHeard(n)' \/ InQueue(n)'
      BY DEF NothingLostInv
    <3>1. WasHeard(n) \/ InQueue(n)
      BY <1>2, <1>3, <1>8 DEF ActionsInv, ArrivalInv, NothingLostInv
    <3> QED BY <1>7, <2>8, <3>1
  <2> QED BY <1>5, <1>6, <2>7, <2>9 DEF ArrivalInv
<1>9. CASE told.signal # "action" \/ shutting_down
  <2>1. heard' = heard
    BY <1>9 DEF Flush, told
  <2>2. HeardInv'
    <3>1. /\ \A i \in 1..Len(heard') : Genuine(heard'[i], sent', Handled')
          /\ \A i, j \in 1..Len(heard') : i < j => heard'[i].number < heard'[j].number
      BY <1>2, <1>3, <2>1 DEF ActionsInv, ArrivalInv, HeardInv
    <3>2. ASSUME NEW i \in 1..Len(heard'), NEW j \in 1..Len(deferred'), Queued(j)'
          PROVE  heard'[i].number < deferred'[j].action.number
      BY <1>1, <1>4, <2>1, <3>2 DEF ActionsInv, ArrivalInv, HeardInv
    <3> QED BY <3>1, <3>2 DEF HeardInv
  <2>3. NothingLostInv'
    <3> SUFFICES ASSUME ~shutting_down, NEW n \in 1..Handled', sent'[n].typed
                 PROVE  WasHeard(n)' \/ InQueue(n)'
      BY <1>2 DEF NothingLostInv
    <3>1. WasHeard(n) \/ InQueue(n)
      BY <1>2, <1>3 DEF ActionsInv, ArrivalInv, NothingLostInv
    <3>2. WasHeard(n) => WasHeard(n)'
      BY <2>1 DEF WasHeard
    <3> QED BY <1>7, <1>9, <3>1, <3>2
  <2> QED BY <1>5, <1>6, <2>2, <2>3 DEF ArrivalInv
<1> QED BY <1>8, <1>9

LEMMA NextActions ==
  ASSUME ActionsInv, [Next]_vars
  PROVE  ActionsInv'
<1>0. TypeOK /\ TypeOK'
  BY NextTypes DEF ActionsInv
<1> USE DEF portalVars, nativeVars, callVars, actionVars, errorVars
<1> SUFFICES ArrivalInv'
  BY <1>0 DEF ActionsInv
<1>1. deferred \in Seq(Signals) /\ Len(deferred) \in Nat
  BY <1>0, LenProperties DEF TypeOK
<1>2. ASSUME UNCHANGED <<inbox, sent, heard, shutting_down>>,
             EmitError \/ EmitNow \/ NoError
      PROVE  ArrivalInv'
  <2>1. CASE EmitError
    <3>1. PICK told \in Signals : told.signal = "portal_error" /\ deferred' = Append(deferred, told)
      BY <2>1 DEF EmitError, Signals
    <3>2. /\ Len(deferred') = Len(deferred) + 1 /\ deferred'[Len(deferred) + 1] = told
          /\ \A i \in 1..Len(deferred) : deferred'[i] = deferred[i]
      BY <1>1, <3>1, AppendProperties
    <3>3. \A i \in 1..Len(deferred') : Queued(i)' => i <= Len(deferred)
      BY <1>1, <3>1, <3>2 DEF Queued
    <3>4. Len(deferred) <= Len(deferred')
      BY <1>1, <3>2
    <3> QED BY <1>0, <1>2, <3>2, <3>3, <3>4, NoActionMoves
  <2>2. CASE UNCHANGED deferred
    <3>1. \A i \in 1..Len(deferred') : Queued(i)' => i <= Len(deferred)
      BY <1>1, <2>2
    <3>2. Len(deferred) <= Len(deferred') /\ \A i \in 1..Len(deferred) : deferred'[i] = deferred[i]
      BY <1>1, <2>2
    <3> QED BY <1>0, <1>2, <3>1, <3>2, NoActionMoves
  <2> QED BY <1>2, <2>1, <2>2 DEF EmitNow, NoError
<1>3. ASSUME NEW call \in Calls, CallBegins(call) PROVE ArrivalInv'
  <2>1. UNCHANGED <<inbox, sent, heard, shutting_down>> /\ (EmitError \/ EmitNow \/ NoError)
    BY <1>3 DEF CallBegins, ReturnUnasked, RefuseFile, RefuseUri, OpenUri, AskAtOnce,
                BeginSchemeSupported
  <2> QED BY <1>2, <2>1
<1>4. CASE CheckVersion \/ FinishCall \/ RefreshCapabilities
  <2>1. UNCHANGED <<inbox, sent, heard, shutting_down>> /\ (EmitError \/ EmitNow \/ NoError)
    BY <1>4 DEF CheckVersion, FinishCall, RefreshCapabilities
  <2> QED BY <1>2, <2>1
<1>5. CASE Shutdown
  <2>1. UNCHANGED <<inbox, sent, heard>> /\ ~shutting_down /\ NoError
    BY <1>5 DEF Shutdown, NoError
  <2>2. shutting_down' = TRUE
    BY <1>5 DEF Shutdown
  <2>3. NothingLostInv'
    BY <2>2 DEF NothingLostInv
  <2>4. InboxInv' /\ QueueInv' /\ HeardInv'
    BY <1>5 DEF Shutdown, ActionsInv, ArrivalInv, InboxInv, QueueInv, HeardInv, Handled, Queued
  <2> QED BY <2>3, <2>4 DEF ArrivalInv
<1>6. CASE \/ OnOwnerChanged \/ PortalReplies \/ CallFails \/ PortalReplaced \/ PlayersChange
           \/ UNCHANGED vars
  <2>1. UNCHANGED <<inbox, sent, heard, shutting_down>> /\ NoError
    BY <1>6 DEF OnOwnerChanged, PortalReplies, CallFails, PortalReplaced, PlayersChange, vars, NoError
  <2> QED BY <1>2, <2>1
<1>7. CASE Flush \/ OnActionInvoked \/ \E payload \in Payloads : UserActs(payload)
  BY <1>0, <1>7, FlushArrival, HandleArrival, UserActsArrival
<1> QED BY <1>3, <1>4, <1>5, <1>6, <1>7 DEF Next, MainThread, Worker, Desktop

LEMMA InitActions == Init => ActionsInv
<1> SUFFICES ASSUME Init PROVE ArrivalInv
  BY InitTypes DEF ActionsInv
<1>1. /\ Len(inbox) = 0 /\ Len(sent) = 0 /\ Len(deferred) = 0 /\ Len(heard) = 0 /\ Handled = 0
  BY EmptySeq DEF Init, Handled
<1>2. 1..0 = {}
  OBVIOUS
<1> QED BY <1>1, <1>2 DEF ArrivalInv, InboxInv, QueueInv, HeardInv, NothingLostInv

\* If converted parameters keep what they say, a game hears of actions in the order
\* users activated them, of none twice, with what the portal said; and of all of them
\* once the worker and Godot's queue are through, unless the backend was shut down.
THEOREM ActionsArriveInOrder ==
  ASSUME ParametersKeepMeaning
  PROVE  Spec => []ActionsArrive
<1>1. ActionsInv /\ [Next]_vars => ActionsInv'
  BY NextActions
<1>2. ActionsInv => ActionsArrive
  <2> SUFFICES ASSUME ActionsInv PROVE ActionsArrive
    OBVIOUS
  <2>0. TypeOK
    BY DEF ActionsInv
  <2>1. /\ Len(sent) \in Nat /\ Len(inbox) \in Nat /\ Handled \in Int /\ Handled <= Len(sent)
        /\ DOMAIN sent = 1..Len(sent) /\ DOMAIN heard = 1..Len(heard)
    BY <2>0, Lengths, LenProperties DEF TypeOK, Handled
  <2>2. \A i, j \in DOMAIN heard : i < j => heard[i].number < heard[j].number
    BY <2>1 DEF ActionsInv, ArrivalInv, HeardInv
  <2>3. ASSUME NEW i \in DOMAIN heard
        PROVE  /\ heard[i].number \in DOMAIN sent
               /\ sent[heard[i].number].typed
               /\ Means(sent[heard[i].number].value, heard[i].value)
    <3>1. Genuine(heard[i], sent, Handled)
      BY <2>1, <2>3 DEF ActionsInv, ArrivalInv, HeardInv
    <3>2. heard[i].number \in 1..Len(sent)
      BY <2>1, <3>1 DEF Genuine
    <3>3. sent[heard[i].number] \in Payloads
      BY <2>0, <3>2, ElementOfSeq DEF TypeOK
    <3> QED BY <2>1, <3>1, <3>2, <3>3 DEF Genuine, ParametersKeepMeaning
  <2>4. ASSUME inbox = <<>>, deferred = <<>>, ~shutting_down, NEW n \in DOMAIN sent, sent[n].typed
        PROVE  \E i \in DOMAIN heard : heard[i].number = n
    <3>1. Len(inbox) = 0 /\ Len(deferred) = 0
      BY <2>4, EmptySeq
    <3>2. n \in 1..Handled
      BY <2>1, <3>1 DEF Handled
    <3>3. ~InQueue(n)
      BY <3>1 DEF InQueue
    <3>4. WasHeard(n)
      BY <2>4, <3>2, <3>3 DEF ActionsInv, ArrivalInv, NothingLostInv
    <3> QED BY <2>1, <3>4 DEF WasHeard
  <2> QED BY <2>2, <2>3, <2>4 DEF ActionsArrive
<1> QED BY InitActions, <1>1, <1>2, PTL DEF Spec

=============================================================================
