------------------------ MODULE DesktopServicesProofs ------------------------
(***************************************************************************)
(* Theorems about DesktopServices, for any native and mock backends, any   *)
(* processes and handles, any number of swaps, calls and changes of the    *)
(* portal, and whichever calls time out.                                   *)
(***************************************************************************)
EXTENDS DesktopServices, TLAPS

-----------------------------------------------------------------------------
(* Where the main thread may be.                                           *)

LEMMA MainFields ==
  ASSUME main \in MainStates
  PROVE  /\ main.at = "begin" => main.handle \in Handles
         /\ main.at = "releasing" => main.next \in Backends \cup {NoBackend}
         /\ main.at = "calling" =>
              /\ main.member \in Members /\ main.pid \in Pids /\ main.result \in Results
              /\ main.asked \in BOOLEAN /\ main.next \in Backends \cup {NoBackend}
BY DEF MainStates

LEMMA MainPlaces ==
  /\ Idle \in MainStates
  /\ [at |-> "discover"] \in MainStates
  /\ [at |-> "versions"] \in MainStates
  /\ \A h \in Handles : [at |-> "begin", handle |-> h] \in MainStates
  /\ \A b \in Backends \cup {NoBackend} : [at |-> "releasing", next |-> b] \in MainStates
  /\ \A m \in Members, p \in Pids, r \in Results, a \in BOOLEAN, b \in Backends \cup {NoBackend} :
       Calling(m, p, r, a, b) \in MainStates
BY DEF MainStates, Idle, Calling

LEMMA Appended ==
  ASSUME NEW S, NEW s \in Seq(S), NEW e \in S
  PROVE  /\ Append(s, e) \in Seq(S)
         /\ Len(s) \in Nat
         /\ Len(Append(s, e)) = Len(s) + 1
         /\ \A i \in 1..Len(s) : Append(s, e)[i] = s[i]
         /\ Append(s, e)[Len(s) + 1] = e
  OBVIOUS

LEMMA MoreThanOne ==
  ASSUME NEW n \in Nat \ {0}, n # 1
  PROVE  1 \in 1..n /\ 2 \in 1..n /\ 1 < 2
OBVIOUS

LEMMA Elements ==
  ASSUME NEW S, NEW s \in Seq(S)
  PROVE  \A i \in 1..Len(s) : s[i] \in S
  OBVIOUS

LEMMA Shifted ==
  ASSUME NEW S, NEW s \in Seq(S), s # <<>>
  PROVE  /\ Tail(s) \in Seq(S)
         /\ Len(s) \in Nat \ {0}
         /\ Head(s) = s[1]
         /\ Head(s) \in S
         /\ Len(Tail(s)) = Len(s) - 1
         /\ \A i \in 1..Len(Tail(s)) : Tail(s)[i] = s[i + 1]
  OBVIOUS

LEMMA Emptied ==
  ASSUME NEW S, NEW s \in Seq(S), Len(s) = 0
  PROVE  s = <<>>
  OBVIOUS

LEMMA LastTaken ==
  ASSUME NEW S, NEW s \in Seq(S), Len(s) = 1
  PROVE  Tail(s) = <<>>
<1>1. Tail(s) \in Seq(S) /\ Len(Tail(s)) = 0
  OBVIOUS
<1>. QED
  BY <1>1, Emptied

-----------------------------------------------------------------------------
(* The strengthening.                                                      *)

\* What is being discovered is the offer of some backend.
SomeBackend == Discovering => backend # NoBackend

\* Nobody but the backend in use is connected, a handle is on its way to the game
\* through the backend that made it, and the game has every handle that was made
\* but the one that the running call is about to return.
SignalInv ==
  /\ connected \subseteq {backend}
  /\ \A b \in Backends : \A h \in pending[b] : origin[h] = b
  /\ \A i \in 1..Len(deferred) : origin[deferred[i].handle] = deferred[i].from
  /\ \A h \in Handles :
       origin[h] # NoBackend => h \in given \/ (main.at = "begin" /\ main.handle = h)
  /\ heard \subseteq given

\* Between the two halves of a discovery a native backend has kept the versions that
\* its capabilities were made of.
DiscoveryInv ==
  /\ CapabilitiesMatchVersions
  /\ main.at = "versions" /\ backend \in Natives =>
       \A c \in Capabilities : capabilities[c] <=> versions[c] # NoVersion

-----------------------------------------------------------------------------
(* Types.                                                                  *)

LEMMA KeepTypes ==
  ASSUME TypeOK
  PROVE  /\ UNCHANGED facadeVars => FacadeTypes'
         /\ UNCHANGED backendVars => BackendTypes'
         /\ UNCHANGED mainVars => MainTypes'
         /\ UNCHANGED gameModeVars /\ UNCHANGED abandoned => GameModeTypes'
         /\ UNCHANGED exportVars => ExportTypes'
         /\ UNCHANGED requestVars => RequestTypes'
         /\ UNCHANGED historyVars => HistoryTypes'
<1>0. TypeOK
  OBVIOUS
<1>1. UNCHANGED facadeVars => FacadeTypes'
  BY <1>0 DEF TypeOK, facadeVars, FacadeTypes
<1>2. UNCHANGED backendVars => BackendTypes'
  BY <1>0 DEF TypeOK, backendVars, BackendTypes
<1>3. UNCHANGED mainVars => MainTypes'
  BY <1>0 DEF TypeOK, mainVars, MainTypes
<1>4. UNCHANGED gameModeVars /\ UNCHANGED abandoned => GameModeTypes'
  BY <1>0 DEF TypeOK, gameModeVars, GameModeTypes
<1>5. UNCHANGED exportVars => ExportTypes'
  BY <1>0 DEF TypeOK, exportVars, ExportTypes
<1>6. UNCHANGED requestVars => RequestTypes'
  BY <1>0 DEF TypeOK, requestVars, RequestTypes
<1>7. UNCHANGED historyVars => HistoryTypes'
  BY <1>0 DEF TypeOK, historyVars, HistoryTypes
<1>. QED
  BY <1>1, <1>2, <1>3, <1>4, <1>5, <1>6, <1>7

LEMMA InitTypes == Init => TypeOK
<1>. SUFFICES ASSUME Init PROVE TypeOK
  OBVIOUS
<1>1. Nothing \in Offers
  BY DEF Nothing, Offers, NoVersion
<1>2. FacadeTypes
  BY <1>1 DEF Init, FacadeTypes
<1>3. BackendTypes
  BY <1>1 DEF Init, BackendTypes
<1>4. MainTypes
  BY MainPlaces DEF Init, MainTypes
<1>5. GameModeTypes
  BY DEF Init, GameModeTypes
<1>6. ExportTypes /\ RequestTypes /\ HistoryTypes
  BY DEF Init, ExportTypes, RequestTypes, HistoryTypes
<1>. QED
  BY <1>2, <1>3, <1>4, <1>5, <1>6 DEF TypeOK

\* Installing a backend.
LEMMA InstallTypes ==
  ASSUME TypeOK, NEW b \in Backends, Install(b),
         game_mode_pids' \in SUBSET Pids,
         UNCHANGED <<capabilities, interface_versions, versions, unreleased, swaps, calls>>
  PROVE  FacadeTypes' /\ BackendTypes' /\ MainTypes'
<1>1. FacadeTypes /\ BackendTypes /\ MainTypes
  BY DEF TypeOK
<1>2. FacadeTypes'
  BY <1>1 DEF Install, FacadeTypes
<1>3. BackendTypes'
  BY <1>1 DEF Install, BackendTypes
<1>4. MainTypes'
  BY <1>1, MainPlaces DEF Install, MainTypes
<1>. QED
  BY <1>2, <1>3, <1>4

LEMMA SwapTypes ==
  ASSUME TypeOK,
         \/ EnsureBackend \/ ExitTree \/ FinishSwap \/ FinishExit
         \/ \E b \in Backends : SetBackend(b)
  PROVE  TypeOK'
<1>0. TypeOK
  OBVIOUS
<1>1. FacadeTypes /\ BackendTypes /\ MainTypes /\ RequestTypes
  BY DEF TypeOK
<1>2. CASE EnsureBackend
  <2>1. FacadeTypes' /\ BackendTypes' /\ MainTypes'
    BY <1>0, <1>1, <1>2, InstallTypes, BackendsAssumption
    DEF EnsureBackend, Backends, FacadeTypes
  <2>. QED
    BY <1>0, <1>2, <2>1, KeepTypes DEF EnsureBackend, TypeOK
<1>3. CASE ExitTree
  <2>1. MainTypes'
    BY <1>1, <1>3, MainPlaces DEF ExitTree, MainTypes, FacadeTypes
  <2>. QED
    BY <1>0, <1>3, <2>1, KeepTypes DEF ExitTree, TypeOK
<1>4. CASE FinishSwap
  <2>1. main.next \in Backends
    BY <1>1, <1>4, MainFields DEF FinishSwap, MainTypes
  <2>2. FacadeTypes' /\ BackendTypes' /\ MainTypes'
    BY <1>0, <1>4, <2>1, InstallTypes DEF FinishSwap
  <2>3. RequestTypes'
    BY <1>1, <1>4 DEF FinishSwap, DropRequests, RequestTypes
  <2>. QED
    BY <1>0, <1>4, <2>2, <2>3, KeepTypes DEF FinishSwap, TypeOK
<1>5. CASE FinishExit
  <2>1. FacadeTypes'
    BY <1>1, <1>5 DEF FinishExit, FacadeTypes
  <2>2. BackendTypes'
    BY <1>1, <1>5 DEF FinishExit, BackendTypes
  <2>3. MainTypes'
    BY <1>1, <1>5, MainPlaces DEF FinishExit, MainTypes
  <2>4. RequestTypes'
    BY <1>1, <1>5 DEF FinishExit, DropRequests, RequestTypes
  <2>. QED
    BY <1>0, <1>5, <2>1, <2>2, <2>3, <2>4, KeepTypes DEF FinishExit, TypeOK
<1>6. CASE \E b \in Backends : SetBackend(b)
  <2>1. MainTypes'
    BY <1>1, <1>6, MainPlaces DEF SetBackend, MainTypes, FacadeTypes
  <2>. QED
    BY <1>0, <1>6, <2>1, KeepTypes DEF SetBackend, TypeOK
<1>. QED
  BY <1>2, <1>3, <1>4, <1>5, <1>6

\* What get_capabilities() may leave behind.
LEMMA GetCapabilitiesEffect ==
  ASSUME GetCapabilities
  PROVE  /\ versions' \in Offers
         /\ capabilities' \in [Capabilities -> BOOLEAN]
<1>1. CASE backend \in Natives /\ \E offer \in NativeVersions(backend) :
             /\ versions' = offer
             /\ capabilities' = [c \in Capabilities |-> offer[c] # NoVersion]
  BY <1>1 DEF NativeVersions
<1>2. CASE /\ versions' \in Offers
           /\ capabilities' \in [Capabilities -> BOOLEAN]
  BY <1>2
<1>. QED
  BY <1>1, <1>2 DEF GetCapabilities

LEMMA DiscoveryTypes ==
  ASSUME TypeOK, SomeBackend,
         RefreshCapabilities \/ GetCapabilities \/ ReadVersions \/ ExportsChange
  PROVE  TypeOK'
<1>0. TypeOK
  OBVIOUS
<1>1. FacadeTypes /\ BackendTypes /\ MainTypes /\ ExportTypes
  BY DEF TypeOK
<1>2. CASE RefreshCapabilities
  <2>1. MainTypes'
    BY <1>1, <1>2, MainPlaces DEF RefreshCapabilities, MainTypes
  <2>. QED
    BY <1>0, <1>2, <2>1, KeepTypes DEF RefreshCapabilities, TypeOK
<1>3. CASE GetCapabilities
  <2>1. versions' \in Offers /\ capabilities' \in [Capabilities -> BOOLEAN]
    BY <1>3, GetCapabilitiesEffect
  <2>3. FacadeTypes'
    BY <1>1, <1>3, <2>1 DEF GetCapabilities, FacadeTypes
  <2>4. BackendTypes'
    BY <1>1, <1>3, <2>1 DEF GetCapabilities, BackendTypes
  <2>5. MainTypes'
    BY <1>1, <1>3, MainPlaces DEF GetCapabilities, MainTypes
  <2>. QED
    BY <1>0, <1>3, <2>3, <2>4, <2>5, KeepTypes DEF GetCapabilities, TypeOK
<1>4. CASE ReadVersions
  <2>1. FacadeTypes'
    <3>1. backend \in Backends
      BY <1>1, <1>4 DEF ReadVersions, FacadeTypes, SomeBackend, Discovering
    <3>2. InterfaceVersion(backend) \in Offers
      BY <1>1, <3>1 DEF InterfaceVersion, BackendTypes, Offers
    <3>. QED
      BY <1>1, <1>4, <3>2 DEF ReadVersions, FacadeTypes
  <2>2. MainTypes'
    BY <1>1, <1>4, MainPlaces DEF ReadVersions, MainTypes
  <2>. QED
    BY <1>0, <1>4, <2>1, <2>2, KeepTypes DEF ReadVersions, backendVars, TypeOK, BackendTypes
<1>5. CASE ExportsChange
  <2>1. ExportTypes'
    BY <1>1, <1>5 DEF ExportsChange, ExportTypes
  <2>. QED
    BY <1>0, <1>5, <2>1, KeepTypes DEF ExportsChange, TypeOK
<1>. QED
  BY <1>2, <1>3, <1>4, <1>5

LEMMA CallTypes ==
  ASSUME TypeOK,
         NEW member \in Members, NEW p \in Pids, NEW asked \in BOOLEAN,
         NEW next \in Backends \cup {NoBackend},
         Call(member, p, asked, next), unreleased' \in SUBSET Pids,
         UNCHANGED <<swaps, abandoned>>
  PROVE  MainTypes' /\ GameModeTypes'
<1>1. MainTypes /\ GameModeTypes
  BY DEF TypeOK
<1>2. calls' \in Nat
  BY <1>1 DEF Call, MainTypes
<1>3. main' \in MainStates
  BY MainPlaces DEF Call, Results
<1>4. outbox' \in [Backends -> Seq([member : Members, pid : Pids, number : Nat])]
  <2>1. CASE UNCHANGED outbox
    BY <1>1, <2>1 DEF GameModeTypes
  <2>2. CASE /\ backend \in Natives
             /\ outbox' = [outbox EXCEPT ![backend] =
                             Append(@, [member |-> member, pid |-> p, number |-> calls'])]
    <3>. DEFINE m == [member |-> member, pid |-> p, number |-> calls']
    <3>1. m \in [member : Members, pid : Pids, number : Nat]
      BY <1>2
    <3>2. outbox[backend] \in Seq([member : Members, pid : Pids, number : Nat])
      BY <1>1, <2>2 DEF GameModeTypes, Backends
    <3>3. Append(outbox[backend], m) \in Seq([member : Members, pid : Pids, number : Nat])
      BY <3>1, <3>2, Appended
    <3>. QED
      BY <1>1, <2>2, <3>3 DEF GameModeTypes
  <2>. QED
    BY <2>1, <2>2 DEF Call
<1>5. registered' \in [Backends -> SUBSET Pids]
  BY <1>1 DEF Call, GameModeTypes
<1>. QED
  BY <1>1, <1>2, <1>3, <1>4, <1>5 DEF MainTypes, GameModeTypes

LEMMA OutcomeTypes ==
  ASSUME main \in MainStates, Waiting, NEW result \in Results
  PROVE  Outcome(result) \in MainStates
BY MainFields, MainPlaces DEF Waiting, Outcome

LEMMA GameModeActionTypes ==
  ASSUME TypeOK,
         \/ \E p \in Pids : RequestGameMode(p) \/ ReleaseGameMode(p) \/ ReleaseHeld(p)
         \/ FinishRequestGameMode \/ FinishReleaseGameMode \/ FinishReleaseHeld
         \/ CallTimesOut
         \/ \E b \in Natives : Execute(b)
  PROVE  TypeOK'
<1>0. TypeOK
  OBVIOUS
<1>1. FacadeTypes /\ MainTypes /\ GameModeTypes
  BY DEF TypeOK
<1>2. ASSUME NEW p \in Pids, RequestGameMode(p)
      PROVE  TypeOK'
  <2>1. MainTypes' /\ GameModeTypes'
    BY <1>0, <1>1, <1>2, CallTypes DEF RequestGameMode, Members, MainTypes
  <2>. QED
    BY <1>0, <1>2, <2>1, KeepTypes DEF RequestGameMode, TypeOK
<1>3. ASSUME NEW p \in Pids, ReleaseGameMode(p)
      PROVE  TypeOK'
  <2>1. MainTypes' /\ GameModeTypes'
    BY <1>0, <1>1, <1>3, CallTypes DEF ReleaseGameMode, Members, MainTypes
  <2>. QED
    BY <1>0, <1>3, <2>1, KeepTypes DEF ReleaseGameMode, TypeOK
<1>4. ASSUME NEW p \in Pids, ReleaseHeld(p)
      PROVE  TypeOK'
  <2>1. main.next \in Backends \cup {NoBackend} /\ unreleased' \in SUBSET Pids
    BY <1>1, <1>4, MainFields DEF ReleaseHeld, MainTypes
  <2>2. MainTypes' /\ GameModeTypes'
    BY <1>0, <1>4, <2>1, CallTypes DEF ReleaseHeld, Members
  <2>. QED
    BY <1>0, <1>4, <2>2, KeepTypes DEF ReleaseHeld, TypeOK
<1>5. CASE FinishRequestGameMode
  <2>1. FacadeTypes' /\ MainTypes'
    BY <1>1, <1>5, MainFields, MainPlaces
    DEF FinishRequestGameMode, Answered, Recorded, FacadeTypes, MainTypes
  <2>2. GameModeTypes'
    BY <1>1, <1>5 DEF FinishRequestGameMode, Clears, gameModeVars, GameModeTypes
  <2>. QED
    BY <1>0, <1>5, <2>1, <2>2, KeepTypes DEF FinishRequestGameMode, TypeOK
<1>6. CASE FinishReleaseGameMode
  <2>1. FacadeTypes' /\ MainTypes'
    BY <1>1, <1>6, MainFields, MainPlaces
    DEF FinishReleaseGameMode, Answered, Released, FacadeTypes, MainTypes
  <2>2. GameModeTypes'
    BY <1>1, <1>6 DEF FinishReleaseGameMode, Clears, gameModeVars, GameModeTypes
  <2>. QED
    BY <1>0, <1>6, <2>1, <2>2, KeepTypes DEF FinishReleaseGameMode, TypeOK
<1>7. CASE FinishReleaseHeld
  <2>1. main.pid \in Pids /\ main.next \in Backends \cup {NoBackend}
    BY <1>1, <1>7, MainFields DEF FinishReleaseHeld, Answered, MainTypes
  <2>2. MainTypes'
    BY <1>1, <1>7, <2>1, MainPlaces DEF FinishReleaseHeld, MainTypes
  <2>3. GameModeTypes'
    BY <1>1, <1>7, <2>1 DEF FinishReleaseHeld, gameModeVars, GameModeTypes
  <2>. QED
    BY <1>0, <1>7, <2>2, <2>3, KeepTypes DEF FinishReleaseHeld, TypeOK
<1>8. CASE CallTimesOut
  <2>1. MainTypes'
    BY <1>1, <1>8, OutcomeTypes DEF CallTimesOut, Results, MainTypes
  <2>2. main.pid \in Pids
    BY <1>1, <1>8, MainFields DEF CallTimesOut, Waiting, MainTypes
  <2>3. GameModeTypes'
    BY <1>1, <1>8, <2>2 DEF CallTimesOut, gameModeVars, GameModeTypes
  <2>. QED
    BY <1>0, <1>8, <2>1, <2>3, KeepTypes DEF CallTimesOut, TypeOK
<1>9. ASSUME NEW b \in Natives, Execute(b)
      PROVE  TypeOK'
  <2>. DEFINE m == Head(outbox[b])
  <2>1. outbox[b] \in Seq([member : Members, pid : Pids, number : Nat]) /\ b \in Backends
    BY <1>1 DEF GameModeTypes, Backends
  <2>2. /\ m \in [member : Members, pid : Pids, number : Nat]
        /\ Tail(outbox[b]) \in Seq([member : Members, pid : Pids, number : Nat])
    BY <1>9, <2>1, Shifted DEF Execute
  <2>3. outbox' \in [Backends -> Seq([member : Members, pid : Pids, number : Nat])]
    BY <1>1, <1>9, <2>2 DEF Execute, GameModeTypes
  <2>4. registered' \in [Backends -> SUBSET Pids]
    <3>1. m.pid \in Pids
      BY <2>2
    <3>2. \/ UNCHANGED registered
          \/ registered' = [registered EXCEPT ![b] = @ \cup {m.pid}]
          \/ registered' = [registered EXCEPT ![b] = @ \ {m.pid}]
      BY <1>9 DEF Execute
    <3>. QED
      BY <1>1, <3>1, <3>2 DEF GameModeTypes
  <2>5. main' \in MainStates
    <3>1. CASE main' = main
      BY <1>1, <3>1 DEF MainTypes
    <3>2. CASE Waiting /\ \E result \in {"ok", "failed"} : main' = Outcome(result)
      BY <1>1, <3>2, OutcomeTypes DEF MainTypes, Results
    <3>. QED
      BY <1>9, <3>1, <3>2 DEF Execute
  <2>6. MainTypes' /\ GameModeTypes'
    BY <1>1, <1>9, <2>3, <2>4, <2>5 DEF Execute, MainTypes, GameModeTypes
  <2>. QED
    BY <1>0, <1>9, <2>6, KeepTypes DEF Execute, TypeOK
<1>. QED
  BY <1>2, <1>3, <1>4, <1>5, <1>6, <1>7, <1>8, <1>9

LEMMA RequestActionTypes ==
  ASSUME TypeOK,
         \/ \E h \in Handles : BeginRequest(h) \/ CloseRequest(h)
         \/ HandleReturned \/ Flush
         \/ \E b \in Mocks, h \in Handles : MockCompletes(b, h)
         \/ \E b \in Natives, h \in Handles : Complete(b, h)
  PROVE  TypeOK'
<1>0. TypeOK
  OBVIOUS
<1>1. FacadeTypes /\ MainTypes /\ RequestTypes /\ HistoryTypes
  BY DEF TypeOK
<1>2. ASSUME NEW h \in Handles, BeginRequest(h)
      PROVE  TypeOK'
  <2>1. MainTypes'
    BY <1>1, <1>2, MainPlaces DEF BeginRequest, MainTypes
  <2>2. RequestTypes'
    BY <1>1, <1>2 DEF BeginRequest, RequestTypes
  <2>3. HistoryTypes'
    BY <1>1, <1>2 DEF BeginRequest, FacadeTypes, HistoryTypes
  <2>. QED
    BY <1>0, <1>2, <2>1, <2>2, <2>3, KeepTypes DEF BeginRequest, TypeOK
<1>3. ASSUME NEW h \in Handles, CloseRequest(h)
      PROVE  TypeOK'
  <2>1. RequestTypes'
    BY <1>1, <1>3 DEF CloseRequest, RequestTypes
  <2>2. HistoryTypes'
    BY <1>1, <1>3 DEF CloseRequest, HistoryTypes
  <2>. QED
    BY <1>0, <1>3, <2>1, <2>2, KeepTypes DEF CloseRequest, TypeOK
<1>4. CASE HandleReturned
  <2>1. MainTypes' /\ HistoryTypes'
    BY <1>1, <1>4, MainFields, MainPlaces DEF HandleReturned, MainTypes, HistoryTypes
  <2>. QED
    BY <1>0, <1>4, <2>1, KeepTypes DEF HandleReturned, TypeOK
<1>5. CASE Flush
  <2>1. /\ Head(deferred) \in [from : Natives, handle : Handles]
        /\ Tail(deferred) \in Seq([from : Natives, handle : Handles])
    BY <1>1, <1>5, Shifted DEF Flush, RequestTypes
  <2>2. RequestTypes' /\ HistoryTypes'
    BY <1>1, <1>5, <2>1 DEF Flush, Forward, RequestTypes, HistoryTypes
  <2>. QED
    BY <1>0, <1>5, <2>2, KeepTypes DEF Flush, TypeOK
<1>6. ASSUME NEW b \in Mocks, NEW h \in Handles, MockCompletes(b, h)
      PROVE  TypeOK'
  <2>1. RequestTypes' /\ HistoryTypes'
    BY <1>1, <1>6 DEF MockCompletes, Forward, RequestTypes, HistoryTypes
  <2>. QED
    BY <1>0, <1>6, <2>1, KeepTypes DEF MockCompletes, TypeOK
<1>7. ASSUME NEW b \in Natives, NEW h \in Handles, Complete(b, h)
      PROVE  TypeOK'
  <2>1. [from |-> b, handle |-> h] \in [from : Natives, handle : Handles]
    OBVIOUS
  <2>2. deferred' \in Seq([from : Natives, handle : Handles])
    BY <1>1, <1>7, <2>1, Appended DEF Complete, EmitRequestCompleted, RequestTypes
  <2>3. RequestTypes' /\ HistoryTypes'
    BY <1>1, <1>7, <2>2 DEF Complete, EmitRequestCompleted, RequestTypes, HistoryTypes
  <2>. QED
    BY <1>0, <1>7, <2>3, KeepTypes DEF Complete, TypeOK
<1>. QED
  BY <1>2, <1>3, <1>4, <1>5, <1>6, <1>7

LEMMA NextTypes == TypeOK /\ SomeBackend /\ [Next]_vars => TypeOK'
<1>. SUFFICES ASSUME TypeOK, SomeBackend, [Next]_vars PROVE TypeOK'
  OBVIOUS
<1>1. CASE Next
  BY <1>1, SwapTypes, DiscoveryTypes, GameModeActionTypes, RequestActionTypes
  DEF Next, MainThread, Desktop
<1>2. CASE UNCHANGED vars
  BY <1>2, KeepTypes DEF vars, TypeOK
<1>. QED
  BY <1>1, <1>2

\* A GameMode call that is carried out disturbs nobody but who waits for it.
LEMMA ExecuteEffect ==
  ASSUME NEW b \in Natives, Execute(b)
  PROVE  /\ UNCHANGED <<facadeVars, backendVars, requestVars, historyVars>>
         /\ main' = main \/ (Waiting /\ \E result \in {"ok", "failed"} : main' = Outcome(result))
BY DEF Execute

\* A discovery is begun where there is a backend, and ends before that changes.
LEMMA NextSomeBackend == TypeOK /\ SomeBackend /\ [Next]_vars => SomeBackend'
<1>. SUFFICES ASSUME TypeOK, SomeBackend, [Next]_vars PROVE SomeBackend'
  OBVIOUS
<1>0. FacadeTypes /\ MainTypes
  BY DEF TypeOK
<1>. USE DEF SomeBackend, Discovering
<1>1. CASE \/ EnsureBackend \/ ExitTree \/ FinishSwap \/ FinishExit
           \/ \E b \in Backends : SetBackend(b)
  <2>1. main.at = "releasing" /\ main.next # NoBackend => main.next \in Backends
    BY <1>0, MainFields DEF MainTypes
  <2>. QED
    BY <1>1, <2>1, BackendsAssumption
    DEF EnsureBackend, ExitTree, FinishSwap, FinishExit, SetBackend, Install, Idle, Backends
<1>2. CASE RefreshCapabilities \/ GetCapabilities \/ ReadVersions \/ ExportsChange
  BY <1>2 DEF RefreshCapabilities, GetCapabilities, ReadVersions, ExportsChange, Idle,
              mainVars, facadeVars
<1>3. CASE \E p \in Pids : RequestGameMode(p) \/ ReleaseGameMode(p) \/ ReleaseHeld(p)
  BY <1>3 DEF RequestGameMode, ReleaseGameMode, ReleaseHeld, Call, Calling, facadeVars
<1>4. CASE \/ FinishRequestGameMode \/ FinishReleaseGameMode \/ FinishReleaseHeld
           \/ CallTimesOut \/ \E b \in Natives : Execute(b)
  <2>1. /\ UNCHANGED backend
        /\ \/ UNCHANGED main
           \/ main' = Idle
           \/ main' = [at |-> "releasing", next |-> main.next]
           \/ \E result \in {"ok", "failed"} : main' = Outcome(result)
    BY <1>4, ExecuteEffect DEF FinishRequestGameMode, FinishReleaseGameMode, FinishReleaseHeld,
                               CallTimesOut, facadeVars
  <2>. QED
    BY <2>1 DEF Outcome, Calling, Idle
<1>5. CASE \/ \E h \in Handles : BeginRequest(h) \/ CloseRequest(h)
           \/ HandleReturned \/ Flush
           \/ \E b \in Mocks, h \in Handles : MockCompletes(b, h)
           \/ \E b \in Natives, h \in Handles : Complete(b, h)
  BY <1>5 DEF BeginRequest, CloseRequest, HandleReturned, Flush, MockCompletes, Complete, Idle,
              facadeVars, mainVars
<1>6. CASE UNCHANGED vars
  BY <1>6 DEF vars, facadeVars, mainVars
<1>. QED
  BY <1>1, <1>2, <1>3, <1>4, <1>5, <1>6 DEF Next, MainThread, Desktop

TypeInv == TypeOK /\ SomeBackend

\* Every variable of the facade, its backends and their desktop keeps its type,
\* whatever calls, swaps and time-outs there are.
THEOREM TypeCorrect == Spec => []TypeOK
<1>1. Init => TypeInv
  BY InitTypes DEF Init, TypeInv, SomeBackend, Discovering, Idle
<1>2. TypeInv /\ [Next]_vars => TypeInv'
  BY NextTypes, NextSomeBackend DEF TypeInv
<1>3. TypeInv => TypeOK
  BY DEF TypeInv
<1>. QED
  BY <1>1, <1>2, <1>3, PTL DEF Spec

-----------------------------------------------------------------------------
(* Signals.                                                                *)

\* What neither swaps backends nor touches requests leaves the signals alone.
LEMMA SignalsUntouched ==
  ASSUME SignalInv,
         UNCHANGED <<connected, backend, pending, deferred, origin, given, heard>>,
         UNCHANGED main \/ main.at # "begin"
  PROVE  SignalInv'
BY DEF SignalInv

LEMMA SignalSwaps ==
  ASSUME TypeOK, SignalInv,
         \/ EnsureBackend \/ ExitTree \/ FinishSwap \/ FinishExit
         \/ \E b \in Backends : SetBackend(b)
  PROVE  SignalInv'
<1>0. BackendTypes /\ RequestTypes
  BY DEF TypeOK
<1>1. CASE EnsureBackend
  BY <1>1 DEF EnsureBackend, Install, SignalInv, Idle, requestVars, historyVars
<1>2. CASE FinishSwap
  BY <1>0, <1>2 DEF FinishSwap, Install, DropRequests, SignalInv, historyVars
<1>3. CASE FinishExit
  BY <1>0, <1>3 DEF FinishExit, DropRequests, SignalInv, historyVars
<1>4. CASE ExitTree \/ \E b \in Backends : SetBackend(b)
  BY <1>4, SignalsUntouched
  DEF ExitTree, SetBackend, Idle, facadeVars, backendVars, requestVars, historyVars
<1>. QED
  BY <1>1, <1>2, <1>3, <1>4

LEMMA SignalCalls ==
  ASSUME SignalInv,
         \/ RefreshCapabilities \/ GetCapabilities \/ ReadVersions \/ ExportsChange
         \/ \E p \in Pids : RequestGameMode(p) \/ ReleaseGameMode(p) \/ ReleaseHeld(p)
         \/ FinishRequestGameMode \/ FinishReleaseGameMode \/ FinishReleaseHeld
         \/ CallTimesOut
         \/ \E b \in Natives : Execute(b)
  PROVE  SignalInv'
<1>. USE DEF Idle, facadeVars, backendVars, mainVars, requestVars, historyVars
<1>1. CASE RefreshCapabilities \/ GetCapabilities \/ ReadVersions \/ ExportsChange
  BY <1>1, SignalsUntouched DEF RefreshCapabilities, GetCapabilities, ReadVersions, ExportsChange
<1>2. ASSUME NEW p \in Pids, RequestGameMode(p) \/ ReleaseGameMode(p) \/ ReleaseHeld(p)
      PROVE  SignalInv'
  <2>1. UNCHANGED <<connected, backend, pending, deferred, origin, given, heard>>
    BY <1>2 DEF RequestGameMode, ReleaseGameMode, ReleaseHeld
  <2>2. main = Idle \/ main.at = "releasing"
    BY <1>2 DEF RequestGameMode, ReleaseGameMode, ReleaseHeld
  <2>. QED
    BY <2>1, <2>2, SignalsUntouched
<1>3. CASE FinishRequestGameMode \/ FinishReleaseGameMode \/ FinishReleaseHeld \/ CallTimesOut
  BY <1>3, SignalsUntouched
  DEF FinishRequestGameMode, FinishReleaseGameMode, FinishReleaseHeld, CallTimesOut, Answered,
      Waiting
<1>4. CASE \E b \in Natives : Execute(b)
  BY <1>4, ExecuteEffect, SignalsUntouched DEF Waiting
<1>. QED
  BY <1>1, <1>2, <1>3, <1>4

LEMMA FirstDeferred ==
  ASSUME RequestTypes, deferred # <<>>
  PROVE  /\ Head(deferred) = deferred[1]
         /\ Len(deferred) \in Nat \ {0}
         /\ Head(deferred) \in [from : Natives, handle : Handles]
         /\ Len(Tail(deferred)) = Len(deferred) - 1
         /\ \A i \in 1..Len(Tail(deferred)) : Tail(deferred)[i] = deferred[i + 1]
<1>1. deferred \in Seq([from : Natives, handle : Handles])
  BY DEF RequestTypes
<1>. QED
  BY <1>1, Shifted

LEMMA SignalRequests ==
  ASSUME TypeOK, SignalInv,
         \/ \E h \in Handles : BeginRequest(h) \/ CloseRequest(h)
         \/ HandleReturned \/ Flush
         \/ \E b \in Mocks, h \in Handles : MockCompletes(b, h)
         \/ \E b \in Natives, h \in Handles : Complete(b, h)
  PROVE  SignalInv'
<1>0. FacadeTypes /\ MainTypes /\ RequestTypes /\ HistoryTypes
  BY DEF TypeOK
<1>. USE BackendsAssumption DEF Idle, facadeVars, backendVars, mainVars, requestVars, historyVars
<1>1. ASSUME NEW h \in Handles, BeginRequest(h)
      PROVE  SignalInv'
  <2>1. backend \in Backends
    BY <1>0, <1>1 DEF BeginRequest, HasCapability, Available, FacadeTypes
  <2>2. origin' = [origin EXCEPT ![h] = backend] /\ origin[h] = NoBackend
    BY <1>1 DEF BeginRequest
  <2>3. \A b \in Backends : \A k \in pending'[b] : origin'[k] = b
    BY <1>0, <1>1, <2>1, <2>2 DEF BeginRequest, SignalInv, RequestTypes, HistoryTypes
  <2>4. \A i \in 1..Len(deferred) : deferred[i] \in [from : Natives, handle : Handles]
    <3>1. deferred \in Seq([from : Natives, handle : Handles])
      BY <1>0 DEF RequestTypes
    <3>. QED
      BY <3>1, Elements
  <2>5. \A i \in 1..Len(deferred) : origin'[deferred[i].handle] = deferred[i].from
    BY <1>0, <2>2, <2>4 DEF SignalInv, HistoryTypes, Backends
  <2>6. \A k \in Handles :
          origin'[k] # NoBackend => k \in given' \/ (main'.at = "begin" /\ main'.handle = k)
    BY <1>0, <1>1, <2>2 DEF BeginRequest, SignalInv, HistoryTypes
  <2>. QED
    BY <1>1, <2>3, <2>5, <2>6 DEF BeginRequest, SignalInv
<1>2. ASSUME NEW h \in Handles, CloseRequest(h)
      PROVE  SignalInv'
  BY <1>0, <1>2 DEF CloseRequest, SignalInv, RequestTypes
<1>3. CASE HandleReturned
  BY <1>0, <1>3 DEF HandleReturned, SignalInv
<1>4. CASE Flush
  <2>1. /\ Head(deferred) = deferred[1]
        /\ Len(deferred) \in Nat \ {0}
        /\ Head(deferred) \in [from : Natives, handle : Handles]
        /\ Len(Tail(deferred)) = Len(deferred) - 1
        /\ \A i \in 1..Len(Tail(deferred)) : Tail(deferred)[i] = deferred[i + 1]
    BY <1>0, <1>4, FirstDeferred DEF Flush
  <2>2. origin[Head(deferred).handle] # NoBackend /\ Head(deferred).handle \in Handles
    BY <2>1 DEF SignalInv, Backends
  <2>3. Head(deferred).handle \in given
    BY <1>4, <2>2 DEF Flush, SignalInv
  <2>4. heard' \subseteq given
    BY <1>4, <2>3 DEF Flush, Forward, SignalInv
  <2>5. \A i \in 1..Len(deferred') : origin[deferred'[i].handle] = deferred'[i].from
    BY <1>4, <2>1 DEF Flush, SignalInv
  <2>. QED
    BY <1>4, <2>4, <2>5 DEF Flush, SignalInv
<1>5. ASSUME NEW b \in Mocks, NEW h \in Handles, MockCompletes(b, h)
      PROVE  SignalInv'
  <2>1. origin[h] = b /\ origin[h] # NoBackend
    BY <1>5 DEF MockCompletes, SignalInv, Backends
  <2>2. h \in given
    BY <1>5, <2>1 DEF MockCompletes, SignalInv
  <2>. QED
    BY <1>0, <1>5, <2>2 DEF MockCompletes, Forward, SignalInv, RequestTypes
<1>6. ASSUME NEW b \in Natives, NEW h \in Handles, Complete(b, h)
      PROVE  SignalInv'
  <2>. DEFINE m == [from |-> b, handle |-> h]
  <2>1. origin[m.handle] = m.from
    BY <1>6 DEF Complete, SignalInv, Backends
  <2>2. /\ Len(deferred) \in Nat
        /\ Len(deferred') = Len(deferred) + 1
        /\ \A i \in 1..Len(deferred) : deferred'[i] = deferred[i]
        /\ deferred'[Len(deferred) + 1] = m
    BY <1>0, <1>6, Appended DEF Complete, EmitRequestCompleted, RequestTypes
  <2>3. \A i \in 1..Len(deferred') : origin'[deferred'[i].handle] = deferred'[i].from
    <3>1. ASSUME NEW i \in 1..Len(deferred')
          PROVE  origin'[deferred'[i].handle] = deferred'[i].from
      <4>1. i \in 1..Len(deferred) \/ i = Len(deferred) + 1
        BY <2>2
      <4>2. UNCHANGED origin
        BY <1>6 DEF Complete
      <4>. QED
        BY <2>1, <2>2, <4>1, <4>2 DEF SignalInv
    <3>. QED
      BY <3>1
  <2>4. \A d \in Backends : \A k \in pending'[d] : origin'[k] = d
    BY <1>0, <1>6 DEF Complete, SignalInv, RequestTypes
  <2>. QED
    BY <1>6, <2>3, <2>4 DEF Complete, EmitRequestCompleted, SignalInv
<1>. QED
  BY <1>1, <1>2, <1>3, <1>4, <1>5, <1>6

LEMMA NextSignals == TypeOK /\ SignalInv /\ [Next]_vars => SignalInv'
<1>. SUFFICES ASSUME TypeOK, SignalInv, [Next]_vars PROVE SignalInv'
  OBVIOUS
<1>1. CASE Next
  BY <1>1, SignalSwaps, SignalCalls, SignalRequests DEF Next, MainThread, Desktop
<1>2. CASE UNCHANGED vars
  BY <1>2, SignalsUntouched DEF vars, facadeVars, backendVars, mainVars, requestVars, historyVars
<1>. QED
  BY <1>1, <1>2

\* Whoever is newly heard was made by the backend in use.
LEMMA HeardStep ==
  TypeOK /\ SignalInv /\ [Next]_vars => \A h \in heard' \ heard : origin[h] = backend
<1>. SUFFICES ASSUME TypeOK, SignalInv, [Next]_vars, NEW h \in heard' \ heard
              PROVE  origin[h] = backend
  OBVIOUS
<1>0. RequestTypes
  BY DEF TypeOK
<1>. USE DEF facadeVars, backendVars, mainVars, requestVars, historyVars
<1>1. \/ Flush
      \/ \E b \in Mocks, k \in Handles : MockCompletes(b, k)
      \/ UNCHANGED heard
  <2>1. CASE \/ EnsureBackend \/ ExitTree \/ FinishSwap \/ FinishExit
             \/ \E b \in Backends : SetBackend(b)
    BY <2>1 DEF EnsureBackend, ExitTree, FinishSwap, FinishExit, SetBackend
  <2>2. CASE \/ RefreshCapabilities \/ GetCapabilities \/ ReadVersions \/ ExportsChange
             \/ \E p \in Pids : RequestGameMode(p) \/ ReleaseGameMode(p) \/ ReleaseHeld(p)
    BY <2>2 DEF RefreshCapabilities, GetCapabilities, ReadVersions, ExportsChange,
                RequestGameMode, ReleaseGameMode, ReleaseHeld
  <2>3. CASE \/ FinishRequestGameMode \/ FinishReleaseGameMode \/ FinishReleaseHeld
             \/ CallTimesOut \/ \E b \in Natives : Execute(b)
    BY <2>3, ExecuteEffect DEF FinishRequestGameMode, FinishReleaseGameMode, FinishReleaseHeld,
                               CallTimesOut
  <2>4. CASE \/ \E k \in Handles : BeginRequest(k) \/ CloseRequest(k)
             \/ HandleReturned
             \/ \E b \in Natives, k \in Handles : Complete(b, k)
    BY <2>4 DEF BeginRequest, CloseRequest, HandleReturned, Complete, EmitRequestCompleted
  <2>5. CASE UNCHANGED vars
    BY <2>5 DEF vars
  <2>. QED
    BY <2>1, <2>2, <2>3, <2>4, <2>5 DEF Next, MainThread, Desktop
<1>2. CASE Flush
  <2>1. Head(deferred) = deferred[1] /\ Len(deferred) \in Nat \ {0}
    BY <1>0, <1>2, FirstDeferred DEF Flush
  <2>2. origin[Head(deferred).handle] = Head(deferred).from
    BY <2>1 DEF SignalInv
  <2>3. h = Head(deferred).handle /\ Head(deferred).from \in connected
    BY <1>2 DEF Flush, Forward
  <2>. QED
    BY <2>2, <2>3 DEF SignalInv
<1>3. CASE \E b \in Mocks, k \in Handles : MockCompletes(b, k)
  <2>1. PICK b \in Mocks, k \in Handles : MockCompletes(b, k)
    BY <1>3
  <2>. QED
    BY <2>1 DEF MockCompletes, Forward, SignalInv, Backends
<1>. QED
  BY <1>1, <1>2, <1>3

LEMMA SignalsHold == Spec => [](TypeInv /\ SignalInv)
<1>1. Init => TypeInv /\ SignalInv
  BY InitTypes DEF Init, TypeInv, SomeBackend, Discovering, Idle, SignalInv
<1>2. TypeInv /\ SignalInv /\ [Next]_vars => TypeInv' /\ SignalInv'
  BY NextTypes, NextSomeBackend, NextSignals DEF TypeInv
<1>. QED
  BY <1>1, <1>2, PTL DEF Spec

\* A game is never told that a request completed before the call that returns the
\* request's handle has returned, because the worker's emissions are deferred.
THEOREM HandleComesFirst == Spec => []HandleBeforeCompletion
<1>1. TypeInv /\ SignalInv => HandleBeforeCompletion
  BY DEF SignalInv, HandleBeforeCompletion
<1>. QED
  BY <1>1, SignalsHold, PTL

\* A game only ever hears of requests made by the backend in use, because no other
\* is connected, and because requests keep to the backend that made them.
THEOREM ReplacedAreSilent == Spec => OnlyCurrentIsHeard
<1>1. TypeInv /\ SignalInv /\ [Next]_vars => [\A h \in heard' \ heard : origin[h] = backend]_vars
  BY HeardStep DEF TypeInv
<1>. QED
  BY <1>1, SignalsHold, PTL DEF Spec, OnlyCurrentIsHeard

-----------------------------------------------------------------------------
(* Handles.                                                                *)

\* The backend in use is connected; a handle was made by some backend; a native
\* backend that is not the one in use any more is shut down, or has made nothing; and
\* as long as a handle's backend is not shut down the handle is accounted for.
SightInv ==
  /\ backend # NoBackend => backend \in connected
  /\ \A h \in given : origin[h] # NoBackend
  /\ main.at = "begin" => origin[main.handle] # NoBackend
  /\ \A h \in Handles : origin[h] \in Natives \ shut => origin[h] = backend
  /\ \A h \in missed : origin[h] \in Mocks
  /\ \A h \in Handles : origin[h] # NoBackend /\ origin[h] \notin shut => InSight(h) \/ h \in missed

\* What neither swaps backends nor touches requests leaves the handles alone.
LEMMA SightUntouched ==
  ASSUME SightInv,
         UNCHANGED <<connected, shut, backend, pending, deferred, historyVars>>,
         UNCHANGED main \/ main'.at # "begin"
  PROVE  SightInv'
BY DEF SightInv, InSight, historyVars

LEMMA SightSwaps ==
  ASSUME TypeOK, SightInv,
         \/ EnsureBackend \/ ExitTree \/ FinishSwap \/ FinishExit
         \/ \E b \in Backends : SetBackend(b)
  PROVE  SightInv'
<1>0. FacadeTypes /\ BackendTypes /\ RequestTypes /\ HistoryTypes
  BY DEF TypeOK
<1>. USE BackendsAssumption DEF historyVars
<1>1. CASE ExitTree \/ \E b \in Backends : SetBackend(b)
  BY <1>1, SightUntouched DEF ExitTree, SetBackend, facadeVars, backendVars, requestVars
<1>2. CASE EnsureBackend \/ FinishSwap \/ FinishExit
  <2>1. /\ shut' = shut \/ shut' = shut \cup ({backend} \cap Natives)
        /\ \A b \in Backends : pending'[b] = pending[b] \/ b \in shut'
        /\ UNCHANGED <<deferred, historyVars>>
    BY <1>0, <1>2
    DEF EnsureBackend, FinishSwap, FinishExit, Install, DropRequests, requestVars, RequestTypes
  <2>2. ASSUME NEW h \in Handles, origin[h] # NoBackend, origin[h] \notin shut'
        PROVE  InSight(h)' \/ h \in missed'
    <3>1. origin[h] \in Backends /\ origin[h] \notin shut
      BY <1>0, <2>1, <2>2 DEF HistoryTypes
    <3>2. pending'[origin[h]] = pending[origin[h]]
      BY <2>1, <2>2, <3>1
    <3>. QED
      BY <2>1, <2>2, <3>1, <3>2 DEF SightInv, InSight
  <2>3. \A h \in Handles : origin[h] \in Natives \ shut' => origin[h] = backend'
    BY <1>2
    DEF SightInv, EnsureBackend, FinishSwap, FinishExit, Install, Backends
  <2>4. backend' # NoBackend => backend' \in connected'
    BY <1>2 DEF SightInv, EnsureBackend, FinishSwap, FinishExit, Install
  <2>5. main'.at # "begin"
    BY <1>2 DEF EnsureBackend, FinishSwap, FinishExit, Install, Idle
  <2>. QED
    BY <2>1, <2>2, <2>3, <2>4, <2>5 DEF SightInv
<1>. QED
  BY <1>1, <1>2

LEMMA SightCalls ==
  ASSUME SightInv,
         \/ RefreshCapabilities \/ GetCapabilities \/ ReadVersions \/ ExportsChange
         \/ \E p \in Pids : RequestGameMode(p) \/ ReleaseGameMode(p) \/ ReleaseHeld(p)
         \/ FinishRequestGameMode \/ FinishReleaseGameMode \/ FinishReleaseHeld
         \/ CallTimesOut
         \/ \E b \in Natives : Execute(b)
  PROVE  SightInv'
<1>. USE DEF Idle, facadeVars, backendVars, mainVars, requestVars
<1>1. CASE RefreshCapabilities \/ GetCapabilities \/ ReadVersions \/ ExportsChange
  BY <1>1, SightUntouched DEF RefreshCapabilities, GetCapabilities, ReadVersions, ExportsChange
<1>2. CASE \E p \in Pids : RequestGameMode(p) \/ ReleaseGameMode(p) \/ ReleaseHeld(p)
  BY <1>2, SightUntouched
  DEF RequestGameMode, ReleaseGameMode, ReleaseHeld, Call, Calling
<1>3. CASE FinishRequestGameMode \/ FinishReleaseGameMode \/ FinishReleaseHeld \/ CallTimesOut
  <2>1. UNCHANGED <<connected, shut, backend, pending, deferred, historyVars>>
    BY <1>3 DEF FinishRequestGameMode, FinishReleaseGameMode, FinishReleaseHeld, CallTimesOut
  <2>2. \/ main' = Idle \/ main' = [at |-> "releasing", next |-> main.next]
        \/ main' = Outcome("failed")
    BY <1>3 DEF FinishRequestGameMode, FinishReleaseGameMode, FinishReleaseHeld, CallTimesOut
  <2>3. main'.at # "begin"
    BY <2>2 DEF Outcome, Calling
  <2>. QED
    BY <2>1, <2>3, SightUntouched
<1>4. CASE \E b \in Natives : Execute(b)
  BY <1>4, ExecuteEffect, SightUntouched DEF Outcome, Calling
<1>. QED
  BY <1>1, <1>2, <1>3, <1>4

LEMMA SightRequests ==
  ASSUME TypeOK, SignalInv, SightInv,
         \/ \E h \in Handles : BeginRequest(h) \/ CloseRequest(h)
         \/ HandleReturned \/ Flush
         \/ \E b \in Mocks, h \in Handles : MockCompletes(b, h)
         \/ \E b \in Natives, h \in Handles : Complete(b, h)
  PROVE  SightInv'
<1>0. FacadeTypes /\ MainTypes /\ RequestTypes /\ HistoryTypes
  BY DEF TypeOK
<1>. USE BackendsAssumption DEF Idle, facadeVars, backendVars, mainVars
<1>1. ASSUME NEW h \in Handles, BeginRequest(h)
      PROVE  SightInv'
  <2>1. backend \in Backends /\ backend \notin shut /\ backend # NoBackend
    BY <1>0, <1>1 DEF BeginRequest, HasCapability, Available, FacadeTypes
  <2>2. origin' = [origin EXCEPT ![h] = backend] /\ origin[h] = NoBackend
    BY <1>1 DEF BeginRequest
  <2>3. /\ UNCHANGED <<connected, shut, backend, deferred, heard, closed, missed>>
        /\ pending' = [pending EXCEPT ![backend] = @ \cup {h}]
        /\ given' \subseteq given \cup {h}
        /\ main'.at = "begin" => main'.handle = h
    BY <1>1 DEF BeginRequest
  <2>4. \A k \in Handles : origin'[k] = IF k = h THEN backend ELSE origin[k]
    BY <1>0, <2>2 DEF HistoryTypes
  <2>5. ASSUME NEW k \in Handles, origin'[k] # NoBackend, origin'[k] \notin shut
        PROVE  InSight(k)' \/ k \in missed'
    <3>1. CASE k = h
      BY <1>0, <2>1, <2>3, <2>4, <3>1 DEF InSight, RequestTypes
    <3>2. CASE k # h
      <4>1. pending[origin[k]] \subseteq pending'[origin[k]]
        BY <1>0, <2>1, <2>3, <2>4, <2>5, <3>2 DEF RequestTypes, HistoryTypes
      <4>. QED
        BY <2>3, <2>4, <2>5, <3>2, <4>1 DEF SightInv, InSight
    <3>. QED
      BY <3>1, <3>2
  <2>6. given' \subseteq Handles /\ missed \subseteq Handles /\ h \notin missed
    BY <1>0, <2>2, <2>3 DEF HistoryTypes, SightInv, Backends
  <2>. QED
    BY <2>1, <2>3, <2>4, <2>5, <2>6 DEF SightInv
<1>2. ASSUME NEW h \in Handles, CloseRequest(h)
      PROVE  SightInv'
  <2>1. /\ UNCHANGED <<connected, shut, backend, main, deferred, origin, given, heard, missed>>
        /\ closed' = closed \cup {h}
        /\ \A b \in Backends : pending[b] \subseteq pending'[b] \cup {h}
    BY <1>0, <1>2 DEF CloseRequest, RequestTypes
  <2>2. ASSUME NEW k \in Handles, origin[k] # NoBackend, InSight(k)
        PROVE  InSight(k)'
    BY <1>0, <2>1, <2>2 DEF InSight, HistoryTypes
  <2>. QED
    BY <2>1, <2>2 DEF SightInv
<1>3. CASE HandleReturned
  <2>1. /\ UNCHANGED <<connected, shut, backend, pending, deferred, origin, heard, closed, missed>>
        /\ given' = given \cup {main.handle}
        /\ main.at = "begin" /\ main'.at # "begin"
    BY <1>3 DEF HandleReturned, requestVars
  <2>. QED
    BY <2>1 DEF SightInv, InSight
<1>4. CASE Flush
  <2>. DEFINE m == Head(deferred)
  <2>1. /\ m = deferred[1]
        /\ Len(deferred) \in Nat \ {0}
        /\ m \in [from : Natives, handle : Handles]
        /\ Len(Tail(deferred)) = Len(deferred) - 1
        /\ \A i \in 1..Len(Tail(deferred)) : Tail(deferred)[i] = deferred[i + 1]
    BY <1>0, <1>4, FirstDeferred DEF Flush
  <2>2. origin[m.handle] = m.from /\ m.handle \in Handles /\ m.from \in Natives
    BY <2>1 DEF SignalInv
  <2>3. /\ UNCHANGED <<connected, shut, backend, main, pending, origin, given, closed>>
        /\ deferred' = Tail(deferred)
        /\ IF m.from \in shut THEN UNCHANGED <<heard, missed>> ELSE Forward(m.from, m.handle)
    BY <1>4 DEF Flush
  <2>4. m.from \notin shut => m.from \in connected
    BY <2>2 DEF SightInv, Backends
  <2>5. /\ UNCHANGED missed
        /\ heard \subseteq heard'
        /\ m.from \notin shut => m.handle \in heard'
    BY <2>3, <2>4 DEF Forward
  <2>6. ASSUME NEW i \in DOMAIN deferred, i # 1
        PROVE  \E j \in DOMAIN deferred' : deferred'[j] = deferred[i]
    <3>1. i - 1 \in 1..Len(Tail(deferred)) /\ DOMAIN deferred' = 1..Len(Tail(deferred))
      BY <1>0, <2>1, <2>3, <2>6, Shifted DEF RequestTypes
    <3>2. Tail(deferred)[i - 1] = deferred[i - 1 + 1]
      BY <2>1, <3>1
    <3>3. i - 1 + 1 = i
      BY <1>0, <2>1 DEF RequestTypes
    <3>. QED
      BY <2>3, <3>1, <3>2, <3>3
  <2>7. ASSUME NEW k \in Handles, origin[k] \notin shut, InSight(k)
        PROVE  InSight(k)'
    <3>1. CASE \E i \in DOMAIN deferred : i # 1 /\ deferred[i].handle = k
      BY <2>6, <3>1 DEF InSight
    <3>2. CASE k = m.handle
      BY <2>2, <2>5, <2>7, <3>2 DEF InSight
    <3>3. CASE k \in heard \cup closed \/ k \in pending[origin[k]]
      BY <2>3, <2>5, <3>3 DEF InSight
    <3>. QED
      BY <2>1, <2>7, <3>1, <3>2, <3>3 DEF InSight
  <2>. QED
    BY <2>3, <2>5, <2>7 DEF SightInv
<1>5. ASSUME NEW b \in Mocks, NEW h \in Handles, MockCompletes(b, h)
      PROVE  SightInv'
  <2>1. origin[h] = b
    BY <1>5 DEF MockCompletes, SignalInv, Backends
  <2>2. /\ UNCHANGED <<connected, shut, backend, main, deferred, origin, given, closed>>
        /\ \A d \in Backends : pending[d] \subseteq pending'[d] \cup {h}
        /\ heard \subseteq heard' /\ missed' \subseteq missed \cup {h} /\ missed \subseteq missed'
        /\ h \in heard' \cup missed'
    BY <1>0, <1>5 DEF MockCompletes, Forward, RequestTypes
  <2>3. ASSUME NEW k \in Handles, origin[k] # NoBackend, InSight(k)
        PROVE  InSight(k)' \/ k \in missed'
    BY <1>0, <2>2, <2>3 DEF InSight, HistoryTypes
  <2>. QED
    BY <2>1, <2>2, <2>3 DEF SightInv
<1>6. ASSUME NEW b \in Natives, NEW h \in Handles, Complete(b, h)
      PROVE  SightInv'
  <2>1. /\ UNCHANGED <<connected, shut, backend, main, origin, given, heard, closed, missed>>
        /\ \A d \in Backends : pending[d] \subseteq pending'[d] \cup {h}
    BY <1>0, <1>6 DEF Complete, EmitRequestCompleted, RequestTypes
  <2>2. [from |-> b, handle |-> h] \in [from : Natives, handle : Handles]
    OBVIOUS
  <2>3. /\ Len(deferred) \in Nat
        /\ deferred' \in Seq([from : Natives, handle : Handles])
        /\ Len(deferred') = Len(deferred) + 1
        /\ \A i \in 1..Len(deferred) : deferred'[i] = deferred[i]
        /\ deferred'[Len(deferred) + 1].handle = h
    BY <1>0, <1>6, <2>2, Appended DEF Complete, EmitRequestCompleted, RequestTypes
  <2>4. DOMAIN deferred = 1..Len(deferred) /\ DOMAIN deferred' = 1..Len(deferred')
    BY <1>0, <2>3 DEF RequestTypes
  <2>5. ASSUME NEW k \in Handles, origin[k] # NoBackend, InSight(k)
        PROVE  InSight(k)'
    <3>1. CASE k = h
      <4>1. Len(deferred) + 1 \in DOMAIN deferred'
        BY <2>3, <2>4
      <4>. QED
        BY <2>3, <3>1, <4>1 DEF InSight
    <3>2. CASE \E i \in DOMAIN deferred : deferred[i].handle = k
      BY <2>3, <2>4, <3>2 DEF InSight
    <3>3. CASE k # h /\ (k \in heard \cup closed \/ k \in pending[origin[k]])
      BY <1>0, <2>1, <2>5, <3>3 DEF InSight, HistoryTypes
    <3>. QED
      BY <2>5, <3>1, <3>2, <3>3 DEF InSight
  <2>. QED
    BY <2>1, <2>5 DEF SightInv
<1>. QED
  BY <1>1, <1>2, <1>3, <1>4, <1>5, <1>6

LEMMA NextSight == TypeOK /\ SignalInv /\ SightInv /\ [Next]_vars => SightInv'
<1>. SUFFICES ASSUME TypeOK, SignalInv, SightInv, [Next]_vars PROVE SightInv'
  OBVIOUS
<1>1. CASE Next
  BY <1>1, SightSwaps, SightCalls, SightRequests DEF Next, MainThread, Desktop
<1>2. CASE UNCHANGED vars
  BY <1>2, SightUntouched DEF vars, facadeVars, backendVars, mainVars, requestVars
<1>. QED
  BY <1>1, <1>2

\* However backends are swapped, also back to one that was in use before, the game
\* hears of every handle of the backend in use unless it closed it, and only what a
\* mock completes while it is not in use goes unheard.
THEOREM HandlesAreAccountedFor == Spec => []CurrentHandlesInSight
<1>1. Init => SightInv
  BY BackendsAssumption DEF Init, SightInv, Idle, Backends
<1>2. TypeInv /\ SignalInv /\ SightInv /\ [Next]_vars => SightInv'
  BY NextSight DEF TypeInv
<1>3. TypeInv /\ SightInv => CurrentHandlesInSight
  BY DEF TypeInv, TypeOK, HistoryTypes, SightInv, CurrentHandlesInSight, Available
<1>. QED
  BY <1>1, <1>2, <1>3, SignalsHold, PTL DEF Spec

-----------------------------------------------------------------------------
(* Discovery.                                                              *)

LEMMA DiscoveryUntouched ==
  ASSUME DiscoveryInv,
         UNCHANGED <<backend, capabilities, interface_versions, versions>>,
         UNCHANGED main \/ (~Discovering /\ main'.at # "versions")
  PROVE  DiscoveryInv'
BY DEF DiscoveryInv, CapabilitiesMatchVersions, Discovering

LEMMA DiscoveryBegun ==
  ASSUME main'.at = "discover"
  PROVE  DiscoveryInv'
BY DEF DiscoveryInv, CapabilitiesMatchVersions, Discovering

LEMMA DiscoverySteps ==
  ASSUME TypeInv, DiscoveryInv,
         RefreshCapabilities \/ GetCapabilities \/ ReadVersions \/ ExportsChange
  PROVE  DiscoveryInv'
<1>0. FacadeTypes /\ BackendTypes
  BY DEF TypeInv, TypeOK
<1>1. CASE RefreshCapabilities
  BY <1>1, DiscoveryBegun DEF RefreshCapabilities
<1>2. CASE GetCapabilities
  <2>1. ASSUME backend \in Natives
        PROVE  \A c \in Capabilities : capabilities'[c] <=> versions'[c] # NoVersion
    <3>1. backend \notin Mocks
      BY <2>1, BackendsAssumption
    <3>2. PICK offer \in NativeVersions(backend) :
            /\ versions' = offer
            /\ capabilities' = [c \in Capabilities |-> offer[c] # NoVersion]
      BY <1>2, <3>1 DEF GetCapabilities
    <3>. QED
      BY <3>2
  <2>. QED
    BY <1>2, <2>1
    DEF GetCapabilities, DiscoveryInv, CapabilitiesMatchVersions, Discovering
<1>3. CASE ReadVersions
  <2>1. CASE backend \in Mocks
    <3>1. backend \notin Natives
      BY <2>1, BackendsAssumption
    <3>. QED
      BY <1>3, <2>1, <3>1 DEF ReadVersions, InterfaceVersion, Idle, DiscoveryInv,
                              CapabilitiesMatchVersions, Discovering
  <2>2. CASE backend \notin Mocks
    <3>1. backend \in Natives
      BY <1>0, <1>3, <2>2 DEF ReadVersions, TypeInv, SomeBackend, Discovering, FacadeTypes, Backends
    <3>. QED
      BY <1>3, <2>2, <3>1 DEF ReadVersions, InterfaceVersion, Idle, DiscoveryInv,
                              CapabilitiesMatchVersions, Discovering
  <2>. QED
    BY <2>1, <2>2
<1>4. CASE ExportsChange
  BY <1>4, DiscoveryUntouched DEF ExportsChange, facadeVars, backendVars, mainVars
<1>. QED
  BY <1>1, <1>2, <1>3, <1>4

LEMMA NextDiscovery == TypeInv /\ DiscoveryInv /\ [Next]_vars => DiscoveryInv'
<1>. SUFFICES ASSUME TypeInv, DiscoveryInv, [Next]_vars PROVE DiscoveryInv'
  OBVIOUS
<1>. USE DEF Idle, facadeVars, backendVars, mainVars
<1>1. CASE EnsureBackend \/ FinishSwap
  BY <1>1, DiscoveryBegun DEF EnsureBackend, FinishSwap, Install
<1>2. CASE ExitTree \/ FinishExit \/ \E b \in Backends : SetBackend(b)
  BY <1>2, DiscoveryUntouched DEF ExitTree, FinishExit, SetBackend, Discovering
<1>3. CASE RefreshCapabilities \/ GetCapabilities \/ ReadVersions \/ ExportsChange
  BY <1>3, DiscoverySteps
<1>4. ASSUME NEW p \in Pids, RequestGameMode(p) \/ ReleaseGameMode(p) \/ ReleaseHeld(p)
      PROVE  DiscoveryInv'
  <2>1. UNCHANGED <<backend, capabilities, interface_versions, versions>>
    BY <1>4 DEF RequestGameMode, ReleaseGameMode, ReleaseHeld
  <2>2. main = Idle \/ main.at = "releasing"
    BY <1>4 DEF RequestGameMode, ReleaseGameMode, ReleaseHeld
  <2>3. main'.at = "calling"
    BY <1>4 DEF RequestGameMode, ReleaseGameMode, ReleaseHeld, Call, Calling
  <2>. QED
    BY <2>1, <2>2, <2>3, DiscoveryUntouched DEF Discovering
<1>5. CASE FinishRequestGameMode \/ FinishReleaseGameMode \/ FinishReleaseHeld
  BY <1>5, DiscoveryUntouched
  DEF FinishRequestGameMode, FinishReleaseGameMode, FinishReleaseHeld, Answered, Discovering
<1>6. CASE CallTimesOut
  BY <1>6, DiscoveryUntouched DEF CallTimesOut, Waiting, Outcome, Calling, Discovering
<1>7. ASSUME NEW b \in Natives, Execute(b)
      PROVE  DiscoveryInv'
  <2>1. UNCHANGED main \/ (main.at = "calling" /\ main'.at = "calling")
    BY <1>7, ExecuteEffect DEF Waiting, Outcome, Calling
  <2>. QED
    BY <1>7, <2>1, ExecuteEffect, DiscoveryUntouched DEF Discovering
<1>8. CASE \/ \E h \in Handles : BeginRequest(h) \/ CloseRequest(h)
           \/ HandleReturned \/ Flush
  BY <1>8, DiscoveryUntouched DEF BeginRequest, CloseRequest, HandleReturned, Flush, Discovering
<1>9. CASE \/ \E b \in Mocks, h \in Handles : MockCompletes(b, h)
           \/ \E b \in Natives, h \in Handles : Complete(b, h)
  BY <1>9, DiscoveryUntouched DEF MockCompletes, Complete
<1>10. CASE UNCHANGED vars
  BY <1>10, DiscoveryUntouched DEF vars
<1>. QED
  BY <1>1, <1>2, <1>3, <1>4, <1>5, <1>6, <1>7, <1>8, <1>9, <1>10 DEF Next, MainThread, Desktop

\* Whatever the portal exports between the two halves of a discovery, and whatever
\* backends come before: no version without its capability, and with a native backend
\* no capability without its version.
THEOREM DiscoveriesAreWhole == Spec => []CapabilitiesMatchVersions
<1>1. Init => TypeInv /\ DiscoveryInv
  BY InitTypes
  DEF Init, TypeInv, SomeBackend, Discovering, Idle, DiscoveryInv, CapabilitiesMatchVersions, Nothing
<1>2. TypeInv /\ DiscoveryInv /\ [Next]_vars => TypeInv' /\ DiscoveryInv'
  BY NextTypes, NextSomeBackend, NextDiscovery DEF TypeInv
<1>3. DiscoveryInv => CapabilitiesMatchVersions
  BY DEF DiscoveryInv
<1>. QED
  BY <1>1, <1>2, <1>3, PTL DEF Spec

-----------------------------------------------------------------------------
(* Registrations.                                                          *)

Registering == main.at = "calling" /\ main.member = "register"
Leaving == main.at = "releasing" \/ (main.at = "calling" /\ ~main.asked)

\* A call that succeeded; the facade has not gone on yet.
Succeeded == main.at = "calling" /\ main.result = "ok"

\* Calls are numbered, and carried out, in the order they are made; the one the main
\* thread waits for is the last, so once it succeeded none is on its way.
CallsInOrder ==
  \A b \in Backends :
    /\ \A i, j \in 1..Len(outbox[b]) : i < j => outbox[b][i].number < outbox[b][j].number
    /\ b \in Mocks \/ (Succeeded /\ b = backend) => outbox[b] = <<>>

\* A registration on its way is the call the main thread waits for, or one that it
\* stopped waiting for.
RegistersAwaited ==
  \A b \in Backends : \A i \in 1..Len(outbox[b]) :
    /\ outbox[b][i].number <= calls
    /\ outbox[b][i].member = "register" =>
         (Waiting /\ outbox[b][i].number = calls) \/ outbox[b][i].pid \in abandoned[b]
    /\ Waiting /\ outbox[b][i].number = calls =>
         b = backend /\ outbox[b][i].member = main.member /\ outbox[b][i].pid = main.pid

\* A game registers where it can be heard.
RegistersInUse == Registering => main.asked /\ backend \notin shut

\* The registrations the facade holds, or is about to record.
Held == IF Registering /\ main.result = "ok" THEN game_mode_pids \cup {main.pid} ELSE game_mode_pids

\* Those it has yet to release on the way out.
Remaining == IF main.at = "calling" THEN unreleased \cup {main.pid} ELSE unreleased

\* Whoever is registered through the backend in use is held, and not just released;
\* on the way out it is among those that have yet to be released.
RegistrationsHeld ==
  backend # NoBackend =>
    /\ registered[backend] \subseteq Held \cup abandoned[backend]
    /\ main.at = "calling" /\ main.member = "unregister" /\ main.result = "ok" =>
         main.pid \notin registered[backend]
    /\ Leaving => registered[backend] \subseteq Remaining \cup abandoned[backend]

AccountInv ==
  CallsInOrder /\ RegistersAwaited /\ RegistersInUse /\ RegistrationsHeld /\ NothingLeftBehind

\* Steps that have nothing to do with GameMode.
LEMMA AccountUntouched ==
  ASSUME AccountInv,
         UNCHANGED <<backend, shut, game_mode_pids, abandoned, unreleased, calls, gameModeVars>>,
         \/ UNCHANGED main
         \/ main.at \notin {"calling", "releasing"} /\ main'.at \notin {"calling", "releasing"}
  PROVE  AccountInv'
<1>1. CallsInOrder' /\ RegistersAwaited'
  BY DEF AccountInv, CallsInOrder, RegistersAwaited, Succeeded, Waiting, gameModeVars
<1>2. RegistersInUse' /\ RegistrationsHeld' /\ NothingLeftBehind'
  BY DEF AccountInv, RegistersInUse, Registering, RegistrationsHeld, Held, Remaining, Leaving,
         NothingLeftBehind, gameModeVars
<1>. QED
  BY <1>1, <1>2 DEF AccountInv

LEMMA AccountElsewhere ==
  ASSUME AccountInv,
         \/ RefreshCapabilities \/ GetCapabilities \/ ReadVersions \/ ExportsChange
         \/ \E h \in Handles : BeginRequest(h) \/ CloseRequest(h)
         \/ HandleReturned \/ Flush
         \/ \E b \in Mocks, h \in Handles : MockCompletes(b, h)
         \/ \E b \in Natives, h \in Handles : Complete(b, h)
         \/ UNCHANGED vars
  PROVE  AccountInv'
<1>1. UNCHANGED <<backend, shut, game_mode_pids, abandoned, unreleased, calls, gameModeVars>>
  BY DEF RefreshCapabilities, GetCapabilities, ReadVersions, ExportsChange, BeginRequest,
         CloseRequest, HandleReturned, Flush, MockCompletes, Complete, facadeVars, backendVars,
         mainVars, vars
<1>2. \/ UNCHANGED main
      \/ main.at \notin {"calling", "releasing"} /\ main'.at \notin {"calling", "releasing"}
  BY DEF RefreshCapabilities, GetCapabilities, ReadVersions, ExportsChange, BeginRequest,
         CloseRequest, HandleReturned, Flush, MockCompletes, Complete, Idle, mainVars, vars
<1>. QED
  BY <1>1, <1>2, AccountUntouched

\* A swap, and leaving the tree: at first everything that is held has to be released,
\* in the end nothing is.
LEMMA AccountSwaps ==
  ASSUME TypeOK, AccountInv,
         \/ EnsureBackend \/ ExitTree \/ FinishSwap \/ FinishExit
         \/ \E b \in Backends : SetBackend(b)
  PROVE  AccountInv'
<1>0. FacadeTypes /\ BackendTypes /\ MainTypes /\ GameModeTypes
  BY DEF TypeOK
<1>1. /\ ~Waiting /\ ~Waiting' /\ ~Succeeded'
      /\ UNCHANGED <<calls, gameModeVars, abandoned>>
  BY DEF EnsureBackend, ExitTree, FinishSwap, FinishExit, SetBackend, Install, Idle, Waiting,
         Succeeded
<1>2. CallsInOrder' /\ RegistersAwaited'
  BY <1>1 DEF AccountInv, CallsInOrder, RegistersAwaited, gameModeVars
<1>3. CASE ExitTree \/ \E b \in Backends : SetBackend(b)
  <2>1. /\ main = Idle /\ main'.at = "releasing" /\ unreleased' = game_mode_pids
        /\ UNCHANGED <<backend, shut, game_mode_pids, registered, abandoned>>
    BY <1>3 DEF ExitTree, SetBackend, facadeVars, backendVars, gameModeVars
  <2>. QED
    BY <1>2, <2>1
    DEF AccountInv, RegistersInUse, Registering, RegistrationsHeld, Held, Remaining, Leaving,
        NothingLeftBehind, Idle
<1>4. CASE EnsureBackend \/ FinishSwap \/ FinishExit
  <2>1. /\ main'.at \in {"idle", "discover"}
        /\ shut' \subseteq shut \cup {backend}
        /\ UNCHANGED <<registered, abandoned>>
    BY <1>4 DEF EnsureBackend, FinishSwap, FinishExit, Install, Idle, gameModeVars
  <2>2. backend # NoBackend => registered[backend] \subseteq abandoned[backend]
    <3>1. CASE EnsureBackend
      BY <3>1 DEF EnsureBackend
    <3>2. CASE FinishSwap \/ FinishExit
      BY <3>2 DEF FinishSwap, FinishExit, AccountInv, RegistrationsHeld, Leaving, Remaining
    <3>. QED
      BY <1>4, <3>1, <3>2
  <2>3. \A b \in Backends : registered[b] \subseteq abandoned[b]
    BY <2>2, BackendsAssumption DEF AccountInv, NothingLeftBehind
  <2>4. backend' # NoBackend => backend' \in Backends
    <3>1. main.at = "releasing" => main.next \in Backends \cup {NoBackend}
      BY <1>0, MainFields DEF MainTypes
    <3>. QED
      BY <1>0, <1>4, <3>1, BackendsAssumption
      DEF EnsureBackend, FinishSwap, FinishExit, Install, FacadeTypes, Backends
  <2>. QED
    BY <1>2, <2>1, <2>3, <2>4
    DEF AccountInv, RegistersInUse, Registering, RegistrationsHeld, Held, Leaving,
        NothingLeftBehind
<1>. QED
  BY <1>3, <1>4

\* What a call appends to an outbox.
LEMMA CallAwaited ==
  ASSUME TypeOK, CallsInOrder, RegistersAwaited, ~Waiting, UNCHANGED <<backend, abandoned>>,
         NEW member \in Members, NEW p \in Pids, NEW asked, NEW next,
         Call(member, p, asked, next)
  PROVE  CallsInOrder' /\ RegistersAwaited'
<1>0. MainTypes /\ GameModeTypes
  BY DEF TypeOK
<1>1. calls \in Nat /\ calls' = calls + 1
  BY <1>0 DEF Call, MainTypes
<1>2. ASSUME NEW b \in Backends
      PROVE  /\ outbox[b] \in Seq([member : Members, pid : Pids, number : Nat])
             /\ \A i \in 1..Len(outbox[b]) :
                  /\ outbox[b][i].number \in Nat
                  /\ outbox[b][i].number < calls'
                  /\ outbox[b][i].member = "register" => outbox[b][i].pid \in abandoned[b]
  <2>1. outbox[b] \in Seq([member : Members, pid : Pids, number : Nat])
    BY <1>0 DEF GameModeTypes
  <2>2. \A i \in 1..Len(outbox[b]) : outbox[b][i] \in [member : Members, pid : Pids, number : Nat]
    BY <2>1, Elements
  <2>. QED
    BY <1>1, <2>1, <2>2 DEF RegistersAwaited
<1>3. CASE UNCHANGED outbox /\ ~Waiting' /\ (Succeeded' => backend \in Mocks)
  BY <1>1, <1>2, <1>3 DEF CallsInOrder, RegistersAwaited
<1>4. CASE /\ backend \in Natives
           /\ main' = Calling(member, p, "none", asked, next)
           /\ outbox' = [outbox EXCEPT ![backend] =
                           Append(@, [member |-> member, pid |-> p, number |-> calls'])]
  <2>. DEFINE m == [member |-> member, pid |-> p, number |-> calls']
  <2>1. Waiting' /\ ~Succeeded' /\ main'.member = member /\ main'.pid = p
    BY <1>4 DEF Waiting, Succeeded, Calling
  <2>2. ASSUME NEW b \in Backends, b # backend
        PROVE  outbox'[b] = outbox[b]
    BY <1>0, <1>4, <2>2 DEF GameModeTypes
  <2>3. /\ backend \in Backends
        /\ Len(outbox[backend]) \in Nat
        /\ Len(outbox'[backend]) = Len(outbox[backend]) + 1
        /\ \A i \in 1..Len(outbox[backend]) : outbox'[backend][i] = outbox[backend][i]
        /\ outbox'[backend][Len(outbox[backend]) + 1] = m
    <3>1. backend \in Backends
      BY <1>4 DEF Backends
    <3>2. m \in [member : Members, pid : Pids, number : Nat]
      BY <1>1
    <3>3. outbox'[backend] = Append(outbox[backend], m)
      BY <1>0, <1>4, <3>1 DEF GameModeTypes
    <3>. QED
      BY <1>2, <3>1, <3>2, <3>3, Appended
  <2>4. ASSUME NEW b \in Backends, NEW i \in 1..Len(outbox'[b])
        PROVE  /\ outbox'[b][i].number <= calls'
               /\ outbox'[b][i].member = "register" =>
                    outbox'[b][i].number = calls' \/ outbox'[b][i].pid \in abandoned'[b]
               /\ outbox'[b][i].number = calls' =>
                    b = backend /\ i = Len(outbox[backend]) + 1
    <3>1. CASE b # backend
      BY <1>1, <1>2, <2>2, <3>1
    <3>2. CASE b = backend /\ i \in 1..Len(outbox[backend])
      BY <1>1, <1>2, <2>3, <3>2
    <3>3. CASE b = backend /\ i = Len(outbox[backend]) + 1
      BY <1>1, <2>3, <3>3
    <3>. QED
      BY <2>3, <3>1, <3>2, <3>3
  <2>5. ASSUME NEW b \in Backends, NEW i \in 1..Len(outbox'[b]), NEW j \in 1..Len(outbox'[b]), i < j
        PROVE  outbox'[b][i].number < outbox'[b][j].number
    <3>1. CASE b # backend
      BY <2>2, <2>5, <3>1 DEF CallsInOrder
    <3>2. CASE b = backend /\ j = Len(outbox[backend]) + 1
      <4>1. i \in 1..Len(outbox[backend])
        BY <2>3, <2>5, <3>2
      <4>. QED
        BY <1>2, <2>3, <3>2, <4>1
    <3>3. CASE b = backend /\ j # Len(outbox[backend]) + 1
      <4>1. i \in 1..Len(outbox[b]) /\ j \in 1..Len(outbox[b])
        BY <2>3, <2>5, <3>3
      <4>. QED
        BY <2>3, <2>5, <3>3, <4>1 DEF CallsInOrder
    <3>. QED
      BY <3>1, <3>2, <3>3
  <2>6. ASSUME NEW b \in Mocks PROVE outbox'[b] = <<>>
    <3>1. b # backend /\ b \in Backends
      BY <1>4, <2>6, BackendsAssumption DEF Backends
    <3>. QED
      BY <2>2, <2>6, <3>1 DEF CallsInOrder
  <2>7. CallsInOrder'
    BY <2>1, <2>5, <2>6 DEF CallsInOrder
  <2>8. RegistersAwaited'
    BY <2>1, <2>3, <2>4 DEF RegistersAwaited
  <2>. QED
    BY <2>7, <2>8
<1>5. \/ UNCHANGED outbox /\ ~Waiting' /\ (Succeeded' => backend \in Mocks)
      \/ /\ backend \in Natives
         /\ main' = Calling(member, p, "none", asked, next)
         /\ outbox' = [outbox EXCEPT ![backend] =
                         Append(@, [member |-> member, pid |-> p, number |-> calls'])]
  BY DEF Call, Calling, Waiting, Succeeded
<1>. QED
  BY <1>3, <1>4, <1>5

\* Calls the game asks for, and those on the way out.
LEMMA AccountCalls ==
  ASSUME TypeOK, AccountInv,
         NEW p \in Pids, RequestGameMode(p) \/ ReleaseGameMode(p) \/ ReleaseHeld(p)
  PROVE  AccountInv'
<1>0. FacadeTypes /\ BackendTypes /\ MainTypes /\ GameModeTypes
  BY DEF TypeOK
<1>1. /\ UNCHANGED <<backend, shut, game_mode_pids, abandoned>>
      /\ ~Waiting /\ ~Registering
  <2>1. UNCHANGED <<backend, shut, game_mode_pids, abandoned>>
    BY DEF RequestGameMode, ReleaseGameMode, ReleaseHeld, facadeVars, backendVars
  <2>2. main = Idle \/ main.at = "releasing"
    BY DEF RequestGameMode, ReleaseGameMode, ReleaseHeld
  <2>. QED
    BY <2>1, <2>2 DEF Idle, Waiting, Registering
<1>2. PICK member \in Members, asked \in BOOLEAN, next \in Backends \cup {NoBackend} :
        /\ Call(member, p, asked, next)
        /\ member = "register" => asked /\ Available
        /\ asked => main = Idle /\ UNCHANGED unreleased
        /\ ~asked => main.at = "releasing" /\ unreleased' = unreleased \ {p}
  <2>1. CASE RequestGameMode(p)
    BY <2>1 DEF RequestGameMode, HasCapability, Members
  <2>2. CASE ReleaseGameMode(p)
    BY <2>2 DEF ReleaseGameMode, Members
  <2>3. CASE ReleaseHeld(p)
    BY <1>0, <2>3, MainFields DEF ReleaseHeld, Members, MainTypes
  <2>. QED
    BY <2>1, <2>2, <2>3
<1>3. CallsInOrder' /\ RegistersAwaited'
  BY <1>1, <1>2, CallAwaited DEF AccountInv
<1>4. /\ main'.at = "calling" /\ main'.member = member /\ main'.pid = p /\ main'.asked = asked
      /\ backend \in Backends
  BY <1>0, <1>2 DEF Call, Calling, Backends, BackendTypes
<1>5. \/ registered' = registered /\ main'.result # "ok"
      \/ /\ main'.result = "ok"
         /\ registered' = [registered EXCEPT ![backend] =
                             IF member = "register" THEN @ \cup {p} ELSE @ \ {p}]
  BY <1>2 DEF Call, Calling
<1>6. registered[backend] \subseteq game_mode_pids \cup abandoned[backend]
  BY <1>1, <1>4, BackendsAssumption DEF AccountInv, RegistrationsHeld, Held
<1>7. ~asked => registered[backend] \subseteq unreleased \cup abandoned[backend]
  BY <1>2, <1>4, BackendsAssumption DEF AccountInv, RegistrationsHeld, Leaving, Remaining
<1>8. \A b \in Backends : registered'[b] \subseteq registered[b] \cup (IF b = backend /\ member = "register" THEN {p} ELSE {})
  BY <1>0, <1>5 DEF GameModeTypes
<1>9. /\ member = "register" /\ main'.result # "ok" => registered'[backend] \subseteq registered[backend]
      /\ member = "unregister" /\ main'.result = "ok" => p \notin registered'[backend]
  BY <1>0, <1>4, <1>5 DEF GameModeTypes
<1>10. RegistersInUse'
  BY <1>1, <1>2, <1>4 DEF RegistersInUse, Registering, Available
<1>11. RegistrationsHeld'
  <2>1. registered'[backend] \subseteq Held' \cup abandoned[backend]
    BY <1>1, <1>4, <1>6, <1>8, <1>9 DEF Held, Registering, Members
  <2>2. ~asked => registered'[backend] \subseteq unreleased' \cup {p} \cup abandoned[backend]
    BY <1>2, <1>4, <1>7, <1>8
  <2>. QED
    BY <1>1, <1>4, <1>9, <2>1, <2>2 DEF RegistrationsHeld, Leaving, Remaining
<1>12. NothingLeftBehind'
  BY <1>1, <1>2, <1>8 DEF AccountInv, NothingLeftBehind, Available
<1>. QED
  BY <1>3, <1>10, <1>11, <1>12 DEF AccountInv

\* What the facade makes of the results.
LEMMA AccountResults ==
  ASSUME TypeOK, AccountInv,
         FinishRequestGameMode \/ FinishReleaseGameMode \/ FinishReleaseHeld
  PROVE  AccountInv'
<1>0. FacadeTypes /\ MainTypes /\ GameModeTypes
  BY DEF TypeOK
<1>1. /\ UNCHANGED <<backend, shut, unreleased, calls, outbox, registered>>
      /\ main.at = "calling" /\ main'.at \in {"idle", "releasing"}
      /\ ~Waiting /\ ~Waiting' /\ ~Succeeded'
  BY DEF FinishRequestGameMode, FinishReleaseGameMode, FinishReleaseHeld, Answered, Idle,
         facadeVars, backendVars, gameModeVars, Waiting, Succeeded
<1>2. ASSUME NEW b \in Backends, NEW q \in abandoned[b]
      PROVE  q \in abandoned'[b] \/ (b = backend /\ Succeeded /\ q = main.pid)
  BY <1>0, <1>1
  DEF FinishRequestGameMode, FinishReleaseGameMode, FinishReleaseHeld, Clears, Succeeded,
      GameModeTypes
<1>3. CallsInOrder'
  BY <1>1 DEF AccountInv, CallsInOrder
<1>4. RegistersAwaited'
  <2>1. \A b \in Backends : \A i \in 1..Len(outbox[b]) :
          /\ ~(Succeeded /\ b = backend)
          /\ outbox[b][i].number <= calls
          /\ outbox[b][i].member = "register" => outbox[b][i].pid \in abandoned[b]
    BY <1>1 DEF AccountInv, CallsInOrder, RegistersAwaited
  <2>. QED
    BY <1>1, <1>2, <2>1 DEF RegistersAwaited
<1>5. ASSUME NEW b \in Backends, b = backend, Succeeded, main.member # "register"
      PROVE  main.pid \notin registered[b]
  <2>1. main.member = "unregister" /\ backend # NoBackend
    BY <1>0, <1>1, <1>5, MainFields, BackendsAssumption DEF MainTypes, Members
  <2>. QED
    BY <1>5, <2>1 DEF AccountInv, RegistrationsHeld, Succeeded
<1>6. NothingLeftBehind'
  <2>1. SUFFICES ASSUME NEW b \in Backends, b # backend \/ b \in shut, NEW q \in registered[b]
                 PROVE  q \in abandoned'[b]
    BY <1>1 DEF NothingLeftBehind
  <2>2. q \in abandoned[b]
    BY <2>1 DEF AccountInv, NothingLeftBehind
  <2>3. CASE b = backend /\ Succeeded
    <3>1. main.member # "register"
      BY <1>1, <2>1, <2>3 DEF AccountInv, RegistersInUse, Registering
    <3>. QED
      BY <1>2, <1>5, <2>1, <2>2, <2>3, <3>1
  <2>. QED
    BY <1>2, <2>2, <2>3
<1>7. RegistersInUse'
  BY <1>1 DEF RegistersInUse, Registering
<1>8. ASSUME backend # NoBackend
      PROVE  /\ registered[backend] \subseteq game_mode_pids' \cup abandoned'[backend]
             /\ Leaving' => registered[backend] \subseteq unreleased \cup abandoned'[backend]
  <2>0. backend \in Backends
    BY <1>0, <1>8 DEF FacadeTypes
  <2>1. CASE FinishRequestGameMode
    <3>1. /\ main.member = "register" /\ ~Leaving'
          /\ game_mode_pids' = IF main.result = "ok" THEN game_mode_pids \cup {main.pid} ELSE game_mode_pids
      BY <2>1 DEF FinishRequestGameMode, Answered, Recorded, Leaving, Idle
    <3>2. registered[backend] \subseteq game_mode_pids' \cup abandoned[backend]
      BY <1>1, <1>8, <3>1 DEF AccountInv, RegistrationsHeld, Held, Registering
    <3>. QED
      BY <1>2, <2>0, <3>1, <3>2 DEF Succeeded
  <2>2. CASE FinishReleaseGameMode
    <3>1. /\ main.member = "unregister" /\ ~Leaving'
          /\ game_mode_pids' = IF main.result = "ok" THEN game_mode_pids \ {main.pid} ELSE game_mode_pids
      BY <2>2 DEF FinishReleaseGameMode, Answered, Released, Leaving, Idle
    <3>2. registered[backend] \subseteq game_mode_pids \cup abandoned[backend]
      BY <1>1, <1>8, <3>1 DEF AccountInv, RegistrationsHeld, Held, Registering
    <3>. QED
      BY <1>1, <1>2, <1>5, <2>0, <3>1, <3>2 DEF Succeeded
  <2>3. CASE FinishReleaseHeld
    <3>1. /\ UNCHANGED game_mode_pids
          /\ main.member = "unregister" /\ main.asked = FALSE
          /\ main.result # "ok" => main.pid \in abandoned'[backend]
      BY <1>0, <2>0, <2>3 DEF FinishReleaseHeld, Answered, facadeVars, GameModeTypes
    <3>2. /\ registered[backend] \subseteq game_mode_pids \cup abandoned[backend]
          /\ registered[backend] \subseteq unreleased \cup {main.pid} \cup abandoned[backend]
      BY <1>1, <1>8, <3>1 DEF AccountInv, RegistrationsHeld, Held, Remaining, Registering, Leaving
    <3>3. ASSUME NEW q \in registered[backend] \cap abandoned[backend] PROVE q \in abandoned'[backend]
      BY <1>2, <1>5, <2>0, <3>1
    <3>4. main.pid \in registered[backend] => main.pid \in abandoned'[backend]
      BY <1>1, <1>5, <2>0, <3>1 DEF Succeeded
    <3>. QED
      BY <3>1, <3>2, <3>3, <3>4
  <2>. QED
    BY <2>1, <2>2, <2>3
<1>9. RegistrationsHeld'
  BY <1>1, <1>8 DEF RegistrationsHeld, Held, Remaining, Registering
<1>. QED
  BY <1>3, <1>4, <1>6, <1>7, <1>9 DEF AccountInv

\* Time runs out; a registration is given up.
LEMMA AccountTimeOut ==
  ASSUME TypeOK, AccountInv, CallTimesOut
  PROVE  AccountInv'
<1>0. FacadeTypes /\ GameModeTypes
  BY DEF TypeOK
<1>1. /\ Waiting /\ main.at = "calling" /\ main.result = "none"
      /\ main'.at = "calling" /\ main'.result = "failed"
      /\ main'.member = main.member /\ main'.pid = main.pid /\ main'.asked = main.asked
      /\ UNCHANGED <<backend, shut, game_mode_pids, unreleased, calls, outbox, registered>>
      /\ ~Waiting' /\ ~Succeeded'
  BY DEF CallTimesOut, Waiting, Succeeded, Outcome, Calling, facadeVars, backendVars, gameModeVars
<1>2. /\ \A b \in Backends : abandoned[b] \subseteq abandoned'[b]
      /\ backend \in Backends /\ main.member = "register" => main.pid \in abandoned'[backend]
  BY <1>0 DEF CallTimesOut, GameModeTypes
<1>3. CallsInOrder'
  BY <1>1 DEF AccountInv, CallsInOrder
<1>4. RegistersAwaited'
  <2>1. ASSUME NEW b \in Backends, NEW i \in 1..Len(outbox[b]), outbox[b][i].member = "register"
        PROVE  outbox[b][i].pid \in abandoned'[b]
    BY <1>1, <1>2, <2>1 DEF AccountInv, RegistersAwaited
  <2>2. \A b \in Backends : \A i \in 1..Len(outbox[b]) : outbox[b][i].number <= calls
    BY DEF AccountInv, RegistersAwaited
  <2>. QED
    BY <1>1, <2>1, <2>2 DEF RegistersAwaited
<1>5. NothingLeftBehind'
  BY <1>1, <1>2 DEF AccountInv, NothingLeftBehind
<1>6. RegistersInUse'
  BY <1>1 DEF AccountInv, RegistersInUse, Registering
<1>7. RegistrationsHeld'
  <2>1. SUFFICES ASSUME backend # NoBackend
                 PROVE  /\ registered[backend] \subseteq game_mode_pids \cup abandoned'[backend]
                        /\ Leaving' => registered[backend] \subseteq Remaining' \cup abandoned'[backend]
    BY <1>1 DEF RegistrationsHeld, Held
  <2>2. abandoned[backend] \subseteq abandoned'[backend]
    BY <1>0, <1>2, <2>1 DEF FacadeTypes
  <2>3. registered[backend] \subseteq game_mode_pids \cup abandoned[backend]
    BY <1>1, <2>1 DEF AccountInv, RegistrationsHeld, Held
  <2>4. Leaving' => Leaving /\ Remaining' = Remaining
    BY <1>1 DEF Leaving, Remaining
  <2>. QED
    BY <2>1, <2>2, <2>3, <2>4 DEF AccountInv, RegistrationsHeld
<1>. QED
  BY <1>3, <1>4, <1>5, <1>6, <1>7 DEF AccountInv

\* A call is carried out: a registration is the facade's to record, or one it
\* gave up.
LEMMA AccountExecute ==
  ASSUME TypeOK, AccountInv, NEW b \in Natives, Execute(b)
  PROVE  AccountInv'
<1>. DEFINE m == Head(outbox[b])
            accepted == "game_mode" \in exported /\ ((m.member = "register") = (m.pid \notin registered[b]))
<1>0. FacadeTypes /\ MainTypes /\ GameModeTypes /\ b \in Backends
  BY DEF TypeOK, Backends
<1>1. /\ outbox[b] \in Seq([member : Members, pid : Pids, number : Nat])
      /\ outbox[b] # <<>>
  BY <1>0 DEF Execute, GameModeTypes
<1>2. /\ m = outbox[b][1]
      /\ m \in [member : Members, pid : Pids, number : Nat]
      /\ Len(outbox[b]) \in Nat \ {0}
      /\ Len(Tail(outbox[b])) = Len(outbox[b]) - 1
      /\ \A i \in 1..Len(Tail(outbox[b])) : Tail(outbox[b])[i] = outbox[b][i + 1]
  BY <1>1, Shifted
<1>3. /\ UNCHANGED <<backend, shut, game_mode_pids, unreleased, calls, abandoned>>
      /\ outbox' = [outbox EXCEPT ![b] = Tail(@)]
      /\ IF accepted
           THEN registered' = [registered EXCEPT ![b] =
                                 IF m.member = "register" THEN @ \cup {m.pid} ELSE @ \ {m.pid}]
           ELSE UNCHANGED registered
      /\ main' = IF Waiting /\ m.number = calls
                   THEN Outcome(IF accepted THEN "ok" ELSE "failed") ELSE main
  BY DEF Execute, facadeVars, backendVars
<1>4. /\ m.member = "register" => (Waiting /\ m.number = calls) \/ m.pid \in abandoned[b]
      /\ Waiting /\ m.number = calls => b = backend /\ m.member = main.member /\ m.pid = main.pid
      /\ m.number \in Nat /\ m.number <= calls
      /\ Succeeded => b # backend
  BY <1>0, <1>1, <1>2 DEF AccountInv, CallsInOrder, RegistersAwaited
<1>4a. Waiting /\ m.number = calls => Len(outbox[b]) = 1
  <2>1. SUFFICES ASSUME m.number = calls, Len(outbox[b]) # 1 PROVE FALSE
    OBVIOUS
  <2>2. 1 \in 1..Len(outbox[b]) /\ 2 \in 1..Len(outbox[b]) /\ 1 < 2
    BY <1>2, <2>1, MoreThanOne
  <2>3. outbox[b][2] \in [member : Members, pid : Pids, number : Nat]
    BY <1>1, <2>2, Elements
  <2>4. outbox[b][1].number < outbox[b][2].number /\ outbox[b][2].number <= calls
    BY <1>0, <2>2 DEF AccountInv, CallsInOrder, RegistersAwaited
  <2>. QED
    BY <1>0, <1>2, <2>1, <2>3, <2>4 DEF MainTypes
<1>5. /\ main'.at = main.at
      /\ main.at = "calling" =>
           main'.member = main.member /\ main'.pid = main.pid /\ main'.asked = main.asked
      /\ ~(Waiting /\ m.number = calls) => UNCHANGED main
      /\ Waiting /\ m.number = calls => main'.result = IF accepted THEN "ok" ELSE "failed"
  BY <1>3 DEF Waiting, Outcome, Calling
<1>6. CallsInOrder' /\ RegistersAwaited'
  <2>1. ASSUME NEW d \in Backends, NEW i \in 1..Len(outbox'[d])
        PROVE  \E k \in 1..Len(outbox[d]) : /\ outbox'[d][i] = outbox[d][k]
                                            /\ k = (IF d = b THEN i + 1 ELSE i)
    <3>1. CASE d = b
      <4>1. outbox'[d] = Tail(outbox[b])
        BY <1>0, <1>3, <3>1 DEF GameModeTypes
      <4>2. i + 1 \in 1..Len(outbox[b]) /\ Tail(outbox[b])[i] = outbox[b][i + 1]
        BY <1>2, <4>1
      <4>. QED
        BY <3>1, <4>1, <4>2
    <3>2. CASE d # b
      BY <1>0, <1>3, <3>2 DEF GameModeTypes
    <3>. QED
      BY <3>1, <3>2
  <2>2. Waiting' => Waiting /\ m.number # calls /\ UNCHANGED main
    BY <1>5 DEF Waiting
  <2>3. ASSUME NEW d \in Backends, NEW i \in 1..Len(outbox'[d]), Waiting, m.number = calls
        PROVE  outbox'[d][i].number # calls
    <3>1. PICK k \in 1..Len(outbox[d]) : /\ outbox'[d][i] = outbox[d][k]
                                         /\ k = (IF d = b THEN i + 1 ELSE i)
      BY <2>1
    <3>2. d # b
      BY <1>2, <1>4a, <2>3, <3>1
    <3>. QED
      BY <1>4, <2>3, <3>1, <3>2 DEF AccountInv, RegistersAwaited
  <2>4. ASSUME NEW d \in Backends, NEW i \in 1..Len(outbox'[d])
        PROVE  /\ outbox'[d][i].number <= calls'
               /\ outbox'[d][i].member = "register" =>
                    (Waiting' /\ outbox'[d][i].number = calls') \/ outbox'[d][i].pid \in abandoned'[d]
               /\ Waiting' /\ outbox'[d][i].number = calls' =>
                    /\ d = backend'
                    /\ outbox'[d][i].member = main'.member
                    /\ outbox'[d][i].pid = main'.pid
    <3>1. PICK k \in 1..Len(outbox[d]) : outbox'[d][i] = outbox[d][k]
      BY <2>1
    <3>2. ~(Waiting /\ m.number = calls) => UNCHANGED main
      BY <1>5
    <3>. QED
      BY <1>3, <2>2, <2>3, <3>1, <3>2 DEF AccountInv, RegistersAwaited, Waiting
  <2>5. ASSUME NEW d \in Backends, NEW i \in 1..Len(outbox'[d]), NEW j \in 1..Len(outbox'[d]), i < j
        PROVE  outbox'[d][i].number < outbox'[d][j].number
    <3>1. PICK k \in 1..Len(outbox[d]) : /\ outbox'[d][i] = outbox[d][k]
                                         /\ k = (IF d = b THEN i + 1 ELSE i)
      BY <2>1
    <3>2. PICK l \in 1..Len(outbox[d]) : /\ outbox'[d][j] = outbox[d][l]
                                         /\ l = (IF d = b THEN j + 1 ELSE j)
      BY <2>1
    <3>3. k < l
      BY <2>5, <3>1, <3>2
    <3>. QED
      BY <3>1, <3>2, <3>3 DEF AccountInv, CallsInOrder
  <2>6. ASSUME NEW d \in Backends, d \in Mocks \/ (Succeeded' /\ d = backend)
        PROVE  outbox'[d] = <<>>
    <3>1. d # b => outbox'[d] = outbox[d]
      BY <1>0, <1>3 DEF GameModeTypes
    <3>2. CASE d \in Mocks
      BY <2>6, <3>1, <3>2, BackendsAssumption DEF AccountInv, CallsInOrder
    <3>3. CASE Succeeded' /\ d = backend /\ Waiting /\ m.number = calls
      <4>1. d = b /\ outbox'[b] = Tail(outbox[b]) /\ Len(outbox[b]) = 1
        BY <1>0, <1>3, <1>4, <1>4a, <3>3 DEF GameModeTypes
      <4>. QED
        BY <1>1, <4>1, LastTaken
    <3>4. CASE Succeeded' /\ d = backend /\ ~(Waiting /\ m.number = calls)
      <4>1. Succeeded
        BY <1>5, <3>4 DEF Succeeded
      <4>. QED
        BY <1>4, <2>6, <3>1, <3>4, <4>1 DEF AccountInv, CallsInOrder
    <3>. QED
      BY <2>6, <3>2, <3>3, <3>4
  <2>7. CallsInOrder'
    BY <1>3, <2>5, <2>6 DEF CallsInOrder
  <2>8. RegistersAwaited'
    BY <2>4 DEF RegistersAwaited
  <2>. QED
    BY <2>7, <2>8
<1>7. RegistersInUse'
  BY <1>3, <1>5 DEF AccountInv, RegistersInUse, Registering
<1>8. \A d \in Backends :
        registered'[d] \subseteq
          registered[d] \cup (IF d = b /\ accepted /\ m.member = "register" THEN {m.pid} ELSE {})
  BY <1>0, <1>3 DEF GameModeTypes
<1>9. CASE m.member = "register" /\ Waiting /\ m.number = calls
  <2>1. /\ Waiting /\ Registering /\ b = backend /\ m.pid = main.pid
        /\ main'.result = IF accepted THEN "ok" ELSE "failed"
    BY <1>4, <1>5, <1>9 DEF Waiting, Registering
  <2>2. main.asked /\ backend \notin shut
    BY <2>1 DEF AccountInv, RegistersInUse
  <2>3. main.result = "none" /\ main.at = "calling" /\ main.member = "register"
    BY <2>1 DEF Waiting, Registering
  <2>4. Registering' /\ ~Leaving' /\ main'.member = "register"
    BY <1>5, <2>2, <2>3 DEF Registering, Leaving
  <2>5. registered[backend] \subseteq game_mode_pids \cup abandoned[backend]
    BY <1>0, <2>1, <2>3, BackendsAssumption DEF AccountInv, RegistrationsHeld, Held
  <2>6. registered'[backend] \subseteq Held' \cup abandoned[backend]
    BY <1>0, <1>3, <1>5, <1>8, <2>1, <2>3, <2>4, <2>5 DEF Held
  <2>7. RegistrationsHeld'
    BY <1>3, <2>4, <2>6 DEF RegistrationsHeld
  <2>8. NothingLeftBehind'
    BY <1>3, <1>8, <2>1, <2>2 DEF AccountInv, NothingLeftBehind
  <2>. QED
    BY <1>6, <1>7, <2>7, <2>8 DEF AccountInv
<1>10. CASE m.member # "register" \/ (m.pid \in abandoned[b] /\ ~(Waiting /\ m.number = calls))
  <2>1. \A d \in Backends : registered'[d] \subseteq registered[d] \cup abandoned[d]
    BY <1>8, <1>10
  <2>2. NothingLeftBehind'
    BY <1>3, <2>1 DEF AccountInv, NothingLeftBehind
  <2>3. ~Waiting \/ m.number # calls \/ main.member # "register"
    BY <1>4, <1>10
  <2>4. ASSUME backend # NoBackend
        PROVE  /\ registered'[backend] \subseteq Held' \cup abandoned[backend]
               /\ Leaving' => registered'[backend] \subseteq Remaining' \cup abandoned[backend]
    <3>1. backend \in Backends
      BY <1>0, <2>4 DEF FacadeTypes
    <3>2. registered'[backend] \subseteq registered[backend] \cup abandoned[backend]
      BY <2>1, <3>1
    <3>3. Held' = Held
      BY <1>3, <1>5, <2>3 DEF Held, Registering, Waiting
    <3>4. Leaving' => Leaving /\ Remaining' = Remaining
      BY <1>3, <1>5 DEF Leaving, Remaining
    <3>. QED
      BY <2>4, <3>2, <3>3, <3>4 DEF AccountInv, RegistrationsHeld
  <2>5. ASSUME backend # NoBackend, main'.at = "calling", main'.member = "unregister",
               main'.result = "ok"
        PROVE  main'.pid \notin registered'[backend]
    <3>1. backend \in Backends
      BY <1>0, <2>5 DEF FacadeTypes
    <3>2. CASE Waiting /\ m.number = calls
      BY <1>0, <1>3, <1>4, <1>5, <1>10, <2>5, <3>1, <3>2 DEF GameModeTypes, Waiting
    <3>3. CASE ~(Waiting /\ m.number = calls)
      <4>1. UNCHANGED main /\ Succeeded
        BY <1>5, <2>5, <3>3 DEF Succeeded
      <4>2. registered'[backend] = registered[backend]
        BY <1>0, <1>3, <1>4, <3>1, <4>1 DEF GameModeTypes
      <4>. QED
        BY <2>5, <4>1, <4>2 DEF AccountInv, RegistrationsHeld
    <3>. QED
      BY <3>2, <3>3
  <2>6. RegistrationsHeld'
    BY <1>3, <2>4, <2>5 DEF RegistrationsHeld
  <2>. QED
    BY <1>6, <1>7, <2>2, <2>6 DEF AccountInv
<1>. QED
  BY <1>4, <1>9, <1>10

LEMMA NextAccount ==
  ASSUME TypeOK, AccountInv, [Next]_vars
  PROVE  AccountInv'
<1>1. CASE Next
  BY <1>1, AccountElsewhere, AccountSwaps, AccountCalls, AccountResults, AccountTimeOut,
     AccountExecute
  DEF Next, MainThread, Desktop
<1>2. CASE UNCHANGED vars
  BY <1>2, AccountElsewhere
<1>. QED
  BY <1>1, <1>2

LEMMA AccountHolds == Spec => []AccountInv
<1>1. Init => AccountInv
  BY DEF Init, Idle, AccountInv, CallsInOrder, RegistersAwaited, Succeeded, RegistersInUse,
         Registering, RegistrationsHeld, NothingLeftBehind, Backends
<1>2. TypeInv /\ AccountInv /\ [Next]_vars => AccountInv'
  BY NextAccount DEF TypeInv
<1>. QED
  BY <1>1, <1>2, SignalsHold, PTL DEF Spec

\* Whatever times out, is refused or fails, the facade knows of everybody who is
\* registered through the backend in use, but those whose register call it stopped
\* waiting for, until a later call about them succeeds.
THEOREM RegistrationsRecorded == Spec => []RegistrationsAreRecorded
<1>1. AccountInv => RegistrationsAreRecorded
  BY DEF AccountInv, RegistrationsHeld, RegistrationsAreRecorded, Held, Registering, Idle
<1>. QED
  BY <1>1, AccountHolds, PTL

\* Likewise a backend that was replaced or shut down has nobody registered but those
\* it tried to release in vain or gave up, also when a call that timed out is carried
\* out after all, and also when the backend was in use before.
THEOREM BackendsLeaveNothing == Spec => []NothingLeftBehind
<1>1. AccountInv => NothingLeftBehind
  BY DEF AccountInv
<1>. QED
  BY <1>1, AccountHolds, PTL

=============================================================================
