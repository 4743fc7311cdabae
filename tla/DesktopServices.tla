--------------------------- MODULE DesktopServices ---------------------------
(***************************************************************************)
(* The facade, with the backends it talks to: which backend is in use and  *)
(* heard, the capabilities read from it, the GameMode registrations made   *)
(* through it, and the requests begun through it, while the portal's       *)
(* interfaces come and go, calls time out and take effect all the same,    *)
(* and signals wait in Godot's message queue.                              *)
(*                                                                         *)
(* Everything the facade does happens on the main thread, in calls that    *)
(* block on the bus; "main" says where it is in one.  A native backend is  *)
(* one XdgPortalNative with its connection; what it does inside is the     *)
(* subject of PortalRequests and PortalState.  Mock backends have neither  *)
(* bus nor message queue: they answer, and emit, at once.  What they can   *)
(* serve need not have a version, as with any backend that is no portal.   *)
(***************************************************************************)
EXTENDS Integers, Sequences

CONSTANTS
  Natives,       \* native backends a game constructs
  Mocks,         \* mock backends a game constructs
  Default,       \* the backend _create_default_backend() selects
  NoBackend,     \* no backend
  Pids,          \* processes a game registers with GameMode
  Handles,       \* request handles, of all backends
  MaxSwaps,      \* bound: calls of set_backend()
  MaxCalls,      \* bound: calls of request_game_mode() and release_game_mode()
  MaxFlips,      \* bound: changes of what the portal exports
  TimeOuts       \* which GameMode calls, "register" and "unregister", may time out

Backends == Natives \cup Mocks
Capabilities == {"game_mode", "requests"}    \* requests: Inhibit and OpenURI
NoVersion == -1
Version == 1

ASSUME BackendsAssumption ==
  /\ Natives \cap Mocks = {}
  /\ Default \in Natives
  /\ NoBackend \notin Backends
ASSUME BoundsAssumption ==
  /\ {MaxSwaps, MaxCalls, MaxFlips} \subseteq Nat
  /\ TimeOuts \subseteq {"register", "unregister"}

VARIABLES
  \* the facade: _backend, _capabilities, _interface_versions, _game_mode_pids
  backend, capabilities, interface_versions, game_mode_pids,
  \* backends whose signals are connected to the facade, native backends without
  \* their XdgPortalNative; of the one that was last asked for its capabilities, the
  \* _versions, or interface_versions of a mock: nobody reads another's
  connected, shut, versions,
  \* the main thread, the registrations it has still to release, and bounds
  main, unreleased, swaps, calls,
  \* the desktop: GameMode calls on their way through each native backend, who is
  \* registered through which backend, what the portal exports
  outbox, registered, exported, flips,
  \* requests that are not completed, per backend; Godot's message queue
  pending, deferred,
  \* history: the backend each handle was made by, the handles the game was given,
  \* told of, never to be told of and closed; per backend, who may stay registered
  \* unrecorded: the register call was not waited for, or the release on the way out
  \* failed, and no later call about it succeeded
  origin, given, heard, missed, closed, abandoned

facadeVars == <<backend, capabilities, interface_versions, game_mode_pids>>
backendVars == <<connected, shut, versions>>
mainVars == <<main, unreleased, swaps, calls>>
gameModeVars == <<outbox, registered>>
exportVars == <<exported, flips>>
requestVars == <<pending, deferred>>
historyVars == <<origin, given, heard, missed, closed>>
vars == <<facadeVars, backendVars, mainVars, gameModeVars, exportVars, requestVars,
          historyVars, abandoned>>

-----------------------------------------------------------------------------
(* Types.                                                                  *)

Members == {"register", "unregister"}
Results == {"none", "ok", "failed"}
Offers == [Capabilities -> {NoVersion, Version}]

\* "calling": a GameMode call, and whether it is one the game asked for; if not,
\* it is part of "releasing" for the sake of the next backend, or of none.
Idle == [at |-> "idle"]
MainStates ==
  [at : {"idle", "discover", "versions"}]
    \cup [at : {"begin"}, handle : Handles]
    \cup [at : {"releasing"}, next : Backends \cup {NoBackend}]
    \cup [at : {"calling"}, member : Members, pid : Pids, result : Results, asked : BOOLEAN,
          next : Backends \cup {NoBackend}]

FacadeTypes ==
  /\ backend \in Backends \cup {NoBackend}
  /\ capabilities \in [Capabilities -> BOOLEAN]
  /\ interface_versions \in Offers
  /\ game_mode_pids \in SUBSET Pids
BackendTypes ==
  /\ connected \in SUBSET Backends
  /\ shut \in SUBSET Natives
  /\ versions \in Offers
MainTypes ==
  /\ main \in MainStates
  /\ unreleased \in SUBSET Pids
  /\ swaps \in Nat
  /\ calls \in Nat
GameModeTypes ==
  /\ outbox \in [Backends -> Seq([member : Members, pid : Pids, number : Nat])]
  /\ registered \in [Backends -> SUBSET Pids]
  /\ abandoned \in [Backends -> SUBSET Pids]
ExportTypes == exported \in SUBSET Capabilities /\ flips \in Nat
RequestTypes ==
  /\ pending \in [Backends -> SUBSET Handles]
  /\ deferred \in Seq([from : Natives, handle : Handles])
HistoryTypes ==
  /\ origin \in [Handles -> Backends \cup {NoBackend}]
  /\ given \in SUBSET Handles
  /\ heard \in SUBSET Handles
  /\ missed \in SUBSET Handles
  /\ closed \in SUBSET Handles

\* Every variable holds a value of the kind its declaration in the code allows.
TypeOK ==
  /\ FacadeTypes /\ BackendTypes /\ MainTypes /\ GameModeTypes /\ ExportTypes
  /\ RequestTypes /\ HistoryTypes

-----------------------------------------------------------------------------
(* The node is constructed; nothing has asked for a backend yet.           *)

Nothing == [c \in Capabilities |-> NoVersion]

Init ==
  /\ backend = NoBackend
  /\ capabilities = [c \in Capabilities |-> FALSE]
  /\ interface_versions = Nothing
  /\ game_mode_pids = {}
  /\ connected = {}
  /\ shut = {}
  /\ versions = Nothing
  /\ main = Idle
  /\ unreleased = {}
  /\ swaps = 0
  /\ calls = 0
  /\ outbox = [b \in Backends |-> <<>>]
  /\ registered = [b \in Backends |-> {}]
  /\ exported \in SUBSET Capabilities
  /\ flips = 0
  /\ pending = [b \in Backends |-> {}]
  /\ deferred = <<>>
  /\ origin = [h \in Handles |-> NoBackend]
  /\ given = {}
  /\ heard = {}
  /\ missed = {}
  /\ closed = {}
  /\ abandoned = [b \in Backends |-> {}]

-----------------------------------------------------------------------------
(* Selecting, replacing and leaving a backend.                             *)

\* Mutant: the new backend is connected before the old one is disconnected.
InstallConnectsFirst(b) ==
  /\ connected' = (connected \cup {b}) \ {backend}
  /\ shut' = shut \cup ({backend} \cap Natives)
  /\ backend' = b
  /\ main' = [at |-> "discover"]

\* Mutant: the old backend is neither disconnected nor shut down.
InstallKeepsOld(b) ==
  /\ connected' = connected \cup {b}
  /\ UNCHANGED shut
  /\ backend' = b
  /\ main' = [at |-> "discover"]

\* Mutant: what there is to replace is not tested for null.
InstallUntested(b) ==
  /\ connected' = (connected \ {backend}) \cup {b}
  /\ shut' = shut \cup ({backend} \ Mocks)
  /\ backend' = b
  /\ main' = [at |-> "discover"]

\* set_backend() once nothing is held any more: disconnect and shut down the old
\* backend (a native one drops its XdgPortalNative), connect the new one, discover.
Install(b) ==
  /\ connected' = (connected \ {backend}) \cup {b}
  /\ shut' = shut \cup ({backend} \cap Natives)
  /\ backend' = b
  /\ main' = [at |-> "discover"]

\* The first call of anything selects the default backend.
EnsureBackend ==
  /\ main = Idle
  /\ backend = NoBackend
  /\ Install(Default)
  /\ UNCHANGED <<capabilities, interface_versions, game_mode_pids, versions, unreleased, swaps, calls,
                 gameModeVars, exportVars, requestVars, historyVars, abandoned>>

\* set_backend(), also with a backend that was used before.
SetBackend(b) ==
  /\ main = Idle
  /\ swaps < MaxSwaps
  /\ swaps' = swaps + 1
  /\ main' = [at |-> "releasing", next |-> b]
  /\ unreleased' = game_mode_pids
  /\ UNCHANGED <<facadeVars, backendVars, calls, gameModeVars, exportVars, requestVars, historyVars,
                 abandoned>>

\* _exit_tree(); the node keeps its backend.
ExitTree ==
  /\ main = Idle
  /\ backend # NoBackend
  /\ main' = [at |-> "releasing", next |-> NoBackend]
  /\ unreleased' = game_mode_pids
  /\ UNCHANGED <<facadeVars, backendVars, swaps, calls, gameModeVars, exportVars, requestVars,
                 historyVars, abandoned>>

\* XdgPortalNative's destructor drops what it still had to complete.
DropRequests == pending' = [b \in Backends |-> IF b \in shut' THEN {} ELSE pending[b]]

\* Nothing is left to release: go on with set_backend().
FinishSwap ==
  /\ main.at = "releasing"
  /\ unreleased = {}
  /\ main.next # NoBackend
  /\ game_mode_pids' = {}
  /\ Install(main.next)
  /\ DropRequests
  /\ UNCHANGED <<capabilities, interface_versions, versions, unreleased, swaps, calls, gameModeVars,
                 exportVars, deferred, historyVars, abandoned>>

\* ... or with _exit_tree(), which only shuts the backend down.
FinishExit ==
  /\ main.at = "releasing"
  /\ unreleased = {}
  /\ main.next = NoBackend
  /\ game_mode_pids' = {}
  /\ shut' = shut \cup ({backend} \cap Natives)
  /\ main' = Idle
  /\ DropRequests
  /\ UNCHANGED <<backend, capabilities, interface_versions, connected, versions, unreleased, swaps,
                 calls, gameModeVars, exportVars, deferred, historyVars, abandoned>>

-----------------------------------------------------------------------------
(* Capabilities.                                                           *)

\* Native: whether there is an XdgPortalNative; a mock says yes.
Available == backend # NoBackend /\ backend \notin shut
HasCapability(c) == Available /\ capabilities[c]

RefreshCapabilities ==
  /\ main = Idle
  /\ backend # NoBackend
  /\ main' = [at |-> "discover"]
  /\ UNCHANGED <<facadeVars, backendVars, unreleased, swaps, calls, gameModeVars, exportVars,
                 requestVars, historyVars, abandoned>>

\* The versions a native backend may get, one by one: those the portal exports now;
\* those its XdgPortalNative has cached, which may be another portal's once there was
\* one; none, if there is no answer in time; none at all without XdgPortalNative.
NativeVersions(b) ==
  {offer \in Offers : \A c \in Capabilities :
     offer[c] = Version => b \notin shut /\ (c \in exported \/ flips > 0)}

\* get_capabilities(): a native backend reads the versions and keeps them, and serves
\* what has one; a mock serves what it is scripted to serve, whatever versions it is
\* scripted to report.
GetCapabilities ==
  /\ main.at = "discover"
  /\ \/ /\ backend \in Natives
        /\ \E offer \in NativeVersions(backend) :
             /\ versions' = offer
             /\ capabilities' = [c \in Capabilities |-> offer[c] # NoVersion]
     \/ /\ backend \in Mocks
        /\ versions' \in Offers
        /\ capabilities' \in [Capabilities -> BOOLEAN]
  /\ main' = [at |-> "versions"]
  /\ UNCHANGED <<backend, interface_versions, game_mode_pids, connected, shut, unreleased, swaps, calls,
                 gameModeVars, exportVars, requestVars, historyVars, abandoned>>

\* Mutant: the version is read from the portal again.
InterfaceVersionNow(b) ==
  [c \in Capabilities |-> IF b \notin shut /\ c \in exported THEN Version ELSE NoVersion]

\* get_interface_version(): a native backend answers from the versions it kept; a mock
\* has none for what it does not serve, which is what it just said.
InterfaceVersion(b) ==
  IF b \in Mocks THEN [c \in Capabilities |-> IF capabilities[c] THEN versions[c] ELSE NoVersion]
  ELSE versions

\* The rest of refresh_capabilities().
ReadVersions ==
  /\ main.at = "versions"
  /\ interface_versions' = InterfaceVersion(backend)
  /\ main' = Idle
  /\ UNCHANGED <<backend, capabilities, game_mode_pids, backendVars, unreleased, swaps, calls,
                 gameModeVars, exportVars, requestVars, historyVars, abandoned>>

\* The portal is replaced by one that exports more, or less.
ExportsChange ==
  /\ flips < MaxFlips
  /\ flips' = flips + 1
  /\ exported' \in (SUBSET Capabilities) \ {exported}
  /\ UNCHANGED <<facadeVars, backendVars, mainVars, gameModeVars, requestVars, historyVars, abandoned>>

-----------------------------------------------------------------------------
(* GameMode.                                                               *)

\* game_mode_register() and game_mode_unregister() of the backend in use.  A mock
\* answers as scripted, a native backend without XdgPortalNative fails; otherwise
\* the call is sent and the main thread waits.
Calling(member, p, result, asked, next) ==
  [at |-> "calling", member |-> member, pid |-> p, result |-> result, asked |-> asked,
   next |-> next]
Call(member, p, asked, next) ==
  /\ calls' = calls + 1
  /\ \/ /\ backend \in Natives \ shut
        /\ main' = Calling(member, p, "none", asked, next)
        /\ outbox' = [outbox EXCEPT ![backend] =
                        Append(@, [member |-> member, pid |-> p, number |-> calls'])]
        /\ UNCHANGED registered
     \/ /\ backend \in Mocks
        /\ main' = Calling(member, p, "ok", asked, next)
        /\ registered' = [registered EXCEPT ![backend] =
                            IF member = "register" THEN @ \cup {p} ELSE @ \ {p}]
        /\ UNCHANGED outbox
     \/ /\ backend \in Mocks \cup shut
        /\ main' = Calling(member, p, "failed", asked, next)
        /\ UNCHANGED <<outbox, registered>>

RequestGameMode(p) ==
  /\ main = Idle
  /\ HasCapability("game_mode")
  /\ calls < MaxCalls
  /\ Call("register", p, TRUE, NoBackend)
  /\ UNCHANGED <<facadeVars, backendVars, unreleased, swaps, exportVars, requestVars, historyVars,
                 abandoned>>

ReleaseGameMode(p) ==
  /\ main = Idle
  /\ HasCapability("game_mode")
  /\ calls < MaxCalls
  /\ Call("unregister", p, TRUE, NoBackend)
  /\ UNCHANGED <<facadeVars, backendVars, unreleased, swaps, exportVars, requestVars, historyVars,
                 abandoned>>

\* _release_held_game_mode(), the next of the registrations that are held.
ReleaseHeld(p) ==
  /\ main.at = "releasing"
  /\ p \in unreleased
  /\ unreleased' = unreleased \ {p}
  /\ Call("unregister", p, FALSE, main.next)
  /\ UNCHANGED <<facadeVars, backendVars, swaps, exportVars, requestVars, historyVars, abandoned>>

Answered(member, asked) ==
  main.at = "calling" /\ main.member = member /\ main.asked = asked /\ main.result # "none"

\* Mutant: a registration is recorded when it is asked for, not when it succeeds.
Unrecorded(result) == game_mode_pids

\* The registrations that are held after request_game_mode() got this result.
Recorded(result) == IF result = "ok" THEN game_mode_pids \cup {main.pid} ELSE game_mode_pids

\* A call that succeeded leaves no doubt about its process.
Clears(result) ==
  abandoned' = [abandoned EXCEPT ![backend] = IF result = "ok" THEN @ \ {main.pid} ELSE @]

FinishRequestGameMode ==
  /\ Answered("register", TRUE)
  /\ game_mode_pids' = Recorded(main.result)
  /\ main' = Idle
  /\ Clears(main.result)
  /\ UNCHANGED <<backend, capabilities, interface_versions, backendVars, unreleased, swaps, calls,
                 gameModeVars, exportVars, requestVars, historyVars>>

\* Mutant: a release that failed is taken for one that succeeded.
ReleasedAnyway(result) == game_mode_pids \ {main.pid}

\* ... and after release_game_mode() got this one.
Released(result) == IF result = "ok" THEN game_mode_pids \ {main.pid} ELSE game_mode_pids

FinishReleaseGameMode ==
  /\ Answered("unregister", TRUE)
  /\ game_mode_pids' = Released(main.result)
  /\ main' = Idle
  /\ Clears(main.result)
  /\ UNCHANGED <<backend, capabilities, interface_versions, backendVars, unreleased, swaps, calls,
                 gameModeVars, exportVars, requestVars, historyVars>>

\* On the way out a failure is nobody's concern.
FinishReleaseHeld ==
  /\ Answered("unregister", FALSE)
  /\ main' = [at |-> "releasing", next |-> main.next]
  /\ abandoned' = [abandoned EXCEPT ![backend] =
                     IF main.result = "ok" THEN @ \ {main.pid} ELSE @ \cup {main.pid}]
  /\ UNCHANGED <<facadeVars, backendVars, unreleased, swaps, calls, gameModeVars, exportVars,
                 requestVars, historyVars>>

Waiting == main.at = "calling" /\ main.result = "none"
Outcome(result) == Calling(main.member, main.pid, result, main.asked, main.next)

\* SYNC_CALL_TIMEOUT_MS is over; the call is still on its way.
CallTimesOut ==
  /\ Waiting
  /\ main.member \in TimeOuts
  /\ main' = Outcome("failed")
  /\ abandoned' = [abandoned EXCEPT ![backend] =
                     IF main.member = "register" THEN @ \cup {main.pid} ELSE @]
  /\ UNCHANGED <<facadeVars, backendVars, unreleased, swaps, calls, gameModeVars, exportVars,
                 requestVars, historyVars>>

\* The portal passes a call on to GameMode, which refuses to register what is
\* registered and to release what is not.  Nobody may be waiting any more.
Execute(b) ==
  LET m == Head(outbox[b])
      Accepted == /\ "game_mode" \in exported
                  /\ (m.member = "register") = (m.pid \notin registered[b])
  IN
  /\ outbox[b] # <<>>
  /\ outbox' = [outbox EXCEPT ![b] = Tail(@)]
  /\ \/ ~Accepted /\ UNCHANGED registered
     \/ Accepted /\ registered' = [registered EXCEPT ![b] =
                                     IF m.member = "register" THEN @ \cup {m.pid} ELSE @ \ {m.pid}]
  /\ main' = IF Waiting /\ m.number = calls
               THEN Outcome(IF Accepted THEN "ok" ELSE "failed")
               ELSE main
  /\ UNCHANGED <<facadeVars, backendVars, unreleased, swaps, calls, exportVars, requestVars,
                 historyVars, abandoned>>

-----------------------------------------------------------------------------
(* Requests and their signals.                                             *)

\* inhibit() or open_uri(): the native backend registers the request, hands the
\* call to its worker and waits a moment for that; a mock is done at once.
BeginRequest(h) ==
  /\ main = Idle
  /\ HasCapability("requests")
  /\ origin[h] = NoBackend
  /\ origin' = [origin EXCEPT ![h] = backend]
  /\ pending' = [pending EXCEPT ![backend] = @ \cup {h}]
  /\ \/ backend \in Natives /\ main' = [at |-> "begin", handle |-> h] /\ UNCHANGED given
     \/ backend \in Mocks /\ given' = given \cup {h} /\ UNCHANGED main
  /\ UNCHANGED <<facadeVars, backendVars, unreleased, swaps, calls, gameModeVars, exportVars, deferred,
                 heard, missed, closed, abandoned>>

\* The game has its handle.
HandleReturned ==
  /\ main.at = "begin"
  /\ given' = given \cup {main.handle}
  /\ main' = Idle
  /\ UNCHANGED <<facadeVars, backendVars, unreleased, swaps, calls, gameModeVars, exportVars,
                 requestVars, origin, heard, missed, closed, abandoned>>

\* close_request() that returns TRUE.  (When it returns FALSE nothing changed.)  A
\* mock goes on as scripted.
CloseRequest(h) ==
  /\ main = Idle
  /\ Available
  /\ h \in given \ closed
  /\ origin[h] = backend
  /\ closed' = closed \cup {h}
  /\ pending' = [pending EXCEPT ![backend] = IF backend \in Mocks THEN @ ELSE @ \ {h}]
  /\ UNCHANGED <<facadeVars, backendVars, mainVars, gameModeVars, exportVars, deferred, origin, given,
                 heard, missed, abandoned>>

\* What the game hears of a completion that backend b emits: nothing, unless the
\* facade's forwarder is connected to it.
Forward(b, h) ==
  \/ b \in connected /\ heard' = heard \cup {h} /\ UNCHANGED missed
  \/ b \notin connected /\ missed' = missed \cup {h} /\ UNCHANGED heard

\* Mutant: a completion is emitted by the worker, at once.
EmitAtOnce(b, h) == Forward(b, h) /\ UNCHANGED deferred

\* emit_request_completed(): the worker leaves the emission to Godot's main loop.
EmitRequestCompleted(b, h) ==
  /\ deferred' = Append(deferred, [from |-> b, handle |-> h])
  /\ UNCHANGED <<heard, missed>>

\* A native backend's worker completes a request, at any moment.
Complete(b, h) ==
  /\ b \in Natives \ shut
  /\ h \in pending[b]
  /\ pending' = [pending EXCEPT ![b] = @ \ {h}]
  /\ EmitRequestCompleted(b, h)
  /\ UNCHANGED <<facadeVars, backendVars, mainVars, gameModeVars, exportVars, origin, given, closed,
                 abandoned>>

\* Godot flushes its message queue between frames; what was meant for an object
\* that is gone is dropped.
Flush ==
  /\ main = Idle
  /\ deferred # <<>>
  /\ deferred' = Tail(deferred)
  /\ LET m == Head(deferred) IN
       IF m.from \in shut THEN UNCHANGED <<heard, missed>> ELSE Forward(m.from, m.handle)
  /\ UNCHANGED <<facadeVars, backendVars, mainVars, gameModeVars, exportVars, pending, origin, given,
                 closed, abandoned>>

\* complete_request() of a mock, in use or not.
MockCompletes(b, h) ==
  /\ main = Idle
  /\ b \in Mocks
  /\ h \in pending[b]
  /\ pending' = [pending EXCEPT ![b] = @ \ {h}]
  /\ Forward(b, h)
  /\ UNCHANGED <<facadeVars, backendVars, mainVars, gameModeVars, exportVars, deferred, origin, given,
                 closed, abandoned>>

-----------------------------------------------------------------------------
MainThread ==
  \/ EnsureBackend \/ ExitTree \/ FinishSwap \/ FinishExit
  \/ \E b \in Backends : SetBackend(b)
  \/ RefreshCapabilities \/ GetCapabilities \/ ReadVersions
  \/ \E p \in Pids : RequestGameMode(p) \/ ReleaseGameMode(p) \/ ReleaseHeld(p)
  \/ FinishRequestGameMode \/ FinishReleaseGameMode \/ FinishReleaseHeld \/ CallTimesOut
  \/ \E h \in Handles : BeginRequest(h) \/ CloseRequest(h)
  \/ HandleReturned \/ Flush
  \/ \E b \in Mocks, h \in Handles : MockCompletes(b, h)

Desktop ==
  \/ ExportsChange
  \/ \E b \in Natives : Execute(b)
  \/ \E b \in Natives, h \in Handles : Complete(b, h)

Next == MainThread \/ Desktop

Spec == Init /\ [][Next]_vars

-----------------------------------------------------------------------------
(* Properties.                                                             *)

Discovering == main.at \in {"discover", "versions"}

\* "An unavailable capability has no interface to version" (mock_backend.gd:90), and a
\* native backend "reports a capability as available where its interface has one"
\* (native_backend.gd:69): the facade never has the version of something that it says
\* is unavailable, and, with a native backend, never says that something is available
\* without its version, whatever the portal exports between the reads of
\* refresh_capabilities() and whatever backends were in use before.  Other backends
\* serve what has no version.
CapabilitiesMatchVersions ==
  ~Discovering => \A c \in Capabilities :
    /\ interface_versions[c] # NoVersion => capabilities[c]
    /\ backend \in Natives /\ capabilities[c] => interface_versions[c] # NoVersion

\* Whoever is registered with GameMode through the backend in use is recorded, so
\* that it can be released on the way out, however often calls failed: all but those
\* whose register call was not waited for, until a later call about them succeeds.
RegistrationsAreRecorded ==
  main = Idle /\ backend # NoBackend
    => registered[backend] \subseteq game_mode_pids \cup abandoned[backend]

\* A backend that was replaced or shut down leaves no registration behind, except one
\* it tried to release in vain or never heard of in time: no other backend could
\* release it.
NothingLeftBehind ==
  \A b \in Backends : b # backend \/ b \in shut => registered[b] \subseteq abandoned[b]

\* Only the backend in use is heard: no signal that a replaced one queued or emits.
OnlyCurrentIsHeard == [][\A h \in heard' \ heard : origin[h] = backend]_vars

\* request_completed never comes before the call that returns its handle returned.
HandleBeforeCompletion == heard \subseteq given

\* A handle of the backend in use was heard of, was closed, or will yet be, unless it
\* completed where nobody listens, which only a mock's can while another backend is
\* in use; and that backend is connected.
InSight(h) ==
  \/ h \in heard \cup closed
  \/ h \in pending[origin[h]]
  \/ \E i \in DOMAIN deferred : deferred[i].handle = h
CurrentHandlesInSight ==
  /\ \A h \in given \ missed : origin[h] = backend /\ Available => InSight(h) /\ backend \in connected
  /\ \A h \in missed : origin[h] \in Mocks

=============================================================================
