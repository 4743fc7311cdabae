----------------------------- MODULE PortalCalls -----------------------------
(***************************************************************************)
(* The calls that a game gets an answer from at once, through the facade,  *)
(* the native backend and XdgPortalNative, with the checks each layer      *)
(* makes; the portal_error signals that go with them; and the actions a    *)
(* user activates on notifications.  The portal may be replaced by one of  *)
(* another version between any two steps, and need not answer.             *)
(*                                                                         *)
(* What a call has to do with a GameMode registration is in                *)
(* DesktopServices, what becomes of a URI once its request has begun in    *)
(* PortalRequests.  How values are converted is a parameter here, and the  *)
(* subject of GVariantConv.                                                *)
(***************************************************************************)
EXTENDS UriSchemes

CONSTANTS
  Versions,      \* versions of org.freedesktop.portal.OpenURI that portals have
  Calls,         \* calls of the facade: [member, arg]
  Payloads,      \* parameters of ActionInvoked: [typed, value], typed if it is (ssav)
  Converted(_),  \* gvariant_to_variant() of a value
  Means(_, _),   \* whether a game that has the second hears what the first says
  MaxCalls,      \* bound: calls
  MaxRestarts,   \* bound: portals that come or go
  MaxActions,    \* bound: actions the user activates
  MaxLength      \* bound: length of the URIs that are looked at

NoVersion == -1    \* no portal, or no answer from it
Unread == -2

Members == {"AddNotification", "RemoveNotification", "QueryStatus", "SchemeSupported", "OpenURI"}
CallTypes == [member : Members, arg : Seq(Token)]

ASSUME VersionsAssumption == Versions \subseteq Nat
ASSUME CallsAssumption == Calls \subseteq CallTypes
ASSUME BoundsAssumption == {MaxCalls, MaxRestarts, MaxActions, MaxLength} \subseteq Nat

VARIABLES
  \* the running portal's version, and is there an owner change the worker has not handled
  version, owner_changed, restarts,
  \* cached_versions and shutting_down of the extension, the facade's _interface_versions
  cached, shutting_down, discovered,
  \* who plays, and has asked GameMode to apply itself
  players,
  \* the main thread in a call, what the last one returned, what the portal made of it
  main, calls, outcome,
  \* ActionInvoked on its way to the worker, Godot's message queue
  inbox, deferred,
  \* history: calls that failed and URIs that had to be refused, and what a game was
  \* told of them; actions sent and heard of, which carry their number in "sent"
  failures, reported, sent, heard

portalVars == <<version, owner_changed, restarts, players>>
nativeVars == <<cached, shutting_down, discovered>>
callVars == <<main, calls, outcome>>
actionVars == <<inbox, sent, heard>>
errorVars == <<failures, reported>>
vars == <<portalVars, nativeVars, callVars, actionVars, errorVars, deferred>>

-----------------------------------------------------------------------------
Idle == [at |-> "idle"]
NoOutcome == [member |-> "none"]

\* GameModeStatus
UNKNOWN == -1
NOT_REGISTERED == 0
REGISTERED == 1
ACTIVE_FOR_OTHERS == 3

\* What the portal said, as a fact about the desktop: "nothing" if it said nothing, and
\* "unheard of" if it answered a status with a code that is none of the documented ones.
Facts == {"nothing", "done", "nobody", "game", "others", "unheard of", "supported", "unsupported"}

\* The codes of QueryStatus are 0, 1 and 2; these stand for any other, one of them
\* for what the addon itself calls unknown and one for another of its own.
OtherCodes == {-1, 3}
PortalCodes == 0..2 \cup OtherCodes

\* The parameters are an Array, whatever they convert to.
Parameters(g) ==
  IF Converted(g).type = "ARRAY" THEN Converted(g) ELSE [type |-> "ARRAY", number |-> 0, items |-> <<>>]

MainStates ==
  {Idle}
    \cup [at : {"version", "asked", "failed"}, call : CallTypes]
    \cup [at : {"answered"}, call : CallTypes, value : PortalCodes, fact : Facts]
Outcomes == {NoOutcome} \cup [member : Members, arg : Seq(Token), result : -1..3, fact : Facts]
Actions == [number : Nat, value : {Parameters(payload.value) : payload \in Payloads}]
Signals == [signal : {"portal_error"}] \cup [signal : {"action"}, action : Actions]

\* Every variable holds a value of the kind its declaration in the code allows.
TypeOK ==
  /\ version \in Versions \cup {NoVersion} /\ discovered \in Versions \cup {NoVersion}
  /\ cached \in Versions \cup {Unread}
  /\ owner_changed \in BOOLEAN /\ shutting_down \in BOOLEAN
  /\ players \in SUBSET {"game", "other"}
  /\ main \in MainStates /\ outcome \in Outcomes
  /\ calls \in 0..MaxCalls /\ restarts \in 0..MaxRestarts
  /\ failures \in Nat /\ reported \in Nat
  /\ sent \in Seq(Payloads) /\ Len(sent) <= MaxActions
  /\ inbox \in Seq([number : Nat, payload : Payloads])
  /\ deferred \in Seq(Signals)
  /\ heard \in Seq(Actions)

Init ==
  /\ version \in Versions \cup {NoVersion}
  /\ owner_changed = FALSE /\ restarts = 0
  /\ cached = IF version = NoVersion THEN Unread ELSE version    \* the constructor's read
  /\ discovered = version
  /\ shutting_down = FALSE
  /\ players \in SUBSET {"game", "other"}
  /\ main = Idle /\ calls = 0 /\ outcome = NoOutcome
  /\ inbox = <<>> /\ sent = <<>> /\ heard = <<>>
  /\ deferred = <<>>
  /\ failures = 0 /\ reported = 0

-----------------------------------------------------------------------------
(* What calls return.                                                      *)

\* Mutant: the portal's code is taken for the addon's.
PassCodeThrough(code) == code

\* game_mode_status_from_portal()
StatusFromPortal(code) ==
  CASE code = 0 -> NOT_REGISTERED
    [] code = 1 -> ACTIVE_FOR_OTHERS
    [] code = 2 -> REGISTERED
    [] OTHER -> UNKNOWN

\* query_game_mode()'s match
KnownStatus(status) ==
  IF status \in {NOT_REGISTERED, REGISTERED, ACTIVE_FOR_OTHERS} THEN status ELSE UNKNOWN

\* The extension's results and the facade's, for no answer (-1 is null) and for one.
Failed(member) == IF member \in {"QueryStatus", "SchemeSupported"} THEN -1 ELSE 0
Answered(member, value) ==
  CASE member = "QueryStatus" -> KnownStatus(StatusFromPortal(value))
    [] member = "SchemeSupported" -> value
    [] OTHER -> 1

Return(call, result, fact) ==
  /\ main' = Idle
  /\ outcome' = [member |-> call.member, arg |-> call.arg, result |-> result, fact |-> fact]

\* Mutant: a layer says nothing of what failed.
EmitNothing == UNCHANGED <<reported, deferred>>

\* emit_error(): the game hears of it when Godot's message queue is flushed.
EmitError ==
  /\ deferred' = Append(deferred, [signal |-> "portal_error"])
  /\ UNCHANGED reported

\* The facade's own portal_error is emitted at once.
EmitNow ==
  /\ reported' = reported + 1
  /\ UNCHANGED deferred

NoError == UNCHANGED <<reported, deferred>>

-----------------------------------------------------------------------------
(* The main thread: from the facade's checks to the bus and back.          *)

\* has_capability(), by the versions of the last discovery.
HasCapability == ~shutting_down /\ discovered # NoVersion

Begin(call) == main = Idle /\ calls < MaxCalls /\ calls' = calls + 1

\* Checks that fail without a signal: no capability, an empty id, a malformed
\* scheme, a portal too old by the facade's or the extension's reading.
ReturnUnasked(call) ==
  /\ Begin(call)
  /\ \/ ~HasCapability
     \/ call.member \in {"AddNotification", "RemoveNotification"} /\ call.arg = <<>>
     \/ call.member = "SchemeSupported" /\ Lower(call.arg) # <<"file">>
          /\ (~IsValidScheme(call.arg) \/ discovered < 5)
  /\ Return(call, Failed(call.member), "nothing")
  /\ NoError

\* Is file: supported?  No, whatever the portal says.
RefuseFile(call) ==
  /\ Begin(call)
  /\ HasCapability
  /\ call.member = "SchemeSupported" /\ Lower(call.arg) = <<"file">>
  /\ Return(call, 0, "nothing")
  /\ NoError

RefuseUri(call) ==
  /\ Begin(call)
  /\ HasCapability
  /\ call.member = "OpenURI" /\ ~FacadePasses(call.arg)
  /\ Return(call, 0, "nothing")
  /\ EmitNow

\* The extension's own checks follow; a call it makes is a request.
OpenUri(call) ==
  /\ Begin(call)
  /\ HasCapability
  /\ call.member = "OpenURI" /\ FacadePasses(call.arg)
  /\ IF NativePasses(call.arg)
       THEN Return(call, 1, "nothing") /\ NoError
       ELSE Return(call, 0, "nothing") /\ EmitError

\* call_portal_sync()
Ask(call) == main' = [at |-> "asked", call |-> call] /\ UNCHANGED outcome

AskAtOnce(call) ==
  /\ Begin(call)
  /\ HasCapability
  /\ \/ call.member = "QueryStatus"
     \/ call.member \in {"AddNotification", "RemoveNotification"} /\ call.arg # <<>>
  /\ Ask(call)
  /\ NoError

\* scheme_supported() reads the version first.
BeginSchemeSupported(call) ==
  /\ Begin(call)
  /\ HasCapability
  /\ call.member = "SchemeSupported" /\ IsValidScheme(call.arg)
  /\ Lower(call.arg) # <<"file">>
  /\ discovered >= 5
  /\ main' = [at |-> "version", call |-> [call EXCEPT !.arg = Lower(@)]]
  /\ UNCHANGED outcome
  /\ NoError

\* Mutant: that there was no answer is cached, too.
CacheNoAnswer(known) ==
  /\ known \in IF cached # Unread THEN {cached} ELSE {version, NoVersion}
  /\ cached' = known

\* read_interface_version(): cached, or read from the portal, which need not answer.
ReadInterfaceVersion(known) ==
  /\ known \in IF cached # Unread THEN {cached} ELSE {version, NoVersion}
  /\ cached' = IF known # NoVersion THEN known ELSE cached

CheckVersion ==
  /\ main.at = "version"
  /\ \E known \in Versions \cup {NoVersion} :
       /\ ReadInterfaceVersion(known)
       /\ IF known < 5 THEN Return(main.call, -1, "nothing") ELSE Ask(main.call)
  /\ NoError
  /\ UNCHANGED <<calls, shutting_down, discovered, portalVars, actionVars, failures>>

\* The call returns with a reply, or with an error that is emitted.
FinishCall ==
  /\ \/ /\ main.at = "answered"
        /\ Return(main.call, Answered(main.call.member, main.value), main.fact)
        /\ NoError
     \/ /\ main.at = "failed"
        /\ Return(main.call, Failed(main.call.member), "nothing")
        /\ EmitError
  /\ UNCHANGED <<calls, nativeVars, portalVars, actionVars, failures>>

\* get_capabilities() and get_interface_version() again.
RefreshCapabilities ==
  /\ main = Idle
  /\ ~shutting_down
  /\ \E known \in Versions \cup {NoVersion} : ReadInterfaceVersion(known) /\ discovered' = known
  /\ NoError
  /\ UNCHANGED <<callVars, shutting_down, portalVars, actionVars, failures>>

\* Between calls Godot flushes its message queue, which skips freed objects.
Flush ==
  /\ main = Idle
  /\ deferred # <<>>
  /\ deferred' = Tail(deferred)
  /\ LET told == Head(deferred) IN
     /\ reported' = IF told.signal = "portal_error" /\ ~shutting_down THEN reported + 1 ELSE reported
     /\ heard' = IF told.signal = "action" /\ ~shutting_down THEN Append(heard, told.action) ELSE heard
  /\ UNCHANGED <<callVars, nativeVars, portalVars, inbox, sent, failures>>

\* The backend is shut down: teardown().
Shutdown ==
  /\ main = Idle
  /\ ~shutting_down
  /\ shutting_down' = TRUE
  /\ UNCHANGED <<callVars, cached, discovered, portalVars, actionVars, errorVars, deferred>>

\* History: whatever the checks of the layers find, a URI without a proper scheme has
\* to be refused, and that is a failure.
CountRefusal(call) ==
  failures' = IF HasCapability /\ call.member = "OpenURI" /\ ~Proper(call.arg)
                THEN failures + 1 ELSE failures

CallBegins(call) ==
  /\ \/ ReturnUnasked(call) \/ RefuseFile(call) \/ RefuseUri(call) \/ OpenUri(call)
     \/ AskAtOnce(call) \/ BeginSchemeSupported(call)
  /\ CountRefusal(call)
  /\ UNCHANGED <<nativeVars, portalVars, actionVars>>

-----------------------------------------------------------------------------
(* The worker.                                                             *)

\* The name-owner callbacks drop what was cached of another instance.
OnOwnerChanged ==
  /\ owner_changed
  /\ owner_changed' = FALSE
  /\ cached' = Unread
  /\ UNCHANGED <<version, restarts, players, shutting_down, discovered, callVars, actionVars,
                 errorVars, deferred>>

\* notification_action_invoked is emitted from Godot's message queue.
EmitAction(number, payload) ==
  deferred' = Append(deferred, [signal |-> "action",
                                action |-> [number |-> number, value |-> Parameters(payload.value)]])

\* Mutant: the signal stays where it was.
HandleAgain ==
  /\ inbox # <<>>
  /\ IF ~shutting_down /\ Head(inbox).payload.typed
       THEN EmitAction(Head(inbox).number, Head(inbox).payload) ELSE UNCHANGED deferred
  /\ UNCHANGED <<portalVars, nativeVars, callVars, actionVars, errorVars>>

\* Mutant: whatever comes is taken for an (ssav).
HandleUntyped ==
  /\ inbox # <<>>
  /\ inbox' = Tail(inbox)
  /\ EmitAction(Head(inbox).number, Head(inbox).payload)
  /\ UNCHANGED <<portalVars, nativeVars, callVars, sent, heard, errorVars>>

OnActionInvoked ==
  /\ inbox # <<>>
  /\ inbox' = Tail(inbox)
  /\ IF ~shutting_down /\ Head(inbox).payload.typed
       THEN EmitAction(Head(inbox).number, Head(inbox).payload) ELSE UNCHANGED deferred
  /\ UNCHANGED <<portalVars, nativeVars, callVars, sent, heard, errorVars>>

-----------------------------------------------------------------------------
(* The desktop.                                                            *)

\* QueryStatus: 0 inactive, 1 active, 2 active and this process is registered, or a
\* code that the interface does not document.
QueryStatus == IF players = {} THEN 0 ELSE IF "game" \in players THEN 2 ELSE 1
QueryFact ==
  IF players = {} THEN "nobody" ELSE IF "game" \in players THEN "game" ELSE "others"

Reply(value, fact) ==
  main' = [at |-> "answered", call |-> main.call, value |-> value, fact |-> fact]

\* The portal replies; a SchemeSupported it is too old for is an error.
PortalReplies ==
  /\ main.at = "asked"
  /\ version # NoVersion
  /\ CASE main.call.member = "QueryStatus" ->
            Reply(QueryStatus, QueryFact) \/ \E code \in OtherCodes : Reply(code, "unheard of")
       [] main.call.member = "SchemeSupported" ->
            version >= 5 /\ (Reply(1, "supported") \/ Reply(0, "unsupported"))
       [] OTHER -> Reply(1, "done")
  /\ UNCHANGED <<calls, outcome, nativeVars, portalVars, actionVars, errorVars, deferred>>

\* GDBus reports an error, or the time-out, after which the call may yet be carried out.
CallFails ==
  /\ main.at = "asked"
  /\ main' = [at |-> "failed", call |-> main.call]
  /\ failures' = failures + 1
  /\ UNCHANGED <<calls, outcome, nativeVars, portalVars, actionVars, reported, deferred>>

PortalReplaced ==
  /\ restarts < MaxRestarts
  /\ restarts' = restarts + 1
  /\ version' \in (Versions \cup {NoVersion}) \ {version}
  /\ owner_changed' = TRUE
  /\ UNCHANGED <<players, nativeVars, callVars, actionVars, errorVars, deferred>>

PlayersChange ==
  /\ players' \in (SUBSET {"game", "other"}) \ {players}
  /\ UNCHANGED <<version, owner_changed, restarts, nativeVars, callVars, actionVars, errorVars,
                 deferred>>

UserActs(payload) ==
  /\ Len(sent) < MaxActions
  /\ version # NoVersion
  /\ sent' = Append(sent, payload)
  /\ inbox' = Append(inbox, [number |-> Len(sent'), payload |-> payload])
  /\ UNCHANGED <<heard, portalVars, nativeVars, callVars, errorVars, deferred>>

-----------------------------------------------------------------------------
MainThread ==
  \/ \E call \in Calls : CallBegins(call)
  \/ CheckVersion \/ FinishCall \/ RefreshCapabilities \/ Flush \/ Shutdown
Worker == OnOwnerChanged \/ OnActionInvoked
Desktop ==
  \/ PortalReplies \/ CallFails \/ PortalReplaced \/ PlayersChange
  \/ \E payload \in Payloads : UserActs(payload)

Next == MainThread \/ Worker \/ Desktop

Spec == Init /\ [][Next]_vars

-----------------------------------------------------------------------------
(* Properties.                                                             *)

\* "No call ever reports success for something that did not happen"
\* (desktop_services.gd:18), and none reports as unknown what the portal did say:
\* through both layers and their two numberings, what a call returns is what the
\* portal made of it, and a code that neither layer knows becomes no status they do.
AnswersAreThePortals ==
  /\ outcome.member \in {"AddNotification", "RemoveNotification"} =>
       (outcome.result = 1 <=> outcome.fact = "done")
  /\ outcome.member = "QueryStatus" =>
       /\ outcome.result = REGISTERED <=> outcome.fact = "game"
       /\ outcome.result = ACTIVE_FOR_OTHERS <=> outcome.fact = "others"
       /\ outcome.result = NOT_REGISTERED <=> outcome.fact = "nobody"
       /\ outcome.result = UNKNOWN <=> outcome.fact \in {"nothing", "unheard of"}
  /\ outcome.member = "SchemeSupported" =>
       /\ outcome.result = 1 <=> outcome.fact = "supported"
       /\ outcome.fact = "unsupported" => outcome.result = 0
       /\ outcome.result = 0 => outcome.fact = "unsupported" \/ Lower(outcome.arg) = <<"file">>

\* "Emitted when a portal call fails" (desktop_services.gd:44): a game hears portal_error
\* once for every call that the bus reports as failed and every URI that RFC 3986 or
\* its scheme rules out, from one of the two layers and not from both, and never
\* without such a failure.  Once all is flushed, it has heard of each.
FailuresAreReported ==
  /\ reported <= failures
  /\ main = Idle /\ deferred = <<>> /\ ~shutting_down => reported = failures

\* A game hears of the actions that users activated in their order, none twice, with
\* parameters that mean what the portal sent; and in the end of all of them.
ActionsArrive ==
  /\ \A i, j \in DOMAIN heard : i < j => heard[i].number < heard[j].number
  /\ \A i \in DOMAIN heard :
       /\ heard[i].number \in DOMAIN sent
       /\ sent[heard[i].number].typed
       /\ Means(sent[heard[i].number].value, heard[i].value)
  /\ inbox = <<>> /\ deferred = <<>> /\ ~shutting_down =>
       \A n \in DOMAIN sent : sent[n].typed => \E i \in DOMAIN heard : heard[i].number = n

\* What is about no state is evaluated in one: the first in which there is neither a
\* portal nor anybody who plays.
Evaluated == calls = 0 /\ restarts = 0 /\ version = NoVersion /\ players = {} /\ ~shutting_down

Uris == UNION {[1..k -> Token] : k \in 0..MaxLength}

\* Both layers open exactly the URIs that begin with an RFC 3986 scheme other than
\* file in any case: neither lets through what the other refuses.
SchemesFollowRFC ==
  Evaluated => \A uri \in Uris :
                 (FacadePasses(uri) <=> Proper(uri)) /\ (NativePasses(uri) <=> Proper(uri))

=============================================================================
