--------------------------- MODULE PortalRequests ---------------------------
(***************************************************************************)
(* The interactive requests (Inhibit, OpenURI) of XdgPortalNative: how a   *)
(* request is begun on Godot's main thread, issued and answered on the     *)
(* worker thread, failed when the portal goes away, and closed by the      *)
(* caller, against a session bus and a portal that may crash, restart, be  *)
(* activated by a call, answer late or answer on another object path.      *)
(*                                                                         *)
(* A lock section of state_mutex is one action, so everything the code     *)
(* does between two lock sections can be interleaved.  A completion is     *)
(* decided in a lock section and emitted after it, by a step of its own.   *)
(* Not modelled here: portal_error (emitted beside each local completion), *)
(* the argument checks that reject a call before begin_request(), and      *)
(* teardown.                                                               *)
(***************************************************************************)
EXTENDS Integers, Sequences, FiniteSets

CONSTANTS
  Inhibits,        \* handles of Inhibit requests
  OpenURIs,        \* handles of OpenURI requests
  AltPaths,        \* object paths a portal may answer with instead of the handle
  ForeignPath,     \* the path of another client's request
  None,            \* no handle
  Answers,         \* the response codes the portal's user may cause
  MaxUnclaimed,    \* MAX_UNCLAIMED_RESPONSES
  MaxInstances,    \* bound: portal processes in one behaviour
  MaxCloses,       \* bound: calls of close_request()
  MaxForeign,      \* bound: Responses meant for other clients
  EarlyResponses,  \* may the portal send a Response before its call's reply?
  TimeOuts         \* which of the bounded calls, "call" and "close", may time out

Handles == Inhibits \cup OpenURIs
Paths == Handles \cup AltPaths \cup {ForeignPath}

Success == 0
Other == 2          \* RESPONSE_OTHER
Codes == 0..2
NoOwner == 0
NoAnswer == -1

ASSUME HandlesAssumption ==
  /\ Inhibits \cap OpenURIs = {}
  /\ IsFiniteSet(Handles)
  /\ None \notin Handles
ASSUME PathsAssumption ==
  /\ Handles \cap AltPaths = {}
  /\ ForeignPath \notin Handles \cup AltPaths
ASSUME BoundsAssumption ==
  /\ Answers \subseteq Codes
  /\ MaxUnclaimed \in Nat \ {0}
  /\ {MaxInstances, MaxCloses, MaxForeign} \subseteq Nat
  /\ EarlyResponses \in BOOLEAN
  /\ TimeOuts \subseteq {"call", "close"}

VARIABLES
  \* XdgPortalNative, under state_mutex
  requests, request_paths, unclaimed_responses, calls_in_flight,
  portal_owner, portal_owner_seen,
  \* what is left of the handler the worker runs, and of close_request()
  worker, closing, closes,
  \* GDBus and the bus: each call's progress, client to portal, portal to worker
  call, outbox, inbox,
  \* the portal: who owns the name, processes and foreign Responses so far; of each
  \* Request object: its stage, its path, was the call replied to, how answered
  owner, instances, foreign, stage, home, replied, answer,
  \* history: what lock sections decided to report for each handle, and the
  \* handles closed with TRUE
  completions, closed,
  \* the worker: the handles whose completion is decided and not emitted yet
  emitting

requestVars == <<requests, request_paths>>
flightVars == <<unclaimed_responses, calls_in_flight>>
ownerVars == <<portal_owner, portal_owner_seen>>
clientVars == <<requestVars, flightVars, ownerVars>>
closeVars == <<closing, closes>>
busVars == <<call, outbox, inbox>>
nameVars == <<owner, instances, foreign>>
objectVars == <<stage, home, replied, answer>>
portalVars == <<nameVars, objectVars>>
historyVars == <<completions, closed, emitting>>
vars == <<clientVars, worker, closeVars, call, outbox, inbox, portalVars, historyVars>>

-----------------------------------------------------------------------------
(* Types.                                                                  *)

Statuses == {"absent", "pending", "answered"}
Stages == {"none", "open", "held", "answered", "closed", "gone"}
Causes == {"portal", "call", "vanished", "replaced"}

Responses == [path : Paths, code : Codes]
Completions == [by : Causes, code : Codes]
Absent(h) == [status |-> "absent", path |-> h]

InboxMessages ==
  [type : {"started"}, handle : Handles, path : Paths]
    \cup [type : {"failed"}, handle : Handles]
    \cup [type : {"response"}, path : Paths, code : Codes]
    \cup [type : {"appeared"}, owner : Nat \ {NoOwner}]
    \cup [type : {"vanished"}]
OutboxMessages ==
  [type : {"call"}, handle : Handles]
    \cup [type : {"close"}, path : Paths, attempt : Nat]
WorkerStates ==
  [step : {"idle"}]
    \cup [step : {"fail"}, by : Causes]
    \cup [step : {"deliver", "hold"}, path : Paths, code : Codes]

Closings == [stage : {"resolved", "sent", "ok", "rejected"}, handle : Handles, path : Paths]
CallStates == {"idle", "queued", "sent", "settled", "done"}

Idle == [step |-> "idle"]
NotClosing == [stage |-> "idle", handle |-> None, path |-> None]
ClosingNow(state) == [stage |-> state, handle |-> closing.handle, path |-> closing.path]

RequestTypes ==
  /\ requests \in [Handles -> [status : Statuses, path : Paths]]
  /\ request_paths \in [Paths -> Handles \cup {None}]
FlightTypes == unclaimed_responses \in Seq(Responses) /\ calls_in_flight \in Nat
OwnerTypes == portal_owner \in Nat /\ portal_owner_seen \in BOOLEAN
CloseTypes == closing \in {NotClosing} \cup Closings /\ closes \in Nat
BusTypes ==
  /\ call \in [Handles -> CallStates]
  /\ outbox \in Seq(OutboxMessages)
  /\ inbox \in Seq(InboxMessages)
NameTypes == owner \in Nat /\ instances \in Nat /\ foreign \in Nat
ObjectTypes ==
  /\ stage \in [Handles -> Stages]
  /\ home \in [Handles -> Paths]
  /\ replied \in [Handles -> BOOLEAN]
  /\ answer \in [Handles -> Codes \cup {NoAnswer}]
HistoryTypes == completions \in [Handles -> Seq(Completions)] /\ closed \in SUBSET Handles
EmittingTypes == emitting \in SUBSET Handles

\* Every variable holds a value of the kind its declaration in the code allows;
\* calls_in_flight never goes below zero.
TypeOK ==
  /\ RequestTypes /\ FlightTypes /\ OwnerTypes
  /\ worker \in WorkerStates
  /\ CloseTypes /\ BusTypes /\ NameTypes /\ ObjectTypes /\ HistoryTypes
  /\ EmittingTypes

-----------------------------------------------------------------------------
(* The worker has subscribed and asked who owns the portal's name; the     *)
(* answer to that question is the first message it will dispatch.          *)

Init ==
  /\ requests = [h \in Handles |-> Absent(h)]
  /\ request_paths = [p \in Paths |-> None]
  /\ unclaimed_responses = <<>>
  /\ calls_in_flight = 0
  /\ portal_owner = NoOwner
  /\ portal_owner_seen = FALSE
  /\ worker = Idle
  /\ closing = NotClosing
  /\ closes = 0
  /\ call = [h \in Handles |-> "idle"]
  /\ outbox = <<>>
  /\ \/ owner = 1 /\ inbox = <<[type |-> "appeared", owner |-> 1]>>
     \/ owner = NoOwner /\ inbox = <<[type |-> "vanished"]>>
  /\ instances = owner
  /\ stage = [h \in Handles |-> "none"]
  /\ home = [h \in Handles |-> h]
  /\ replied = [h \in Handles |-> FALSE]
  /\ answer = [h \in Handles |-> NoAnswer]
  /\ foreign = 0
  /\ completions = [h \in Handles |-> <<>>]
  /\ closed = {}
  /\ emitting = {}

-----------------------------------------------------------------------------
(* The main thread.                                                        *)

\* inhibit() or open_uri() up to the point where the call is handed to the
\* worker.  The caller then waits for the worker, but no longer than a bound,
\* so it may go on before the call is issued.
BeginRequest(h) ==
  /\ closing = NotClosing
  /\ call[h] = "idle"
  /\ requests' = [requests EXCEPT ![h] = [status |-> "pending", path |-> h]]
  /\ request_paths' = [request_paths EXCEPT ![h] = h]
  /\ calls_in_flight' = calls_in_flight + 1
  /\ call' = [call EXCEPT ![h] = "queued"]
  /\ UNCHANGED <<unclaimed_responses, ownerVars, worker, closeVars, outbox, inbox,
                 portalVars, historyVars>>

\* close_request(), first lock section: where does the Request object live?
ResolveClose(h) ==
  /\ closing = NotClosing
  /\ call[h] # "idle"
  /\ closes < MaxCloses
  /\ closes' = closes + 1
  /\ closing' = [stage |-> "resolved", handle |-> h,
                 path |-> IF requests[h].status # "absent" THEN requests[h].path ELSE h]
  /\ UNCHANGED <<clientVars, worker, busVars, portalVars, historyVars>>

\* The synchronous Close leaves with the path read above.
SendClose ==
  /\ closing.stage = "resolved"
  /\ closing' = ClosingNow("sent")
  /\ outbox' = Append(outbox, [type |-> "close", path |-> closing.path, attempt |-> closes])
  /\ UNCHANGED <<clientVars, worker, closes, call, inbox, portalVars, historyVars>>

\* Mutant: the route from a path the portal chose is left behind.
ForgetRequestKeepsRoute(h) ==
  IF requests[h].status = "absent"
    THEN UNCHANGED requestVars
    ELSE /\ requests' = [requests EXCEPT ![h] = Absent(h)]
         /\ request_paths' = [request_paths EXCEPT ![h] = None]

\* forget_request_locked(): drop the request and both of its routes, if it exists.
ForgetRequest(h) ==
  IF requests[h].status = "absent"
    THEN UNCHANGED requestVars
    ELSE /\ requests' = [requests EXCEPT ![h] = Absent(h)]
         /\ request_paths' = [request_paths EXCEPT ![requests[h].path] = None, ![h] = None]

\* Mutant: a closed request is not forgotten.
FinishCloseKeepsRequest ==
  /\ closing.stage = "ok"
  /\ closed' = closed \cup {closing.handle}
  /\ closing' = NotClosing
  /\ UNCHANGED <<clientVars, worker, closes, busVars, portalVars,
                 completions, emitting>>

\* Close was answered: the request is forgotten and close_request() returns TRUE.
FinishClose ==
  /\ closing.stage = "ok"
  /\ ForgetRequest(closing.handle)
  /\ closed' = closed \cup {closing.handle}
  /\ closing' = NotClosing
  /\ UNCHANGED <<flightVars, ownerVars, worker, closes, busVars, portalVars,
                 completions, emitting>>

\* Mutant: the request is forgotten although Close failed.
AbandonCloseForgets ==
  /\ \/ closing.stage = "rejected"
     \/ closing.stage = "sent" /\ "close" \in TimeOuts
  /\ ForgetRequest(closing.handle)
  /\ closing' = NotClosing
  /\ UNCHANGED <<flightVars, ownerVars, worker, closes, busVars, portalVars, historyVars>>

\* Close failed, or gave up waiting: close_request() returns FALSE and the
\* request is kept.
AbandonClose ==
  /\ \/ closing.stage = "rejected"
     \/ closing.stage = "sent" /\ "close" \in TimeOuts
  /\ closing' = NotClosing
  /\ UNCHANGED <<clientVars, worker, closes, busVars, portalVars, historyVars>>

-----------------------------------------------------------------------------
(* The worker thread.  A handler runs to its end before the next message   *)
(* is dispatched or the next task is run; "worker" and "emitting" say what *)
(* the running one still has to do.                                        *)

Dispatching(type) ==
  /\ worker = Idle /\ emitting = {}
  /\ inbox # <<>>
  /\ Head(inbox).type = type
  /\ inbox' = Tail(inbox)

\* A lock section settles what is to be emitted for h once the lock is released.
Report(h, by, code) ==
  /\ completions' = [completions EXCEPT ![h] = Append(@, [by |-> by, code |-> code])]
  /\ emitting' = emitting \cup {h}

\* emit_request_completed(), after the lock section: request_completed enters
\* Godot's queue.  The lock is free, so close_request() may run in between.
EmitCompletion ==
  /\ \E h \in emitting : emitting' = emitting \ {h}
  /\ UNCHANGED <<clientVars, worker, closeVars, busVars, portalVars, completions, closed>>

\* The task run_on_worker() was given: g_dbus_connection_call().
IssueCall(h) ==
  /\ worker = Idle /\ emitting = {}
  /\ call[h] = "queued"
  /\ call' = [call EXCEPT ![h] = "sent"]
  /\ outbox' = Append(outbox, [type |-> "call", handle |-> h])
  /\ UNCHANGED <<clientVars, worker, closeVars, inbox, portalVars, historyVars>>

\* on_portal_appeared().  Any owner but the first one reported is a new instance.
OnPortalAppeared ==
  /\ Dispatching("appeared")
  /\ portal_owner_seen' = TRUE
  /\ portal_owner' = Head(inbox).owner
  /\ worker' = IF portal_owner_seen /\ portal_owner # Head(inbox).owner
                 THEN [step |-> "fail", by |-> "replaced"]
                 ELSE Idle
  /\ UNCHANGED <<requestVars, flightVars, closeVars, call, outbox, portalVars, historyVars>>

\* on_portal_vanished().
OnPortalVanished ==
  /\ Dispatching("vanished")
  /\ portal_owner_seen' = TRUE
  /\ portal_owner' = NoOwner
  /\ worker' = IF portal_owner # NoOwner THEN [step |-> "fail", by |-> "vanished"] ELSE Idle
  /\ UNCHANGED <<requestVars, flightVars, closeVars, call, outbox, portalVars, historyVars>>

\* Mutant: answered requests are reported as lost too.
AwaitsAnswerOrClose(h) == requests[h].status # "absent"

\* An answered Inhibit request is still there, but is no longer pending.
AwaitsAnswer(h) == requests[h].status = "pending"

\* fail_pending_requests(), a lock section of its own after the one above.
FailPendingRequests ==
  /\ worker.step = "fail"
  /\ completions' = [h \in Handles |->
       IF AwaitsAnswer(h)
         THEN Append(completions[h], [by |-> worker.by, code |-> Other])
         ELSE completions[h]]
  /\ emitting' = emitting \cup {h \in Handles : AwaitsAnswer(h)}
  /\ requests' = [h \in Handles |-> Absent(h)]
  /\ request_paths' = [p \in Paths |-> None]
  /\ unclaimed_responses' = <<>>
  /\ worker' = Idle
  /\ UNCHANGED <<calls_in_flight, ownerVars, closeVars, busVars, portalVars, closed>>

\* Mutant: a call whose request is gone is not counted down.
CallHandledIfTracked(h) ==
  /\ call' = [call EXCEPT ![h] = "done"]
  /\ calls_in_flight' = calls_in_flight - (IF requests[h].status = "absent" THEN 0 ELSE 1)

\* Mutant: a call may be counted down that was never counted.
CallHandledTwice(h) ==
  /\ call' = [call EXCEPT ![h] = "done"]
  /\ calls_in_flight' = calls_in_flight - 2

\* The call is over, whether or not its request still exists.
CallHandled(h) ==
  /\ call' = [call EXCEPT ![h] = "done"]
  /\ calls_in_flight' = calls_in_flight - 1

\* Mutant: unclaimed Responses survive the last call.
StillClaimableForEver(s) == s

\* With no call left in flight, an unclaimed Response can be nobody's.
StillClaimable(s) == IF calls_in_flight' = 0 THEN <<>> ELSE s

\* Mutant: the failure is reported for a request that is gone, too.
FailCallUnconditionally(h) == ForgetRequest(h) /\ Report(h, "call", Other)

\* Complete the request locally, unless it is already gone.
FailCall(h) ==
  /\ ForgetRequest(h)
  /\ IF requests[h].status = "absent"
       THEN UNCHANGED <<completions, emitting>>
       ELSE Report(h, "call", Other)

\* on_call_failed(): an error reply, or the call's own timeout.
OnCallFailed ==
  LET h == Head(inbox).handle IN
  /\ Dispatching("failed")
  /\ CallHandled(h)
  /\ unclaimed_responses' = StillClaimable(unclaimed_responses)
  /\ FailCall(h)
  /\ UNCHANGED <<ownerVars, worker, closeVars, outbox, portalVars, closed>>

\* Mutant: the path the portal chose is not followed.
RemapNothing(h, path) == UNCHANGED requestVars

\* The portal put the Request object elsewhere: follow it.
Remap(h, path) ==
  IF requests[h].status # "absent" /\ path # requests[h].path
    THEN /\ requests' = [requests EXCEPT ![h] = [status |-> requests[h].status, path |-> path]]
         /\ request_paths' = [request_paths EXCEPT ![path] = h, ![requests[h].path] = None]
    ELSE UNCHANGED requestVars

\* Mutant: an unclaimed Response is never looked for.
ClaimNothing(path) ==
  /\ unclaimed_responses' = StillClaimable(unclaimed_responses)
  /\ worker' = Idle

\* Mutant: the oldest unclaimed Response is taken, whatever its path.
ClaimOldest(path) ==
  IF unclaimed_responses = <<>> THEN ClaimNothing(path)
  ELSE /\ unclaimed_responses' = StillClaimable(Tail(unclaimed_responses))
       /\ worker' = [step |-> "deliver", path |-> path, code |-> Head(unclaimed_responses).code]

\* Take the oldest unclaimed Response on path, if there is one, for delivery.
ClaimEarlyResponse(path) ==
  LET OnPath == {i \in DOMAIN unclaimed_responses : unclaimed_responses[i].path = path}
  IN \/ /\ OnPath = {}
        /\ unclaimed_responses' = StillClaimable(unclaimed_responses)
        /\ worker' = Idle
     \/ \E i \in OnPath :
          /\ \A j \in OnPath : i <= j
          /\ unclaimed_responses' =
               StillClaimable(SubSeq(unclaimed_responses, 1, i - 1)
                      \o SubSeq(unclaimed_responses, i + 1, Len(unclaimed_responses)))
          /\ worker' = [step |-> "deliver", path |-> path,
                        code |-> unclaimed_responses[i].code]

\* on_call_started(), its lock section.
OnCallStarted ==
  LET m == Head(inbox) IN
  /\ Dispatching("started")
  /\ CallHandled(m.handle)
  /\ Remap(m.handle, m.path)
  /\ ClaimEarlyResponse(m.path)
  /\ UNCHANGED <<ownerVars, closeVars, outbox, portalVars, historyVars>>

\* Mutant: an inhibition is forgotten as soon as it is granted.
DeliverAndForget(path, code) ==
  LET h == request_paths[path] IN
  IF h = None
    THEN UNCHANGED <<requestVars, completions, emitting>>
    ELSE Report(h, "portal", code) /\ ForgetRequest(h)

\* deliver_response(): route a Response to the request on its path, if any.
DeliverResponse(path, code) ==
  LET h == request_paths[path] IN
  IF h = None \/ requests[h].status # "pending"
    THEN UNCHANGED <<requestVars, completions, emitting>>
    ELSE /\ Report(h, "portal", code)
         /\ IF h \in Inhibits /\ code = Success
              THEN /\ requests' = [requests EXCEPT ![h] = [status |-> "answered", path |-> requests[h].path]]
                   /\ UNCHANGED request_paths
              ELSE ForgetRequest(h)

\* on_call_started() delivers the Response it claimed.
DeliverEarlyResponse ==
  /\ worker.step = "deliver"
  /\ DeliverResponse(worker.path, worker.code)
  /\ worker' = Idle
  /\ UNCHANGED <<flightVars, ownerVars, closeVars, busVars, portalVars, closed>>

\* on_request_response(): deliver, or go on to hold what nobody claims.
OnRequestResponse ==
  LET m == Head(inbox) IN
  /\ Dispatching("response")
  /\ DeliverResponse(m.path, m.code)
  /\ worker' = IF request_paths[m.path] = None
                 THEN [step |-> "hold", path |-> m.path, code |-> m.code]
                 ELSE Idle
  /\ UNCHANGED <<flightVars, ownerVars, closeVars, call, outbox, portalVars, closed>>

\* Its second lock section: hold the Response while a call could name its path,
\* at the cost of the oldest one held.
HoldUnclaimed ==
  LET Room == IF Len(unclaimed_responses) >= MaxUnclaimed
                THEN Tail(unclaimed_responses)
                ELSE unclaimed_responses
  IN
  /\ worker.step = "hold"
  /\ unclaimed_responses' = IF calls_in_flight = 0
                              THEN unclaimed_responses
                              ELSE Append(Room, [path |-> worker.path, code |-> worker.code])
  /\ worker' = Idle
  /\ UNCHANGED <<requestVars, calls_in_flight, ownerVars, closeVars, busVars, portalVars,
                 historyVars>>

-----------------------------------------------------------------------------
(* GDBus, the bus and the portal, as the code relies on them.  The bus     *)
(* keeps the order of what it sends to one client, and tells the client of *)
(* a new owner before anything that owner sends.                           *)

\* The outcome of h's call reaches the worker's queue, unless it already has one.
Settle(h, message) ==
  IF call[h] = "sent"
    THEN /\ call' = [call EXCEPT ![h] = "settled"]
         /\ inbox' = Append(inbox, message)
    ELSE UNCHANGED <<call, inbox>>

Failed(h) == [type |-> "failed", handle |-> h]

\* The outcome of a Close reaches the main thread, unless it gave up waiting.
SettleClose(attempt, outcome) ==
  closing' = IF closing.stage = "sent" /\ attempt = closes THEN ClosingNow(outcome) ELSE closing

CallTimesOut(h) ==
  /\ "call" \in TimeOuts
  /\ call[h] = "sent"
  /\ Settle(h, Failed(h))
  /\ UNCHANGED <<clientVars, worker, closeVars, outbox, portalVars, historyVars>>

Receiving(type) ==
  /\ outbox # <<>>
  /\ Head(outbox).type = type
  /\ outbox' = Tail(outbox)

\* A portal never reuses the path of a Request object, not even of one that is gone.
FreePaths(h) ==
  {p \in {h} \cup AltPaths : \A g \in Handles : stage[g] # "none" => home[g] # p}

\* The portal exports the Request object of a call, where it likes.
ReceiveCall ==
  LET h == Head(outbox).handle IN
  /\ owner # NoOwner
  /\ Receiving("call")
  /\ \E p \in FreePaths(h) : home' = [home EXCEPT ![h] = p]
  /\ stage' = [stage EXCEPT ![h] = "open"]
  /\ UNCHANGED <<clientVars, worker, closeVars, call, inbox, nameVars, replied, answer,
                 historyVars>>

\* The portal refuses a call, or there is none and the bus cannot start one.
RefuseCall ==
  LET h == Head(outbox).handle IN
  /\ Receiving("call")
  /\ Settle(h, Failed(h))
  /\ UNCHANGED <<clientVars, worker, closeVars, portalVars, historyVars>>

\* The method reply, naming the object's path.
Reply(h) ==
  /\ stage[h] \notin {"none", "gone"}
  /\ ~replied[h]
  /\ replied' = [replied EXCEPT ![h] = TRUE]
  /\ Settle(h, [type |-> "started", handle |-> h, path |-> home[h]])
  /\ UNCHANGED <<clientVars, worker, closeVars, outbox, nameVars, stage, home, answer,
                 historyVars>>

\* The user, or the portal for him, answers: the one Response of the request.
Answer(h, code) ==
  /\ stage[h] = "open"
  /\ replied[h] \/ EarlyResponses
  /\ answer' = [answer EXCEPT ![h] = code]
  /\ stage' = [stage EXCEPT ![h] =
                 IF h \in Inhibits /\ code = Success THEN "held" ELSE "answered"]
  /\ inbox' = Append(inbox, [type |-> "response", path |-> home[h], code |-> code])
  /\ UNCHANGED <<clientVars, worker, closeVars, call, outbox, nameVars, home, replied,
                 historyVars>>

Live(h) == stage[h] \in {"open", "held"}

\* Request.Close ends the request on that path, and its inhibition; it fails
\* when there is no such object.
ReceiveClose ==
  LET m == Head(outbox)
      Target == {h \in Handles : Live(h) /\ home[h] = m.path}
  IN
  /\ Receiving("close")
  /\ \/ /\ Target # {}
        /\ stage' = [h \in Handles |-> IF h \in Target THEN "closed" ELSE stage[h]]
        /\ SettleClose(m.attempt, "ok")
     \/ /\ Target = {}
        /\ SettleClose(m.attempt, "rejected")
        /\ UNCHANGED stage
  /\ UNCHANGED <<clientVars, worker, closes, call, inbox, nameVars, home, replied, answer,
                 historyVars>>

\* Started by the session, or by the bus because a call is waiting for it.
PortalStarts ==
  /\ owner = NoOwner
  /\ instances < MaxInstances
  /\ instances' = instances + 1
  /\ owner' = instances + 1
  /\ inbox' = Append(inbox, [type |-> "appeared", owner |-> instances + 1])
  /\ UNCHANGED <<clientVars, worker, closeVars, call, outbox, foreign, objectVars, historyVars>>

\* A crash or exit takes every Request object, and inhibition, with it.  (A
\* replacement is this followed by PortalStarts: the name watch reports both.)
PortalVanishes ==
  /\ owner # NoOwner
  /\ owner' = NoOwner
  /\ stage' = [h \in Handles |-> IF stage[h] = "none" THEN "none" ELSE "gone"]
  /\ inbox' = Append(inbox, [type |-> "vanished"])
  /\ UNCHANGED <<clientVars, worker, closeVars, call, outbox, instances, foreign, home,
                 replied, answer, historyVars>>

\* The bus answers for a portal that died with a call unanswered.
BusReportsNoReply(h) ==
  /\ stage[h] = "gone"
  /\ ~replied[h]
  /\ call[h] = "sent"
  /\ Settle(h, Failed(h))
  /\ UNCHANGED <<clientVars, worker, closeVars, outbox, portalVars, historyVars>>

\* The subscription also sees the Responses of other clients' requests.
ForeignResponse ==
  /\ owner # NoOwner
  /\ foreign < MaxForeign
  /\ foreign' = foreign + 1
  /\ inbox' = Append(inbox, [type |-> "response", path |-> ForeignPath, code |-> Success])
  /\ UNCHANGED <<clientVars, worker, closeVars, call, outbox, owner, instances, objectVars,
                 historyVars>>

-----------------------------------------------------------------------------
MainThread ==
  \/ \E h \in Handles : BeginRequest(h) \/ ResolveClose(h)
  \/ SendClose \/ FinishClose \/ AbandonClose

WorkerThread ==
  \/ \E h \in Handles : IssueCall(h)
  \/ OnPortalAppeared \/ OnPortalVanished \/ FailPendingRequests
  \/ OnCallFailed \/ OnCallStarted \/ DeliverEarlyResponse
  \/ OnRequestResponse \/ HoldUnclaimed

Bus ==
  \/ \E h \in Handles : CallTimesOut(h) \/ BusReportsNoReply(h) \/ Reply(h)
  \/ ReceiveCall \/ RefuseCall \/ ReceiveClose

Portal ==
  \/ \E h \in Handles, code \in Answers : Answer(h, code)
  \/ PortalStarts \/ PortalVanishes \/ ForeignResponse

Next == MainThread \/ WorkerThread \/ EmitCompletion \/ Bus \/ Portal

Spec == Init /\ [][Next]_vars

-----------------------------------------------------------------------------
(* Fairness.  The worker's loop runs whatever is queued; the bus and GDBus *)
(* carry what they were given; a running portal answers what it was asked, *)
(* if only because its user dismisses the dialog.  Nothing is assumed of   *)
(* the caller, of crashes and starts of the portal, or of other clients.   *)
(* close_request() blocks the main thread, which therefore goes on.        *)

Fairness ==
  /\ WF_vars(WorkerThread)
  /\ WF_vars(EmitCompletion)
  /\ \A h \in Handles : WF_vars(IssueCall(h))
  /\ WF_vars(ReceiveCall \/ RefuseCall \/ ReceiveClose)
  /\ \A h \in Handles :
       /\ WF_vars(Reply(h))
       /\ WF_vars(BusReportsNoReply(h))
       /\ WF_vars(\E code \in Answers : Answer(h, code))
  /\ WF_vars(SendClose \/ FinishClose \/ AbandonClose)

FairSpec == Spec /\ Fairness

-----------------------------------------------------------------------------
(* Properties.                                                             *)

Tracked(h) == requests[h].status # "absent"
InFlight(h) == call[h] \in {"queued", "sent", "settled"}

\* What Godot's queue was given for h so far: what was decided, but for the
\* completion the worker has yet to emit.
Emitted(h) ==
  IF h \in emitting THEN SubSeq(completions[h], 1, Len(completions[h]) - 1) ELSE completions[h]

\* requests and request_paths describe the same requests: a route leads to a
\* request that lives on that path, and a request is routed from its path and
\* from no other (begin_request, on_call_started, forget_request_locked).
RoutesMatchRequests ==
  \A h \in Handles, p \in Paths : request_paths[p] = h <=> Tracked(h) /\ requests[h].path = p

\* calls_in_flight counts exactly the calls whose outcome the worker has not
\* handled, whatever became of their requests in the meantime.
InFlightExact == calls_in_flight = Cardinality({h \in Handles : InFlight(h)})

\* Responses nobody claimed are kept only while a call could still claim them:
\* none outlives the last call in flight.
UnclaimedOnlyInFlight == unclaimed_responses # <<>> => calls_in_flight > 0

\* request_completed is decided, and so emitted, at most once for a handle:
\* Response, failure of the call and loss of the portal exclude each other.
CompletesAtMostOnce == \A h \in Handles : Len(completions[h]) <= 1

\* What is reported as the portal's answer to a request is the portal's answer
\* to that request: no Response reaches another request's handle, held back or
\* not, and no other client's does.
AnswersAreTheirOwn ==
  \A h \in Handles : \A i \in DOMAIN completions[h] :
    completions[h][i].by = "portal" => completions[h][i].code = answer[h]

\* Once close_request() returned TRUE for a handle, no Response, failure or loss
\* that was on its way is taken for the end of that request any more.  All that
\* may still be emitted is the completion the worker had decided, and not yet
\* emitted, when the request was forgotten.
NothingNewAfterClose ==
  [][\A h \in closed :
       completions'[h] = completions[h] /\ (h \in emitting' => h \in emitting)]_vars

\* An inhibition the caller is told it has, and the portal still holds, can be
\* closed, from before it is told: the request is still there and knows the
\* object's real path.
HeldCanBeClosed ==
  \A h \in Inhibits :
    /\ stage[h] = "held"
    /\ \E i \in DOMAIN completions[h] : completions[h][i].by = "portal"
    => requests[h] = [status |-> "answered", path |-> home[h]]

\* An Inhibit request answered with success stays open until it is closed, or
\* its portal is gone.
AnsweredUntilClosed ==
  [][\A h \in Handles :
       requests[h].status = "answered" /\ requests'[h].status # "answered"
         => h \in closed' \/ worker.step = "fail"]_vars

\* Where the completion of a pending request is to come from.
Elements(s) == {s[i] : i \in DOMAIN s}
ResponseUnderWay(h) ==
  /\ answer[h] # NoAnswer
  /\ \/ \E m \in Elements(inbox) : m.type = "response" /\ m.path = home[h]
     \/ worker.step \in {"hold", "deliver"} /\ worker.path = home[h]
     \/ InFlight(h) /\ \E r \in Elements(unclaimed_responses) : r.path = home[h]
FailureUnderWay(h) ==
  \/ worker.step = "fail"
  \/ \E m \in Elements(inbox) : m.type = "vanished" \/ m = Failed(h)
  \/ call[h] = "sent" /\ stage[h] = "gone"
Unanswered(h) ==
  \/ call[h] = "queued"
  \/ \E m \in Elements(outbox) : m.type = "call" /\ m.handle = h
  \/ stage[h] = "open"

\* A request that is pending is waiting for something: it was not answered yet,
\* or its Response, a failure or the end of close_request() is on its way.
NotStranded ==
  \A h \in Handles : requests[h].status = "pending" =>
    \/ Unanswered(h) \/ ResponseUnderWay(h) \/ FailureUnderWay(h)
    \/ closing.handle = h /\ closing.stage = "ok"

\* The completion of a request is always emitted, unless its caller closes it.
EveryRequestEnds ==
  \A h \in Handles : call[h] = "queued" ~> Emitted(h) # <<>> \/ h \in closed

-----------------------------------------------------------------------------
(* What a caller sees of a handle is what RequestLife promises.            *)

Life(h) ==
  CASE call[h] = "idle" -> "unused"
    [] requests[h].status = "pending" -> "pending"
    [] requests[h].status = "answered" -> "held"
    [] OTHER -> "over"
Reported(h) == [i \in DOMAIN completions[h] |-> completions[h][i].code]

Abstract == INSTANCE RequestLife
  WITH life <- [h \in Handles |-> Life(h)],
       reported <- [h \in Handles |-> Reported(h)],
       due <- emitting
ImplementsRequestLife == Abstract!Spec

=============================================================================
