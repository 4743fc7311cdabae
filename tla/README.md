# A verification development for godot-xdg-portals

TLA+ models of the XDG Desktop Portal addon for Godot, the TLC configurations
that check them on small instances, and theorems about them checked by TLAPS.
The reference is the code in `src/`; each module's definitions are tied to
source lines in `PROJECT.json` ("map").

## 1. The system

The addon is a GDExtension class, `XdgPortalNative`
(`src/src/xdg_portal_native.cpp`, `.h`), behind a GDScript autoload,
`DesktopServices` (`src/addons/xdg_portals/desktop_services.gd`), which talks to
it through a backend adapter (`backends/native_backend.gd`; `null_backend.gd`,
`mac_backend.gd` and `mock_backend.gd` are the alternatives).

Three parties run concurrently inside `XdgPortalNative`'s world:

* **the main thread** (Godot): the constructor, `inhibit()`, `open_uri()`,
  `close_request()`, the property reads and the destructor;
* **the worker thread**, which runs one `GMainLoop` over a private context:
  every D-Bus signal, every reply of an asynchronous call, and every task that
  `run_on_worker()` hands over is dispatched there, one at a time;
* **the session bus and the portal** (`org.freedesktop.portal.Desktop`), which
  may be absent, activated by a call, crash, restart, answer late, answer on
  another object path, or send a Response before the reply of the call.

The two threads share state under `state_mutex`. What a lock section reads may
have changed by the next one; emissions to Godot happen after a section, through
`call_deferred()`.

| Component | State | Operations | What makes it correct |
| --- | --- | --- | --- |
| Interactive requests | `requests`, `request_paths`, `unclaimed_responses`, `calls_in_flight`, `portal_owner`, `portal_owner_seen` | `inhibit`, `open_uri`, `close_request`; `on_call_started`, `on_call_failed`, `on_request_response`, `on_portal_appeared`, `on_portal_vanished` | each request completes once, with its own answer, or is closed; held inhibitions stay closable; nothing strands |
| Portal state | `cached_versions`, `portal_generation`, `power_saver_known`, `..._known_once`, `..._enabled` | constructor, `get_interface_versions`, `power_saver_state`; `on_properties_changed`, `on_power_saver_read`, the name-owner callbacks | what is cached is the present instance's; the power-saver state is the desktop's or unknown; listeners hear every change |
| Worker life cycle | `context`, `loop`, `connection`, `cancellable`, `worker`, `shutting_down` | `connect_bus`, `start_worker`, `run_on_worker`, `teardown` | every wait of the main thread ends; no call is made without the subscriptions its answers come by; every payload is freed |
| Synchronous calls | none in the extension | GameMode, Notification, `SchemeSupported` | results say what the portal said; each failure is reported once |
| Notification actions | none | `on_action_invoked` | none lost, repeated, reordered or cut short |
| URI schemes | none | `is_valid_scheme` (C++), `_scheme_of`, `_is_valid_scheme` (GDScript) | both are RFC 3986; `file:` is refused whatever its case |
| GVariant conversion | none | `gvariant_to_variant`, `gvariant_dict_to_dictionary`, `bytes_to_packed` | a value keeps what it says, to any depth |
| Facade | `_backend`, `_capabilities`, `_interface_versions`, `_game_mode_pids` | backend selection and swap, gating, `request_game_mode`, `release_game_mode`, forwarding | only the current backend is heard; held registrations are released; capabilities are honest |
| Backends | `_native`, `_versions` | forwarding, status translation | never a fabricated success |
| macOS monitor | observer, operation queue | constructor, `power_saver_state`, the notification block, destructor | a game hears the mode there is; no block outlives the object |

How they interact: the facade calls a backend synchronously on the main thread;
the native backend calls `XdgPortalNative`; that hands asynchronous work to the
worker (`run_on_worker`) or makes a synchronous D-Bus call; the worker's
callbacks change the shared state and defer signals to the main thread, where the
backend and the facade re-emit them.

What is hard to test here, with lines, is the list "hazards" in `PROJECT.json`.

## 2. The modules

| Module | What it is |
| --- | --- |
| `RequestLife` | abstract: what a caller may see happen to a handle |
| `PortalRequests` | the interactive requests, worker and main thread, bus and portal |
| `MCPortalRequests` | values for TLC, and a claim of the repository's text that the code does not keep |
| `PortalRequestsProofs`, `RequestRoutesProofs`, `RequestLifeProofs` | theorems about `PortalRequests`, each module on top of the one before |
| `PortalState`, `PortalStateProofs` | the version cache and the power-saver state, as the constructor, later reads and the worker change them; theorems |
| `WorkerLifecycle`, `WorkerLifecycleProofs` | connecting, the worker, the hand-over of calls, tear-down; theorems |
| `UriSchemes` | the scheme checks of both layers, and the RFC's definition |
| `PortalCalls`, `PortalCallsProofs` | the synchronous calls through all layers, `portal_error`, notification actions; theorems about them and about `UriSchemes` |
| `GVariantConv` | the conversion of D-Bus values, and what a faithful one is |
| `MCPortalCalls` | puts the conversion into `PortalCalls`; the calls, payloads and bounds TLC takes |
| `DesktopServices`, `DesktopServicesProofs` | the facade, with its native and mock backends: selection and swap, capabilities, GameMode registrations, handles and signals; theorems |
| `MacPowerMonitor`, `MacPowerMonitorProofs` | the macOS observer and the backend that owns it; theorems |

`PortalRequests`, `PortalState` and `WorkerLifecycle` are three views of one
class. The name-owner callbacks appear in the first two, each with the part of
the lock section that concerns it; `WorkerLifecycle` leaves out what callbacks do
and keeps who owns each call's payload. `PortalCalls` extends `UriSchemes`, whose
checks its calls have to pass. The conversion in `on_action_invoked` is a constant
of it, `Converted`, with `Means` for what it keeps of a value; `MCPortalCalls`
extends both modules and takes `GVariantConv`'s for them, so every run has the
real one. (Its definitions are recursive, and the prover can do nothing in a
module that reaches such.) `DesktopServices` sees the
extension through a native backend, as "the portal's exports" and "a request that
completes at some moment".

### PortalRequests

A lock section is one action. Between two sections of a handler the variable
`worker` says what it still has to do (`fail`, `deliver`, `hold`), so the main
thread, the bus and the portal can act in between; `closing` does the same for
`close_request()` on the main thread. A completion is decided in a lock section
(`Report` appends it to `completions`) and emitted after it: `emitting` holds the
handles whose completion the worker still has in hand, and the worker dispatches
nothing else before it emitted them. Names follow the code:

| Action | Code |
| --- | --- |
| `BeginRequest(h)` | `begin_request`, called by `inhibit` / `open_uri` |
| `IssueCall(h)` | the task of `call_portal_async`; it may run after the caller went on |
| `OnCallFailed`, `OnCallStarted`, `DeliverEarlyResponse` | `on_request_call_finished` and its two outcomes; the claimed Response is delivered outside the lock |
| `OnRequestResponse`, `HoldUnclaimed` | `on_request_response`, two lock sections |
| `OnPortalAppeared`, `OnPortalVanished`, `FailPendingRequests` | the name-owner callbacks, two lock sections |
| `EmitCompletion` | `emit_request_completed`, called after the lock is released by `deliver_response`, `on_call_failed` and `fail_pending_requests` |
| `ResolveClose`, `SendClose`, `FinishClose`, `AbandonClose` | `close_request`: read the path, send, forget or keep |
| `Settle` and the actions after it | GDBus, the bus and the portal (external), from how the code uses them |

The abstraction: a handle is a model value; a request is its status
(`absent`, `pending`, `answered`) and its path; results are dropped, response
codes kept. `portal_error` accompanies local completions and is left out. Calls
rejected before `begin_request()` change nothing here; the rejections of
`open_uri()` are in `PortalCalls`. The cancellation of calls at tear-down
(`on_call_failed` with `CANCELLED`, which only frees) is in `WorkerLifecycle`.
`portal_generation`, `cached_versions` and the power-saver state, which the same
callbacks change in the same lock section, share nothing with requests but
`portal_owner`; they are `PortalState`.

The environment: messages from the bus reach the worker in one FIFO (`inbox`),
because replies and signals are dispatched by idle sources of equal priority on
one context. Messages to the portal leave in one FIFO (`outbox`). A call settles
once: reply, error or time-out, and what comes later is dropped by GDBus. The
name watch reports owners in order with everything else, and reports the loss of
one owner before the next. The synchronous Close is answered past the worker's
queue. A portal chooses the object paths, but never the same one twice, not even
that of an object that is gone (`FreePaths`); that limits every theorem below, too.

`RequestLife` is the abstract specification: `reported` is how a life ended, `due`
who is still to be told of it (`Tell`). A close ends the life of a request, but does
not take back a report that is due.

### PortalState

The constructor is five actions on the main thread (`BeginSeed`, `TakeValues`,
`SeedPowerSaver`, `EmitSeed`, `StoreVersions`), a later read of versions three
(`BeginRead`, `TakeValues`, `StoreVersions`). A batch has a number, so a reply
to an abandoned one is recognised and ignored, as the shared `PropertyBatch`
does by outliving its reader. Emission is a step after the lock section on both
threads (`EmitSeed`, `EmitChange`). `Gets` may be answered in any order.

The portal's instances are numbered; `exported[i]` is what instance `i` offers.
The desktop's power-saver state is a property of the desktop, not of the portal:
it may change while no portal runs, and then nobody is notified.

### WorkerLifecycle

`main` and `worker` are the places of the two threads:

| Place | Code |
| --- | --- |
| `main`: `new`, `connecting`, `grace` | `connect_bus`: no address, the wait for the attempt (`CONNECT_TIMEOUT_MS`), the wait for its cancellation (`CONNECT_CANCEL_GRACE_MS`) |
| `connected`, `seeding` | `start_worker`, then the rest of the constructor, which hands its reads over |
| `waiting` | `run_on_worker`, until the task is done or `SYNC_CALL_TIMEOUT_MS` are over |
| `cancelling`, `quitting`, `joining`, `gone` | `teardown` |
| `worker`: `starting`, `subscribed`, `looping` | `worker_main`: `subscribe_all`, `g_main_loop_run` |
| `unsubscribed`, `draining`, `ended` | `unsubscribe_all`, `g_dbus_connection_close_sync`, the drain |

A call of `Calls` stands for whatever owns a payload that only its reply callback
frees (`RequestCallContext`, `PropertyRead`). It is a task in the context, then
with GDBus (`issued`), then a callback in the context (`ready`), then freed. A
task that was given up runs all the same, in the drain at the latest, where GDBus
answers it with an error at once, in a callback that needs another iteration.
External, from how the code uses them: the bus's answer to the attempt, replies,
the loss of the connection, GDBus queuing a callback for everything it ends.

### PortalCalls, UriSchemes and GVariantConv

A call passes the facade's checks, the cached version where it matters
(`scheme_supported`), the bus and the way back; between any two of these steps
the portal may be replaced by one of another version. One capability stands for
all, and one member for each kind of result. `failures` counts what a game has to
be told of, whatever the layers do about it: calls that the bus reports as failed,
and URIs without a scheme that RFC 3986 allows, or with `file:`; `reported` counts
the `portal_error` it hears. A read of the version that gets no answer is
silent by design (cpp:687-688) and no failure. `OtherCodes` are answers of
`QueryStatus` that the interface does not document. Process ids are taken
to fit into 32 bits; an empty id and a malformed scheme are refused without an
error, as in the code. The flag check of `inhibit()` and the names of
notification priorities are left out.

A string of a URI is a sequence of tokens, single characters and the word `file`
in both cases, so that all short URIs can be enumerated against RFC 3986.

`Convert` follows `gvariant_to_variant` class by class; classes that are treated
alike are one class. `Says` defines independently what a D-Bus value says and
what a Godot value says; the conversion is faithful if both say the same. An
unsigned number above `INT64_MAX` is clamped, so two such keys of a dictionary
fall together: the definition of faithful allows exactly that. Both are
recursive.

### MacPowerMonitor

The operation queue runs one block at a time (`maxConcurrentOperationCount`); a
block reads the mode when it starts, and its emission is deferred to the main
thread (`deferred`). The destructor is three steps: remove the observer, wait for
the queue, be gone. macOS is taken to post nothing to an observer for which
`removeObserver:` has returned. `known` is what a game makes of it that reads
once and listens.

### DesktopServices

The facade runs on the main thread only, so its interleavings are with the bus
and the worker inside a call that blocks. `main` is the place in such a call:

| `main.at` | Code |
| --- | --- |
| `idle` | between calls; Godot's message queue is flushed here (`Flush`) |
| `releasing`, `calling` | `_release_held_game_mode`, one `game_mode_unregister` after the other, as part of `set_backend` (`next` is the new backend) or `_exit_tree` (`next` is none) |
| `calling` (asked) | `request_game_mode`, `release_game_mode` waiting for the bus |
| `discover`, `versions` | the two halves of `refresh_capabilities` |
| `begin` | `inhibit` / `open_uri` waiting for the worker, the request already registered |

`missed` collects the requests that completed while their backend was not in use;
only a mock goes on completing after a swap, as the native backend is shut down.
A GameMode call that timed out stays in `outbox` and takes effect later
(`Execute`). `abandoned[b]` is who may stay registered with `b` without being
recorded: those whose register call was not waited for, or whose release on the
way out failed, until a later call about them succeeds. Registrations are per
backend, as the comment in `set_backend` has it. The two capabilities stand for
"GameMode" and "requests"; a version is there or not. The four forwarded signals
are alike; the model forwards completions. A null backend is what a native one
becomes when it is shut down: it offers nothing. The argument checks of
`inhibit`, which change nothing, are left out.

What a discovery finds depends on the backend. A native one reads versions, of which
each may be the portal's, one that its `XdgPortalNative` has cached of an earlier
portal, or none for want of an answer (`NativeVersions`), and has the capabilities
that have a version. A mock is scripted with capabilities and versions separately,
and keeps the versions of what it does not serve to itself. Its capabilities may have
no version, as those of every backend that is not a portal (docs/api.md:29-33).
`versions` is what the backend that was asked last keeps.

## 3. The runs

Passing runs. `CHECK_DEADLOCK` is off because the system may stop: every request
is over, nobody calls, the object is destroyed, the bounds are used up.

| Run | Instance | What it shows |
| --- | --- | --- |
| `restart` | 1 Inhibit, 1 OpenURI, 1 alternative path, 2 portal instances, 1 close | crashes, restarts and activation at any moment: `RoutesMatchRequests`, `HeldCanBeClosed`, and the refinement `ImplementsRequestLife` |
| `late_answers` | the same, 1 instance, calls and Closes may time out | `TypeOK`, `InFlightExact`, `CompletesAtMostOnce`, `NothingNewAfterClose` |
| `overtaking` | the same, room for 3 held Responses, 1 foreign Response, Responses before replies | `UnclaimedOnlyInFlight`, `AnswersAreTheirOwn`, `NotStranded`, `AnsweredUntilClosed` |
| `completion` | 1 Inhibit, 2 instances, early Responses, calls may time out, with fairness | `EveryRequestEnds` |
| `version_cache` | 1 interface, 2 instances with any exports, 1 read after the constructor's, Gets may time out, the portal may do anything during the constructor | `CacheIsCurrent` |
| `power_saver` | 2 instances, 2 changes, a calm start-up, waits may be given up, with fairness | `CurrentWhenQuiet`, `UnknownWithoutPortal`, `ChangesAreHeard`, `TypeOK`, and the liveness property `BecomesCurrent` |
| `worker` | 3 calls, a drain of 2 iterations, with fairness | `UsableOrExplained`, `NothingLeftBehind`, `SubscribedWhenSent`, `TypeOK`, and the liveness property `MainThreadReturns` |
| `portal_calls` | 2 calls, 1 restart, 2 actions, versions 4 and 5 | `AnswersAreThePortals`, `FailuresAreReported`, `ActionsArrive`, `TypeOK`; over all small inputs `ConversionIsFaithful` and `SchemesFollowRFC` |
| `mac_power` | 4 notifications under way, with fairness | `CurrentWhenQuiet`, `NoBlockOnFreed`, and the liveness properties `LastingModeIsHeard`, `DestructorReturns` |
| `facade` | 2 native backends and a mock, 1 process, 1 handle, 2 calls of `set_backend`, 2 GameMode calls, 1 change of the exports, GameMode calls may time out | `CapabilitiesMatchVersions`, `RegistrationsAreRecorded`, `NothingLeftBehind`, `HandleBeforeCompletion`, `CurrentHandlesInSight`, `OnlyCurrentIsHeard`, `TypeOK` |

Why the bounds are enough. Each hazard of the requests is between one request and
its environment, or between a request and one other message (another request's,
or another client's Response): two handles, one of each kind, one alternative
path and one foreign Response reach each. Two instances give a death, a restart
and messages of the first handled under the second. The cache treats every
interface alike; what they share, the generation, is there with one. Most of
these invariants are also proved without bounds (section 5).

In `worker`, three calls are one that the main thread waits for, one that it gave
up and one made by a callback on the worker; two iterations of the drain are what
such a set needs at most, and the code has 1000. In `portal_calls`, versions 4
and 5 are the two sides of the one comparison (`SchemeSupported` came with 5),
and one restart makes the cached version stale in a call; values are two
containers deep, URIs four tokens long, and `INT64_MAX` is 3, so that there are
numbers on both sides of it. In `mac_power`, four notifications are one in the
queue, one in a block and two emissions. In `facade`, two native backends and a
mock give every kind of swap: to a fresh backend, to a mock, back to one that was
shut down, to the same again; a third one, by which a game goes back to a mock that
completed requests meanwhile, is left to the proofs. Two GameMode calls are a
registration and its release, or a registration that is held on the way out.

The constants `EarlyResponses`, `TimeOuts` and `CalmStartup` say what the
environment may do. They divide the work between runs, and they are the border
of what holds: the violations below are what happens on the other side.

Runs that are expected to end in a violation, each one property taken from the
repository's text:

| Run | Claim | What the code does |
| --- | --- | --- |
| `replaced_answers` | what a replaced portal has not answered "it never will" (xdg_portal_native.cpp:541) | a call that activates the portal is failed by the report of the new owner, which then answers it |
| `stale_seed` | `is_power_saver_enabled` is the state or null (desktop_services.gd:338) | the constructor overwrites a newer notification |

Beyond the border without a run of their own, each seen by changing a constant or
read off the model:

* a completion that the worker decided before `close_request()` forgot the request is
  emitted after it, possibly after `close_request()` returned TRUE: the lock is
  released first (cpp:927-928, 862-870, 585-590), and Godot's queue delays it further.
  A game may so be told that an inhibition was granted which it has closed.
  `NothingNewAfterClose` says that this one completion is all that can follow. The
  repository's texts promise a caller no silence after a close; the comment at
  cpp:1024 is about what the portal sends;
* with `EarlyResponses` and time-outs of calls, an inhibition that was granted
  before the reply is dropped, and completed again, when the call times out
  (cpp:858; xdg_portal_native.h:103 has it open until it is closed). It can then
  no longer be closed, either: `HeldCanBeClosed` fails. That nothing else takes the
  life of a request out of `RequestLife` is proved: `LifeWhileStanding` and the
  theorems beside it;
* a Close that timed out but was carried out leaves its request pending for good
  (cpp:1016; xdg_portal_native.h:47 has a request always complete):
  `EveryRequestEnds` and `NotStranded` need `"close"` not to be among `TimeOuts`.
  That this and the next but one are the two ways to strand is proved:
  `OnlyOverflowsAndLateClosesStrand`;
* `set_backend` drops what is pending on the old backend without a completion
  (desktop_services.gd:158; docs/architecture.md:151 has a request always
  complete);
* with `EarlyResponses` and a `MaxUnclaimed` below the number of Responses that
  may be held, a held Response can be evicted and its request strands
  (`HoldUnclaimed`, cpp:962; the capacity in the code is 32);
* before the reply was handled, `close_request()` closes the predicted path, and
  fails if the portal chose another (cpp:1003);
* with `CalmStartup` FALSE the constructor marks the power-saver state known
  after the portal it came from is known to be gone, or overwrites a newer
  notification (cpp:272). That there is no third way is proved:
  `OnlyOvertakenSeedsMislead`;
* an answer to `refresh_power_saver_async()` that misses its two seconds is lost,
  and nobody asks again (cpp:1055): `BecomesCurrent` needs `"get"` not to be
  among `TimeOuts`;
* a RegisterGame that timed out takes effect later; it is not recorded, so no
  release is attempted on the way out (desktop_services.gd:268).
  `RegistrationsAreRecorded` and `NothingLeftBehind` except the process it was about
  (`abandoned`); that there is no other is proved;
* a `g_main_loop_quit()` before `g_main_loop_run()` is lost, and the join waits
  for ever (cpp:474). `MainThreadReturns` names the case (`QuitLost`): it takes a
  worker so slow that the object is constructed and destroyed before it starts;
* docs/architecture.md:80-81 describes a synchronous connect; the code connects
  asynchronously, with the two bounds that `WorkerLifecycle` models.

## 4. Fairness

`PortalRequests!Fairness`: the worker's loop runs what is queued, the worker goes on
to emit what it decided, and the task source of a call is not starved by signals; the bus and GDBus carry what they
were given; a portal that keeps running replies, and its user (or the dialog's
dismissal) answers; the main thread continues inside `close_request()`. Nothing
is assumed of callers, of crashes, of starts and of other clients.
`PortalState!Fairness` assumes the same of the worker, the main thread inside
the constructor and reads, and Gets. `WorkerLifecycle!Fairness` assumes only that
both threads are scheduled and that a wait with a bound ends; the bus need not
answer anything. `MacPowerMonitor!Fairness` assumes that the operation queue runs
its blocks, that Godot flushes its message queue in every frame, and that the
constructor and the destructor go on. Only weak fairness is used: each of these
stays enabled until it happens. `DesktopServices` and `PortalCalls` have no
liveness property.

## 5. The proofs

The theorems hold for every value of the constants that the named assumptions of
the modules allow. Where a theorem needs more of the environment, that is an
assumption of the theorem and said below.

### Requests

`PortalRequestsProofs`, for every finite set of handles, every set of paths,
every capacity and every number of restarts:

* `TypeCorrect`: `Spec => []TypeOK`;
* `InFlightIsExact`: `Spec => []InFlightExact`.

Neither is inductive. `calls_in_flight` is decremented when an outcome is
handled, so both need that an outcome in the queue belongs to a call that is
still counted, and that a call has at most one outcome in the queue. That is
`OutcomesSettled`; `CallInv` is the conjunction of the three. The proof has one
lemma per group of actions over lemmas about what `Settle`, a dispatch and an
append do to the outcomes in the queue, and about the cardinality of the set of
calls in flight (`TakeOff`, `Landing`, `SteadyFlight`). All that `EmitCompletion`
changes is `emitting`, which these and the following proofs leave out of `sectionVars`:
a step of `Next` is a step of `Section`, the other actions, or leaves those variables
alone (`NextSections`).

`RequestRoutesProofs`, as unconditionally:

* `HeldForCallsOnly`: `Spec => []UnclaimedOnlyInFlight`;
* `RoutesAreExact`: `Spec => []RoutesMatchRequests`;
* `NoAnswerMisrouted`: `Spec => []AnswersAreTheirOwn`.

The strengthening `RouteInv` says where Request objects are: a call that is still
on its way to the portal has none (`OutboxInv`), two objects never share a path,
and no path is another request's handle (`HomesInv`); every message in the queue,
every Response held or about to be delivered is true of the object on its path
(`MessagesInv`); a request that is not on its own path is on its object's
(`PathsInv`). With that, what a delivery reports is the object's answer. `Persistent`
collects what no step takes back (an object's path once it exists, an answer once
given), which keeps what is on its way true while other things happen.

`RequestLifeProofs`, under `EarlyResponses = FALSE \/ "call" \notin TimeOuts`, that
is, if the portal replies to a call before it sends the Response, or if calls do
not time out:

* `CompletesOnce`: `Spec => []CompletesAtMostOnce`;
* `ClosedEndsWithWhatWasInHand`: `Spec => NothingNewAfterClose`;
* `HeldUntilClosed`: `Spec => AnsweredUntilClosed`;
* `RequestsLive`: `Spec => ImplementsRequestLife`, the refinement;
* `HeldIsClosable`: `Spec => []HeldCanBeClosed`;

without that assumption,

* `SoundWhileStanding`: `Spec /\ []Standing => []CompletesAtMostOnce /\
  NothingNewAfterClose /\ AnsweredUntilClosed`;
* `LifeWhileStanding`: `Spec /\ []Standing => ImplementsRequestLife`;
* `ClosableWhileStanding`: `Spec /\ []Standing => []HeldCanBeClosed`;

* `OnlyOverflowsAndLateClosesStrand`: `Spec /\ [][~Overflow /\ ~LateClose]_vars =>
  []NotStranded`;

and, if Closes do not time out,

* `OnlyOverflowStrands`: `Spec /\ [][~Overflow]_vars => []NotStranded`;
* `NoneStrands`: `Spec => []NotStranded`, under `EarlyResponses = FALSE \/
  MaxUnclaimed >= Cardinality(Handles) + MaxForeign`.

The first five need their assumption: an inhibition that was granted before
its reply, and whose call then times out, completes twice (section 3). `LifeInv`
adds to `RouteInv` that a settled call has its outcome in the queue
(`SettledInv`), what was reported by the status of a request (`StatusInv`), and
that `close_request()` is about a request that was begun (`ClosingInv`). It is
inductive but for one step, `OnCallFailed` on a request that was answered, which
`Standing` excludes: no call is about to be failed whose request was answered.
`SoundWhileStanding`, `LifeWhileStanding` and `ClosableWhileStanding` say that this
is the one way in which the life of a request can depart from these properties and
from `RequestLife`, in which a report may be told late; the first five theorems
follow from them. There are two reasons for `Standing`, and `LifeInvariant` takes
either. Where replies come first, `OrderedInv` has a Response behind the outcome
of its call wherever it is (`RepliedInv`, `OrderInv`), so an answered request
has no call to fail (`GrantedInv`, `OrderedStands`). Where calls do not time
out, `UntimedInv` has a failed call without an object, or with one that died
with its portal (`FailInv`), and then the report of that loss is queued before
the failure (`LateInv`), which rests on `OwnerKnown`: the worker's view of the
owner, corrected by the reports in its queue, is the truth (`UntimedStands`).
`NextLife` then reduces every step to one of five effects on the lives of
requests: none moves, one begins, one is closed, one completes, all end; and whatever
a lock section decides is what it leaves to be emitted, no more and no less
(`EmitsItsOwn`). `SoundWhileStanding` and `LifeWhileStanding` follow from the two, with
`EmitCompletion` as the step `Tell` of `RequestLife`.

`ClosableWhileStanding` is about three more things that can go wrong with an inhibition
that was granted. A report that the portal is gone, or another one there, could
drop it: but such a report is handled before the Response of the instance that
runs now (`HeldInv`). A Close could have ended it without the worker knowing: but
what is closed on the portal's side is being closed on the game's (`CloseInv`).
Its Response could find it on another path, or not at all: `NextClosable` concludes
that it is granted where it is.

The theorems about stranding say for each stage of a request's object in the portal
what a pending request waits for (`PendingInv`): without an object for its call or
the call's failure (`SentInv`, `SettledInv`), with an object that was answered for
the Response (`AwaitInv`), with one that was closed for the end of
`close_request()` (`ClosedInv`), with one that died with its portal for the report
of that (`GoneInv`). `FollowedInv` says that the worker listens where the object is.
`AwaitInv` follows a Response through the queue, the worker's hands and the list
of held ones: `HandInv` says that one that is about to be held is for a call in
flight, which can still claim it, and that one that was claimed is for a call
that is over, so its delivery finds the request. The only step that loses a Response
is `Overflow`: the full list drops one that a call in flight would have claimed. The
only one that ends an object behind the game's back is `LateClose`: the portal
carries out a Close that `close_request()` gave up waiting for. With neither, nothing
strands (`OnlyOverflowsAndLateClosesStrand`). Where Closes do not time out none is
late, as each is still waited for (`AwaitedCloses`), which leaves the overflow
(`OnlyOverflowStrands`). `NoneStrands` gives two conditions that
exclude the step: with replies first nothing is held for a call in flight
(`OrderNeverOverflows`); otherwise `CountInv` counts that Responses held, in hand
and queued are no more than those sent, one per handle and `MaxForeign` of others,
so a list with room for those never overflows (`NextCount`, `NoneOverflows`).

### The portal's state

`PortalStateProofs`:

* `TypeCorrect`: `Spec => []TypeOK`, and `CacheNeverStale`:
  `Spec => []CacheIsCurrent`, unconditionally;
* `OnlyOvertakenSeedsMislead`: `Spec /\ [][~Overtaken]_vars => [](CurrentWhenQuiet /\
  UnknownWithoutPortal /\ ChangesAreHeard)`, unconditionally;
* `KnownIsCurrent`, `GoneIsUnknown`, `NoChangeUnheard`: `Spec =>
  []CurrentWhenQuiet`, `[]UnknownWithoutPortal` and `[]ChangesAreHeard`, under
  `CalmStartup`: nothing happens to the portal while the constructor runs.

`Overtaken` is a step of the worker: it handles the end of the portal, or a
notification, after the constructor took the answer to its Get (`SeedTaken`) and
before it is done with it, `apply_power_saver()` and the signal. The theorem says that
this race, of which `stale_seed` is an instance, is the only way in which the
power-saver state or what listeners were told of it can be wrong. In a calm start-up
it cannot happen (`CalmInv`, `CalmIsNotOvertaken`), which gives the other three.

`TypeInv` places the reader, its batch and the values it took. `QueueInv` is about
`Believed`, the instance the worker believes in after the first messages of its
queue: the queue ends in the truth, and an answer in it came from the instance
believed in at that place. `CacheInv` says that a reader whose generation is still
the present one holds what the believed instance exports. `SaverInv` says of the
power-saver state that a message that tells it tells the truth if no news comes after
it (`ValuesInv`), and that a re-read behind it, with no news in between, tells the same
(`AgreeInv`); what is known is as good as a message before the first in the queue
(`KnownInv`), and so is an answer the constructor took (`TakenInv`); and what was heard
last is what is known (`HearInv`).

### The worker

`WorkerLifecycleProofs`, for any finite set of calls: `TypeCorrect`;
`ConnectedOrExplained`, from `ConnectInv` (the attempt, the connection and the
reason by the main thread's place); `NoCallUnsubscribed`, from `SubscribedInv`
(while the loop runs the subscriptions are in place, and in the drain nothing can
be issued any more); and, if `MaxDrain >= 2`, `DrainIsEnough`:
`Spec => []NothingLeftBehind`, from `DrainInv` (after one iteration there are no
tasks, after two no callbacks).

### The facade

`DesktopServicesProofs`, for all backends, processes and handles:

* `TypeCorrect`: `Spec => []TypeOK`, with `SomeBackend` (a discovery is one of a
  backend) as the strengthening;
* `HandleComesFirst`: `Spec => []HandleBeforeCompletion`, and `ReplacedAreSilent`:
  `Spec => OnlyCurrentIsHeard`. Both follow from `SignalInv`: only the backend in
  use is connected, a request and its queued completion belong to the backend
  that made it, and a handle that was made is the game's unless the call that
  returns it is still running;
* `DiscoveriesAreWhole`: `Spec => []CapabilitiesMatchVersions`: no version without
  the capability, and with a native backend no capability without its version. It
  follows from `DiscoveryInv`, which says what holds between the halves of a
  discovery, while the portal's exports may change;
* `HandlesAreAccountedFor`: `Spec => []CurrentHandlesInSight`, from `SightInv`: a
  request of the backend in use is registered with it, or its completion is in
  Godot's queue, or was heard, or, of a mock, was missed while another backend was
  in use. The last case is why the model has `missed`: without it the property
  fails once the game goes back to a mock, which takes three swaps;
* `RegistrationsRecorded` and `BackendsLeaveNothing`: `Spec =>
  []RegistrationsAreRecorded` and `[]NothingLeftBehind`, whichever calls time out.
  `AccountInv` is a book-keeping of every registration: held, being made
  (`RegistersAwaited`: a registering call on its way is the one the main thread waits
  for, or one that it gave up), being released, or given up. That a call about a
  process that succeeds settles what is known of it rests on `CallsInOrder`: calls
  are carried out in the order in which they were made, so none about it is still
  on its way then.

### Synchronous calls

`PortalCallsProofs`, for any number of calls, restarts and actions:

* `SchemesAreThoseOfTheRFC`: `Spec => []SchemesFollowRFC`, for URIs of any length;
* `TypeCorrect`: `Spec => []TypeOK`;
* `CallsReturnTheAnswer`: `Spec => []AnswersAreThePortals`, from `RepliesInv` (the
  answer on its way back is the portal's, or says that there is none);
* `FailuresReportedOnce`: `Spec => []FailuresAreReported`, from `ReportsInv`: every
  failure was heard of, is an error in Godot's queue, or is that of the call that is
  about to return (`Due`). That the layers refuse what the RFC rules out, and report
  it once between them, is `RefusalsReported`, which rests on `LayersAgree`;
* `ActionsArriveInOrder`: `Spec => []ActionsArrive`, from `ArrivalInv` (the queues
  hold the actions in the order in which they were sent, each once, and what is in
  none of them was heard). It assumes of the conversion that parameters of an action
  keep their meaning, which `ConversionIsFaithful` checks on all small values.

### The macOS monitor

`MacPowerMonitorProofs`, for any number of pending notifications: `TypeCorrect`;
`NoUseAfterFree`: `Spec => []NoBlockOnFreed`; `HeardIsCurrent`:
`Spec => []CurrentWhenQuiet`, from `LatestInv` (the newest thing under way, if
there is one, tells the mode there is), which needs that blocks run one at a time.

### Only model-checked

Liveness under fairness (`EveryRequestEnds`, `BecomesCurrent`,
`MainThreadReturns`, `LastingModeIsHeard`, `DestructorReturns`) is out of the
prover's reach. So is `ConversionIsFaithful`, about recursive definitions. Every
other property of a passing run is stated by a theorem.

Where the assumption of a theorem fails, section 3 says what happens instead; those
cases are violations, not properties that were left unproved.

## 6. The plan

What was planned is built: every safety and action property of a passing run but
`ConversionIsFaithful` has its theorem. The theorems about registrations, about the
version cache, about the routes and answers of requests and about the synchronous
calls need no assumption on the environment (`ActionsArriveInOrder` one on the
conversion). Where others do, a theorem without it says which step is to blame:
`SoundWhileStanding`, `LifeWhileStanding` and `ClosableWhileStanding` for the life of
a request, `OnlyOverflowsAndLateClosesStrand` for stranding, `OnlyOvertakenSeedsMislead` for the power-saver state.

Open are `ConversionIsFaithful` and liveness, which this prover cannot do; and how long a wrong power-saver state
lasts after an unquiet start-up, which no property says.

## 7. Not modelled

* Registration and the editor plugin (`register_types.cpp`, `plugin.gd`): they
  register classes and settings and keep no state.
* Demo, tests, scripts and the site: they are not part of the addon.
* Of a mock backend, the record of calls it keeps for tests; a null backend has
  no module of its own, as it serves nothing.
* `is_power_saver_enabled` of the facade, which passes a value on, the wording of
  errors, the fields of a notification and the names of its priorities, the flag
  check of `inhibit()`, and the `docs/` beyond the claims quoted above.
