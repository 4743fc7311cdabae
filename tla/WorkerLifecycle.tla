--------------------------- MODULE WorkerLifecycle ---------------------------
(***************************************************************************)
(* The life of one XdgPortalNative: the main thread connects to the bus    *)
(* with a bound, starts the worker, hands asynchronous calls over to it    *)
(* and waits for each hand-over with a bound, and tears everything down;   *)
(* the worker subscribes, runs its loop, and on the way out unsubscribes,  *)
(* closes the connection and drains its context.  The bus may never answer *)
(* the connection attempt, drop the connection, or leave calls unanswered. *)
(*                                                                         *)
(* A call stands for whatever owns a payload that only its reply callback  *)
(* frees (RequestCallContext, PropertyRead).  What the callbacks do to the *)
(* requests and the portal state is in PortalRequests and PortalState.     *)
(***************************************************************************)
EXTENDS Integers, FiniteSets

CONSTANTS
  Calls,     \* asynchronous calls, each with a payload of its own
  NoCall,
  MaxDrain   \* MAX_DRAIN_ITERATIONS

ASSUME CallsAssumption == IsFiniteSet(Calls) /\ NoCall \notin Calls
ASSUME MaxDrainAssumption == MaxDrain \in Nat

VARIABLES
  \* the main thread: its place in the constructor, a hand-over or the destructor,
  \* and the call it waits for
  main, waiting,
  \* members: connect_bus()'s attempt and what came of it; the GCancellable's and
  \* the GMainLoop's flag; shutting_down
  attempt, connection, unavailable_reason, cancelled, loop_running, shutting_down,
  \* the worker: its place, are its subscriptions in place, iterations of the drain
  worker, subscribed, drains,
  \* of each call: who has its payload
  call

waitVars == <<main, waiting>>
busVars == <<attempt, connection, unavailable_reason>>
flagVars == <<cancelled, loop_running, shutting_down>>
workerVars == <<worker, subscribed, drains>>
vars == <<waitVars, busVars, flagVars, workerVars, call>>

Constructing == {"new", "connecting", "grace", "connected", "seeding"}
TearingDown == {"cancelling", "quitting", "joining"}

ThreadTypes ==
  /\ main \in Constructing \cup {"idle", "waiting"} \cup TearingDown \cup {"gone"}
  /\ waiting \in Calls \cup {NoCall}
  /\ worker \in {"none", "starting", "subscribed", "looping", "unsubscribed", "draining", "ended"}
  /\ drains \in 0..MaxDrain
BusTypes ==
  /\ attempt \in {"none", "pending", "connected", "failed"}
  /\ connection \in {"none", "open", "closed"}
  /\ unavailable_reason \in {"", "error", "timeout"}
FlagTypes ==
  /\ cancelled \in BOOLEAN /\ loop_running \in BOOLEAN
  /\ shutting_down \in BOOLEAN /\ subscribed \in BOOLEAN
CallTypes == call \in [Calls -> {"unused", "task", "issued", "ready", "freed"}]

\* Every variable holds a value of the kind its declaration in the code allows; the
\* drain is bounded.
TypeOK == ThreadTypes /\ BusTypes /\ FlagTypes /\ CallTypes

Init ==
  /\ main = "new" /\ waiting = NoCall
  /\ attempt = "none" /\ connection = "none" /\ unavailable_reason = ""
  /\ cancelled = FALSE /\ loop_running = FALSE /\ shutting_down = FALSE
  /\ worker = "none" /\ subscribed = FALSE /\ drains = 0
  /\ call = [k \in Calls |-> "unused"]

-----------------------------------------------------------------------------
(* The constructor, on the main thread: connect_bus() and start_worker().  *)

\* There is no address to connect to: the object is constructed, and unavailable.
FindNoAddress ==
  /\ main = "new"
  /\ unavailable_reason' = "error"
  /\ main' = "idle"
  /\ UNCHANGED <<waiting, attempt, connection, flagVars, workerVars, call>>

\* The asynchronous attempt; main iterates the context until it is done or timed out.
BeginConnect ==
  /\ main = "new"
  /\ attempt' = "pending"
  /\ main' = "connecting"
  /\ UNCHANGED <<waiting, connection, unavailable_reason, flagVars, workerVars, call>>

\* Mutant: the attempt is cancelled whether it is done or not.
CancelAnyway ==
  /\ main = "connecting"
  /\ cancelled' = TRUE
  /\ main' = "grace"
  /\ UNCHANGED <<waiting, busVars, loop_running, shutting_down, workerVars, call>>

\* CONNECT_TIMEOUT_MS are over: cancel, and wait a moment for that to be reported.
GiveUpConnecting ==
  /\ main = "connecting"
  /\ attempt = "pending"
  /\ cancelled' = TRUE
  /\ main' = "grace"
  /\ UNCHANGED <<waiting, busVars, loop_running, shutting_down, workerVars, call>>

\* Mutant: the wait for the cancelled attempt has no bound.
FinishWhenDone ==
  /\ main \in {"connecting", "grace"} /\ attempt # "pending"
  /\ connection' = IF attempt = "connected" THEN "open" ELSE "none"
  /\ unavailable_reason' = IF attempt = "connected" THEN "" ELSE "error"
  /\ main' = IF attempt = "connected" THEN "connected" ELSE "idle"
  /\ UNCHANGED <<waiting, attempt, flagVars, workerVars, call>>

\* The attempt is done, or CONNECT_CANCEL_GRACE_MS are over, too.
FinishConnect ==
  /\ \/ main = "connecting" /\ attempt # "pending"
     \/ main = "grace"
  /\ \/ /\ attempt = "connected"
        /\ connection' = "open"
        /\ main' = "connected"
        /\ UNCHANGED unavailable_reason
     \/ /\ attempt # "connected"
        /\ unavailable_reason' = IF attempt = "pending" \/ cancelled THEN "timeout" ELSE "error"
        /\ main' = "idle"
        /\ UNCHANGED connection
  /\ UNCHANGED <<waiting, attempt, flagVars, workerVars, call>>

\* The loop is made, and the thread; the constructor still has its reads to do.
StartWorker ==
  /\ main = "connected"
  /\ worker' = "starting"
  /\ main' = "seeding"
  /\ UNCHANGED <<waiting, busVars, flagVars, subscribed, drains, call>>

-----------------------------------------------------------------------------
(* run_on_worker(), on the main thread, with a task that makes a call.     *)

HandOver(k) ==
  /\ main \in {"seeding", "idle"}
  /\ connection # "none"
  /\ call[k] = "unused"
  /\ call' = [call EXCEPT ![k] = "task"]
  /\ waiting' = k
  /\ main' = "waiting"
  /\ UNCHANGED <<busVars, flagVars, workerVars>>

\* The task is done, or SYNC_CALL_TIMEOUT_MS are over and it may run later: a wait
\* may end in any state.
Return ==
  /\ main = "waiting"
  /\ main' = "idle"
  /\ waiting' = NoCall
  /\ UNCHANGED <<busVars, flagVars, workerVars, call>>

-----------------------------------------------------------------------------
(* teardown(), on the main thread, as the last reference goes.             *)

BeginTeardown ==
  /\ main = "idle"
  /\ shutting_down' = TRUE
  /\ main' = "cancelling"
  /\ UNCHANGED <<waiting, busVars, cancelled, loop_running, workerVars, call>>

\* Whatever ends the calls GDBus has queues their callbacks on the context.
Settled == [k \in Calls |-> IF call[k] = "issued" THEN "ready" ELSE call[k]]

CancelCalls ==
  /\ main = "cancelling"
  /\ IF connection = "none"
       THEN UNCHANGED <<cancelled, call>>
       ELSE cancelled' = TRUE /\ call' = Settled
  /\ main' = "quitting"
  /\ UNCHANGED <<waiting, busVars, loop_running, shutting_down, workerVars>>

\* g_main_loop_quit() clears the flag that g_main_loop_run() sets.
QuitLoop ==
  /\ main = "quitting"
  /\ loop_running' = FALSE
  /\ main' = "joining"
  /\ UNCHANGED <<waiting, busVars, cancelled, shutting_down, workerVars, call>>

\* Members are released once the worker has ended.  A context that goes frees the
\* tasks it still has; the payload of a callback that it still has is lost.
JoinWorker ==
  /\ main = "joining"
  /\ worker \in {"none", "ended"}
  /\ connection' = "none"
  /\ call' = [k \in Calls |-> IF call[k] = "task" THEN "freed" ELSE call[k]]
  /\ main' = "gone"
  /\ UNCHANGED <<waiting, attempt, unavailable_reason, flagVars, workerVars>>

-----------------------------------------------------------------------------
(* The worker thread.                                                      *)

\* Mutant: the subscriptions are left to the running loop.
SubscribeLater ==
  /\ worker = "starting"
  /\ worker' = "subscribed"
  /\ UNCHANGED <<waitVars, busVars, flagVars, subscribed, drains, call>>

SubscribeAll ==
  /\ worker = "starting"
  /\ subscribed' = TRUE
  /\ worker' = "subscribed"
  /\ UNCHANGED <<waitVars, busVars, flagVars, drains, call>>

RunLoop ==
  /\ worker = "subscribed"
  /\ loop_running' = TRUE
  /\ worker' = "looping"
  /\ UNCHANGED <<waitVars, busVars, cancelled, shutting_down, subscribed, drains, call>>

\* g_dbus_connection_call(): with a cancellable that is cancelled, or a connection
\* that is closed, the error is all there will be.
Issued == IF cancelled \/ connection = "closed" THEN "ready" ELSE "issued"

\* run_worker_task(), which wakes whoever waits for it.
RunTask(k) ==
  /\ worker = "looping"
  /\ call[k] = "task"
  /\ call' = [call EXCEPT ![k] = Issued]
  /\ UNCHANGED <<waitVars, busVars, flagVars, workerVars>>

\* The reply callback; whatever it does, it frees the payload.
RunCallback(k) ==
  /\ worker = "looping"
  /\ call[k] = "ready"
  /\ call' = [call EXCEPT ![k] = "freed"]
  /\ UNCHANGED <<waitVars, busVars, flagVars, workerVars>>

\* A callback of a subscription makes a call of its own; on the worker run_on_worker()
\* needs no hand-over.  (Bound: one of Calls is left to the main thread.)
CallFromCallback(k) ==
  /\ worker = "looping"
  /\ call[k] = "unused" /\ \E j \in Calls \ {k} : call[j] = "unused"
  /\ call' = [call EXCEPT ![k] = Issued]
  /\ UNCHANGED <<waitVars, busVars, flagVars, workerVars>>

\* g_main_loop_run() returns: unsubscribe_all().
LeaveLoop ==
  /\ worker = "looping"
  /\ ~loop_running
  /\ subscribed' = FALSE
  /\ worker' = "unsubscribed"
  /\ UNCHANGED <<waitVars, busVars, flagVars, drains, call>>

CloseConnection ==
  /\ worker = "unsubscribed"
  /\ connection' = "closed"
  /\ call' = Settled
  /\ worker' = "draining"
  /\ UNCHANGED <<waitVars, attempt, unavailable_reason, flagVars, subscribed, drains>>

Queued == {k \in Calls : call[k] \in {"task", "ready"}}

\* Mutant: nothing is drained.
DrainNothing ==
  /\ worker = "draining"
  /\ worker' = "ended"
  /\ UNCHANGED <<waitVars, busVars, flagVars, subscribed, drains, call>>

\* Mutant: it goes on whether anything was dispatched or not, once too often.
DrainOnceMore ==
  /\ worker = "draining"
  /\ drains' = drains + 1
  /\ worker' = IF drains = MaxDrain THEN "ended" ELSE "draining"
  /\ call' = [k \in Calls |-> IF call[k] = "task" THEN Issued
                              ELSE IF call[k] = "ready" THEN "freed" ELSE call[k]]
  /\ UNCHANGED <<waitVars, busVars, flagVars, subscribed>>

\* One iteration dispatches everything the context has, and what that queues is
\* left to the next one.
Drain ==
  /\ worker = "draining"
  /\ \/ /\ Queued # {} /\ drains < MaxDrain
        /\ drains' = drains + 1
        /\ call' = [k \in Calls |-> IF call[k] = "task" THEN Issued
                                    ELSE IF call[k] = "ready" THEN "freed" ELSE call[k]]
        /\ UNCHANGED worker
     \/ /\ Queued = {} \/ drains = MaxDrain
        /\ worker' = "ended"
        /\ UNCHANGED <<drains, call>>
  /\ UNCHANGED <<waitVars, busVars, flagVars, subscribed>>

-----------------------------------------------------------------------------
(* GDBus and the bus.                                                      *)

\* The bus accepts or refuses the client; a cancelled attempt can only fail.
AnswerAttempt ==
  /\ main \in {"connecting", "grace"}
  /\ attempt = "pending"
  /\ attempt' \in IF cancelled THEN {"failed"} ELSE {"connected", "failed"}
  /\ UNCHANGED <<waitVars, connection, unavailable_reason, flagVars, workerVars, call>>

\* A reply, an error or the time-out of the call.
SettleCall(k) ==
  /\ call[k] = "issued"
  /\ call' = [call EXCEPT ![k] = "ready"]
  /\ UNCHANGED <<waitVars, busVars, flagVars, workerVars>>

\* The bus goes away; the game goes on.
DropConnection ==
  /\ connection = "open"
  /\ connection' = "closed"
  /\ call' = Settled
  /\ UNCHANGED <<waitVars, attempt, unavailable_reason, flagVars, workerVars>>

-----------------------------------------------------------------------------
Constructor == FindNoAddress \/ BeginConnect \/ GiveUpConnecting \/ FinishConnect \/ StartWorker
Teardown == BeginTeardown \/ CancelCalls \/ QuitLoop \/ JoinWorker
MainThread == Constructor \/ (\E k \in Calls : HandOver(k)) \/ Return \/ Teardown

WorkerThread ==
  \/ SubscribeAll \/ RunLoop \/ LeaveLoop \/ CloseConnection \/ Drain
  \/ \E k \in Calls : RunTask(k) \/ RunCallback(k)

Signals == \E k \in Calls : CallFromCallback(k)

Bus == AnswerAttempt \/ DropConnection \/ \E k \in Calls : SettleCall(k)

Next == MainThread \/ WorkerThread \/ Signals \/ Bus

Spec == Init /\ [][Next]_vars

(* Fairness: both threads are scheduled, so a wait with a bound ends; the  *)
(* constructor goes on to hand its reads over.  The bus need not answer or *)
(* signal anything, and the game need neither call nor destroy the object. *)
Fairness ==
  /\ WF_vars(Constructor \/ Return \/ CancelCalls \/ QuitLoop \/ JoinWorker)
  /\ WF_vars(main = "seeding" /\ \E k \in Calls : HandOver(k))
  /\ WF_vars(WorkerThread)

FairSpec == Spec /\ Fairness

-----------------------------------------------------------------------------
(* Properties.                                                             *)

\* A constructed object either says why it is unavailable, or has a connection
\* whose calls are not cancelled before they are made (connect_bus's two waits).
UsableOrExplained ==
  main \in {"seeding", "idle", "waiting"} =>
    \/ connection = "none" /\ unavailable_reason # ""
    \/ connection # "none" /\ unavailable_reason = "" /\ ~cancelled

\* No call reaches the bus unless the subscriptions its answers depend on are in
\* place: none overtakes them, and none is made once they are gone, although tasks
\* that were given up still run, in the drain at the latest.
SubscribedWhenSent ==
  [][\A k \in Calls : call'[k] = "issued" => call[k] = "issued" \/ subscribed]_vars

\* teardown() leaves nothing behind: the worker has ended, every payload was freed
\* by its callback and every task that never ran with the context.
NothingLeftBehind ==
  main = "gone" => worker \in {"none", "ended"} /\ \A k \in Calls : call[k] \in {"unused", "freed"}

\* g_main_loop_quit() came before g_main_loop_run(): it is lost, and the join waits
\* for a loop that nothing ends.
QuitLost == main = "joining" /\ worker = "looping" /\ loop_running

\* The constructor, every hand-over and the destructor return, even if the bus
\* never answers; there is one exception, a worker so slow to start that the
\* object is destroyed before it runs its loop.
MainThreadReturns == main \notin {"idle", "gone"} ~> main \in {"idle", "gone"} \/ QuitLost

=============================================================================
