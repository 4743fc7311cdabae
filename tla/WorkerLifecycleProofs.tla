------------------------ MODULE WorkerLifecycleProofs ------------------------
(***************************************************************************)
(* Theorems about WorkerLifecycle, for every set of calls and every bound  *)
(* of the drain, but for the last one, which needs two iterations.         *)
(***************************************************************************)
EXTENDS WorkerLifecycle, TLAPS

Before == {"new", "connecting", "grace", "connected"}   \* there is a worker
Leaving == {"unsubscribed", "draining"}

\* The constructor comes to a connection without a reason, or the other way round.
ConnectInv ==
  /\ main \in {"new", "connecting", "grace"} => connection = "none" /\ unavailable_reason = ""
  /\ main \in {"new", "connecting"} => ~cancelled
  /\ main = "grace" => cancelled /\ attempt # "connected"
  /\ main = "connected" => connection # "none" /\ unavailable_reason = "" /\ ~cancelled
  /\ UsableOrExplained

\* Where the worker may be, by where the main thread is.
WorkerInv ==
  /\ main \in Before => worker = "none"
  /\ main \notin Before /\ connection # "none" => worker # "none"
  /\ worker \notin {"none", "ended"} => connection # "none"
  /\ worker = "looping" /\ ~loop_running => main = "joining"
  /\ worker \in Leaving => main = "joining"
  /\ worker = "ended" => main \in {"joining", "gone"}
  /\ main = "gone" => worker \in {"none", "ended"}

SubscribedInv ==
  /\ worker \in {"subscribed", "looping"} => subscribed
  /\ worker = "draining" => connection = "closed"

\* What the drain has still to do, by the iterations it has done.
DrainInv ==
  /\ worker = "none" => \A k \in Calls : call[k] = "unused"
  /\ worker = "draining" => \A k \in Calls : call[k] # "issued"
  /\ worker = "draining" /\ drains > 0 => \A k \in Calls : call[k] # "task"
  /\ worker = "draining" /\ drains > 1 => \A k \in Calls : call[k] # "ready"
  /\ worker \notin Leaving \cup {"ended"} => drains = 0
  /\ worker = "unsubscribed" => drains = 0
  /\ worker = "ended" => \A k \in Calls : call[k] \in {"unused", "freed"}

-----------------------------------------------------------------------------
LEMMA InitTypes == Init => TypeOK
<1> SUFFICES ASSUME Init PROVE TypeOK
  OBVIOUS
<1>1. ThreadTypes
  <2>1. drains = 0
    BY Zenon DEF Init
  <2>2. drains \in 0..MaxDrain
    BY MaxDrainAssumption, <2>1
  <2>3. QED
    BY <2>2, Zenon DEF Init, ThreadTypes, Constructing
<1>2. FlagTypes /\ BusTypes
  BY Zenon DEF Init, FlagTypes, BusTypes
<1>3. CallTypes
  BY DEF Init, CallTypes
<1>4. QED
  BY <1>1, <1>2, <1>3 DEF TypeOK

\* Every action in one line, for the groups of variables one at a time.
LEMMA Steps ==
  ASSUME [Next]_vars
  PROVE  \/ FindNoAddress \/ BeginConnect \/ GiveUpConnecting \/ FinishConnect \/ StartWorker
         \/ (\E k \in Calls : HandOver(k)) \/ Return
         \/ BeginTeardown \/ CancelCalls \/ QuitLoop \/ JoinWorker
         \/ SubscribeAll \/ RunLoop \/ LeaveLoop \/ CloseConnection \/ Drain
         \/ (\E k \in Calls : RunTask(k) \/ RunCallback(k) \/ SettleCall(k) \/ CallFromCallback(k))
         \/ AnswerAttempt \/ DropConnection \/ UNCHANGED vars
BY DEF Next, MainThread, Constructor, Teardown, WorkerThread, Signals, Bus

LEMMA FlagsKeepTypes == FlagTypes /\ [Next]_vars => FlagTypes'
<1> SUFFICES ASSUME FlagTypes, [Next]_vars PROVE FlagTypes'
  OBVIOUS
<1> USE DEF FlagTypes, flagVars, workerVars
<1>1. CASE FindNoAddress \/ BeginConnect \/ GiveUpConnecting \/ FinishConnect \/ StartWorker
  BY <1>1, Zenon DEF FindNoAddress, BeginConnect, GiveUpConnecting, FinishConnect, StartWorker
<1>2. CASE (\E k \in Calls : HandOver(k)) \/ Return
  BY <1>2, Zenon DEF HandOver, Return
<1>3. CASE BeginTeardown \/ QuitLoop \/ JoinWorker
  BY <1>3, Zenon DEF BeginTeardown, QuitLoop, JoinWorker
<1>4. CASE CancelCalls
  BY <1>4, Zenon DEF CancelCalls
<1>5. CASE SubscribeAll \/ RunLoop \/ LeaveLoop \/ CloseConnection \/ Drain
  BY <1>5, Zenon DEF SubscribeAll, RunLoop, LeaveLoop, CloseConnection, Drain
<1>6. CASE \E k \in Calls : RunTask(k) \/ RunCallback(k) \/ SettleCall(k) \/ CallFromCallback(k)
  BY <1>6, Zenon DEF RunTask, RunCallback, SettleCall, CallFromCallback
<1>7. CASE AnswerAttempt \/ DropConnection \/ UNCHANGED vars
  BY <1>7, Zenon DEF AnswerAttempt, DropConnection, vars
<1>8. QED
  BY <1>1, <1>2, <1>3, <1>4, <1>5, <1>6, <1>7, Steps

LEMMA BusKeepsTypes == BusTypes /\ [Next]_vars => BusTypes'
<1> SUFFICES ASSUME BusTypes, [Next]_vars PROVE BusTypes'
  OBVIOUS
<1> USE DEF BusTypes, busVars
<1>1. CASE FindNoAddress \/ BeginConnect \/ GiveUpConnecting \/ StartWorker
  BY <1>1 DEF FindNoAddress, BeginConnect, GiveUpConnecting, StartWorker
<1>2. CASE FinishConnect
  BY <1>2 DEF FinishConnect
<1>3. CASE (\E k \in Calls : HandOver(k)) \/ Return
  BY <1>3 DEF HandOver, Return
<1>4. CASE BeginTeardown \/ CancelCalls \/ QuitLoop \/ JoinWorker
  BY <1>4 DEF BeginTeardown, CancelCalls, QuitLoop, JoinWorker
<1>5. CASE SubscribeAll \/ RunLoop \/ LeaveLoop \/ CloseConnection \/ Drain
  BY <1>5 DEF SubscribeAll, RunLoop, LeaveLoop, CloseConnection, Drain
<1>6. CASE \E k \in Calls : RunTask(k) \/ RunCallback(k) \/ SettleCall(k) \/ CallFromCallback(k)
  BY <1>6 DEF RunTask, RunCallback, SettleCall, CallFromCallback
<1>7. CASE AnswerAttempt \/ DropConnection \/ UNCHANGED vars
  BY <1>7 DEF AnswerAttempt, DropConnection, vars
<1>8. QED
  BY <1>1, <1>2, <1>3, <1>4, <1>5, <1>6, <1>7, Steps

LEMMA ThreadsKeepTypes == ThreadTypes /\ [Next]_vars => ThreadTypes'
<1> SUFFICES ASSUME ThreadTypes, [Next]_vars PROVE ThreadTypes'
  OBVIOUS
<1> USE DEF ThreadTypes, Constructing, TearingDown, waitVars, workerVars
<1>1. CASE FindNoAddress \/ BeginConnect \/ GiveUpConnecting \/ StartWorker
  BY <1>1 DEF FindNoAddress, BeginConnect, GiveUpConnecting, StartWorker
<1>2. CASE FinishConnect
  BY <1>2 DEF FinishConnect
<1>3. CASE (\E k \in Calls : HandOver(k)) \/ Return
  BY <1>3 DEF HandOver, Return
<1>4. CASE BeginTeardown \/ CancelCalls \/ QuitLoop \/ JoinWorker
  BY <1>4 DEF BeginTeardown, CancelCalls, QuitLoop, JoinWorker
<1>5. CASE SubscribeAll \/ RunLoop \/ LeaveLoop \/ CloseConnection
  BY <1>5 DEF SubscribeAll, RunLoop, LeaveLoop, CloseConnection
<1>6. CASE Drain
  BY <1>6, MaxDrainAssumption DEF Drain
<1>7. CASE \E k \in Calls : RunTask(k) \/ RunCallback(k) \/ SettleCall(k) \/ CallFromCallback(k)
  BY <1>7 DEF RunTask, RunCallback, SettleCall, CallFromCallback
<1>8. CASE AnswerAttempt \/ DropConnection \/ UNCHANGED vars
  BY <1>8 DEF AnswerAttempt, DropConnection, vars
<1>9. QED
  BY <1>1, <1>2, <1>3, <1>4, <1>5, <1>6, <1>7, <1>8, Steps

LEMMA CallsKeepTypes == CallTypes /\ [Next]_vars => CallTypes'
<1> SUFFICES ASSUME CallTypes, [Next]_vars PROVE CallTypes'
  OBVIOUS
<1> USE DEF CallTypes
<1>1. CASE \/ FindNoAddress \/ BeginConnect \/ GiveUpConnecting \/ FinishConnect \/ StartWorker
           \/ Return \/ BeginTeardown \/ QuitLoop \/ SubscribeAll \/ RunLoop \/ LeaveLoop
           \/ AnswerAttempt \/ UNCHANGED vars
  <2>1. UNCHANGED call
    BY <1>1, Zenon DEF FindNoAddress, BeginConnect, GiveUpConnecting, FinishConnect, StartWorker,
       Return, BeginTeardown, QuitLoop, SubscribeAll, RunLoop, LeaveLoop, AnswerAttempt, vars
  <2>2. QED
    BY <2>1
<1>2. CASE \E k \in Calls : HandOver(k)
  BY <1>2 DEF HandOver
<1>3. CASE CancelCalls \/ CloseConnection \/ DropConnection
  <2>1. UNCHANGED call \/ call' = Settled
    BY <1>3, Zenon DEF CancelCalls, CloseConnection, DropConnection
  <2>2. QED
    BY <2>1 DEF Settled
<1>4. CASE JoinWorker
  BY <1>4 DEF JoinWorker
<1>5. CASE Drain
  BY <1>5 DEF Drain, Issued
<1>6. CASE \E k \in Calls : RunTask(k) \/ RunCallback(k) \/ SettleCall(k) \/ CallFromCallback(k)
  BY <1>6 DEF RunTask, RunCallback, SettleCall, CallFromCallback, Issued
<1>7. QED
  BY <1>1, <1>2, <1>3, <1>4, <1>5, <1>6, Steps

\* Every variable keeps its type (members of xdg_portal_native.h, "Worker-thread
\* plumbing"), and the drain at tear-down its bound.
THEOREM TypeCorrect == Spec => []TypeOK
<1>1. TypeOK /\ [Next]_vars => TypeOK'
  BY FlagsKeepTypes, BusKeepsTypes, ThreadsKeepTypes, CallsKeepTypes DEF TypeOK
<1>2. QED
  BY InitTypes, <1>1, PTL DEF Spec

-----------------------------------------------------------------------------
\* ConnectInv and WorkerInv only speak of where things are, and hold together.
LEMMA PlacesInductive ==
  /\ Init => ConnectInv /\ WorkerInv
  /\ ConnectInv /\ WorkerInv /\ [Next]_vars => (ConnectInv /\ WorkerInv)'
<1> USE DEF ConnectInv, WorkerInv, UsableOrExplained, Before, Leaving, waitVars, busVars, flagVars,
            workerVars
<1>1. Init => ConnectInv /\ WorkerInv
  BY DEF Init
<1>2. ASSUME ConnectInv, WorkerInv, [Next]_vars PROVE (ConnectInv /\ WorkerInv)'
  <2>1. CASE FindNoAddress
    BY <1>2, <2>1 DEF FindNoAddress
  <2>2. CASE BeginConnect
    BY <1>2, <2>2 DEF BeginConnect
  <2>3. CASE GiveUpConnecting
    BY <1>2, <2>3 DEF GiveUpConnecting
  <2>4. CASE FinishConnect
    BY <1>2, <2>4 DEF FinishConnect
  <2>5. CASE StartWorker
    BY <1>2, <2>5 DEF StartWorker
  <2>6. ASSUME NEW k \in Calls, HandOver(k) PROVE (ConnectInv /\ WorkerInv)'
    BY <1>2, <2>6 DEF HandOver
  <2>7. CASE Return
    BY <1>2, <2>7 DEF Return
  <2>8. CASE BeginTeardown
    BY <1>2, <2>8 DEF BeginTeardown
  <2>9. CASE CancelCalls
    BY <1>2, <2>9 DEF CancelCalls
  <2>10. CASE QuitLoop
    BY <1>2, <2>10 DEF QuitLoop
  <2>11. CASE JoinWorker
    BY <1>2, <2>11 DEF JoinWorker
  <2>12. CASE SubscribeAll \/ RunLoop
    <3>1. UNCHANGED <<main, connection, unavailable_reason, cancelled, attempt>>
      BY <2>12, Zenon DEF SubscribeAll, RunLoop
    <3>2. worker \in {"starting", "subscribed"}
      BY <2>12, Zenon DEF SubscribeAll, RunLoop
    <3>3. worker' \in {"subscribed", "looping"} /\ (worker' = "looping" => loop_running')
      BY <2>12, Zenon DEF SubscribeAll, RunLoop
    <3>4. ConnectInv'
      BY <1>2, <3>1, Zenon
    <3>5. QED
      BY <1>2, <3>1, <3>2, <3>3, <3>4
  <2>13. CASE LeaveLoop \/ CloseConnection
    BY <1>2, <2>13 DEF LeaveLoop, CloseConnection
  <2>14. CASE Drain
    BY <1>2, <2>14 DEF Drain
  <2>15. ASSUME NEW k \in Calls, RunTask(k) \/ RunCallback(k) \/ SettleCall(k) \/ CallFromCallback(k)
         PROVE (ConnectInv /\ WorkerInv)'
    <3>1. UNCHANGED <<waitVars, busVars, flagVars, workerVars>>
      BY <2>15, Zenon DEF RunTask, RunCallback, SettleCall, CallFromCallback
    <3>2. QED
      BY <1>2, <3>1, Zenon
  <2>16. CASE AnswerAttempt
    BY <1>2, <2>16 DEF AnswerAttempt
  <2>17. CASE DropConnection
    BY <1>2, <2>17 DEF DropConnection
  <2>18. CASE UNCHANGED vars
    BY <1>2, <2>18 DEF vars
  <2>19. QED
    BY <1>2, <2>1, <2>2, <2>3, <2>4, <2>5, <2>6, <2>7, <2>8, <2>9, <2>10, <2>11, <2>12, <2>13,
       <2>14, <2>15, <2>16, <2>17, <2>18
       DEF Next, MainThread, Constructor, Teardown, WorkerThread, Signals, Bus
<1>3. QED
  BY <1>1, <1>2

LEMMA PlacesCorrect == Spec => [](ConnectInv /\ WorkerInv)
BY PlacesInductive, PTL DEF Spec

\* A constructed object says why it is unavailable, or can be used: an attempt that
\* connect_bus() cancels is never one that succeeded.
THEOREM ConnectedOrExplained == Spec => []UsableOrExplained
<1>1. ConnectInv /\ WorkerInv => UsableOrExplained
  BY DEF ConnectInv
<1>2. QED
  BY PlacesCorrect, <1>1, PTL

-----------------------------------------------------------------------------
LEMMA SubscribedInductive ==
  /\ Init => SubscribedInv
  /\ ConnectInv /\ WorkerInv /\ SubscribedInv /\ [Next]_vars => SubscribedInv'
<1> USE DEF SubscribedInv, waitVars, busVars, flagVars, workerVars
<1>1. Init => SubscribedInv
  BY DEF Init
<1>2. ASSUME ConnectInv, WorkerInv, SubscribedInv, [Next]_vars PROVE SubscribedInv'
  <2>1. CASE FindNoAddress \/ BeginConnect \/ GiveUpConnecting \/ FinishConnect \/ StartWorker
    BY <1>2, <2>1, Zenon
       DEF FindNoAddress, BeginConnect, GiveUpConnecting, FinishConnect, StartWorker, WorkerInv, Before
  <2>2. CASE (\E k \in Calls : HandOver(k)) \/ Return
    BY <1>2, <2>2, Zenon DEF HandOver, Return
  <2>3. CASE BeginTeardown \/ CancelCalls \/ QuitLoop
    BY <1>2, <2>3, Zenon DEF BeginTeardown, CancelCalls, QuitLoop
  <2>4. CASE JoinWorker
    BY <1>2, <2>4, Zenon DEF JoinWorker
  <2>5. CASE SubscribeAll \/ RunLoop
    BY <1>2, <2>5, Zenon DEF SubscribeAll, RunLoop
  <2>6. CASE LeaveLoop \/ CloseConnection \/ Drain
    <3>1. CASE LeaveLoop
      BY <3>1, Zenon DEF LeaveLoop
    <3>2. CASE CloseConnection
      BY <3>2, Zenon DEF CloseConnection
    <3>3. CASE Drain
      <4>1. worker = "draining" /\ worker' \in {"draining", "ended"} /\ connection' = connection
        BY <3>3, Zenon DEF Drain
      <4>2. QED
        BY <1>2, <4>1, Zenon
    <3>4. QED
      BY <2>6, <3>1, <3>2, <3>3
  <2>7. CASE \E k \in Calls : RunTask(k) \/ RunCallback(k) \/ SettleCall(k) \/ CallFromCallback(k)
    <3>1. UNCHANGED <<worker, subscribed, connection>>
      <4>1. PICK k \in Calls : RunTask(k) \/ RunCallback(k) \/ SettleCall(k) \/ CallFromCallback(k)
        BY <2>7
      <4>2. QED
        BY <4>1, Zenon DEF RunTask, RunCallback, SettleCall, CallFromCallback
    <3>2. QED
      BY <1>2, <3>1, Zenon
  <2>8. CASE AnswerAttempt \/ DropConnection \/ UNCHANGED vars
    BY <1>2, <2>8, Zenon DEF AnswerAttempt, DropConnection, vars
  <2>9. QED
    BY <1>2, <2>1, <2>2, <2>3, <2>4, <2>5, <2>6, <2>7, <2>8, Steps
<1>3. QED
  BY <1>1, <1>2

\* What a step makes of a call: it reaches the bus from a running loop only, because
\* the drain comes after the connection was closed.
LEMMA SendingStep ==
  ASSUME CallTypes, SubscribedInv, [Next]_vars, NEW k \in Calls, call'[k] = "issued"
  PROVE  call[k] = "issued" \/ subscribed
<1> USE DEF CallTypes
<1>1. CASE UNCHANGED call
  BY <1>1
<1>2. CASE \E j \in Calls : HandOver(j) \/ RunCallback(j) \/ SettleCall(j)
  BY <1>2 DEF HandOver, RunCallback, SettleCall
<1>3. CASE CancelCalls \/ CloseConnection \/ DropConnection
  <2>1. UNCHANGED call \/ call' = Settled
    BY <1>3, Zenon DEF CancelCalls, CloseConnection, DropConnection
  <2>2. QED
    BY <2>1 DEF Settled
<1>4. CASE JoinWorker
  BY <1>4 DEF JoinWorker
<1>5. CASE Drain
  <2>1. Issued = "ready"
    BY <1>5, Zenon DEF Drain, SubscribedInv, Issued
  <2>2. QED
    BY <1>5, <2>1 DEF Drain
<1>6. CASE \E j \in Calls : RunTask(j) \/ CallFromCallback(j)
  BY <1>6, Zenon DEF RunTask, CallFromCallback, SubscribedInv
<1>7. UNCHANGED call \/ (\E j \in Calls : HandOver(j) \/ RunCallback(j) \/ SettleCall(j) \/ RunTask(j)
                             \/ CallFromCallback(j))
        \/ CancelCalls \/ CloseConnection \/ DropConnection \/ JoinWorker \/ Drain
  BY Steps, Zenon
     DEF FindNoAddress, BeginConnect, GiveUpConnecting, FinishConnect, StartWorker, Return,
         BeginTeardown, QuitLoop, SubscribeAll, RunLoop, LeaveLoop, AnswerAttempt, vars
<1>8. QED
  BY <1>1, <1>2, <1>3, <1>4, <1>5, <1>6, <1>7

\* No call overtakes the subscriptions, and none is made without them, not even by
\* a task that was given up and runs in the drain (start_worker).
THEOREM NoCallUnsubscribed == Spec => SubscribedWhenSent
<1>1. TypeOK /\ SubscribedInv /\ [Next]_vars
        => [\A k \in Calls : call'[k] = "issued" => call[k] = "issued" \/ subscribed]_vars
  BY SendingStep DEF TypeOK
<1>2. Spec => []SubscribedInv
  BY SubscribedInductive, PlacesCorrect, PTL DEF Spec
<1>3. QED
  BY TypeCorrect, <1>1, <1>2, PTL DEF Spec, SubscribedWhenSent

-----------------------------------------------------------------------------
LEMMA DrainInductive ==
  ASSUME MaxDrain >= 2
  PROVE  /\ Init => DrainInv
         /\ TypeOK /\ WorkerInv /\ SubscribedInv /\ DrainInv /\ [Next]_vars => DrainInv'
<1> USE DEF DrainInv, Leaving, CallTypes
<1>1. Init => DrainInv
  BY DEF Init
<1>2. ASSUME CallTypes, drains \in Nat, WorkerInv, SubscribedInv, DrainInv, [Next]_vars PROVE DrainInv'
  <2> USE DEF waitVars, busVars, flagVars, workerVars
  <2>1. CASE FindNoAddress \/ BeginConnect \/ GiveUpConnecting \/ FinishConnect \/ Return
               \/ BeginTeardown \/ QuitLoop \/ AnswerAttempt \/ UNCHANGED vars
    <3>1. UNCHANGED <<worker, drains, call>>
      BY <2>1, Zenon DEF FindNoAddress, BeginConnect, GiveUpConnecting, FinishConnect, Return,
         BeginTeardown, QuitLoop, AnswerAttempt, vars
    <3>2. QED
      BY <1>2, <3>1
  <2>2. CASE StartWorker
    BY <1>2, <2>2 DEF StartWorker, WorkerInv, Before
  <2>3. ASSUME NEW k \in Calls, HandOver(k) PROVE DrainInv'
    <3>1. worker \notin {"none", "unsubscribed", "draining", "ended"}
      BY <1>2, <2>3, Zenon DEF HandOver, WorkerInv, Before
    <3>2. QED
      BY <1>2, <2>3, <3>1 DEF HandOver
  <2>4. CASE CancelCalls \/ DropConnection
    <3>1. UNCHANGED <<worker, drains>> /\ (UNCHANGED call \/ call' = Settled)
      BY <2>4, Zenon DEF CancelCalls, DropConnection
    <3>2. QED
      BY <1>2, <3>1 DEF Settled
  <2>5. CASE JoinWorker
    BY <1>2, <2>5 DEF JoinWorker
  <2>6. CASE SubscribeAll \/ RunLoop \/ LeaveLoop
    <3>1. /\ UNCHANGED <<call, drains>>
          /\ worker \in {"starting", "subscribed", "looping"}
          /\ worker' \in {"subscribed", "looping", "unsubscribed"}
      BY <2>6, Zenon DEF SubscribeAll, RunLoop, LeaveLoop
    <3>2. QED
      BY <1>2, <3>1
  <2>7. CASE CloseConnection
    BY <1>2, <2>7 DEF CloseConnection, Settled
  <2>8. CASE Drain
    <3>1. Issued = "ready"
      BY <1>2, <2>8, Zenon DEF Drain, SubscribedInv, Issued
    <3>2. QED
      BY <1>2, <2>8, <3>1 DEF Drain, Queued
  <2>9. ASSUME NEW k \in Calls, RunTask(k) \/ RunCallback(k) \/ CallFromCallback(k) PROVE DrainInv'
    BY <1>2, <2>9 DEF RunTask, RunCallback, CallFromCallback
  <2>10. ASSUME NEW k \in Calls, SettleCall(k) PROVE DrainInv'
    BY <1>2, <2>10 DEF SettleCall
  <2>11. QED
    BY <1>2, <2>1, <2>2, <2>3, <2>4, <2>5, <2>6, <2>7, <2>8, <2>9, <2>10, Steps
<1>3. TypeOK => CallTypes /\ drains \in Nat
  BY MaxDrainAssumption DEF TypeOK, ThreadTypes
<1>4. QED
  BY <1>1, <1>2, <1>3

\* Two iterations of the drain are enough (MAX_DRAIN_ITERATIONS is 1000): teardown()
\* returns after the worker, and every payload and every task has been freed.
THEOREM DrainIsEnough == ASSUME MaxDrain >= 2 PROVE Spec => []NothingLeftBehind
<1>1. WorkerInv /\ DrainInv => NothingLeftBehind
  BY DEF WorkerInv, DrainInv, NothingLeftBehind
<1>2. Init => DrainInv
  BY DrainInductive
<1>3. TypeOK /\ WorkerInv /\ SubscribedInv /\ DrainInv /\ [Next]_vars => DrainInv'
  BY DrainInductive
<1>4. Spec => []SubscribedInv
  BY SubscribedInductive, PlacesCorrect, PTL DEF Spec
<1>5. QED
  BY TypeCorrect, PlacesCorrect, <1>1, <1>2, <1>3, <1>4, PTL DEF Spec

=============================================================================
