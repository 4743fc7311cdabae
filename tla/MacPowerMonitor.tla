--------------------------- MODULE MacPowerMonitor ---------------------------
(***************************************************************************)
(* One MacPowerMonitor and the backend that owns it.  macOS posts a        *)
(* notification when Low Power Mode changes; a block on the monitor's      *)
(* operation queue reads the mode and has Godot emit power_saver_changed   *)
(* on the main thread later.  The destructor runs on the main thread,      *)
(* against a queue that may be in the middle of a block.                   *)
(***************************************************************************)
EXTENDS Integers, Sequences, SequencesExt

CONSTANT MaxPending   \* bound: notifications whose change the game has yet to hear of
ASSUME MaxPendingAssumption == MaxPending \in Nat

VARIABLES
  lowPower,    \* -[NSProcessInfo isLowPowerModeEnabled]
  monitor,     \* the object: "none", "observing", "bound", "removing", "waiting", "freed"
  observing,   \* observer_ is registered with the notification center
  queued,      \* operations that wait on queue_
  running,     \* blocks in progress, each with the mode it read
  deferred,    \* emissions on Godot's message queue
  known        \* what a game that reads once and then listens takes the mode to be

queueVars == <<queued, running>>
vars == <<lowPower, monitor, observing, queueVars, deferred, known>>

\* Every variable holds a value of its kind, and a change is on its way only once.
TypeOK ==
  /\ lowPower \in BOOLEAN /\ observing \in BOOLEAN /\ known \in BOOLEAN
  /\ monitor \in {"none", "observing", "bound", "removing", "waiting", "freed"}
  /\ queued \in Nat
  /\ running \in Seq(BOOLEAN) /\ deferred \in Seq(BOOLEAN)
  /\ queued + Len(running) + Len(deferred) <= MaxPending

Init ==
  /\ lowPower \in BOOLEAN
  /\ monitor = "none" /\ observing = FALSE
  /\ queued = 0 /\ running = <<>> /\ deferred = <<>>
  /\ known = FALSE

-----------------------------------------------------------------------------
(* macOS: the mode, the notification center and the operation queue.       *)

\* The user toggles Low Power Mode; a registered observer gets an operation.
PowerStateDidChange ==
  /\ queued + Len(running) + Len(deferred) < MaxPending
  /\ lowPower' = ~lowPower
  /\ queued' = IF observing THEN queued + 1 ELSE queued
  /\ UNCHANGED <<monitor, observing, running, deferred, known>>

\* Mutant: the queue runs blocks side by side.
SideBySide == 2

MaxConcurrentOperationCount == 1

\* The block starts, and reads the mode there is now.
StartBlock ==
  /\ queued > 0
  /\ Len(running) < MaxConcurrentOperationCount
  /\ queued' = queued - 1
  /\ running' = Append(running, lowPower)
  /\ UNCHANGED <<lowPower, monitor, observing, deferred, known>>

\* Mutant: the emission is made on the main thread, which the block waits for.
FinishOnMainThread ==
  \E i \in DOMAIN running :
    /\ monitor \notin {"removing", "waiting"}
    /\ deferred' = Append(deferred, running[i])
    /\ running' = RemoveAt(running, i)
    /\ UNCHANGED <<lowPower, monitor, observing, queued, known>>

\* emit_power_saver_changed(): the emission is deferred, and the block ends.
FinishBlock ==
  \E i \in DOMAIN running :
    /\ deferred' = Append(deferred, running[i])
    /\ running' = RemoveAt(running, i)
    /\ UNCHANGED <<lowPower, monitor, observing, queued, known>>

-----------------------------------------------------------------------------
(* Godot's main thread.                                                    *)

\* Mutant: observing starts with the first read of the state.
ConstructLazily ==
  /\ monitor = "none"
  /\ monitor' = "observing"
  /\ UNCHANGED <<lowPower, observing, queueVars, deferred, known>>

\* The constructor calls start_observing().
Construct ==
  /\ monitor = "none"
  /\ observing' = TRUE
  /\ monitor' = "observing"
  /\ UNCHANGED <<lowPower, queueVars, deferred, known>>

\* _bind(): the signal is connected, and the state is read once.
Bind ==
  /\ monitor = "observing"
  /\ known' = lowPower
  /\ monitor' = "bound"
  /\ UNCHANGED <<lowPower, observing, queueVars, deferred>>

\* power_saver_state(), whenever the game likes.
Read ==
  /\ monitor = "bound"
  /\ known' = lowPower
  /\ UNCHANGED <<lowPower, monitor, observing, queueVars, deferred>>

\* Between frames Godot flushes its message queue, which skips freed objects.
Flush ==
  /\ monitor \in {"bound", "freed"}
  /\ deferred # <<>>
  /\ deferred' = Tail(deferred)
  /\ known' = IF monitor = "bound" THEN Head(deferred) ELSE known
  /\ UNCHANGED <<lowPower, monitor, observing, queueVars>>

\* The backend's shutdown() drops the last reference: the destructor begins.
Shutdown ==
  /\ monitor = "bound"
  /\ monitor' = "removing"
  /\ UNCHANGED <<lowPower, observing, queueVars, deferred, known>>

RemoveObserver ==
  /\ monitor = "removing"
  /\ observing' = FALSE
  /\ monitor' = "waiting"
  /\ UNCHANGED <<lowPower, queueVars, deferred, known>>

\* Mutant: it does not wait for the queue.
FreeAtOnce ==
  /\ monitor = "waiting"
  /\ monitor' = "freed"
  /\ UNCHANGED <<lowPower, observing, queueVars, deferred, known>>

\* -[NSOperationQueue waitUntilAllOperationsAreFinished], and the object is gone.
WaitUntilFinished ==
  /\ monitor = "waiting"
  /\ queued = 0 /\ running = <<>>
  /\ monitor' = "freed"
  /\ UNCHANGED <<lowPower, observing, queueVars, deferred, known>>

-----------------------------------------------------------------------------
OperationQueue == StartBlock \/ FinishBlock
Backend == Construct \/ Bind \/ Read \/ Shutdown
Destructor == RemoveObserver \/ WaitUntilFinished

Next == PowerStateDidChange \/ OperationQueue \/ Backend \/ Flush \/ Destructor

Spec == Init /\ [][Next]_vars

(* Fairness: macOS runs what is on the queue, Godot flushes its messages   *)
(* in every frame, and a constructor or destructor goes on.  Nobody need   *)
(* toggle the mode, read it or shut the backend down.                      *)
Fairness ==
  /\ WF_vars(StartBlock) /\ WF_vars(FinishBlock)
  /\ WF_vars(Flush) /\ WF_vars(Bind) /\ WF_vars(Destructor)

FairSpec == Spec /\ Fairness

-----------------------------------------------------------------------------
(* Properties.                                                             *)

\* When nothing is on its way, what a game made of one read and the signals is the
\* mode, even if it read in between or the mode changed faster than it was heard.
CurrentWhenQuiet ==
  monitor = "bound" /\ queued = 0 /\ running = <<>> /\ deferred = <<>> => known = lowPower

\* No block runs, or will run, on an object that is gone (the order in the destructor).
NoBlockOnFreed == monitor = "freed" => ~observing /\ queued = 0 /\ running = <<>>

\* A mode that lasts is heard of in the end by a game that only listens.
LastingModeIsHeard ==
  \A mode \in BOOLEAN : <>[](monitor = "bound" /\ lowPower = mode) => <>[](known = mode)

\* The destructor returns: what it waits for never needs the main thread, which
\* waits in it.
DestructorReturns == monitor = "removing" ~> monitor = "freed"

=============================================================================
