------------------------ MODULE MacPowerMonitorProofs ------------------------
(***************************************************************************)
(* Theorems about MacPowerMonitor, for every number of notifications that  *)
(* may be pending at once.                                                 *)
(***************************************************************************)
EXTENDS MacPowerMonitor, TLAPS

QueueTypes ==
  /\ queued \in Nat
  /\ running \in Seq(BOOLEAN)
  /\ deferred \in Seq(BOOLEAN)
  /\ Len(running) <= 1

\* Where the object is says whether an operation can still come.
PlaceInv ==
  /\ monitor = "none" => queued = 0 /\ running = <<>> /\ deferred = <<>>
  /\ observing <=> monitor \in {"observing", "bound", "removing"}
  /\ monitor = "freed" => queued = 0 /\ running = <<>>

Last1(s) == s[Len(s)]

\* With no operation left to start, the mode was read by the latest of those that
\* did: the block in progress, the last emission or the game.
LatestInv ==
  monitor \in {"observing", "bound"} /\ queued = 0 =>
    /\ running # <<>> => Last1(running) = lowPower
    /\ running = <<>> /\ deferred # <<>> => Last1(deferred) = lowPower
    /\ running = <<>> /\ deferred = <<>> /\ monitor = "bound" => known = lowPower

IInv == QueueTypes /\ PlaceInv /\ LatestInv

-----------------------------------------------------------------------------
(* Sequences: what a serial queue does to the two that it works on.        *)

LEMMA StartAlone ==
  ASSUME NEW mode \in BOOLEAN, NEW s \in Seq(BOOLEAN), Len(s) < 1
  PROVE  Append(s, mode) \in Seq(BOOLEAN) /\ Len(Append(s, mode)) = 1 /\ Last1(Append(s, mode)) = mode
BY DEF Last1

LEMMA FinishAlone ==
  ASSUME NEW s \in Seq(BOOLEAN), Len(s) <= 1, NEW i \in DOMAIN s
  PROVE  /\ s # <<>> /\ s[i] \in BOOLEAN /\ s[i] = Last1(s)
         /\ RemoveAt(s, i) = <<>>
<1>1. Len(s) = 1 /\ i = 1
  <2>1. DOMAIN s = 1..Len(s) /\ Len(s) \in Nat
    OBVIOUS
  <2>2. QED
    BY <2>1
<1>2. SubSeq(s, 1, 0) \in Seq(BOOLEAN) /\ Len(SubSeq(s, 1, 0)) = 0
  OBVIOUS
<1>3. SubSeq(s, 2, 1) \in Seq(BOOLEAN) /\ Len(SubSeq(s, 2, 1)) = 0
  BY <1>1
<1>4. SubSeq(s, 1, 0) \o SubSeq(s, 2, 1) = <<>>
  BY <1>2, <1>3
<1>5. QED
  BY <1>1, <1>4 DEF RemoveAt, Last1

LEMMA Deferred ==
  ASSUME NEW mode \in BOOLEAN, NEW s \in Seq(BOOLEAN)
  PROVE  /\ Append(s, mode) \in Seq(BOOLEAN) /\ Append(s, mode) # <<>>
         /\ Last1(Append(s, mode)) = mode
BY DEF Last1

LEMMA Flushed ==
  ASSUME NEW s \in Seq(BOOLEAN), s # <<>>
  PROVE  /\ Tail(s) \in Seq(BOOLEAN)
         /\ Tail(s) = <<>> => Head(s) = Last1(s)
         /\ Tail(s) # <<>> => Last1(Tail(s)) = Last1(s)
<1>1. Tail(s) \in Seq(BOOLEAN) /\ Len(s) \in Nat \ {0} /\ Len(Tail(s)) = Len(s) - 1
  OBVIOUS
<1>2. ASSUME Tail(s) = <<>> PROVE Head(s) = Last1(s)
  <2>1. Len(s) = 1
    BY <1>1, <1>2
  <2>2. QED
    BY <2>1 DEF Last1
<1>3. ASSUME Tail(s) # <<>> PROVE Last1(Tail(s)) = Last1(s)
  <2>1. Len(Tail(s)) \in 1..Len(Tail(s))
    BY <1>1, <1>3
  <2>2. Tail(s)[Len(Tail(s))] = s[Len(Tail(s)) + 1]
    BY <1>1, <2>1
  <2>3. Len(Tail(s)) + 1 = Len(s)
    BY <1>1
  <2>4. QED
    BY <2>2, <2>3, Zenon DEF Last1
<1>4. QED
  BY <1>1, <1>2, <1>3

-----------------------------------------------------------------------------
ModeType == lowPower \in BOOLEAN

LEMMA ModeIsBoolean ==
  /\ Init => ModeType
  /\ ModeType /\ [Next]_vars => ModeType'
BY Zenon
   DEF ModeType, Init, Next, vars, queueVars, OperationQueue, Backend, Destructor, PowerStateDidChange,
       StartBlock, FinishBlock, Construct, Bind, Read, Flush, Shutdown, RemoveObserver,
       WaitUntilFinished

LEMMA InitInvariant == Init => IInv
<1> SUFFICES ASSUME Init PROVE IInv
  OBVIOUS
<1>1. queued = 0 /\ running = <<>> /\ deferred = <<>> /\ monitor = "none" /\ ~observing
  BY Zenon DEF Init
<1>2. QueueTypes
  BY <1>1 DEF QueueTypes
<1>3. PlaceInv /\ LatestInv
  BY <1>1 DEF PlaceInv, LatestInv
<1>4. QED
  BY <1>2, <1>3 DEF IInv

LEMMA StepInvariant == ModeType /\ IInv /\ [Next]_vars => IInv'
<1> SUFFICES ASSUME ModeType, IInv, [Next]_vars PROVE IInv'
  OBVIOUS
<1>0. QueueTypes /\ PlaceInv /\ LatestInv
  BY DEF IInv
<1> USE DEF ModeType, QueueTypes, queueVars
<1>1. CASE PowerStateDidChange
  <2>1. /\ UNCHANGED <<monitor, observing, running, deferred, known>>
        /\ queued' = IF observing THEN queued + 1 ELSE queued
    BY <1>1, Zenon DEF PowerStateDidChange
  <2>2. QueueTypes'
    BY <1>0, <2>1
  <2>3. PlaceInv'
    BY <1>0, <2>1 DEF PlaceInv
  <2>4. monitor \in {"observing", "bound"} => queued' # 0
    BY <1>0, <2>1 DEF PlaceInv
  <2>5. LatestInv'
    BY <2>1, <2>4, Zenon DEF LatestInv
  <2>6. QED
    BY <2>2, <2>3, <2>5 DEF IInv
<1>2. CASE StartBlock
  <2>1. /\ UNCHANGED <<lowPower, monitor, observing, deferred, known>>
        /\ queued > 0 /\ queued' = queued - 1
        /\ Len(running) < 1 /\ running' = Append(running, lowPower)
    BY <1>2 DEF StartBlock, MaxConcurrentOperationCount
  <2>2. running' \in Seq(BOOLEAN) /\ Len(running') = 1 /\ Last1(running') = lowPower
    BY <1>0, <2>1, StartAlone
  <2>3. running' # <<>>
    BY <2>2
  <2>4. QueueTypes'
    BY <1>0, <2>1, <2>2
  <2>5. PlaceInv'
    BY <1>0, <2>1 DEF PlaceInv
  <2>6. LatestInv'
    BY <2>1, <2>2, <2>3, Zenon DEF LatestInv
  <2>7. QED
    BY <2>4, <2>5, <2>6 DEF IInv
<1>3. ASSUME NEW i \in DOMAIN running,
             deferred' = Append(deferred, running[i]),
             running' = RemoveAt(running, i),
             UNCHANGED <<lowPower, monitor, observing, queued, known>>
      PROVE  IInv'
  <2>1. /\ running # <<>> /\ running[i] \in BOOLEAN /\ running[i] = Last1(running)
        /\ running' = <<>>
    BY <1>0, <1>3, FinishAlone
  <2>2. deferred' \in Seq(BOOLEAN) /\ deferred' # <<>> /\ Last1(deferred') = running[i]
    BY <1>0, <1>3, <2>1, Deferred
  <2>3. QueueTypes'
    BY <1>0, <1>3, <2>1, <2>2
  <2>4. PlaceInv'
    BY <1>0, <1>3, <2>1, Zenon DEF PlaceInv
  <2>5. LatestInv'
    BY <1>0, <1>3, <2>1, <2>2, Zenon DEF LatestInv
  <2>6. QED
    BY <2>3, <2>4, <2>5 DEF IInv
<1>4. CASE Construct
  <2>1. /\ UNCHANGED <<lowPower, queued, running, deferred, known>>
        /\ monitor = "none" /\ monitor' = "observing" /\ observing'
    BY <1>4, Zenon DEF Construct
  <2>2. QueueTypes'
    BY <1>0, <2>1
  <2>3. PlaceInv' /\ LatestInv'
    BY <1>0, <2>1, Zenon DEF PlaceInv, LatestInv
  <2>4. QED
    BY <2>2, <2>3 DEF IInv
<1>5. CASE Bind \/ Read
  <2>1. /\ UNCHANGED <<lowPower, observing, queued, running, deferred>>
        /\ monitor \in {"observing", "bound"} /\ monitor' = "bound" /\ known' = lowPower
    BY <1>5, Zenon DEF Bind, Read
  <2>2. QueueTypes'
    BY <1>0, <2>1
  <2>3. PlaceInv' /\ LatestInv'
    BY <1>0, <2>1, Zenon DEF PlaceInv, LatestInv
  <2>4. QED
    BY <2>2, <2>3 DEF IInv
<1>6. CASE Flush
  <2>1. /\ UNCHANGED <<lowPower, monitor, observing, queued, running>>
        /\ monitor \in {"bound", "freed"} /\ deferred # <<>> /\ deferred' = Tail(deferred)
        /\ monitor = "bound" => known' = Head(deferred)
    BY <1>6, Zenon DEF Flush
  <2>2. /\ deferred' \in Seq(BOOLEAN)
        /\ deferred' = <<>> => Head(deferred) = Last1(deferred)
        /\ deferred' # <<>> => Last1(deferred') = Last1(deferred)
    BY <1>0, <2>1, Flushed
  <2>3. QueueTypes'
    BY <1>0, <2>1, <2>2
  <2>4. PlaceInv'
    BY <1>0, <2>1, Zenon DEF PlaceInv
  <2>5. LatestInv'
    BY <1>0, <2>1, <2>2, Zenon DEF LatestInv
  <2>6. QED
    BY <2>3, <2>4, <2>5 DEF IInv
<1>7. CASE Shutdown \/ Destructor
  <2>1. /\ UNCHANGED <<lowPower, queued, running, deferred, known>>
        /\ monitor' \in {"removing", "waiting", "freed"}
    BY <1>7, Zenon DEF Shutdown, Destructor, RemoveObserver, WaitUntilFinished
  <2>2. QueueTypes'
    BY <1>0, <2>1
  <2>3. observing' <=> monitor' \in {"observing", "bound", "removing"}
    <3>1. CASE Shutdown
      BY <1>0, <3>1, Zenon DEF Shutdown, PlaceInv
    <3>2. CASE RemoveObserver
      BY <3>2, Zenon DEF RemoveObserver
    <3>3. CASE WaitUntilFinished
      BY <1>0, <3>3, Zenon DEF WaitUntilFinished, PlaceInv
    <3>4. QED
      BY <1>7, <3>1, <3>2, <3>3 DEF Destructor
  <2>4. monitor' = "freed" => queued' = 0 /\ running' = <<>>
    BY <1>7, Zenon DEF Shutdown, Destructor, RemoveObserver, WaitUntilFinished
  <2>5. PlaceInv' /\ LatestInv'
    BY <2>1, <2>3, <2>4, Zenon DEF PlaceInv, LatestInv
  <2>6. QED
    BY <2>2, <2>5 DEF IInv
<1>8. CASE UNCHANGED vars
  BY <1>0, <1>8 DEF vars, PlaceInv, LatestInv, IInv
<1>9. QED
  BY <1>1, <1>2, <1>3, <1>4, <1>5, <1>6, <1>7, <1>8, Zenon
     DEF Next, OperationQueue, FinishBlock, Backend

LEMMA Invariant == Spec => [](ModeType /\ IInv)
BY ModeIsBoolean, InitInvariant, StepInvariant, PTL DEF Spec

-----------------------------------------------------------------------------
OthersTypes ==
  /\ observing \in BOOLEAN /\ known \in BOOLEAN
  /\ monitor \in {"none", "observing", "bound", "removing", "waiting", "freed"}

LEMMA OthersAreTyped ==
  /\ Init => OthersTypes
  /\ ModeType /\ QueueTypes /\ OthersTypes /\ [Next]_vars => OthersTypes'
<1>1. Init => OthersTypes
  BY Zenon DEF Init, OthersTypes
<1>2. ASSUME ModeType, QueueTypes, OthersTypes, [Next]_vars PROVE OthersTypes'
  <2>1. CASE Flush
    <3>1. Head(deferred) \in BOOLEAN
      BY <1>2, <2>1 DEF Flush, QueueTypes
    <3>2. QED
      BY <1>2, <2>1, <3>1, Zenon DEF Flush, OthersTypes
  <2>2. CASE PowerStateDidChange \/ OperationQueue \/ UNCHANGED vars
    BY <1>2, <2>2, Zenon DEF OthersTypes, PowerStateDidChange, OperationQueue, StartBlock, FinishBlock, vars
  <2>3. CASE Construct \/ Bind \/ Read
    BY <1>2, <2>3, Zenon DEF OthersTypes, ModeType, Construct, Bind, Read
  <2>4. CASE Shutdown \/ Destructor
    BY <1>2, <2>4, Zenon DEF OthersTypes, Shutdown, Destructor, RemoveObserver, WaitUntilFinished
  <2>5. QED
    BY <1>2, <2>1, <2>2, <2>3, <2>4 DEF Next, Backend
<1>3. QED
  BY <1>1, <1>2

Pending == queued + Len(running) + Len(deferred) <= MaxPending

LEMMA PendingIsBounded ==
  /\ Init => Pending
  /\ ModeType /\ QueueTypes /\ Pending /\ [Next]_vars => Pending'
<1>1. Init => Pending
  <2>1. SUFFICES ASSUME Init PROVE Pending
    OBVIOUS
  <2>2. queued = 0 /\ running = <<>> /\ deferred = <<>>
    BY <2>1, Zenon DEF Init
  <2>3. QED
    BY <2>2, MaxPendingAssumption DEF Pending
<1>2. ASSUME ModeType, QueueTypes, Pending, [Next]_vars PROVE Pending'
  <2> USE MaxPendingAssumption DEF Pending, QueueTypes, queueVars
  <2>1. CASE PowerStateDidChange
    <3>1. /\ queued + Len(running) + Len(deferred) < MaxPending
          /\ queued' = IF observing THEN queued + 1 ELSE queued
          /\ running' = running /\ deferred' = deferred
      BY <2>1, Zenon DEF PowerStateDidChange
    <3>2. QED
      BY <1>2, <3>1
  <2>2. CASE StartBlock
    <3>1. Len(Append(running, lowPower)) = Len(running) + 1
      BY <1>2
    <3>2. queued' = queued - 1 /\ running' = Append(running, lowPower) /\ deferred' = deferred
      BY <2>2, Zenon DEF StartBlock
    <3>3. QED
      BY <1>2, <3>1, <3>2
  <2>3. ASSUME NEW i \in DOMAIN running,
               deferred' = Append(deferred, running[i]), running' = RemoveAt(running, i),
               queued' = queued
        PROVE  Pending'
    <3>1. running' = <<>> /\ Len(running) = 1
      <4>1. running # <<>> /\ RemoveAt(running, i) = <<>>
        BY <1>2, FinishAlone, Zenon
      <4>2. Len(running) \in Nat /\ Len(running) # 0
        BY <1>2, <4>1
      <4>3. Len(running) <= 1
        BY <1>2
      <4>4. Len(running) = 1
        BY <4>2, <4>3
      <4>5. running' = <<>>
        BY <2>3, <4>1, Zenon
      <4>6. QED
        BY <4>4, <4>5
    <3>2. Len(deferred') = Len(deferred) + 1
      BY <1>2, <2>3
    <3>3. QED
      BY <1>2, <2>3, <3>1, <3>2
  <2>4. CASE Flush
    <3>1. Len(Tail(deferred)) = Len(deferred) - 1
      BY <1>2, <2>4 DEF Flush
    <3>2. QED
      BY <1>2, <2>4, <3>1 DEF Flush
  <2>5. CASE Backend \/ Destructor \/ UNCHANGED vars
    <3>1. UNCHANGED <<queued, running, deferred>>
      BY <2>5, Zenon DEF Backend, Destructor, Construct, Bind, Read, Shutdown, RemoveObserver,
         WaitUntilFinished, vars
    <3>2. QED
      BY <1>2, <3>1
  <2>6. QED
    BY <1>2, <2>1, <2>2, <2>3, <2>4, <2>5, Zenon DEF Next, OperationQueue, FinishBlock
<1>3. QED
  BY <1>1, <1>2

\* Every variable keeps its type, and every change is on its way once: a block takes
\* its notification from the queue and its emission takes the place of the block.
THEOREM TypeCorrect == Spec => []TypeOK
<1>1. IInv => QueueTypes
  BY DEF IInv
<1>2. ModeType /\ QueueTypes /\ OthersTypes /\ Pending => TypeOK
  BY Zenon DEF ModeType, QueueTypes, OthersTypes, Pending, TypeOK
<1>3. QED
  BY Invariant, OthersAreTyped, PendingIsBounded, <1>1, <1>2, PTL DEF Spec

-----------------------------------------------------------------------------
\* The queue is serial and reads the mode in its blocks (start_observing), so what
\* the game was told last is the mode, once nothing is on its way any more.
THEOREM HeardIsCurrent == Spec => []CurrentWhenQuiet
<1>1. IInv => CurrentWhenQuiet
  BY Zenon DEF IInv, LatestInv, CurrentWhenQuiet
<1>2. QED
  BY Invariant, <1>1, PTL

\* The destructor takes the observer away first and then waits for the queue: no
\* block runs on an object that is gone, and none will.
THEOREM NoUseAfterFree == Spec => []NoBlockOnFreed
<1>1. IInv => NoBlockOnFreed
  BY Zenon DEF IInv, PlaceInv, NoBlockOnFreed
<1>2. QED
  BY Invariant, <1>1, PTL

=============================================================================
