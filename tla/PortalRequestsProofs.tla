------------------------ MODULE PortalRequestsProofs ------------------------
(***************************************************************************)
(* Theorems about PortalRequests, for any set of handles and paths, any    *)
(* capacity, any number of portal restarts, and whatever the portal does.  *)
(***************************************************************************)
EXTENDS PortalRequests, TLAPS, FiniteSetTheorems

-----------------------------------------------------------------------------
(* Emission aside.  No lock section looks at what is emitted, so a step is *)
(* one of these, as far as everything but "emitting" is concerned.         *)

Section == MainThread \/ WorkerThread \/ Bus \/ Portal
sectionVars ==
  <<clientVars, worker, closeVars, call, outbox, inbox, portalVars, completions, closed>>

SectionTypes ==
  /\ RequestTypes /\ FlightTypes /\ OwnerTypes
  /\ worker \in WorkerStates
  /\ CloseTypes /\ BusTypes /\ NameTypes /\ ObjectTypes /\ HistoryTypes

LEMMA NextSections == [Next]_vars => [Section]_sectionVars
BY DEF Next, Section, vars, sectionVars, historyVars, EmitCompletion, busVars

-----------------------------------------------------------------------------
(* The strengthening.                                                      *)

IsOutcome(m) == m.type \in {"started", "failed"}

\* A call's outcome is queued for the worker once, and exactly while GDBus has
\* settled the call and the worker has not handled it.
OutcomesSettled ==
  /\ \A i \in 1..Len(inbox) : IsOutcome(inbox[i]) => call[inbox[i].handle] = "settled"
  /\ \A i, j \in 1..Len(inbox) :
       i # j /\ IsOutcome(inbox[i]) /\ IsOutcome(inbox[j]) => inbox[i].handle # inbox[j].handle

CallInv == SectionTypes /\ OutcomesSettled /\ InFlightExact

-----------------------------------------------------------------------------
(* Sequences, by their indices.                                            *)

LEMMA AppendIndices ==
  ASSUME NEW S, NEW s \in Seq(S), NEW e \in S
  PROVE  /\ Append(s, e) \in Seq(S)
         /\ Len(Append(s, e)) = Len(s) + 1
         /\ \A i \in 1..Len(s) : Append(s, e)[i] = s[i]
         /\ Append(s, e)[Len(s) + 1] = e
  OBVIOUS

LEMMA TailIndices ==
  ASSUME NEW S, NEW s \in Seq(S), s # <<>>
  PROVE  /\ Tail(s) \in Seq(S)
         /\ Head(s) \in S
         /\ Head(s) = s[1]
         /\ Len(s) \in Nat
         /\ Len(s) > 0
         /\ Len(Tail(s)) = Len(s) - 1
         /\ \A i \in 1..Len(Tail(s)) : Tail(s)[i] = s[i + 1]
  OBVIOUS

LEMMA SubSeqType ==
  ASSUME NEW S, NEW s \in Seq(S), NEW i \in 1..Len(s)
  PROVE  SubSeq(s, 1, i - 1) \o SubSeq(s, i + 1, Len(s)) \in Seq(S)
  OBVIOUS

-----------------------------------------------------------------------------
(* Messages.                                                               *)

LEMMA InboxFields ==
  ASSUME NEW m \in InboxMessages
  PROVE  /\ m.type \in {"started", "failed"} => m.handle \in Handles
         /\ m.type \in {"started", "response"} => m.path \in Paths
         /\ m.type = "response" => m.code \in Codes
         /\ m.type = "appeared" => m.owner \in Nat
BY DEF InboxMessages, NoOwner

LEMMA OutboxFields ==
  ASSUME NEW m \in OutboxMessages
  PROVE  /\ m.type = "call" => m.handle \in Handles
         /\ m.type = "close" => m.path \in Paths /\ m.attempt \in Nat
BY DEF OutboxMessages

LEMMA WorkerFields ==
  ASSUME worker \in WorkerStates
  PROVE  /\ worker.step = "fail" => worker.by \in Causes
         /\ worker.step \in {"deliver", "hold"} => worker.path \in Paths /\ worker.code \in Codes
BY DEF WorkerStates

-----------------------------------------------------------------------------
(* Typing: what each operation leaves in the variables it assigns.         *)

LEMMA KeepTypes ==
  ASSUME SectionTypes
  PROVE  /\ UNCHANGED requestVars => RequestTypes'
         /\ UNCHANGED flightVars => FlightTypes'
         /\ UNCHANGED ownerVars => OwnerTypes'
         /\ UNCHANGED worker => worker' \in WorkerStates
         /\ UNCHANGED closeVars => CloseTypes'
         /\ UNCHANGED busVars => BusTypes'
         /\ UNCHANGED nameVars => NameTypes'
         /\ UNCHANGED objectVars => ObjectTypes'
         /\ UNCHANGED <<completions, closed>> \/ UNCHANGED historyVars => HistoryTypes'
BY DEF SectionTypes, RequestTypes, FlightTypes, OwnerTypes, CloseTypes, BusTypes, NameTypes,
       ObjectTypes, HistoryTypes, requestVars, flightVars, ownerVars, closeVars, busVars,
       nameVars, objectVars, historyVars

LEMMA DispatchTypes ==
  ASSUME BusTypes, NEW type, Dispatching(type)
  PROVE  /\ inbox' \in Seq(InboxMessages)
         /\ Head(inbox) \in InboxMessages
         /\ Head(inbox).type = type
         /\ worker = Idle
BY TailIndices DEF BusTypes, Dispatching

LEMMA IdleType == Idle \in WorkerStates
BY DEF Idle, WorkerStates

LEMMA ForgetTypes ==
  ASSUME RequestTypes, NEW h \in Handles, ForgetRequest(h)
  PROVE  RequestTypes'
<1>1. Absent(h) \in [status : Statuses, path : Paths]
  BY DEF Absent, Statuses, Paths
<1>2. QED
  BY <1>1 DEF RequestTypes, ForgetRequest, requestVars

LEMMA ReportTypes ==
  ASSUME HistoryTypes, NEW h \in Handles, NEW by \in Causes, NEW code \in Codes,
         Report(h, by, code)
  PROVE  completions' \in [Handles -> Seq(Completions)]
<1>1. [by |-> by, code |-> code] \in Completions
  BY DEF Completions
<1>2. Append(completions[h], [by |-> by, code |-> code]) \in Seq(Completions)
  BY <1>1, AppendIndices DEF HistoryTypes
<1>3. QED
  BY <1>2 DEF HistoryTypes, Report

LEMMA DeliverTypes ==
  ASSUME RequestTypes, HistoryTypes, NEW path \in Paths, NEW code \in Codes,
         DeliverResponse(path, code)
  PROVE  RequestTypes' /\ completions' \in [Handles -> Seq(Completions)]
<1> DEFINE h == request_paths[path]
<1>1. CASE h = None \/ requests[h].status # "pending"
  BY <1>1 DEF RequestTypes, HistoryTypes, DeliverResponse, requestVars
<1>2. CASE ~(h = None \/ requests[h].status # "pending")
  <2>1. h \in Handles
    BY <1>2 DEF RequestTypes
  <2>2. Report(h, "portal", code)
    BY <1>2 DEF DeliverResponse
  <2>3. completions' \in [Handles -> Seq(Completions)]
    BY <2>1, <2>2, ReportTypes DEF Causes
  <2>4. CASE h \in Inhibits /\ code = Success
    <3>1. /\ requests' = [requests EXCEPT ![h] = [status |-> "answered", path |-> requests[h].path]]
          /\ request_paths' = request_paths
      BY <1>2, <2>4 DEF DeliverResponse
    <3>2. [status |-> "answered", path |-> requests[h].path] \in [status : Statuses, path : Paths]
      BY <2>1 DEF RequestTypes, Statuses
    <3>3. QED
      BY <2>1, <2>3, <3>1, <3>2 DEF RequestTypes
  <2>5. CASE ~(h \in Inhibits /\ code = Success)
    <3>1. ForgetRequest(h)
      BY <1>2, <2>5 DEF DeliverResponse
    <3>2. QED
      BY <2>1, <2>3, <3>1, ForgetTypes
  <2>6. QED
    BY <2>4, <2>5
<1>3. QED
  BY <1>1, <1>2

LEMMA SettleTypes ==
  ASSUME BusTypes, NEW h \in Handles, NEW m \in InboxMessages, Settle(h, m)
  PROVE  call' \in [Handles -> CallStates] /\ inbox' \in Seq(InboxMessages)
<1>1. Append(inbox, m) \in Seq(InboxMessages)
  BY AppendIndices DEF BusTypes
<1>2. QED
  BY <1>1 DEF BusTypes, Settle, CallStates

LEMMA FailedType == ASSUME NEW h \in Handles PROVE Failed(h) \in InboxMessages
BY DEF Failed, InboxMessages

LEMMA MainThreadTypes ==
  ASSUME SectionTypes, MainThread
  PROVE  SectionTypes'
<1> USE KeepTypes DEF clientVars, portalVars
<1>1. ASSUME NEW h \in Handles, BeginRequest(h) PROVE SectionTypes'
  <2>1. RequestTypes'
    BY <1>1 DEF SectionTypes, RequestTypes, BeginRequest, Statuses, Paths
  <2>2. FlightTypes'
    BY <1>1 DEF SectionTypes, FlightTypes, BeginRequest
  <2>3. BusTypes'
    BY <1>1 DEF SectionTypes, BusTypes, CallStates, BeginRequest
  <2>4. QED
    BY <1>1, <2>1, <2>2, <2>3 DEF SectionTypes, BeginRequest
<1>2. ASSUME NEW h \in Handles, ResolveClose(h) PROVE SectionTypes'
  <2>1. CloseTypes'
    BY <1>2 DEF SectionTypes, RequestTypes, CloseTypes, Closings, ResolveClose, Paths
  <2>2. QED
    BY <1>2, <2>1 DEF SectionTypes, ResolveClose
<1>3. ASSUME SendClose PROVE SectionTypes'
  <2>1. closing \in Closings
    BY <1>3 DEF SectionTypes, CloseTypes, SendClose, NotClosing
  <2>2. [type |-> "close", path |-> closing.path, attempt |-> closes] \in OutboxMessages
    BY <2>1 DEF SectionTypes, CloseTypes, Closings, OutboxMessages
  <2>3. BusTypes'
    BY <1>3, <2>2, AppendIndices DEF SectionTypes, BusTypes, SendClose
  <2>4. CloseTypes'
    BY <1>3, <2>1 DEF SectionTypes, CloseTypes, Closings, ClosingNow, SendClose
  <2>5. QED
    BY <1>3, <2>3, <2>4 DEF SectionTypes, SendClose
<1>4. ASSUME FinishClose PROVE SectionTypes'
  <2>1. closing.handle \in Handles
    BY <1>4 DEF SectionTypes, CloseTypes, Closings, FinishClose, NotClosing
  <2>2. RequestTypes'
    BY <1>4, <2>1, ForgetTypes DEF SectionTypes, FinishClose
  <2>3. CloseTypes' /\ HistoryTypes'
    BY <1>4, <2>1 DEF SectionTypes, CloseTypes, HistoryTypes, FinishClose
  <2>4. QED
    BY <1>4, <2>2, <2>3 DEF SectionTypes, FinishClose
<1>5. ASSUME AbandonClose PROVE SectionTypes'
  <2>1. CloseTypes'
    BY <1>5 DEF SectionTypes, CloseTypes, AbandonClose
  <2>2. QED
    BY <1>5, <2>1 DEF SectionTypes, AbandonClose
<1>6. QED
  BY <1>1, <1>2, <1>3, <1>4, <1>5 DEF MainThread

-----------------------------------------------------------------------------
(* Accounting: how the calls in flight, and their outcomes, change.        *)

Flying == {h \in Handles : InFlight(h)}

LEMMA FlyingFinite == IsFiniteSet(Flying) /\ Cardinality(Flying) \in Nat
<1>1. Flying \in SUBSET Handles
  BY DEF Flying
<1>2. IsFiniteSet(Flying)
  BY <1>1, HandlesAssumption, FS_Subset
<1>3. QED
  BY <1>2, FS_CardinalityType

\* A new call is one more in flight.
LEMMA TakeOff ==
  ASSUME CallInv, NEW h \in Handles, BeginRequest(h)
  PROVE  InFlightExact'
<1>1. Flying' = Flying \cup {h} /\ h \notin Flying
  BY DEF CallInv, SectionTypes, BusTypes, BeginRequest, Flying, InFlight
<1>2. Cardinality(Flying') = Cardinality(Flying) + 1
  BY <1>1, FlyingFinite, FS_AddElement
<1>3. QED
  BY <1>2 DEF CallInv, InFlightExact, BeginRequest, Flying

\* Handling an outcome is one less in flight, and there was one.
LEMMA Landing ==
  ASSUME CallInv, NEW h \in Handles, call[h] = "settled", CallHandled(h)
  PROVE  InFlightExact' /\ calls_in_flight' \in Nat
<1>1. Flying' = Flying \ {h} /\ h \in Flying
  BY DEF CallInv, SectionTypes, BusTypes, CallHandled, Flying, InFlight
<1>2. Cardinality(Flying') = Cardinality(Flying) - 1
  BY <1>1, FlyingFinite, FS_RemoveElement
<1>3. Cardinality(Flying) # 0
  BY <1>1, FlyingFinite, FS_EmptySet
<1>4. calls_in_flight = Cardinality(Flying)
  BY DEF CallInv, InFlightExact, Flying
<1>5. calls_in_flight' = Cardinality(Flying') /\ calls_in_flight' \in Nat
  BY <1>2, <1>3, <1>4, FlyingFinite DEF CallHandled
<1>6. QED
  BY <1>5 DEF InFlightExact, Flying

\* Nothing else changes the count.
LEMMA SteadyFlight ==
  ASSUME InFlightExact, UNCHANGED calls_in_flight,
         \A h \in Handles : InFlight(h)' <=> InFlight(h)
  PROVE  InFlightExact'
<1>1. {h \in Handles : InFlight(h)}' = {h \in Handles : InFlight(h)}
  OBVIOUS
<1>2. QED
  BY <1>1 DEF InFlightExact

\* GDBus settles a call: one outcome joins the queue.
LEMMA SettleKeepsOutcomes ==
  ASSUME BusTypes, OutcomesSettled, NEW h \in Handles, NEW m \in InboxMessages,
         IsOutcome(m), m.handle = h, Settle(h, m)
  PROVE  OutcomesSettled' /\ \A g \in Handles : InFlight(g)' <=> InFlight(g)
<1>1. CASE call[h] # "sent"
  BY <1>1 DEF Settle, OutcomesSettled, InFlight
<1>2. CASE call[h] = "sent"
  <2>1. /\ call' = [call EXCEPT ![h] = "settled"]
        /\ inbox' = Append(inbox, m)
    BY <1>2 DEF Settle
  <2>2. /\ Len(inbox') = Len(inbox) + 1
        /\ Len(inbox) \in Nat
        /\ \A i \in 1..Len(inbox) : inbox'[i] = inbox[i]
        /\ inbox'[Len(inbox) + 1] = m
    BY <2>1, AppendIndices DEF BusTypes
  <2>3. \A i \in 1..Len(inbox) : inbox[i] \in InboxMessages
    BY DEF BusTypes
  <2>4. \A i \in 1..Len(inbox) : IsOutcome(inbox[i]) => inbox[i].handle \in Handles \ {h}
    BY <1>2, <2>3, InboxFields DEF OutcomesSettled, IsOutcome
  <2>5. \A i \in 1..Len(inbox') : IsOutcome(inbox'[i]) => call'[inbox'[i].handle] = "settled"
    <3> SUFFICES ASSUME NEW i \in 1..Len(inbox'), IsOutcome(inbox'[i])
                 PROVE  call'[inbox'[i].handle] = "settled"
      OBVIOUS
    <3>1. CASE i = Len(inbox) + 1
      BY <2>1, <2>2, <3>1 DEF BusTypes
    <3>2. CASE i \in 1..Len(inbox)
      BY <2>1, <2>2, <2>4, <3>2 DEF BusTypes, OutcomesSettled
    <3>3. QED
      BY <2>2, <3>1, <3>2
  <2>6. \A i, j \in 1..Len(inbox') :
          i # j /\ IsOutcome(inbox'[i]) /\ IsOutcome(inbox'[j]) => inbox'[i].handle # inbox'[j].handle
    BY <2>2, <2>4 DEF OutcomesSettled
  <2>7. OutcomesSettled'
    BY <2>5, <2>6 DEF OutcomesSettled, IsOutcome
  <2>8. QED
    BY <1>2, <2>1, <2>7 DEF BusTypes, InFlight
<1>3. QED
  BY <1>1, <1>2

\* A message that is no outcome joins the queue.
LEMMA AppendKeepsOutcomes ==
  ASSUME BusTypes, OutcomesSettled, NEW m \in InboxMessages, ~IsOutcome(m),
         inbox' = Append(inbox, m), UNCHANGED call
  PROVE  OutcomesSettled'
<1>1. /\ Len(inbox') = Len(inbox) + 1
      /\ Len(inbox) \in Nat
      /\ \A i \in 1..Len(inbox) : inbox'[i] = inbox[i]
      /\ inbox'[Len(inbox) + 1] = m
  BY AppendIndices DEF BusTypes
<1>2. QED
  BY <1>1 DEF OutcomesSettled, IsOutcome

\* The worker takes a message from the queue.
LEMMA DispatchKeepsOutcomes ==
  ASSUME BusTypes, OutcomesSettled, NEW type, Dispatching(type), UNCHANGED call
  PROVE  OutcomesSettled'
<1>1. /\ Len(inbox') = Len(inbox) - 1
      /\ Len(inbox) \in Nat
      /\ \A i \in 1..Len(inbox') : inbox'[i] = inbox[i + 1]
  BY TailIndices DEF BusTypes, Dispatching
<1>2. QED
  BY <1>1 DEF OutcomesSettled, IsOutcome

\* The worker takes an outcome from the queue: its call was settled, and no
\* other outcome of that call is queued.
LEMMA HandlingKeepsOutcomes ==
  ASSUME BusTypes, OutcomesSettled, NEW type \in {"started", "failed"}, Dispatching(type),
         CallHandled(Head(inbox).handle)
  PROVE  /\ Head(inbox).handle \in Handles
         /\ call[Head(inbox).handle] = "settled"
         /\ OutcomesSettled'
<1>1. /\ Len(inbox') = Len(inbox) - 1
      /\ Len(inbox) \in Nat
      /\ Len(inbox) > 0
      /\ Head(inbox) = inbox[1]
      /\ Head(inbox) \in InboxMessages
      /\ \A i \in 1..Len(inbox') : inbox'[i] = inbox[i + 1]
  BY TailIndices DEF BusTypes, Dispatching
<1>2. IsOutcome(Head(inbox)) /\ Head(inbox).handle \in Handles
  BY <1>1, InboxFields DEF IsOutcome, Dispatching
<1>3. call[Head(inbox).handle] = "settled"
  BY <1>1, <1>2 DEF OutcomesSettled
<1>4. \A i \in 1..Len(inbox') :
        IsOutcome(inbox'[i]) => inbox'[i].handle \in Handles \ {Head(inbox).handle}
  <2>1. \A i \in 1..Len(inbox) : inbox[i] \in InboxMessages
    BY DEF BusTypes
  <2>2. QED
    BY <1>1, <1>2, <2>1, InboxFields DEF OutcomesSettled, IsOutcome
<1>5. \A i \in 1..Len(inbox') : IsOutcome(inbox'[i]) => call'[inbox'[i].handle] = "settled"
  <2>1. \A g \in Handles \ {Head(inbox).handle} : call'[g] = call[g]
    BY DEF BusTypes, CallHandled
  <2>2. QED
    BY <1>1, <1>4, <2>1 DEF OutcomesSettled
<1>6. \A i, j \in 1..Len(inbox') :
        i # j /\ IsOutcome(inbox'[i]) /\ IsOutcome(inbox'[j]) => inbox'[i].handle # inbox'[j].handle
  BY <1>1 DEF OutcomesSettled
<1>7. QED
  BY <1>2, <1>3, <1>5, <1>6 DEF OutcomesSettled, IsOutcome

-----------------------------------------------------------------------------
(* CallInv is preserved by every action, thread by thread.                 *)

LEMMA MainThreadCalls ==
  ASSUME CallInv, MainThread
  PROVE  CallInv'
<1> USE DEF clientVars, flightVars, busVars
<1>1. SectionTypes'
  BY MainThreadTypes DEF CallInv
<1>2. ASSUME NEW h \in Handles, BeginRequest(h) PROVE OutcomesSettled' /\ InFlightExact'
  <2>1. InFlightExact'
    BY <1>2, TakeOff
  <2>2. \A i \in 1..Len(inbox) : IsOutcome(inbox[i]) => inbox[i].handle \in Handles \ {h}
    <3>1. \A i \in 1..Len(inbox) : inbox[i] \in InboxMessages
      BY DEF CallInv, SectionTypes, BusTypes
    <3>2. QED
      BY <1>2, <3>1, InboxFields DEF CallInv, OutcomesSettled, IsOutcome, BeginRequest
  <2>3. \A g \in Handles \ {h} : call'[g] = call[g]
    BY <1>2 DEF CallInv, SectionTypes, BusTypes, BeginRequest
  <2>4. OutcomesSettled'
    BY <1>2, <2>2, <2>3 DEF CallInv, OutcomesSettled, IsOutcome, BeginRequest
  <2>5. QED
    BY <2>1, <2>4
<1>3. ASSUME UNCHANGED <<call, inbox, calls_in_flight>> PROVE OutcomesSettled' /\ InFlightExact'
  BY <1>3, SteadyFlight DEF CallInv, OutcomesSettled, IsOutcome, InFlight
<1>4. QED
  BY <1>1, <1>2, <1>3 DEF CallInv, MainThread, ResolveClose, SendClose, FinishClose, AbandonClose

LEMMA ClaimTypes ==
  ASSUME FlightTypes, NEW path \in Paths, ClaimEarlyResponse(path)
  PROVE  unclaimed_responses' \in Seq(Responses) /\ worker' \in WorkerStates
<1> DEFINE OnPath == {i \in DOMAIN unclaimed_responses : unclaimed_responses[i].path = path}
<1>1. CASE /\ unclaimed_responses' = StillClaimable(unclaimed_responses)
           /\ worker' = Idle
  BY <1>1, IdleType DEF FlightTypes, StillClaimable
<1>2. ASSUME NEW i \in OnPath,
             unclaimed_responses' =
               StillClaimable(SubSeq(unclaimed_responses, 1, i - 1)
                                \o SubSeq(unclaimed_responses, i + 1, Len(unclaimed_responses))),
             worker' = [step |-> "deliver", path |-> path, code |-> unclaimed_responses[i].code]
      PROVE  unclaimed_responses' \in Seq(Responses) /\ worker' \in WorkerStates
  <2>1. i \in 1..Len(unclaimed_responses) /\ unclaimed_responses[i] \in Responses
    BY DEF FlightTypes
  <2>2. unclaimed_responses' \in Seq(Responses)
    BY <1>2, <2>1, SubSeqType DEF FlightTypes, StillClaimable
  <2>3. worker' \in WorkerStates
    BY <1>2, <2>1 DEF WorkerStates, Responses
  <2>4. QED
    BY <2>2, <2>3
<1>3. QED
  BY <1>1, <1>2 DEF ClaimEarlyResponse

LEMMA RemapTypes ==
  ASSUME RequestTypes, NEW h \in Handles, NEW path \in Paths, Remap(h, path)
  PROVE  RequestTypes'
<1>1. [status |-> requests[h].status, path |-> path] \in [status : Statuses, path : Paths]
  BY DEF RequestTypes
<1>2. QED
  BY <1>1 DEF RequestTypes, Remap, requestVars

LEMMA WorkerThreadCalls ==
  ASSUME CallInv, WorkerThread
  PROVE  CallInv'
<1> USE KeepTypes, IdleType DEF clientVars, portalVars
<1>0. SectionTypes /\ OutcomesSettled /\ InFlightExact
  BY DEF CallInv
<1>1. ASSUME NEW h \in Handles, IssueCall(h) PROVE CallInv'
  <2>1. [type |-> "call", handle |-> h] \in OutboxMessages
    BY DEF OutboxMessages
  <2>2. BusTypes'
    BY <1>0, <1>1, <2>1, AppendIndices DEF SectionTypes, BusTypes, CallStates, IssueCall
  <2>3. SectionTypes'
    BY <1>0, <1>1, <2>2 DEF SectionTypes, IssueCall
  <2>4. \A i \in 1..Len(inbox) : IsOutcome(inbox[i]) => inbox[i].handle \in Handles \ {h}
    <3>1. \A i \in 1..Len(inbox) : inbox[i] \in InboxMessages
      BY <1>0 DEF SectionTypes, BusTypes
    <3>2. QED
      BY <1>0, <1>1, <3>1, InboxFields DEF OutcomesSettled, IsOutcome, IssueCall
  <2>5. \A g \in Handles \ {h} : call'[g] = call[g]
    BY <1>0, <1>1 DEF SectionTypes, BusTypes, IssueCall
  <2>6. OutcomesSettled'
    BY <1>0, <1>1, <2>4, <2>5 DEF OutcomesSettled, IsOutcome, IssueCall
  <2>7. \A g \in Handles : InFlight(g)' <=> InFlight(g)
    BY <1>0, <1>1 DEF SectionTypes, BusTypes, InFlight, IssueCall
  <2>8. InFlightExact'
    BY <1>0, <1>1, <2>7, SteadyFlight DEF IssueCall, flightVars
  <2>9. QED
    BY <2>3, <2>6, <2>8 DEF CallInv
<1>2. ASSUME UNCHANGED <<call, calls_in_flight>>, SectionTypes',
             \/ UNCHANGED inbox
             \/ Dispatching("appeared") \/ Dispatching("vanished") \/ Dispatching("response")
      PROVE  CallInv'
  <2>1. OutcomesSettled'
    BY <1>0, <1>2, DispatchKeepsOutcomes DEF SectionTypes, OutcomesSettled, IsOutcome
  <2>2. InFlightExact'
    BY <1>0, <1>2, SteadyFlight DEF InFlight
  <2>3. QED
    BY <1>2, <2>1, <2>2 DEF CallInv
<1>3. ASSUME OnPortalAppeared PROVE CallInv'
  <2>1. inbox' \in Seq(InboxMessages) /\ Head(inbox).owner \in Nat
    BY <1>0, <1>3, DispatchTypes, InboxFields DEF SectionTypes, OnPortalAppeared
  <2>2. worker' \in WorkerStates
    BY <1>3 DEF OnPortalAppeared, WorkerStates, Causes, Idle
  <2>3. OwnerTypes' /\ BusTypes'
    BY <1>0, <1>3, <2>1 DEF SectionTypes, OwnerTypes, BusTypes, OnPortalAppeared
  <2>4. SectionTypes'
    BY <1>0, <1>3, <2>2, <2>3 DEF SectionTypes, OnPortalAppeared
  <2>5. QED
    BY <1>2, <1>3, <2>4 DEF OnPortalAppeared, flightVars
<1>4. ASSUME OnPortalVanished PROVE CallInv'
  <2>1. inbox' \in Seq(InboxMessages)
    BY <1>0, <1>4, DispatchTypes DEF SectionTypes, OnPortalVanished
  <2>2. worker' \in WorkerStates
    BY <1>4 DEF OnPortalVanished, WorkerStates, Causes, Idle
  <2>3. OwnerTypes' /\ BusTypes'
    BY <1>0, <1>4, <2>1 DEF SectionTypes, OwnerTypes, BusTypes, OnPortalVanished, NoOwner
  <2>4. SectionTypes'
    BY <1>0, <1>4, <2>2, <2>3 DEF SectionTypes, OnPortalVanished
  <2>5. QED
    BY <1>2, <1>4, <2>4 DEF OnPortalVanished, flightVars
<1>5. ASSUME FailPendingRequests PROVE CallInv'
  <2>1. worker.by \in Causes
    BY <1>0, <1>5, WorkerFields DEF SectionTypes, FailPendingRequests
  <2>2. [by |-> worker.by, code |-> Other] \in Completions
    BY <2>1 DEF Completions, Other, Codes
  <2>3. \A h \in Handles :
          Append(completions[h], [by |-> worker.by, code |-> Other]) \in Seq(Completions)
    BY <1>0, <2>2, AppendIndices DEF SectionTypes, HistoryTypes
  <2>4. HistoryTypes'
    BY <1>0, <1>5, <2>3 DEF SectionTypes, HistoryTypes, FailPendingRequests
  <2>5. RequestTypes'
    BY <1>5 DEF RequestTypes, FailPendingRequests, Absent, Statuses, Paths
  <2>6. FlightTypes'
    BY <1>0, <1>5 DEF SectionTypes, FlightTypes, FailPendingRequests
  <2>7. SectionTypes'
    BY <1>0, <1>5, <2>4, <2>5, <2>6 DEF SectionTypes, FailPendingRequests
  <2>8. QED
    BY <1>2, <1>5, <2>7 DEF FailPendingRequests, busVars
<1>6. ASSUME OnCallFailed PROVE CallInv'
  <2> DEFINE h == Head(inbox).handle
  <2>1. h \in Handles /\ call[h] = "settled" /\ OutcomesSettled'
    BY <1>0, <1>6, HandlingKeepsOutcomes DEF SectionTypes, OnCallFailed
  <2>2. InFlightExact' /\ calls_in_flight' \in Nat
    BY <1>6, <2>1, Landing DEF OnCallFailed
  <2>3. FlightTypes'
    BY <1>0, <1>6, <2>2 DEF SectionTypes, FlightTypes, OnCallFailed, StillClaimable
  <2>4. RequestTypes'
    BY <1>0, <1>6, <2>1, ForgetTypes DEF SectionTypes, OnCallFailed, FailCall
  <2>5. completions' \in [Handles -> Seq(Completions)]
    <3>1. "call" \in Causes /\ Other \in Codes
      BY DEF Causes, Other, Codes
    <3>2. CASE requests[h].status = "absent"
      BY <1>0, <1>6, <3>2 DEF SectionTypes, HistoryTypes, OnCallFailed, FailCall
    <3>3. CASE requests[h].status # "absent"
      BY <1>0, <1>6, <2>1, <3>1, <3>3, ReportTypes DEF SectionTypes, OnCallFailed, FailCall
    <3>4. QED
      BY <3>2, <3>3
  <2>6. BusTypes'
    <3>1. inbox' \in Seq(InboxMessages)
      BY <1>0, <1>6, DispatchTypes DEF SectionTypes, OnCallFailed
    <3>2. QED
      BY <1>0, <1>6, <3>1 DEF SectionTypes, BusTypes, CallStates, OnCallFailed, CallHandled
  <2>7. HistoryTypes'
    BY <1>0, <1>6, <2>5 DEF SectionTypes, HistoryTypes, OnCallFailed
  <2>8. SectionTypes'
    BY <1>0, <1>6, <2>3, <2>4, <2>6, <2>7 DEF SectionTypes, OnCallFailed
  <2>9. QED
    BY <2>1, <2>2, <2>8 DEF CallInv
<1>7. ASSUME OnCallStarted PROVE CallInv'
  <2> DEFINE m == Head(inbox)
  <2>1. m.handle \in Handles /\ call[m.handle] = "settled" /\ OutcomesSettled'
    BY <1>0, <1>7, HandlingKeepsOutcomes DEF SectionTypes, OnCallStarted
  <2>2. InFlightExact' /\ calls_in_flight' \in Nat
    BY <1>7, <2>1, Landing DEF OnCallStarted
  <2>3. inbox' \in Seq(InboxMessages) /\ m.path \in Paths
    BY <1>0, <1>7, DispatchTypes, InboxFields DEF SectionTypes, OnCallStarted
  <2>4. FlightTypes' /\ worker' \in WorkerStates
    BY <1>0, <1>7, <2>2, <2>3, ClaimTypes DEF SectionTypes, FlightTypes, OnCallStarted
  <2>5. RequestTypes'
    BY <1>0, <1>7, <2>1, <2>3, RemapTypes DEF SectionTypes, OnCallStarted
  <2>6. BusTypes'
    BY <1>0, <1>7, <2>3 DEF SectionTypes, BusTypes, CallStates, OnCallStarted, CallHandled
  <2>7. SectionTypes'
    BY <1>0, <1>7, <2>4, <2>5, <2>6 DEF SectionTypes, OnCallStarted
  <2>8. QED
    BY <2>1, <2>2, <2>7 DEF CallInv
<1>8. ASSUME DeliverEarlyResponse PROVE CallInv'
  <2>1. worker.path \in Paths /\ worker.code \in Codes
    BY <1>0, <1>8, WorkerFields DEF SectionTypes, DeliverEarlyResponse
  <2>2. RequestTypes' /\ completions' \in [Handles -> Seq(Completions)]
    BY <1>0, <1>8, <2>1, DeliverTypes DEF SectionTypes, DeliverEarlyResponse
  <2>3. SectionTypes'
    BY <1>0, <1>8, <2>2 DEF SectionTypes, HistoryTypes, DeliverEarlyResponse
  <2>4. QED
    BY <1>2, <1>8, <2>3 DEF DeliverEarlyResponse, flightVars, busVars
<1>9. ASSUME OnRequestResponse PROVE CallInv'
  <2>1. inbox' \in Seq(InboxMessages) /\ Head(inbox).path \in Paths /\ Head(inbox).code \in Codes
    BY <1>0, <1>9, DispatchTypes, InboxFields DEF SectionTypes, OnRequestResponse
  <2>2. RequestTypes' /\ completions' \in [Handles -> Seq(Completions)]
    BY <1>0, <1>9, <2>1, DeliverTypes DEF SectionTypes, OnRequestResponse
  <2>3. worker' \in WorkerStates
    BY <1>9, <2>1 DEF OnRequestResponse, WorkerStates, Idle
  <2>4. BusTypes' /\ HistoryTypes'
    BY <1>0, <1>9, <2>1, <2>2 DEF SectionTypes, BusTypes, HistoryTypes, OnRequestResponse
  <2>5. SectionTypes'
    BY <1>0, <1>9, <2>2, <2>3, <2>4 DEF SectionTypes, OnRequestResponse
  <2>6. QED
    BY <1>2, <1>9, <2>5 DEF OnRequestResponse, flightVars
<1>10. ASSUME HoldUnclaimed PROVE CallInv'
  <2>1. worker.path \in Paths /\ worker.code \in Codes
    BY <1>0, <1>10, WorkerFields DEF SectionTypes, HoldUnclaimed
  <2>2. unclaimed_responses' \in Seq(Responses)
    <3>1. [path |-> worker.path, code |-> worker.code] \in Responses
      BY <2>1 DEF Responses
    <3>2. unclaimed_responses # <<>> => Tail(unclaimed_responses) \in Seq(Responses)
      BY <1>0, TailIndices DEF SectionTypes, FlightTypes
    <3>3. Len(unclaimed_responses) >= MaxUnclaimed => unclaimed_responses # <<>>
      BY <1>0, BoundsAssumption DEF SectionTypes, FlightTypes
    <3>4. QED
      BY <1>0, <1>10, <3>1, <3>2, <3>3, AppendIndices DEF SectionTypes, FlightTypes, HoldUnclaimed
  <2>3. SectionTypes'
    BY <1>0, <1>10, <2>2 DEF SectionTypes, FlightTypes, HoldUnclaimed
  <2>4. QED
    BY <1>2, <1>10, <2>3 DEF HoldUnclaimed, busVars
<1>11. QED
  BY <1>1, <1>3, <1>4, <1>5, <1>6, <1>7, <1>8, <1>9, <1>10 DEF WorkerThread

LEMMA BusCalls ==
  ASSUME CallInv, Bus
  PROVE  CallInv'
<1> USE KeepTypes DEF clientVars, portalVars
<1>0. SectionTypes /\ OutcomesSettled /\ InFlightExact
  BY DEF CallInv
<1>1. ASSUME NEW h \in Handles, NEW m \in InboxMessages, Settle(h, m), IsOutcome(m), m.handle = h,
             outbox' \in Seq(OutboxMessages), ObjectTypes',
             UNCHANGED <<clientVars, worker, closeVars, nameVars, historyVars>>
      PROVE  CallInv'
  <2>1. BusTypes'
    BY <1>0, <1>1, SettleTypes DEF SectionTypes, BusTypes
  <2>2. OutcomesSettled' /\ \A g \in Handles : InFlight(g)' <=> InFlight(g)
    BY <1>0, <1>1, SettleKeepsOutcomes DEF SectionTypes
  <2>3. InFlightExact'
    BY <1>0, <1>1, <2>2, SteadyFlight DEF flightVars
  <2>4. SectionTypes'
    BY <1>0, <1>1, <2>1 DEF SectionTypes
  <2>5. QED
    BY <2>2, <2>3, <2>4 DEF CallInv
<1>2. \A h \in Handles : /\ Failed(h) \in InboxMessages
                         /\ IsOutcome(Failed(h))
                         /\ Failed(h).handle = h
  BY FailedType DEF Failed, IsOutcome
<1>3. outbox \in Seq(OutboxMessages) /\ ObjectTypes
  BY <1>0 DEF SectionTypes, BusTypes
<1>4. ASSUME NEW type, Receiving(type)
      PROVE  /\ outbox' \in Seq(OutboxMessages)
             /\ Head(outbox) \in OutboxMessages
             /\ Head(outbox).type = type
  BY <1>3, <1>4, TailIndices DEF Receiving
<1>5. ASSUME NEW h \in Handles, CallTimesOut(h) PROVE CallInv'
  BY <1>0, <1>1, <1>2, <1>3, <1>5 DEF CallTimesOut
<1>6. ASSUME NEW h \in Handles, BusReportsNoReply(h) PROVE CallInv'
  BY <1>0, <1>1, <1>2, <1>3, <1>6 DEF BusReportsNoReply
<1>7. ASSUME NEW h \in Handles, Reply(h) PROVE CallInv'
  <2> DEFINE m == [type |-> "started", handle |-> h, path |-> home[h]]
  <2>1. m \in InboxMessages /\ IsOutcome(m) /\ m.handle = h
    BY <1>3 DEF ObjectTypes, InboxMessages, IsOutcome
  <2>2. ObjectTypes'
    BY <1>3, <1>7 DEF ObjectTypes, Reply
  <2>3. QED
    BY <1>1, <1>3, <1>7, <2>1, <2>2 DEF Reply
<1>8. ASSUME RefuseCall PROVE CallInv'
  <2>1. Head(outbox).handle \in Handles /\ outbox' \in Seq(OutboxMessages)
    BY <1>4, <1>8, OutboxFields DEF RefuseCall
  <2>2. QED
    BY <1>0, <1>1, <1>2, <1>3, <1>8, <2>1 DEF RefuseCall
<1>9. ASSUME SectionTypes', UNCHANGED <<call, inbox, calls_in_flight>> PROVE CallInv'
  BY <1>0, <1>9, SteadyFlight DEF CallInv, OutcomesSettled, IsOutcome, InFlight
<1>10. ASSUME ReceiveCall PROVE CallInv'
  <2> DEFINE h == Head(outbox).handle
  <2>1. h \in Handles /\ outbox' \in Seq(OutboxMessages)
    BY <1>4, <1>10, OutboxFields DEF ReceiveCall
  <2>2. PICK p \in FreePaths(h) : home' = [home EXCEPT ![h] = p]
    BY <1>10 DEF ReceiveCall
  <2>3. p \in Paths
    BY <2>1 DEF FreePaths, Paths
  <2>4. ObjectTypes'
    BY <1>3, <1>10, <2>1, <2>2, <2>3 DEF ObjectTypes, Stages, ReceiveCall
  <2>5. BusTypes'
    BY <1>0, <1>10, <2>1 DEF SectionTypes, BusTypes, ReceiveCall
  <2>6. SectionTypes'
    BY <1>0, <1>10, <2>4, <2>5 DEF SectionTypes, ReceiveCall
  <2>7. QED
    BY <1>9, <1>10, <2>6 DEF ReceiveCall, flightVars
<1>11. ASSUME ReceiveClose PROVE CallInv'
  <2>1. outbox' \in Seq(OutboxMessages)
    BY <1>4, <1>11 DEF ReceiveClose
  <2>2. \A attempt : \A outcome \in {"ok", "rejected"} :
          SettleClose(attempt, outcome) /\ UNCHANGED closes => CloseTypes'
    BY <1>0 DEF SectionTypes, CloseTypes, Closings, NotClosing, SettleClose, ClosingNow
  <2>3. CloseTypes'
    BY <1>11, <2>2 DEF ReceiveClose
  <2>4. ObjectTypes'
    BY <1>3, <1>11 DEF ObjectTypes, Stages, ReceiveClose
  <2>5. BusTypes'
    BY <1>0, <1>11, <2>1 DEF SectionTypes, BusTypes, ReceiveClose
  <2>6. SectionTypes'
    BY <1>0, <1>11, <2>3, <2>4, <2>5 DEF SectionTypes, ReceiveClose
  <2>7. QED
    BY <1>9, <1>11, <2>6 DEF ReceiveClose, flightVars
<1>12. QED
  BY <1>5, <1>6, <1>7, <1>8, <1>10, <1>11 DEF Bus

LEMMA PortalCalls ==
  ASSUME CallInv, Portal
  PROVE  CallInv'
<1> USE KeepTypes DEF clientVars, portalVars
<1>0. SectionTypes /\ OutcomesSettled /\ InFlightExact
  BY DEF CallInv
<1>1. ASSUME NEW m \in InboxMessages, ~IsOutcome(m), inbox' = Append(inbox, m),
             UNCHANGED <<clientVars, worker, closeVars, call, outbox, historyVars>>,
             NameTypes', ObjectTypes'
      PROVE  CallInv'
  <2>1. BusTypes'
    BY <1>0, <1>1, AppendIndices DEF SectionTypes, BusTypes
  <2>2. OutcomesSettled'
    BY <1>0, <1>1, AppendKeepsOutcomes DEF SectionTypes
  <2>3. InFlightExact'
    BY <1>0, <1>1, SteadyFlight DEF flightVars, InFlight
  <2>4. SectionTypes'
    BY <1>0, <1>1, <2>1 DEF SectionTypes
  <2>5. QED
    BY <2>2, <2>3, <2>4 DEF CallInv
<1>2. NameTypes /\ ObjectTypes
  BY <1>0 DEF SectionTypes
<1>3. ASSUME NEW h \in Handles, NEW code \in Answers, Answer(h, code) PROVE CallInv'
  <2> DEFINE m == [type |-> "response", path |-> home[h], code |-> code]
  <2>1. code \in Codes
    BY BoundsAssumption
  <2>2. m \in InboxMessages /\ ~IsOutcome(m)
    BY <1>2, <2>1 DEF ObjectTypes, InboxMessages, IsOutcome
  <2>3. ObjectTypes'
    BY <1>2, <1>3, <2>1 DEF ObjectTypes, Stages, Answer
  <2>4. QED
    BY <1>0, <1>1, <1>3, <2>2, <2>3 DEF Answer
<1>4. ASSUME PortalStarts PROVE CallInv'
  <2> DEFINE m == [type |-> "appeared", owner |-> instances + 1]
  <2>1. m \in InboxMessages /\ ~IsOutcome(m)
    BY <1>2 DEF NameTypes, InboxMessages, IsOutcome, NoOwner
  <2>2. NameTypes'
    BY <1>2, <1>4 DEF NameTypes, PortalStarts
  <2>3. inbox' = Append(inbox, m) /\ ObjectTypes'
    BY <1>0, <1>4 DEF PortalStarts
  <2>4. QED
    BY <1>1, <1>4, <2>1, <2>2, <2>3 DEF PortalStarts, closeVars
<1>5. ASSUME PortalVanishes PROVE CallInv'
  <2> DEFINE m == [type |-> "vanished"]
  <2>1. m \in InboxMessages /\ ~IsOutcome(m)
    BY DEF InboxMessages, IsOutcome
  <2>2. NameTypes' /\ ObjectTypes'
    BY <1>2, <1>5 DEF NameTypes, ObjectTypes, Stages, NoOwner, PortalVanishes
  <2>3. QED
    BY <1>1, <1>5, <2>1, <2>2 DEF PortalVanishes, closeVars
<1>6. ASSUME ForeignResponse PROVE CallInv'
  <2> DEFINE m == [type |-> "response", path |-> ForeignPath, code |-> Success]
  <2>1. m \in InboxMessages /\ ~IsOutcome(m)
    BY DEF InboxMessages, IsOutcome, Paths, Codes, Success
  <2>2. NameTypes'
    BY <1>2, <1>6 DEF NameTypes, ForeignResponse
  <2>3. ObjectTypes'
    BY <1>0, <1>6 DEF ForeignResponse
  <2>4. QED
    BY <1>1, <1>6, <2>1, <2>2, <2>3 DEF ForeignResponse
<1>7. QED
  BY <1>3, <1>4, <1>5, <1>6 DEF Portal

-----------------------------------------------------------------------------
(* The invariant, and what follows from it.                                *)

LEMMA InitCalls == Init => CallInv
<1> SUFFICES ASSUME Init PROVE CallInv
  OBVIOUS
<1>1. /\ RequestTypes
      /\ FlightTypes /\ OwnerTypes /\ CloseTypes /\ worker \in WorkerStates
  <2>1. \A h \in Handles : Absent(h) \in [status : Statuses, path : Paths]
    BY DEF Absent, Statuses, Paths
  <2>2. RequestTypes
    BY <2>1 DEF Init, RequestTypes
  <2>3. QED
    <3>1. FlightTypes
      BY DEF Init, FlightTypes
    <3>2. OwnerTypes
      BY DEF Init, OwnerTypes, NoOwner
    <3>3. CloseTypes
      BY DEF Init, CloseTypes
    <3>4. QED
      BY <2>2, <3>1, <3>2, <3>3, IdleType DEF Init
<1>2. /\ [type |-> "appeared", owner |-> 1] \in InboxMessages
      /\ [type |-> "vanished"] \in InboxMessages
  BY DEF InboxMessages, NoOwner
<1>3. BusTypes /\ NameTypes /\ ObjectTypes /\ HistoryTypes
  <2>1. BusTypes
    <3>1. call \in [Handles -> CallStates] /\ outbox \in Seq(OutboxMessages)
      BY DEF Init, CallStates
    <3>2. \A m \in InboxMessages : <<m>> \in Seq(InboxMessages)
      OBVIOUS
    <3>3. inbox \in Seq(InboxMessages)
      BY <1>2, <3>2 DEF Init
    <3>4. QED
      BY <3>1, <3>3 DEF BusTypes
  <2>2. NameTypes /\ ObjectTypes
    BY DEF Init, NameTypes, ObjectTypes, Stages, Paths, NoOwner
  <2>3. HistoryTypes
    BY DEF Init, HistoryTypes
  <2>4. QED
    BY <2>1, <2>2, <2>3
<1>4. OutcomesSettled
  BY DEF Init, OutcomesSettled, IsOutcome
<1>5. InFlightExact
  <2>1. {h \in Handles : InFlight(h)} = {}
    BY DEF Init, InFlight
  <2>2. QED
    BY <2>1, FS_EmptySet DEF Init, InFlightExact
<1>6. QED
  BY <1>1, <1>3, <1>4, <1>5 DEF CallInv, SectionTypes

LEMMA NextCalls == CallInv /\ [Section]_sectionVars => CallInv'
<1> SUFFICES ASSUME CallInv, [Section]_sectionVars PROVE CallInv'
  OBVIOUS
<1>1. CASE UNCHANGED sectionVars
  <2>1. SectionTypes'
    <3>1. SectionTypes
      BY DEF CallInv
    <3>2. QED
      BY <1>1, <3>1, KeepTypes DEF SectionTypes, sectionVars, clientVars, portalVars, busVars
  <2>2. OutcomesSettled' /\ InFlightExact'
    BY <1>1, SteadyFlight DEF CallInv, OutcomesSettled, IsOutcome, InFlight, sectionVars, clientVars,
                              flightVars, busVars
  <2>3. QED
    BY <2>1, <2>2 DEF CallInv
<1>2. QED
  BY <1>1, MainThreadCalls, WorkerThreadCalls, BusCalls, PortalCalls DEF Section

LEMMA CallInvariant == Spec => []CallInv
BY InitCalls, NextCalls, NextSections, PTL DEF Spec

-----------------------------------------------------------------------------
(* Emission.                                                               *)

LEMMA AppendGrows == ASSUME NEW S, NEW s \in Seq(S), NEW e PROVE Append(s, e) # s
  OBVIOUS

\* What a step decides to report, and nothing else, is to be emitted after it.
EmitsItsOwn == emitting' = emitting \cup {g \in Handles : completions'[g] # completions[g]}

LEMMA ReportEmits ==
  ASSUME HistoryTypes, NEW h \in Handles, NEW by, NEW code, Report(h, by, code)
  PROVE  EmitsItsOwn
<1>1. completions'[h] # completions[h]
  BY AppendGrows DEF HistoryTypes, Report
<1>2. \A g \in Handles \ {h} : completions'[g] = completions[g]
  BY DEF HistoryTypes, Report
<1>. QED
  BY <1>1, <1>2 DEF Report, EmitsItsOwn

LEMMA DeliverEmits ==
  ASSUME RequestTypes, HistoryTypes, NEW path \in Paths, NEW code, DeliverResponse(path, code)
  PROVE  EmitsItsOwn
<1>1. CASE UNCHANGED <<completions, emitting>>
  BY <1>1 DEF EmitsItsOwn
<1>2. CASE request_paths[path] # None /\ Report(request_paths[path], "portal", code)
  <2>1. request_paths[path] \in Handles
    BY <1>2 DEF RequestTypes
  <2>. QED
    BY <1>2, <2>1, ReportEmits
<1>. QED
  BY <1>1, <1>2 DEF DeliverResponse

LEMMA SectionEmits ==
  ASSUME CallInv, Section
  PROVE  EmitsItsOwn
<1>0. RequestTypes /\ HistoryTypes /\ BusTypes /\ worker \in WorkerStates
  BY DEF CallInv, SectionTypes
<1>1. CASE UNCHANGED <<completions, emitting>>
  BY <1>1 DEF EmitsItsOwn
<1>2. CASE FailPendingRequests
  <2>1. \A g \in Handles : AwaitsAnswer(g) <=> completions'[g] # completions[g]
    BY <1>0, <1>2, AppendGrows DEF FailPendingRequests, HistoryTypes
  <2>. QED
    BY <1>2, <2>1 DEF FailPendingRequests, EmitsItsOwn
<1>3. CASE OnCallFailed
  <2> DEFINE h == Head(inbox).handle
  <2>1. h \in Handles
    BY <1>0, <1>3, DispatchTypes, InboxFields DEF OnCallFailed
  <2>2. UNCHANGED <<completions, emitting>> \/ Report(h, "call", Other)
    BY <1>3 DEF OnCallFailed, FailCall
  <2>. QED
    BY <1>0, <1>1, <2>1, <2>2, ReportEmits
<1>4. CASE DeliverEarlyResponse
  BY <1>0, <1>4, WorkerFields, DeliverEmits DEF DeliverEarlyResponse
<1>5. CASE OnRequestResponse
  <2>1. Head(inbox).path \in Paths
    BY <1>0, <1>5, DispatchTypes, InboxFields DEF OnRequestResponse
  <2>. QED
    BY <1>0, <1>5, <2>1, DeliverEmits DEF OnRequestResponse
<1>6. MainThread => UNCHANGED <<completions, emitting>>
  BY DEF MainThread, BeginRequest, ResolveClose, SendClose, FinishClose, AbandonClose, historyVars
<1>7. WorkerThread =>
        \/ UNCHANGED <<completions, emitting>>
        \/ FailPendingRequests \/ OnCallFailed \/ DeliverEarlyResponse \/ OnRequestResponse
  BY DEF WorkerThread, IssueCall, OnPortalAppeared, OnPortalVanished, OnCallStarted,
         HoldUnclaimed, historyVars
<1>8. Bus => UNCHANGED <<completions, emitting>>
  BY DEF Bus, CallTimesOut, BusReportsNoReply, Reply, ReceiveCall, RefuseCall, ReceiveClose,
         historyVars
<1>9. Portal => UNCHANGED <<completions, emitting>>
  BY DEF Portal, Answer, PortalStarts, PortalVanishes, ForeignResponse, historyVars
<1>. QED
  BY <1>1, <1>2, <1>3, <1>4, <1>5, <1>6, <1>7, <1>8, <1>9 DEF Section

\* Emission itself decides nothing.
LEMMA NextEmits ==
  ASSUME CallInv, [Next]_vars
  PROVE  \/ Section /\ EmitsItsOwn
         \/ UNCHANGED vars
         \/ EmitCompletion
BY SectionEmits DEF Next, Section

LEMMA NextEmitting == CallInv /\ EmittingTypes /\ [Next]_vars => EmittingTypes'
<1> SUFFICES ASSUME CallInv, EmittingTypes, [Next]_vars PROVE EmittingTypes'
  OBVIOUS
<1>1. CASE EmitsItsOwn
  BY <1>1 DEF EmitsItsOwn, EmittingTypes
<1>2. CASE UNCHANGED vars
  BY <1>2 DEF vars, historyVars, EmittingTypes
<1>3. CASE EmitCompletion
  BY <1>3 DEF EmitCompletion, EmittingTypes
<1>. QED
  BY <1>1, <1>2, <1>3, NextEmits

LEMMA EmittingTyped == Spec => []EmittingTypes
<1>1. Init => EmittingTypes
  BY DEF Init, EmittingTypes
<1>. QED
  BY <1>1, NextEmitting, CallInvariant, PTL DEF Spec

\* Every variable keeps its type: calls_in_flight in particular, which two
\* handlers decrement and one thread increments, never goes below zero.
THEOREM TypeCorrect == Spec => []TypeOK
<1>1. CallInv /\ EmittingTypes => TypeOK
  BY DEF CallInv, SectionTypes, TypeOK
<1>. QED
  BY <1>1, CallInvariant, EmittingTyped, PTL

\* calls_in_flight is exactly the number of calls without a handled outcome:
\* every outcome is handled once, also when its request is long gone.
THEOREM InFlightIsExact == Spec => []InFlightExact
BY CallInvariant, PTL DEF CallInv

=============================================================================
