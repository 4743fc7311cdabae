-------------------------- MODULE RequestLifeProofs --------------------------
(***************************************************************************)
(* Theorems about PortalRequests, concluded: if the portal replies to a    *)
(* call before it sends the Response, or if calls do not time out, every   *)
(* request has the life that RequestLife promises and what is held stays   *)
(* closable, whatever else happens: crashes, restarts, Closes that time    *)
(* out, Responses on other paths. Without that assumption there is one way *)
(* in which a life can go wrong. And no request strands: a pending one     *)
(* waits for something that is under way, unless a full list drops it.     *)
(***************************************************************************)
EXTENDS RequestRoutesProofs

-----------------------------------------------------------------------------
(* The strengthening.                                                      *)

\* A call that GDBus settled has its outcome in the worker's queue.
OutcomeBefore(h, n) == \E i \in 1..Len(inbox) : i < n /\ IsOutcome(inbox[i]) /\ inbox[i].handle = h
SettledInv ==
  \A h \in Handles : call[h] = "settled" => OutcomeBefore(h, Len(inbox) + 1)

\* The portal replied before it answered.
RepliedInv ==
  \A h \in Handles :
    /\ replied[h] => call[h] \in {"settled", "done"}
    /\ answer[h] # NoAnswer => replied[h]

\* The call of the request that lives on this path is over.
OnTime(path) == \A h \in Handles : stage[h] # "none" /\ home[h] = path => call[h] = "done"

\* A Response comes to the worker after the outcome of its call.
OrderInv ==
  /\ \A j \in 1..Len(inbox) : \A h \in Handles :
       inbox[j].type = "response" /\ inbox[j].path = home[h] /\ stage[h] # "none"
         => call[h] = "done" \/ OutcomeBefore(h, j)
  /\ worker.step \in {"deliver", "hold"} => OnTime(worker.path)
  /\ \A i \in 1..Len(unclaimed_responses) : OnTime(unclaimed_responses[i].path)

\* A request that was answered has no call under way.
GrantedInv == \A h \in Handles : requests[h].status = "answered" => call[h] = "done"

\* What the order of replies and answers brings.
OrderedInv == RepliedInv /\ OrderInv /\ GrantedInv

\* The failure of a call is not about a request that was answered.
Standing ==
  \A h \in Handles :
    worker = Idle /\ inbox # <<>> /\ Head(inbox) = Failed(h) => requests[h].status # "answered"

\* What was emitted for a request, by the state it is in.
StatusInv ==
  \A h \in Handles :
    /\ call[h] = "idle" => completions[h] = <<>> /\ h \notin closed
    /\ requests[h].status = "pending" => completions[h] = <<>>
    /\ requests[h].status = "answered" => Decided(h) /\ h \in Inhibits
    /\ h \in closed => requests[h].status = "absent"
    /\ Len(completions[h]) <= 1

\* close_request() is about a request that was begun.
ClosingInv == closing # NotClosing => call[closing.handle] # "idle"

LifeInv == RouteInv /\ SettledInv /\ StatusInv /\ ClosingInv

-----------------------------------------------------------------------------
(* Calls progress.                                                         *)

\* How a step may change one call.
CallStep(h) ==
  \/ call'[h] = call[h]
  \/ call[h] = "idle" /\ call'[h] = "queued"
  \/ call[h] = "queued" /\ call'[h] = "sent"
  \/ call[h] = "sent" /\ call'[h] = "settled"
  \/ call[h] = "settled" /\ call'[h] = "done"

LEMMA NextCall ==
  ASSUME CallInv, [Section]_sectionVars
  PROVE  \A h \in Handles : CallStep(h)
<1> USE DEF busVars
<1>0. BusTypes /\ OutcomesSettled
  BY DEF CallInv, SectionTypes
<1>1. CASE UNCHANGED call
  BY <1>1 DEF CallStep
<1>2. ASSUME NEW g \in Handles, BeginRequest(g) \/ IssueCall(g)
      PROVE  \A h \in Handles : CallStep(h)
  BY <1>0, <1>2 DEF BusTypes, CallStep, BeginRequest, IssueCall
<1>3. CASE OnCallFailed \/ OnCallStarted
  <2>1. Head(inbox).handle \in Handles /\ call[Head(inbox).handle] = "settled"
    BY <1>0, <1>3, HandlingKeepsOutcomes DEF OnCallFailed, OnCallStarted
  <2>2. CallHandled(Head(inbox).handle)
    BY <1>3 DEF OnCallFailed, OnCallStarted
  <2>3. QED
    BY <1>0, <2>1, <2>2 DEF BusTypes, CallStep, CallHandled
<1>4. ASSUME NEW g, NEW m, Settle(g, m) PROVE \A h \in Handles : CallStep(h)
  BY <1>0, <1>4 DEF BusTypes, CallStep, Settle
<1>5. MainThread => UNCHANGED call \/ \E g \in Handles : BeginRequest(g)
  BY DEF MainThread, ResolveClose, SendClose, FinishClose, AbandonClose
<1>6. WorkerThread =>
        \/ UNCHANGED call \/ OnCallFailed \/ OnCallStarted
        \/ \E g \in Handles : IssueCall(g)
  BY DEF WorkerThread, OnPortalAppeared, OnPortalVanished, FailPendingRequests,
         DeliverEarlyResponse, OnRequestResponse, HoldUnclaimed
<1>7. Bus => UNCHANGED call \/ \E g, m : Settle(g, m)
  BY DEF Bus, CallTimesOut, BusReportsNoReply, Reply, ReceiveCall, RefuseCall, ReceiveClose
<1>8. Portal => UNCHANGED call
  BY DEF Portal, Answer, PortalStarts, PortalVanishes, ForeignResponse
<1>9. UNCHANGED sectionVars => UNCHANGED call
  BY DEF sectionVars
<1>10. QED
  BY <1>1, <1>2, <1>3, <1>4, <1>5, <1>6, <1>7, <1>8, <1>9 DEF Section

-----------------------------------------------------------------------------
(* The order of the worker's queue.                                        *)

\* How a step may change the queue: it takes the head, or adds a message.
Explained(m) ==
  /\ m.type = "response" =>
       \/ m.path = ForeignPath
       \/ \E g \in Handles, code \in Answers : Answer(g, code) /\ m.path = home[g]
  /\ m.type = "appeared" => PortalStarts
  /\ m.type = "vanished" => PortalVanishes
QueueStep ==
  \/ UNCHANGED inbox /\ \A h \in Handles : call'[h] = "settled" => call[h] = "settled"
  \/ /\ \E type : Dispatching(type)
     /\ \A h \in Handles : call'[h] = "settled" => call[h] = "settled"
     /\ IsOutcome(Head(inbox)) => call'[Head(inbox).handle] = "done"
  \/ \E m \in InboxMessages :
       /\ inbox' = Append(inbox, m) /\ Explained(m)
       /\ \A h \in Handles :
            call'[h] = "settled" => call[h] = "settled" \/ (IsOutcome(m) /\ m.handle = h)

LEMMA NextQueue ==
  ASSUME CallInv, OutboxInv, [Section]_sectionVars
  PROVE  QueueStep
<1> USE DEF busVars
<1>0. BusTypes /\ OutcomesSettled /\ ObjectTypes /\ NameTypes
  BY DEF CallInv, SectionTypes
<1>1. CASE UNCHANGED <<call, inbox>>
  BY <1>1 DEF QueueStep
<1>2. ASSUME NEW g \in Handles, BeginRequest(g) \/ IssueCall(g) PROVE QueueStep
  BY <1>0, <1>2 DEF BusTypes, QueueStep, BeginRequest, IssueCall
<1>3. CASE OnCallFailed \/ OnCallStarted
  <2>1. Head(inbox).handle \in Handles /\ call[Head(inbox).handle] = "settled"
    BY <1>0, <1>3, HandlingKeepsOutcomes DEF OnCallFailed, OnCallStarted
  <2>2. CallHandled(Head(inbox).handle) /\ \E type : Dispatching(type)
    BY <1>3 DEF OnCallFailed, OnCallStarted
  <2>3. /\ call'[Head(inbox).handle] = "done"
        /\ \A h \in Handles : call'[h] = "settled" => call[h] = "settled"
    BY <1>0, <2>1, <2>2 DEF BusTypes, CallHandled
  <2>4. QED
    BY <2>2, <2>3 DEF QueueStep
<1>4. ASSUME UNCHANGED call,
             Dispatching("appeared") \/ Dispatching("vanished") \/ Dispatching("response")
      PROVE  QueueStep
  <2>1. ~IsOutcome(Head(inbox)) /\ \E type : Dispatching(type)
    BY <1>4 DEF Dispatching, IsOutcome
  <2>2. QED
    BY <1>4, <2>1 DEF QueueStep
<1>5. ASSUME NEW g \in Handles, NEW m \in InboxMessages, Settle(g, m), IsOutcome(m), m.handle = g
      PROVE  QueueStep
  <2>0. Explained(m)
    BY <1>5 DEF Explained, IsOutcome
  <2>1. CASE UNCHANGED <<call, inbox>>
    BY <1>1, <2>1
  <2>2. CASE call' = [call EXCEPT ![g] = "settled"] /\ inbox' = Append(inbox, m)
    <3>1. \A h \in Handles : call'[h] = "settled" => call[h] = "settled" \/ (IsOutcome(m) /\ m.handle = h)
      BY <1>0, <1>5, <2>2 DEF BusTypes
    <3>2. QED
      BY <2>0, <2>2, <3>1 DEF QueueStep
  <2>3. QED
    BY <1>5, <2>1, <2>2 DEF Settle
<1>6. ASSUME NEW m \in InboxMessages, inbox' = Append(inbox, m), UNCHANGED call, Explained(m)
      PROVE  QueueStep
  BY <1>6 DEF QueueStep
<1>7. ASSUME NEW g \in Handles, Settle(g, Failed(g)) PROVE QueueStep
  <2>1. Failed(g) \in InboxMessages /\ IsOutcome(Failed(g)) /\ Failed(g).handle = g
    BY FailedType DEF Failed, IsOutcome
  <2>2. QED
    BY <1>5, <1>7, <2>1
<1>8. ASSUME NEW g \in Handles, Reply(g) PROVE QueueStep
  <2> DEFINE m == [type |-> "started", handle |-> g, path |-> home[g]]
  <2>1. m \in InboxMessages /\ IsOutcome(m) /\ m.handle = g
    BY <1>0 DEF ObjectTypes, InboxMessages, IsOutcome
  <2>2. Settle(g, m)
    BY <1>8 DEF Reply
  <2>3. QED
    BY <1>5, <2>1, <2>2
<1>9. ASSUME NEW h \in Handles, NEW code \in Answers, Answer(h, code) PROVE QueueStep
  <2> DEFINE m == [type |-> "response", path |-> home[h], code |-> code]
  <2>1. code \in Codes
    BY BoundsAssumption
  <2>2. m \in InboxMessages
    BY <1>0, <2>1 DEF ObjectTypes, InboxMessages
  <2>3. inbox' = Append(inbox, m) /\ UNCHANGED call
    BY <1>9 DEF Answer
  <2>4. Explained(m)
    BY <1>9 DEF Explained
  <2>5. QED
    BY <1>6, <2>2, <2>3, <2>4
<1>10. CASE PortalStarts
  <2> DEFINE m == [type |-> "appeared", owner |-> instances + 1]
  <2>1. m \in InboxMessages /\ Explained(m)
    BY <1>0, <1>10 DEF NameTypes, InboxMessages, NoOwner, Explained
  <2>2. QED
    BY <1>6, <1>10, <2>1 DEF PortalStarts
<1>11. CASE PortalVanishes
  <2>1. [type |-> "vanished"] \in InboxMessages /\ Explained([type |-> "vanished"])
    BY <1>11 DEF InboxMessages, Explained
  <2>2. QED
    BY <1>6, <1>11, <2>1 DEF PortalVanishes
<1>12. CASE ForeignResponse
  <2> DEFINE m == [type |-> "response", path |-> ForeignPath, code |-> Success]
  <2>1. m \in InboxMessages /\ Explained(m)
    BY DEF InboxMessages, Paths, Codes, Success, Explained
  <2>2. QED
    BY <1>6, <1>12, <2>1 DEF ForeignResponse
<1>13. CASE RefuseCall
  <2>1. Head(outbox).handle \in Handles /\ Settle(Head(outbox).handle, Failed(Head(outbox).handle))
    BY <1>0, <1>13, HeadUnreceived DEF RefuseCall
  <2>2. QED
    BY <1>7, <2>1
<1>14. MainThread => UNCHANGED <<call, inbox>> \/ \E g \in Handles : BeginRequest(g)
  BY DEF MainThread, ResolveClose, SendClose, FinishClose, AbandonClose
<1>15. WorkerThread =>
         \/ UNCHANGED <<call, inbox>> \/ OnCallFailed \/ OnCallStarted
         \/ \E g \in Handles : IssueCall(g)
         \/ /\ UNCHANGED call
            /\ Dispatching("appeared") \/ Dispatching("vanished") \/ Dispatching("response")
  BY DEF WorkerThread, OnPortalAppeared, OnPortalVanished, FailPendingRequests,
         DeliverEarlyResponse, OnRequestResponse, HoldUnclaimed
<1>16. Bus =>
         \/ UNCHANGED <<call, inbox>> \/ RefuseCall
         \/ \E g \in Handles : Settle(g, Failed(g)) \/ Reply(g)
  BY DEF Bus, CallTimesOut, BusReportsNoReply, ReceiveCall, ReceiveClose
<1>17. UNCHANGED sectionVars => UNCHANGED <<call, inbox>>
  BY DEF sectionVars
<1>18. QED
  BY <1>1, <1>2, <1>3, <1>4, <1>7, <1>8, <1>9, <1>10, <1>11, <1>12, <1>13, <1>14, <1>15, <1>16,
     <1>17 DEF Section, Portal

\* The same as OutcomeBefore, of the next state.
OutcomeBeforeNext(h, n) ==
  \E i \in 1..Len(inbox') : i < n /\ IsOutcome(inbox'[i]) /\ inbox'[i].handle = h

\* Outcomes keep their place while messages are added, and move up when one is taken.
LEMMA OutcomeAppended ==
  ASSUME BusTypes, NEW m \in InboxMessages, inbox' = Append(inbox, m), NEW h \in Handles
  PROVE  /\ Len(inbox) \in Nat /\ Len(inbox') = Len(inbox) + 1
         /\ \A i \in 1..Len(inbox) : inbox'[i] = inbox[i]
         /\ inbox'[Len(inbox) + 1] = m
         /\ \A n \in Nat : OutcomeBefore(h, n) => OutcomeBeforeNext(h, n)
         /\ IsOutcome(m) /\ m.handle = h => OutcomeBeforeNext(h, Len(inbox') + 1)
<1>1. /\ Len(inbox) \in Nat /\ Len(inbox') = Len(inbox) + 1
      /\ \A i \in 1..Len(inbox) : inbox'[i] = inbox[i]
      /\ inbox'[Len(inbox) + 1] = m
  BY AppendIndices DEF BusTypes
<1>2. \A i \in 1..Len(inbox) : i \in 1..Len(inbox')
  BY <1>1
<1>3. ASSUME NEW n \in Nat, OutcomeBefore(h, n) PROVE OutcomeBeforeNext(h, n)
  BY <1>1, <1>2, <1>3 DEF OutcomeBefore, OutcomeBeforeNext
<1>4. ASSUME IsOutcome(m), m.handle = h PROVE OutcomeBeforeNext(h, Len(inbox') + 1)
  <2>1. Len(inbox) + 1 \in 1..Len(inbox') /\ Len(inbox) + 1 < Len(inbox') + 1
    BY <1>1
  <2>2. QED
    BY <1>1, <1>4, <2>1 DEF OutcomeBeforeNext
<1>5. QED
  BY <1>1, <1>3, <1>4

LEMMA OutcomeTaken ==
  ASSUME BusTypes, NEW type, Dispatching(type), NEW h \in Handles, NEW n \in Nat,
         OutcomeBefore(h, n), ~(IsOutcome(Head(inbox)) /\ Head(inbox).handle = h)
  PROVE  OutcomeBeforeNext(h, n - 1)
<1>1. /\ Head(inbox) = inbox[1] /\ Len(inbox) \in Nat /\ Len(inbox') = Len(inbox) - 1
      /\ \A i \in 1..Len(inbox') : inbox'[i] = inbox[i + 1]
  BY TailIndices DEF BusTypes, Dispatching
<1>2. PICK i \in 1..Len(inbox) : i < n /\ IsOutcome(inbox[i]) /\ inbox[i].handle = h
  BY DEF OutcomeBefore
<1>3. i # 1
  BY <1>1, <1>2
<1>4. i - 1 \in 1..Len(inbox') /\ i - 1 < n - 1 /\ (i - 1) + 1 = i
  BY <1>1, <1>2, <1>3
<1>5. inbox'[i - 1] = inbox[i]
  BY <1>1, <1>4
<1>6. QED
  BY <1>2, <1>4, <1>5 DEF OutcomeBeforeNext

LEMMA NextSettled ==
  ASSUME RouteInv, SettledInv, [Section]_sectionVars
  PROVE  SettledInv'
<1>0. BusTypes /\ QueueStep /\ Len(inbox) \in Nat
  BY NextQueue DEF RouteInv, CallInv, SectionTypes, BusTypes
<1>1. ASSUME NEW h \in Handles, call'[h] = "settled"
      PROVE  OutcomeBeforeNext(h, Len(inbox') + 1)
  <2>1. CASE UNCHANGED inbox /\ call[h] = "settled"
    BY <2>1 DEF SettledInv, OutcomeBefore, OutcomeBeforeNext
  <2>2. ASSUME NEW type, Dispatching(type), call[h] = "settled",
               IsOutcome(Head(inbox)) => call'[Head(inbox).handle] = "done"
        PROVE  OutcomeBeforeNext(h, Len(inbox') + 1)
    <3>1. OutcomeBefore(h, Len(inbox) + 1) /\ ~(IsOutcome(Head(inbox)) /\ Head(inbox).handle = h)
      BY <1>1, <2>2 DEF SettledInv
    <3>2. Len(inbox') + 1 = (Len(inbox) + 1) - 1
      BY <1>0, <2>2, TailIndices DEF BusTypes, Dispatching
    <3>3. Len(inbox) + 1 \in Nat
      BY <1>0
    <3>4. OutcomeBeforeNext(h, (Len(inbox) + 1) - 1)
      BY <1>0, <2>2, <3>1, <3>3, OutcomeTaken
    <3>5. QED
      BY <3>2, <3>4
  <2>3. ASSUME NEW m \in InboxMessages, inbox' = Append(inbox, m),
               call[h] = "settled" \/ (IsOutcome(m) /\ m.handle = h)
        PROVE  OutcomeBeforeNext(h, Len(inbox') + 1)
    <3>1. CASE IsOutcome(m) /\ m.handle = h
      BY <1>0, <2>3, <3>1, OutcomeAppended
    <3>2. CASE call[h] = "settled"
      <4>1. OutcomeBefore(h, Len(inbox) + 1) /\ Len(inbox) + 1 \in Nat
        BY <1>0, <3>2 DEF SettledInv
      <4>2. OutcomeBeforeNext(h, Len(inbox) + 1) /\ Len(inbox') = Len(inbox) + 1
        BY <1>0, <2>3, <4>1, OutcomeAppended
      <4>3. QED
        BY <1>0, <4>2 DEF OutcomeBeforeNext
    <3>3. QED
      BY <2>3, <3>1, <3>2
  <2>4. QED
    BY <1>0, <1>1, <2>1, <2>2, <2>3 DEF QueueStep
<1>2. QED
  BY <1>1 DEF SettledInv, OutcomeBefore, OutcomeBeforeNext, IsOutcome

LEMMA GrownQueue ==
  ASSUME NEW S, NEW s \in Seq(S), s # <<>>, NEW e
  PROVE  Append(s, e) # Tail(s) /\ s # Tail(s)
<1>1. s \in Seq(S \cup {e})
  OBVIOUS
<1>2. Len(Append(s, e)) = Len(s) + 1 /\ Len(s) \in Nat
  BY <1>1, AppendIndices
<1>3. Len(Tail(s)) = Len(s) - 1
  BY TailIndices
<1>4. \A a, b : \A n \in Nat : a = n + 1 /\ b = n - 1 => a # b /\ n # b
  OBVIOUS
<1>. QED
  BY <1>2, <1>3, <1>4, Zenon

\* A message that leaves the queue is handled.
LEMMA Taken ==
  ASSUME CallInv, [Section]_sectionVars, NEW type, Dispatching(type)
  PROVE  \/ type = "appeared" /\ OnPortalAppeared
         \/ type = "vanished" /\ OnPortalVanished
         \/ type = "response" /\ OnRequestResponse
         \/ type = "started" /\ OnCallStarted
         \/ type = "failed" /\ OnCallFailed
<1> USE DEF busVars
<1>1. inbox \in Seq(InboxMessages) /\ inbox # <<>> /\ inbox' = Tail(inbox)
  BY DEF CallInv, SectionTypes, BusTypes, Dispatching
<1>2. inbox' # inbox /\ \A m : inbox' # Append(inbox, m)
  BY <1>1, GrownQueue
<1>3. ~MainThread
  BY <1>2 DEF MainThread, BeginRequest, ResolveClose, SendClose, FinishClose, AbandonClose
<1>4. \A h, m : ~Settle(h, m)
  BY <1>2 DEF Settle
<1>5. ~Bus
  BY <1>2, <1>4 DEF Bus, CallTimesOut, BusReportsNoReply, Reply, ReceiveCall, RefuseCall, ReceiveClose
<1>6. ~Portal
  BY <1>2 DEF Portal, Answer, PortalStarts, PortalVanishes, ForeignResponse
<1>7. WorkerThread
  BY <1>2, <1>3, <1>5, <1>6 DEF Section, sectionVars
<1>8. OnPortalAppeared \/ OnPortalVanished \/ OnRequestResponse \/ OnCallStarted \/ OnCallFailed
  BY <1>2, <1>7 DEF WorkerThread, IssueCall, FailPendingRequests, DeliverEarlyResponse, HoldUnclaimed
<1>9. \A other : Dispatching(other) => type = other
  BY DEF Dispatching
<1>10. /\ OnPortalAppeared => Dispatching("appeared")
       /\ OnPortalVanished => Dispatching("vanished")
       /\ OnRequestResponse => Dispatching("response")
       /\ OnCallStarted => Dispatching("started")
       /\ OnCallFailed => Dispatching("failed")
  BY DEF OnPortalAppeared, OnPortalVanished, OnRequestResponse, OnCallStarted, OnCallFailed
<1>. QED
  BY <1>8, <1>9, <1>10

-----------------------------------------------------------------------------
(* Replies come before answers.                                            *)

LEMMA NextReplied ==
  ASSUME EarlyResponses = FALSE, RouteInv, RepliedInv, [Section]_sectionVars
  PROVE  RepliedInv'
<1> USE DEF portalVars, objectVars
<1>0. BusTypes /\ ObjectTypes /\ OutboxInv
  BY DEF RouteInv, CallInv, SectionTypes
<1>1. \A h \in Handles : CallStep(h)
  BY NextCall DEF RouteInv
<1>2. \A h \in Handles : call[h] \in {"settled", "done"} => call'[h] \in {"settled", "done"}
  BY <1>1 DEF CallStep
<1>3. CASE UNCHANGED <<replied, answer>>
  BY <1>2, <1>3 DEF RepliedInv
<1>4. ASSUME NEW g \in Handles, Reply(g) PROVE RepliedInv'
  <2>1. call[g] \notin {"idle", "queued"}
    BY <1>0, <1>4 DEF Reply, OutboxInv
  <2>2. call'[g] \in {"settled", "done"}
    BY <1>0, <1>4, <2>1 DEF Reply, Settle, BusTypes, CallStates
  <2>3. /\ \A h \in Handles \ {g} : replied'[h] = replied[h]
        /\ replied'[g] = TRUE
        /\ UNCHANGED answer
    BY <1>0, <1>4 DEF Reply, ObjectTypes
  <2>4. ASSUME NEW h \in Handles
        PROVE  /\ replied'[h] => call'[h] \in {"settled", "done"}
               /\ answer'[h] # NoAnswer => replied'[h]
    <3>1. CASE h = g
      BY <2>2, <2>3, <3>1
    <3>2. CASE h # g
      BY <1>2, <2>3, <3>2 DEF RepliedInv
    <3>3. QED
      BY <3>1, <3>2
  <2>5. QED
    BY <2>4 DEF RepliedInv
<1>5. ASSUME NEW g \in Handles, NEW code \in Answers, Answer(g, code) PROVE RepliedInv'
  <2>1. replied[g] /\ UNCHANGED <<replied, call>>
    BY <1>5 DEF Answer
  <2>2. \A h \in Handles \ {g} : answer'[h] = answer[h]
    BY <1>0, <1>5 DEF Answer, ObjectTypes
  <2>3. QED
    BY <2>1, <2>2 DEF RepliedInv
<1>6. MainThread => UNCHANGED <<replied, answer>>
  BY DEF MainThread, BeginRequest, ResolveClose, SendClose, FinishClose, AbandonClose
<1>7. WorkerThread => UNCHANGED <<replied, answer>>
  BY DEF WorkerThread, IssueCall, OnPortalAppeared, OnPortalVanished, FailPendingRequests,
         OnCallFailed, OnCallStarted, DeliverEarlyResponse, OnRequestResponse, HoldUnclaimed
<1>8. Bus => UNCHANGED <<replied, answer>> \/ \E h \in Handles : Reply(h)
  BY DEF Bus, CallTimesOut, BusReportsNoReply, ReceiveCall, RefuseCall, ReceiveClose
<1>9. Portal => \/ UNCHANGED <<replied, answer>>
                \/ \E h \in Handles, code \in Answers : Answer(h, code)
  BY DEF Portal, PortalStarts, PortalVanishes, ForeignResponse
<1>10. UNCHANGED sectionVars => UNCHANGED <<replied, answer>>
  BY DEF sectionVars
<1>11. QED
  BY <1>3, <1>4, <1>5, <1>6, <1>7, <1>8, <1>9, <1>10 DEF Section

-----------------------------------------------------------------------------
(* Responses come after the outcomes of their calls.                       *)

\* A Request object gets a home that no message names.
LEMMA FreshHome ==
  ASSUME RouteInv, [Section]_sectionVars, NEW h \in Handles, stage[h] = "none", stage'[h] # "none"
  PROVE  /\ UNCHANGED <<inbox, call>>
         /\ \A path, code : Genuine(path, code) => path # home'[h]
<1> USE DEF portalVars, objectVars
<1>0. BusTypes /\ ObjectTypes /\ OutboxInv
  BY DEF RouteInv, CallInv, SectionTypes
<1>1. CASE UNCHANGED stage
  BY <1>1
<1>2. CASE ReceiveCall
  <2>1. Head(outbox).handle \in Handles
    BY <1>0, <1>2, HeadUnreceived DEF ReceiveCall
  <2>2. PICK p \in FreePaths(Head(outbox).handle) : home' = [home EXCEPT ![Head(outbox).handle] = p]
    BY <1>2 DEF ReceiveCall
  <2>3. Head(outbox).handle = h
    BY <1>0, <1>2, <2>1 DEF ReceiveCall, ObjectTypes
  <2>4. home'[h] = p /\ p # ForeignPath /\ \A g \in Handles : stage[g] # "none" => home[g] # p
    BY <1>0, <2>2, <2>3, PathsAssumption DEF ObjectTypes, FreePaths
  <2>5. \A path, code : Genuine(path, code) => path # home'[h]
    BY <2>4 DEF Genuine, Decided
  <2>6. QED
    BY <1>2, <2>5 DEF ReceiveCall
<1>3. ASSUME NEW g \in Handles, NEW code \in Answers, Answer(g, code) PROVE FALSE
  BY <1>0, <1>3 DEF Answer, ObjectTypes
<1>4. CASE ReceiveClose
  BY <1>0, <1>4 DEF ReceiveClose, ObjectTypes, Live
<1>5. CASE PortalVanishes
  BY <1>0, <1>5 DEF PortalVanishes, ObjectTypes
<1>6. MainThread => UNCHANGED stage
  BY DEF MainThread, BeginRequest, ResolveClose, SendClose, FinishClose, AbandonClose
<1>7. WorkerThread => UNCHANGED stage
  BY DEF WorkerThread, IssueCall, OnPortalAppeared, OnPortalVanished, FailPendingRequests,
         OnCallFailed, OnCallStarted, DeliverEarlyResponse, OnRequestResponse, HoldUnclaimed
<1>8. Bus => UNCHANGED stage \/ ReceiveCall \/ ReceiveClose
  BY DEF Bus, CallTimesOut, BusReportsNoReply, RefuseCall, Reply
<1>9. Portal => \/ UNCHANGED stage
                \/ PortalVanishes \/ \E g \in Handles, code \in Answers : Answer(g, code)
  BY DEF Portal, PortalStarts, ForeignResponse
<1>10. UNCHANGED sectionVars => UNCHANGED stage
  BY DEF sectionVars
<1>11. QED
  BY <1>1, <1>2, <1>3, <1>4, <1>5, <1>6, <1>7, <1>8, <1>9, <1>10 DEF Section

\* The same as OnTime, of the next state.
OnTimeNext(path) == \A h \in Handles : stage'[h] # "none" /\ home'[h] = path => call'[h] = "done"

LEMMA OnTimeKept ==
  ASSUME RouteInv, [Section]_sectionVars
  PROVE  \A path, code : Genuine(path, code) /\ OnTime(path) => OnTimeNext(path)
<1> SUFFICES ASSUME NEW path, NEW code, Genuine(path, code), OnTime(path),
                    NEW h \in Handles, stage'[h] # "none", home'[h] = path
             PROVE  call'[h] = "done"
  BY DEF OnTimeNext
<1>1. stage[h] # "none"
  BY FreshHome
<1>2. home[h] = path
  BY <1>1, NextPersistent DEF RouteInv, Persistent
<1>3. call[h] = "done" /\ CallStep(h)
  BY <1>1, <1>2, NextCall DEF OnTime, RouteInv
<1>4. QED
  BY <1>3 DEF CallStep

\* What holds of the Responses in the queue.
QueueOrder ==
  \A j \in 1..Len(inbox) : \A h \in Handles :
    inbox[j].type = "response" /\ inbox[j].path = home[h] /\ stage[h] # "none"
      => call[h] = "done" \/ OutcomeBefore(h, j)

LEMMA NextQueueOrder ==
  ASSUME EarlyResponses = FALSE, RouteInv, SettledInv, RepliedInv, QueueOrder, [Section]_sectionVars
  PROVE  QueueOrder'
<1>0. /\ BusTypes /\ QueueStep /\ Len(inbox) \in Nat /\ HomesInv /\ MessagesInv
      /\ \A h \in Handles : CallStep(h)
  BY NextQueue, NextCall DEF RouteInv, CallInv, SectionTypes, BusTypes
<1>1. ASSUME NEW j \in 1..Len(inbox'), NEW h \in Handles,
             inbox'[j].type = "response", inbox'[j].path = home'[h], stage'[h] # "none"
      PROVE  call'[h] = "done" \/ OutcomeBeforeNext(h, j)
  <2>0. CASE call[h] = "done"
    BY <1>0, <2>0 DEF CallStep
  <2>1. stage[h] # "none"
    <3>1. ASSUME stage[h] = "none" PROVE FALSE
      <4>1. inbox'[j] = inbox[j] /\ j \in 1..Len(inbox)
        BY <1>1, <3>1, FreshHome
      <4>2. Genuine(inbox[j].path, inbox[j].code)
        BY <1>0, <1>1, <4>1 DEF MessagesInv, Truthful
      <4>3. QED
        BY <1>1, <3>1, <4>1, <4>2, FreshHome
    <3>2. QED
      BY <3>1
  <2>2. home'[h] = home[h]
    BY <2>1, NextPersistent DEF RouteInv, Persistent
  <2>3. \A k \in 1..Len(inbox) : inbox[k] = inbox'[j] => call[h] = "done" \/ OutcomeBefore(h, k)
    BY <1>1, <2>1, <2>2 DEF QueueOrder
  <2>4. CASE UNCHANGED inbox
    BY <1>0, <2>0, <2>3, <2>4 DEF OutcomeBefore, OutcomeBeforeNext
  <2>5. ASSUME NEW type, Dispatching(type),
               IsOutcome(Head(inbox)) => call'[Head(inbox).handle] = "done"
        PROVE  call'[h] = "done" \/ OutcomeBeforeNext(h, j)
    <3>0. /\ Len(inbox') = Len(inbox) - 1
          /\ \A i \in 1..Len(inbox') : inbox'[i] = inbox[i + 1]
      BY <1>0, <2>5, TailIndices DEF BusTypes, Dispatching
    <3>1. j + 1 \in 1..Len(inbox) /\ inbox'[j] = inbox[j + 1] /\ j + 1 \in Nat /\ (j + 1) - 1 = j
      BY <1>0, <1>1, <3>0
    <3>2. CASE OutcomeBefore(h, j + 1) /\ ~(IsOutcome(Head(inbox)) /\ Head(inbox).handle = h)
      <4>1. OutcomeBeforeNext(h, (j + 1) - 1)
        BY <1>0, <2>5, <3>1, <3>2, OutcomeTaken
      <4>2. QED
        BY <3>1, <4>1
    <3>3. QED
      BY <2>0, <2>3, <2>5, <3>1, <3>2
  <2>6. ASSUME NEW m \in InboxMessages, inbox' = Append(inbox, m), Explained(m)
        PROVE  call'[h] = "done" \/ OutcomeBeforeNext(h, j)
    <3>1. /\ \A i \in 1..Len(inbox) : inbox'[i] = inbox[i]
          /\ inbox'[Len(inbox) + 1] = m /\ Len(inbox') = Len(inbox) + 1
          /\ \A n \in Nat : OutcomeBefore(h, n) => OutcomeBeforeNext(h, n)
      BY <1>0, <2>6, OutcomeAppended
    <3>2. CASE j \in 1..Len(inbox)
      BY <1>0, <2>0, <2>3, <3>1, <3>2
    <3>3. CASE j = Len(inbox) + 1
      <4>1. m.type = "response" /\ m.path = home[h]
        BY <1>1, <2>2, <3>1, <3>3
      <4>2. home[h] # ForeignPath
        BY <1>0, PathsAssumption DEF HomesInv
      <4>3. PICK g \in Handles, code \in Answers : Answer(g, code) /\ m.path = home[g]
        BY <2>6, <4>1, <4>2 DEF Explained
      <4>4. stage[g] # "none" /\ replied[g]
        BY <4>3 DEF Answer
      <4>5. g = h
        BY <1>0, <2>1, <4>1, <4>3, <4>4 DEF HomesInv
      <4>6. call[h] \in {"settled", "done"}
        BY <4>4, <4>5 DEF RepliedInv
      <4>7. CASE call[h] = "settled"
        <5>1. OutcomeBefore(h, Len(inbox) + 1) /\ Len(inbox) + 1 \in Nat
          BY <1>0, <4>7 DEF SettledInv
        <5>2. QED
          BY <3>1, <3>3, <5>1
      <4>8. QED
        BY <2>0, <4>6, <4>7
    <3>4. QED
      BY <1>0, <3>1, <3>2, <3>3
  <2>7. QED
    BY <1>0, <2>4, <2>5, <2>6 DEF QueueStep
<1>2. QED
  BY <1>1 DEF QueueOrder, OutcomeBefore, OutcomeBeforeNext, IsOutcome

LEMMA NextOrder ==
  ASSUME EarlyResponses = FALSE, RouteInv, SettledInv, RepliedInv, OrderInv, [Section]_sectionVars
  PROVE  OrderInv'
<1>0. /\ BusTypes /\ FlightTypes /\ MessagesInv /\ CallInv
      /\ \A path, code : Genuine(path, code) /\ OnTime(path) => OnTimeNext(path)
  BY OnTimeKept DEF RouteInv, CallInv, SectionTypes
<1>1. QueueOrder'
  BY NextQueueOrder DEF OrderInv, QueueOrder
<1>2. \A k \in 1..Len(unclaimed_responses') : OnTimeNext(unclaimed_responses'[k].path)
  <2>1. \A r : HeldFrom(r) => Genuine(r.path, r.code) /\ OnTime(r.path)
    BY <1>0 DEF HeldFrom, MessagesInv, OrderInv
  <2>2. QED
    BY <1>0, <2>1, HeldSources
<1>3. worker'.step \in {"deliver", "hold"} => OnTimeNext(worker'.path)
  <2>1. CASE UNCHANGED worker
    <3>1. worker.step \in {"deliver", "hold"} => Genuine(worker.path, worker.code) /\ OnTime(worker.path)
      BY <1>0 DEF MessagesInv, OrderInv
    <3>2. QED
      BY <1>0, <2>1, <3>1
  <2>2. CASE worker'.step \notin {"deliver", "hold"}
    BY <2>2
  <2>3. CASE OnCallStarted
    <3>1. ASSUME NEW i \in 1..Len(unclaimed_responses),
                 unclaimed_responses[i].path = Head(inbox).path,
                 worker' = [step |-> "deliver", path |-> Head(inbox).path,
                            code |-> unclaimed_responses[i].code]
          PROVE  OnTimeNext(worker'.path)
      <4>1. /\ Genuine(unclaimed_responses[i].path, unclaimed_responses[i].code)
            /\ OnTime(unclaimed_responses[i].path)
        BY <1>0 DEF MessagesInv, OrderInv
      <4>2. QED
        BY <1>0, <3>1, <4>1
    <3>2. worker' = Idle \/ \E i \in 1..Len(unclaimed_responses) :
            /\ unclaimed_responses[i].path = Head(inbox).path
            /\ worker' = [step |-> "deliver", path |-> Head(inbox).path,
                          code |-> unclaimed_responses[i].code]
      BY <1>0, <2>3 DEF FlightTypes, OnCallStarted, ClaimEarlyResponse
    <3>3. QED
      BY <2>2, <3>1, <3>2 DEF Idle
  <2>4. CASE OnRequestResponse
    <3>1. Head(inbox) = inbox[1] /\ 1 \in 1..Len(inbox) /\ Head(inbox).type = "response"
      BY <1>0, <2>4, TailIndices DEF BusTypes, OnRequestResponse, Dispatching
    <3>2. Genuine(Head(inbox).path, Head(inbox).code)
      BY <1>0, <3>1 DEF MessagesInv, Truthful
    <3>3. \A h \in Handles : ~OutcomeBefore(h, 1)
      BY <1>0 DEF OutcomeBefore, BusTypes
    <3>4. OnTime(Head(inbox).path)
      BY <3>1, <3>3 DEF OrderInv, OnTime
    <3>5. OnTimeNext(Head(inbox).path)
      BY <1>0, <3>2, <3>4
    <3>6. worker' = Idle
            \/ worker' = [step |-> "hold", path |-> Head(inbox).path, code |-> Head(inbox).code]
      BY <2>4 DEF OnRequestResponse
    <3>7. QED
      BY <2>2, <3>5, <3>6 DEF Idle
  <2>5. MainThread => UNCHANGED worker
    BY DEF MainThread, BeginRequest, ResolveClose, SendClose, FinishClose, AbandonClose
  <2>6. WorkerThread =>
          \/ UNCHANGED worker \/ OnCallStarted \/ OnRequestResponse
          \/ worker' = Idle \/ worker'.step = "fail"
    <3>1. OnPortalAppeared \/ OnPortalVanished => worker' = Idle \/ worker'.step = "fail"
      BY DEF OnPortalAppeared, OnPortalVanished
    <3>2. QED
      BY <3>1 DEF WorkerThread, IssueCall, FailPendingRequests, OnCallFailed,
                  DeliverEarlyResponse, HoldUnclaimed
  <2>7. Bus => UNCHANGED worker
    BY DEF Bus, CallTimesOut, BusReportsNoReply, Reply, ReceiveCall, RefuseCall, ReceiveClose
  <2>8. Portal => UNCHANGED worker
    BY DEF Portal, Answer, PortalStarts, PortalVanishes, ForeignResponse
  <2>9. UNCHANGED sectionVars => UNCHANGED worker
    BY DEF sectionVars
  <2>10. QED
    BY <2>1, <2>2, <2>3, <2>4, <2>5, <2>6, <2>7, <2>8, <2>9 DEF Section, Idle
<1>4. QED
  BY <1>1, <1>2, <1>3 DEF OrderInv, QueueOrder, OnTime, OnTimeNext

-----------------------------------------------------------------------------
(* How objects and messages to the portal change.                           *)

\* How a step may change an object.
LEMMA StageStep ==
  ASSUME CallInv, OutboxInv, [Section]_sectionVars, NEW h \in Handles
  PROVE  \/ stage'[h] = stage[h]
         \/ stage[h] = "none" /\ stage'[h] = "open"
         \/ \E code \in Answers : Answer(h, code)
         \/ ReceiveClose /\ Live(h) /\ stage'[h] = "closed"
         \/ PortalVanishes /\ stage[h] # "none" /\ stage'[h] = "gone"
<1> USE DEF portalVars, objectVars
<1>0. BusTypes /\ ObjectTypes
  BY DEF CallInv, SectionTypes
<1>1. CASE ReceiveCall
  <2>1. Head(outbox).handle \in Handles /\ stage[Head(outbox).handle] = "none"
    BY <1>0, <1>1, HeadUnreceived DEF ReceiveCall, Unreceived
  <2>. QED
    BY <1>0, <1>1, <2>1 DEF ReceiveCall, ObjectTypes
<1>2. ASSUME NEW g \in Handles, NEW code \in Answers, Answer(g, code)
      PROVE  g = h \/ stage'[h] = stage[h]
  BY <1>0, <1>2 DEF Answer, ObjectTypes
<1>3. CASE ReceiveClose
  BY <1>0, <1>3 DEF ReceiveClose, ObjectTypes
<1>4. CASE PortalVanishes
  BY <1>0, <1>4 DEF PortalVanishes, ObjectTypes
<1>5. MainThread => UNCHANGED stage
  BY DEF MainThread, BeginRequest, ResolveClose, SendClose, FinishClose, AbandonClose
<1>6. WorkerThread => UNCHANGED stage
  BY DEF WorkerThread, IssueCall, OnPortalAppeared, OnPortalVanished, FailPendingRequests,
         OnCallFailed, OnCallStarted, DeliverEarlyResponse, OnRequestResponse, HoldUnclaimed
<1>7. Bus => UNCHANGED stage \/ ReceiveCall \/ ReceiveClose
  BY DEF Bus, CallTimesOut, BusReportsNoReply, Reply, RefuseCall
<1>8. Portal => UNCHANGED stage \/ PortalVanishes \/ \E g \in Handles, code \in Answers : Answer(g, code)
  BY DEF Portal, PortalStarts, ForeignResponse
<1>9. UNCHANGED sectionVars => UNCHANGED stage
  BY DEF sectionVars
<1>. QED
  BY <1>1, <1>2, <1>3, <1>4, <1>5, <1>6, <1>7, <1>8, <1>9 DEF Section

\* An object comes to be held by being granted.
LEMMA Granted ==
  ASSUME CallInv, OutboxInv, [Section]_sectionVars, NEW h \in Handles, stage[h] # "held", stage'[h] = "held"
  PROVE  \E code \in Answers : Answer(h, code) /\ h \in Inhibits /\ code = Success
<1>1. PICK code \in Answers : Answer(h, code)
  BY StageStep
<1>. QED
  BY <1>1 DEF Answer, CallInv, SectionTypes, ObjectTypes

\* An object that ended stays ended.
LEMMA EndedStays ==
  ASSUME CallInv, OutboxInv, [Section]_sectionVars, NEW h \in Handles
  PROVE  /\ stage[h] \in {"closed", "gone"} => stage'[h] \in {"closed", "gone"}
         /\ stage[h] = "gone" => stage'[h] = "gone"
BY StageStep DEF Answer, Live

\* What is in the outbox was there, or was sent by close_request() or as a call.
SentFrom(m) ==
  \/ \E k \in 1..Len(outbox) : outbox[k] = m
  \/ SendClose /\ m = [type |-> "close", path |-> closing.path, attempt |-> closes]
  \/ \E h \in Handles : IssueCall(h) /\ m = [type |-> "call", handle |-> h]

LEMMA OutboxSources ==
  ASSUME CallInv, [Section]_sectionVars
  PROVE  \A i \in 1..Len(outbox') : SentFrom(outbox'[i])
<1> USE DEF busVars
<1>0. BusTypes /\ CloseTypes
  BY DEF CallInv, SectionTypes
<1>1. CASE UNCHANGED outbox
  BY <1>1 DEF SentFrom
<1>2. ASSUME NEW type, Receiving(type) PROVE \A i \in 1..Len(outbox') : SentFrom(outbox'[i])
  BY <1>0, <1>2, ReceivingTail DEF SentFrom
<1>3. ASSUME NEW m \in OutboxMessages, outbox' = Append(outbox, m), SentFrom(m)
      PROVE  \A i \in 1..Len(outbox') : SentFrom(outbox'[i])
  <2>1. ASSUME NEW i \in 1..Len(outbox') PROVE SentFrom(outbox'[i])
    <3>1. outbox'[i] = m \/ (i \in 1..Len(outbox) /\ outbox'[i] = outbox[i])
      BY <1>0, <1>3, AppendIndices DEF BusTypes
    <3>. QED
      BY <1>3, <3>1 DEF SentFrom
  <2>. QED
    BY <2>1
<1>4. CASE SendClose
  <2> DEFINE m == [type |-> "close", path |-> closing.path, attempt |-> closes]
  <2>1. closing \in Closings
    BY <1>0, <1>4 DEF CloseTypes, SendClose, NotClosing
  <2>2. m \in OutboxMessages
    BY <1>0, <2>1 DEF CloseTypes, Closings, OutboxMessages
  <2>3. outbox' = Append(outbox, m) /\ SentFrom(m)
    BY <1>4 DEF SendClose, SentFrom
  <2>. QED
    BY <1>3, <2>2, <2>3
<1>5. ASSUME NEW h \in Handles, IssueCall(h) PROVE \A i \in 1..Len(outbox') : SentFrom(outbox'[i])
  <2> DEFINE m == [type |-> "call", handle |-> h]
  <2>1. m \in OutboxMessages /\ outbox' = Append(outbox, m) /\ SentFrom(m)
    BY <1>5 DEF OutboxMessages, IssueCall, SentFrom
  <2>. QED
    BY <1>3, <2>1
<1>6. MainThread => UNCHANGED outbox \/ SendClose
  BY DEF MainThread, BeginRequest, ResolveClose, FinishClose, AbandonClose
<1>7. WorkerThread => UNCHANGED outbox \/ \E h \in Handles : IssueCall(h)
  BY DEF WorkerThread, OnPortalAppeared, OnPortalVanished, FailPendingRequests, OnCallFailed,
         OnCallStarted, DeliverEarlyResponse, OnRequestResponse, HoldUnclaimed
<1>8. Bus => UNCHANGED outbox \/ \E type : Receiving(type)
  BY DEF Bus, CallTimesOut, BusReportsNoReply, Reply, ReceiveCall, RefuseCall, ReceiveClose
<1>9. Portal => UNCHANGED outbox
  BY DEF Portal, Answer, PortalStarts, PortalVanishes, ForeignResponse
<1>10. UNCHANGED sectionVars => UNCHANGED outbox
  BY DEF sectionVars
<1>. QED
  BY <1>1, <1>2, <1>4, <1>5, <1>6, <1>7, <1>8, <1>9, <1>10 DEF Section

-----------------------------------------------------------------------------
(* Failed calls have no objects, unless they may time out.                 *)

FailInv ==
  /\ \A i \in 1..Len(outbox) : outbox[i].type = "call" => call[outbox[i].handle] = "sent"
  /\ \A i \in 1..Len(inbox) : inbox[i].type = "failed" => stage[inbox[i].handle] \in {"none", "gone"}

\* A call that is settled by the portal or for it is not on its way.
LEMMA NextCallsSent ==
  ASSUME "call" \notin TimeOuts, CallInv, OutboxInv, FailInv, [Section]_sectionVars
  PROVE  \A i \in 1..Len(outbox') : outbox'[i].type = "call" => call'[outbox'[i].handle] = "sent"
<1> USE DEF busVars
<1>0. BusTypes /\ ObjectTypes /\ OutcomesSettled
  BY DEF CallInv, SectionTypes
<1>1. SUFFICES ASSUME NEW i \in 1..Len(outbox'), outbox'[i].type = "call"
               PROVE  call'[outbox'[i].handle] = "sent"
  OBVIOUS
<1>2. SentFrom(outbox'[i])
  BY <1>0, OutboxSources
<1>3. ASSUME NEW h \in Handles, IssueCall(h), outbox'[i] = [type |-> "call", handle |-> h]
      PROVE  call'[outbox'[i].handle] = "sent"
  BY <1>0, <1>3 DEF IssueCall, BusTypes
<1>4. ASSUME NEW k \in 1..Len(outbox), outbox[k] = outbox'[i]
      PROVE  call'[outbox'[i].handle] = "sent"
  <2> DEFINE h == outbox[k].handle
  <2>1. h \in Handles /\ call[h] = "sent" /\ stage[h] = "none"
    BY <1>0, <1>1, <1>4, OutboxFields DEF BusTypes, OutboxInv, Unreceived, FailInv
  <2>2. CASE call'[h] = call[h]
    BY <1>4, <2>1, <2>2
  <2>3. \A g \in Handles : BeginRequest(g) \/ IssueCall(g) => call'[h] = call[h]
    BY <1>0, <2>1 DEF BeginRequest, IssueCall, BusTypes
  <2>4. ASSUME OnCallFailed \/ OnCallStarted PROVE call'[h] = call[h]
    <3>1. Head(inbox).handle \in Handles /\ call[Head(inbox).handle] = "settled"
      BY <1>0, <2>4, HandlingKeepsOutcomes DEF OnCallFailed, OnCallStarted
    <3>2. CallHandled(Head(inbox).handle)
      BY <2>4 DEF OnCallFailed, OnCallStarted
    <3>. QED
      BY <1>0, <2>1, <3>1, <3>2 DEF CallHandled, BusTypes
  <2>5. \A g \in Handles : \A m : Settle(g, m) /\ g # h => call'[h] = call[h]
    BY <1>0, <2>1 DEF Settle, BusTypes
  <2>6. \A g \in Handles : ~CallTimesOut(g)
    BY DEF CallTimesOut
  <2>7. \A g \in Handles : BusReportsNoReply(g) \/ Reply(g) => g # h
    BY <2>1 DEF BusReportsNoReply, Reply
  <2>8. RefuseCall => Head(outbox).handle \in Handles /\ Head(outbox).handle # h
    <3>1. SUFFICES ASSUME RefuseCall
                   PROVE  Head(outbox).handle \in Handles /\ Head(outbox).handle # h
      OBVIOUS
    <3>2. /\ Head(outbox).handle \in Handles
          /\ \A n \in 1..Len(outbox') :
               outbox'[n].type = "call" => outbox'[n].handle # Head(outbox).handle
      BY <1>0, <3>1, HeadUnreceived DEF RefuseCall
    <3>. QED
      BY <1>1, <1>4, <3>2
  <2>9. MainThread => UNCHANGED call \/ \E g \in Handles : BeginRequest(g)
    BY DEF MainThread, ResolveClose, SendClose, FinishClose, AbandonClose
  <2>10. WorkerThread => UNCHANGED call \/ OnCallFailed \/ OnCallStarted \/ \E g \in Handles : IssueCall(g)
    BY DEF WorkerThread, OnPortalAppeared, OnPortalVanished, FailPendingRequests,
           DeliverEarlyResponse, OnRequestResponse, HoldUnclaimed
  <2>11. Bus => UNCHANGED call \/ RefuseCall \/ \E g \in Handles : BusReportsNoReply(g) \/ Reply(g)
    BY <2>6 DEF Bus, ReceiveCall, ReceiveClose
  <2>12. \A g : BusReportsNoReply(g) \/ Reply(g) => \E m : Settle(g, m)
    BY DEF BusReportsNoReply, Reply
  <2>13. RefuseCall => \E m : Settle(Head(outbox).handle, m)
    BY DEF RefuseCall
  <2>14. Portal => UNCHANGED call
    BY DEF Portal, Answer, PortalStarts, PortalVanishes, ForeignResponse
  <2>15. UNCHANGED sectionVars => UNCHANGED call
    BY DEF sectionVars
  <2>. QED
    BY <2>2, <2>3, <2>4, <2>5, <2>7, <2>8, <2>9, <2>10, <2>11, <2>12, <2>13, <2>14, <2>15 DEF Section
<1>5. ~(SendClose /\ outbox'[i] = [type |-> "close", path |-> closing.path, attempt |-> closes])
  BY <1>1
<1>. QED
  BY <1>2, <1>3, <1>4, <1>5 DEF SentFrom

LEMMA NextFailInv ==
  ASSUME "call" \notin TimeOuts, CallInv, OutboxInv, FailInv, [Section]_sectionVars
  PROVE  FailInv'
<1> USE DEF portalVars, objectVars, busVars
<1>0. BusTypes /\ ObjectTypes /\ OutcomesSettled
  BY DEF CallInv, SectionTypes
<1>1. \A i \in 1..Len(outbox') : outbox'[i].type = "call" => call'[outbox'[i].handle] = "sent"
  BY NextCallsSent
<1>2. \A h \in Handles : stage[h] = "none" /\ stage'[h] # "none" =>
        /\ call[h] = "sent" /\ UNCHANGED inbox
  <2>1. ReceiveCall =>
          /\ Head(outbox).handle \in Handles /\ call[Head(outbox).handle] = "sent" /\ UNCHANGED inbox
          /\ \A h \in Handles \ {Head(outbox).handle} : stage'[h] = stage[h]
    BY <1>0, ReceivingTail, OutboxFields DEF ReceiveCall, FailInv, ObjectTypes
  <2>2. \A h \in Handles : stage[h] = "none" /\ stage'[h] # "none" => ReceiveCall
    <3>1. MainThread => UNCHANGED stage
      BY DEF MainThread, BeginRequest, ResolveClose, SendClose, FinishClose, AbandonClose
    <3>2. WorkerThread => UNCHANGED stage
      BY DEF WorkerThread, IssueCall, OnPortalAppeared, OnPortalVanished, FailPendingRequests,
             OnCallFailed, OnCallStarted, DeliverEarlyResponse, OnRequestResponse, HoldUnclaimed
    <3>3. Bus => UNCHANGED stage \/ ReceiveCall \/ ReceiveClose
      BY DEF Bus, CallTimesOut, BusReportsNoReply, Reply, RefuseCall
    <3>4. Portal => \/ UNCHANGED stage \/ PortalVanishes
                    \/ \E g \in Handles, code \in Answers : Answer(g, code)
      BY DEF Portal, PortalStarts, ForeignResponse
    <3>5. UNCHANGED sectionVars => UNCHANGED stage
      BY DEF sectionVars
    <3>6. \A h \in Handles : stage[h] = "none" /\ (ReceiveClose \/ PortalVanishes) => stage'[h] = "none"
      BY <1>0 DEF ReceiveClose, PortalVanishes, Live, ObjectTypes
    <3>7. \A g, h \in Handles, code \in Answers : stage[h] = "none" /\ Answer(g, code) => stage'[h] = "none"
      BY <1>0 DEF Answer, ObjectTypes
    <3>. QED
      BY <3>1, <3>2, <3>3, <3>4, <3>5, <3>6, <3>7 DEF Section
  <2>. QED
    BY <2>1, <2>2
<1>3. ASSUME NEW i \in 1..Len(inbox), inbox[i].type = "failed"
      PROVE  inbox[i].handle \in Handles /\ stage'[inbox[i].handle] \in {"none", "gone"}
  <2> DEFINE h == inbox[i].handle
  <2>1. h \in Handles /\ stage[h] \in {"none", "gone"} /\ call[h] = "settled"
    BY <1>0, <1>3, InboxFields DEF BusTypes, FailInv, OutcomesSettled, IsOutcome
  <2>. QED
    BY <1>0, <1>2, <2>1, EndedStays
<1>4. ASSUME NEW m, inbox' = Append(inbox, m), m.type = "failed"
      PROVE  m.handle \in Handles /\ stage'[m.handle] \in {"none", "gone"}
  <2>1. m = inbox'[Len(inbox')] /\ inbox' # inbox
    BY <1>0, <1>4 DEF BusTypes
  <2>2. \A n : inbox' = Append(inbox, n) => n = m
    <3>1. \A n : Append(inbox, n)[Len(inbox) + 1] = n
      BY <1>0 DEF BusTypes
    <3>2. ASSUME NEW n, inbox' = Append(inbox, n) PROVE n = m
      <4>1. inbox'[Len(inbox) + 1] = n
        BY <3>1, <3>2, Zenon
      <4>2. inbox'[Len(inbox) + 1] = m
        BY <1>4, <3>1, Zenon
      <4>. QED
        BY <4>1, <4>2
    <3>. QED
      BY <3>2
  <2>3. \A g, n : Settle(g, n) => inbox' = inbox \/ inbox' = Append(inbox, n)
    BY DEF Settle
  <2>4. ASSUME NEW g \in Handles, BusReportsNoReply(g)
        PROVE  m.handle \in Handles /\ stage'[m.handle] \in {"none", "gone"}
    <3>1. m = Failed(g)
      BY <2>1, <2>2, <2>3, <2>4 DEF BusReportsNoReply
    <3>. QED
      BY <2>4, <3>1 DEF BusReportsNoReply, Failed
  <2>5. ASSUME RefuseCall PROVE m.handle \in Handles /\ stage'[m.handle] \in {"none", "gone"}
    <3>1. m = Failed(Head(outbox).handle)
      BY <2>1, <2>2, <2>3, <2>5 DEF RefuseCall
    <3>2. Head(outbox).handle \in Handles /\ stage[Head(outbox).handle] = "none"
      BY <1>0, <2>5, HeadUnreceived DEF RefuseCall, Unreceived
    <3>. QED
      BY <2>5, <3>1, <3>2 DEF RefuseCall, Failed
  <2>6. \A g \in Handles : ~CallTimesOut(g)
    BY DEF CallTimesOut
  <2>7. \A g \in Handles : ~Reply(g)
    <3>1. SUFFICES ASSUME NEW g \in Handles, Reply(g) PROVE FALSE
      OBVIOUS
    <3>2. Settle(g, [type |-> "started", handle |-> g, path |-> home[g]])
      BY <3>1 DEF Reply
    <3>3. m = [type |-> "started", handle |-> g, path |-> home[g]]
      BY <2>1, <2>2, <2>3, <3>2
    <3>. QED
      BY <1>4, <3>3
  <2>8. ~ReceiveCall /\ ~ReceiveClose
    BY <2>1 DEF ReceiveCall, ReceiveClose
  <2>9. ~MainThread
    BY <2>1 DEF MainThread, BeginRequest, ResolveClose, SendClose, FinishClose, AbandonClose
  <2>10. ~WorkerThread
    <3>1. \A type : ~Dispatching(type)
      BY <1>0, <1>4 DEF Dispatching, BusTypes
    <3>. QED
      BY <2>1, <3>1 DEF WorkerThread, IssueCall, OnPortalAppeared, OnPortalVanished,
         FailPendingRequests, OnCallFailed, OnCallStarted, DeliverEarlyResponse,
         OnRequestResponse, HoldUnclaimed
  <2>11. ~Portal
    <3>1. \A h \in Handles, code \in Answers : ~Answer(h, code)
      <4>1. SUFFICES ASSUME NEW h \in Handles, NEW code \in Answers, Answer(h, code) PROVE FALSE
        OBVIOUS
      <4>2. m = [type |-> "response", path |-> home[h], code |-> code]
        BY <2>2, <4>1 DEF Answer
      <4>. QED
        BY <1>4, <4>2
    <3>2. ~PortalStarts
      <4>1. SUFFICES ASSUME PortalStarts PROVE FALSE
        OBVIOUS
      <4>2. m = [type |-> "appeared", owner |-> instances + 1]
        BY <2>2, <4>1 DEF PortalStarts
      <4>. QED
        BY <1>4, <4>2
    <3>3. ~PortalVanishes
      <4>1. SUFFICES ASSUME PortalVanishes PROVE FALSE
        OBVIOUS
      <4>2. m = [type |-> "vanished"]
        BY <2>2, <4>1 DEF PortalVanishes
      <4>. QED
        BY <1>4, <4>2
    <3>4. ~ForeignResponse
      <4>1. SUFFICES ASSUME ForeignResponse PROVE FALSE
        OBVIOUS
      <4>2. m = [type |-> "response", path |-> ForeignPath, code |-> Success]
        BY <2>2, <4>1 DEF ForeignResponse
      <4>. QED
        BY <1>4, <4>2
    <3>. QED
      BY <3>1, <3>2, <3>3, <3>4 DEF Portal
  <2>12. ~UNCHANGED sectionVars
    BY <2>1 DEF sectionVars
  <2>. QED
    BY <2>4, <2>5, <2>6, <2>7, <2>8, <2>9, <2>10, <2>11, <2>12 DEF Section, Bus
<1>5. ASSUME NEW i \in 1..Len(inbox'), inbox'[i].type = "failed"
      PROVE  stage'[inbox'[i].handle] \in {"none", "gone"}
  <2>1. QueueStep
    BY NextQueue
  <2>2. CASE UNCHANGED inbox
    BY <1>3, <1>5, <2>2
  <2>3. ASSUME NEW type, Dispatching(type) PROVE stage'[inbox'[i].handle] \in {"none", "gone"}
    <3>1. i + 1 \in 1..Len(inbox) /\ inbox'[i] = inbox[i + 1]
      BY <1>0, <2>3, TailIndices DEF BusTypes, Dispatching
    <3>. QED
      BY <1>3, <1>5, <3>1
  <2>4. ASSUME NEW m \in InboxMessages, inbox' = Append(inbox, m)
        PROVE  stage'[inbox'[i].handle] \in {"none", "gone"}
    <3>1. inbox'[i] = m \/ (i \in 1..Len(inbox) /\ inbox'[i] = inbox[i])
      BY <1>0, <2>4, AppendIndices DEF BusTypes
    <3>. QED
      BY <1>3, <1>4, <1>5, <2>4, <3>1
  <2>. QED
    BY <2>1, <2>2, <2>3, <2>4 DEF QueueStep
<1>. QED
  BY <1>1, <1>5 DEF FailInv

-----------------------------------------------------------------------------
(* Requests only go down.                                                  *)

\* A request that is tracked was tracked, or begins; a pending one was pending.
LEMMA TrackedBefore ==
  ASSUME RouteInv, [Section]_sectionVars, NEW h \in Handles, call[h] # "idle"
  PROVE  \/ requests'[h].status \in {requests[h].status, "absent"}
         \/ requests[h].status = "pending" /\ requests'[h].status = "answered"
<1> USE DEF clientVars, requestVars
<1>0. /\ RouteTypes /\ CallInv /\ BusTypes /\ OutcomesSettled /\ MessagesInv
      /\ CloseTypes /\ worker \in WorkerStates
  BY DEF RouteInv, RouteTypes, CallInv, SectionTypes
<1> DEFINE Down ==
             \/ requests'[h].status \in {requests[h].status, "absent"}
             \/ requests[h].status = "pending" /\ requests'[h].status = "answered"
<1>1. ASSUME NEW g \in Handles, BeginRequest(g) PROVE Down
  BY <1>0, <1>1 DEF BeginRequest, RouteTypes, RequestTypes
<1>2. ASSUME NEW g \in Handles, ForgetRequest(g) PROVE Down
  BY <1>0, <1>2, ForgetRoutes, AbsentFields
<1>3. CASE FinishClose
  <2>1. closing.handle \in Handles
    BY <1>0, <1>3 DEF FinishClose, CloseTypes, NotClosing, Closings
  <2>. QED
    BY <1>2, <1>3, <2>1 DEF FinishClose
<1>4. CASE FailPendingRequests
  BY <1>4 DEF FailPendingRequests, Absent
<1>5. CASE OnCallFailed
  <2>1. Head(inbox).handle \in Handles
    BY <1>0, <1>5, HandlingKeepsOutcomes DEF OnCallFailed
  <2>. QED
    BY <1>2, <1>5, <2>1 DEF OnCallFailed, FailCall
<1>6. CASE OnCallStarted
  <2> DEFINE m == Head(inbox)
  <2>1. m = inbox[1] /\ 1 \in 1..Len(inbox) /\ m.type = "started"
    BY <1>0, <1>6, TailIndices DEF BusTypes, OnCallStarted, Dispatching
  <2>2. m.handle \in Handles /\ stage[m.handle] # "none" /\ Remap(m.handle, home[m.handle])
    BY <1>0, <1>6, <2>1, HandlingKeepsOutcomes DEF MessagesInv, Truthful, OnCallStarted
  <2>. QED
    BY <1>0, <2>2, RemapRoutes
<1>7. ASSUME NEW path \in Paths, NEW code, DeliverResponse(path, code) PROVE Down
  BY <1>0, <1>7, DeliverRoutes, AbsentFields
<1>8. CASE DeliverEarlyResponse
  <2>1. worker.path \in Paths
    BY <1>0, <1>8, WorkerFields DEF DeliverEarlyResponse
  <2>. QED
    BY <1>7, <1>8, <2>1 DEF DeliverEarlyResponse
<1>9. CASE OnRequestResponse
  <2>1. Head(inbox).path \in Paths
    BY <1>0, <1>9, DispatchTypes, InboxFields DEF OnRequestResponse
  <2>. QED
    BY <1>7, <1>9, <2>1 DEF OnRequestResponse
<1>10. MainThread => UNCHANGED requests \/ FinishClose \/ \E g \in Handles : BeginRequest(g)
  BY DEF MainThread, ResolveClose, SendClose, AbandonClose
<1>11. WorkerThread =>
         \/ UNCHANGED requests
         \/ FailPendingRequests \/ OnCallFailed \/ OnCallStarted
         \/ DeliverEarlyResponse \/ OnRequestResponse
  BY DEF WorkerThread, IssueCall, OnPortalAppeared, OnPortalVanished, HoldUnclaimed
<1>12. Bus => UNCHANGED requests
  BY DEF Bus, CallTimesOut, BusReportsNoReply, Reply, ReceiveCall, RefuseCall, ReceiveClose
<1>13. Portal => UNCHANGED requests
  BY DEF Portal, Answer, PortalStarts, PortalVanishes, ForeignResponse
<1>14. UNCHANGED sectionVars => UNCHANGED requests
  BY DEF sectionVars
<1>. QED
  BY <1>1, <1>3, <1>4, <1>5, <1>6, <1>8, <1>9, <1>10, <1>11, <1>12, <1>13, <1>14 DEF Section

-----------------------------------------------------------------------------
(* The loss of a portal is reported, and fails what is pending.            *)

\* The worker knows of the portal there is, or will hear of it.
OwnerKnown ==
  owner # NoOwner =>
    \/ \E k \in 1..Len(inbox) :
         /\ inbox[k].type = "appeared"
         /\ \A i \in 1..Len(inbox) : inbox[i].type = "vanished" => i < k
    \/ portal_owner # NoOwner /\ \A i \in 1..Len(inbox) : inbox[i].type # "vanished"

\* A report of a loss, or another one before it, fails the requests that are pending
\* when it is handled: the worker knows of a portal by then.
Loss(i) ==
  /\ inbox[i].type = "vanished"
  /\ \/ portal_owner # NoOwner
     \/ \E k \in 1..Len(inbox) : k < i /\ inbox[k].type = "appeared"
LossAhead == worker.step = "fail" \/ \E i \in 1..Len(inbox) : Loss(i)

\* The same of the next state, for a place in the queue of the next state.
LossNext(n) ==
  /\ inbox'[n].type = "vanished"
  /\ \/ portal_owner' # NoOwner
     \/ \E k \in 1..Len(inbox') : k < n /\ inbox'[k].type = "appeared"

GoneInv ==
  \A h \in Handles : requests[h].status # "absent" /\ stage[h] = "gone" => LossAhead

\* What the worker knows of the portal changes by the reports only.
LEMMA OwnerStep ==
  ASSUME [Section]_sectionVars
  PROVE  /\ UNCHANGED portal_owner \/ OnPortalAppeared \/ OnPortalVanished
         /\ UNCHANGED owner \/ PortalStarts \/ PortalVanishes
<1> USE DEF clientVars, ownerVars, portalVars, nameVars
<1> DEFINE Same == UNCHANGED <<portal_owner, owner>>
<1>1. MainThread => Same
  BY DEF MainThread, BeginRequest, ResolveClose, SendClose, FinishClose, AbandonClose
<1>2. WorkerThread => UNCHANGED owner /\ (UNCHANGED portal_owner \/ OnPortalAppeared \/ OnPortalVanished)
  BY DEF WorkerThread, IssueCall, OnPortalAppeared, OnPortalVanished, FailPendingRequests,
         OnCallFailed, OnCallStarted, DeliverEarlyResponse, OnRequestResponse, HoldUnclaimed
<1>3. Bus => Same
  BY DEF Bus, CallTimesOut, BusReportsNoReply, Reply, ReceiveCall, RefuseCall, ReceiveClose
<1>4. Portal => UNCHANGED portal_owner /\ (UNCHANGED owner \/ PortalStarts \/ PortalVanishes)
  BY DEF Portal, Answer, PortalStarts, PortalVanishes, ForeignResponse
<1>5. UNCHANGED sectionVars => Same
  BY DEF sectionVars
<1>. QED
  BY <1>1, <1>2, <1>3, <1>4, <1>5 DEF Section

LEMMA NextOwnerKnown ==
  ASSUME CallInv, OutboxInv, OwnerKnown, [Section]_sectionVars
  PROVE  OwnerKnown'
<1>0. BusTypes /\ NameTypes /\ QueueStep
  BY NextQueue DEF CallInv, SectionTypes
<1>1. SUFFICES ASSUME owner' # NoOwner
               PROVE  \/ \E k \in 1..Len(inbox') :
                            /\ inbox'[k].type = "appeared"
                            /\ \A i \in 1..Len(inbox') : inbox'[i].type = "vanished" => i < k
                      \/ portal_owner' # NoOwner /\ \A i \in 1..Len(inbox') : inbox'[i].type # "vanished"
  BY DEF OwnerKnown
<1> DEFINE Goal ==
             \/ \E k \in 1..Len(inbox') :
                  /\ inbox'[k].type = "appeared"
                  /\ \A i \in 1..Len(inbox') : inbox'[i].type = "vanished" => i < k
             \/ portal_owner' # NoOwner /\ \A i \in 1..Len(inbox') : inbox'[i].type # "vanished"
<1>2. ASSUME NEW m \in InboxMessages, inbox' = Append(inbox, m)
      PROVE  /\ Len(inbox') = Len(inbox) + 1 /\ Len(inbox) \in Nat
             /\ \A i \in 1..Len(inbox) : inbox'[i] = inbox[i]
             /\ inbox'[Len(inbox) + 1] = m
  BY <1>0, <1>2, AppendIndices DEF BusTypes
<1>3. CASE PortalStarts
  <2> DEFINE m == [type |-> "appeared", owner |-> instances + 1]
  <2>1. m \in InboxMessages /\ inbox' = Append(inbox, m)
    BY <1>0, <1>3 DEF PortalStarts, NameTypes, InboxMessages, NoOwner
  <2>2. /\ Len(inbox) + 1 \in 1..Len(inbox')
        /\ inbox'[Len(inbox) + 1].type = "appeared"
        /\ \A i \in 1..Len(inbox') : inbox'[i].type = "vanished" => i < Len(inbox) + 1
    BY <1>2, <2>1
  <2>. QED
    BY <2>2
<1>4. ~PortalVanishes
  BY <1>1 DEF PortalVanishes
<1>5. CASE ~PortalStarts
  <2>1. owner # NoOwner /\ OwnerKnown
    BY <1>1, <1>4, <1>5, OwnerStep
  <2>2. ASSUME NEW type, Dispatching(type) PROVE Goal
    <3>1. /\ Head(inbox) = inbox[1] /\ Head(inbox).type = type
          /\ Len(inbox') = Len(inbox) - 1 /\ Len(inbox) \in Nat
          /\ \A i \in 1..Len(inbox') : i + 1 \in 1..Len(inbox) /\ inbox'[i] = inbox[i + 1]
      BY <1>0, <2>2, TailIndices DEF BusTypes, Dispatching
    <3>2. CASE portal_owner # NoOwner /\ \A i \in 1..Len(inbox) : inbox[i].type # "vanished"
      <4>1. type # "vanished"
        BY <1>0, <2>2, <3>1, <3>2, DispatchTypes, TailIndices DEF BusTypes, Dispatching
      <4>2. ~OnPortalVanished
        BY <3>1, <4>1 DEF OnPortalVanished, Dispatching
      <4>3. OnPortalAppeared => portal_owner' # NoOwner
        <5>1. OnPortalAppeared => Head(inbox) \in InboxMessages /\ Head(inbox).type = "appeared"
          BY <1>0, DispatchTypes DEF OnPortalAppeared
        <5>2. Head(inbox) \in InboxMessages /\ Head(inbox).type = "appeared" => Head(inbox).owner # NoOwner
          BY DEF InboxMessages
        <5>. QED
          BY <5>1, <5>2 DEF OnPortalAppeared
      <4>4. portal_owner' # NoOwner
        BY <3>2, <4>2, <4>3, OwnerStep
      <4>. QED
        BY <3>1, <3>2, <4>4
    <3>3. ASSUME NEW k \in 1..Len(inbox), inbox[k].type = "appeared",
                 \A i \in 1..Len(inbox) : inbox[i].type = "vanished" => i < k
          PROVE  Goal
      <4>1. CASE k # 1
        <5>1. k - 1 \in 1..Len(inbox') /\ inbox'[k - 1] = inbox[k]
          BY <3>1, <4>1
        <5>2. ASSUME NEW i \in 1..Len(inbox'), inbox'[i].type = "vanished" PROVE i < k - 1
          <6>1. i + 1 < k
            BY <3>1, <3>3, <5>2
          <6>. QED
            BY <6>1
        <5>. QED
          BY <3>3, <5>1, <5>2
      <4>2. CASE k = 1
        <5>1. type = "appeared" /\ OnPortalAppeared
          BY <2>2, <3>1, <3>3, <4>2, Taken
        <5>2. Head(inbox) \in InboxMessages /\ Head(inbox).type = "appeared"
          BY <1>0, <5>1, DispatchTypes DEF OnPortalAppeared
        <5>3. Head(inbox).owner # NoOwner
          BY <5>2 DEF InboxMessages
        <5>4. portal_owner' # NoOwner
          BY <5>1, <5>3 DEF OnPortalAppeared
        <5>5. \A i \in 1..Len(inbox') : inbox'[i].type # "vanished"
          BY <3>1, <3>3, <4>2
        <5>. QED
          BY <5>4, <5>5
      <4>. QED
        BY <4>1, <4>2
    <3>. QED
      BY <2>1, <3>2, <3>3 DEF OwnerKnown
  <2>3. ASSUME ~\E type : Dispatching(type) PROVE UNCHANGED portal_owner
    BY <2>3, OwnerStep DEF OnPortalAppeared, OnPortalVanished
  <2>4. CASE UNCHANGED inbox /\ ~\E type : Dispatching(type)
    BY <2>1, <2>3, <2>4 DEF OwnerKnown
  <2>5. ASSUME NEW m \in InboxMessages, inbox' = Append(inbox, m), m.type # "vanished",
               ~\E type : Dispatching(type)
        PROVE  Goal
    <3>1. \A i \in 1..Len(inbox') :
            inbox'[i].type = "vanished" => i \in 1..Len(inbox) /\ inbox[i].type = "vanished"
      BY <1>2, <2>5
    <3>2. CASE portal_owner # NoOwner /\ \A i \in 1..Len(inbox) : inbox[i].type # "vanished"
      BY <2>3, <2>5, <3>1, <3>2
    <3>3. ASSUME NEW k \in 1..Len(inbox), inbox[k].type = "appeared",
                 \A i \in 1..Len(inbox) : inbox[i].type = "vanished" => i < k
          PROVE  Goal
      <4>1. k \in 1..Len(inbox') /\ inbox'[k] = inbox[k]
        BY <1>2, <2>5
      <4>. QED
        BY <3>1, <3>3, <4>1
    <3>. QED
      BY <2>1, <3>2, <3>3 DEF OwnerKnown
  <2>. QED
    BY <1>0, <1>4, <2>2, <2>4, <2>5 DEF QueueStep, Explained
<1>. QED
  BY <1>3, <1>5

\* The worker fails what is pending before it does anything else.
LEMMA FailStays ==
  ASSUME [Section]_sectionVars, worker.step = "fail"
  PROVE  FailPendingRequests \/ UNCHANGED worker
<1>1. worker # Idle
  BY DEF Idle
<1>2. MainThread => UNCHANGED worker
  BY DEF MainThread, BeginRequest, ResolveClose, SendClose, FinishClose, AbandonClose
<1>3. WorkerThread => FailPendingRequests
  BY <1>1 DEF WorkerThread, IssueCall, OnPortalAppeared, OnPortalVanished, OnCallFailed,
     OnCallStarted, DeliverEarlyResponse, OnRequestResponse, HoldUnclaimed, Dispatching
<1>4. Bus => UNCHANGED worker
  BY DEF Bus, CallTimesOut, BusReportsNoReply, Reply, ReceiveCall, RefuseCall, ReceiveClose
<1>5. Portal => UNCHANGED worker
  BY DEF Portal, Answer, PortalStarts, PortalVanishes, ForeignResponse
<1>6. UNCHANGED sectionVars => UNCHANGED worker
  BY DEF sectionVars
<1>. QED
  BY <1>2, <1>3, <1>4, <1>5, <1>6 DEF Section

\* A report of a loss moves on in the queue until it is handled, and the worker goes on
\* to fail what is pending.
LEMMA LossMoves ==
  ASSUME CallInv, OutboxInv, [Section]_sectionVars, NEW i \in 1..Len(inbox), Loss(i)
  PROVE  \/ worker'.step = "fail"
         \/ (\E type : Dispatching(type)) /\ i - 1 \in 1..Len(inbox') /\ LossNext(i - 1)
         \/ (~\E type : Dispatching(type)) /\ i \in 1..Len(inbox') /\ LossNext(i)
<1>0. BusTypes /\ QueueStep
  BY NextQueue DEF CallInv, SectionTypes
<1> DEFINE Fails == worker'.step = "fail"
           Nearer == i - 1 \in 1..Len(inbox') /\ LossNext(i - 1)
<1>2. ASSUME NEW type, Dispatching(type) PROVE Fails \/ Nearer
  <2>1. /\ Head(inbox) = inbox[1] /\ Head(inbox).type = type
        /\ Len(inbox') = Len(inbox) - 1 /\ Len(inbox) \in Nat
        /\ \A n \in 1..Len(inbox') : n + 1 \in 1..Len(inbox) /\ inbox'[n] = inbox[n + 1]
    BY <1>0, <1>2, TailIndices DEF BusTypes, Dispatching
  <2>2. CASE i = 1
    <3>1. portal_owner # NoOwner /\ type = "vanished"
      BY <2>1, <2>2 DEF Loss
    <3>2. OnPortalVanished
      BY <1>2, <3>1, Taken
    <3>. QED
      BY <3>1, <3>2 DEF OnPortalVanished
  <2>3. CASE i # 1
    <3>1. i - 1 \in 1..Len(inbox') /\ inbox'[i - 1] = inbox[i]
      BY <2>1, <2>3
    <3>2. inbox'[i - 1].type = "vanished"
      BY <3>1 DEF Loss
    <3>3. CASE type = "appeared"
      <4>1. OnPortalAppeared
        BY <1>2, <3>3, Taken
      <4>2. Head(inbox) \in InboxMessages /\ Head(inbox).type = "appeared"
        BY <1>0, <4>1, DispatchTypes DEF OnPortalAppeared
      <4>3. Head(inbox).owner # NoOwner
        BY <4>2 DEF InboxMessages
      <4>4. portal_owner' # NoOwner
        BY <4>1, <4>3 DEF OnPortalAppeared
      <4>. QED
        BY <3>1, <3>2, <4>4 DEF LossNext
    <3>4. CASE OnPortalVanished /\ portal_owner # NoOwner
      BY <3>4 DEF OnPortalVanished
    <3>5. CASE type # "appeared" /\ ~(OnPortalVanished /\ portal_owner # NoOwner)
      <4>1. ~OnPortalAppeared
        BY <2>1, <3>5 DEF OnPortalAppeared, Dispatching
      <4>2. portal_owner # NoOwner => portal_owner' # NoOwner
        BY <3>5, <4>1, OwnerStep
      <4>3. CASE portal_owner # NoOwner
        BY <3>1, <3>2, <4>2, <4>3 DEF LossNext
      <4>4. ASSUME NEW k \in 1..Len(inbox), k < i, inbox[k].type = "appeared" PROVE Nearer
        <5>1. k # 1
          BY <2>1, <3>5, <4>4
        <5>2. k - 1 \in 1..Len(inbox') /\ inbox'[k - 1] = inbox[k] /\ k - 1 < i - 1
          BY <2>1, <4>4, <5>1
        <5>. QED
          BY <3>1, <3>2, <4>4, <5>2 DEF LossNext
      <4>. QED
        BY <4>3, <4>4 DEF Loss
    <3>. QED
      BY <3>3, <3>4, <3>5
  <2>. QED
    BY <2>2, <2>3
<1>3. ASSUME ~\E type : Dispatching(type) PROVE i \in 1..Len(inbox') /\ LossNext(i)
  <2>1. UNCHANGED portal_owner
    BY <1>3, OwnerStep DEF OnPortalAppeared, OnPortalVanished
  <2>2. CASE UNCHANGED inbox
    BY <2>1, <2>2 DEF Loss, LossNext
  <2>3. ASSUME NEW m \in InboxMessages, inbox' = Append(inbox, m)
        PROVE  i \in 1..Len(inbox') /\ LossNext(i)
    <3>1. \A n \in 1..Len(inbox) : n \in 1..Len(inbox') /\ inbox'[n] = inbox[n]
      BY <1>0, <2>3, AppendIndices DEF BusTypes
    <3>. QED
      BY <2>1, <3>1 DEF Loss, LossNext
  <2>. QED
    BY <1>0, <1>3, <2>2, <2>3 DEF QueueStep
<1>. QED
  BY <1>2, <1>3

\* A loss that is ahead stays ahead until the pending requests were failed.
LEMMA NextLoss ==
  ASSUME CallInv, OutboxInv, LossAhead, [Section]_sectionVars
  PROVE  FailPendingRequests \/ LossAhead'
<1>1. CASE worker.step = "fail"
  BY <1>1, FailStays DEF LossAhead
<1>2. ASSUME NEW i \in 1..Len(inbox), Loss(i) PROVE LossAhead'
  <2>1. \A n \in 1..Len(inbox') : LossNext(n) => LossAhead'
    BY DEF LossAhead, Loss, LossNext
  <2>. QED
    BY <1>2, <2>1, LossMoves DEF LossAhead
<1>. QED
  BY <1>1, <1>2 DEF LossAhead

\* A portal that is known to be there is known to be lost.
LEMMA VanishIsLoss ==
  ASSUME CallInv, OwnerKnown, PortalVanishes
  PROVE  LossAhead'
<1> USE DEF ownerVars, clientVars
<1>0. BusTypes
  BY DEF CallInv, SectionTypes
<1> DEFINE m == [type |-> "vanished"]
<1>1. m \in InboxMessages /\ inbox' = Append(inbox, m) /\ UNCHANGED portal_owner
  BY DEF PortalVanishes, InboxMessages
<1>2. /\ Len(inbox') = Len(inbox) + 1 /\ Len(inbox) \in Nat
      /\ \A i \in 1..Len(inbox) : inbox'[i] = inbox[i]
      /\ inbox'[Len(inbox) + 1] = m
  BY <1>0, <1>1, AppendIndices DEF BusTypes
<1> DEFINE n == Len(inbox) + 1
<1>3. n \in 1..Len(inbox') /\ inbox'[n].type = "vanished"
  BY <1>2
<1>4. \/ portal_owner' # NoOwner
      \/ \E k \in 1..Len(inbox') : k < n /\ inbox'[k].type = "appeared"
  <2>1. CASE portal_owner # NoOwner
    BY <1>1, <2>1
  <2>2. ASSUME NEW k \in 1..Len(inbox), inbox[k].type = "appeared"
        PROVE  k \in 1..Len(inbox') /\ k < n /\ inbox'[k].type = "appeared"
    BY <1>2, <2>2
  <2>. QED
    BY <2>1, <2>2 DEF OwnerKnown, PortalVanishes
<1>. QED
  BY <1>3, <1>4 DEF LossAhead, Loss

LEMMA NextGone ==
  ASSUME RouteInv, OwnerKnown, GoneInv, [Section]_sectionVars
  PROVE  GoneInv'
<1>0. CallInv /\ OutboxInv /\ ObjectTypes
  BY DEF RouteInv, CallInv, SectionTypes
<1>1. SUFFICES ASSUME NEW h \in Handles, requests'[h].status # "absent", stage'[h] = "gone"
               PROVE  LossAhead'
  BY DEF GoneInv, LossAhead, Loss
<1>2. CASE stage[h] = "gone"
  <2>1. call[h] # "idle"
    BY <1>0, <1>2 DEF OutboxInv
  <2>2. LossAhead
    BY <1>1, <1>2, <2>1, TrackedBefore DEF GoneInv
  <2>3. ~FailPendingRequests
    BY <1>1 DEF FailPendingRequests, Absent
  <2>. QED
    BY <1>0, <2>2, <2>3, NextLoss
<1>3. CASE stage[h] # "gone"
  <2>1. ASSUME NEW code \in Answers, Answer(h, code) PROVE stage'[h] \in {"held", "answered"}
    BY <1>0, <2>1 DEF Answer, ObjectTypes
  <2>2. PortalVanishes
    BY <1>0, <1>1, <1>3, <2>1, StageStep
  <2>. QED
    BY <1>0, <2>2, VanishIsLoss
<1>. QED
  BY <1>2, <1>3

-----------------------------------------------------------------------------
(* Without time-outs, a call that fails has no object or lost it, and then *)
(* the loss is handled before the failure.                                 *)

LossBefore(n) == worker.step = "fail" \/ \E i \in 1..Len(inbox) : i < n /\ Loss(i)
LateInv ==
  \A h \in Handles : \A j \in 1..Len(inbox) :
    inbox[j] = Failed(h) /\ requests[h].status # "absent" /\ stage[h] = "gone" => LossBefore(j)

\* What the absence of time-outs brings.
UntimedInv == FailInv /\ OwnerKnown /\ GoneInv /\ LateInv

LEMMA NextLate ==
  ASSUME RouteInv, FailInv, GoneInv, LateInv, [Section]_sectionVars
  PROVE  LateInv'
<1>0. CallInv /\ OutboxInv /\ BusTypes /\ QueueStep /\ ObjectTypes /\ Len(inbox) \in Nat
  BY NextQueue DEF RouteInv, CallInv, SectionTypes, BusTypes
<1>1. SUFFICES ASSUME NEW h \in Handles, NEW j \in 1..Len(inbox'), inbox'[j] = Failed(h),
                      requests'[h].status # "absent", stage'[h] = "gone"
               PROVE  \/ worker'.step = "fail"
                      \/ \E n \in 1..Len(inbox') : n < j /\ LossNext(n)
  BY DEF LateInv, LossBefore, Loss, LossNext, Failed
<1> DEFINE Goal == \/ worker'.step = "fail"
                   \/ \E n \in 1..Len(inbox') : n < j /\ LossNext(n)
<1>2. ~FailPendingRequests
  BY <1>1 DEF FailPendingRequests, Absent
<1>3. CASE worker.step = "fail"
  BY <1>2, <1>3, FailStays
<1>4. stage[h] # "none"
  <2>1. ASSUME NEW code \in Answers, Answer(h, code) PROVE stage[h] = "open"
    BY <2>1 DEF Answer
  <2>. QED
    BY <1>0, <1>1, <2>1, StageStep DEF Live
<1>5. requests[h].status # "absent"
  BY <1>0, <1>1, <1>4, TrackedBefore DEF OutboxInv
<1>6. ASSUME NEW k \in 1..Len(inbox), inbox[k] = Failed(h), worker.step # "fail"
      PROVE  \E i \in 1..Len(inbox) : i < k /\ Loss(i)
  <2>1. stage[h] = "gone"
    BY <1>4, <1>6 DEF FailInv, Failed
  <2>. QED
    BY <1>5, <1>6, <2>1 DEF LateInv, LossBefore
<1>7. ASSUME NEW type, Dispatching(type), worker.step # "fail" PROVE Goal
  <2>1. j + 1 \in 1..Len(inbox) /\ inbox'[j] = inbox[j + 1]
    BY <1>0, <1>7, TailIndices DEF BusTypes, Dispatching
  <2>2. PICK i \in 1..Len(inbox) : i < j + 1 /\ Loss(i)
    BY <1>1, <1>6, <1>7, <2>1
  <2>. QED
    BY <1>0, <1>7, <2>2, LossMoves
<1>8. CASE (~\E type : Dispatching(type)) /\ worker.step # "fail"
  <2>1. ASSUME NEW i \in 1..Len(inbox), i < j, Loss(i) PROVE Goal
    BY <1>0, <1>8, <2>1, LossMoves
  <2>2. CASE UNCHANGED inbox
    BY <1>1, <1>6, <1>8, <2>1, <2>2
  <2>3. ASSUME NEW m \in InboxMessages, inbox' = Append(inbox, m) PROVE Goal
    <3>1. /\ Len(inbox') = Len(inbox) + 1
          /\ \A n \in 1..Len(inbox) : inbox'[n] = inbox[n]
          /\ inbox'[Len(inbox) + 1] = m
      BY <1>0, <2>3, AppendIndices DEF BusTypes
    <3>2. CASE j \in 1..Len(inbox)
      BY <1>1, <1>6, <1>8, <2>1, <3>1, <3>2
    <3>3. CASE j = Len(inbox) + 1
      <4>1. ~PortalVanishes
        <5>1. ASSUME PortalVanishes PROVE FALSE
          <6>1. inbox' = Append(inbox, [type |-> "vanished"])
            BY <5>1 DEF PortalVanishes
          <6>2. [type |-> "vanished"] \in InboxMessages
            BY DEF InboxMessages
          <6>3. inbox'[Len(inbox) + 1] = [type |-> "vanished"]
            BY <1>0, <6>1, <6>2, AppendIndices DEF BusTypes
          <6>. QED
            BY <1>1, <3>3, <6>3 DEF Failed
        <5>. QED
          BY <5>1
      <4>2. stage[h] = "gone"
        <5>1. ASSUME NEW code \in Answers, Answer(h, code) PROVE stage'[h] \in {"held", "answered"}
          BY <1>0, <5>1 DEF Answer, ObjectTypes
        <5>. QED
          BY <1>0, <1>1, <4>1, <5>1, StageStep
      <4>3. PICK i \in 1..Len(inbox) : Loss(i)
        BY <1>5, <1>8, <4>2 DEF GoneInv, LossAhead
      <4>. QED
        BY <1>0, <2>1, <3>3, <4>3
    <3>. QED
      BY <1>0, <3>1, <3>2, <3>3
  <2>. QED
    BY <1>0, <1>8, <2>2, <2>3 DEF QueueStep
<1>. QED
  BY <1>3, <1>7, <1>8

LEMMA NextUntimed ==
  ASSUME "call" \notin TimeOuts, RouteInv, UntimedInv, [Section]_sectionVars
  PROVE  UntimedInv'
BY NextFailInv, NextOwnerKnown, NextGone, NextLate DEF UntimedInv, RouteInv

LEMMA InitOwnerKnown == Init => OwnerKnown
<1> SUFFICES ASSUME Init PROVE OwnerKnown
  OBVIOUS
<1>1. CASE owner = NoOwner
  BY <1>1 DEF OwnerKnown
<1>2. CASE inbox = <<[type |-> "appeared", owner |-> 1]>>
  BY <1>2 DEF OwnerKnown
<1>. QED
  BY <1>1, <1>2 DEF Init

LEMMA InitUntimed == Init => UntimedInv
<1> SUFFICES ASSUME Init PROVE UntimedInv
  OBVIOUS
<1>1. FailInv
  <2>1. \A i \in 1..Len(inbox) : inbox[i].type # "failed"
    BY DEF Init
  <2>2. Len(outbox) = 0
    BY DEF Init
  <2>. QED
    BY <2>1, <2>2 DEF FailInv
<1>2. GoneInv /\ LateInv
  BY DEF Init, GoneInv, LateInv
<1>. QED
  BY <1>1, <1>2, InitOwnerKnown DEF UntimedInv

-----------------------------------------------------------------------------
(* What a step may do to the life of a request.                            *)

\* The life of g goes on as it was.
Unmoved(g) ==
  /\ requests'[g].status = requests[g].status
  /\ completions'[g] = completions[g]
  /\ call'[g] = "idle" <=> call[g] = "idle"

NoneMoves == closed' = closed /\ \A g \in Handles : Unmoved(g)

Begins(h) ==
  /\ call[h] = "idle" /\ call'[h] = "queued"
  /\ requests'[h].status = "pending"
  /\ completions'[h] = completions[h]
  /\ closed' = closed
  /\ \A g \in Handles \ {h} : Unmoved(g)

Ends(h) ==
  /\ call[h] # "idle" /\ call'[h] # "idle"
  /\ requests'[h].status = "absent"
  /\ completions'[h] = completions[h]
  /\ closed' = closed \cup {h}
  /\ \A g \in Handles \ {h} : Unmoved(g)

AllEnd ==
  /\ worker.step = "fail"
  /\ closed' = closed
  /\ \A g \in Handles :
       /\ requests'[g].status = "absent"
       /\ call'[g] = "idle" <=> call[g] = "idle"
       /\ requests[g].status # "pending" => completions'[g] = completions[g]
       /\ requests[g].status = "pending" =>
            \E e \in Completions : e.code = Other /\ completions'[g] = Append(completions[g], e)

\* The worker handles a Response on this path.
Hears(path) ==
  \/ worker.step = "deliver" /\ worker.path = path
  \/ inbox # <<>> /\ Head(inbox).type = "response" /\ Head(inbox).path = path

Completes(h) ==
  /\ requests[h].status = "pending"
  /\ call[h] # "idle" /\ call'[h] # "idle"
  /\ closed' = closed
  /\ \A g \in Handles \ {h} : Unmoved(g)
  /\ \E e \in Completions :
       /\ completions'[h] = Append(completions[h], e)
       /\ \/ requests'[h].status = "absent"
          \/ /\ requests'[h].status = "answered"
             /\ h \in Inhibits /\ e.code = Success /\ Decided(h) /\ Hears(home[h])

LEMMA ForgetStatus ==
  ASSUME RequestTypes, NEW h \in Handles, ForgetRequest(h)
  PROVE  /\ requests'[h].status = "absent"
         /\ \A g \in Handles \ {h} : requests'[g] = requests[g]
<1>1. CASE requests[h].status = "absent"
  BY <1>1 DEF ForgetRequest, requestVars
<1>2. CASE requests[h].status # "absent"
  BY <1>2, AbsentFields DEF ForgetRequest, RequestTypes
<1>3. QED
  BY <1>1, <1>2

LEMMA ReportOne ==
  ASSUME HistoryTypes, NEW h \in Handles, NEW by \in Causes, NEW code \in Codes,
         Report(h, by, code)
  PROVE  /\ \E e \in Completions : e.code = code /\ completions'[h] = Append(completions[h], e)
         /\ \A g \in Handles \ {h} : completions'[g] = completions[g]
<1>1. [by |-> by, code |-> code] \in Completions
  BY DEF Completions
<1>2. QED
  BY <1>1 DEF Report, HistoryTypes

\* A delivery completes the one pending request that lives on the path, or changes
\* nothing.
LEMMA DeliverLife ==
  ASSUME LifeInv, NEW path \in Paths, NEW code \in Codes,
         Genuine(path, code), Hears(path), DeliverResponse(path, code),
         UNCHANGED <<call, closed>>
  PROVE  NoneMoves \/ \E h \in Handles : Completes(h)
<1> DEFINE h == request_paths[path]
<1>0. RouteTypes /\ RequestTypes /\ HistoryTypes /\ StatusInv
  BY DEF LifeInv, RouteInv, RouteTypes, CallInv, SectionTypes
<1>1. CASE UNCHANGED <<requestVars, completions>>
  BY <1>1 DEF NoneMoves, Unmoved, requestVars
<1>2. CASE h # None /\ requests[h].status = "pending" /\ Report(h, "portal", code)
  <2>1. h \in Handles /\ Decided(h) /\ home[h] = path
    BY <1>0, <1>2, Routed
  <2>2. call[h] # "idle"
    BY <1>0, <1>2, <2>1 DEF RouteTypes, PathsInv
  <2>3. "portal" \in Causes
    BY DEF Causes
  <2>4. PICK e \in Completions :
          /\ e.code = code /\ completions'[h] = Append(completions[h], e)
          /\ \A g \in Handles \ {h} : completions'[g] = completions[g]
    BY <1>0, <1>2, <2>1, <2>3, ReportOne
  <2>5. CASE ForgetRequest(h)
    <3>1. /\ requests'[h].status = "absent"
          /\ \A g \in Handles \ {h} : requests'[g] = requests[g]
      BY <1>0, <2>1, <2>5, ForgetStatus
    <3>2. \A g \in Handles \ {h} : Unmoved(g)
      BY <2>4, <3>1 DEF Unmoved
    <3>3. Completes(h)
      BY <1>2, <2>2, <2>4, <3>1, <3>2 DEF Completes
    <3>4. QED
      BY <2>1, <3>3
  <2>6. CASE /\ h \in Inhibits /\ code = Success
             /\ requests' = [requests EXCEPT ![h] = [status |-> "answered", path |-> requests[h].path]]
    <3>1. /\ requests'[h].status = "answered"
          /\ \A g \in Handles \ {h} : requests'[g] = requests[g]
      BY <1>0, <2>1, <2>6 DEF RequestTypes
    <3>2. \A g \in Handles \ {h} : Unmoved(g)
      BY <2>4, <3>1 DEF Unmoved
    <3>3. Completes(h)
      BY <1>2, <2>1, <2>2, <2>4, <2>6, <3>1, <3>2 DEF Completes
    <3>4. QED
      BY <2>1, <3>3
  <2>7. (h \in Inhibits /\ code = Success) \/ ~(h \in Inhibits /\ code = Success)
    OBVIOUS
  <2>8. QED
    BY <1>2, <2>5, <2>6, <2>7 DEF DeliverResponse
<1>3. QED
  BY <1>1, <1>2 DEF DeliverResponse

LEMMA NextLife ==
  ASSUME LifeInv, Standing, [Section]_sectionVars
  PROVE  NoneMoves \/ AllEnd \/ \E h \in Handles : Begins(h) \/ Ends(h) \/ Completes(h)
<1> USE DEF busVars
<1>0. /\ RouteTypes /\ RequestTypes /\ CallInv /\ BusTypes /\ HistoryTypes /\ CloseTypes
      /\ worker \in WorkerStates
      /\ OutcomesSettled /\ MessagesInv /\ StatusInv /\ ClosingInv
  BY DEF LifeInv, RouteInv, RouteTypes, CallInv, SectionTypes
<1>1. \A h \in Handles : CallStep(h)
  BY <1>0, NextCall
<1>2. CASE /\ UNCHANGED <<requests, completions, closed>>
           /\ \A h \in Handles : call'[h] = "idle" <=> call[h] = "idle"
  BY <1>2 DEF NoneMoves, Unmoved
<1>3. ASSUME NEW h \in Handles, BeginRequest(h) PROVE Begins(h)
  BY <1>0, <1>3 DEF BeginRequest, Begins, Unmoved, RequestTypes, BusTypes, historyVars
<1>4. CASE FinishClose
  <2> DEFINE h == closing.handle
  <2>1. h \in Handles /\ call[h] # "idle"
    BY <1>0, <1>4 DEF CloseTypes, Closings, FinishClose, NotClosing, ClosingInv
  <2>2. /\ requests'[h].status = "absent"
        /\ \A g \in Handles \ {h} : requests'[g] = requests[g]
    BY <1>0, <1>4, <2>1, ForgetStatus DEF FinishClose
  <2>3. UNCHANGED <<call, completions>> /\ closed' = closed \cup {h}
    BY <1>4 DEF FinishClose
  <2>4. Ends(h)
    BY <2>1, <2>2, <2>3 DEF Ends, Unmoved
  <2>5. QED
    BY <2>1, <2>4
<1>5. CASE FailPendingRequests
  <2> DEFINE e == [by |-> worker.by, code |-> Other]
  <2>1. e \in Completions /\ e.code = Other
    BY <1>0, <1>5, WorkerFields DEF FailPendingRequests, Completions, Other, Codes
  <2>2. \A g \in Handles :
          /\ requests'[g].status = "absent"
          /\ requests[g].status # "pending" => completions'[g] = completions[g]
          /\ requests[g].status = "pending" => completions'[g] = Append(completions[g], e)
    BY <1>5, AbsentFields DEF FailPendingRequests, AwaitsAnswer
  <2>3. worker.step = "fail" /\ UNCHANGED <<call, closed>>
    BY <1>5 DEF FailPendingRequests
  <2>4. AllEnd
    BY <2>1, <2>2, <2>3 DEF AllEnd
  <2>5. QED
    BY <2>4
<1>6. CASE OnCallFailed
  <2> DEFINE h == Head(inbox).handle
  <2>1. h \in Handles /\ call[h] = "settled" /\ CallHandled(h)
    BY <1>0, <1>6, HandlingKeepsOutcomes DEF OnCallFailed
  <2>2. /\ call'[h] # "idle" /\ \A g \in Handles : call'[g] = "idle" <=> call[g] = "idle"
        /\ closed' = closed
    BY <1>0, <1>6, <2>1 DEF CallHandled, BusTypes, OnCallFailed
  <2>3. CASE requests[h].status = "absent"
    <3>1. UNCHANGED <<requests, completions>>
      BY <1>6, <2>3 DEF OnCallFailed, FailCall, ForgetRequest, requestVars
    <3>2. QED
      BY <1>2, <2>2, <3>1
  <2>4. CASE requests[h].status # "absent"
    <3>1. requests[h].status = "pending"
      <4>1. worker = Idle /\ inbox # <<>> /\ Head(inbox).type = "failed"
        BY <1>6 DEF OnCallFailed, Dispatching
      <4>2. Head(inbox) \in [type : {"failed"}, handle : Handles]
        BY <1>0, <1>6, <4>1, DispatchTypes DEF OnCallFailed, InboxMessages
      <4>3. Head(inbox) = Failed(h)
        BY <4>2 DEF Failed
      <4>. QED
        BY <1>0, <2>1, <2>4, <4>1, <4>3 DEF Standing, RequestTypes, Statuses
    <3>2. /\ requests'[h].status = "absent"
          /\ \A g \in Handles \ {h} : requests'[g] = requests[g]
      BY <1>0, <1>6, <2>1, ForgetStatus DEF OnCallFailed, FailCall
    <3>3. "call" \in Causes /\ Other \in Codes
      BY DEF Causes, Other, Codes
    <3>4. Report(h, "call", Other)
      BY <1>6, <2>4 DEF OnCallFailed, FailCall
    <3>5. /\ \E e \in Completions : e.code = Other /\ completions'[h] = Append(completions[h], e)
          /\ \A g \in Handles \ {h} : completions'[g] = completions[g]
      BY <1>0, <2>1, <3>3, <3>4, ReportOne
    <3>6. \A g \in Handles \ {h} : Unmoved(g)
      BY <2>2, <3>2, <3>5 DEF Unmoved
    <3>7. Completes(h)
      BY <2>1, <2>2, <3>1, <3>2, <3>5, <3>6 DEF Completes
    <3>8. QED
      BY <2>1, <3>7
  <2>5. QED
    BY <2>3, <2>4
<1>7. CASE OnCallStarted
  <2> DEFINE h == Head(inbox).handle
  <2>1. h \in Handles /\ call[h] = "settled" /\ CallHandled(h)
    BY <1>0, <1>7, HandlingKeepsOutcomes DEF OnCallStarted
  <2>2. UNCHANGED <<completions, closed>> /\ \A g \in Handles : call'[g] = "idle" <=> call[g] = "idle"
    BY <1>0, <1>7, <2>1 DEF CallHandled, BusTypes, OnCallStarted, historyVars
  <2>3. \A g \in Handles : requests'[g].status = requests[g].status
    BY <1>0, <1>7, <2>1 DEF OnCallStarted, Remap, requestVars, RequestTypes
  <2>4. QED
    BY <2>2, <2>3 DEF NoneMoves, Unmoved
<1>8. CASE DeliverEarlyResponse
  <2>1. /\ worker.path \in Paths /\ worker.code \in Codes
        /\ Genuine(worker.path, worker.code) /\ Hears(worker.path)
    BY <1>0, <1>8, WorkerFields DEF DeliverEarlyResponse, MessagesInv, Hears
  <2>2. DeliverResponse(worker.path, worker.code) /\ UNCHANGED <<call, closed>>
    BY <1>8 DEF DeliverEarlyResponse
  <2>3. QED
    BY <2>1, <2>2, DeliverLife
<1>9. CASE OnRequestResponse
  <2>1. Head(inbox) = inbox[1] /\ 1 \in 1..Len(inbox) /\ Head(inbox) \in InboxMessages
    BY <1>0, <1>9, TailIndices DEF BusTypes, OnRequestResponse, Dispatching
  <2>2. Head(inbox).type = "response"
    BY <1>9 DEF OnRequestResponse, Dispatching
  <2>3. /\ Head(inbox).path \in Paths /\ Head(inbox).code \in Codes
        /\ Genuine(Head(inbox).path, Head(inbox).code)
    BY <1>0, <2>1, <2>2, InboxFields DEF MessagesInv, Truthful
  <2>5. Hears(Head(inbox).path)
    BY <1>9, <2>2 DEF Hears, OnRequestResponse, Dispatching
  <2>6. DeliverResponse(Head(inbox).path, Head(inbox).code) /\ UNCHANGED <<call, closed>>
    BY <1>9 DEF OnRequestResponse
  <2>7. QED
    BY <2>3, <2>5, <2>6, DeliverLife
<1>10. MainThread =>
         \/ UNCHANGED <<requests, completions, closed, call>>
         \/ FinishClose \/ \E h \in Handles : BeginRequest(h)
  BY DEF MainThread, ResolveClose, SendClose, AbandonClose, clientVars, requestVars, historyVars
<1>11. WorkerThread =>
         \/ UNCHANGED <<requests, completions, closed, call>>
         \/ \E h \in Handles : IssueCall(h)
         \/ FailPendingRequests \/ OnCallFailed \/ OnCallStarted \/ DeliverEarlyResponse
         \/ OnRequestResponse
  BY DEF WorkerThread, OnPortalAppeared, OnPortalVanished, HoldUnclaimed, clientVars,
         requestVars, historyVars
<1>12. ASSUME NEW h \in Handles, IssueCall(h)
       PROVE  /\ UNCHANGED <<requests, completions, closed>>
              /\ \A g \in Handles : call'[g] = "idle" <=> call[g] = "idle"
  BY <1>0, <1>12 DEF IssueCall, BusTypes, clientVars, requestVars, historyVars
<1>13. Bus => /\ UNCHANGED <<requests, completions, closed>>
              /\ \A g \in Handles : call'[g] = "idle" <=> call[g] = "idle"
  <2>1. Bus => UNCHANGED <<requests, completions, closed>>
    BY DEF Bus, CallTimesOut, BusReportsNoReply, Reply, ReceiveCall, RefuseCall, ReceiveClose,
           clientVars, requestVars, historyVars
  <2>2. Bus => UNCHANGED call \/ \E h, m : Settle(h, m)
    BY DEF Bus, CallTimesOut, BusReportsNoReply, Reply, ReceiveCall, RefuseCall, ReceiveClose
  <2>3. ASSUME NEW h, NEW m, Settle(h, m)
        PROVE  \A g \in Handles : call'[g] = "idle" <=> call[g] = "idle"
    BY <1>0, <2>3 DEF Settle, BusTypes
  <2>4. QED
    BY <2>1, <2>2, <2>3
<1>14. Portal => UNCHANGED <<requests, completions, closed, call>>
  BY DEF Portal, Answer, PortalStarts, PortalVanishes, ForeignResponse, clientVars, requestVars,
         historyVars
<1>15. UNCHANGED sectionVars => UNCHANGED <<requests, completions, closed, call>>
  BY DEF sectionVars, clientVars, requestVars, historyVars
<1>16. QED
  BY <1>2, <1>3, <1>4, <1>5, <1>6, <1>7, <1>8, <1>9, <1>10, <1>11, <1>12, <1>13, <1>14, <1>15
     DEF Section

-----------------------------------------------------------------------------
(* The strengthening is inductive.                                         *)

\* One request's part of StatusInv.
StatusOf(h) ==
  /\ call[h] = "idle" => completions[h] = <<>> /\ h \notin closed
  /\ requests[h].status = "pending" => completions[h] = <<>>
  /\ requests[h].status = "answered" => Decided(h) /\ h \in Inhibits
  /\ h \in closed => requests[h].status = "absent"
  /\ Len(completions[h]) <= 1

LEMMA AppendToNone ==
  ASSUME NEW e \in Completions
  PROVE  Append(<<>>, e) = <<e>> /\ Len(Append(<<>>, e)) = 1
  OBVIOUS

LEMMA UnmovedStatus ==
  ASSUME NEW h \in Handles, StatusOf(h), CallStep(h), Unmoved(h), h \in closed' => h \in closed,
         Decided(h) => Decided(h)'
  PROVE  StatusOf(h)'
BY DEF StatusOf, CallStep, Unmoved

LEMMA NextStatus ==
  ASSUME LifeInv, Standing, [Section]_sectionVars
  PROVE  StatusInv'
<1>0. /\ \A h \in Handles : StatusOf(h) /\ CallStep(h) /\ (Decided(h) => Decided(h)')
      /\ HistoryTypes /\ RequestTypes
  BY NextCall, NextPersistent
     DEF LifeInv, RouteInv, CallInv, SectionTypes, StatusInv, StatusOf, Persistent
<1>1. CASE NoneMoves
  BY <1>0, <1>1, UnmovedStatus DEF NoneMoves, StatusInv, StatusOf
<1>2. ASSUME AllEnd, NEW g \in Handles PROVE StatusOf(g)'
  <2>1. CASE requests[g].status # "pending"
    BY <1>0, <1>2, <2>1 DEF AllEnd, StatusOf
  <2>2. CASE requests[g].status = "pending"
    <3>1. completions[g] = <<>>
      BY <1>0, <2>2 DEF StatusOf
    <3>2. Len(completions'[g]) = 1
      BY <1>2, <2>2, <3>1, AppendToNone DEF AllEnd
    <3>3. call[g] # "idle"
      BY <2>2 DEF LifeInv, RouteInv, PathsInv
    <3>4. QED
      BY <1>2, <3>2, <3>3 DEF AllEnd, StatusOf
  <2>3. QED
    BY <2>1, <2>2
<1>3. ASSUME NEW h \in Handles, Begins(h), NEW g \in Handles PROVE StatusOf(g)'
  <2>1. CASE g = h
    BY <1>0, <1>3, <2>1 DEF Begins, StatusOf
  <2>2. CASE g # h
    BY <1>0, <1>3, <2>2, UnmovedStatus DEF Begins
  <2>3. QED
    BY <2>1, <2>2
<1>4. ASSUME NEW h \in Handles, Ends(h), NEW g \in Handles PROVE StatusOf(g)'
  <2>1. CASE g = h
    BY <1>0, <1>4, <2>1 DEF Ends, StatusOf
  <2>2. CASE g # h
    BY <1>0, <1>4, <2>2, UnmovedStatus DEF Ends
  <2>3. QED
    BY <2>1, <2>2
<1>5. ASSUME NEW h \in Handles, Completes(h), NEW g \in Handles PROVE StatusOf(g)'
  <2>1. CASE g = h
    <3>1. completions[h] = <<>> /\ h \notin closed
      BY <1>0, <1>5 DEF Completes, StatusOf
    <3>2. Len(completions'[h]) = 1
      BY <1>5, <3>1, AppendToNone DEF Completes
    <3>4. /\ call'[h] # "idle" /\ h \notin closed'
          /\ \/ requests'[h].status = "absent"
             \/ requests'[h].status = "answered" /\ h \in Inhibits /\ Decided(h)'
      BY <1>0, <1>5, <3>1 DEF Completes
    <3>5. Len(completions'[h]) <= 1
      BY <3>2
    <3>6. QED
      BY <2>1, <3>4, <3>5 DEF StatusOf
  <2>2. CASE g # h
    BY <1>0, <1>5, <2>2, UnmovedStatus DEF Completes
  <2>3. QED
    BY <2>1, <2>2
<1>6. \A g \in Handles : StatusOf(g)'
  BY <1>1, <1>2, <1>3, <1>4, <1>5, NextLife DEF StatusInv, StatusOf
<1>7. QED
  BY <1>6 DEF StatusInv, StatusOf

LEMMA NextClosing ==
  ASSUME LifeInv, [Section]_sectionVars
  PROVE  ClosingInv'
<1>0. /\ CloseTypes /\ ClosingInv
      /\ \A h \in Handles : CallStep(h)
  BY NextCall DEF LifeInv, RouteInv, CallInv, SectionTypes
<1>1. \A h \in Handles : call[h] # "idle" => call'[h] # "idle"
  BY <1>0 DEF CallStep
<1>2. closing # NotClosing => closing.handle \in Handles /\ call[closing.handle] # "idle"
  BY <1>0 DEF CloseTypes, Closings, ClosingInv
<1>3. CASE UNCHANGED closing
  BY <1>1, <1>2, <1>3 DEF ClosingInv, NotClosing
<1>4. CASE closing' = NotClosing
  BY <1>4 DEF ClosingInv, NotClosing
<1>5. ASSUME NEW state, closing' = ClosingNow(state), closing # NotClosing PROVE ClosingInv'
  <2>1. closing'.handle = closing.handle
    BY <1>5 DEF ClosingNow
  <2>2. QED
    BY <1>1, <1>2, <1>5, <2>1 DEF ClosingInv
<1>6. ASSUME NEW h \in Handles, ResolveClose(h) PROVE ClosingInv'
  <2>1. call[h] # "idle" /\ closing'.handle = h
    BY <1>6 DEF ResolveClose
  <2>2. QED
    BY <1>1, <2>1 DEF ClosingInv
<1>7. MainThread =>
        \/ UNCHANGED closing \/ closing' = NotClosing
        \/ \E h \in Handles : ResolveClose(h)
        \/ closing' = ClosingNow("sent") /\ closing # NotClosing
  BY DEF MainThread, BeginRequest, SendClose, FinishClose, AbandonClose, closeVars, NotClosing
<1>8. WorkerThread => UNCHANGED closing
  BY DEF WorkerThread, IssueCall, OnPortalAppeared, OnPortalVanished, FailPendingRequests,
         OnCallFailed, OnCallStarted, DeliverEarlyResponse, OnRequestResponse, HoldUnclaimed,
         closeVars
<1>9. Bus =>
        \/ UNCHANGED closing
        \/ closing # NotClosing /\ \E state : closing' = ClosingNow(state)
  <2>1. Bus => UNCHANGED closing \/ \E attempt, state : SettleClose(attempt, state)
    BY DEF Bus, CallTimesOut, BusReportsNoReply, Reply, ReceiveCall, RefuseCall, ReceiveClose,
           closeVars
  <2>2. ASSUME NEW attempt, NEW state, SettleClose(attempt, state), closing' # closing
        PROVE  closing # NotClosing /\ closing' = ClosingNow(state)
    <3>1. closing.stage = "sent" /\ closing' = ClosingNow(state)
      BY <2>2 DEF SettleClose
    <3>2. QED
      BY <3>1 DEF NotClosing
  <2>3. QED
    BY <2>1, <2>2
<1>10. Portal => UNCHANGED closing
  BY DEF Portal, Answer, PortalStarts, PortalVanishes, ForeignResponse, closeVars
<1>11. UNCHANGED sectionVars => UNCHANGED closing
  BY DEF sectionVars, closeVars
<1>12. QED
  BY <1>3, <1>4, <1>5, <1>6, <1>7, <1>8, <1>9, <1>10, <1>11 DEF Section

LEMMA InitLife == Init => LifeInv
<1> SUFFICES ASSUME Init PROVE LifeInv
  OBVIOUS
<1>1. RouteInv
  BY InitRoutes
<1>2. SettledInv
  BY DEF Init, SettledInv
<1>3. StatusInv
  BY DEF Init, StatusInv, Absent
<1>4. ClosingInv
  BY DEF Init, ClosingInv
<1>. QED
  BY <1>1, <1>2, <1>3, <1>4 DEF LifeInv

LEMMA NextLifeInv ==
  ASSUME LifeInv, Standing, [Section]_sectionVars
  PROVE  LifeInv'
<1>1. RouteInv'
  BY NextRoutes DEF LifeInv
<1>2. SettledInv'
  BY NextSettled DEF LifeInv
<1>3. StatusInv' /\ ClosingInv'
  BY NextStatus, NextClosing
<1>. QED
  BY <1>1, <1>2, <1>3 DEF LifeInv

-----------------------------------------------------------------------------
(* Answered requests do not fail, for one of two reasons.                  *)

\* With replies before answers, a request that is answered has no call to fail.
LEMMA NextGranted ==
  ASSUME LifeInv, Standing, OrderInv, GrantedInv, [Section]_sectionVars
  PROVE  GrantedInv'
<1>0. /\ BusTypes /\ RequestTypes
      /\ \A h \in Handles : CallStep(h)
  BY NextCall DEF LifeInv, RouteInv, CallInv, SectionTypes
<1>1. SUFFICES ASSUME NEW h \in Handles, requests'[h].status = "answered"
               PROVE  call'[h] = "done"
  BY DEF GrantedInv
<1>2. CASE requests[h].status = "answered"
  BY <1>0, <1>2 DEF GrantedInv, CallStep
<1>3. CASE requests[h].status # "answered"
  <2>1. Decided(h) /\ Hears(home[h])
    BY <1>1, <1>3, NextLife DEF NoneMoves, AllEnd, Begins, Ends, Completes, Unmoved
  <2>2. CASE worker.step = "deliver" /\ worker.path = home[h]
    BY <1>0, <2>1, <2>2 DEF OrderInv, OnTime, Decided, CallStep
  <2>3. CASE inbox # <<>> /\ Head(inbox).type = "response" /\ Head(inbox).path = home[h]
    <3>1. Head(inbox) = inbox[1] /\ 1 \in 1..Len(inbox)
      BY <1>0, <2>3, TailIndices DEF BusTypes
    <3>2. ~OutcomeBefore(h, 1)
      BY <1>0 DEF OutcomeBefore, BusTypes
    <3>3. call[h] = "done"
      BY <2>1, <2>3, <3>1, <3>2 DEF OrderInv, Decided
    <3>. QED
      BY <1>0, <3>3 DEF CallStep
  <2>. QED
    BY <2>1, <2>2, <2>3 DEF Hears
<1>. QED
  BY <1>2, <1>3

LEMMA InitOrdered == Init => OrderedInv
<1> SUFFICES ASSUME Init PROVE OrderedInv
  OBVIOUS
<1>1. RepliedInv
  BY DEF Init, RepliedInv
<1>2. OrderInv
  BY DEF Init, OrderInv, Idle
<1>3. GrantedInv
  BY DEF Init, GrantedInv, Absent
<1>. QED
  BY <1>1, <1>2, <1>3 DEF OrderedInv

LEMMA OrderedStands == ASSUME LifeInv, OrderedInv PROVE Standing
<1>1. SUFFICES ASSUME NEW h \in Handles, inbox # <<>>, Head(inbox) = Failed(h)
               PROVE  requests[h].status # "answered"
  BY DEF Standing
<1>2. Head(inbox) = inbox[1] /\ 1 \in 1..Len(inbox)
  BY <1>1, TailIndices DEF LifeInv, RouteInv, CallInv, SectionTypes, BusTypes
<1>3. call[h] = "settled"
  BY <1>1, <1>2 DEF LifeInv, RouteInv, CallInv, OutcomesSettled, IsOutcome, Failed
<1>. QED
  BY <1>3 DEF OrderedInv, GrantedInv

\* Without time-outs, a call with an object fails if its portal is lost, and by then the
\* request was failed.
LEMMA UntimedStands == ASSUME LifeInv, UntimedInv PROVE Standing
<1>1. SUFFICES ASSUME NEW h \in Handles, worker = Idle, inbox # <<>>, Head(inbox) = Failed(h),
                      requests[h].status = "answered"
               PROVE  FALSE
  BY DEF Standing
<1>2. Head(inbox) = inbox[1] /\ 1 \in 1..Len(inbox)
  BY <1>1, TailIndices DEF LifeInv, RouteInv, CallInv, SectionTypes, BusTypes
<1>3. stage[h] \in {"none", "gone"}
  BY <1>1, <1>2 DEF UntimedInv, FailInv, Failed
<1>4. stage[h] = "gone"
  BY <1>1, <1>3 DEF LifeInv, StatusInv, Decided
<1>5. LossBefore(1)
  BY <1>1, <1>2, <1>4 DEF UntimedInv, LateInv
<1>. QED
  BY <1>1, <1>5 DEF LossBefore, Idle

LEMMA OrderedInvariant ==
  ASSUME EarlyResponses = FALSE
  PROVE  Spec => [](LifeInv /\ OrderedInv)
<1>1. Init => LifeInv /\ OrderedInv
  BY InitLife, InitOrdered
<1>2. LifeInv /\ OrderedInv /\ [Section]_sectionVars => LifeInv' /\ OrderedInv'
  BY OrderedStands, NextLifeInv, NextReplied, NextOrder, NextGranted DEF LifeInv, OrderedInv
<1>. QED
  BY <1>1, <1>2, NextSections, PTL DEF Spec

LEMMA LifeInvariant ==
  ASSUME EarlyResponses = FALSE \/ "call" \notin TimeOuts
  PROVE  Spec => [](LifeInv /\ Standing)
<1>1. CASE EarlyResponses = FALSE
  <2>1. LifeInv /\ OrderedInv => Standing
    BY OrderedStands
  <2>2. Spec => [](LifeInv /\ OrderedInv)
    BY <1>1, OrderedInvariant
  <2>. QED
    BY <2>1, <2>2, PTL
<1>2. CASE "call" \notin TimeOuts
  <2>1. Init => LifeInv /\ UntimedInv
    BY InitLife, InitUntimed
  <2>2. LifeInv /\ UntimedInv => Standing
    BY UntimedStands
  <2>3. LifeInv /\ UntimedInv /\ [Section]_sectionVars => LifeInv' /\ UntimedInv'
    BY <1>2, <2>2, NextLifeInv, NextUntimed DEF LifeInv
  <2>. QED
    BY <2>1, <2>2, <2>3, NextSections, PTL DEF Spec
<1>. QED
  BY <1>1, <1>2

LEMMA AlwaysStanding ==
  ASSUME EarlyResponses = FALSE \/ "call" \notin TimeOuts
  PROVE  Spec => []Standing
BY LifeInvariant, PTL

LEMMA StandingLife == Spec /\ []Standing => []LifeInv
<1>1. Init => LifeInv
  BY InitLife
<1>2. LifeInv /\ Standing /\ [Section]_sectionVars => LifeInv'
  BY NextLifeInv
<1>. QED
  BY <1>1, <1>2, NextSections, PTL DEF Spec

\* As long as no call is failed whose request was answered before, whatever the portal,
\* the bus and the clock do, a request is reported at most once; for one that
\* close_request() closed, nothing is decided any more, and nothing emitted but what
\* the worker had in hand; and an inhibition that was granted is kept until it is
\* closed or its portal is lost.
THEOREM SoundWhileStanding ==
  Spec /\ []Standing => []CompletesAtMostOnce /\ NothingNewAfterClose /\ AnsweredUntilClosed
<1>1. LifeInv => CompletesAtMostOnce
  BY DEF LifeInv, StatusInv, CompletesAtMostOnce
<1>2. LifeInv /\ Standing /\ [Next]_vars
        => [\A h \in closed :
              completions'[h] = completions[h] /\ (h \in emitting' => h \in emitting)]_vars
  <2> SUFFICES ASSUME LifeInv, Standing, [Next]_vars, NEW h \in closed
               PROVE  completions'[h] = completions[h] /\ (h \in emitting' => h \in emitting)
    OBVIOUS
  <2>1. h \in Handles /\ requests[h].status = "absent" /\ call[h] # "idle"
    BY DEF LifeInv, StatusInv, RouteInv, CallInv, SectionTypes, HistoryTypes
  <2>2. completions'[h] = completions[h]
    BY <2>1, NextSections, NextLife DEF NoneMoves, AllEnd, Begins, Ends, Completes, Unmoved
  <2>3. emitting' \subseteq emitting \/ EmitsItsOwn
    BY NextEmits DEF LifeInv, RouteInv, vars, historyVars, EmitCompletion
  <2>. QED
    BY <2>2, <2>3 DEF EmitsItsOwn
<1>3. ASSUME LifeInv, Standing, [Section]_sectionVars, NEW h \in Handles,
             requests[h].status = "answered", requests'[h].status # "answered"
      PROVE  h \in closed' \/ worker.step = "fail"
  <2>1. call[h] # "idle"
    BY <1>3 DEF LifeInv, RouteInv, PathsInv
  <2>2. QED
    BY <1>3, <2>1, NextLife DEF NoneMoves, AllEnd, Begins, Ends, Completes, Unmoved
<1>4. LifeInv /\ Standing /\ [Section]_sectionVars
        => [\A h \in Handles :
              requests[h].status = "answered" /\ requests'[h].status # "answered"
                => h \in closed' \/ worker.step = "fail"]_vars
  BY <1>3
<1>. QED
  BY <1>1, <1>2, <1>4, StandingLife, NextSections, PTL DEF Spec, NothingNewAfterClose, AnsweredUntilClosed

\* If the portal replies before it answers, or calls do not time out, a request is
\* reported at most once: its Response, the failure of its call and the loss of its
\* portal exclude each other.
THEOREM CompletesOnce ==
  ASSUME EarlyResponses = FALSE \/ "call" \notin TimeOuts
  PROVE  Spec => []CompletesAtMostOnce
BY AlwaysStanding, SoundWhileStanding, PTL

\* If the portal replies before it answers, or calls do not time out, nothing that was
\* on its way is reported for a request that close_request() closed, but for the one
\* completion the worker may have decided and not yet emitted when it was closed.
THEOREM ClosedEndsWithWhatWasInHand ==
  ASSUME EarlyResponses = FALSE \/ "call" \notin TimeOuts
  PROVE  Spec => NothingNewAfterClose
BY AlwaysStanding, SoundWhileStanding, PTL

\* If the portal replies before it answers, or calls do not time out, an inhibition
\* that was granted is kept until it is closed, or its portal is lost.
THEOREM HeldUntilClosed ==
  ASSUME EarlyResponses = FALSE \/ "call" \notin TimeOuts
  PROVE  Spec => AnsweredUntilClosed
BY AlwaysStanding, SoundWhileStanding, PTL

-----------------------------------------------------------------------------
(* The refinement: what a step does to the lives RequestLife speaks of.    *)

AbstractLife == [h \in Handles |-> Life(h)]
AbstractReports == [h \in Handles |-> Reported(h)]

LEMMA NoCodes == ASSUME NEW s, s = <<>> PROVE [i \in DOMAIN s |-> s[i].code] = <<>>
  OBVIOUS

LEMMA OneCode == ASSUME NEW e, NEW s, s = <<e>> PROVE [i \in DOMAIN s |-> s[i].code] = <<e.code>>
  OBVIOUS

LEMMA UnmovedLife ==
  ASSUME NEW h \in Handles, Unmoved(h)
  PROVE  AbstractLife'[h] = AbstractLife[h] /\ AbstractReports'[h] = AbstractReports[h]
<1>1. Life(h)' = Life(h)
  BY DEF Unmoved, Life
<1>2. Reported(h)' = Reported(h)
  BY DEF Unmoved, Reported
<1>3. QED
  BY <1>1, <1>2 DEF AbstractLife, AbstractReports

\* Exactly one life changes.
LEMMA OneLife ==
  ASSUME NEW h \in Handles, NEW after, NEW reports, \A g \in Handles \ {h} : Unmoved(g),
         AbstractLife'[h] = after, AbstractReports'[h] = reports
  PROVE  /\ AbstractLife' = [AbstractLife EXCEPT ![h] = after]
         /\ AbstractReports' = [AbstractReports EXCEPT ![h] = reports]
<1>1. \A g \in Handles \ {h} :
        AbstractLife'[g] = AbstractLife[g] /\ AbstractReports'[g] = AbstractReports[g]
  BY UnmovedLife
<1>2. /\ AbstractLife = [g \in Handles |-> AbstractLife[g]]
      /\ AbstractReports = [g \in Handles |-> AbstractReports[g]]
      /\ AbstractLife' = [g \in Handles |-> AbstractLife'[g]]
      /\ AbstractReports' = [g \in Handles |-> AbstractReports'[g]]
  BY DEF AbstractLife, AbstractReports
<1>3. QED
  BY <1>1, <1>2

\* What the state of a request makes of its life.
LEMMA LifeOf ==
  ASSUME LifeInv, NEW h \in Handles
  PROVE  /\ call[h] = "idle" => AbstractLife[h] = "unused"
         /\ requests[h].status = "pending" =>
              AbstractLife[h] = "pending" /\ completions[h] = <<>>
         /\ requests[h].status = "answered" => AbstractLife[h] = "held"
         /\ call[h] # "idle" /\ requests[h].status = "absent" => AbstractLife[h] = "over"
<1>1. call[h] = "idle" => requests[h].status = "absent"
  BY DEF LifeInv, RouteInv, PathsInv
<1>2. requests[h].status = "pending" => completions[h] = <<>>
  BY DEF LifeInv, StatusInv
<1>3. AbstractLife[h] = Life(h)
  BY DEF AbstractLife
<1>4. QED
  BY <1>1, <1>2, <1>3 DEF Life

\* The same of the next state.
LEMMA LifeNext ==
  ASSUME NEW h \in Handles, call'[h] # "idle"
  PROVE  /\ requests'[h].status = "pending" => AbstractLife'[h] = "pending"
         /\ requests'[h].status = "answered" => AbstractLife'[h] = "held"
         /\ requests'[h].status = "absent" => AbstractLife'[h] = "over"
BY DEF AbstractLife, Life

LEMMA ReportsNext ==
  ASSUME NEW h \in Handles
  PROVE  /\ completions'[h] = completions[h] => AbstractReports'[h] = AbstractReports[h]
         /\ \A e \in Completions :
              completions[h] = <<>> /\ completions'[h] = Append(completions[h], e)
                => AbstractReports'[h] = <<e.code>>
<1>1. completions'[h] = completions[h] => AbstractReports'[h] = AbstractReports[h]
  BY DEF AbstractReports, Reported
<1>2. ASSUME NEW e \in Completions, completions[h] = <<>>,
             completions'[h] = Append(completions[h], e)
      PROVE  AbstractReports'[h] = <<e.code>>
  <2>1. completions'[h] = <<e>>
    BY <1>2, AppendToNone
  <2>2. [i \in DOMAIN completions'[h] |-> completions'[h][i].code] = <<e.code>>
    BY <2>1, OneCode
  <2>3. QED
    BY <2>2 DEF AbstractReports, Reported
<1>3. QED
  BY <1>1, <1>2

\* The steps of RequestLife, of the lives a request has here.
LEMMA SectionLife ==
  ASSUME LifeInv, Standing, Section, EmitsItsOwn
  PROVE  \/ UNCHANGED <<AbstractLife, AbstractReports, emitting>>
         \/ \E h \in Handles : Abstract!Begin(h) \/ Abstract!Close(h)
         \/ \E h \in Handles, code \in Codes : Abstract!Complete(h, code)
         \/ \E h \in Inhibits : Abstract!Hold(h)
         \/ Abstract!LoseAll
<1>0. /\ [h \in Handles |-> Life(h)] = AbstractLife
      /\ [h \in Handles |-> Reported(h)] = AbstractReports
      /\ Abstract!Handles = Handles /\ Abstract!Codes = Codes
  BY DEF AbstractLife, AbstractReports, Abstract!Handles, Handles, Abstract!Codes, Codes
<1>1. ASSUME \A g \in Handles : completions'[g] = completions[g]
      PROVE  emitting' = emitting
  BY <1>1 DEF EmitsItsOwn
<1>2. CASE NoneMoves
  <2>1. \A h \in Handles :
          AbstractLife'[h] = AbstractLife[h] /\ AbstractReports'[h] = AbstractReports[h]
    BY <1>2, UnmovedLife DEF NoneMoves
  <2>2. UNCHANGED <<AbstractLife, AbstractReports>>
    BY <2>1 DEF AbstractLife, AbstractReports
  <2>3. emitting' = emitting
    BY <1>2, <1>1 DEF NoneMoves, Unmoved
  <2>4. QED
    BY <2>2, <2>3
<1>3. ASSUME NEW h \in Handles, Begins(h) PROVE Abstract!Begin(h)
  <2>1. AbstractLife[h] = "unused" /\ AbstractLife'[h] = "pending"
    BY <1>3, LifeOf, LifeNext DEF Begins
  <2>2. AbstractReports'[h] = AbstractReports[h]
    BY <1>3, ReportsNext DEF Begins
  <2>3. /\ AbstractLife' = [AbstractLife EXCEPT ![h] = "pending"]
        /\ AbstractReports' = [AbstractReports EXCEPT ![h] = AbstractReports[h]]
    BY <1>3, <2>1, <2>2, OneLife DEF Begins
  <2>4. AbstractReports' = AbstractReports
    BY <2>3 DEF AbstractReports
  <2>5. emitting' = emitting
    BY <1>3, <1>1 DEF Begins, Unmoved
  <2>6. QED
    BY <2>1, <2>3, <2>4, <2>5 DEF Abstract!Begin, AbstractLife, AbstractReports
<1>4. ASSUME NEW h \in Handles, Ends(h)
      PROVE  UNCHANGED <<AbstractLife, AbstractReports, emitting>> \/ Abstract!Close(h)
  <2>1. AbstractLife'[h] = "over" /\ AbstractReports'[h] = AbstractReports[h]
    BY <1>4, LifeNext, ReportsNext DEF Ends
  <2>2. /\ AbstractLife' = [AbstractLife EXCEPT ![h] = "over"]
        /\ AbstractReports' = [AbstractReports EXCEPT ![h] = AbstractReports[h]]
    BY <1>4, <2>1, OneLife DEF Ends
  <2>3. AbstractReports' = AbstractReports
    BY <2>2 DEF AbstractReports
  <2>4. AbstractLife[h] \in {"pending", "held", "over"}
    BY <1>4, LifeOf DEF Ends, LifeInv, RouteInv, CallInv, SectionTypes, RequestTypes, Statuses
  <2>5. emitting' = emitting
    BY <1>4, <1>1 DEF Ends, Unmoved
  <2>6. CASE AbstractLife[h] = "over"
    BY <2>2, <2>3, <2>5, <2>6 DEF AbstractLife
  <2>7. CASE AbstractLife[h] \in {"pending", "held"}
    BY <2>2, <2>3, <2>5, <2>7 DEF Abstract!Close, AbstractLife, AbstractReports
  <2>8. QED
    BY <2>4, <2>6, <2>7
<1>5. ASSUME NEW h \in Handles, Completes(h)
      PROVE  (\E code \in Codes : Abstract!Complete(h, code)) \/ (h \in Inhibits /\ Abstract!Hold(h))
  <2>1. AbstractLife[h] = "pending" /\ completions[h] = <<>>
    BY <1>5, LifeOf DEF Completes
  <2>2. PICK e \in Completions :
          /\ completions'[h] = Append(completions[h], e)
          /\ \/ requests'[h].status = "absent"
             \/ requests'[h].status = "answered" /\ h \in Inhibits /\ e.code = Success
    BY <1>5 DEF Completes
  <2>3. AbstractReports'[h] = <<e.code>> /\ e.code \in Codes
    BY <2>1, <2>2, ReportsNext DEF Completions
  <2>4. emitting' = emitting \cup {h}
    <3>1. completions'[h] # completions[h]
      BY <2>1, <2>2, AppendToNone
    <3>2. \A g \in Handles \ {h} : completions'[g] = completions[g]
      BY <1>5 DEF Completes, Unmoved
    <3>. QED
      BY <3>1, <3>2 DEF EmitsItsOwn
  <2>5. CASE requests'[h].status = "absent"
    <3>1. AbstractLife'[h] = "over"
      BY <1>5, <2>5, LifeNext DEF Completes
    <3>2. /\ AbstractLife' = [AbstractLife EXCEPT ![h] = "over"]
          /\ AbstractReports' = [AbstractReports EXCEPT ![h] = <<e.code>>]
      BY <1>5, <2>3, <3>1, OneLife DEF Completes
    <3>3. Abstract!Complete(h, e.code)
      BY <2>1, <2>4, <3>2 DEF Abstract!Complete, AbstractLife, AbstractReports
    <3>4. QED
      BY <2>3, <3>3
  <2>6. CASE requests'[h].status = "answered" /\ h \in Inhibits /\ e.code = Success
    <3>1. AbstractLife'[h] = "held"
      BY <1>5, <2>6, LifeNext DEF Completes
    <3>2. /\ AbstractLife' = [AbstractLife EXCEPT ![h] = "held"]
          /\ AbstractReports' = [AbstractReports EXCEPT ![h] = <<Success>>]
      BY <1>5, <2>3, <2>6, <3>1, OneLife DEF Completes
    <3>3. Abstract!Hold(h)
      BY <2>1, <2>4, <3>2 DEF Abstract!Hold, AbstractLife, AbstractReports, Success, Abstract!Success
    <3>4. QED
      BY <2>6, <3>3
  <2>7. QED
    BY <2>2, <2>5, <2>6
<1>6. CASE AllEnd
  <2>1. ASSUME NEW g \in Handles
        PROVE  /\ AbstractLife'[g] =
                    IF AbstractLife[g] \in {"pending", "held"} THEN "over" ELSE AbstractLife[g]
               /\ AbstractReports'[g] =
                    IF AbstractLife[g] = "pending" THEN <<Other>> ELSE AbstractReports[g]
    <3>0. requests'[g].status = "absent" /\ (call'[g] = "idle" <=> call[g] = "idle")
      BY <1>6 DEF AllEnd
    <3>1. CASE call[g] = "idle"
      <4>1. AbstractLife[g] = "unused" /\ requests[g].status = "absent"
        BY <3>1, LifeOf DEF LifeInv, RouteInv, PathsInv
      <4>2. AbstractLife'[g] = "unused"
        BY <3>0, <3>1 DEF AbstractLife, Life
      <4>3. AbstractReports'[g] = AbstractReports[g]
        BY <1>6, <4>1, ReportsNext DEF AllEnd
      <4>4. QED
        BY <4>1, <4>2, <4>3
    <3>2. CASE call[g] # "idle" /\ requests[g].status = "pending"
      <4>1. AbstractLife[g] = "pending" /\ completions[g] = <<>>
        BY <3>2, LifeOf
      <4>2. AbstractLife'[g] = "over"
        BY <3>0, <3>2, LifeNext
      <4>3. AbstractReports'[g] = <<Other>>
        BY <1>6, <3>2, <4>1, ReportsNext DEF AllEnd
      <4>4. QED
        BY <4>1, <4>2, <4>3
    <3>3. CASE call[g] # "idle" /\ requests[g].status \in {"answered", "absent"}
      <4>1. AbstractLife[g] \in {"held", "over"}
        BY <3>3, LifeOf
      <4>2. AbstractLife'[g] = "over"
        BY <3>0, <3>3, LifeNext
      <4>3. AbstractReports'[g] = AbstractReports[g]
        BY <1>6, <3>3, ReportsNext DEF AllEnd
      <4>4. QED
        BY <4>1, <4>2, <4>3
    <3>4. requests[g].status \in {"absent", "pending", "answered"}
      BY DEF LifeInv, RouteInv, CallInv, SectionTypes, RequestTypes, Statuses
    <3>5. QED
      BY <3>1, <3>2, <3>3, <3>4
  <2>2. /\ AbstractLife' = [g \in Handles |-> AbstractLife'[g]]
        /\ AbstractReports' = [g \in Handles |-> AbstractReports'[g]]
    BY DEF AbstractLife, AbstractReports
  <2>3. /\ AbstractLife' = [g \in Handles |->
             IF AbstractLife[g] \in {"pending", "held"} THEN "over" ELSE AbstractLife[g]]
        /\ AbstractReports' = [g \in Handles |->
             IF AbstractLife[g] = "pending" THEN <<Other>> ELSE AbstractReports[g]]
    BY <2>1, <2>2
  <2>4. \A g \in Handles : AbstractLife[g] = "pending" <=> completions'[g] # completions[g]
    <3> SUFFICES ASSUME NEW g \in Handles
                 PROVE  AbstractLife[g] = "pending" <=> completions'[g] # completions[g]
      OBVIOUS
    <3>1. CASE requests[g].status = "pending"
      <4>1. completions[g] = <<>> /\ AbstractLife[g] = "pending"
        BY <3>1, LifeOf
      <4>2. \E e \in Completions : completions'[g] = Append(completions[g], e)
        BY <1>6, <3>1 DEF AllEnd
      <4>. QED
        BY <4>1, <4>2, AppendToNone
    <3>2. CASE requests[g].status # "pending"
      BY <1>6, <3>2 DEF AllEnd, AbstractLife, Life
    <3>. QED
      BY <3>1, <3>2
  <2>5. emitting' = emitting \cup {g \in Handles : AbstractLife[g] = "pending"}
    BY <2>4 DEF EmitsItsOwn
  <2>6. Abstract!LoseAll
    BY <1>0, <2>3, <2>5 DEF Abstract!LoseAll, AbstractLife, AbstractReports, Other, Abstract!Other
  <2>7. QED
    BY <2>6
<1>7. QED
  BY <1>2, <1>3, <1>4, <1>5, <1>6, NextLife

\* Whatever the portal, the bus and the clock do, XdgPortalNative implements
\* RequestLife as long as no call is failed whose request was answered before: this
\* is the one way in which the life of a request can go wrong.
THEOREM LifeWhileStanding == Spec /\ []Standing => ImplementsRequestLife
<1>1. Init => Abstract!Init
  <2> SUFFICES ASSUME Init PROVE Abstract!Init
    OBVIOUS
  <2>1. ASSUME NEW h \in Handles PROVE Life(h) = "unused" /\ Reported(h) = <<>>
    <3>1. call[h] = "idle" /\ completions[h] = <<>> /\ requests[h].status = "absent"
      BY DEF Init, Absent
    <3>2. [i \in DOMAIN completions[h] |-> completions[h][i].code] = <<>>
      BY <3>1, NoCodes
    <3>3. Life(h) = "unused"
      BY <3>1 DEF Life
    <3>4. Reported(h) = <<>>
      BY <3>2 DEF Reported
    <3>5. QED
      BY <3>3, <3>4
  <2>2. emitting = {}
    BY DEF Init
  <2>3. QED
    BY <2>1, <2>2 DEF Abstract!Init, Abstract!Handles, Handles
<1>2. LifeInv /\ Standing /\ EmittingTypes /\ [Next]_vars
        => [Abstract!Next]_<<AbstractLife, AbstractReports, emitting>>
  <2> SUFFICES ASSUME LifeInv, Standing, EmittingTypes, [Next]_vars
               PROVE  [Abstract!Next]_<<AbstractLife, AbstractReports, emitting>>
    OBVIOUS
  <2>1. Abstract!Handles = Handles /\ Abstract!Codes = Codes
    BY DEF Abstract!Handles, Handles, Abstract!Codes, Codes
  <2>2. CASE Section /\ EmitsItsOwn
    BY <2>1, <2>2, SectionLife DEF Abstract!Next
  <2>3. ASSUME UNCHANGED <<requests, call, completions>>
        PROVE  UNCHANGED <<AbstractLife, AbstractReports>>
    BY <2>3 DEF AbstractLife, AbstractReports, Life, Reported
  <2>4. CASE UNCHANGED vars
    BY <2>3, <2>4 DEF vars, clientVars, requestVars, historyVars
  <2>5. CASE EmitCompletion
    <3>1. UNCHANGED <<AbstractLife, AbstractReports>>
      BY <2>3, <2>5 DEF EmitCompletion, clientVars, requestVars, busVars
    <3>2. PICK h \in emitting : emitting' = emitting \ {h}
      BY <2>5 DEF EmitCompletion
    <3>3. h \in Handles
      BY <3>2 DEF EmittingTypes
    <3>4. Abstract!Tell(h)
      BY <3>1, <3>2 DEF Abstract!Tell, AbstractLife, AbstractReports
    <3>. QED
      BY <2>1, <3>3, <3>4 DEF Abstract!Next
  <2>. QED
    BY <2>2, <2>4, <2>5, NextEmits DEF LifeInv, RouteInv
<1>3. QED
  BY <1>1, <1>2, StandingLife, EmittingTyped, PTL
     DEF Spec, ImplementsRequestLife, Abstract!Spec, AbstractLife, AbstractReports

\* If the portal replies before it answers, or calls do not time out,
\* XdgPortalNative implements RequestLife: every step of the implementation is a step
\* of the life of a request, or none.
THEOREM RequestsLive ==
  ASSUME EarlyResponses = FALSE \/ "call" \notin TimeOuts
  PROVE  Spec => ImplementsRequestLife
BY AlwaysStanding, LifeWhileStanding, PTL

-----------------------------------------------------------------------------
(* Inhibitions that are held: reports of owners come before the Response.  *)

IsReport(m) == m.type \in {"appeared", "vanished"}
NoReports == \A i \in 1..Len(inbox) : ~IsReport(inbox[i])

\* The Response of h has come to the worker.
Arrived(h) ==
  \/ \E i \in 1..Len(completions[h]) : completions[h][i].by = "portal"
  \/ worker.step \in {"deliver", "hold"} /\ worker.path = home[h]
  \/ \E i \in 1..Len(unclaimed_responses) : unclaimed_responses[i].path = home[h]

ReportsFirst(h) ==
  \A i, j \in 1..Len(inbox) :
    IsReport(inbox[i]) /\ inbox[j].type = "response" /\ inbox[j].path = home[h] => i < j

\* The portal's objects have a portal.
ObjectsOwned == \A h \in Handles : stage[h] \notin {"none", "gone"} => owner # NoOwner

\* What is held was granted; the worker hears of the portal before it hears of that,
\* and has nothing more to hear or do about owners afterwards.
HeldInv ==
  \A h \in Handles : stage[h] = "held" =>
    /\ h \in Inhibits /\ answer[h] = Success
    /\ ReportsFirst(h)
    /\ Arrived(h) => NoReports /\ worker.step # "fail"

LEMMA NextOwned ==
  ASSUME SectionTypes, ObjectsOwned, [Section]_sectionVars
  PROVE  ObjectsOwned'
<1> USE DEF portalVars, objectVars, nameVars
<1>0. ObjectTypes /\ NameTypes
  BY DEF SectionTypes
<1>1. CASE UNCHANGED <<owner, stage>>
  BY <1>1 DEF ObjectsOwned
<1>2. CASE ReceiveCall
  BY <1>0, <1>2 DEF ObjectsOwned, ReceiveCall, ObjectTypes
<1>3. ASSUME NEW h \in Handles, NEW code \in Answers, Answer(h, code) PROVE ObjectsOwned'
  BY <1>0, <1>3 DEF ObjectsOwned, Answer, ObjectTypes
<1>4. CASE ReceiveClose
  BY <1>0, <1>4 DEF ObjectsOwned, ReceiveClose, Live
<1>5. CASE PortalStarts
  BY <1>0, <1>5 DEF ObjectsOwned, PortalStarts, NameTypes, NoOwner
<1>6. CASE PortalVanishes
  BY <1>0, <1>6 DEF ObjectsOwned, PortalVanishes
<1>7. MainThread => UNCHANGED <<owner, stage>>
  BY DEF MainThread, BeginRequest, ResolveClose, SendClose, FinishClose, AbandonClose
<1>8. WorkerThread => UNCHANGED <<owner, stage>>
  BY DEF WorkerThread, IssueCall, OnPortalAppeared, OnPortalVanished, FailPendingRequests,
         OnCallFailed, OnCallStarted, DeliverEarlyResponse, OnRequestResponse, HoldUnclaimed
<1>9. Bus => UNCHANGED <<owner, stage>> \/ ReceiveCall \/ ReceiveClose
  BY DEF Bus, CallTimesOut, BusReportsNoReply, Reply, RefuseCall
<1>10. Portal => \/ UNCHANGED <<owner, stage>>
                 \/ PortalStarts \/ PortalVanishes
                 \/ \E h \in Handles, code \in Answers : Answer(h, code)
  BY DEF Portal, ForeignResponse
<1>11. UNCHANGED sectionVars => UNCHANGED <<owner, stage>>
  BY DEF sectionVars
<1>12. QED
  BY <1>1, <1>2, <1>3, <1>4, <1>5, <1>6, <1>7, <1>8, <1>9, <1>10, <1>11 DEF Section

\* How the queue changes while h is held: no report of an owner is added, and no
\* Response of h unless h is being granted.
Told(h) ==
  \/ UNCHANGED inbox
  \/ \E type : Dispatching(type)
  \/ \E m \in InboxMessages :
       /\ inbox' = Append(inbox, m)
       /\ ~IsReport(m)
       /\ stage[h] = "held" => ~(m.type = "response" /\ m.path = home[h])

LEMMA NextTold ==
  ASSUME RouteInv, ObjectsOwned, [Section]_sectionVars, NEW h \in Handles, stage'[h] = "held"
  PROVE  Told(h)
<1>0. /\ ObjectTypes /\ QueueStep /\ HomesInv
  BY NextQueue DEF RouteInv, CallInv, SectionTypes
<1>1. ASSUME NEW m \in InboxMessages, inbox' = Append(inbox, m), Explained(m) PROVE Told(h)
  <2>1. ~PortalVanishes
    BY <1>0 DEF PortalVanishes, ObjectTypes
  <2>2. ~PortalStarts
    BY DEF PortalStarts, objectVars, ObjectsOwned
  <2>3. ~IsReport(m)
    BY <1>1, <2>1, <2>2 DEF Explained, IsReport
  <2>4. ASSUME stage[h] = "held", m.type = "response", m.path = home[h] PROVE FALSE
    <3>1. home[h] # ForeignPath
      BY <1>0, PathsAssumption DEF HomesInv
    <3>2. PICK g \in Handles, code \in Answers : Answer(g, code) /\ m.path = home[g]
      BY <1>1, <2>4, <3>1 DEF Explained
    <3>3. stage[g] = "open"
      BY <3>2 DEF Answer
    <3>. QED
      BY <1>0, <2>4, <3>2, <3>3 DEF HomesInv
  <2>. QED
    BY <1>1, <2>3, <2>4 DEF Told
<1>. QED
  BY <1>0, <1>1 DEF QueueStep, Told

\* A Response that arrives at the handle's object comes through the queue.
Arriving(h) ==
  /\ Dispatching("response") /\ Head(inbox).path = home[h]
  /\ worker'.step # "fail"

ArrivedNext(h) ==
  \/ \E i \in 1..Len(completions'[h]) : completions'[h][i].by = "portal"
  \/ worker'.step \in {"deliver", "hold"} /\ worker'.path = home[h]
  \/ \E i \in 1..Len(unclaimed_responses') : unclaimed_responses'[i].path = home[h]

\* A delivery goes to the request on that path only.
LEMMA DeliverThere ==
  ASSUME RouteTypes, HistoryTypes, NEW path \in Paths, NEW code, Genuine(path, code),
         DeliverResponse(path, code), NEW h \in Handles, home[h] # path
  PROVE  completions'[h] = completions[h]
<1>1. CASE request_paths[path] = None
  BY <1>1 DEF DeliverResponse
<1>2. CASE request_paths[path] # None
  <2>1. request_paths[path] \in Handles \ {h}
    BY <1>2, Routed
  <2>. QED
    BY <2>1 DEF DeliverResponse, Report, HistoryTypes
<1>. QED
  BY <1>1, <1>2

LEMMA AnswerHeard ==
  ASSUME RouteInv, [Section]_sectionVars, NEW h \in Handles,
         NEW i \in 1..Len(completions'[h]), completions'[h][i].by = "portal"
  PROVE  Arrived(h) \/ Arriving(h)
<1>0. /\ RouteTypes /\ CallInv /\ BusTypes /\ HistoryTypes /\ worker \in WorkerStates
      /\ OutcomesSettled /\ MessagesInv /\ AnswersInv
  BY DEF RouteInv, RouteTypes, CallInv, SectionTypes
<1>1. CASE completions'[h] = completions[h]
  BY <1>1 DEF Arrived
<1>2. ASSUME NEW e, completions'[h] = Append(completions[h], e), e.by # "portal" PROVE Arrived(h)
  <2>1. i \in 1..Len(completions[h]) /\ completions'[h][i] = completions[h][i]
    BY <1>0, <1>2 DEF HistoryTypes
  <2>. QED
    BY <2>1 DEF Arrived
<1>3. CASE FailPendingRequests
  <2>1. worker.by # "portal"
    BY <1>0, <1>3 DEF FailPendingRequests, AnswersInv
  <2>2. \/ completions'[h] = completions[h]
        \/ completions'[h] = Append(completions[h], [by |-> worker.by, code |-> Other])
    BY <1>3 DEF FailPendingRequests
  <2>. QED
    BY <1>1, <1>2, <2>1, <2>2
<1>4. CASE OnCallFailed
  <2> DEFINE g == Head(inbox).handle
  <2>1. g \in Handles
    BY <1>0, <1>4, HandlingKeepsOutcomes DEF OnCallFailed
  <2>2. \/ completions'[h] = completions[h]
        \/ completions'[h] = Append(completions[h], [by |-> "call", code |-> Other])
    BY <1>0, <1>4, <2>1 DEF OnCallFailed, FailCall, Report, HistoryTypes
  <2>. QED
    BY <1>1, <1>2, <2>2
<1>5. CASE DeliverEarlyResponse
  <2>1. worker.path \in Paths /\ Genuine(worker.path, worker.code)
    BY <1>0, <1>5, WorkerFields DEF DeliverEarlyResponse, MessagesInv
  <2>2. CASE worker.path = home[h]
    BY <1>5, <2>2 DEF DeliverEarlyResponse, Arrived
  <2>3. CASE worker.path # home[h]
    BY <1>0, <1>1, <1>5, <2>1, <2>3, DeliverThere DEF DeliverEarlyResponse
  <2>. QED
    BY <2>2, <2>3
<1>6. CASE OnRequestResponse
  <2>1. Head(inbox) = inbox[1] /\ 1 \in 1..Len(inbox) /\ Head(inbox) \in InboxMessages
    BY <1>0, <1>6, TailIndices DEF BusTypes, OnRequestResponse, Dispatching
  <2>2. Head(inbox).type = "response"
    BY <1>6 DEF OnRequestResponse, Dispatching
  <2>3. Head(inbox).path \in Paths /\ Genuine(Head(inbox).path, Head(inbox).code)
    BY <1>0, <2>1, <2>2, InboxFields DEF MessagesInv, Truthful
  <2>4. CASE Head(inbox).path = home[h]
    BY <1>6, <2>4 DEF OnRequestResponse, Arriving, Idle
  <2>5. CASE Head(inbox).path # home[h]
    BY <1>0, <1>1, <1>6, <2>3, <2>5, DeliverThere DEF OnRequestResponse
  <2>. QED
    BY <2>4, <2>5
<1>7. MainThread => UNCHANGED completions
  BY DEF MainThread, BeginRequest, ResolveClose, SendClose, FinishClose, AbandonClose, historyVars
<1>8. WorkerThread =>
        \/ UNCHANGED completions
        \/ FailPendingRequests \/ OnCallFailed \/ DeliverEarlyResponse \/ OnRequestResponse
  BY DEF WorkerThread, IssueCall, OnPortalAppeared, OnPortalVanished, OnCallStarted,
         HoldUnclaimed, historyVars
<1>9. Bus => UNCHANGED completions
  BY DEF Bus, CallTimesOut, BusReportsNoReply, Reply, ReceiveCall, RefuseCall, ReceiveClose,
         historyVars
<1>10. Portal => UNCHANGED completions
  BY DEF Portal, Answer, PortalStarts, PortalVanishes, ForeignResponse, historyVars
<1>11. UNCHANGED sectionVars => UNCHANGED completions
  BY DEF sectionVars, historyVars
<1>. QED
  BY <1>1, <1>3, <1>4, <1>5, <1>6, <1>7, <1>8, <1>9, <1>10, <1>11 DEF Section

\* What the worker has in hand is from the queue, or was held.
LEMMA WorkerTakes ==
  ASSUME CallInv, [Section]_sectionVars
  PROVE  \/ UNCHANGED worker
         \/ worker' = Idle
         \/ OnPortalAppeared \/ OnPortalVanished
         \/ /\ OnRequestResponse
            /\ worker' = [step |-> "hold", path |-> Head(inbox).path, code |-> Head(inbox).code]
         \/ \E i \in 1..Len(unclaimed_responses) :
              worker' = [step |-> "deliver", path |-> unclaimed_responses[i].path,
                         code |-> unclaimed_responses[i].code]
<1>0. FlightTypes
  BY DEF CallInv, SectionTypes
<1>1. OnRequestResponse =>
        \/ worker' = Idle
        \/ worker' = [step |-> "hold", path |-> Head(inbox).path, code |-> Head(inbox).code]
  BY DEF OnRequestResponse
<1>2. CASE OnCallStarted
  <2>1. ClaimEarlyResponse(Head(inbox).path)
    BY <1>2 DEF OnCallStarted
  <2>2. DOMAIN unclaimed_responses = 1..Len(unclaimed_responses)
    BY <1>0 DEF FlightTypes
  <2>. QED
    BY <2>1, <2>2 DEF ClaimEarlyResponse
<1>3. MainThread => UNCHANGED worker
  BY DEF MainThread, BeginRequest, ResolveClose, SendClose, FinishClose, AbandonClose
<1>4. WorkerThread =>
        \/ UNCHANGED worker \/ worker' = Idle
        \/ OnPortalAppeared \/ OnPortalVanished \/ OnRequestResponse \/ OnCallStarted
  BY DEF WorkerThread, IssueCall, FailPendingRequests, OnCallFailed, DeliverEarlyResponse,
         HoldUnclaimed
<1>5. Bus => UNCHANGED worker
  BY DEF Bus, CallTimesOut, BusReportsNoReply, Reply, ReceiveCall, RefuseCall, ReceiveClose
<1>6. Portal => UNCHANGED worker
  BY DEF Portal, Answer, PortalStarts, PortalVanishes, ForeignResponse
<1>7. UNCHANGED sectionVars => UNCHANGED worker
  BY DEF sectionVars
<1>. QED
  BY <1>1, <1>2, <1>3, <1>4, <1>5, <1>6, <1>7 DEF Section

LEMMA NextArrived ==
  ASSUME RouteInv, [Section]_sectionVars, NEW h \in Handles, ArrivedNext(h)
  PROVE  Arrived(h) \/ Arriving(h)
<1>0. CallInv /\ FlightTypes
  BY DEF RouteInv, CallInv, SectionTypes
<1>1. ASSUME NEW i \in 1..Len(completions'[h]), completions'[h][i].by = "portal"
      PROVE  Arrived(h) \/ Arriving(h)
  BY <1>1, AnswerHeard
<1>2. ASSUME worker'.step \in {"deliver", "hold"}, worker'.path = home[h]
      PROVE  Arrived(h) \/ Arriving(h)
  <2>1. CASE UNCHANGED worker
    BY <1>2, <2>1 DEF Arrived
  <2>2. worker' # Idle
    BY <1>2 DEF Idle
  <2>3. ~OnPortalAppeared /\ ~OnPortalVanished
    BY <1>2 DEF OnPortalAppeared, OnPortalVanished, Idle
  <2>4. ASSUME OnRequestResponse,
               worker' = [step |-> "hold", path |-> Head(inbox).path, code |-> Head(inbox).code]
        PROVE  Arriving(h)
    BY <1>2, <2>4 DEF OnRequestResponse, Arriving
  <2>5. ASSUME NEW i \in 1..Len(unclaimed_responses),
               worker' = [step |-> "deliver", path |-> unclaimed_responses[i].path,
                          code |-> unclaimed_responses[i].code]
        PROVE  Arrived(h)
    BY <1>2, <2>5 DEF Arrived
  <2>. QED
    BY <1>0, <2>1, <2>2, <2>3, <2>4, <2>5, WorkerTakes
<1>3. ASSUME NEW i \in 1..Len(unclaimed_responses'), unclaimed_responses'[i].path = home[h]
      PROVE  Arrived(h)
  <2>1. HeldFrom(unclaimed_responses'[i])
    BY <1>0, HeldSources
  <2>. QED
    BY <1>3, <2>1 DEF HeldFrom, Arrived
<1>. QED
  BY <1>1, <1>2, <1>3 DEF ArrivedNext

LEMMA NextHeldInv ==
  ASSUME RouteInv, ObjectsOwned, HeldInv, [Section]_sectionVars
  PROVE  HeldInv'
<1>0. /\ SectionTypes /\ CallInv /\ OutboxInv /\ BusTypes /\ ObjectTypes /\ HomesInv /\ MessagesInv /\ AnswersInv
      /\ Persistent
  BY NextPersistent DEF RouteInv, CallInv, SectionTypes
<1>1. SUFFICES ASSUME NEW h \in Handles, stage'[h] = "held"
               PROVE  /\ h \in Inhibits /\ answer'[h] = Success
                      /\ ReportsFirst(h)'
                      /\ Arrived(h)' => NoReports' /\ worker'.step # "fail"
  BY DEF HeldInv, ReportsFirst, Arrived, NoReports, IsReport
<1>2. Told(h)
  BY <1>0, <1>1, NextTold
<1>3. \A type : Dispatching(type) =>
        /\ Head(inbox) = inbox[1] /\ Head(inbox).type = type /\ 1 \in 1..Len(inbox)
        /\ worker = Idle
        /\ \A i \in 1..Len(inbox') : i + 1 \in 1..Len(inbox) /\ inbox'[i] = inbox[i + 1]
  BY <1>0, TailIndices DEF BusTypes, Dispatching
<1>4. \A m \in InboxMessages : inbox' = Append(inbox, m) =>
        /\ Len(inbox') = Len(inbox) + 1 /\ Len(inbox) \in Nat
        /\ \A i \in 1..Len(inbox) : inbox'[i] = inbox[i]
        /\ inbox'[Len(inbox) + 1] = m
  BY <1>0, AppendIndices DEF BusTypes
<1>5. CASE stage[h] = "held"
  <2>1. /\ h \in Inhibits /\ answer'[h] = Success /\ home'[h] = home[h]
        /\ ReportsFirst(h)
        /\ Arrived(h) => NoReports /\ worker.step # "fail"
    BY <1>0, <1>5 DEF HeldInv, Persistent, Decided
  <2>2. ReportsFirst(h)'
    <3>1. CASE UNCHANGED inbox
      BY <2>1, <3>1 DEF ReportsFirst
    <3>2. ASSUME NEW type, Dispatching(type) PROVE ReportsFirst(h)'
      BY <1>3, <2>1, <3>2 DEF ReportsFirst
    <3>3. ASSUME NEW m \in InboxMessages, inbox' = Append(inbox, m), ~IsReport(m),
                 ~(m.type = "response" /\ m.path = home[h])
          PROVE  ReportsFirst(h)'
      <4>1. ASSUME NEW i \in 1..Len(inbox'), NEW j \in 1..Len(inbox'), IsReport(inbox'[i]),
                   inbox'[j].type = "response", inbox'[j].path = home'[h]
            PROVE  i < j
        <5>1. inbox'[i] # m /\ inbox'[j] # m
          BY <2>1, <3>3, <4>1
        <5>2. i \in 1..Len(inbox) /\ j \in 1..Len(inbox)
          BY <1>4, <3>3, <5>1
        <5>. QED
          BY <1>4, <2>1, <3>3, <4>1, <5>2 DEF ReportsFirst
      <4>. QED
        BY <4>1 DEF ReportsFirst, IsReport
    <3>. QED
      BY <1>2, <1>5, <3>1, <3>2, <3>3 DEF Told
  <2>3. ASSUME Arrived(h)' PROVE NoReports' /\ worker'.step # "fail"
    <3>1. Arrived(h) \/ Arriving(h)
      BY <2>1, <2>3, NextArrived DEF Arrived, ArrivedNext
    <3>2. CASE Arriving(h)
      <4>1. \A i \in 1..Len(inbox) : IsReport(inbox[i]) => i < 1
        BY <1>3, <2>1, <3>2 DEF Arriving, ReportsFirst
      <4>2. NoReports
        BY <1>0, <4>1 DEF NoReports, BusTypes
      <4>. QED
        BY <1>3, <3>2, <4>2 DEF Arriving, NoReports, IsReport
    <3>3. CASE Arrived(h)
      <4>1. NoReports /\ worker.step # "fail"
        BY <2>1, <3>3
      <4>2. NoReports'
        <5>1. CASE UNCHANGED inbox
          BY <4>1, <5>1 DEF NoReports, IsReport
        <5>2. ASSUME NEW type, Dispatching(type) PROVE NoReports'
          BY <1>3, <4>1, <5>2 DEF NoReports, IsReport
        <5>3. ASSUME NEW m \in InboxMessages, inbox' = Append(inbox, m), ~IsReport(m)
              PROVE  NoReports'
          BY <1>4, <4>1, <5>3 DEF NoReports, IsReport
        <5>. QED
          BY <1>2, <5>1, <5>2, <5>3 DEF Told
      <4>3. ~OnPortalAppeared /\ ~OnPortalVanished
        BY <1>3, <4>1 DEF OnPortalAppeared, OnPortalVanished, NoReports, IsReport
      <4>4. worker'.step # "fail"
        BY <1>0, <4>1, <4>3, WorkerTakes DEF Idle
      <4>. QED
        BY <4>2, <4>4
    <3>. QED
      BY <3>1, <3>2, <3>3
  <2>. QED
    BY <2>1, <2>2, <2>3
<1>6. CASE stage[h] # "held"
  <2>1. PICK code \in Answers : Answer(h, code) /\ h \in Inhibits /\ code = Success
    BY <1>0, <1>1, <1>6, Granted
  <2> DEFINE m == [type |-> "response", path |-> home[h], code |-> code]
  <2>2. /\ stage[h] = "open" /\ answer'[h] = Success /\ home'[h] = home[h]
        /\ inbox' = Append(inbox, m)
        /\ UNCHANGED <<worker, unclaimed_responses, completions>>
    BY <1>0, <2>1 DEF Answer, ObjectTypes, clientVars, flightVars, historyVars
  <2>3. m \in InboxMessages /\ ~IsReport(m)
    BY <1>0, <2>1, BoundsAssumption DEF ObjectTypes, InboxMessages, IsReport
  <2>4. \A c : ~Genuine(home[h], c)
    <3>1. home[h] # ForeignPath
      BY <1>0, PathsAssumption DEF HomesInv
    <3>. QED
      BY <1>0, <2>2, <3>1 DEF Genuine, Decided, HomesInv
  <2>5. ReportsFirst(h)'
    <3>1. ASSUME NEW i \in 1..Len(inbox'), NEW j \in 1..Len(inbox'), IsReport(inbox'[i]),
                 inbox'[j].type = "response", inbox'[j].path = home'[h]
          PROVE  i < j
      <4>1. inbox'[i] # m
        BY <2>3, <3>1
      <4>2. i \in 1..Len(inbox)
        BY <1>4, <2>2, <2>3, <4>1
      <4>3. ~(j \in 1..Len(inbox))
        BY <1>0, <1>4, <2>2, <2>3, <2>4, <3>1 DEF MessagesInv, Truthful
      <4>. QED
        BY <1>4, <2>2, <2>3, <4>2, <4>3
    <3>. QED
      BY <3>1 DEF ReportsFirst, IsReport
  <2>6. ~Arrived(h)'
    <3>1. ~\E i \in 1..Len(completions[h]) : completions[h][i].by = "portal"
      BY <1>0, <2>2 DEF AnswersInv, Decided
    <3>2. ~(worker.step \in {"deliver", "hold"} /\ worker.path = home[h])
      BY <1>0, <2>4 DEF MessagesInv
    <3>3. ~\E i \in 1..Len(unclaimed_responses) : unclaimed_responses[i].path = home[h]
      BY <1>0, <2>4 DEF MessagesInv
    <3>. QED
      BY <2>2, <3>1, <3>2, <3>3 DEF Arrived
  <2>. QED
    BY <2>1, <2>2, <2>5, <2>6
<1>. QED
  BY <1>5, <1>6

-----------------------------------------------------------------------------
(* Closing: a Close that succeeds ended the object it was meant for.       *)

\* A path that close_request() may have read for the handle.
Aims(path, h) == path = h \/ (stage[h] # "none" /\ path = home[h])

\* A Close on its way belongs to close_request() as it is, or to one that gave up.
CloseSent(m) ==
  m.type = "close" =>
    /\ m.attempt <= closes
    /\ m.attempt = closes /\ closing # NotClosing =>
         closing.stage # "resolved" /\ m.path = closing.path

CloseInv ==
  /\ closing # NotClosing => Aims(closing.path, closing.handle)
  /\ \A i \in 1..Len(outbox) : CloseSent(outbox[i])
  /\ closing.stage = "ok" => stage[closing.handle] \in {"closed", "gone"}

\* How a step may change close_request().
ClosingStep ==
  \/ UNCHANGED <<closing, closes>>
  \/ \E h \in Handles : ResolveClose(h)
  \/ SendClose
  \/ closing' = NotClosing /\ UNCHANGED closes
  \/ ReceiveClose

LEMMA NextClosingStep == ASSUME [Section]_sectionVars PROVE ClosingStep
<1> USE DEF ClosingStep, closeVars
<1>1. MainThread => ClosingStep
  BY DEF MainThread, BeginRequest, FinishClose, AbandonClose
<1>2. WorkerThread => ClosingStep
  BY DEF WorkerThread, IssueCall, OnPortalAppeared, OnPortalVanished, FailPendingRequests,
         OnCallFailed, OnCallStarted, DeliverEarlyResponse, OnRequestResponse, HoldUnclaimed
<1>3. Bus => ClosingStep
  BY DEF Bus, CallTimesOut, BusReportsNoReply, Reply, ReceiveCall, RefuseCall
<1>4. Portal => ClosingStep
  BY DEF Portal, Answer, PortalStarts, PortalVanishes, ForeignResponse
<1>5. UNCHANGED sectionVars => ClosingStep
  BY DEF sectionVars
<1>. QED
  BY <1>1, <1>2, <1>3, <1>4, <1>5 DEF Section

\* A Close that meets an object on the path close_request() read ends the one it meant,
\* and no other.
LEMMA CloseEnds ==
  ASSUME CallInv, OutboxInv, HomesInv, CloseInv, ReceiveClose,
         closing.stage = "sent", closing' = ClosingNow("ok")
  PROVE  /\ stage'[closing.handle] = "closed"
         /\ \A h \in Handles : stage'[h] # stage[h] => h = closing.handle
<1> DEFINE m == Head(outbox)
           Target == {g \in Handles : Live(g) /\ home[g] = m.path}
<1>0. BusTypes /\ ObjectTypes /\ CloseTypes
  BY DEF CallInv, SectionTypes
<1>1. m = outbox[1] /\ 1 \in 1..Len(outbox) /\ m.type = "close"
  BY <1>0, ReceivingTail DEF ReceiveClose
<1>2. closing \in Closings /\ closing # NotClosing
  BY <1>0 DEF CloseTypes, NotClosing
<1>3. closing'.stage = "ok"
  BY DEF ClosingNow
<1>4. m.attempt = closes /\ Target # {}
  <2>1. SettleClose(m.attempt, "ok") \/ SettleClose(m.attempt, "rejected")
    BY DEF ReceiveClose
  <2>2. m.attempt = closes
    BY <1>3, <2>1 DEF SettleClose
  <2>3. ~SettleClose(m.attempt, "rejected")
    BY <1>3, <2>2 DEF SettleClose, ClosingNow
  <2>. QED
    BY <2>2, <2>3 DEF ReceiveClose
<1>5. m.path = closing.path
  BY <1>1, <1>2, <1>4 DEF CloseInv, CloseSent
<1>6. closing.handle \in Handles /\ Aims(closing.path, closing.handle)
  BY <1>2 DEF Closings, CloseInv
<1>7. ASSUME NEW g \in Target PROVE g = closing.handle
  <2>1. stage[g] # "none" /\ home[g] = closing.path /\ g \in Handles /\ home[g] \in {g} \cup AltPaths
    BY <1>5 DEF Live, HomesInv
  <2>2. CASE closing.path = closing.handle
    BY <1>6, <2>1, <2>2, PathsAssumption
  <2>3. CASE stage[closing.handle] # "none" /\ closing.path = home[closing.handle]
    BY <1>6, <2>1, <2>3 DEF HomesInv
  <2>. QED
    BY <1>6, <2>2, <2>3 DEF Aims
<1>8. closing.handle \in Target
  BY <1>4, <1>7
<1>9. stage' = [g \in Handles |-> IF g \in Target THEN "closed" ELSE stage[g]]
  BY <1>4 DEF ReceiveClose
<1>. QED
  BY <1>0, <1>6, <1>7, <1>8, <1>9 DEF ObjectTypes

LEMMA NextCloseInv ==
  ASSUME RouteInv, CloseInv, [Section]_sectionVars
  PROVE  CloseInv'
<1>0. /\ CallInv /\ OutboxInv /\ HomesInv /\ PathsInv /\ Persistent /\ BusTypes /\ CloseTypes /\ CloseTypes'
      /\ ClosingStep
  BY NextPersistent, NextClosingStep, NextCalls DEF RouteInv, CallInv, SectionTypes
<1>1. closing # NotClosing => closing \in Closings
  BY <1>0 DEF CloseTypes
<1>2. \A h \in Handles : \A p : Aims(p, h) => p = h \/ (stage'[h] # "none" /\ p = home'[h])
  BY <1>0 DEF Aims, Persistent
<1>3. (closing # NotClosing => Aims(closing.path, closing.handle))'
  <2>1. ASSUME closing # NotClosing, closing'.path = closing.path, closing'.handle = closing.handle
        PROVE  Aims(closing.path, closing.handle)'
    BY <1>1, <1>2, <2>1 DEF CloseInv, Closings, Aims
  <2>2. ASSUME NEW h \in Handles, ResolveClose(h) PROVE Aims(closing.path, closing.handle)'
    <3>1. closing'.handle = h /\ closing'.path \in {h, requests[h].path}
      BY <2>2 DEF ResolveClose
    <3>2. Aims(closing'.path, h)
      BY <1>0, <2>2, <3>1 DEF PathsInv, Aims
    <3>. QED
      BY <1>2, <3>1, <3>2 DEF Aims
  <2>3. CASE UNCHANGED <<closing, closes>>
    BY <2>1, <2>3
  <2>4. CASE SendClose \/ ReceiveClose
    <3>1. closing' = closing \/ closing' = ClosingNow("sent") \/ closing' = ClosingNow("ok")
            \/ closing' = ClosingNow("rejected")
      BY <2>4 DEF SendClose, ReceiveClose, SettleClose
    <3>2. closing = NotClosing => closing' = NotClosing
      BY <2>4 DEF SendClose, ReceiveClose, SettleClose, NotClosing
    <3>3. closing'.path = closing.path /\ closing'.handle = closing.handle
      BY <3>1 DEF ClosingNow
    <3>. QED
      BY <2>1, <3>2, <3>3
  <2>. QED
    BY <1>0, <2>2, <2>3, <2>4 DEF ClosingStep
<1>4. (\A i \in 1..Len(outbox) : CloseSent(outbox[i]))'
  <2>1. SUFFICES ASSUME NEW i \in 1..Len(outbox'), outbox'[i].type = "close"
                 PROVE  /\ outbox'[i].attempt <= closes'
                        /\ outbox'[i].attempt = closes' /\ closing' # NotClosing =>
                             closing'.stage # "resolved" /\ outbox'[i].path = closing'.path
    BY DEF CloseSent
  <2>2. SentFrom(outbox'[i])
    BY <1>0, OutboxSources
  <2>3. CASE SendClose /\ outbox'[i] = [type |-> "close", path |-> closing.path, attempt |-> closes]
    BY <1>0, <2>3 DEF SendClose, ClosingNow, CloseTypes
  <2>4. ~\E h \in Handles : IssueCall(h) /\ outbox'[i] = [type |-> "call", handle |-> h]
    <3>1. ASSUME NEW h, outbox'[i] = [type |-> "call", handle |-> h] PROVE outbox'[i].type = "call"
      BY <3>1
    <3>. QED
      BY <2>1, <3>1
  <2>5. ASSUME NEW k \in 1..Len(outbox), outbox[k] = outbox'[i]
        PROVE  /\ outbox'[i].attempt <= closes'
               /\ outbox'[i].attempt = closes' /\ closing' # NotClosing =>
                    closing'.stage # "resolved" /\ outbox'[i].path = closing'.path
    <3>1. CloseSent(outbox'[i]) /\ outbox'[i].attempt \in Nat /\ closes \in Nat
      BY <1>0, <2>1, <2>5, OutboxFields DEF CloseInv, BusTypes, CloseTypes
    <3>2. CASE UNCHANGED <<closing, closes>>
      BY <2>1, <3>1, <3>2 DEF CloseSent
    <3>3. CASE \E h \in Handles : ResolveClose(h)
      <4>1. closes' = closes + 1
        BY <3>3 DEF ResolveClose
      <4>. QED
        BY <2>1, <3>1, <4>1 DEF CloseSent
    <3>4. CASE SendClose
      <4>1. closing.stage = "resolved" /\ closing # NotClosing /\ closes' = closes
        BY <3>4 DEF SendClose, NotClosing
      <4>2. outbox'[i].attempt # closes
        BY <2>1, <3>1, <4>1 DEF CloseSent
      <4>. QED
        BY <2>1, <3>1, <4>1, <4>2 DEF CloseSent
    <3>5. CASE closing' = NotClosing /\ UNCHANGED closes
      BY <2>1, <3>1, <3>5 DEF CloseSent
    <3>6. CASE ReceiveClose
      <4>1. /\ closes' = closes
            /\ closing' = closing \/ closing' = ClosingNow("ok") \/ closing' = ClosingNow("rejected")
            /\ closing' # closing => closing.stage = "sent"
        BY <3>6 DEF ReceiveClose, SettleClose
      <4>2. CASE closing' = closing
        BY <2>1, <3>1, <4>1, <4>2 DEF CloseSent
      <4>3. CASE closing' # closing
        <5>1. closing # NotClosing /\ closing'.stage # "resolved" /\ closing'.path = closing.path
          BY <4>1, <4>3 DEF ClosingNow, NotClosing
        <5>. QED
          BY <2>1, <3>1, <4>1, <5>1 DEF CloseSent
      <4>. QED
        BY <4>2, <4>3
    <3>. QED
      BY <1>0, <3>2, <3>3, <3>4, <3>5, <3>6 DEF ClosingStep
  <2>. QED
    BY <2>2, <2>3, <2>4, <2>5 DEF SentFrom
<1>5. (closing.stage = "ok" => stage[closing.handle] \in {"closed", "gone"})'
  <2>1. SUFFICES ASSUME closing'.stage = "ok"
                 PROVE  stage'[closing'.handle] \in {"closed", "gone"}
    OBVIOUS
  <2>2. CASE closing' = closing
    <3>1. closing.handle \in Handles
      BY <1>1, <2>1, <2>2 DEF NotClosing, Closings
    <3>. QED
      BY <1>0, <2>1, <2>2, <3>1, EndedStays DEF CloseInv
  <2>3. CASE closing' # closing
    <3>1. ~(\E h \in Handles : ResolveClose(h)) /\ ~SendClose /\ closing' # NotClosing
      BY <2>1 DEF ResolveClose, SendClose, ClosingNow, NotClosing
    <3>2. ReceiveClose
      BY <1>0, <2>3, <3>1 DEF ClosingStep
    <3>3. closing.stage = "sent" /\ closing' = ClosingNow("ok")
      BY <2>1, <2>3, <3>2 DEF ReceiveClose, SettleClose, ClosingNow
    <3>4. stage'[closing.handle] = "closed"
      BY <1>0, <3>2, <3>3, CloseEnds
    <3>. QED
      BY <3>3, <3>4 DEF ClosingNow
  <2>. QED
    BY <2>2, <2>3
<1>. QED
  BY <1>3, <1>4, <1>5 DEF CloseInv

-----------------------------------------------------------------------------
(* A held inhibition that the caller knows of can be closed.               *)

Known(h) == \E i \in 1..Len(completions[h]) : completions[h][i].by = "portal"
KnownNext(h) == \E i \in 1..Len(completions'[h]) : completions'[h][i].by = "portal"
Closable(h) == requests[h] = [status |-> "answered", path |-> home[h]]

\* A delivery that reports success keeps the request, at the object's path.
LEMMA DeliverGrants ==
  ASSUME RouteTypes, HistoryTypes, NEW path \in Paths, NEW code, Genuine(path, code),
         DeliverResponse(path, code), NEW h \in Inhibits, answer[h] = Success,
         completions'[h] # completions[h]
  PROVE  requests'[h] = [status |-> "answered", path |-> home[h]]
<1> DEFINE g == request_paths[path]
<1>0. h \in Handles
  BY DEF Handles
<1>1. g # None /\ requests[g].status = "pending"
  BY DEF DeliverResponse
<1>2. g \in Handles /\ answer[g] = code /\ home[g] = path
  BY <1>1, Routed
<1>3. Report(g, "portal", code)
  BY <1>1 DEF DeliverResponse
<1>4. g = h
  BY <1>0, <1>2, <1>3 DEF Report, HistoryTypes
<1>5. requests' = [requests EXCEPT ![h] = [status |-> "answered", path |-> requests[h].path]]
  BY <1>1, <1>2, <1>4 DEF DeliverResponse
<1>6. requests[h].path = path
  BY <1>0, <1>4 DEF RouteTypes, RoutesMatchRequests
<1>. QED
  BY <1>0, <1>2, <1>4, <1>5, <1>6 DEF RouteTypes, RequestTypes

\* The caller comes to know of a grant by a delivery.
LEMMA BecomesKnown ==
  ASSUME RouteInv, [Section]_sectionVars, NEW h \in Inhibits, answer[h] = Success, ~Known(h), KnownNext(h)
  PROVE  requests'[h] = [status |-> "answered", path |-> home[h]]
<1>0. /\ RouteTypes /\ CallInv /\ BusTypes /\ HistoryTypes /\ worker \in WorkerStates
      /\ OutcomesSettled /\ MessagesInv /\ AnswersInv /\ h \in Handles
  BY DEF RouteInv, RouteTypes, CallInv, SectionTypes, Handles
<1>1. completions'[h] # completions[h]
  BY DEF Known, KnownNext
<1>2. ASSUME NEW e, completions'[h] = Append(completions[h], e) PROVE e.by = "portal"
  <2>1. PICK i \in 1..Len(completions'[h]) : completions'[h][i].by = "portal"
    BY DEF KnownNext
  <2>2. completions'[h][i] = e \/ (i \in 1..Len(completions[h]) /\ completions'[h][i] = completions[h][i])
    BY <1>0, <1>2, <2>1 DEF HistoryTypes
  <2>. QED
    BY <2>1, <2>2 DEF Known
<1>3. ~FailPendingRequests
  <2>1. SUFFICES ASSUME FailPendingRequests PROVE FALSE
    OBVIOUS
  <2>2. worker.by # "portal"
    BY <1>0, <2>1 DEF FailPendingRequests, AnswersInv
  <2>3. \/ completions'[h] = completions[h]
        \/ completions'[h] = Append(completions[h], [by |-> worker.by, code |-> Other])
    BY <1>0, <2>1 DEF FailPendingRequests
  <2>. QED
    BY <1>1, <1>2, <2>2, <2>3
<1>4. ~OnCallFailed
  <2>1. SUFFICES ASSUME OnCallFailed PROVE FALSE
    OBVIOUS
  <2>2. Head(inbox).handle \in Handles
    BY <1>0, <2>1, HandlingKeepsOutcomes DEF OnCallFailed
  <2>3. \/ completions'[h] = completions[h]
        \/ completions'[h] = Append(completions[h], [by |-> "call", code |-> Other])
    BY <1>0, <2>1, <2>2 DEF OnCallFailed, FailCall, Report, HistoryTypes
  <2>. QED
    BY <1>1, <1>2, <2>3
<1>5. CASE DeliverEarlyResponse
  <2>1. worker.path \in Paths /\ Genuine(worker.path, worker.code)
    BY <1>0, <1>5, WorkerFields DEF DeliverEarlyResponse, MessagesInv
  <2>. QED
    BY <1>0, <1>1, <1>5, <2>1, DeliverGrants DEF DeliverEarlyResponse
<1>6. CASE OnRequestResponse
  <2>1. Head(inbox) = inbox[1] /\ 1 \in 1..Len(inbox) /\ Head(inbox) \in InboxMessages
    BY <1>0, <1>6, TailIndices DEF BusTypes, OnRequestResponse, Dispatching
  <2>2. Head(inbox).type = "response"
    BY <1>6 DEF OnRequestResponse, Dispatching
  <2>3. Head(inbox).path \in Paths /\ Genuine(Head(inbox).path, Head(inbox).code)
    BY <1>0, <2>1, <2>2, InboxFields DEF MessagesInv, Truthful
  <2>. QED
    BY <1>0, <1>1, <1>6, <2>3, DeliverGrants DEF OnRequestResponse
<1>7. MainThread => UNCHANGED completions
  BY DEF MainThread, BeginRequest, ResolveClose, SendClose, FinishClose, AbandonClose, historyVars
<1>8. WorkerThread =>
        \/ UNCHANGED completions
        \/ FailPendingRequests \/ OnCallFailed \/ DeliverEarlyResponse \/ OnRequestResponse
  BY DEF WorkerThread, IssueCall, OnPortalAppeared, OnPortalVanished, OnCallStarted,
         HoldUnclaimed, historyVars
<1>9. Bus => UNCHANGED completions
  BY DEF Bus, CallTimesOut, BusReportsNoReply, Reply, ReceiveCall, RefuseCall, ReceiveClose,
         historyVars
<1>10. Portal => UNCHANGED completions
  BY DEF Portal, Answer, PortalStarts, PortalVanishes, ForeignResponse, historyVars
<1>11. UNCHANGED sectionVars => UNCHANGED completions
  BY DEF sectionVars, historyVars
<1>. QED
  BY <1>1, <1>3, <1>4, <1>5, <1>6, <1>7, <1>8, <1>9, <1>10, <1>11 DEF Section

\* Nothing but a close or a loss of the portal ends a request that can be closed.
LEMMA StaysClosable ==
  ASSUME RouteInv, HeldInv, CloseInv, Standing, [Section]_sectionVars,
         NEW h \in Inhibits, stage[h] = "held", Known(h), Closable(h)
  PROVE  requests'[h] = requests[h]
<1> USE DEF requestVars, clientVars
<1>0. /\ RouteTypes /\ RequestTypes /\ BusTypes /\ OutcomesSettled /\ MessagesInv /\ PathsInv /\ CloseTypes
      /\ h \in Handles
  BY DEF RouteInv, RouteTypes, CallInv, SectionTypes, Handles
<1>1. requests[h].status = "answered" /\ requests[h].path = home[h]
  BY DEF Closable
<1>2. CASE UNCHANGED requests
  BY <1>2
<1>3. ASSUME NEW g \in Handles, BeginRequest(g) PROVE requests'[h] = requests[h]
  <2>1. g # h
    BY <1>0, <1>1, <1>3 DEF BeginRequest, PathsInv
  <2>. QED
    BY <1>0, <1>3, <2>1 DEF BeginRequest, RequestTypes
<1>4. \A g : g # h /\ ForgetRequest(g) => requests'[h] = requests[h]
  BY <1>0 DEF ForgetRequest, RequestTypes
<1>5. CASE FinishClose
  <2>1. closing.handle # h
    BY <1>5 DEF FinishClose, CloseInv
  <2>. QED
    BY <1>4, <1>5, <2>1 DEF FinishClose
<1>6. ~FailPendingRequests
  BY <1>0 DEF FailPendingRequests, HeldInv, Arrived, Known
<1>7. ASSUME OnCallFailed \/ OnCallStarted
      PROVE  /\ Head(inbox) = inbox[1] /\ 1 \in 1..Len(inbox) /\ Head(inbox) \in InboxMessages
             /\ Head(inbox).type = IF OnCallFailed THEN "failed" ELSE "started"
  BY <1>0, <1>7, TailIndices DEF BusTypes, OnCallFailed, OnCallStarted, Dispatching
<1>8. CASE OnCallFailed
  <2>1. Head(inbox) # Failed(h)
    BY <1>0, <1>1, <1>8 DEF Standing, OnCallFailed, Dispatching
  <2>2. Head(inbox) \in [type : {"failed"}, handle : Handles]
    BY <1>7, <1>8 DEF InboxMessages
  <2>3. Head(inbox).handle # h
    BY <2>1, <2>2 DEF Failed
  <2>. QED
    BY <1>4, <1>8, <2>3 DEF OnCallFailed, FailCall
<1>9. CASE OnCallStarted
  <2> DEFINE m == Head(inbox)
  <2>1. m = inbox[1] /\ 1 \in 1..Len(inbox) /\ m.type = "started"
    BY <1>0, <1>9, TailIndices DEF BusTypes, OnCallStarted, Dispatching
  <2>2. m.path = home[m.handle] /\ Remap(m.handle, m.path)
    BY <1>0, <1>9, <2>1 DEF MessagesInv, Truthful, OnCallStarted
  <2>3. CASE m.handle = h
    BY <1>1, <2>2, <2>3 DEF Remap
  <2>4. CASE m.handle # h
    BY <1>0, <2>2, <2>4 DEF Remap, RequestTypes
  <2>. QED
    BY <2>3, <2>4
<1>10. ASSUME NEW path, NEW code, DeliverResponse(path, code) PROVE requests'[h] = requests[h]
  <2>1. CASE requests' = requests
    BY <2>1
  <2>2. CASE requests' # requests
    <3>1. request_paths[path] # h /\ requests[request_paths[path]].status = "pending"
      BY <1>1, <1>10, <2>2 DEF DeliverResponse
    <3>2. \/ ForgetRequest(request_paths[path])
          \/ \E r : requests' = [requests EXCEPT ![request_paths[path]] = r]
      BY <1>10, <2>2 DEF DeliverResponse
    <3>. QED
      BY <1>0, <1>4, <3>1, <3>2 DEF RequestTypes
  <2>. QED
    BY <2>1, <2>2
<1>11. MainThread =>
         UNCHANGED requests \/ FinishClose \/ \E g \in Handles : BeginRequest(g)
  BY DEF MainThread, ResolveClose, SendClose, AbandonClose
<1>12. WorkerThread =>
         \/ UNCHANGED requests
         \/ FailPendingRequests \/ OnCallFailed \/ OnCallStarted
         \/ \E path, code : DeliverResponse(path, code)
  BY DEF WorkerThread, IssueCall, OnPortalAppeared, OnPortalVanished, DeliverEarlyResponse,
         OnRequestResponse, HoldUnclaimed
<1>13. Bus => UNCHANGED requests
  BY DEF Bus, CallTimesOut, BusReportsNoReply, Reply, ReceiveCall, RefuseCall, ReceiveClose
<1>14. Portal => UNCHANGED requests
  BY DEF Portal, Answer, PortalStarts, PortalVanishes, ForeignResponse
<1>15. UNCHANGED sectionVars => UNCHANGED requests
  BY DEF sectionVars
<1>. QED
  BY <1>2, <1>3, <1>5, <1>6, <1>8, <1>9, <1>10, <1>11, <1>12, <1>13, <1>14, <1>15 DEF Section

ClosableInv == \A h \in Inhibits : stage[h] = "held" /\ Known(h) => Closable(h)

LEMMA NextClosable ==
  ASSUME RouteInv, HeldInv, CloseInv, Standing, ClosableInv, [Section]_sectionVars
  PROVE  ClosableInv'
<1>0. CallInv /\ OutboxInv /\ AnswersInv /\ Persistent /\ Inhibits \subseteq Handles
  BY NextPersistent DEF RouteInv, Handles
<1>1. SUFFICES ASSUME NEW h \in Inhibits, stage'[h] = "held", KnownNext(h)
               PROVE  requests'[h] = [status |-> "answered", path |-> home'[h]]
  BY DEF ClosableInv, Known, KnownNext, Closable
<1>2. CASE stage[h] = "held"
  <2>1. home'[h] = home[h] /\ answer[h] = Success
    BY <1>0, <1>2 DEF Persistent, HeldInv
  <2>2. CASE Known(h)
    <3>1. Closable(h)
      BY <1>2, <2>2 DEF ClosableInv
    <3>2. requests'[h] = requests[h]
      BY <1>2, <2>2, <3>1, StaysClosable
    <3>. QED
      BY <2>1, <3>1, <3>2 DEF Closable
  <2>3. CASE ~Known(h)
    BY <1>1, <2>1, <2>3, BecomesKnown
  <2>. QED
    BY <2>2, <2>3
<1>3. CASE stage[h] # "held"
  <2>1. PICK code \in Answers : Answer(h, code)
    BY <1>0, <1>1, <1>3, Granted
  <2>2. stage[h] = "open" /\ completions' = completions
    BY <2>1 DEF Answer, historyVars
  <2>3. ~Known(h)
    BY <1>0, <2>2 DEF AnswersInv, Decided, Known
  <2>. QED
    BY <1>1, <2>2, <2>3 DEF Known, KnownNext
<1>. QED
  BY <1>2, <1>3

LEMMA InitHeld == Init => ObjectsOwned /\ HeldInv /\ CloseInv /\ ClosableInv
<1> SUFFICES ASSUME Init PROVE ObjectsOwned /\ HeldInv /\ CloseInv /\ ClosableInv
  OBVIOUS
<1>1. \A h \in Handles : stage[h] = "none"
  BY DEF Init
<1>2. ObjectsOwned /\ HeldInv /\ ClosableInv
  BY <1>1 DEF ObjectsOwned, HeldInv, ClosableInv, Handles
<1>3. CloseInv
  BY DEF Init, CloseInv, NotClosing
<1>. QED
  BY <1>2, <1>3

\* An inhibition that the caller knows of and the portal still holds can be closed: the
\* request is there and has the object's path, whatever crashes, restarts, other
\* requests and time-outs interfere, as long as no call is failed whose request was
\* answered before.
THEOREM ClosableWhileStanding == Spec /\ []Standing => []HeldCanBeClosed
<1> DEFINE I == ObjectsOwned /\ HeldInv /\ CloseInv /\ ClosableInv
<1>1. Init => I
  BY InitHeld
<1>2. LifeInv /\ Standing /\ I /\ [Section]_sectionVars => I'
  BY NextOwned, NextHeldInv, NextCloseInv, NextClosable DEF LifeInv, RouteInv, CallInv
<1>3. LifeInv /\ I => HeldCanBeClosed
  <2>1. SectionTypes => \A h \in Inhibits : DOMAIN completions[h] = 1..Len(completions[h])
    BY DEF SectionTypes, HistoryTypes, Handles
  <2>. QED
    BY <2>1 DEF HeldCanBeClosed, ClosableInv, Known, Closable, LifeInv, RouteInv, CallInv
<1>. HIDE DEF I
<1>. QED
  BY <1>1, <1>2, <1>3, StandingLife, NextSections, PTL DEF Spec

\* If the portal replies to a call before it answers, or calls do not time out, an
\* inhibition that the caller knows of and the portal still holds can be closed.
THEOREM HeldIsClosable ==
  ASSUME EarlyResponses = FALSE \/ "call" \notin TimeOuts
  PROVE  Spec => []HeldCanBeClosed
BY AlwaysStanding, ClosableWhileStanding, PTL

-----------------------------------------------------------------------------
(* Pending requests wait for something: what, by the stage of the object.  *)

\* A call that was issued is on its way until the portal has it or it is settled.
CallUnderWay(h) == \E i \in 1..Len(outbox) : outbox[i].type = "call" /\ outbox[i].handle = h
SentInv == \A h \in Handles : call[h] = "sent" /\ stage[h] = "none" => CallUnderWay(h)

\* A pending request whose call is over is on its object's path.
FollowedInv ==
  \A h \in Handles : requests[h].status = "pending" /\ call[h] = "done" =>
    stage[h] # "none" /\ requests[h].path = home[h]

LEMMA NextSent ==
  ASSUME CallInv, OutboxInv, SentInv, [Section]_sectionVars
  PROVE  SentInv'
<1> USE DEF busVars, portalVars, objectVars
<1>0. BusTypes /\ ObjectTypes /\ Persistent /\ \A h \in Handles : CallStep(h)
  BY NextPersistent, NextCall DEF CallInv, SectionTypes
<1>1. SUFFICES ASSUME NEW h \in Handles, call'[h] = "sent", stage'[h] = "none"
               PROVE  \E i \in 1..Len(outbox') : outbox'[i].type = "call" /\ outbox'[i].handle = h
  BY DEF SentInv, CallUnderWay
<1>2. stage[h] = "none" /\ call[h] \in {"queued", "sent"}
  BY <1>0, <1>1 DEF Persistent, CallStep
<1>3. ASSUME NEW m \in OutboxMessages, outbox' = Append(outbox, m),
             CallUnderWay(h) \/ (m.type = "call" /\ m.handle = h)
      PROVE  \E i \in 1..Len(outbox') : outbox'[i].type = "call" /\ outbox'[i].handle = h
  <2>1. /\ Len(outbox') = Len(outbox) + 1 /\ Len(outbox) \in Nat
        /\ \A i \in 1..Len(outbox) : outbox'[i] = outbox[i]
        /\ outbox'[Len(outbox) + 1] = m
    BY <1>0, <1>3, AppendIndices DEF BusTypes
  <2>2. CASE CallUnderWay(h)
    <3>1. PICK i \in 1..Len(outbox) : outbox[i].type = "call" /\ outbox[i].handle = h
      BY <2>2 DEF CallUnderWay
    <3>2. i \in 1..Len(outbox') /\ outbox'[i] = outbox[i]
      BY <2>1
    <3>. QED
      BY <3>1, <3>2
  <2>3. CASE m.type = "call" /\ m.handle = h
    <3>1. Len(outbox) + 1 \in 1..Len(outbox')
      BY <2>1
    <3>. QED
      BY <2>1, <2>3, <3>1
  <2>. QED
    BY <1>3, <2>2, <2>3
<1>4. ASSUME NEW g \in Handles, IssueCall(g)
      PROVE  \E i \in 1..Len(outbox') : outbox'[i].type = "call" /\ outbox'[i].handle = h
  <2> DEFINE m == [type |-> "call", handle |-> g]
  <2>1. m \in OutboxMessages /\ outbox' = Append(outbox, m)
    BY <1>4 DEF IssueCall, OutboxMessages
  <2>2. g = h \/ call[h] = "sent"
    BY <1>0, <1>1, <1>4 DEF IssueCall, BusTypes
  <2>. QED
    BY <1>2, <1>3, <2>1, <2>2 DEF SentInv
<1>5. CASE SendClose
  <2>1. closing \in Closings /\ closes \in Nat
    BY <1>5 DEF SendClose, CallInv, SectionTypes, CloseTypes, NotClosing
  <2> DEFINE m == [type |-> "close", path |-> closing.path, attempt |-> closes]
  <2>2. m \in OutboxMessages /\ outbox' = Append(outbox, m)
    BY <1>5, <2>1 DEF SendClose, OutboxMessages, Closings
  <2>3. call[h] = "sent"
    BY <1>1, <1>5 DEF SendClose
  <2>. QED
    BY <1>2, <1>3, <2>2, <2>3 DEF SentInv
<1>6. ASSUME NEW type, Receiving(type), call[h] = "sent",
             ~(Head(outbox).type = "call" /\ Head(outbox).handle = h)
      PROVE  \E i \in 1..Len(outbox') : outbox'[i].type = "call" /\ outbox'[i].handle = h
  <2>1. PICK i \in 1..Len(outbox) : outbox[i].type = "call" /\ outbox[i].handle = h
    BY <1>2, <1>6 DEF SentInv, CallUnderWay
  <2>2. outbox # <<>> /\ outbox' = Tail(outbox)
    BY <1>6 DEF Receiving
  <2>3. /\ Head(outbox) = outbox[1] /\ Len(outbox') = Len(outbox) - 1 /\ Len(outbox) \in Nat
        /\ \A k \in 1..Len(outbox') : outbox'[k] = outbox[k + 1]
    BY <1>0, <2>2, TailIndices DEF BusTypes
  <2>4. i # 1
    BY <1>6, <2>1, <2>3
  <2>5. i - 1 \in 1..Len(outbox') /\ (i - 1) + 1 = i
    BY <2>3, <2>4
  <2>. QED
    BY <2>1, <2>3, <2>5
<1>7. CASE ReceiveCall
  <2>1. Head(outbox).handle \in Handles
    BY <1>0, <1>7, HeadUnreceived DEF ReceiveCall
  <2>2. Head(outbox).handle # h
    BY <1>0, <1>1, <1>7, <2>1 DEF ReceiveCall, ObjectTypes
  <2>3. call[h] = "sent" /\ Receiving("call")
    BY <1>1, <1>7 DEF ReceiveCall
  <2>. QED
    BY <1>6, <2>2, <2>3
<1>8. CASE RefuseCall
  <2>1. Head(outbox).handle \in Handles /\ Receiving("call")
        /\ Settle(Head(outbox).handle, Failed(Head(outbox).handle))
    BY <1>0, <1>8, HeadUnreceived DEF RefuseCall
  <2>2. call[h] = "sent"
    BY <1>0, <1>1, <2>1 DEF Settle, BusTypes
  <2>3. Head(outbox).handle # h
    BY <1>0, <1>1, <2>1, <2>2 DEF Settle, BusTypes
  <2>. QED
    BY <1>6, <2>1, <2>2, <2>3
<1>9. CASE ReceiveClose
  <2>1. Receiving("close") /\ Head(outbox).type = "close" /\ call[h] = "sent"
    BY <1>1, <1>9 DEF ReceiveClose, Receiving
  <2>. QED
    BY <1>6, <2>1
<1>10. CASE UNCHANGED outbox /\ call[h] = "sent"
  BY <1>2, <1>10 DEF SentInv, CallUnderWay
<1>11. call[h] = "queued" => \E g \in Handles : IssueCall(g)
  <2>1. SUFFICES ASSUME call[h] = "queued", \A g \in Handles : ~IssueCall(g) PROVE FALSE
    OBVIOUS
  <2>2. \A g, m : Settle(g, m) => call'[h] = call[h] \/ call'[h] = "settled"
    BY <1>0 DEF Settle, BusTypes
  <2>3. \A g : CallHandled(g) => call'[h] = call[h] \/ call'[h] = "done"
    BY <1>0 DEF CallHandled, BusTypes
  <2>4. \A g : BeginRequest(g) => call'[h] = call[h] \/ call'[h] = "queued"
    BY <1>0 DEF BeginRequest, BusTypes
  <2>5. MainThread => UNCHANGED call \/ \E g : BeginRequest(g)
    BY DEF MainThread, ResolveClose, SendClose, FinishClose, AbandonClose
  <2>6. WorkerThread => UNCHANGED call \/ \E g : CallHandled(g)
    BY <2>1 DEF WorkerThread, OnPortalAppeared, OnPortalVanished, FailPendingRequests,
           OnCallFailed, OnCallStarted, DeliverEarlyResponse, OnRequestResponse, HoldUnclaimed
  <2>7. Bus => UNCHANGED call \/ \E g, m : Settle(g, m)
    BY DEF Bus, CallTimesOut, BusReportsNoReply, Reply, ReceiveCall, RefuseCall, ReceiveClose
  <2>8. Portal => UNCHANGED call
    BY DEF Portal, Answer, PortalStarts, PortalVanishes, ForeignResponse
  <2>9. UNCHANGED sectionVars => UNCHANGED call
    BY DEF sectionVars
  <2>. QED
    BY <1>1, <2>1, <2>2, <2>3, <2>4, <2>5, <2>6, <2>7, <2>8, <2>9 DEF Section
<1>12. MainThread => UNCHANGED outbox \/ SendClose
  BY DEF MainThread, BeginRequest, ResolveClose, FinishClose, AbandonClose
<1>13. WorkerThread => UNCHANGED outbox \/ \E g \in Handles : IssueCall(g)
  BY DEF WorkerThread, OnPortalAppeared, OnPortalVanished, FailPendingRequests, OnCallFailed,
         OnCallStarted, DeliverEarlyResponse, OnRequestResponse, HoldUnclaimed
<1>14. Bus => UNCHANGED outbox \/ ReceiveCall \/ RefuseCall \/ ReceiveClose
  BY DEF Bus, CallTimesOut, BusReportsNoReply, Reply
<1>15. Portal => UNCHANGED outbox
  BY DEF Portal, Answer, PortalStarts, PortalVanishes, ForeignResponse
<1>16. UNCHANGED sectionVars => UNCHANGED outbox
  BY DEF sectionVars
<1>. QED
  BY <1>2, <1>4, <1>5, <1>7, <1>8, <1>9, <1>10, <1>11, <1>12, <1>13, <1>14, <1>15, <1>16 DEF Section

\* While a request is pending its path changes to its object's only, at the latest
\* when its call is over.
LEMMA PathFollowed ==
  ASSUME RouteInv, [Section]_sectionVars, NEW h \in Handles,
         requests[h].status = "pending", requests'[h].status = "pending"
  PROVE  /\ requests'[h].path = requests[h].path
            \/ (stage[h] # "none" /\ requests'[h].path = home[h])
         /\ call[h] # "done" /\ call'[h] = "done" =>
              stage[h] # "none" /\ requests'[h].path = home[h]
<1> USE DEF clientVars, requestVars, busVars
<1>0. /\ RouteTypes /\ CallInv /\ BusTypes /\ OutcomesSettled /\ MessagesInv /\ PathsInv
      /\ CloseTypes /\ worker \in WorkerStates
  BY DEF RouteInv, RouteTypes, CallInv, SectionTypes
<1> DEFINE Kept == requests'[h].path = requests[h].path
           Landed == call[h] # "done" /\ call'[h] = "done"
           Followed == stage[h] # "none" /\ requests'[h].path = home[h]
<1>1. \A g \in Handles : CallHandled(g) /\ g # h => ~Landed
  BY <1>0 DEF CallHandled, BusTypes
<1>2. ASSUME NEW g \in Handles, BeginRequest(g) PROVE Kept /\ ~Landed
  <2>1. g # h
    BY <1>0, <1>2 DEF BeginRequest, PathsInv
  <2>. QED
    BY <1>0, <1>2, <2>1 DEF BeginRequest, RouteTypes, RequestTypes, BusTypes
<1>3. ASSUME NEW g \in Handles, ForgetRequest(g) PROVE Kept /\ g # h
  <2>1. g # h
    BY <1>0, <1>3, ForgetRoutes DEF Tracked
  <2>. QED
    BY <1>0, <1>3, <2>1, ForgetRoutes
<1>4. CASE FinishClose
  <2>1. closing.handle \in Handles
    BY <1>0, <1>4 DEF FinishClose, CloseTypes, NotClosing, Closings
  <2>. QED
    BY <1>3, <1>4, <2>1 DEF FinishClose
<1>5. ~FailPendingRequests
  BY DEF FailPendingRequests, Absent
<1>6. CASE OnCallFailed
  <2>1. Head(inbox).handle \in Handles
    BY <1>0, <1>6, HandlingKeepsOutcomes DEF OnCallFailed
  <2>. QED
    BY <1>1, <1>3, <1>6, <2>1 DEF OnCallFailed, FailCall
<1>7. CASE OnCallStarted
  <2> DEFINE m == Head(inbox)
  <2>1. m = inbox[1] /\ 1 \in 1..Len(inbox) /\ m.type = "started"
    BY <1>0, <1>7, TailIndices DEF BusTypes, OnCallStarted, Dispatching
  <2>2. /\ m.handle \in Handles /\ stage[m.handle] # "none" /\ m.path = home[m.handle]
        /\ Remap(m.handle, home[m.handle]) /\ CallHandled(m.handle)
    BY <1>0, <1>7, <2>1, HandlingKeepsOutcomes DEF MessagesInv, Truthful, OnCallStarted
  <2>3. CASE m.handle # h
    BY <1>0, <1>1, <2>2, <2>3, RemapRoutes
  <2>4. CASE m.handle = h
    <3>1. requests'[h].path = home[h]
      BY <1>0, <2>2, <2>4 DEF Remap, RouteTypes, RequestTypes
    <3>. QED
      BY <2>2, <2>4, <3>1
  <2>. QED
    BY <2>3, <2>4
<1>8. ASSUME NEW path \in Paths, NEW code, DeliverResponse(path, code) PROVE Kept
  <2>1. \/ requests'[h] = requests[h]
        \/ requests'[h] = Absent(h)
        \/ requests'[h].path = requests[h].path
    BY <1>0, <1>8, DeliverRoutes
  <2>. QED
    BY <2>1 DEF Absent
<1>9. CASE DeliverEarlyResponse
  <2>1. worker.path \in Paths
    BY <1>0, <1>9, WorkerFields DEF DeliverEarlyResponse
  <2>. QED
    BY <1>8, <1>9, <2>1 DEF DeliverEarlyResponse
<1>10. CASE OnRequestResponse
  <2>1. Head(inbox).path \in Paths
    BY <1>0, <1>10, DispatchTypes, InboxFields DEF OnRequestResponse
  <2>. QED
    BY <1>8, <1>10, <2>1 DEF OnRequestResponse
<1>11. ASSUME NEW g, NEW m, Settle(g, m) PROVE ~Landed
  BY <1>0, <1>11 DEF Settle, BusTypes
<1>12. ASSUME NEW g \in Handles, IssueCall(g) PROVE Kept /\ ~Landed
  BY <1>0, <1>12 DEF IssueCall, BusTypes
<1>13. MainThread => (Kept /\ ~Landed) \/ FinishClose \/ \E g \in Handles : BeginRequest(g)
  BY DEF MainThread, ResolveClose, SendClose, AbandonClose
<1>14. WorkerThread =>
         \/ Kept /\ ~Landed
         \/ OnCallFailed \/ OnCallStarted \/ DeliverEarlyResponse \/ OnRequestResponse
  BY <1>5, <1>12 DEF WorkerThread, OnPortalAppeared, OnPortalVanished, HoldUnclaimed
<1>15. Bus => Kept /\ (UNCHANGED call \/ \E g, m : Settle(g, m))
  BY DEF Bus, CallTimesOut, BusReportsNoReply, Reply, ReceiveCall, RefuseCall, ReceiveClose
<1>16. Portal => Kept /\ ~Landed
  BY DEF Portal, Answer, PortalStarts, PortalVanishes, ForeignResponse
<1>17. UNCHANGED sectionVars => Kept /\ ~Landed
  BY DEF sectionVars
<1>. QED
  BY <1>2, <1>4, <1>6, <1>7, <1>9, <1>10, <1>11, <1>13, <1>14, <1>15, <1>16, <1>17 DEF Section

LEMMA NextFollowed ==
  ASSUME RouteInv, FollowedInv, [Section]_sectionVars
  PROVE  FollowedInv'
<1>0. Persistent /\ \A h \in Handles : CallStep(h)
  BY NextPersistent, NextCall DEF RouteInv
<1>1. SUFFICES ASSUME NEW h \in Handles, requests'[h].status = "pending", call'[h] = "done"
               PROVE  stage'[h] # "none" /\ requests'[h].path = home'[h]
  BY DEF FollowedInv
<1>2. requests[h].status = "pending"
  BY <1>0, <1>1, TrackedBefore DEF CallStep
<1>3. stage[h] # "none" /\ requests'[h].path = home[h]
  BY <1>0, <1>1, <1>2, PathFollowed DEF FollowedInv
<1>. QED
  BY <1>0, <1>3 DEF Persistent

-----------------------------------------------------------------------------
(* A Close that is not given up is answered to the close_request() that    *)
(* sent it.                                                                *)

AwaitedCloses ==
  /\ \A i \in 1..Len(outbox) : outbox[i].type = "close" =>
       closing.stage = "sent" /\ outbox[i].attempt = closes
  /\ \A i, j \in 1..Len(outbox) : outbox[i].type = "close" /\ outbox[j].type = "close" => i = j

\* An object was closed for the request that is about to be forgotten.
ClosedInv ==
  \A h \in Handles : requests[h].status = "pending" /\ stage[h] = "closed" =>
    closing.handle = h /\ closing.stage = "ok"

LEMMA TailShorter == ASSUME NEW S, NEW s \in Seq(S), s # <<>> PROVE Tail(s) # s
<1>1. \A n \in Nat : n - 1 # n
  OBVIOUS
<1>2. Len(Tail(s)) = Len(s) - 1 /\ Len(s) \in Nat
  BY TailIndices
<1>3. Len(Tail(s)) # Len(s)
  BY <1>1, <1>2, Zenon
<1>. QED
  BY <1>3, Zenon

LEMMA ClosingSteps ==
  ASSUME [Section]_sectionVars
  PROVE  \/ UNCHANGED <<closing, closes>>
         \/ SendClose \/ FinishClose \/ AbandonClose \/ ReceiveClose
         \/ \E h : ResolveClose(h)
<1> USE DEF closeVars
<1>1. MainThread =>
        \/ UNCHANGED <<closing, closes>>
        \/ SendClose \/ FinishClose \/ AbandonClose \/ \E h : ResolveClose(h)
  BY DEF MainThread, BeginRequest
<1>2. WorkerThread => UNCHANGED <<closing, closes>>
  BY DEF WorkerThread, IssueCall, OnPortalAppeared, OnPortalVanished, FailPendingRequests,
         OnCallFailed, OnCallStarted, DeliverEarlyResponse, OnRequestResponse, HoldUnclaimed
<1>3. Bus => UNCHANGED <<closing, closes>> \/ ReceiveClose
  BY DEF Bus, CallTimesOut, BusReportsNoReply, Reply, ReceiveCall, RefuseCall
<1>4. Portal => UNCHANGED <<closing, closes>>
  BY DEF Portal, Answer, PortalStarts, PortalVanishes, ForeignResponse
<1>5. UNCHANGED sectionVars => UNCHANGED <<closing, closes>>
  BY DEF sectionVars
<1>. QED
  BY <1>1, <1>2, <1>3, <1>4, <1>5 DEF Section

\* Without time-outs, close_request() goes on to send, to receive and to return.
LEMMA NextWait ==
  ASSUME "close" \notin TimeOuts, [Section]_sectionVars
  PROVE  \/ UNCHANGED <<closing, closes>>
         \/ closing.stage = "idle" /\ UNCHANGED outbox
         \/ closing.stage \in {"ok", "rejected"} /\ closing' = NotClosing /\ UNCHANGED outbox
         \/ SendClose
         \/ ReceiveClose
<1> USE DEF closeVars, busVars
<1>1. \A h : ResolveClose(h) => closing.stage = "idle" /\ UNCHANGED outbox
  BY DEF ResolveClose, NotClosing
<1>2. FinishClose => closing.stage = "ok" /\ closing' = NotClosing /\ UNCHANGED outbox
  BY DEF FinishClose
<1>3. AbandonClose => closing.stage = "rejected" /\ closing' = NotClosing /\ UNCHANGED outbox
  BY DEF AbandonClose
<1>. QED
  BY <1>1, <1>2, <1>3, ClosingSteps

\* Calls are sent and received around a Close, which keeps its place among them.
LEMMA OutboxSteps ==
  ASSUME CallInv, [Section]_sectionVars
  PROVE  \/ UNCHANGED outbox
         \/ SendClose
         \/ ReceiveClose
         \/ Receiving("call") /\ UNCHANGED <<closing, closes>>
         \/ \E h \in Handles : outbox' = Append(outbox, [type |-> "call", handle |-> h])
               /\ UNCHANGED <<closing, closes>>
<1> USE DEF closeVars, busVars
<1>1. MainThread => UNCHANGED outbox \/ SendClose
  BY DEF MainThread, BeginRequest, ResolveClose, FinishClose, AbandonClose
<1>2. ASSUME NEW h \in Handles, IssueCall(h)
      PROVE  outbox' = Append(outbox, [type |-> "call", handle |-> h]) /\ UNCHANGED <<closing, closes>>
  BY <1>2 DEF IssueCall
<1>3. WorkerThread => UNCHANGED outbox \/ \E h \in Handles : IssueCall(h)
  BY DEF WorkerThread, OnPortalAppeared, OnPortalVanished, FailPendingRequests, OnCallFailed,
         OnCallStarted, DeliverEarlyResponse, OnRequestResponse, HoldUnclaimed
<1>4. Bus => \/ UNCHANGED outbox \/ ReceiveClose
             \/ Receiving("call") /\ UNCHANGED <<closing, closes>>
  BY DEF Bus, CallTimesOut, BusReportsNoReply, Reply, ReceiveCall, RefuseCall
<1>5. Portal => UNCHANGED outbox
  BY DEF Portal, Answer, PortalStarts, PortalVanishes, ForeignResponse
<1>6. UNCHANGED sectionVars => UNCHANGED outbox
  BY DEF sectionVars
<1>. QED
  BY <1>1, <1>2, <1>3, <1>4, <1>5, <1>6 DEF Section

LEMMA NextAwaitedCloses ==
  ASSUME "close" \notin TimeOuts, CallInv, AwaitedCloses, [Section]_sectionVars
  PROVE  AwaitedCloses'
<1>0. BusTypes /\ CloseTypes
  BY DEF CallInv, SectionTypes
<1>1. CASE UNCHANGED outbox /\ ~SendClose /\ ~ReceiveClose
  <2>1. UNCHANGED <<closing, closes>> \/ closing.stage # "sent"
    BY <1>1, NextWait
  <2>. QED
    BY <1>1, <2>1 DEF AwaitedCloses
<1>2. CASE SendClose
  <2> DEFINE m == [type |-> "close", path |-> closing.path, attempt |-> closes]
  <2>1. closing \in Closings /\ closing.stage = "resolved"
    BY <1>0, <1>2 DEF CloseTypes, SendClose, NotClosing
  <2>2. m \in OutboxMessages /\ outbox' = Append(outbox, m)
    BY <1>0, <1>2, <2>1 DEF CloseTypes, Closings, OutboxMessages, SendClose
  <2>3. /\ Len(outbox') = Len(outbox) + 1 /\ Len(outbox) \in Nat
        /\ \A i \in 1..Len(outbox) : outbox'[i] = outbox[i]
        /\ outbox'[Len(outbox) + 1] = m
    BY <1>0, <2>2, AppendIndices DEF BusTypes
  <2>4. \A i \in 1..Len(outbox) : outbox[i].type # "close"
    BY <2>1 DEF AwaitedCloses
  <2>5. \A i \in 1..Len(outbox') : outbox'[i].type = "close" => i = Len(outbox) + 1
    BY <2>3, <2>4
  <2>6. closing'.stage = "sent" /\ closes' = closes
    BY <1>2 DEF SendClose, ClosingNow
  <2>. QED
    BY <2>3, <2>5, <2>6 DEF AwaitedCloses
<1>3. ASSUME NEW type, Receiving(type)
      PROVE  \A i \in 1..Len(outbox') : i + 1 \in 1..Len(outbox) /\ outbox'[i] = outbox[i + 1]
  BY <1>0, <1>3, ReceivingTail
<1>4. CASE ReceiveClose
  <2>1. Head(outbox) = outbox[1] /\ Head(outbox).type = "close" /\ 1 \in 1..Len(outbox)
    BY <1>0, <1>4, ReceivingTail DEF ReceiveClose
  <2>2. ASSUME NEW i \in 1..Len(outbox') PROVE outbox'[i].type # "close"
    <3>1. i + 1 \in 1..Len(outbox) /\ outbox'[i] = outbox[i + 1] /\ i + 1 # 1
      BY <1>3, <1>4 DEF ReceiveClose
    <3>. QED
      BY <2>1, <3>1 DEF AwaitedCloses
  <2>. QED
    BY <2>2 DEF AwaitedCloses
<1>5. CASE Receiving("call") /\ UNCHANGED <<closing, closes>>
  <2>1. \A i \in 1..Len(outbox') : i + 1 \in 1..Len(outbox) /\ outbox'[i] = outbox[i + 1]
    BY <1>3, <1>5
  <2>2. ASSUME NEW i \in 1..Len(outbox'), NEW j \in 1..Len(outbox'),
               outbox'[i].type = "close", outbox'[j].type = "close"
        PROVE  i = j
    <3>1. i + 1 = j + 1
      BY <2>1, <2>2 DEF AwaitedCloses
    <3>. QED
      BY <3>1
  <2>. QED
    BY <1>5, <2>1, <2>2 DEF AwaitedCloses
<1>6. ASSUME NEW h \in Handles, outbox' = Append(outbox, [type |-> "call", handle |-> h]),
             UNCHANGED <<closing, closes>>
      PROVE  AwaitedCloses'
  <2> DEFINE m == [type |-> "call", handle |-> h]
  <2>1. m \in OutboxMessages
    BY DEF OutboxMessages
  <2>2. /\ Len(outbox') = Len(outbox) + 1 /\ Len(outbox) \in Nat
        /\ \A i \in 1..Len(outbox) : outbox'[i] = outbox[i]
        /\ outbox'[Len(outbox) + 1] = m
    BY <1>0, <1>6, <2>1, AppendIndices DEF BusTypes
  <2>3. \A i \in 1..Len(outbox') :
          outbox'[i].type = "close" => i \in 1..Len(outbox) /\ outbox'[i] = outbox[i]
    BY <2>2
  <2>. QED
    BY <1>6, <2>3 DEF AwaitedCloses
<1>. QED
  BY <1>1, <1>2, <1>4, <1>5, <1>6, OutboxSteps

\* The portal carries out a Close, of a pending request, that close_request() has
\* given up waiting for.
LateClose ==
  /\ ReceiveClose
  /\ ~(closing.stage = "sent" /\ Head(outbox).attempt = closes)
  /\ \E h \in Handles : /\ requests[h].status = "pending"
                        /\ Live(h) /\ home[h] = Head(outbox).path

\* A Close that is not given up is never late.
LEMMA AwaitedNeverLate == ASSUME BusTypes, AwaitedCloses PROVE ~LateClose
<1>1. Receiving("close") =>
        /\ 1 \in 1..Len(outbox) /\ Head(outbox) = outbox[1] /\ outbox[1].type = "close"
  BY ReceivingTail
<1>. QED
  BY <1>1 DEF AwaitedCloses, LateClose, ReceiveClose

LEMMA NextClosed ==
  ASSUME RouteInv, CloseInv, ClosedInv, ~LateClose, [Section]_sectionVars
  PROVE  ClosedInv'
<1>0. /\ CallInv /\ OutboxInv /\ HomesInv /\ BusTypes /\ CloseTypes /\ RequestTypes /\ ObjectTypes
      /\ \A h \in Handles : CallStep(h)
  BY NextCall DEF RouteInv, CallInv, SectionTypes
<1>1. SUFFICES ASSUME NEW h \in Handles, requests'[h].status = "pending", stage'[h] = "closed"
               PROVE  closing'.handle = h /\ closing'.stage = "ok"
  BY DEF ClosedInv
<1>2. CASE stage[h] = "closed"
  <2>1. call[h] # "idle"
    BY <1>0, <1>2 DEF OutboxInv
  <2>2. closing.handle = h /\ closing.stage = "ok"
    BY <1>1, <1>2, <2>1, TrackedBefore DEF ClosedInv
  <2>3. ~FinishClose
    <3>1. FinishClose => requests'[h].status = "absent"
      BY <1>0, <2>2, ForgetStatus DEF FinishClose
    <3>. QED
      BY <1>1, <3>1
  <2>4. ~AbandonClose /\ ~SendClose /\ \A g : ~ResolveClose(g)
    BY <2>2 DEF AbandonClose, SendClose, ResolveClose, NotClosing
  <2>5. ReceiveClose => UNCHANGED closing
    BY <2>2 DEF ReceiveClose, SettleClose
  <2>6. UNCHANGED closing
    BY <2>3, <2>4, <2>5, ClosingSteps
  <2>. QED
    BY <2>2, <2>6
<1>3. CASE stage[h] # "closed"
  <2>1. ReceiveClose /\ Live(h)
    <3>1. ASSUME NEW code \in Answers, Answer(h, code) PROVE stage'[h] \in {"held", "answered"}
      BY <1>0, <3>1 DEF Answer, ObjectTypes
    <3>. QED
      BY <1>0, <1>1, <1>3, <3>1, StageStep
  <2>2. requests[h].status = "pending" /\ home[h] = Head(outbox).path
    BY <1>1, <1>3, <2>1 DEF ReceiveClose, clientVars, requestVars
  <2>3. closing.stage = "sent" /\ Head(outbox).attempt = closes
    BY <2>1, <2>2 DEF LateClose
  <2>4. SettleClose(Head(outbox).attempt, "ok")
    BY <1>1, <1>3, <2>1 DEF ReceiveClose
  <2>5. closing' = ClosingNow("ok")
    BY <2>3, <2>4 DEF SettleClose
  <2>6. h = closing.handle
    BY <1>0, <1>1, <1>3, <2>1, <2>3, <2>5, CloseEnds
  <2>. QED
    BY <2>5, <2>6 DEF ClosingNow
<1>. QED
  BY <1>2, <1>3

-----------------------------------------------------------------------------
(* A Response is kept until the request it belongs to can take it.         *)

\* What the worker has in hand: a Response that was claimed is for a call that is
\* over, one that was not is for a call that could claim it.
HandInv ==
  \A h \in Handles :
    worker.step \in {"hold", "deliver"} /\ worker.path = home[h] /\ stage[h] # "none" =>
      /\ worker.step = "deliver" => call[h] = "done"
      /\ worker.step = "hold" /\ requests[h].status = "pending" => InFlight(h)

\* The Response of a pending request is queued, in hand, or held for its call.
AwaitInv ==
  \A h \in Handles : requests[h].status = "pending" /\ stage[h] \in {"held", "answered"} =>
    \/ \E i \in 1..Len(inbox) : inbox[i].type = "response" /\ inbox[i].path = home[h]
    \/ worker.step \in {"hold", "deliver"} /\ worker.path = home[h]
    \/ InFlight(h) /\ \E i \in 1..Len(unclaimed_responses) : unclaimed_responses[i].path = home[h]

\* A Response is held at the cost of one that a call could still claim.
Overflow ==
  /\ HoldUnclaimed
  /\ calls_in_flight # 0 /\ Len(unclaimed_responses) >= MaxUnclaimed
  /\ \E h \in Handles : /\ InFlight(h) /\ stage[h] # "none"
                        /\ Head(unclaimed_responses).path = home[h]

\* How the worker comes to have a Response in hand, and to lose it.
LEMMA WorkerMoves ==
  ASSUME [Section]_sectionVars
  PROVE  /\ worker'.step \in {"hold", "deliver"} =>
              UNCHANGED worker \/ OnCallStarted \/ OnRequestResponse
         /\ worker.step \in {"hold", "deliver"} =>
              UNCHANGED worker \/ DeliverEarlyResponse \/ HoldUnclaimed
<1>1. MainThread => UNCHANGED worker
  BY DEF MainThread, BeginRequest, ResolveClose, SendClose, FinishClose, AbandonClose
<1>2. Bus => UNCHANGED worker
  BY DEF Bus, CallTimesOut, BusReportsNoReply, Reply, ReceiveCall, RefuseCall, ReceiveClose
<1>3. Portal => UNCHANGED worker
  BY DEF Portal, Answer, PortalStarts, PortalVanishes, ForeignResponse
<1>4. UNCHANGED sectionVars => UNCHANGED worker
  BY DEF sectionVars
<1>5. OnPortalAppeared \/ OnPortalVanished => worker'.step \notin {"hold", "deliver"}
  BY DEF OnPortalAppeared, OnPortalVanished, Idle
<1>6. FailPendingRequests \/ DeliverEarlyResponse \/ HoldUnclaimed => worker'.step \notin {"hold", "deliver"}
  BY DEF FailPendingRequests, DeliverEarlyResponse, HoldUnclaimed, Idle
<1>7. OnPortalAppeared \/ OnPortalVanished \/ OnCallFailed \/ OnCallStarted \/ OnRequestResponse
        => worker.step = "idle"
  BY DEF OnPortalAppeared, OnPortalVanished, OnCallFailed, OnCallStarted, OnRequestResponse,
         Dispatching, Idle
<1>8. WorkerThread =>
        \/ UNCHANGED worker \/ OnPortalAppeared \/ OnPortalVanished \/ OnCallStarted
        \/ OnRequestResponse \/ FailPendingRequests \/ DeliverEarlyResponse \/ HoldUnclaimed
  BY DEF WorkerThread, IssueCall, OnCallFailed
<1>9. FailPendingRequests => worker.step = "fail"
  BY DEF FailPendingRequests
<1>. QED
  BY <1>1, <1>2, <1>3, <1>4, <1>5, <1>6, <1>7, <1>8, <1>9 DEF Section

\* A call in flight stays so until its outcome is handled.
LEMMA StaysInFlight ==
  ASSUME CallInv, [Section]_sectionVars, NEW h \in Handles, InFlight(h)
  PROVE  \/ InFlight(h)'
         \/ OnCallStarted /\ Head(inbox).handle = h
         \/ OnCallFailed /\ Head(inbox).handle = h
<1> USE DEF busVars
<1>0. BusTypes
  BY DEF CallInv, SectionTypes
<1>1. CASE UNCHANGED call
  BY <1>1 DEF InFlight
<1>2. ASSUME NEW g \in Handles, BeginRequest(g) \/ IssueCall(g) PROVE InFlight(h)'
  BY <1>0, <1>2 DEF BeginRequest, IssueCall, BusTypes, InFlight
<1>3. ASSUME NEW g, NEW m, Settle(g, m) PROVE InFlight(h)'
  BY <1>0, <1>3 DEF Settle, BusTypes, InFlight
<1>4. ASSUME NEW g, CallHandled(g) PROVE g = h \/ InFlight(h)'
  BY <1>0, <1>4 DEF CallHandled, BusTypes, InFlight
<1>5. MainThread => UNCHANGED call \/ \E g \in Handles : BeginRequest(g)
  BY DEF MainThread, ResolveClose, SendClose, FinishClose, AbandonClose
<1>6. WorkerThread =>
        \/ UNCHANGED call \/ OnCallFailed \/ OnCallStarted
        \/ \E g \in Handles : IssueCall(g)
  BY DEF WorkerThread, OnPortalAppeared, OnPortalVanished, FailPendingRequests,
         DeliverEarlyResponse, OnRequestResponse, HoldUnclaimed
<1>7. OnCallFailed \/ OnCallStarted => CallHandled(Head(inbox).handle)
  BY DEF OnCallFailed, OnCallStarted
<1>8. Bus => UNCHANGED call \/ \E g, m : Settle(g, m)
  BY DEF Bus, CallTimesOut, BusReportsNoReply, Reply, ReceiveCall, RefuseCall, ReceiveClose
<1>9. Portal => UNCHANGED call
  BY DEF Portal, Answer, PortalStarts, PortalVanishes, ForeignResponse
<1>10. UNCHANGED sectionVars => UNCHANGED call
  BY DEF sectionVars
<1>. QED
  BY <1>1, <1>2, <1>3, <1>4, <1>5, <1>6, <1>7, <1>8, <1>9, <1>10 DEF Section

LEMMA NextHand ==
  ASSUME RouteInv, FollowedInv, HandInv, [Section]_sectionVars
  PROVE  HandInv'
<1>0. /\ CallInv /\ BusTypes /\ OutboxInv /\ HomesInv /\ MessagesInv /\ RoutesMatchRequests
      /\ Persistent
      /\ \A h \in Handles : CallStep(h)
  BY NextPersistent, NextCall DEF RouteInv, CallInv, SectionTypes
<1>1. SUFFICES ASSUME NEW h \in Handles, worker'.step \in {"hold", "deliver"},
                      worker'.path = home'[h], stage'[h] # "none"
               PROVE  /\ worker'.step = "deliver" => call'[h] = "done"
                      /\ worker'.step = "hold" /\ requests'[h].status = "pending" => InFlight(h)'
  BY DEF HandInv
<1>2. CASE UNCHANGED worker
  <2>1. stage[h] # "none"
    <3>1. Genuine(worker.path, worker.code)
      BY <1>0, <1>1, <1>2 DEF MessagesInv
    <3>. QED
      BY <1>1, <1>2, <3>1, FreshHome
  <2>2. worker.path = home[h]
    BY <1>0, <1>1, <1>2, <2>1 DEF Persistent
  <2>3. call[h] = "done" => call'[h] = "done"
    BY <1>0 DEF CallStep
  <2>4. ASSUME worker'.step = "hold", requests'[h].status = "pending" PROVE InFlight(h)'
    <3>1. call[h] # "idle"
      BY <1>0, <2>1 DEF OutboxInv
    <3>2. requests[h].status = "pending"
      BY <2>4, <3>1, TrackedBefore
    <3>3. InFlight(h)
      BY <1>1, <1>2, <2>1, <2>2, <2>4, <3>2 DEF HandInv
    <3>4. ~OnCallStarted /\ ~OnCallFailed
      BY <1>1, <1>2 DEF OnCallStarted, OnCallFailed, Dispatching, Idle
    <3>. QED
      BY <1>0, <3>3, <3>4, StaysInFlight
  <2>. QED
    BY <1>1, <1>2, <2>1, <2>2, <2>3, <2>4 DEF HandInv
<1>3. CASE OnCallStarted
  <2> DEFINE m == Head(inbox)
  <2>1. m = inbox[1] /\ 1 \in 1..Len(inbox) /\ m.type = "started"
    BY <1>0, <1>3, TailIndices DEF BusTypes, OnCallStarted, Dispatching
  <2>2. m.handle \in Handles /\ stage[m.handle] # "none" /\ m.path = home[m.handle]
    BY <1>0, <1>3, <2>1, HandlingKeepsOutcomes DEF CallInv, MessagesInv, Truthful, OnCallStarted
  <2>3. UNCHANGED <<stage, home>>
    BY <1>3 DEF OnCallStarted, portalVars, objectVars
  <2>4. worker'.step = "deliver" /\ worker'.path = m.path
    BY <1>1, <1>3 DEF OnCallStarted, ClaimEarlyResponse, Idle
  <2>5. m.handle = h
    BY <1>0, <1>1, <2>2, <2>3, <2>4 DEF HomesInv
  <2>6. call'[h] = "done"
    BY <1>0, <1>3, <2>5 DEF OnCallStarted, CallHandled, BusTypes
  <2>. QED
    BY <2>4, <2>6
<1>4. CASE OnRequestResponse
  <2> DEFINE m == Head(inbox)
  <2>1. UNCHANGED <<stage, home, call>>
    BY <1>4 DEF OnRequestResponse, portalVars, objectVars
  <2>2. request_paths[m.path] = None /\ worker'.step = "hold" /\ worker'.path = m.path
    BY <1>1, <1>4 DEF OnRequestResponse, Idle
  <2>3. UNCHANGED requests
    BY <1>4, <2>2 DEF OnRequestResponse, DeliverResponse, requestVars
  <2>4. ASSUME requests'[h].status = "pending" PROVE InFlight(h)
    <3>1. call[h] # "done"
      <4>1. SUFFICES ASSUME call[h] = "done" PROVE FALSE
        OBVIOUS
      <4>2. requests[h].path = home[h] /\ home[h] \in Paths
        BY <1>0, <2>3, <2>4, <4>1 DEF FollowedInv, HomesInv, Paths
      <4>3. request_paths[home[h]] = h
        BY <1>0, <2>3, <2>4, <4>2 DEF RoutesMatchRequests, Tracked
      <4>. QED
        BY <1>1, <2>1, <2>2, <4>3, HandlesAssumption
    <3>2. call[h] # "idle"
      BY <1>0, <1>1, <2>1 DEF OutboxInv
    <3>. QED
      BY <1>0, <3>1, <3>2 DEF BusTypes, CallStates, InFlight
  <2>. QED
    BY <2>1, <2>2, <2>4 DEF InFlight
<1>. QED
  BY <1>1, <1>2, <1>3, <1>4, WorkerMoves

\* Without an element, a sequence keeps the others.
LEMMA SubSeqKeeps ==
  ASSUME NEW S, NEW s \in Seq(S), NEW i \in 1..Len(s)
  PROVE  /\ Len(SubSeq(s, 1, i - 1) \o SubSeq(s, i + 1, Len(s))) = Len(s) - 1
         /\ \A j \in 1..Len(s) : j # i =>
              \E k \in 1..Len(SubSeq(s, 1, i - 1) \o SubSeq(s, i + 1, Len(s))) :
                (SubSeq(s, 1, i - 1) \o SubSeq(s, i + 1, Len(s)))[k] = s[j]
<1>1. /\ Len(s) \in Nat /\ i \in Nat /\ 1 <= i /\ i <= Len(s)
      /\ 1 \in Int /\ i - 1 \in Int /\ i + 1 \in Int /\ Len(s) \in Int
      /\ \A j \in 1..(i - 1) : s[j] \in S
      /\ \A j \in (i + 1)..Len(s) : s[j] \in S
  OBVIOUS
<1>2. ASSUME NEW c, c = SubSeq(s, 1, i - 1) \o SubSeq(s, i + 1, Len(s))
      PROVE  /\ Len(c) = Len(s) - 1
             /\ \A j \in 1..Len(s) : j # i => \E k \in 1..Len(c) : c[k] = s[j]
  <2>6. PICK a : a = SubSeq(s, 1, i - 1)
    OBVIOUS
  <2>7. PICK b : b = SubSeq(s, i + 1, Len(s))
    OBVIOUS
  <2>1. /\ a \in Seq(S)
        /\ Len(a) = IF 1 <= i - 1 THEN (i - 1) - 1 + 1 ELSE 0
        /\ \A k \in 1..((i - 1) - 1 + 1) : a[k] = s[1 + k - 1]
    BY <1>1, <2>6, SubSeqProperties
  <2>2. /\ b \in Seq(S)
        /\ Len(b) = IF i + 1 <= Len(s) THEN Len(s) - (i + 1) + 1 ELSE 0
        /\ \A k \in 1..(Len(s) - (i + 1) + 1) : b[k] = s[(i + 1) + k - 1]
    BY <1>1, <2>7, SubSeqProperties
  <2>3. /\ Len(c) = Len(a) + Len(b)
        /\ \A k \in 1..(Len(a) + Len(b)) : c[k] = IF k <= Len(a) THEN a[k] ELSE b[k - Len(a)]
    <3>1. /\ Len(a \o b) = Len(a) + Len(b)
          /\ \A k \in 1..(Len(a) + Len(b)) :
               (a \o b)[k] = IF k <= Len(a) THEN a[k] ELSE b[k - Len(a)]
      BY <2>1, <2>2, ConcatProperties
    <3>. QED
      BY <1>2, <2>6, <2>7, <3>1
  <2>4. Len(a) = i - 1 /\ Len(b) = Len(s) - i
    BY <1>1, <2>1, <2>2
  <2>5. ASSUME NEW j \in 1..Len(s), j # i PROVE \E k \in 1..Len(c) : c[k] = s[j]
    <3>1. CASE j < i
      <4>1. j \in 1..(i - 1) /\ j <= Len(a) /\ j \in 1..Len(c) /\ 1 + j - 1 = j
        BY <1>1, <2>3, <2>4, <2>5, <3>1
      <4>2. a[j] = s[j]
        BY <2>1, <4>1
      <4>. QED
        BY <2>3, <4>1, <4>2
    <3>2. CASE j > i
      <4>1. /\ j - i \in 1..(Len(s) - (i + 1) + 1)
            /\ (i + 1) + (j - i) - 1 = j
            /\ j - 1 \in 1..Len(c) /\ ~(j - 1 <= Len(a)) /\ (j - 1) - Len(a) = j - i
        BY <1>1, <2>3, <2>4, <2>5, <3>2
      <4>2. b[j - i] = s[j]
        BY <2>2, <4>1
      <4>3. c[j - 1] = s[j]
        BY <2>3, <4>1, <4>2
      <4>. QED
        BY <4>1, <4>3
    <3>. QED
      BY <1>1, <2>5, <3>1, <3>2
  <2>. QED
    BY <1>1, <2>3, <2>4, <2>5
<1>. QED
  BY <1>2

\* How the Responses that nobody claimed may change.
LEMMA UnclaimedSteps ==
  ASSUME [Section]_sectionVars
  PROVE  \/ UNCHANGED unclaimed_responses
         \/ HoldUnclaimed \/ OnCallStarted \/ OnCallFailed \/ FailPendingRequests
<1> USE DEF clientVars, flightVars
<1>1. MainThread => UNCHANGED unclaimed_responses
  BY DEF MainThread, BeginRequest, ResolveClose, SendClose, FinishClose, AbandonClose
<1>2. WorkerThread =>
        \/ UNCHANGED unclaimed_responses
        \/ HoldUnclaimed \/ OnCallStarted \/ OnCallFailed \/ FailPendingRequests
  BY DEF WorkerThread, IssueCall, OnPortalAppeared, OnPortalVanished, DeliverEarlyResponse,
         OnRequestResponse
<1>3. Bus => UNCHANGED unclaimed_responses
  BY DEF Bus, CallTimesOut, BusReportsNoReply, Reply, ReceiveCall, RefuseCall, ReceiveClose
<1>4. Portal => UNCHANGED unclaimed_responses
  BY DEF Portal, Answer, PortalStarts, PortalVanishes, ForeignResponse
<1>5. UNCHANGED sectionVars => UNCHANGED unclaimed_responses
  BY DEF sectionVars
<1>. QED
  BY <1>1, <1>2, <1>3, <1>4, <1>5 DEF Section

\* A Response that is held for a call stays held, unless the call is over or it overflows.
HeldOn(path) == \E i \in 1..Len(unclaimed_responses) : unclaimed_responses[i].path = path

LEMMA StaysHeld ==
  ASSUME RouteInv, ~Overflow, [Section]_sectionVars, NEW h \in Handles, stage[h] # "none",
         InFlight(h), HeldOn(home[h])
  PROVE  \/ InFlight(h)' /\ \E k \in 1..Len(unclaimed_responses') :
                              unclaimed_responses'[k].path = home[h]
         \/ worker'.step = "deliver" /\ worker'.path = home[h]
         \/ requests'[h].status = "absent"
<1> DEFINE Kept == \E k \in 1..Len(unclaimed_responses') : unclaimed_responses'[k].path = home[h]
<1>0. /\ CallInv /\ BusTypes /\ HomesInv /\ MessagesInv /\ FlightTypes /\ RequestTypes
      /\ unclaimed_responses \in Seq(Responses) /\ Len(unclaimed_responses) \in Nat
      /\ DOMAIN unclaimed_responses = 1..Len(unclaimed_responses)
  BY DEF RouteInv, CallInv, SectionTypes, FlightTypes
<1>1. PICK i \in 1..Len(unclaimed_responses) : unclaimed_responses[i].path = home[h]
  BY DEF HeldOn
<1>2. CASE UNCHANGED unclaimed_responses /\ ~OnCallStarted /\ ~OnCallFailed
  BY <1>0, <1>1, <1>2, StaysInFlight
<1>3. ASSUME InFlight(h)' PROVE calls_in_flight' # 0
  <2>1. InFlightExact'
    BY <1>0, NextCalls DEF CallInv
  <2>2. Flying' = {g \in Handles : InFlight(g)'} /\ Flying' \in SUBSET Handles
    BY DEF Flying
  <2>3. h \in Flying' /\ IsFiniteSet(Flying')
    BY <1>3, <2>2, HandlesAssumption, FS_Subset
  <2>4. Cardinality(Flying') # 0
    BY <2>3, FS_EmptySet
  <2>. QED
    BY <2>1, <2>2, <2>4 DEF InFlightExact
<1>4. CASE HoldUnclaimed
  <2> DEFINE r == [path |-> worker.path, code |-> worker.code]
  <2>1. InFlight(h)'
    BY <1>0, <1>4, StaysInFlight DEF HoldUnclaimed, OnCallStarted, OnCallFailed, Dispatching, Idle
  <2>2. UNCHANGED calls_in_flight
    BY <1>4 DEF HoldUnclaimed
  <2>3. r \in Responses
    BY <1>0, <1>4, WorkerFields DEF HoldUnclaimed, Responses, CallInv, SectionTypes
  <2>4. ASSUME NEW room \in Seq(Responses), unclaimed_responses' = Append(room, r),
               NEW k \in 1..Len(room), room[k].path = home[h]
        PROVE  Kept
    <3>1. k \in 1..Len(Append(room, r)) /\ Append(room, r)[k] = room[k]
      BY <2>3, <2>4, AppendIndices
    <3>. QED
      BY <2>4, <3>1
  <2>5. CASE ~(Len(unclaimed_responses) >= MaxUnclaimed)
    <3>1. unclaimed_responses' = Append(unclaimed_responses, r)
      BY <1>3, <1>4, <2>1, <2>2, <2>5 DEF HoldUnclaimed
    <3>. QED
      BY <1>0, <1>1, <2>1, <2>4, <3>1
  <2>6. CASE Len(unclaimed_responses) >= MaxUnclaimed
    <3>1. unclaimed_responses # <<>>
      BY <1>1
    <3>2. /\ Tail(unclaimed_responses) \in Seq(Responses)
          /\ Len(Tail(unclaimed_responses)) = Len(unclaimed_responses) - 1
          /\ Head(unclaimed_responses) = unclaimed_responses[1]
          /\ \A k \in 1..Len(Tail(unclaimed_responses)) :
               Tail(unclaimed_responses)[k] = unclaimed_responses[k + 1]
      BY <1>0, <3>1, TailIndices
    <3>3. i # 1
      BY <1>1, <1>3, <1>4, <2>1, <2>2, <2>6, <3>2 DEF Overflow
    <3>4. i - 1 \in 1..Len(Tail(unclaimed_responses)) /\ (i - 1) + 1 = i
      BY <1>0, <3>2, <3>3
    <3>5. unclaimed_responses' = Append(Tail(unclaimed_responses), r)
      BY <1>3, <1>4, <2>1, <2>2, <2>6 DEF HoldUnclaimed
    <3>6. Tail(unclaimed_responses)[i - 1].path = home[h]
      BY <1>1, <3>2, <3>4
    <3>. QED
      BY <2>1, <2>4, <3>2, <3>4, <3>5, <3>6
  <2>. QED
    BY <2>5, <2>6
<1>5. CASE OnCallFailed
  <2>1. CASE Head(inbox).handle = h
    BY <1>0, <1>5, <2>1, ForgetStatus DEF OnCallFailed, FailCall
  <2>2. CASE Head(inbox).handle # h
    <3>1. ~OnCallStarted
      BY <1>5 DEF OnCallStarted, OnCallFailed, Dispatching
    <3>2. InFlight(h)'
      BY <1>0, <2>2, <3>1, StaysInFlight
    <3>3. UNCHANGED unclaimed_responses
      BY <1>3, <1>5, <3>2 DEF OnCallFailed, StillClaimable
    <3>. QED
      BY <1>1, <3>2, <3>3
  <2>. QED
    BY <2>1, <2>2
<1>6. CASE OnCallStarted
  <2> DEFINE m == Head(inbox)
  <2>1. m = inbox[1] /\ 1 \in 1..Len(inbox) /\ m.type = "started"
    BY <1>0, <1>6, TailIndices DEF BusTypes, OnCallStarted, Dispatching
  <2>2. m.handle \in Handles /\ stage[m.handle] # "none" /\ m.path = home[m.handle]
    BY <1>0, <1>6, <2>1, HandlingKeepsOutcomes DEF CallInv, MessagesInv, Truthful, OnCallStarted
  <2>3. CASE m.handle = h
    BY <1>0, <1>1, <1>6, <2>2, <2>3 DEF OnCallStarted, ClaimEarlyResponse
  <2>4. CASE m.handle # h
    <3>1. ~OnCallFailed
      BY <1>6 DEF OnCallStarted, OnCallFailed, Dispatching
    <3>2. InFlight(h)' /\ calls_in_flight' # 0
      BY <1>0, <1>3, <2>4, <3>1, StaysInFlight
    <3>3. m.path # home[h]
      BY <1>0, <2>2, <2>4 DEF HomesInv
    <3>4. CASE UNCHANGED unclaimed_responses
      BY <1>1, <3>2, <3>4
    <3>5. ASSUME NEW j \in 1..Len(unclaimed_responses), unclaimed_responses[j].path = m.path,
                 unclaimed_responses' = SubSeq(unclaimed_responses, 1, j - 1)
                   \o SubSeq(unclaimed_responses, j + 1, Len(unclaimed_responses))
          PROVE  Kept
      <4>1. i # j
        BY <1>1, <3>3, <3>5
      <4>2. \E k \in 1..Len(SubSeq(unclaimed_responses, 1, j - 1)
                   \o SubSeq(unclaimed_responses, j + 1, Len(unclaimed_responses))) :
              (SubSeq(unclaimed_responses, 1, j - 1)
                \o SubSeq(unclaimed_responses, j + 1, Len(unclaimed_responses)))[k]
                 = unclaimed_responses[i]
        BY <1>0, <4>1, SubSeqKeeps
      <4>. QED
        BY <1>1, <3>5, <4>2
    <3>. QED
      BY <1>0, <1>6, <3>2, <3>4, <3>5 DEF OnCallStarted, ClaimEarlyResponse, StillClaimable
  <2>. QED
    BY <2>3, <2>4
<1>7. CASE FailPendingRequests
  BY <1>7 DEF FailPendingRequests, Absent
<1>. QED
  BY <1>2, <1>4, <1>5, <1>6, <1>7, UnclaimedSteps

\* A Response that comes to the pending request it is for is delivered to it.
LEMMA Delivered ==
  ASSUME RouteInv, NEW h \in Handles, stage[h] # "none",
         request_paths[home[h]] # None, NEW code, DeliverResponse(home[h], code),
         requests[h].status = "pending"
  PROVE  requests'[h].status # "pending"
<1> DEFINE g == request_paths[home[h]]
<1>0. /\ RouteTypes /\ RequestTypes /\ home[h] \in Paths
  BY DEF RouteInv, RouteTypes, CallInv, SectionTypes, HomesInv, Paths
<1>1. g = h
  <2>1. g \in Handles
    BY <1>0 DEF RequestTypes
  <2>2. Tracked(g) /\ requests[g].path = home[h]
    BY <1>0, <2>1 DEF RouteTypes, RoutesMatchRequests
  <2>. QED
    BY <1>0, <2>1, <2>2, Apart
<1>2. \/ ForgetRequest(h)
      \/ requests' = [requests EXCEPT ![h] = [status |-> "answered", path |-> requests[h].path]]
  BY <1>1, HandlesAssumption DEF DeliverResponse
<1>3. CASE ForgetRequest(h)
  BY <1>0, <1>3, ForgetStatus
<1>4. CASE requests' = [requests EXCEPT ![h] = [status |-> "answered", path |-> requests[h].path]]
  BY <1>0, <1>4 DEF RequestTypes
<1>. QED
  BY <1>2, <1>3, <1>4

LEMMA NextAwait ==
  ASSUME RouteInv, FollowedInv, HandInv, AwaitInv, ~Overflow, [Section]_sectionVars
  PROVE  AwaitInv'
<1>0. /\ CallInv /\ OutboxInv /\ BusTypes /\ Persistent /\ QueueStep
      /\ RoutesMatchRequests /\ ObjectTypes /\ HomesInv
  BY NextPersistent, NextQueue DEF RouteInv, CallInv, SectionTypes
<1> DEFINE Queued(h) == \E k \in 1..Len(inbox') : inbox'[k].type = "response" /\ inbox'[k].path = home'[h]
           InHand(h) == worker'.step \in {"hold", "deliver"} /\ worker'.path = home'[h]
           Held(h) == /\ InFlight(h)'
                      /\ \E k \in 1..Len(unclaimed_responses') : unclaimed_responses'[k].path = home'[h]
<1>1. SUFFICES ASSUME NEW h \in Handles, requests'[h].status = "pending",
                      stage'[h] \in {"held", "answered"}
               PROVE  Queued(h) \/ InHand(h) \/ Held(h)
  BY DEF AwaitInv
<1>2. ASSUME NEW m \in InboxMessages, inbox' = Append(inbox, m)
      PROVE  /\ Len(inbox') = Len(inbox) + 1 /\ Len(inbox) \in Nat
             /\ \A i \in 1..Len(inbox) : inbox'[i] = inbox[i]
             /\ inbox'[Len(inbox) + 1] = m
  BY <1>0, <1>2, AppendIndices DEF BusTypes
<1>3. CASE stage[h] \notin {"held", "answered"}
  <2>1. PICK code \in Answers : Answer(h, code)
    BY <1>0, <1>1, <1>3, StageStep
  <2> DEFINE m == [type |-> "response", path |-> home[h], code |-> code]
  <2>2. m \in InboxMessages /\ inbox' = Append(inbox, m) /\ home'[h] = home[h]
    BY <1>0, <2>1, BoundsAssumption DEF Answer, ObjectTypes, InboxMessages
  <2>3. Len(inbox) + 1 \in 1..Len(inbox') /\ inbox'[Len(inbox) + 1] = m
    BY <1>2, <2>2
  <2>. QED
    BY <2>2, <2>3
<1>4. CASE stage[h] \in {"held", "answered"}
  <2>1. home'[h] = home[h] /\ home[h] \in Paths
    BY <1>0, <1>4 DEF Persistent, ObjectTypes
  <2>2. call[h] # "idle"
    BY <1>0, <1>4 DEF OutboxInv
  <2>3. requests[h].status = "pending"
    BY <1>1, <2>2, TrackedBefore
  <2>4. ASSUME NEW code, DeliverResponse(home[h], code), request_paths[home[h]] # None PROVE FALSE
    BY <1>1, <1>4, <2>3, <2>4, Delivered
  <2>5. ASSUME NEW i \in 1..Len(inbox), inbox[i].type = "response", inbox[i].path = home[h]
        PROVE  Queued(h) \/ InHand(h)
    <3>1. ASSUME NEW type, Dispatching(type) PROVE Queued(h) \/ InHand(h)
      <4>1. /\ Head(inbox) = inbox[1] /\ Len(inbox') = Len(inbox) - 1 /\ Len(inbox) \in Nat
            /\ \A k \in 1..Len(inbox') : inbox'[k] = inbox[k + 1]
            /\ Head(inbox).type = type
        BY <1>0, <3>1, TailIndices DEF BusTypes, Dispatching
      <4>2. CASE i # 1
        <5>1. i - 1 \in 1..Len(inbox') /\ (i - 1) + 1 = i
          BY <4>1, <4>2
        <5>. QED
          BY <2>1, <2>5, <4>1, <5>1
      <4>3. CASE i = 1
        <5>1. OnRequestResponse
          BY <1>0, <2>5, <3>1, <4>1, <4>3, Taken
        <5>2. DeliverResponse(home[h], inbox[1].code)
          BY <2>5, <4>1, <4>3, <5>1 DEF OnRequestResponse
        <5>3. worker' = [step |-> "hold", path |-> home[h], code |-> inbox[1].code]
          BY <2>4, <2>5, <4>1, <4>3, <5>1, <5>2 DEF OnRequestResponse
        <5>. QED
          BY <2>1, <5>3
      <4>. QED
        BY <4>2, <4>3
    <3>2. CASE UNCHANGED inbox
      BY <2>1, <2>5, <3>2
    <3>3. ASSUME NEW m \in InboxMessages, inbox' = Append(inbox, m) PROVE Queued(h)
      <4>1. i \in 1..Len(inbox') /\ inbox'[i] = inbox[i]
        BY <1>2, <3>3
      <4>. QED
        BY <2>1, <2>5, <4>1
    <3>. QED
      BY <1>0, <3>1, <3>2, <3>3 DEF QueueStep
  <2>6. CASE worker.step \in {"hold", "deliver"} /\ worker.path = home[h]
    <3>1. CASE UNCHANGED worker
      BY <2>1, <2>6, <3>1
    <3>2. CASE DeliverEarlyResponse
      <4>1. call[h] = "done"
        BY <1>4, <2>6, <3>2 DEF HandInv, DeliverEarlyResponse
      <4>2. requests[h].path = home[h]
        BY <2>3, <4>1 DEF FollowedInv
      <4>3. request_paths[home[h]] # None
        BY <1>0, <2>1, <2>3, <4>2, HandlesAssumption DEF RoutesMatchRequests, Tracked
      <4>. QED
        BY <2>4, <2>6, <3>2, <4>3 DEF DeliverEarlyResponse
    <3>3. CASE HoldUnclaimed
      <4>1. InFlight(h) /\ UNCHANGED call
        BY <1>4, <2>3, <2>6, <3>3 DEF HandInv, HoldUnclaimed, busVars
      <4>2. calls_in_flight # 0
        <5>1. h \in Flying /\ calls_in_flight = Cardinality(Flying)
          BY <1>0, <4>1 DEF Flying, CallInv, InFlightExact
        <5>. QED
          BY <5>1, FlyingFinite, FS_EmptySet
      <4> DEFINE r == [path |-> worker.path, code |-> worker.code]
      <4>3. PICK room \in Seq(Responses) : unclaimed_responses' = Append(room, r)
        <5>1. unclaimed_responses \in Seq(Responses)
          BY <1>0 DEF CallInv, SectionTypes, FlightTypes
        <5>2. Len(unclaimed_responses) >= MaxUnclaimed => Tail(unclaimed_responses) \in Seq(Responses)
          <6>1. Len(unclaimed_responses) >= MaxUnclaimed => unclaimed_responses # <<>>
            BY <5>1, BoundsAssumption
          <6>. QED
            BY <5>1, <6>1, TailIndices
        <5>. QED
          BY <3>3, <4>2, <5>1, <5>2 DEF HoldUnclaimed
      <4>4. r \in Responses
        BY <1>0, <2>6, WorkerFields DEF Responses, CallInv, SectionTypes
      <4>5. /\ Len(room) + 1 \in 1..Len(unclaimed_responses')
            /\ unclaimed_responses'[Len(room) + 1] = r
        BY <4>3, <4>4, AppendIndices
      <4>. QED
        BY <2>1, <2>6, <4>1, <4>5 DEF InFlight
    <3>. QED
      BY <2>6, <3>1, <3>2, <3>3, WorkerMoves
  <2>7. CASE InFlight(h) /\ HeldOn(home[h])
    <3>1. \/ InFlight(h)' /\ \E k \in 1..Len(unclaimed_responses') :
                                unclaimed_responses'[k].path = home[h]
          \/ worker'.step = "deliver" /\ worker'.path = home[h]
          \/ requests'[h].status = "absent"
      BY <1>4, <2>7, StaysHeld
    <3>. QED
      BY <1>1, <2>1, <3>1
  <2>. QED
    BY <1>4, <2>3, <2>5, <2>6, <2>7 DEF AwaitInv, HeldOn
<1>. QED
  BY <1>3, <1>4

-----------------------------------------------------------------------------
(* There are never more Responses waiting than were sent.                  *)

ResponsesQueued == {i \in 1..Len(inbox) : inbox[i].type = "response"}
InHand == IF worker.step = "hold" THEN 1 ELSE 0
AnsweredOnes == {h \in Handles : answer[h] # NoAnswer}
ResponsesSent == Cardinality(AnsweredOnes) + foreign

CountInv ==
  /\ foreign <= MaxForeign
  /\ \A h \in Handles : stage[h] \in {"none", "open"} => answer[h] = NoAnswer
  /\ Len(unclaimed_responses) + InHand + Cardinality(ResponsesQueued) <= ResponsesSent

LEMMA CountTypes ==
  ASSUME SectionTypes
  PROVE  /\ IsFiniteSet(ResponsesQueued) /\ Cardinality(ResponsesQueued) \in Nat
         /\ IsFiniteSet(AnsweredOnes) /\ Cardinality(AnsweredOnes) \in Nat
         /\ Cardinality(AnsweredOnes) <= Cardinality(Handles) /\ Cardinality(Handles) \in Nat
         /\ foreign \in Nat /\ Len(unclaimed_responses) \in Nat
<1>1. Len(inbox) \in Nat /\ foreign \in Nat /\ Len(unclaimed_responses) \in Nat
  BY DEF SectionTypes, BusTypes, NameTypes, FlightTypes
<1>2. IsFiniteSet(1..Len(inbox))
  BY <1>1, FS_Interval
<1>3. ResponsesQueued \in SUBSET (1..Len(inbox)) /\ AnsweredOnes \in SUBSET Handles
  BY DEF ResponsesQueued, AnsweredOnes
<1>4. IsFiniteSet(ResponsesQueued)
  BY <1>2, <1>3, FS_Subset
<1>5. IsFiniteSet(AnsweredOnes) /\ Cardinality(AnsweredOnes) <= Cardinality(Handles)
  BY <1>3, HandlesAssumption, FS_Subset
<1>. QED
  BY <1>1, <1>4, <1>5, HandlesAssumption, FS_CardinalityType

LEMMA CountTypesNext ==
  ASSUME SectionTypes'
  PROVE  /\ IsFiniteSet(ResponsesQueued') /\ Cardinality(ResponsesQueued') \in Nat
         /\ Len(unclaimed_responses') \in Nat
<1>1. Len(inbox') \in Nat /\ Len(unclaimed_responses') \in Nat
  BY DEF SectionTypes, BusTypes, FlightTypes
<1>2. IsFiniteSet(1..Len(inbox'))
  BY <1>1, FS_Interval
<1>3. ResponsesQueued' \in SUBSET (1..Len(inbox'))
  BY DEF ResponsesQueued
<1>. QED
  BY <1>1, <1>2, <1>3, FS_Subset, FS_CardinalityType

LEMMA CountTaken ==
  ASSUME SectionTypes, SectionTypes', NEW type, Dispatching(type)
  PROVE  /\ Cardinality(ResponsesQueued') <= Cardinality(ResponsesQueued)
         /\ type = "response" => Cardinality(ResponsesQueued') + 1 <= Cardinality(ResponsesQueued)
<1> DEFINE Q == ResponsesQueued
           R == ResponsesQueued'
           Rest == Q \ {1}
           f == [i \in R |-> i + 1]
<1>1. /\ Head(inbox) = inbox[1] /\ Len(inbox') = Len(inbox) - 1 /\ Len(inbox) \in Nat
      /\ \A k \in 1..Len(inbox') : inbox'[k] = inbox[k + 1]
      /\ Head(inbox).type = type /\ 1 \in 1..Len(inbox)
  BY TailIndices DEF SectionTypes, BusTypes, Dispatching
<1>2. /\ IsFiniteSet(Q) /\ Cardinality(Q) \in Nat
      /\ IsFiniteSet(R) /\ Cardinality(R) \in Nat
  BY CountTypes, CountTypesNext
<1>3. IsFiniteSet(Rest) /\ Cardinality(Rest) = IF 1 \in Q THEN Cardinality(Q) - 1 ELSE Cardinality(Q)
  BY <1>2, FS_RemoveElement
<1>4. \A i \in R : i \in Nat /\ i + 1 \in Rest
  BY <1>1 DEF ResponsesQueued
<1>5. f \in Injection(R, Rest)
  <2>1. f \in [R -> Rest]
    BY <1>4
  <2>2. \A i, j \in R : f[i] = f[j] => i = j
    BY <1>4
  <2>. QED
    BY <2>1, <2>2 DEF Injection, IsInjective
<1>6. Cardinality(R) <= Cardinality(Rest)
  BY <1>3, <1>5, FS_Injection
<1>7. type = "response" => 1 \in Q
  BY <1>1 DEF ResponsesQueued
<1>. QED
  BY <1>2, <1>3, <1>6, <1>7

LEMMA CountAdded ==
  ASSUME SectionTypes, NEW m \in InboxMessages, inbox' = Append(inbox, m)
  PROVE  Cardinality(ResponsesQueued') =
           IF m.type = "response" THEN Cardinality(ResponsesQueued) + 1
                                  ELSE Cardinality(ResponsesQueued)
<1>1. /\ Len(inbox') = Len(inbox) + 1 /\ Len(inbox) \in Nat
      /\ \A i \in 1..Len(inbox) : inbox'[i] = inbox[i]
      /\ inbox'[Len(inbox) + 1] = m
  BY AppendIndices DEF SectionTypes, BusTypes
<1>2. ResponsesQueued' = IF m.type = "response" THEN ResponsesQueued \cup {Len(inbox) + 1}
                                                ELSE ResponsesQueued
  BY <1>1 DEF ResponsesQueued
<1>3. Len(inbox) + 1 \notin ResponsesQueued /\ IsFiniteSet(ResponsesQueued)
  BY <1>1, CountTypes DEF ResponsesQueued
<1>. QED
  BY <1>2, <1>3, FS_AddElement

LEMMA NextCount ==
  ASSUME RouteInv, CountInv, [Section]_sectionVars
  PROVE  CountInv'
<1> USE DEF portalVars, objectVars, nameVars, clientVars, flightVars, busVars
<1>0. /\ SectionTypes /\ SectionTypes' /\ OutboxInv /\ BusTypes /\ NameTypes /\ ObjectTypes /\ FlightTypes
      /\ unclaimed_responses \in Seq(Responses)
  BY NextCalls DEF RouteInv, CallInv, SectionTypes, FlightTypes
<1> DEFINE Held == Len(unclaimed_responses)
           Fresh == \A h \in Handles : stage[h] \in {"none", "open"} => answer[h] = NoAnswer
           Quiet == Held' <= Held /\ UNCHANGED <<stage, answer, foreign>>
           Total == Held + InHand + Cardinality(ResponsesQueued) <= ResponsesSent
<1>1. /\ Held \in Nat /\ Held' \in Nat /\ InHand \in {0, 1} /\ InHand' \in {0, 1}
      /\ Cardinality(ResponsesQueued) \in Nat /\ Cardinality(ResponsesQueued') \in Nat
      /\ IsFiniteSet(AnsweredOnes) /\ Cardinality(AnsweredOnes) \in Nat
      /\ foreign \in Nat /\ foreign <= MaxForeign /\ Fresh /\ Total
      /\ ResponsesSent \in Nat
  BY <1>0, CountTypes, CountTypesNext DEF InHand, CountInv, ResponsesSent
<1>sum. /\ Held \in Nat /\ Held' \in Nat /\ InHand \in {0, 1} /\ InHand' \in {0, 1}
        /\ Cardinality(ResponsesQueued) \in Nat /\ Cardinality(ResponsesQueued') \in Nat
        /\ ResponsesSent \in Nat
        /\ Total
  BY <1>1
<1>2. ASSUME UNCHANGED worker \/ worker'.step # "hold" PROVE InHand' <= InHand
  BY <1>2 DEF InHand
<1>3. UNCHANGED <<answer, foreign>> => ResponsesSent' = ResponsesSent
  BY DEF ResponsesSent, AnsweredOnes
<1>4. ASSUME Held' <= Held, InHand' <= InHand, UNCHANGED <<answer, foreign>>,
             Cardinality(ResponsesQueued') <= Cardinality(ResponsesQueued)
      PROVE  Total'
  BY <1>sum, <1>3, <1>4
<1>5. UNCHANGED inbox => Cardinality(ResponsesQueued') <= Cardinality(ResponsesQueued)
  BY <1>1 DEF ResponsesQueued
<1>6. ASSUME NEW m \in InboxMessages, m.type # "response", inbox' = Append(inbox, m)
      PROVE  Cardinality(ResponsesQueued') <= Cardinality(ResponsesQueued)
  BY <1>0, <1>1, <1>6, CountAdded
<1>7. ASSUME NEW m \in InboxMessages, m.type = "response", inbox' = Append(inbox, m)
      PROVE  Cardinality(ResponsesQueued') = Cardinality(ResponsesQueued) + 1
  BY <1>0, <1>7, CountAdded
<1>8. ASSUME Quiet, InHand' <= InHand,
             Cardinality(ResponsesQueued') <= Cardinality(ResponsesQueued)
      PROVE  CountInv'
  <2>1. Total'
    BY <1>4, <1>8
  <2>. QED
    BY <1>1, <1>8, <2>1 DEF CountInv
<1>9. ASSUME NEW type, Dispatching(type)
      PROVE  /\ Cardinality(ResponsesQueued') <= Cardinality(ResponsesQueued)
             /\ type = "response" =>
                  Cardinality(ResponsesQueued') + 1 <= Cardinality(ResponsesQueued)
             /\ InHand = 0
  BY <1>0, <1>9, CountTaken DEF Dispatching, Idle, InHand
<1>10. CASE OnRequestResponse
  <2>1. Cardinality(ResponsesQueued') + 1 <= Cardinality(ResponsesQueued) /\ InHand = 0
    BY <1>9, <1>10 DEF OnRequestResponse
  <2>2. Held' = Held /\ UNCHANGED <<stage, answer, foreign>>
    BY <1>10 DEF OnRequestResponse
  <2>3. Total'
    BY <1>sum, <1>3, <2>1, <2>2
  <2>. QED
    BY <1>1, <2>2, <2>3 DEF CountInv
<1>11. CASE OnCallStarted
  <2>1. Cardinality(ResponsesQueued') <= Cardinality(ResponsesQueued)
    BY <1>9, <1>11 DEF OnCallStarted
  <2>2. InHand' = 0
    BY <1>11 DEF OnCallStarted, ClaimEarlyResponse, Idle, InHand
  <2>3. Held' <= Held
    <3>1. ASSUME NEW i \in 1..Len(unclaimed_responses),
                 unclaimed_responses' = SubSeq(unclaimed_responses, 1, i - 1)
                   \o SubSeq(unclaimed_responses, i + 1, Len(unclaimed_responses))
          PROVE  Held' <= Held
      <4>1. Held' = Held - 1
        BY <1>0, <3>1, SubSeqKeeps
      <4>. QED
        BY <1>1, <4>1
    <3>2. UNCHANGED unclaimed_responses \/ unclaimed_responses' = <<>> => Held' <= Held
      BY <1>1
    <3>3. DOMAIN unclaimed_responses = 1..Len(unclaimed_responses)
      BY <1>0
    <3>. QED
      BY <1>11, <3>1, <3>2, <3>3 DEF OnCallStarted, ClaimEarlyResponse, StillClaimable
  <2>. QED
    BY <1>1, <1>8, <1>11, <2>1, <2>2, <2>3 DEF OnCallStarted
<1>12. CASE OnCallFailed
  <2>1. Cardinality(ResponsesQueued') <= Cardinality(ResponsesQueued) /\ UNCHANGED worker
    BY <1>9, <1>12 DEF OnCallFailed
  <2>2. Held' <= Held
    BY <1>1, <1>12 DEF OnCallFailed, StillClaimable
  <2>. QED
    BY <1>2, <1>8, <1>12, <2>1, <2>2 DEF OnCallFailed
<1>13. CASE OnPortalAppeared \/ OnPortalVanished
  <2>1. Cardinality(ResponsesQueued') <= Cardinality(ResponsesQueued)
    BY <1>9, <1>13 DEF OnPortalAppeared, OnPortalVanished
  <2>2. worker'.step # "hold"
    BY <1>13 DEF OnPortalAppeared, OnPortalVanished, Idle
  <2>. QED
    BY <1>1, <1>2, <1>8, <1>13, <2>1, <2>2 DEF OnPortalAppeared, OnPortalVanished
<1>14. CASE HoldUnclaimed
  <2>1. InHand = 1 /\ InHand' = 0
    BY <1>14 DEF HoldUnclaimed, Idle, InHand
  <2>2. Held' <= Held + 1
    <3> DEFINE r == [path |-> worker.path, code |-> worker.code]
    <3>1. r \in Responses
      BY <1>0, <1>14, WorkerFields DEF HoldUnclaimed, Responses, SectionTypes
    <3>2. ASSUME NEW room \in Seq(Responses), Len(room) <= Held, unclaimed_responses' = Append(room, r)
          PROVE  Held' <= Held + 1
      <4>1. Len(Append(room, r)) = Len(room) + 1 /\ Len(room) \in Nat
        BY <3>1, AppendIndices
      <4>. QED
        BY <1>1, <3>2, <4>1
    <3>3. Held >= MaxUnclaimed =>
            Tail(unclaimed_responses) \in Seq(Responses) /\ Len(Tail(unclaimed_responses)) <= Held
      <4>1. Held >= MaxUnclaimed => unclaimed_responses # <<>>
        BY <1>0, BoundsAssumption
      <4>. QED
        BY <1>0, <1>1, <4>1, TailIndices
    <3>4. Len(unclaimed_responses) <= Held
      BY <1>1
    <3>. QED
      BY <1>0, <1>1, <1>14, <3>2, <3>3, <3>4 DEF HoldUnclaimed
  <2>3. Cardinality(ResponsesQueued') <= Cardinality(ResponsesQueued)
        /\ UNCHANGED <<stage, answer, foreign>>
    BY <1>5, <1>14 DEF HoldUnclaimed
  <2>4. Total'
    BY <1>sum, <1>3, <2>1, <2>2, <2>3
  <2>. QED
    BY <1>1, <2>3, <2>4 DEF CountInv
<1>15. CASE FailPendingRequests
  <2>1. Held' <= Held /\ worker'.step # "hold"
    BY <1>1, <1>15 DEF FailPendingRequests, Idle
  <2>. QED
    BY <1>2, <1>5, <1>8, <1>15, <2>1 DEF FailPendingRequests
<1>16. CASE DeliverEarlyResponse
  <2>1. Held' <= Held /\ worker'.step # "hold"
    BY <1>1, <1>16 DEF DeliverEarlyResponse, Idle
  <2>. QED
    BY <1>2, <1>5, <1>8, <1>16, <2>1 DEF DeliverEarlyResponse
<1>17. ASSUME UNCHANGED <<unclaimed_responses, worker, inbox, stage, answer, foreign>>
       PROVE  CountInv'
  BY <1>1, <1>2, <1>5, <1>8, <1>17
<1>18. MainThread \/ (\E h \in Handles : IssueCall(h)) \/ UNCHANGED sectionVars
         => UNCHANGED <<unclaimed_responses, worker, inbox, stage, answer, foreign>>
  BY DEF MainThread, BeginRequest, ResolveClose, SendClose, FinishClose, AbandonClose, IssueCall, sectionVars
<1>19. ASSUME NEW m \in InboxMessages, m.type # "response", NEW h \in Handles, Settle(h, m),
              UNCHANGED <<unclaimed_responses, worker, stage, answer, foreign>>
       PROVE  CountInv'
  BY <1>1, <1>2, <1>5, <1>6, <1>8, <1>19 DEF Settle
<1>20. CASE PortalStarts
  <2>1. [type |-> "appeared", owner |-> instances + 1] \in InboxMessages
    BY <1>0 DEF InboxMessages, NameTypes, NoOwner
  <2>. QED
    BY <1>1, <1>2, <1>6, <1>8, <1>20, <2>1 DEF PortalStarts
<1>21. CASE PortalVanishes
  <2>1. Cardinality(ResponsesQueued') <= Cardinality(ResponsesQueued)
    <3>1. [type |-> "vanished"] \in InboxMessages
      BY DEF InboxMessages
    <3>. QED
      BY <1>6, <1>21, <3>1 DEF PortalVanishes
  <2>2. Held' <= Held /\ InHand' <= InHand /\ UNCHANGED <<answer, foreign>>
    BY <1>1, <1>2, <1>21 DEF PortalVanishes
  <2>3. ASSUME NEW h \in Handles, stage'[h] \in {"none", "open"} PROVE stage[h] = "none"
    BY <1>0, <1>21, <2>3 DEF PortalVanishes, ObjectTypes
  <2>4. Total'
    BY <1>4, <2>1, <2>2
  <2>. QED
    BY <1>1, <2>2, <2>3, <2>4 DEF CountInv
<1>22. CASE ForeignResponse
  <2> DEFINE m == [type |-> "response", path |-> ForeignPath, code |-> Success]
  <2>1. m \in InboxMessages
    BY DEF InboxMessages, Paths, Codes, Success
  <2>2. Cardinality(ResponsesQueued') = Cardinality(ResponsesQueued) + 1
    BY <1>7, <1>22, <2>1 DEF ForeignResponse
  <2>3. /\ Held' = Held /\ InHand' <= InHand /\ UNCHANGED <<stage, answer>>
        /\ foreign' = foreign + 1 /\ foreign < MaxForeign
    BY <1>1, <1>2, <1>22 DEF ForeignResponse
  <2>4. ResponsesSent' = ResponsesSent + 1 /\ foreign' <= MaxForeign
    <3>1. AnsweredOnes' = AnsweredOnes /\ MaxForeign \in Nat
      BY <2>3, BoundsAssumption DEF AnsweredOnes
    <3>. QED
      BY <1>1, <2>3, <3>1 DEF ResponsesSent
  <2>5. Total'
    BY <1>sum, <2>2, <2>3, <2>4
  <2>. QED
    BY <1>1, <2>3, <2>4, <2>5 DEF CountInv
<1>23. ASSUME NEW h \in Handles, NEW code \in Answers, Answer(h, code) PROVE CountInv'
  <2> DEFINE m == [type |-> "response", path |-> home[h], code |-> code]
  <2>1. m \in InboxMessages /\ code # NoAnswer
    BY <1>0, BoundsAssumption DEF InboxMessages, ObjectTypes, Codes, NoAnswer
  <2>2. Cardinality(ResponsesQueued') = Cardinality(ResponsesQueued) + 1
    BY <1>7, <1>23, <2>1 DEF Answer
  <2>3. Held' = Held /\ InHand' <= InHand /\ UNCHANGED foreign
    BY <1>1, <1>2, <1>23 DEF Answer
  <2>4. AnsweredOnes' = AnsweredOnes \cup {h} /\ h \notin AnsweredOnes
    BY <1>0, <1>1, <1>23, <2>1 DEF Answer, AnsweredOnes, ObjectTypes
  <2>5. Cardinality(AnsweredOnes') = Cardinality(AnsweredOnes) + 1
    BY <1>1, <2>4, FS_AddElement
  <2>6. ResponsesSent' = ResponsesSent + 1
    BY <1>1, <2>3, <2>5 DEF ResponsesSent
  <2>7. Total'
    BY <1>sum, <2>2, <2>3, <2>6
  <2>8. ASSUME NEW g \in Handles, stage'[g] \in {"none", "open"} PROVE answer'[g] = NoAnswer
    <3>1. g # h /\ stage[g] = stage'[g] /\ answer'[g] = answer[g]
      BY <1>0, <1>23, <2>8 DEF Answer, ObjectTypes
    <3>. QED
      BY <1>1, <2>8, <3>1
  <2>. QED
    BY <1>1, <2>3, <2>7, <2>8 DEF CountInv
<1>24. CASE ReceiveCall
  <2>1. Head(outbox).handle \in Handles /\ stage[Head(outbox).handle] = "none"
    BY <1>0, <1>24, HeadUnreceived DEF ReceiveCall, Unreceived
  <2>2. UNCHANGED <<unclaimed_responses, worker, inbox, answer, foreign>>
    BY <1>24 DEF ReceiveCall
  <2>3. ASSUME NEW g \in Handles, stage'[g] \in {"none", "open"} PROVE stage[g] \in {"none", "open"}
    BY <1>0, <1>24, <2>1, <2>3 DEF ReceiveCall, ObjectTypes
  <2>4. Total'
    BY <1>sum, <1>2, <1>4, <1>5, <2>2
  <2>. QED
    BY <1>1, <2>2, <2>3, <2>4 DEF CountInv
<1>25. CASE ReceiveClose
  <2>1. UNCHANGED <<unclaimed_responses, worker, inbox, answer, foreign>>
    BY <1>25 DEF ReceiveClose
  <2>2. ASSUME NEW g \in Handles, stage'[g] \in {"none", "open"} PROVE stage[g] = stage'[g]
    BY <1>0, <1>25, <2>2 DEF ReceiveClose, ObjectTypes
  <2>3. Total'
    BY <1>sum, <1>2, <1>4, <1>5, <2>1
  <2>. QED
    BY <1>1, <2>1, <2>2, <2>3 DEF CountInv
<1>26. ASSUME NEW h \in Handles, CallTimesOut(h) \/ BusReportsNoReply(h) PROVE CountInv'
  <2>1. Failed(h) \in InboxMessages /\ Failed(h).type # "response"
    BY FailedType DEF Failed
  <2>. QED
    BY <1>19, <1>26, <2>1 DEF CallTimesOut, BusReportsNoReply
<1>27. CASE RefuseCall
  <2> DEFINE h == Head(outbox).handle
  <2>1. h \in Handles
    BY <1>0, <1>27, HeadUnreceived DEF RefuseCall
  <2>2. Failed(h) \in InboxMessages /\ Failed(h).type # "response"
    BY <2>1, FailedType DEF Failed
  <2>. QED
    BY <1>19, <1>27, <2>1, <2>2 DEF RefuseCall
<1>28. ASSUME NEW h \in Handles, Reply(h) PROVE CountInv'
  <2> DEFINE m == [type |-> "started", handle |-> h, path |-> home[h]]
  <2>1. m \in InboxMessages /\ m.type # "response"
    BY <1>0 DEF InboxMessages, ObjectTypes
  <2>. QED
    BY <1>19, <1>28, <2>1 DEF Reply
<1>29. WorkerThread => CountInv'
  BY <1>10, <1>11, <1>12, <1>13, <1>14, <1>15, <1>16, <1>17, <1>18 DEF WorkerThread
<1>30. Bus => CountInv'
  BY <1>24, <1>25, <1>26, <1>27, <1>28 DEF Bus
<1>31. Portal => CountInv'
  BY <1>20, <1>21, <1>22, <1>23 DEF Portal
<1>. QED
  BY <1>17, <1>18, <1>29, <1>30, <1>31 DEF Section

\* A list that holds all the Responses that are ever sent does not overflow.
LEMMA NoneOverflows ==
  ASSUME RouteInv, CountInv, MaxUnclaimed >= Cardinality(Handles) + MaxForeign, [Section]_sectionVars
  PROVE  ~Overflow
<1>1. SectionTypes
  BY DEF RouteInv, CallInv
<1>2. SUFFICES ASSUME HoldUnclaimed PROVE ~(Len(unclaimed_responses) >= MaxUnclaimed)
  BY DEF Overflow
<1>3. InHand = 1
  BY <1>2 DEF HoldUnclaimed, InHand
<1>4. MaxUnclaimed \in Nat /\ MaxForeign \in Nat
  BY BoundsAssumption
<1>. QED
  BY <1>1, <1>3, <1>4, CountTypes DEF CountInv, ResponsesSent

\* With the outcome of its call before it, a Response is never held for that call.
LEMMA OrderNeverOverflows ==
  ASSUME RouteInv, OrderInv, [Section]_sectionVars
  PROVE  ~Overflow
<1>1. SUFFICES ASSUME NEW h \in Handles, InFlight(h), stage[h] # "none",
                      Head(unclaimed_responses).path = home[h],
                      Len(unclaimed_responses) >= MaxUnclaimed
               PROVE  FALSE
  BY DEF Overflow
<1>2. unclaimed_responses \in Seq(Responses)
  BY DEF RouteInv, CallInv, SectionTypes, FlightTypes
<1>3. unclaimed_responses # <<>>
  BY <1>1, <1>2, BoundsAssumption
<1>4. Head(unclaimed_responses) = unclaimed_responses[1] /\ 1 \in 1..Len(unclaimed_responses)
  BY <1>2, <1>3, TailIndices
<1>. QED
  BY <1>1, <1>4 DEF OrderInv, OnTime, InFlight

-----------------------------------------------------------------------------
(* No request strands.                                                     *)

PendingInv ==
  /\ SentInv /\ FollowedInv /\ HandInv /\ AwaitInv
  /\ CloseInv /\ ClosedInv
  /\ OwnerKnown /\ GoneInv

LEMMA InitPending == Init => SettledInv /\ PendingInv /\ CountInv
<1> SUFFICES ASSUME Init PROVE SettledInv /\ PendingInv /\ CountInv
  OBVIOUS
<1>1. \A h \in Handles : requests[h].status = "absent" /\ call[h] = "idle"
  BY DEF Init, Absent
<1>2. SentInv /\ FollowedInv /\ AwaitInv /\ ClosedInv /\ GoneInv
  BY <1>1 DEF SentInv, FollowedInv, AwaitInv, ClosedInv, GoneInv
<1>3. HandInv
  BY DEF Init, HandInv, Idle
<1>4. SettledInv
  BY InitLife DEF LifeInv
<1>5. CountInv
  <2>1. ResponsesQueued = {} /\ AnsweredOnes = {} /\ InHand = 0
    BY DEF Init, ResponsesQueued, AnsweredOnes, InHand, Idle
  <2>2. Cardinality(ResponsesQueued) = 0 /\ Cardinality(AnsweredOnes) = 0
    BY <2>1, FS_EmptySet
  <2>3. foreign = 0 /\ unclaimed_responses = <<>> /\ \A h \in Handles : answer[h] = NoAnswer
    BY DEF Init
  <2>. QED
    BY <2>1, <2>2, <2>3, BoundsAssumption DEF CountInv, ResponsesSent
<1>. QED
  BY <1>2, <1>3, <1>4, <1>5, InitHeld, InitOwnerKnown DEF PendingInv

LEMMA NextPending ==
  ASSUME RouteInv, PendingInv, ~Overflow, ~LateClose, [Section]_sectionVars
  PROVE  PendingInv'
BY NextSent, NextFollowed, NextHand, NextAwait, NextCloseInv, NextClosed, NextOwnerKnown, NextGone
   DEF PendingInv, RouteInv

LEMMA PendingWaits == ASSUME RouteInv, SettledInv, PendingInv PROVE NotStranded
<1>0. /\ BusTypes /\ ObjectTypes /\ FlightTypes /\ MessagesInv /\ PathsInv /\ HomesInv /\ SectionTypes
      /\ DOMAIN inbox = 1..Len(inbox) /\ DOMAIN outbox = 1..Len(outbox)
      /\ DOMAIN unclaimed_responses = 1..Len(unclaimed_responses)
  BY DEF RouteInv, CallInv, SectionTypes, BusTypes, FlightTypes
<1>1. SUFFICES ASSUME NEW h \in Handles, requests[h].status = "pending"
               PROVE  \/ Unanswered(h) \/ ResponseUnderWay(h) \/ FailureUnderWay(h)
                      \/ closing.handle = h /\ closing.stage = "ok"
  BY DEF NotStranded
<1>2. CASE stage[h] = "none"
  <2>1. call[h] \in {"queued", "sent", "settled"}
    BY <1>0, <1>1, <1>2 DEF BusTypes, CallStates, PathsInv, PendingInv, FollowedInv
  <2>2. CASE call[h] = "queued"
    BY <2>2 DEF Unanswered
  <2>3. CASE call[h] = "sent"
    BY <1>0, <1>2, <2>3 DEF PendingInv, SentInv, CallUnderWay, Unanswered, Elements
  <2>4. CASE call[h] = "settled"
    <3>1. PICK i \in 1..Len(inbox) : IsOutcome(inbox[i]) /\ inbox[i].handle = h
      BY <2>4 DEF SettledInv, OutcomeBefore
    <3>2. inbox[i].type = "failed"
      BY <1>0, <1>2, <3>1 DEF IsOutcome, MessagesInv, Truthful
    <3>3. inbox[i] = Failed(h)
      <4>1. inbox[i] \in InboxMessages
        BY <1>0 DEF BusTypes
      <4>2. inbox[i] \in [type : {"failed"}, handle : Handles]
        BY <3>2, <4>1 DEF InboxMessages
      <4>. QED
        BY <3>1, <4>2 DEF Failed
    <3>. QED
      BY <1>0, <3>3 DEF FailureUnderWay, Elements
  <2>. QED
    BY <2>1, <2>2, <2>3, <2>4
<1>3. CASE stage[h] = "open"
  BY <1>3 DEF Unanswered
<1>4. CASE stage[h] \in {"held", "answered"}
  <2>1. ASSUME NEW code \in Codes, Genuine(home[h], code) PROVE answer[h] # NoAnswer
    <3>1. home[h] # ForeignPath
      BY <1>0, PathsAssumption DEF HomesInv
    <3>2. answer[h] = code
      BY <1>0, <1>4, <2>1, <3>1 DEF Genuine, Decided, HomesInv
    <3>. QED
      BY <3>2 DEF Codes, NoAnswer
  <2>2. CASE \E i \in 1..Len(inbox) : inbox[i].type = "response" /\ inbox[i].path = home[h]
    <3>1. PICK i \in 1..Len(inbox) : inbox[i].type = "response" /\ inbox[i].path = home[h]
      BY <2>2
    <3>2. Genuine(home[h], inbox[i].code) /\ inbox[i].code \in Codes
      BY <1>0, <3>1, InboxFields DEF MessagesInv, Truthful, BusTypes
    <3>. QED
      BY <1>0, <2>1, <3>1, <3>2 DEF ResponseUnderWay, Elements
  <2>3. CASE worker.step \in {"hold", "deliver"} /\ worker.path = home[h]
    <3>1. Genuine(home[h], worker.code) /\ worker.code \in Codes
      BY <1>0, <2>3, WorkerFields DEF MessagesInv, SectionTypes
    <3>. QED
      BY <2>1, <2>3, <3>1 DEF ResponseUnderWay
  <2>4. CASE InFlight(h)
             /\ \E i \in 1..Len(unclaimed_responses) : unclaimed_responses[i].path = home[h]
    <3>1. PICK i \in 1..Len(unclaimed_responses) : unclaimed_responses[i].path = home[h]
      BY <2>4
    <3>2. Genuine(home[h], unclaimed_responses[i].code) /\ unclaimed_responses[i].code \in Codes
      <4>1. unclaimed_responses[i] \in Responses
        BY <1>0 DEF FlightTypes
      <4>. QED
        BY <1>0, <3>1, <4>1 DEF MessagesInv, Responses
    <3>. QED
      BY <1>0, <2>1, <2>4, <3>1, <3>2 DEF ResponseUnderWay, Elements
  <2>. QED
    BY <1>1, <1>4, <2>2, <2>3, <2>4 DEF PendingInv, AwaitInv
<1>5. CASE stage[h] = "closed"
  BY <1>1, <1>5 DEF PendingInv, ClosedInv
<1>6. CASE stage[h] = "gone"
  <2>1. LossAhead
    BY <1>1, <1>6 DEF PendingInv, GoneInv
  <2>. QED
    BY <1>0, <2>1 DEF LossAhead, Loss, FailureUnderWay, Elements
<1>. QED
  BY <1>0, <1>2, <1>3, <1>4, <1>5, <1>6 DEF ObjectTypes, Stages

\* A pending request strands in two ways only: the list of held Responses, when it is
\* full, drops one that a call in flight could still claim, or the portal carries out
\* a Close for which close_request() no longer waits.  Whatever the portal, the bus and
\* the callers do otherwise, it waits for something under way.
THEOREM OnlyOverflowsAndLateClosesStrand ==
  Spec /\ [][~Overflow /\ ~LateClose]_vars => []NotStranded
<1>1. Init => RouteInv /\ SettledInv /\ PendingInv
  BY InitRoutes, InitPending
<1>2. /\ RouteInv /\ SettledInv /\ PendingInv
      /\ [Section]_sectionVars /\ [~Overflow /\ ~LateClose]_vars
      => RouteInv' /\ SettledInv' /\ PendingInv'
  <2>1. UNCHANGED sectionVars => ~Overflow
    <3>1. HoldUnclaimed => worker'.step # worker.step
      BY DEF HoldUnclaimed, Idle
    <3>. QED
      BY <3>1 DEF sectionVars, Overflow
  <2>2. RouteInv /\ UNCHANGED sectionVars => ~LateClose
    <3>1. ASSUME RouteInv, ReceiveClose PROVE outbox' # outbox
      <4>1. outbox # <<>> /\ outbox' = Tail(outbox)
        BY <3>1 DEF ReceiveClose, Receiving
      <4>2. outbox \in Seq(OutboxMessages)
        BY <3>1 DEF RouteInv, CallInv, SectionTypes, BusTypes
      <4>. QED
        BY <4>1, <4>2, TailShorter
    <3>. QED
      BY <3>1 DEF sectionVars, busVars, LateClose
  <2>3. UNCHANGED vars => UNCHANGED sectionVars
    BY DEF vars, sectionVars, historyVars
  <2>. QED
    BY <2>1, <2>2, <2>3, NextRoutes, NextSettled, NextPending
<1>3. RouteInv /\ SettledInv /\ PendingInv => NotStranded
  BY PendingWaits
<1>. QED
  BY <1>1, <1>2, <1>3, NextSections, PTL DEF Spec

\* If no Close times out, the full list of held Responses is the only way.
THEOREM OnlyOverflowStrands ==
  ASSUME "close" \notin TimeOuts
  PROVE  Spec /\ [][~Overflow]_vars => []NotStranded
<1>1. Init => RouteInv /\ AwaitedCloses
  BY InitRoutes DEF Init, AwaitedCloses
<1>2. RouteInv /\ AwaitedCloses /\ [Section]_sectionVars => RouteInv' /\ AwaitedCloses' /\ ~LateClose
  BY NextRoutes, NextAwaitedCloses, AwaitedNeverLate DEF RouteInv, CallInv, SectionTypes
<1>3. Spec => [][~LateClose]_vars
  BY <1>1, <1>2, NextSections, PTL DEF Spec
<1>. QED
  BY <1>3, OnlyOverflowsAndLateClosesStrand, PTL

\* A request that is pending waits for something that is under way: its call, its
\* Response, a failure or the end of close_request(), if a Close does not time out
\* and either the portal replies to a call before it answers or the list of held
\* Responses has room for all that are ever sent.
THEOREM NoneStrands ==
  ASSUME "close" \notin TimeOuts,
         EarlyResponses = FALSE \/ MaxUnclaimed >= Cardinality(Handles) + MaxForeign
  PROVE  Spec => []NotStranded
<1>1. Spec => [][~Overflow]_vars
  <2>1. CASE EarlyResponses = FALSE
    <3>1. LifeInv /\ OrderedInv /\ [Section]_sectionVars => ~Overflow
      BY OrderNeverOverflows DEF LifeInv, OrderedInv
    <3>. QED
      BY <2>1, <3>1, OrderedInvariant, NextSections, PTL DEF Spec
  <2>2. CASE MaxUnclaimed >= Cardinality(Handles) + MaxForeign
    <3>1. Init => RouteInv /\ CountInv
      BY InitRoutes, InitPending
    <3>2. RouteInv /\ CountInv /\ [Section]_sectionVars => RouteInv' /\ CountInv' /\ ~Overflow
      BY <2>2, NextRoutes, NextCount, NoneOverflows
    <3>. QED
      BY <3>1, <3>2, NextSections, PTL DEF Spec
  <2>. QED
    BY <2>1, <2>2
<1>. QED
  BY <1>1, OnlyOverflowStrands, PTL

=============================================================================
