------------------------- MODULE RequestRoutesProofs -------------------------
(***************************************************************************)
(* Theorems about PortalRequests, continued: where requests are routed and *)
(* whose answers they get.  They hold for any portal, also one that sends  *)
(* Responses before replies, crashes at any moment, or answers when its    *)
(* caller gave up waiting.                                                 *)
(***************************************************************************)
EXTENDS PortalRequestsProofs, SequenceTheorems

-----------------------------------------------------------------------------
(* The strengthening.                                                      *)

\* A call was issued, and the portal has not received it.
Unreceived(h) == stage[h] = "none" /\ call[h] \notin {"idle", "queued"}

\* The same of the next state, for a handle found in the next state.
UnreceivedNext(h) == stage'[h] = "none" /\ call'[h] \notin {"idle", "queued"}

\* Every call is sent to the portal once.
OutboxInv ==
  /\ \A h \in Handles : call[h] \in {"idle", "queued"} => stage[h] = "none"
  /\ \A i \in 1..Len(outbox) : outbox[i].type = "call" => Unreceived(outbox[i].handle)
  /\ \A i, j \in 1..Len(outbox) :
       i # j /\ outbox[i].type = "call" /\ outbox[j].type = "call"
         => outbox[i].handle # outbox[j].handle

\* Request objects live on paths of their own: the handle's, or one the portal
\* chose, but never another request's handle.
HomesInv ==
  /\ \A h \in Handles : home[h] \in {h} \cup AltPaths
  /\ \A g, h \in Handles :
       g # h /\ stage[g] # "none" /\ stage[h] # "none" => home[g] # home[h]

\* The portal has answered, or the request is past answering.
Decided(h) == stage[h] \notin {"none", "open"}

\* A Response is another client's, or that of the one request that lives there.
Genuine(path, code) ==
  \/ path = ForeignPath
  \/ \E h \in Handles : Decided(h) /\ home[h] = path /\ answer[h] = code

Truthful(m) ==
  /\ m.type = "started" => stage[m.handle] # "none" /\ m.path = home[m.handle]
  /\ m.type = "response" => Genuine(m.path, m.code)

\* The same of the next state, for messages found in the next state.
GenuineNext(path, code) ==
  \/ path = ForeignPath
  \/ \E h \in Handles : stage'[h] \notin {"none", "open"} /\ home'[h] = path /\ answer'[h] = code
TruthfulNext(m) ==
  /\ m.type = "started" => stage'[m.handle] # "none" /\ m.path = home'[m.handle]
  /\ m.type = "response" => GenuineNext(m.path, m.code)

\* What is queued or held for the worker is true of the portal's objects.
MessagesInv ==
  /\ \A i \in 1..Len(inbox) : Truthful(inbox[i])
  /\ worker.step \in {"deliver", "hold"} => Genuine(worker.path, worker.code)
  /\ \A i \in 1..Len(unclaimed_responses) :
       Genuine(unclaimed_responses[i].path, unclaimed_responses[i].code)

\* A request is where its caller was told, until it is followed to its home.
PathsInv ==
  \A h \in Handles :
    /\ requests[h].path # h => stage[h] # "none" /\ requests[h].path = home[h]
    /\ call[h] = "idle" => requests[h].status = "absent"

\* What the portal answered stays what it answered, and failures are not answers.
AnswersInv ==
  /\ worker.step = "fail" => worker.by # "portal"
  /\ \A h \in Handles : \A i \in 1..Len(completions[h]) :
       completions[h][i].by = "portal" => Decided(h) /\ completions[h][i].code = answer[h]

RouteInv ==
  /\ CallInv /\ UnclaimedOnlyInFlight
  /\ OutboxInv /\ HomesInv /\ MessagesInv
  /\ PathsInv /\ RoutesMatchRequests /\ AnswersInv

\* What a step never takes back about the portal's objects.
Persistent ==
  \A h \in Handles :
    /\ stage[h] # "none" => stage'[h] # "none" /\ home'[h] = home[h]
    /\ Decided(h) => Decided(h)' /\ answer'[h] = answer[h]

-----------------------------------------------------------------------------
(* Held Responses belong to calls in flight.                               *)

LEMMA NextUnclaimed ==
  ASSUME CallInv, UnclaimedOnlyInFlight, [Section]_sectionVars
  PROVE  UnclaimedOnlyInFlight'
<1>0. FlightTypes /\ CallInv'
  BY NextCalls DEF CallInv, SectionTypes
<1>1. FlightTypes'
  BY <1>0 DEF CallInv, SectionTypes
<1>2. CASE UNCHANGED flightVars
  BY <1>2 DEF UnclaimedOnlyInFlight, flightVars
<1>3. ASSUME NEW h \in Handles, BeginRequest(h) PROVE UnclaimedOnlyInFlight'
  BY <1>0, <1>3 DEF FlightTypes, UnclaimedOnlyInFlight, BeginRequest
<1>4. CASE FailPendingRequests
  BY <1>4 DEF UnclaimedOnlyInFlight, FailPendingRequests
<1>5. CASE OnCallFailed
  BY <1>1, <1>5 DEF FlightTypes, UnclaimedOnlyInFlight, OnCallFailed, StillClaimable
<1>6. CASE OnCallStarted
  BY <1>1, <1>6 DEF FlightTypes, UnclaimedOnlyInFlight, OnCallStarted, ClaimEarlyResponse,
                    StillClaimable
<1>7. CASE HoldUnclaimed
  BY <1>0, <1>7 DEF FlightTypes, UnclaimedOnlyInFlight, HoldUnclaimed
<1>8. MainThread => UNCHANGED flightVars \/ \E h \in Handles : BeginRequest(h)
  BY DEF MainThread, ResolveClose, SendClose, FinishClose, AbandonClose, clientVars
<1>9. WorkerThread =>
        \/ UNCHANGED flightVars
        \/ FailPendingRequests \/ OnCallFailed \/ OnCallStarted \/ HoldUnclaimed
  BY DEF WorkerThread, IssueCall, OnPortalAppeared, OnPortalVanished, DeliverEarlyResponse,
         OnRequestResponse, clientVars
<1>10. Bus => UNCHANGED flightVars
  BY DEF Bus, CallTimesOut, BusReportsNoReply, Reply, ReceiveCall, RefuseCall, ReceiveClose,
         clientVars
<1>11. Portal => UNCHANGED flightVars
  BY DEF Portal, Answer, PortalStarts, PortalVanishes, ForeignResponse, clientVars
<1>12. UNCHANGED sectionVars => UNCHANGED flightVars
  BY DEF sectionVars, clientVars
<1>13. QED
  BY <1>2, <1>3, <1>4, <1>5, <1>6, <1>7, <1>8, <1>9, <1>10, <1>11, <1>12 DEF Section

-----------------------------------------------------------------------------
(* Queues: what stays true of their messages.                              *)

\* A message leaves the outbox; the others stay as they were.
LEMMA ReceivingTail ==
  ASSUME BusTypes, NEW type, Receiving(type)
  PROVE  /\ Head(outbox) = outbox[1] /\ Head(outbox) \in OutboxMessages
         /\ Head(outbox).type = type
         /\ 1 \in 1..Len(outbox)
         /\ \A i \in 1..Len(outbox') :
              /\ i + 1 \in 1..Len(outbox)
              /\ outbox'[i] = outbox[i + 1]
  BY TailIndices DEF BusTypes, Receiving

\* The call that the portal receives was not received before.
LEMMA HeadUnreceived ==
  ASSUME BusTypes, OutboxInv, Receiving("call")
  PROVE  /\ Head(outbox).handle \in Handles /\ Unreceived(Head(outbox).handle)
         /\ \A i \in 1..Len(outbox') :
              outbox'[i].type = "call" => outbox'[i].handle # Head(outbox).handle
<1>1. /\ Head(outbox) = outbox[1] /\ Head(outbox) \in OutboxMessages
      /\ Head(outbox).type = "call"
      /\ 1 \in 1..Len(outbox)
  BY ReceivingTail
<1>2. Head(outbox).handle \in Handles
  BY <1>1, OutboxFields
<1>3. Unreceived(Head(outbox).handle)
  BY <1>1 DEF OutboxInv
<1>4. ASSUME NEW i \in 1..Len(outbox'), outbox'[i].type = "call"
      PROVE  outbox'[i].handle # Head(outbox).handle
  <2>1. i + 1 \in 1..Len(outbox) /\ outbox'[i] = outbox[i + 1] /\ i + 1 # 1
    BY ReceivingTail
  <2>2. QED
    BY <1>1, <1>4, <2>1 DEF OutboxInv
<1>5. QED
  BY <1>2, <1>3, <1>4

\* What the portal has decided, or exported, it does not take back.
LEMMA NextPersistent ==
  ASSUME CallInv, OutboxInv, [Section]_sectionVars
  PROVE  Persistent
<1> USE DEF portalVars, objectVars
<1>0. BusTypes /\ ObjectTypes
  BY DEF CallInv, SectionTypes
<1>1. CASE UNCHANGED objectVars
  BY <1>1 DEF Persistent, Decided
<1>2. CASE ReceiveCall
  <2>1. Head(outbox).handle \in Handles /\ Unreceived(Head(outbox).handle)
    BY <1>0, <1>2, HeadUnreceived DEF ReceiveCall
  <2>2. PICK p \in FreePaths(Head(outbox).handle) : home' = [home EXCEPT ![Head(outbox).handle] = p]
    BY <1>2 DEF ReceiveCall
  <2>3. \A g \in Handles \ {Head(outbox).handle} :
          stage'[g] = stage[g] /\ home'[g] = home[g] /\ answer'[g] = answer[g]
    BY <1>0, <1>2, <2>2 DEF ReceiveCall, ObjectTypes
  <2>4. QED
    BY <2>1, <2>3 DEF Persistent, Decided, Unreceived
<1>3. ASSUME NEW h \in Handles, Reply(h) PROVE Persistent
  BY <1>3 DEF Reply, Persistent, Decided
<1>4. ASSUME NEW h \in Handles, NEW code \in Answers, Answer(h, code) PROVE Persistent
  BY <1>0, <1>4 DEF Answer, Persistent, Decided, ObjectTypes
<1>5. CASE ReceiveClose
  BY <1>0, <1>5 DEF ReceiveClose, Persistent, Decided, ObjectTypes
<1>6. CASE PortalVanishes
  BY <1>0, <1>6 DEF PortalVanishes, Persistent, Decided, ObjectTypes
<1>7. MainThread => UNCHANGED objectVars
  BY DEF MainThread, BeginRequest, ResolveClose, SendClose, FinishClose, AbandonClose
<1>8. WorkerThread => UNCHANGED objectVars
  BY DEF WorkerThread, IssueCall, OnPortalAppeared, OnPortalVanished, FailPendingRequests,
         OnCallFailed, OnCallStarted, DeliverEarlyResponse, OnRequestResponse, HoldUnclaimed
<1>9. Bus => \/ UNCHANGED objectVars
             \/ ReceiveCall \/ ReceiveClose \/ \E h \in Handles : Reply(h)
  BY DEF Bus, CallTimesOut, BusReportsNoReply, RefuseCall
<1>10. Portal => \/ UNCHANGED objectVars
                 \/ PortalVanishes \/ \E h \in Handles, code \in Answers : Answer(h, code)
  BY DEF Portal, PortalStarts, ForeignResponse
<1>11. UNCHANGED sectionVars => UNCHANGED objectVars
  BY DEF sectionVars
<1>12. QED
  BY <1>1, <1>2, <1>3, <1>4, <1>5, <1>6, <1>7, <1>8, <1>9, <1>10, <1>11 DEF Section

-----------------------------------------------------------------------------
(* Calls on their way to the portal.                                       *)

\* The outbox is as it was, and nothing in it was received.
LEMMA OutboxKept ==
  ASSUME OutboxInv, BusTypes, UNCHANGED outbox,
         \A h \in Handles : Unreceived(h) => Unreceived(h)',
         \A h \in Handles : call'[h] \in {"idle", "queued"} => stage'[h] = "none"
  PROVE  OutboxInv'
<1>1. \A i \in 1..Len(outbox) : outbox[i].type = "call" => outbox[i].handle \in Handles
  BY OutboxFields DEF BusTypes
<1>2. QED
  BY <1>1 DEF OutboxInv, Unreceived

\* A message leaves the outbox: only its own call was received, if it is one.
LEMMA OutboxTail ==
  ASSUME OutboxInv, BusTypes, NEW type, Receiving(type),
         \A h \in Handles :
           Unreceived(h) /\ ~(type = "call" /\ h = Head(outbox).handle) => Unreceived(h)',
         \A h \in Handles : call'[h] \in {"idle", "queued"} => stage'[h] = "none"
  PROVE  OutboxInv'
<1>1. \A i \in 1..Len(outbox) : outbox[i].type = "call" => outbox[i].handle \in Handles
  BY OutboxFields DEF BusTypes
<1>2. \A i \in 1..Len(outbox') : i + 1 \in 1..Len(outbox) /\ outbox'[i] = outbox[i + 1]
  BY ReceivingTail
<1>3. ASSUME NEW i \in 1..Len(outbox'), outbox'[i].type = "call"
      PROVE  UnreceivedNext(outbox'[i].handle)
  <2>1. ~(type = "call" /\ outbox'[i].handle = Head(outbox).handle)
    BY <1>3, HeadUnreceived
  <2>2. Unreceived(outbox[i + 1].handle) /\ outbox[i + 1].handle \in Handles
    BY <1>1, <1>2, <1>3 DEF OutboxInv
  <2>3. QED
    BY <1>2, <2>1, <2>2 DEF Unreceived, UnreceivedNext
<1>4. \A i, j \in 1..Len(outbox') :
        i # j /\ outbox'[i].type = "call" /\ outbox'[j].type = "call"
          => outbox'[i].handle # outbox'[j].handle
  BY <1>2 DEF OutboxInv
<1>5. QED
  BY <1>3, <1>4 DEF OutboxInv, Unreceived, UnreceivedNext

\* A message joins the outbox; a call, only if it is not there already.
LEMMA OutboxAppend ==
  ASSUME OutboxInv, BusTypes, NEW m \in OutboxMessages, outbox' = Append(outbox, m),
         \A h \in Handles : Unreceived(h) => Unreceived(h)',
         \A h \in Handles : call'[h] \in {"idle", "queued"} => stage'[h] = "none",
         m.type = "call" => Unreceived(m.handle)' /\ ~Unreceived(m.handle)
  PROVE  OutboxInv'
<1>1. \A i \in 1..Len(outbox) : outbox[i].type = "call" => outbox[i].handle \in Handles
  BY OutboxFields DEF BusTypes
<1>2. /\ Len(outbox') = Len(outbox) + 1 /\ Len(outbox) \in Nat
      /\ \A i \in 1..Len(outbox) : outbox'[i] = outbox[i]
      /\ outbox'[Len(outbox) + 1] = m
  BY AppendIndices DEF BusTypes
<1>3. ASSUME NEW i \in 1..Len(outbox'), outbox'[i].type = "call"
      PROVE  UnreceivedNext(outbox'[i].handle)
  <2>1. CASE i = Len(outbox) + 1
    BY <1>2, <1>3, <2>1 DEF Unreceived, UnreceivedNext
  <2>2. CASE i \in 1..Len(outbox)
    BY <1>1, <1>2, <1>3, <2>2 DEF OutboxInv, Unreceived, UnreceivedNext
  <2>3. QED
    BY <1>2, <2>1, <2>2
<1>4. ASSUME NEW i \in 1..Len(outbox'), NEW j \in 1..Len(outbox'), i # j,
             outbox'[i].type = "call", outbox'[j].type = "call"
      PROVE  outbox'[i].handle # outbox'[j].handle
  <2>1. \A k \in 1..Len(outbox) : outbox[k].type = "call" => Unreceived(outbox[k].handle)
    BY DEF OutboxInv
  <2>2. CASE i \in 1..Len(outbox) /\ j \in 1..Len(outbox)
    BY <1>2, <1>4, <2>2 DEF OutboxInv
  <2>3. CASE i = Len(outbox) + 1 /\ j \in 1..Len(outbox)
    BY <1>2, <1>4, <2>1, <2>3
  <2>4. CASE i \in 1..Len(outbox) /\ j = Len(outbox) + 1
    BY <1>2, <1>4, <2>1, <2>4
  <2>5. QED
    BY <1>2, <1>4, <2>2, <2>3, <2>4
<1>5. QED
  BY <1>3, <1>4 DEF OutboxInv, Unreceived, UnreceivedNext

LEMMA NextOutbox ==
  ASSUME CallInv, OutboxInv, [Section]_sectionVars
  PROVE  OutboxInv'
<1> USE DEF portalVars, objectVars, busVars
<1>0. BusTypes /\ ObjectTypes /\ CloseTypes /\ OutcomesSettled
  BY DEF CallInv, SectionTypes
<1>1. CASE UNCHANGED <<call, outbox, stage>>
  BY <1>1 DEF OutboxInv, Unreceived
<1>2. ASSUME NEW h \in Handles, BeginRequest(h) PROVE OutboxInv'
  <2>1. /\ \A g \in Handles : Unreceived(g) => Unreceived(g)'
        /\ \A g \in Handles : call'[g] \in {"idle", "queued"} => stage'[g] = "none"
    BY <1>0, <1>2 DEF BusTypes, OutboxInv, Unreceived, BeginRequest
  <2>2. QED
    BY <1>0, <1>2, <2>1, OutboxKept DEF BeginRequest
<1>3. CASE SendClose
  <2>1. closing \in Closings
    BY <1>0, <1>3 DEF CloseTypes, SendClose, NotClosing
  <2>2. [type |-> "close", path |-> closing.path, attempt |-> closes] \in OutboxMessages
    BY <1>0, <2>1 DEF CloseTypes, Closings, OutboxMessages
  <2>3. QED
    BY <1>0, <1>3, <2>2, OutboxAppend DEF SendClose, OutboxInv, Unreceived
<1>4. ASSUME NEW h \in Handles, IssueCall(h) PROVE OutboxInv'
  <2>1. [type |-> "call", handle |-> h] \in OutboxMessages
    BY DEF OutboxMessages
  <2>2. /\ \A g \in Handles : Unreceived(g) => Unreceived(g)'
        /\ \A g \in Handles : call'[g] \in {"idle", "queued"} => stage'[g] = "none"
        /\ Unreceived(h)' /\ ~Unreceived(h)
    BY <1>0, <1>4 DEF BusTypes, OutboxInv, Unreceived, IssueCall
  <2>3. outbox' = Append(outbox, [type |-> "call", handle |-> h])
    BY <1>4 DEF IssueCall
  <2>4. QED
    BY <1>0, <2>1, <2>2, <2>3, OutboxAppend DEF Unreceived
<1>5. ASSUME OnCallFailed \/ OnCallStarted PROVE OutboxInv'
  <2>1. Head(inbox).handle \in Handles /\ call[Head(inbox).handle] = "settled"
    BY <1>0, <1>5, HandlingKeepsOutcomes DEF OnCallFailed, OnCallStarted
  <2>2. UNCHANGED <<outbox, stage>> /\ CallHandled(Head(inbox).handle)
    BY <1>5 DEF OnCallFailed, OnCallStarted
  <2>3. /\ \A g \in Handles : Unreceived(g) => Unreceived(g)'
        /\ \A g \in Handles : call'[g] \in {"idle", "queued"} => stage'[g] = "none"
    BY <1>0, <2>1, <2>2 DEF BusTypes, OutboxInv, Unreceived, CallHandled
  <2>4. QED
    BY <1>0, <2>2, <2>3, OutboxKept
<1>6. \A h \in Handles : \A m : Settle(h, m) =>
        \A g \in Handles :
          \/ call'[g] = call[g]
          \/ call[g] \notin {"idle", "queued"} /\ call'[g] \notin {"idle", "queued"}
  BY <1>0 DEF BusTypes, Settle
<1>7. ASSUME NEW h \in Handles, CallTimesOut(h) \/ BusReportsNoReply(h) \/ Reply(h)
      PROVE  OutboxInv'
  <2>1. UNCHANGED <<outbox, stage>> /\ \E m : Settle(h, m)
    BY <1>7 DEF CallTimesOut, BusReportsNoReply, Reply
  <2>2. QED
    BY <1>0, <1>6, <2>1, OutboxKept DEF OutboxInv, Unreceived
<1>8. CASE ReceiveCall
  <2> DEFINE h == Head(outbox).handle
  <2>1. h \in Handles /\ Unreceived(h)
    BY <1>0, <1>8, HeadUnreceived DEF ReceiveCall
  <2>2. /\ \A g \in Handles : Unreceived(g) /\ g # h => Unreceived(g)'
        /\ \A g \in Handles : call'[g] \in {"idle", "queued"} => stage'[g] = "none"
    BY <1>0, <1>8, <2>1 DEF ObjectTypes, OutboxInv, Unreceived, ReceiveCall
  <2>3. QED
    BY <1>0, <1>8, <2>2, OutboxTail DEF ReceiveCall
<1>9. CASE RefuseCall
  <2> DEFINE h == Head(outbox).handle
  <2>1. h \in Handles /\ Settle(h, Failed(h)) /\ UNCHANGED stage /\ Receiving("call")
    BY <1>0, <1>9, HeadUnreceived DEF RefuseCall
  <2>2. QED
    BY <1>0, <1>6, <2>1, OutboxTail DEF OutboxInv, Unreceived
<1>10. CASE ReceiveClose
  <2>1. UNCHANGED call /\ Receiving("close")
    BY <1>10 DEF ReceiveClose
  <2>2. \A h \in Handles : stage[h] = "none" => stage'[h] = "none"
    BY <1>0, <1>10 DEF ReceiveClose, ObjectTypes, Live
  <2>3. QED
    BY <1>0, <2>1, <2>2, OutboxTail DEF OutboxInv, Unreceived
<1>11. ASSUME NEW h \in Handles, NEW code \in Answers, Answer(h, code) PROVE OutboxInv'
  <2>1. UNCHANGED <<call, outbox>> /\ \A g \in Handles : stage[g] = "none" => stage'[g] = "none"
    BY <1>0, <1>11 DEF Answer, ObjectTypes
  <2>2. QED
    BY <1>0, <2>1, OutboxKept DEF OutboxInv, Unreceived
<1>12. CASE PortalVanishes
  <2>1. UNCHANGED <<call, outbox>> /\ \A g \in Handles : stage[g] = "none" => stage'[g] = "none"
    BY <1>0, <1>12 DEF PortalVanishes, ObjectTypes
  <2>2. QED
    BY <1>0, <2>1, OutboxKept DEF OutboxInv, Unreceived
<1>13. MainThread =>
         \/ UNCHANGED <<call, outbox, stage>>
         \/ SendClose \/ \E h \in Handles : BeginRequest(h)
  BY DEF MainThread, ResolveClose, FinishClose, AbandonClose
<1>14. WorkerThread =>
         \/ UNCHANGED <<call, outbox, stage>>
         \/ OnCallFailed \/ OnCallStarted \/ \E h \in Handles : IssueCall(h)
  BY DEF WorkerThread, OnPortalAppeared, OnPortalVanished, FailPendingRequests,
         DeliverEarlyResponse, OnRequestResponse, HoldUnclaimed
<1>15. Portal =>
         \/ UNCHANGED <<call, outbox, stage>>
         \/ PortalVanishes \/ \E h \in Handles, code \in Answers : Answer(h, code)
  BY DEF Portal, PortalStarts, ForeignResponse
<1>16. UNCHANGED sectionVars => UNCHANGED <<call, outbox, stage>>
  BY DEF sectionVars
<1>17. QED
  BY <1>1, <1>2, <1>3, <1>4, <1>5, <1>7, <1>8, <1>9, <1>10, <1>11, <1>12, <1>13, <1>14, <1>15,
     <1>16 DEF Section, Bus

-----------------------------------------------------------------------------
(* The homes of Request objects.                                           *)

LEMMA NextHomes ==
  ASSUME CallInv, OutboxInv, HomesInv, [Section]_sectionVars
  PROVE  HomesInv'
<1> USE DEF portalVars, objectVars
<1>0. BusTypes /\ ObjectTypes
  BY DEF CallInv, SectionTypes
<1>1. ASSUME UNCHANGED home, \A h \in Handles : stage[h] = "none" => stage'[h] = "none"
      PROVE  HomesInv'
  BY <1>1 DEF HomesInv
<1>2. CASE ReceiveCall
  <2> DEFINE h == Head(outbox).handle
  <2>1. h \in Handles /\ stage[h] = "none"
    BY <1>0, <1>2, HeadUnreceived DEF ReceiveCall, Unreceived
  <2>2. PICK p \in FreePaths(h) : home' = [home EXCEPT ![h] = p]
    BY <1>2 DEF ReceiveCall
  <2>3. /\ p \in {h} \cup AltPaths
        /\ \A g \in Handles : stage[g] # "none" => home[g] # p
    BY <2>2 DEF FreePaths
  <2>4. /\ home'[h] = p
        /\ \A g \in Handles \ {h} : home'[g] = home[g] /\ stage'[g] = stage[g]
    BY <1>0, <1>2, <2>1, <2>2 DEF ObjectTypes, ReceiveCall
  <2>5. QED
    BY <2>3, <2>4 DEF HomesInv
<1>3. ASSUME NEW h \in Handles, NEW code \in Answers, Answer(h, code) PROVE HomesInv'
  BY <1>0, <1>1, <1>3 DEF Answer, ObjectTypes
<1>4. CASE ReceiveClose
  BY <1>0, <1>1, <1>4 DEF ReceiveClose, ObjectTypes, Live
<1>5. CASE PortalVanishes
  BY <1>0, <1>1, <1>5 DEF PortalVanishes, ObjectTypes
<1>6. MainThread => UNCHANGED <<home, stage>>
  BY DEF MainThread, BeginRequest, ResolveClose, SendClose, FinishClose, AbandonClose
<1>7. WorkerThread => UNCHANGED <<home, stage>>
  BY DEF WorkerThread, IssueCall, OnPortalAppeared, OnPortalVanished, FailPendingRequests,
         OnCallFailed, OnCallStarted, DeliverEarlyResponse, OnRequestResponse, HoldUnclaimed
<1>8. Bus => UNCHANGED <<home, stage>> \/ ReceiveCall \/ ReceiveClose
  BY DEF Bus, CallTimesOut, BusReportsNoReply, RefuseCall, Reply
<1>9. Portal =>
        \/ UNCHANGED <<home, stage>>
        \/ PortalVanishes \/ \E h \in Handles, code \in Answers : Answer(h, code)
  BY DEF Portal, PortalStarts, ForeignResponse
<1>10. UNCHANGED sectionVars => UNCHANGED <<home, stage>>
  BY DEF sectionVars
<1>11. QED
  BY <1>1, <1>2, <1>3, <1>4, <1>5, <1>6, <1>7, <1>8, <1>9, <1>10 DEF Section

-----------------------------------------------------------------------------
(* Messages stay true, because the portal takes nothing back.              *)

LEMMA TruthPersists ==
  ASSUME Persistent
  PROVE  /\ \A path, code : Genuine(path, code) => GenuineNext(path, code)
         /\ \A m \in InboxMessages : Truthful(m) => TruthfulNext(m)
<1>1. \A path, code : Genuine(path, code) => GenuineNext(path, code)
  BY DEF Persistent, Genuine, GenuineNext, Decided
<1>2. \A m \in InboxMessages : Truthful(m) => TruthfulNext(m)
  BY <1>1, InboxFields DEF Persistent, Truthful, TruthfulNext
<1>3. QED
  BY <1>1, <1>2

\* The worker's queue keeps its messages, loses its head, or gets a true one.
InboxTrue == \A i \in 1..Len(inbox) : Truthful(inbox[i])

LEMMA NextInboxTrue ==
  ASSUME Persistent, BusTypes, InboxTrue,
         \/ UNCHANGED inbox
         \/ \E type : Dispatching(type)
         \/ \E m \in InboxMessages : inbox' = Append(inbox, m) /\ TruthfulNext(m)
  PROVE  InboxTrue'
<1>1. \A i \in 1..Len(inbox) : inbox[i] \in InboxMessages
  BY DEF BusTypes
<1>2. \A i \in 1..Len(inbox) : TruthfulNext(inbox[i])
  BY <1>1, TruthPersists DEF InboxTrue
<1>3. \A i \in 1..Len(inbox') : TruthfulNext(inbox'[i])
  <2>1. CASE UNCHANGED inbox
    BY <1>2, <2>1
  <2>2. ASSUME NEW type, Dispatching(type) PROVE \A i \in 1..Len(inbox') : TruthfulNext(inbox'[i])
    <3>1. \A i \in 1..Len(inbox') : i + 1 \in 1..Len(inbox) /\ inbox'[i] = inbox[i + 1]
      BY <2>2, TailIndices DEF BusTypes, Dispatching
    <3>2. QED
      BY <1>2, <3>1
  <2>3. ASSUME NEW m \in InboxMessages, inbox' = Append(inbox, m), TruthfulNext(m)
        PROVE  \A i \in 1..Len(inbox') : TruthfulNext(inbox'[i])
    <3>1. /\ Len(inbox') = Len(inbox) + 1 /\ Len(inbox) \in Nat
          /\ \A i \in 1..Len(inbox) : inbox'[i] = inbox[i]
          /\ inbox'[Len(inbox) + 1] = m
      BY <2>3, AppendIndices DEF BusTypes
    <3>2. ASSUME NEW i \in 1..Len(inbox') PROVE TruthfulNext(inbox'[i])
      <4>1. CASE i = Len(inbox) + 1
        BY <2>3, <3>1, <4>1
      <4>2. CASE i \in 1..Len(inbox)
        BY <1>2, <3>1, <4>2
      <4>3. QED
        BY <3>1, <4>1, <4>2
    <3>3. QED
      BY <3>2
  <2>4. QED
    BY <2>1, <2>2, <2>3
<1>4. QED
  BY <1>3 DEF InboxTrue, Truthful, TruthfulNext, Genuine, GenuineNext, Decided

\* Whatever joins the worker's queue is true when it does.
LEMMA NextInbox ==
  ASSUME CallInv, OutboxInv, MessagesInv, [Section]_sectionVars
  PROVE  InboxTrue'
<1> USE DEF portalVars, objectVars, busVars
<1>0. BusTypes /\ ObjectTypes /\ NameTypes /\ InboxTrue /\ Persistent
  BY NextPersistent DEF CallInv, SectionTypes, MessagesInv, InboxTrue
<1>1. CASE UNCHANGED inbox \/ \E type : Dispatching(type)
  BY <1>0, <1>1, NextInboxTrue
<1>2. ASSUME NEW m \in InboxMessages, TruthfulNext(m), inbox' = Append(inbox, m)
      PROVE  InboxTrue'
  BY <1>0, <1>2, NextInboxTrue
<1>3. ASSUME NEW h \in Handles, Settle(h, Failed(h)) PROVE InboxTrue'
  <2>1. Failed(h) \in InboxMessages /\ TruthfulNext(Failed(h))
    BY FailedType DEF Failed, TruthfulNext
  <2>2. QED
    BY <1>1, <1>2, <1>3, <2>1 DEF Settle
<1>4. ASSUME NEW h \in Handles, Reply(h) PROVE InboxTrue'
  <2> DEFINE m == [type |-> "started", handle |-> h, path |-> home[h]]
  <2>1. m \in InboxMessages
    BY <1>0 DEF ObjectTypes, InboxMessages
  <2>2. TruthfulNext(m)
    BY <1>4 DEF TruthfulNext, Reply
  <2>3. Settle(h, m)
    BY <1>4 DEF Reply
  <2>4. QED
    BY <1>1, <1>2, <2>1, <2>2, <2>3 DEF Settle
<1>5. ASSUME NEW h \in Handles, NEW code \in Answers, Answer(h, code) PROVE InboxTrue'
  <2> DEFINE m == [type |-> "response", path |-> home[h], code |-> code]
  <2>1. code \in Codes
    BY BoundsAssumption
  <2>2. m \in InboxMessages
    BY <1>0, <2>1 DEF ObjectTypes, InboxMessages
  <2>3. /\ stage'[h] \notin {"none", "open"} /\ home'[h] = home[h] /\ answer'[h] = code
        /\ inbox' = Append(inbox, m)
    BY <1>0, <1>5 DEF ObjectTypes, Answer
  <2>4. TruthfulNext(m)
    BY <2>3 DEF TruthfulNext, GenuineNext
  <2>5. QED
    BY <1>2, <2>2, <2>3, <2>4
<1>6. CASE PortalStarts
  <2> DEFINE m == [type |-> "appeared", owner |-> instances + 1]
  <2>1. m \in InboxMessages /\ TruthfulNext(m)
    BY <1>0 DEF NameTypes, InboxMessages, NoOwner, TruthfulNext
  <2>2. QED
    BY <1>2, <1>6, <2>1 DEF PortalStarts
<1>7. CASE PortalVanishes
  <2> DEFINE m == [type |-> "vanished"]
  <2>1. m \in InboxMessages /\ TruthfulNext(m)
    BY DEF InboxMessages, TruthfulNext
  <2>2. QED
    BY <1>2, <1>7, <2>1 DEF PortalVanishes
<1>8. CASE ForeignResponse
  <2> DEFINE m == [type |-> "response", path |-> ForeignPath, code |-> Success]
  <2>1. m \in InboxMessages /\ TruthfulNext(m)
    BY DEF InboxMessages, Paths, Codes, Success, TruthfulNext, GenuineNext
  <2>2. QED
    BY <1>2, <1>8, <2>1 DEF ForeignResponse
<1>9. MainThread => UNCHANGED inbox
  BY DEF MainThread, BeginRequest, ResolveClose, SendClose, FinishClose, AbandonClose
<1>10. WorkerThread => UNCHANGED inbox \/ \E type : Dispatching(type)
  BY DEF WorkerThread, IssueCall, OnPortalAppeared, OnPortalVanished, FailPendingRequests,
         OnCallFailed, OnCallStarted, DeliverEarlyResponse, OnRequestResponse, HoldUnclaimed
<1>11. CASE RefuseCall
  <2>1. Head(outbox).handle \in Handles /\ Settle(Head(outbox).handle, Failed(Head(outbox).handle))
    BY <1>0, <1>11, HeadUnreceived DEF RefuseCall
  <2>2. QED
    BY <1>3, <2>1
<1>12. Bus =>
         \/ UNCHANGED inbox \/ RefuseCall
         \/ \E h \in Handles : Settle(h, Failed(h)) \/ Reply(h)
  BY DEF Bus, CallTimesOut, BusReportsNoReply, ReceiveCall, ReceiveClose
<1>13. UNCHANGED sectionVars => UNCHANGED inbox
  BY DEF sectionVars
<1>14. QED
  BY <1>1, <1>3, <1>4, <1>5, <1>6, <1>7, <1>8, <1>9, <1>10, <1>11, <1>12, <1>13 DEF Section, Portal

\* What the worker carries from one lock section to the next came from its queue
\* or from the Responses it held.
LEMMA NextWorker ==
  ASSUME CallInv, OutboxInv, MessagesInv, [Section]_sectionVars
  PROVE  (worker.step \in {"deliver", "hold"} => Genuine(worker.path, worker.code))'
<1> DEFINE Carried == worker.step \in {"deliver", "hold"} => Genuine(worker.path, worker.code)
<1>0. BusTypes /\ FlightTypes /\ Persistent
  BY NextPersistent DEF CallInv, SectionTypes
<1>1. CASE worker'.step \notin {"deliver", "hold"}
  BY <1>1
<1>2. ASSUME worker'.step \in {"deliver", "hold"}, GenuineNext(worker'.path, worker'.code)
      PROVE  Carried'
  BY <1>2 DEF Genuine, GenuineNext, Decided
<1>3. CASE UNCHANGED worker
  <2>1. worker.step \in {"deliver", "hold"} => GenuineNext(worker.path, worker.code)
    BY <1>0, TruthPersists DEF MessagesInv
  <2>2. QED
    BY <1>3, <1>1, <1>2, <2>1
<1>4. CASE OnCallStarted
  <2>1. ASSUME NEW i \in 1..Len(unclaimed_responses),
               unclaimed_responses[i].path = Head(inbox).path,
               worker' = [step |-> "deliver", path |-> Head(inbox).path,
                          code |-> unclaimed_responses[i].code]
        PROVE  Carried'
    <3>1. GenuineNext(unclaimed_responses[i].path, unclaimed_responses[i].code)
      BY <1>0, TruthPersists DEF MessagesInv
    <3>2. QED
      BY <1>2, <2>1, <3>1
  <2>2. worker' = Idle \/ \E i \in 1..Len(unclaimed_responses) :
          /\ unclaimed_responses[i].path = Head(inbox).path
          /\ worker' = [step |-> "deliver", path |-> Head(inbox).path,
                        code |-> unclaimed_responses[i].code]
    BY <1>0, <1>4 DEF FlightTypes, OnCallStarted, ClaimEarlyResponse
  <2>3. QED
    BY <1>1, <2>1, <2>2 DEF Idle
<1>5. CASE OnRequestResponse
  <2>1. Head(inbox) = inbox[1] /\ 1 \in 1..Len(inbox) /\ Head(inbox).type = "response"
    BY <1>0, <1>5, TailIndices DEF BusTypes, OnRequestResponse, Dispatching
  <2>2. GenuineNext(Head(inbox).path, Head(inbox).code)
    BY <1>0, <2>1, TruthPersists DEF MessagesInv, Truthful
  <2>3. CASE worker' = Idle
    BY <1>1, <2>3 DEF Idle
  <2>4. CASE worker' = [step |-> "hold", path |-> Head(inbox).path, code |-> Head(inbox).code]
    BY <1>2, <2>2, <2>4
  <2>5. QED
    BY <1>5, <2>3, <2>4 DEF OnRequestResponse
<1>6. MainThread => UNCHANGED worker
  BY DEF MainThread, BeginRequest, ResolveClose, SendClose, FinishClose, AbandonClose
<1>7. WorkerThread =>
        \/ UNCHANGED worker \/ OnCallStarted \/ OnRequestResponse
        \/ worker' = Idle \/ worker'.step = "fail"
  <2>1. OnPortalAppeared \/ OnPortalVanished => worker' = Idle \/ worker'.step = "fail"
    BY DEF OnPortalAppeared, OnPortalVanished
  <2>2. QED
    BY <2>1 DEF WorkerThread, IssueCall, FailPendingRequests, OnCallFailed, DeliverEarlyResponse,
                HoldUnclaimed
<1>8. Bus => UNCHANGED worker
  BY DEF Bus, CallTimesOut, BusReportsNoReply, Reply, ReceiveCall, RefuseCall, ReceiveClose
<1>9. Portal => UNCHANGED worker
  BY DEF Portal, Answer, PortalStarts, PortalVanishes, ForeignResponse
<1>10. UNCHANGED sectionVars => UNCHANGED worker
  BY DEF sectionVars
<1>11. QED
  BY <1>3, <1>1, <1>4, <1>5, <1>6, <1>7, <1>8, <1>9, <1>10 DEF Section, Idle

\* Parts of a sequence, and two sequences together, have no new elements.
LEMMA SubSeqElements ==
  ASSUME NEW S, NEW s \in Seq(S), NEW m \in Int, NEW n \in Int, 1 <= m, n <= Len(s)
  PROVE  /\ SubSeq(s, m, n) \in Seq(S)
         /\ \A k \in 1..Len(SubSeq(s, m, n)) : \E j \in 1..Len(s) : SubSeq(s, m, n)[k] = s[j]
<1>1. Len(s) \in Nat /\ \A j \in m..n : s[j] \in S
  OBVIOUS
<1>2. /\ SubSeq(s, m, n) \in Seq(S)
      /\ Len(SubSeq(s, m, n)) = IF m <= n THEN n - m + 1 ELSE 0
      /\ \A k \in 1..(n - m + 1) : SubSeq(s, m, n)[k] = s[m + k - 1]
  BY <1>1, SubSeqProperties
<1>3. ASSUME NEW sub, sub = SubSeq(s, m, n)
      PROVE  \A k \in 1..Len(sub) : \E j \in 1..Len(s) : sub[k] = s[j]
  <2>1. /\ Len(sub) = IF m <= n THEN n - m + 1 ELSE 0
        /\ \A k \in 1..(n - m + 1) : sub[k] = s[m + k - 1]
    BY <1>2, <1>3
  <2>2. \A k \in 1..Len(sub) : k \in 1..(n - m + 1) /\ m + k - 1 \in 1..Len(s)
    BY <1>1, <2>1
  <2>3. QED
    BY <2>1, <2>2
<1>4. QED
  BY <1>2, <1>3

LEMMA ConcatElements ==
  ASSUME NEW S, NEW a \in Seq(S), NEW b \in Seq(S)
  PROVE  \A k \in 1..Len(a \o b) :
           \/ \E j \in 1..Len(a) : (a \o b)[k] = a[j]
           \/ \E j \in 1..Len(b) : (a \o b)[k] = b[j]
<1>1. /\ Len(a) \in Nat /\ Len(b) \in Nat
      /\ Len(a \o b) = Len(a) + Len(b)
      /\ \A k \in 1..(Len(a) + Len(b)) :
           (a \o b)[k] = IF k <= Len(a) THEN a[k] ELSE b[k - Len(a)]
  BY ConcatProperties
<1>2. \A k \in 1..(Len(a) + Len(b)) :
        k \in 1..Len(a) \/ (~(k <= Len(a)) /\ k - Len(a) \in 1..Len(b))
  BY <1>1
<1>3. QED
  BY <1>1, <1>2

LEMMA SubSeqIndices ==
  ASSUME NEW S, NEW s \in Seq(S), NEW i \in 1..Len(s)
  PROVE  \A k \in 1..Len(SubSeq(s, 1, i - 1) \o SubSeq(s, i + 1, Len(s))) :
           \E j \in 1..Len(s) :
             (SubSeq(s, 1, i - 1) \o SubSeq(s, i + 1, Len(s)))[k] = s[j]
<1> DEFINE a == SubSeq(s, 1, i - 1)
           b == SubSeq(s, i + 1, Len(s))
<1>1. /\ Len(s) \in Nat /\ i \in Nat
      /\ i - 1 \in Int /\ i + 1 \in Int /\ 1 <= 1 /\ i - 1 <= Len(s) /\ 1 <= i + 1
      /\ Len(s) <= Len(s)
  OBVIOUS
<1>2. a \in Seq(S) /\ \A k \in 1..Len(a) : \E j \in 1..Len(s) : a[k] = s[j]
  BY <1>1, SubSeqElements
<1>3. b \in Seq(S) /\ \A k \in 1..Len(b) : \E j \in 1..Len(s) : b[k] = s[j]
  BY <1>1, SubSeqElements
<1> HIDE DEF a, b
<1>4. \A k \in 1..Len(a \o b) :
        \/ \E j \in 1..Len(a) : (a \o b)[k] = a[j]
        \/ \E j \in 1..Len(b) : (a \o b)[k] = b[j]
  BY <1>2, <1>3, ConcatElements
<1>5. \A k \in 1..Len(a \o b) : \E j \in 1..Len(s) : (a \o b)[k] = s[j]
  <2> DEFINE c == a \o b
  <2>1. \A k \in 1..Len(c) :
          (\E j \in 1..Len(a) : c[k] = a[j]) \/ (\E j \in 1..Len(b) : c[k] = b[j])
    BY <1>4
  <2> HIDE DEF c
  <2>2. ASSUME NEW k \in 1..Len(c) PROVE \E j \in 1..Len(s) : c[k] = s[j]
    <3>1. ASSUME NEW j \in 1..Len(a), c[k] = a[j] PROVE \E i2 \in 1..Len(s) : c[k] = s[i2]
      BY <1>2, <3>1, Zenon
    <3>2. ASSUME NEW j \in 1..Len(b), c[k] = b[j] PROVE \E i2 \in 1..Len(s) : c[k] = s[i2]
      BY <1>3, <3>2, Zenon
    <3>. QED
      BY <2>1, <3>1, <3>2, Zenon
  <2>3. QED
    BY <2>2 DEF c
<1>6. QED
  BY <1>5 DEF a, b

\* A held Response was held before, or is the one the worker has in hand.
HeldFrom(r) ==
  \/ \E i \in 1..Len(unclaimed_responses) : unclaimed_responses[i] = r
  \/ worker.step = "hold" /\ r = [path |-> worker.path, code |-> worker.code]

LEMMA HeldSources ==
  ASSUME CallInv, [Section]_sectionVars
  PROVE  \A k \in 1..Len(unclaimed_responses') : HeldFrom(unclaimed_responses'[k])
<1> DEFINE Goal == \A k \in 1..Len(unclaimed_responses') : HeldFrom(unclaimed_responses'[k])
<1>0. FlightTypes
  BY DEF CallInv, SectionTypes
<1>1. CASE UNCHANGED unclaimed_responses \/ unclaimed_responses' = <<>>
  BY <1>1 DEF HeldFrom
<1>2. CASE OnCallStarted
  <2> DEFINE Without(i) == SubSeq(unclaimed_responses, 1, i - 1)
                             \o SubSeq(unclaimed_responses, i + 1, Len(unclaimed_responses))
  <2>1. ASSUME NEW i \in 1..Len(unclaimed_responses), unclaimed_responses' = Without(i)
        PROVE  Goal
    <3>1. unclaimed_responses \in Seq(Responses)
      BY <1>0 DEF FlightTypes
    <3>2. \A k \in 1..Len(Without(i)) :
            \E j \in 1..Len(unclaimed_responses) : Without(i)[k] = unclaimed_responses[j]
      BY <3>1, SubSeqIndices
    <3> HIDE DEF Without
    <3>3. QED
      BY <2>1, <3>2 DEF HeldFrom
  <2>2. ASSUME NEW i \in DOMAIN unclaimed_responses,
               unclaimed_responses' = StillClaimable(Without(i))
        PROVE  Goal
    <3>1. i \in 1..Len(unclaimed_responses)
      BY <1>0 DEF FlightTypes
    <3>2. QED
      BY <1>1, <2>1, <2>2, <3>1 DEF StillClaimable
  <2>3. CASE unclaimed_responses' = StillClaimable(unclaimed_responses)
    BY <1>1, <2>3 DEF StillClaimable
  <2>4. QED
    BY <1>2, <2>2, <2>3 DEF OnCallStarted, ClaimEarlyResponse
<1>3. CASE HoldUnclaimed
  <2> DEFINE r == [path |-> worker.path, code |-> worker.code]
  <2>1. HeldFrom(r)
    BY <1>3 DEF HoldUnclaimed, HeldFrom
  <2>2. ASSUME NEW room \in Seq(Responses), unclaimed_responses' = Append(room, r),
               \A k \in 1..Len(room) : HeldFrom(room[k])
        PROVE  Goal
    <3>1. \A k \in 1..Len(unclaimed_responses') :
            HeldFrom(unclaimed_responses'[k]) \/ unclaimed_responses'[k] = r
      BY <2>2
    <3>2. QED
      BY <2>1, <3>1
  <2>3. /\ unclaimed_responses \in Seq(Responses)
        /\ \A k \in 1..Len(unclaimed_responses) : HeldFrom(unclaimed_responses[k])
    BY <1>0 DEF FlightTypes, HeldFrom
  <2>4. unclaimed_responses # <<>> =>
          /\ Tail(unclaimed_responses) \in Seq(Responses)
          /\ \A k \in 1..Len(Tail(unclaimed_responses)) : HeldFrom(Tail(unclaimed_responses)[k])
    BY <1>0, TailIndices DEF FlightTypes, HeldFrom
  <2>5. Len(unclaimed_responses) >= MaxUnclaimed => unclaimed_responses # <<>>
    BY <1>0, BoundsAssumption DEF FlightTypes
  <2>6. \/ UNCHANGED unclaimed_responses
        \/ unclaimed_responses' = Append(unclaimed_responses, r)
        \/ unclaimed_responses # <<>> /\ unclaimed_responses' = Append(Tail(unclaimed_responses), r)
    BY <1>3, <2>5 DEF HoldUnclaimed
  <2>7. QED
    BY <1>1, <2>2, <2>3, <2>4, <2>6
<1>4. MainThread => UNCHANGED unclaimed_responses
  BY DEF MainThread, BeginRequest, ResolveClose, SendClose, FinishClose, AbandonClose,
         clientVars, flightVars
<1>5. WorkerThread =>
        \/ UNCHANGED unclaimed_responses \/ unclaimed_responses' = <<>>
        \/ OnCallStarted \/ HoldUnclaimed
  BY DEF WorkerThread, IssueCall, OnPortalAppeared, OnPortalVanished, FailPendingRequests,
         OnCallFailed, StillClaimable, DeliverEarlyResponse, OnRequestResponse, clientVars,
         flightVars
<1>6. Bus => UNCHANGED unclaimed_responses
  BY DEF Bus, CallTimesOut, BusReportsNoReply, Reply, ReceiveCall, RefuseCall, ReceiveClose,
         clientVars, flightVars
<1>7. Portal => UNCHANGED unclaimed_responses
  BY DEF Portal, Answer, PortalStarts, PortalVanishes, ForeignResponse, clientVars, flightVars
<1>8. UNCHANGED sectionVars => UNCHANGED unclaimed_responses
  BY DEF sectionVars, clientVars, flightVars
<1>9. QED
  BY <1>1, <1>2, <1>3, <1>4, <1>5, <1>6, <1>7, <1>8 DEF Section

LEMMA NextHeld ==
  ASSUME CallInv, OutboxInv, MessagesInv, [Section]_sectionVars
  PROVE  (\A i \in 1..Len(unclaimed_responses) :
            Genuine(unclaimed_responses[i].path, unclaimed_responses[i].code))'
<1>1. Persistent
  BY NextPersistent
<1>2. \A r : HeldFrom(r) => GenuineNext(r.path, r.code)
  BY <1>1, TruthPersists DEF MessagesInv, HeldFrom
<1>3. \A i \in 1..Len(unclaimed_responses') :
        GenuineNext(unclaimed_responses'[i].path, unclaimed_responses'[i].code)
  BY <1>2, HeldSources
<1>4. QED
  BY <1>3 DEF Genuine, GenuineNext, Decided

-----------------------------------------------------------------------------
(* Requests and their routes.                                              *)

RouteTypes == RequestTypes /\ HomesInv /\ PathsInv /\ RoutesMatchRequests

\* No request lives on another one's handle, and no two on one path.
LEMMA Apart ==
  ASSUME RouteTypes, NEW g \in Handles, NEW h \in Handles, g # h
  PROVE  /\ requests[g].path # h
         /\ Tracked(g) /\ Tracked(h) => requests[g].path # requests[h].path
         /\ stage[h] # "none" => requests[g].path # home[h]
<1>1. \/ requests[g].path = g
      \/ stage[g] # "none" /\ requests[g].path = home[g]
  BY DEF RouteTypes, PathsInv
<1>2. /\ home[g] \in {g} \cup AltPaths /\ home[h] \in {h} \cup AltPaths
      /\ stage[g] # "none" /\ stage[h] # "none" => home[g] # home[h]
  BY DEF RouteTypes, HomesInv
<1>3. g \notin AltPaths /\ h \notin AltPaths
  BY PathsAssumption
<1>4. Tracked(g) /\ Tracked(h) => requests[g].path # requests[h].path
  BY DEF RouteTypes, RequestTypes, RoutesMatchRequests
<1>5. QED
  BY <1>1, <1>2, <1>3, <1>4

LEMMA ForgetRoutes ==
  ASSUME RouteTypes, NEW h \in Handles, ForgetRequest(h)
  PROVE  /\ RoutesMatchRequests'
         /\ \A g \in Handles \ {h} : requests'[g] = requests[g]
         /\ requests'[h] = requests[h] \/ requests'[h] = Absent(h)
         /\ ~Tracked(h)'
<1>1. CASE ~Tracked(h)
  BY <1>1 DEF ForgetRequest, Tracked, requestVars, RouteTypes, RoutesMatchRequests
<1>2. CASE Tracked(h)
  <2>1. /\ requests' = [requests EXCEPT ![h] = Absent(h)]
        /\ request_paths' = [request_paths EXCEPT ![requests[h].path] = None, ![h] = None]
    BY <1>2 DEF ForgetRequest, Tracked
  <2>2. requests[h].path \in Paths /\ h \in Paths /\ None \notin Handles
    BY HandlesAssumption DEF RouteTypes, RequestTypes, Paths
  <2>3. /\ \A g \in Handles \ {h} : requests'[g] = requests[g]
        /\ requests'[h] = Absent(h)
        /\ ~Tracked(h)'
    BY <2>1 DEF RouteTypes, RequestTypes, Tracked, Absent
  <2>4. \A p \in Paths :
          request_paths'[p] = IF p \in {h, requests[h].path} THEN None ELSE request_paths[p]
    BY <2>1, <2>2 DEF RouteTypes, RequestTypes
  <2>5. ASSUME NEW g \in Handles, NEW p \in Paths
        PROVE  request_paths'[p] = g <=> Tracked(g)' /\ requests'[g].path = p
    <3>1. request_paths[p] = g <=> Tracked(g) /\ requests[g].path = p
      BY DEF RouteTypes, RoutesMatchRequests
    <3>2. CASE g = h
      BY <2>2, <2>3, <2>4, <3>1, <3>2
    <3>3. CASE g # h
      <4>1. requests[g].path # h /\ (Tracked(g) => requests[g].path # requests[h].path)
        BY <1>2, <3>3, Apart
      <4>2. Tracked(g)' <=> Tracked(g)
        BY <2>3, <3>3 DEF Tracked
      <4>3. QED
        BY <2>2, <2>3, <2>4, <3>1, <3>3, <4>1, <4>2
    <3>4. QED
      BY <3>2, <3>3
  <2>6. QED
    BY <2>3, <2>5 DEF RoutesMatchRequests
<1>3. QED
  BY <1>1, <1>2

LEMMA RemapRoutes ==
  ASSUME RouteTypes, NEW h \in Handles, stage[h] # "none", Remap(h, home[h])
  PROVE  /\ RoutesMatchRequests'
         /\ \A g \in Handles \ {h} : requests'[g] = requests[g]
         /\ requests'[h].status = requests[h].status
         /\ requests'[h].path \in {requests[h].path, home[h]}
<1>1. CASE UNCHANGED requestVars
  BY <1>1 DEF requestVars, RouteTypes, RoutesMatchRequests, Tracked
<1>2. CASE Tracked(h) /\ home[h] # requests[h].path
  <2>1. /\ requests' = [requests EXCEPT ![h] = [status |-> requests[h].status, path |-> home[h]]]
        /\ request_paths' = [request_paths EXCEPT ![home[h]] = h, ![requests[h].path] = None]
    BY <1>2 DEF Remap, Tracked
  <2>2. /\ requests[h].path \in Paths /\ home[h] \in Paths
        /\ None \notin Handles
    BY HandlesAssumption DEF RouteTypes, RequestTypes, HomesInv, Paths
  <2>3. /\ \A g \in Handles \ {h} : requests'[g] = requests[g]
        /\ requests'[h] = [status |-> requests[h].status, path |-> home[h]]
    BY <2>1 DEF RouteTypes, RequestTypes
  <2>4. \A p \in Paths :
          request_paths'[p] = IF p = requests[h].path THEN None
                              ELSE IF p = home[h] THEN h ELSE request_paths[p]
    BY <2>1, <2>2 DEF RouteTypes, RequestTypes
  <2>5. ASSUME NEW g \in Handles, NEW p \in Paths
        PROVE  request_paths'[p] = g <=> Tracked(g)' /\ requests'[g].path = p
    <3>1. request_paths[p] = g <=> Tracked(g) /\ requests[g].path = p
      BY DEF RouteTypes, RoutesMatchRequests
    <3>2. CASE g = h
      <4>1. Tracked(g)'
        BY <1>2, <2>3, <3>2 DEF Tracked
      <4>2. QED
        BY <1>2, <2>2, <2>3, <2>4, <3>1, <3>2, <4>1
    <3>3. CASE g # h
      <4>1. requests[g].path # home[h] /\ (Tracked(g) => requests[g].path # requests[h].path)
        BY <1>2, <3>3, Apart
      <4>2. Tracked(g)' <=> Tracked(g)
        BY <2>3, <3>3 DEF Tracked
      <4>3. QED
        BY <2>2, <2>3, <2>4, <3>1, <3>3, <4>1, <4>2
    <3>4. QED
      BY <3>2, <3>3
  <2>6. QED
    BY <2>3, <2>5 DEF RoutesMatchRequests
<1>3. QED
  BY <1>1, <1>2 DEF Remap, Tracked

LEMMA DeliverRoutes ==
  ASSUME RouteTypes, NEW path \in Paths, NEW code, DeliverResponse(path, code)
  PROVE  /\ RoutesMatchRequests'
         /\ \A g \in Handles :
              \/ requests'[g] = requests[g]
              \/ requests'[g] = Absent(g)
              \/ /\ requests[g].status = "pending" /\ requests'[g].status = "answered"
                 /\ requests'[g].path = requests[g].path
<1> DEFINE h == request_paths[path]
<1>1. CASE UNCHANGED requestVars
  BY <1>1 DEF requestVars, RouteTypes, RoutesMatchRequests, Tracked
<1>2. CASE h # None /\ ForgetRequest(h)
  <2>1. h \in Handles
    BY <1>2 DEF RouteTypes, RequestTypes
  <2>2. QED
    BY <1>2, <2>1, ForgetRoutes
<1>3. CASE /\ h # None /\ requests[h].status = "pending"
           /\ requests' = [requests EXCEPT ![h] = [status |-> "answered", path |-> requests[h].path]]
           /\ UNCHANGED request_paths
  <2>1. h \in Handles
    BY <1>3 DEF RouteTypes, RequestTypes
  <2>2. /\ \A g \in Handles \ {h} : requests'[g] = requests[g]
        /\ requests'[h].status = "answered" /\ requests'[h].path = requests[h].path
    BY <1>3, <2>1 DEF RouteTypes, RequestTypes
  <2>3. \A g \in Handles : (Tracked(g)' <=> Tracked(g)) /\ requests'[g].path = requests[g].path
    BY <1>3, <2>1, <2>2 DEF Tracked
  <2>4. QED
    BY <1>3, <2>2, <2>3 DEF RouteTypes, RoutesMatchRequests
<1>4. QED
  BY <1>1, <1>2, <1>3 DEF DeliverResponse

\* How a step may change one request.
PathStep(g) ==
  /\ \/ requests'[g].path \in {g, requests[g].path}
     \/ stage[g] # "none" /\ requests'[g].path = home[g]
  /\ call[g] = "idle" => requests'[g].status = "absent" \/ call'[g] # "idle"
  /\ call[g] # "idle" => call'[g] # "idle"

LEMMA AbsentFields == \A g : Absent(g).path = g /\ Absent(g).status = "absent"
BY DEF Absent

\* What a step that begins no request may do to one.
LEMMA LaterStep ==
  ASSUME NEW g \in Handles,
         call[g] = "idle" => requests[g].status = "absent",
         call[g] # "idle" => call'[g] # "idle",
         \/ requests'[g] = requests[g]
         \/ requests'[g] = Absent(g)
         \/ requests[g].status = "pending" /\ requests'[g].path = requests[g].path
  PROVE  PathStep(g)
<1>1. CASE requests'[g] = requests[g]
  BY <1>1 DEF PathStep
<1>2. CASE requests'[g] = Absent(g)
  BY <1>2, AbsentFields DEF PathStep
<1>3. CASE requests[g].status = "pending" /\ requests'[g].path = requests[g].path
  BY <1>3 DEF PathStep
<1>4. QED
  BY <1>1, <1>2, <1>3

LEMMA BeginRoutes ==
  ASSUME RouteTypes, CallInv, NEW h \in Handles, BeginRequest(h)
  PROVE  RoutesMatchRequests' /\ \A g \in Handles : PathStep(g)
<1>0. BusTypes
  BY DEF CallInv, SectionTypes
<1>1. h \in Paths /\ ~Tracked(h) /\ None \notin Handles
  BY HandlesAssumption DEF BeginRequest, RouteTypes, PathsInv, Tracked, Paths
<1>2. /\ requests'[h] = [status |-> "pending", path |-> h]
      /\ \A g \in Handles \ {h} : requests'[g] = requests[g]
      /\ \A p \in Paths : request_paths'[p] = IF p = h THEN h ELSE request_paths[p]
  BY <1>1 DEF BeginRequest, RouteTypes, RequestTypes
<1>3. ASSUME NEW g \in Handles, NEW p \in Paths
      PROVE  request_paths'[p] = g <=> Tracked(g)' /\ requests'[g].path = p
  <2>1. request_paths[p] = g <=> Tracked(g) /\ requests[g].path = p
    BY DEF RouteTypes, RoutesMatchRequests
  <2>2. CASE g = h
    BY <1>1, <1>2, <2>1, <2>2 DEF Tracked
  <2>3. CASE g # h
    <3>1. requests[g].path # h
      BY <2>3, Apart
    <3>2. Tracked(g)' <=> Tracked(g)
      BY <1>2, <2>3 DEF Tracked
    <3>3. QED
      BY <1>2, <2>1, <2>3, <3>1, <3>2
  <2>4. QED
    BY <2>2, <2>3
<1>4. ASSUME NEW g \in Handles PROVE PathStep(g)
  <2>1. CASE g = h
    <3>1. requests'[g].path = g /\ call'[g] = "queued"
      BY <1>0, <1>2, <2>1 DEF BeginRequest, BusTypes
    <3>2. QED
      BY <3>1 DEF PathStep
  <2>2. CASE g # h
    <3>1. requests'[g] = requests[g] /\ call'[g] = call[g]
      BY <1>0, <1>2, <2>2 DEF BeginRequest, BusTypes
    <3>2. QED
      BY <3>1, LaterStep DEF RouteTypes, PathsInv
  <2>3. QED
    BY <2>1, <2>2
<1>5. QED
  BY <1>3, <1>4 DEF RoutesMatchRequests

LEMMA NextRequests ==
  ASSUME RouteInv, [Section]_sectionVars
  PROVE  RoutesMatchRequests' /\ \A g \in Handles : PathStep(g)
<1> USE DEF busVars
<1>0. RouteTypes /\ CallInv /\ BusTypes /\ worker \in WorkerStates /\ CloseTypes /\ OutcomesSettled
  BY DEF RouteInv, RouteTypes, CallInv, SectionTypes
<1>1. \A g \in Handles : call[g] # "idle" => call'[g] # "idle"
  <2>1. CASE UNCHANGED call
    BY <2>1
  <2>2. ASSUME NEW h \in Handles, BeginRequest(h) \/ IssueCall(h)
        PROVE  \A g \in Handles : call[g] # "idle" => call'[g] # "idle"
    BY <1>0, <2>2 DEF BeginRequest, IssueCall, BusTypes
  <2>3. ASSUME NEW h, CallHandled(h) \/ \E m : Settle(h, m)
        PROVE  \A g \in Handles : call[g] # "idle" => call'[g] # "idle"
    BY <1>0, <2>3 DEF CallHandled, Settle, BusTypes
  <2>4. MainThread => UNCHANGED call \/ \E h \in Handles : BeginRequest(h)
    BY DEF MainThread, ResolveClose, SendClose, FinishClose, AbandonClose
  <2>5. WorkerThread =>
          UNCHANGED call \/ (\E h \in Handles : IssueCall(h)) \/ \E h : CallHandled(h)
    BY DEF WorkerThread, OnPortalAppeared, OnPortalVanished, FailPendingRequests, OnCallFailed,
           OnCallStarted, DeliverEarlyResponse, OnRequestResponse, HoldUnclaimed
  <2>6. Bus => UNCHANGED call \/ \E h, m : Settle(h, m)
    BY DEF Bus, CallTimesOut, BusReportsNoReply, Reply, ReceiveCall, RefuseCall, ReceiveClose
  <2>7. Portal => UNCHANGED call
    BY DEF Portal, Answer, PortalStarts, PortalVanishes, ForeignResponse
  <2>8. UNCHANGED sectionVars => UNCHANGED call
    BY DEF sectionVars
  <2>9. QED
    BY <2>1, <2>2, <2>3, <2>4, <2>5, <2>6, <2>7, <2>8 DEF Section
<1>2. \A g \in Handles : call[g] = "idle" => requests[g].status = "absent"
  BY <1>0 DEF RouteTypes, PathsInv
<1>3. CASE UNCHANGED requestVars
  BY <1>0, <1>1, <1>2, <1>3 DEF requestVars, PathStep, RouteTypes, RoutesMatchRequests, Tracked
<1>4. ASSUME NEW h \in Handles, ForgetRequest(h)
      PROVE  RoutesMatchRequests' /\ \A g \in Handles : PathStep(g)
  <2>1. /\ RoutesMatchRequests'
        /\ \A g \in Handles : requests'[g] = requests[g] \/ requests'[g] = Absent(g)
    BY <1>0, <1>4, ForgetRoutes
  <2>2. QED
    BY <1>1, <1>2, <2>1, LaterStep
<1>5. CASE FailPendingRequests
  <2>1. /\ \A g \in Handles : requests'[g] = Absent(g)
        /\ \A p \in Paths : request_paths'[p] = None
        /\ None \notin Handles
    BY <1>5, HandlesAssumption DEF FailPendingRequests
  <2>2. QED
    BY <1>1, <1>2, <2>1, LaterStep, AbsentFields DEF RoutesMatchRequests, Tracked
<1>6. CASE FinishClose
  <2>1. closing.handle \in Handles
    BY <1>0, <1>6 DEF CloseTypes, Closings, FinishClose, NotClosing
  <2>2. QED
    BY <1>4, <1>6, <2>1 DEF FinishClose
<1>7. CASE OnCallFailed
  <2>1. Head(inbox).handle \in Handles
    BY <1>0, <1>7, HandlingKeepsOutcomes DEF OnCallFailed
  <2>2. QED
    BY <1>4, <1>7, <2>1 DEF OnCallFailed, FailCall
<1>8. CASE OnCallStarted
  <2> DEFINE h == Head(inbox).handle
  <2>1. h \in Handles
    BY <1>0, <1>8, HandlingKeepsOutcomes DEF OnCallStarted
  <2>2. Head(inbox) = inbox[1] /\ 1 \in 1..Len(inbox) /\ Head(inbox).type = "started"
    BY <1>0, <1>8, TailIndices DEF BusTypes, OnCallStarted, Dispatching
  <2>3. stage[h] # "none" /\ Head(inbox).path = home[h]
    BY <2>2 DEF RouteInv, MessagesInv, Truthful
  <2>4. Remap(h, home[h])
    BY <1>8, <2>3 DEF OnCallStarted
  <2>5. /\ RoutesMatchRequests'
        /\ \A g \in Handles \ {h} : requests'[g] = requests[g]
        /\ requests'[h].status = requests[h].status
        /\ requests'[h].path \in {requests[h].path, home[h]}
    BY <1>0, <2>1, <2>3, <2>4, RemapRoutes
  <2>6. QED
    BY <1>1, <1>2, <2>1, <2>3, <2>5 DEF PathStep
<1>9. ASSUME NEW path \in Paths, NEW code, DeliverResponse(path, code)
      PROVE  RoutesMatchRequests' /\ \A g \in Handles : PathStep(g)
  <2>1. /\ RoutesMatchRequests'
        /\ \A g \in Handles :
             \/ requests'[g] = requests[g]
             \/ requests'[g] = Absent(g)
             \/ requests[g].status = "pending" /\ requests'[g].path = requests[g].path
    BY <1>0, <1>9, DeliverRoutes
  <2>2. QED
    BY <1>1, <1>2, <2>1, LaterStep
<1>10. CASE DeliverEarlyResponse
  BY <1>0, <1>9, <1>10, WorkerFields DEF DeliverEarlyResponse
<1>11. CASE OnRequestResponse
  <2>1. Head(inbox).path \in Paths
    BY <1>0, <1>11, DispatchTypes, InboxFields DEF OnRequestResponse
  <2>2. QED
    BY <1>9, <1>11, <2>1 DEF OnRequestResponse
<1>12. ASSUME NEW h \in Handles, BeginRequest(h)
       PROVE  RoutesMatchRequests' /\ \A g \in Handles : PathStep(g)
  BY <1>0, <1>12, BeginRoutes
<1>13. MainThread =>
         UNCHANGED requestVars \/ FinishClose \/ \E h \in Handles : BeginRequest(h)
  BY DEF MainThread, ResolveClose, SendClose, AbandonClose, clientVars
<1>14. WorkerThread =>
         \/ UNCHANGED requestVars
         \/ FailPendingRequests \/ OnCallFailed \/ OnCallStarted \/ DeliverEarlyResponse
         \/ OnRequestResponse
  BY DEF WorkerThread, IssueCall, OnPortalAppeared, OnPortalVanished, HoldUnclaimed, clientVars
<1>15. Bus => UNCHANGED requestVars
  BY DEF Bus, CallTimesOut, BusReportsNoReply, Reply, ReceiveCall, RefuseCall, ReceiveClose,
         clientVars
<1>16. Portal => UNCHANGED requestVars
  BY DEF Portal, Answer, PortalStarts, PortalVanishes, ForeignResponse, clientVars
<1>17. UNCHANGED sectionVars => UNCHANGED requestVars
  BY DEF sectionVars, clientVars
<1>18. QED
  BY <1>3, <1>5, <1>6, <1>7, <1>8, <1>10, <1>11, <1>12, <1>13, <1>14, <1>15, <1>16, <1>17
     DEF Section

LEMMA NextPaths ==
  ASSUME RouteInv, [Section]_sectionVars
  PROVE  PathsInv'
<1>1. Persistent /\ \A g \in Handles : PathStep(g)
  BY NextPersistent, NextRequests DEF RouteInv
<1>2. QED
  BY <1>1 DEF RouteInv, PathsInv, Persistent, PathStep

-----------------------------------------------------------------------------
(* Completions.                                                            *)

\* A Response reaches the request it answers.
LEMMA Routed ==
  ASSUME RouteTypes, NEW path \in Paths, NEW code, Genuine(path, code),
         request_paths[path] # None
  PROVE  /\ request_paths[path] \in Handles
         /\ Decided(request_paths[path]) /\ answer[request_paths[path]] = code
         /\ home[request_paths[path]] = path
<1> DEFINE h == request_paths[path]
<1>1. h \in Handles
  BY DEF RouteTypes, RequestTypes
<1>2. requests[h].path = path
  BY <1>1 DEF RouteTypes, RoutesMatchRequests
<1>3. path # ForeignPath
  <2>1. \/ requests[h].path = h
        \/ requests[h].path = home[h]
    BY <1>1 DEF RouteTypes, PathsInv
  <2>2. home[h] \in {h} \cup AltPaths
    BY <1>1 DEF RouteTypes, HomesInv
  <2>3. QED
    BY <1>1, <1>2, <2>1, <2>2, PathsAssumption
<1>4. PICK g \in Handles : Decided(g) /\ home[g] = path /\ answer[g] = code
  BY <1>3 DEF Genuine
<1>5. g = h
  BY <1>1, <1>2, <1>4, Apart DEF Decided
<1>6. QED
  BY <1>1, <1>4, <1>5

\* How a step may add to what was emitted for one handle.
AnswerStep(g) ==
  \/ completions'[g] = completions[g]
  \/ \E e \in Completions :
       /\ completions'[g] = Append(completions[g], e)
       /\ e.by = "portal" => Decided(g) /\ e.code = answer[g]

LEMMA ReportStep ==
  ASSUME HistoryTypes, NEW h \in Handles, NEW by \in Causes, NEW code \in Codes,
         Report(h, by, code), by = "portal" => Decided(h) /\ code = answer[h]
  PROVE  \A g \in Handles : AnswerStep(g)
<1>1. [by |-> by, code |-> code] \in Completions
  BY DEF Completions
<1>2. /\ completions'[h] = Append(completions[h], [by |-> by, code |-> code])
      /\ \A g \in Handles \ {h} : completions'[g] = completions[g]
  BY DEF Report, HistoryTypes
<1>3. QED
  BY <1>1, <1>2 DEF AnswerStep

LEMMA DeliverStep ==
  ASSUME RouteTypes, HistoryTypes, NEW path \in Paths, NEW code \in Codes, Genuine(path, code),
         DeliverResponse(path, code)
  PROVE  \A g \in Handles : AnswerStep(g)
<1>1. CASE UNCHANGED completions
  BY <1>1 DEF AnswerStep
<1>2. CASE request_paths[path] # None /\ Report(request_paths[path], "portal", code)
  <2>1. "portal" \in Causes
    BY DEF Causes
  <2>2. QED
    BY <1>2, <2>1, Routed, ReportStep
<1>3. QED
  BY <1>1, <1>2 DEF DeliverResponse

LEMMA NextCompletions ==
  ASSUME RouteInv, [Section]_sectionVars
  PROVE  \A g \in Handles : AnswerStep(g)
<1>0. /\ RouteTypes /\ CallInv /\ BusTypes /\ HistoryTypes /\ worker \in WorkerStates
      /\ OutcomesSettled /\ MessagesInv
  BY DEF RouteInv, RouteTypes, CallInv, SectionTypes
<1>1. CASE UNCHANGED completions
  BY <1>1 DEF AnswerStep
<1>2. CASE FailPendingRequests
  <2> DEFINE e == [by |-> worker.by, code |-> Other]
  <2>1. worker.by \in Causes /\ worker.by # "portal"
    BY <1>0, <1>2, WorkerFields DEF FailPendingRequests, RouteInv, AnswersInv
  <2>2. e \in Completions /\ e.by # "portal"
    BY <2>1 DEF Completions, Other, Codes
  <2>3. \A g \in Handles :
          completions'[g] = completions[g] \/ completions'[g] = Append(completions[g], e)
    BY <1>2 DEF FailPendingRequests
  <2>4. QED
    BY <2>2, <2>3 DEF AnswerStep
<1>3. CASE OnCallFailed
  <2> DEFINE h == Head(inbox).handle
  <2>1. h \in Handles
    BY <1>0, <1>3, HandlingKeepsOutcomes DEF OnCallFailed
  <2>2. "call" \in Causes /\ Other \in Codes /\ "call" # "portal"
    BY DEF Causes, Other, Codes
  <2>3. CASE Report(h, "call", Other)
    BY <1>0, <2>1, <2>2, <2>3, ReportStep
  <2>4. QED
    BY <1>1, <1>3, <2>3 DEF OnCallFailed, FailCall
<1>4. CASE DeliverEarlyResponse
  <2>1. /\ worker.path \in Paths /\ worker.code \in Codes
        /\ Genuine(worker.path, worker.code)
    BY <1>0, <1>4, WorkerFields DEF DeliverEarlyResponse, MessagesInv
  <2>2. QED
    BY <1>0, <1>4, <2>1, DeliverStep DEF DeliverEarlyResponse
<1>5. CASE OnRequestResponse
  <2>1. Head(inbox) = inbox[1] /\ 1 \in 1..Len(inbox) /\ Head(inbox) \in InboxMessages
    BY <1>0, <1>5, TailIndices DEF BusTypes, OnRequestResponse, Dispatching
  <2>2. Head(inbox).type = "response"
    BY <1>5 DEF OnRequestResponse, Dispatching
  <2>3. /\ Head(inbox).path \in Paths /\ Head(inbox).code \in Codes
        /\ Genuine(Head(inbox).path, Head(inbox).code)
    BY <1>0, <2>1, <2>2, InboxFields DEF MessagesInv, Truthful
  <2>4. QED
    BY <1>0, <1>5, <2>3, DeliverStep DEF OnRequestResponse
<1>6. MainThread => UNCHANGED completions
  BY DEF MainThread, BeginRequest, ResolveClose, SendClose, FinishClose, AbandonClose, historyVars
<1>7. WorkerThread =>
        \/ UNCHANGED completions
        \/ FailPendingRequests \/ OnCallFailed \/ DeliverEarlyResponse \/ OnRequestResponse
  BY DEF WorkerThread, IssueCall, OnPortalAppeared, OnPortalVanished, OnCallStarted,
         HoldUnclaimed, historyVars
<1>8. Bus => UNCHANGED completions
  BY DEF Bus, CallTimesOut, BusReportsNoReply, Reply, ReceiveCall, RefuseCall, ReceiveClose,
         historyVars
<1>9. Portal => UNCHANGED completions
  BY DEF Portal, Answer, PortalStarts, PortalVanishes, ForeignResponse, historyVars
<1>10. UNCHANGED sectionVars => UNCHANGED completions
  BY DEF sectionVars, historyVars
<1>11. QED
  BY <1>1, <1>2, <1>3, <1>4, <1>5, <1>6, <1>7, <1>8, <1>9, <1>10 DEF Section

LEMMA NextAnswers ==
  ASSUME RouteInv, [Section]_sectionVars
  PROVE  AnswersInv'
<1>0. Persistent /\ HistoryTypes /\ AnswersInv
  BY NextPersistent DEF RouteInv, CallInv, SectionTypes
<1>1. ASSUME NEW h \in Handles, NEW i \in 1..Len(completions'[h]),
             completions'[h][i].by = "portal"
      PROVE  stage'[h] \notin {"none", "open"} /\ completions'[h][i].code = answer'[h]
  <2>1. AnswerStep(h)
    BY NextCompletions
  <2>2. completions[h] \in Seq(Completions)
    BY <1>0 DEF HistoryTypes
  <2>3. \/ i \in 1..Len(completions[h]) /\ completions'[h][i] = completions[h][i]
        \/ /\ completions'[h][i].by = "portal"
           /\ Decided(h) /\ completions'[h][i].code = answer[h]
    <3>1. CASE completions'[h] = completions[h]
      BY <3>1
    <3>2. ASSUME NEW e \in Completions, completions'[h] = Append(completions[h], e),
                 e.by = "portal" => Decided(h) /\ e.code = answer[h]
          PROVE  \/ i \in 1..Len(completions[h]) /\ completions'[h][i] = completions[h][i]
                 \/ /\ completions'[h][i].by = "portal"
                    /\ Decided(h) /\ completions'[h][i].code = answer[h]
      BY <1>1, <2>2, <3>2, AppendIndices
    <3>3. QED
      BY <2>1, <3>1, <3>2 DEF AnswerStep
  <2>4. Decided(h) /\ completions'[h][i].code = answer[h]
    BY <1>0, <1>1, <2>3 DEF AnswersInv
  <2>5. QED
    BY <1>0, <2>4 DEF Persistent, Decided
<1>2. (worker.step = "fail" => worker.by # "portal")'
  <2>1. CASE UNCHANGED worker
    BY <1>0, <2>1 DEF AnswersInv
  <2>2. CASE worker' = Idle
    BY <2>2 DEF Idle
  <2>3. CASE OnPortalAppeared \/ OnPortalVanished
    BY <2>3 DEF OnPortalAppeared, OnPortalVanished, Idle
  <2>4. CASE OnCallStarted \/ OnRequestResponse
    <3>1. worker' = Idle \/ worker'.step \in {"deliver", "hold"}
      BY <2>4 DEF OnCallStarted, ClaimEarlyResponse, OnRequestResponse
    <3>2. QED
      BY <2>2, <3>1
  <2>5. MainThread => UNCHANGED worker
    BY DEF MainThread, BeginRequest, ResolveClose, SendClose, FinishClose, AbandonClose
  <2>6. WorkerThread =>
          \/ UNCHANGED worker \/ worker' = Idle
          \/ OnPortalAppeared \/ OnPortalVanished \/ OnCallStarted \/ OnRequestResponse
    BY DEF WorkerThread, IssueCall, FailPendingRequests, OnCallFailed, DeliverEarlyResponse,
           HoldUnclaimed
  <2>7. Bus => UNCHANGED worker
    BY DEF Bus, CallTimesOut, BusReportsNoReply, Reply, ReceiveCall, RefuseCall, ReceiveClose
  <2>8. Portal => UNCHANGED worker
    BY DEF Portal, Answer, PortalStarts, PortalVanishes, ForeignResponse
  <2>9. UNCHANGED sectionVars => UNCHANGED worker
    BY DEF sectionVars
  <2>10. QED
    BY <2>1, <2>2, <2>3, <2>4, <2>5, <2>6, <2>7, <2>8, <2>9 DEF Section
<1>3. QED
  BY <1>1, <1>2 DEF AnswersInv, Decided

-----------------------------------------------------------------------------
(* The invariant, and what follows from it.                                *)

LEMMA InitRoutes == Init => RouteInv
<1> SUFFICES ASSUME Init PROVE RouteInv
  OBVIOUS
<1>1. CallInv /\ UnclaimedOnlyInFlight
  BY InitCalls DEF Init, UnclaimedOnlyInFlight
<1>2. OutboxInv
  BY DEF Init, OutboxInv
<1>3. HomesInv
  BY DEF Init, HomesInv
<1>4. MessagesInv
  BY DEF Init, MessagesInv, Truthful, Idle
<1>5. PathsInv
  BY DEF Init, PathsInv, Absent
<1>6. RoutesMatchRequests
  BY HandlesAssumption DEF Init, RoutesMatchRequests, Tracked, Absent
<1>7. AnswersInv
  BY DEF Init, AnswersInv, Idle
<1>8. QED
  BY <1>1, <1>2, <1>3, <1>4, <1>5, <1>6, <1>7 DEF RouteInv

LEMMA NextRoutes == RouteInv /\ [Section]_sectionVars => RouteInv'
<1> SUFFICES ASSUME RouteInv, [Section]_sectionVars PROVE RouteInv'
  OBVIOUS
<1>1. CallInv' /\ UnclaimedOnlyInFlight'
  BY NextCalls, NextUnclaimed DEF RouteInv
<1>2. OutboxInv' /\ HomesInv'
  BY NextOutbox, NextHomes DEF RouteInv
<1>3. MessagesInv'
  BY NextInbox, NextWorker, NextHeld DEF RouteInv, MessagesInv, InboxTrue
<1>4. PathsInv' /\ RoutesMatchRequests' /\ AnswersInv'
  BY NextPaths, NextRequests, NextAnswers
<1>5. QED
  BY <1>1, <1>2, <1>3, <1>4 DEF RouteInv

LEMMA RouteInvariant == Spec => []RouteInv
BY InitRoutes, NextRoutes, NextSections, PTL DEF Spec

\* A Response that nobody claimed never outlives the calls that could claim it.
THEOREM HeldForCallsOnly == Spec => []UnclaimedOnlyInFlight
BY RouteInvariant, PTL DEF RouteInv

\* Every request is routed from its path and from nowhere else, whatever path
\* the portal chose and however the request ended.
THEOREM RoutesAreExact == Spec => []RoutesMatchRequests
BY RouteInvariant, PTL DEF RouteInv

\* What is reported as the portal's answer to a request is its answer to that
\* request, also when Responses overtake replies and are held for them.
THEOREM NoAnswerMisrouted == Spec => []AnswersAreTheirOwn
<1>1. RouteInv => AnswersAreTheirOwn
  <2> SUFFICES ASSUME RouteInv, NEW h \in Handles, NEW i \in DOMAIN completions[h],
                      completions[h][i].by = "portal"
               PROVE  completions[h][i].code = answer[h]
    BY DEF AnswersAreTheirOwn
  <2>1. completions[h] \in Seq(Completions)
    BY DEF RouteInv, CallInv, SectionTypes, HistoryTypes
  <2>2. i \in 1..Len(completions[h])
    BY <2>1
  <2>3. QED
    BY <2>2 DEF RouteInv, AnswersInv
<1>2. QED
  BY <1>1, RouteInvariant, PTL

=============================================================================
