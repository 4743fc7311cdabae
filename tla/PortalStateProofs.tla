-------------------------- MODULE PortalStateProofs --------------------------
(***************************************************************************)
(* Theorems about PortalState, for every set of interfaces, any bounds,    *)
(* and whatever may time out: its types; that no version of another portal *)
(* instance is ever cached; and that the power-saver state is the          *)
(* desktop's or unknown, and every change of it heard, unless the          *)
(* constructor applies a seed that newer news has overtaken, which a calm  *)
(* start-up rules out.                                                     *)
(***************************************************************************)
EXTENDS PortalState, TLAPS

\* Every action in one line, for one group of variables at a time.
LEMMA Steps ==
  ASSUME [Next]_vars
  PROVE  \/ BeginSeed \/ SeedPowerSaver \/ EmitSeed \/ TakeValues \/ StoreVersions
         \/ (\E wanted \in {Interfaces} \cup {{f} : f \in Interfaces} : BeginRead(wanted))
         \/ IssueGets \/ IssueRefresh \/ OnPropertyRead \/ OnPortalAppeared \/ OnPortalVanished
         \/ (\E type \in {"changed", "refreshed"} : OnPowerSaverReport(type)) \/ EmitChange
         \/ (\E p \in Properties : ReadByPortal(p) \/ ReadFails(p))
         \/ RefreshByPortal \/ RefreshFails \/ PortalStarts \/ PortalVanishes \/ SaverChanges
         \/ UNCHANGED vars
BY DEF Next, MainThread, WorkerThread, Environment

-----------------------------------------------------------------------------
(* Messages.                                                               *)

News == {"appeared", "vanished"}
OwnerOf(m) == IF m.type = "appeared" THEN m.owner ELSE NoOwner

LEMMA ByType ==
  ASSUME NEW m \in Messages
  PROVE  /\ m.type = "appeared" => m.owner \in Nat \ {NoOwner}
         /\ m.type \in {"changed", "refreshed"} => m.value \in Flags
         /\ m.type = "read" => m.batch \in Nat /\ m.property \in Properties /\ m.answer \in Answers
BY DEF Messages

LEMMA Made ==
  /\ \A o \in Nat \ {NoOwner} : [type |-> "appeared", owner |-> o] \in Messages
  /\ [type |-> "vanished"] \in Messages
  /\ \A v \in Flags : [type |-> "changed", value |-> v] \in Messages
                      /\ [type |-> "refreshed", value |-> v] \in Messages
  /\ \A b \in Nat, p \in Properties, a \in Answers :
       [type |-> "read", batch |-> b, property |-> p, answer |-> a] \in Messages
BY DEF Messages

LEMMA Dequeued ==
  ASSUME NEW s \in Seq(Messages), s # <<>>
  PROVE  /\ Head(s) \in Messages /\ Head(s) = s[1] /\ 1 \in DOMAIN s
         /\ Tail(s) \in Seq(Messages) /\ Len(s) \in Nat \ {0} /\ Len(Tail(s)) = Len(s) - 1
         /\ \A i \in 1..Len(s) - 1 : Tail(s)[i] = s[i + 1]
OBVIOUS

LEMMA Queued ==
  ASSUME NEW s \in Seq(Messages), NEW m \in Messages
  PROVE  /\ Append(s, m) \in Seq(Messages) /\ Len(Append(s, m)) = Len(s) + 1
         /\ Append(s, m)[Len(s) + 1] = m /\ Len(s) \in Nat
         /\ \A i \in 1..Len(s) : Append(s, m)[i] = s[i]
OBVIOUS

-----------------------------------------------------------------------------
(* What the worker will believe once it has handled a part of its queue.   *)

\* With po for portal_owner and s for the inbox: o is the owner by the first i - 1.
Believed(po, s, i, o) ==
  \/ po = o /\ \A j \in 1..i - 1 : s[j].type \notin News
  \/ \E j \in 1..i - 1 : /\ s[j].type \in News /\ OwnerOf(s[j]) = o
                         /\ \A k \in j + 1..i - 1 : s[k].type \notin News

LEMMA BelievedNow == ASSUME NEW po, NEW s, NEW o, Believed(po, s, 1, o) PROVE po = o
BY DEF Believed

\* What is appended changes nothing for what is before it.
LEMMA BelievedBefore ==
  ASSUME NEW s \in Seq(Messages), NEW m \in Messages, NEW po, NEW o,
         NEW i \in 1..Len(s) + 1, Believed(po, s, i, o)
  PROVE  Believed(po, Append(s, m), i, o)
<1>1. \A j \in 1..i - 1 : Append(s, m)[j] = s[j]
  BY Queued
<1>2. i \in Nat
  BY Queued
<1>3. \A j \in 1..i - 1 : \A k \in j + 1..i - 1 : k \in 1..i - 1
  BY <1>2
<1>4. QED
  BY <1>1, <1>3, Zenon DEF Believed

LEMMA BelievedAfterNews ==
  ASSUME NEW s \in Seq(Messages), NEW m \in Messages, NEW po, m.type \in News
  PROVE  Believed(po, Append(s, m), Len(s) + 2, OwnerOf(m))
<1>1. Len(s) + 1 \in 1..(Len(s) + 2) - 1 /\ Append(s, m)[Len(s) + 1] = m
  BY Queued
<1>2. \A k \in (Len(s) + 1) + 1..(Len(s) + 2) - 1 : FALSE
  BY Queued
<1>3. QED
  BY <1>1, <1>2, Zenon DEF Believed

LEMMA BelievedAfterOther ==
  ASSUME NEW s \in Seq(Messages), NEW m \in Messages, NEW po, NEW o, m.type \notin News,
         Believed(po, s, Len(s) + 1, o)
  PROVE  Believed(po, Append(s, m), Len(s) + 2, o)
<1> DEFINE t == Append(s, m)
<1>1. /\ Len(s) \in Nat /\ t[Len(s) + 1] = m
      /\ \A j \in 1..Len(s) : t[j] = s[j]
  BY Queued
<1> HIDE DEF t
<1>2. (Len(s) + 1) - 1 = Len(s) /\ (Len(s) + 2) - 1 = Len(s) + 1
  BY <1>1
<1>3. \A k \in 1..Len(s) + 1 : k \in 1..Len(s) \/ k = Len(s) + 1
  BY <1>1
<1>4. CASE po = o /\ \A j \in 1..Len(s) : s[j].type \notin News
  <2>1. \A j \in 1..Len(s) + 1 : t[j].type \notin News
    BY <1>1, <1>3, <1>4, Zenon
  <2>2. QED
    BY <1>2, <1>4, <2>1, Zenon DEF Believed, t
<1>5. ASSUME NEW j \in 1..Len(s), s[j].type \in News, OwnerOf(s[j]) = o,
             \A k \in j + 1..Len(s) : s[k].type \notin News
      PROVE  Believed(po, t, Len(s) + 2, o)
  <2>1. \A k \in j + 1..Len(s) + 1 : (k \in j + 1..Len(s) /\ k \in 1..Len(s)) \/ k = Len(s) + 1
    BY <1>1
  <2>2. \A k \in j + 1..Len(s) + 1 : t[k].type \notin News
    BY <1>1, <1>5, <2>1, Zenon
  <2>3. j \in 1..Len(s) + 1 /\ t[j] = s[j]
    BY <1>1
  <2>4. QED
    BY <1>2, <1>5, <2>2, <2>3, Zenon DEF Believed
<1>6. QED
  BY <1>2, <1>4, <1>5, Zenon DEF Believed, t

\* Handling the first message brings the owner it tells of, and shifts the rest.
LEMMA BelievedStill ==
  ASSUME NEW s \in Seq(Messages), s # <<>>, NEW po, NEW o, NEW i \in 1..Len(s),
         Believed(po, s, i + 1, o), NEW new,
         new = IF Head(s).type \in News THEN OwnerOf(Head(s)) ELSE po
  PROVE  Believed(new, Tail(s), i, o)
<1> DEFINE t == Tail(s)
<1>1. /\ Head(s) = s[1] /\ Len(s) \in Nat \ {0}
      /\ \A k \in 1..Len(s) - 1 : t[k] = s[k + 1]
  BY Dequeued
<1> HIDE DEF t
<1>2. i \in Nat /\ (i + 1) - 1 = i /\ 1 \in 1..i
  BY <1>1
<1>3. \A k \in 1..i - 1 : k + 1 \in 1..i /\ t[k] = s[k + 1]
  BY <1>1
<1>4. CASE po = o /\ \A j \in 1..i : s[j].type \notin News
  <2>1. new = o
    BY <1>1, <1>2, <1>4, Zenon
  <2>2. \A k \in 1..i - 1 : t[k].type \notin News
    BY <1>3, <1>4, Zenon
  <2>3. QED
    BY <2>1, <2>2, Zenon DEF Believed, t
<1>5. ASSUME NEW j \in 1..i, s[j].type \in News, OwnerOf(s[j]) = o,
             \A k \in j + 1..i : s[k].type \notin News
      PROVE  Believed(new, t, i, o)
  <2>1. CASE j = 1
    <3>1. new = o
      BY <1>1, <1>5, <2>1, Zenon
    <3>2. \A k \in 1..i - 1 : k + 1 \in j + 1..i
      BY <1>2, <2>1
    <3>3. \A k \in 1..i - 1 : t[k].type \notin News
      BY <1>3, <1>5, <3>2, Zenon
    <3>4. QED
      BY <3>1, <3>3, Zenon DEF Believed
  <2>2. CASE j # 1
    <3>1. j - 1 \in 1..i - 1 /\ t[j - 1] = s[j]
      BY <1>1, <1>2, <2>2
    <3>2. \A k \in (j - 1) + 1..i - 1 : k \in 1..i - 1 /\ k + 1 \in j + 1..i
      BY <1>2
    <3>3. \A k \in (j - 1) + 1..i - 1 : t[k].type \notin News
      BY <1>3, <1>5, <3>2, Zenon
    <3>4. QED
      BY <1>5, <3>1, <3>3, Zenon DEF Believed
  <2>3. QED
    BY <2>1, <2>2
<1>6. QED
  BY <1>2, <1>4, <1>5, Zenon DEF Believed, t

-----------------------------------------------------------------------------
(* Types.  An answer is a value of the property it was asked for, and the  *)
(* name's owner is one of the instances.                                   *)

ValuesOf(p) == (IF p = PowerSaver THEN Flags ELSE Versions) \cup {Missing}
Placed == owner \in 0..MaxInstances /\ instances \in 0..MaxInstances
SeedInv ==
  /\ \A p \in Properties : batch.answers[p].value \in ValuesOf(p)
  /\ main = "emit" => Seed # Missing
ReadValuesInv ==
  \A i \in DOMAIN inbox : inbox[i].type = "read" =>
    inbox[i].answer.value \in ValuesOf(inbox[i].property)

TypeInv == TypeOK /\ Placed /\ SeedInv /\ ReadValuesInv

LEMMA SeedValue == ASSUME TypeInv PROVE Seed = Missing \/ Seed \in Flags
BY DEF TypeInv, SeedInv, Seed, Properties, ValuesOf

LEMMA Groups ==
  ASSUME TypeInv
  PROVE  /\ PowerTypes /\ OwnerTypes /\ CacheTypes /\ MainTypes /\ WorkerTypes /\ BusTypes
         /\ PortalTypes /\ heard \in Flags \cup {NoChange}
         /\ Placed /\ SeedInv /\ ReadValuesInv
BY DEF TypeInv, TypeOK

LEMMA InitTypes == ASSUME Init PROVE TypeInv
<1>1. PowerTypes /\ OwnerTypes /\ WorkerTypes /\ heard \in Flags \cup {NoChange}
  BY DEF Init, PowerTypes, OwnerTypes, WorkerTypes, Flags, NoOwner, NoChange
<1>2. CacheTypes
  BY DEF Init, CacheTypes
<1>3. NoAnswer \in Answers
  BY DEF NoAnswer, Answers
<1>4. MainTypes
  <2>1. batch \in [number : Nat, seeding : BOOLEAN, left : SUBSET Properties,
                   answers : [Properties -> Answers]]
    BY <1>3 DEF Init
  <2>2. QED
    BY <2>1 DEF Init, MainTypes
<1>5. PortalTypes /\ Placed
  BY BoundsAssumption DEF Init, PortalTypes, Placed, NoOwner
<1>6. inbox \in Seq(Messages) /\ ReadValuesInv
  <2>1. \A m \in Messages : <<m>> \in Seq(Messages) /\ DOMAIN <<m>> = {1} /\ <<m>>[1] = m
    OBVIOUS
  <2>2. \E m \in Messages : inbox = <<m>> /\ m.type # "read"
    BY Made DEF Init, NoOwner
  <2>3. QED
    BY <2>1, <2>2 DEF ReadValuesInv
<1>7. BusTypes
  BY <1>6 DEF Init, BusTypes
<1>8. SeedInv
  BY DEF Init, SeedInv, ValuesOf, NoAnswer
<1>9. QED
  BY <1>1, <1>2, <1>4, <1>5, <1>6, <1>7, <1>8, Zenon DEF TypeInv, TypeOK

\* What the head of the queue can be.
LEMMA FirstMessage ==
  ASSUME TypeInv, inbox # <<>>
  PROVE  /\ Head(inbox) \in Messages
         /\ Head(inbox).type = "read" =>
              Head(inbox).answer.value \in ValuesOf(Head(inbox).property)
<1>1. inbox \in Seq(Messages) /\ ReadValuesInv
  BY Groups, Zenon DEF BusTypes
<1>2. QED
  BY <1>1, Dequeued DEF ReadValuesInv

LEMMA StepPower ==
  ASSUME TypeInv, [Next]_vars
  PROVE  PowerTypes'
<1>1. power_saver_known \in BOOLEAN /\ power_saver_known_once \in BOOLEAN
      /\ power_saver_enabled \in Flags
  BY Groups, Zenon DEF PowerTypes
<1>2. CASE UNCHANGED powerVars
  BY <1>1, <1>2, Zenon DEF powerVars, PowerTypes
<1>3. ASSUME NEW v \in Flags, ApplyPowerSaver(v) PROVE PowerTypes'
  BY <1>3, Zenon DEF ApplyPowerSaver, PowerTypes
<1>4. CASE SeedPowerSaver
  <2>1. Seed = Missing \/ Seed \in Flags
    BY SeedValue, Zenon
  <2>2. UNCHANGED powerVars \/ (Seed # Missing /\ ApplyPowerSaver(Seed))
    BY <1>4, Zenon DEF SeedPowerSaver
  <2>3. QED
    BY <1>2, <1>3, <2>1, <2>2, Zenon
<1>5. CASE OnPortalVanished
  BY <1>1, <1>5, Zenon DEF OnPortalVanished, ForgetPowerSaver, PowerTypes
<1>6. ASSUME NEW type \in {"changed", "refreshed"}, OnPowerSaverReport(type) PROVE PowerTypes'
  <2>1. inbox # <<>> /\ Head(inbox).type = type /\ ApplyPowerSaver(Head(inbox).value)
    BY <1>6, Zenon DEF OnPowerSaverReport, Dispatching
  <2>2. Head(inbox).value \in Flags
    BY <2>1, FirstMessage, ByType
  <2>3. QED
    BY <1>3, <2>1, <2>2, Zenon
<1>7. CASE UNCHANGED vars
  BY <1>2, <1>7, Zenon DEF vars
<1>8. CASE BeginSeed \/ EmitSeed \/ TakeValues \/ StoreVersions
           \/ (\E wanted \in {Interfaces} \cup {{f} : f \in Interfaces} : BeginRead(wanted))
  BY <1>2, <1>8, Zenon DEF BeginSeed, EmitSeed, TakeValues, StoreVersions, BeginRead
<1>9. CASE IssueGets \/ IssueRefresh \/ OnPropertyRead \/ OnPortalAppeared \/ EmitChange
  BY <1>2, <1>9, Zenon DEF IssueGets, IssueRefresh, OnPropertyRead, OnPortalAppeared, EmitChange
<1>10. CASE (\E p \in Properties : ReadByPortal(p) \/ ReadFails(p))
            \/ RefreshByPortal \/ RefreshFails \/ PortalStarts \/ PortalVanishes \/ SaverChanges
  BY <1>2, <1>10, Zenon DEF ReadByPortal, ReadFails, AnswerGet, RefreshByPortal, RefreshFails,
     PortalStarts, PortalVanishes, SaverChanges
<1>11. QED
  BY <1>4, <1>5, <1>6, <1>7, <1>8, <1>9, <1>10, Steps, Zenon

LEMMA StepOwner ==
  ASSUME TypeInv, [Next]_vars
  PROVE  OwnerTypes'
<1>1. portal_owner \in Nat /\ portal_owner_seen \in BOOLEAN /\ portal_generation \in Nat
  BY Groups, Zenon DEF OwnerTypes
<1>2. CASE UNCHANGED ownerVars
  BY <1>1, <1>2, Zenon DEF ownerVars, OwnerTypes
<1>3. CASE OnPortalAppeared
  <2>1. /\ inbox # <<>> /\ Head(inbox).type = "appeared" /\ portal_owner' = Head(inbox).owner
        /\ portal_owner_seen' = TRUE
        /\ portal_generation' = portal_generation + 1 \/ portal_generation' = portal_generation
    BY <1>3, Zenon DEF OnPortalAppeared, Dispatching
  <2>2. portal_owner' \in Nat
    BY <2>1, FirstMessage, ByType
  <2>3. portal_generation' \in Nat
    BY <1>1, <2>1
  <2>4. QED
    BY <2>1, <2>2, <2>3, Zenon DEF OwnerTypes
<1>4. CASE OnPortalVanished
  <2>1. /\ portal_owner' = NoOwner /\ portal_owner_seen' = TRUE
        /\ portal_generation' = portal_generation + 1
    BY <1>4, Zenon DEF OnPortalVanished
  <2>2. portal_owner' \in Nat /\ portal_generation' \in Nat
    BY <1>1, <2>1 DEF NoOwner
  <2>3. QED
    BY <2>1, <2>2, Zenon DEF OwnerTypes
<1>5. CASE UNCHANGED vars
  BY <1>2, <1>5, Zenon DEF vars
<1>6. CASE BeginSeed \/ SeedPowerSaver \/ EmitSeed \/ TakeValues \/ StoreVersions
           \/ (\E wanted \in {Interfaces} \cup {{f} : f \in Interfaces} : BeginRead(wanted))
  BY <1>2, <1>6, Zenon DEF BeginSeed, SeedPowerSaver, EmitSeed, TakeValues, StoreVersions, BeginRead
<1>7. CASE IssueGets \/ IssueRefresh \/ OnPropertyRead \/ EmitChange
           \/ (\E type \in {"changed", "refreshed"} : OnPowerSaverReport(type))
  BY <1>2, <1>7, Zenon DEF IssueGets, IssueRefresh, OnPropertyRead, EmitChange, OnPowerSaverReport
<1>8. CASE (\E p \in Properties : ReadByPortal(p) \/ ReadFails(p))
            \/ RefreshByPortal \/ RefreshFails \/ PortalStarts \/ PortalVanishes \/ SaverChanges
  BY <1>2, <1>8, Zenon DEF ReadByPortal, ReadFails, AnswerGet, RefreshByPortal, RefreshFails,
     PortalStarts, PortalVanishes, SaverChanges
<1>9. QED
  BY <1>3, <1>4, <1>5, <1>6, <1>7, <1>8, Steps, Zenon

LEMMA StepCache ==
  ASSUME TypeInv, [Next]_vars
  PROVE  CacheTypes'
<1>1. cached_versions \in [Interfaces -> Versions \cup {Missing, Uncached}]
  BY Groups, Zenon DEF CacheTypes
<1>2. CASE UNCHANGED cached_versions
  BY <1>1, <1>2, Zenon DEF CacheTypes
<1>3. CASE cached_versions' = [f \in Interfaces |-> Uncached]
  BY <1>3 DEF CacheTypes
<1>4. CASE StoreVersions
  <2>1. cached_versions' = [f \in Interfaces |->
          IF Cacheable(f) THEN batch.answers[f].value ELSE cached_versions[f]]
    BY <1>4, Zenon DEF StoreVersions, CacheAnswers
  <2>2. \A f \in Interfaces : batch.answers[f].value \in Versions \cup {Missing}
    BY PropertiesAssumption DEF TypeInv, SeedInv, Properties, ValuesOf
  <2>3. QED
    BY <1>1, <2>1, <2>2 DEF CacheTypes
<1>5. CASE OnPortalAppeared \/ OnPortalVanished
  BY <1>2, <1>3, <1>5, Zenon DEF OnPortalAppeared, OnPortalVanished
<1>6. CASE UNCHANGED vars
  BY <1>2, <1>6, Zenon DEF vars
<1>7. CASE BeginSeed \/ SeedPowerSaver \/ EmitSeed \/ TakeValues
           \/ (\E wanted \in {Interfaces} \cup {{f} : f \in Interfaces} : BeginRead(wanted))
  BY <1>2, <1>7, Zenon DEF BeginSeed, SeedPowerSaver, EmitSeed, TakeValues, BeginRead
<1>8. CASE IssueGets \/ IssueRefresh \/ OnPropertyRead \/ EmitChange
           \/ (\E type \in {"changed", "refreshed"} : OnPowerSaverReport(type))
  BY <1>2, <1>8, Zenon DEF IssueGets, IssueRefresh, OnPropertyRead, EmitChange, OnPowerSaverReport
<1>9. CASE (\E p \in Properties : ReadByPortal(p) \/ ReadFails(p))
            \/ RefreshByPortal \/ RefreshFails \/ PortalStarts \/ PortalVanishes \/ SaverChanges
  BY <1>2, <1>9, Zenon DEF ReadByPortal, ReadFails, AnswerGet, RefreshByPortal, RefreshFails,
     PortalStarts, PortalVanishes, SaverChanges
<1>10. QED
  BY <1>4, <1>5, <1>6, <1>7, <1>8, <1>9, Steps, Zenon

\* The main thread's variables, and the answers in its batch.
LEMMA StepMain ==
  ASSUME TypeInv, [Next]_vars
  PROVE  MainTypes' /\ SeedInv'
<1> DEFINE Batches == [number : Nat, seeding : BOOLEAN, left : SUBSET Properties,
                       answers : [Properties -> Answers]]
<1>1. /\ main \in {"construct", "await", "seed", "emit", "store", "idle"}
      /\ generation \in Nat /\ reads \in Nat /\ batch \in Batches /\ SeedInv
      /\ portal_generation \in Nat
  BY Groups, Zenon DEF MainTypes, OwnerTypes
<1>2. ASSUME batch' = batch, main' # "emit" \/ Seed # Missing
      PROVE  SeedInv'
  BY <1>1, <1>2 DEF SeedInv, Seed
<1>3. CASE UNCHANGED <<main, generation, reads, batch>>
  BY <1>1, <1>3 DEF MainTypes, SeedInv, Seed
<1>4. ASSUME NEW wanted \in SUBSET Properties, NEW seeding \in BOOLEAN,
             ReadProperties(wanted, seeding), reads' \in Nat
      PROVE  MainTypes' /\ SeedInv'
  <2>1. /\ main' = "await" /\ generation' = portal_generation
        /\ batch' = [number |-> batch.number + 1, seeding |-> seeding, left |-> wanted,
                     answers |-> [p \in Properties |-> NoAnswer]]
    BY <1>4, Zenon DEF ReadProperties
  <2>2. NoAnswer \in Answers /\ NoAnswer.value = Missing
    BY DEF NoAnswer, Answers
  <2>3. batch' \in Batches
    BY <1>1, <2>1, <2>2
  <2>4. MainTypes'
    BY <1>1, <1>4, <2>1, <2>3, Zenon DEF MainTypes
  <2>5. SeedInv'
    BY <2>1, <2>2 DEF SeedInv, ValuesOf
  <2>6. QED
    BY <2>4, <2>5
<1>5. CASE BeginSeed
  BY <1>1, <1>4, <1>5, Zenon DEF BeginSeed
<1>6. ASSUME NEW wanted \in {Interfaces} \cup {{f} : f \in Interfaces}, BeginRead(wanted)
      PROVE  MainTypes' /\ SeedInv'
  <2>1. reads' = reads + 1
        /\ ReadProperties({f \in wanted : cached_versions[f] = Uncached}, FALSE)
    BY <1>6, Zenon DEF BeginRead
  <2>2. {f \in wanted : cached_versions[f] = Uncached} \in SUBSET Properties
    BY DEF Properties
  <2>3. reads' \in Nat
    BY <1>1, <2>1
  <2>4. QED
    BY <1>4, <2>1, <2>2, <2>3, Zenon
<1>7. CASE TakeValues \/ SeedPowerSaver \/ EmitSeed \/ StoreVersions
  <2>1. /\ main' \in {"seed", "store", "emit", "idle"}
        /\ UNCHANGED <<generation, reads, batch>>
        /\ main' # "emit" \/ Seed # Missing
    BY <1>7 DEF TakeValues, SeedPowerSaver, EmitSeed, StoreVersions
  <2>2. SeedInv'
    BY <1>2, <2>1, Zenon
  <2>3. MainTypes'
    BY <1>1, <2>1 DEF MainTypes
  <2>4. QED
    BY <2>2, <2>3
<1>8. CASE OnPropertyRead
  <2> DEFINE m == Head(inbox)
  <2>1. /\ inbox # <<>> /\ m.type = "read"
        /\ UNCHANGED <<main, generation, reads>>
        /\ \/ batch' = batch
           \/ /\ main = "await"
              /\ batch' = [number |-> batch.number, seeding |-> batch.seeding,
                           left |-> batch.left \ {m.property},
                           answers |-> [batch.answers EXCEPT ![m.property] = m.answer]]
    BY <1>8, Zenon DEF OnPropertyRead, Dispatching
  <2>2. m.property \in Properties /\ m.answer \in Answers
        /\ m.answer.value \in ValuesOf(m.property)
    BY <2>1, FirstMessage, ByType
  <2> HIDE DEF m
  <2>3. CASE batch' = batch
    BY <1>3, <2>1, <2>3
  <2>4. CASE /\ main = "await"
             /\ batch' = [number |-> batch.number, seeding |-> batch.seeding,
                          left |-> batch.left \ {m.property},
                          answers |-> [batch.answers EXCEPT ![m.property] = m.answer]]
    <3>1. batch' \in Batches
      BY <1>1, <2>2, <2>4
    <3>2. \A p \in Properties :
            batch'.answers[p] = IF p = m.property THEN m.answer ELSE batch.answers[p]
      BY <1>1, <2>4
    <3>3. main' # "emit"
      BY <2>1, <2>4
    <3>4. SeedInv'
      BY <1>1, <2>2, <3>2, <3>3 DEF SeedInv
    <3>5. MainTypes'
      BY <1>1, <2>1, <3>1, Zenon DEF MainTypes
    <3>6. QED
      BY <3>4, <3>5
  <2>5. QED
    BY <2>1, <2>3, <2>4
<1>9. CASE UNCHANGED vars
  BY <1>3, <1>9, Zenon DEF vars, mainVars
<1>10. CASE IssueGets \/ IssueRefresh \/ OnPortalAppeared \/ OnPortalVanished \/ EmitChange
            \/ (\E type \in {"changed", "refreshed"} : OnPowerSaverReport(type))
  BY <1>3, <1>10, Zenon DEF IssueGets, IssueRefresh, OnPortalAppeared, OnPortalVanished, EmitChange,
     OnPowerSaverReport, mainVars
<1>11. CASE (\E p \in Properties : ReadByPortal(p) \/ ReadFails(p))
            \/ RefreshByPortal \/ RefreshFails \/ PortalStarts \/ PortalVanishes \/ SaverChanges
  BY <1>3, <1>11, Zenon DEF ReadByPortal, ReadFails, AnswerGet, RefreshByPortal, RefreshFails,
     PortalStarts, PortalVanishes, SaverChanges, mainVars
<1>12. QED
  BY <1>5, <1>6, <1>7, <1>8, <1>9, <1>10, <1>11, Steps, Zenon

LEMMA StepWorker ==
  ASSUME TypeInv, [Next]_vars
  PROVE  WorkerTypes' /\ (heard \in Flags \cup {NoChange})'
<1>1. /\ worker \in Flags \cup {NoChange} /\ refresh_task \in BOOLEAN /\ batch_task \in BOOLEAN
      /\ heard \in Flags \cup {NoChange}
  BY Groups, Zenon DEF WorkerTypes
<1>2. /\ refresh_task' \in BOOLEAN /\ batch_task' \in BOOLEAN
  <2>1. CASE UNCHANGED taskVars
    BY <1>1, <2>1, Zenon DEF taskVars
  <2>2. CASE UNCHANGED vars
    BY <2>1, <2>2, Zenon DEF vars
  <2>3. CASE BeginSeed \/ (\E wanted \in {Interfaces} \cup {{f} : f \in Interfaces} : BeginRead(wanted))
    BY <1>1, <2>3, Zenon DEF BeginSeed, BeginRead, ReadProperties
  <2>4. CASE StoreVersions \/ IssueGets \/ IssueRefresh
    BY <1>1, <2>4 DEF StoreVersions, IssueGets, IssueRefresh
  <2>5. CASE SeedPowerSaver \/ EmitSeed \/ TakeValues
    BY <2>1, <2>5, Zenon DEF SeedPowerSaver, EmitSeed, TakeValues
  <2>6. CASE OnPropertyRead \/ OnPortalAppeared \/ OnPortalVanished \/ EmitChange
             \/ (\E type \in {"changed", "refreshed"} : OnPowerSaverReport(type))
    BY <2>1, <2>6, Zenon DEF OnPropertyRead, OnPortalAppeared, OnPortalVanished, EmitChange,
       OnPowerSaverReport
  <2>7. CASE (\E p \in Properties : ReadByPortal(p) \/ ReadFails(p))
             \/ RefreshByPortal \/ RefreshFails \/ PortalStarts \/ PortalVanishes \/ SaverChanges
    BY <2>1, <2>7, Zenon DEF ReadByPortal, ReadFails, AnswerGet, RefreshByPortal, RefreshFails,
       PortalStarts, PortalVanishes, SaverChanges
  <2>8. QED
    BY <2>2, <2>3, <2>4, <2>5, <2>6, <2>7, Steps, Zenon
<1>3. /\ worker' \in Flags \cup {NoChange} /\ heard' \in Flags \cup {NoChange}
  <2>1. CASE UNCHANGED <<worker, heard>>
    BY <1>1, <2>1, Zenon
  <2>2. CASE EmitSeed
    <3>1. heard' = Seed /\ worker' = worker
      BY <2>2, Zenon DEF EmitSeed
    <3>2. QED
      BY <1>1, <3>1, SeedValue DEF NoChange
  <2>3. CASE EmitChange
    BY <1>1, <2>3 DEF EmitChange
  <2>4. ASSUME NEW type \in {"changed", "refreshed"}, OnPowerSaverReport(type)
        PROVE  worker' \in Flags \cup {NoChange} /\ heard' \in Flags \cup {NoChange}
    <3>1. /\ inbox # <<>> /\ Head(inbox).type = type /\ heard' = heard
          /\ worker' = Head(inbox).value \/ worker' = NoChange
      BY <2>4, Zenon DEF OnPowerSaverReport, Dispatching
    <3>2. Head(inbox).value \in Flags
      BY <3>1, FirstMessage, ByType
    <3>3. QED
      BY <1>1, <3>1, <3>2
  <2>5. CASE UNCHANGED vars
    BY <2>1, <2>5, Zenon DEF vars
  <2>6. CASE BeginSeed \/ SeedPowerSaver \/ TakeValues \/ StoreVersions
             \/ (\E wanted \in {Interfaces} \cup {{f} : f \in Interfaces} : BeginRead(wanted))
    BY <2>1, <2>6, Zenon DEF BeginSeed, SeedPowerSaver, TakeValues, StoreVersions, BeginRead
  <2>7. CASE IssueGets \/ IssueRefresh \/ OnPropertyRead \/ OnPortalAppeared \/ OnPortalVanished
    BY <2>1, <2>7, Zenon DEF IssueGets, IssueRefresh, OnPropertyRead, OnPortalAppeared,
       OnPortalVanished
  <2>8. CASE (\E p \in Properties : ReadByPortal(p) \/ ReadFails(p))
             \/ RefreshByPortal \/ RefreshFails \/ PortalStarts \/ PortalVanishes \/ SaverChanges
    BY <2>1, <2>8, Zenon DEF ReadByPortal, ReadFails, AnswerGet, RefreshByPortal, RefreshFails,
       PortalStarts, PortalVanishes, SaverChanges
  <2>9. QED
    BY <2>2, <2>3, <2>4, <2>5, <2>6, <2>7, <2>8, Steps, Zenon
<1>4. QED
  BY <1>2, <1>3, Zenon DEF WorkerTypes

LEMMA StepPortal ==
  ASSUME TypeInv, [Next]_vars
  PROVE  PortalTypes' /\ Placed'
<1>1. /\ exported \in [1..MaxInstances -> Offers] /\ saver \in Flags /\ changes \in Nat
      /\ owner \in 0..MaxInstances /\ instances \in 0..MaxInstances
  BY Groups, Zenon DEF PortalTypes, Placed
<1>2. /\ MaxInstances \in Nat /\ \A i \in 0..MaxInstances : i \in Nat
  BY BoundsAssumption
<1>3. ASSUME exported' = exported, saver' \in Flags, changes' \in Nat,
             owner' \in 0..MaxInstances, instances' \in 0..MaxInstances
      PROVE  PortalTypes' /\ Placed'
  BY <1>1, <1>2, <1>3, Zenon DEF PortalTypes, Placed
<1>4. CASE UNCHANGED portalVars
  BY <1>1, <1>3, <1>4, Zenon DEF portalVars
<1>5. CASE PortalStarts
  <2>1. /\ instances < MaxInstances /\ owner' = instances + 1 /\ instances' = instances + 1
        /\ UNCHANGED <<exported, saver, changes>>
    BY <1>5, Zenon DEF PortalStarts
  <2>2. instances + 1 \in 0..MaxInstances
    BY <1>1, <1>2, <2>1
  <2>3. QED
    BY <1>1, <1>3, <2>1, <2>2, Zenon
<1>6. CASE PortalVanishes
  <2>1. owner' = NoOwner /\ UNCHANGED <<instances, exported, saver, changes>>
    BY <1>6, Zenon DEF PortalVanishes
  <2>2. NoOwner \in 0..MaxInstances
    BY <1>2 DEF NoOwner
  <2>3. QED
    BY <1>1, <1>3, <2>1, <2>2, Zenon
<1>7. CASE SaverChanges
  <2>1. saver' = 1 - saver /\ changes' = changes + 1 /\ UNCHANGED <<owner, instances, exported>>
    BY <1>7, Zenon DEF SaverChanges
  <2>2. saver' \in Flags /\ changes' \in Nat
    BY <1>1, <2>1 DEF Flags
  <2>3. QED
    BY <1>1, <1>3, <2>1, <2>2, Zenon
<1>8. CASE UNCHANGED vars
  BY <1>4, <1>8, Zenon DEF vars
<1>9. CASE BeginSeed \/ SeedPowerSaver \/ EmitSeed \/ TakeValues \/ StoreVersions
           \/ (\E wanted \in {Interfaces} \cup {{f} : f \in Interfaces} : BeginRead(wanted))
  BY <1>4, <1>9, Zenon DEF BeginSeed, SeedPowerSaver, EmitSeed, TakeValues, StoreVersions, BeginRead
<1>10. CASE IssueGets \/ IssueRefresh \/ OnPropertyRead \/ OnPortalAppeared \/ OnPortalVanished
            \/ EmitChange \/ (\E type \in {"changed", "refreshed"} : OnPowerSaverReport(type))
  BY <1>4, <1>10, Zenon DEF IssueGets, IssueRefresh, OnPropertyRead, OnPortalAppeared,
     OnPortalVanished, EmitChange, OnPowerSaverReport
<1>11. CASE (\E p \in Properties : ReadByPortal(p) \/ ReadFails(p))
            \/ RefreshByPortal \/ RefreshFails
  BY <1>4, <1>11, Zenon DEF ReadByPortal, ReadFails, AnswerGet, RefreshByPortal, RefreshFails
<1>12. QED
  BY <1>5, <1>6, <1>7, <1>8, <1>9, <1>10, <1>11, Steps, Zenon

\* What the bus may do to the queue: nothing, or one more message.
Enqueued(m) == inbox' = Append(inbox, m)

\* An answer to a Get is one of the property's values.
AnswerTo(p, answer) ==
  answer = NoAnswer \/ (owner # NoOwner
    /\ answer = [value |-> IF p = PowerSaver THEN saver ELSE exported[owner][p], definitive |-> TRUE])

LEMMA AnswersFit ==
  ASSUME TypeInv, NEW p \in Properties, NEW a, AnswerTo(p, a)
  PROVE  a \in Answers /\ a.value \in ValuesOf(p)
<1>1. /\ exported \in [1..MaxInstances -> [Interfaces -> Versions \cup {Missing}]] /\ saver \in Flags
      /\ owner \in 0..MaxInstances /\ MaxInstances \in Nat
  BY Groups, BoundsAssumption DEF PortalTypes, Placed, Offers
<1>2. CASE a = NoAnswer
  BY <1>2 DEF NoAnswer, Answers, ValuesOf
<1>3. CASE owner # NoOwner
           /\ a = [value |-> IF p = PowerSaver THEN saver ELSE exported[owner][p], definitive |-> TRUE]
  <2>1. owner \in 1..MaxInstances
    BY <1>1, <1>3 DEF NoOwner
  <2>2. p # PowerSaver => p \in Interfaces
    BY DEF Properties
  <2>3. (IF p = PowerSaver THEN saver ELSE exported[owner][p]) \in ValuesOf(p)
    BY <1>1, <2>1, <2>2 DEF ValuesOf
  <2>4. QED
    BY <1>3, <2>3 DEF Answers, ValuesOf
<1>4. QED
  BY <1>2, <1>3 DEF AnswerTo

\* What each action does to the queue, the portal and the desktop's state: it
\* touches none of them; it handles a message; it sends one; or the state
\* changes while there is no portal to tell of it.
reporterVars == <<powerVars, worker, heard, main, batch>>
Quiescent ==
  /\ UNCHANGED <<inbox, portal_owner, owner, exported, saver>>
  /\ MainThread \/ EmitChange \/ UNCHANGED reporterVars
Handled ==
  /\ inbox # <<>>
  /\ inbox' = Tail(inbox)
  /\ portal_owner' = IF Head(inbox).type \in News THEN OwnerOf(Head(inbox)) ELSE portal_owner
  /\ UNCHANGED <<owner, exported, saver>>
  /\ \/ OnPropertyRead \/ OnPortalAppeared \/ OnPortalVanished
     \/ \E type \in {"changed", "refreshed"} : OnPowerSaverReport(type)
Sent(m) ==
  /\ Enqueued(m)
  /\ UNCHANGED <<portal_owner, exported>>
  /\ UNCHANGED reporterVars
  /\ \/ /\ m.type = "appeared" /\ owner = NoOwner /\ owner' = m.owner /\ owner' # NoOwner
        /\ saver' = saver
     \/ m.type = "vanished" /\ Restless /\ owner' = NoOwner /\ saver' = saver
     \/ m.type = "changed" /\ Restless /\ owner # NoOwner /\ owner' = owner /\ m.value = saver'
     \/ m.type = "refreshed" /\ owner # NoOwner /\ m.value = saver /\ UNCHANGED <<owner, saver>>
     \/ m.type = "read" /\ AnswerTo(m.property, m.answer) /\ UNCHANGED <<owner, saver>>
Unnoticed ==
  /\ Restless
  /\ owner = NoOwner
  /\ UNCHANGED <<inbox, portal_owner, owner, exported>>
  /\ UNCHANGED reporterVars

LEMMA QueueSteps ==
  ASSUME TypeInv, [Next]_vars
  PROVE  Quiescent \/ Handled \/ (\E m \in Messages : Sent(m)) \/ Unnoticed
<1>1. /\ owner \in Nat /\ saver \in Flags /\ batch.number \in Nat /\ instances \in Nat
  BY Groups DEF PortalTypes, MainTypes
<1>2. ASSUME NEW p \in Properties, NEW a, AnswerTo(p, a), AnswerGet(p, a)
      PROVE  \E m \in Messages : Sent(m)
  <2> DEFINE m == [type |-> "read", batch |-> batch.number, property |-> p, answer |-> a]
  <2>1. m \in Messages
    BY <1>1, <1>2, AnswersFit, Made
  <2>2. inbox' = Append(inbox, m) /\ UNCHANGED <<portal_owner, owner, exported, saver>>
    BY <1>2, Zenon DEF AnswerGet, ownerVars, portalVars
  <2>3. m.type = "read" /\ m.property = p /\ m.answer = a
    OBVIOUS
  <2>4. UNCHANGED reporterVars
    BY <1>2, Zenon DEF AnswerGet, mainVars, reporterVars
  <2> HIDE DEF m
  <2>5. QED
    BY <1>2, <2>1, <2>2, <2>3, <2>4, Zenon DEF Enqueued, Sent
<1>3. ASSUME NEW p \in Properties, ReadByPortal(p) \/ ReadFails(p)
      PROVE  \E m \in Messages : Sent(m)
  BY <1>2, <1>3, Zenon DEF ReadByPortal, ReadFails, AnswerTo
<1>4. CASE RefreshByPortal
  <2> DEFINE m == [type |-> "refreshed", value |-> saver]
  <2>1. m \in Messages /\ m.type = "refreshed" /\ m.value = saver
    BY <1>1, Made
  <2>2. /\ inbox' = Append(inbox, m) /\ owner # NoOwner
        /\ UNCHANGED <<portal_owner, owner, exported, saver>>
    BY <1>4, Zenon DEF RefreshByPortal, ownerVars, portalVars
  <2>3. UNCHANGED reporterVars
    BY <1>4, Zenon DEF RefreshByPortal, mainVars, reporterVars
  <2> HIDE DEF m
  <2>4. QED
    BY <2>1, <2>2, <2>3, Zenon DEF Enqueued, Sent
<1>5. CASE PortalStarts
  <2> DEFINE m == [type |-> "appeared", owner |-> instances + 1]
  <2>1. m \in Messages /\ m.type = "appeared" /\ m.owner = instances + 1
    BY <1>1, Made DEF NoOwner
  <2>2. inbox' = Append(inbox, m) /\ owner = NoOwner /\ owner' = instances + 1
        /\ UNCHANGED <<portal_owner, exported, saver>>
    BY <1>5, Zenon DEF PortalStarts, ownerVars
  <2>3. owner' # NoOwner
    BY <1>1, <2>2 DEF NoOwner
  <2>4. UNCHANGED reporterVars
    BY <1>5, Zenon DEF PortalStarts, mainVars, reporterVars
  <2> HIDE DEF m
  <2>5. QED
    BY <2>1, <2>2, <2>3, <2>4, Zenon DEF Enqueued, Sent
<1>6. CASE PortalVanishes
  <2> DEFINE m == [type |-> "vanished"]
  <2>1. m \in Messages /\ m.type = "vanished"
    BY Made
  <2>2. /\ inbox' = Append(inbox, m) /\ owner' = NoOwner /\ Restless
        /\ UNCHANGED <<portal_owner, exported, saver>>
    BY <1>6, Zenon DEF PortalVanishes, ownerVars
  <2>3. UNCHANGED reporterVars
    BY <1>6, Zenon DEF PortalVanishes, mainVars, reporterVars
  <2> HIDE DEF m
  <2>4. QED
    BY <2>1, <2>2, <2>3, Zenon DEF Enqueued, Sent
<1>7. CASE SaverChanges
  <2> DEFINE m == [type |-> "changed", value |-> 1 - saver]
  <2>1. m \in Messages /\ m.type = "changed" /\ m.value = 1 - saver
    BY <1>1, Made DEF Flags
  <2>2. /\ Restless /\ saver' = 1 - saver /\ UNCHANGED <<portal_owner, owner, exported>>
        /\ (owner = NoOwner /\ inbox' = inbox) \/ (owner # NoOwner /\ inbox' = Append(inbox, m))
    BY <1>7, Zenon DEF SaverChanges, ownerVars
  <2>3. UNCHANGED reporterVars
    BY <1>7, Zenon DEF SaverChanges, mainVars, reporterVars
  <2> HIDE DEF m
  <2>4. CASE owner = NoOwner
    BY <2>2, <2>3, <2>4, Zenon DEF Unnoticed
  <2>5. CASE owner # NoOwner
    BY <2>1, <2>2, <2>3, <2>5, Zenon DEF Enqueued, Sent
  <2>6. QED
    BY <2>4, <2>5
<1>8. CASE OnPortalAppeared \/ OnPortalVanished
  BY <1>8, Zenon DEF OnPortalAppeared, OnPortalVanished, Dispatching, News, OwnerOf, portalVars, Handled
<1>9. CASE OnPropertyRead \/ (\E type \in {"changed", "refreshed"} : OnPowerSaverReport(type))
  <2>1. inbox # <<>> /\ inbox' = Tail(inbox) /\ Head(inbox).type \in {"read", "changed", "refreshed"}
        /\ UNCHANGED <<portal_owner, owner, exported, saver>>
    BY <1>9, Zenon DEF OnPropertyRead, OnPowerSaverReport, Dispatching, ownerVars, portalVars
  <2>2. Head(inbox).type \notin News
    BY <2>1 DEF News
  <2>3. QED
    BY <1>9, <2>1, <2>2, Zenon DEF Handled
<1>10. CASE UNCHANGED vars \/ RefreshFails \/ IssueGets \/ IssueRefresh
  BY <1>10, Zenon DEF vars, RefreshFails, IssueGets, IssueRefresh, ownerVars, portalVars, mainVars,
     reporterVars, Quiescent
<1>11. CASE BeginSeed \/ SeedPowerSaver \/ EmitSeed \/ TakeValues \/ StoreVersions
            \/ (\E wanted \in {Interfaces} \cup {{f} : f \in Interfaces} : BeginRead(wanted))
  <2>1. UNCHANGED <<inbox, portal_owner, owner, exported, saver>>
    BY <1>11, Zenon DEF BeginSeed, SeedPowerSaver, EmitSeed, TakeValues, StoreVersions, BeginRead,
       ownerVars, portalVars
  <2>2. QED
    BY <1>11, <2>1, Zenon DEF Quiescent, MainThread
<1>12. CASE EmitChange
  BY <1>12, Zenon DEF EmitChange, ownerVars, portalVars, Quiescent
<1>13. QED
  BY <1>3, <1>4, <1>5, <1>6, <1>7, <1>8, <1>9, <1>10, <1>11, <1>12, Steps, Zenon

LEMMA StepQueue ==
  ASSUME TypeInv, [Next]_vars
  PROVE  inbox' \in Seq(Messages) /\ ReadValuesInv'
<1>1. inbox \in Seq(Messages) /\ ReadValuesInv
  BY Groups, Zenon DEF BusTypes
<1>2. CASE inbox' = inbox
  BY <1>1, <1>2 DEF ReadValuesInv
<1>3. CASE inbox # <<>> /\ inbox' = Tail(inbox)
  <2>1. inbox' \in Seq(Messages) /\ Len(inbox') = Len(inbox) - 1 /\ Len(inbox) \in Nat
        /\ \A i \in 1..Len(inbox) - 1 : inbox'[i] = inbox[i + 1]
    BY <1>1, <1>3, Dequeued
  <2>2. \A i \in DOMAIN inbox' : i + 1 \in DOMAIN inbox /\ inbox'[i] = inbox[i + 1]
    BY <1>1, <2>1
  <2>3. QED
    BY <1>1, <2>1, <2>2, Zenon DEF ReadValuesInv
<1>4. ASSUME NEW m \in Messages, Enqueued(m),
             m.type = "read" => AnswerTo(m.property, m.answer)
      PROVE  inbox' \in Seq(Messages) /\ ReadValuesInv'
  <2>1. /\ inbox' \in Seq(Messages) /\ Len(inbox') = Len(inbox) + 1 /\ Len(inbox) \in Nat
        /\ inbox'[Len(inbox) + 1] = m
        /\ \A i \in 1..Len(inbox) : inbox'[i] = inbox[i]
    BY <1>1, <1>4, Queued DEF Enqueued
  <2>2. \A i \in DOMAIN inbox' : (i \in DOMAIN inbox /\ inbox'[i] = inbox[i]) \/ inbox'[i] = m
    BY <1>1, <2>1
  <2>3. m.type = "read" => m.answer.value \in ValuesOf(m.property)
    BY <1>4, AnswersFit, ByType
  <2>4. QED
    BY <1>1, <2>1, <2>2, <2>3, Zenon DEF ReadValuesInv
<1>5. ASSUME NEW m \in Messages, Sent(m)
      PROVE  Enqueued(m) /\ (m.type = "read" => AnswerTo(m.property, m.answer))
  BY <1>5 DEF Sent
<1>6. QED
  BY <1>2, <1>3, <1>4, <1>5, QueueSteps, Zenon DEF Quiescent, Handled, Unnoticed

LEMMA StepBus ==
  ASSUME TypeInv, [Next]_vars
  PROVE  BusTypes' /\ ReadValuesInv'
<1>1. gets \in SUBSET Properties /\ refreshing \in Nat /\ batch.left \in SUBSET Properties
  BY Groups DEF BusTypes, MainTypes
<1>2. gets' \in SUBSET Properties
  <2>1. CASE gets' = gets
    BY <1>1, <2>1
  <2>2. CASE BeginSeed \/ (\E wanted \in {Interfaces} \cup {{f} : f \in Interfaces} : BeginRead(wanted))
    <3>1. gets' = {}
      BY <2>2, Zenon DEF BeginSeed, BeginRead, ReadProperties
    <3>2. QED
      BY <3>1
  <2>3. CASE IssueGets
    <3>1. gets' = batch.left \/ gets' = {}
      BY <2>3, Zenon DEF IssueGets
    <3>2. QED
      BY <1>1, <3>1
  <2>4. CASE \E p \in Properties : ReadByPortal(p) \/ ReadFails(p)
    <3>1. \E p \in Properties : gets' = gets \ {p}
      BY <2>4, Zenon DEF ReadByPortal, ReadFails, AnswerGet
    <3>2. QED
      BY <1>1, <3>1
  <2>5. CASE UNCHANGED vars
    BY <2>1, <2>5, Zenon DEF vars, callVars
  <2>6. CASE SeedPowerSaver \/ EmitSeed \/ TakeValues \/ StoreVersions
    BY <2>1, <2>6, Zenon DEF SeedPowerSaver, EmitSeed, TakeValues, StoreVersions, callVars
  <2>7. CASE IssueRefresh \/ OnPropertyRead \/ OnPortalAppeared \/ OnPortalVanished \/ EmitChange
             \/ (\E type \in {"changed", "refreshed"} : OnPowerSaverReport(type))
    BY <2>1, <2>7, Zenon DEF IssueRefresh, OnPropertyRead, OnPortalAppeared, OnPortalVanished,
       EmitChange, OnPowerSaverReport, callVars
  <2>8. CASE RefreshByPortal \/ RefreshFails \/ PortalStarts \/ PortalVanishes \/ SaverChanges
    BY <2>1, <2>8, Zenon DEF RefreshByPortal, RefreshFails, PortalStarts, PortalVanishes,
       SaverChanges, callVars
  <2>9. QED
    BY <2>2, <2>3, <2>4, <2>5, <2>6, <2>7, <2>8, Steps, Zenon
<1>3. refreshing' \in Nat
  <2>1. CASE refreshing' = refreshing
    BY <1>1, <2>1
  <2>2. CASE refreshing' = refreshing + 1
    BY <1>1, <2>2
  <2>3. CASE RefreshByPortal \/ RefreshFails
    <3>1. refreshing > 0 /\ refreshing' = refreshing - 1
      BY <2>3, Zenon DEF RefreshByPortal, RefreshFails
    <3>2. QED
      BY <1>1, <3>1
  <2>4. CASE IssueRefresh \/ OnPortalAppeared
    BY <2>1, <2>2, <2>4, Zenon DEF IssueRefresh, OnPortalAppeared
  <2>5. CASE UNCHANGED vars
    BY <2>1, <2>5, Zenon DEF vars, callVars
  <2>6. CASE BeginSeed \/ SeedPowerSaver \/ EmitSeed \/ TakeValues \/ StoreVersions
             \/ (\E wanted \in {Interfaces} \cup {{f} : f \in Interfaces} : BeginRead(wanted))
    BY <2>1, <2>6, Zenon DEF BeginSeed, SeedPowerSaver, EmitSeed, TakeValues, StoreVersions,
       BeginRead, callVars
  <2>7. CASE IssueGets \/ OnPropertyRead \/ OnPortalVanished \/ EmitChange
             \/ (\E type \in {"changed", "refreshed"} : OnPowerSaverReport(type))
    BY <2>1, <2>7, Zenon DEF IssueGets, OnPropertyRead, OnPortalVanished, EmitChange,
       OnPowerSaverReport, callVars
  <2>8. CASE (\E p \in Properties : ReadByPortal(p) \/ ReadFails(p))
             \/ PortalStarts \/ PortalVanishes \/ SaverChanges
    BY <2>1, <2>8, Zenon DEF ReadByPortal, ReadFails, AnswerGet, PortalStarts, PortalVanishes,
       SaverChanges, callVars
  <2>9. QED
    BY <2>3, <2>4, <2>5, <2>6, <2>7, <2>8, Steps, Zenon
<1>4. QED
  BY <1>2, <1>3, StepQueue, Zenon DEF BusTypes

LEMMA StepTypes == ASSUME TypeInv, [Next]_vars PROVE TypeInv'
BY StepPower, StepOwner, StepCache, StepMain, StepWorker, StepBus, StepPortal, Zenon
   DEF TypeInv, TypeOK

\* Every variable holds a value of its kind; power_saver_state() can only be -1, 0 or 1.
THEOREM TypeCorrect == Spec => []TypeOK
<1>1. Init => TypeInv
  BY InitTypes
<1>2. TypeInv /\ [Next]_vars => TypeInv'
  BY StepTypes
<1>3. TypeInv => TypeOK
  BY DEF TypeInv
<1>4. QED
  BY <1>1, <1>2, <1>3, PTL DEF Spec

-----------------------------------------------------------------------------
(* The cache.  An answer on its way tells what the instance exports whose  *)
(* owner the worker will believe in when it gets there; an answer received *)
(* is the believed instance's unless the generation went on since.         *)

DefinitiveRead(m) == m.type = "read" /\ m.property \in Interfaces /\ m.answer.definitive

ReadsInv ==
  \A i \in DOMAIN inbox : DefinitiveRead(inbox[i]) =>
    \E o : /\ o # NoOwner
          /\ Believed(portal_owner, inbox, i, o)
          /\ inbox[i].answer.value = exported[o][inbox[i].property]
EndInv == Believed(portal_owner, inbox, Len(inbox) + 1, owner)
UnseenInv == ~portal_owner_seen => portal_owner = NoOwner
GenerationInv == generation <= portal_generation
AnswerInv ==
  \A f \in Interfaces : Cacheable(f) =>
    portal_owner # NoOwner /\ batch.answers[f].value = exported[portal_owner][f]

QueueInv == ReadsInv /\ EndInv
CacheInv == UnseenInv /\ GenerationInv /\ AnswerInv /\ CacheIsCurrent

LEMMA InitQueue == ASSUME Init PROVE QueueInv
<1>1. /\ portal_owner = NoOwner
      /\ \/ owner = 1 /\ inbox = <<[type |-> "appeared", owner |-> 1]>>
         \/ owner = NoOwner /\ inbox = <<[type |-> "vanished"]>>
  BY Zenon DEF Init
<1>2. /\ Len(inbox) = 1 /\ DOMAIN inbox = {1} /\ inbox[1].type \in News
      /\ OwnerOf(inbox[1]) = owner
  BY <1>1 DEF News, OwnerOf
<1>3. ReadsInv
  BY <1>2 DEF ReadsInv, DefinitiveRead, News
<1>4. EndInv
  <2>1. (Len(inbox) + 1) - 1 = 1 /\ 1 \in 1..1 /\ \A k \in 1 + 1..1 : FALSE
    BY <1>2
  <2>2. QED
    BY <1>2, <2>1 DEF EndInv, Believed
<1>5. QED
  BY <1>3, <1>4 DEF QueueInv

\* A message more: what is before it stands as it was, and a read is the owner's.
LEMMA QueueGrows ==
  ASSUME TypeInv, QueueInv, NEW m \in Messages, Enqueued(m),
         UNCHANGED <<portal_owner, exported>>,
         \/ m.type \in News /\ owner' = OwnerOf(m)
         \/ m.type \in {"changed", "refreshed"} /\ owner' = owner
         \/ m.type = "read" /\ owner' = owner /\ AnswerTo(m.property, m.answer)
  PROVE  QueueInv'
<1> DEFINE n == Len(inbox)
<1>1. inbox \in Seq(Messages) /\ ReadsInv /\ EndInv
  BY Groups, Zenon DEF BusTypes, QueueInv
<1>2. /\ inbox' = Append(inbox, m) /\ n \in Nat /\ inbox'[n + 1] = m /\ Len(inbox') = n + 1
      /\ inbox' \in Seq(Messages)
      /\ \A i \in 1..n : inbox'[i] = inbox[i]
  BY <1>1, Queued DEF Enqueued
<1>3. \A i \in 1..n + 1 : i \in 1..n \/ i = n + 1
  BY <1>2
<1>4. DOMAIN inbox' = 1..n + 1 /\ DOMAIN inbox = 1..n
  BY <1>1, <1>2
<1>5. \A i \in 1..n + 1 : \A o : Believed(portal_owner, inbox, i, o) =>
        Believed(portal_owner', inbox', i, o)
  BY <1>1, <1>2, BelievedBefore
<1>6. n + 1 \in 1..n + 1 /\ \A i \in 1..n : i \in 1..n + 1
  BY <1>2
<1>7. ASSUME NEW i \in 1..n, DefinitiveRead(inbox'[i])
      PROVE  \E o : /\ o # NoOwner
                   /\ Believed(portal_owner', inbox', i, o)
                   /\ inbox'[i].answer.value = exported'[o][inbox'[i].property]
  <2>1. inbox'[i] = inbox[i] /\ i \in 1..n + 1 /\ exported' = exported
    BY <1>2, <1>6, Zenon
  <2>2. PICK o : /\ o # NoOwner
                 /\ Believed(portal_owner, inbox, i, o)
                 /\ inbox[i].answer.value = exported[o][inbox[i].property]
    BY <1>1, <1>4, <1>7, <2>1, Zenon DEF ReadsInv
  <2>3. QED
    BY <1>5, <2>1, <2>2, Zenon
<1>8. ASSUME DefinitiveRead(m)
      PROVE  \E o : /\ o # NoOwner
                   /\ Believed(portal_owner', inbox', n + 1, o)
                   /\ m.answer.value = exported'[o][m.property]
  <2>1. m.type = "read" /\ m.property \in Interfaces /\ m.answer.definitive
    BY <1>8 DEF DefinitiveRead
  <2>2. AnswerTo(m.property, m.answer)
    BY <2>1 DEF News
  <2>3. m.answer # NoAnswer
    BY <2>1 DEF NoAnswer
  <2>4. m.property # PowerSaver
    BY <2>1, PropertiesAssumption
  <2>5. owner # NoOwner /\ m.answer.value = exported[owner][m.property]
    BY <2>2, <2>3, <2>4 DEF AnswerTo
  <2>6. Believed(portal_owner', inbox', n + 1, owner)
    BY <1>1, <1>5, <1>6, Zenon DEF EndInv
  <2>7. QED
    BY <2>5, <2>6, Zenon
<1>9. ReadsInv'
  <2>1. SUFFICES ASSUME NEW i \in 1..n + 1, DefinitiveRead(inbox'[i])
                 PROVE  \E o : /\ o # NoOwner
                              /\ Believed(portal_owner', inbox', i, o)
                              /\ inbox'[i].answer.value = exported'[o][inbox'[i].property]
    BY <1>4, Zenon DEF ReadsInv
  <2>2. CASE i \in 1..n
    BY <1>7, <2>1, <2>2, Zenon
  <2>3. CASE i = n + 1
    BY <1>2, <1>8, <2>1, <2>3, Zenon
  <2>4. QED
    BY <1>3, <2>2, <2>3, Zenon
<1>10. EndInv'
  <2>1. Len(inbox') + 1 = n + 2
    BY <1>2
  <2>2. CASE m.type \in News
    <3>1. owner' = OwnerOf(m)
      BY <2>2 DEF News
    <3>2. Believed(portal_owner', inbox', n + 2, OwnerOf(m))
      BY <1>1, <1>2, <2>2, BelievedAfterNews
    <3>3. QED
      BY <2>1, <3>1, <3>2, Zenon DEF EndInv
  <2>3. CASE m.type \notin News
    <3>1. owner' = owner
      BY <2>3
    <3>2. Believed(portal_owner', inbox', n + 2, owner)
      BY <1>1, <1>2, <2>3, BelievedAfterOther DEF EndInv
    <3>3. QED
      BY <2>1, <3>1, <3>2, Zenon DEF EndInv
  <2>4. QED
    BY <2>2, <2>3
<1>11. QED
  BY <1>9, <1>10 DEF QueueInv

\* The first message handled: the rest is one place nearer.
LEMMA QueueShrinks ==
  ASSUME TypeInv, QueueInv, inbox # <<>>, inbox' = Tail(inbox), UNCHANGED <<owner, exported>>,
         portal_owner' = IF Head(inbox).type \in News THEN OwnerOf(Head(inbox)) ELSE portal_owner
  PROVE  QueueInv'
<1> DEFINE n == Len(inbox)
<1>1. inbox \in Seq(Messages) /\ ReadsInv /\ EndInv
  BY Groups, Zenon DEF BusTypes, QueueInv
<1>2. /\ n \in Nat \ {0} /\ Len(inbox') = n - 1
      /\ inbox' \in Seq(Messages)
      /\ \A i \in 1..n - 1 : inbox'[i] = inbox[i + 1]
  BY <1>1, Dequeued
<1>3. \A i \in 1..n : \A o : Believed(portal_owner, inbox, i + 1, o) =>
        Believed(portal_owner', inbox', i, o)
  BY <1>1, BelievedStill
<1>4. DOMAIN inbox' = 1..n - 1 /\ DOMAIN inbox = 1..n
  BY <1>1, <1>2
<1>5. n \in 1..n /\ Len(inbox') + 1 = n /\ \A i \in 1..n - 1 : i \in 1..n /\ i + 1 \in 1..n
  BY <1>2
<1>6. ReadsInv'
  <2>1. SUFFICES ASSUME NEW i \in 1..n - 1, DefinitiveRead(inbox'[i])
                 PROVE  \E o : /\ o # NoOwner
                              /\ Believed(portal_owner', inbox', i, o)
                              /\ inbox'[i].answer.value = exported'[o][inbox'[i].property]
    BY <1>4, Zenon DEF ReadsInv
  <2>2. inbox'[i] = inbox[i + 1] /\ i \in 1..n /\ i + 1 \in 1..n /\ exported' = exported
    BY <1>2, <1>5, Zenon
  <2>3. PICK o : /\ o # NoOwner
                 /\ Believed(portal_owner, inbox, i + 1, o)
                 /\ inbox[i + 1].answer.value = exported[o][inbox[i + 1].property]
    BY <1>1, <1>4, <2>1, <2>2, Zenon DEF ReadsInv
  <2>4. QED
    BY <1>3, <2>2, <2>3, Zenon
<1>7. EndInv'
  BY <1>1, <1>3, <1>5, Zenon DEF EndInv
<1>8. QED
  BY <1>6, <1>7 DEF QueueInv

LEMMA StepQueueInv ==
  ASSUME TypeInv, QueueInv, [Next]_vars
  PROVE  QueueInv'
<1>1. CASE UNCHANGED <<inbox, portal_owner, owner, exported>>
  BY <1>1 DEF QueueInv, ReadsInv, EndInv, Believed
<1>2. ASSUME NEW m \in Messages, Sent(m) PROVE QueueInv'
  <2>1. \/ m.type \in News /\ owner' = OwnerOf(m)
        \/ m.type \in {"changed", "refreshed"} /\ owner' = owner
        \/ m.type = "read" /\ owner' = owner /\ AnswerTo(m.property, m.answer)
    BY <1>2 DEF Sent, News, OwnerOf
  <2>2. Enqueued(m) /\ UNCHANGED <<portal_owner, exported>>
    BY <1>2, Zenon DEF Sent
  <2>3. QED
    BY <2>1, <2>2, QueueGrows, Zenon
<1>3. QED
  BY <1>1, <1>2, QueueSteps, QueueShrinks, Zenon DEF Quiescent, Handled, Unnoticed

LEMMA InitCache == ASSUME Init PROVE CacheInv
<1>1. UnseenInv /\ GenerationInv /\ CacheIsCurrent
  BY DEF Init, UnseenInv, GenerationInv, CacheIsCurrent
<1>2. AnswerInv
  BY DEF Init, AnswerInv, Cacheable, NoAnswer, Properties
<1>3. QED
  BY <1>1, <1>2 DEF CacheInv

LEMMA StepCacheInv ==
  ASSUME TypeInv, QueueInv, CacheInv, [Next]_vars
  PROVE  CacheInv'
<1>1. /\ UnseenInv /\ GenerationInv /\ AnswerInv /\ CacheIsCurrent
      /\ generation \in Nat /\ portal_generation \in Nat
  BY Groups, Zenon DEF CacheInv, MainTypes, OwnerTypes
<1>2. ASSUME UNCHANGED <<ownerVars, cached_versions, generation, batch, exported>> PROVE CacheInv'
  BY <1>2 DEF ownerVars, CacheInv, UnseenInv, GenerationInv, AnswerInv, Cacheable, CacheIsCurrent
<1>3. ASSUME NEW wanted, NEW seeding, ReadProperties(wanted, seeding),
             UNCHANGED <<ownerVars, cached_versions, exported>>
      PROVE  CacheInv'
  <2>1. /\ generation' = portal_generation /\ portal_generation' = portal_generation
        /\ \A p \in Properties : batch'.answers[p] = NoAnswer
    BY <1>3 DEF ReadProperties, ownerVars
  <2>2. GenerationInv'
    BY <1>1, <2>1 DEF GenerationInv
  <2>3. AnswerInv'
    BY <2>1 DEF AnswerInv, Cacheable, NoAnswer, Properties
  <2>4. UnseenInv' /\ CacheIsCurrent'
    BY <1>1, <1>3 DEF UnseenInv, CacheIsCurrent, ownerVars
  <2>5. QED
    BY <2>2, <2>3, <2>4 DEF CacheInv
<1>4. CASE BeginSeed \/ (\E wanted \in {Interfaces} \cup {{f} : f \in Interfaces} : BeginRead(wanted))
  BY <1>3, <1>4, Zenon DEF BeginSeed, BeginRead, portalVars
<1>5. CASE StoreVersions
  <2>1. /\ UNCHANGED <<portal_owner, portal_owner_seen, portal_generation, generation, batch, exported>>
        /\ cached_versions' = [f \in Interfaces |->
              IF Cacheable(f) THEN batch.answers[f].value ELSE cached_versions[f]]
    BY <1>5, Zenon DEF StoreVersions, CacheAnswers, ownerVars, portalVars
  <2>2. UnseenInv' /\ GenerationInv' /\ AnswerInv'
    BY <1>1, <2>1 DEF UnseenInv, GenerationInv, AnswerInv, Cacheable
  <2>3. CacheIsCurrent'
    BY <1>1, <2>1 DEF CacheIsCurrent, AnswerInv
  <2>4. QED
    BY <2>2, <2>3 DEF CacheInv
<1>6. CASE OnPropertyRead
  <2> DEFINE m == Head(inbox)
  <2>1. /\ inbox # <<>> /\ m.type = "read"
        /\ UNCHANGED <<ownerVars, cached_versions, generation, exported>>
        /\ \/ batch' = batch
           \/ batch' = [number |-> batch.number, seeding |-> batch.seeding,
                        left |-> batch.left \ {m.property},
                        answers |-> [batch.answers EXCEPT ![m.property] = m.answer]]
    BY <1>6, Zenon DEF OnPropertyRead, Dispatching, portalVars
  <2>2. inbox \in Seq(Messages) /\ ReadsInv /\ batch.answers \in [Properties -> Answers]
    BY Groups DEF BusTypes, QueueInv, MainTypes
  <2>3. m = inbox[1] /\ 1 \in DOMAIN inbox
    BY <2>1, <2>2, Dequeued
  <2>4. DefinitiveRead(m) =>
          portal_owner # NoOwner /\ m.answer.value = exported[portal_owner][m.property]
    BY <2>2, <2>3, BelievedNow, Zenon DEF ReadsInv
  <2> HIDE DEF m
  <2>5. CASE batch' = batch
    BY <1>2, <2>1, <2>5, Zenon
  <2>6. CASE batch' = [number |-> batch.number, seeding |-> batch.seeding,
                       left |-> batch.left \ {m.property},
                       answers |-> [batch.answers EXCEPT ![m.property] = m.answer]]
    <3>1. \A f \in Interfaces :
            batch'.answers[f] = IF f = m.property THEN m.answer ELSE batch.answers[f]
      BY <2>2, <2>6 DEF Properties
    <3>2. AnswerInv'
      BY <1>1, <2>1, <2>4, <3>1 DEF AnswerInv, Cacheable, DefinitiveRead, ownerVars
    <3>3. UnseenInv' /\ GenerationInv' /\ CacheIsCurrent'
      BY <1>1, <2>1 DEF UnseenInv, GenerationInv, CacheIsCurrent, ownerVars
    <3>4. QED
      BY <3>2, <3>3 DEF CacheInv
  <2>7. QED
    BY <2>1, <2>5, <2>6
<1>7. ASSUME portal_owner_seen' = TRUE, portal_generation' = portal_generation + 1,
             cached_versions' = [f \in Interfaces |-> Uncached],
             UNCHANGED <<generation, batch, exported>>
      PROVE  CacheInv'
  <2>1. GenerationInv' /\ generation' # portal_generation'
    BY <1>1, <1>7 DEF GenerationInv
  <2>2. UnseenInv' /\ AnswerInv' /\ CacheIsCurrent'
    BY <1>7, <2>1 DEF UnseenInv, AnswerInv, Cacheable, CacheIsCurrent
  <2>3. QED
    BY <2>1, <2>2 DEF CacheInv
<1>8. CASE OnPortalVanished
  BY <1>7, <1>8, Zenon DEF OnPortalVanished, mainVars, portalVars
<1>9. CASE OnPortalAppeared
  <2> DEFINE name == Head(inbox).owner
  <2>1. /\ portal_owner_seen' = TRUE /\ portal_owner' = name
        /\ UNCHANGED <<generation, batch, exported>>
        /\ \/ /\ portal_generation' = portal_generation + 1
              /\ cached_versions' = [f \in Interfaces |-> Uncached]
           \/ ~Replaced(name) /\ UNCHANGED <<portal_generation, cached_versions>>
    BY <1>9, Zenon DEF OnPortalAppeared, mainVars, portalVars
  <2>2. CASE ~Replaced(name) /\ UNCHANGED <<portal_generation, cached_versions>>
    <3>1. portal_owner = NoOwner \/ portal_owner' = portal_owner
      BY <1>1, <2>1, <2>2 DEF Replaced, UnseenInv
    <3>2. UnseenInv' /\ GenerationInv'
      BY <1>1, <2>1, <2>2 DEF UnseenInv, GenerationInv
    <3>3. AnswerInv'
      BY <1>1, <2>1, <2>2, <3>1 DEF AnswerInv, Cacheable
    <3>4. CacheIsCurrent'
      BY <1>1, <2>1, <2>2, <3>1 DEF CacheIsCurrent
    <3>5. QED
      BY <3>2, <3>3, <3>4 DEF CacheInv
  <2>3. QED
    BY <1>7, <2>1, <2>2, Zenon
<1>10. CASE UNCHANGED vars
  BY <1>2, <1>10, Zenon DEF vars, mainVars, portalVars
<1>11. CASE SeedPowerSaver \/ EmitSeed \/ TakeValues
  BY <1>2, <1>11, Zenon DEF SeedPowerSaver, EmitSeed, TakeValues, portalVars
<1>12. CASE IssueGets \/ IssueRefresh \/ EmitChange
            \/ (\E type \in {"changed", "refreshed"} : OnPowerSaverReport(type))
  BY <1>2, <1>12, Zenon DEF IssueGets, IssueRefresh, EmitChange, OnPowerSaverReport, mainVars,
     portalVars
<1>13. CASE (\E p \in Properties : ReadByPortal(p) \/ ReadFails(p))
            \/ RefreshByPortal \/ RefreshFails \/ PortalStarts \/ PortalVanishes \/ SaverChanges
  BY <1>2, <1>13, Zenon DEF ReadByPortal, ReadFails, AnswerGet, RefreshByPortal, RefreshFails,
     PortalStarts, PortalVanishes, SaverChanges, mainVars, portalVars
<1>14. QED
  BY <1>4, <1>5, <1>6, <1>8, <1>9, <1>10, <1>11, <1>12, <1>13, Steps, Zenon

\* A cached version is the one that the portal instance exports which the worker
\* believes to own the name: no read that began with another one filled it.
THEOREM CacheNeverStale == Spec => []CacheIsCurrent
<1>1. Init => TypeInv /\ QueueInv /\ CacheInv
  BY InitTypes, InitQueue, InitCache
<1>2. TypeInv /\ QueueInv /\ CacheInv /\ [Next]_vars => (TypeInv /\ QueueInv /\ CacheInv)'
  BY StepTypes, StepQueueInv, StepCacheInv
<1>3. CacheInv => CacheIsCurrent
  BY DEF CacheInv
<1>4. QED
  BY <1>1, <1>2, <1>3, PTL DEF Spec

-----------------------------------------------------------------------------
(* The power-saver state: the reports come in the order of what they       *)
(* report, and so does the constructor's seed, unless it is overtaken.     *)

\* Where a message is, the worker will believe in some owner.
Owned(i) == \E o : o # NoOwner /\ Believed(portal_owner, inbox, i, o)

LEMMA OwnedNow == ASSUME Owned(1) PROVE portal_owner # NoOwner
BY BelievedNow DEF Owned

LEMMA OwnedEnd == ASSUME EndInv, owner # NoOwner PROVE Owned(Len(inbox) + 1)
BY Zenon DEF Owned, EndInv

LEMMA OwnedGrows ==
  ASSUME inbox \in Seq(Messages), NEW m \in Messages, Enqueued(m), portal_owner' = portal_owner,
         NEW i \in 1..Len(inbox) + 1, Owned(i)
  PROVE  Owned(i)'
BY BelievedBefore DEF Owned, Enqueued

LEMMA OwnedShrinks ==
  ASSUME inbox \in Seq(Messages), inbox # <<>>, inbox' = Tail(inbox),
         portal_owner' = IF Head(inbox).type \in News THEN OwnerOf(Head(inbox)) ELSE portal_owner,
         NEW i \in 1..Len(inbox), Owned(i + 1)
  PROVE  Owned(i)'
BY BelievedStill DEF Owned

\* No news of the portal's end and no change come after the i-th message; none
\* comes after it up to the j-th.
Newer == {"changed", "vanished"}
QuietAfter(i) == \A j \in DOMAIN inbox : j > i => inbox[j].type \notin Newer
QuietTo(i, j) == \A k \in DOMAIN inbox : i < k /\ k <= j => inbox[k].type \notin Newer

\* Messages that tell the power-saver state, and what they tell.
Tells(m) ==
  \/ m.type \in {"changed", "refreshed"}
  \/ m.type = "read" /\ m.property = PowerSaver /\ m.answer.value # Missing
Told(m) == IF m.type = "read" THEN m.answer.value ELSE m.value

\* The last one to tell it tells the truth, and a re-read tells what was told last.
ValuesInv ==
  \A i \in DOMAIN inbox : Tells(inbox[i]) =>
    /\ Owned(i)
    /\ QuietAfter(i) => owner # NoOwner /\ Told(inbox[i]) = saver
Agrees(i, j) == inbox[j].type = "refreshed" /\ QuietTo(i, j) => inbox[j].value = Told(inbox[i])
AgreeInv == \A i, j \in DOMAIN inbox : i < j /\ Tells(inbox[i]) => Agrees(i, j)

\* What is known is as good as a message before the first one in the queue.
KnownInv ==
  power_saver_known =>
    portal_owner # NoOwner /\ (QuietAfter(0) => owner # NoOwner /\ power_saver_enabled = saver)

\* The constructor was answered, and is not done with the answer.
SeedTaken == batch.seeding /\ main \in {"await", "seed", "emit"} /\ Seed # Missing
StartInv == main \in {"construct", "seed", "emit"} => batch.seeding
TakenInv ==
  SeedTaken =>
    /\ portal_owner # NoOwner
    /\ QuietAfter(0) => owner # NoOwner /\ Seed = saver
    /\ \A j \in DOMAIN inbox : inbox[j].type = "refreshed" /\ QuietTo(0, j) => inbox[j].value = Seed
    /\ worker # NoChange => worker = Seed

HearInv ==
  /\ main = "emit" => SeedTaken /\ power_saver_known_once /\ power_saver_enabled = Seed
  /\ worker # NoChange => worker = power_saver_enabled
  /\ heard # NoChange /\ worker = NoChange /\ main # "emit" => heard = power_saver_enabled
  /\ heard # NoChange \/ worker # NoChange => power_saver_known_once

SaverInv == ValuesInv /\ AgreeInv /\ KnownInv /\ StartInv /\ TakenInv /\ HearInv

\* The worker handles newer news of the state before the constructor is done with
\* the answer it was given.
Overtaken == SeedTaken /\ (OnPortalVanished \/ OnPowerSaverReport("changed"))

\* A calm start-up: until the constructor is done, no news but that there is no
\* portal, which was so from the start.
CalmInbox ==
  \A i \in DOMAIN inbox :
    /\ inbox[i].type # "changed"
    /\ inbox[i].type = "vanished" => i = 1 /\ portal_owner = NoOwner
CalmInv == ~Constructed => CalmInbox

\* A message more, or one less: how the places in the queue move.
LEMMA Longer ==
  ASSUME inbox \in Seq(Messages), NEW m \in Messages, Enqueued(m), portal_owner' = portal_owner
  PROVE  /\ Len(inbox) \in Nat /\ DOMAIN inbox = 1..Len(inbox) /\ DOMAIN inbox' = 1..Len(inbox) + 1
         /\ inbox'[Len(inbox) + 1] = m
         /\ \A i \in DOMAIN inbox :
              i \in DOMAIN inbox' /\ inbox'[i] = inbox[i] /\ (Owned(i) => Owned(i)')
         /\ \A i \in DOMAIN inbox' : i \in DOMAIN inbox \/ i = Len(inbox) + 1
         /\ \A k : k = Len(inbox) + 1 /\ Owned(k) => Owned(k)'
         /\ \A i \in Nat : QuietAfter(i)' => QuietAfter(i)
         /\ m.type \in Newer => \A i \in 0..Len(inbox) : ~QuietAfter(i)'
<1>1. /\ inbox' = Append(inbox, m) /\ inbox' \in Seq(Messages) /\ Len(inbox') = Len(inbox) + 1
      /\ inbox'[Len(inbox) + 1] = m /\ Len(inbox) \in Nat
      /\ \A i \in 1..Len(inbox) : inbox'[i] = inbox[i]
  BY Queued DEF Enqueued
<1>2. DOMAIN inbox = 1..Len(inbox) /\ DOMAIN inbox' = 1..Len(inbox) + 1
  BY <1>1
<1>3. /\ \A i \in 1..Len(inbox) + 1 : Owned(i) => Owned(i)'
  BY OwnedGrows
<1>4. \A i \in 1..Len(inbox) : i \in 1..Len(inbox) + 1
  BY <1>1
<1>5. Len(inbox) + 1 \in 1..Len(inbox) + 1
      /\ \A i \in 1..Len(inbox) + 1 : i \in 1..Len(inbox) \/ i = Len(inbox) + 1
  BY <1>1
<1>6. \A i \in Nat : QuietAfter(i)' => QuietAfter(i)
  BY <1>1, <1>2, <1>4, Zenon DEF QuietAfter
<1>7. \A i \in 0..Len(inbox) : Len(inbox) + 1 > i
  BY <1>1
<1>8. m.type \in Newer => \A i \in 0..Len(inbox) : ~QuietAfter(i)'
  BY <1>1, <1>2, <1>5, <1>7, Zenon DEF QuietAfter
<1>9. \A i \in DOMAIN inbox :
        i \in DOMAIN inbox' /\ inbox'[i] = inbox[i] /\ (Owned(i) => Owned(i)')
  BY <1>1, <1>2, <1>3, <1>4, Zenon
<1>10. \A i \in DOMAIN inbox' : i \in DOMAIN inbox \/ i = Len(inbox) + 1
  BY <1>2, <1>5, Zenon
<1>11. \A k : k = Len(inbox) + 1 /\ Owned(k) => Owned(k)'
  BY <1>3, <1>5, Zenon
<1>12. QED
  BY <1>1, <1>2, <1>6, <1>8, <1>9, <1>10, <1>11

LEMMA Shorter ==
  ASSUME inbox \in Seq(Messages), inbox # <<>>, inbox' = Tail(inbox),
         portal_owner' = IF Head(inbox).type \in News THEN OwnerOf(Head(inbox)) ELSE portal_owner
  PROVE  /\ Head(inbox) = inbox[1] /\ 1 \in DOMAIN inbox /\ Head(inbox) \in Messages
         /\ \A i \in DOMAIN inbox' :
              /\ i \in Nat /\ i + 1 \in DOMAIN inbox /\ i + 1 # 1 /\ inbox'[i] = inbox[i + 1]
              /\ Owned(i + 1) => Owned(i)'
              /\ QuietAfter(i)' => QuietAfter(i + 1)
         /\ QuietAfter(0)' => QuietAfter(1)
         /\ QuietAfter(0)' /\ Head(inbox).type \notin Newer => QuietAfter(0)
<1>1. /\ Len(inbox) \in Nat \ {0} /\ inbox' \in Seq(Messages) /\ Len(inbox') = Len(inbox) - 1
      /\ Head(inbox) = inbox[1] /\ 1 \in DOMAIN inbox /\ Head(inbox) \in Messages
      /\ \A i \in 1..Len(inbox) - 1 : inbox'[i] = inbox[i + 1]
  BY Dequeued
<1>2. DOMAIN inbox = 1..Len(inbox) /\ DOMAIN inbox' = 1..Len(inbox) - 1
  BY <1>1
<1>3. \A i \in DOMAIN inbox' : i \in Nat /\ i + 1 \in DOMAIN inbox /\ i + 1 # 1 /\ i \in 1..Len(inbox)
  BY <1>1, <1>2
<1>4. \A i \in 1..Len(inbox) : Owned(i + 1) => Owned(i)'
  BY OwnedShrinks
<1>5. ASSUME NEW i \in Nat, QuietAfter(i)' PROVE QuietAfter(i + 1)
  <2>1. SUFFICES ASSUME NEW j \in DOMAIN inbox, j > i + 1
                 PROVE  inbox[j].type \notin Newer
    BY Zenon DEF QuietAfter
  <2>2. j - 1 \in DOMAIN inbox' /\ j - 1 > i /\ inbox'[j - 1] = inbox[j]
    BY <1>1, <1>2, <2>1
  <2>3. QED
    BY <1>5, <2>2, Zenon DEF QuietAfter
<1>6. QuietAfter(0)' => QuietAfter(1)
  BY <1>5
<1>7. ASSUME QuietAfter(1), Head(inbox).type \notin Newer PROVE QuietAfter(0)
  BY <1>1, <1>2, <1>7 DEF QuietAfter
<1>8. QED
  BY <1>1, <1>2, <1>3, <1>4, <1>5, <1>6, <1>7, Zenon

LEMMA LongerQuiet ==
  ASSUME inbox \in Seq(Messages), NEW m \in Messages, Enqueued(m)
  PROVE  /\ \A i \in Nat, j \in DOMAIN inbox : QuietTo(i, j)' => QuietTo(i, j)
         /\ \A i \in Nat : \A k : k = Len(inbox) + 1 /\ QuietTo(i, k)' => QuietAfter(i)
<1>1. /\ Len(inbox) \in Nat /\ DOMAIN inbox = 1..Len(inbox) /\ DOMAIN inbox' = 1..Len(inbox) + 1
      /\ \A k \in DOMAIN inbox : k \in DOMAIN inbox' /\ inbox'[k] = inbox[k] /\ k <= Len(inbox) + 1
  BY Queued DEF Enqueued
<1>2. ASSUME NEW i \in Nat, NEW j \in DOMAIN inbox, QuietTo(i, j)' PROVE QuietTo(i, j)
  BY <1>1, <1>2, Zenon DEF QuietTo
<1>3. ASSUME NEW i \in Nat, NEW k, k = Len(inbox) + 1, QuietTo(i, k)' PROVE QuietAfter(i)
  <2>1. SUFFICES ASSUME NEW j \in DOMAIN inbox, j > i PROVE inbox[j].type \notin Newer
    BY Zenon DEF QuietAfter
  <2>2. i < j
    BY <1>1, <2>1
  <2>3. QED
    BY <1>1, <1>3, <2>2, Zenon DEF QuietTo
<1>4. QED
  BY <1>2, <1>3, Zenon

LEMMA ShorterQuiet ==
  ASSUME inbox \in Seq(Messages), inbox # <<>>, inbox' = Tail(inbox)
  PROVE  /\ \A i, j \in DOMAIN inbox' :
              (i < j => i + 1 < j + 1) /\ (QuietTo(i, j)' => QuietTo(i + 1, j + 1))
         /\ \A j \in DOMAIN inbox' :
              /\ 1 < j + 1
              /\ QuietTo(0, j)' => QuietTo(1, j + 1)
              /\ QuietTo(0, j)' /\ Head(inbox).type \notin Newer => QuietTo(0, j + 1)
<1>1. /\ Len(inbox) \in Nat \ {0} /\ inbox' \in Seq(Messages) /\ Len(inbox') = Len(inbox) - 1
      /\ Head(inbox) = inbox[1] /\ 1 \in DOMAIN inbox
      /\ \A i \in 1..Len(inbox) - 1 : inbox'[i] = inbox[i + 1]
  BY Dequeued
<1>2. DOMAIN inbox = 1..Len(inbox) /\ DOMAIN inbox' = 1..Len(inbox) - 1
  BY <1>1
<1>3. ASSUME NEW i \in Nat, NEW j \in DOMAIN inbox', QuietTo(i, j)' PROVE QuietTo(i + 1, j + 1)
  <2>1. SUFFICES ASSUME NEW k \in DOMAIN inbox, i + 1 < k, k <= j + 1
                 PROVE  inbox[k].type \notin Newer
    BY Zenon DEF QuietTo
  <2>2. k - 1 \in DOMAIN inbox' /\ i < k - 1 /\ k - 1 <= j /\ inbox'[k - 1] = inbox[k]
    BY <1>1, <1>2, <2>1
  <2>3. QED
    BY <1>3, <2>2, Zenon DEF QuietTo
<1>4. \A j \in DOMAIN inbox' : j \in Nat /\ 1 < j + 1
  BY <1>1, <1>2
<1>5. \A j \in DOMAIN inbox' : QuietTo(0, j)' => QuietTo(1, j + 1)
  <2>1. 0 \in Nat /\ 0 + 1 = 1
    OBVIOUS
  <2>2. QED
    BY <1>3, <2>1
<1>6. ASSUME NEW j \in DOMAIN inbox', QuietTo(1, j + 1), Head(inbox).type \notin Newer
      PROVE  QuietTo(0, j + 1)
  <2>1. SUFFICES ASSUME NEW k \in DOMAIN inbox, 0 < k, k <= j + 1
                 PROVE  inbox[k].type \notin Newer
    BY Zenon DEF QuietTo
  <2>2. k = 1 \/ 1 < k
    BY <1>2, <1>1
  <2>3. QED
    BY <1>1, <1>6, <2>1, <2>2, Zenon DEF QuietTo
<1>7. \A i, j \in DOMAIN inbox' : i < j => i + 1 < j + 1
  BY <1>1, <1>2
<1>8. QED
  BY <1>3, <1>4, <1>5, <1>6, <1>7, Zenon

LEMMA InitSaver == ASSUME Init PROVE SaverInv /\ CalmInv
<1>1. /\ inbox = <<[type |-> "appeared", owner |-> 1]>> \/ inbox = <<[type |-> "vanished"]>>
      /\ portal_owner = NoOwner /\ power_saver_known = FALSE
      /\ worker = NoChange /\ heard = NoChange /\ main = "construct"
      /\ batch = [number |-> 0, seeding |-> TRUE, left |-> {},
                  answers |-> [p \in Properties |-> NoAnswer]]
  BY Zenon DEF Init
<1>2. DOMAIN inbox = {1} /\ inbox[1].type \in {"appeared", "vanished"}
  BY <1>1
<1>3. batch.seeding
  BY <1>1
<1>4. ~Tells(inbox[1])
  BY <1>2 DEF Tells
<1>5. ValuesInv /\ AgreeInv
  BY <1>2, <1>4 DEF ValuesInv, AgreeInv
<1>6. CalmInbox
  BY <1>1, <1>2 DEF CalmInbox
<1>7. KnownInv /\ StartInv /\ TakenInv /\ HearInv
  BY <1>1, <1>3 DEF KnownInv, StartInv, TakenInv, SeedTaken, HearInv
<1>8. QED
  BY <1>5, <1>6, <1>7 DEF SaverInv, CalmInv

LEMMA StepValues ==
  ASSUME TypeInv, QueueInv, ValuesInv, [Next]_vars
  PROVE  ValuesInv'
<1>1. inbox \in Seq(Messages) /\ EndInv
  BY Groups, Zenon DEF BusTypes, QueueInv
<1>2. CASE Quiescent
  BY <1>2 DEF Quiescent, ValuesInv, Owned, QuietAfter
<1>3. CASE Handled
  <2>1. /\ inbox # <<>> /\ inbox' = Tail(inbox) /\ owner' = owner /\ saver' = saver
        /\ portal_owner' = IF Head(inbox).type \in News THEN OwnerOf(Head(inbox)) ELSE portal_owner
    BY <1>3, Zenon DEF Handled
  <2>2. \A i \in DOMAIN inbox' :
          /\ i + 1 \in DOMAIN inbox /\ inbox'[i] = inbox[i + 1]
          /\ Owned(i + 1) => Owned(i)'
          /\ QuietAfter(i)' => QuietAfter(i + 1)
    BY <1>1, <2>1, Shorter, Zenon
  <2>3. SUFFICES ASSUME NEW i, i \in DOMAIN inbox', Tells(inbox'[i])
                 PROVE  Owned(i)' /\ (QuietAfter(i)' => owner' # NoOwner /\ Told(inbox'[i]) = saver')
    BY Zenon DEF ValuesInv
  <2>4. /\ i + 1 \in DOMAIN inbox /\ inbox'[i] = inbox[i + 1]
        /\ Owned(i + 1) => Owned(i)'
        /\ QuietAfter(i)' => QuietAfter(i + 1)
    BY <2>2, <2>3, Zenon
  <2>5. Owned(i + 1) /\ (QuietAfter(i + 1) => owner # NoOwner /\ Told(inbox[i + 1]) = saver)
    BY <2>3, <2>4, Zenon DEF ValuesInv
  <2>6. QED
    BY <2>1, <2>4, <2>5
<1>4. ASSUME NEW m \in Messages, Sent(m) PROVE ValuesInv'
  <2> DEFINE n == Len(inbox)
  <2>1. Enqueued(m) /\ portal_owner' = portal_owner
    BY <1>4, Zenon DEF Sent
  <2>2. /\ n \in Nat /\ DOMAIN inbox = 1..n /\ inbox'[n + 1] = m
        /\ \A i \in DOMAIN inbox :
             i \in DOMAIN inbox' /\ inbox'[i] = inbox[i] /\ (Owned(i) => Owned(i)')
        /\ \A i \in DOMAIN inbox' : i \in DOMAIN inbox \/ i = n + 1
        /\ \A k : k = n + 1 /\ Owned(k) => Owned(k)'
        /\ \A i \in Nat : QuietAfter(i)' => QuietAfter(i)
        /\ m.type \in Newer => \A i \in 0..n : ~QuietAfter(i)'
    BY <1>1, <2>1, Longer
  <2>3. \A i \in DOMAIN inbox : i \in Nat /\ i \in 0..n
    BY <2>2
  <2>4. ASSUME NEW i \in DOMAIN inbox, Tells(inbox'[i])
        PROVE  Owned(i)' /\ (QuietAfter(i)' => owner' # NoOwner /\ Told(inbox'[i]) = saver')
    <3>1. Tells(inbox[i]) /\ inbox'[i] = inbox[i]
      BY <2>2, <2>4
    <3>2. Owned(i) /\ (QuietAfter(i) => owner # NoOwner /\ Told(inbox[i]) = saver)
      BY <3>1, Zenon DEF ValuesInv
    <3>3. Owned(i)'
      BY <2>2, <3>2, Zenon
    <3>4. ASSUME QuietAfter(i)' PROVE owner' # NoOwner /\ Told(inbox'[i]) = saver'
      <4>1. QuietAfter(i) /\ m.type \notin Newer
        BY <2>2, <2>3, <3>4, Zenon
      <4>2. owner # NoOwner /\ Told(inbox[i]) = saver
        BY <3>2, <4>1
      <4>3. UNCHANGED <<owner, saver>>
        BY <1>4, <4>1, <4>2 DEF Sent, Newer
      <4>4. QED
        BY <3>1, <4>2, <4>3
    <3>5. QED
      BY <3>3, <3>4
  <2>5. ASSUME Tells(m), NEW k, k = n + 1
        PROVE  Owned(k)' /\ owner' # NoOwner /\ Told(m) = saver'
    <3>1. owner # NoOwner /\ owner' = owner /\ Told(m) = saver'
      <4>1. CASE m.type \in {"changed", "refreshed"}
        BY <1>4, <4>1 DEF Sent, Told
      <4>2. CASE m.type = "read" /\ m.property = PowerSaver /\ m.answer.value # Missing
        BY <1>4, <4>2 DEF Sent, Told, AnswerTo, NoAnswer
      <4>3. QED
        BY <2>5, <4>1, <4>2 DEF Tells
    <3>2. Owned(n + 1)
      BY <1>1, <3>1, OwnedEnd
    <3>3. QED
      BY <2>2, <2>5, <3>1, <3>2, Zenon
  <2>6. SUFFICES ASSUME NEW i, i \in DOMAIN inbox', Tells(inbox'[i])
                 PROVE  Owned(i)' /\ (QuietAfter(i)' => owner' # NoOwner /\ Told(inbox'[i]) = saver')
    BY Zenon DEF ValuesInv
  <2>7. CASE i \in DOMAIN inbox
    BY <2>4, <2>6, <2>7, Zenon
  <2>8. CASE i = n + 1
    BY <2>2, <2>5, <2>6, <2>8, Zenon
  <2>9. QED
    BY <2>2, <2>6, <2>7, <2>8, Zenon
<1>5. CASE Unnoticed
  <2>1. owner = NoOwner /\ UNCHANGED <<inbox, portal_owner>>
    BY <1>5, Zenon DEF Unnoticed
  <2>2. QED
    BY <2>1 DEF ValuesInv, Owned, QuietAfter
<1>6. QED
  BY <1>2, <1>3, <1>4, <1>5, QueueSteps, Zenon

LEMMA StepAgree ==
  ASSUME TypeInv, QueueInv, ValuesInv, AgreeInv, [Next]_vars
  PROVE  AgreeInv'
<1>1. inbox \in Seq(Messages)
  BY Groups, Zenon DEF BusTypes
<1>2. CASE Quiescent \/ Unnoticed
  BY <1>2 DEF Quiescent, Unnoticed, AgreeInv, Agrees, QuietTo
<1>3. CASE Handled
  <2>1. /\ inbox # <<>> /\ inbox' = Tail(inbox)
        /\ portal_owner' = IF Head(inbox).type \in News THEN OwnerOf(Head(inbox)) ELSE portal_owner
    BY <1>3, Zenon DEF Handled
  <2>2. /\ \A i \in DOMAIN inbox' : i + 1 \in DOMAIN inbox /\ inbox'[i] = inbox[i + 1]
        /\ \A i, j \in DOMAIN inbox' :
             (i < j => i + 1 < j + 1) /\ (QuietTo(i, j)' => QuietTo(i + 1, j + 1))
    BY <1>1, <2>1, Shorter, ShorterQuiet, Zenon
  <2>3. QED
    BY <2>2, Zenon DEF AgreeInv, Agrees
<1>4. ASSUME NEW m \in Messages, Sent(m) PROVE AgreeInv'
  <2> DEFINE n == Len(inbox)
  <2>1. Enqueued(m) /\ portal_owner' = portal_owner
    BY <1>4, Zenon DEF Sent
  <2>2. /\ n \in Nat /\ DOMAIN inbox = 1..n /\ inbox'[n + 1] = m
        /\ \A i \in DOMAIN inbox : i \in DOMAIN inbox' /\ inbox'[i] = inbox[i]
        /\ DOMAIN inbox' = 1..n + 1
        /\ \A i \in DOMAIN inbox' : i \in DOMAIN inbox \/ i = n + 1
    BY <1>1, <2>1, Longer
  <2>3. /\ \A i \in Nat, j \in DOMAIN inbox : QuietTo(i, j)' => QuietTo(i, j)
        /\ \A i \in Nat : \A k : k = n + 1 /\ QuietTo(i, k)' => QuietAfter(i)
    BY <1>1, <2>1, LongerQuiet, Zenon
  <2>4. SUFFICES ASSUME NEW i, NEW j, i \in DOMAIN inbox', j \in DOMAIN inbox', i < j,
                        Tells(inbox'[i]), inbox'[j].type = "refreshed", QuietTo(i, j)'
                 PROVE  inbox'[j].value = Told(inbox'[i])
    BY Zenon DEF AgreeInv, Agrees
  <2>5. i \in DOMAIN inbox /\ i \in Nat /\ inbox'[i] = inbox[i]
    <3>1. i \in 1..n /\ i \in Nat
      BY <2>2, <2>4
    <3>2. QED
      BY <2>2, <3>1, Zenon
  <2>6. CASE j \in DOMAIN inbox
    BY <2>2, <2>3, <2>4, <2>5, <2>6, Zenon DEF AgreeInv, Agrees
  <2>7. CASE j = n + 1
    <3>1. QuietAfter(i) /\ m.type = "refreshed"
      BY <2>2, <2>3, <2>4, <2>5, <2>7, Zenon
    <3>2. Told(inbox[i]) = saver
      BY <2>4, <2>5, <3>1, Zenon DEF ValuesInv
    <3>3. m.value = saver
      BY <1>4, <3>1 DEF Sent
    <3>4. QED
      BY <2>2, <2>5, <2>7, <3>2, <3>3
  <2>8. QED
    BY <2>2, <2>4, <2>6, <2>7, Zenon
<1>5. QED
  BY <1>2, <1>3, <1>4, QueueSteps, Zenon

\* What a step of the main thread can do to what is reported.
LEMMA MainSteps ==
  ASSUME MainThread
  PROVE  \/ BeginSeed \/ SeedPowerSaver \/ EmitSeed \/ TakeValues \/ StoreVersions
         \/ \E wanted \in {Interfaces} \cup {{f} : f \in Interfaces} : BeginRead(wanted)
BY DEF MainThread

LEMMA MainKeepsPower ==
  ASSUME MainThread, ~SeedPowerSaver
  PROVE  UNCHANGED powerVars
BY MainSteps, Zenon DEF BeginSeed, EmitSeed, TakeValues, StoreVersions, BeginRead

LEMMA StepKnown ==
  ASSUME TypeInv, ValuesInv, KnownInv, StartInv, TakenInv, [Next]_vars
  PROVE  KnownInv'
<1>1. inbox \in Seq(Messages)
  BY Groups, Zenon DEF BusTypes
<1>2. ASSUME UNCHANGED powerVars, UNCHANGED <<inbox, portal_owner, owner, saver>> PROVE KnownInv'
  BY <1>2 DEF powerVars, KnownInv, QuietAfter
<1>3. CASE Quiescent
  <2>1. UNCHANGED <<inbox, portal_owner, owner, saver>>
    BY <1>3, Zenon DEF Quiescent
  <2>2. CASE SeedPowerSaver
    <3>1. main = "seed" /\ (UNCHANGED powerVars \/ (Seed # Missing /\ ApplyPowerSaver(Seed)))
      BY <2>2, Zenon DEF SeedPowerSaver
    <3>2. CASE Seed # Missing /\ ApplyPowerSaver(Seed)
      <4>1. SeedTaken
        BY <3>1, <3>2 DEF StartInv, SeedTaken
      <4>2. /\ portal_owner # NoOwner
            /\ QuietAfter(0) => owner # NoOwner /\ Seed = saver
        BY <4>1, Zenon DEF TakenInv
      <4>3. power_saver_enabled' = Seed
        BY <3>2, Zenon DEF ApplyPowerSaver
      <4>4. QED
        BY <2>1, <4>2, <4>3 DEF KnownInv, QuietAfter
    <3>3. QED
      BY <1>2, <2>1, <3>1, <3>2, Zenon
  <2>3. CASE EmitChange \/ UNCHANGED reporterVars
    BY <1>2, <2>1, <2>3, Zenon DEF EmitChange, reporterVars
  <2>4. QED
    BY <1>2, <1>3, <2>1, <2>2, <2>3, MainKeepsPower, Zenon DEF Quiescent
<1>4. CASE Handled
  <2>1. /\ inbox # <<>> /\ inbox' = Tail(inbox) /\ owner' = owner /\ saver' = saver
        /\ portal_owner' = IF Head(inbox).type \in News THEN OwnerOf(Head(inbox)) ELSE portal_owner
    BY <1>4, Zenon DEF Handled
  <2>2. /\ Head(inbox) = inbox[1] /\ 1 \in DOMAIN inbox /\ Head(inbox) \in Messages
        /\ QuietAfter(0)' => QuietAfter(1)
        /\ QuietAfter(0)' /\ Head(inbox).type \notin Newer => QuietAfter(0)
    BY <1>1, <2>1, Shorter, Zenon
  <2>3. CASE OnPropertyRead \/ OnPortalAppeared
    <3>1. Head(inbox).type \in {"read", "appeared"} /\ UNCHANGED powerVars
      BY <2>3, Zenon DEF OnPropertyRead, OnPortalAppeared, Dispatching
    <3>2. portal_owner # NoOwner => portal_owner' # NoOwner
      BY <2>1, <2>2, <3>1, ByType DEF OwnerOf, News
    <3>3. QuietAfter(0)' => QuietAfter(0)
      BY <2>2, <3>1 DEF Newer
    <3>4. QED
      BY <2>1, <3>1, <3>2, <3>3 DEF KnownInv, powerVars
  <2>4. CASE OnPortalVanished
    <3>1. power_saver_known' = FALSE
      BY <2>4, Zenon DEF OnPortalVanished, ForgetPowerSaver
    <3>2. QED
      BY <3>1, Zenon DEF KnownInv
  <2>5. ASSUME NEW type \in {"changed", "refreshed"}, OnPowerSaverReport(type) PROVE KnownInv'
    <3>1. /\ Head(inbox).type = type /\ power_saver_enabled' = Head(inbox).value
          /\ portal_owner' = portal_owner
      BY <2>5, Zenon DEF OnPowerSaverReport, Dispatching, ApplyPowerSaver, ownerVars
    <3>2. /\ Owned(1)
          /\ QuietAfter(1) => owner # NoOwner /\ Head(inbox).value = saver
      <4>1. Tells(inbox[1]) /\ Told(inbox[1]) = Head(inbox).value
        BY <2>2, <2>5, <3>1 DEF Tells, Told
      <4>2. QED
        BY <2>2, <4>1, Zenon DEF ValuesInv
    <3>3. portal_owner # NoOwner
      BY <3>2, OwnedNow
    <3>4. QED
      BY <2>1, <2>2, <3>1, <3>2, <3>3, Zenon DEF KnownInv
  <2>6. QED
    BY <1>4, <2>3, <2>4, <2>5, Zenon DEF Handled
<1>5. ASSUME NEW m \in Messages, Sent(m) PROVE KnownInv'
  <2>1. Enqueued(m) /\ portal_owner' = portal_owner /\ UNCHANGED powerVars
    BY <1>5, Zenon DEF Sent, reporterVars
  <2>2. /\ Len(inbox) \in Nat
        /\ \A i \in Nat : QuietAfter(i)' => QuietAfter(i)
        /\ m.type \in Newer => \A i \in 0..Len(inbox) : ~QuietAfter(i)'
    BY <1>1, <2>1, Longer, Zenon
  <2>3. 0 \in Nat /\ 0 \in 0..Len(inbox)
    BY <2>2
  <2>4. ASSUME QuietAfter(0)', power_saver_known
        PROVE  owner' # NoOwner /\ power_saver_enabled = saver'
    <3>1. QuietAfter(0) /\ m.type \notin Newer
      BY <2>2, <2>3, <2>4, Zenon
    <3>2. owner # NoOwner /\ power_saver_enabled = saver
      BY <2>4, <3>1, Zenon DEF KnownInv
    <3>3. UNCHANGED <<owner, saver>>
      BY <1>5, <3>1, <3>2 DEF Sent, Newer
    <3>4. QED
      BY <3>2, <3>3
  <2>5. QED
    BY <2>1, <2>4, Zenon DEF KnownInv, powerVars
<1>6. CASE Unnoticed
  <2>1. owner = NoOwner /\ UNCHANGED <<inbox, portal_owner>> /\ UNCHANGED powerVars
    BY <1>6, Zenon DEF Unnoticed, reporterVars
  <2>2. QED
    BY <2>1 DEF KnownInv, powerVars, QuietAfter
<1>7. QED
  BY <1>3, <1>4, <1>5, <1>6, QueueSteps, Zenon

\* Off the main thread, only an answer changes the batch, and its owner stays.
LEMMA Aside ==
  ASSUME TypeInv, [Next]_vars, ~MainThread
  PROVE  main' = main /\ batch'.seeding = batch.seeding
<1>1. CASE OnPropertyRead
  <2>1. main' = main
        /\ \/ batch' = [number |-> batch.number, seeding |-> batch.seeding,
                        left |-> batch.left \ {Head(inbox).property},
                        answers |-> [batch.answers EXCEPT ![Head(inbox).property] = Head(inbox).answer]]
           \/ batch' = batch
    BY <1>1, Zenon DEF OnPropertyRead
  <2>2. QED
    BY <2>1
<1>2. CASE OnPortalAppeared \/ OnPortalVanished \/ EmitChange
           \/ \E type \in {"changed", "refreshed"} : OnPowerSaverReport(type)
  BY <1>2, Zenon DEF OnPortalAppeared, OnPortalVanished, EmitChange, OnPowerSaverReport, mainVars
<1>3. CASE UNCHANGED reporterVars
  BY <1>3, Zenon DEF reporterVars
<1>4. QED
  BY <1>1, <1>2, <1>3, QueueSteps, Zenon DEF Quiescent, Handled, Sent, Unnoticed

LEMMA StepStart ==
  ASSUME TypeInv, StartInv, [Next]_vars
  PROVE  /\ StartInv'
         /\ ~Constructed' => ~Constructed
<1>1. CASE ~MainThread
  BY <1>1, Aside DEF StartInv, Constructed
<1>2. CASE BeginSeed
  <2>1. main = "construct" /\ main' = "await"
    BY <1>2, Zenon DEF BeginSeed, ReadProperties
  <2>2. QED
    BY <2>1 DEF StartInv, Constructed
<1>3. ASSUME NEW wanted \in {Interfaces} \cup {{f} : f \in Interfaces}, BeginRead(wanted)
      PROVE  StartInv' /\ Constructed'
  <2>1. main' = "await" /\ ~batch'.seeding
    BY <1>3 DEF BeginRead, ReadProperties
  <2>2. QED
    BY <2>1 DEF StartInv, Constructed
<1>4. CASE TakeValues
  <2>1. main = "await" /\ batch' = batch /\ main' = IF batch.seeding THEN "seed" ELSE "store"
    BY <1>4, Zenon DEF TakeValues
  <2>2. QED
    BY <2>1 DEF StartInv, Constructed
<1>5. CASE SeedPowerSaver
  <2>1. main = "seed" /\ batch' = batch /\ main' \in {"emit", "store"}
    BY <1>5 DEF SeedPowerSaver
  <2>2. QED
    BY <2>1 DEF StartInv, Constructed
<1>6. CASE EmitSeed
  <2>1. main = "emit" /\ batch' = batch /\ main' = "store"
    BY <1>6, Zenon DEF EmitSeed
  <2>2. QED
    BY <2>1 DEF StartInv, Constructed
<1>7. CASE StoreVersions
  <2>1. main' = "idle"
    BY <1>7, Zenon DEF StoreVersions
  <2>2. QED
    BY <2>1 DEF StartInv, Constructed
<1>8. QED
  BY <1>1, <1>2, <1>3, <1>4, <1>5, <1>6, <1>7, MainSteps, Zenon

\* The main thread is not given the answer, it carries it on.
LEMMA MainCarries ==
  ASSUME MainThread, SeedTaken'
  PROVE  SeedTaken /\ Seed' = Seed /\ worker' = worker
<1>1. batch'.seeding /\ main' \in {"await", "seed", "emit"} /\ Seed' # Missing
  BY Zenon DEF SeedTaken
<1>2. CASE BeginSeed
  <2>1. Seed' = Missing
    BY <1>2 DEF BeginSeed, ReadProperties, Seed, NoAnswer, Properties
  <2>2. QED
    BY <1>1, <2>1
<1>3. ASSUME NEW wanted \in {Interfaces} \cup {{f} : f \in Interfaces}, BeginRead(wanted)
      PROVE  FALSE
  BY <1>1, <1>3 DEF BeginRead, ReadProperties
<1>4. CASE EmitSeed \/ StoreVersions
  <2>1. main' \in {"store", "idle"}
    BY <1>4, Zenon DEF EmitSeed, StoreVersions
  <2>2. QED
    BY <1>1, <2>1
<1>5. CASE TakeValues \/ SeedPowerSaver
  <2>1. main \in {"await", "seed"} /\ batch' = batch /\ worker' = worker
    BY <1>5, Zenon DEF TakeValues, SeedPowerSaver
  <2>2. QED
    BY <1>1, <2>1, Zenon DEF SeedTaken, Seed
<1>6. QED
  BY <1>2, <1>3, <1>4, <1>5, MainSteps, Zenon

LEMMA StepTaken ==
  ASSUME TypeInv, ValuesInv, AgreeInv, TakenInv, [Next]_vars, ~Overtaken
  PROVE  TakenInv'
<1>1. inbox \in Seq(Messages) /\ batch.answers \in [Properties -> Answers]
  BY Groups DEF BusTypes, MainTypes
<1>2. ASSUME SeedTaken
      PROVE  /\ portal_owner # NoOwner
             /\ QuietAfter(0) => owner # NoOwner /\ Seed = saver
             /\ \A j \in DOMAIN inbox : inbox[j].type = "refreshed" /\ QuietTo(0, j) => inbox[j].value = Seed
             /\ worker # NoChange => worker = Seed
  BY <1>2, Zenon DEF TakenInv
<1>3. ASSUME UNCHANGED <<inbox, portal_owner, owner, saver>>, SeedTaken' => SeedTaken /\ Seed' = Seed,
             worker' \in {worker, NoChange}
      PROVE  TakenInv'
  BY <1>2, <1>3 DEF TakenInv, QuietAfter, QuietTo
<1>4. ASSUME main' = main, batch' = batch PROVE (SeedTaken' <=> SeedTaken) /\ Seed' = Seed
  BY <1>4 DEF SeedTaken, Seed
<1>5. CASE Quiescent
  <2>1. UNCHANGED <<inbox, portal_owner, owner, saver>>
    BY <1>5, Zenon DEF Quiescent
  <2>2. CASE MainThread
    <3>1. CASE ~SeedTaken'
      BY <3>1 DEF TakenInv
    <3>2. CASE SeedTaken'
      <4>1. SeedTaken /\ Seed' = Seed /\ worker' = worker
        BY <2>2, <3>2, MainCarries
      <4>2. QED
        BY <1>3, <2>1, <4>1
    <3>3. QED
      BY <3>1, <3>2
  <2>3. CASE EmitChange \/ UNCHANGED reporterVars
    <3>1. main' = main /\ batch' = batch /\ (worker' = NoChange \/ worker' = worker)
      BY <2>3, Zenon DEF EmitChange, reporterVars, mainVars
    <3>2. QED
      BY <1>3, <1>4, <2>1, <3>1
  <2>4. QED
    BY <1>5, <2>2, <2>3, Zenon DEF Quiescent
<1>6. CASE Handled
  <2>1. /\ inbox # <<>> /\ inbox' = Tail(inbox) /\ owner' = owner /\ saver' = saver
        /\ portal_owner' = IF Head(inbox).type \in News THEN OwnerOf(Head(inbox)) ELSE portal_owner
    BY <1>6, Zenon DEF Handled
  <2>2. /\ Head(inbox) = inbox[1] /\ 1 \in DOMAIN inbox /\ Head(inbox) \in Messages
        /\ \A j \in DOMAIN inbox' : j + 1 \in DOMAIN inbox /\ inbox'[j] = inbox[j + 1]
        /\ QuietAfter(0)' => QuietAfter(1)
        /\ QuietAfter(0)' /\ Head(inbox).type \notin Newer => QuietAfter(0)
    BY <1>1, <2>1, Shorter, Zenon
  <2>3. \A j \in DOMAIN inbox' :
          /\ 1 < j + 1
          /\ QuietTo(0, j)' => QuietTo(1, j + 1)
          /\ QuietTo(0, j)' /\ Head(inbox).type \notin Newer => QuietTo(0, j + 1)
    BY <1>1, <2>1, ShorterQuiet, Zenon
  <2>4. ASSUME SeedTaken, Head(inbox).type \notin Newer
        PROVE  /\ QuietAfter(0)' => owner' # NoOwner /\ Seed = saver'
               /\ \A j \in DOMAIN inbox' :
                    inbox'[j].type = "refreshed" /\ QuietTo(0, j)' => inbox'[j].value = Seed
    <3>1. QuietAfter(0)' => owner' # NoOwner /\ Seed = saver'
      BY <1>2, <2>1, <2>2, <2>4
    <3>2. \A j \in DOMAIN inbox' :
            inbox'[j].type = "refreshed" /\ QuietTo(0, j)' => inbox'[j].value = Seed
      BY <1>2, <2>2, <2>3, <2>4, Zenon
    <3>3. QED
      BY <3>1, <3>2, Zenon
  <2>5. CASE OnPropertyRead
    <3> DEFINE m == Head(inbox)
    <3>1. /\ m.type = "read" /\ worker = NoChange /\ worker' = worker /\ portal_owner' = portal_owner
          /\ main' = main
          /\ \/ batch' = [number |-> batch.number, seeding |-> batch.seeding,
                          left |-> batch.left \ {m.property},
                          answers |-> [batch.answers EXCEPT ![m.property] = m.answer]]
             \/ batch' = batch
      BY <2>5, Zenon DEF OnPropertyRead, Dispatching, ownerVars
    <3>2. m.type \notin Newer
      BY <3>1 DEF Newer
    <3> HIDE DEF m
    <3>3. \/ Seed' = Seed
          \/ m.property = PowerSaver /\ Seed' = m.answer.value
      BY <1>1, <3>1 DEF Seed, Properties
    <3>4. batch'.seeding = batch.seeding
      BY <3>1
    <3>5. CASE Seed' = Seed
      <4>1. SeedTaken' => SeedTaken
        BY <3>1, <3>4, <3>5 DEF SeedTaken
      <4>2. QED
        BY <1>2, <2>4, <3>1, <3>2, <3>5, <4>1, Zenon DEF TakenInv, m
    <3>6. CASE m.property = PowerSaver /\ Seed' = m.answer.value
      <4>1. SUFFICES ASSUME SeedTaken'
                     PROVE  /\ portal_owner' # NoOwner
                            /\ QuietAfter(0)' => owner' # NoOwner /\ Seed' = saver'
                            /\ \A j \in DOMAIN inbox' :
                                 inbox'[j].type = "refreshed" /\ QuietTo(0, j)' => inbox'[j].value = Seed'
                            /\ worker' = NoChange
        BY Zenon DEF TakenInv
      <4>2. Tells(m) /\ Told(m) = Seed'
        BY <3>1, <3>6, <4>1 DEF Tells, Told, SeedTaken
      <4>3. /\ Owned(1)
            /\ QuietAfter(1) => owner # NoOwner /\ Seed' = saver
        BY <2>2, <4>2, Zenon DEF ValuesInv, m
      <4>4. portal_owner' # NoOwner
        BY <3>1, <4>3, OwnedNow
      <4>5. ASSUME NEW j \in DOMAIN inbox', inbox'[j].type = "refreshed", QuietTo(0, j)'
            PROVE  inbox'[j].value = Seed'
        <5>1. /\ j + 1 \in DOMAIN inbox /\ inbox'[j] = inbox[j + 1] /\ 1 < j + 1
              /\ QuietTo(1, j + 1)
          BY <2>2, <2>3, <4>5, Zenon
        <5>2. inbox[j + 1].value = Told(inbox[1])
          BY <2>2, <4>2, <4>5, <5>1, Zenon DEF AgreeInv, Agrees, m
        <5>3. QED
          BY <2>2, <4>2, <5>1, <5>2, Zenon DEF m
      <4>6. QED
        BY <2>1, <2>2, <3>1, <4>3, <4>4, <4>5, Zenon
    <3>7. QED
      BY <3>3, <3>5, <3>6
  <2>6. CASE OnPortalAppeared
    <3>1. /\ Head(inbox).type = "appeared" /\ portal_owner' = Head(inbox).owner
          /\ main' = main /\ batch' = batch /\ worker' = worker
      BY <2>6, Zenon DEF OnPortalAppeared, Dispatching, mainVars
    <3>2. portal_owner' # NoOwner
      BY <2>2, <3>1, ByType
    <3>3. Head(inbox).type \notin Newer
      BY <3>1 DEF Newer
    <3>4. QED
      BY <1>2, <1>4, <2>4, <3>1, <3>2, <3>3, Zenon DEF TakenInv
  <2>7. CASE OnPortalVanished
    <3>1. main' = main /\ batch' = batch
      BY <2>7, Zenon DEF OnPortalVanished, mainVars
    <3>2. ~SeedTaken'
      BY <1>4, <2>7, <3>1, Zenon DEF Overtaken
    <3>3. QED
      BY <3>2 DEF TakenInv
  <2>8. CASE OnPowerSaverReport("changed")
    <3>1. main' = main /\ batch' = batch
      BY <2>8, Zenon DEF OnPowerSaverReport, mainVars
    <3>2. ~SeedTaken'
      BY <1>4, <2>8, <3>1, Zenon DEF Overtaken
    <3>3. QED
      BY <3>2 DEF TakenInv
  <2>9. CASE OnPowerSaverReport("refreshed")
    <3>1. /\ Head(inbox).type = "refreshed" /\ portal_owner' = portal_owner
          /\ main' = main /\ batch' = batch /\ (worker' = Head(inbox).value \/ worker' = NoChange)
      BY <2>9, Zenon DEF OnPowerSaverReport, Dispatching, mainVars, ownerVars
    <3>2. Head(inbox).type \notin Newer
      BY <3>1 DEF Newer
    <3>3. SeedTaken => Head(inbox).value = Seed
      <4>1. QuietTo(0, 1)
        <5>1. \A k \in DOMAIN inbox : 0 < k /\ k <= 1 => k = 1
          BY <1>1
        <5>2. QED
          BY <2>2, <3>2, <5>1, Zenon DEF QuietTo
      <4>2. QED
        BY <1>2, <2>2, <3>1, <4>1, Zenon
    <3>4. QED
      BY <1>2, <1>4, <2>4, <3>1, <3>2, <3>3, Zenon DEF TakenInv
  <2>10. \A type \in {"changed", "refreshed"} :
           OnPowerSaverReport(type) => OnPowerSaverReport("changed") \/ OnPowerSaverReport("refreshed")
    BY Zenon
  <2>11. QED
    BY <1>6, <2>5, <2>6, <2>7, <2>8, <2>9, <2>10, Zenon DEF Handled
<1>7. ASSUME NEW m \in Messages, Sent(m) PROVE TakenInv'
  <2> DEFINE n == Len(inbox)
  <2>1. /\ Enqueued(m) /\ portal_owner' = portal_owner
        /\ main' = main /\ batch' = batch /\ worker' = worker
    BY <1>7, Zenon DEF Sent, reporterVars
  <2>2. /\ n \in Nat /\ inbox'[n + 1] = m
        /\ \A i \in DOMAIN inbox : i \in DOMAIN inbox' /\ inbox'[i] = inbox[i]
        /\ \A i \in DOMAIN inbox' : i \in DOMAIN inbox \/ i = n + 1
        /\ \A i \in Nat : QuietAfter(i)' => QuietAfter(i)
        /\ m.type \in Newer => \A i \in 0..n : ~QuietAfter(i)'
    BY <1>1, <2>1, Longer, Zenon
  <2>3. /\ \A i \in Nat, j \in DOMAIN inbox : QuietTo(i, j)' => QuietTo(i, j)
        /\ \A i \in Nat : \A k : k = n + 1 /\ QuietTo(i, k)' => QuietAfter(i)
    BY <1>1, <2>1, LongerQuiet, Zenon
  <2>4. 0 \in Nat /\ 0 \in 0..n
    BY <2>2
  <2>5. SUFFICES ASSUME SeedTaken
                 PROVE  /\ QuietAfter(0)' => owner' # NoOwner /\ Seed = saver'
                        /\ \A j \in DOMAIN inbox' :
                             inbox'[j].type = "refreshed" /\ QuietTo(0, j)' => inbox'[j].value = Seed
    BY <1>2, <1>4, <2>1, Zenon DEF TakenInv
  <2>6. ASSUME QuietAfter(0)' PROVE owner' # NoOwner /\ Seed = saver'
    <3>1. QuietAfter(0) /\ m.type \notin Newer
      BY <2>2, <2>4, <2>6, Zenon
    <3>2. owner # NoOwner /\ Seed = saver
      BY <1>2, <2>5, <3>1, Zenon
    <3>3. UNCHANGED <<owner, saver>>
      BY <1>7, <3>1, <3>2 DEF Sent, Newer
    <3>4. QED
      BY <3>2, <3>3
  <2>7. ASSUME NEW j, j \in DOMAIN inbox', inbox'[j].type = "refreshed", QuietTo(0, j)'
        PROVE  inbox'[j].value = Seed
    <3>1. CASE j \in DOMAIN inbox
      BY <1>2, <2>2, <2>3, <2>4, <2>5, <2>7, <3>1, Zenon
    <3>2. CASE j = n + 1
      <4>1. QuietAfter(0) /\ m.type = "refreshed"
        BY <2>2, <2>3, <2>4, <2>7, <3>2, Zenon
      <4>2. Seed = saver
        BY <1>2, <2>5, <4>1, Zenon
      <4>3. m.value = saver
        BY <1>7, <4>1 DEF Sent
      <4>4. QED
        BY <2>2, <3>2, <4>2, <4>3
    <3>3. QED
      BY <2>2, <2>7, <3>1, <3>2, Zenon
  <2>8. QED
    BY <2>6, <2>7, Zenon
<1>8. CASE Unnoticed
  <2>1. /\ owner = NoOwner /\ owner' = owner /\ UNCHANGED <<inbox, portal_owner>>
        /\ main' = main /\ batch' = batch /\ worker' = worker
    BY <1>8, Zenon DEF Unnoticed, reporterVars
  <2>2. QED
    BY <1>2, <1>4, <2>1 DEF TakenInv, QuietAfter, QuietTo
<1>9. QED
  BY <1>5, <1>6, <1>7, <1>8, QueueSteps, Zenon

LEMMA StepHear ==
  ASSUME TypeInv, StartInv, TakenInv, HearInv, [Next]_vars, ~Overtaken
  PROVE  HearInv'
<1> DEFINE once == power_saver_known_once
           enabled == power_saver_enabled
<1>1. ASSUME UNCHANGED <<once, enabled, worker, heard>>, main' = main \/ main \notin {"seed", "emit"},
             main' = "emit" => main = "emit" /\ batch' = batch
      PROVE  HearInv'
  BY <1>1, Zenon DEF HearInv, SeedTaken, Seed
<1>2. ASSUME main = "emit" PROVE SeedTaken /\ once /\ enabled = Seed
  BY <1>2, Zenon DEF HearInv
<1>3. CASE BeginSeed \/ TakeValues \/ StoreVersions
           \/ (\E wanted \in {Interfaces} \cup {{f} : f \in Interfaces} : BeginRead(wanted))
  <2>1. UNCHANGED <<once, enabled, worker, heard>>
    BY <1>3, Zenon DEF BeginSeed, TakeValues, StoreVersions, BeginRead, powerVars
  <2>2. main \in {"construct", "await", "store", "idle"} /\ main' \in {"await", "seed", "store", "idle"}
    BY <1>3 DEF BeginSeed, TakeValues, StoreVersions, BeginRead, ReadProperties
  <2>3. QED
    BY <1>1, <2>1, <2>2
<1>4. CASE SeedPowerSaver
  <2>1. /\ main = "seed" /\ UNCHANGED <<worker, heard, batch>>
        /\ IF Seed = Missing THEN UNCHANGED powerVars ELSE ApplyPowerSaver(Seed)
        /\ main' = IF Seed # Missing /\ Reportable(Seed, FALSE) THEN "emit" ELSE "store"
    BY <1>4, Zenon DEF SeedPowerSaver
  <2>2. CASE Seed = Missing
    <3>1. main' = "store" /\ UNCHANGED <<once, enabled>>
      BY <2>1, <2>2 DEF powerVars
    <3>2. QED
      BY <2>1, <3>1 DEF HearInv
  <2>3. CASE Seed # Missing
    <3>1. SeedTaken
      BY <2>1, <2>3 DEF SeedTaken, StartInv
    <3>2. once' = TRUE /\ enabled' = Seed /\ Seed' = Seed
      BY <2>1, <2>3 DEF ApplyPowerSaver, Seed
    <3>3. worker # NoChange => worker = Seed
      BY <3>1, Zenon DEF TakenInv
    <3>4. CASE Reportable(Seed, FALSE)
      <4>1. main' = "emit"
        BY <2>1, <2>3, <3>4
      <4>2. once /\ enabled # Seed
        BY <3>4, Zenon DEF Reportable
      <4>3. SeedTaken'
        BY <2>1, <2>3, <3>1, <3>2, <4>1 DEF SeedTaken
      <4>4. QED
        BY <2>1, <3>2, <3>3, <4>1, <4>3, Zenon DEF HearInv
    <3>5. CASE ~Reportable(Seed, FALSE)
      <4>1. main' = "store"
        BY <2>1, <3>5
      <4>2. ~once \/ enabled = Seed
        BY <3>5, Zenon DEF Reportable
      <4>3. heard # NoChange /\ worker = NoChange => heard = Seed
        BY <2>1, <4>2 DEF HearInv
      <4>4. QED
        BY <2>1, <3>2, <3>3, <4>1, <4>3 DEF HearInv
    <3>6. QED
      BY <3>4, <3>5
  <2>4. QED
    BY <2>2, <2>3
<1>5. CASE EmitSeed
  <2>1. /\ main = "emit" /\ main' = "store" /\ heard' = Seed
        /\ UNCHANGED <<once, enabled, worker>>
    BY <1>5, Zenon DEF EmitSeed, powerVars
  <2>2. QED
    BY <1>2, <2>1 DEF HearInv
<1>6. CASE EmitChange
  <2>1. worker # NoChange /\ heard' = worker /\ worker' = NoChange /\ main' = main /\ batch' = batch
        /\ UNCHANGED <<once, enabled>>
    BY <1>6, Zenon DEF EmitChange, mainVars, powerVars
  <2>2. QED
    BY <2>1, Zenon DEF HearInv, SeedTaken, Seed
<1>7. ASSUME NEW type \in {"changed", "refreshed"}, OnPowerSaverReport(type) PROVE HearInv'
  <2> DEFINE value == Head(inbox).value
  <2>1. /\ worker = NoChange /\ heard' = heard /\ main' = main /\ batch' = batch
        /\ once' = TRUE /\ enabled' = value
        /\ worker' = IF Reportable(value, type = "changed") THEN value ELSE NoChange
    BY <1>7, Zenon DEF OnPowerSaverReport, Dispatching, ApplyPowerSaver, mainVars
  <2>2. inbox # <<>> /\ Head(inbox).type = type
    BY <1>7, Zenon DEF OnPowerSaverReport, Dispatching
  <2>3. SeedTaken => type # "changed"
    BY <1>7, Zenon DEF Overtaken
  <2>4. main = "emit" => SeedTaken /\ value = Seed
    <3>1. SUFFICES ASSUME main = "emit" PROVE SeedTaken /\ value = Seed
      OBVIOUS
    <3>2. SeedTaken /\ Head(inbox).type = "refreshed"
      BY <1>2, <1>7, <2>2, <2>3, <3>1
    <3>3. inbox \in Seq(Messages)
      BY Groups, Zenon DEF BusTypes
    <3>4. Head(inbox) = inbox[1] /\ 1 \in DOMAIN inbox
      BY <2>2, <3>3, Dequeued
    <3>5. \A k \in DOMAIN inbox : 0 < k /\ k <= 1 => k = 1
      BY <3>3
    <3>6. inbox[1].type \notin Newer
      BY <3>2, <3>4 DEF Newer
    <3>7. QuietTo(0, 1)
      BY <3>5, <3>6, Zenon DEF QuietTo
    <3>8. QED
      BY <3>2, <3>4, <3>7, Zenon DEF TakenInv
  <2>5. main' = "emit" => SeedTaken' /\ value = Seed'
    BY <2>1, <2>4, Zenon DEF SeedTaken, Seed
  <2>6. CASE Reportable(value, type = "changed")
    <3>1. value # NoChange
      BY <1>7, <2>2, FirstMessage, ByType DEF Flags, NoChange, Missing
    <3>2. QED
      BY <2>1, <2>5, <2>6, <3>1, Zenon DEF HearInv
  <2>7. CASE ~Reportable(value, type = "changed")
    <3>1. heard # NoChange => main = "emit" \/ enabled = value
      BY <2>1, <2>7, Zenon DEF Reportable, HearInv
    <3>2. QED
      BY <2>1, <2>5, <2>7, <3>1, Zenon DEF HearInv
  <2>8. QED
    BY <2>6, <2>7
<1>8. CASE OnPropertyRead
  <2>1. main' = main /\ UNCHANGED <<once, enabled, worker, heard>>
        /\ (main = "emit" => batch' = batch)
    BY <1>8 DEF OnPropertyRead, powerVars
  <2>2. QED
    BY <1>1, <2>1, Zenon
<1>9. CASE OnPortalAppeared
  BY <1>1, <1>9, Zenon DEF OnPortalAppeared, mainVars, powerVars
<1>10. CASE OnPortalVanished
  BY <1>1, <1>10, Zenon DEF OnPortalVanished, ForgetPowerSaver, mainVars
<1>11. CASE UNCHANGED reporterVars
  BY <1>1, <1>11, Zenon DEF reporterVars, powerVars
<1>12. QED
  BY <1>3, <1>4, <1>5, <1>6, <1>7, <1>8, <1>9, <1>10, <1>11, QueueSteps, MainSteps, Zenon
     DEF Quiescent, Handled, Sent, Unnoticed

LEMMA StandingStill == ASSUME TypeInv, UNCHANGED vars PROVE ~Overtaken
<1>1. inbox \in Seq(Messages) /\ inbox' = inbox
  BY Groups, Zenon DEF BusTypes, vars
<1>2. Overtaken => inbox # <<>> /\ inbox' = Tail(inbox)
  BY Zenon DEF Overtaken, OnPortalVanished, OnPowerSaverReport, Dispatching
<1>3. inbox # <<>> => Tail(inbox) # inbox
  BY <1>1, Dequeued
<1>4. QED
  BY <1>1, <1>2, <1>3

LEMMA StepSaver ==
  ASSUME TypeInv, QueueInv, SaverInv, [Next]_vars, [~Overtaken]_vars
  PROVE  SaverInv'
<1>1. ValuesInv /\ AgreeInv /\ KnownInv /\ StartInv /\ TakenInv /\ HearInv
  BY DEF SaverInv
<1>2. ~Overtaken
  BY StandingStill
<1>3. QED
  BY <1>1, <1>2, StepValues, StepAgree, StepKnown, StepStart, StepTaken, StepHear DEF SaverInv

LEMMA SaverIsInvariant == Spec /\ [][~Overtaken]_vars => []SaverInv
<1>1. Init => TypeInv /\ QueueInv /\ SaverInv
  BY InitTypes, InitQueue, InitSaver
<1>2. TypeInv /\ QueueInv /\ SaverInv /\ [Next]_vars /\ [~Overtaken]_vars
        => (TypeInv /\ QueueInv /\ SaverInv)'
  BY StepTypes, StepQueueInv, StepSaver
<1>3. QED
  BY <1>1, <1>2, PTL DEF Spec

LEMMA SaverIsRight ==
  ASSUME SaverInv
  PROVE  CurrentWhenQuiet /\ UnknownWithoutPortal /\ ChangesAreHeard
<1>1. CurrentWhenQuiet
  BY DEF SaverInv, KnownInv, QuietAfter, Newer, CurrentWhenQuiet, UnderWay
<1>2. UnknownWithoutPortal
  BY DEF SaverInv, KnownInv, UnknownWithoutPortal
<1>3. ChangesAreHeard
  BY DEF SaverInv, HearInv, ChangesAreHeard
<1>4. QED
  BY <1>1, <1>2, <1>3

\* However unquiet the start-up: unless on_portal_vanished() or a notification is
\* handled between the answer to the constructor's Get and its apply_power_saver()
\* with the signal for it, the state known is the desktop's, there is none without
\* a portal, and every change is heard.
THEOREM OnlyOvertakenSeedsMislead ==
  Spec /\ [][~Overtaken]_vars => [](CurrentWhenQuiet /\ UnknownWithoutPortal /\ ChangesAreHeard)
BY SaverIsInvariant, SaverIsRight, PTL

-----------------------------------------------------------------------------
(* With a calm start-up no seed is overtaken.                              *)

LEMMA StepCalm ==
  ASSUME CalmStartup, TypeInv, StartInv, CalmInv, [Next]_vars
  PROVE  CalmInv'
<1>1. SUFFICES ASSUME ~Constructed' PROVE CalmInbox'
  BY DEF CalmInv
<1>2. ~Restless /\ CalmInbox
  BY <1>1, StepStart DEF Restless, CalmInv
<1>3. inbox \in Seq(Messages)
  BY Groups, Zenon DEF BusTypes
<1>4. CASE Quiescent
  BY <1>2, <1>4 DEF Quiescent, CalmInbox
<1>5. CASE Handled
  <2>1. /\ inbox # <<>> /\ inbox' = Tail(inbox)
        /\ portal_owner' = IF Head(inbox).type \in News THEN OwnerOf(Head(inbox)) ELSE portal_owner
    BY <1>5, Zenon DEF Handled
  <2>2. \A i \in DOMAIN inbox' : i + 1 \in DOMAIN inbox /\ i + 1 # 1 /\ inbox'[i] = inbox[i + 1]
    BY <1>3, <2>1, Shorter, Zenon
  <2>3. QED
    BY <1>2, <2>2, Zenon DEF CalmInbox
<1>6. ASSUME NEW m \in Messages, Sent(m) PROVE CalmInbox'
  <2>1. Enqueued(m) /\ portal_owner' = portal_owner
    BY <1>6, Zenon DEF Sent
  <2>2. /\ inbox'[Len(inbox) + 1] = m
        /\ \A i \in DOMAIN inbox : i \in DOMAIN inbox' /\ inbox'[i] = inbox[i]
        /\ \A i \in DOMAIN inbox' : i \in DOMAIN inbox \/ i = Len(inbox) + 1
    BY <1>3, <2>1, Longer, Zenon
  <2>3. m.type # "changed" /\ m.type # "vanished"
    BY <1>2, <1>6 DEF Sent
  <2>4. QED
    BY <1>2, <2>1, <2>2, <2>3, Zenon DEF CalmInbox
<1>7. CASE Unnoticed
  BY <1>2, <1>7, Zenon DEF Unnoticed
<1>8. QED
  BY <1>4, <1>5, <1>6, <1>7, QueueSteps, Zenon

LEMMA CalmIsNotOvertaken ==
  ASSUME TypeInv, TakenInv, CalmInv
  PROVE  ~Overtaken
<1>1. SUFFICES ASSUME Overtaken PROVE FALSE
  OBVIOUS
<1>2. /\ SeedTaken /\ inbox # <<>> /\ (Head(inbox).type = "vanished" \/ Head(inbox).type = "changed")
  BY <1>1, Zenon DEF Overtaken, OnPortalVanished, OnPowerSaverReport, Dispatching
<1>3. ~Constructed /\ portal_owner # NoOwner
  BY <1>2 DEF SeedTaken, Constructed, TakenInv
<1>4. Head(inbox) = inbox[1] /\ 1 \in DOMAIN inbox
  BY <1>2, Groups, Dequeued DEF BusTypes
<1>5. QED
  BY <1>2, <1>3, <1>4, Zenon DEF CalmInv, CalmInbox

LEMMA CalmSaver == ASSUME CalmStartup PROVE Spec => []SaverInv
<1>1. Init => TypeInv /\ QueueInv /\ SaverInv /\ CalmInv
  BY InitTypes, InitQueue, InitSaver
<1>2. TypeInv /\ QueueInv /\ SaverInv /\ CalmInv /\ [Next]_vars
        => (TypeInv /\ QueueInv /\ SaverInv /\ CalmInv)'
  <2>1. SaverInv => StartInv /\ TakenInv
    BY DEF SaverInv
  <2>2. QED
    BY <2>1, StepTypes, StepQueueInv, StepSaver, StepCalm, CalmIsNotOvertaken
<1>3. QED
  BY <1>1, <1>2, PTL DEF Spec

\* When power_saver_state() is known, and neither a notification nor news of the
\* portal is on its way, it is the desktop's state, if the start-up was calm.
THEOREM KnownIsCurrent == ASSUME CalmStartup PROVE Spec => []CurrentWhenQuiet
BY CalmSaver, SaverIsRight, PTL

\* Without a portal the power-saver state is unknown, if the start-up was calm.
THEOREM GoneIsUnknown == ASSUME CalmStartup PROVE Spec => []UnknownWithoutPortal
BY CalmSaver, SaverIsRight, PTL

\* Whoever was told of a change was told of every later one, if the start-up was calm.
THEOREM NoChangeUnheard == ASSUME CalmStartup PROVE Spec => []ChangesAreHeard
BY CalmSaver, SaverIsRight, PTL

=============================================================================
