----------------------------- MODULE PortalState -----------------------------
(***************************************************************************)
(* What XdgPortalNative remembers of the portal: the version of each       *)
(* interface, cached per portal instance, and the power-saver state, kept  *)
(* up to date by change notifications.  The constructor seeds both with    *)
(* one parallel read on the main thread, while the worker thread already   *)
(* handles what the bus reports; the portal may start, die and restart.    *)
(*                                                                         *)
(* portal_owner and portal_owner_seen are those of PortalRequests, whose   *)
(* requests the same two handlers fail in a lock section of their own.     *)
(* A portal exports PowerProfileMonitor here; Interfaces may be missing.   *)
(***************************************************************************)
EXTENDS Integers, Sequences, FiniteSets

CONSTANTS
  Interfaces,    \* PORTAL_INTERFACES, as far as their versions are read
  PowerSaver,    \* the property power-saver-enabled
  Versions,      \* versions an interface may have
  MaxInstances,  \* bound: portal processes in one behaviour
  MaxChanges,    \* bound: changes of the desktop's power-saver state
  MaxReads,      \* bound: calls that read interface versions
  CalmStartup,   \* do portal and desktop stand still until the constructor is done?
  TimeOuts       \* which of the bounded waits, "get" and "await", may time out

Properties == Interfaces \cup {PowerSaver}
NoOwner == 0
Missing == -1      \* no such interface, or no value
Uncached == -2     \* not a key of cached_versions

ASSUME PropertiesAssumption == IsFiniteSet(Interfaces) /\ PowerSaver \notin Interfaces
ASSUME BoundsAssumption ==
  /\ Versions \subseteq Nat
  /\ MaxInstances \in Nat \ {0}
  /\ {MaxChanges, MaxReads} \subseteq Nat
  /\ CalmStartup \in BOOLEAN
  /\ TimeOuts \subseteq {"get", "await"}

VARIABLES
  \* XdgPortalNative, under state_mutex
  power_saver_known, power_saver_known_once, power_saver_enabled,
  portal_owner, portal_owner_seen, portal_generation, cached_versions,
  \* the main thread: where it is, the generation it read, how many reads it made;
  \* its PropertyBatch: number, what is still awaited, and what was answered
  main, generation, reads, batch,
  \* the worker: the change it is about to emit; is a re-read to be issued for
  \* the constructor; has it issued the batch's Gets?
  worker, refresh_task, batch_task,
  \* the bus: Gets of the batch and re-reads without an answer, portal to worker
  gets, refreshing, inbox,
  \* the portal and the desktop: owner of the name, processes so far, what each
  \* exports, the power-saver state, its changes so far
  owner, instances, exported, saver, changes,
  \* history: the value last emitted with power_saver_changed
  heard

powerVars == <<power_saver_known, power_saver_known_once, power_saver_enabled>>
ownerVars == <<portal_owner, portal_owner_seen, portal_generation>>
mainVars == <<main, generation, reads, batch>>
taskVars == <<refresh_task, batch_task>>
callVars == <<gets, refreshing>>
portalVars == <<owner, instances, exported, saver, changes>>
vars == <<powerVars, ownerVars, cached_versions, mainVars, worker, taskVars, callVars, inbox,
          portalVars, heard>>

-----------------------------------------------------------------------------
(* Types.                                                                  *)

Flags == {0, 1}
NoChange == Missing
Answers == [value : Versions \cup Flags \cup {Missing}, definitive : BOOLEAN]
NoAnswer == [value |-> Missing, definitive |-> FALSE]
Offers == [Interfaces -> Versions \cup {Missing}]

Messages ==
  [type : {"appeared"}, owner : Nat \ {NoOwner}]
    \cup [type : {"vanished"}]
    \cup [type : {"changed", "refreshed"}, value : Flags]
    \cup [type : {"read"}, batch : Nat, property : Properties, answer : Answers]

PowerTypes ==
  /\ power_saver_known \in BOOLEAN
  /\ power_saver_known_once \in BOOLEAN
  /\ power_saver_enabled \in Flags
OwnerTypes ==
  /\ portal_owner \in Nat
  /\ portal_owner_seen \in BOOLEAN
  /\ portal_generation \in Nat
CacheTypes == cached_versions \in [Interfaces -> Versions \cup {Missing, Uncached}]
MainTypes ==
  /\ main \in {"construct", "await", "seed", "emit", "store", "idle"}
  /\ generation \in Nat
  /\ reads \in Nat
  /\ batch \in [number : Nat, seeding : BOOLEAN, left : SUBSET Properties,
                answers : [Properties -> Answers]]
WorkerTypes ==
  /\ worker \in Flags \cup {NoChange}
  /\ refresh_task \in BOOLEAN
  /\ batch_task \in BOOLEAN
BusTypes ==
  /\ gets \in SUBSET Properties
  /\ refreshing \in Nat
  /\ inbox \in Seq(Messages)
PortalTypes ==
  /\ owner \in Nat
  /\ instances \in Nat
  /\ exported \in [1..MaxInstances -> Offers]
  /\ saver \in Flags
  /\ changes \in Nat

\* Every variable holds a value of the kind its declaration in the code allows;
\* power_saver_state() can only be -1, 0 or 1.
TypeOK ==
  /\ PowerTypes /\ OwnerTypes /\ CacheTypes /\ MainTypes /\ WorkerTypes /\ BusTypes /\ PortalTypes
  /\ heard \in Flags \cup {NoChange}

-----------------------------------------------------------------------------
(* The worker has subscribed and asked who owns the portal's name; the     *)
(* constructor is about to read its seeds.                                 *)

Init ==
  /\ power_saver_known = FALSE
  /\ power_saver_known_once = FALSE
  /\ power_saver_enabled = 0
  /\ portal_owner = NoOwner
  /\ portal_owner_seen = FALSE
  /\ portal_generation = 0
  /\ cached_versions = [f \in Interfaces |-> Uncached]
  /\ main = "construct"
  /\ generation = 0
  /\ reads = 0
  /\ batch = [number |-> 0, seeding |-> TRUE, left |-> {}, answers |-> [p \in Properties |-> NoAnswer]]
  /\ worker = NoChange
  /\ refresh_task = FALSE
  /\ batch_task = FALSE
  /\ gets = {}
  /\ refreshing = 0
  /\ \/ owner = 1 /\ inbox = <<[type |-> "appeared", owner |-> 1]>>
     \/ owner = NoOwner /\ inbox = <<[type |-> "vanished"]>>
  /\ instances = owner
  /\ exported \in [1..MaxInstances -> Offers]
  /\ saver \in Flags
  /\ changes = 0
  /\ heard = NoChange

-----------------------------------------------------------------------------
(* apply_power_saver(): one lock section; the change is emitted after it.  *)

\* Mutant: a re-read is compared with a state that is known only.
ReportableIfKnown(value, from_signal) ==
  IF from_signal
    THEN ~power_saver_known \/ power_saver_enabled # value
    ELSE power_saver_known /\ power_saver_enabled # value

\* A notification is reported unless the state was known to be that already; a
\* re-read only if it differs from the last value there was.
Reportable(value, from_signal) ==
  IF from_signal
    THEN ~power_saver_known \/ power_saver_enabled # value
    ELSE power_saver_known_once /\ power_saver_enabled # value

ApplyPowerSaver(value) ==
  /\ power_saver_known' = TRUE
  /\ power_saver_known_once' = TRUE
  /\ power_saver_enabled' = value

-----------------------------------------------------------------------------
(* The main thread.                                                        *)

\* read_properties(): one batch for the lot, issued on the worker.
ReadProperties(wanted, seeding) ==
  /\ main' = "await"
  /\ generation' = portal_generation
  /\ batch' = [number |-> batch.number + 1, seeding |-> seeding, left |-> wanted,
               answers |-> [p \in Properties |-> NoAnswer]]
  /\ batch_task' = TRUE
  /\ gets' = {}

\* The constructor notes the generation and reads everything at once.
BeginSeed ==
  /\ main = "construct"
  /\ ReadProperties(Properties, TRUE)
  /\ UNCHANGED <<powerVars, ownerVars, cached_versions, reads, worker, refresh_task, refreshing,
                 inbox, portalVars, heard>>

\* read_interface_versions(), first lock section: what the cache does not have is
\* read.  (With nothing missing it returns, and nothing changes.)
BeginRead(wanted) ==
  LET missing == {f \in wanted : cached_versions[f] = Uncached} IN
  /\ main = "idle"
  /\ reads < MaxReads
  /\ missing # {}
  /\ reads' = reads + 1
  /\ ReadProperties(missing, FALSE)
  /\ UNCHANGED <<powerVars, ownerVars, cached_versions, worker, refresh_task, refreshing, inbox,
                 portalVars, heard>>

\* The wait for the batch is over; what comes later is freed with the batch.
TakeValues ==
  /\ main = "await"
  /\ batch.left = {} \/ "await" \in TimeOuts
  /\ main' = IF batch.seeding THEN "seed" ELSE "store"
  /\ UNCHANGED <<powerVars, ownerVars, cached_versions, generation, reads, batch, worker, taskVars,
                 callVars, inbox, portalVars, heard>>

Seed == batch.answers[PowerSaver].value

\* Mutant: the seed is applied although it could not be read.
SeedAnyway ==
  /\ main = "seed"
  /\ ApplyPowerSaver(Seed)
  /\ main' = "store"
  /\ UNCHANGED <<ownerVars, cached_versions, generation, reads, batch, worker, taskVars, callVars,
                 inbox, portalVars, heard>>

\* The constructor applies the power-saver state it read, if it could.
SeedPowerSaver ==
  /\ main = "seed"
  /\ IF Seed = Missing THEN UNCHANGED powerVars ELSE ApplyPowerSaver(Seed)
  /\ main' = IF Seed # Missing /\ Reportable(Seed, FALSE) THEN "emit" ELSE "store"
  /\ UNCHANGED <<ownerVars, cached_versions, generation, reads, batch, worker, taskVars, callVars,
                 inbox, portalVars, heard>>

\* The signal for it is queued after the lock was released.
EmitSeed ==
  /\ main = "emit"
  /\ heard' = Seed
  /\ main' = "store"
  /\ UNCHANGED <<powerVars, ownerVars, cached_versions, generation, reads, batch, worker, taskVars,
                 callVars, inbox, portalVars>>

\* Mutant: an answer of the previous instance is cached, too.
CacheableWhenever(f) == batch.answers[f].definitive

\* Only an answer from the instance the read started against is cached.
Cacheable(f) == batch.answers[f].definitive /\ generation = portal_generation

\* read_interface_versions(), last lock section, which the constructor repeats.
CacheAnswers ==
  cached_versions' = [f \in Interfaces |->
    IF Cacheable(f) THEN batch.answers[f].value ELSE cached_versions[f]]

\* The versions read are cached; a constructor that could not read the
\* power-saver state asks for it again, and nobody waits for that.
StoreVersions ==
  /\ main = "store"
  /\ CacheAnswers
  /\ refresh_task' = (refresh_task \/ (batch.seeding /\ Seed = Missing))
  /\ main' = "idle"
  /\ UNCHANGED <<powerVars, ownerVars, generation, reads, batch, worker, batch_task, callVars, inbox,
                 portalVars, heard>>

-----------------------------------------------------------------------------
(* The worker thread.                                                      *)

Dispatching(type) ==
  /\ worker = NoChange
  /\ inbox # <<>>
  /\ Head(inbox).type = type
  /\ inbox' = Tail(inbox)

\* The task of read_properties(): a Get for each property, all at once.
IssueGets ==
  /\ worker = NoChange
  /\ batch_task
  /\ batch_task' = FALSE
  /\ gets' = IF main = "await" THEN batch.left ELSE {}
  /\ UNCHANGED <<powerVars, ownerVars, cached_versions, mainVars, worker, refresh_task, refreshing,
                 inbox, portalVars, heard>>

\* The constructor's refresh_power_saver_async().
IssueRefresh ==
  /\ worker = NoChange
  /\ refresh_task
  /\ refresh_task' = FALSE
  /\ refreshing' = refreshing + 1
  /\ UNCHANGED <<powerVars, ownerVars, cached_versions, mainVars, worker, batch_task, gets, inbox,
                 portalVars, heard>>

\* on_property_read().
OnPropertyRead ==
  LET m == Head(inbox) IN
  /\ Dispatching("read")
  /\ batch' = IF m.batch = batch.number /\ main = "await"
                THEN [number |-> batch.number, seeding |-> batch.seeding,
                      left |-> batch.left \ {m.property},
                      answers |-> [batch.answers EXCEPT ![m.property] = m.answer]]
                ELSE batch
  /\ UNCHANGED <<powerVars, ownerVars, cached_versions, main, generation, reads, worker, taskVars,
                 callVars, portalVars, heard>>

\* Mutant: an owner that comes when there was none is not a new instance.
ReplacedOnly(name) == portal_owner_seen /\ portal_owner # NoOwner /\ portal_owner # name

\* Any owner but the first one reported is a new instance.
Replaced(name) == portal_owner_seen /\ portal_owner # name

\* on_portal_appeared(): a new instance is asked for the power-saver state.
OnPortalAppeared ==
  LET name == Head(inbox).owner IN
  /\ Dispatching("appeared")
  /\ portal_owner_seen' = TRUE
  /\ portal_owner' = name
  /\ IF Replaced(name)
       THEN /\ portal_generation' = portal_generation + 1
            /\ cached_versions' = [f \in Interfaces |-> Uncached]
            /\ refreshing' = refreshing + 1
       ELSE UNCHANGED <<portal_generation, cached_versions, refreshing>>
  /\ UNCHANGED <<powerVars, mainVars, worker, taskVars, gets, portalVars, heard>>

\* Mutant: the last state is still taken for known.
KeepPowerSaver == UNCHANGED powerVars

\* Nobody is left to report the state; the last value is kept for comparison.
ForgetPowerSaver ==
  /\ power_saver_known' = FALSE
  /\ UNCHANGED <<power_saver_known_once, power_saver_enabled>>

\* on_portal_vanished().
OnPortalVanished ==
  /\ Dispatching("vanished")
  /\ portal_owner_seen' = TRUE
  /\ portal_owner' = NoOwner
  /\ portal_generation' = portal_generation + 1
  /\ cached_versions' = [f \in Interfaces |-> Uncached]
  /\ ForgetPowerSaver
  /\ UNCHANGED <<mainVars, worker, taskVars, callVars, portalVars, heard>>

\* on_properties_changed() and on_power_saver_read(), up to the end of the lock
\* section.  A re-read that failed is only logged, and is not a message here.
OnPowerSaverReport(type) ==
  LET value == Head(inbox).value IN
  /\ Dispatching(type)
  /\ ApplyPowerSaver(value)
  /\ worker' = IF Reportable(value, type = "changed") THEN value ELSE NoChange
  /\ UNCHANGED <<ownerVars, cached_versions, mainVars, taskVars, callVars, portalVars, heard>>

\* The signal for it.
EmitChange ==
  /\ worker # NoChange
  /\ heard' = worker
  /\ worker' = NoChange
  /\ UNCHANGED <<powerVars, ownerVars, cached_versions, mainVars, taskVars, callVars, inbox,
                 portalVars>>

-----------------------------------------------------------------------------
(* The bus, the portal and the desktop, as the code relies on them.        *)

AnswerGet(p, answer) ==
  /\ p \in gets
  /\ gets' = gets \ {p}
  /\ inbox' = Append(inbox, [type |-> "read", batch |-> batch.number, property |-> p,
                             answer |-> answer])
  /\ UNCHANGED <<powerVars, ownerVars, cached_versions, mainVars, worker, taskVars, refreshing,
                 portalVars, heard>>

\* The portal answers: with the value, or that there is no such interface.
ReadByPortal(p) ==
  /\ owner # NoOwner
  /\ AnswerGet(p, [value |-> IF p = PowerSaver THEN saver ELSE exported[owner][p],
                   definitive |-> TRUE])

\* There is no portal, or no answer in time: no answer to remember.
ReadFails(p) ==
  /\ owner = NoOwner \/ "get" \in TimeOuts
  /\ AnswerGet(p, NoAnswer)

RefreshByPortal ==
  /\ refreshing > 0
  /\ owner # NoOwner
  /\ refreshing' = refreshing - 1
  /\ inbox' = Append(inbox, [type |-> "refreshed", value |-> saver])
  /\ UNCHANGED <<powerVars, ownerVars, cached_versions, mainVars, worker, taskVars, gets, portalVars,
                 heard>>

RefreshFails ==
  /\ refreshing > 0
  /\ owner = NoOwner \/ "get" \in TimeOuts
  /\ refreshing' = refreshing - 1
  /\ UNCHANGED <<powerVars, ownerVars, cached_versions, mainVars, worker, taskVars, gets, inbox,
                 portalVars, heard>>

PortalStarts ==
  /\ owner = NoOwner
  /\ instances < MaxInstances
  /\ owner' = instances + 1
  /\ instances' = instances + 1
  /\ inbox' = Append(inbox, [type |-> "appeared", owner |-> instances + 1])
  /\ UNCHANGED <<powerVars, ownerVars, cached_versions, mainVars, worker, taskVars, callVars,
                 exported, saver, changes, heard>>

Constructed == ~batch.seeding \/ main = "idle"
Restless == CalmStartup => Constructed

PortalVanishes ==
  /\ owner # NoOwner
  /\ Restless
  /\ owner' = NoOwner
  /\ inbox' = Append(inbox, [type |-> "vanished"])
  /\ UNCHANGED <<powerVars, ownerVars, cached_versions, mainVars, worker, taskVars, callVars,
                 instances, exported, saver, changes, heard>>

\* The desktop's state changes; only a running portal can notify anyone of it.
SaverChanges ==
  /\ changes < MaxChanges
  /\ Restless
  /\ changes' = changes + 1
  /\ saver' = 1 - saver
  /\ inbox' = IF owner = NoOwner THEN inbox
              ELSE Append(inbox, [type |-> "changed", value |-> 1 - saver])
  /\ UNCHANGED <<powerVars, ownerVars, cached_versions, mainVars, worker, taskVars, callVars, owner,
                 instances, exported, heard>>

-----------------------------------------------------------------------------
MainThread ==
  \/ BeginSeed \/ SeedPowerSaver \/ EmitSeed
  \/ \E wanted \in {Interfaces} \cup {{f} : f \in Interfaces} : BeginRead(wanted)
  \/ TakeValues \/ StoreVersions

WorkerThread ==
  \/ IssueGets \/ IssueRefresh
  \/ OnPropertyRead \/ OnPortalAppeared \/ OnPortalVanished
  \/ \E type \in {"changed", "refreshed"} : OnPowerSaverReport(type)
  \/ EmitChange

Environment ==
  \/ \E p \in Properties : ReadByPortal(p) \/ ReadFails(p)
  \/ RefreshByPortal \/ RefreshFails
  \/ PortalStarts \/ PortalVanishes \/ SaverChanges

Next == MainThread \/ WorkerThread \/ Environment

Spec == Init /\ [][Next]_vars

(* Fairness: the worker's loop runs what is queued, a portal that stays    *)
(* answers, and the main thread goes on; nobody has to call, start or die. *)
Fairness ==
  /\ WF_vars(BeginSeed \/ TakeValues \/ SeedPowerSaver \/ EmitSeed \/ StoreVersions)
  /\ WF_vars(WorkerThread)
  /\ WF_vars(IssueGets)
  /\ WF_vars(IssueRefresh)
  /\ \A p \in Properties : WF_vars(ReadByPortal(p) \/ ReadFails(p))
  /\ WF_vars(RefreshByPortal \/ RefreshFails)

FairSpec == Spec /\ Fairness

-----------------------------------------------------------------------------
(* Properties.                                                             *)

UnderWay(types) == \E i \in DOMAIN inbox : inbox[i].type \in types

\* A cached version is the one that the portal instance exports which the worker
\* believes to own the name: no read that began with another one filled it.
CacheIsCurrent ==
  \A f \in Interfaces : cached_versions[f] # Uncached =>
    portal_owner # NoOwner /\ cached_versions[f] = exported[portal_owner][f]

\* When power_saver_state() is known, and neither a notification nor news of the
\* portal is on its way, it is the desktop's state.
CurrentWhenQuiet ==
  power_saver_known /\ ~UnderWay({"changed", "vanished"}) /\ owner # NoOwner
    => power_saver_enabled = saver

\* Without a portal there is nobody to report changes: the state is unknown.
UnknownWithoutPortal == portal_owner_seen /\ portal_owner = NoOwner => ~power_saver_known

\* Whoever was told of a change was told of every later one: with no signal about
\* to be emitted, the last one had the value power_saver_state() goes by.
ChangesAreHeard ==
  worker = NoChange /\ main # "emit" /\ heard # NoChange => heard = power_saver_enabled

\* If a portal stays, the desktop's state becomes known and stays so.
BecomesCurrent ==
  <>[](owner # NoOwner) => <>[](power_saver_known /\ power_saver_enabled = saver)

=============================================================================
