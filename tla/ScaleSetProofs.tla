---------------------------- MODULE ScaleSetProofs ----------------------------
(****************************************************************************)
(* Proofs about the scale-set controller, for every number of jobs,         *)
(* instances and faults: no job is lost out of sight but between the        *)
(* deletion of its message and its acquisition, the controller never owns   *)
(* more runners than it may, and it removes none it can know to be busy.    *)
(* Last come the types, with the bounds on what a run of the provider       *)
(* counts.                                                                  *)
(****************************************************************************)
EXTENDS ScaleSet, FiniteSetTheorems, WellFoundedInduction, TLAPS

-----------------------------------------------------------------------------
\* Sets of instances, which are numbered in the order of their launch.

\* A finite set of numbers has a greatest one.  Otherwise some least subset of
\* it has none, and without one of its elements it has.
LEMMA GreatestExists ==
  ASSUME NEW S, S \subseteq Nat, IsFiniteSet(S), S # {}
  PROVE  \E x \in S : \A y \in S : y <= x
<1>. DEFINE HasGreatest(T) == \E x \in T : \A y \in T : y <= x
            Bad == {T \in FiniteSubsetsOf(S) : T # {} /\ ~HasGreatest(T)}
<1>1. SUFFICES ASSUME S \in Bad PROVE FALSE
  BY DEF FiniteSubsetsOf
<1>2. PICK T \in Bad : \A U \in Bad : ~(<<U, T>> \in StrictSubsetOrdering(S))
  <2>1. IsWellFoundedOn(StrictSubsetOrdering(S), FiniteSubsetsOf(S))
    BY FS_StrictSubsetOrderingWellFounded
  <2>2. Bad \subseteq FiniteSubsetsOf(S) /\ Bad # {}
    BY <1>1
  <2>. HIDE DEF Bad
  <2>. QED
    BY <2>1, <2>2, WFMin
<1>3. T \subseteq Nat /\ T \subseteq S /\ IsFiniteSet(T) /\ T # {} /\ ~HasGreatest(T)
  BY <1>2 DEF FiniteSubsetsOf
<1>4. PICK x \in T : TRUE
  BY <1>3
<1>5. T \ {x} # {}
  <2>1. SUFFICES ASSUME T = {x} PROVE FALSE
    BY <1>4
  <2>2. x \in Nat
    BY <1>3, <1>4
  <2>. QED
    BY <1>3, <2>1, <2>2
<1>6. IsFiniteSet(T \ {x})
  BY <1>3, FS_RemoveElement
<1>7. T \ {x} \notin Bad
  <2>1. <<T \ {x}, T>> \in StrictSubsetOrdering(S)
    BY <1>3, <1>4 DEF StrictSubsetOrdering
  <2>. QED
    BY <1>2, <2>1
<1>8. PICK m \in T \ {x} : \A y \in T \ {x} : y <= m
  BY <1>3, <1>5, <1>6, <1>7 DEF FiniteSubsetsOf
<1>9. m \in Nat /\ x \in Nat
  BY <1>3, <1>4, <1>8
<1>10. CASE x <= m
  BY <1>3, <1>8, <1>9, <1>10
<1>11. CASE m < x
  <2>1. \A y \in T : y <= x
    BY <1>3, <1>8, <1>9, <1>11
  <2>. QED
    BY <1>3, <1>4, <2>1
<1>. QED
  BY <1>9, <1>10, <1>11

LEMMA MaxOfIn ==
  ASSUME NEW S \in SUBSET Instance, S # {}
  PROVE  MaxOf(S) \in S /\ \A y \in S : y <= MaxOf(S)
<1>1. S \subseteq Nat /\ IsFiniteSet(S)
  BY ServiceAssumption, FS_Subset
<1>2. \E x \in S : \A y \in S : y <= x
  BY <1>1, GreatestExists
<1>. QED
  BY <1>2 DEF MaxOf

\* A fleet request for n instances gives at most n.
LEMMA FreshBounded ==
  ASSUME NEW n \in Nat
  PROVE  /\ IsFiniteSet(Fresh(n)) /\ Fresh(n) \subseteq {i \in Instance : vm[i] = "free"}
         /\ Cardinality(Fresh(n)) <= n
<1>. DEFINE before(m) == {k \in Instance : vm[k] = "free" /\ k < m}
<1>1. Fresh(n) \in SUBSET Instance /\ IsFiniteSet(Fresh(n))
  BY ServiceAssumption, FS_Subset DEF Fresh
<1>2. CASE Fresh(n) = {}
  BY <1>2, FS_EmptySet
<1>3. CASE Fresh(n) # {}
  <2>1. PICK m \in Fresh(n) : \A y \in Fresh(n) : y <= m
    BY <1>1, <1>3, MaxOfIn
  <2>2. before(m) \in SUBSET Instance /\ IsFiniteSet(before(m)) /\ Cardinality(before(m)) \in Nat
    <3>1. before(m) \in SUBSET Instance
      OBVIOUS
    <3>2. IsFiniteSet(before(m))
      BY <3>1, ServiceAssumption, FS_Subset
    <3>. QED
      BY <3>1, <3>2, FS_CardinalityType
  <2>3. Cardinality(before(m)) < n
    BY <2>1 DEF Fresh
  <2>4. Fresh(n) \subseteq before(m) \cup {m}
    <3>1. ASSUME NEW i \in Fresh(n) PROVE i \in before(m) \cup {m}
      <4>1. i \in Nat /\ m \in Nat /\ i <= m /\ vm[i] = "free" /\ i \in Instance
        BY <1>1, <2>1, ServiceAssumption DEF Fresh
      <4>. QED
        BY <4>1
    <3>. QED
      BY <3>1
  <2>5. IsFiniteSet(before(m) \cup {m}) /\ Cardinality(before(m) \cup {m}) <= Cardinality(before(m)) + 1
    BY <2>2, FS_AddElement
  <2>6. Cardinality(Fresh(n)) <= Cardinality(before(m) \cup {m})
    BY <2>4, <2>5, FS_Subset
  <2>7. Cardinality(Fresh(n)) \in Nat /\ Cardinality(before(m) \cup {m}) \in Nat
    BY <1>1, <2>5, FS_CardinalityType
  <2>. QED
    BY <1>1, <2>2, <2>3, <2>5, <2>6, <2>7 DEF Fresh
<1>. QED
  BY <1>1, <1>2, <1>3 DEF Fresh

\* An optional value is its only member.
LEMMA TheOnly == \A x : The({x}) = x
BY DEF The

-----------------------------------------------------------------------------
\* The inductive invariant.

JobState == {"none", "available", "assigned", "running", "done"}
Provider == {"list", "create", "identify", "publish", "mark", "remove", "terminate", "end"}
SomeStats == [assigned : Nat, running : SUBSET Instance]

Types ==
  /\ job \in [Job -> JobState]
  /\ news \in Events
  /\ box = {} \/ \E m \in [stats : SomeStats, events : Events] : box = {m}
  /\ msg = {} \/ \E e \in Events : msg = {e}
  /\ stats = {} \/ \E s \in SomeStats : stats = {s}
  /\ min \in Nat /\ peak \in Nat
  /\ DOMAIN vm = Instance /\ DOMAIN work = Instance /\ DOMAIN lifecycle = Instance
  /\ todo \subseteq Instance
  /\ pc \in Provider \cup {"delete", "acquire"} => stats # {}

\* While a message is being deleted it waits in the queue.
InMessage ==
  /\ pc = "delete" => box # {} /\ msg = {The(box).events}
  /\ pc = "acquire" => msg # {}

\* Wherever the completion of a runner is told, the runner has ended.
Told(i) ==
  \/ i \in news.completed
  \/ box # {} /\ i \in The(box).events.completed
  \/ msg # {} /\ i \in The(msg).completed
  \/ lifecycle[i] = "completed"
CompletedIsOver == \A i \in Instance : Told(i) => vm[i] \in {"ended", "gone"} /\ work[i] = 0

\* The candidates for removal are those of the statistics in hand.
CandidatesAreRemovable == pc \in {"remove", "terminate"} => \A i \in todo : Removable(i)

\* A fleet request does not ask for more than there is room for.
LaunchBounded == pc = "create" => count \in Nat /\ Cardinality(Owned) + count <= peak + Surge

IInv ==
  /\ Types /\ InMessage /\ AvailableIsAnnounced
  /\ CompletedIsOver /\ CandidatesAreRemovable
  /\ LaunchBounded /\ FleetBounded

LEMMA InitOK == Init => IInv
<1>. SUFFICES ASSUME Init PROVE IInv
  OBVIOUS
<1>. USE DEF Init, ServiceInit
<1>1. Types
  BY ServiceAssumption DEF Types, NoEvents, Events, JobState, Provider
<1>2. InMessage /\ CandidatesAreRemovable /\ LaunchBounded
  BY DEF InMessage, CandidatesAreRemovable, LaunchBounded
<1>3. AvailableIsAnnounced
  BY DEF AvailableIsAnnounced
<1>4. CompletedIsOver
  BY DEF CompletedIsOver, Told, NoEvents
<1>5. FleetBounded
  <2>1. Owned = {}
    BY DEF Owned
  <2>. QED
    BY <2>1, FS_EmptySet, ProviderAssumption DEF FleetBounded
<1>. QED
  BY <1>1, <1>2, <1>3, <1>4, <1>5 DEF IInv

-----------------------------------------------------------------------------
\* The owned runners.

LEMMA OwnedFinite == IsFiniteSet(Owned) /\ Cardinality(Owned) \in Nat
<1>1. Owned \in SUBSET Instance
  BY DEF Owned
<1>. QED
  BY <1>1, ServiceAssumption, FS_Subset, FS_CardinalityType

LEMMA OwnedFinitePrime == IsFiniteSet(Owned') /\ Cardinality(Owned') \in Nat
<1>1. Owned' \in SUBSET Instance
  BY DEF Owned
<1>. QED
  BY <1>1, ServiceAssumption, FS_Subset, FS_CardinalityType

LEMMA DesiredIsNat ==
  ASSUME NEW s \in SomeStats, stats = {s}, min \in Nat
  PROVE  Desired \in Nat
BY TheOnly, ServiceAssumption DEF SomeStats, Desired, DesiredFor, Most, Least

LEMMA AssignedIsNat == Cardinality(Assigned) \in Nat
<1>1. Assigned \in SUBSET Job
  BY DEF Assigned
<1>. QED
  BY <1>1, ServiceAssumption, FS_Subset, FS_CardinalityType

\* No step but a launch takes an instance among the owned ones.
LEMMA OwnedShrinks ==
  ASSUME \A i \in Instance : vm'[i] \notin {"free", "gone"} => vm[i] \notin {"free", "gone"}
  PROVE  Cardinality(Owned') <= Cardinality(Owned)
<1>1. Owned' \in SUBSET Owned
  BY DEF Owned
<1>. QED
  BY <1>1, OwnedFinite, FS_Subset

\* What both bounds on the fleet need: fewer runners, and no smaller peak.
LEMMA BoundsKept ==
  ASSUME FleetBounded, peak \in Nat, peak' = peak,
         \A i \in Instance : vm'[i] \notin {"free", "gone"} => vm[i] \notin {"free", "gone"}
  PROVE  /\ FleetBounded'
         /\ LaunchBounded /\ pc' = pc /\ count' = count => LaunchBounded'
<1>1. Cardinality(Owned') <= Cardinality(Owned)
  BY OwnedShrinks
<1>2. Cardinality(Owned') \in Nat /\ Cardinality(Owned) \in Nat /\ Surge \in Nat
  BY OwnedFinite, OwnedFinitePrime, ProviderAssumption
<1>3. FleetBounded'
  BY <1>1, <1>2 DEF FleetBounded
<1>4. ASSUME LaunchBounded, pc' = pc, count' = count PROVE LaunchBounded'
  BY <1>1, <1>2, <1>4 DEF LaunchBounded
<1>. QED
  BY <1>3, <1>4

-----------------------------------------------------------------------------
\* The steps, one lemma for those that change little, and one for each other.

seen == <<job, news, box, msg, vm, work, stats, lifecycle, todo, count, min, peak, dropped>>

\* A step that only moves the controller on.
LEMMA MoveOK ==
  ASSUME IInv, UNCHANGED seen,
         pc' = pc \/ /\ pc # "acquire"
                     /\ pc' \notin {"delete", "acquire", "remove", "terminate", "create"}
                     /\ pc' \in Provider => stats # {}
  PROVE  IInv'
<1>. USE DEF IInv, seen
<1>1. Types'
  BY DEF Types, Provider
<1>2. InMessage'
  BY DEF InMessage
<1>3. AvailableIsAnnounced'
  BY DEF AvailableIsAnnounced
<1>4. CompletedIsOver'
  BY DEF CompletedIsOver, Told
<1>5. CandidatesAreRemovable'
  BY DEF CandidatesAreRemovable, Removable
<1>6. FleetBounded' /\ LaunchBounded'
  <2>1. peak' = peak /\ vm' = vm /\ count' = count /\ peak \in Nat
    BY DEF Types
  <2>. QED
    BY <2>1, BoundsKept DEF LaunchBounded
<1>. QED
  BY <1>1, <1>2, <1>3, <1>4, <1>5, <1>6

LEMMA MovesOK ==
  ASSUME IInv,
         \/ LoadCredentials \/ Authorize \/ ResolveScaleSet \/ RegisterScaleSet \/ CheckScaleSet
         \/ StartFails \/ RegisterFails \/ ConnectFails \/ Refresh \/ CloseSession \/ ExpireSession
  PROVE  IInv'
<1>1. UNCHANGED seen
  BY DEF LoadCredentials, Authorize, ResolveScaleSet, RegisterScaleSet, CheckScaleSet, StartFails,
         RegisterFails, ConnectFails, Refresh, CloseSession, ExpireSession, Beginning,
         seen, queueVars, fleetVars, runVars, providerVars, loopVars, configVars, serviceVars
<1>2. pc' = pc \/ (pc # "acquire" /\ pc' \in {"authorize", "resolve", "register", "check", "connect", "failed"})
  BY DEF LoadCredentials, Authorize, ResolveScaleSet, RegisterScaleSet, CheckScaleSet, StartFails,
         RegisterFails, ConnectFails, Refresh, CloseSession, ExpireSession, Beginning,
         providerVars
<1>. QED
  BY <1>1, <1>2, MoveOK DEF Provider

\* A session begins: its statistics are reconciled, or there are none yet.
LEMMA ConnectOK == ASSUME IInv, Connect PROVE IInv'
<1>. USE DEF IInv, Connect, fleetVars, runVars, loopVars, configVars
<1>1. Types'
  <2>1. Snapshot \in SomeStats
    BY AssignedIsNat DEF Snapshot, SomeStats, Running
  <2>. QED
    BY <2>1 DEF Types, Provider
<1>2. InMessage' /\ CandidatesAreRemovable' /\ LaunchBounded'
  BY DEF InMessage, CandidatesAreRemovable, LaunchBounded
<1>3. AvailableIsAnnounced'
  BY DEF AvailableIsAnnounced
<1>4. CompletedIsOver'
  BY DEF CompletedIsOver, Told
<1>5. FleetBounded'
  BY BoundsKept DEF Types
<1>. QED
  BY <1>1, <1>2, <1>3, <1>4, <1>5

\* The message in hand is given up, with or without the statistics.
LEMMA PollNothingOK == ASSUME IInv, PollNothing PROVE IInv'
<1>. USE DEF IInv, PollNothing, DropSession, NoRun, serviceVars, queueVars, fleetVars, runVars, configVars
<1>1. Types'
  BY DEF Types, Provider
<1>2. InMessage' /\ CandidatesAreRemovable' /\ LaunchBounded'
  BY DEF InMessage, CandidatesAreRemovable, LaunchBounded
<1>3. AvailableIsAnnounced'
  BY DEF AvailableIsAnnounced
<1>4. CompletedIsOver'
  BY DEF CompletedIsOver, Told
<1>5. FleetBounded'
  BY BoundsKept DEF Types
<1>. QED
  BY <1>1, <1>2, <1>3, <1>4, <1>5

LEMMA PollMessageOK == ASSUME IInv, PollMessage PROVE IInv'
<1>. USE DEF IInv, PollMessage, serviceVars, queueVars, fleetVars, runVars, configVars
<1>1. PICK m \in [stats : SomeStats, events : Events] : box = {m} /\ The(box) = m
  BY TheOnly DEF Types, Provider
<1>2. stats' = {m.stats} /\ msg' = {m.events} /\ The(msg') = m.events
  BY <1>1, TheOnly
<1>3. Types'
  BY <1>1, <1>2 DEF Types, Provider
<1>4. InMessage' /\ CandidatesAreRemovable' /\ LaunchBounded'
  BY <1>1, <1>2 DEF InMessage, CandidatesAreRemovable, LaunchBounded
<1>5. AvailableIsAnnounced'
  BY DEF AvailableIsAnnounced
<1>6. CompletedIsOver'
  BY <1>1, <1>2 DEF CompletedIsOver, Told
<1>7. FleetBounded'
  BY BoundsKept DEF Types
<1>. QED
  BY <1>3, <1>4, <1>5, <1>6, <1>7

\* What the events of a deleted message tell stays true of the lifecycle.
LEMMA ObserveOK ==
  ASSUME Types, NEW e \in Events, msg = {e}, Observe(e)
  PROVE  /\ DOMAIN lifecycle' = Instance
         /\ \A i \in Instance : lifecycle'[i] = "completed" => Told(i)
BY TheOnly DEF Observe, Told, Types, Events

LEMMA DeleteMessageOK == ASSUME IInv, DeleteMessage PROVE IInv'
<1>. USE DEF IInv, DeleteMessage, fleetVars, runVars, loopVars, configVars
<1>1. PICK e \in Events : msg = {e} /\ The(msg) = e
  BY TheOnly DEF Types, InMessage
<1>2. The(box).events = e
  BY <1>1, TheOnly DEF InMessage
<1>3. DOMAIN lifecycle' = Instance /\ \A i \in Instance : lifecycle'[i] = "completed" => Told(i)
  BY <1>1, ObserveOK DEF Types, Told
<1>4. Types'
  BY <1>3 DEF Types, Provider
<1>5. InMessage' /\ CandidatesAreRemovable' /\ LaunchBounded'
  BY <1>1 DEF InMessage, CandidatesAreRemovable, LaunchBounded
<1>6. AvailableIsAnnounced'
  <2>1. CASE e.avail = {}
    BY <1>1, <1>2, <2>1 DEF AvailableIsAnnounced
  <2>2. CASE e.avail # {}
    BY <1>1, <1>2, <2>2 DEF AvailableIsAnnounced
  <2>. QED
    BY <2>1, <2>2
<1>7. CompletedIsOver'
  BY <1>3 DEF CompletedIsOver, Told
<1>8. FleetBounded'
  BY BoundsKept DEF Types
<1>. QED
  BY <1>4, <1>5, <1>6, <1>7, <1>8

\* GitHub assigns what it can, and nothing else becomes available.
LEMMA AcquireOK ==
  ASSUME Types, Acquire
  PROVE  /\ job' \in [Job -> JobState]
         /\ news' \in Events /\ news'.avail = news.avail /\ news'.completed = news.completed
         /\ \A j \in Job : job'[j] = "available" => job[j] = "available" /\ j \notin The(msg).avail
BY DEF Types, Acquire, JobState, Events

LEMMA AcquireJobsOK == ASSUME IInv, AcquireJobs PROVE IInv'
<1>. USE DEF IInv, AcquireJobs, fleetVars, runVars, loopVars, configVars
<1>1. PICK e \in Events : msg = {e} /\ The(msg) = e
  BY TheOnly DEF Types, InMessage
<1>2. DOMAIN lifecycle' = Instance /\ \A i \in Instance : lifecycle'[i] = "completed" => Told(i)
  BY <1>1, ObserveOK
<1>3. Types'
  BY <1>2, AcquireOK DEF Types, Provider
<1>4. InMessage' /\ CandidatesAreRemovable' /\ LaunchBounded'
  BY DEF InMessage, CandidatesAreRemovable, LaunchBounded
<1>5. AvailableIsAnnounced'
  BY AcquireOK DEF AvailableIsAnnounced
<1>6. CompletedIsOver'
  BY <1>2, AcquireOK DEF CompletedIsOver, Told
<1>7. FleetBounded'
  BY BoundsKept DEF Types
<1>. QED
  BY <1>3, <1>4, <1>5, <1>6, <1>7

\* A failed request drops the jobs of a message that is, or may be, deleted.
LEMMA RequestFailsOK == ASSUME IInv, RequestFails PROVE IInv'
<1>. USE DEF IInv, RequestFails, DropSession, NoRun, fleetVars, configVars
<1>1. PICK e \in Events : (pc \in {"delete", "acquire"} => msg = {e} /\ The(msg) = e)
  BY TheOnly DEF Types, InMessage
<1>2. job' \in [Job -> JobState] /\ news' \in Events
      /\ news'.avail = news.avail /\ news'.completed = news.completed
  BY AcquireOK DEF Types
<1>3. Types'
  BY <1>2 DEF Types, Provider
<1>4. InMessage' /\ CandidatesAreRemovable' /\ LaunchBounded'
  BY DEF InMessage, CandidatesAreRemovable, LaunchBounded
<1>5. AvailableIsAnnounced'
  <2>1. CASE dropped' = dropped \cup Unacquired /\ UNCHANGED <<job, news, box>>
    BY <2>1 DEF AvailableIsAnnounced, Unacquired
  <2>2. CASE pc = "delete" /\ box' = {} /\ dropped' = dropped \cup The(msg).avail /\ UNCHANGED <<job, news>>
    <3>1. The(box).events = e
      BY <1>1, <2>2, TheOnly DEF InMessage
    <3>. QED
      BY <1>1, <2>2, <3>1 DEF AvailableIsAnnounced
  <2>3. CASE pc = "acquire" /\ Acquire /\ UNCHANGED <<box, dropped>>
    BY <1>2, <2>3, AcquireOK DEF AvailableIsAnnounced
  <2>. QED
    BY <2>1, <2>2, <2>3
<1>6. CompletedIsOver'
  BY <1>2 DEF CompletedIsOver, Told
<1>7. FleetBounded'
  BY BoundsKept DEF Types
<1>. QED
  BY <1>3, <1>4, <1>5, <1>6, <1>7

LEMMA FatalErrorOK == ASSUME IInv, FatalError PROVE IInv'
<1>. USE DEF IInv, FatalError, NoRun, fleetVars, configVars
<1>1. PICK e \in Events : (pc \in {"delete", "acquire"} => msg = {e} /\ The(msg) = e)
  BY TheOnly DEF Types, InMessage
<1>2. Types'
  BY DEF Types, Provider
<1>3. InMessage' /\ CandidatesAreRemovable' /\ LaunchBounded'
  BY DEF InMessage, CandidatesAreRemovable, LaunchBounded
<1>4. AvailableIsAnnounced'
  <2>1. CASE dropped' = dropped \cup Unacquired /\ UNCHANGED box
    BY <2>1 DEF AvailableIsAnnounced, Unacquired
  <2>2. CASE pc = "delete" /\ box' = {} /\ dropped' = dropped \cup The(msg).avail
    <3>1. The(box).events = e
      BY <1>1, <2>2, TheOnly DEF InMessage
    <3>. QED
      BY <1>1, <2>2, <3>1 DEF AvailableIsAnnounced
  <2>. QED
    BY <2>1, <2>2
<1>5. CompletedIsOver'
  BY DEF CompletedIsOver, Told
<1>6. FleetBounded'
  BY BoundsKept DEF Types
<1>. QED
  BY <1>2, <1>3, <1>4, <1>5, <1>6

LEMMA EndRunOK == ASSUME IInv, EndRun PROVE IInv'
<1>. USE DEF IInv, EndRun, DropSession, NoRun, serviceVars, queueVars, fleetVars, configVars
<1>1. DOMAIN lifecycle' = Instance /\ \A i \in Instance : lifecycle'[i] = "completed" => lifecycle[i] = "completed"
  BY DEF Types
<1>2. Types'
  BY <1>1 DEF Types, Provider
<1>3. InMessage' /\ CandidatesAreRemovable' /\ LaunchBounded'
  BY DEF InMessage, CandidatesAreRemovable, LaunchBounded
<1>4. AvailableIsAnnounced'
  BY DEF AvailableIsAnnounced
<1>5. CompletedIsOver'
  BY <1>1 DEF CompletedIsOver, Told
<1>6. FleetBounded'
  BY BoundsKept DEF Types
<1>. QED
  BY <1>2, <1>3, <1>4, <1>5, <1>6

LEMMA ReplaceOK == ASSUME IInv, Replace PROVE IInv'
<1>. USE DEF IInv, Replace, GroupLive, Forget, serviceVars, queueVars, fleetVars, runVars, loopVars, configVars
<1>1. Types'
  BY DEF Types, Provider
<1>2. InMessage' /\ CandidatesAreRemovable' /\ LaunchBounded'
  BY DEF InMessage, CandidatesAreRemovable, LaunchBounded
<1>3. AvailableIsAnnounced'
  BY DEF AvailableIsAnnounced
<1>4. CompletedIsOver'
  BY DEF CompletedIsOver, Told
<1>5. FleetBounded'
  BY BoundsKept DEF Types
<1>. QED
  BY <1>1, <1>2, <1>3, <1>4, <1>5

\* The instances of a fleet request fit under the bound.
LEMMA LaunchOK ==
  ASSUME IInv, pc = "create", NEW n \in 0 .. count, Launch(Fresh(n)), peak' = peak
  PROVE  /\ FleetBounded'
         /\ DOMAIN vm' = Instance
         /\ \A i \in Instance : vm[i] \in {"ended", "gone"} => vm'[i] = vm[i]
<1>1. count \in Nat /\ n \in Nat /\ peak \in Nat /\ Surge \in Nat /\ Cardinality(Owned) + count <= peak + Surge
  BY ProviderAssumption DEF IInv, LaunchBounded, Types
<1>2. IsFiniteSet(Fresh(n)) /\ Cardinality(Fresh(n)) <= n /\ Cardinality(Fresh(n)) \in Nat
  BY <1>1, FreshBounded, FS_CardinalityType
<1>3. IsFiniteSet(Owned \cup Fresh(n))
      /\ Cardinality(Owned \cup Fresh(n)) <= Cardinality(Owned) + Cardinality(Fresh(n))
  <2>1. IsFiniteSet(Owned \cap Fresh(n)) /\ Cardinality(Owned \cap Fresh(n)) \in Nat
    BY <1>2, FS_Intersection, FS_CardinalityType
  <2>2. IsFiniteSet(Owned \cup Fresh(n))
        /\ Cardinality(Owned \cup Fresh(n))
             = Cardinality(Owned) + Cardinality(Fresh(n)) - Cardinality(Owned \cap Fresh(n))
    BY <1>2, OwnedFinite, FS_Union
  <2>. QED
    BY <1>2, <2>1, <2>2, OwnedFinite
<1>4. Owned' \subseteq Owned \cup Fresh(n)
  BY DEF Launch, Owned
<1>5. Cardinality(Owned') <= Cardinality(Owned \cup Fresh(n))
  BY <1>3, <1>4, FS_Subset
<1>6. FleetBounded'
  <2>1. Cardinality(Owned \cup Fresh(n)) \in Nat
    BY <1>3, FS_CardinalityType
  <2>. QED
    BY <1>1, <1>2, <1>3, <1>5, <2>1, OwnedFinite, OwnedFinitePrime DEF FleetBounded
<1>7. \A i \in Fresh(n) : vm[i] = "free"
  BY DEF Fresh
<1>. QED
  BY <1>6, <1>7 DEF Launch

LEMMA StopOK == ASSUME IInv, Stop PROVE IInv'
<1>. USE DEF IInv, Stop, NoRun, Forget, configVars
<1>1. FleetBounded' /\ DOMAIN vm' = Instance /\ \A i \in Instance : vm[i] \in {"ended", "gone"} => vm'[i] = vm[i]
  <2>1. CASE UNCHANGED vm
    BY <2>1, BoundsKept DEF Types
  <2>2. CASE pc = "create" /\ Launch(Fresh(count))
    BY <2>2, LaunchOK DEF LaunchBounded
  <2>. QED
    BY <2>1, <2>2
<1>2. Types'
  BY <1>1 DEF Types, Provider
<1>3. InMessage' /\ CandidatesAreRemovable' /\ LaunchBounded'
  BY DEF InMessage, CandidatesAreRemovable, LaunchBounded
<1>4. AvailableIsAnnounced'
  BY DEF AvailableIsAnnounced, Unacquired
<1>5. CompletedIsOver'
  BY <1>1 DEF CompletedIsOver, Told
<1>. QED
  BY <1>1, <1>2, <1>3, <1>4, <1>5

-----------------------------------------------------------------------------
\* The steps of the provider.

kept == UNCHANGED <<configVars, msg, dropped>>

\* LaunchCount leaves the fleet within the surge (provider.ts:102-108).
LEMMA LaunchCountBounded ==
  ASSUME Types, stats # {}, LaunchCount(Deficit) > 0
  PROVE  LaunchCount(Deficit) \in Nat /\ Cardinality(Owned) + LaunchCount(Deficit) <= Desired + Surge
<1>1. Desired \in Nat /\ Surge \in Nat /\ Cardinality(Owned) \in Nat
  BY DesiredIsNat, OwnedFinite, ProviderAssumption DEF Types
<1>2. ServingCapacity \in SUBSET Owned
  BY DEF ServingCapacity
<1>3. Cardinality(ServingCapacity) \in Nat
  BY <1>2, OwnedFinite, FS_Subset, FS_CardinalityType
<1>4. Deficit \in Int
  BY <1>1, <1>3 DEF Deficit
<1>. QED
  BY <1>1, <1>4 DEF LaunchCount, Least, Most

LEMMA ListOwnedOK ==
  ASSUME IInv, ListOwned, peak' = Most(peak, Desired), kept
  PROVE  IInv'
<1>. USE DEF IInv, ListOwned, BeginRun, kept, serviceVars, queueVars, fleetVars, configVars
<1>1. stats # {} /\ Desired \in Nat /\ peak \in Nat /\ Surge \in Nat
  BY DesiredIsNat, ProviderAssumption DEF Types, Provider
<1>2. peak' \in Nat /\ peak <= peak' /\ Desired <= peak'
  BY <1>1 DEF Most
<1>3. Owned' = Owned /\ Cardinality(Owned) \in Nat
  BY OwnedFinite DEF Owned
<1>4. ServingCapacity \subseteq Instance
  BY DEF ServingCapacity, Owned
<1>5. Types'
  BY <1>1, <1>2, <1>4 DEF Types, Provider
<1>6. InMessage'
  BY DEF InMessage
<1>7. CandidatesAreRemovable'
  BY DEF CandidatesAreRemovable, Removable
<1>8. LaunchBounded'
  <2>1. CASE LaunchCount(Deficit) > 0 /\ count' = LaunchCount(Deficit)
    BY <1>1, <1>2, <1>3, <2>1, LaunchCountBounded DEF LaunchBounded
  <2>2. CASE pc' # "create"
    BY <2>2 DEF LaunchBounded
  <2>. QED
    BY <2>1, <2>2
<1>9. FleetBounded'
  BY <1>1, <1>2, <1>3 DEF FleetBounded
<1>10. AvailableIsAnnounced'
  BY DEF AvailableIsAnnounced
<1>11. CompletedIsOver'
  BY DEF CompletedIsOver, Told
<1>. QED
  BY <1>5, <1>6, <1>7, <1>8, <1>9, <1>10, <1>11

LEMMA CreateFleetOK ==
  ASSUME IInv, CreateFleet, peak' = peak, kept
  PROVE  IInv'
<1>. USE DEF IInv, CreateFleet, kept, queueVars, configVars
<1>1. PICK n \in 0 .. count : Launch(Fresh(n)) /\ todo' = Fresh(n)
  OBVIOUS
<1>2. FleetBounded' /\ DOMAIN vm' = Instance /\ \A i \in Instance : vm[i] \in {"ended", "gone"} => vm'[i] = vm[i]
  BY <1>1, LaunchOK
<1>3. todo' \subseteq Instance /\ pc' \in {"end", "identify"}
  BY <1>1 DEF Fresh
<1>4. Types'
  BY <1>2, <1>3 DEF Types, Provider
<1>5. InMessage' /\ CandidatesAreRemovable' /\ LaunchBounded'
  BY <1>3 DEF InMessage, CandidatesAreRemovable, LaunchBounded
<1>6. AvailableIsAnnounced'
  BY <1>3 DEF AvailableIsAnnounced
<1>7. CompletedIsOver'
  BY <1>2 DEF CompletedIsOver, Told
<1>. QED
  BY <1>2, <1>4, <1>5, <1>6, <1>7

\* A step of the configuration of a launched runner, or of a failed listing:
\* an instance may be given up, and one less is left to do.
LEMMA ConfigureOK ==
  ASSUME IInv, UNCHANGED <<job, news, box, work, stats, lifecycle, peak>>, kept,
         pc \in Provider, pc' \in {"identify", "publish", "mark", "end"},
         todo' \subseteq todo, DOMAIN vm' = Instance,
         \A i \in Instance : vm'[i] = vm[i] \/ vm'[i] = "gone"
  PROVE  IInv'
<1>. USE DEF IInv, kept, configVars
<1>1. Types'
  BY DEF Types, Provider
<1>2. InMessage' /\ CandidatesAreRemovable' /\ LaunchBounded'
  BY DEF InMessage, CandidatesAreRemovable, LaunchBounded
<1>3. AvailableIsAnnounced'
  BY DEF AvailableIsAnnounced, Provider
<1>4. CompletedIsOver'
  BY DEF CompletedIsOver, Told
<1>5. FleetBounded'
  BY BoundsKept DEF Types
<1>. QED
  BY <1>1, <1>2, <1>3, <1>4, <1>5

LEMMA ConfiguresOK ==
  ASSUME IInv, peak' = peak, kept,
         ListFails \/ Identify \/ IdentifyFails \/ Publish \/ PublishFails \/ MarkPublished \/ RemovalDone
  PROVE  IInv'
<1>. USE DEF queueVars, fleetVars, runVars, serviceVars
<1>1. UNCHANGED <<job, news, box, work, stats, lifecycle>>
  BY DEF ListFails, Identify, IdentifyFails, Publish, PublishFails, MarkPublished, RemovalDone
<1>2. pc \in Provider /\ pc' \in {"identify", "publish", "mark", "end"} /\ todo' \subseteq todo
  BY DEF ListFails, Identify, IdentifyFails, Publish, PublishFails, MarkPublished, RemovalDone, Configured, Provider
<1>3. vm' = vm \/ vm' = [vm EXCEPT ![Next1] = "gone"]
  BY DEF ListFails, Identify, IdentifyFails, Publish, PublishFails, MarkPublished, RemovalDone, SetVm
<1>4. DOMAIN vm' = Instance /\ \A i \in Instance : vm'[i] = vm[i] \/ vm'[i] = "gone"
  BY <1>3 DEF IInv, Types
<1>. QED
  BY <1>1, <1>2, <1>4, ConfigureOK

LEMMA RemoveRunnerOK == ASSUME IInv, RemoveRunner, peak' = peak, kept PROVE IInv'
<1>. USE DEF IInv, RemoveRunner, kept, runVars, configVars
<1>1. /\ job' \in [Job -> JobState]
      /\ \A j \in Job : job'[j] = "available" => job[j] = "available"
      /\ news' \in Events /\ news'.avail = news.avail /\ news'.completed = news.completed
  BY DEF Types, JobState, Events
<1>2. DOMAIN work' = Instance /\ \A i \in Instance : work'[i] = work[i] \/ work'[i] = 0
  BY DEF Types
<1>3. Types'
  BY <1>1, <1>2 DEF Types, Provider
<1>4. InMessage' /\ CandidatesAreRemovable' /\ LaunchBounded'
  BY DEF InMessage, CandidatesAreRemovable, LaunchBounded, Removable
<1>5. AvailableIsAnnounced'
  BY <1>1 DEF AvailableIsAnnounced
<1>6. CompletedIsOver'
  BY <1>1, <1>2 DEF CompletedIsOver, Told
<1>7. FleetBounded'
  BY BoundsKept DEF Types
<1>. QED
  BY <1>3, <1>4, <1>5, <1>6, <1>7

\* A candidate is retained, or its instance goes.
LEMMA CandidateDoneOK ==
  ASSUME IInv, peak' = peak, kept, RemoveRetains \/ Terminate
  PROVE  IInv'
<1>. USE DEF IInv, kept, queueVars, configVars
<1>1. UNCHANGED <<job, news, box, work, stats, lifecycle>> /\ todo' \subseteq todo
      /\ pc \in {"remove", "terminate"} /\ pc' = "remove"
  BY DEF RemoveRetains, Terminate, Skip, fleetVars
<1>2. vm' = vm \/ vm' = [vm EXCEPT ![Candidate] = "gone"]
  BY DEF RemoveRetains, Terminate, Gone, SetVm, fleetVars
<1>3. DOMAIN vm' = Instance /\ \A i \in Instance : vm'[i] = vm[i] \/ vm'[i] = "gone"
  BY <1>2 DEF Types
<1>4. Types'
  BY <1>1, <1>3 DEF Types, Provider
<1>5. InMessage' /\ LaunchBounded'
  BY <1>1 DEF InMessage, LaunchBounded
<1>6. CandidatesAreRemovable'
  BY <1>1 DEF CandidatesAreRemovable, Removable
<1>7. AvailableIsAnnounced'
  BY <1>1 DEF AvailableIsAnnounced
<1>8. CompletedIsOver'
  BY <1>1, <1>3 DEF CompletedIsOver, Told
<1>9. FleetBounded'
  BY <1>3, BoundsKept DEF Types
<1>. QED
  BY <1>4, <1>5, <1>6, <1>7, <1>8, <1>9

LEMMA ReconcileOK == ASSUME IInv, Reconcile PROVE IInv'
<1>1. kept
  BY DEF Reconcile, kept
<1>2. CASE ListOwned
  <2>1. pc = "list"
    BY <1>2 DEF ListOwned
  <2>. QED
    BY <1>1, <1>2, <2>1, ListOwnedOK DEF Reconcile
<1>3. CASE \/ CreateFleet \/ Identify \/ Publish \/ MarkPublished
           \/ RemovalDone \/ RemoveRunner \/ RemoveRetains \/ Terminate
  <2>1. pc # "list"
    BY <1>3 DEF CreateFleet, Identify, Publish, MarkPublished, RemovalDone, RemoveRunner, RemoveRetains, Terminate
  <2>2. peak' = peak
    BY <2>1 DEF Reconcile
  <2>. QED
    BY <1>1, <1>3, <2>2, CreateFleetOK, ConfiguresOK, RemoveRunnerOK, CandidateDoneOK
<1>. QED
  BY <1>2, <1>3 DEF Reconcile

-----------------------------------------------------------------------------
\* The steps of GitHub and of the instances.

still == UNCHANGED <<providerVars, loopVars>>

\* What happens to the instances: none becomes owned, and what has ended
\* stays so.
Ageing ==
  /\ DOMAIN vm' = Instance /\ DOMAIN work' = Instance
  /\ \A i \in Instance : vm'[i] \notin {"free", "gone"} => vm[i] \notin {"free", "gone"}
  /\ \A i \in Instance : vm[i] \in {"ended", "gone"} => vm'[i] \in {"ended", "gone"} /\ work'[i] = work[i]

\* What happens to the jobs: none becomes available that is not announced, and
\* a completion is told of what has ended.
Telling ==
  /\ job' \in [Job -> JobState] /\ news' \in Events
  /\ news.avail \subseteq news'.avail
  /\ \A j \in Job : job'[j] = "available" => job[j] = "available" \/ j \in news'.avail
  /\ \A i \in Instance : i \in news'.completed => i \in news.completed \/ (vm'[i] = "ended" /\ work'[i] = 0)

LEMMA JobStepOK ==
  ASSUME IInv, still, box' = box, Ageing, Telling
  PROVE  IInv'
<1>. USE DEF IInv, still, Ageing, Telling, providerVars, runVars, loopVars, configVars
<1>1. Types'
  BY DEF Types
<1>2. InMessage' /\ CandidatesAreRemovable'
  BY DEF InMessage, CandidatesAreRemovable, Removable
<1>3. AvailableIsAnnounced'
  BY DEF AvailableIsAnnounced, Types
<1>4. CompletedIsOver'
  BY DEF CompletedIsOver, Told
<1>5. FleetBounded' /\ LaunchBounded'
  BY BoundsKept DEF Types
<1>. QED
  BY <1>1, <1>2, <1>3, <1>4, <1>5

\* The queue makes a message of what happened.
LEMMA MakeMessageOK == ASSUME IInv, MakeMessage, still PROVE IInv'
<1>. USE DEF IInv, MakeMessage, still, fleetVars, providerVars, runVars, loopVars, configVars
<1>. DEFINE m == [stats |-> Snapshot, events |-> news]
<1>1. box' = {m} /\ The(box') = m
  BY TheOnly
<1>2. m \in [stats : SomeStats, events : Events]
  <2>1. Snapshot \in SomeStats
    BY AssignedIsNat DEF Snapshot, SomeStats, Running
  <2>. QED
    BY <2>1 DEF Types
<1>3. news' \in Events /\ news'.avail = {} /\ news'.completed = {}
  BY DEF NoEvents, Events
<1>4. m.events = news
  OBVIOUS
<1>. HIDE DEF m
<1>5. Types'
  BY <1>1, <1>2, <1>3 DEF Types
<1>6. InMessage' /\ CandidatesAreRemovable'
  BY DEF InMessage, CandidatesAreRemovable, Removable
<1>7. AvailableIsAnnounced'
  BY <1>1, <1>4 DEF AvailableIsAnnounced
<1>8. CompletedIsOver'
  BY <1>1, <1>3, <1>4 DEF CompletedIsOver, Told
<1>9. FleetBounded' /\ LaunchBounded'
  BY BoundsKept DEF Types
<1>. QED
  BY <1>5, <1>6, <1>7, <1>8, <1>9

LEMMA EnvironmentOK == ASSUME IInv, Environment PROVE IInv'
<1>. USE DEF fleetVars
<1>1. still
  BY DEF Environment, still
<1>2. CASE MakeMessage
  BY <1>1, <1>2, MakeMessageOK
<1>3. CASE ExpireToken
  BY <1>1, <1>3, MoveOK DEF ExpireToken, still, providerVars, runVars, loopVars, configVars, seen
<1>4. ASSUME NEW j \in Job, QueueJob(j) \/ CancelJob(j) PROVE IInv'
  <2>1. UNCHANGED <<box, vm, work>>
    BY <1>4 DEF QueueJob, CancelJob
  <2>2. Ageing
    BY <2>1 DEF Ageing, IInv, Types
  <2>3. CASE QueueJob(j)
    <3>1. Telling
      BY <2>3 DEF Telling, QueueJob, SetJob, IInv, Types, JobState, Events
    <3>. QED
      BY <1>1, <2>1, <2>2, <3>1, JobStepOK
  <2>4. CASE CancelJob(j)
    <3>1. Telling
      BY <2>4 DEF Telling, CancelJob, SetJob, IInv, Types, JobState, Events
    <3>. QED
      BY <1>1, <2>1, <2>2, <3>1, JobStepOK
  <2>. QED
    BY <1>4, <2>3, <2>4
<1>5. ASSUME NEW i \in Instance, NEW j \in Job, StartJob(j, i) PROVE IInv'
  <2>1. UNCHANGED <<box, vm>> /\ vm[i] = "online" /\ work' = [work EXCEPT ![i] = j]
    BY <1>5 DEF StartJob
  <2>2. Ageing
    BY <2>1 DEF Ageing, IInv, Types
  <2>3. Telling
    <3>1. /\ job' \in [Job -> JobState]
          /\ \A k \in Job : job'[k] = "available" => job[k] = "available"
      BY <1>5 DEF StartJob, SetJob, IInv, Types, JobState
    <3>2. \/ news' = [news EXCEPT !.started = @ \cup {i}]
          \/ news' = [news EXCEPT !.other = TRUE]
      BY <1>5 DEF StartJob
    <3>3. news' \in Events /\ news'.avail = news.avail /\ news'.completed = news.completed
      <4>1. news \in Events
        BY DEF IInv, Types
      <4>2. CASE news' = [news EXCEPT !.started = @ \cup {i}]
        BY <4>1, <4>2 DEF Events
      <4>3. CASE news' = [news EXCEPT !.other = TRUE]
        BY <4>1, <4>3 DEF Events
      <4>. QED
        BY <3>2, <4>2, <4>3
    <3>. QED
      BY <3>1, <3>3 DEF Telling
  <2>. QED
    BY <1>1, <2>1, <2>2, <2>3, JobStepOK
<1>6. ASSUME NEW i \in Instance, FinishJob(i) PROVE IInv'
  <2>1. /\ box' = box /\ vm[i] = "online"
        /\ vm' = [vm EXCEPT ![i] = "ended"] /\ work' = [work EXCEPT ![i] = 0]
    BY <1>6 DEF FinishJob, SetVm
  <2>2. Ageing
    BY <2>1 DEF Ageing, IInv, Types
  <2>3. Telling
    <3>1. /\ job' \in [Job -> JobState]
          /\ \A k \in Job : job'[k] = "available" => job[k] = "available"
      BY <1>6 DEF FinishJob, SetJob, IInv, Types, JobState
    <3>2. news' \in Events /\ news'.avail = news.avail /\ news'.completed = news.completed \cup {i}
      BY <1>6 DEF FinishJob, IInv, Types, Events
    <3>. QED
      BY <2>1, <3>1, <3>2 DEF Telling, IInv, Types
  <2>. QED
    BY <1>1, <2>1, <2>2, <2>3, JobStepOK
<1>7. ASSUME NEW i \in Instance, Boot(i) \/ AgentEnds(i) \/ SelfTerminate(i) \/ Hang(i) PROVE IInv'
  <2>1. UNCHANGED <<job, news, box, work>>
    BY <1>7 DEF Boot, AgentEnds, SelfTerminate, Hang, queueVars
  <2>2. \E s \in {"online", "ended", "gone", "hung"} :
           /\ vm' = [vm EXCEPT ![i] = s]
           /\ vm[i] \in {"booting", "online"} \/ (vm[i] = "ended" /\ s = "gone")
    BY <1>7 DEF Boot, AgentEnds, SelfTerminate, Hang, Gone, SetVm
  <2>3. Ageing
    BY <2>1, <2>2 DEF Ageing, IInv, Types
  <2>4. Telling
    BY <2>1 DEF Telling, IInv, Types
  <2>. QED
    BY <1>1, <2>1, <2>3, <2>4, JobStepOK
<1>. QED
  BY <1>2, <1>3, <1>4, <1>5, <1>6, <1>7 DEF Environment, GitHubSide, InstanceSide

LEMMA NextOK == IInv /\ [Next]_vars => IInv'
<1>. SUFFICES ASSUME IInv, [Next]_vars PROVE IInv'
  OBVIOUS
<1>1. CASE Controller
  BY <1>1, MovesOK, ConnectOK, PollNothingOK, PollMessageOK, DeleteMessageOK, AcquireJobsOK,
     EndRunOK, ReplaceOK, ReconcileOK DEF Controller
<1>2. CASE ControllerFails
  <2>1. CASE ReconcileFails
    <3>1. kept /\ peak' = peak
      BY <2>1 DEF ReconcileFails, kept, loopVars
    <3>. QED
      BY <2>1, <3>1, ConfiguresOK DEF ReconcileFails
  <2>. QED
    BY <1>2, <2>1, MovesOK, RequestFailsOK, FatalErrorOK, StopOK DEF ControllerFails
<1>3. CASE ExpireSession
  BY <1>3, MovesOK
<1>4. CASE Environment
  BY <1>4, EnvironmentOK
<1>5. CASE UNCHANGED vars
  BY <1>5, MoveOK DEF vars, serviceVars, queueVars, fleetVars, providerVars, runVars, loopVars, configVars, seen
<1>. QED
  BY <1>1, <1>2, <1>3, <1>4, <1>5 DEF Next

-----------------------------------------------------------------------------
\* No available job is out of sight: it is announced in a message to come or
\* in one that is handled, unless its message was deleted and the acquisition
\* failed (reconciler.ts:195-197).
THEOREM JobsStayAnnounced == Spec => []AvailableIsAnnounced
<1>1. IInv => AvailableIsAnnounced
  BY DEF IInv
<1>. QED
  BY InitOK, NextOK, <1>1, PTL DEF Spec

\* Whatever fails and however often the controller starts again, it never owns
\* more than Surge runners above the most it wanted (provider.ts:96-108).
THEOREM FleetStaysBounded == Spec => []FleetBounded
<1>1. IInv => FleetBounded
  BY DEF IInv
<1>. QED
  BY InitOK, NextOK, <1>1, PTL DEF Spec

\* A removal ends no job that had begun when the statistics were taken, or
\* whose start was seen: with busy runners in the statistics only completed
\* runners are candidates, and those have no job.
LEMMA RemovalSparesBusy ==
  ASSUME IInv, Next, NEW i \in Instance,
         pc = "remove", pc' = "terminate", work[i] # 0, work'[i] = 0
  PROVE  i \notin The(stats).running /\ lifecycle[i] # "started"
<1>1. RemoveRunner \/ still
  BY DEF Next, Controller, ControllerFails, Environment, still, Reconcile, ReconcileFails,
     LoadCredentials, Authorize, ResolveScaleSet, RegisterScaleSet, CheckScaleSet, Beginning,
     StartFails, RegisterFails, ConnectFails, Connect, Refresh, PollNothing, PollMessage, DeleteMessage,
     AcquireJobs, EndRun, CloseSession, ExpireSession, Replace, RequestFails, FatalError, Stop,
     ListOwned, ListFails, CreateFleet, Identify, IdentifyFails, Publish, PublishFails, MarkPublished,
     RemovalDone, RemoveRetains, Terminate, Skip
<1>2. RemoveRunner
  BY <1>1 DEF still, providerVars
<1>3. todo # {} /\ todo \subseteq Instance /\ work' = [work EXCEPT ![Candidate] = 0]
  BY <1>2 DEF RemoveRunner, IInv, Types
<1>4. Candidate \in todo
  BY <1>3, MaxOfIn DEF Candidate
<1>5. i = Candidate
  BY <1>3, <1>4 DEF IInv, Types
<1>6. Removable(i)
  BY <1>4, <1>5 DEF IInv, CandidatesAreRemovable
<1>7. lifecycle[i] # "completed"
  BY DEF IInv, CompletedIsOver, Told
<1>8. lifecycle[i] = "unknown" /\ BusyRunners(The(stats)) = 0
  BY <1>6, <1>7 DEF Removable
<1>9. The(stats).running = {}
  <2>1. PICK s \in SomeStats : The(stats) = s
    BY TheOnly DEF IInv, Types, Provider
  <2>2. IsFiniteSet(s.running)
    BY ServiceAssumption, FS_Subset DEF SomeStats
  <2>. QED
    BY <1>8, <2>1, <2>2, FS_EmptySet DEF BusyRunners
<1>. QED
  BY <1>8, <1>9

THEOREM BusyRunnersAreSpared == Spec => BusyIsSpared
<1>1. IInv /\ [Next]_vars =>
        [\A i \in Instance :
           pc = "remove" /\ pc' = "terminate" /\ work[i] # 0 /\ work'[i] = 0
             => i \notin The(stats).running /\ lifecycle[i] # "started"]_vars
  BY RemovalSparesBusy
<1>. QED
  BY InitOK, NextOK, <1>1, PTL DEF Spec, BusyIsSpared

-----------------------------------------------------------------------------
\* The types, on top of the invariant above: first the flags of the controller
\* and what it holds of the service.

Phase == Provider \cup {"down", "failed", "authorize", "resolve", "register", "check", "connect", "poll",
                        "delete", "acquire", "close"}

\* A session is only held for a scale set that has its labels.
Labelled == pc \in Provider \cup {"connect", "poll", "delete", "acquire"} => scaleSet = "labelled"

Flags ==
  /\ pc \in Phase
  /\ session \in BOOLEAN /\ token \in BOOLEAN /\ failed \in BOOLEAN /\ others \in BOOLEAN
  /\ scaleSet \in {"none", "unlabelled", "labelled"}
  /\ faults \in 0 .. MaxFaults /\ dropped \subseteq Job

TagState == {"provisioning", "publishing", "published"}
VmState == {"free", "booting", "online", "ended", "hung", "gone"}
FleetTypes ==
  /\ vm \in [Instance -> VmState]
  /\ tag \in [Instance -> TagState]
  /\ param \in [Instance -> BOOLEAN] /\ reg \in [Instance -> BOOLEAN]
  /\ work \in [Instance -> Job \cup {0}]

LifecycleTypes == lifecycle \in [Instance -> {"unknown", "started", "completed"}]

LEMMA FaultsStay == ASSUME faults \in 0 .. MaxFaults, Fault PROVE faults' \in 0 .. MaxFaults
BY ServiceAssumption DEF Fault

LEMMA FlagsOfLoop ==
  ASSUME Flags, Labelled, IInv, Controller
  PROVE  Flags' /\ Labelled'
<1>. USE DEF Flags, Labelled, Phase, Provider, serviceVars, queueVars, fleetVars, providerVars, runVars, loopVars, configVars
<1>1. CASE LoadCredentials \/ Authorize \/ ResolveScaleSet \/ RegisterScaleSet \/ CheckScaleSet
  BY <1>1 DEF LoadCredentials, Authorize, ResolveScaleSet, RegisterScaleSet, CheckScaleSet, Beginning
<1>2. CASE Connect
  BY <1>2, FaultsStay DEF Connect
<1>3. CASE Refresh \/ PollNothing \/ PollMessage
  BY <1>3 DEF Refresh, PollNothing, PollMessage, DropSession, NoRun
<1>4. CASE DeleteMessage \/ AcquireJobs
  BY <1>4 DEF DeleteMessage, AcquireJobs
<1>5. CASE EndRun \/ Replace
  BY <1>5 DEF EndRun, Replace, DropSession, NoRun
<1>6. CASE CloseSession
  BY <1>6, FaultsStay DEF CloseSession
<1>7. CASE Reconcile
  <2>1. UNCHANGED <<session, token, scaleSet, others, dropped>>
    BY <1>7 DEF Reconcile, ListOwned, CreateFleet, Identify, Publish, MarkPublished, RemovalDone, RemoveRunner,
         RemoveRetains, Terminate
  <2>2. pc \in Provider /\ pc' \in Provider
    BY <1>7 DEF Reconcile, ListOwned, BeginRun, CreateFleet, Identify, Publish, MarkPublished, RemovalDone,
         RemoveRunner, RemoveRetains, Terminate, Configured, Skip
  <2>3. failed' \in BOOLEAN
    <3>1. CASE CreateFleet
      <4>1. PICK n \in 0 .. count : failed' = (n < count)
        BY <3>1 DEF CreateFleet
      <4>. QED
        BY <4>1
    <3>2. CASE ListOwned
      BY <3>2 DEF ListOwned, BeginRun
    <3>3. CASE Identify \/ Publish \/ MarkPublished \/ RemovalDone \/ RemoveRunner \/ RemoveRetains \/ Terminate
      <4>1. failed' = failed \/ failed' = TRUE
        BY <3>3 DEF Identify, Publish, MarkPublished, RemovalDone, RemoveRunner, RemoveRetains, Terminate
      <4>. QED
        BY <4>1
    <3>. QED
      BY <1>7, <3>1, <3>2, <3>3 DEF Reconcile
  <2>4. faults' = faults \/ Fault
    BY <1>7 DEF Reconcile, ListOwned, BeginRun, CreateFleet, Identify, Publish, MarkPublished, RemovalDone,
         RemoveRunner, RemoveRetains, Terminate
  <2>. QED
    BY <2>1, <2>2, <2>3, <2>4, FaultsStay
<1>. QED
  BY <1>1, <1>2, <1>3, <1>4, <1>5, <1>6, <1>7 DEF Controller

LEMMA FlagsOfFailures ==
  ASSUME Flags, Labelled, IInv, ControllerFails \/ ExpireSession
  PROVE  Flags' /\ Labelled'
<1>. USE DEF Flags, Labelled, Phase, Provider, serviceVars, queueVars, fleetVars, providerVars, runVars, loopVars, configVars
<1>1. CASE StartFails \/ RegisterFails
  BY <1>1, FaultsStay DEF StartFails, RegisterFails, Beginning
<1>2. CASE ConnectFails
  BY <1>2, FaultsStay DEF ConnectFails
<1>3. ASSUME pc \in {"delete", "acquire"} PROVE The(msg).avail \subseteq Job
  <2>1. PICK e \in Events : msg = {e}
    BY <1>3 DEF IInv, Types, InMessage
  <2>. QED
    BY <2>1, TheOnly DEF Events
<1>4. CASE RequestFails
  BY <1>3, <1>4, FaultsStay DEF RequestFails, DropSession, NoRun, Unacquired
<1>5. CASE FatalError
  BY <1>3, <1>5, FaultsStay DEF FatalError, NoRun, Unacquired
<1>6. CASE Stop
  BY <1>3, <1>6, FaultsStay DEF Stop, NoRun, Unacquired
<1>7. CASE ReconcileFails
  <2>1. UNCHANGED <<session, token, scaleSet, others, dropped>>
    BY <1>7 DEF ReconcileFails, ListFails, IdentifyFails, PublishFails
  <2>2. pc \in Provider /\ pc' \in Provider /\ failed' = TRUE
    BY <1>7 DEF ReconcileFails, ListFails, IdentifyFails, PublishFails, Configured
  <2>3. Fault \/ (faults > 1 /\ faults' = faults - 2)
    BY <1>7 DEF ReconcileFails, ListFails, IdentifyFails, PublishFails
  <2>4. faults' \in 0 .. MaxFaults
    BY <2>3, ServiceAssumption DEF Fault
  <2>. QED
    BY <2>1, <2>2, <2>4
<1>8. CASE ExpireSession
  BY <1>8 DEF ExpireSession
<1>. QED
  BY <1>1, <1>2, <1>4, <1>5, <1>6, <1>7, <1>8 DEF ControllerFails

LEMMA FlagsOfOthers ==
  ASSUME Flags, Labelled, Environment \/ UNCHANGED vars
  PROVE  Flags' /\ Labelled'
<1>. USE DEF Flags, Labelled, Phase, Provider, serviceVars, queueVars, fleetVars, providerVars, runVars, loopVars, configVars
<1>1. CASE Environment
  <2>1. UNCHANGED <<pc, failed, others, scaleSet, dropped, session>>
    BY <1>1 DEF Environment, GitHubSide, InstanceSide, MakeMessage, FinishJob, StartJob, Boot, AgentEnds,
         SelfTerminate, ExpireToken, QueueJob, CancelJob, Hang
  <2>2. token' \in BOOLEAN /\ (faults' = faults \/ Fault)
    BY <1>1 DEF Environment, GitHubSide, InstanceSide, MakeMessage, FinishJob, StartJob, Boot, AgentEnds,
         SelfTerminate, ExpireToken, QueueJob, CancelJob, Hang
  <2>. QED
    BY <2>1, <2>2, FaultsStay
<1>2. CASE UNCHANGED vars
  BY <1>2 DEF vars
<1>. QED
  BY <1>1, <1>2

-----------------------------------------------------------------------------
\* An instance, and what is kept of it, changes at one place at a time; only
\* a launch takes several.
OneWritten(f, g, S) == g = f \/ \E i, s : s \in S /\ g = [f EXCEPT ![i] = s]

LEMMA OneWrittenTyped ==
  ASSUME NEW D, NEW S, NEW f \in [D -> S], NEW g, OneWritten(f, g, S)
  PROVE  g \in [D -> S]
BY DEF OneWritten

Written ==
  /\ OneWritten(vm, vm', VmState) \/ \E S : Launch(S)
  /\ OneWritten(tag, tag', TagState)
  /\ OneWritten(param, param', BOOLEAN) /\ OneWritten(reg, reg', BOOLEAN)
  /\ OneWritten(work, work', Job \cup {0})

LEMMA FleetTyped == ASSUME FleetTypes, Written PROVE FleetTypes'
<1>1. vm' \in [Instance -> VmState]
  <2>1. CASE OneWritten(vm, vm', VmState)
    BY <2>1, OneWrittenTyped DEF FleetTypes
  <2>2. CASE \E S : Launch(S)
    BY <2>2 DEF FleetTypes, Launch, VmState
  <2>. QED
    BY <2>1, <2>2 DEF Written
<1>2. tag' \in [Instance -> TagState] /\ work' \in [Instance -> Job \cup {0}]
  BY OneWrittenTyped DEF FleetTypes, Written
<1>3. param' \in [Instance -> BOOLEAN] /\ reg' \in [Instance -> BOOLEAN]
  BY OneWrittenTyped, Zenon DEF FleetTypes, Written
<1>. QED
  BY <1>1, <1>2, <1>3 DEF FleetTypes

LEMMA WrittenBySame == ASSUME UNCHANGED fleetVars PROVE Written
BY DEF fleetVars, Written, OneWritten

LEMMA WrittenByProvider ==
  ASSUME Reconcile \/ ReconcileFails
  PROVE  Written
<1>. USE DEF Written, OneWritten, VmState, TagState, fleetVars, serviceVars
<1>1. CASE ListOwned \/ ListFails \/ RemovalDone \/ RemoveRetains
  BY <1>1 DEF ListOwned, ListFails, RemovalDone, RemoveRetains
<1>2. CASE CreateFleet
  BY <1>2 DEF CreateFleet
<1>3. CASE Identify
  BY <1>3 DEF Identify, GenerateJit
<1>4. CASE IdentifyFails
  BY <1>4 DEF IdentifyFails, SetVm
<1>5. CASE Publish
  BY <1>5 DEF Publish
<1>6. CASE PublishFails
  BY <1>6 DEF PublishFails
<1>7. CASE MarkPublished
  BY <1>7 DEF MarkPublished
<1>8. CASE RemoveRunner
  BY <1>8 DEF RemoveRunner
<1>9. CASE Terminate
  BY <1>9 DEF Terminate, Gone, SetVm
<1>. QED
  BY <1>1, <1>2, <1>3, <1>4, <1>5, <1>6, <1>7, <1>8, <1>9 DEF Reconcile, ReconcileFails

LEMMA WrittenByOthers ==
  ASSUME Environment
  PROVE  Written
<1>. USE DEF Written, OneWritten, VmState, TagState, SetVm
<1>1. CASE MakeMessage \/ ExpireToken \/ \E j \in Job : QueueJob(j) \/ CancelJob(j)
  BY <1>1, WrittenBySame DEF MakeMessage, ExpireToken, QueueJob, CancelJob
<1>2. ASSUME NEW i \in Instance, NEW j \in Job, StartJob(j, i) PROVE Written
  BY <1>2 DEF StartJob
<1>3. ASSUME NEW i \in Instance, FinishJob(i) PROVE Written
  BY <1>3 DEF FinishJob
<1>4. ASSUME NEW i \in Instance, Boot(i) \/ AgentEnds(i) \/ Hang(i) PROVE Written
  BY <1>4 DEF Boot, AgentEnds, Hang
<1>5. ASSUME NEW i \in Instance, SelfTerminate(i) PROVE Written
  BY <1>5 DEF SelfTerminate, Gone
<1>. QED
  BY <1>1, <1>2, <1>3, <1>4, <1>5 DEF Environment, GitHubSide, InstanceSide

LEMMA FleetTypesOK == ASSUME FleetTypes, Next PROVE FleetTypes'
<1>1. CASE Reconcile \/ ReconcileFails
  BY <1>1, WrittenByProvider, FleetTyped
<1>2. CASE Environment
  BY <1>2, WrittenByOthers, FleetTyped
<1>3. CASE Stop
  BY <1>3, FleetTyped DEF Stop, Written, OneWritten
<1>4. CASE ExpireSession \/ (Controller /\ ~Reconcile) \/ (ControllerFails /\ ~ReconcileFails /\ ~Stop)
  <2>1. UNCHANGED fleetVars
    BY <1>4 DEF ExpireSession, Controller, ControllerFails, LoadCredentials, Authorize, ResolveScaleSet,
         RegisterScaleSet, CheckScaleSet, Beginning, StartFails, RegisterFails, ConnectFails, Connect, Refresh,
         PollNothing, PollMessage, DeleteMessage, AcquireJobs, EndRun, CloseSession, Replace, RequestFails,
         FatalError, serviceVars
  <2>. QED
    BY <2>1, WrittenBySame, FleetTyped
<1>. QED
  BY <1>1, <1>2, <1>3, <1>4 DEF Next, Controller, ControllerFails

\* The events told of the runners, and what is kept of them.
LEMMA LifecycleOK == ASSUME LifecycleTypes, Next PROVE LifecycleTypes'
<1>. USE DEF LifecycleTypes
<1>1. lifecycle' = lifecycle \/ Forget \/ EndRun \/ \E e : Observe(e)
  BY DEF Next, Controller, ControllerFails, Environment, Reconcile, ReconcileFails, providerVars, serviceVars,
     LoadCredentials, Authorize, ResolveScaleSet, RegisterScaleSet, CheckScaleSet, Beginning,
     StartFails, RegisterFails, ConnectFails, Connect, Refresh, PollNothing, PollMessage, DeleteMessage,
     AcquireJobs, CloseSession, ExpireSession, Replace, RequestFails, FatalError, Stop,
     ListOwned, ListFails, CreateFleet, Identify, IdentifyFails, Publish, PublishFails, MarkPublished,
     RemovalDone, RemoveRunner, RemoveRetains, Terminate
<1>2. CASE Forget
  BY <1>2 DEF Forget
<1>3. CASE EndRun
  BY <1>3 DEF EndRun
<1>4. CASE \E e : Observe(e)
  BY <1>4 DEF Observe
<1>. QED
  BY <1>1, <1>2, <1>3, <1>4

-----------------------------------------------------------------------------
\* What is asked for stays within the configuration and the number of jobs.
Bounds ==
  /\ min \in 0 .. MaxRunners /\ peak \in 0 .. MaxRunners + Cardinality(Job)
  /\ stats # {} => The(stats).assigned <= Cardinality(Job)
  /\ box # {} => The(box).stats.assigned <= Cardinality(Job)

LEMMA JobsFinite == Cardinality(Job) \in Nat /\ Cardinality(Instance) \in Nat
BY ServiceAssumption, FS_CardinalityType

LEMMA SnapshotBounded == Snapshot.assigned <= Cardinality(Job)
<1>1. Assigned \in SUBSET Job
  BY DEF Assigned
<1>. QED
  BY <1>1, ServiceAssumption, FS_Subset DEF Snapshot

LEMMA DesiredBounded ==
  ASSUME IInv, Bounds, stats # {}
  PROVE  Desired \in 0 .. MaxRunners + Cardinality(Job)
<1>1. PICK s \in SomeStats : The(stats) = s
  BY TheOnly DEF IInv, Types
<1>2. s.assigned \in Nat /\ s.assigned <= Cardinality(Job) /\ min \in Nat
  BY <1>1, ServiceAssumption DEF SomeStats, Bounds
<1>. QED
  BY <1>1, <1>2, JobsFinite, ServiceAssumption DEF Desired, DesiredFor, Most, Least

LEMMA BoundsOK == ASSUME IInv, Bounds, [Next]_vars PROVE Bounds'
<1>. USE DEF serviceVars, queueVars, providerVars, loopVars, configVars
<1>1. min' = min
  BY DEF Next, Controller, ControllerFails, Environment, Reconcile, ReconcileFails, vars,
     LoadCredentials, Authorize, ResolveScaleSet, RegisterScaleSet, CheckScaleSet, Beginning,
     StartFails, RegisterFails, ConnectFails, Connect, Refresh, PollNothing, PollMessage, DeleteMessage,
     AcquireJobs, EndRun, CloseSession, ExpireSession, Replace, RequestFails, FatalError, Stop
<1>2. stats' = stats \/ stats' = {} \/ stats' = {Snapshot} \/ (box # {} /\ stats' = {The(box).stats})
  BY DEF Next, Controller, ControllerFails, Environment, Reconcile, ReconcileFails, vars, DropSession,
     LoadCredentials, Authorize, ResolveScaleSet, RegisterScaleSet, CheckScaleSet, Beginning,
     StartFails, RegisterFails, ConnectFails, Connect, Refresh, PollNothing, PollMessage, DeleteMessage,
     AcquireJobs, EndRun, CloseSession, ExpireSession, Replace, RequestFails, FatalError, Stop,
     ListOwned, ListFails, CreateFleet, Identify, IdentifyFails, Publish, PublishFails, MarkPublished,
     RemovalDone, RemoveRunner, RemoveRetains, Terminate
<1>3. box' = box \/ box' = {} \/ \E e : box' = {[stats |-> Snapshot, events |-> e]}
  BY DEF Next, Controller, ControllerFails, Environment, Reconcile, ReconcileFails, vars, DropSession,
     GitHubSide, InstanceSide, MakeMessage, FinishJob, StartJob, Boot, AgentEnds,
     SelfTerminate, ExpireToken, QueueJob, CancelJob, Hang,
     LoadCredentials, Authorize, ResolveScaleSet, RegisterScaleSet, CheckScaleSet, Beginning,
     StartFails, RegisterFails, ConnectFails, Connect, Refresh, PollNothing, PollMessage, DeleteMessage,
     AcquireJobs, EndRun, CloseSession, ExpireSession, Replace, RequestFails, FatalError, Stop,
     ListOwned, ListFails, CreateFleet, Identify, IdentifyFails, Publish, PublishFails, MarkPublished,
     RemovalDone, RemoveRunner, RemoveRetains, Terminate
<1>4. peak' = peak \/ (stats # {} /\ peak' = Most(peak, Desired))
  <2>1. CASE Reconcile
    BY <2>1 DEF Reconcile, IInv, Types, Provider
  <2>2. CASE ~Reconcile
    BY <2>2 DEF Next, Controller, ControllerFails, Environment, ReconcileFails, vars,
       LoadCredentials, Authorize, ResolveScaleSet, RegisterScaleSet, CheckScaleSet, Beginning,
       StartFails, RegisterFails, ConnectFails, Connect, Refresh, PollNothing, PollMessage, DeleteMessage,
       AcquireJobs, EndRun, CloseSession, ExpireSession, Replace, RequestFails, FatalError, Stop
  <2>. QED
    BY <2>1, <2>2
<1>5. min' \in 0 .. MaxRunners /\ peak' \in 0 .. MaxRunners + Cardinality(Job)
  BY <1>1, <1>4, DesiredBounded DEF Bounds, Most
<1>6. stats' # {} => The(stats').assigned <= Cardinality(Job)
  BY <1>2, TheOnly, SnapshotBounded DEF Bounds
<1>7. box' # {} => The(box').stats.assigned <= Cardinality(Job)
  <2>1. ASSUME NEW e, box' = {[stats |-> Snapshot, events |-> e]} PROVE The(box').stats = Snapshot
    <3>. DEFINE m == [stats |-> Snapshot, events |-> e]
    <3>1. m.stats = Snapshot
      OBVIOUS
    <3>2. box' = {m}
      BY <2>1
    <3>. HIDE DEF m
    <3>. QED
      BY <3>1, <3>2, TheOnly
  <2>. QED
    BY <1>3, <2>1, TheOnly, SnapshotBounded DEF Bounds
<1>. QED
  BY <1>5, <1>6, <1>7 DEF Bounds

-----------------------------------------------------------------------------
\* What the run in hand counts.
FreeOnes == {i \in Instance : vm[i] = "free"}
Configuring == {"identify", "publish", "mark"}

Counts ==
  /\ count \in 0 .. MaxRunners + Cardinality(Job) + Cardinality(Instance)
  /\ current \in 0 .. Cardinality(Instance)
  /\ pc = "create" => current + Cardinality(FreeOnes) <= Cardinality(Instance)
  /\ pc \in Configuring => todo # {}
  /\ pc = "terminate" => todo # {} /\ count > 0
  /\ pc \in Configuring \cup {"remove", "terminate"} => Cardinality(todo) <= current

LEMMA SizeOf ==
  ASSUME NEW S, S \subseteq Instance
  PROVE  IsFiniteSet(S) /\ Cardinality(S) \in 0 .. Cardinality(Instance)
<1>1. IsFiniteSet(S) /\ Cardinality(S) <= Cardinality(Instance)
  BY ServiceAssumption, FS_Subset
<1>. QED
  BY <1>1, FS_CardinalityType, JobsFinite

LEMMA FreeShrinks ==
  ASSUME \A i \in Instance : vm'[i] = "free" => vm[i] = "free"
  PROVE  Cardinality(FreeOnes') <= Cardinality(FreeOnes)
<1>1. FreeOnes' \subseteq FreeOnes /\ FreeOnes \subseteq Instance
  BY DEF FreeOnes
<1>. QED
  BY <1>1, SizeOf, FS_Subset

\* A step that leaves the counts alone, or starts them anew.
LEMMA CountsStay ==
  ASSUME Counts, UNCHANGED runVars, \A i \in Instance : vm'[i] = "free" => vm[i] = "free",
         pc' = pc \/ pc' \notin Configuring \cup {"create", "remove", "terminate"}
  PROVE  Counts'
<1>1. Cardinality(FreeOnes') <= Cardinality(FreeOnes)
  BY FreeShrinks
<1>2. Cardinality(FreeOnes) \in Nat /\ Cardinality(FreeOnes') \in Nat
  <2>1. FreeOnes \subseteq Instance /\ FreeOnes' \subseteq Instance
    BY DEF FreeOnes
  <2>. QED
    BY <2>1, SizeOf, JobsFinite
<1>3. current \in Nat /\ Cardinality(Instance) \in Nat
  BY JobsFinite DEF Counts
<1>. HIDE DEF FreeOnes
<1>. QED
  BY <1>1, <1>2, <1>3 DEF Counts, runVars

LEMMA CountsGone ==
  ASSUME count' = 0 \/ count' = count, current' = 0 \/ current' = current, Counts,
         pc' \notin Configuring \cup {"create", "remove", "terminate"}
  PROVE  Counts'
BY JobsFinite, ServiceAssumption DEF Counts

-----------------------------------------------------------------------------
LEMMA LeastExists ==
  ASSUME NEW S \in SUBSET Nat, S # {}
  PROVE  \E x \in S : \A y \in S : x <= y
<1>1. PICK x \in S : \A y \in S : ~(<<y, x>> \in OpToRel(<, Nat))
  BY NatLessThanWellFounded, WFMin
<1>2. ASSUME NEW y \in S PROVE x <= y
  <2>1. ~(y < x)
    BY <1>1 DEF OpToRel
  <2>. QED
    BY <2>1
<1>. QED
  BY <1>2

LEMMA NextIn == ASSUME todo \subseteq Instance, todo # {} PROVE Next1 \in todo
<1>1. \E x \in todo : \A y \in todo : x <= y
  BY LeastExists, ServiceAssumption
<1>. QED
  BY <1>1 DEF Next1, MinOf

\* One instance less is left to do.
LEMMA OneLess ==
  ASSUME NEW S, S \subseteq Instance, NEW i \in S
  PROVE  Cardinality(S \ {i}) = Cardinality(S) - 1 /\ Cardinality(S) \in Nat /\ Cardinality(S) > 0
         /\ S \ {i} \subseteq Instance
<1>1. IsFiniteSet(S) /\ Cardinality(S) \in Nat
  BY SizeOf, JobsFinite
<1>2. Cardinality(S \ {i}) = Cardinality(S) - 1
  BY <1>1, FS_RemoveElement
<1>3. Cardinality(S \ {i}) \in Nat
  BY SizeOf, JobsFinite
<1>. QED
  BY <1>1, <1>2, <1>3

\* An instance is configured, or given up.
LEMMA CountsConfigured ==
  ASSUME IInv, Counts, pc \in Configuring, Configured(Next1), count' = count,
         current' = current \/ current' = current - 1
  PROVE  Counts'
<1>1. todo \subseteq Instance /\ Next1 \in todo
  BY NextIn DEF IInv, Types, Counts, Configuring
<1>2. Cardinality(todo \ {Next1}) = Cardinality(todo) - 1 /\ Cardinality(todo) \in Nat /\ Cardinality(todo) > 0
  BY <1>1, OneLess
<1>3. current \in 0 .. Cardinality(Instance) /\ Cardinality(todo) <= current /\ Cardinality(Instance) \in Nat
  BY JobsFinite DEF Counts, Configuring
<1>4. /\ pc' = "end" \/ (pc' = "identify" /\ todo # {Next1})
      /\ todo' = todo \ {Next1}
  BY DEF Configured
<1>5. pc' = "identify" => todo' # {}
  BY <1>1, <1>4
<1>6. current' \in 0 .. Cardinality(Instance) /\ Cardinality(todo') <= current'
  BY <1>2, <1>3 DEF Configured
<1>. HIDE DEF Next1, Configured
<1>. QED
  BY <1>4, <1>5, <1>6 DEF Counts, Configuring

LEMMA CountsOfConfiguration ==
  ASSUME IInv, Counts, Identify \/ IdentifyFails \/ Publish \/ PublishFails \/ MarkPublished
  PROVE  Counts'
<1>1. CASE Identify \/ Publish
  BY <1>1 DEF Identify, Publish, Counts, Configuring, runVars
<1>2. CASE IdentifyFails \/ PublishFails \/ MarkPublished
  BY <1>2, CountsConfigured DEF IdentifyFails, PublishFails, MarkPublished, Configuring
<1>. QED
  BY <1>1, <1>2

LEMMA CountsOfRemoval ==
  ASSUME IInv, Counts, RemovalDone \/ RemoveRunner \/ RemoveRetains \/ Terminate
  PROVE  Counts'
<1>1. todo \subseteq Instance /\ current \in 0 .. Cardinality(Instance) /\ Cardinality(Instance) \in Nat
  BY JobsFinite DEF IInv, Types, Counts
<1>2. CASE RemovalDone
  BY <1>2, CountsGone DEF RemovalDone, Configuring
<1>3. CASE RemoveRunner
  BY <1>3 DEF RemoveRunner, Counts, Configuring, runVars
<1>4. CASE RemoveRetains \/ Terminate
  <2>1. todo # {} /\ count > 0 /\ pc \in {"remove", "terminate"} /\ pc' = "remove"
    BY <1>4 DEF RemoveRetains, Terminate, Counts, Skip
  <2>2. Candidate \in todo
    BY <1>1, <2>1, MaxOfIn DEF Candidate
  <2>3. Cardinality(todo \ {Candidate}) = Cardinality(todo) - 1 /\ Cardinality(todo) \in Nat /\ Cardinality(todo) > 0
    BY <1>1, <2>2, OneLess
  <2>4. todo' = todo \ {Candidate}
    BY <1>4 DEF RemoveRetains, Terminate, Skip
  <2>5. \/ current' = current /\ count' = count
        \/ current' = current - 1 /\ count' = count - 1
    BY <1>4 DEF RemoveRetains, Terminate
  <2>6. Cardinality(todo) <= current /\ count \in 0 .. MaxRunners + Cardinality(Job) + Cardinality(Instance)
    BY <2>1 DEF Counts
  <2>7. current' \in 0 .. Cardinality(Instance) /\ Cardinality(todo') <= current'
        /\ count' \in 0 .. MaxRunners + Cardinality(Job) + Cardinality(Instance)
    BY <1>1, <2>1, <2>3, <2>4, <2>5, <2>6, JobsFinite, ServiceAssumption
  <2>. QED
    BY <2>1, <2>7 DEF Counts, Configuring
<1>. QED
  BY <1>2, <1>3, <1>4

LEMMA CountsOfFleet == ASSUME IInv, Counts, CreateFleet PROVE Counts'
<1>1. count \in Nat /\ FreeOnes \subseteq Instance
  BY DEF IInv, LaunchBounded, CreateFleet, FreeOnes
<1>2. PICK n \in 0 .. count : /\ todo' = Fresh(n) /\ current' = current + Cardinality(Fresh(n)) /\ count' = 0
                              /\ pc' = IF Fresh(n) = {} THEN "end" ELSE "identify"
  BY DEF CreateFleet
<1>3. Fresh(n) \subseteq FreeOnes
  BY <1>1, FreshBounded DEF FreeOnes
<1>4. Cardinality(FreeOnes) \in Nat /\ Cardinality(Fresh(n)) \in Nat /\ Cardinality(Fresh(n)) <= Cardinality(FreeOnes)
  <2>1. IsFiniteSet(FreeOnes) /\ Cardinality(FreeOnes) \in Nat
    BY <1>1, SizeOf, JobsFinite
  <2>2. Cardinality(Fresh(n)) \in Nat
    BY <1>1, <1>3, SizeOf, JobsFinite
  <2>. QED
    BY <1>3, <2>1, <2>2, FS_Subset
<1>5. current \in 0 .. Cardinality(Instance) /\ current + Cardinality(FreeOnes) <= Cardinality(Instance)
      /\ Cardinality(Instance) \in Nat
  BY JobsFinite DEF Counts, CreateFleet
<1>6. current' \in 0 .. Cardinality(Instance) /\ Cardinality(todo') <= current'
  BY <1>2, <1>4, <1>5
<1>7. pc' # "end" => pc' = "identify" /\ todo' # {}
  BY <1>2
<1>. QED
  BY <1>2, <1>6, <1>7, JobsFinite, ServiceAssumption DEF Counts, Configuring

LEMMA CountsOfList == ASSUME IInv, Bounds, Counts, ListOwned PROVE Counts'
<1>1. stats # {} /\ Desired \in 0 .. MaxRunners + Cardinality(Job) /\ Desired \in Nat /\ MaxRunners + Cardinality(Job) \in Nat
  <2>1. stats # {}
    BY DEF IInv, Types, ListOwned, Provider
  <2>. QED
    BY <2>1, DesiredBounded, JobsFinite, ServiceAssumption
<1>2. ServingCapacity \subseteq Owned /\ Owned \subseteq Instance /\ FreeOnes \subseteq Instance
  BY DEF ServingCapacity, Owned, FreeOnes
<1>3. IsFiniteSet(Owned) /\ Cardinality(Owned) \in 0 .. Cardinality(Instance) /\ Cardinality(Instance) \in Nat
  BY <1>2, SizeOf, JobsFinite
<1>4. ServingCapacity \subseteq Instance /\ Cardinality(ServingCapacity) \in Nat
      /\ Cardinality(ServingCapacity) <= Cardinality(Owned)
  <2>1. Cardinality(ServingCapacity) \in Nat
    BY <1>2, SizeOf, JobsFinite
  <2>. QED
    BY <1>2, <1>3, <2>1, FS_Subset
<1>5. FreeOnes' = FreeOnes /\ Cardinality(Owned) + Cardinality(FreeOnes) <= Cardinality(Instance)
  <2>1. IsFiniteSet(FreeOnes) /\ Cardinality(FreeOnes) \in Nat
    BY <1>2, SizeOf, JobsFinite
  <2>2. Owned \cap FreeOnes = {}
    BY DEF Owned, FreeOnes
  <2>3. Cardinality(Owned \cup FreeOnes) = Cardinality(Owned) + Cardinality(FreeOnes) - Cardinality(Owned \cap FreeOnes)
    BY <1>3, <2>1, FS_Union
  <2>4. Cardinality(Owned \cap FreeOnes) = 0
    BY <2>2, FS_EmptySet
  <2>5. Cardinality(Owned \cup FreeOnes) <= Cardinality(Instance)
    BY <1>2, SizeOf
  <2>6. FreeOnes' = FreeOnes
    BY DEF ListOwned, FreeOnes, serviceVars, fleetVars
  <2>. QED
    BY <1>3, <2>1, <2>3, <2>4, <2>5, <2>6
<1>6. Deficit \in Int /\ Deficit <= Desired /\ 0 - Deficit <= Cardinality(ServingCapacity)
  BY <1>1, <1>4 DEF Deficit
<1>7. CASE LaunchCount(Deficit) > 0 /\ BeginRun("create", {}, LaunchCount(Deficit))
  <2>1. LaunchCount(Deficit) \in Nat /\ LaunchCount(Deficit) <= Desired
    <3>1. LaunchCount(Deficit) \in Nat
      BY <1>1, <1>7, LaunchCountBounded DEF IInv
    <3>2. LaunchCount(Deficit) <= Deficit
      <4>1. Most(0, Desired + Surge - Cardinality(Owned)) \in Int
        BY <1>1, <1>3, ProviderAssumption DEF Most
      <4>. QED
        BY <1>6, <4>1 DEF LaunchCount, Least
    <3>. QED
      BY <1>1, <1>6, <3>1, <3>2
  <2>. QED
    BY <1>1, <1>3, <1>5, <1>7, <2>1 DEF BeginRun, Counts, Configuring
<1>8. CASE Deficit < 0 /\ BeginRun("remove", {i \in ServingCapacity : Removable(i)}, 0 - Deficit)
  <2>1. todo' \subseteq ServingCapacity /\ pc' = "remove" /\ current' = Cardinality(Owned) /\ count' = 0 - Deficit
    BY <1>8 DEF BeginRun
  <2>2. Cardinality(todo') <= Cardinality(ServingCapacity) /\ Cardinality(todo') \in Nat
    BY <1>4, <2>1, SizeOf, JobsFinite, FS_Subset
  <2>3. count' \in 0 .. MaxRunners + Cardinality(Job) + Cardinality(Instance)
    BY <1>1, <1>3, <1>4, <1>6, <1>8, <2>1
  <2>. QED
    BY <1>3, <1>4, <2>1, <2>2, <2>3 DEF Counts, Configuring
<1>9. CASE BeginRun("end", {}, 0)
  BY <1>1, <1>3, <1>9 DEF BeginRun, Counts, Configuring
<1>. QED
  BY <1>7, <1>8, <1>9 DEF ListOwned

LEMMA CountsOK == ASSUME IInv, Bounds, Counts, [Next]_vars PROVE Counts'
<1>. USE DEF Configuring
<1>1. CASE Reconcile
  BY <1>1, CountsOfConfiguration, CountsOfRemoval, CountsOfFleet, CountsOfList DEF Reconcile
<1>2. CASE ReconcileFails
  BY <1>2, CountsOfConfiguration, CountsGone DEF ReconcileFails, ListFails
<1>3. CASE PollNothing \/ EndRun \/ RequestFails \/ FatalError \/ Stop
  <2>1. pc' \notin Configuring \cup {"create", "remove", "terminate"}
    BY <1>3 DEF PollNothing, EndRun, RequestFails, FatalError, Stop, DropSession
  <2>2. (count' = 0 \/ count' = count) /\ (current' = 0 \/ current' = current)
    BY <1>3 DEF PollNothing, EndRun, RequestFails, FatalError, Stop, DropSession, NoRun, runVars
  <2>. QED
    BY <2>1, <2>2, CountsGone
<1>4. CASE \/ LoadCredentials \/ Authorize \/ ResolveScaleSet \/ RegisterScaleSet \/ CheckScaleSet
           \/ StartFails \/ RegisterFails \/ ConnectFails \/ Connect \/ Refresh \/ PollMessage
           \/ DeleteMessage \/ AcquireJobs \/ CloseSession \/ ExpireSession \/ Replace
  <2>1. UNCHANGED runVars /\ vm' = vm
    BY <1>4 DEF LoadCredentials, Authorize, ResolveScaleSet, RegisterScaleSet, CheckScaleSet, Beginning,
       StartFails, RegisterFails, ConnectFails, Connect, Refresh, PollMessage, DeleteMessage, AcquireJobs,
       CloseSession, ExpireSession, Replace, serviceVars, providerVars, fleetVars
  <2>2. pc' = pc \/ pc' \notin Configuring \cup {"create", "remove", "terminate"}
    BY <1>4 DEF LoadCredentials, Authorize, ResolveScaleSet, RegisterScaleSet, CheckScaleSet, Beginning,
       StartFails, RegisterFails, ConnectFails, Connect, Refresh, PollMessage, DeleteMessage, AcquireJobs,
       CloseSession, ExpireSession, Replace, providerVars
  <2>. QED
    BY <2>1, <2>2, CountsStay
<1>5. CASE Environment \/ UNCHANGED vars
  <2>1. UNCHANGED runVars /\ pc' = pc
    BY <1>5 DEF Environment, vars, providerVars
  <2>2. \A i \in Instance : vm'[i] = "free" => vm[i] = "free"
    <3>1. CASE UNCHANGED vars
      BY <3>1 DEF vars, serviceVars, fleetVars
    <3>2. CASE MakeMessage \/ ExpireToken \/ \E j \in Job : QueueJob(j) \/ CancelJob(j)
      BY <3>2 DEF MakeMessage, ExpireToken, QueueJob, CancelJob, fleetVars
    <3>3. ASSUME NEW k \in Instance,
                 \/ FinishJob(k) \/ \E j \in Job : StartJob(j, k)
                 \/ Boot(k) \/ AgentEnds(k) \/ SelfTerminate(k) \/ Hang(k)
          PROVE  \A i \in Instance : vm'[i] = "free" => vm[i] = "free"
      <4>1. vm' = vm \/ \E s \in {"online", "ended", "gone", "hung"} : vm' = [vm EXCEPT ![k] = s]
        BY <3>3 DEF FinishJob, StartJob, Boot, AgentEnds, SelfTerminate, Gone, Hang, SetVm
      <4>. QED
        BY <4>1 DEF IInv, Types
    <3>. QED
      BY <1>5, <3>1, <3>2, <3>3 DEF Environment, GitHubSide, InstanceSide
  <2>. QED
    BY <2>1, <2>2, CountsStay
<1>. QED
  BY <1>1, <1>2, <1>3, <1>4, <1>5 DEF Next, Controller, ControllerFails

-----------------------------------------------------------------------------
\* All together.
Typed == Flags /\ Labelled /\ FleetTypes /\ LifecycleTypes /\ Bounds /\ Counts

LEMMA TypedInit == Init => Typed
<1>. SUFFICES ASSUME Init PROVE Typed
  OBVIOUS
<1>. USE DEF Init, ServiceInit
<1>1. Flags /\ Labelled
  BY DEF Flags, Labelled, Phase, Provider
<1>2. FleetTypes /\ LifecycleTypes
  BY DEF FleetTypes, LifecycleTypes, VmState, TagState
<1>3. Bounds
  BY JobsFinite, ServiceAssumption DEF Bounds
<1>4. Counts
  BY JobsFinite, ServiceAssumption DEF Counts, Configuring
<1>. QED
  BY <1>1, <1>2, <1>3, <1>4 DEF Typed

LEMMA TypedStep == IInv /\ Typed /\ [Next]_vars => Typed'
<1>. SUFFICES ASSUME IInv, Typed, [Next]_vars PROVE Typed'
  OBVIOUS
<1>1. Flags' /\ Labelled'
  BY FlagsOfLoop, FlagsOfFailures, FlagsOfOthers DEF Typed, Next
<1>2. FleetTypes' /\ LifecycleTypes'
  <2>1. CASE Next
    BY <2>1, FleetTypesOK, LifecycleOK DEF Typed
  <2>2. CASE UNCHANGED vars
    BY <2>2 DEF Typed, FleetTypes, LifecycleTypes, vars, serviceVars, fleetVars, providerVars
  <2>. QED
    BY <2>1, <2>2
<1>3. Bounds' /\ Counts'
  BY BoundsOK, CountsOK DEF Typed
<1>. QED
  BY <1>1, <1>2, <1>3 DEF Typed

LEMMA TypedIsTypeOK == IInv /\ Typed => TypeOK
<1>. SUFFICES ASSUME IInv, Typed PROVE TypeOK
  OBVIOUS
<1>. USE DEF Typed
<1>1. ServiceTypeOK
  <2>1. job \in [Job -> {"none", "available", "assigned", "running", "done"}] /\ news \in Events
    BY DEF IInv, Types, JobState
  <2>2. box = {} \/ The(box) \in Message
    <3>1. SUFFICES ASSUME box # {} PROVE The(box) \in Message
      OBVIOUS
    <3>2. PICK m \in [stats : SomeStats, events : Events] : The(box) = m
      BY <3>1, TheOnly DEF IInv, Types
    <3>3. m.stats.assigned \in 0 .. Cardinality(Job)
      BY <3>1, <3>2 DEF Bounds, SomeStats
    <3>4. m.stats \in Stats
      BY <3>3 DEF SomeStats, Stats
    <3>. QED
      BY <3>2, <3>4 DEF Message
  <2>3. session \in BOOLEAN /\ token \in BOOLEAN /\ faults \in 0 .. MaxFaults
    BY DEF Flags
  <2>. QED
    BY <2>1, <2>2, <2>3 DEF ServiceTypeOK, FleetTypes, VmState, TagState
<1>2. stats \in Optional(Stats)
  <2>1. ASSUME NEW s \in SomeStats, stats = {s} PROVE s \in Stats
    <3>1. The(stats) = s
      BY <2>1, TheOnly
    <3>2. s.assigned \in 0 .. Cardinality(Job)
      BY <2>1, <3>1 DEF Bounds, SomeStats
    <3>. QED
      BY <3>2 DEF SomeStats, Stats
  <2>. QED
    BY <2>1 DEF Optional, IInv, Types
<1>3. msg = {} \/ The(msg) \in Events
  BY TheOnly DEF IInv, Types
<1>4. /\ pc \in Provider => stats # {}
      /\ pc \in {"delete", "acquire"} => msg # {}
      /\ todo \subseteq Instance
  BY DEF IInv, Types, InMessage
<1>5. /\ pc \in Phase /\ failed \in BOOLEAN /\ others \in BOOLEAN /\ dropped \subseteq Job
      /\ scaleSet \in {"none", "unlabelled", "labelled"}
      /\ pc \in {"connect", "poll"} => scaleSet = "labelled"
  BY DEF Flags, Labelled
<1>6. /\ min \in 0 .. MaxRunners /\ peak \in 0 .. MaxRunners + Cardinality(Job)
      /\ count \in 0 .. MaxRunners + Cardinality(Job) + Cardinality(Instance)
      /\ current \in 0 .. Cardinality(Instance)
  BY DEF Bounds, Counts
<1>. QED
  BY <1>1, <1>2, <1>3, <1>4, <1>5, <1>6 DEF TypeOK, LifecycleTypes, Phase, Provider

\* Every variable keeps its type, and the counts of a run their bounds: no run
\* asks for more runners than the configuration allows and the jobs call for,
\* and what it reports as current is never negative (provider.ts:96-130).
THEOREM TypeCorrect == Spec => []TypeOK
<1>1. Init => IInv /\ Typed
  BY InitOK, TypedInit
<1>2. IInv /\ Typed /\ [Next]_vars => (IInv /\ Typed)'
  BY NextOK, TypedStep
<1>3. IInv /\ Typed => TypeOK
  BY TypedIsTypeOK
<1>. QED
  BY <1>1, <1>2, <1>3, PTL DEF Spec
=============================================================================
