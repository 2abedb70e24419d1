--------------------------- MODULE WarmPoolProofs ---------------------------
(****************************************************************************)
(* Theorems about WarmPool for every set of instances and invocations and   *)
(* every value of the timing constants its assumptions allow: what each     *)
(* write of the index keeps, that every variable keeps its type, and the    *)
(* safety of the claims, from the inductive invariant IInv of WarmPool.     *)
(****************************************************************************)
EXTENDS WarmPool, TLAPS

-----------------------------------------------------------------------------
\* What each conditional write of the warm pool index keeps and changes.
IndexOK == index \in [Instance -> Item]

LEMMA NoItemFields ==
  NoItem \in Item /\ NoItem.owner = None /\ NoItem.state = "ABSENT"
BY IndexAssumption DEF IndexAssumption, Item, ItemState, NoItem

LEMMA InStateFields ==
  ASSUME NEW r \in Item, NEW s \in ItemState
  PROVE  /\ InState(r, s) \in Item
         /\ InState(r, s).state = s
         /\ InState(r, s).owner = r.owner
         /\ InState(r, s).left = r.left
BY DEF Item, InState

LEMMA ClaimedFields ==
  ASSUME NEW r \in Item, NEW o \in Invocation
  PROVE  /\ Claimed(r, o) \in Item
         /\ Claimed(r, o).state = r.state
         /\ Claimed(r, o).owner = o
         /\ Claimed(r, o).left = ClaimTTL
<1>1. ClaimTTL \in -1 .. ClaimTTL
  BY IndexAssumption DEF IndexAssumption
<1>2. o \in Invocation \cup {None}
  OBVIOUS
<1> DEFINE t == ClaimTTL
<1> HIDE DEF t
<1>3. t \in -1 .. ClaimTTL
  BY <1>1 DEF t
<1>4. [r EXCEPT !.owner = o, !.left = t] \in Item
  BY <1>2, <1>3 DEF Item
<1> QED
  BY <1>4 DEF Item, Claimed, t

LEMMA UnclaimedFields ==
  ASSUME NEW r \in Item
  PROVE  /\ Unclaimed(r) \in Item
         /\ Unclaimed(r).state = r.state
         /\ Unclaimed(r).owner = None
<1> DEFINE t == -1
<1>1. t \in -1 .. ClaimTTL
  BY IndexAssumption DEF IndexAssumption
<1> DEFINE n == None
<1>2. n \in Invocation \cup {None}
  OBVIOUS
<1> HIDE DEF t, n
<1>3. [r EXCEPT !.owner = n, !.left = t] \in Item
  BY <1>1, <1>2 DEF Item
<1> QED
  BY <1>3 DEF Item, Unclaimed, t, n

LEMMA CooledDownFields ==
  ASSUME NEW r \in Item
  PROVE  /\ CooledDown(r) \in Item
         /\ CooledDown(r).state = r.state
         /\ CooledDown(r).owner = r.owner
<1> DEFINE c == Cooldown
           f == IF r.fails < StartFailureLimit THEN r.fails + 1 ELSE r.fails
<1>1. c \in 0 .. Cooldown /\ f \in 0 .. StartFailureLimit
  BY IndexAssumption DEF IndexAssumption, Item
<1> HIDE DEF c, f
<1>2. [r EXCEPT !.cool = c, !.fails = f] \in Item
  BY <1>1 DEF Item
<1>3. CooledDown(r) = [r EXCEPT !.cool = c, !.fails = f]
  BY DEF CooledDown, c, f, Item
<1> QED
  BY <1>2, <1>3 DEF Item

LEMMA OlderFields ==
  ASSUME NEW r \in Item
  PROVE  /\ Older(r) \in Item
         /\ Older(r).state = r.state
         /\ Older(r).owner = r.owner
         /\ r.left >= 0 => Older(r).left = r.left - 1
<1> DEFINE t == IF r.left >= 0 THEN r.left - 1 ELSE r.left
           c == IF r.cool > 0 THEN r.cool - 1 ELSE r.cool
<1>1. t \in -1 .. ClaimTTL /\ c \in 0 .. Cooldown
  BY IndexAssumption DEF IndexAssumption, Item
<1>2. Older(r) = [r EXCEPT !.left = t, !.cool = c]
  BY DEF Older, Item
<1>3. r.left >= 0 => t = r.left - 1
  OBVIOUS
<1> HIDE DEF t, c
<1>4. [r EXCEPT !.left = t, !.cool = c] \in Item
  BY <1>1 DEF Item
<1> QED
  BY <1>2, <1>3, <1>4 DEF Item

-----------------------------------------------------------------------------
\* The writes, each against the whole table: a write touches one entry only.

\* update keeps every claim; an activated entry it leaves alone.
LEMMA IndexUpdateKeeps ==
  ASSUME IndexOK, NEW i \in Instance, NEW s \in ItemState, IndexUpdate(i, s)
  PROVE  /\ IndexOK'
         /\ \A j \in Instance : /\ j # i => index'[j] = index[j]
                                /\ index'[j].owner = index[j].owner
                                /\ index'[j].left = index[j].left
                                /\ index'[j].state \in {s, index[j].state}
<1>1. index[i] \in Item
  BY DEF IndexOK
<1> QED
  BY <1>1, InStateFields DEF IndexOK, IndexUpdate

\* markWarm keeps every claim and creates no entry.
LEMMA MarkWarmKeeps ==
  ASSUME IndexOK, NEW i \in Instance, MarkWarm(i)
  PROVE  /\ IndexOK'
         /\ \A j \in Instance : /\ index'[j].owner = index[j].owner
                                /\ index'[j].left = index[j].left
                                /\ index'[j].state = "ABSENT" <=> index[j].state = "ABSENT"
<1>1. index[i] \in Item /\ "WARM" \in ItemState
  BY DEF IndexOK, ItemState
<1> QED
  BY <1>1, InStateFields DEF IndexOK, MarkWarm

\* remove and removeUnclaimed delete one entry.
LEMMA RemoveKeeps ==
  ASSUME IndexOK, NEW i \in Instance, Remove(i)
  PROVE  /\ IndexOK'
         /\ index'[i] = NoItem
         /\ \A j \in Instance : j # i => index'[j] = index[j]
BY NoItemFields DEF IndexOK, Remove

\* claim takes a whole lease of an unclaimed warm entry, or changes nothing.
LEMMA ClaimKeeps ==
  ASSUME IndexOK, NEW o \in Invocation, NEW i \in Instance, Claim(o, i)
  PROVE  /\ IndexOK'
         /\ \A j \in Instance : j # i => index'[j] = index[j]
         /\ ~CanClaim(i) => index' = index
         /\ CanClaim(i) => /\ index'[i].owner = o
                           /\ index'[i].left = ClaimTTL
                           /\ index'[i].state = index[i].state
<1>1. index[i] \in Item
  BY DEF IndexOK
<1> QED
  BY <1>1, ClaimedFields DEF IndexOK, Claim

\* release, releaseWithCooldown and markUnusable do nothing to another owner's entry.
LEMMA SettleKeeps ==
  ASSUME IndexOK, NEW o \in Invocation, NEW i \in Instance,
         Release(o, i) \/ ReleaseWithCooldown(o, i) \/ MarkUnusable(o, i)
  PROVE  /\ IndexOK'
         /\ \A j \in Instance : j # i => index'[j] = index[j]
         /\ index[i].owner # o => index'[i] = index[i]
         /\ index[i].owner = o => index'[i].owner = None
<1>1. index[i] \in Item /\ "GARBAGE" \in ItemState
  BY DEF IndexOK, ItemState
<1>2. Unclaimed(index[i]) \in Item /\ Unclaimed(index[i]).owner = None
  BY <1>1, UnclaimedFields
<1>3. CASE Release(o, i)
  BY <1>2, <1>3 DEF IndexOK, Release
<1>4. CASE ReleaseWithCooldown(o, i)
  BY <1>2, <1>4, CooledDownFields DEF IndexOK, ReleaseWithCooldown
<1>5. CASE MarkUnusable(o, i)
  BY <1>1, <1>2, <1>5, InStateFields DEF IndexOK, MarkUnusable
<1> QED
  BY <1>3, <1>4, <1>5

\* markActivated clears the claim, whoever holds it.
LEMMA MarkActivatedKeeps ==
  ASSUME IndexOK, NEW i \in Instance, MarkActivated(i)
  PROVE  /\ IndexOK'
         /\ \A j \in Instance : j # i => index'[j] = index[j]
         /\ index'[i].owner = None
         /\ index'[i].state = "ACTIVATED"
<1>1. index[i] \in Item /\ "ACTIVATED" \in ItemState
  BY DEF IndexOK, ItemState
<1>2. Unclaimed(index[i]) \in Item /\ Unclaimed(index[i]).owner = None
  BY <1>1, UnclaimedFields
<1> QED
  BY <1>1, <1>2, InStateFields DEF IndexOK, MarkActivated

-----------------------------------------------------------------------------
\* Type correctness, one part of the state at a time.

LEMMA FleetStepType ==
  ASSUME FleetTypeOK, NEW i \in Instance, FleetStep(i)
  PROVE  FleetTypeOK'
BY FleetAssumption
   DEF FleetAssumption, FleetTypeOK, FleetStep, Boot, PrimeDone, StopDone, TakeConfig,
       FinishJob, Interrupt, LoseEvent, Fault, TerminateEffect, Ec2State, RegState, Running,
       Activated

LEMMA ElapseType ==
  ASSUME TypeOK, Tick
  PROVE  TypeOK'
<1>1. IndexOK'
  BY OlderFields DEF TypeOK, Tick, IndexElapse, IndexOK
<1>2. FleetTypeOK'
  BY FleetAssumption
     DEF FleetAssumption, TypeOK, Tick, FleetElapse, ClocksElapse, ExpiryElapses,
         FleetTypeOK, Live, Running, Stopped
<1>3. ActivationTypeOK'
  BY ActivationAssumption
     DEF ActivationAssumption, TypeOK, Tick, ActivationElapse, ActivationTypeOK, historyVars,
         Active
<1>4. ReconcileTypeOK'
  BY ReconcileAssumption, FleetAssumption
     DEF ReconcileAssumption, FleetAssumption, TypeOK, Tick, ReconcileElapse, ReconcileTypeOK
<1> QED BY <1>1, <1>2, <1>3, <1>4 DEF TypeOK, IndexOK

\* The local steps of an activation.
LEMMA EndsType ==
  ASSUME ActivationTypeOK, NEW o \in Invocation, Ends(o)
  PROVE  /\ phase' \in [Invocation -> Phase]
         /\ stage' \in [Invocation -> [Instance -> Stage]]
         /\ needed' \in [Invocation -> 0 .. MaxNeeded]
         /\ exhausted' \in [Invocation -> SUBSET Pair]
         /\ outcome' \in [Invocation -> RollbackOutcome]
         /\ runLeft' \in [Invocation -> 0 .. LambdaTime]
         /\ batchAge' \in [Invocation -> 0 .. LambdaTime]
BY ActivationAssumption
   DEF ActivationAssumption, ActivationTypeOK, Ends, GoTo, Phase, Stage, RollbackOutcome

LEMMA GoToType ==
  ASSUME ActivationTypeOK, NEW o \in Invocation, NEW p \in Phase, GoTo(o, p)
  PROVE  phase' \in [Invocation -> Phase]
BY DEF ActivationTypeOK, GoTo

LEMMA LocalType ==
  ASSUME ActivationTypeOK, NEW o \in Invocation, NEW i \in Instance
  PROVE  /\ \A s \in Stage : Advance(o, i, s) => stage' \in [Invocation -> [Instance -> Stage]]
         /\ OneFewer(o) => needed' \in [Invocation -> 0 .. MaxNeeded]
         /\ \A s \in Stage, r \in RollbackOutcome : BeginRollback(o, i, s, r) =>
              /\ stage' \in [Invocation -> [Instance -> Stage]]
              /\ needed' \in [Invocation -> 0 .. MaxNeeded]
              /\ outcome' \in [Invocation -> RollbackOutcome]
<1>1. \A s \in Stage : Advance(o, i, s) => stage' \in [Invocation -> [Instance -> Stage]]
  BY DEF ActivationTypeOK, Advance
<1>2. OneFewer(o) => needed' \in [Invocation -> 0 .. MaxNeeded]
  BY ActivationAssumption DEF ActivationAssumption, ActivationTypeOK, OneFewer
<1>3. \A s \in Stage, r \in RollbackOutcome : BeginRollback(o, i, s, r) =>
        /\ stage' \in [Invocation -> [Instance -> Stage]]
        /\ needed' \in [Invocation -> 0 .. MaxNeeded]
        /\ outcome' \in [Invocation -> RollbackOutcome]
  BY <1>1, <1>2 DEF ActivationTypeOK, BeginRollback
<1> QED
  BY <1>1, <1>2, <1>3

\* An activation writes the index only through the conditional writes of WarmIndex.
LEMMA ActivationIndexType ==
  ASSUME IndexOK, NEW o \in Invocation, ActivationStep(o)
  PROVE  IndexOK'
<1>1. ASSUME UNCHANGED index PROVE IndexOK'
  BY <1>1 DEF IndexOK
<1>2. ASSUME NEW i \in Instance, ActivateOne(o, i)
      PROVE  IndexOK'
  <2>1. CASE ClaimOne(o, i) \/ ClaimAnswerLost(o, i) \/ ClaimError(o, i)
    BY <1>1, <2>1, ClaimKeeps DEF ClaimOne, ClaimAnswerLost, ClaimError
  <2>2. CASE Undo(o, i)
    BY <1>1, <2>2, SettleKeeps DEF Undo, SettleClaim, BestEffortIndex
  <2>3. CASE Record(o, i)
    BY <1>1, <2>3, MarkActivatedKeeps DEF Record, BestEffortIndex
  <2>4. CASE MarkDestroyed(o, i)
    BY <1>1, <2>4, SettleKeeps DEF MarkDestroyed, BestEffortIndex
  <2>5. CASE SkipExhausted(o, i) \/ TagOne(o, i) \/ TagError(o, i) \/ StartOne(o, i)
             \/ StartStale(o, i) \/ StartNoCapacity(o, i) \/ StartError(o, i) \/ Untag(o, i)
             \/ Retag(o, i) \/ RegisterOne(o, i) \/ DestroyUnregistered(o, i)
    BY <1>1, <2>5 DEF SkipExhausted, TagOne, TagError, StartOne, StartStale, StartNoCapacity,
       StartError, Untag, Retag, RegisterOne, DestroyUnregistered
  <2> QED
    BY <1>2, <2>1, <2>2, <2>3, <2>4, <2>5 DEF ActivateOne
<1> QED
  BY <1>1, <1>2 DEF ActivationStep, Query, BeginBatch, AbortDone, BeginRegister, RegisterThrows,
     BeginSettle, NextBatch, Crash

LEMMA ActivationFleetType ==
  ASSUME FleetTypeOK, ActivationTypeOK, NEW o \in Invocation, ActivationStep(o)
  PROVE  FleetTypeOK'
<1>1. ASSUME UNCHANGED <<ec2, tag, reg, age, expires, owned, events>>, faults' \in 0 .. MaxFaults
      PROVE FleetTypeOK'
  BY <1>1 DEF FleetTypeOK
<1>2. faults \in 0 .. MaxFaults /\ (Fault => faults' \in 0 .. MaxFaults)
  BY FleetAssumption DEF FleetAssumption, FleetTypeOK, Fault
<1>3. ASSUME NEW i \in Instance, ActivateOne(o, i)
      PROVE  FleetTypeOK'
  <2>1. CASE ClaimOne(o, i) \/ ClaimAnswerLost(o, i) \/ ClaimError(o, i) \/ SkipExhausted(o, i)
             \/ StartStale(o, i) \/ StartNoCapacity(o, i) \/ Undo(o, i) \/ Record(o, i)
             \/ MarkDestroyed(o, i)
    BY <1>1, <1>2, <2>1 DEF ClaimOne, ClaimAnswerLost, ClaimError, SkipExhausted, StartStale,
       StartNoCapacity, Undo, Record, MarkDestroyed, BestEffortIndex, fleetVars
  <2>2. CASE TagOne(o, i) \/ TagError(o, i) \/ Untag(o, i) \/ Retag(o, i)
    <3>1. batchAge[o] \in -1 .. Grace /\ -1 \in -1 .. Grace
      BY ActivationAssumption, FleetAssumption
         DEF ActivationAssumption, FleetAssumption, ActivationTypeOK
    <3> QED
      BY <1>2, <2>2, <3>1 DEF TagOne, TagError, Untag, Retag, ActivationTags, FleetTypeOK
  <2>3. CASE StartOne(o, i) \/ StartError(o, i) \/ DestroyUnregistered(o, i)
    <3>1. 0 \in 0 .. BootTime + 1
      BY FleetAssumption DEF FleetAssumption
    <3> QED
      BY <1>2, <2>3, <3>1 DEF StartOne, StartError, DestroyUnregistered, StartEffect,
         TerminateEffect, FleetTypeOK, Ec2State
  <2>4. CASE RegisterOne(o, i)
    BY <1>2, <2>4 DEF RegisterOne, FleetTypeOK, RegState
  <2> QED
    BY <1>3, <2>1, <2>2, <2>3, <2>4 DEF ActivateOne
<1> QED
  BY <1>1, <1>2, <1>3 DEF ActivationStep, Query, BeginBatch, AbortDone, BeginRegister,
     RegisterThrows, BeginSettle, NextBatch, Crash, fleetVars

\* The local state of an activation, by what its steps do with it.
LEMMA ActivationLocalType ==
  ASSUME ActivationTypeOK, NEW o \in Invocation, ActivationStep(o)
  PROVE  ActivationTypeOK'
<1> USE ActivationAssumption
<1> DEFINE History == startedBy' \in [Instance -> SUBSET Invocation] /\ loose' \subseteq Instance
<1>1. ASSUME UNCHANGED historyVars PROVE History
  BY <1>1 DEF ActivationTypeOK, historyVars
<1>2. ASSUME NEW i \in Instance, UNCHANGED startedBy,
             loose' = loose \/ loose' = loose \cup {i}
      PROVE  History
  BY <1>2 DEF ActivationTypeOK
<1>3. ASSUME NEW i \in Instance, ActivateOne(o, i)
      PROVE  ActivationTypeOK'
  <2>1. CASE ClaimOne(o, i) \/ ClaimAnswerLost(o, i)
    BY <1>1, <1>2, <2>1, LocalType DEF ClaimOne, ClaimAnswerLost, ActivationTypeOK, Stage
  <2>2. CASE ClaimError(o, i)
    <3>1. stage' \in [Invocation -> [Instance -> Stage]]
      BY <2>2 DEF ClaimError, ActivationTypeOK, Stage
    <3> QED
      BY <1>2, <2>2, <3>1, GoToType
         DEF ClaimError, ActivationTypeOK, Phase, RollbackOutcome
  <2>3. CASE SkipExhausted(o, i) \/ TagError(o, i) \/ StartStale(o, i) \/ StartError(o, i)
    BY <1>1, <2>3, LocalType DEF SkipExhausted, TagError, StartStale, StartError,
       ActivationTypeOK, Stage, RollbackOutcome
  <2>4. CASE StartNoCapacity(o, i)
    <3>1. exhausted' \in [Invocation -> SUBSET Pair]
      BY <2>4 DEF StartNoCapacity, ActivationTypeOK, ActivationAssumption
    <3> QED
      BY <1>1, <2>4, <3>1, LocalType DEF StartNoCapacity, ActivationTypeOK, Stage,
         RollbackOutcome
  <2>5. CASE StartOne(o, i)
    BY <2>5, LocalType DEF StartOne, ActivationTypeOK, Stage
  <2>6. CASE TagOne(o, i) \/ Untag(o, i) \/ Retag(o, i) \/ RegisterOne(o, i)
    BY <1>1, <1>2, <2>6, LocalType DEF TagOne, Untag, Retag, RegisterOne, ActivationTypeOK, Stage
  <2>7. CASE Undo(o, i) \/ Record(o, i) \/ DestroyUnregistered(o, i) \/ MarkDestroyed(o, i)
    BY <1>1, <1>2, <2>7, LocalType DEF Undo, Record, DestroyUnregistered, MarkDestroyed,
       BestEffortIndex, ActivationTypeOK, Stage
  <2> QED
    BY <1>3, <2>1, <2>2, <2>3, <2>4, <2>5, <2>6, <2>7 DEF ActivateOne
<1>4. ASSUME NEW n \in 1 .. MaxNeeded, Query(o, n)
      PROVE  ActivationTypeOK'
  BY <1>1, <1>4, GoToType DEF Query, ActivationTypeOK, ActivationAssumption, Phase, Stage
<1>5. CASE BeginBatch(o) \/ AbortDone(o)
  BY <1>1, <1>5, GoToType, EndsType DEF BeginBatch, AbortDone, ActivationTypeOK, Phase
<1>6. CASE BeginRegister(o) \/ RegisterThrows(o) \/ BeginSettle(o)
  BY <1>1, <1>6, GoToType DEF BeginRegister, RegisterThrows, BeginSettle, ActivationTypeOK,
     ActivationAssumption, Phase, Stage
<1>7. CASE NextBatch(o)
  <2>1. CASE Ends(o)
    BY <1>1, <1>7, <2>1, EndsType DEF NextBatch, ActivationTypeOK
  <2>2. CASE ~Ends(o)
    <3>1. stage' \in [Invocation -> [Instance -> Stage]]
      <4> DEFINE left == {i \in At(o, {"candidate"}) : pairOf[i] \notin exhausted[o]}
                 memory == [i \in Instance |-> IF i \in left THEN "candidate" ELSE "none"]
      <4>1. stage' = [stage EXCEPT ![o] = memory]
        BY <1>7, <2>2 DEF NextBatch
      <4>2. memory \in [Instance -> Stage]
        BY DEF Stage
      <4> HIDE DEF memory
      <4> QED
        BY <4>1, <4>2 DEF ActivationTypeOK
    <3>2. phase' \in [Invocation -> Phase]
      BY <1>7, <2>2, GoToType DEF NextBatch, Phase
    <3> QED
      BY <1>1, <1>7, <2>2, <3>1, <3>2 DEF NextBatch, ActivationTypeOK
  <2> QED
    BY <2>1, <2>2
<1>8. CASE Crash(o)
  BY <1>8, EndsType DEF Crash, ActivationTypeOK
<1> QED
  BY <1>3, <1>4, <1>5, <1>6, <1>7, <1>8 DEF ActivationStep

-----------------------------------------------------------------------------
\* The pool run, the stop events and the sweep.
PoolInv == TypeOK /\ PoolPhases /\ WritesAreListed

LEMMA ClassifyType ==
  ASSUME NEW i \in Instance, ~Activated(i)
  PROVE  Classify(i) \in Listed \ {"none"}
BY DEF Classify, Listed

LEMMA FaultType ==
  ASSUME FleetTypeOK
  PROVE  /\ faults \in 0 .. MaxFaults
         /\ Fault => faults' \in 0 .. MaxFaults
BY FleetAssumption DEF FleetAssumption, FleetTypeOK, Fault

LEMMA ForgetsType ==
  ASSUME PoolForgets
  PROVE  /\ seen' \in [Instance -> [state : SeenState, fails : 0 .. StartFailureLimit]]
         /\ listed' \in [Instance -> Listed]
         /\ listedAge' \in [Instance -> 0 .. BootTime + 1]
         /\ toWrite' = {} /\ toDrop' = {} /\ toEvict' = {} /\ toIndex' = {}
         /\ doomed' = None
         /\ size' = 0
<1>1. 0 \in 0 .. StartFailureLimit /\ 0 \in 0 .. BootTime + 1
  BY IndexAssumption, FleetAssumption DEF IndexAssumption, FleetAssumption
<1>2. "ABSENT" \in SeenState /\ "none" \in Listed
  BY DEF SeenState, ItemState, Listed
<1> QED
  BY <1>1, <1>2 DEF PoolForgets, Unseen, Unlisted, NoAge

\* The index under the pool's own writes.
LEMMA PoolIndexType ==
  ASSUME PoolInv, PoolStep
  PROVE  IndexOK'
<1>1. IndexOK
  BY DEF PoolInv, TypeOK, IndexOK
<1>2. ASSUME UNCHANGED index PROVE IndexOK'
  BY <1>1, <1>2 DEF IndexOK
<1>3. ASSUME NEW i \in Instance, PoolOne(i)
      PROVE  IndexOK'
  <2>1. CASE PoolAdopt(i) \/ PoolWrite(i)
    <3>1. listed[i] \in ItemState
      BY <2>1 DEF PoolInv, TypeOK, ReconcileTypeOK, WritesAreListed, PoolAdopt, PoolWrite,
         Listed, ItemState
    <3> QED
      BY <1>1, <1>2, <2>1, <3>1, IndexUpdateKeeps DEF PoolAdopt, PoolWrite
  <2>2. CASE PoolIndexLaunched(i)
    <3>1. "PRIMING" \in ItemState
      BY DEF ItemState
    <3> QED
      BY <1>1, <1>2, <2>2, <3>1, IndexUpdateKeeps DEF PoolIndexLaunched
  <2>3. CASE PoolDrop(i) \/ PoolRemove(i)
    BY <1>1, <1>2, <2>3, RemoveKeeps DEF PoolDrop, PoolRemove
  <2>4. CASE PoolTerminate(i) \/ PoolTerminateError(i)
    BY <1>2, <2>4 DEF PoolTerminate, PoolTerminateError
  <2> QED
    BY <1>3, <2>1, <2>2, <2>3, <2>4 DEF PoolOne
<1> QED
  BY <1>2, <1>3 DEF PoolStep, PoolQuery, PoolScan, PoolAdopted, PoolRead, PoolSelect,
     PoolLaunch, PoolFinish, PoolCrash

LEMMA PoolFleetType ==
  ASSUME FleetTypeOK, PoolStep
  PROVE  FleetTypeOK'
<1>1. ASSUME UNCHANGED <<ec2, tag, reg, age, expires, owned, events>>, faults' \in 0 .. MaxFaults
      PROVE  FleetTypeOK'
  BY <1>1 DEF FleetTypeOK
<1>2. ASSUME NEW i \in Instance, PoolOne(i)
      PROVE  FleetTypeOK'
  <2>1. CASE PoolAdopt(i) \/ PoolWrite(i) \/ PoolDrop(i) \/ PoolRemove(i) \/ PoolIndexLaunched(i)
    BY <1>1, <2>1, FaultType DEF PoolAdopt, PoolWrite, PoolDrop, PoolRemove, PoolIndexLaunched,
       fleetVars
  <2>2. CASE PoolTerminate(i) \/ PoolTerminateError(i)
    BY <2>2, FaultType DEF PoolTerminate, PoolTerminateError, TerminateEffect, FleetTypeOK,
       Ec2State
  <2> QED
    BY <1>2, <2>1, <2>2 DEF PoolOne
<1>3. CASE PoolLaunch
  BY <1>3 DEF PoolLaunch, FleetTypeOK, Ec2State
<1> QED
  BY <1>1, <1>2, <1>3, FaultType DEF PoolStep, PoolQuery, PoolScan, PoolAdopted, PoolRead,
     PoolSelect, PoolFinish, PoolCrash, fleetVars

\* What the run remembers.
LEMMA PoolStepShape ==
  ASSUME PoolInv, PoolStep
  PROVE  ReconcileTypeOK' /\ PoolPhases' /\ WritesAreListed'
<1> DEFINE SeenItem == [state : SeenState, fails : 0 .. StartFailureLimit]
<1>1. /\ ReconcileTypeOK /\ PoolPhases /\ WritesAreListed
      /\ index \in [Instance -> Item]
      /\ age \in [Instance -> 0 .. BootTime + 1]
  BY DEF PoolInv, TypeOK, FleetTypeOK
<1>2. 0 \in 0 .. BootTime + 1 /\ ReconcileInterval \in 0 .. ReconcileInterval
  BY FleetAssumption, ReconcileAssumption DEF FleetAssumption, ReconcileAssumption
<1>3. ASSUME NEW n \in Sizes, PoolQuery(n)
      PROVE  ReconcileTypeOK' /\ PoolPhases' /\ WritesAreListed'
  <2>1. \A i \in Instance : index[i].state \in SeenState /\ index[i].fails \in 0 .. StartFailureLimit
    BY <1>1 DEF Item, SeenState
  <2>2. seen' \in [Instance -> SeenItem]
    BY <1>3, <2>1 DEF PoolQuery
  <2> QED
    BY <1>1, <1>2, <1>3, <2>2 DEF PoolQuery, ReconcileTypeOK, PoolPhase, PoolPhases,
       WritesAreListed
<1>4. CASE PoolScan
  <2>1. \A i \in Instance : Classify(i) # "ACTIVE" => Classify(i) \in Listed \ {"none"}
    <3>1. ASSUME NEW i \in Instance, Activated(i) PROVE Classify(i) = "ACTIVE"
      BY <3>1 DEF Classify
    <3> QED
      BY <3>1, ClassifyType
  <2>2. toWrite' \subseteq Instance /\ listed' \in [Instance -> Listed]
    BY <1>4, <2>1 DEF PoolScan, Untracked, Listed
  <2>3. \A i \in toWrite' : listed'[i] # "none"
    BY <1>4, <2>1 DEF PoolScan, Untracked
  <2> QED
    BY <1>1, <1>4, <2>2, <2>3 DEF PoolScan, ReconcileTypeOK, PoolPhase, PoolPhases,
       WritesAreListed
<1>5. CASE PoolRead
  <2> DEFINE known      == {i \in Instance : seen[i].state # "ABSENT"}
             classified == {i \in known : ec2[i] # "terminated" /\ ~SeenActivated(i)}
  <2>1. \A i \in classified : Classify(i) \in Listed \ {"none"}
    BY ClassifyType DEF SeenActivated
  <2>2. listed' = [i \in Instance |-> IF i \in classified THEN Classify(i) ELSE "none"]
    BY <1>5 DEF PoolRead
  <2>3. listedAge' = [i \in Instance |-> IF i \in classified THEN age[i] ELSE 0]
    BY <1>5 DEF PoolRead
  <2>4. toWrite' \subseteq classified /\ toDrop' \subseteq Instance
    BY <1>5 DEF PoolRead
  <2>5. classified \subseteq Instance
    OBVIOUS
  <2> HIDE DEF classified
  <2>6. listed' \in [Instance -> Listed] /\ \A i \in toWrite' : listed'[i] # "none"
    BY <2>1, <2>2, <2>4, <2>5 DEF Listed
  <2>7. listedAge' \in [Instance -> 0 .. BootTime + 1]
    BY <1>1, <1>2, <2>3
  <2> QED
    BY <1>1, <1>5, <2>4, <2>5, <2>6, <2>7 DEF PoolRead, ReconcileTypeOK, PoolPhase, PoolPhases,
       WritesAreListed
<1>6. CASE PoolAdopted \/ PoolSelect \/ PoolLaunch
  BY <1>1, <1>6 DEF PoolAdopted, PoolSelect, PoolLaunch, ReconcileTypeOK, PoolPhase, PoolPhases,
     WritesAreListed
<1>7. CASE PoolFinish \/ PoolCrash
  <2>1. None \in Instance \cup {None} /\ 0 \in Sizes \cup {0} /\ "idle" \in PoolPhase
    BY DEF PoolPhase
  <2>2. PoolForgets /\ poolPhase' = "idle"
    BY <1>7 DEF PoolFinish, PoolCrash
  <2> QED
    BY <1>1, <1>7, <2>1, <2>2, ForgetsType DEF PoolFinish, PoolCrash, ReconcileTypeOK, PoolPhases,
       WritesAreListed
<1>8. ASSUME NEW i \in Instance, PoolOne(i)
      PROVE  ReconcileTypeOK' /\ PoolPhases' /\ WritesAreListed'
  <2>1. CASE PoolAdopt(i)
    <3>1. listed[i] \in SeenState /\ seen[i].fails \in 0 .. StartFailureLimit
      BY <1>1, <2>1 DEF PoolAdopt, WritesAreListed, ReconcileTypeOK, Listed, SeenState, ItemState
    <3>2. [state |-> listed[i], fails |-> seen[i].fails] \in SeenItem
      BY <3>1
    <3>3. seen' \in [Instance -> SeenItem]
      BY <1>1, <2>1, <3>2 DEF PoolAdopt, ReconcileTypeOK
    <3> QED
      BY <1>1, <2>1, <3>3 DEF PoolAdopt, ReconcileTypeOK, PoolPhases, WritesAreListed
  <2>2. CASE PoolWrite(i) \/ PoolDrop(i) \/ PoolRemove(i) \/ PoolIndexLaunched(i)
    BY <1>1, <2>2 DEF PoolWrite, PoolDrop, PoolRemove, PoolIndexLaunched, ReconcileTypeOK,
       PoolPhases, WritesAreListed
  <2>3. CASE PoolTerminate(i) \/ PoolTerminateError(i)
    BY <1>1, <2>3 DEF PoolTerminate, PoolTerminateError, ReconcileTypeOK, Listed, PoolPhases,
       WritesAreListed
  <2> QED
    BY <1>8, <2>1, <2>2, <2>3 DEF PoolOne
<1> QED
  BY <1>3, <1>4, <1>5, <1>6, <1>7, <1>8 DEF PoolStep

\* The stop-event consumer and the sweep.
LEMMA UpkeepType ==
  ASSUME PoolInv, (\E i \in Instance : UpkeepStep(i)) \/ SweepList
  PROVE  IndexOK' /\ FleetTypeOK' /\ ReconcileTypeOK' /\ PoolPhases' /\ WritesAreListed'
<1>1. IndexOK /\ FleetTypeOK /\ ReconcileTypeOK /\ PoolPhases /\ WritesAreListed
  BY DEF PoolInv, TypeOK, IndexOK
<1>2. ASSUME UNCHANGED poolVars, primed' \subseteq Instance, swept' \subseteq Instance,
             UNCHANGED <<evicted, torn>>
      PROVE  ReconcileTypeOK' /\ PoolPhases' /\ WritesAreListed'
  BY <1>1, <1>2 DEF ReconcileTypeOK, PoolPhases, WritesAreListed, poolVars
<1>3. ASSUME UNCHANGED index PROVE IndexOK'
  BY <1>1, <1>3 DEF IndexOK
<1>4. ASSUME NEW i \in Instance, UpkeepStep(i)
      PROVE  IndexOK' /\ FleetTypeOK' /\ ReconcileTypeOK' /\ PoolPhases' /\ WritesAreListed'
  <2>1. primed' \subseteq Instance /\ swept' \subseteq Instance
    BY <1>1, <1>4 DEF UpkeepStep, StopRead, StopWrite, StopError, SweepDestroy, ReconcileTypeOK
  <2>2. UNCHANGED poolVars /\ UNCHANGED <<evicted, torn>>
    BY <1>4 DEF UpkeepStep, StopRead, StopWrite, StopError, SweepDestroy
  <2>3. IndexOK'
    BY <1>1, <1>3, <1>4, MarkWarmKeeps DEF UpkeepStep, StopRead, StopWrite, StopError,
       SweepDestroy
  <2>4. FleetTypeOK'
    BY <1>1, <1>4, FaultType DEF UpkeepStep, StopRead, StopWrite, StopError, SweepDestroy,
       TerminateEffect, FleetTypeOK, Ec2State
  <2> QED
    BY <1>2, <2>1, <2>2, <2>3, <2>4
<1>5. CASE SweepList
  BY <1>1, <1>2, <1>3, <1>5 DEF SweepList, FleetTypeOK, fleetVars, ReconcileTypeOK
<1> QED
  BY <1>4, <1>5

-----------------------------------------------------------------------------
LEMMA PoolInvInit == Init => PoolInv
<1> SUFFICES ASSUME Init PROVE PoolInv
  OBVIOUS
<1>1. index \in [Instance -> Item]
  BY NoItemFields DEF Init, IndexInit
<1>2. FleetTypeOK
  BY FleetAssumption DEF FleetAssumption, Init, FleetInit, FleetTypeOK, Ec2State, RegState
<1>3. ActivationTypeOK
  BY ActivationAssumption DEF ActivationAssumption, Init, ActivationInit, ActivationTypeOK,
     Phase, Stage, RollbackOutcome
<1>4. ReconcileTypeOK
  <2>1. 0 \in 0 .. StartFailureLimit /\ 0 \in 0 .. BootTime + 1 /\ 0 \in 0 .. ReconcileInterval
    BY IndexAssumption, FleetAssumption, ReconcileAssumption
       DEF IndexAssumption, FleetAssumption, ReconcileAssumption
  <2> QED
    BY <2>1 DEF Init, ReconcileInit, ReconcileTypeOK, Unseen, Unlisted, NoAge, PoolPhase,
       SeenState, ItemState, Listed
<1>5. PoolPhases /\ WritesAreListed
  BY DEF Init, ReconcileInit, PoolPhases, WritesAreListed
<1> QED
  BY <1>1, <1>2, <1>3, <1>4, <1>5 DEF PoolInv, TypeOK

LEMMA PoolInvStep == PoolInv /\ [Next]_vars => PoolInv'
<1> SUFFICES ASSUME PoolInv, [Next]_vars PROVE PoolInv'
  OBVIOUS
<1>1. IndexOK /\ FleetTypeOK /\ ActivationTypeOK /\ ReconcileTypeOK /\ PoolPhases
      /\ WritesAreListed
  BY DEF PoolInv, TypeOK, IndexOK
<1>2. ASSUME UNCHANGED reconcileVars
      PROVE  ReconcileTypeOK' /\ PoolPhases' /\ WritesAreListed'
  BY <1>1, <1>2 DEF reconcileVars, poolVars, ReconcileTypeOK, PoolPhases, WritesAreListed
<1>3. ASSUME UNCHANGED <<activationVars, historyVars>>
      PROVE  ActivationTypeOK'
  BY <1>1, <1>3 DEF activationVars, historyVars, ActivationTypeOK
<1>4. ASSUME UNCHANGED index PROVE IndexOK'
  BY <1>1, <1>4 DEF IndexOK
<1>5. ASSUME NEW o \in Invocation, ActivationStep(o), UNCHANGED reconcileVars
      PROVE  PoolInv'
  BY <1>1, <1>2, <1>5, ActivationIndexType, ActivationFleetType, ActivationLocalType
     DEF PoolInv, TypeOK, IndexOK
<1>6. CASE PoolStep /\ UNCHANGED <<activationVars, historyVars>>
  BY <1>1, <1>3, <1>6, PoolIndexType, PoolFleetType, PoolStepShape DEF PoolInv, TypeOK, IndexOK
<1>7. CASE /\ (\E i \in Instance : UpkeepStep(i)) \/ SweepList
           /\ UNCHANGED <<activationVars, historyVars>>
  BY <1>1, <1>3, <1>7, UpkeepType DEF PoolInv, TypeOK, IndexOK
<1>8. ASSUME NEW i \in Instance, FleetStep(i),
             UNCHANGED <<index, activationVars, historyVars, reconcileVars>>
      PROVE  PoolInv'
  BY <1>1, <1>2, <1>3, <1>4, <1>8, FleetStepType DEF PoolInv, TypeOK, IndexOK
<1>9. CASE Tick
  <2>1. PoolPhases' /\ WritesAreListed'
    BY <1>1, <1>9 DEF Tick, ReconcileElapse, PoolPhases, WritesAreListed
  <2> QED
    BY <1>9, <2>1, ElapseType DEF PoolInv
<1>10. CASE UNCHANGED vars
  <2>1. FleetTypeOK'
    BY <1>1, <1>10 DEF vars, fleetVars, FleetTypeOK
  <2> QED
    BY <1>2, <1>3, <1>4, <1>10, <2>1 DEF vars, PoolInv, TypeOK, IndexOK
<1> QED
  BY <1>5, <1>6, <1>7, <1>8, <1>9, <1>10 DEF Next, Step

\* Every variable keeps its type, whatever the number of instances and invocations.  The
\* type of the index rests on what the pool run remembers: it writes the classification
\* of an instance, and never writes one it did not classify.
THEOREM PoolInvariant == Spec => []PoolInv
BY PoolInvInit, PoolInvStep, PTL DEF Spec

THEOREM TypeCorrect == Spec => []TypeOK
<1>1. PoolInv => TypeOK
  BY DEF PoolInv
<1> QED
  BY <1>1, PoolInvariant, PTL

-----------------------------------------------------------------------------
\* What one step of an invocation does to the claims.

\* The invocation takes an entry nobody has a live claim on, for a whole claim TTL.
Took(o, j) ==
  /\ index[j].state = "WARM"
  /\ ~LiveClaim(j)
  /\ index'[j].state = "WARM"
  /\ index'[j].owner = o
  /\ index'[j].left = ClaimTTL

\* The invocation settles an entry it owns or works on, and lets go of the instance.
Settles(o, j) ==
  /\ index[j].owner = o \/ Holds(o, j)
  /\ index'[j].owner = None
  /\ ~Holds(o, j)'

\* Each entry is left alone, taken or settled.
LEMMA ActivationEntry ==
  ASSUME IndexOK, ActivationTypeOK, NEW o \in Invocation, ActivationStep(o), NEW j \in Instance
  PROVE  index'[j] = index[j] \/ Took(o, j) \/ Settles(o, j)
<1>1. ASSUME UNCHANGED index PROVE index'[j] = index[j]
  BY <1>1
<1>2. ASSUME NEW i \in Instance, ActivateOne(o, i)
      PROVE  index'[j] = index[j] \/ Took(o, j) \/ Settles(o, j)
  <2>1. CASE ClaimOne(o, i) \/ ClaimAnswerLost(o, i) \/ ClaimError(o, i)
    <3>1. Claim(o, i) \/ UNCHANGED index
      BY <2>1 DEF ClaimOne, ClaimAnswerLost, ClaimError
    <3> QED
      BY <3>1, ClaimKeeps DEF Took, CanClaim
  <2>2. CASE Undo(o, i) \/ Record(o, i) \/ MarkDestroyed(o, i)
    <3>1. Advance(o, i, "none")
      BY <2>2 DEF Undo, Record, MarkDestroyed
    <3>2. ~Holds(o, i)'
      BY <3>1 DEF Advance, Holds, ActivationTypeOK
    <3>3. CASE Undo(o, i) \/ MarkDestroyed(o, i)
      <4>1. \/ Release(o, i) \/ ReleaseWithCooldown(o, i) \/ MarkUnusable(o, i)
            \/ UNCHANGED index
        BY <3>3 DEF Undo, MarkDestroyed, BestEffortIndex, SettleClaim
      <4> QED
        BY <3>2, <4>1, SettleKeeps DEF Settles
    <3>4. CASE Record(o, i)
      <4>1. Holds(o, i)
        BY <3>4 DEF Record, Holds
      <4>2. MarkActivated(i) \/ UNCHANGED index
        BY <3>4 DEF Record, BestEffortIndex
      <4> QED
        BY <3>2, <4>1, <4>2, MarkActivatedKeeps DEF Settles
    <3> QED
      BY <2>2, <3>3, <3>4
  <2>3. CASE SkipExhausted(o, i) \/ TagOne(o, i) \/ TagError(o, i) \/ StartOne(o, i)
             \/ StartStale(o, i) \/ StartNoCapacity(o, i) \/ StartError(o, i) \/ Untag(o, i)
             \/ Retag(o, i) \/ RegisterOne(o, i) \/ DestroyUnregistered(o, i)
    BY <1>1, <2>3 DEF SkipExhausted, TagOne, TagError, StartOne, StartStale, StartNoCapacity,
       StartError, Untag, Retag, RegisterOne, DestroyUnregistered
  <2> QED
    BY <1>2, <2>1, <2>2, <2>3 DEF ActivateOne
<1> QED
  BY <1>1, <1>2 DEF ActivationStep, Query, BeginBatch, AbortDone, BeginRegister, RegisterThrows,
     BeginSettle, NextBatch, Crash

\* A step of one invocation leaves what the others remember alone.
LEMMA ActivationFrame ==
  ASSUME ActivationTypeOK, NEW o \in Invocation, ActivationStep(o),
         NEW q \in Invocation, q # o
  PROVE  /\ stage'[q] = stage[q] /\ phase'[q] = phase[q]
         /\ runLeft'[q] = runLeft[q] /\ exhausted'[q] = exhausted[q]
<1> DEFINE Same == /\ stage'[q] = stage[q] /\ phase'[q] = phase[q]
                   /\ runLeft'[q] = runLeft[q] /\ exhausted'[q] = exhausted[q]
<1>1. ASSUME NEW i \in Instance, ActivateOne(o, i)
      PROVE  Same
  BY <1>1 DEF ActivationTypeOK, ActivateOne, ClaimOne, ClaimAnswerLost, ClaimError,
     SkipExhausted, TagOne, TagError, StartOne, StartStale, StartNoCapacity, StartError, Untag,
     Retag, Undo, RegisterOne, Record, DestroyUnregistered, MarkDestroyed, Advance, GoTo,
     BeginRollback
<1>2. ASSUME NEW n \in 1 .. MaxNeeded, Query(o, n)
      PROVE  Same
  BY <1>2 DEF ActivationTypeOK, Query, GoTo
<1> QED
  BY <1>1, <1>2 DEF ActivationTypeOK, ActivationStep, BeginBatch, AbortDone, BeginRegister,
     RegisterThrows, BeginSettle, NextBatch, Crash, Ends, GoTo

\* An invocation that holds an instance after a step goes on, and either held it before
\* or has just taken it.
LEMMA ActivationHolds ==
  ASSUME IndexOK, ActivationTypeOK, NEW o \in Invocation, ActivationStep(o),
         NEW j \in Instance, Holds(o, j)'
  PROVE  /\ runLeft'[o] = runLeft[o]
         /\ phase'[o] = phase[o] \/ Active(o)'
         /\ Holds(o, j) \/ (Took(o, j) /\ phase[o] = "claim")
<1>1. ASSUME Ends(o) PROVE FALSE
  BY <1>1 DEF Ends, Holds, ActivationTypeOK
<1>2. ASSUME NEW i \in Instance, ActivateOne(o, i)
      PROVE  /\ runLeft'[o] = runLeft[o]
             /\ phase'[o] = phase[o] \/ Active(o)'
             /\ Holds(o, j) \/ (Took(o, j) /\ phase[o] = "claim")
  <2>1. CASE ClaimOne(o, i)
    <3>1. Holds(o, j) \/ (j = i /\ CanClaim(i))
      BY <2>1 DEF ClaimOne, Advance, Holds, ActivationTypeOK
    <3>2. CanClaim(i) => Took(o, i)
      BY <2>1, ClaimKeeps DEF ClaimOne, CanClaim, Took
    <3> QED
      BY <2>1, <3>1, <3>2 DEF ClaimOne
  <2>2. CASE ClaimAnswerLost(o, i)
    BY <2>2 DEF ClaimAnswerLost, Advance, Holds, ActivationTypeOK
  <2>3. CASE ClaimError(o, i)
    BY <2>3 DEF ClaimError, Holds, GoTo, Active, ActivationTypeOK
  <2>4. CASE SkipExhausted(o, i) \/ TagError(o, i) \/ StartStale(o, i)
             \/ StartNoCapacity(o, i) \/ StartError(o, i)
    BY <2>4 DEF SkipExhausted, TagError, StartStale, StartNoCapacity, StartError, BeginRollback,
       Advance, Holds, ActivationTypeOK
  <2>5. CASE TagOne(o, i) \/ StartOne(o, i) \/ Untag(o, i) \/ Retag(o, i) \/ Undo(o, i)
             \/ RegisterOne(o, i) \/ Record(o, i) \/ DestroyUnregistered(o, i)
             \/ MarkDestroyed(o, i)
    BY <2>5 DEF TagOne, StartOne, Untag, Retag, Undo, RegisterOne, Record, DestroyUnregistered,
       MarkDestroyed, Advance, Holds, ActivationTypeOK
  <2> QED
    BY <1>2, <2>1, <2>2, <2>3, <2>4, <2>5 DEF ActivateOne
<1>3. ASSUME NEW n \in 1 .. MaxNeeded, Query(o, n)
      PROVE  FALSE
  BY <1>3 DEF Query, Holds, ActivationTypeOK
<1>4. CASE BeginBatch(o) \/ AbortDone(o) \/ Crash(o)
  BY <1>1, <1>4 DEF BeginBatch, AbortDone, Crash, GoTo, Active, Holds, ActivationTypeOK
<1>5. CASE BeginRegister(o) \/ RegisterThrows(o) \/ BeginSettle(o)
  BY <1>5 DEF BeginRegister, RegisterThrows, BeginSettle, GoTo, Active, Holds, ActivationTypeOK
<1>6. ASSUME NextBatch(o) PROVE FALSE
  <2> DEFINE left == {i \in At(o, {"candidate"}) : pairOf[i] \notin exhausted[o]}
             memory == [i \in Instance |-> IF i \in left THEN "candidate" ELSE "none"]
  <2>1. Ends(o) \/ stage' = [stage EXCEPT ![o] = memory]
    BY <1>6 DEF NextBatch
  <2>2. memory[j] \in {"candidate", "none"}
    OBVIOUS
  <2> HIDE DEF memory
  <2> QED
    BY <1>1, <2>1, <2>2 DEF Holds, ActivationTypeOK
<1> QED
  BY <1>2, <1>3, <1>4, <1>5, <1>6 DEF ActivationStep

-----------------------------------------------------------------------------
\* The inductive invariant, one step of one actor at a time.

\* A live claim of an invocation at work cannot be taken, settled or removed by another.
LEMMA HeldEntry ==
  ASSUME IInv, NEW o \in Invocation, NEW i \in Instance, Holds(o, i), i \notin torn
  PROVE  /\ index[i].owner = o
         /\ LiveClaim(i)
         /\ index[i].state # "ABSENT"
<1>1. index[i].owner = o /\ index[i].left >= runLeft[o]
  BY DEF IInv, HoldersOwn
<1>2. runLeft[o] \in 0 .. LambdaTime /\ index[i] \in Item
  BY DEF IInv, TypeOK, ActivationTypeOK
<1>3. index[i].left >= 0
  BY <1>1, <1>2, ActivationAssumption DEF ActivationAssumption, Item
<1>4. o # None
  BY IndexAssumption DEF IndexAssumption
<1> QED
  BY <1>1, <1>3, <1>4 DEF LiveClaim, IInv, AbsentIsUnowned

\* EC2 never brings back a terminated instance.
LEMMA TerminatedStays ==
  ASSUME TypeOK, [Next]_vars, NEW i \in Instance, ec2[i] = "terminated"
  PROVE  ec2'[i] = "terminated"
<1>1. ASSUME NEW o \in Invocation, ActivationStep(o) PROVE ec2'[i] = "terminated"
  <2>1. ASSUME NEW j \in Instance, ActivateOne(o, j) PROVE ec2'[i] = "terminated"
    BY <2>1 DEF ActivateOne, ClaimOne, ClaimAnswerLost, ClaimError, SkipExhausted, TagOne,
       TagError, StartOne, StartStale, StartNoCapacity, StartError, Untag, Retag, Undo,
       RegisterOne, Record, DestroyUnregistered, MarkDestroyed, StartEffect, TerminateEffect,
       Stopped, fleetVars, TypeOK, FleetTypeOK
  <2> QED
    BY <1>1, <2>1 DEF ActivationStep, Query, BeginBatch, AbortDone, BeginRegister,
       RegisterThrows, BeginSettle, NextBatch, Crash, fleetVars
<1>2. CASE PoolStep
  <2>1. ASSUME NEW j \in Instance, PoolOne(j) PROVE ec2'[i] = "terminated"
    BY <2>1 DEF PoolOne, PoolAdopt, PoolWrite, PoolDrop, PoolRemove, PoolTerminate,
       PoolTerminateError, PoolIndexLaunched, TerminateEffect, fleetVars, TypeOK, FleetTypeOK
  <2> QED
    BY <1>2, <2>1 DEF PoolStep, PoolQuery, PoolScan, PoolAdopted, PoolRead, PoolSelect,
       PoolLaunch, PoolFinish, PoolCrash, fleetVars
<1>3. CASE (\E j \in Instance : UpkeepStep(j)) \/ SweepList
  BY <1>3 DEF UpkeepStep, StopRead, StopWrite, StopError, SweepDestroy, SweepList,
     TerminateEffect, fleetVars, TypeOK, FleetTypeOK
<1>4. ASSUME NEW j \in Instance, FleetStep(j) PROVE ec2'[i] = "terminated"
  BY <1>4 DEF FleetStep, Boot, PrimeDone, StopDone, TakeConfig, FinishJob, Interrupt, LoseEvent,
     TerminateEffect, Running, TypeOK, FleetTypeOK
<1>5. CASE Tick \/ UNCHANGED vars
  BY <1>5 DEF Tick, FleetElapse, ClocksElapse, vars, fleetVars
<1> QED
  BY <1>1, <1>2, <1>3, <1>4, <1>5 DEF Next, Step

LEMMA ActivationKeeps ==
  ASSUME IInv, NEW o \in Invocation, ActivationStep(o), UNCHANGED reconcileVars
  PROVE  HoldersOwn' /\ AbsentIsUnowned' /\ DoomedIsAbsent' /\ EvictedStaysAbsent'
<1>1. IndexOK /\ ActivationTypeOK /\ TypeOK
  BY DEF IInv, TypeOK, IndexOK
<1>2. torn' = torn /\ doomed' = doomed /\ evicted' = evicted /\ toWrite' = toWrite
      /\ toIndex' = toIndex
  BY DEF reconcileVars, poolVars
<1>3. \A j \in Instance : index'[j] = index[j] \/ Took(o, j) \/ Settles(o, j)
  BY <1>1, ActivationEntry
<1>4. HoldersOwn'
  <2> SUFFICES ASSUME NEW q \in Invocation, NEW j \in Instance, Holds(q, j)'
               PROVE  /\ Active(q)'
                      /\ j \notin torn' => index'[j].owner = q /\ index'[j].left >= runLeft'[q]
    BY DEF HoldersOwn
  <2>1. CASE q = o
    <3>1. /\ runLeft'[o] = runLeft[o]
          /\ phase'[o] = phase[o] \/ Active(o)'
          /\ Holds(o, j) \/ (Took(o, j) /\ phase[o] = "claim")
      BY <1>1, <2>1, ActivationHolds
    <3>2. Active(o)'
      BY <3>1 DEF IInv, HoldersOwn, Active
    <3>3. ~Settles(o, j)
      BY <2>1 DEF Settles
    <3>4. CASE Took(o, j)
      <4>1. runLeft[o] <= ClaimTTL /\ runLeft[o] \in Nat
        BY <1>1, ActivationAssumption, IndexAssumption
           DEF ActivationAssumption, IndexAssumption, ActivationTypeOK
      <4> QED
        BY <2>1, <3>1, <3>2, <3>4, <4>1 DEF Took
    <3>5. CASE index'[j] = index[j] /\ ~Took(o, j)
      BY <1>2, <2>1, <3>1, <3>2, <3>5 DEF IInv, HoldersOwn
    <3> QED
      BY <1>3, <3>3, <3>4, <3>5
  <2>2. CASE q # o
    <3>1. stage'[q] = stage[q] /\ phase'[q] = phase[q] /\ runLeft'[q] = runLeft[q]
      BY <1>1, <2>2, ActivationFrame
    <3>2. Holds(q, j) /\ Active(q)'
      BY <3>1 DEF Holds, IInv, HoldersOwn, Active
    <3>3. ASSUME j \notin torn PROVE index'[j] = index[j]
      <4>1. index[j].owner = q /\ LiveClaim(j)
        BY <3>2, <3>3, HeldEntry
      <4>2. Holds(o, j) => index[j].owner = o
        BY <3>3, HeldEntry
      <4> QED
        BY <1>3, <2>2, <4>1, <4>2 DEF Took, Settles
    <3> QED
      BY <1>2, <3>1, <3>2, <3>3 DEF IInv, HoldersOwn
  <2> QED
    BY <2>1, <2>2
<1>5. AbsentIsUnowned'
  BY <1>3 DEF IInv, AbsentIsUnowned, Took, Settles
<1>6. ASSUME NEW j \in Instance, j \notin torn, index[j].state = "ABSENT"
      PROVE  index'[j].state = "ABSENT"
  <2>1. index[j].owner = None /\ o # None
    BY <1>6, IndexAssumption DEF IInv, AbsentIsUnowned, IndexAssumption
  <2>2. ~Holds(o, j)
    BY <1>6, HeldEntry
  <2> QED
    BY <1>3, <1>6, <2>1, <2>2 DEF Took, Settles
<1>7. DoomedIsAbsent'
  BY <1>1, <1>2, <1>6 DEF IInv, DoomedIsAbsent, TypeOK, ReconcileTypeOK
<1>8. EvictedStaysAbsent'
  <2>1. [Next]_vars
    BY DEF Next, Step
  <2> QED
    BY <1>1, <1>2, <1>6, <2>1, TerminatedStays DEF IInv, EvictedStaysAbsent, TypeOK,
       ReconcileTypeOK
<1> QED
  BY <1>4, <1>5, <1>7, <1>8

\* The pool run, the stop events and the sweep leave every claim of an invocation at work
\* in place, except the one syncIndex removes, which it records as torn.
LEMMA PoolEntry ==
  ASSUME IInv, PoolStep \/ (\E i \in Instance : UpkeepStep(i)) \/ SweepList,
         NEW j \in Instance
  PROVE  /\ torn \subseteq torn'
         /\ \/ index'[j].owner = index[j].owner /\ index'[j].left = index[j].left
            \/ index'[j] = NoItem /\ (LiveClaim(j) => j \in torn')
         /\ \/ index[j].state = "ABSENT" => index'[j].state = "ABSENT"
            \/ j \in toWrite /\ index'[j].owner = index[j].owner
               /\ index'[j].state \in {listed[j], index[j].state}
            \/ j \in toIndex /\ index'[j].owner = index[j].owner
               /\ index'[j].state \in {"PRIMING", index[j].state}
         /\ index'[j].state = "ABSENT" => index[j].state = "ABSENT" \/ index'[j] = NoItem
<1> DEFINE Goal ==
         /\ torn \subseteq torn'
         /\ \/ index'[j].owner = index[j].owner /\ index'[j].left = index[j].left
            \/ index'[j] = NoItem /\ (LiveClaim(j) => j \in torn')
         /\ \/ index[j].state = "ABSENT" => index'[j].state = "ABSENT"
            \/ j \in toWrite /\ index'[j].owner = index[j].owner
               /\ index'[j].state \in {listed[j], index[j].state}
            \/ j \in toIndex /\ index'[j].owner = index[j].owner
               /\ index'[j].state \in {"PRIMING", index[j].state}
         /\ index'[j].state = "ABSENT" => index[j].state = "ABSENT" \/ index'[j] = NoItem
<1>1. IndexOK
  BY DEF IInv, TypeOK, IndexOK
<1>2. ASSUME UNCHANGED index, torn' = torn PROVE Goal
  BY <1>2
<1>3. ASSUME NEW i \in Instance, PoolOne(i) PROVE Goal
  <2>1. CASE PoolAdopt(i) \/ PoolWrite(i)
    <3>1. listed[i] \in ItemState \ {"ABSENT"}
      BY <2>1 DEF IInv, TypeOK, ReconcileTypeOK, WritesAreListed, PoolAdopt, PoolWrite,
         Listed, ItemState
    <3>2. torn' = torn /\ i \in toWrite /\ (IndexUpdate(i, listed[i]) \/ UNCHANGED index)
      BY <2>1 DEF PoolAdopt, PoolWrite
    <3>3. CASE IndexUpdate(i, listed[i])
      <4>1. /\ \A k \in Instance : /\ k # i => index'[k] = index[k]
                                   /\ index'[k].owner = index[k].owner
                                   /\ index'[k].left = index[k].left
                                   /\ index'[k].state \in {listed[i], index[k].state}
        BY <1>1, <3>1, <3>3, IndexUpdateKeeps
      <4> QED
        BY <3>1, <3>2, <4>1
    <3> QED
      BY <1>2, <3>2, <3>3
  <2>2. CASE PoolIndexLaunched(i)
    <3>1. "PRIMING" \in ItemState
      BY DEF ItemState
    <3>2. torn' = torn /\ i \in toIndex /\ (IndexUpdate(i, "PRIMING") \/ UNCHANGED index)
      BY <2>2 DEF PoolIndexLaunched
    <3>3. CASE IndexUpdate(i, "PRIMING")
      <4>1. /\ \A k \in Instance : /\ k # i => index'[k] = index[k]
                                   /\ index'[k].owner = index[k].owner
                                   /\ index'[k].left = index[k].left
                                   /\ index'[k].state \in {"PRIMING", index[k].state}
        BY <1>1, <3>1, <3>3, IndexUpdateKeeps
      <4> QED
        BY <3>2, <4>1
    <3> QED
      BY <1>2, <3>2, <3>3
  <2>3. CASE PoolDrop(i) \/ PoolRemove(i)
    <3>1. torn \subseteq torn'
      BY <2>3 DEF PoolDrop, PoolRemove
    <3>2. UNCHANGED index \/ (Remove(i) /\ (LiveClaim(i) => i \in torn'))
      BY <2>3 DEF PoolDrop, PoolRemove, CanRemoveUnclaimed
    <3>3. CASE Remove(i) /\ (LiveClaim(i) => i \in torn')
      BY <1>1, <3>1, <3>3, RemoveKeeps, NoItemFields
    <3> QED
      BY <3>1, <3>2, <3>3
  <2>4. CASE PoolTerminate(i) \/ PoolTerminateError(i)
    BY <1>2, <2>4 DEF PoolTerminate, PoolTerminateError
  <2> QED
    BY <1>3, <2>1, <2>2, <2>3, <2>4 DEF PoolOne
<1>4. ASSUME NEW i \in Instance, UpkeepStep(i) PROVE Goal
  BY <1>1, <1>2, <1>4, MarkWarmKeeps DEF UpkeepStep, StopRead, StopWrite, StopError, SweepDestroy
<1>5. CASE SweepList
  BY <1>2, <1>5 DEF SweepList
<1> QED
  BY <1>2, <1>3, <1>4, <1>5 DEF PoolStep, PoolQuery, PoolScan, PoolAdopted, PoolRead, PoolSelect,
     PoolLaunch, PoolFinish, PoolCrash

\* What a run of the pool newly takes on concerns instances that are not terminated, and
\* what it newly terminated is what it had removed the entry of.
LEMMA PoolWork ==
  ASSUME TypeOK, PoolStep \/ (\E i \in Instance : UpkeepStep(i)) \/ SweepList
  PROVE  /\ \A j \in toWrite' \cup toIndex' :
              j \in toWrite \cup toIndex \/ (j \in Instance /\ ec2[j] # "terminated")
         /\ \A j \in evicted' \ evicted :
              /\ doomed = j /\ ec2'[j] = "terminated"
              /\ toWrite' = toWrite /\ toIndex' = toIndex
         /\ \/ doomed' = doomed
            \/ doomed' = None
            \/ \E i \in Instance : doomed' = i /\ Remove(i)
<1> DEFINE Goal ==
         /\ \A j \in toWrite' \cup toIndex' :
              j \in toWrite \cup toIndex \/ (j \in Instance /\ ec2[j] # "terminated")
         /\ \A j \in evicted' \ evicted :
              /\ doomed = j /\ ec2'[j] = "terminated"
              /\ toWrite' = toWrite /\ toIndex' = toIndex
         /\ \/ doomed' = doomed
            \/ doomed' = None
            \/ \E i \in Instance : doomed' = i /\ Remove(i)
<1>1. CASE PoolScan
  BY <1>1 DEF PoolScan, Untracked, Live, Running, Stopped
<1>2. CASE PoolRead
  <2>1. \A j \in toWrite' : j \in Instance /\ ec2[j] # "terminated"
    BY <1>2 DEF PoolRead
  <2>2. UNCHANGED <<toIndex, evicted, doomed>>
    BY <1>2 DEF PoolRead
  <2> QED
    BY <2>1, <2>2
<1>3. CASE PoolLaunch
  <2>1. \A j \in toIndex' : j \in Instance /\ ec2[j] # "terminated"
    BY <1>3 DEF PoolLaunch
  <2>2. UNCHANGED <<toWrite, evicted, doomed>>
    BY <1>3 DEF PoolLaunch
  <2> QED
    BY <2>1, <2>2
<1>4. CASE (\E n \in Sizes : PoolQuery(n)) \/ PoolAdopted \/ PoolSelect
  BY <1>4 DEF PoolQuery, PoolAdopted, PoolSelect
<1>5. CASE PoolFinish \/ PoolCrash
  BY <1>5 DEF PoolFinish, PoolCrash, PoolForgets
<1>6. ASSUME NEW i \in Instance, PoolOne(i) PROVE Goal
  <2>1. CASE PoolAdopt(i) \/ PoolWrite(i) \/ PoolDrop(i) \/ PoolIndexLaunched(i)
    BY <2>1 DEF PoolAdopt, PoolWrite, PoolDrop, PoolIndexLaunched
  <2>2. CASE PoolRemove(i)
    BY <2>2 DEF PoolRemove
  <2>3. CASE PoolTerminate(i) \/ PoolTerminateError(i)
    BY <2>3 DEF PoolTerminate, PoolTerminateError, TerminateEffect, TypeOK, FleetTypeOK
  <2> QED
    BY <1>6, <2>1, <2>2, <2>3 DEF PoolOne
<1>7. CASE (\E i \in Instance : UpkeepStep(i)) \/ SweepList
  BY <1>7 DEF UpkeepStep, StopRead, StopWrite, StopError, SweepDestroy, SweepList, poolVars
<1> QED
  BY <1>1, <1>2, <1>3, <1>4, <1>5, <1>6, <1>7 DEF PoolStep

LEMMA ReconcileKeeps ==
  ASSUME IInv, PoolStep \/ (\E i \in Instance : UpkeepStep(i)) \/ SweepList,
         UNCHANGED <<activationVars, historyVars>>
  PROVE  HoldersOwn' /\ AbsentIsUnowned' /\ DoomedIsAbsent' /\ EvictedStaysAbsent'
<1>1. TypeOK /\ PoolPhases /\ [Next]_vars
  BY DEF IInv, Next, Step
<1>2. stage' = stage /\ phase' = phase /\ runLeft' = runLeft
  BY DEF activationVars
<1>3. torn \subseteq torn'
  <2>1. CASE Instance = {}
    BY <2>1, <1>1 DEF TypeOK, ReconcileTypeOK
  <2>2. CASE Instance # {}
    BY <2>2, PoolEntry
  <2> QED
    BY <2>1, <2>2
<1>4. HoldersOwn'
  <2> SUFFICES ASSUME NEW q \in Invocation, NEW j \in Instance, Holds(q, j)'
               PROVE  /\ Active(q)'
                      /\ j \notin torn' => index'[j].owner = q /\ index'[j].left >= runLeft'[q]
    BY DEF HoldersOwn
  <2>1. Holds(q, j) /\ (Active(q)' <=> Active(q))
    BY <1>2 DEF Holds, Active
  <2>2. ASSUME j \notin torn'
        PROVE  index'[j].owner = index[j].owner /\ index'[j].left = index[j].left
    BY <1>3, <2>1, <2>2, HeldEntry, PoolEntry
  <2> QED
    BY <1>2, <1>3, <2>1, <2>2 DEF IInv, HoldersOwn
<1>5. AbsentIsUnowned'
  <2> SUFFICES ASSUME NEW j \in Instance, index'[j].state = "ABSENT"
               PROVE  index'[j].owner = None
    BY DEF AbsentIsUnowned
  <2> QED
    BY PoolEntry, NoItemFields DEF IInv, AbsentIsUnowned
<1>6. ASSUME NEW j \in Instance, j \notin toWrite \cup toIndex, index[j].state = "ABSENT"
      PROVE  index'[j].state = "ABSENT"
  BY <1>6, PoolEntry
<1>7. doomed # None => toWrite = {} /\ toIndex = {}
  BY <1>1 DEF PoolPhases
<1>8. DoomedIsAbsent'
  <2> SUFFICES ASSUME doomed' # None, doomed' \notin torn'
               PROVE  index'[doomed'].state = "ABSENT"
    BY DEF DoomedIsAbsent
  <2>1. CASE doomed' = doomed
    BY <1>1, <1>3, <1>6, <1>7, <2>1 DEF IInv, DoomedIsAbsent, TypeOK, ReconcileTypeOK
  <2>2. ASSUME NEW i \in Instance, doomed' = i, Remove(i)
        PROVE  index'[doomed'].state = "ABSENT"
    BY <1>1, <2>2, RemoveKeeps, NoItemFields DEF TypeOK, IndexOK
  <2> QED
    BY <1>1, <2>1, <2>2, PoolWork
<1>9. EvictedStaysAbsent'
  <2> SUFFICES ASSUME NEW j \in evicted'
               PROVE  /\ ec2'[j] = "terminated"
                      /\ j \notin toWrite' \cup toIndex'
                      /\ j \notin torn' => index'[j].state = "ABSENT"
    BY DEF EvictedStaysAbsent
  <2>1. CASE j \in evicted
    <3>1. /\ j \in Instance /\ ec2[j] = "terminated"
          /\ j \notin toWrite \cup toIndex
          /\ j \notin torn => index[j].state = "ABSENT"
      BY <1>1, <2>1 DEF IInv, EvictedStaysAbsent, TypeOK, ReconcileTypeOK
    <3> QED
      BY <1>1, <1>3, <1>6, <3>1, PoolWork, TerminatedStays
  <2>2. CASE j \notin evicted
    <3>1. /\ doomed = j /\ ec2'[j] = "terminated"
          /\ toWrite' = toWrite /\ toIndex' = toIndex
      BY <1>1, <2>2, PoolWork
    <3>2. j \in Instance
      <4>1. j # None
        <5>1. evicted' \subseteq Instance
          BY PoolStepShape, UpkeepType DEF IInv, PoolInv, ReconcileTypeOK
        <5> QED
          BY <5>1, IndexAssumption DEF IndexAssumption
      <4> QED
        BY <1>1, <3>1, <4>1 DEF TypeOK, ReconcileTypeOK
    <3>3. j # None
      BY <3>2, IndexAssumption DEF IndexAssumption
    <3> QED
      BY <1>3, <1>6, <1>7, <3>1, <3>2, <3>3 DEF IInv, DoomedIsAbsent
  <2> QED
    BY <2>1, <2>2
<1> QED
  BY <1>4, <1>5, <1>8, <1>9

-----------------------------------------------------------------------------
LEMMA SafetyInit == Init => HoldersOwn /\ AbsentIsUnowned /\ DoomedIsAbsent /\ EvictedStaysAbsent
BY DEF Init, IndexInit, NoItem, ActivationInit, ReconcileInit, HoldersOwn, Holds, AbsentIsUnowned,
   DoomedIsAbsent, EvictedStaysAbsent

\* Claims and Lambda time run out together: a claim outlives the invocation that took it.
LEMMA ElapseKeeps ==
  ASSUME IInv, Tick
  PROVE  HoldersOwn' /\ AbsentIsUnowned' /\ DoomedIsAbsent' /\ EvictedStaysAbsent'
<1>1. TypeOK /\ [Next]_vars
  BY DEF IInv, Next
<1>2. \A j \in Instance :
        /\ index'[j].state = index[j].state
        /\ index'[j].owner = index[j].owner
        /\ index[j].left >= 0 => index'[j].left = index[j].left - 1
  BY <1>1, OlderFields DEF TypeOK, Tick, IndexElapse
<1>3. UNCHANGED <<toWrite, toIndex, doomed, evicted, torn>>
  BY DEF Tick, ReconcileElapse
<1>4. HoldersOwn'
  <2> SUFFICES ASSUME NEW q \in Invocation, NEW j \in Instance, Holds(q, j)'
               PROVE  /\ Active(q)'
                      /\ j \notin torn' => index'[j].owner = q /\ index'[j].left >= runLeft'[q]
    BY DEF HoldersOwn
  <2>1. Holds(q, j) /\ Active(q)' /\ Active(q)
    BY DEF Tick, ActivationElapse, Holds, IInv, HoldersOwn, Active
  <2>2. runLeft[q] > 0 /\ runLeft'[q] = runLeft[q] - 1
    BY <2>1 DEF Tick, ActivationElapse
  <2>3. runLeft[q] \in Int /\ index[j].left \in Int
    BY <1>1, ActivationAssumption, IndexAssumption
       DEF ActivationAssumption, IndexAssumption, TypeOK, ActivationTypeOK, Item
  <2>4. j \notin torn => index[j].owner = q /\ index[j].left >= runLeft[q]
    BY <2>1 DEF IInv, HoldersOwn
  <2> QED
    BY <1>2, <1>3, <2>1, <2>2, <2>3, <2>4
<1>5. AbsentIsUnowned'
  BY <1>2 DEF IInv, AbsentIsUnowned
<1>6. DoomedIsAbsent'
  BY <1>1, <1>2, <1>3 DEF IInv, DoomedIsAbsent, TypeOK, ReconcileTypeOK
<1>7. EvictedStaysAbsent'
  BY <1>1, <1>2, <1>3, TerminatedStays DEF IInv, EvictedStaysAbsent, TypeOK, ReconcileTypeOK
<1> QED
  BY <1>4, <1>5, <1>6, <1>7

\* A step of the fleet alone, or none at all.
LEMMA FleetKeeps ==
  ASSUME IInv, [Next]_vars, UNCHANGED <<index, activationVars, historyVars, reconcileVars>>
  PROVE  HoldersOwn' /\ AbsentIsUnowned' /\ DoomedIsAbsent' /\ EvictedStaysAbsent'
<1>1. HoldersOwn' /\ AbsentIsUnowned' /\ DoomedIsAbsent'
  BY DEF activationVars, reconcileVars, poolVars, IInv, HoldersOwn, Holds, Active,
     AbsentIsUnowned, DoomedIsAbsent
<1>2. EvictedStaysAbsent'
  BY TerminatedStays DEF reconcileVars, poolVars, IInv, EvictedStaysAbsent, TypeOK,
     ReconcileTypeOK
<1> QED
  BY <1>1, <1>2

LEMMA SafetyStep == IInv /\ [Next]_vars => IInv'
<1> SUFFICES ASSUME IInv, [Next]_vars PROVE IInv'
  OBVIOUS
<1> DEFINE Claims == HoldersOwn /\ AbsentIsUnowned /\ DoomedIsAbsent /\ EvictedStaysAbsent
<1>1. PoolInv'
  BY PoolInvStep DEF IInv, PoolInv
<1>2. ASSUME NEW o \in Invocation, ActivationStep(o), UNCHANGED reconcileVars
      PROVE  Claims'
  BY <1>2, ActivationKeeps
<1>3. ASSUME PoolStep \/ (\E i \in Instance : UpkeepStep(i)) \/ SweepList,
             UNCHANGED <<activationVars, historyVars>>
      PROVE  Claims'
  BY <1>3, ReconcileKeeps
<1>4. ASSUME UNCHANGED <<index, activationVars, historyVars, reconcileVars>>
      PROVE  Claims'
  BY <1>4, FleetKeeps
<1>5. ASSUME Tick PROVE Claims'
  BY <1>5, ElapseKeeps
<1>6. Claims'
  BY <1>2, <1>3, <1>4, <1>5 DEF Next, Step, vars
<1> QED
  BY <1>1, <1>6 DEF IInv, PoolInv

\* The inductive invariant: while an invocation works on an instance the index entry names
\* it and its claim does not run out first; and what the pool is about to terminate, or has
\* terminated, has no entry left to claim and none still to be written.
THEOREM InductiveInvariant == Spec => []IInv
<1>1. Init => IInv
  BY PoolInvInit, SafetyInit DEF IInv, PoolInv
<1> QED
  BY <1>1, SafetyStep, PTL DEF Spec

\* Two invocations never work on the same instance at the same time, as long as syncIndex
\* did not remove its entry (warm-index.ts claim, for any TTL of at least the Lambda timeout).
THEOREM Exclusive == Spec => []ExclusiveActivation
<1>1. IInv => ExclusiveActivation
  BY DEF IInv, HoldersOwn, ExclusiveActivation, Holders
<1> QED
  BY <1>1, InductiveInvariant, PTL

\* Between removeUnclaimed and TerminateInstances no invocation gets hold of the instance.
THEOREM SparesHeld == Spec => []PoolSparesHeld
<1>1. IInv => PoolSparesHeld
  <2> SUFFICES ASSUME IInv, doomed # None, doomed \notin torn,
                      NEW o \in Holders(doomed)
               PROVE  FALSE
    BY DEF PoolSparesHeld
  <2>1. doomed \in Instance /\ o \in Invocation /\ Holds(o, doomed)
    BY DEF IInv, TypeOK, ReconcileTypeOK, Holders
  <2> QED
    BY <2>1, HeldEntry DEF IInv, DoomedIsAbsent
<1> QED
  BY <1>1, InductiveInvariant, PTL
=============================================================================
