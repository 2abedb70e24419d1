--------------------------- MODULE WarmClaimProofs ---------------------------
(****************************************************************************)
(* What becomes of the claims of an activation, for every number of         *)
(* instances, invocations and batches: WarmPool implements WarmLease, every *)
(* way out of activateBatch (warm-activation.ts) settles its claim, a       *)
(* capacity error keeps the rest of its type and zone untouched, and an     *)
(* invocation never has more instances in hand than it needs runners.       *)
(****************************************************************************)
EXTENDS WarmPoolProofs, FiniteSetTheorems

-----------------------------------------------------------------------------
\* Every initial state of the pool is one of the leases, and every step
\* acquires, lets go of, withdraws or voids a lease, or changes none.

\* The refinement mapping of WarmPool.
Leased == [i \in Instance |-> IF i \in torn THEN {} ELSE Holders(i)]

\* One step of an invocation takes at most one instance, and then lets go of none.
LEMMA HoldsOne ==
  ASSUME IInv, NEW o \in Invocation, ActivationStep(o)
  PROVE  \/ \A j \in Instance : Holds(o, j)' => Holds(o, j)
         \/ \E i \in Instance :
              /\ CanClaim(i)
              /\ \A j \in Instance : Holds(o, j)' <=> Holds(o, j) \/ j = i
<1>1. IndexOK /\ ActivationTypeOK
  BY DEF IInv, TypeOK, IndexOK
<1>2. CASE \A i \in Instance : ~ClaimOne(o, i)
  <2>1. ASSUME NEW i \in Instance, ActivateOne(o, i), NEW j \in Instance, Holds(o, j)'
        PROVE  Holds(o, j)
    <3>1. CASE ClaimAnswerLost(o, i) \/ ClaimError(o, i)
      BY <1>1, <2>1, <3>1 DEF ClaimAnswerLost, ClaimError, Advance, Holds, ActivationTypeOK
    <3>2. CASE SkipExhausted(o, i) \/ TagError(o, i) \/ StartStale(o, i)
               \/ StartNoCapacity(o, i) \/ StartError(o, i)
      BY <1>1, <2>1, <3>2 DEF SkipExhausted, TagError, StartStale, StartNoCapacity, StartError,
         BeginRollback, Advance, Holds, BetweenInstances, ActivationTypeOK
    <3>3. CASE TagOne(o, i) \/ StartOne(o, i) \/ Untag(o, i) \/ Retag(o, i) \/ Undo(o, i)
               \/ RegisterOne(o, i) \/ Record(o, i) \/ DestroyUnregistered(o, i)
               \/ MarkDestroyed(o, i)
      BY <1>1, <2>1, <3>3 DEF TagOne, StartOne, Untag, Retag, Undo, RegisterOne, Record,
         DestroyUnregistered, MarkDestroyed, Advance, Holds, ActivationTypeOK
    <3> QED
      BY <1>2, <2>1, <3>1, <3>2, <3>3 DEF ActivateOne
  <2>2. ASSUME NEW j \in Instance, Holds(o, j)',
               ~(\E i \in Instance : ActivateOne(o, i))
        PROVE  Holds(o, j)
    BY <1>1, <2>2 DEF ActivationStep, Query, BeginBatch, AbortDone, BeginRegister,
       RegisterThrows, BeginSettle, NextBatch, Crash, Ends, Holds, ActivationTypeOK, At
  <2> QED
    BY <2>1, <2>2
<1>3. ASSUME NEW i \in Instance, ClaimOne(o, i)
      PROVE  \/ \A j \in Instance : Holds(o, j)' => Holds(o, j)
             \/ /\ CanClaim(i)
                /\ \A j \in Instance : Holds(o, j)' <=> Holds(o, j) \/ j = i
  BY <1>1, <1>3 DEF ClaimOne, Advance, Holds, ActivationTypeOK
<1> QED
  BY <1>2, <1>3

LEMMA ActivationLease ==
  ASSUME IInv, NEW o \in Invocation, ActivationStep(o), UNCHANGED reconcileVars
  PROVE  \/ \E i \in Instance : Lease!Acquire(o, i)
         \/ \E S \in SUBSET Instance : Lease!LetGo(o, S)
         \/ UNCHANGED <<Leased, evicted, torn>>
<1>1. ActivationTypeOK /\ UNCHANGED <<torn, evicted>>
  BY DEF IInv, TypeOK, reconcileVars
<1>2. ASSUME NEW q \in Invocation, q # o, NEW j \in Instance
      PROVE  Holds(q, j)' <=> Holds(q, j)
  BY <1>1, <1>2, ActivationFrame DEF Holds
<1>3. ASSUME NEW j \in Instance \ torn, Holds(o, j)
      PROVE  Holders(j) = {o}
  BY <1>3, HeldEntry DEF Holders
<1>4. CASE \A j \in Instance : Holds(o, j)' => Holds(o, j)
  <2> PICK S \in SUBSET Instance : S = {j \in Instance \ torn : Holds(o, j) /\ ~Holds(o, j)'}
    OBVIOUS
  <2>1. \A j \in S : Leased[j] = {o}
    BY <1>3 DEF Leased
  <2>2. \A j \in Instance : Leased'[j] = IF j \in S THEN {} ELSE Leased[j]
    <3> TAKE j \in Instance
    <3>1. Leased'[j] = IF j \in torn THEN {} ELSE Holders(j)'
      BY <1>1 DEF Leased
    <3>2. CASE j \in S
      BY <1>2, <1>3, <3>1, <3>2 DEF Holders
    <3>3. CASE j \in torn
      BY <3>1, <3>3 DEF Leased
    <3>4. CASE j \notin S /\ j \notin torn
      <4>1. Holders(j)' = Holders(j)
        BY <1>2, <1>4, <3>4 DEF Holders
      <4> QED
        BY <3>1, <3>4, <4>1 DEF Leased
    <3> QED
      BY <3>2, <3>3, <3>4
  <2>3. Leased' = [j \in Instance |-> IF j \in S THEN {} ELSE Leased[j]]
    BY <2>2 DEF Leased
  <2>4. Lease!LetGo(o, S)
    BY <1>1, <2>1, <2>3 DEF Lease!LetGo, Leased
  <2> QED
    BY <2>4
<1>5. ASSUME NEW i \in Instance, CanClaim(i),
             \A j \in Instance : Holds(o, j)' <=> Holds(o, j) \/ j = i
      PROVE  \/ Lease!Acquire(o, i)
             \/ UNCHANGED <<Leased, evicted, torn>>
  <2>1. ASSUME NEW j \in Instance \ torn, j # i PROVE Holders(j)' = Holders(j)
    BY <1>2, <1>5, <2>1 DEF Holders
  <2>2. CASE i \in torn
    BY <1>1, <2>1, <2>2 DEF Leased
  <2>3. CASE i \notin torn
    <3>1. Holders(i) = {}
      BY <1>5, <2>3, HeldEntry DEF CanClaim, Holders
    <3>2. Holders(i)' = {o}
      BY <1>2, <1>5, <3>1 DEF Holders
    <3>3. i \notin evicted
      BY <1>5, <2>3 DEF IInv, EvictedStaysAbsent, CanClaim
    <3>4. Leased' = [Leased EXCEPT ![i] = {o}]
      BY <1>1, <2>1, <2>3, <3>2 DEF Leased
    <3> QED
      BY <1>1, <2>3, <3>1, <3>3, <3>4 DEF Lease!Acquire, Leased
  <2> QED
    BY <2>2, <2>3
<1> QED
  BY <1>4, <1>5, HoldsOne

\* The pool withdraws the instance it has removed the entry of, and a run that removes a
\* claimed entry voids the lease; nothing else it does concerns the leases.
LEMMA ReconcileLease ==
  ASSUME IInv, PoolStep \/ (\E i \in Instance : UpkeepStep(i)) \/ SweepList,
         UNCHANGED <<activationVars, historyVars>>
  PROVE  \/ \E i \in Instance : Lease!Withdraw(i) \/ Lease!Void(i)
         \/ UNCHANGED <<Leased, evicted, torn>>
<1>1. \A j \in Instance : Holders(j)' = Holders(j)
  BY DEF Holders, Holds, activationVars
<1>2. ASSUME UNCHANGED torn PROVE Leased' = Leased
  BY <1>1, <1>2 DEF Leased
<1>3. ASSUME NEW i \in Instance, PoolOne(i)
      PROVE  Lease!Withdraw(i) \/ Lease!Void(i) \/ UNCHANGED <<Leased, evicted, torn>>
  <2>1. CASE PoolDrop(i)
    <3>1. CASE UNCHANGED torn
      BY <1>2, <2>1, <3>1 DEF PoolDrop
    <3>2. CASE torn' = torn \cup {i}
      <4>1. Leased' = [Leased EXCEPT ![i] = {}]
        BY <1>1, <3>2 DEF Leased
      <4> QED
        BY <2>1, <3>2, <4>1 DEF PoolDrop, Lease!Void, Leased
    <3> QED
      BY <2>1, <3>1, <3>2 DEF PoolDrop
  <2>2. CASE PoolTerminate(i) \/ PoolTerminateError(i)
    <3>1. Leased' = Leased /\ UNCHANGED torn
      BY <1>2, <2>2 DEF PoolTerminate, PoolTerminateError
    <3>2. evicted' = evicted \cup {i} \/ evicted' = evicted
      BY <2>2 DEF PoolTerminate, PoolTerminateError
    <3>3. Leased[i] = {}
      <4>1. i # None /\ doomed = i
        BY <2>2, IndexAssumption DEF IndexAssumption, PoolTerminate, PoolTerminateError
      <4>2. i \notin torn => Holders(i) = {}
        BY <4>1, HeldEntry DEF IInv, DoomedIsAbsent, Holders
      <4> QED
        BY <4>2 DEF Leased
    <3> QED
      BY <3>1, <3>2, <3>3 DEF Lease!Withdraw, Leased
  <2>3. CASE PoolAdopt(i) \/ PoolWrite(i) \/ PoolRemove(i) \/ PoolIndexLaunched(i)
    BY <1>2, <2>3 DEF PoolAdopt, PoolWrite, PoolRemove, PoolIndexLaunched
  <2> QED
    BY <1>3, <2>1, <2>2, <2>3 DEF PoolOne
<1>4. CASE (\E i \in Instance : UpkeepStep(i)) \/ SweepList
  BY <1>2, <1>4 DEF UpkeepStep, StopRead, StopWrite, StopError, SweepDestroy, SweepList
<1>5. CASE PoolStep /\ ~(\E i \in Instance : PoolOne(i))
  BY <1>2, <1>5 DEF PoolStep, PoolQuery, PoolScan, PoolAdopted, PoolRead, PoolSelect, PoolLaunch,
     PoolFinish, PoolCrash
<1> QED
  BY <1>3, <1>4, <1>5

\* The pool keeps the promise of the claims: at most one invocation holds an instance, and
\* the pool withdraws only instances nobody holds.
THEOREM ImplementsLease == Spec => LeaseSpec
<1>1. Init => Lease!LeaseInit
  BY DEF Init, ActivationInit, ReconcileInit, Holders, Holds, Lease!LeaseInit
<1>2. IInv /\ [Next]_vars => [Lease!LeaseNext]_(Lease!leaseVars)
  <2> SUFFICES ASSUME IInv, [Next]_vars
               PROVE  Lease!LeaseNext \/ UNCHANGED <<Leased, evicted, torn>>
    BY DEF Lease!leaseVars, Leased
  <2>1. ASSUME NEW o \in Invocation, ActivationStep(o), UNCHANGED reconcileVars
        PROVE  Lease!LeaseNext \/ UNCHANGED <<Leased, evicted, torn>>
    BY <2>1, ActivationLease DEF Lease!LeaseNext
  <2>2. ASSUME PoolStep \/ (\E i \in Instance : UpkeepStep(i)) \/ SweepList,
               UNCHANGED <<activationVars, historyVars>>
        PROVE  Lease!LeaseNext \/ UNCHANGED <<Leased, evicted, torn>>
    BY <2>2, ReconcileLease DEF Lease!LeaseNext
  <2>3. ASSUME UNCHANGED stage, UNCHANGED <<evicted, torn>>
        PROVE  UNCHANGED <<Leased, evicted, torn>>
    BY <2>3 DEF Leased, Holders, Holds
  <2>4. ASSUME NEW i \in Instance,
               UNCHANGED <<index, activationVars, historyVars, reconcileVars>>
        PROVE  UNCHANGED <<Leased, evicted, torn>>
    BY <2>3, <2>4 DEF activationVars, reconcileVars
  <2>5. ASSUME Tick \/ UNCHANGED vars
        PROVE  UNCHANGED <<Leased, evicted, torn>>
    BY <2>3, <2>5 DEF Tick, ActivationElapse, ReconcileElapse, vars, activationVars, reconcileVars
  <2> QED
    BY <2>1, <2>2, <2>4, <2>5 DEF Next, Step
<1> QED
  BY <1>1, <1>2, InductiveInvariant, PTL DEF Spec, LeaseSpec, Lease!LeaseSpec

-----------------------------------------------------------------------------
\* What an activation leaves behind.

Unsettled == {"tagged", "untag", "retag", "undo"}

\* While it claims, an invocation holds claimed instances only; after a failed claim it
\* only releases what it claimed.
PhaseStages ==
  \A o \in Invocation, i \in Instance :
    /\ phase[o] = "claim" => stage[o][i] \in {"none", "candidate", "claimed"}
    /\ phase[o] = "abort" => stage[o][i] \in {"none", "undo"}

\* The first loop of activateBatch has one instance in hand at a time.
OneUnsettled ==
  \A o \in Invocation, i, j \in Instance :
    /\ phase[o] # "abort"
    /\ stage[o][i] \in Unsettled
    /\ stage[o][j] \in Unsettled
    => i = j

Settling == PhaseStages /\ OneUnsettled /\ ExhaustedPairsAreLeftAlone /\ EndedClaimsAreLoose

\* What the four parts say about one invocation.
SettlingOf(o) ==
  /\ \A i \in Instance :
       /\ phase[o] = "claim" => stage[o][i] \in {"none", "candidate", "claimed"}
       /\ phase[o] = "abort" => stage[o][i] \in {"none", "undo"}
       /\ stage[o][i] = "tagged" => pairOf[i] \notin exhausted[o]
  /\ \A i, j \in Instance :
       phase[o] # "abort" /\ stage[o][i] \in Unsettled /\ stage[o][j] \in Unsettled => i = j

\* An invocation that has ended, or only has candidates, keeps no obligation.
LEMMA NothingHeld ==
  ASSUME NEW o \in Invocation, \A i \in Instance : stage'[o][i] \in {"none", "candidate"},
         phase'[o] # "abort"
  PROVE  SettlingOf(o)'
BY DEF SettlingOf, Unsettled

\* A step on one instance of the invocation.
LEMMA SettlingOne ==
  ASSUME ActivationTypeOK, NEW o \in Invocation, SettlingOf(o),
         NEW i \in Instance, ActivateOne(o, i)
  PROVE  SettlingOf(o)'
<1>1. ASSUME NEW s \in Stage, Advance(o, i, s)
      PROVE  stage'[o][i] = s /\ \A j \in Instance : j # i => stage'[o][j] = stage[o][j]
  BY <1>1 DEF Advance, ActivationTypeOK
<1>2. CASE ClaimOne(o, i) \/ ClaimAnswerLost(o, i)
  BY <1>1, <1>2 DEF ClaimOne, ClaimAnswerLost, SettlingOf, Unsettled, Stage
<1>3. CASE ClaimError(o, i)
  <2>1. phase'[o] = "abort"
    BY <1>3 DEF ClaimError, GoTo, ActivationTypeOK
  <2>2. \A j \in Instance : stage'[o][j] \in {"none", "undo"}
    BY <1>3 DEF ClaimError, ActivationTypeOK
  <2> QED
    BY <2>1, <2>2 DEF SettlingOf
<1>4. CASE SkipExhausted(o, i) \/ TagError(o, i)
  <2>1. /\ \A j \in Instance : stage[o][j] \notin Unsettled
        /\ phase[o] = "start" /\ phase' = phase /\ exhausted' = exhausted
    BY <1>4 DEF SkipExhausted, TagError, BetweenInstances, At, Unsettled
  <2>2. Advance(o, i, "undo") \/ Advance(o, i, "untag")
    BY <1>4 DEF SkipExhausted, TagError, BeginRollback
  <2> QED
    BY <1>1, <2>1, <2>2 DEF SettlingOf, Unsettled, Stage
<1>5. CASE TagOne(o, i)
  <2>1. /\ \A j \in Instance : stage[o][j] \notin Unsettled
        /\ phase[o] = "start" /\ phase' = phase /\ exhausted' = exhausted
        /\ pairOf[i] \notin exhausted[o] /\ Advance(o, i, "tagged")
    BY <1>5 DEF TagOne, BetweenInstances, At, Unsettled
  <2> QED
    BY <1>1, <2>1 DEF SettlingOf, Unsettled, Stage
<1>6. CASE StartStale(o, i) \/ StartError(o, i) \/ StartNoCapacity(o, i)
  <2>1. /\ stage[o][i] = "tagged" /\ phase' = phase /\ Advance(o, i, "untag")
        /\ exhausted'[o] \subseteq exhausted[o] \cup {pairOf[i]}
    BY <1>6 DEF StartStale, StartError, StartNoCapacity, BeginRollback, ActivationTypeOK
  <2>2. phase[o] \notin {"claim", "abort"}
    BY <2>1 DEF SettlingOf
  <2>3. \A j \in Instance : j # i => stage'[o][j] \notin Unsettled
    BY <1>1, <2>1, <2>2 DEF SettlingOf, Unsettled, Stage
  <2>4. stage'[o][i] = "untag"
    BY <1>1, <2>1 DEF Stage
  <2> QED
    BY <2>1, <2>2, <2>3, <2>4 DEF SettlingOf, Unsettled
<1>7. CASE StartOne(o, i) \/ Untag(o, i) \/ Retag(o, i)
  BY <1>1, <1>7 DEF StartOne, Untag, Retag, SettlingOf, Unsettled, Stage
<1>8. CASE Undo(o, i) \/ RegisterOne(o, i) \/ Record(o, i) \/ DestroyUnregistered(o, i)
           \/ MarkDestroyed(o, i)
  BY <1>1, <1>8 DEF Undo, RegisterOne, Record, DestroyUnregistered, MarkDestroyed, SettlingOf,
     Unsettled, Stage
<1> QED
  BY <1>2, <1>3, <1>4, <1>5, <1>6, <1>7, <1>8 DEF ActivateOne

LEMMA SettlingLocal ==
  ASSUME IInv, NEW o \in Invocation, SettlingOf(o), ActivationStep(o)
  PROVE  SettlingOf(o)'
<1>1. ActivationTypeOK
  BY DEF IInv, TypeOK
<1>2. ASSUME Ends(o) PROVE SettlingOf(o)'
  BY <1>1, <1>2, NothingHeld DEF Ends, GoTo, ActivationTypeOK
<1>3. ASSUME NEW n \in 1 .. MaxNeeded, Query(o, n)
      PROVE  SettlingOf(o)'
  BY <1>1, <1>3, NothingHeld DEF Query, GoTo, ActivationTypeOK
<1>4. CASE BeginBatch(o)
  <2>1. CASE ~Ends(o)
    BY <1>1, <1>4, <2>1 DEF BeginBatch, GoTo, ActivationTypeOK, SettlingOf, Unsettled
  <2> QED
    BY <1>2, <2>1
<1>5. CASE AbortDone(o) \/ Crash(o)
  BY <1>2, <1>5 DEF AbortDone, Crash
<1>6. CASE BeginRegister(o) \/ BeginSettle(o)
  <2>1. phase'[o] \in {"register", "settle"} /\ phase[o] # "abort"
    BY <1>1, <1>6 DEF BeginRegister, BeginSettle, BetweenInstances, GoTo, ActivationTypeOK
  <2>2. stage' = stage /\ exhausted' = exhausted
    BY <1>6 DEF BeginRegister, BeginSettle
  <2> QED
    BY <2>1, <2>2 DEF SettlingOf
<1>7. CASE RegisterThrows(o)
  <2>1. \A j \in Instance : stage'[o][j] \in {stage[o][j], "unregistered"}
    BY <1>1, <1>7 DEF RegisterThrows, ActivationTypeOK
  <2>2. phase[o] = "register" /\ phase' = phase /\ exhausted' = exhausted
    BY <1>7 DEF RegisterThrows
  <2> QED
    BY <2>1, <2>2 DEF SettlingOf, Unsettled
<1>8. CASE NextBatch(o)
  <2> DEFINE left == {i \in At(o, {"candidate"}) : pairOf[i] \notin exhausted[o]}
             memory == [i \in Instance |-> IF i \in left THEN "candidate" ELSE "none"]
  <2>1. Ends(o) \/ (stage' = [stage EXCEPT ![o] = memory] /\ GoTo(o, "claim"))
    BY <1>8 DEF NextBatch
  <2>2. \A j \in Instance : memory[j] \in {"candidate", "none"}
    OBVIOUS
  <2> HIDE DEF memory
  <2> QED
    BY <1>1, <1>2, <2>1, <2>2, NothingHeld DEF GoTo, ActivationTypeOK
<1> QED
  BY <1>1, <1>2, <1>3, <1>4, <1>5, <1>6, <1>7, <1>8, SettlingOne DEF ActivationStep

\* What was lost track of stays on record.
LEMMA LooseGrows ==
  ASSUME NEW o \in Invocation, ActivationStep(o)
  PROVE  loose \subseteq loose'
<1>1. ASSUME NEW i \in Instance, ActivateOne(o, i) PROVE loose \subseteq loose'
  BY <1>1 DEF ActivateOne, ClaimOne, ClaimAnswerLost, ClaimError, SkipExhausted, TagOne,
     TagError, StartOne, StartStale, StartNoCapacity, StartError, Untag, Retag, Undo,
     RegisterOne, Record, DestroyUnregistered, MarkDestroyed, BestEffortIndex, historyVars
<1> QED
  BY <1>1 DEF ActivationStep, Query, BeginBatch, AbortDone, BeginRegister, RegisterThrows,
     BeginSettle, NextBatch, Crash, historyVars

-----------------------------------------------------------------------------
\* Only the invocation that takes a step changes what it holds and what it owns.
LEMMA EndedClaimsStep ==
  ASSUME IInv, Settling, NEW o \in Invocation, ActivationStep(o)
  PROVE  EndedClaimsAreLoose'
<1>1. IndexOK /\ ActivationTypeOK /\ None \notin Invocation
  BY IndexAssumption DEF IInv, TypeOK, IndexOK, IndexAssumption
<1>2. loose \subseteq loose'
  BY LooseGrows
<1>3. ASSUME NEW q \in Invocation, q # o, NEW j \in Instance, index'[j].owner = q
      PROVE  Holds(q, j)' \/ j \in loose'
  <2>1. index'[j] = index[j]
    BY <1>1, <1>3, ActivationEntry DEF Took, Settles
  <2>2. Holds(q, j) \/ j \in loose
    BY <1>3, <2>1 DEF Settling, EndedClaimsAreLoose
  <2> QED
    BY <1>1, <1>2, <1>3, <2>2, ActivationFrame DEF Holds
<1>4. ASSUME NEW j \in Instance, index'[j].owner = o, ~Holds(o, j)', j \notin loose'
      PROVE  FALSE
  <2>1. ASSUME UNCHANGED index PROVE Holds(o, j)
    BY <1>2, <1>4, <2>1 DEF Settling, EndedClaimsAreLoose
  <2>2. ASSUME NEW i \in Instance, ActivateOne(o, i) PROVE FALSE
    <3>1. CASE ClaimOne(o, i) \/ ClaimAnswerLost(o, i) \/ ClaimError(o, i)
      <4>1. phase[o] = "claim" /\ stage[o][i] = "candidate"
        BY <3>1 DEF ClaimOne, ClaimAnswerLost, ClaimError
      <4>2. CASE j # i
        <5>1. index'[j] = index[j]
          BY <1>1, <3>1, <4>2, ClaimKeeps DEF ClaimOne, ClaimAnswerLost, ClaimError
        <5>2. Holds(o, j)
          BY <1>2, <1>4, <5>1 DEF Settling, EndedClaimsAreLoose
        <5>3. stage[o][j] = "claimed"
          BY <4>1, <5>2 DEF Settling, PhaseStages, Holds
        <5> QED
          BY <1>1, <1>4, <3>1, <4>2, <5>3 DEF ClaimOne, ClaimAnswerLost, ClaimError, Advance,
             Holds, ActivationTypeOK
      <4>3. CASE j = i
        <5>1. ~Holds(o, i) /\ i \notin loose
          BY <1>2, <1>4, <4>1, <4>3 DEF Holds
        <5>2. index[i].owner # o
          BY <5>1 DEF Settling, EndedClaimsAreLoose
        <5>3. index' # index
          BY <1>4, <4>3, <5>2
        <5>4. Claim(o, i) /\ CanClaim(i)
          BY <1>1, <3>1, <5>3, ClaimKeeps DEF ClaimOne, ClaimAnswerLost, ClaimError
        <5>5. ClaimOne(o, i)
          BY <1>4, <3>1, <4>3, <5>3 DEF ClaimAnswerLost, ClaimError
        <5> QED
          BY <1>1, <1>4, <4>3, <5>4, <5>5 DEF ClaimOne, Advance, Holds, ActivationTypeOK, Stage
      <4> QED
        BY <4>2, <4>3
    <3>2. CASE Undo(o, i) \/ Record(o, i) \/ MarkDestroyed(o, i)
      <4>1. /\ Advance(o, i, "none")
            /\ (UNCHANGED index /\ i \in loose') \/ Release(o, i)
               \/ ReleaseWithCooldown(o, i) \/ MarkUnusable(o, i) \/ MarkActivated(i)
        BY <3>2 DEF Undo, Record, MarkDestroyed, BestEffortIndex, SettleClaim
      <4>2. CASE j # i
        <5>1. index'[j] = index[j]
          BY <1>1, <4>1, <4>2, SettleKeeps, MarkActivatedKeeps
        <5>2. Holds(o, j)
          BY <1>2, <1>4, <5>1 DEF Settling, EndedClaimsAreLoose
        <5> QED
          BY <1>1, <1>4, <4>1, <4>2, <5>2 DEF Advance, Holds, ActivationTypeOK
      <4>3. CASE j = i
        <5>1. index'[i].owner # o
          BY <1>1, <1>4, <4>1, <4>3, SettleKeeps, MarkActivatedKeeps
        <5> QED
          BY <1>4, <4>3, <5>1
      <4> QED
        BY <4>2, <4>3
    <3>3. CASE SkipExhausted(o, i) \/ TagError(o, i) \/ StartStale(o, i)
               \/ StartNoCapacity(o, i) \/ StartError(o, i)
      <4>1. UNCHANGED index /\ (Advance(o, i, "undo") \/ Advance(o, i, "untag"))
        BY <3>3 DEF SkipExhausted, TagError, StartStale, StartNoCapacity, StartError,
           BeginRollback
      <4> QED
        BY <1>1, <1>4, <2>1, <4>1 DEF Advance, Holds, ActivationTypeOK
    <3>4. CASE TagOne(o, i) \/ StartOne(o, i) \/ Untag(o, i) \/ Retag(o, i)
               \/ RegisterOne(o, i) \/ DestroyUnregistered(o, i)
      <4>1. UNCHANGED index /\ \E s \in Stage \ {"none", "candidate"} : Advance(o, i, s)
        BY <3>4 DEF TagOne, StartOne, Untag, Retag, RegisterOne, DestroyUnregistered, Stage
      <4> QED
        BY <1>1, <1>4, <2>1, <4>1 DEF Advance, Holds, ActivationTypeOK
    <3> QED
      BY <2>2, <3>1, <3>2, <3>3, <3>4 DEF ActivateOne
  <2>3. CASE ~(\E i \in Instance : ActivateOne(o, i))
    <3>1. UNCHANGED index
      BY <2>3 DEF ActivationStep, Query, BeginBatch, AbortDone, BeginRegister, RegisterThrows,
         BeginSettle, NextBatch, Crash
    <3>2. Holds(o, j)
      BY <2>1, <3>1
    <3>3. Active(o)
      BY <3>2 DEF IInv, HoldersOwn
    <3>4. ~(\E n \in 1 .. MaxNeeded : Query(o, n))
      BY <3>3 DEF Query, Active
    <3>5. ~Crash(o) /\ ~NextBatch(o)
      BY <1>4, <3>2 DEF Crash, NextBatch
    <3>6. ~AbortDone(o)
      BY <3>2 DEF AbortDone, At, Settling, PhaseStages, Holds
    <3>7. ~BeginBatch(o)
      <4>1. phase[o] = "claim" => stage[o][j] = "claimed"
        BY <3>2 DEF Settling, PhaseStages, Holds
      <4>2. ASSUME BeginBatch(o) PROVE UNCHANGED stage
        BY <4>1, <4>2 DEF BeginBatch, At
      <4> QED
        BY <1>4, <3>2, <4>2 DEF Holds
    <3>8. CASE BeginRegister(o) \/ BeginSettle(o)
      BY <1>4, <3>2, <3>8 DEF BeginRegister, BeginSettle, Holds
    <3>9. CASE RegisterThrows(o)
      BY <1>1, <1>4, <3>2, <3>9 DEF RegisterThrows, Holds, ActivationTypeOK
    <3> QED
      BY <2>3, <3>4, <3>5, <3>6, <3>7, <3>8, <3>9 DEF ActivationStep
  <2> QED
    BY <2>2, <2>3
<1> QED
  BY <1>3, <1>4 DEF EndedClaimsAreLoose

LEMMA SettlingStep == IInv /\ Settling /\ [Next]_vars => Settling'
<1> SUFFICES ASSUME IInv, Settling, [Next]_vars PROVE Settling'
  OBVIOUS
<1> DEFINE Local == PhaseStages /\ OneUnsettled /\ ExhaustedPairsAreLeftAlone
<1>1. \A q \in Invocation : SettlingOf(q)
  BY DEF Settling, PhaseStages, OneUnsettled, ExhaustedPairsAreLeftAlone, SettlingOf
<1>2. ASSUME \A q \in Invocation : SettlingOf(q)'
      PROVE  Local'
  BY <1>2 DEF PhaseStages, OneUnsettled, ExhaustedPairsAreLeftAlone, SettlingOf
<1>3. ASSUME NEW o \in Invocation, ActivationStep(o)
      PROVE  Settling'
  <2>1. SettlingOf(o)'
    BY <1>1, <1>3, SettlingLocal
  <2>2. ASSUME NEW q \in Invocation, q # o PROVE SettlingOf(q)'
    BY <1>1, <1>3, <2>2, ActivationFrame DEF SettlingOf, IInv, TypeOK
  <2> QED
    BY <1>2, <1>3, <2>1, <2>2, EndedClaimsStep DEF Settling
<1>4. ASSUME UNCHANGED <<phase, stage, exhausted, loose>>,
             \A j \in Instance : index'[j].owner \in {index[j].owner, None}
      PROVE  Settling'
  <2>1. Local'
    BY <1>4 DEF Settling, PhaseStages, OneUnsettled, ExhaustedPairsAreLeftAlone
  <2>2. EndedClaimsAreLoose'
    <3>1. None \notin Invocation
      BY IndexAssumption DEF IndexAssumption
    <3> QED
      BY <1>4, <3>1 DEF Settling, EndedClaimsAreLoose, Holds
  <2> QED
    BY <2>1, <2>2 DEF Settling
<1>5. ASSUME PoolStep \/ (\E i \in Instance : UpkeepStep(i)) \/ SweepList,
             UNCHANGED <<activationVars, historyVars>>
      PROVE  Settling'
  BY <1>4, <1>5, PoolEntry, NoItemFields DEF activationVars, historyVars
<1>6. ASSUME UNCHANGED <<index, activationVars, historyVars>>
      PROVE  Settling'
  BY <1>4, <1>6 DEF activationVars, historyVars
<1>7. ASSUME Tick PROVE Settling'
  <2>1. \A j \in Instance : index'[j].owner = index[j].owner
    BY <1>7, OlderFields DEF IInv, TypeOK, Tick, IndexElapse
  <2> QED
    BY <1>4, <1>7, <2>1 DEF Tick, ActivationElapse, historyVars
<1> QED
  BY <1>3, <1>5, <1>6, <1>7 DEF Next, Step, vars

LEMMA SettlingHolds == Spec => []Settling
<1>1. Init => Settling
  BY IndexAssumption DEF IndexAssumption, Init, IndexInit, NoItem, ActivationInit, Settling,
     PhaseStages, OneUnsettled, Unsettled, ExhaustedPairsAreLeftAlone, EndedClaimsAreLoose
<1> QED
  BY <1>1, SettlingStep, InductiveInvariant, PTL DEF Spec

\* Every way out of activateBatch settles its claim: an entry names an invocation only while
\* that invocation works on the instance, or a write or the whole invocation was lost.
THEOREM ClaimsAreSettled == Spec => []EndedClaimsAreLoose
<1>1. Settling => EndedClaimsAreLoose
  BY DEF Settling
<1> QED
  BY <1>1, SettlingHolds, PTL

\* After a start failed for lack of capacity, the invocation tags no instance of the same
\* type and zone in any batch.  It rests on the loop settling one instance before the next.
THEOREM ExhaustedLeftAlone == Spec => []ExhaustedPairsAreLeftAlone
<1>1. Settling => ExhaustedPairsAreLeftAlone
  BY DEF Settling
<1> QED
  BY <1>1, SettlingHolds, PTL

-----------------------------------------------------------------------------
\* The instances an invocation has in hand against the runners it still needs.

ServingStage == {"claimed", "tagged", "running", "registered", "unregistered"}

DemandOf(o) == IsFiniteSet(Serving(o)) /\ Cardinality(Serving(o)) <= needed[o]

Demand == \A o \in Invocation : DemandOf(o)

\* An invocation that has nothing in hand asks for no less than that.
LEMMA NothingServing ==
  ASSUME NEW o \in Invocation, \A j \in Instance : stage'[o][j] \notin ServingStage,
         needed'[o] \in Nat
  PROVE  DemandOf(o)'
<1>1. Serving(o)' = {}
  BY DEF Serving, At, ServingStage
<1>2. IsFiniteSet(Serving(o)') /\ Cardinality(Serving(o)') = 0
  BY <1>1, FS_EmptySet
<1> QED
  BY <1>2 DEF DemandOf

\* An instance drops out, and a runner less is needed or not.
LEMMA OneDrops ==
  ASSUME ActivationTypeOK, NEW o \in Invocation, DemandOf(o), NEW i \in Instance,
         stage[o][i] \in ServingStage, stage'[o][i] \notin ServingStage,
         \A j \in Instance : j # i => stage'[o][j] = stage[o][j],
         OneFewer(o) \/ UNCHANGED needed
  PROVE  DemandOf(o)'
<1>1. Serving(o)' = Serving(o) \ {i} /\ i \in Serving(o)
  BY DEF Serving, At, ServingStage
<1>2. IsFiniteSet(Serving(o)) /\ Cardinality(Serving(o)) <= needed[o]
  BY DEF DemandOf
<1>3. /\ IsFiniteSet(Serving(o) \ {i})
      /\ Cardinality(Serving(o) \ {i}) = Cardinality(Serving(o)) - 1
  BY <1>1, <1>2, FS_RemoveElement
<1>4. /\ Cardinality(Serving(o)) \in Nat /\ Cardinality(Serving(o) \ {i}) \in Nat
  BY <1>2, <1>3, FS_CardinalityType
<1>5. needed[o] \in Nat
  BY DEF ActivationTypeOK
<1>6. needed'[o] = needed[o] \/ (needed[o] > 0 /\ needed'[o] = needed[o] - 1)
  BY <1>2, <1>3, <1>4, <1>5 DEF OneFewer, ActivationTypeOK
<1>7. Cardinality(Serving(o) \ {i}) <= needed'[o]
  BY <1>2, <1>3, <1>4, <1>5, <1>6
<1> QED
  BY <1>1, <1>3, <1>7 DEF DemandOf

LEMMA SameServing ==
  ASSUME NEW o \in Invocation, DemandOf(o), needed'[o] = needed[o],
         \A j \in Instance : stage'[o][j] \in ServingStage <=> stage[o][j] \in ServingStage
  PROVE  DemandOf(o)'
<1>1. Serving(o)' = Serving(o)
  BY DEF Serving, At, ServingStage
<1> QED
  BY <1>1 DEF DemandOf

\* A claim is made only while fewer instances are claimed than runners needed.
LEMMA OneJoins ==
  ASSUME ActivationTypeOK, Settling, NEW o \in Invocation, DemandOf(o), NEW i \in Instance,
         ClaimOne(o, i), CanClaim(i)
  PROVE  DemandOf(o)'
<1>1. \A j \in Instance : stage[o][j] \in {"none", "candidate", "claimed"}
  BY DEF ClaimOne, Settling, PhaseStages
<1>2. Serving(o) = At(o, {"claimed"})
  BY <1>1 DEF Serving, At
<1>3. Serving(o)' = Serving(o) \cup {i} /\ i \notin Serving(o)
  BY DEF ClaimOne, Advance, ActivationTypeOK, Serving, At
<1>4. IsFiniteSet(Serving(o)) /\ Cardinality(Serving(o)) < needed[o] /\ needed' = needed
  BY <1>2 DEF DemandOf, ClaimOne, WantsMore
<1>5. /\ IsFiniteSet(Serving(o) \cup {i})
      /\ Cardinality(Serving(o) \cup {i}) = Cardinality(Serving(o)) + 1
  BY <1>3, <1>4, FS_AddElement
<1>6. Cardinality(Serving(o)) \in Nat /\ needed[o] \in Nat
  BY <1>4, FS_CardinalityType DEF ActivationTypeOK
<1>7. Cardinality(Serving(o) \cup {i}) <= needed'[o]
  BY <1>4, <1>5, <1>6
<1> QED
  BY <1>3, <1>5, <1>7 DEF DemandOf

LEMMA DemandOne ==
  ASSUME ActivationTypeOK, Settling, NEW o \in Invocation, DemandOf(o), NEW i \in Instance,
         ActivateOne(o, i)
  PROVE  DemandOf(o)'
<1>1. ASSUME NEW s \in Stage, Advance(o, i, s)
      PROVE  stage'[o][i] = s /\ \A j \in Instance : j # i => stage'[o][j] = stage[o][j]
  BY <1>1 DEF Advance, ActivationTypeOK
<1>2. CASE ClaimOne(o, i) \/ ClaimAnswerLost(o, i)
  <2>1. CASE ClaimOne(o, i) /\ CanClaim(i)
    BY <2>1, OneJoins
  <2>2. CASE ~(ClaimOne(o, i) /\ CanClaim(i))
    <3>1. stage[o][i] = "candidate" /\ Advance(o, i, "none") /\ needed' = needed
      BY <1>2, <2>2 DEF ClaimOne, ClaimAnswerLost
    <3>2. stage'[o][i] = "none" /\ \A j \in Instance : j # i => stage'[o][j] = stage[o][j]
      BY <1>1, <3>1 DEF Stage
    <3> QED
      BY <3>1, <3>2, SameServing DEF ServingStage
  <2> QED
    BY <2>1, <2>2
<1>3. CASE ClaimError(o, i)
  <2>1. \A j \in Instance : stage'[o][j] \in {"none", "undo"}
    BY <1>3 DEF ClaimError, ActivationTypeOK
  <2>2. needed'[o] \in Nat
    BY <1>3 DEF ClaimError, ActivationTypeOK
  <2> QED
    BY <2>1, <2>2, NothingServing DEF ServingStage
<1>4. CASE SkipExhausted(o, i) \/ TagError(o, i) \/ StartStale(o, i) \/ StartNoCapacity(o, i)
           \/ StartError(o, i)
  <2>1. PICK s \in {"undo", "untag"} : Advance(o, i, s)
    BY <1>4 DEF SkipExhausted, TagError, StartStale, StartNoCapacity, StartError, BeginRollback
  <2>2. stage'[o][i] \in {"undo", "untag"}
        /\ \A j \in Instance : j # i => stage'[o][j] = stage[o][j]
    BY <1>1, <2>1 DEF Stage
  <2>3. stage[o][i] \in {"claimed", "tagged"} /\ (OneFewer(o) \/ UNCHANGED needed)
    BY <1>4 DEF SkipExhausted, TagError, StartStale, StartNoCapacity, StartError, BeginRollback
  <2> QED
    BY <2>2, <2>3, OneDrops DEF ServingStage
<1>5. CASE Record(o, i) \/ DestroyUnregistered(o, i)
  <2>1. PICK s \in {"none", "destroyed"} : Advance(o, i, s)
    BY <1>5 DEF Record, DestroyUnregistered
  <2>2. stage'[o][i] \in {"none", "destroyed"}
        /\ \A j \in Instance : j # i => stage'[o][j] = stage[o][j]
    BY <1>1, <2>1 DEF Stage
  <2>3. stage[o][i] \in {"registered", "unregistered"} /\ OneFewer(o)
    BY <1>5 DEF Record, DestroyUnregistered
  <2> QED
    BY <2>2, <2>3, OneDrops DEF ServingStage
<1>6. CASE TagOne(o, i) \/ StartOne(o, i) \/ RegisterOne(o, i)
  <2>1. PICK s \in {"tagged", "running", "registered", "unregistered"} : Advance(o, i, s)
    BY <1>6 DEF TagOne, StartOne, RegisterOne
  <2>2. stage'[o][i] \in {"tagged", "running", "registered", "unregistered"}
        /\ \A j \in Instance : j # i => stage'[o][j] = stage[o][j]
    BY <1>1, <2>1 DEF Stage
  <2>3. stage[o][i] \in {"claimed", "tagged", "running"} /\ needed' = needed
    BY <1>6 DEF TagOne, StartOne, RegisterOne
  <2> QED
    BY <2>2, <2>3, SameServing DEF ServingStage
<1>7. CASE Untag(o, i) \/ Retag(o, i) \/ Undo(o, i) \/ MarkDestroyed(o, i)
  <2>1. PICK s \in {"retag", "undo", "none"} : Advance(o, i, s)
    BY <1>7 DEF Untag, Retag, Undo, MarkDestroyed
  <2>2. stage'[o][i] \in {"retag", "undo", "none"}
        /\ \A j \in Instance : j # i => stage'[o][j] = stage[o][j]
    BY <1>1, <2>1 DEF Stage
  <2>3. stage[o][i] \in {"untag", "retag", "undo", "destroyed"} /\ needed' = needed
    BY <1>7 DEF Untag, Retag, Undo, MarkDestroyed
  <2> QED
    BY <2>2, <2>3, SameServing DEF ServingStage
<1> QED
  BY <1>2, <1>3, <1>4, <1>5, <1>6, <1>7 DEF ActivateOne

LEMMA DemandActivation ==
  ASSUME ActivationTypeOK, Settling, NEW o \in Invocation, DemandOf(o), ActivationStep(o)
  PROVE  DemandOf(o)'
<1>1. MaxNeeded \in Nat
  BY ActivationAssumption DEF ActivationAssumption
<1>2. ASSUME Ends(o) PROVE DemandOf(o)'
  <2>1. needed'[o] = 0 /\ \A j \in Instance : stage'[o][j] = "none"
    BY <1>2 DEF Ends, ActivationTypeOK
  <2> QED
    BY <2>1, NothingServing DEF ServingStage
<1>3. ASSUME NEW n \in 1 .. MaxNeeded, Query(o, n) PROVE DemandOf(o)'
  <2>1. needed'[o] \in Nat /\ \A j \in Instance : stage'[o][j] \in {"none", "candidate"}
    BY <1>1, <1>3 DEF Query, ActivationTypeOK
  <2> QED
    BY <2>1, NothingServing DEF ServingStage
<1>4. ASSUME UNCHANGED <<stage, needed>> PROVE DemandOf(o)'
  BY <1>4 DEF DemandOf, Serving, At
<1>5. CASE RegisterThrows(o)
  <2>1. needed' = needed
    BY <1>5 DEF RegisterThrows
  <2>2. \A j \in Instance :
          stage'[o][j] = IF stage[o][j] = "running" THEN "unregistered" ELSE stage[o][j]
    BY <1>5 DEF RegisterThrows, ActivationTypeOK
  <2> QED
    BY <2>1, <2>2, SameServing DEF ServingStage
<1>6. CASE NextBatch(o)
  <2> DEFINE left == {i \in At(o, {"candidate"}) : pairOf[i] \notin exhausted[o]}
             memory == [i \in Instance |-> IF i \in left THEN "candidate" ELSE "none"]
  <2>1. Ends(o) \/ (stage' = [stage EXCEPT ![o] = memory] /\ needed' = needed)
    BY <1>6 DEF NextBatch
  <2>2. \A j \in Instance : memory[j] \in {"none", "candidate"}
    OBVIOUS
  <2> HIDE DEF memory
  <2>3. CASE ~Ends(o)
    <3>1. needed'[o] \in Nat /\ \A j \in Instance : stage'[o][j] \in {"none", "candidate"}
      BY <2>1, <2>2, <2>3 DEF ActivationTypeOK
    <3> QED
      BY <3>1, NothingServing DEF ServingStage
  <2> QED
    BY <1>2, <2>3
<1> QED
  BY <1>2, <1>3, <1>4, <1>5, <1>6, DemandOne DEF ActivationStep, BeginBatch, AbortDone,
     BeginRegister, BeginSettle, Crash

LEMMA DemandStep == IInv /\ Settling /\ Demand /\ [Next]_vars => Demand'
<1> SUFFICES ASSUME IInv, Settling, Demand, [Next]_vars, NEW q \in Invocation
             PROVE  DemandOf(q)'
  BY DEF Demand
<1>1. ActivationTypeOK /\ DemandOf(q)
  BY DEF IInv, TypeOK, Demand
<1>2. ASSUME UNCHANGED <<stage, needed>> PROVE DemandOf(q)'
  BY <1>1, <1>2 DEF DemandOf, Serving, At
<1>3. ASSUME NEW o \in Invocation, ActivationStep(o) PROVE DemandOf(q)'
  <2>1. CASE q = o
    BY <1>1, <1>3, <2>1, DemandActivation
  <2>2. CASE q # o
    <3>1. stage'[q] = stage[q]
      BY <1>1, <1>3, <2>2, ActivationFrame
    <3>2. needed'[q] = needed[q]
      <4>1. ASSUME NEW i \in Instance, ActivateOne(o, i) PROVE needed'[q] = needed[q]
        BY <1>1, <2>2, <4>1 DEF ActivateOne, ClaimOne, ClaimAnswerLost, ClaimError,
           SkipExhausted, TagOne, TagError, StartOne, StartStale, StartNoCapacity, StartError,
           Untag, Retag, Undo, RegisterOne, Record, DestroyUnregistered, MarkDestroyed,
           BeginRollback, OneFewer, ActivationTypeOK
      <4> QED
        BY <1>1, <1>3, <2>2, <4>1 DEF ActivationStep, Query, BeginBatch, AbortDone,
           BeginRegister, RegisterThrows, BeginSettle, NextBatch, Crash, Ends, ActivationTypeOK
    <3> QED
      BY <1>1, <3>1, <3>2, SameServing
  <2> QED
    BY <2>1, <2>2
<1> QED
  BY <1>2, <1>3 DEF Next, Step, Tick, ActivationElapse, activationVars, vars

\* However claims, stale entries, fallbacks and further batches interleave, an invocation has
\* no more instances in hand than runners it still needs (warm-activation.ts activateBatch).
THEOREM WithinDemand == Spec => []ClaimsWithinDemand
<1>1. Init => Demand
  <2> SUFFICES ASSUME Init, NEW o \in Invocation PROVE DemandOf(o)
    BY DEF Demand
  <2>1. Serving(o) = {} /\ needed[o] = 0
    BY DEF Init, ActivationInit, Serving, At
  <2>2. IsFiniteSet(Serving(o)) /\ Cardinality(Serving(o)) = 0
    BY <2>1, FS_EmptySet
  <2> QED
    BY <2>1, <2>2 DEF DemandOf
<1>2. Demand => ClaimsWithinDemand
  BY DEF Demand, DemandOf, ClaimsWithinDemand
<1> QED
  BY <1>1, <1>2, DemandStep, InductiveInvariant, SettlingHolds, PTL DEF Spec
=============================================================================
