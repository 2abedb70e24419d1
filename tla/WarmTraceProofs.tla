---------------------------- MODULE WarmTraceProofs ----------------------------
(****************************************************************************)
(* The traces an activation leaves on an instance (its tag, its start, the  *)
(* marked entry), for every number of instances and invocations: who put    *)
(* them there, and what the pool, the sweep and a second invocation make of *)
(* them.                                                                    *)
(****************************************************************************)
EXTENDS WarmClaimProofs

-----------------------------------------------------------------------------
\* The activation tag.

\* The stages in which the tag is on the instance, by the invocation that put it there.
AtWork == {"tagged", "running", "registered", "unregistered"}

\* What a step leaves of the two traces an activation makes on an instance.
Quiet(i) == tag'[i] = tag[i] /\ startedBy'[i] = startedBy[i]

\* An invocation moves an instance on, and touches none of its traces.
Hop(s, t) ==
  \/ s \in {"none", "candidate"} /\ t \in {"none", "candidate"}
  \/ s = "candidate" /\ t = "claimed"
  \/ s = "claimed" /\ t \in {"undo", "untag"}
  \/ s = "tagged" /\ t = "untag"
  \/ s = "retag" /\ t = "undo"
  \/ s = "undo" /\ t = "none"
  \/ s = "running" /\ t \in {"registered", "unregistered"}
  \/ s = "destroyed" /\ t = "none"

Tags(o, i, s, t) ==
  /\ phase[o] = "start"
  /\ s = "claimed" /\ t \in {"tagged", "untag"}
  /\ tag'[i] = batchAge[o] /\ startedBy'[i] = startedBy[i]

Untags(i, s, t) ==
  /\ s = "untag" /\ t = "retag"
  /\ tag'[i] = -1 /\ startedBy'[i] = startedBy[i]

Starts(o, i, s, t) ==
  /\ s = "tagged" /\ t = "running"
  /\ ec2[i] \in Running \cup Stopped
  /\ tag'[i] = tag[i] /\ startedBy'[i] = startedBy[i] \cup {o}

Records(i, s, t) ==
  /\ s = "registered" /\ t = "none"
  /\ index'[i].state = "ACTIVATED"
  /\ Quiet(i)

Destroys(i, s, t) ==
  /\ s = "unregistered" /\ t = "destroyed"
  /\ ec2'[i] = "terminated"
  /\ Quiet(i)

\* The outcome is not recorded: a best-effort write failed, or the invocation ended.
Loses(i, t) == i \in loose' /\ t \in {"none", "retag", "destroyed"} /\ Quiet(i)

\* How one step of an invocation moves an instance from one stage to another.
Course(o, i, s, t) ==
  \/ s = t /\ Quiet(i)
  \/ Hop(s, t) /\ Quiet(i)
  \/ Tags(o, i, s, t) \/ Untags(i, s, t) \/ Starts(o, i, s, t)
  \/ Records(i, s, t) \/ Destroys(i, s, t) \/ Loses(i, t)

LEMMA CourseOne ==
  ASSUME TypeOK, NEW o \in Invocation, NEW i \in Instance, ActivateOne(o, i)
  PROVE  Course(o, i, stage[o][i], stage'[o][i])
<1> DEFINE Goal == Course(o, i, stage[o][i], stage'[o][i])
<1>1. IndexOK /\ FleetTypeOK /\ ActivationTypeOK
  BY DEF TypeOK, IndexOK
<1>2. \A s \in Stage : Advance(o, i, s) => stage'[o][i] = s
  BY <1>1 DEF Advance, ActivationTypeOK
<1>3. CASE ClaimOne(o, i) \/ ClaimAnswerLost(o, i)
  BY <1>2, <1>3 DEF ClaimOne, ClaimAnswerLost, Course, Hop, Quiet, Stage, fleetVars, historyVars
<1>4. CASE ClaimError(o, i)
  <2>1. stage[o][i] = "candidate" /\ stage'[o][i] = "none" /\ Quiet(i)
    BY <1>1, <1>4 DEF ClaimError, Quiet, ActivationTypeOK
  <2> QED
    BY <2>1 DEF Course, Hop
<1>5. CASE SkipExhausted(o, i) \/ StartStale(o, i) \/ StartNoCapacity(o, i) \/ StartError(o, i)
  BY <1>2, <1>5 DEF SkipExhausted, StartStale, StartNoCapacity, StartError, BeginRollback, Course,
     Hop, Quiet, Stage, fleetVars, historyVars
<1>6. CASE TagOne(o, i)
  BY <1>1, <1>2, <1>6 DEF TagOne, ActivationTags, BetweenInstances, Course, Tags, Stage,
     historyVars, FleetTypeOK
<1>7. CASE TagError(o, i)
  <2>1. phase[o] = "start" /\ stage[o][i] = "claimed" /\ stage'[o][i] = "untag"
        /\ startedBy' = startedBy
    BY <1>2, <1>7 DEF TagError, BetweenInstances, BeginRollback, Stage, historyVars
  <2>2. tag'[i] \in {batchAge[o], tag[i]}
    BY <1>1, <1>7 DEF TagError, ActivationTags, FleetTypeOK
  <2> QED
    BY <2>1, <2>2 DEF Course, Tags, Hop, Quiet
<1>8. CASE StartOne(o, i)
  BY <1>1, <1>2, <1>8 DEF StartOne, Course, Starts, Stage, ActivationTypeOK
<1>9. CASE Untag(o, i)
  <2>1. stage[o][i] = "untag" /\ stage'[o][i] = "retag" /\ startedBy' = startedBy
    BY <1>2, <1>9 DEF Untag, Stage
  <2>2. tag'[i] = -1 \/ (tag' = tag /\ i \in loose')
    BY <1>1, <1>9 DEF Untag, FleetTypeOK
  <2> QED
    BY <2>1, <2>2 DEF Course, Untags, Loses, Quiet
<1>10. CASE Retag(o, i) \/ Undo(o, i) \/ RegisterOne(o, i) \/ MarkDestroyed(o, i)
  BY <1>2, <1>10 DEF Retag, Undo, RegisterOne, MarkDestroyed, Course, Hop, Quiet, Stage,
     historyVars
<1>11. CASE Record(o, i)
  <2>1. stage[o][i] = "registered" /\ stage'[o][i] = "none" /\ Quiet(i)
    BY <1>2, <1>11 DEF Record, Stage, Quiet
  <2>2. MarkActivated(i) \/ i \in loose'
    BY <1>11 DEF Record, BestEffortIndex
  <2> QED
    BY <1>1, <2>1, <2>2, MarkActivatedKeeps DEF Course, Records, Loses
<1>12. CASE DestroyUnregistered(o, i)
  <2>1. stage[o][i] = "unregistered" /\ stage'[o][i] = "destroyed" /\ Quiet(i)
    BY <1>2, <1>12 DEF DestroyUnregistered, Stage, Quiet
  <2>2. ec2'[i] = "terminated" \/ i \in loose'
    BY <1>1, <1>12 DEF DestroyUnregistered, TerminateEffect, FleetTypeOK
  <2> QED
    BY <2>1, <2>2 DEF Course, Destroys, Loses
<1> QED
  BY <1>3, <1>4, <1>5, <1>6, <1>7, <1>8, <1>9, <1>10, <1>11, <1>12 DEF ActivateOne

\* A step on one instance only takes the others along when it ends the claiming.
LEMMA CourseOther ==
  ASSUME TypeOK, Settling, NEW o \in Invocation, NEW i \in Instance, ActivateOne(o, i),
         NEW j \in Instance, j # i
  PROVE  Course(o, j, stage[o][j], stage'[o][j])
<1>1. FleetTypeOK /\ ActivationTypeOK
  BY DEF TypeOK
<1>2. \A s \in Stage : Advance(o, i, s) => stage'[o][j] = stage[o][j]
  BY <1>1 DEF Advance, ActivationTypeOK
<1>3. Quiet(j)
  BY <1>1 DEF Quiet, FleetTypeOK, ActivationTypeOK, ActivateOne, ClaimOne, ClaimAnswerLost,
     ClaimError, SkipExhausted, TagOne, TagError, ActivationTags, StartOne, StartStale,
     StartNoCapacity, StartError, Untag, Retag, Undo, RegisterOne, Record, DestroyUnregistered,
     MarkDestroyed, fleetVars, historyVars
<1>4. CASE ClaimError(o, i)
  <2>1. stage[o][j] \in {"none", "candidate", "claimed"}
    BY <1>4 DEF ClaimError, Settling, PhaseStages
  <2>2. stage'[o][j] = IF stage[o][j] = "claimed" THEN "undo" ELSE "none"
    BY <1>1, <1>4 DEF ClaimError, ActivationTypeOK
  <2> QED
    BY <1>3, <2>1, <2>2 DEF Course, Hop
<1>5. CASE ~ClaimError(o, i)
  <2>1. \E s \in Stage : Advance(o, i, s)
    BY <1>5 DEF ActivateOne, ClaimOne, ClaimAnswerLost, SkipExhausted, TagOne, TagError,
       StartOne, StartStale, StartNoCapacity, StartError, Untag, Retag, Undo, RegisterOne,
       Record, DestroyUnregistered, MarkDestroyed, BeginRollback, Stage
  <2> QED
    BY <1>2, <1>3, <2>1 DEF Course
<1> QED
  BY <1>4, <1>5

\* Every step of an invocation moves each of its instances along the course.
LEMMA CourseOf ==
  ASSUME IInv, Settling, NEW o \in Invocation, ActivationStep(o), NEW j \in Instance
  PROVE  Course(o, j, stage[o][j], stage'[o][j])
<1> DEFINE s == stage[o][j]
           t == stage'[o][j]
<1>1. TypeOK /\ ActivationTypeOK /\ s \in Stage
  BY DEF IInv, TypeOK, ActivationTypeOK
<1>2. ASSUME NEW i \in Instance, ActivateOne(o, i)
      PROVE  Course(o, j, s, t)
  <2>1. CASE i = j
    BY <1>1, <1>2, <2>1, CourseOne
  <2>2. CASE i # j
    BY <1>1, <1>2, <2>2, CourseOther
  <2> QED
    BY <2>1, <2>2
<1>3. ASSUME ~(\E i \in Instance : ActivateOne(o, i))
      PROVE  Quiet(j)
  BY <1>3 DEF ActivationStep, Query, BeginBatch, AbortDone, BeginRegister, RegisterThrows,
     BeginSettle, NextBatch, Crash, Quiet, fleetVars, historyVars
<1>4. ASSUME Ends(o) PROVE t = "none"
  BY <1>1, <1>4 DEF Ends, ActivationTypeOK
<1>5. ASSUME NEW n \in 1 .. MaxNeeded, Query(o, n)
      PROVE  Hop(s, t)
  <2>1. t \in {"none", "candidate"}
    BY <1>1, <1>5 DEF Query, ActivationTypeOK
  <2>2. ~Holds(o, j)
    BY <1>5 DEF Query, IInv, HoldersOwn, Active
  <2> QED
    BY <2>1, <2>2 DEF Hop, Holds
<1>6. CASE BeginBatch(o)
  <2>1. s \in {"none", "candidate", "claimed"}
    BY <1>6 DEF BeginBatch, Settling, PhaseStages
  <2>2. s = t \/ (Ends(o) /\ s # "claimed")
    BY <1>6 DEF BeginBatch, At
  <2> QED
    BY <1>3, <1>2, <1>4, <2>1, <2>2 DEF Course, Hop
<1>7. CASE AbortDone(o)
  BY <1>2, <1>3, <1>4, <1>7 DEF AbortDone, At, Settling, PhaseStages, Course
<1>8. CASE BeginRegister(o) \/ BeginSettle(o)
  BY <1>2, <1>3, <1>8 DEF BeginRegister, BeginSettle, Course
<1>9. CASE RegisterThrows(o)
  <2>1. t = IF s = "running" THEN "unregistered" ELSE s
    BY <1>1, <1>9 DEF RegisterThrows, ActivationTypeOK
  <2> QED
    BY <1>2, <1>3, <2>1 DEF Course, Hop
<1>10. CASE NextBatch(o)
  <2> DEFINE left == {i \in At(o, {"candidate"}) : pairOf[i] \notin exhausted[o]}
             memory == [i \in Instance |-> IF i \in left THEN "candidate" ELSE "none"]
  <2>1. Ends(o) \/ stage' = [stage EXCEPT ![o] = memory]
    BY <1>10 DEF NextBatch
  <2>2. memory[j] \in {"none", "candidate"}
    OBVIOUS
  <2> HIDE DEF memory
  <2>3. t \in {"none", "candidate"} /\ s \in {"none", "candidate"}
    BY <1>1, <1>4, <1>10, <2>1, <2>2 DEF NextBatch, Holds, ActivationTypeOK
  <2> QED
    BY <1>2, <1>3, <2>3 DEF Course, Hop
<1>11. CASE Crash(o)
  <2>1. t = "none" /\ (Holds(o, j) => j \in loose')
    BY <1>4, <1>11 DEF Crash
  <2> QED
    BY <1>2, <1>3, <2>1 DEF Course, Hop, Loses, Holds
<1> QED
  BY <1>2, <1>3, <1>5, <1>6, <1>7, <1>8, <1>9, <1>10, <1>11 DEF ActivationStep, Course

-----------------------------------------------------------------------------
\* An entry is marked ACTIVATED by the activation that registered the runner, and by nothing
\* else.

LEMMA ActivationMarks ==
  ASSUME IInv, NEW o \in Invocation, ActivationStep(o), NEW j \in Instance,
         index'[j].state = "ACTIVATED", index[j].state # "ACTIVATED"
  PROVE  Records(j, stage[o][j], stage'[o][j])
<1>1. IndexOK /\ ActivationTypeOK /\ TypeOK
  BY DEF IInv, TypeOK, IndexOK
<1>2. index[j] \in Item
  BY <1>1 DEF IndexOK
<1>3. ASSUME NEW i \in Instance, Claim(o, i) PROVE FALSE
  BY <1>1, <1>3, ClaimKeeps
<1>4. ASSUME NEW i \in Instance,
             Release(o, i) \/ ReleaseWithCooldown(o, i) \/ MarkUnusable(o, i)
      PROVE  FALSE
  <2>1. i = j
    BY <1>1, <1>4, SettleKeeps
  <2>2. Unclaimed(index[j]).state # "ACTIVATED" /\ Unclaimed(index[j]) \in Item
    BY <1>2, UnclaimedFields
  <2>3. CooledDown(Unclaimed(index[j])).state # "ACTIVATED"
    BY <2>2, CooledDownFields
  <2>4. InState(Unclaimed(index[j]), "GARBAGE").state = "GARBAGE"
    BY <2>2, InStateFields DEF ItemState
  <2> DEFINE r1 == Unclaimed(index[j])
             r2 == CooledDown(Unclaimed(index[j]))
             r3 == InState(Unclaimed(index[j]), "GARBAGE")
  <2>5. \/ index' = index \/ index' = [index EXCEPT ![j] = r1]
        \/ index' = [index EXCEPT ![j] = r2] \/ index' = [index EXCEPT ![j] = r3]
    BY <1>4, <2>1 DEF Release, ReleaseWithCooldown, MarkUnusable
  <2> HIDE DEF r1, r2, r3
  <2>6. index'[j] \in {index[j], r1, r2, r3}
    BY <1>1, <2>5 DEF IndexOK
  <2> QED
    BY <2>2, <2>3, <2>4, <2>6 DEF r1, r2, r3
<1>5. ~(UNCHANGED index)
  OBVIOUS
<1>6. PICK i \in Instance : ActivateOne(o, i)
  BY <1>5 DEF ActivationStep, Query, BeginBatch, AbortDone, BeginRegister, RegisterThrows,
     BeginSettle, NextBatch, Crash
<1>7. Record(o, i)
  BY <1>3, <1>4, <1>5, <1>6 DEF ActivateOne, ClaimOne, ClaimAnswerLost, ClaimError,
     SkipExhausted, TagOne, TagError, StartOne, StartStale, StartNoCapacity, StartError, Untag,
     Retag, Undo, RegisterOne, DestroyUnregistered, MarkDestroyed, BestEffortIndex, SettleClaim
<1>8. MarkActivated(i) /\ i = j
  BY <1>1, <1>5, <1>7, MarkActivatedKeeps DEF Record, BestEffortIndex
<1> QED
  BY <1>1, <1>7, <1>8 DEF Record, Records, Advance, Quiet, ActivationTypeOK, Stage

LEMMA PoolMarks ==
  ASSUME IInv, PoolStep \/ (\E i \in Instance : UpkeepStep(i)) \/ SweepList,
         NEW j \in Instance, index'[j].state = "ACTIVATED"
  PROVE  index[j].state = "ACTIVATED"
<1>1. IndexOK
  BY DEF IInv, TypeOK, IndexOK
<1>2. ASSUME NEW i \in Instance, NEW s \in ItemState \ {"ACTIVATED"}, IndexUpdate(i, s)
      PROVE  index[j].state = "ACTIVATED"
  BY <1>1, <1>2, IndexUpdateKeeps
<1>3. ASSUME NEW i \in Instance, Remove(i)
      PROVE  index[j].state = "ACTIVATED"
  BY <1>1, <1>3, RemoveKeeps, NoItemFields
<1>4. ASSUME NEW i \in Instance, MarkWarm(i)
      PROVE  index[j].state = "ACTIVATED"
  <2>1. InState(index[i], "WARM").state = "WARM"
    BY <1>1, InStateFields DEF IndexOK, ItemState
  <2> QED
    BY <1>1, <1>4, <2>1 DEF MarkWarm, IndexOK
<1>5. ASSUME NEW i \in Instance, PoolOne(i)
      PROVE  index[j].state = "ACTIVATED"
  <2>1. CASE PoolAdopt(i) \/ PoolWrite(i)
    <3>1. listed[i] \in ItemState \ {"ACTIVATED"}
      BY <2>1 DEF IInv, TypeOK, ReconcileTypeOK, WritesAreListed, PoolAdopt, PoolWrite,
         Listed, ItemState
    <3>2. IndexUpdate(i, listed[i]) \/ UNCHANGED index
      BY <2>1 DEF PoolAdopt, PoolWrite
    <3> QED
      BY <1>2, <3>1, <3>2
  <2>2. CASE PoolIndexLaunched(i)
    <3>1. "PRIMING" \in ItemState \ {"ACTIVATED"}
      BY DEF ItemState
    <3>2. IndexUpdate(i, "PRIMING") \/ UNCHANGED index
      BY <2>2 DEF PoolIndexLaunched
    <3> QED
      BY <1>2, <3>1, <3>2
  <2>3. CASE PoolDrop(i) \/ PoolRemove(i) \/ PoolTerminate(i) \/ PoolTerminateError(i)
    BY <1>3, <2>3 DEF PoolDrop, PoolRemove, PoolTerminate, PoolTerminateError
  <2> QED
    BY <1>5, <2>1, <2>2, <2>3 DEF PoolOne
<1>6. ASSUME NEW i \in Instance, UpkeepStep(i)
      PROVE  index[j].state = "ACTIVATED"
  BY <1>4, <1>6 DEF UpkeepStep, StopRead, StopWrite, StopError, SweepDestroy
<1>7. CASE SweepList \/ UNCHANGED index
  BY <1>7 DEF SweepList
<1> QED
  BY <1>5, <1>6, <1>7 DEF PoolStep, PoolQuery, PoolScan, PoolAdopted, PoolRead, PoolSelect,
     PoolLaunch, PoolFinish, PoolCrash

\* Nothing but an activation writes the tag, and the expiry is never written again.
LEMMA TagsAreActivations ==
  ASSUME PoolStep \/ (\E i \in Instance : UpkeepStep(i) \/ FleetStep(i)) \/ SweepList
  PROVE  UNCHANGED <<tag, expires>>
<1>1. ASSUME NEW i \in Instance, PoolOne(i) PROVE UNCHANGED <<tag, expires>>
  BY <1>1 DEF PoolOne, PoolAdopt, PoolWrite, PoolDrop, PoolRemove, PoolTerminate,
     PoolTerminateError, PoolIndexLaunched, fleetVars
<1>2. ASSUME NEW i \in Instance, UpkeepStep(i) \/ FleetStep(i) PROVE UNCHANGED <<tag, expires>>
  BY <1>2 DEF UpkeepStep, StopRead, StopWrite, StopError, SweepDestroy, FleetStep, Boot,
     PrimeDone, StopDone, TakeConfig, FinishJob, Interrupt, LoseEvent, fleetVars
<1> QED
  BY <1>1, <1>2 DEF PoolStep, PoolQuery, PoolScan, PoolAdopted, PoolRead, PoolSelect, PoolLaunch,
     PoolFinish, PoolCrash, SweepList, fleetVars

\* An entry is marked ACTIVATED and released by one write, and never claimed again.
ActivatedIsUnowned ==
  \A i \in Instance : index[i].state = "ACTIVATED" => index[i].owner = None

\* The tag stays from the activation on, for as long as somebody relies on it.
TagsKept ==
  \A i \in Instance \ torn :
    /\ \A o \in Invocation : stage[o][i] \in AtWork => Activated(i)
    /\ index[i].state = "ACTIVATED" => Activated(i)

Tagging == ActivatedIsUnowned /\ TagsKept

\* Only the invocation that holds an instance removes its tag, and it removes it before the
\* entry is marked.
LEMMA TaggingActivation ==
  ASSUME IInv, Settling, Tagging, NEW o \in Invocation, ActivationStep(o),
         UNCHANGED reconcileVars
  PROVE  Tagging'
<1>1. IndexOK /\ ActivationTypeOK /\ TypeOK
  BY DEF IInv, TypeOK, IndexOK
<1>2. torn' = torn
  BY DEF reconcileVars
<1>3. batchAge[o] >= 0 /\ \A i \in Instance : tag[i] \in Int
  BY <1>1, ActivationAssumption, FleetAssumption
     DEF ActivationAssumption, FleetAssumption, TypeOK, ActivationTypeOK, FleetTypeOK
<1>4. ActivatedIsUnowned'
  <2> SUFFICES ASSUME NEW j \in Instance, index'[j].state = "ACTIVATED"
               PROVE  index'[j].owner = None
    BY DEF ActivatedIsUnowned
  <2>1. CASE index'[j] = index[j]
    BY <2>1 DEF Tagging, ActivatedIsUnowned
  <2>2. CASE index'[j] # index[j]
    BY <1>1, <2>2, ActivationEntry DEF Took, Settles
  <2> QED
    BY <2>1, <2>2
<1>5. TagsKept'
  <2> SUFFICES ASSUME NEW j \in Instance, j \notin torn,
                      \/ \E q \in Invocation : stage'[q][j] \in AtWork
                      \/ index'[j].state = "ACTIVATED"
               PROVE  tag'[j] >= 0
    BY <1>2 DEF TagsKept, Activated
  <2>1. Course(o, j, stage[o][j], stage'[o][j])
    BY CourseOf
  <2>2. CASE Untags(j, stage[o][j], stage'[o][j])
    <3>1. Holds(o, j) /\ stage'[o][j] = "retag"
      BY <2>2 DEF Untags, Holds
    <3>2. index[j].owner = o
      BY <3>1, HeldEntry
    <3>3. index[j].state # "ACTIVATED"
      BY <3>2, IndexAssumption DEF IndexAssumption, Tagging, ActivatedIsUnowned
    <3>4. index'[j].state # "ACTIVATED"
      BY <3>1, <3>3, ActivationMarks DEF Records
    <3>5. PICK q \in Invocation : stage'[q][j] \in AtWork
      BY <3>4
    <3>6. q # o
      BY <3>1, <3>5 DEF AtWork
    <3>7. Holds(q, j)
      BY <1>1, <3>5, <3>6, ActivationFrame DEF AtWork, Holds
    <3>8. index[j].owner = q
      BY <3>7, HeldEntry
    <3> QED
      BY <3>2, <3>6, <3>8
  <2>3. CASE Tags(o, j, stage[o][j], stage'[o][j])
    BY <1>3, <2>3 DEF Tags
  <2>4. CASE ~Untags(j, stage[o][j], stage'[o][j]) /\ ~Tags(o, j, stage[o][j], stage'[o][j])
    <3>1. tag'[j] = tag[j]
      BY <2>1, <2>4 DEF Course, Quiet, Starts, Records, Destroys, Loses
    <3>2. ASSUME tag[j] >= 0 PROVE tag'[j] >= 0
      BY <3>1, <3>2
    <3>3. ASSUME NEW q \in Invocation, stage[q][j] \in AtWork
          PROVE  tag[j] >= 0
      BY <3>3 DEF Tagging, TagsKept, Activated
    <3>4. ASSUME index[j].state = "ACTIVATED"
          PROVE  tag[j] >= 0
      BY <3>4 DEF Tagging, TagsKept, Activated
    <3>5. ASSUME NEW q \in Invocation, stage'[q][j] \in AtWork
          PROVE  stage[q][j] \in AtWork
      <4>1. CASE q = o
        BY <2>1, <2>4, <3>5, <4>1 DEF Course, Hop, Starts, Records, Destroys, Loses, AtWork
      <4>2. CASE q # o
        BY <1>1, <3>5, <4>2, ActivationFrame
      <4> QED
        BY <4>1, <4>2
    <3>6. ASSUME index'[j].state = "ACTIVATED"
          PROVE  index[j].state = "ACTIVATED" \/ stage[o][j] \in AtWork
      BY <3>6, ActivationMarks DEF Records, AtWork
    <3> QED
      BY <3>2, <3>3, <3>4, <3>5, <3>6
  <2> QED
    BY <2>2, <2>3, <2>4
<1> QED
  BY <1>4, <1>5 DEF Tagging

LEMMA TaggingStep == IInv /\ Settling /\ Tagging /\ [Next]_vars => Tagging'
<1> SUFFICES ASSUME IInv, Settling, Tagging, [Next]_vars PROVE Tagging'
  OBVIOUS
<1>1. ASSUME UNCHANGED stage, torn \subseteq torn',
             \A i \in Instance : tag[i] >= 0 => tag'[i] >= 0,
             \A i \in Instance : index'[i].state = "ACTIVATED" =>
                index[i].state = "ACTIVATED" /\ index'[i].owner \in {index[i].owner, None}
      PROVE  Tagging'
  <2>1. ActivatedIsUnowned'
    BY <1>1 DEF Tagging, ActivatedIsUnowned
  <2>2. TagsKept'
    BY <1>1 DEF Tagging, TagsKept, Activated
  <2> QED
    BY <2>1, <2>2 DEF Tagging
<1>2. ASSUME NEW o \in Invocation, ActivationStep(o), UNCHANGED reconcileVars
      PROVE  Tagging'
  BY <1>2, TaggingActivation
<1>3. ASSUME PoolStep \/ (\E i \in Instance : UpkeepStep(i)) \/ SweepList,
             UNCHANGED <<activationVars, historyVars>>
      PROVE  Tagging'
  <2>1. tag' = tag
    BY <1>3, TagsAreActivations
  <2>2. torn \subseteq torn'
    BY <1>3, PoolEntry DEF IInv, TypeOK, ReconcileTypeOK
  <2>3. ASSUME NEW i \in Instance, index'[i].state = "ACTIVATED"
        PROVE  index[i].state = "ACTIVATED" /\ index'[i].owner \in {index[i].owner, None}
    BY <1>3, <2>3, PoolMarks, PoolEntry, NoItemFields
  <2> QED
    BY <1>1, <1>3, <2>1, <2>2, <2>3 DEF activationVars
<1>4. ASSUME NEW i \in Instance, FleetStep(i),
             UNCHANGED <<index, activationVars, historyVars, reconcileVars>>
      PROVE  Tagging'
  <2>1. tag' = tag
    BY <1>4, TagsAreActivations
  <2> QED
    BY <1>1, <1>4, <2>1 DEF activationVars, reconcileVars
<1>5. ASSUME Tick PROVE Tagging'
  <2>1. \A i \in Instance : index'[i].state = index[i].state /\ index'[i].owner = index[i].owner
    BY <1>5, OlderFields DEF IInv, TypeOK, Tick, IndexElapse
  <2>2. \A i \in Instance : tag[i] >= 0 => tag'[i] >= 0
    BY <1>5, FleetAssumption
       DEF FleetAssumption, IInv, TypeOK, FleetTypeOK, Tick, FleetElapse, ClocksElapse
  <2>3. stage' = stage /\ torn' = torn
    BY <1>5 DEF Tick, ActivationElapse, ReconcileElapse
  <2> QED
    BY <1>1, <2>1, <2>2, <2>3
<1>6. CASE UNCHANGED vars
  BY <1>1, <1>6 DEF vars, fleetVars, activationVars, reconcileVars
<1> QED
  BY <1>2, <1>3, <1>4, <1>5, <1>6 DEF Next, Step

LEMMA TaggingHolds == Spec => []Tagging
<1>1. Init => Tagging
  BY NoItemFields DEF Init, IndexInit, ActivationInit, Tagging, ActivatedIsUnowned, TagsKept,
     AtWork
<1> QED
  BY <1>1, TaggingStep, InductiveInvariant, SettlingHolds, PTL DEF Spec

\* Where syncIndex removed no entry under a claim, an entry marked ACTIVATED is of an instance
\* with the activation tag, so the pool never adopts a runner whose entry it lost
\* (warm-activation.ts activateBatch tags before it starts and marks last).
THEOREM ActivationsAreTagged == Spec => []RecordedActivationIsTagged
<1>1. Tagging => RecordedActivationIsTagged
  BY DEF Tagging, TagsKept, RecordedActivationIsTagged
<1> QED
  BY <1>1, TaggingHolds, PTL

-----------------------------------------------------------------------------
\* How the pool run, the stop events and the sweep treat one instance.

\* They leave its entry alone, remove it when nothing is left to write, write what was still
\* to be written, or mark a primed instance warm.
LEMMA PoolTouch ==
  ASSUME IInv, PoolStep \/ (\E i \in Instance : UpkeepStep(i)) \/ SweepList,
         NEW j \in Instance
  PROVE  \/ index'[j] = index[j]
         \/ index'[j] = NoItem /\ toWrite' = {} /\ toIndex' = toIndex
         \/ j \in toWrite /\ index[j].state # "ACTIVATED"
         \/ j \in toIndex /\ j \notin toIndex'
         \/ index[j].state = "PRIMING"
<1> DEFINE Goal ==
         \/ index'[j] = index[j]
         \/ index'[j] = NoItem /\ toWrite' = {} /\ toIndex' = toIndex
         \/ j \in toWrite /\ index[j].state # "ACTIVATED"
         \/ j \in toIndex /\ j \notin toIndex'
         \/ index[j].state = "PRIMING"
<1>1. IndexOK /\ PoolPhases
  BY DEF IInv, TypeOK, IndexOK
<1>2. ASSUME NEW i \in Instance, PoolOne(i) PROVE Goal
  <2>1. CASE PoolAdopt(i) \/ PoolWrite(i)
    <3>1. i \in toWrite /\ (IndexUpdate(i, listed[i]) \/ UNCHANGED index)
      BY <2>1 DEF PoolAdopt, PoolWrite
    <3> QED
      BY <1>1, <3>1 DEF IndexUpdate, IndexOK
  <2>2. CASE PoolDrop(i) \/ PoolRemove(i)
    <3>1. toWrite' = {} /\ toIndex' = toIndex
      BY <1>1, <2>2 DEF PoolDrop, PoolRemove, PoolPhases
    <3>2. Remove(i) \/ UNCHANGED index
      BY <2>2 DEF PoolDrop, PoolRemove
    <3> QED
      BY <1>1, <3>1, <3>2, RemoveKeeps
  <2>3. CASE PoolIndexLaunched(i)
    <3>1. i \in toIndex \ toIndex' /\ (IndexUpdate(i, "PRIMING") \/ UNCHANGED index)
      BY <2>3 DEF PoolIndexLaunched
    <3> QED
      BY <1>1, <3>1 DEF IndexUpdate, IndexOK
  <2>4. CASE PoolTerminate(i) \/ PoolTerminateError(i)
    BY <2>4 DEF PoolTerminate, PoolTerminateError
  <2> QED
    BY <1>2, <2>1, <2>2, <2>3, <2>4 DEF PoolOne
<1>3. ASSUME NEW i \in Instance, UpkeepStep(i) PROVE Goal
  <2>1. MarkWarm(i) \/ UNCHANGED index
    BY <1>3 DEF UpkeepStep, StopRead, StopWrite, StopError, SweepDestroy
  <2> QED
    BY <1>1, <2>1 DEF MarkWarm, IndexOK
<1> QED
  BY <1>2, <1>3 DEF PoolStep, PoolQuery, PoolScan, PoolAdopted, PoolRead, PoolSelect, PoolLaunch,
     PoolFinish, PoolCrash, SweepList

\* What they newly take on: instances without the tag to write, unused ones to launch,
\* finished ones to drop and sweepable ones to sweep.
LEMMA PoolTakesOn ==
  ASSUME IInv, PoolStep \/ (\E i \in Instance : UpkeepStep(i)) \/ SweepList,
         NEW j \in Instance
  PROVE  /\ j \in toWrite' =>
              \/ j \in toWrite
              \/ ~Activated(j) /\ (ec2[j] # "none" \/ seen[j].state # "ABSENT")
         /\ j \in toIndex' =>
              \/ j \in toIndex
              \/ ec2[j] = "none" /\ ec2'[j] = "pending"
         /\ j \in toDrop' => j \in toDrop \/ Finished(j)
         /\ j \in swept' => j \in swept \/ Sweepable(j)
         /\ j \in torn' => j \in torn \/ (j \in toDrop /\ LiveClaim(j))
         /\ \/ seen'[j].state \in {seen[j].state, index[j].state, "ABSENT"}
            \/ j \in toWrite /\ seen'[j].state \in Listed \ {"none"}
<1> DEFINE Goal ==
         /\ j \in toWrite' =>
              \/ j \in toWrite
              \/ ~Activated(j) /\ (ec2[j] # "none" \/ seen[j].state # "ABSENT")
         /\ j \in toIndex' =>
              \/ j \in toIndex
              \/ ec2[j] = "none" /\ ec2'[j] = "pending"
         /\ j \in toDrop' => j \in toDrop \/ Finished(j)
         /\ j \in swept' => j \in swept \/ Sweepable(j)
         /\ j \in torn' => j \in torn \/ (j \in toDrop /\ LiveClaim(j))
         /\ \/ seen'[j].state \in {seen[j].state, index[j].state, "ABSENT"}
            \/ j \in toWrite /\ seen'[j].state \in Listed \ {"none"}
<1>1. FleetTypeOK /\ ReconcileTypeOK
  BY DEF IInv, TypeOK
<1>2. ASSUME NEW i \in Instance, PoolOne(i) PROVE Goal
  <2>1. CASE PoolAdopt(i)
    <3>1. /\ i \in toWrite /\ toWrite' = toWrite \ {i}
          /\ UNCHANGED <<toIndex, toDrop, swept, torn>>
      BY <2>1 DEF PoolAdopt
    <3>2. seen'[j].state = IF j = i THEN listed[i] ELSE seen[j].state
      BY <1>1, <2>1 DEF PoolAdopt, ReconcileTypeOK
    <3>3. listed[i] \in Listed \ {"none"}
      BY <1>1, <3>1 DEF IInv, WritesAreListed, ReconcileTypeOK
    <3> QED
      BY <3>1, <3>2, <3>3
  <2>2. CASE PoolDrop(i)
    BY <2>2 DEF PoolDrop
  <2>3. CASE PoolWrite(i) \/ PoolRemove(i) \/ PoolIndexLaunched(i) \/ PoolTerminate(i)
             \/ PoolTerminateError(i)
    BY <2>3 DEF PoolWrite, PoolRemove, PoolIndexLaunched, PoolTerminate, PoolTerminateError
  <2> QED
    BY <1>2, <2>1, <2>2, <2>3 DEF PoolOne
<1>3. CASE (\E i \in Instance : UpkeepStep(i)) \/ SweepList
  BY <1>3 DEF UpkeepStep, StopRead, StopWrite, StopError, SweepDestroy, SweepList, poolVars
<1>4. ASSUME NEW n \in Sizes, PoolQuery(n) PROVE Goal
  BY <1>4 DEF PoolQuery
<1>5. CASE PoolScan
  BY <1>5 DEF PoolScan, Untracked, Classify, Live, Running, Stopped
<1>6. CASE PoolRead
  <2>1. j \in toWrite' => ~Activated(j) /\ seen[j].state # "ABSENT"
    BY <1>6 DEF PoolRead, SeenActivated
  <2>2. j \in toDrop' => Finished(j)
    BY <1>6 DEF PoolRead
  <2>3. UNCHANGED <<toIndex, swept, torn, seen>>
    BY <1>6 DEF PoolRead
  <2> QED
    BY <2>1, <2>2, <2>3
<1>7. CASE PoolLaunch
  <2>1. j \in toIndex' => ec2[j] = "none" /\ ec2'[j] = "pending"
    BY <1>7 DEF PoolLaunch
  <2>2. UNCHANGED <<toWrite, toDrop, swept, torn, seen>>
    BY <1>7 DEF PoolLaunch
  <2> QED
    BY <2>1, <2>2
<1>8. CASE PoolAdopted \/ PoolSelect
  BY <1>8 DEF PoolAdopted, PoolSelect
<1>9. CASE PoolFinish \/ PoolCrash
  BY <1>9 DEF PoolFinish, PoolCrash, PoolForgets, Unseen
<1> QED
  BY <1>2, <1>3, <1>4, <1>5, <1>6, <1>7, <1>8, <1>9 DEF PoolStep

\* A launched instance is never unlaunched.
LEMMA LaunchedStays ==
  ASSUME TypeOK, [Next]_vars, NEW i \in Instance, ec2'[i] = "none"
  PROVE  ec2[i] = "none"
<1>1. ASSUME NEW o \in Invocation, ActivationStep(o) PROVE ec2[i] = "none"
  <2>1. ASSUME NEW j \in Instance, ActivateOne(o, j) PROVE ec2[i] = "none"
    BY <2>1 DEF ActivateOne, ClaimOne, ClaimAnswerLost, ClaimError, SkipExhausted, TagOne,
       TagError, StartOne, StartStale, StartNoCapacity, StartError, Untag, Retag, Undo,
       RegisterOne, Record, DestroyUnregistered, MarkDestroyed, StartEffect, TerminateEffect,
       Stopped, fleetVars, TypeOK, FleetTypeOK
  <2> QED
    BY <1>1, <2>1 DEF ActivationStep, Query, BeginBatch, AbortDone, BeginRegister,
       RegisterThrows, BeginSettle, NextBatch, Crash, fleetVars
<1>2. CASE PoolStep
  <2>1. ASSUME NEW j \in Instance, PoolOne(j) PROVE ec2[i] = "none"
    BY <2>1 DEF PoolOne, PoolAdopt, PoolWrite, PoolDrop, PoolRemove, PoolTerminate,
       PoolTerminateError, PoolIndexLaunched, TerminateEffect, fleetVars, TypeOK, FleetTypeOK
  <2> QED
    BY <1>2, <2>1 DEF PoolStep, PoolQuery, PoolScan, PoolAdopted, PoolRead, PoolSelect,
       PoolLaunch, PoolFinish, PoolCrash, fleetVars
<1>3. CASE (\E j \in Instance : UpkeepStep(j)) \/ SweepList
  BY <1>3 DEF UpkeepStep, StopRead, StopWrite, StopError, SweepDestroy, SweepList,
     TerminateEffect, fleetVars, TypeOK, FleetTypeOK
<1>4. ASSUME NEW j \in Instance, FleetStep(j) PROVE ec2[i] = "none"
  BY <1>4 DEF FleetStep, Boot, PrimeDone, StopDone, TakeConfig, FinishJob, Interrupt, LoseEvent,
     TerminateEffect, Running, TypeOK, FleetTypeOK
<1>5. CASE Tick \/ UNCHANGED vars
  BY <1>5 DEF Tick, FleetElapse, ClocksElapse, vars, fleetVars
<1> QED
  BY <1>1, <1>2, <1>3, <1>4, <1>5 DEF Next, Step

-----------------------------------------------------------------------------
\* The clocks of an invocation.

\* What activatedAt records is no older than the invocation; and an invocation took its
\* candidates with more than the activation grace left until they expire, so as long as it
\* remembers one, more than the grace less its own age is left.
ClocksOf(o) ==
  /\ batchAge[o] + runLeft[o] <= LambdaTime
  /\ phase[o] # "start" => batchAge[o] = 0
  /\ \A i \in Instance :
       stage[o][i] # "none" => Active(o) /\ expires[i] + LambdaTime > Grace + runLeft[o]

Clocks == \A o \in Invocation : ClocksOf(o)

\* The expiry of an instance is fixed at its launch.
LEMMA ExpiryStays ==
  ASSUME NEW o \in Invocation, ActivationStep(o)
  PROVE  expires' = expires
<1>1. ASSUME NEW i \in Instance, ActivateOne(o, i) PROVE expires' = expires
  BY <1>1 DEF ActivateOne, ClaimOne, ClaimAnswerLost, ClaimError, SkipExhausted, TagOne,
     TagError, StartOne, StartStale, StartNoCapacity, StartError, Untag, Retag, Undo,
     RegisterOne, Record, DestroyUnregistered, MarkDestroyed, fleetVars
<1> QED
  BY <1>1 DEF ActivationStep, Query, BeginBatch, AbortDone, BeginRegister, RegisterThrows,
     BeginSettle, NextBatch, Crash, fleetVars

LEMMA ClocksActivation ==
  ASSUME TypeOK, NEW o \in Invocation, ClocksOf(o), ActivationStep(o)
  PROVE  ClocksOf(o)'
<1>1. ActivationTypeOK /\ FleetTypeOK
  BY DEF TypeOK
<1>2. LambdaTime \in Nat /\ Grace \in Nat /\ Expiry \in Nat
  BY ActivationAssumption, FleetAssumption DEF ActivationAssumption, FleetAssumption
<1>3. expires' = expires
  BY ExpiryStays
<1>4. ASSUME Ends(o) PROVE ClocksOf(o)'
  <2>1. batchAge'[o] = 0 /\ runLeft'[o] = 0 /\ \A i \in Instance : stage'[o][i] = "none"
    BY <1>1, <1>4 DEF Ends, ActivationTypeOK
  <2> QED
    BY <1>2, <2>1 DEF ClocksOf
<1>5. ASSUME runLeft' = runLeft, batchAge' = batchAge,
             phase'[o] # "start" => batchAge[o] = 0,
             \A i \in Instance : stage'[o][i] # "none" => stage[o][i] # "none",
             Active(o) => Active(o)'
      PROVE  ClocksOf(o)'
  BY <1>3, <1>5 DEF ClocksOf
<1>6. ASSUME NEW i \in Instance, ActivateOne(o, i) PROVE ClocksOf(o)'
  <2>1. runLeft' = runLeft /\ batchAge' = batchAge
    BY <1>6 DEF ActivateOne, ClaimOne, ClaimAnswerLost, ClaimError, SkipExhausted, TagOne,
       TagError, StartOne, StartStale, StartNoCapacity, StartError, Untag, Retag, Undo,
       RegisterOne, Record, DestroyUnregistered, MarkDestroyed
  <2>2. phase' = phase \/ (phase[o] = "claim" /\ phase'[o] = "abort")
    BY <1>1, <1>6 DEF ActivateOne, ClaimOne, ClaimAnswerLost, ClaimError, SkipExhausted, TagOne,
       TagError, StartOne, StartStale, StartNoCapacity, StartError, Untag, Retag, Undo,
       RegisterOne, Record, DestroyUnregistered, MarkDestroyed, GoTo, ActivationTypeOK
  <2>3. stage[o][i] # "none"
    BY <1>6 DEF ActivateOne, ClaimOne, ClaimAnswerLost, ClaimError, SkipExhausted, TagOne,
       TagError, StartOne, StartStale, StartNoCapacity, StartError, Untag, Retag, Undo,
       RegisterOne, Record, DestroyUnregistered, MarkDestroyed
  <2>4. ASSUME NEW j \in Instance, stage'[o][j] # "none" PROVE stage[o][j] # "none"
    <3>1. CASE ClaimError(o, i)
      BY <1>1, <2>4, <3>1 DEF ClaimError, ActivationTypeOK
    <3>2. CASE ~ClaimError(o, i)
      <4>1. \E s \in Stage : Advance(o, i, s)
        BY <1>6, <3>2 DEF ActivateOne, ClaimOne, ClaimAnswerLost, SkipExhausted, TagOne,
           TagError, StartOne, StartStale, StartNoCapacity, StartError, Untag, Retag, Undo,
           RegisterOne, Record, DestroyUnregistered, MarkDestroyed, BeginRollback, Stage
      <4> QED
        BY <1>1, <2>3, <2>4, <4>1 DEF Advance, ActivationTypeOK
    <3> QED
      BY <3>1, <3>2
  <2> QED
    BY <1>5, <2>1, <2>2, <2>4 DEF ClocksOf, Active
<1>7. ASSUME NEW n \in 1 .. MaxNeeded, Query(o, n) PROVE ClocksOf(o)'
  <2>1. phase[o] = "idle" /\ phase'[o] = "claim" /\ runLeft'[o] = LambdaTime
        /\ batchAge' = batchAge
    BY <1>1, <1>7 DEF Query, GoTo, ActivationTypeOK
  <2>2. \A i \in Instance : stage'[o][i] # "none" => expires[i] > Grace
    BY <1>1, <1>7 DEF Query, Candidate, ActivationTypeOK
  <2>3. \A i \in Instance : expires[i] \in Nat
    BY <1>1 DEF FleetTypeOK
  <2> QED
    BY <1>2, <1>3, <2>1, <2>2, <2>3 DEF ClocksOf, Active
<1>8. CASE BeginBatch(o) \/ AbortDone(o) \/ BeginSettle(o) \/ RegisterThrows(o)
  <2>1. CASE Ends(o)
    BY <1>4, <2>1
  <2>2. CASE ~Ends(o)
    <3>1. runLeft' = runLeft /\ batchAge' = batchAge /\ phase[o] \in {"claim", "register"}
          /\ phase'[o] \in {"start", "settle", "register"}
      BY <1>1, <1>8, <2>2 DEF BeginBatch, AbortDone, BeginSettle, RegisterThrows, GoTo,
         ActivationTypeOK
    <3>2. \A j \in Instance : stage'[o][j] # "none" => stage[o][j] # "none"
      BY <1>1, <1>8, <2>2 DEF BeginBatch, AbortDone, BeginSettle, RegisterThrows,
         ActivationTypeOK
    <3> QED
      BY <1>5, <3>1, <3>2 DEF ClocksOf, Active
  <2> QED
    BY <2>1, <2>2
<1>9. CASE BeginRegister(o)
  <2>1. /\ batchAge'[o] = 0 /\ batchAge[o] \in Nat /\ runLeft[o] \in Nat
        /\ runLeft' = runLeft /\ stage' = stage
        /\ phase'[o] \in {"settle", "register"} /\ phase[o] = "start"
    BY <1>1, <1>9 DEF BeginRegister, BetweenInstances, GoTo, ActivationTypeOK
  <2> QED
    BY <1>2, <1>3, <2>1 DEF ClocksOf, Active
<1>10. CASE NextBatch(o)
  <2> DEFINE left == {i \in At(o, {"candidate"}) : pairOf[i] \notin exhausted[o]}
             memory == [i \in Instance |-> IF i \in left THEN "candidate" ELSE "none"]
  <2>1. CASE Ends(o)
    BY <1>4, <2>1
  <2>2. CASE ~Ends(o)
    <3>1. /\ stage' = [stage EXCEPT ![o] = memory] /\ phase[o] = "settle" /\ GoTo(o, "claim")
          /\ runLeft' = runLeft /\ batchAge' = batchAge
      BY <1>10, <2>2 DEF NextBatch
    <3>2. \A j \in Instance : memory[j] # "none" => stage[o][j] # "none"
      BY DEF At
    <3> HIDE DEF memory
    <3>3. phase'[o] = "claim" /\ \A j \in Instance : stage'[o][j] # "none" => stage[o][j] # "none"
      BY <1>1, <3>1, <3>2 DEF GoTo, ActivationTypeOK
    <3> QED
      BY <1>5, <3>1, <3>3 DEF ClocksOf, Active
  <2> QED
    BY <2>1, <2>2
<1>11. CASE Crash(o)
  BY <1>4, <1>11 DEF Crash
<1> QED
  BY <1>6, <1>7, <1>8, <1>9, <1>10, <1>11 DEF ActivationStep

LEMMA ClocksStep == TypeOK /\ Clocks /\ [Next]_vars => Clocks'
<1> SUFFICES ASSUME TypeOK, Clocks, [Next]_vars PROVE Clocks'
  OBVIOUS
<1>1. ASSUME NEW o \in Invocation, ActivationStep(o) PROVE Clocks'
  <2>1. ClocksOf(o)'
    BY <1>1, ClocksActivation DEF Clocks
  <2>2. \A q \in Invocation : q # o => batchAge'[q] = batchAge[q]
    <3>1. ASSUME NEW i \in Instance, ActivateOne(o, i)
          PROVE  UNCHANGED batchAge
      BY <3>1 DEF ActivateOne, ClaimOne, ClaimAnswerLost, ClaimError, SkipExhausted, TagOne,
         TagError, StartOne, StartStale, StartNoCapacity, StartError, Untag, Retag, Undo,
         RegisterOne, Record, DestroyUnregistered, MarkDestroyed
    <3> QED
      BY <1>1, <3>1 DEF ActivationStep, Query, BeginBatch, AbortDone, BeginRegister,
         RegisterThrows, BeginSettle, NextBatch, Crash, Ends, TypeOK, ActivationTypeOK
  <2>3. ASSUME NEW q \in Invocation, q # o PROVE ClocksOf(q)'
    <3>1. ClocksOf(q) /\ batchAge'[q] = batchAge[q] /\ expires' = expires
      BY <1>1, <2>2, <2>3, ExpiryStays DEF Clocks
    <3>2. stage'[q] = stage[q] /\ phase'[q] = phase[q] /\ runLeft'[q] = runLeft[q]
      BY <1>1, <2>3, ActivationFrame DEF TypeOK
    <3> QED
      BY <3>1, <3>2 DEF ClocksOf, Active
  <2> QED
    BY <2>1, <2>3 DEF Clocks
<1>2. ASSUME UNCHANGED <<activationVars, expires>> PROVE Clocks'
  BY <1>2 DEF Clocks, ClocksOf, activationVars, Active
<1>3. CASE Tick
  <2> SUFFICES ASSUME NEW o \in Invocation PROVE ClocksOf(o)'
    BY DEF Clocks
  <2>1. /\ LambdaTime \in Nat /\ Grace \in Nat
        /\ batchAge[o] \in Nat /\ runLeft[o] \in Nat
        /\ \A i \in Instance : expires[i] \in Nat
    BY ActivationAssumption, FleetAssumption
       DEF ActivationAssumption, FleetAssumption, TypeOK, FleetTypeOK, ActivationTypeOK
  <2>2. UNCHANGED <<phase, stage>> /\ (Active(o) <=> Active(o)')
    BY <1>3 DEF Tick, ActivationElapse, Active
  <2>3. /\ Active(o) => runLeft'[o] = runLeft[o] - 1
        /\ ~Active(o) => runLeft'[o] = runLeft[o]
        /\ batchAge'[o] = batchAge[o] \/ (phase[o] = "start" /\ batchAge'[o] = batchAge[o] + 1)
    BY <1>3 DEF Tick, ActivationElapse
  <2>4. \A i \in Instance : expires'[i] >= expires[i] - 1 /\ expires'[i] \in Int
    BY <1>3, <2>1 DEF Tick, FleetElapse, ExpiryElapses
  <2>5. batchAge'[o] + runLeft'[o] <= LambdaTime
    BY <2>1, <2>3 DEF Clocks, ClocksOf, Active
  <2>6. phase'[o] # "start" => batchAge'[o] = 0
    BY <2>2, <2>3 DEF Clocks, ClocksOf
  <2>7. ASSUME NEW i \in Instance, stage'[o][i] # "none"
        PROVE  Active(o)' /\ expires'[i] + LambdaTime > Grace + runLeft'[o]
    <3>1. Active(o) /\ expires[i] + LambdaTime > Grace + runLeft[o]
      BY <2>2, <2>7 DEF Clocks, ClocksOf
    <3>2. runLeft'[o] = runLeft[o] - 1 /\ expires[i] \in Nat /\ expires'[i] >= expires[i] - 1
          /\ expires'[i] \in Int
      BY <2>1, <2>3, <2>4, <3>1
    <3> QED
      BY <2>1, <2>2, <3>1, <3>2
  <2> QED
    BY <2>5, <2>6, <2>7 DEF ClocksOf
<1>4. CASE UNCHANGED vars
  BY <1>2, <1>4 DEF vars, fleetVars
<1> QED
  BY <1>1, <1>2, <1>3, <1>4, TagsAreActivations DEF Next, Step

LEMMA ClocksHold == Spec => []Clocks
<1>1. Init => Clocks
  BY ActivationAssumption DEF ActivationAssumption, Init, ActivationInit, Clocks, ClocksOf
<1> QED
  BY <1>1, ClocksStep, TypeCorrect, PTL DEF Spec

-----------------------------------------------------------------------------
\* Nothing happens to an instance before it is launched.

Unheld(i) == \A o \in Invocation : ~Holds(o, i)

\* An instance is indexed, listed, claimed or tagged after its launch only, and what a run
\* launched has no entry until that run writes it.
Launching ==
  \A i \in Instance :
    /\ ec2[i] = "none" =>
         /\ index[i].state = "ABSENT" /\ seen[i].state = "ABSENT"
         /\ i \notin toWrite
         /\ ~Activated(i) /\ Unheld(i)
    /\ i \in toIndex =>
         /\ ec2[i] # "none"
         /\ index[i].state = "ABSENT"
         /\ Unheld(i)

\* No invocation gets hold of an instance whose entry cannot be claimed, or does anything to it.
LEMMA UnheldStays ==
  ASSUME IInv, Settling, NEW o \in Invocation, ActivationStep(o), NEW j \in Instance,
         Unheld(j), index[j].state # "WARM", index[j].owner = None
  PROVE  Unheld(j)' /\ index'[j] = index[j] /\ Quiet(j)
<1>1. IndexOK /\ ActivationTypeOK /\ None \notin Invocation
  BY IndexAssumption DEF IInv, TypeOK, IndexOK, IndexAssumption
<1>2. ~Holds(o, j) /\ ~Took(o, j) /\ ~Settles(o, j)
  BY <1>1 DEF Unheld, Took, Settles
<1>3. index'[j] = index[j]
  BY <1>1, <1>2, ActivationEntry
<1>4. Unheld(j)'
  <2> SUFFICES ASSUME NEW q \in Invocation, Holds(q, j)' PROVE FALSE
    BY DEF Unheld
  <2>1. CASE q = o
    BY <1>1, <1>2, <2>1, ActivationHolds
  <2>2. CASE q # o
    BY <1>1, <2>2, ActivationFrame DEF Holds, Unheld
  <2> QED
    BY <2>1, <2>2
<1>5. Course(o, j, stage[o][j], stage'[o][j])
  BY CourseOf
<1> QED
  BY <1>2, <1>3, <1>4, <1>5 DEF Course, Holds, Tags, Untags, Starts, Records, Destroys, Loses

LEMMA LaunchingActivation ==
  ASSUME IInv, Settling, Launching, NEW o \in Invocation, ActivationStep(o),
         UNCHANGED reconcileVars
  PROVE  Launching'
<1>1. TypeOK /\ [Next]_vars
  BY DEF IInv, Next, Step
<1>2. seen' = seen /\ toWrite' = toWrite /\ toIndex' = toIndex
  BY DEF reconcileVars, poolVars
<1> SUFFICES ASSUME NEW i \in Instance
             PROVE  /\ ec2'[i] = "none" =>
                         /\ index'[i].state = "ABSENT" /\ seen'[i].state = "ABSENT"
                         /\ i \notin toWrite'
                         /\ ~Activated(i)' /\ Unheld(i)'
                    /\ i \in toIndex' =>
                         /\ ec2'[i] # "none"
                         /\ index'[i].state = "ABSENT"
                         /\ Unheld(i)'
  BY DEF Launching
<1>3. ec2'[i] = "none" => ec2[i] = "none"
  BY <1>1, LaunchedStays
<1>4. ASSUME index[i].state = "ABSENT", Unheld(i)
      PROVE  Unheld(i)' /\ index'[i] = index[i] /\ Quiet(i)
  BY <1>4, UnheldStays DEF IInv, AbsentIsUnowned
<1> QED
  BY <1>2, <1>3, <1>4 DEF Launching, Activated, Quiet

LEMMA LaunchingPool ==
  ASSUME IInv, Launching, PoolStep \/ (\E i \in Instance : UpkeepStep(i)) \/ SweepList,
         UNCHANGED <<activationVars, historyVars>>
  PROVE  Launching'
<1>1. TypeOK /\ [Next]_vars /\ PoolPhases
  BY DEF IInv, Next, Step
<1>2. tag' = tag /\ stage' = stage
  BY TagsAreActivations DEF activationVars
<1> SUFFICES ASSUME NEW i \in Instance
             PROVE  /\ ec2'[i] = "none" =>
                         /\ index'[i].state = "ABSENT" /\ seen'[i].state = "ABSENT"
                         /\ i \notin toWrite'
                         /\ ~Activated(i)' /\ Unheld(i)'
                    /\ i \in toIndex' =>
                         /\ ec2'[i] # "none"
                         /\ index'[i].state = "ABSENT"
                         /\ Unheld(i)'
  BY DEF Launching
<1>3. (Unheld(i)' <=> Unheld(i)) /\ (Activated(i)' <=> Activated(i))
  BY <1>2 DEF Unheld, Holds, Activated
<1>4. ec2'[i] = "none" => ec2[i] = "none"
  BY <1>1, LaunchedStays
<1>5. \/ index'[i] = index[i]
      \/ index'[i] = NoItem /\ toWrite' = {} /\ toIndex' = toIndex
      \/ i \in toWrite /\ index[i].state # "ACTIVATED"
      \/ i \in toIndex /\ i \notin toIndex'
      \/ index[i].state = "PRIMING"
  BY PoolTouch
<1>6. /\ i \in toWrite' =>
           \/ i \in toWrite
           \/ ~Activated(i) /\ (ec2[i] # "none" \/ seen[i].state # "ABSENT")
      /\ i \in toIndex' =>
           \/ i \in toIndex
           \/ ec2[i] = "none" /\ ec2'[i] = "pending"
      /\ \/ seen'[i].state \in {seen[i].state, index[i].state, "ABSENT"}
         \/ i \in toWrite /\ seen'[i].state \in Listed \ {"none"}
  BY PoolTakesOn
<1>7. CASE ec2[i] = "none"
  <2>1. /\ index[i].state = "ABSENT" /\ seen[i].state = "ABSENT"
        /\ i \notin toWrite /\ i \notin toIndex
        /\ ~Activated(i) /\ Unheld(i)
    BY <1>7 DEF Launching
  <2>2. index'[i].state = "ABSENT"
    BY <1>5, <2>1, NoItemFields
  <2> QED
    BY <1>3, <1>6, <1>7, <2>1, <2>2
<1>8. CASE ec2[i] # "none" /\ i \in toIndex'
  <2>1. i \in toIndex
    BY <1>6, <1>8
  <2>2. index[i].state = "ABSENT" /\ Unheld(i) /\ i \notin toWrite
    BY <1>1, <2>1 DEF Launching, PoolPhases
  <2>3. index'[i].state = "ABSENT"
    BY <1>5, <1>8, <2>2, NoItemFields
  <2> QED
    BY <1>3, <1>4, <1>8, <2>2, <2>3
<1> QED
  BY <1>4, <1>7, <1>8

LEMMA LaunchingStep == IInv /\ Settling /\ Launching /\ [Next]_vars => Launching'
<1> SUFFICES ASSUME IInv, Settling, Launching, [Next]_vars PROVE Launching'
  OBVIOUS
<1>1. \A i \in Instance : ec2'[i] = "none" => ec2[i] = "none"
  BY LaunchedStays DEF IInv
<1>2. ASSUME UNCHANGED <<stage, seen, toWrite, toIndex>>,
             \A i \in Instance : index'[i].state = index[i].state,
             \A i \in Instance : Activated(i)' => Activated(i)
      PROVE  Launching'
  BY <1>1, <1>2 DEF Launching, Unheld, Holds
<1>3. ASSUME NEW i \in Instance, FleetStep(i),
             UNCHANGED <<index, activationVars, historyVars, reconcileVars>>
      PROVE  Launching'
  BY <1>2, <1>3, TagsAreActivations DEF activationVars, reconcileVars, poolVars, Activated
<1>4. CASE Tick
  <2>1. \A i \in Instance : index'[i].state = index[i].state
    BY <1>4, OlderFields DEF IInv, TypeOK, Tick, IndexElapse
  <2>2. \A i \in Instance : Activated(i)' => Activated(i)
    BY <1>4, FleetAssumption
       DEF FleetAssumption, IInv, TypeOK, FleetTypeOK, Tick, FleetElapse, ClocksElapse, Activated
  <2> QED
    BY <1>2, <1>4, <2>1, <2>2 DEF Tick, ActivationElapse, ReconcileElapse
<1>5. CASE UNCHANGED vars
  BY <1>2, <1>5 DEF vars, fleetVars, activationVars, reconcileVars, poolVars, Activated
<1> QED
  BY <1>3, <1>4, <1>5, LaunchingActivation, LaunchingPool DEF Next, Step

LEMMA LaunchingHolds == Spec => []Launching
<1>1. ASSUME Init PROVE Launching
  <2>1. \A i \in Instance : index[i].state = "ABSENT"
    BY <1>1, NoItemFields DEF Init, IndexInit
  <2>5. \A i \in Instance : ~Activated(i)
    <3>1. tag = [i \in Instance |-> -1]
      BY <1>1 DEF Init, FleetInit
    <3>2. \A i \in Instance : tag[i] = -1
      BY <3>1
    <3> TAKE i \in Instance
    <3>3. tag[i] = -1
      BY <3>2
    <3>4. ~(tag[i] >= 0)
      BY <3>3
    <3> QED
      BY <3>4 DEF Activated
  <2>2. \A i \in Instance : seen[i].state = "ABSENT"
    BY <1>1 DEF Init, ReconcileInit, Unseen
  <2>3. \A i \in Instance : Unheld(i)
    BY <1>1 DEF Init, ActivationInit, Unheld, Holds
  <2>4. toWrite = {} /\ toIndex = {}
    BY <1>1 DEF Init, ReconcileInit
  <2> QED
    BY <2>1, <2>2, <2>3, <2>4, <2>5 DEF Launching
<1> QED
  BY <1>1, LaunchingStep, InductiveInvariant, SettlingHolds, PTL DEF Spec

-----------------------------------------------------------------------------
\* What a finished activation leaves behind.

\* The outcome is on record: the tag is on the instance, the entry is marked or gone, and
\* nobody will write or claim it again.
Closed(i) ==
  /\ Activated(i)
  /\ Unheld(i)
  /\ index[i].state \in {"ACTIVATED", "ABSENT"}
  /\ index[i].owner = None
  /\ i \in toWrite => index[i].state = "ACTIVATED"
  /\ i \notin toIndex

Over(i) == ec2[i] = "terminated" \/ Closed(i)

LEMMA ClosedPool ==
  ASSUME IInv, Launching, PoolStep \/ (\E i \in Instance : UpkeepStep(i)) \/ SweepList,
         UNCHANGED <<activationVars, historyVars>>, NEW i \in Instance, Closed(i)
  PROVE  Closed(i)'
<1>1. (Unheld(i)' <=> Unheld(i)) /\ (Activated(i)' <=> Activated(i))
  BY TagsAreActivations DEF Unheld, Holds, Activated, activationVars
<1>2. \/ index'[i] = index[i]
      \/ index'[i] = NoItem /\ toWrite' = {} /\ toIndex' = toIndex
      \/ i \in toWrite /\ index[i].state # "ACTIVATED"
      \/ i \in toIndex /\ i \notin toIndex'
      \/ index[i].state = "PRIMING"
  BY PoolTouch
<1>3. (i \in toWrite' => i \in toWrite) /\ i \notin toIndex'
  <2>1. ec2[i] # "none"
    BY DEF Closed, Launching
  <2> QED
    BY <2>1, PoolTakesOn DEF Closed
<1>4. \/ index'[i] = index[i]
      \/ index'[i] = NoItem /\ toWrite' = {}
  BY <1>2 DEF Closed
<1> QED
  BY <1>1, <1>3, <1>4, NoItemFields DEF Closed

\* A finished activation is final.
LEMMA ClosedStays ==
  ASSUME IInv, Settling, Launching, [Next]_vars, NEW i \in Instance, Closed(i)
  PROVE  Closed(i)'
<1>1. ASSUME NEW o \in Invocation, ActivationStep(o), UNCHANGED reconcileVars
      PROVE  Closed(i)'
  <2>1. Unheld(i)' /\ index'[i] = index[i] /\ Quiet(i)
    BY <1>1, UnheldStays DEF Closed
  <2>2. toWrite' = toWrite /\ toIndex' = toIndex
    BY <1>1 DEF reconcileVars, poolVars
  <2> QED
    BY <2>1, <2>2 DEF Closed, Activated, Quiet
<1>2. ASSUME PoolStep \/ (\E j \in Instance : UpkeepStep(j)) \/ SweepList,
             UNCHANGED <<activationVars, historyVars>>
      PROVE  Closed(i)'
  BY <1>2, ClosedPool
<1>3. ASSUME UNCHANGED <<stage, toWrite, toIndex>>, Activated(i)' <=> Activated(i),
             index'[i].state = index[i].state, index'[i].owner = index[i].owner
      PROVE  Closed(i)'
  BY <1>3 DEF Closed, Unheld, Holds
<1>4. ASSUME NEW j \in Instance, FleetStep(j),
             UNCHANGED <<index, activationVars, historyVars, reconcileVars>>
      PROVE  Closed(i)'
  BY <1>3, <1>4, TagsAreActivations DEF activationVars, reconcileVars, poolVars, Activated
<1>5. CASE Tick
  <2>1. index'[i].state = index[i].state /\ index'[i].owner = index[i].owner
    BY <1>5, OlderFields DEF IInv, TypeOK, Tick, IndexElapse
  <2>2. Activated(i)' <=> Activated(i)
    BY <1>5, FleetAssumption
       DEF FleetAssumption, IInv, TypeOK, FleetTypeOK, Tick, FleetElapse, ClocksElapse, Activated
  <2> QED
    BY <1>3, <1>5, <2>1, <2>2 DEF Tick, ActivationElapse, ReconcileElapse
<1>6. CASE UNCHANGED vars
  BY <1>3, <1>6 DEF vars, fleetVars, activationVars, reconcileVars, poolVars, Activated
<1> QED
  BY <1>1, <1>2, <1>4, <1>5, <1>6 DEF Next, Step

LEMMA OverStays ==
  ASSUME IInv, Settling, Launching, [Next]_vars, NEW i \in Instance, Over(i)
  PROVE  Over(i)'
BY ClosedStays, TerminatedStays DEF IInv, Over

-----------------------------------------------------------------------------
\* The traces of the activations of one instance.

\* The stages in which an invocation has started the instance.
Begun == {"running", "registered", "unregistered", "destroyed"}

\* Somebody put the tag on the instance within its own lifetime and still works on it.
Tagger(i, o) ==
  /\ stage[o][i] \in {"untag"} \cup AtWork \cup Begun
  /\ tag[i] + runLeft[o] <= LambdaTime

\* Unless an activation of the instance was cut short: its tag and its starts are of the one
\* invocation that works on it or of a finished activation; what the pool read as activated
\* or is about to drop is finished; and what the sweep listed is finished or expired.
Tidy(i) ==
  /\ i \in torn => ec2[i] = "terminated"
  /\ index[i].state = "ACTIVATED" => Over(i)
  /\ seen[i].state = "ACTIVATED" => Over(i)
  /\ i \in toDrop => Over(i)
  /\ Activated(i) => Over(i) \/ \E o \in Invocation : Tagger(i, o)
  /\ \A o \in Invocation : stage[o][i] = "destroyed" => ec2[i] = "terminated"
  /\ \A o \in startedBy[i] : Over(i) \/ stage[o][i] \in Begun
  /\ \A o, q \in startedBy[i] : o = q
  /\ i \in swept => Closed(i) \/ expires[i] = 0

Tidied == \A i \in Instance \ loose : Tidy(i)

\* A tag that has settled is of a finished activation: an invocation at work on the instance
\* would have run out of time before.
LEMMA SettledIsOver ==
  ASSUME TypeOK, NEW i \in Instance, Tidy(i), Settled(i)
  PROVE  Over(i)
<1>1. /\ Grace \in Nat /\ LambdaTime \in Nat /\ LambdaTime < Grace
      /\ \A o \in Invocation : runLeft[o] \in Nat
  BY ActivationAssumption, FleetAssumption
     DEF ActivationAssumption, FleetAssumption, TypeOK, ActivationTypeOK
<1>2. tag[i] = Grace
  BY DEF Settled
<1>3. \A o \in Invocation : ~Tagger(i, o)
  BY <1>1, <1>2 DEF Tagger
<1>4. Activated(i)
  BY <1>1, <1>2 DEF Activated
<1> QED
  BY <1>3, <1>4 DEF Tidy

\* The marked outcome of an activation is final.
LEMMA RecordsClose ==
  ASSUME IInv, Settling, Tagging, Launching, NEW o \in Invocation, ActivationStep(o),
         UNCHANGED reconcileVars, NEW i \in Instance, i \notin torn,
         Records(i, stage[o][i], stage'[o][i])
  PROVE  Closed(i)'
<1>1. ActivationTypeOK /\ stage[o][i] = "registered" /\ stage'[o][i] = "none"
  BY DEF IInv, TypeOK, Records
<1>2. Holds(o, i)
  BY <1>1 DEF Holds
<1>3. Unheld(i)'
  <2> SUFFICES ASSUME NEW q \in Invocation, Holds(q, i)' PROVE FALSE
    BY DEF Unheld
  <2>1. q # o
    BY <1>1 DEF Holds
  <2>2. Holds(q, i)
    BY <1>1, <2>1, ActivationFrame DEF Holds
  <2> QED
    BY <1>2, <2>1, <2>2, HeldEntry
<1>4. Activated(i)'
  BY <1>1 DEF Tagging, TagsKept, AtWork, Records, Quiet, Activated
<1>5. index'[i].state = "ACTIVATED" /\ index'[i].owner = None
  BY TaggingActivation DEF Records, Tagging, ActivatedIsUnowned
<1>6. i \notin toIndex'
  BY <1>2 DEF Launching, Unheld, reconcileVars, poolVars
<1> QED
  BY <1>3, <1>4, <1>5, <1>6 DEF Closed

LEMMA TidyActivation ==
  ASSUME IInv, Settling, Tagging, Launching, Clocks, NEW o \in Invocation, ActivationStep(o),
         UNCHANGED reconcileVars, NEW i \in Instance, i \notin loose', Tidy(i)
  PROVE  Tidy(i)'
<1> DEFINE s == stage[o][i]
           t == stage'[o][i]
<1>1. TypeOK /\ ActivationTypeOK /\ IndexOK /\ [Next]_vars
  BY DEF IInv, TypeOK, IndexOK, Next, Step
<1>2. UNCHANGED <<torn, seen, toDrop, swept>>
  BY DEF reconcileVars, poolVars
<1>3. /\ Over(i) => Over(i)'
      /\ Closed(i) => Closed(i)'
      /\ ec2[i] = "terminated" => ec2'[i] = "terminated"
  BY <1>1, OverStays, ClosedStays, TerminatedStays
<1>4. \A q \in Invocation : q # o => stage'[q][i] = stage[q][i] /\ runLeft'[q] = runLeft[q]
  BY <1>1, ActivationFrame
<1>5. t \notin {"none", "candidate"} => runLeft'[o] = runLeft[o]
  BY <1>1, ActivationHolds DEF Holds
<1>6. Course(o, i, s, t) /\ ~Loses(i, t)
  BY CourseOf DEF Loses
<1>7. Records(i, s, t) => Over(i)'
  <2>1. CASE i \in torn
    BY <1>3, <2>1 DEF Tidy, Over
  <2>2. CASE i \notin torn
    BY <2>2, RecordsClose DEF Over
  <2> QED
    BY <2>1, <2>2
<1>8. Starts(o, i, s, t) => \A q \in startedBy[i] : q = o
  <2> SUFFICES ASSUME Starts(o, i, s, t), NEW q \in startedBy[i] PROVE q = o
    OBVIOUS
  <2>1. q \in Invocation
    BY <1>1 DEF ActivationTypeOK
  <2>2. Holds(o, i) /\ ec2[i] # "terminated"
    BY DEF Starts, Holds, Running, Stopped
  <2>3. ~Over(i)
    BY <2>2 DEF Over, Closed, Unheld
  <2>4. Holds(q, i) /\ i \notin torn
    BY <2>2, <2>3 DEF Tidy, Begun, Holds
  <2> QED
    BY <2>1, <2>2, <2>4, HeldEntry
<1>9. i \in torn' => ec2'[i] = "terminated"
  BY <1>2, <1>3 DEF Tidy
<1>10. index'[i].state = "ACTIVATED" => Over(i)'
  BY <1>3, <1>7, ActivationMarks DEF Tidy
<1>11. (seen'[i].state = "ACTIVATED" => Over(i)') /\ (i \in toDrop' => Over(i)')
  BY <1>2, <1>3 DEF Tidy
<1>12. ASSUME Activated(i)', ~Over(i)'
       PROVE  \E q \in Invocation : Tagger(i, q)'
  <2>1. CASE Tags(o, i, s, t)
    <3>1. tag'[i] = batchAge[o] /\ t \in {"tagged", "untag"}
      BY <2>1 DEF Tags
    <3>2. batchAge[o] + runLeft[o] <= LambdaTime
      BY DEF Clocks, ClocksOf
    <3>3. Tagger(i, o)'
      BY <1>5, <3>1, <3>2 DEF Tagger, AtWork
    <3> QED
      BY <3>3
  <2>2. CASE ~Tags(o, i, s, t)
    <3>1. ~Untags(i, s, t)
      <4>1. ASSUME tag'[i] = -1 PROVE FALSE
        <5>1. ~(tag'[i] >= 0)
          BY <4>1
        <5> QED
          BY <1>12, <5>1 DEF Activated
      <4> QED
        BY <4>1 DEF Untags
    <3>2. tag'[i] = tag[i] /\ ~Records(i, s, t)
      BY <1>6, <1>7, <1>12, <2>2, <3>1 DEF Course, Quiet, Starts, Destroys
    <3>3. Activated(i) /\ ~Over(i)
      BY <1>3, <1>12, <3>2 DEF Activated
    <3>4. PICK q \in Invocation : Tagger(i, q)
      BY <3>3 DEF Tidy
    <3>5. CASE q # o
      BY <1>4, <3>2, <3>4, <3>5 DEF Tagger
    <3>6. CASE q = o
      <4>1. s # "destroyed"
        BY <3>3 DEF Tidy, Over
      <4>2. t \in {"untag"} \cup AtWork \cup Begun
        BY <1>6, <2>2, <3>1, <3>2, <3>4, <3>6, <4>1
           DEF Tagger, Course, Hop, Starts, Destroys, AtWork, Begun
      <4>3. runLeft'[o] = runLeft[o]
        BY <1>5, <4>2 DEF AtWork, Begun
      <4> QED
        BY <3>2, <3>4, <3>6, <4>2, <4>3 DEF Tagger
    <3> QED
      BY <3>5, <3>6
  <2> QED
    BY <2>1, <2>2
<1>13. ASSUME NEW q \in Invocation, stage'[q][i] = "destroyed"
       PROVE  ec2'[i] = "terminated"
  <2>1. CASE q # o
    BY <1>3, <1>4, <1>13, <2>1 DEF Tidy
  <2>2. CASE q = o
    BY <1>3, <1>6, <1>13, <2>2 DEF Tidy, Course, Hop, Tags, Untags, Starts, Records, Destroys
  <2> QED
    BY <2>1, <2>2
<1>14. ASSUME NEW q \in startedBy'[i]
       PROVE  Over(i)' \/ stage'[q][i] \in Begun
  <2>1. CASE q # o
    <3>1. q \in startedBy[i] /\ q \in Invocation
      BY <1>1, <1>6, <1>14, <2>1
         DEF Course, Quiet, Tags, Untags, Starts, Records, Destroys, ActivationTypeOK
    <3> QED
      BY <1>3, <1>4, <2>1, <3>1 DEF Tidy
  <2>2. CASE q = o /\ ~Starts(o, i, s, t)
    <3>1. o \in startedBy[i]
      BY <1>6, <1>14, <2>2 DEF Course, Quiet, Tags, Untags, Records, Destroys
    <3>2. Over(i) \/ (s \in Begun /\ s # "destroyed")
      BY <3>1 DEF Tidy, Over
    <3> QED
      BY <1>3, <1>6, <1>7, <2>2, <3>2 DEF Course, Hop, Tags, Untags, Destroys, Begun
  <2>3. CASE q = o /\ Starts(o, i, s, t)
    BY <2>3 DEF Starts, Begun
  <2> QED
    BY <2>1, <2>2, <2>3
<1>15. ASSUME NEW p \in startedBy'[i], NEW q \in startedBy'[i]
       PROVE  p = q
  <2>1. CASE Starts(o, i, s, t)
    BY <1>8, <1>15, <2>1 DEF Starts
  <2>2. CASE ~Starts(o, i, s, t)
    BY <1>6, <1>15, <2>2 DEF Course, Quiet, Tags, Untags, Records, Destroys, Tidy
  <2> QED
    BY <2>1, <2>2
<1>16. i \in swept' => Closed(i)' \/ expires'[i] = 0
  <2>1. expires' = expires
    BY ExpiryStays
  <2> QED
    BY <1>2, <1>3, <2>1 DEF Tidy
<1> QED
  BY <1>9, <1>10, <1>11, <1>12, <1>13, <1>14, <1>15, <1>16 DEF Tidy

LEMMA TidyPool ==
  ASSUME IInv, Settling, Launching,
         PoolStep \/ (\E j \in Instance : UpkeepStep(j)) \/ SweepList,
         UNCHANGED <<activationVars, historyVars>>, NEW i \in Instance, Tidy(i)
  PROVE  Tidy(i)'
<1>1. TypeOK /\ [Next]_vars
  BY DEF IInv, Next, Step
<1>2. UNCHANGED <<stage, runLeft, startedBy, tag, expires>>
  BY TagsAreActivations DEF activationVars, historyVars
<1>3. /\ Over(i) => Over(i)'
      /\ Closed(i) => Closed(i)'
      /\ ec2[i] = "terminated" => ec2'[i] = "terminated"
  BY <1>1, OverStays, ClosedStays, TerminatedStays
<1>4. /\ i \in toDrop' => i \in toDrop \/ Finished(i)
      /\ i \in swept' => i \in swept \/ Sweepable(i)
      /\ i \in torn' => i \in torn \/ (i \in toDrop /\ LiveClaim(i))
      /\ seen'[i].state = "ACTIVATED" => "ACTIVATED" \in {seen[i].state, index[i].state}
  BY PoolTakesOn DEF Listed
<1>5. Activated(i) /\ Settled(i) => Over(i)
  BY <1>1, SettledIsOver
<1>6. i \in torn' => ec2'[i] = "terminated"
  <2>1. i \in toDrop /\ LiveClaim(i) => ec2[i] = "terminated"
    BY DEF Tidy, Over, Closed, LiveClaim
  <2> QED
    BY <1>3, <1>4, <2>1 DEF Tidy
<1>7. index'[i].state = "ACTIVATED" => Over(i)'
  BY <1>3, PoolMarks DEF Tidy
<1>8. seen'[i].state = "ACTIVATED" => Over(i)'
  BY <1>3, <1>4 DEF Tidy
<1>9. i \in toDrop' => Over(i)'
  <2>1. Finished(i) => Over(i)
    BY <1>5 DEF Finished, SeenSettled, Over, Tidy
  <2> QED
    BY <1>3, <1>4, <2>1 DEF Tidy
<1>10. Activated(i)' => Over(i)' \/ \E o \in Invocation : Tagger(i, o)'
  BY <1>2, <1>3 DEF Tidy, Activated, Tagger
<1>11. \A o \in Invocation : stage'[o][i] = "destroyed" => ec2'[i] = "terminated"
  BY <1>2, <1>3 DEF Tidy
<1>12. \A o \in startedBy'[i] : Over(i)' \/ stage'[o][i] \in Begun
  BY <1>2, <1>3 DEF Tidy
<1>13. \A o, q \in startedBy'[i] : o = q
  BY <1>2 DEF Tidy
<1>14. i \in swept' => Closed(i)' \/ expires'[i] = 0
  <2>1. Sweepable(i) => Closed(i) \/ expires[i] = 0
    BY <1>5 DEF Sweepable, Over, Stopped
  <2> QED
    BY <1>2, <1>3, <1>4, <2>1 DEF Tidy
<1> QED
  BY <1>6, <1>7, <1>8, <1>9, <1>10, <1>11, <1>12, <1>13, <1>14 DEF Tidy

\* Time makes a tag older and the invocation that works on the instance as much shorter-lived.
LEMMA TidyTick ==
  ASSUME IInv, Settling, Launching, Tick, NEW i \in Instance, Tidy(i)
  PROVE  Tidy(i)'
<1>1. TypeOK /\ [Next]_vars
  BY DEF IInv, Next
<1>2. UNCHANGED <<stage, startedBy, ec2, seen, toDrop, swept, torn>>
  BY DEF Tick, ActivationElapse, historyVars, FleetElapse, ClocksElapse, ReconcileElapse
<1>3. (Over(i) => Over(i)') /\ (Closed(i) => Closed(i)')
  BY <1>1, OverStays, ClosedStays
<1>4. index'[i].state = index[i].state
  BY <1>1, OlderFields DEF Tick, IndexElapse, TypeOK
<1>5. /\ tag[i] \in Int /\ tag'[i] \in {tag[i], tag[i] + 1}
      /\ Activated(i)' => Activated(i)
  BY <1>1, FleetAssumption
     DEF FleetAssumption, TypeOK, FleetTypeOK, Tick, FleetElapse, ClocksElapse, Activated
<1>6. Activated(i)' => Over(i)' \/ \E o \in Invocation : Tagger(i, o)'
  <2> SUFFICES ASSUME Activated(i)', ~Over(i)'
               PROVE  \E o \in Invocation : Tagger(i, o)'
    OBVIOUS
  <2>1. PICK o \in Invocation : Tagger(i, o)
    BY <1>3, <1>5 DEF Tidy
  <2>2. Holds(o, i)
    BY <2>1 DEF Tagger, Holds, AtWork, Begun
  <2>3. Active(o)
    BY <2>2 DEF IInv, HoldersOwn
  <2>4. runLeft'[o] = runLeft[o] - 1 /\ runLeft[o] \in Int /\ LambdaTime \in Int
    BY <1>1, <2>3, ActivationAssumption
       DEF ActivationAssumption, Tick, ActivationElapse, TypeOK, ActivationTypeOK
  <2>5. tag[i] + runLeft[o] <= LambdaTime /\ stage'[o] = stage[o]
    BY <1>2, <2>1 DEF Tagger
  <2>6. tag'[i] + runLeft'[o] <= LambdaTime
    BY <1>5, <2>4, <2>5
  <2> QED
    BY <2>1, <2>5, <2>6 DEF Tagger
<1>7. i \in swept' => Closed(i)' \/ expires'[i] = 0
  <2>1. expires[i] = 0 => expires'[i] = 0
    BY DEF Tick, FleetElapse, ExpiryElapses
  <2> QED
    BY <1>2, <1>3, <2>1 DEF Tidy
<1> QED
  BY <1>2, <1>3, <1>4, <1>6, <1>7 DEF Tidy

LEMMA TidyStep ==
  IInv /\ Settling /\ Tagging /\ Launching /\ Clocks /\ Tidied /\ [Next]_vars => Tidied'
<1> SUFFICES ASSUME IInv, Settling, Tagging, Launching, Clocks, Tidied, [Next]_vars,
                    NEW i \in Instance, i \notin loose'
             PROVE  Tidy(i)'
  BY DEF Tidied
<1>1. TypeOK
  BY DEF IInv
<1>2. loose \subseteq loose'
  <2>1. ASSUME UNCHANGED historyVars PROVE loose \subseteq loose'
    BY <2>1 DEF historyVars
  <2> QED
    BY <2>1, LooseGrows DEF Next, Step, Tick, ActivationElapse, vars
<1>3. Tidy(i)
  BY <1>2 DEF Tidied
<1>4. /\ Over(i) => Over(i)'
      /\ Closed(i) => Closed(i)'
      /\ ec2[i] = "terminated" => ec2'[i] = "terminated"
  BY <1>1, OverStays, ClosedStays, TerminatedStays
<1>5. ASSUME UNCHANGED <<index, activationVars, historyVars, reconcileVars, tag, expires>>
      PROVE  Tidy(i)'
  <2>1. UNCHANGED <<stage, runLeft, startedBy, seen, toDrop, swept, torn>>
    BY <1>5 DEF activationVars, historyVars, reconcileVars, poolVars
  <2>2. Activated(i)' => Over(i)' \/ \E o \in Invocation : Tagger(i, o)'
    BY <1>3, <1>4, <1>5, <2>1 DEF Tidy, Activated, Tagger
  <2> QED
    BY <1>3, <1>4, <1>5, <2>1, <2>2 DEF Tidy
<1>6. ASSUME NEW j \in Instance, FleetStep(j),
             UNCHANGED <<index, activationVars, historyVars, reconcileVars>>
      PROVE  Tidy(i)'
  BY <1>5, <1>6, TagsAreActivations
<1>7. CASE UNCHANGED vars
  BY <1>5, <1>7 DEF vars, fleetVars
<1> QED
  BY <1>3, <1>6, <1>7, TidyActivation, TidyPool, TidyTick DEF Next, Step

LEMMA TidyHolds == Spec => []Tidied
<1>1. ASSUME Init PROVE Tidied
  <2> SUFFICES ASSUME NEW i \in Instance PROVE Tidy(i)
    BY DEF Tidied
  <2>1. index[i].state = "ABSENT" /\ seen[i].state = "ABSENT"
    <3>1. index[i].state = "ABSENT"
      BY <1>1, NoItemFields DEF Init, IndexInit
    <3>2. seen[i].state = "ABSENT"
      BY <1>1 DEF Init, ReconcileInit, Unseen
    <3> QED
      BY <3>1, <3>2
  <2>2. ~Activated(i)
    <3>1. tag[i] = -1
      BY <1>1 DEF Init, FleetInit
    <3>2. ~(tag[i] >= 0)
      BY <3>1
    <3> QED
      BY <3>2 DEF Activated
  <2>3. startedBy[i] = {} /\ \A o \in Invocation : stage[o][i] = "none"
    BY <1>1 DEF Init, ActivationInit
  <2>4. torn = {} /\ toDrop = {} /\ swept = {}
    BY <1>1 DEF Init, ReconcileInit
  <2> QED
    BY <2>1, <2>2, <2>3, <2>4 DEF Tidy
<1> QED
  BY <1>1, TidyStep, InductiveInvariant, SettlingHolds, TaggingHolds, LaunchingHolds, ClocksHold,
     PTL DEF Spec

\* A second invocation starts an instance only when the outcome of an earlier activation of it
\* never reached the index: a best-effort write failed or the Lambda ended first
\* (warm-activation.ts activateBatch).
THEOREM OneStart == Spec => []SecondStartNeedsLooseEnd
<1>1. TypeOK /\ Tidied => SecondStartNeedsLooseEnd
  <2> SUFFICES ASSUME TypeOK, Tidied, NEW i \in Instance \ loose
               PROVE  ~(Cardinality(startedBy[i]) > 1)
    BY DEF SecondStartNeedsLooseEnd
  <2>1. \A o, q \in startedBy[i] : o = q
    BY DEF Tidied, Tidy
  <2>2. CASE startedBy[i] = {}
    <3>1. Cardinality(startedBy[i]) = 0
      BY <2>2, FS_EmptySet
    <3> QED
      BY <3>1
  <2>3. CASE startedBy[i] # {}
    <3>1. PICK o \in startedBy[i] : TRUE
      BY <2>3
    <3>2. startedBy[i] = {o}
      BY <2>1, <3>1
    <3>3. Cardinality(startedBy[i]) = 1
      BY <3>2, FS_Singleton
    <3> QED
      BY <3>3
  <2> QED
    BY <2>2, <2>3
<1> QED
  BY <1>1, TypeCorrect, TidyHolds, PTL

\* The sweep destroys an instance an invocation works on only when an earlier activation left
\* it behind (scale-down.ts sweepStoppedWarmInstances): a candidate has more than the grace
\* left, so it does not expire before the invocation that claimed it ends.
THEOREM SweepSpares == Spec => SweepSparesFirstActivation
<1>1. ASSUME TypeOK, Tidied, Clocks, NEW i \in Instance, i \in swept, Holders(i) # {},
             i \notin loose
      PROVE  FALSE
  <2>1. PICK o \in Invocation : Holds(o, i)
    BY <1>1 DEF Holders
  <2>2. expires[i] + LambdaTime > Grace + runLeft[o]
    BY <1>1, <2>1 DEF Clocks, ClocksOf, Holds
  <2>3. /\ runLeft[o] \in Nat /\ LambdaTime \in Nat /\ Grace \in Nat
        /\ LambdaTime < Grace
    BY <1>1, ActivationAssumption, FleetAssumption
       DEF ActivationAssumption, FleetAssumption, TypeOK, ActivationTypeOK
  <2>4. expires[i] # 0
    BY <2>2, <2>3
  <2>5. ~Closed(i)
    BY <2>1 DEF Closed, Unheld
  <2> QED
    BY <1>1, <2>4, <2>5 DEF Tidied, Tidy
<1>2. TypeOK /\ Tidied /\ Clocks
        => [\A i \in Instance :
              i \in swept \ swept' /\ ec2'[i] = "terminated" /\ Holders(i) # {}
                => i \in loose]_vars
  BY <1>1
<1> QED
  BY <1>2, TypeCorrect, TidyHolds, ClocksHold, PTL DEF SweepSparesFirstActivation
=============================================================================
