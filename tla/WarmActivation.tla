--------------------------- MODULE WarmActivation ---------------------------
(****************************************************************************)
(* Scale-up's warm activation                                               *)
(* (libs/compute-providers/aws/ec2/src/control-plane/warm-activation.ts):   *)
(* claim index entries, tag and start their instances one at a time,        *)
(* register runners for the started ones, record the outcome.  Invocations  *)
(* run concurrently; each may end at any step (an exception, an abort or    *)
(* the Lambda timeout) and then does nothing more.                          *)
(****************************************************************************)
EXTENDS WarmFleet, FiniteSets

CONSTANTS
  LambdaTime,  \* the Lambda timeout of scale-up, in ticks
  MaxNeeded,   \* bound on the runners one invocation is asked for
  Pair,        \* instance type and availability zone pairs
  pairOf       \* the pair each instance is launched with

ASSUME ActivationAssumption ==
  /\ LambdaTime \in Nat
  /\ LambdaTime <= ClaimTTL   \* deployment: 30 s by default against 10 minutes
  /\ LambdaTime < Grace       \* deployment: and strictly, a tag settles at exactly Grace
  /\ MaxNeeded \in Nat \ {0}
  /\ pairOf \in [Instance -> Pair]

VARIABLES
  phase,      \* where each invocation is in activateWarmRunners
  stage,      \* how far each instance is, as each invocation remembers it
  needed,     \* runners still needed
  exhausted,  \* exhaustedCapacity
  outcome,    \* the rollback under way: RollbackOutcome
  runLeft,    \* time left before the Lambda timeout
  batchAge,   \* time since activateBatch took activatedAt
  startedBy,  \* history: invocations whose StartInstances succeeded
  loose       \* history: instances an activation ended for without recording the outcome

activationVars == <<phase, stage, needed, exhausted, outcome, runLeft, batchAge>>
historyVars    == <<startedBy, loose>>

Phase == {"idle", "claim", "abort", "start", "register", "settle", "done"}
Stage == {"none", "candidate", "claimed", "tagged", "untag", "retag", "undo",
          "running", "registered", "unregistered", "destroyed"}
RollbackOutcome == {"release", "cooldown", "unusable"}

ActivationTypeOK ==
  /\ phase \in [Invocation -> Phase]
  /\ stage \in [Invocation -> [Instance -> Stage]]
  /\ needed \in [Invocation -> 0 .. MaxNeeded]
  /\ exhausted \in [Invocation -> SUBSET Pair]
  /\ outcome \in [Invocation -> RollbackOutcome]
  /\ runLeft \in [Invocation -> 0 .. LambdaTime]
  /\ batchAge \in [Invocation -> 0 .. LambdaTime]
  /\ startedBy \in [Instance -> SUBSET Invocation]
  /\ loose \subseteq Instance

ActivationInit ==
  /\ phase = [o \in Invocation |-> "idle"]
  /\ stage = [o \in Invocation |-> [i \in Instance |-> "none"]]
  /\ needed = [o \in Invocation |-> 0]
  /\ exhausted = [o \in Invocation |-> {}]
  /\ outcome = [o \in Invocation |-> "release"]
  /\ runLeft = [o \in Invocation |-> 0]
  /\ batchAge = [o \in Invocation |-> 0]
  /\ startedBy = [i \in Instance |-> {}]
  /\ loose = {}

At(o, s)    == {i \in Instance : stage[o][i] \in s}
\* The instances an invocation has claimed and not yet let go of.
Holds(o, i) == stage[o][i] \notin {"none", "candidate"}
Active(o)   == phase[o] \notin {"idle", "done"}

GoTo(o, p)        == phase' = [phase EXCEPT ![o] = p]
Advance(o, i, s)  == stage' = [stage EXCEPT ![o][i] = s]
\* An invocation that ends remembers nothing.
Ends(o) ==
  /\ GoTo(o, "done")
  /\ stage' = [stage EXCEPT ![o] = [i \in Instance |-> "none"]]
  /\ needed' = [needed EXCEPT ![o] = 0]
  /\ exhausted' = [exhausted EXCEPT ![o] = {}]
  /\ outcome' = [outcome EXCEPT ![o] = "release"]
  /\ runLeft' = [runLeft EXCEPT ![o] = 0]
  /\ batchAge' = [batchAge EXCEPT ![o] = 0]

OneFewer(o)       == needed' = [needed EXCEPT ![o] = IF @ > 0 THEN @ - 1 ELSE 0]

\* bestEffort: the write happens, or an error is logged and the code goes on.
BestEffortIndex(i, write) ==
  \/ write /\ UNCHANGED <<faults, loose>>
  \/ Fault /\ UNCHANGED index /\ loose' = loose \cup {i}

-----------------------------------------------------------------------------
\* Mutant of Candidate: an instance may be claimed right up to its expiry.
CandidateUntilExpiry(i) ==
  index[i].state = "WARM" /\ ~LiveClaim(i) /\ index[i].cool = 0 /\ expires[i] > 0

\* warmCandidates, except the newest-first order: any candidate may be next.
Candidate(i) ==
  /\ index[i].state = "WARM"
  /\ ~LiveClaim(i)
  /\ index[i].cool = 0
  /\ expires[i] > Grace

Query(o, n) ==
  /\ phase[o] = "idle"
  /\ GoTo(o, "claim")
  /\ stage' = [stage EXCEPT ![o] =
                 [i \in Instance |-> IF Candidate(i) THEN "candidate" ELSE "none"]]
  /\ needed' = [needed EXCEPT ![o] = n]
  /\ runLeft' = [runLeft EXCEPT ![o] = LambdaTime]
  /\ UNCHANGED <<index, fleetVars, exhausted, outcome, batchAge, historyVars>>

\* Mutant of WantsMore: one claim more than asked for.
WantsOneTooMany(o) == Cardinality(At(o, {"claimed"})) <= needed[o]

WantsMore(o) == Cardinality(At(o, {"claimed"})) < needed[o]

\* claimWarmInstances: one claim; a lost claim only drops the candidate.
ClaimOne(o, i) ==
  /\ phase[o] = "claim"
  /\ stage[o][i] = "candidate"
  /\ WantsMore(o)
  /\ Claim(o, i)
  /\ Advance(o, i, IF CanClaim(i) THEN "claimed" ELSE "none")
  /\ UNCHANGED <<fleetVars, phase, needed, exhausted, outcome, runLeft, batchAge, historyVars>>

\* The answer to a claim is lost, and repeating the call fails its own condition: the
\* invocation believes that another one claimed the instance.
ClaimAnswerLost(o, i) ==
  /\ phase[o] = "claim"
  /\ stage[o][i] = "candidate"
  /\ WantsMore(o)
  /\ CanClaim(i)
  /\ Fault
  /\ Claim(o, i)
  /\ Advance(o, i, "none")
  /\ loose' = loose \cup {i}
  /\ UNCHANGED <<ec2, tag, reg, age, expires, owned, events, phase, needed, exhausted, outcome,
                 runLeft, batchAge, startedBy>>

\* A claim throws; the write may have reached the table.  Every earlier claim is released.
ClaimError(o, i) ==
  /\ phase[o] = "claim"
  /\ stage[o][i] = "candidate"
  /\ WantsMore(o)
  /\ Fault
  /\ \/ Claim(o, i) /\ loose' = loose \cup {i}
     \/ UNCHANGED <<index, loose>>
  /\ stage' = [stage EXCEPT ![o] =
                 [j \in Instance |-> IF @[j] = "claimed" THEN "undo" ELSE "none"]]
  /\ outcome' = [outcome EXCEPT ![o] = "release"]
  /\ GoTo(o, "abort")
  /\ UNCHANGED <<ec2, tag, reg, age, expires, owned, events, needed, exhausted, runLeft,
                 batchAge, startedBy>>

BeginBatch(o) ==
  /\ phase[o] = "claim"
  /\ \/ Cardinality(At(o, {"claimed"})) = needed[o]
     \/ At(o, {"candidate"}) = {}
  /\ IF At(o, {"claimed"}) = {} THEN Ends(o)
     ELSE /\ GoTo(o, "start")
          /\ UNCHANGED <<stage, needed, exhausted, outcome, runLeft, batchAge>>
  /\ UNCHANGED <<index, fleetVars, historyVars>>

-----------------------------------------------------------------------------
\* Mutant of BetweenInstances: the loop starts an instance before the last one is settled.
BetweenAny(o) == phase[o] = "start"

\* activateBatch: its first loop finishes one instance before the next.
BetweenInstances(o) ==
  phase[o] = "start" /\ At(o, {"tagged", "untag", "retag", "undo"}) = {}

\* The rollback of an instance begins; the slot falls back unless another instance may serve it.
BeginRollback(o, i, first, rollback) ==
  /\ Advance(o, i, first)
  /\ outcome' = [outcome EXCEPT ![o] = rollback]
  /\ IF rollback = "unusable" THEN UNCHANGED needed ELSE OneFewer(o)

SkipExhausted(o, i) ==
  /\ BetweenInstances(o)
  /\ stage[o][i] = "claimed"
  /\ pairOf[i] \in exhausted[o]
  /\ BeginRollback(o, i, "undo", "release")
  /\ UNCHANGED <<index, fleetVars, phase, exhausted, runLeft, batchAge, historyVars>>

ActivationTags(o, i) ==
  /\ tag' = [tag EXCEPT ![i] = batchAge[o]]
  /\ owned' = owned \cup {i}

TagOne(o, i) ==
  /\ BetweenInstances(o)
  /\ stage[o][i] = "claimed"
  /\ pairOf[i] \notin exhausted[o]
  /\ ActivationTags(o, i)
  /\ Advance(o, i, "tagged")
  /\ UNCHANGED <<index, ec2, reg, age, expires, events, faults, phase, needed, exhausted,
                 outcome, runLeft, batchAge, historyVars>>

\* CreateTags throws; the tag may have been written.
TagError(o, i) ==
  /\ BetweenInstances(o)
  /\ stage[o][i] = "claimed"
  /\ pairOf[i] \notin exhausted[o]
  /\ Fault
  /\ ActivationTags(o, i) \/ UNCHANGED <<tag, owned>>
  /\ BeginRollback(o, i, "untag", "release")
  /\ UNCHANGED <<index, ec2, reg, age, expires, events, phase, exhausted, runLeft, batchAge,
                 historyVars>>

StartOne(o, i) ==
  /\ stage[o][i] = "tagged"
  /\ ec2[i] \in Running \cup Stopped
  /\ StartEffect(i)
  /\ Advance(o, i, "running")
  /\ startedBy' = [startedBy EXCEPT ![i] = @ \cup {o}]
  /\ UNCHANGED <<index, tag, reg, expires, owned, events, faults, phase, needed, exhausted,
                 outcome, runLeft, batchAge, loose>>

\* InvalidInstanceID.NotFound or IncorrectInstanceState.
StartStale(o, i) ==
  /\ stage[o][i] = "tagged"
  /\ ec2[i] \notin Running \cup Stopped
  /\ BeginRollback(o, i, "untag", "unusable")
  /\ UNCHANGED <<index, fleetVars, phase, exhausted, runLeft, batchAge, historyVars>>

StartNoCapacity(o, i) ==
  /\ stage[o][i] = "tagged"
  /\ ec2[i] \in Stopped
  /\ Fault
  /\ BeginRollback(o, i, "untag", "cooldown")
  /\ exhausted' = [exhausted EXCEPT ![o] = @ \cup {pairOf[i]}]
  /\ UNCHANGED <<index, ec2, tag, reg, age, expires, owned, events, phase, runLeft, batchAge,
                 historyVars>>

\* Any other error; the instance may have started.
StartError(o, i) ==
  /\ stage[o][i] = "tagged"
  /\ Fault
  /\ \/ ec2[i] \in Stopped /\ StartEffect(i)
     \/ UNCHANGED <<ec2, age>>
  /\ BeginRollback(o, i, "untag", "release")
  /\ UNCHANGED <<index, tag, reg, expires, owned, events, phase, exhausted, runLeft, batchAge,
                 historyVars>>

\* rollbackActivation: remove the activation tag, restore the pool's tags, then settle
\* the index entry.
Untag(o, i) ==
  /\ stage[o][i] = "untag"
  /\ \/ tag' = [tag EXCEPT ![i] = -1] /\ UNCHANGED <<faults, loose>>
     \/ Fault /\ UNCHANGED tag /\ loose' = loose \cup {i}
  /\ Advance(o, i, "retag")
  /\ UNCHANGED <<index, ec2, reg, age, expires, owned, events, phase, needed, exhausted,
                 outcome, runLeft, batchAge, startedBy>>

Retag(o, i) ==
  /\ stage[o][i] = "retag"
  /\ \/ owned' = owned \ {i} /\ UNCHANGED faults
     \/ Fault /\ UNCHANGED owned
  /\ Advance(o, i, "undo")
  /\ UNCHANGED <<index, ec2, tag, reg, age, expires, events, phase, needed, exhausted, outcome,
                 runLeft, batchAge, historyVars>>

SettleClaim(o, i) ==
  \/ outcome[o] = "unusable" /\ MarkUnusable(o, i)
  \/ outcome[o] = "cooldown" /\ ReleaseWithCooldown(o, i)
  \/ outcome[o] = "release"  /\ Release(o, i)

Undo(o, i) ==
  /\ stage[o][i] = "undo"
  /\ BestEffortIndex(i, SettleClaim(o, i))
  /\ Advance(o, i, "none")
  /\ UNCHANGED <<ec2, tag, reg, age, expires, owned, events, phase, needed, exhausted, outcome,
                 runLeft, batchAge, startedBy>>

AbortDone(o) ==
  /\ phase[o] = "abort"
  /\ At(o, {"undo"}) = {}
  /\ Ends(o)
  /\ UNCHANGED <<index, fleetVars, historyVars>>

-----------------------------------------------------------------------------
\* createStartRunnerConfig is called once for all the started instances.
BeginRegister(o) ==
  /\ BetweenInstances(o)
  /\ At(o, {"claimed"}) = {}
  /\ GoTo(o, IF At(o, {"running"}) = {} THEN "settle" ELSE "register")
  /\ batchAge' = [batchAge EXCEPT ![o] = 0]
  /\ UNCHANGED <<index, fleetVars, stage, needed, exhausted, outcome, runLeft, historyVars>>

\* createJitConfig: GitHub refuses a second runner of the same name.
RegisterOne(o, i) ==
  /\ phase[o] = "register"
  /\ stage[o][i] = "running"
  /\ IF reg[i] = "none"
     THEN \/ /\ reg' = [reg EXCEPT ![i] = "config"]
             /\ Advance(o, i, "registered")
             /\ UNCHANGED faults
          \/ /\ Fault
             /\ \E r \in RegState \ {"taken"} : reg' = [reg EXCEPT ![i] = r]
             /\ Advance(o, i, "unregistered")
     ELSE Advance(o, i, "unregistered") /\ UNCHANGED <<reg, faults>>
  /\ UNCHANGED <<index, ec2, tag, age, expires, owned, events, phase, needed, exhausted,
                 outcome, runLeft, batchAge, historyVars>>

\* Reading the runner group throws before any runner is created: every instance fails.
RegisterThrows(o) ==
  /\ phase[o] = "register"
  /\ At(o, {"registered", "unregistered"}) = {}
  /\ Fault
  /\ stage' = [stage EXCEPT ![o] =
                 [i \in Instance |-> IF @[i] = "running" THEN "unregistered" ELSE @[i]]]
  /\ UNCHANGED <<index, ec2, tag, reg, age, expires, owned, events, phase, needed,
                 exhausted, outcome, runLeft, batchAge, historyVars>>

BeginSettle(o) ==
  /\ phase[o] = "register"
  /\ At(o, {"running"}) = {}
  /\ GoTo(o, "settle")
  /\ UNCHANGED <<index, fleetVars, stage, needed, exhausted, outcome, runLeft, batchAge,
                 historyVars>>

\* The last loop of activateBatch also finishes one instance before the next.
Record(o, i) ==
  /\ phase[o] = "settle"
  /\ At(o, {"destroyed"}) = {}
  /\ stage[o][i] = "registered"
  /\ BestEffortIndex(i, MarkActivated(i))
  /\ Advance(o, i, "none")
  /\ OneFewer(o)
  /\ UNCHANGED <<ec2, tag, reg, age, expires, owned, events, phase, exhausted, outcome, runLeft,
                 batchAge, startedBy>>

\* destroyUnregistered: terminate, then mark the entry unusable.
DestroyUnregistered(o, i) ==
  /\ phase[o] = "settle"
  /\ At(o, {"destroyed"}) = {}
  /\ stage[o][i] = "unregistered"
  /\ \/ TerminateEffect(i) /\ UNCHANGED <<faults, loose>>
     \/ Fault /\ UNCHANGED ec2 /\ loose' = loose \cup {i}
  /\ Advance(o, i, "destroyed")
  /\ OneFewer(o)
  /\ UNCHANGED <<index, tag, reg, age, expires, owned, events, phase, exhausted, outcome,
                 runLeft, batchAge, startedBy>>

MarkDestroyed(o, i) ==
  /\ stage[o][i] = "destroyed"
  /\ BestEffortIndex(i, MarkUnusable(o, i))
  /\ Advance(o, i, "none")
  /\ UNCHANGED <<ec2, tag, reg, age, expires, owned, events, phase, needed, exhausted, outcome,
                 runLeft, batchAge, startedBy>>

\* The next batch, without the candidates whose capacity ran out.
NextBatch(o) ==
  LET left == {i \in At(o, {"candidate"}) : pairOf[i] \notin exhausted[o]}
  IN /\ phase[o] = "settle"
     /\ \A i \in Instance : ~Holds(o, i)
     /\ IF needed[o] > 0 /\ left # {}
        THEN /\ GoTo(o, "claim")
             /\ stage' = [stage EXCEPT ![o] =
                            [i \in Instance |-> IF i \in left THEN "candidate" ELSE "none"]]
             /\ UNCHANGED <<needed, exhausted, outcome, runLeft, batchAge>>
        ELSE Ends(o)
     /\ UNCHANGED <<index, fleetVars, historyVars>>

\* The invocation ends before activateWarmRunners does.
Crash(o) ==
  /\ Active(o)
  /\ Ends(o)
  /\ loose' = loose \cup {i \in Instance : Holds(o, i)}
  /\ UNCHANGED <<index, fleetVars, startedBy>>

-----------------------------------------------------------------------------
ActivateOne(o, i) ==
  \/ ClaimOne(o, i) \/ ClaimAnswerLost(o, i) \/ ClaimError(o, i)
  \/ SkipExhausted(o, i) \/ TagOne(o, i) \/ TagError(o, i)
  \/ StartOne(o, i) \/ StartStale(o, i) \/ StartNoCapacity(o, i) \/ StartError(o, i)
  \/ Untag(o, i) \/ Retag(o, i) \/ Undo(o, i)
  \/ RegisterOne(o, i) \/ Record(o, i) \/ DestroyUnregistered(o, i) \/ MarkDestroyed(o, i)

ActivationStep(o) ==
  \/ \E n \in 1 .. MaxNeeded : Query(o, n)
  \/ BeginBatch(o) \/ AbortDone(o) \/ BeginRegister(o) \/ RegisterThrows(o)
  \/ BeginSettle(o) \/ NextBatch(o) \/ Crash(o)
  \/ \E i \in Instance : ActivateOne(o, i)

\* The Lambda timeout: no time passes for an invocation that has none left.
ActivationElapse ==
  /\ \A o \in Invocation : Active(o) => runLeft[o] > 0
  /\ runLeft' = [o \in Invocation |-> IF Active(o) THEN runLeft[o] - 1 ELSE runLeft[o]]
  /\ batchAge' = [o \in Invocation |->
                    IF phase[o] = "start" /\ batchAge[o] < LambdaTime THEN batchAge[o] + 1
                    ELSE batchAge[o]]
  /\ UNCHANGED <<phase, stage, needed, exhausted, outcome, historyVars>>

-----------------------------------------------------------------------------
\* The instances an invocation still expects a runner from.
Serving(o) == At(o, {"claimed", "tagged", "running", "registered", "unregistered"})

\* Safety.  However claims, stale entries, fallbacks and further batches interleave,
\* an invocation never has more instances in hand than runners it still needs, so it
\* never activates more than activateWarmRunners was asked for.
ClaimsWithinDemand ==
  \A o \in Invocation : Cardinality(Serving(o)) <= needed[o]

\* Safety.  Once a start of an invocation failed for lack of capacity, that invocation
\* tags and starts no instance of the same type and zone, in this batch or a later one.
ExhaustedPairsAreLeftAlone ==
  \A o \in Invocation, i \in Instance : stage[o][i] = "tagged" => pairOf[i] \notin exhausted[o]

\* Safety.  Every way out of activateBatch settles the claim it took: an index entry
\* belongs to an invocation only while that invocation works on the instance, unless
\* the invocation ended early or one of its best-effort writes failed.
EndedClaimsAreLoose ==
  \A o \in Invocation, i \in Instance : index[i].owner = o => Holds(o, i) \/ i \in loose
=============================================================================
