---------------------------- MODULE WarmReconcile ----------------------------
(****************************************************************************)
(* The three Lambdas that look after the pool while scale-up activates from *)
(* it: the scheduled pool run (control-plane/pool.ts and warm-pool.ts), the *)
(* stop-event consumer (control-plane/stop-events.ts) and scale-down's      *)
(* sweep of stopped warm instances (control-plane/scale-down.ts).  Each     *)
(* acts on a snapshot it took earlier; one pool run is under way at a time  *)
(* (reserved concurrency 1) and may end at any step.                        *)
(****************************************************************************)
EXTENDS WarmFleet, FiniteSets

CONSTANTS
  Sizes,            \* the pool sizes the schedules ask for
  ReconcileInterval \* WARM_POOL_RECONCILE_INTERVAL_SECONDS, in ticks

ASSUME ReconcileAssumption ==
  /\ Sizes \subseteq Nat
  /\ ReconcileInterval \in Nat

VARIABLES
  poolPhase,   \* where the pool run is
  seen,        \* the index items of this run: states and start failures
  listed,      \* what EC2 said of each indexed instance: a classification, or none
  listedAge,   \* time since the LaunchTime of that listing
  toWrite,     \* index updates of this run still to be made
  toDrop,      \* index entries of this run still to be dropped
  toEvict,     \* evictions still to be made
  doomed,      \* the instance whose entry is removed and which is terminated next
  size,        \* desiredSize
  toIndex,     \* launched instances still to be indexed
  reconcileIn, \* time until claimReconcile resolves true again
  primed,      \* instances a stop-event consumer read as WARM and is about to write
  swept,       \* stopped instances the sweep is about to destroy
  evicted,     \* history: instances the pool terminated
  torn         \* history: instances whose entry syncIndex removed under a live claim

poolVars      == <<poolPhase, seen, listed, listedAge, toWrite, toDrop, toEvict, doomed,
                   size, toIndex, reconcileIn>>
reconcileVars == <<poolVars, primed, swept, evicted, torn>>

PoolPhase == {"idle", "scan", "adopt", "read", "sync", "evict", "launch"}
SeenState == ItemState
Listed    == {"none", "PRIMING", "WARM", "GARBAGE"}

ReconcileTypeOK ==
  /\ poolPhase \in PoolPhase
  /\ seen \in [Instance -> [state : SeenState, fails : 0 .. StartFailureLimit]]
  /\ listed \in [Instance -> Listed]
  /\ listedAge \in [Instance -> 0 .. BootTime + 1]
  /\ toWrite \subseteq Instance
  /\ toDrop \subseteq Instance
  /\ toEvict \subseteq Instance
  /\ doomed \in Instance \cup {None}
  /\ size \in Sizes \cup {0}
  /\ toIndex \subseteq Instance
  /\ reconcileIn \in 0 .. ReconcileInterval
  /\ primed \subseteq Instance
  /\ swept \subseteq Instance
  /\ evicted \subseteq Instance
  /\ torn \subseteq Instance

Unseen == [i \in Instance |-> [state |-> "ABSENT", fails |-> 0]]
Unlisted == [i \in Instance |-> "none"]
NoAge    == [i \in Instance |-> 0]

ReconcileInit ==
  /\ poolPhase = "idle"
  /\ seen = Unseen
  /\ listed = Unlisted
  /\ listedAge = NoAge
  /\ toWrite = {} /\ toDrop = {} /\ toEvict = {} /\ toIndex = {}
  /\ doomed = None
  /\ size = 0
  /\ reconcileIn = 0
  /\ primed = {} /\ swept = {} /\ evicted = {} /\ torn = {}

\* What a run keeps in memory is gone when it ends.
PoolForgets ==
  /\ seen' = Unseen
  /\ listed' = Unlisted
  /\ listedAge' = NoAge
  /\ toWrite' = {} /\ toDrop' = {} /\ toEvict' = {} /\ toIndex' = {}
  /\ doomed' = None
  /\ size' = 0

-----------------------------------------------------------------------------
\* list: query the index, and scan by tag when the reconcile marker is due.
PoolQuery(n) ==
  /\ poolPhase = "idle"
  /\ size' = n
  /\ seen' = [i \in Instance |-> [state |-> index[i].state, fails |-> index[i].fails]]
  /\ poolPhase' = IF reconcileIn = 0 THEN "scan" ELSE "read"
  /\ reconcileIn' = IF reconcileIn = 0 THEN ReconcileInterval ELSE reconcileIn
  /\ UNCHANGED <<index, fleetVars, listed, listedAge, toWrite, toDrop, toEvict, doomed, toIndex,
                 primed, swept, evicted, torn>>

\* Mutant of Untracked: the scan asks for stopped instances only.
UntrackedStopped(i) ==
  ec2[i] \in Stopped /\ i \notin owned /\ seen[i].state = "ABSENT" /\ Classify(i) # "ACTIVE"

\* listStandby asks for live instances with the pool's own Owner and Type tags.
Untracked(i) ==
  ec2[i] \in Live /\ i \notin owned /\ seen[i].state = "ABSENT" /\ Classify(i) # "ACTIVE"

\* adoptUntracked: the live instances the index does not have and no activation owns.
PoolScan ==
  LET untracked == {i \in Instance : Untracked(i)}
  IN /\ poolPhase = "scan"
     /\ poolPhase' = "adopt"
     /\ toWrite' = untracked
     /\ listed' = [i \in Instance |-> IF i \in untracked THEN Classify(i) ELSE "none"]
     /\ UNCHANGED <<index, fleetVars, seen, listedAge, toDrop, toEvict, doomed, size, toIndex,
                    reconcileIn, primed, swept, evicted, torn>>

PoolAdopt(i) ==
  /\ poolPhase = "adopt"
  /\ i \in toWrite
  /\ IndexUpdate(i, listed[i])
  /\ toWrite' = toWrite \ {i}
  /\ seen' = [seen EXCEPT ![i] = [state |-> listed[i], fails |-> @.fails]]
  /\ UNCHANGED <<fleetVars, poolPhase, listed, listedAge, toDrop, toEvict, doomed, size,
                 toIndex, reconcileIn, primed, swept, evicted, torn>>

PoolAdopted ==
  /\ poolPhase = "adopt"
  /\ toWrite = {}
  /\ poolPhase' = "read"
  /\ UNCHANGED <<index, fleetVars, seen, listed, listedAge, toWrite, toDrop, toEvict,
                 doomed, size, toIndex, reconcileIn, primed, swept, evicted, torn>>

\* An entry the run read: gone or settled ones are finished, unactivated ones classified.
\* activatedAt is the tag, else what the item recorded.
SeenActivated(i) == Activated(i) \/ seen[i].state = "ACTIVATED"
SeenSettled(i)   == IF Activated(i) THEN Settled(i) ELSE seen[i].state = "ACTIVATED"
\* Mutant of Finished: an entry goes only with its activation.
FinishedSettled(i) == SeenSettled(i)

Finished(i)      == ec2[i] = "terminated" \/ SeenSettled(i)

\* readStandby, and the updates syncIndex will make: every changed state, and any
\* other entry of which another field changed.
PoolRead ==
  LET known      == {i \in Instance : seen[i].state # "ABSENT"}
      classified == {i \in known : ec2[i] # "terminated" /\ ~SeenActivated(i)}
      restated   == {i \in classified : Classify(i) # seen[i].state}
  IN /\ poolPhase = "read"
     /\ poolPhase' = "sync"
     /\ listed' = [i \in Instance |-> IF i \in classified THEN Classify(i) ELSE "none"]
     /\ listedAge' = [i \in Instance |-> IF i \in classified THEN age[i] ELSE 0]
     /\ \E rewritten \in SUBSET (classified \ restated) : toWrite' = restated \cup rewritten
     /\ toDrop' = {i \in known : Finished(i)}
     /\ UNCHANGED <<index, fleetVars, seen, toEvict, doomed, size, toIndex, reconcileIn,
                    primed, swept, evicted, torn>>

\* syncIndex: best-effort updates, then best-effort removals.
PoolWrite(i) ==
  /\ poolPhase = "sync"
  /\ i \in toWrite
  /\ \/ IndexUpdate(i, listed[i]) /\ UNCHANGED faults
     \/ Fault /\ UNCHANGED index
  /\ toWrite' = toWrite \ {i}
  /\ UNCHANGED <<ec2, tag, reg, age, expires, owned, events, poolPhase, seen, listed, listedAge,
                 toDrop, toEvict, doomed, size, toIndex, reconcileIn, primed, swept,
                 evicted, torn>>

PoolDrop(i) ==
  /\ poolPhase = "sync"
  /\ toWrite = {}
  /\ i \in toDrop
  /\ \/ /\ Remove(i)
        /\ torn' = IF LiveClaim(i) THEN torn \cup {i} ELSE torn
        /\ UNCHANGED faults
     \/ Fault /\ UNCHANGED <<index, torn>>
  /\ toDrop' = toDrop \ {i}
  /\ UNCHANGED <<ec2, tag, reg, age, expires, owned, events, poolPhase, seen, listed, listedAge,
                 toWrite, toEvict, doomed, size, toIndex, reconcileIn, primed, swept,
                 evicted>>

-----------------------------------------------------------------------------
\* Mutant of Evictable: an instance that primes for too long is kept.
EvictableSettled(i) ==
  listed[i] = "GARBAGE" \/ (listed[i] = "WARM" /\ seen[i].fails >= StartFailureLimit)

\* selectEvictions.  Drift and max-age are facts about an instance that the system
\* does not change: any kept warm instance may have them.  Surplus instances are
\* taken in any order, not only oldest first.
Evictable(i) ==
  \/ listed[i] = "GARBAGE"
  \/ listed[i] = "PRIMING" /\ listedAge[i] > BootTime
  \/ listed[i] = "WARM" /\ seen[i].fails >= StartFailureLimit

\* Mutant of Surplus: one instance over the target is kept.
SurplusOffByOne(kept) == IF Cardinality(kept) > size + 1 THEN Cardinality(kept) - size ELSE 0

Surplus(kept) == IF Cardinality(kept) > size THEN Cardinality(kept) - size ELSE 0

PoolSelect ==
  LET must == {i \in Instance : Evictable(i)}
      warm == {i \in Instance : listed[i] = "WARM"} \ must
  IN /\ poolPhase = "sync"
     /\ toWrite = {} /\ toDrop = {}
     /\ poolPhase' = "evict"
     /\ \E outdated \in SUBSET warm :
          \E over \in SUBSET (warm \ outdated) :
            /\ Cardinality(over) = Surplus(warm \ outdated)
            /\ toEvict' = must \cup outdated \cup over
     /\ UNCHANGED <<index, fleetVars, seen, listed, listedAge, toWrite, toDrop, doomed,
                    size, toIndex, reconcileIn, primed, swept, evicted, torn>>

\* destroy: remove the entry unless it is claimed, then terminate.  A failure of
\* either leaves the instance and goes on to the next.
PoolRemove(i) ==
  /\ poolPhase = "evict"
  /\ doomed = None
  /\ i \in toEvict
  /\ toEvict' = toEvict \ {i}
  /\ IF CanRemoveUnclaimed(i)
     THEN \/ Remove(i) /\ doomed' = i /\ UNCHANGED faults
          \/ Fault /\ (Remove(i) \/ UNCHANGED index) /\ UNCHANGED doomed
     ELSE UNCHANGED <<index, doomed, faults>>
  /\ UNCHANGED <<ec2, tag, reg, age, expires, owned, events, poolPhase, seen, listed, listedAge,
                 toWrite, toDrop, size, toIndex, reconcileIn, primed, swept, evicted, torn>>

PoolTerminate(i) ==
  /\ poolPhase = "evict"
  /\ doomed = i
  /\ TerminateEffect(i)
  /\ evicted' = evicted \cup {i}
  /\ doomed' = None
  /\ listed' = [listed EXCEPT ![i] = "none"]
  /\ UNCHANGED <<index, tag, reg, age, expires, owned, events, faults, poolPhase, seen,
                 listedAge, toWrite, toDrop, toEvict, size, toIndex, reconcileIn, primed,
                 swept, torn>>

\* The call fails; EC2 may have terminated the instance all the same.
PoolTerminateError(i) ==
  /\ poolPhase = "evict"
  /\ doomed = i
  /\ Fault
  /\ doomed' = None
  /\ \/ TerminateEffect(i) /\ evicted' = evicted \cup {i}
     \/ UNCHANGED <<ec2, evicted>>
  /\ UNCHANGED <<index, tag, reg, age, expires, owned, events, poolPhase, seen, listed,
                 listedAge, toWrite, toDrop, toEvict, size, toIndex, reconcileIn, primed,
                 swept, torn>>

\* The refill: listed still holds what was not destroyed.  RunInstances may fall short.
PoolLaunch ==
  LET ready   == Cardinality({i \in Instance : listed[i] \in {"WARM", "PRIMING"}})
      unused  == {i \in Instance : ec2[i] = "none"}
  IN /\ poolPhase = "evict"
     /\ toEvict = {} /\ doomed = None
     /\ poolPhase' = "launch"
     /\ \E new \in SUBSET unused :
          /\ new # {} => Cardinality(new) <= size - ready
          /\ ec2' = [i \in Instance |-> IF i \in new THEN "pending" ELSE ec2[i]]
          /\ toIndex' = new
     /\ UNCHANGED <<index, tag, reg, age, expires, owned, events, faults, seen, listed,
                    listedAge, toWrite, toDrop, toEvict, doomed, size, reconcileIn, primed,
                    swept, evicted, torn>>

PoolIndexLaunched(i) ==
  /\ poolPhase = "launch"
  /\ i \in toIndex
  /\ toIndex' = toIndex \ {i}
  /\ \/ IndexUpdate(i, "PRIMING") /\ UNCHANGED faults
     \/ Fault /\ UNCHANGED index
  /\ UNCHANGED <<ec2, tag, reg, age, expires, owned, events, poolPhase, seen, listed, listedAge,
                 toWrite, toDrop, toEvict, doomed, size, reconcileIn, primed, swept,
                 evicted, torn>>

PoolFinish ==
  /\ poolPhase = "launch"
  /\ toIndex = {}
  /\ poolPhase' = "idle"
  /\ PoolForgets
  /\ UNCHANGED <<index, fleetVars, reconcileIn, primed, swept, evicted, torn>>

\* The run ends at any step; one under way in adoptUntracked lets index errors through.
PoolCrash ==
  /\ poolPhase # "idle"
  /\ Fault
  /\ poolPhase' = "idle"
  /\ PoolForgets
  /\ UNCHANGED <<index, ec2, tag, reg, age, expires, owned, events, reconcileIn, primed, swept,
                 evicted, torn>>

-----------------------------------------------------------------------------
\* processStopEvents and markPrimed: read the instance, write only if it reads WARM.
StopRead(i) ==
  /\ i \in events \ primed
  /\ IF Classify(i) = "WARM" THEN primed' = primed \cup {i} /\ UNCHANGED events
     ELSE events' = events \ {i} /\ UNCHANGED primed
  /\ UNCHANGED <<index, ec2, tag, reg, age, expires, owned, faults, poolVars, swept,
                 evicted, torn>>

StopWrite(i) ==
  /\ i \in primed
  /\ MarkWarm(i)
  /\ primed' = primed \ {i}
  /\ events' = events \ {i}
  /\ UNCHANGED <<ec2, tag, reg, age, expires, owned, faults, poolVars, swept, evicted, torn>>

\* The write or the consumer fails; the message is delivered again.
StopError(i) ==
  /\ i \in primed
  /\ Fault
  /\ primed' = primed \ {i}
  /\ MarkWarm(i) \/ UNCHANGED index
  /\ UNCHANGED <<ec2, tag, reg, age, expires, owned, events, poolVars, swept, evicted, torn>>

-----------------------------------------------------------------------------
\* Mutant of Sweepable: only standbys are swept, whatever became of an activation.
SweepableStandby(i) == ec2[i] \in Stopped /\ ~Activated(i) /\ expires[i] = 0

\* sweepStoppedWarmInstances: settled activations and expired standbys, as listed.
Sweepable(i) ==
  /\ ec2[i] \in Stopped
  /\ IF Activated(i) THEN Settled(i) ELSE expires[i] = 0

SweepList ==
  /\ swept = {}
  /\ swept' = {i \in Instance : Sweepable(i)}
  /\ UNCHANGED <<index, fleetVars, poolVars, primed, evicted, torn>>

SweepDestroy(i) ==
  /\ i \in swept
  /\ swept' = swept \ {i}
  /\ \/ TerminateEffect(i) /\ UNCHANGED faults
     \/ Fault /\ UNCHANGED ec2
  /\ UNCHANGED <<index, tag, reg, age, expires, owned, events, poolVars, primed, evicted, torn>>

-----------------------------------------------------------------------------
PoolOne(i) ==
  \/ PoolAdopt(i) \/ PoolWrite(i) \/ PoolDrop(i) \/ PoolRemove(i)
  \/ PoolTerminate(i) \/ PoolTerminateError(i) \/ PoolIndexLaunched(i)

PoolStep ==
  \/ \E n \in Sizes : PoolQuery(n)
  \/ PoolScan \/ PoolAdopted \/ PoolRead \/ PoolSelect \/ PoolLaunch \/ PoolFinish \/ PoolCrash
  \/ \E i \in Instance : PoolOne(i)

UpkeepStep(i) ==
  \/ StopRead(i) \/ StopWrite(i) \/ StopError(i) \/ SweepDestroy(i)

ReconcileElapse ==
  /\ reconcileIn' = IF reconcileIn > 0 THEN reconcileIn - 1 ELSE 0
  /\ listedAge' = [i \in Instance |->
                     IF listed[i] # "none" /\ listedAge[i] <= BootTime THEN listedAge[i] + 1
                     ELSE listedAge[i]]
  /\ UNCHANGED <<poolPhase, seen, listed, toWrite, toDrop, toEvict, doomed, size, toIndex,
                 primed, swept, evicted, torn>>
=============================================================================
