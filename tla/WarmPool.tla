------------------------------ MODULE WarmPool ------------------------------
(****************************************************************************)
(* The warm pool: the index, the fleet, scale-up's activations and the      *)
(* Lambdas that look after the pool, interleaved at every AWS call.         *)
(****************************************************************************)
EXTENDS WarmActivation, WarmReconcile

vars == <<index, fleetVars, activationVars, historyVars, reconcileVars>>

Init == IndexInit /\ FleetInit /\ ActivationInit /\ ReconcileInit

Tick ==
  /\ ActivationElapse
  /\ IndexElapse
  /\ FleetElapse
  /\ ReconcileElapse

\* Every step but the clock's.
Step ==
  \/ \E o \in Invocation : ActivationStep(o) /\ UNCHANGED reconcileVars
  \/ PoolStep /\ UNCHANGED <<activationVars, historyVars>>
  \/ \E i \in Instance : UpkeepStep(i) /\ UNCHANGED <<activationVars, historyVars>>
  \/ SweepList /\ UNCHANGED <<activationVars, historyVars>>
  \/ \E i \in Instance : FleetStep(i) /\ UNCHANGED <<index, activationVars, historyVars,
                                                     reconcileVars>>

Next == Step \/ Tick

Spec == Init /\ [][Next]_vars

\* The schedules keep invoking the pool and scale-down, a run that has begun goes on
\* or ends, EC2 finishes the transitions it began, and time passes.  Nothing makes an
\* instance finish priming or its job, a job arrive or a stop event be delivered.
StepFairness ==
  /\ WF_vars(PoolStep /\ UNCHANGED <<activationVars, historyVars>>)
  /\ WF_vars(SweepList /\ UNCHANGED <<activationVars, historyVars>>)
  /\ \A i \in Instance :
       /\ WF_vars(SweepDestroy(i) /\ UNCHANGED <<activationVars, historyVars>>)
       /\ WF_vars((Boot(i) \/ StopDone(i) \/ TakeConfig(i))
                   /\ UNCHANGED <<index, activationVars, historyVars, reconcileVars>>)
  /\ \A o \in Invocation :
       WF_vars(Active(o) /\ ActivationStep(o) /\ UNCHANGED reconcileVars)

FairSpec == Spec /\ StepFairness /\ WF_vars(Tick)

TypeOK ==
  /\ index \in [Instance -> Item]
  /\ FleetTypeOK
  /\ ActivationTypeOK
  /\ ReconcileTypeOK

-----------------------------------------------------------------------------
Holders(i) == {o \in Invocation : Holds(o, i)}

\* Safety.  Two invocations never work on the same instance at the same time, whatever
\* the pool, the stop events and the clock do to the entry under the claim, unless
\* syncIndex removed that entry.
ExclusiveActivation ==
  \A i \in Instance \ torn : \A o1, o2 \in Holders(i) : o1 = o2

\* Safety.  Between removing an entry and terminating its instance, no invocation gets
\* hold of the instance: the pool destroys nothing that is being activated.
PoolSparesHeld ==
  doomed # None /\ doomed \notin torn => Holders(doomed) = {}

\* Safety.  An entry marked ACTIVATED is of an instance that carries the activation tag,
\* so losing the entry never makes the pool adopt a runner as standby.  Only where
\* syncIndex removed an entry under a claim may two invocations work on the instance, and
\* the rollback of one take the tag of the other.
RecordedActivationIsTagged ==
  \A i \in Instance \ torn : index[i].state = "ACTIVATED" => Activated(i)

\* Safety.  A second invocation starts an instance only when the first one's outcome
\* never reached the index.
SecondStartNeedsLooseEnd ==
  \A i \in Instance : Cardinality(startedBy[i]) > 1 => i \in loose

\* Action property.  The sweep acts on an old listing, yet what it destroys while an
\* invocation works on it had been left behind by an earlier activation: a first
\* activation is never swept, however close to its expiry the instance was claimed.
SweepSparesFirstActivation ==
  [][\A i \in Instance :
       i \in swept \ swept' /\ ec2'[i] = "terminated" /\ Holders(i) # {} => i \in loose]_vars

\* Liveness.  An instance that lost its index entry, or never got one, because a Lambda
\* ended between two writes, is adopted, terminated or activated after all.
UntrackedIsAdopted ==
  [](\A i \in Instance :
    (ec2[i] \in Live /\ ~Tracked(i) /\ ~Activated(i))
      => <>(Tracked(i) \/ Activated(i) \/ ec2[i] = "terminated"))

\* Liveness.  No index entry stays behind for an instance that is gone.
GoneIsForgotten ==
  [](\A i \in Instance : ec2[i] = "terminated" => <>(~Tracked(i)))

\* Liveness.  A stopped instance that carries the activation tag of an activation that
\* went no further is started, rolled back or destroyed: it does not stay stopped.
AbandonedIsSettled ==
  [](\A i \in Instance :
    (ec2[i] \in Stopped /\ Activated(i)) => <>(ec2[i] \notin Stopped \/ ~Activated(i)))

\* Liveness.  When a lost index write or a rolled-back activation made the pool launch
\* one instance too many, it sheds the surplus.
Standby == {i \in Instance : ec2[i] \in Live /\ ~Activated(i)}
SurplusIsShed ==
  (\A n \in Sizes : Cardinality(Standby) > n) ~> (\E n \in Sizes : Cardinality(Standby) <= n)

\* Liveness.  A standby instance that hangs in its boot script or was stopped by
\* something else than itself does not stay in the pool.
StandbyIsNotStuck ==
  [](\A i \in Instance :
    (ec2[i] \in {"priming", "halted"} /\ ~Activated(i))
      => <>(ec2[i] \notin {"priming", "halted"} \/ Activated(i)))

\* docs/warm-pool.md:13, "A warm instance is activated at most once and never returns to
\* the pool": a scale-up invocation only starts an instance no other one has started.
AtMostOneStart == \A i \in Instance : Cardinality(startedBy[i]) <= 1

\* control-plane/warm-pool.test.ts:184, 'never touches ACTIVE instances': what the pool run
\* terminates has no runner at work.
PoolSparesActive ==
  [][\A i \in Instance : i \in evicted' \ evicted => ec2[i] # "job"]_vars

-----------------------------------------------------------------------------
\* The leases the claims implement.
Lease == INSTANCE WarmLease WITH
  holder    <- [i \in Instance |-> IF i \in torn THEN {} ELSE Holders(i)],
  withdrawn <- evicted,
  void      <- torn

LeaseSpec == Lease!LeaseSpec

-----------------------------------------------------------------------------
\* The inductive invariant behind the safety properties above.

\* A claim outlives the invocation that took it, so its owner is still in the entry.
HoldersOwn ==
  \A o \in Invocation, i \in Instance :
    Holds(o, i) =>
      /\ Active(o)
      /\ i \notin torn => index[i].owner = o /\ index[i].left >= runLeft[o]

AbsentIsUnowned ==
  \A i \in Instance : index[i].state = "ABSENT" => index[i].owner = None

\* What a pool run still has to do belongs to the phase it is in.
PoolPhases ==
  /\ toWrite # {} => poolPhase \in {"adopt", "sync"}
  /\ toIndex # {} => poolPhase = "launch"
  /\ doomed # None => poolPhase = "evict"

\* The pool writes an instance's state only after it classified the instance.
WritesAreListed == \A i \in toWrite : listed[i] # "none"

DoomedIsAbsent ==
  doomed # None /\ doomed \notin torn => index[doomed].state = "ABSENT"

\* Nothing the pool will still write brings back the entry of an instance it terminated.
EvictedStaysAbsent ==
  \A i \in evicted :
    /\ ec2[i] = "terminated"
    /\ i \notin toWrite \cup toIndex
    /\ i \notin torn => index[i].state = "ABSENT"

IInv ==
  /\ TypeOK
  /\ HoldersOwn
  /\ AbsentIsUnowned
  /\ PoolPhases
  /\ WritesAreListed
  /\ DoomedIsAbsent
  /\ EvictedStaysAbsent
=============================================================================
