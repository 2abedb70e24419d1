--------------------------- MODULE RunnerScaling ---------------------------
(****************************************************************************)
(* Scale-up, job retry and the cold pool on the runners of one owner, with  *)
(* the jobs of GitHub.                                                      *)
(****************************************************************************)
EXTENDS ScaleUp, ColdPool

\* Terraform gives both Lambdas the same runners_maximum_count.
ASSUME ScalingAssumption == Pool \notin Worker /\ PoolMaximum = Maximum

vars == <<coldVars, queueVars, poolVars>>

TypeOK == ColdTypeOK /\ ScaleUpTypeOK /\ PoolTypeOK
Init   == ColdInit /\ ScaleUpInit /\ PoolInit

WorkerNext(w) == (ScaleUpStep(w) \/ BatchFails(w)) /\ UNCHANGED poolVars
ActorNext(a)  == LaunchStep(a) /\ UNCHANGED <<queueVars, poolVars>>
JobNext(j)    == (StartJob(j) \/ EndJob(j)) /\ UNCHANGED <<queueVars, poolVars>>
CancelNext(j) == CancelJob(j) /\ UNCHANGED <<queueVars, poolVars>>

Next ==
  \/ \E j \in Job : JobNext(j) \/ CancelNext(j) \/ (Enqueue(j) /\ UNCHANGED poolVars)
  \/ \E w \in Worker : WorkerNext(w)
  \/ \E a \in Actor : ActorNext(a)
  \/ \E m \in Message : (RetryCheck(m) \/ RetryFault(m)) /\ UNCHANGED poolVars
  \/ (PoolStep \/ PoolCrash) /\ UNCHANGED queueVars
  \/ (ScaleDown \/ \E l \in Label : Boot(l)) /\ UNCHANGED <<queueVars, poolVars>>

Spec == Init /\ [][Next]_vars

\* Lambda runs what it has started, SQS delivers what it holds, runners that
\* came online take jobs, jobs end, and scale-down keeps running.  Nothing is
\* assumed of the pool's schedule or of failures.
Fairness ==
  /\ \A w \in Worker : WF_vars(ScaleUpStep(w) /\ UNCHANGED poolVars)
  /\ \A a \in Actor : WF_vars(ActorNext(a))
  /\ WF_vars((\E m \in Message : RetryCheck(m)) /\ UNCHANGED poolVars)
  /\ WF_vars(\E j \in Job : JobNext(j))
  /\ WF_vars((\E l \in Label : Boot(l)) /\ UNCHANGED <<queueVars, poolVars>>)
  /\ WF_vars(ScaleDown /\ UNCHANGED <<queueVars, poolVars>>)

FairSpec == Spec /\ Fairness
-----------------------------------------------------------------------------
\* Scale-up and the pool never hold more runners than the maximum and what a
\* listing of the pool left out, unless a call was decided on a count that
\* another call had made stale meanwhile (scale-up.ts counts and creates
\* separately, and so does pool.ts).  What several runs left out does not add up.
MaximumUnlessRaced == Maximum # -1 => CurrentRunners <= Maximum + overlooked \/ raced

\* control-plane/pool/pool.ts:100, "The pool must never push the total number of
\* runners (busy + idle) past the configured maximum": it does not, even where
\* no other call is under way.
PoolKeepsMaximum == Maximum # -1 => CurrentRunners <= Maximum \/ raced

\* With job retry, a job that waits has a message in one of the queues or in
\* an invocation, unless its attempts are used up or a publication was lost
\* (publishRetryMessage and checkAndRetryJob).
QueuedJobIsTracked ==
  \A j \in Job : jobs[j] = "queued" =>
    \/ j \in excused
    \/ \E m \in Message : m.job = j /\ build[m] + retry[m] > 0
    \/ \E w \in Worker : \E p \in DOMAIN work[w].batch : work[w].batch[p].job = j

\* As many messages go back to the build queue as runners are missing for a
\* reason worth a retry: the two slices of a group never overlap or run short.
ShortfallGoesBack == \A w \in Worker : Cardinality(work[w].back) = work[w].short

\* Every runner a group asked for is made, or reported as retryable or final,
\* over the fleet, its on-demand failover and the registrations.
AllAccountedFor ==
  \A a \in Actor : LaunchStage(a, "done") =>
    launch[a].made + launch[a].retryable + launch[a].final = launch[a].asked

\* A job that waits starts, ends or is given up: the maximum, other jobs'
\* runners and batches that fail only delay it.  (A job is queued once, so
\* that none waits again and again means that none waits for ever.)
QueuedJobsAreServed ==
  []<>(\A j \in Job : jobs[j] = "queued" => j \in excused)
=============================================================================
